----------------------------- MODULE MjpgProxy ------------------------------
(***************************************************************************)
(* The HTTP input plugin of mjpg-streamer (input_http.c, mjpg-proxy.c,     *)
(* misc.c): it connects to another mjpg-streamer, takes the pictures out   *)
(* of the stream that the other's send_stream writes (httpd.c), and        *)
(* publishes them in its own global buffer.                                *)
(*                                                                         *)
(* The extractor sees one byte at a time, so that the sizes of what recv() *)
(* returns make no difference to it.  Its parser is modelled byte by byte, *)
(* with a short response: the bytes that its tests tell apart are here,    *)
(* and "h" and "x" stand for all other bytes of headers and of pictures.   *)
(* The end of a line is recognised by a bit mask, which other pairs of     *)
(* bytes pass as well; the "OK" of the status line is such a pair.         *)
(*                                                                         *)
(* The Content-Length pattern is left out: nothing is done when it matches.*)
(***************************************************************************)
EXTENDS Integers, Sequences, FiniteSetsExt

CONSTANTS
  Frames,      \* the pictures that the other server may send
  BufferSize,  \* BUFFER_SIZE
  MaxFrames    \* bound: pictures sent on one connection

VARIABLES
  link,       \* "down" before a connection, "up", or "done": the thread left
  streams,    \* does the other server stream, or does it refuse the request?
  toCome,     \* the bytes of the response that were written and not processed
  extractor,  \* struct extractor_state: part, last_four_bytes, buffer and how
              \* much of the boundary is matched; length is the buffer's
  stop,       \* pglobal->stop
  sent,       \* the pictures sent on this connection (history)
  delivered   \* what on_image_received was given on this connection (history)

vars == <<link, streams, toCome, extractor, stop, sent, delivered>>

-----------------------------------------------------------------------------
(* Bytes.  (13 << 8 | 10) & bytes is tested, not bytes.                    *)

CRLF == <<"CR", "LF">>
LikeCR == {"CR", "O", "-"}  \* 0x0D, 0x4F and 0x2D have the bits of 13
LikeLF == {"LF", "O", "K"}  \* 0x0A, 0x4F and 0x4B have the bits of 10
Boundary == <<"-", "-", "b">>

\* A picture that holds the boundary itself would be cut there.
HoldsBoundary(f) ==
  \E i \in 1 .. Len(f) - Len(Boundary) + 1 : SubSeq(f, i, i + Len(Boundary) - 1) = Boundary

ASSUME FramesAssumption ==
  \A f \in Frames : f \in Seq({"CR", "LF", "-", "b", "x"}) /\ ~HoldsBoundary(f)

\* What send_stream writes first, and what it writes for a picture.
Status == <<"O", "K">> \o CRLF
Headers == <<"h">> \o CRLF
ResponseHead == Status \o Headers \o CRLF \o Boundary \o CRLF
PartOf(f) == <<"h">> \o CRLF \o CRLF \o f \o CRLF \o Boundary \o CRLF
Refusal == <<"h">> \o CRLF \o Headers \o CRLF \o <<"x">>

\* Appended to a picture: what must fit into the buffer as well.
Overhead == Len(CRLF) + Len(Boundary)
TooLong(f) == Len(f) + Overhead > BufferSize - 1

ASSUME SizeAssumption ==
  /\ BufferSize \in Nat /\ MaxFrames \in Nat
  /\ ~TooLong(Headers)

-----------------------------------------------------------------------------
(* init_extractor_state and the state at the start.                        *)

\* Mutant: last_four_bytes keeps the end of the previous header.
Fresh_KeepsBytes ==
  [part |-> "header", lastFour |-> CRLF \o CRLF, buffer |-> <<>>, matched |-> 0]

Fresh == [part |-> "header", lastFour |-> <<"0", "0", "0", "0">>, buffer |-> <<>>, matched |-> 0]

Init ==
  /\ link = "down" /\ streams = FALSE
  /\ toCome = <<>> /\ extractor = Fresh
  /\ stop = FALSE
  /\ sent = <<>> /\ delivered = <<>>

-----------------------------------------------------------------------------
(* The other server.                                                       *)

\* It answers a connection, and goes on with pictures, or refuses the request.
Connect ==
  /\ link = "down" /\ link' = "up"
  /\ streams' \in BOOLEAN
  /\ toCome' = IF streams' THEN ResponseHead ELSE Refusal
  /\ extractor' = Fresh
  /\ sent' = <<>> /\ delivered' = <<>>
  /\ UNCHANGED stop

SendFrame ==
  /\ link = "up" /\ streams /\ toCome = <<>> /\ Len(sent) < MaxFrames
  /\ \E f \in Frames : sent' = Append(sent, f) /\ toCome' = PartOf(f)
  /\ UNCHANGED <<link, streams, extractor, stop, delivered>>

-----------------------------------------------------------------------------
(* extract_data.                                                           *)

\* Mutant: exactly CR and LF are accepted.
IsCrlf_Exact(a, b) == <<a, b>> = CRLF

\* is_crlf
IsCrlf(a, b) == a \in LikeCR /\ b \in LikeLF

\* is_crlfcrlf
IsCrlfCrlf(s) == IsCrlf(s[1], s[2]) /\ IsCrlf(s[3], s[4])

\* push_byte
PushByte(s, byte) == Append(Tail(s), byte)

HeaderByte(byte) ==
  LET bytes == PushByte(extractor.lastFour, byte)
  IN  /\ extractor.part = "header"
      /\ extractor' = [extractor EXCEPT
           !.lastFour = bytes,
           !.part = IF IsCrlfCrlf(bytes) THEN "content" ELSE "header"]
      /\ UNCHANGED delivered

\* Mutant: a mismatch does not start the search again.
Compare_NoReset(n, byte) == IF Boundary[n + 1] = byte THEN n + 1 ELSE n

\* search_pattern_compare: a byte that does not fit starts the search again and
\* is not looked at a second time.
Compare(n, byte) == IF Boundary[n + 1] = byte THEN n + 1 ELSE 0

\* state->length -= strlen(boundary) + 2
PictureLength(n) == n - Overhead

\* Mutant: the buffer is filled to one byte more than the limit.
Full_OffByOne == Len(extractor.buffer) >= BufferSize

\* The buffer is full: the byte is dropped, and not compared.
Full == Len(extractor.buffer) >= BufferSize - 1

\* A byte of content.  With the last byte of the boundary, on_image_received is
\* called and the extractor starts again.
ContentByte(byte) ==
  LET buffer == Append(extractor.buffer, byte)
      matched == Compare(extractor.matched, byte)
      length == PictureLength(Len(buffer))
  IN  /\ extractor.part = "content"
      /\ \/ /\ Full
            /\ UNCHANGED <<extractor, delivered>>
         \/ /\ ~Full /\ matched < Len(Boundary)
            /\ extractor' = [extractor EXCEPT !.buffer = buffer, !.matched = matched]
            /\ UNCHANGED delivered
         \/ /\ ~Full /\ matched = Len(Boundary)
            /\ delivered' = Append(delivered, [length |-> length, data |-> SubSeq(buffer, 1, length)])
            /\ extractor' = Fresh

\* The body of the loop; should_stop is tested for every byte.
Extract ==
  /\ link = "up" /\ toCome # <<>> /\ ~stop
  /\ HeaderByte(Head(toCome)) \/ ContentByte(Head(toCome))
  /\ toCome' = Tail(toCome)
  /\ UNCHANGED <<link, streams, stop, sent>>

-----------------------------------------------------------------------------
(* connect_and_stream.                                                     *)

\* recv() returns 0 or an error, or it returns and the program is being stopped:
\* the socket is closed and, unless stopped, connected again.
Hangup ==
  /\ link = "up"
  /\ link' = IF stop THEN "done" ELSE "down"
  /\ UNCHANGED <<streams, toCome, extractor, stop, sent, delivered>>

\* signal_handler
Stop ==
  /\ ~stop /\ stop' = TRUE
  /\ UNCHANGED <<link, streams, toCome, extractor, sent, delivered>>

\* input_stop: the thread is cancelled in recv, connect or sleep.
Cancelled ==
  /\ stop /\ link # "done" /\ link' = "done"
  /\ UNCHANGED <<streams, toCome, extractor, stop, sent, delivered>>

Next == Connect \/ SendFrame \/ Extract \/ Hangup \/ Stop \/ Cancelled

Spec == Init /\ [][Next]_vars

-----------------------------------------------------------------------------
(* Properties.                                                             *)

\* Every variable stays in its range; the buffer, like the global buffer it is
\* copied to, is never written past its end, and memcpy is never called with a
\* negative length.  The last holds only because "OK" and a line end pass for an
\* empty line: the content begins after the status line, and the headers come
\* before the first boundary.
TypeOK ==
  /\ link \in {"down", "up", "done"} /\ {streams, stop} \subseteq BOOLEAN
  /\ toCome \in Seq({"CR", "LF", "O", "K", "h", "-", "b", "x"})
  /\ extractor.part \in {"header", "content"}
  /\ Len(extractor.lastFour) = 4
  /\ Len(extractor.buffer) <= BufferSize - 1
  /\ extractor.matched \in 0 .. Len(Boundary) - 1
  /\ sent \in Seq(Frames) /\ Len(sent) <= MaxFrames
  /\ \A i \in 1 .. Len(delivered) : delivered[i].length \in 0 .. BufferSize - 1

\* What is published is a whole picture of the other server, whatever bytes it
\* is made of.  The first publication of every connection is no picture: it is
\* the headers of the response.
DeliveredWhole ==
  \A i \in 1 .. Len(delivered) :
    delivered[i].data = IF i = 1 THEN Headers ELSE sent[i - 1]

\* No picture is passed over, and none is published before its boundary has come
\* whole.  A picture that is too long for the buffer ends the publications of
\* its connection, those of shorter pictures included.
Ended == Len(sent) + (IF Len(toCome) > Len(CRLF) THEN 0 ELSE 1)
TooLongOnes == {i \in 1 .. Len(sent) : TooLong(sent[i])}
NoneMissed ==
  Len(delivered) = IF ~streams THEN 0 ELSE Min(TooLongOnes \cup {Ended})

=============================================================================
