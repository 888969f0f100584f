-------------------------- MODULE MjpgProxyProofs ---------------------------
(***************************************************************************)
(* What the extractor of MjpgProxy keeps, for any pictures that do not     *)
(* hold the boundary, of any length, and any size of the buffer that takes *)
(* the headers of a response.                                              *)
(*                                                                         *)
(* The invariant says where in the response the extractor is, and what it  *)
(* holds there: byte by byte in the headers, by induction over the bytes   *)
(* that have come in a picture.                                            *)
(***************************************************************************)
EXTENDS MjpgProxy, SequenceTheorems, TLAPS

Bytes == {"CR", "LF", "O", "K", "h", "-", "b", "x"}
Fours == {s \in Seq(Bytes \cup {"0"}) : Len(s) = 4}
Extractors ==
  [part : {"header", "content"}, lastFour : Fours, buffer : Seq(Bytes), matched : 0 .. 2]
Images == [length : Int, data : Seq(Bytes)]

TypeInv ==
  /\ link \in {"down", "up", "done"} /\ streams \in BOOLEAN /\ stop \in BOOLEAN
  /\ toCome \in Seq(Bytes)
  /\ extractor \in Extractors /\ Len(extractor.buffer) <= BufferSize - 1
  /\ sent \in Seq(Frames) /\ Len(sent) <= MaxFrames
  /\ delivered \in Seq(Images)

\* The content that is being extracted: the headers of the response, or the
\* picture that was sent last; and how it is framed.
Current == IF sent = <<>> THEN Headers ELSE sent[Len(sent)]
Framed(f) == f \o CRLF \o Boundary \o CRLF

\* What of s has not been processed, the first k bytes of it having been.
Left(s, k) == Len(toCome) = Len(s) - k /\ \A i \in 1 .. Len(toCome) : toCome[i] = s[i + k]

\* The extractor within a header, after the bytes given and no others that count.
Header(bytes) == extractor = [part |-> "header", lastFour |-> bytes, buffer |-> <<>>, matched |-> 0]
Content(bytes) == extractor = [part |-> "content", lastFour |-> bytes, buffer |-> <<>>, matched |-> 0]
Heads(s, k, bytes) == Left(s, k) /\ Header(bytes)

Nothing ==
  /\ ~streams /\ sent = <<>> /\ delivered = <<>> /\ toCome = <<>>

\* A refusal: what looks like an empty line comes once, before the last byte.
InRefusal ==
  \/ Heads(Refusal, 0, <<"0", "0", "0", "0">>) \/ Heads(Refusal, 1, <<"0", "0", "0", "h">>)
  \/ Heads(Refusal, 2, <<"0", "0", "h", "CR">>) \/ Heads(Refusal, 3, <<"0", "h", "CR", "LF">>)
  \/ Heads(Refusal, 4, <<"h", "CR", "LF", "h">>) \/ Heads(Refusal, 5, <<"CR", "LF", "h", "CR">>)
  \/ Heads(Refusal, 6, <<"LF", "h", "CR", "LF">>) \/ Heads(Refusal, 7, <<"h", "CR", "LF", "CR">>)
  \/ Left(Refusal, 8) /\ extractor.part = "content" /\ extractor.buffer = <<>> /\ extractor.matched = 0
  \/ Left(Refusal, 9)
Refused == ~streams /\ sent = <<>> /\ delivered = <<>> /\ InRefusal

\* The status line of a response, which passes for an empty line.
InStatus ==
  \/ Heads(ResponseHead, 0, <<"0", "0", "0", "0">>) \/ Heads(ResponseHead, 1, <<"0", "0", "0", "O">>)
  \/ Heads(ResponseHead, 2, <<"0", "0", "O", "K">>) \/ Heads(ResponseHead, 3, <<"0", "O", "K", "CR">>)

\* The header of the part that holds picture f.
InPart(f) ==
  \/ Heads(PartOf(f), 0, <<"0", "0", "CR", "LF">>) \/ Heads(PartOf(f), 1, <<"0", "CR", "LF", "h">>)
  \/ Heads(PartOf(f), 2, <<"CR", "LF", "h", "CR">>) \/ Heads(PartOf(f), 3, <<"LF", "h", "CR", "LF">>)
  \/ Heads(PartOf(f), 4, <<"h", "CR", "LF", "CR">>)

\* The content, of which k bytes are in the buffer: matched tells how many of the
\* last of them begin a boundary.
Filled(f, k) ==
  /\ Len(extractor.buffer) = k
  /\ \A i \in 1 .. k : extractor.buffer[i] = Framed(f)[i]
Matching(f, k) ==
  /\ extractor.matched <= k
  /\ extractor.matched >= 1 => Framed(f)[k] = "-"
  /\ extractor.matched = 2 => Framed(f)[k - 1] = "-"
  /\ k >= Len(f) + 2 => extractor.matched = k - Len(f) - 2
InContent(f) ==
  \E k \in 0 .. Len(f) + 4 : Left(Framed(f), k) /\ extractor.part = "content" /\ Filled(f, k) /\ Matching(f, k)

\* The end of the line of a boundary.
InEnd ==
  \/ Heads(CRLF, 0, <<"0", "0", "0", "0">>) \/ Heads(CRLF, 1, <<"0", "0", "0", "CR">>)
  \/ Heads(CRLF, 2, <<"0", "0", "CR", "LF">>)

\* The first n pictures of the connection fit into the buffer.
Fit(n) == \A i \in 1 .. n : ~TooLong(sent[i])

AtStatus == streams /\ sent = <<>> /\ delivered = <<>> /\ InStatus
AtPart == streams /\ sent # <<>> /\ Len(delivered) = Len(sent) /\ Fit(Len(sent) - 1) /\ InPart(Current)
AtContent == streams /\ Len(delivered) = Len(sent) /\ Fit(Len(sent) - 1) /\ InContent(Current)
AtEnd == streams /\ Len(delivered) = Len(sent) + 1 /\ Fit(Len(sent)) /\ InEnd

\* A picture that does not fit: nothing comes through any more.
Blocked ==
  /\ streams /\ extractor.part = "content" /\ Full
  /\ \E n \in 1 .. Len(sent) : TooLong(sent[n]) /\ Fit(n - 1) /\ Len(delivered) = n

Place == Nothing \/ Refused \/ AtStatus \/ AtPart \/ AtContent \/ AtEnd \/ Blocked

DeliveredInv ==
  /\ Len(delivered) <= Len(sent) + 1
  /\ \A i \in 1 .. Len(delivered) : delivered[i].length \in 0 .. BufferSize - 1
  /\ DeliveredWhole

ProxyInv == TypeInv /\ Place /\ DeliveredInv

-----------------------------------------------------------------------------
(* Sequences.                                                              *)

\* The constants are sequences of bytes.
LEMMA ShortSeqs ==
  /\ CRLF \in Seq(Bytes) /\ Len(CRLF) = 2 /\ CRLF[1] = "CR" /\ CRLF[2] = "LF" /\ CRLF # <<>>
  /\ Boundary \in Seq(Bytes) /\ Len(Boundary) = 3
  /\ Boundary[1] = "-" /\ Boundary[2] = "-" /\ Boundary[3] = "b"
  /\ <<"h">> \in Seq(Bytes) /\ Len(<<"h">>) = 1 /\ <<"h">>[1] = "h"
  /\ <<"x">> \in Seq(Bytes) /\ Len(<<"x">>) = 1 /\ <<"x">>[1] = "x"
  /\ Overhead = 5
<1>1. CRLF \in Seq(Bytes) /\ Len(CRLF) = 2 /\ CRLF[1] = "CR" /\ CRLF[2] = "LF" /\ CRLF # <<>>
  BY DEF CRLF, Bytes
<1>2. Boundary \in Seq(Bytes) /\ Len(Boundary) = 3 BY DEF Boundary, Bytes
<1>3. Boundary[1] = "-" /\ Boundary[2] = "-" /\ Boundary[3] = "b" BY DEF Boundary
<1>4. <<"h">> \in Seq(Bytes) /\ <<"x">> \in Seq(Bytes) BY DEF Bytes
<1>5. Overhead = 5 BY <1>1, <1>2 DEF Overhead
<1>6. QED BY <1>1, <1>2, <1>3, <1>4, <1>5

\* One after the other.
Cat(s, t) == s \o t

\* The byte at a place of two sequences, one after the other.
LEMMA ConcatLen ==
  ASSUME NEW s \in Seq(Bytes), NEW t \in Seq(Bytes)
  PROVE  /\ Cat(s, t) \in Seq(Bytes) /\ Len(Cat(s, t)) = Len(s) + Len(t)
         /\ \A i \in 1 .. Len(s) : Cat(s, t)[i] = s[i]
         /\ \A i \in 1 .. Len(t) : Cat(s, t)[Len(s) + i] = t[i]
<1>1. Cat(s, t) \in Seq(Bytes) /\ Len(Cat(s, t)) = Len(s) + Len(t) BY ConcatProperties DEF Cat
<1>2. PICK m \in Nat, n \in Nat : m = Len(s) /\ n = Len(t) OBVIOUS
<1>3. \A i \in 1 .. m + n : Cat(s, t)[i] = IF i <= m THEN s[i] ELSE t[i - m]
  BY <1>2, ConcatProperties DEF Cat
<1>4. \A i \in 1 .. n : m + i \in 1 .. m + n /\ ~(m + i <= m) /\ m + i - m = i
  OBVIOUS
<1>5. \A i \in 1 .. m : i \in 1 .. m + n /\ i <= m OBVIOUS
<1>6. \A i \in 1 .. n : Cat(s, t)[m + i] = t[i] BY <1>3, <1>4
<1>7. \A i \in 1 .. m : Cat(s, t)[i] = s[i] BY <1>3, <1>5
<1>8. QED BY <1>1, <1>2, <1>6, <1>7

\* The same, with the lengths given.
LEMMA Concat ==
  ASSUME NEW s \in Seq(Bytes), NEW t \in Seq(Bytes), NEW m \in Nat, NEW n \in Nat, Len(s) = m, Len(t) = n
  PROVE  /\ Cat(s, t) \in Seq(Bytes) /\ Len(Cat(s, t)) = m + n
         /\ \A i \in 1 .. m : Cat(s, t)[i] = s[i]
         /\ \A i \in 1 .. n : Cat(s, t)[m + i] = t[i]
<1>1. /\ Cat(s, t) \in Seq(Bytes) /\ Len(Cat(s, t)) = Len(s) + Len(t)
      /\ \A i \in 1 .. Len(s) : Cat(s, t)[i] = s[i]
      /\ \A i \in 1 .. Len(t) : Cat(s, t)[Len(s) + i] = t[i]
  BY ConcatLen, Zenon
<1>2. QED BY <1>1, Zenon

\* What is put at the end of a sequence makes it longer by one, and changes nothing else.
LEMMA LongerByOne ==
  ASSUME NEW S, NEW s \in Seq(S), NEW e, NEW n \in Nat, n = Len(s)
  PROVE  /\ Len(Append(s, e)) = n + 1 /\ (\A i \in 1 .. n : Append(s, e)[i] = s[i]) /\ Append(s, e)[n + 1] = e
<1>1. s \in Seq(S \cup {e}) OBVIOUS
<1>2. e \in S \cup {e} OBVIOUS
<1>3. QED BY <1>1, <1>2, AppendProperties

\* How sequences are put together is all the same.
LEMMA ConcatAny ==
  ASSUME NEW s \in Seq(Bytes), NEW t \in Seq(Bytes), NEW u \in Seq(Bytes)
  PROVE  Cat(Cat(s, t), u) = Cat(s, Cat(t, u)) /\ Cat(s, t) \in Seq(Bytes) /\ Cat(t, u) \in Seq(Bytes)
BY ConcatAssociative, ConcatProperties, SMT DEF Cat

\* A line end is added.
LEMMA AddLine ==
  ASSUME NEW s \in Seq(Bytes), NEW n \in Nat, Len(s) = n
  PROVE  /\ Cat(s, CRLF) \in Seq(Bytes) /\ Len(Cat(s, CRLF)) = n + 2 /\ \A i \in 1 .. n : Cat(s, CRLF)[i] = s[i]
         /\ Cat(s, CRLF)[n + 1] = "CR" /\ Cat(s, CRLF)[n + 2] = "LF"
<1>1. 2 \in Nat /\ CRLF \in Seq(Bytes) /\ Len(CRLF) = 2 BY ShortSeqs
<1>2. /\ Cat(s, CRLF) \in Seq(Bytes) /\ Len(Cat(s, CRLF)) = n + 2
      /\ \A i \in 1 .. n : Cat(s, CRLF)[i] = s[i]
      /\ \A i \in 1 .. 2 : Cat(s, CRLF)[n + i] = CRLF[i]
  BY <1>1, Concat, Zenon
<1>3. Cat(s, CRLF)[n + 1] = CRLF[1] /\ Cat(s, CRLF)[n + 2] = CRLF[2]
  <2>1. 1 \in 1 .. 2 /\ 2 \in 1 .. 2 OBVIOUS
  <2>2. QED BY <1>2, <2>1, Zenon
<1>4. QED BY <1>2, <1>3, ShortSeqs, Zenon

\* A boundary is added.
LEMMA AddBoundary ==
  ASSUME NEW s \in Seq(Bytes), NEW n \in Nat, Len(s) = n
  PROVE  /\ Cat(s, Boundary) \in Seq(Bytes) /\ Len(Cat(s, Boundary)) = n + 3 /\ \A i \in 1 .. n : Cat(s, Boundary)[i] = s[i]
         /\ Cat(s, Boundary)[n + 1] = "-" /\ Cat(s, Boundary)[n + 2] = "-" /\ Cat(s, Boundary)[n + 3] = "b"
<1>1. 3 \in Nat /\ Boundary \in Seq(Bytes) /\ Len(Boundary) = 3 BY ShortSeqs
<1>2. /\ Cat(s, Boundary) \in Seq(Bytes) /\ Len(Cat(s, Boundary)) = n + 3
      /\ \A i \in 1 .. n : Cat(s, Boundary)[i] = s[i]
      /\ \A i \in 1 .. 3 : Cat(s, Boundary)[n + i] = Boundary[i]
  BY <1>1, Concat, Zenon
<1>3. Cat(s, Boundary)[n + 1] = Boundary[1] /\ Cat(s, Boundary)[n + 2] = Boundary[2] /\ Cat(s, Boundary)[n + 3] = Boundary[3]
  <2>1. 1 \in 1 .. 3 /\ 2 \in 1 .. 3 /\ 3 \in 1 .. 3 OBVIOUS
  <2>2. QED BY <1>2, <2>1, Zenon
<1>4. QED BY <1>2, <1>3, ShortSeqs, Zenon

\* A framed picture.
LEMMA FramedIs ==
  ASSUME NEW f \in Seq(Bytes), NEW n \in Nat, Len(f) = n
  PROVE  /\ Framed(f) \in Seq(Bytes) /\ Len(Framed(f)) = n + 7
         /\ \A i \in 1 .. n : Framed(f)[i] = f[i]
         /\ Framed(f)[n + 1] = "CR" /\ Framed(f)[n + 2] = "LF"
         /\ Framed(f)[n + 3] = "-" /\ Framed(f)[n + 4] = "-" /\ Framed(f)[n + 5] = "b"
         /\ Framed(f)[n + 6] = "CR" /\ Framed(f)[n + 7] = "LF"
<1> DEFINE a == Cat(f, CRLF)
<1>2. /\ a \in Seq(Bytes) /\ Len(a) = n + 2 /\ (\A i \in 1 .. n : a[i] = f[i])
      /\ a[n + 1] = "CR" /\ a[n + 2] = "LF"
  BY AddLine, Zenon
<1> DEFINE c == Cat(a, Boundary)
<1>4. PICK k \in Nat : k = n + 2 OBVIOUS
<1>5. /\ c \in Seq(Bytes) /\ Len(c) = k + 3 /\ (\A i \in 1 .. k : c[i] = a[i])
      /\ c[k + 1] = "-" /\ c[k + 2] = "-" /\ c[k + 3] = "b"
  BY <1>2, <1>4, AddBoundary, Zenon
<1>6. PICK l \in Nat : l = n + 5 OBVIOUS
<1> DEFINE r == Cat(c, CRLF)
<1>8. Len(c) = l /\ k + 1 = n + 3 /\ k + 2 = n + 4 /\ k + 3 = n + 5 BY <1>4, <1>5, <1>6
<1>9. /\ r \in Seq(Bytes) /\ Len(r) = l + 2 /\ (\A i \in 1 .. l : r[i] = c[i])
      /\ r[l + 1] = "CR" /\ r[l + 2] = "LF"
  BY <1>5, <1>8, AddLine, Zenon
<1>10. r = Framed(f) BY DEF Framed, Cat
<1>11. l + 1 = n + 6 /\ l + 2 = n + 7 BY <1>6
<1>12. \A i \in 1 .. n : r[i] = f[i] BY <1>2, <1>4, <1>5, <1>6, <1>9
<1>13. r[n + 1] = "CR" /\ r[n + 2] = "LF" BY <1>2, <1>4, <1>5, <1>6, <1>9
<1>14. r[n + 3] = "-" /\ r[n + 4] = "-" /\ r[n + 5] = "b" BY <1>4, <1>5, <1>6, <1>8, <1>9
<1>15. QED BY <1>9, <1>10, <1>11, <1>12, <1>13, <1>14

\* The headers of a response.
LEMMA HeadersAre ==
  /\ Headers \in Seq(Bytes) /\ Len(Headers) = 3
  /\ Headers[1] = "h" /\ Headers[2] = "CR" /\ Headers[3] = "LF"
<1>1. <<"h">> \in Seq(Bytes) /\ Len(<<"h">>) = 1 /\ <<"h">>[1] = "h" /\ 1 \in Nat BY ShortSeqs
<1> DEFINE r == Cat(<<"h">>, CRLF)
<1>3. /\ r \in Seq(Bytes) /\ Len(r) = 1 + 2 /\ (\A i \in 1 .. 1 : r[i] = <<"h">>[i])
      /\ r[1 + 1] = "CR" /\ r[1 + 2] = "LF"
  BY <1>1, AddLine
<1>4. r[1] = "h" BY <1>1, <1>3
<1>5. 1 + 1 = 2 /\ 1 + 2 = 3 OBVIOUS
<1>6. QED BY <1>3, <1>4, <1>5 DEF Headers, Cat

\* A response begins with a status line, and goes on like the headers' frame.
LEMMA ResponseIs ==
  /\ ResponseHead \in Seq(Bytes) /\ Len(ResponseHead) = 14
  /\ ResponseHead[1] = "O" /\ ResponseHead[2] = "K" /\ ResponseHead[3] = "CR" /\ ResponseHead[4] = "LF"
  /\ \A i \in 1 .. 10 : ResponseHead[4 + i] = Framed(Headers)[i]
<1>1. /\ Status \in Seq(Bytes) /\ Len(Status) = 4
      /\ Status[1] = "O" /\ Status[2] = "K" /\ Status[3] = "CR" /\ Status[4] = "LF"
  <2> DEFINE ok == <<"O", "K">>
  <2>2. ok \in Seq(Bytes) /\ Len(ok) = 2 /\ ok[1] = "O" /\ ok[2] = "K" /\ 2 \in Nat BY DEF Bytes
  <2> DEFINE r == Cat(ok, CRLF)
  <2>4. /\ r \in Seq(Bytes) /\ Len(r) = 2 + 2 /\ (\A i \in 1 .. 2 : r[i] = ok[i])
        /\ r[2 + 1] = "CR" /\ r[2 + 2] = "LF"
    BY <2>2, AddLine
  <2>5. r[1] = "O" /\ r[2] = "K" BY <2>2, <2>4
  <2>6. 2 + 1 = 3 /\ 2 + 2 = 4 OBVIOUS
  <2>7. r = Status BY DEF Status, Cat
  <2>8. QED BY <2>4, <2>5, <2>6, <2>7
<1>2. ResponseHead = Cat(Status, Framed(Headers))
  <2>1. PICK st \in Seq(Bytes), h \in Seq(Bytes), c \in Seq(Bytes), b \in Seq(Bytes) :
          st = Status /\ h = Headers /\ c = CRLF /\ b = Boundary
    BY <1>1, HeadersAre, ShortSeqs
  <2>2. Cat(h, c) \in Seq(Bytes) /\ Cat(Cat(h, c), b) \in Seq(Bytes) BY ConcatAny
  <2>3. Cat(Cat(st, h), c) = Cat(st, Cat(h, c)) BY ConcatAny
  <2>4. Cat(Cat(st, Cat(h, c)), b) = Cat(st, Cat(Cat(h, c), b)) BY <2>2, ConcatAny
  <2>5. Cat(Cat(st, Cat(Cat(h, c), b)), c) = Cat(st, Cat(Cat(Cat(h, c), b), c)) BY <2>2, ConcatAny
  <2>6. Cat(Cat(Cat(Cat(st, h), c), b), c) = Cat(st, Cat(Cat(Cat(h, c), b), c)) BY <2>3, <2>4, <2>5, Zenon
  <2>7. QED BY <2>1, <2>6, Zenon DEF ResponseHead, Framed, Cat
<1> DEFINE t == Framed(Headers)
<1>4. t \in Seq(Bytes) /\ Len(t) = 10 /\ 3 \in Nat /\ 4 \in Nat /\ 10 \in Nat
  <2>1. 3 \in Nat /\ 3 + 7 = 10 OBVIOUS
  <2>2. Framed(Headers) \in Seq(Bytes) /\ Len(Framed(Headers)) = 3 + 7 BY <2>1, HeadersAre, FramedIs
  <2>3. QED BY <2>1, <2>2
<1> DEFINE r == Cat(Status, t)
<1>5. Status \in Seq(Bytes) /\ Len(Status) = 4 /\ t \in Seq(Bytes) /\ Len(t) = 10 /\ 4 \in Nat /\ 10 \in Nat
  BY <1>1, <1>4
<1>6. /\ r \in Seq(Bytes) /\ Len(r) = 4 + 10 /\ (\A i \in 1 .. 4 : r[i] = Status[i])
      /\ \A i \in 1 .. 10 : r[4 + i] = t[i]
  <2> HIDE DEF t
  <2>1. QED BY <1>5, Concat, ZenonT(40)
<1>7. r[1] = "O" /\ r[2] = "K" /\ r[3] = "CR" /\ r[4] = "LF" BY <1>1, <1>6
<1>8. r = ResponseHead BY <1>2
<1>9. 4 + 10 = 14 OBVIOUS
<1>10. QED BY <1>6, <1>7, <1>8, <1>9

\* A part begins with a header, and goes on with the framed picture.
LEMMA PartIs ==
  ASSUME NEW f \in Seq(Bytes), NEW n \in Nat, Len(f) = n
  PROVE  /\ PartOf(f) \in Seq(Bytes) /\ Len(PartOf(f)) = n + 12
         /\ PartOf(f)[1] = "h" /\ PartOf(f)[2] = "CR" /\ PartOf(f)[3] = "LF"
         /\ PartOf(f)[4] = "CR" /\ PartOf(f)[5] = "LF"
         /\ \A i \in 1 .. n + 7 : PartOf(f)[5 + i] = Framed(f)[i]
<1> DEFINE line == Cat(<<"h">>, CRLF)
<1>2. line \in Seq(Bytes) /\ Len(line) = 3 /\ line[1] = "h" /\ line[2] = "CR" /\ line[3] = "LF" /\ 3 \in Nat
  BY HeadersAre DEF Headers, Cat
<1> DEFINE head == Cat(line, CRLF)
<1>4. /\ head \in Seq(Bytes) /\ Len(head) = 3 + 2 /\ (\A i \in 1 .. 3 : head[i] = line[i])
      /\ head[3 + 1] = "CR" /\ head[3 + 2] = "LF"
  BY <1>2, AddLine, Zenon
<1>5. /\ Len(head) = 5 /\ head[1] = "h" /\ head[2] = "CR" /\ head[3] = "LF"
      /\ head[4] = "CR" /\ head[5] = "LF"
  <2>1. 3 + 1 = 4 /\ 3 + 2 = 5 OBVIOUS
  <2>2. QED BY <1>2, <1>4, <2>1
<1>6. PartOf(f) = Cat(head, Framed(f))
  <2>1. PICK c \in Seq(Bytes), b \in Seq(Bytes) : c = CRLF /\ b = Boundary BY ShortSeqs
  <2>2. Cat(f, c) \in Seq(Bytes) /\ Cat(Cat(f, c), b) \in Seq(Bytes) BY ConcatAny
  <2>3. Cat(Cat(head, f), c) = Cat(head, Cat(f, c)) BY <1>4, ConcatAny
  <2>4. Cat(Cat(head, Cat(f, c)), b) = Cat(head, Cat(Cat(f, c), b)) BY <1>4, <2>2, ConcatAny
  <2>5. Cat(Cat(head, Cat(Cat(f, c), b)), c) = Cat(head, Cat(Cat(Cat(f, c), b), c)) BY <1>4, <2>2, ConcatAny
  <2>6. Cat(Cat(Cat(Cat(head, f), c), b), c) = Cat(head, Cat(Cat(Cat(f, c), b), c)) BY <2>3, <2>4, <2>5, Zenon
  <2>7. QED BY <2>1, <2>6, Zenon DEF PartOf, Framed, Cat
<1>7. PICK t, m : t = Framed(f) /\ m = n + 7 OBVIOUS
<1>8. t \in Seq(Bytes) /\ Len(t) = m /\ m \in Nat /\ 5 \in Nat BY <1>7, FramedIs
<1> DEFINE r == Cat(head, t)
<1>10. /\ r \in Seq(Bytes) /\ Len(r) = 5 + m /\ (\A i \in 1 .. 5 : r[i] = head[i])
       /\ \A i \in 1 .. m : r[5 + i] = t[i]
  <2>1. head \in Seq(Bytes) /\ Len(head) = 5 /\ t \in Seq(Bytes) /\ Len(t) = m /\ m \in Nat /\ 5 \in Nat
    BY <1>4, <1>5, <1>8
  <2> HIDE DEF head
  <2>2. /\ r \in Seq(Bytes) /\ Len(r) = Len(head) + Len(t) /\ (\A i \in 1 .. Len(head) : r[i] = head[i])
        /\ \A i \in 1 .. Len(t) : r[Len(head) + i] = t[i]
    BY <2>1, ConcatLen, Zenon
  <2>3. QED BY <2>1, <2>2, Zenon
<1>11. r[1] = "h" /\ r[2] = "CR" /\ r[3] = "LF" /\ r[4] = "CR" /\ r[5] = "LF" BY <1>5, <1>10
<1>12. 5 + m = n + 12 BY <1>7
<1>13. r = PartOf(f) BY <1>6, <1>7
<1>14. QED BY <1>7, <1>10, <1>11, <1>12, <1>13

\* A refusal has a status line and a header of which nothing looks like a line
\* end but what is one.
LEMMA RefusalIs ==
  /\ Refusal \in Seq(Bytes) /\ Len(Refusal) = 9
  /\ Refusal[1] = "h" /\ Refusal[2] = "CR" /\ Refusal[3] = "LF"
  /\ Refusal[4] = "h" /\ Refusal[5] = "CR" /\ Refusal[6] = "LF"
  /\ Refusal[7] = "CR" /\ Refusal[8] = "LF" /\ Refusal[9] = "x"
<1>1. PICK h \in Seq(Bytes) : h = Headers BY HeadersAre
<1>2. Len(h) = 3 /\ h[1] = "h" /\ h[2] = "CR" /\ h[3] = "LF" /\ 3 \in Nat /\ 6 \in Nat /\ 8 \in Nat /\ 1 \in Nat
  BY <1>1, HeadersAre
<1> DEFINE a == Cat(h, h)
<1>4. /\ a \in Seq(Bytes) /\ Len(a) = 3 + 3 /\ (\A i \in 1 .. 3 : a[i] = h[i])
      /\ \A i \in 1 .. 3 : a[3 + i] = h[i]
  BY <1>2, Concat, Zenon
<1>5. /\ Len(a) = 6 /\ a[1] = "h" /\ a[2] = "CR" /\ a[3] = "LF"
      /\ a[3 + 1] = "h" /\ a[3 + 2] = "CR" /\ a[3 + 3] = "LF"
  BY <1>2, <1>4
<1> DEFINE c == Cat(a, CRLF)
<1>7. /\ c \in Seq(Bytes) /\ Len(c) = 6 + 2 /\ (\A i \in 1 .. 6 : c[i] = a[i])
      /\ c[6 + 1] = "CR" /\ c[6 + 2] = "LF"
  BY <1>2, <1>4, <1>5, AddLine, Zenon
<1> DEFINE x == <<"x">>
<1>9. x \in Seq(Bytes) /\ Len(x) = 1 /\ x[1] = "x" BY ShortSeqs
<1> DEFINE r == Cat(c, x)
<1>11. Len(c) = 8 BY <1>7
<1>12. /\ r \in Seq(Bytes) /\ Len(r) = 8 + 1 /\ (\A i \in 1 .. 8 : r[i] = c[i])
       /\ \A i \in 1 .. 1 : r[8 + i] = x[i]
  <2>1. c \in Seq(Bytes) /\ Len(c) = 8 /\ x \in Seq(Bytes) /\ Len(x) = 1 /\ 8 \in Nat /\ 1 \in Nat
    BY <1>2, <1>7, <1>9, <1>11
  <2> HIDE DEF c, x
  <2>2. /\ r \in Seq(Bytes) /\ Len(r) = Len(c) + Len(x) /\ (\A i \in 1 .. Len(c) : r[i] = c[i])
        /\ \A i \in 1 .. Len(x) : r[Len(c) + i] = x[i]
    BY <2>1, ConcatLen, Zenon
  <2>3. QED BY <2>1, <2>2, Zenon
<1>13. r[8 + 1] = "x" BY <1>9, <1>12
<1>14. 3 + 1 = 4 /\ 3 + 2 = 5 /\ 3 + 3 = 6 /\ 6 + 1 = 7 /\ 6 + 2 = 8 /\ 8 + 1 = 9 OBVIOUS
<1>15. /\ c[1] = "h" /\ c[2] = "CR" /\ c[3] = "LF" /\ c[4] = "h" /\ c[5] = "CR" /\ c[6] = "LF"
       /\ c[7] = "CR" /\ c[8] = "LF"
  BY <1>5, <1>7, <1>14
<1>16. r = Refusal BY <1>1 DEF Refusal, Headers, Cat
<1>17. QED BY <1>12, <1>13, <1>14, <1>15, <1>16

-----------------------------------------------------------------------------
(* The bytes that are left.                                                *)

\* A byte is taken from what is left.
LEMMA LeftDoes ==
  ASSUME toCome \in Seq(Bytes), NEW s \in Seq(Bytes), NEW k \in Nat, NEW j \in Nat, j = k + 1,
         Left(s, k), toCome # <<>>, toCome' = Tail(toCome)
  PROVE  k < Len(s) /\ Head(toCome) = s[j] /\ Left(s, j)'
<1>1. PICK n \in Nat : n = Len(toCome) /\ n > 0 BY EmptySeq
<1>2. PICK l \in Nat : l = Len(s) OBVIOUS
<1>3. n = l - k /\ \A i \in 1 .. n : toCome[i] = s[i + k] BY <1>1, <1>2 DEF Left
<1>4. k < l BY <1>1, <1>3
<1>5. Head(toCome) = s[j]
  <2>1. Head(toCome) = toCome[1] OBVIOUS
  <2>2. 1 \in 1 .. n /\ 1 + k = j BY <1>1
  <2>3. QED BY <1>3, <2>1, <2>2
<1>6. /\ toCome' \in Seq(Bytes) /\ Len(toCome') = n - 1
      /\ \A i \in 1 .. n - 1 : toCome'[i] = toCome[i + 1]
  BY <1>1, HeadTailProperties
<1>7. \A i \in 1 .. n - 1 : i + 1 \in 1 .. n /\ i + 1 + k = i + j BY <1>1
<1>8. \A i \in 1 .. n - 1 : toCome'[i] = s[i + j] BY <1>3, <1>6, <1>7
<1>9. n - 1 = l - j BY <1>3
<1>10. Left(s, j)' BY <1>2, <1>6, <1>8, <1>9 DEF Left
<1>11. QED BY <1>2, <1>4, <1>5, <1>10

\* What is left of a whole is what is left of its second part.
LEMMA LeftOfSecond ==
  ASSUME NEW s \in Seq(Bytes), NEW u \in Seq(Bytes), NEW k \in Nat, NEW n \in Nat, Len(u) = n,
         Len(s) = k + n, \A i \in 1 .. n : s[k + i] = u[i], Left(s, k)'
  PROVE  Left(u, 0)'
<1>1. Len(toCome') = n BY DEF Left
<1>2. \A i \in 1 .. n : toCome'[i] = s[i + k] /\ i + k = k + i /\ i + 0 = i BY <1>1 DEF Left
<1>3. \A i \in 1 .. n : toCome'[i] = u[i + 0] BY <1>2
<1>4. QED BY <1>1, <1>3 DEF Left

\* Everything is left of what has just come.
LEMMA LeftOfAll ==
  ASSUME NEW s \in Seq(Bytes), toCome' = s
  PROVE  Left(s, 0)'
<1>1. PICK n \in Nat : n = Len(s) OBVIOUS
<1>2. \A i \in 1 .. n : toCome'[i] = s[i + 0] OBVIOUS
<1>3. QED BY <1>1, <1>2 DEF Left

-----------------------------------------------------------------------------
(* The headers.                                                            *)

\* A byte of a header: the content begins after two line ends, or what passes
\* for them.
LEMMA HeaderDoes ==
  ASSUME NEW a, NEW b, NEW c, NEW d, NEW e, Header(<<a, b, c, d>>), HeaderByte(e) \/ ContentByte(e)
  PROVE  /\ UNCHANGED delivered
         /\ IsCrlf(b, c) /\ IsCrlf(d, e) => Content(<<b, c, d, e>>)'
         /\ ~(IsCrlf(b, c) /\ IsCrlf(d, e)) => Header(<<b, c, d, e>>)'
<1>1. extractor = [part |-> "header", lastFour |-> <<a, b, c, d>>, buffer |-> <<>>, matched |-> 0] BY DEF Header
<1>2. HeaderByte(e) BY <1>1 DEF ContentByte
<1>3. PushByte(extractor.lastFour, e) = <<b, c, d, e>>
  <2>1. Tail(<<a, b, c, d>>) = <<b, c, d>> OBVIOUS
  <2>2. Append(<<b, c, d>>, e) = <<b, c, d, e>>
    <3> DEFINE all == {b, c, d, e}
               three == <<b, c, d>>
               four == <<b, c, d, e>>
               longer == Append(three, e)
    <3>1. three \in Seq(all) /\ Len(three) = 3 /\ three[1] = b /\ three[2] = c /\ three[3] = d OBVIOUS
    <3>2. four \in Seq(all) /\ Len(four) = 4 /\ four[1] = b /\ four[2] = c /\ four[3] = d /\ four[4] = e OBVIOUS
    <3>3. e \in all OBVIOUS
    <3> HIDE DEF all, three, four
    <3>4. longer \in Seq(all) /\ Len(longer) = 4 /\ longer[1] = b /\ longer[2] = c /\ longer[3] = d /\ longer[4] = e
      <4>1. /\ Append(three, e) \in Seq(all) /\ Len(Append(three, e)) = Len(three) + 1
            /\ \A i \in 1 .. Len(three) : Append(three, e)[i] = three[i]
            /\ Append(three, e)[Len(three) + 1] = e
        BY <3>1, <3>3, AppendProperties
      <4>2. 1 \in 1 .. 3 /\ 2 \in 1 .. 3 /\ 3 \in 1 .. 3 /\ 3 + 1 = 4 OBVIOUS
      <4>3. QED BY <3>1, <4>1, <4>2, Zenon
    <3> HIDE DEF longer
    <3>5. longer = four BY <3>2, <3>4, SeqEqual
    <3>6. QED BY <3>5 DEF three, four, longer
  <2>3. extractor.lastFour = <<a, b, c, d>> BY <1>1
  <2>4. QED BY <2>1, <2>2, <2>3, Zenon DEF PushByte
<1>4. PICK bytes : bytes = <<b, c, d, e>> OBVIOUS
<1>5. IsCrlfCrlf(bytes) <=> IsCrlf(b, c) /\ IsCrlf(d, e) BY <1>4 DEF IsCrlfCrlf
<1>6. PICK part : part = IF IsCrlfCrlf(bytes) THEN "content" ELSE "header" OBVIOUS
<1>7. extractor' = [extractor EXCEPT !.lastFour = bytes, !.part = part] /\ UNCHANGED delivered
  BY <1>2, <1>3, <1>4, <1>6 DEF HeaderByte
<1>8. extractor' = [part |-> part, lastFour |-> bytes, buffer |-> <<>>, matched |-> 0] BY <1>1, <1>7
<1>9. QED BY <1>4, <1>5, <1>6, <1>7, <1>8 DEF Header, Content

\* The same, of a byte at a place of the response.
LEMMA HeadsDo ==
  ASSUME TypeInv, Extract, NEW s \in Seq(Bytes), NEW k \in Nat, NEW j \in Nat, j = k + 1,
         NEW a, NEW b, NEW c, NEW d, Heads(s, k, <<a, b, c, d>>), NEW e, s[j] = e
  PROVE  /\ UNCHANGED delivered /\ Left(s, j)' /\ k < Len(s)
         /\ IsCrlf(b, c) /\ IsCrlf(d, e) => Content(<<b, c, d, e>>)'
         /\ ~(IsCrlf(b, c) /\ IsCrlf(d, e)) => Heads(s, j, <<b, c, d, e>>)'
<1>1. toCome \in Seq(Bytes) /\ toCome # <<>> /\ toCome' = Tail(toCome) BY DEF TypeInv, Extract
<1>2. k < Len(s) /\ Head(toCome) = e /\ Left(s, j)' BY <1>1, LeftDoes DEF Heads
<1>3. HeaderByte(e) \/ ContentByte(e) BY <1>2 DEF Extract
<1>4. QED BY <1>2, <1>3, HeaderDoes DEF Heads

\* Which pairs of bytes pass for the end of a line.
LEMMA LineEnds ==
  /\ IsCrlf("CR", "LF") /\ IsCrlf("O", "K")
  /\ \A x : ~IsCrlf("0", x) /\ ~IsCrlf("h", x) /\ ~IsCrlf("LF", x)
  /\ \A x : ~IsCrlf(x, "CR") /\ ~IsCrlf(x, "h") /\ ~IsCrlf(x, "0")
BY DEF IsCrlf, LikeCR, LikeLF

-----------------------------------------------------------------------------
(* The content.                                                            *)

\* What a byte does to the search for the boundary.
LEMMA CompareDoes ==
  ASSUME NEW m \in 0 .. 2, NEW b
  PROVE  /\ Compare(m, b) \in 0 .. 3
         /\ m = 0 => Compare(m, b) = IF b = "-" THEN 1 ELSE 0
         /\ m = 1 => Compare(m, b) = IF b = "-" THEN 2 ELSE 0
         /\ m = 2 => Compare(m, b) = IF b = "b" THEN 3 ELSE 0
<1>1. Boundary[1] = "-" /\ Boundary[2] = "-" /\ Boundary[3] = "b" BY ShortSeqs
<1>2. CASE m = 0 BY <1>1, <1>2 DEF Compare
<1>3. CASE m = 1 BY <1>1, <1>3 DEF Compare
<1>4. CASE m = 2 BY <1>1, <1>4 DEF Compare
<1>5. QED BY <1>2, <1>3, <1>4

\* The boundary, byte by byte, is nowhere in f.
NoBoundary(f) == \A i \in 1 .. Len(f) - 2 : ~(f[i] = "-" /\ f[i + 1] = "-" /\ f[i + 2] = "b")

\* The pictures, and the headers, are such contents.
LEMMA ContentsAre ==
  /\ Headers \in Seq(Bytes) /\ NoBoundary(Headers) /\ ~TooLong(Headers)
  /\ \A f \in Frames : f \in Seq(Bytes) /\ NoBoundary(f)
<1>1. NoBoundary(Headers)
  <2>1. \A i \in 1 .. Len(Headers) - 2 : i = 1 BY HeadersAre
  <2>2. QED BY <2>1, HeadersAre DEF NoBoundary
<1>2. ASSUME NEW f \in Frames PROVE f \in Seq(Bytes) /\ NoBoundary(f)
  <2>1. f \in Seq(Bytes) BY FramesAssumption DEF Bytes
  <2>2. PICK n \in Nat : n = Len(f) BY <2>1
  <2>3. ASSUME NEW i \in 1 .. n - 2, f[i] = "-", f[i + 1] = "-", f[i + 2] = "b" PROVE FALSE
    <3>1. PICK j \in Nat : j = i + 2 /\ i \in 1 .. n /\ j \in 1 .. n BY <2>3
    <3>2. SubSeq(f, i, j) = <<"-", "-", "b">>
      <4>1. /\ SubSeq(f, i, j) \in Seq(Bytes) /\ Len(SubSeq(f, i, j)) = 3
            /\ SubSeq(f, i, j)[1] = f[i] /\ SubSeq(f, i, j)[2] = f[i + 1] /\ SubSeq(f, i, j)[3] = f[i + 2]
        BY <2>1, <2>2, <3>1
      <4>2. <<"-", "-", "b">> \in Seq(Bytes) /\ Len(<<"-", "-", "b">>) = 3 BY ShortSeqs DEF Boundary
      <4> DEFINE part == SubSeq(f, i, j)
                 whole == <<"-", "-", "b">>
      <4>3. part[1] = whole[1] /\ part[2] = whole[2] /\ part[3] = whole[3] BY <2>3, <4>1
      <4> HIDE DEF part, whole
      <4>4. \A l \in 1 .. 3 : part[l] = whole[l] BY <4>3
      <4>5. part = whole BY <4>1, <4>2, <4>4, SeqEqual DEF part, whole
      <4>6. QED BY <4>5 DEF part, whole
    <3>3. i \in 1 .. Len(f) - Len(Boundary) + 1 /\ i + Len(Boundary) - 1 = j BY <2>2, <3>1, ShortSeqs
    <3>4. HoldsBoundary(f) BY <3>2, <3>3 DEF HoldsBoundary, Boundary
    <3>5. QED BY <3>4, FramesAssumption
  <2>4. QED BY <2>1, <2>2, <2>3 DEF NoBoundary
<1>3. QED BY <1>1, <1>2, HeadersAre, SizeAssumption

\* Where a byte leaves the search, after k bytes of a content of n bytes, framed.
\* It is complete with the boundary that follows the content, and not before.
LEMMA SearchDoes ==
  ASSUME NEW f \in Seq(Bytes), NoBoundary(f), NEW n \in Nat, Len(f) = n,
         NEW k \in 0 .. n + 4, NEW j \in Nat, j = k + 1, extractor.matched \in 0 .. 2,
         Matching(f, k), NEW m, m = Compare(extractor.matched, Framed(f)[j])
  PROVE  /\ m \in 0 .. 3 /\ (m = 3 => j = n + 5)
         /\ m # 3 => /\ m <= j
                     /\ m >= 1 => Framed(f)[j] = "-"
                     /\ m = 2 => Framed(f)[k] = "-"
                     /\ j >= n + 2 => m = j - n - 2
                     /\ j # n + 5
<1>1. PICK r : r = Framed(f) OBVIOUS
<1>2. PICK old \in 0 .. 2 : old = extractor.matched OBVIOUS
<1>3. /\ \A i \in 1 .. n : r[i] = f[i]
      /\ r[n + 1] = "CR" /\ r[n + 2] = "LF" /\ r[n + 3] = "-" /\ r[n + 4] = "-" /\ r[n + 5] = "b"
  BY <1>1, FramedIs
<1>4. /\ old <= k /\ (old >= 1 => r[k] = "-") /\ (old = 2 => r[k - 1] = "-")
      /\ k >= n + 2 => old = k - n - 2
  BY <1>1, <1>2 DEF Matching
<1>5. PICK b : b = r[j] OBVIOUS
<1>6. /\ m \in 0 .. 3
      /\ old = 0 => m = IF b = "-" THEN 1 ELSE 0
      /\ old = 1 => m = IF b = "-" THEN 2 ELSE 0
      /\ old = 2 => m = IF b = "b" THEN 3 ELSE 0
  <2>1. m = Compare(old, b) BY <1>1, <1>2, <1>5
  <2>2. QED BY <2>1, CompareDoes
<1>7. CASE m = 3
  <2>1. old = 2 /\ b = "b" BY <1>6, <1>7
  <2>2. r[k] = "-" /\ r[k - 1] = "-" /\ r[j] = "b" /\ k >= 2 BY <1>4, <1>5, <2>1
  <2>3. ASSUME j <= n PROVE FALSE
    <3>1. PICK i \in 1 .. n - 2 : i = k - 1 BY <2>2, <2>3
    <3>2. i \in 1 .. n /\ i + 1 \in 1 .. n /\ i + 2 \in 1 .. n /\ i + 1 = k /\ i + 2 = j BY <2>3, <3>1
    <3>3. f[i] = "-" /\ f[i + 1] = "-" /\ f[i + 2] = "b" BY <1>3, <2>2, <3>1, <3>2
    <3>4. QED BY <3>3 DEF NoBoundary
  <2>4. j # n + 1 /\ j # n + 2 /\ j # n + 3 /\ j # n + 4 BY <1>3, <2>2
  <2>5. j = n + 5 BY <2>3, <2>4
  <2>6. QED BY <1>7, <2>5
<1>8. CASE m # 3
  <2>1. m <= j BY <1>4, <1>6, <1>8
  <2>2. m >= 1 => r[j] = "-" BY <1>5, <1>6, <1>8
  <2>3. m = 2 => r[k] = "-" BY <1>4, <1>6, <1>8
  <2>4. ASSUME j >= n + 2 PROVE m = j - n - 2 /\ j # n + 5
    <3>1. j = n + 2 \/ j = n + 3 \/ j = n + 4 \/ j = n + 5 BY <2>4
    <3>2. CASE j = n + 2
      <4>1. b # "-" /\ b # "b" BY <1>3, <1>5, <3>2
      <4>2. QED BY <1>6, <3>2, <4>1
    <3>3. CASE j = n + 3
      <4>1. b = "-" /\ old = 0 BY <1>3, <1>4, <1>5, <3>3
      <4>2. QED BY <1>6, <3>3, <4>1
    <3>4. CASE j = n + 4
      <4>1. b = "-" /\ old = 1 BY <1>3, <1>4, <1>5, <3>4
      <4>2. QED BY <1>6, <3>4, <4>1
    <3>5. CASE j = n + 5
      <4>1. b = "b" /\ old = 2 BY <1>3, <1>4, <1>5, <3>5
      <4>2. QED BY <1>6, <1>8, <4>1
    <3>6. QED BY <3>1, <3>2, <3>3, <3>4, <3>5
  <2>5. j # n + 5 BY <2>4
  <2>6. QED BY <1>1, <1>6, <1>8, <2>1, <2>2, <2>3, <2>4, <2>5
<1>9. QED BY <1>7, <1>8

\* The buffer with one byte more holds one byte more of the framed content.
LEMMA FilledDoes ==
  ASSUME TypeInv, NEW f, NEW k \in Nat, NEW j \in Nat, j = k + 1, Filled(f, k), NEW e \in Bytes, e = Framed(f)[j]
  PROVE  LET longer == Append(extractor.buffer, e)
         IN  longer \in Seq(Bytes) /\ Len(longer) = j /\ \A i \in 1 .. j : longer[i] = Framed(f)[i]
<1>1. PICK buffer \in Seq(Bytes) : buffer = extractor.buffer BY DEF TypeInv, Extractors
<1>2. PICK r : r = Framed(f) OBVIOUS
<1>3. Len(buffer) = k /\ \A i \in 1 .. k : buffer[i] = r[i] BY <1>1, <1>2 DEF Filled
<1>4. PICK longer : longer = Append(buffer, e) OBVIOUS
<1>5. longer \in Seq(Bytes) /\ Len(longer) = j /\ (\A i \in 1 .. k : longer[i] = buffer[i]) /\ longer[j] = e
  BY <1>3, <1>4, AppendProperties
<1>6. ASSUME NEW i \in 1 .. j PROVE longer[i] = r[i]
  <2>1. i \in 1 .. k \/ i = j OBVIOUS
  <2>2. QED BY <1>2, <1>3, <1>5, <2>1
<1>7. QED BY <1>1, <1>2, <1>4, <1>5, <1>6

\* A byte of content: it is dropped, or it is put into the buffer, or it is the
\* last of the boundary, and the whole content, and nothing else, is published.
LEMMA ContentDoes ==
  ASSUME TypeInv, Extract, NEW f \in Seq(Bytes), NoBoundary(f), InContent(f)
  PROVE  \/ Full /\ TooLong(f) /\ UNCHANGED <<extractor, delivered>>
         \/ InContent(f)' /\ UNCHANGED delivered
         \/ /\ ~TooLong(f) /\ Left(CRLF, 0)' /\ extractor' = Fresh
            /\ delivered' = Append(delivered, [length |-> Len(f), data |-> f])
<1>1. PICK n \in Nat : n = Len(f) OBVIOUS
<1>2. PICK k \in 0 .. n + 4 : Left(Framed(f), k) /\ extractor.part = "content" /\ Filled(f, k) /\ Matching(f, k)
  BY <1>1 DEF InContent
<1>3. PICK j \in Nat : j = k + 1 /\ k \in Nat OBVIOUS
<1>4. PICK r \in Seq(Bytes) : r = Framed(f) /\ Len(r) = n + 7 BY <1>1, FramedIs
<1>5. PICK e : e = Head(toCome) OBVIOUS
<1>6. e = r[j] /\ Left(r, j)' /\ e \in Bytes
  <2>1. toCome \in Seq(Bytes) /\ toCome # <<>> /\ toCome' = Tail(toCome) BY DEF TypeInv, Extract
  <2>2. e = r[j] /\ Left(r, j)' BY <1>2, <1>3, <1>4, <1>5, <2>1, LeftDoes
  <2>3. e \in Bytes BY <1>5, <2>1
  <2>4. QED BY <2>2, <2>3
<1>7. ContentByte(e) BY <1>2, <1>5 DEF Extract, HeaderByte
<1>8. PICK longer : longer = Append(extractor.buffer, e) OBVIOUS
<1>9. longer \in Seq(Bytes) /\ Len(longer) = j /\ \A i \in 1 .. j : longer[i] = r[i]
  BY <1>2, <1>3, <1>4, <1>6, <1>8, FilledDoes
<1>10. extractor.matched \in 0 .. 2 BY DEF TypeInv, Extractors
<1>11. PICK m : m = Compare(extractor.matched, e) OBVIOUS
<1>12. /\ m \in 0 .. 3 /\ (m = 3 => j = n + 5)
       /\ m # 3 => /\ m <= j /\ (m >= 1 => r[j] = "-") /\ (m = 2 => r[k] = "-")
                   /\ (j >= n + 2 => m = j - n - 2) /\ j # n + 5
  BY <1>1, <1>2, <1>3, <1>4, <1>6, <1>10, <1>11, SearchDoes
<1>13. PICK bound \in Int : bound = BufferSize - 1 BY SizeAssumption
<1>14. (Full <=> k >= bound) /\ (TooLong(f) <=> n + 5 > bound)
  BY <1>1, <1>2, <1>13, ShortSeqs DEF Full, TooLong, Filled
<1>15. CASE Full
  <2>1. UNCHANGED <<extractor, delivered>> BY <1>7, <1>15 DEF ContentByte
  <2>2. TooLong(f) BY <1>14, <1>15
  <2>3. QED BY <1>15, <2>1, <2>2
<1>16. CASE ~Full /\ m # 3
  <2>1. m < Len(Boundary) /\ m # Len(Boundary) BY <1>12, <1>16, ShortSeqs
  <2>2. extractor' = [extractor EXCEPT !.buffer = longer, !.matched = m] /\ UNCHANGED delivered
    BY <1>7, <1>8, <1>11, <1>16, <2>1 DEF ContentByte
  <2>3. extractor'.part = "content" /\ extractor'.buffer = longer /\ extractor'.matched = m
    BY <1>2, <2>2 DEF TypeInv, Extractors
  <2>4. Filled(f, j)' BY <1>4, <1>9, <2>3 DEF Filled
  <2>5. Matching(f, j)'
    <3>1. j - 1 = k BY <1>3
    <3>2. m <= j /\ (m >= 1 => r[j] = "-") /\ (m = 2 => r[j - 1] = "-") /\ (j >= n + 2 => m = j - n - 2)
      BY <1>12, <1>16, <3>1
    <3>3. QED BY <1>1, <1>4, <2>3, <3>2 DEF Matching
  <2>6. j \in 0 .. Len(f) + 4 BY <1>1, <1>3, <1>12, <1>16
  <2>7. Left(Framed(f), j)' BY <1>4, <1>6
  <2>8. InContent(f)' BY <2>3, <2>4, <2>5, <2>6, <2>7 DEF InContent
  <2>9. QED BY <2>2, <2>8
<1>17. CASE ~Full /\ m = 3
  <2>1. m = Len(Boundary) /\ ~(m < Len(Boundary)) BY <1>17, ShortSeqs
  <2>2. j = n + 5 BY <1>12, <1>17
  <2>3. PictureLength(Len(longer)) = n BY <1>9, <2>2, ShortSeqs DEF PictureLength
  <2>4. extractor' = Fresh /\ delivered' = Append(delivered, [length |-> n, data |-> SubSeq(longer, 1, n)])
    BY <1>7, <1>8, <1>11, <1>17, <2>1, <2>3 DEF ContentByte
  <2>5. SubSeq(longer, 1, n) = f
    <3>1. /\ SubSeq(longer, 1, n) \in Seq(Bytes) /\ Len(SubSeq(longer, 1, n)) = n
          /\ \A i \in 1 .. n : SubSeq(longer, 1, n)[i] = longer[i]
      BY <1>9, <2>2
    <3>2. \A i \in 1 .. n : i \in 1 .. j /\ r[i] = f[i]
      <4>1. \A i \in 1 .. n : Framed(f)[i] = f[i] BY <1>1, FramedIs, Zenon
      <4>2. \A i \in 1 .. n : i \in 1 .. j BY <2>2
      <4>3. QED BY <1>4, <4>1, <4>2
    <3>3. QED BY <1>1, <1>9, <3>1, <3>2, SeqEqual
  <2>6. ~TooLong(f) BY <1>3, <1>14, <1>17, <2>2
  <2>7. Left(CRLF, 0)'
    <3>1. r[n + 6] = "CR" /\ r[n + 7] = "LF" /\ CRLF[1] = "CR" /\ CRLF[2] = "LF" BY <1>1, <1>4, FramedIs, ShortSeqs
    <3>2. j + 1 = n + 6 /\ j + 2 = n + 7 BY <2>2
    <3>3. \A i \in 1 .. 2 : i = 1 \/ i = 2 OBVIOUS
    <3>4. \A i \in 1 .. 2 : r[j + i] = CRLF[i] BY <3>1, <3>2, <3>3
    <3>5. CRLF \in Seq(Bytes) /\ Len(CRLF) = 2 /\ 2 \in Nat /\ Len(r) = j + 2 BY <1>4, <2>2, ShortSeqs
    <3>6. QED BY <1>6, <3>4, <3>5, LeftOfSecond
  <2>8. QED BY <1>1, <2>4, <2>5, <2>6, <2>7
<1>18. QED BY <1>15, <1>16, <1>17

-----------------------------------------------------------------------------
(* From place to place.                                                    *)

\* A byte that ends no empty line.
LEMMA HeadsOn ==
  ASSUME TypeInv, Extract, NEW s \in Seq(Bytes), NEW k \in Nat, NEW j \in Nat, j = k + 1,
         NEW a, NEW b, NEW c, NEW d, Heads(s, k, <<a, b, c, d>>), NEW e, s[j] = e,
         ~IsCrlf(b, c) \/ ~IsCrlf(d, e)
  PROVE  UNCHANGED delivered /\ Heads(s, j, <<b, c, d, e>>)'
BY HeadsDo

\* A byte that ends an empty line, or what passes for one.
LEMMA HeadsEnd ==
  ASSUME TypeInv, Extract, NEW s \in Seq(Bytes), NEW k \in Nat, NEW j \in Nat, j = k + 1,
         NEW a, NEW b, NEW c, NEW d, Heads(s, k, <<a, b, c, d>>), NEW e, s[j] = e,
         IsCrlf(b, c), IsCrlf(d, e)
  PROVE  /\ UNCHANGED delivered /\ Left(s, j)' /\ Content(<<b, c, d, e>>)'
BY HeadsDo

\* What is being extracted can be a content.
LEMMA CurrentIs ==
  ASSUME TypeInv
  PROVE  Current \in Seq(Bytes) /\ NoBoundary(Current) /\ (sent = <<>> => ~TooLong(Current))
<1>1. CASE sent = <<>> BY <1>1, ContentsAre DEF Current
<1>2. CASE sent # <<>>
  <2>1. PICK n \in Nat : n = Len(sent) /\ n > 0 BY <1>2, EmptySeq DEF TypeInv
  <2>2. sent[n] \in Frames BY <2>1, ElementOfSeq DEF TypeInv
  <2>3. QED BY <1>2, <2>1, <2>2, ContentsAre DEF Current
<1>3. QED BY <1>1, <1>2

\* The content begins with its first byte.
LEMMA ContentBegins ==
  ASSUME NEW f \in Seq(Bytes), Left(Framed(f), 0)', NEW four, Content(four)'
  PROVE  InContent(f)'
<1>1. extractor'.part = "content" /\ extractor'.buffer = <<>> /\ extractor'.matched = 0 BY DEF Content
<1>2. Filled(f, 0)' BY <1>1 DEF Filled
<1>3. PICK n \in Nat : n = Len(f) OBVIOUS
<1>4. Matching(f, 0)' BY <1>1, <1>3 DEF Matching
<1>5. 0 \in 0 .. Len(f) + 4 BY <1>3
<1>6. QED BY <1>1, <1>2, <1>4, <1>5 DEF InContent

\* Nothing is published of a refusal.
LEMMA RefusedStep ==
  ASSUME TypeInv, Extract, Refused
  PROVE  Refused' /\ UNCHANGED delivered
<1>1. UNCHANGED <<streams, sent>> BY DEF Extract
<1>2. Refusal \in Seq(Bytes) BY RefusalIs
<1>3. CASE Heads(Refusal, 0, <<"0", "0", "0", "0">>)
  <2>0. 0 \in Nat /\ 1 \in Nat /\ 1 = 0 + 1 OBVIOUS
  <2>1. Refusal[1] = "h" /\ (~IsCrlf("0", "0") \/ ~IsCrlf("0", "h")) BY RefusalIs, LineEnds
  <2>2. UNCHANGED delivered /\ Heads(Refusal, 1, <<"0", "0", "0", "h">>)' BY <1>2, <1>3, <2>1, <2>0, HeadsOn, Zenon
  <2>3. QED BY <1>1, <2>2 DEF Refused, InRefusal
<1>4. CASE Heads(Refusal, 1, <<"0", "0", "0", "h">>)
  <2>0. 1 \in Nat /\ 2 \in Nat /\ 2 = 1 + 1 OBVIOUS
  <2>1. Refusal[2] = "CR" /\ (~IsCrlf("0", "0") \/ ~IsCrlf("h", "CR")) BY RefusalIs, LineEnds
  <2>2. UNCHANGED delivered /\ Heads(Refusal, 2, <<"0", "0", "h", "CR">>)' BY <1>2, <1>4, <2>1, <2>0, HeadsOn, Zenon
  <2>3. QED BY <1>1, <2>2 DEF Refused, InRefusal
<1>5. CASE Heads(Refusal, 2, <<"0", "0", "h", "CR">>)
  <2>0. 2 \in Nat /\ 3 \in Nat /\ 3 = 2 + 1 OBVIOUS
  <2>1. Refusal[3] = "LF" /\ (~IsCrlf("0", "h") \/ ~IsCrlf("CR", "LF")) BY RefusalIs, LineEnds
  <2>2. UNCHANGED delivered /\ Heads(Refusal, 3, <<"0", "h", "CR", "LF">>)' BY <1>2, <1>5, <2>1, <2>0, HeadsOn, Zenon
  <2>3. QED BY <1>1, <2>2 DEF Refused, InRefusal
<1>6. CASE Heads(Refusal, 3, <<"0", "h", "CR", "LF">>)
  <2>0. 3 \in Nat /\ 4 \in Nat /\ 4 = 3 + 1 OBVIOUS
  <2>1. Refusal[4] = "h" /\ (~IsCrlf("h", "CR") \/ ~IsCrlf("LF", "h")) BY RefusalIs, LineEnds
  <2>2. UNCHANGED delivered /\ Heads(Refusal, 4, <<"h", "CR", "LF", "h">>)' BY <1>2, <1>6, <2>1, <2>0, HeadsOn, Zenon
  <2>3. QED BY <1>1, <2>2 DEF Refused, InRefusal
<1>7. CASE Heads(Refusal, 4, <<"h", "CR", "LF", "h">>)
  <2>0. 4 \in Nat /\ 5 \in Nat /\ 5 = 4 + 1 OBVIOUS
  <2>1. Refusal[5] = "CR" /\ (~IsCrlf("CR", "LF") \/ ~IsCrlf("h", "CR")) BY RefusalIs, LineEnds
  <2>2. UNCHANGED delivered /\ Heads(Refusal, 5, <<"CR", "LF", "h", "CR">>)' BY <1>2, <1>7, <2>1, <2>0, HeadsOn, Zenon
  <2>3. QED BY <1>1, <2>2 DEF Refused, InRefusal
<1>8. CASE Heads(Refusal, 5, <<"CR", "LF", "h", "CR">>)
  <2>0. 5 \in Nat /\ 6 \in Nat /\ 6 = 5 + 1 OBVIOUS
  <2>1. Refusal[6] = "LF" /\ (~IsCrlf("LF", "h") \/ ~IsCrlf("CR", "LF")) BY RefusalIs, LineEnds
  <2>2. UNCHANGED delivered /\ Heads(Refusal, 6, <<"LF", "h", "CR", "LF">>)' BY <1>2, <1>8, <2>1, <2>0, HeadsOn, Zenon
  <2>3. QED BY <1>1, <2>2 DEF Refused, InRefusal
<1>9. CASE Heads(Refusal, 6, <<"LF", "h", "CR", "LF">>)
  <2>0. 6 \in Nat /\ 7 \in Nat /\ 7 = 6 + 1 OBVIOUS
  <2>1. Refusal[7] = "CR" /\ (~IsCrlf("h", "CR") \/ ~IsCrlf("LF", "CR")) BY RefusalIs, LineEnds
  <2>2. UNCHANGED delivered /\ Heads(Refusal, 7, <<"h", "CR", "LF", "CR">>)' BY <1>2, <1>9, <2>1, <2>0, HeadsOn, Zenon
  <2>3. QED BY <1>1, <2>2 DEF Refused, InRefusal
<1>10. CASE Heads(Refusal, 7, <<"h", "CR", "LF", "CR">>)
  <2>0. 7 \in Nat /\ 8 \in Nat /\ 8 = 7 + 1 OBVIOUS
  <2>1. Refusal[8] = "LF" /\ IsCrlf("CR", "LF") BY RefusalIs, LineEnds
  <2>2. /\ UNCHANGED delivered /\ Left(Refusal, 8)' /\ Content(<<"CR", "LF", "CR", "LF">>)'
    BY <1>2, <1>10, <2>1, <2>0, HeadsEnd, Zenon
  <2>3. extractor'.part = "content" /\ extractor'.buffer = <<>> /\ extractor'.matched = 0 BY <2>2 DEF Content
  <2>4. QED BY <1>1, <2>2, <2>3 DEF Refused, InRefusal
<1>11. CASE Left(Refusal, 8) /\ extractor.part = "content" /\ extractor.buffer = <<>> /\ extractor.matched = 0
  <2>1. toCome \in Seq(Bytes) /\ toCome # <<>> /\ toCome' = Tail(toCome) BY DEF TypeInv, Extract
  <2>2. Head(toCome) = "x" /\ Left(Refusal, 9)' BY <1>2, <1>11, <2>1, LeftDoes, RefusalIs
  <2>3. ContentByte("x") BY <1>11, <2>2 DEF Extract, HeaderByte
  <2>4. Compare(extractor.matched, "x") # Len(Boundary) BY <1>11, CompareDoes, ShortSeqs
  <2>5. UNCHANGED delivered BY <2>3, <2>4 DEF ContentByte
  <2>6. QED BY <1>1, <2>2, <2>5 DEF Refused, InRefusal
<1>12. CASE Left(Refusal, 9)
  <2>1. toCome \in Seq(Bytes) /\ toCome # <<>> BY DEF TypeInv, Extract
  <2>2. Len(toCome) = 0 BY <1>12, RefusalIs DEF Left
  <2>3. QED BY <2>1, <2>2, EmptySeq
<1>13. Refused BY Zenon
<1>14. QED BY <1>3, <1>4, <1>5, <1>6, <1>7, <1>8, <1>9, <1>10, <1>11, <1>12, <1>13 DEF Refused, InRefusal

\* After the status line, which passes for an empty line, comes the content.
LEMMA StatusStep ==
  ASSUME TypeInv, Extract, AtStatus
  PROVE  (AtStatus \/ AtContent)' /\ UNCHANGED delivered
<1>1. UNCHANGED <<streams, sent>> BY DEF Extract
<1>2. ResponseHead \in Seq(Bytes) BY ResponseIs
<1>3. CASE Heads(ResponseHead, 0, <<"0", "0", "0", "0">>)
  <2>0. 0 \in Nat /\ 1 \in Nat /\ 1 = 0 + 1 OBVIOUS
  <2>1. ResponseHead[1] = "O" /\ (~IsCrlf("0", "0") \/ ~IsCrlf("0", "O")) BY ResponseIs, LineEnds
  <2>2. UNCHANGED delivered /\ Heads(ResponseHead, 1, <<"0", "0", "0", "O">>)' BY <1>2, <1>3, <2>1, <2>0, HeadsOn, Zenon
  <2>3. QED BY <1>1, <2>2 DEF AtStatus, InStatus
<1>4. CASE Heads(ResponseHead, 1, <<"0", "0", "0", "O">>)
  <2>0. 1 \in Nat /\ 2 \in Nat /\ 2 = 1 + 1 OBVIOUS
  <2>1. ResponseHead[2] = "K" /\ (~IsCrlf("0", "0") \/ ~IsCrlf("O", "K")) BY ResponseIs, LineEnds
  <2>2. UNCHANGED delivered /\ Heads(ResponseHead, 2, <<"0", "0", "O", "K">>)' BY <1>2, <1>4, <2>1, <2>0, HeadsOn, Zenon
  <2>3. QED BY <1>1, <2>2 DEF AtStatus, InStatus
<1>5. CASE Heads(ResponseHead, 2, <<"0", "0", "O", "K">>)
  <2>0. 2 \in Nat /\ 3 \in Nat /\ 3 = 2 + 1 OBVIOUS
  <2>1. ResponseHead[3] = "CR" /\ (~IsCrlf("0", "O") \/ ~IsCrlf("K", "CR")) BY ResponseIs, LineEnds
  <2>2. UNCHANGED delivered /\ Heads(ResponseHead, 3, <<"0", "O", "K", "CR">>)' BY <1>2, <1>5, <2>1, <2>0, HeadsOn, Zenon
  <2>3. QED BY <1>1, <2>2 DEF AtStatus, InStatus
<1>6. CASE Heads(ResponseHead, 3, <<"0", "O", "K", "CR">>)
  <2>0. 3 \in Nat /\ 4 \in Nat /\ 4 = 3 + 1 OBVIOUS
  <2>1. ResponseHead[4] = "LF" /\ IsCrlf("O", "K") /\ IsCrlf("CR", "LF") BY ResponseIs, LineEnds
  <2>2. /\ UNCHANGED delivered /\ Left(ResponseHead, 4)' /\ Content(<<"O", "K", "CR", "LF">>)'
    BY <1>2, <1>6, <2>1, <2>0, HeadsEnd, Zenon
  <2>3. Left(Framed(Headers), 0)'
    <3>1. 3 \in Nat /\ 10 \in Nat /\ 4 \in Nat /\ 3 + 7 = 10 /\ 4 + 10 = 14 OBVIOUS
    <3>2. Framed(Headers) \in Seq(Bytes) /\ Len(Framed(Headers)) = 10 BY <3>1, HeadersAre, FramedIs
    <3>3. Len(ResponseHead) = 4 + 10 /\ \A i \in 1 .. 10 : ResponseHead[4 + i] = Framed(Headers)[i]
      BY <3>1, ResponseIs
    <3>4. PICK r \in Seq(Bytes) : r = Framed(Headers) BY <3>2
    <3>5. Len(r) = 10 /\ \A i \in 1 .. 10 : ResponseHead[4 + i] = r[i] BY <3>2, <3>3, <3>4
    <3>6. PICK k \in Nat, n \in Nat : k = 4 /\ n = 10 BY <3>1
    <3>7. Left(ResponseHead, k)' /\ Len(ResponseHead) = k + n /\ Len(r) = n BY <2>2, <3>3, <3>5, <3>6
    <3>8. \A i \in 1 .. n : ResponseHead[k + i] = r[i] BY <3>5, <3>6
    <3>9. Left(r, 0)' BY <1>2, <3>7, <3>8, LeftOfSecond
    <3>10. QED BY <3>4, <3>9
  <2>4. InContent(Headers)' BY <2>2, <2>3, HeadersAre, ContentBegins
  <2>5. Current' = Headers BY <1>1 DEF AtStatus, Current
  <2>6. Len(sent) = 0 /\ Len(delivered) = 0 BY EmptySeq DEF AtStatus
  <2>7. Fit(Len(sent) - 1)' BY <1>1, <2>6 DEF Fit
  <2>8. QED BY <1>1, <2>2, <2>4, <2>5, <2>6, <2>7 DEF AtContent, AtStatus, InContent
<1>7. AtStatus BY Zenon
<1>8. QED BY <1>3, <1>4, <1>5, <1>6, <1>7 DEF AtStatus, InStatus

\* After the empty line of the header of a part comes a picture.
LEMMA PartStep ==
  ASSUME TypeInv, Extract, AtPart
  PROVE  (AtPart \/ AtContent)' /\ UNCHANGED delivered
<1>1. UNCHANGED <<streams, sent>> BY DEF Extract
<1>2. PICK f \in Seq(Bytes) : f = Current BY CurrentIs
<1>3. PICK n \in Nat : n = Len(f) OBVIOUS
<1>4. PartOf(f) \in Seq(Bytes) BY <1>3, PartIs
<1>5. Current' = f BY <1>1, <1>2 DEF Current
<1>6. CASE Heads(PartOf(f), 0, <<"0", "0", "CR", "LF">>)
  <2>0. 0 \in Nat /\ 1 \in Nat /\ 1 = 0 + 1 OBVIOUS
  <2>1. PartOf(f)[1] = "h" /\ (~IsCrlf("0", "CR") \/ ~IsCrlf("LF", "h")) BY <1>3, PartIs, LineEnds
  <2>2. UNCHANGED delivered /\ Heads(PartOf(f), 1, <<"0", "CR", "LF", "h">>)' BY <1>4, <1>6, <2>1, <2>0, HeadsOn, Zenon
  <2>3. InPart(f)' BY <2>2 DEF InPart
  <2>4. QED BY <1>1, <1>5, <2>2, <2>3 DEF AtPart, InPart, Fit
<1>7. CASE Heads(PartOf(f), 1, <<"0", "CR", "LF", "h">>)
  <2>0. 1 \in Nat /\ 2 \in Nat /\ 2 = 1 + 1 OBVIOUS
  <2>1. PartOf(f)[2] = "CR" /\ (~IsCrlf("CR", "LF") \/ ~IsCrlf("h", "CR")) BY <1>3, PartIs, LineEnds
  <2>2. UNCHANGED delivered /\ Heads(PartOf(f), 2, <<"CR", "LF", "h", "CR">>)' BY <1>4, <1>7, <2>1, <2>0, HeadsOn, Zenon
  <2>3. InPart(f)' BY <2>2 DEF InPart
  <2>4. QED BY <1>1, <1>5, <2>2, <2>3 DEF AtPart, InPart, Fit
<1>8. CASE Heads(PartOf(f), 2, <<"CR", "LF", "h", "CR">>)
  <2>0. 2 \in Nat /\ 3 \in Nat /\ 3 = 2 + 1 OBVIOUS
  <2>1. PartOf(f)[3] = "LF" /\ (~IsCrlf("LF", "h") \/ ~IsCrlf("CR", "LF")) BY <1>3, PartIs, LineEnds
  <2>2. UNCHANGED delivered /\ Heads(PartOf(f), 3, <<"LF", "h", "CR", "LF">>)' BY <1>4, <1>8, <2>1, <2>0, HeadsOn, Zenon
  <2>3. InPart(f)' BY <2>2 DEF InPart
  <2>4. QED BY <1>1, <1>5, <2>2, <2>3 DEF AtPart, InPart, Fit
<1>9. CASE Heads(PartOf(f), 3, <<"LF", "h", "CR", "LF">>)
  <2>0. 3 \in Nat /\ 4 \in Nat /\ 4 = 3 + 1 OBVIOUS
  <2>1. PartOf(f)[4] = "CR" /\ (~IsCrlf("h", "CR") \/ ~IsCrlf("LF", "CR")) BY <1>3, PartIs, LineEnds
  <2>2. UNCHANGED delivered /\ Heads(PartOf(f), 4, <<"h", "CR", "LF", "CR">>)' BY <1>4, <1>9, <2>1, <2>0, HeadsOn, Zenon
  <2>3. InPart(f)' BY <2>2 DEF InPart
  <2>4. QED BY <1>1, <1>5, <2>2, <2>3 DEF AtPart, InPart, Fit
<1>10. CASE Heads(PartOf(f), 4, <<"h", "CR", "LF", "CR">>)
  <2>0. 4 \in Nat /\ 5 \in Nat /\ 5 = 4 + 1 OBVIOUS
  <2>1. PartOf(f)[5] = "LF" /\ IsCrlf("CR", "LF") BY <1>3, PartIs, LineEnds
  <2>2. /\ UNCHANGED delivered /\ Left(PartOf(f), 5)' /\ Content(<<"CR", "LF", "CR", "LF">>)'
    BY <1>4, <1>10, <2>1, <2>0, HeadsEnd, Zenon
  <2>3. Left(Framed(f), 0)'
    <3>1. PICK m \in Nat : m = n + 7 OBVIOUS
    <3>2. Framed(f) \in Seq(Bytes) /\ Len(Framed(f)) = m BY <1>3, <3>1, FramedIs
    <3>3. Len(PartOf(f)) = n + 12 /\ \A i \in 1 .. n + 7 : PartOf(f)[5 + i] = Framed(f)[i] BY <1>3, PartIs, Zenon
    <3>4. Len(PartOf(f)) = 5 + m /\ \A i \in 1 .. m : PartOf(f)[5 + i] = Framed(f)[i] BY <3>1, <3>3
    <3>5. 5 \in Nat OBVIOUS
    <3>6. PICK p \in Seq(Bytes), r \in Seq(Bytes) : p = PartOf(f) /\ r = Framed(f) BY <1>4, <3>2
    <3>7. PICK k \in Nat : k = 5 BY <3>5
    <3>8. /\ Len(p) = k + m /\ Len(r) = m /\ (\A i \in 1 .. m : p[k + i] = r[i]) /\ Left(p, k)'
      BY <2>2, <3>2, <3>4, <3>6, <3>7
    <3>9. Left(r, 0)' BY <3>1, <3>8, LeftOfSecond
    <3>10. QED BY <3>6, <3>9
  <2>4. InContent(f)' BY <2>2, <2>3, ContentBegins
  <2>5. QED BY <1>1, <1>5, <2>2, <2>4 DEF AtContent, AtPart, InContent, Fit
<1>11. InPart(f) BY <1>2 DEF AtPart, InPart
<1>12. QED BY <1>6, <1>7, <1>8, <1>9, <1>10, <1>11 DEF InPart

\* After the boundary comes the end of its line.
LEMMA EndStep ==
  ASSUME TypeInv, Extract, AtEnd
  PROVE  AtEnd' /\ UNCHANGED delivered
<1>1. UNCHANGED <<streams, sent>> BY DEF Extract
<1>2. CRLF \in Seq(Bytes) BY ShortSeqs
<1>3. CASE Heads(CRLF, 0, <<"0", "0", "0", "0">>)
  <2>0. 0 \in Nat /\ 1 \in Nat /\ 1 = 0 + 1 OBVIOUS
  <2>1. CRLF[1] = "CR" /\ (~IsCrlf("0", "0") \/ ~IsCrlf("0", "CR")) BY ShortSeqs, LineEnds
  <2>2. UNCHANGED delivered /\ Heads(CRLF, 1, <<"0", "0", "0", "CR">>)' BY <1>2, <1>3, <2>1, <2>0, HeadsOn, Zenon
  <2>3. QED BY <1>1, <2>2 DEF AtEnd, InEnd, Fit
<1>4. CASE Heads(CRLF, 1, <<"0", "0", "0", "CR">>)
  <2>0. 1 \in Nat /\ 2 \in Nat /\ 2 = 1 + 1 OBVIOUS
  <2>1. CRLF[2] = "LF" /\ (~IsCrlf("0", "0") \/ ~IsCrlf("CR", "LF")) BY ShortSeqs, LineEnds
  <2>2. UNCHANGED delivered /\ Heads(CRLF, 2, <<"0", "0", "CR", "LF">>)' BY <1>2, <1>4, <2>1, <2>0, HeadsOn, Zenon
  <2>3. QED BY <1>1, <2>2 DEF AtEnd, InEnd, Fit
<1>5. CASE Heads(CRLF, 2, <<"0", "0", "CR", "LF">>)
  <2>1. toCome \in Seq(Bytes) /\ toCome # <<>> BY DEF TypeInv, Extract
  <2>2. Len(toCome) = 0 BY <1>5, ShortSeqs DEF Heads, Left
  <2>3. QED BY <2>1, <2>2, EmptySeq
<1>6. AtEnd BY Zenon
<1>7. QED BY <1>3, <1>4, <1>5, <1>6 DEF AtEnd, InEnd

\* What a byte of a content does: it is dropped, or it is added, or the content is
\* published.
LEMMA ContentStep ==
  ASSUME TypeInv, Extract, AtContent
  PROVE  \/ (AtContent \/ Blocked)' /\ UNCHANGED delivered
         \/ /\ AtEnd' /\ ~TooLong(Current) /\ Current \in Seq(Bytes)
            /\ delivered' = Append(delivered, [length |-> Len(Current), data |-> Current])
<1>1. UNCHANGED <<streams, sent>> BY DEF Extract
<1>2. PICK f \in Seq(Bytes) : f = Current /\ NoBoundary(f) /\ (sent = <<>> => ~TooLong(f)) BY CurrentIs
<1>3. Current' = f BY <1>1, <1>2 DEF Current
<1>4. InContent(f) /\ extractor.part = "content" BY <1>2 DEF AtContent, InContent
<1>5. PICK n \in Nat : n = Len(sent) BY DEF TypeInv
<1>6. streams /\ Len(delivered) = n /\ Fit(n - 1) BY <1>5 DEF AtContent
<1>7. n > 0 => sent[n] = f BY <1>2, <1>5 DEF Current
<1>8. CASE Full /\ TooLong(f) /\ UNCHANGED <<extractor, delivered>>
  <2>1. n > 0 BY <1>2, <1>5, <1>8, EmptySeq DEF TypeInv
  <2>2. n \in 1 .. n /\ TooLong(sent[n]) BY <1>7, <1>8, <2>1
  <2>3. \E m \in 1 .. Len(sent) : TooLong(sent[m]) /\ Fit(m - 1) /\ Len(delivered) = m BY <1>5, <1>6, <2>2
  <2>4. Blocked BY <1>4, <1>6, <1>8, <2>3 DEF Blocked
  <2>5. Blocked' BY <1>1, <1>8, <2>4 DEF Blocked, Full, Fit
  <2>6. QED BY <1>8, <2>5
<1>9. CASE InContent(f)' /\ UNCHANGED delivered
  <2>1. Fit(n - 1)' BY <1>1, <1>6 DEF Fit
  <2>2. AtContent' BY <1>1, <1>3, <1>5, <1>6, <1>9, <2>1 DEF AtContent, InContent
  <2>3. QED BY <1>9, <2>2
<1>10. CASE /\ ~TooLong(f) /\ Left(CRLF, 0)' /\ extractor' = Fresh
            /\ delivered' = Append(delivered, [length |-> Len(f), data |-> f])
  <2>1. InEnd' BY <1>10 DEF InEnd, Heads, Header, Fresh
  <2>2. Fit(n)
    <3>1. \A i \in 1 .. n : i \in 1 .. n - 1 \/ i = n OBVIOUS
    <3>2. QED BY <1>6, <1>7, <1>10, <3>1 DEF Fit
  <2>3. Len(delivered') = n + 1 BY <1>6, <1>10, LongerByOne DEF TypeInv
  <2>4. Fit(n)' BY <1>1, <2>2 DEF Fit
  <2>5. AtEnd' BY <1>1, <1>5, <1>6, <2>1, <2>3, <2>4 DEF AtEnd
  <2>6. QED BY <1>2, <1>10, <2>5
<1>11. QED BY <1>2, <1>4, <1>8, <1>9, <1>10, ContentDoes

\* A buffer that is full stays so.
LEMMA BlockedStep ==
  ASSUME TypeInv, Extract, Blocked
  PROVE  Blocked' /\ UNCHANGED delivered
<1>1. UNCHANGED <<streams, sent>> BY DEF Extract
<1>2. UNCHANGED <<extractor, delivered>> BY DEF Blocked, Extract, HeaderByte, ContentByte
<1>3. QED BY <1>1, <1>2 DEF Blocked, Full, Fit

\* A byte, wherever it comes.
LEMMA ExtractStep ==
  ASSUME TypeInv, Place, Extract
  PROVE  /\ Place'
         /\ \/ UNCHANGED delivered
            \/ /\ Len(delivered) = Len(sent) /\ ~TooLong(Current) /\ Current \in Seq(Bytes)
               /\ delivered' = Append(delivered, [length |-> Len(Current), data |-> Current])
<1>1. CASE Nothing BY <1>1 DEF Nothing, Extract
<1>2. CASE Refused BY <1>2, RefusedStep DEF Place
<1>3. CASE AtStatus BY <1>3, StatusStep DEF Place
<1>4. CASE AtPart BY <1>4, PartStep DEF Place
<1>5. CASE AtContent
  <2>1. Len(delivered) = Len(sent) BY <1>5 DEF AtContent
  <2>2. QED BY <1>5, <2>1, ContentStep DEF Place
<1>6. CASE AtEnd BY <1>6, EndStep DEF Place
<1>7. CASE Blocked BY <1>7, BlockedStep DEF Place
<1>8. QED BY <1>1, <1>2, <1>3, <1>4, <1>5, <1>6, <1>7 DEF Place

\* The bytes that are left in each place.
LEMMA ToComeIs ==
  ASSUME TypeInv
  PROVE  /\ AtStatus \/ AtPart \/ AtContent => Len(toCome) > 2
         /\ AtEnd => /\ Len(toCome) <= 2
                     /\ toCome = <<>> => Heads(CRLF, 2, <<"0", "0", "CR", "LF">>)
<1>1. PICK f \in Seq(Bytes) : f = Current BY CurrentIs
<1>2. PICK n \in Nat : n = Len(f) OBVIOUS
<1>3. ASSUME AtStatus PROVE Len(toCome) > 2
  <2>1. Left(ResponseHead, 0) \/ Left(ResponseHead, 1) \/ Left(ResponseHead, 2) \/ Left(ResponseHead, 3)
    BY <1>3, Zenon DEF AtStatus, InStatus, Heads
  <2>2. PICK l \in Nat : l = Len(ResponseHead) /\ l = 14 BY ResponseIs
  <2>3. Len(toCome) = l - 0 \/ Len(toCome) = l - 1 \/ Len(toCome) = l - 2 \/ Len(toCome) = l - 3
    BY <2>1, <2>2, Zenon DEF Left
  <2>4. PICK m : m = Len(toCome) OBVIOUS
  <2>5. l = 14 /\ (m = l - 0 \/ m = l - 1 \/ m = l - 2 \/ m = l - 3) BY <2>2, <2>3, <2>4, Zenon
  <2>6. m > 2 BY <2>5
  <2>7. QED BY <2>4, <2>6
<1>4. ASSUME AtPart PROVE Len(toCome) > 2
  <2>1. InPart(f) BY <1>1, <1>4 DEF AtPart, InPart
  <2>2. Len(PartOf(f)) = n + 12 BY <1>2, PartIs
  <2>3. QED BY <2>1, <2>2 DEF InPart, Heads, Left
<1>5. ASSUME AtContent PROVE Len(toCome) > 2
  <2>1. InContent(f) BY <1>1, <1>5 DEF AtContent, InContent
  <2>2. Len(Framed(f)) = n + 7 BY <1>2, FramedIs
  <2>3. PICK k \in 0 .. n + 4 : Left(Framed(f), k) BY <1>2, <2>1 DEF InContent
  <2>4. QED BY <2>2, <2>3 DEF Left
<1>6. ASSUME AtEnd PROVE Len(toCome) <= 2
  <2>1. Left(CRLF, 0) \/ Left(CRLF, 1) \/ Left(CRLF, 2) BY <1>6, Zenon DEF AtEnd, InEnd, Heads
  <2>2. PICK l \in Nat : l = Len(CRLF) /\ l = 2 BY ShortSeqs
  <2>3. QED BY <2>1, <2>2 DEF Left
<1>7. ASSUME AtEnd, toCome = <<>> PROVE Heads(CRLF, 2, <<"0", "0", "CR", "LF">>)
  <2>1. Len(toCome) = 0 BY <1>7
  <2>2. ~Left(CRLF, 0) /\ ~Left(CRLF, 1) BY <2>1, ShortSeqs DEF Left
  <2>3. QED BY <1>7, <2>2, Zenon DEF AtEnd, InEnd, Heads
<1>8. QED BY <1>3, <1>4, <1>5, <1>6, <1>7

\* A picture is sent when the one before it has been taken, or will never be.
LEMMA SendStep ==
  ASSUME TypeInv, Place, SendFrame
  PROVE  Place'
<1>1. PICK f \in Frames : sent' = Append(sent, f) /\ toCome' = PartOf(f) BY DEF SendFrame
<1>2. streams /\ toCome = <<>> /\ UNCHANGED <<streams, extractor, delivered>> BY DEF SendFrame
<1>3. PICK n \in Nat : n = Len(sent) BY DEF TypeInv
<1>4. Len(sent') = n + 1 /\ (\A i \in 1 .. n : sent'[i] = sent[i]) /\ sent'[n + 1] = f
  BY <1>1, <1>3, LongerByOne DEF TypeInv
<1>5. CASE AtEnd
  <2>1. Heads(CRLF, 2, <<"0", "0", "CR", "LF">>) BY <1>2, <1>5, ToComeIs
  <2>2. Left(PartOf(f), 0)'
    <3>1. f \in Seq(Bytes) /\ Len(f) \in Nat BY ContentsAre
    <3>2. PICK p \in Seq(Bytes) : p = PartOf(f) BY <3>1, PartIs
    <3>3. Left(p, 0)' BY <1>1, <3>2, LeftOfAll
    <3>4. QED BY <3>2, <3>3
  <2>3. Header(<<"0", "0", "CR", "LF">>)' BY <1>2, <2>1 DEF Heads, Header
  <2>4. InPart(f)' BY <2>2, <2>3 DEF InPart, Heads
  <2>5. sent' # <<>> BY <1>4
  <2>6. Current' = f BY <1>4, <2>5 DEF Current
  <2>7. Fit(n) /\ Len(delivered) = n + 1 BY <1>3, <1>5 DEF AtEnd
  <2>8. Fit(n)' BY <1>4, <2>7 DEF Fit
  <2>9. Fit(Len(sent) - 1)' BY <1>4, <2>8 DEF Fit
  <2>10. AtPart' BY <1>2, <1>4, <2>4, <2>5, <2>6, <2>7, <2>9 DEF AtPart, InPart
  <2>11. QED BY <2>10 DEF Place
<1>6. CASE Blocked
  <2>1. PICK m \in 1 .. n : TooLong(sent[m]) /\ Fit(m - 1) /\ Len(delivered) = m BY <1>3, <1>6 DEF Blocked
  <2>2. m \in 1 .. n + 1 /\ sent'[m] = sent[m] BY <1>4, <2>1
  <2>3. Fit(m - 1)'
    <3>1. \A i \in 1 .. m - 1 : i \in 1 .. n /\ ~TooLong(sent[i]) BY <2>1 DEF Fit
    <3>2. QED BY <1>4, <3>1 DEF Fit
  <2>4. TooLong(sent'[m]) /\ Len(delivered') = m BY <1>2, <2>1, <2>2
  <2>5. extractor'.part = "content" /\ Full' /\ streams' BY <1>2, <1>6 DEF Blocked, Full
  <2>6. Blocked' BY <1>4, <2>2, <2>3, <2>4, <2>5 DEF Blocked
  <2>7. QED BY <2>6 DEF Place
<1>7. ~(AtStatus \/ AtPart \/ AtContent) BY <1>2, ToComeIs
<1>8. ~Nothing /\ ~Refused BY <1>2 DEF Nothing, Refused
<1>9. QED BY <1>5, <1>6, <1>7, <1>8 DEF Place

\* A connection begins with the whole of a response.
LEMMA ConnectStep ==
  ASSUME TypeInv, Connect
  PROVE  Place'
<1>1. streams' \in BOOLEAN /\ extractor' = Fresh /\ sent' = <<>> /\ delivered' = <<>> BY DEF Connect
<1>2. Header(<<"0", "0", "0", "0">>)' BY <1>1 DEF Header, Fresh
<1>3. CASE streams'
  <2>1. toCome' = ResponseHead BY <1>3 DEF Connect
  <2>2. Left(ResponseHead, 0)' BY <2>1, LeftOfAll, ResponseIs
  <2>3. InStatus' BY <1>2, <2>2 DEF InStatus, Heads
  <2>4. QED BY <1>1, <1>3, <2>3 DEF AtStatus, Place
<1>4. CASE ~streams'
  <2>1. toCome' = Refusal BY <1>4 DEF Connect
  <2>2. Left(Refusal, 0)' BY <2>1, LeftOfAll, RefusalIs
  <2>3. InRefusal' BY <1>2, <2>2 DEF InRefusal, Heads
  <2>4. QED BY <1>1, <1>4, <2>3 DEF Refused, Place
<1>5. QED BY <1>3, <1>4

\* A step of no byte and of no server.
LEMMA SamePlace ==
  ASSUME Place, UNCHANGED <<streams, toCome, extractor, sent, delivered>>
  PROVE  Place'
<1>1. CASE Nothing BY <1>1 DEF Nothing, Place
<1>2. CASE Refused
  <2>1. InRefusal' BY <1>2 DEF Refused, InRefusal, Heads, Header, Left
  <2>2. QED BY <1>2, <2>1 DEF Refused, Place
<1>3. CASE AtStatus
  <2>1. InStatus' BY <1>3 DEF AtStatus, InStatus, Heads, Header, Left
  <2>2. QED BY <1>3, <2>1 DEF AtStatus, Place
<1>4. PICK f : f = Current OBVIOUS
<1>5. Current' = f BY <1>4 DEF Current
<1>6. CASE AtPart
  <2>1. InPart(f) BY <1>4, <1>6 DEF AtPart, InPart
  <2>2. InPart(f)' BY <2>1 DEF InPart, Heads, Header, Left
  <2>3. AtPart' BY <1>5, <1>6, <2>2 DEF AtPart, InPart, Fit
  <2>4. QED BY <2>3 DEF Place
<1>7. CASE AtContent
  <2>1. InContent(f) BY <1>4, <1>7 DEF AtContent, InContent
  <2>2. InContent(f)' BY <2>1 DEF InContent, Filled, Matching, Left
  <2>3. AtContent' BY <1>5, <1>7, <2>2 DEF AtContent, InContent, Fit
  <2>4. QED BY <2>3 DEF Place
<1>8. CASE AtEnd
  <2>1. InEnd' BY <1>8 DEF AtEnd, InEnd, Heads, Header, Left
  <2>2. QED BY <1>8, <2>1 DEF AtEnd, Fit, Place
<1>9. CASE Blocked BY <1>9 DEF Blocked, Full, Fit, Place
<1>10. QED BY <1>1, <1>2, <1>3, <1>6, <1>7, <1>8, <1>9 DEF Place

\* Every step leads from place to place.
LEMMA PlaceStep ==
  ASSUME TypeInv, Place, [Next]_vars
  PROVE  Place'
<1>1. CASE Connect BY <1>1, ConnectStep
<1>2. CASE SendFrame BY <1>2, SendStep
<1>3. CASE Extract BY <1>3, ExtractStep
<1>4. CASE Hangup BY <1>4, SamePlace DEF Hangup
<1>5. CASE Stop BY <1>5, SamePlace DEF Stop
<1>6. CASE Cancelled BY <1>6, SamePlace DEF Cancelled
<1>7. CASE UNCHANGED vars BY <1>7, SamePlace DEF vars
<1>8. QED BY <1>1, <1>2, <1>3, <1>4, <1>5, <1>6, <1>7 DEF Next

-----------------------------------------------------------------------------
(* Types.                                                                  *)

\* The extractor before the first byte of a connection.
LEMMA FreshIs ==
  Fresh \in Extractors /\ Len(Fresh.buffer) <= BufferSize - 1 /\ Fresh.buffer = <<>>
<1>1. <<"0", "0", "0", "0">> \in Fours BY DEF Fours
<1>2. Fresh.buffer = <<>> /\ <<>> \in Seq(Bytes) /\ Len(Fresh.buffer) = 0 BY DEF Fresh
<1>3. 0 <= BufferSize - 1
  <2>1. ~(3 + 5 > BufferSize - 1) BY SizeAssumption, HeadersAre, ShortSeqs DEF TooLong
  <2>2. QED BY <2>1, SizeAssumption
<1>4. Fresh \in Extractors BY <1>1, <1>2 DEF Fresh, Extractors
<1>5. QED BY <1>2, <1>3, <1>4

\* A byte of a header is kept with the three before it.
LEMMA PushType ==
  ASSUME NEW s \in Fours, NEW e \in Bytes
  PROVE  PushByte(s, e) \in Fours
<1> DEFINE all == Bytes \cup {"0"}
<1>1. s \in Seq(all) /\ Len(s) = 4 BY DEF Fours
<1>2. e \in all OBVIOUS
<1> HIDE DEF all
<1>3. Tail(s) \in Seq(all) /\ Len(Tail(s)) = 3 BY <1>1
<1>4. PICK t \in Seq(all) : t = Tail(s) /\ Len(t) = 3 BY <1>3
<1>5. Append(t, e) \in Seq(all) /\ Len(Append(t, e)) = 4 BY <1>2, <1>4
<1>6. QED BY <1>4, <1>5 DEF PushByte, Fours, all

\* The extractor stays one, and its buffer within its bound.
LEMMA ExtractorType ==
  ASSUME TypeInv, Extract
  PROVE  extractor' \in Extractors /\ Len(extractor.buffer') <= BufferSize - 1
<1>1. PICK e \in Bytes : e = Head(toCome) BY DEF TypeInv, Extract
<1>2. /\ extractor \in Extractors
      /\ extractor = [part |-> extractor.part, lastFour |-> extractor.lastFour,
                      buffer |-> extractor.buffer, matched |-> extractor.matched]
      /\ extractor.part \in {"header", "content"} /\ extractor.lastFour \in Fours
      /\ extractor.buffer \in Seq(Bytes) /\ extractor.matched \in 0 .. 2
  BY DEF TypeInv, Extractors
<1>3. PICK bound \in Int : bound = BufferSize - 1 BY SizeAssumption
<1>4. Len(extractor.buffer) <= bound BY <1>3 DEF TypeInv
<1>5. CASE HeaderByte(e)
  <2>1. PICK four \in Fours : four = PushByte(extractor.lastFour, e) BY <1>1, <1>2, PushType
  <2>2. PICK part \in {"header", "content"} : part = IF IsCrlfCrlf(four) THEN "content" ELSE "header" OBVIOUS
  <2>3. extractor' = [extractor EXCEPT !.lastFour = four, !.part = part] BY <1>5, <2>1, <2>2 DEF HeaderByte
  <2>4. extractor' = [part |-> part, lastFour |-> four, buffer |-> extractor.buffer, matched |-> extractor.matched]
    BY <1>2, <2>3
  <2>5. extractor' \in Extractors /\ extractor.buffer' = extractor.buffer BY <1>2, <2>4 DEF Extractors
  <2>6. QED BY <1>3, <1>4, <2>5
<1>6. CASE ContentByte(e)
  <2>1. PICK longer : longer = Append(extractor.buffer, e) OBVIOUS
  <2>2. longer \in Seq(Bytes) /\ Len(longer) = Len(extractor.buffer) + 1 BY <1>1, <1>2, <2>1, AppendProperties
  <2>3. PICK m \in 0 .. 3 : m = Compare(extractor.matched, e) BY <1>2, CompareDoes
  <2>4. CASE UNCHANGED extractor BY <1>2, <1>3, <1>4, <2>4
  <2>5. CASE extractor' = Fresh BY <2>5, FreshIs
  <2>6. CASE ~Full /\ m < Len(Boundary) /\ extractor' = [extractor EXCEPT !.buffer = longer, !.matched = m]
    <3>1. m \in 0 .. 2 BY <2>3, <2>6, ShortSeqs
    <3>2. extractor' = [part |-> extractor.part, lastFour |-> extractor.lastFour, buffer |-> longer, matched |-> m]
      BY <1>2, <2>6
    <3>3. extractor' \in Extractors /\ extractor.buffer' = longer BY <1>2, <2>2, <3>1, <3>2 DEF Extractors
    <3>4. Len(extractor.buffer) < bound
      <4>1. ~(Len(extractor.buffer) >= bound) BY <1>3, <2>6 DEF Full
      <4>2. Len(extractor.buffer) \in Nat BY <1>2
      <4>3. QED BY <4>1, <4>2
    <3>5. Len(longer) <= bound
      <4>1. Len(extractor.buffer) \in Nat BY <1>2
      <4>2. QED BY <2>2, <3>4, <4>1
    <3>6. QED BY <1>3, <3>3, <3>5
  <2>7. QED BY <1>6, <2>1, <2>3, <2>4, <2>5, <2>6 DEF ContentByte
<1>7. QED BY <1>1, <1>5, <1>6 DEF Extract

\* Every step keeps the types.
LEMMA TypeStep ==
  ASSUME TypeInv, Place, [Next]_vars
  PROVE  TypeInv'
<1>1. CASE Connect
  <2>1. link' = "up" /\ streams' \in BOOLEAN /\ stop' = stop BY <1>1 DEF Connect
  <2>2. toCome' \in Seq(Bytes)
    <3>1. toCome' = ResponseHead \/ toCome' = Refusal BY <1>1 DEF Connect
    <3>2. QED BY <3>1, ResponseIs, RefusalIs
  <2>3. extractor' = Fresh /\ sent' = <<>> /\ delivered' = <<>> BY <1>1 DEF Connect
  <2>4. extractor' \in Extractors /\ Len(extractor.buffer') <= BufferSize - 1 BY <2>3, FreshIs
  <2>5. sent' \in Seq(Frames) /\ delivered' \in Seq(Images) /\ Len(sent') = 0 BY <2>3
  <2>6. Len(sent') <= MaxFrames BY <2>5, SizeAssumption
  <2>7. QED BY <2>1, <2>2, <2>4, <2>5, <2>6 DEF TypeInv
<1>2. CASE SendFrame
  <2>1. PICK f \in Frames : sent' = Append(sent, f) /\ toCome' = PartOf(f) BY <1>2 DEF SendFrame
  <2>2. toCome' \in Seq(Bytes)
    <3>1. f \in Seq(Bytes) /\ Len(f) \in Nat BY ContentsAre
    <3>2. QED BY <2>1, <3>1, PartIs
  <2>3. sent' \in Seq(Frames) /\ Len(sent') = Len(sent) + 1 BY <2>1, AppendProperties DEF TypeInv
  <2>4. Len(sent) < MaxFrames /\ Len(sent) \in Nat BY <1>2 DEF SendFrame, TypeInv
  <2>5. Len(sent') <= MaxFrames BY <2>3, <2>4, SizeAssumption
  <2>6. UNCHANGED <<link, streams, extractor, stop, delivered>> BY <1>2 DEF SendFrame
  <2>7. QED BY <2>2, <2>3, <2>5, <2>6 DEF TypeInv
<1>3. CASE Extract
  <2>1. UNCHANGED <<link, streams, stop, sent>> /\ toCome # <<>> /\ toCome' = Tail(toCome) BY <1>3 DEF Extract
  <2>2. toCome' \in Seq(Bytes) BY <2>1 DEF TypeInv
  <2>3. extractor' \in Extractors /\ Len(extractor.buffer') <= BufferSize - 1 BY <1>3, ExtractorType
  <2>4. delivered' \in Seq(Images)
    <3>1. CASE UNCHANGED delivered BY <3>1 DEF TypeInv
    <3>2. CASE /\ Current \in Seq(Bytes)
               /\ delivered' = Append(delivered, [length |-> Len(Current), data |-> Current])
      <4>1. Len(Current) \in Int BY <3>2
      <4>2. PICK image \in Images : image = [length |-> Len(Current), data |-> Current] BY <3>2, <4>1 DEF Images
      <4>3. QED BY <3>2, <4>2, AppendProperties DEF TypeInv
    <3>3. QED BY <1>3, <3>1, <3>2, ExtractStep
  <2>5. QED BY <2>1, <2>2, <2>3, <2>4 DEF TypeInv
<1>4. CASE Hangup
  <2>1. link' \in {"done", "down"} BY <1>4 DEF Hangup
  <2>2. QED BY <1>4, <2>1 DEF TypeInv, Hangup
<1>5. CASE Stop BY <1>5 DEF TypeInv, Stop
<1>6. CASE Cancelled BY <1>6 DEF TypeInv, Cancelled
<1>7. CASE UNCHANGED vars BY <1>7 DEF TypeInv, vars
<1>8. QED BY <1>1, <1>2, <1>3, <1>4, <1>5, <1>6, <1>7 DEF Next

-----------------------------------------------------------------------------
(* What has been published.                                                *)

\* One publication more, of what comes after those there were.
LEMMA PublishStep ==
  ASSUME TypeInv, DeliveredInv, UNCHANGED sent, Len(delivered) = Len(sent), ~TooLong(Current),
         Current \in Seq(Bytes), delivered' = Append(delivered, [length |-> Len(Current), data |-> Current])
  PROVE  DeliveredInv'
<1>1. PICK n \in Nat : n = Len(sent) /\ n = Len(delivered) BY DEF TypeInv
<1>2. PICK f \in Seq(Bytes) : f = Current OBVIOUS
<1>3. PICK l \in Nat : l = Len(f) OBVIOUS
<1>4. PICK image : image = [length |-> l, data |-> f] OBVIOUS
<1>5. image.length = l /\ image.data = f BY <1>4
<1>6. l \in 0 .. BufferSize - 1
  <2>1. ~(l + 5 > BufferSize - 1) BY <1>2, <1>3, ShortSeqs DEF TooLong
  <2>2. QED BY <2>1, SizeAssumption
<1>7. /\ Len(delivered') = n + 1 /\ (\A i \in 1 .. n : delivered'[i] = delivered[i])
      /\ delivered'[n + 1] = image
  BY <1>1, <1>2, <1>3, <1>4, LongerByOne DEF TypeInv
<1>8. \A i \in 1 .. n + 1 : i \in 1 .. n \/ i = n + 1 OBVIOUS
<1>9. \A i \in 1 .. n : /\ delivered[i].length \in 0 .. BufferSize - 1
                        /\ delivered[i].data = IF i = 1 THEN Headers ELSE sent[i - 1]
  BY <1>1 DEF DeliveredInv, DeliveredWhole
<1>10. f = IF n + 1 = 1 THEN Headers ELSE sent[n + 1 - 1]
  <2>1. sent = <<>> <=> n = 0 BY <1>1, EmptySeq DEF TypeInv
  <2>2. n + 1 - 1 = n OBVIOUS
  <2>3. QED BY <1>1, <1>2, <2>1, <2>2 DEF Current
<1>11. \A i \in 1 .. n + 1 : delivered'[i].length \in 0 .. BufferSize - 1 BY <1>5, <1>6, <1>7, <1>8, <1>9
<1>12. \A i \in 1 .. n + 1 : delivered'[i].data = IF i = 1 THEN Headers ELSE sent[i - 1]
  BY <1>5, <1>7, <1>8, <1>9, <1>10
<1>13. DeliveredWhole' BY <1>7, <1>12 DEF DeliveredWhole
<1>14. QED BY <1>1, <1>7, <1>11, <1>13 DEF DeliveredInv

\* Every step keeps what has been published, or adds a whole.
LEMMA DeliveredStep ==
  ASSUME TypeInv, Place, DeliveredInv, [Next]_vars
  PROVE  DeliveredInv'
<1>1. CASE Connect
  <2>1. sent' = <<>> /\ delivered' = <<>> BY <1>1 DEF Connect
  <2>2. Len(sent') = 0 /\ Len(delivered') = 0 BY <2>1
  <2>3. QED BY <2>2 DEF DeliveredInv, DeliveredWhole
<1>2. CASE SendFrame
  <2>1. PICK f \in Frames : sent' = Append(sent, f) /\ UNCHANGED delivered BY <1>2 DEF SendFrame
  <2>2. PICK n \in Nat, d \in Nat : n = Len(sent) /\ d = Len(delivered) BY DEF TypeInv
  <2>3. Len(sent') = n + 1 /\ \A i \in 1 .. n : sent'[i] = sent[i] BY <2>1, <2>2, LongerByOne DEF TypeInv
  <2>4. d <= n + 1 BY <2>2 DEF DeliveredInv
  <2>5. ASSUME NEW i \in 1 .. d PROVE delivered[i].data = IF i = 1 THEN Headers ELSE sent'[i - 1]
    <3>1. delivered[i].data = IF i = 1 THEN Headers ELSE sent[i - 1] BY <2>2 DEF DeliveredInv, DeliveredWhole
    <3>2. i # 1 => i - 1 \in 1 .. n BY <2>4
    <3>3. QED BY <2>3, <3>1, <3>2
  <2>6. DeliveredWhole' BY <2>1, <2>2, <2>5 DEF DeliveredWhole
  <2>7. QED BY <2>1, <2>2, <2>3, <2>4, <2>6 DEF DeliveredInv
<1>3. CASE Extract
  <2>1. UNCHANGED sent BY <1>3 DEF Extract
  <2>2. CASE UNCHANGED delivered BY <2>1, <2>2 DEF DeliveredInv, DeliveredWhole
  <2>3. QED BY <1>3, <2>1, <2>2, ExtractStep, PublishStep
<1>4. CASE UNCHANGED <<sent, delivered>> BY <1>4 DEF DeliveredInv, DeliveredWhole
<1>5. QED BY <1>1, <1>2, <1>3, <1>4 DEF Next, Hangup, Stop, Cancelled, vars

\* The least of a set is the member that is not above any other.
LEMMA MinIs ==
  ASSUME NEW S, S \subseteq Int, NEW n \in S, \A m \in S : n <= m
  PROVE  Min(S) = n
<1>1. \E x \in S : \A y \in S : x <= y OBVIOUS
<1>2. Min(S) \in S /\ \A y \in S : Min(S) <= y BY <1>1 DEF Min
<1>3. PICK x \in Int : x = Min(S) BY <1>2
<1>4. x <= n /\ n <= x BY <1>2, <1>3
<1>5. x = n BY <1>4
<1>6. QED BY <1>3, <1>5

\* In every place, as many have been published as there should be.
LEMMA PlaceCounts ==
  ASSUME TypeInv, Place
  PROVE  NoneMissed
<1>1. CASE ~streams
  <2>1. delivered = <<>>
    BY <1>1 DEF Place, Nothing, Refused, AtStatus, AtPart, AtContent, AtEnd, Blocked
  <2>2. QED BY <1>1, <2>1 DEF NoneMissed
<1>2. CASE streams
  <2>1. PICK n \in Nat : n = Len(sent) BY DEF TypeInv
  <2>2. PICK S : S = TooLongOnes \cup {Ended} OBVIOUS
  <2>3. Ended = n + (IF Len(toCome) > 2 THEN 0 ELSE 1) BY <2>1, ShortSeqs DEF Ended
  <2>4. Ended \in {n, n + 1} BY <2>3
  <2>5. TooLongOnes = {i \in 1 .. n : TooLong(sent[i])} BY <2>1 DEF TooLongOnes
  <2>6. S \subseteq Int BY <2>2, <2>4, <2>5
  <2>7. SUFFICES ASSUME NEW m, m \in S, Len(delivered) = m, \A i \in S : m <= i PROVE NoneMissed
    <3>1. CASE AtStatus \/ AtPart \/ AtContent
      <4>1. Len(delivered) = n /\ Fit(n - 1)
        <5>1. CASE AtStatus BY <2>1, <5>1, EmptySeq DEF AtStatus, Fit
        <5>2. CASE AtPart BY <2>1, <5>2 DEF AtPart
        <5>3. CASE AtContent BY <2>1, <5>3 DEF AtContent
        <5>4. QED BY <3>1, <5>1, <5>2, <5>3
      <4>2. Ended = n BY <2>3, <3>1, ToComeIs
      <4>3. \A i \in TooLongOnes : i \in 1 .. n /\ ~(i \in 1 .. n - 1) BY <2>5, <4>1 DEF Fit
      <4>4. \A i \in S : n <= i BY <2>2, <4>2, <4>3
      <4>5. QED BY <2>2, <4>1, <4>2, <4>4
    <3>2. CASE AtEnd
      <4>1. Len(delivered) = n + 1 /\ Fit(n) BY <2>1, <3>2 DEF AtEnd
      <4>2. Len(toCome) <= 2 /\ Len(toCome) \in Nat BY <3>2, ToComeIs DEF TypeInv
      <4>3. Ended = n + 1 BY <2>3, <4>2
      <4>4. TooLongOnes = {} BY <2>5, <4>1 DEF Fit
      <4>5. QED BY <2>2, <4>1, <4>3, <4>4
    <3>3. CASE Blocked
      <4>1. PICK m \in 1 .. n : TooLong(sent[m]) /\ Fit(m - 1) /\ Len(delivered) = m BY <2>1, <3>3 DEF Blocked
      <4>2. m \in TooLongOnes BY <2>5, <4>1
      <4>3. \A i \in TooLongOnes : i \in 1 .. n /\ ~(i \in 1 .. m - 1) BY <2>5, <4>1 DEF Fit
      <4>4. \A i \in TooLongOnes : m <= i BY <4>1, <4>3
      <4>5. m <= Ended BY <2>4, <4>1
      <4>6. QED BY <2>2, <4>1, <4>2, <4>4, <4>5
    <3>4. QED BY <1>2, <3>1, <3>2, <3>3 DEF Place, Nothing, Refused
  <2>8. Min(S) = m BY <2>6, <2>7, MinIs
  <2>9. QED BY <1>2, <2>2, <2>7, <2>8 DEF NoneMissed
<1>3. QED BY <1>1, <1>2

-----------------------------------------------------------------------------
(* The theorems.                                                           *)

\* Before the first connection there is nothing.
LEMMA InitProxy == Init => ProxyInv
<1> SUFFICES ASSUME Init PROVE ProxyInv OBVIOUS
<1>1. /\ link = "down" /\ streams = FALSE /\ toCome = <<>> /\ extractor = Fresh
      /\ stop = FALSE /\ sent = <<>> /\ delivered = <<>>
  BY DEF Init
<1>2. extractor \in Extractors /\ Len(extractor.buffer) <= BufferSize - 1 BY <1>1, FreshIs
<1>3. Len(sent) = 0 /\ Len(delivered) = 0 BY <1>1
<1>4. TypeInv
  <2>1. toCome \in Seq(Bytes) /\ sent \in Seq(Frames) /\ delivered \in Seq(Images) BY <1>1
  <2>2. Len(sent) <= MaxFrames BY <1>3, SizeAssumption
  <2>3. QED BY <1>1, <1>2, <2>1, <2>2 DEF TypeInv
<1>5. Place BY <1>1 DEF Place, Nothing
<1>6. DeliveredInv BY <1>3 DEF DeliveredInv, DeliveredWhole
<1>7. QED BY <1>4, <1>5, <1>6 DEF ProxyInv

\* The invariant holds throughout.
THEOREM ProxyInvariant == Spec => []ProxyInv
<1>1. ProxyInv /\ [Next]_vars => ProxyInv' BY TypeStep, PlaceStep, DeliveredStep DEF ProxyInv
<1>2. QED BY InitProxy, <1>1, PTL DEF Spec

\* Every variable stays in its range: in extract_data nothing is written past the
\* end of the buffer, and no length is negative, whatever pictures come.
THEOREM TypeCorrect == Spec => []TypeOK
<1>1. ProxyInv => TypeOK
  <2> SUFFICES ASSUME ProxyInv PROVE TypeOK OBVIOUS
  <2>1. TypeInv /\ DeliveredInv BY DEF ProxyInv
  <2>2. extractor.part \in {"header", "content"} /\ extractor.lastFour \in Fours /\ extractor.matched \in 0 .. 2
    BY <2>1 DEF TypeInv, Extractors
  <2>3. Len(extractor.lastFour) = 4 BY <2>2 DEF Fours
  <2>4. extractor.matched \in 0 .. Len(Boundary) - 1 BY <2>2, ShortSeqs
  <2>5. {streams, stop} \subseteq BOOLEAN BY <2>1 DEF TypeInv
  <2>6. QED BY <2>1, <2>2, <2>3, <2>4, <2>5 DEF TypeOK, TypeInv, DeliveredInv, Bytes
<1>2. QED BY <1>1, ProxyInvariant, PTL

\* What on_image_received is given is a whole picture of the other server, the
\* first one apart, which is the headers of its response.
THEOREM DeliveredIsWhole == Spec => []DeliveredWhole
<1>1. ProxyInv => DeliveredWhole BY DEF ProxyInv, DeliveredInv
<1>2. QED BY <1>1, ProxyInvariant, PTL

\* Every picture is published, in order, when its boundary has come whole, up to
\* the first that is too long for the buffer.
THEOREM NoneIsMissed == Spec => []NoneMissed
<1>1. ProxyInv => NoneMissed BY PlaceCounts DEF ProxyInv
<1>2. QED BY <1>1, ProxyInvariant, PTL

=============================================================================
