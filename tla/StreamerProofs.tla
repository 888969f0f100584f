--------------------------- MODULE StreamerProofs ---------------------------
(***************************************************************************)
(* What the steps of main, of the signal handler and of the plugins keep,  *)
(* for any command line and any numbers of plugins.                        *)
(*                                                                         *)
(* Two invariants on top of the types.  The first is about the order in    *)
(* which main starts and stops things: which thread, which library and     *)
(* which board belong together, and how far the handler has come.  The     *)
(* second follows a picture from the board to what an output has sent.     *)
(***************************************************************************)
EXTENDS Streamer, TLAPS

-----------------------------------------------------------------------------
(* The invariants.                                                         *)

Kinds == InputKinds \cup OutputKinds
MainPcs == Starting \cup Handling \cup {"pause", "exit"}
SourcePcs == {"none", "start", "grab", "camera", "restart", "ended"}
SinkPcs == {"none", "request", "lock", "wait", "woken", "copy", "deliver", "head", "unwind", "ended"}
Copies == 0 .. conf.pics \cup {Freed, Torn}
Sources == [pc : SourcePcs, tries : 0 .. 4]
Sinks == [pc : SinkPcs, named : BOOLEAN, from : 0 .. conf.pics, sent : Seq(Copies)]
Frames(kind) == [room : [Slots(kind) -> Nat], max : Nat, pos : Slots(kind), pics : [Slots(kind) -> Copies]]

HostType ==
  /\ conf \in Configs /\ stop \in BOOLEAN
  /\ main \in [pc : MainPcs, i : Boards, ready : BOOLEAN]
  /\ main.pc \in {"openIn", "runIn", "stopIn"} => main.i \in Inputs
  /\ main.pc \in {"openOut", "runOut", "stopOut", "destroy"} => main.i \in Outputs
PlayersType ==
  /\ board \in [Boards -> Board]
  /\ source \in [Inputs -> Sources]
  /\ sink \in [Outputs -> Sinks]
LibrariesType ==
  /\ worker \in [Kinds -> {0} \cup Boards]
  /\ number \in [Kinds -> Boards]
  /\ cleaned \subseteq Kinds
  /\ DOMAIN frame = OutputKinds /\ \A kind \in OutputKinds : frame[kind] \in Frames(kind)
RestType ==
  /\ control_mutex \in Threads \cup {Zoomer} /\ zoomer \in {"idle", "zooms"}
  /\ cancelled \subseteq Threads /\ misuse \subseteq Threads
  /\ fault \in {"none", "no thread", "null buffer", "double free"}
TypeInv == HostType /\ PlayersType /\ LibrariesType /\ RestType

\* Threads are started by main, the inputs' before the outputs', and stopped by
\* the handler.
Stopping == main.pc \in Handling \cup {"exit"}
Started ==
  /\ main.pc \in {"openIn", "openOut", "runIn"} => \A o \in Outputs : sink[o].pc = "none"
  /\ main.pc \in {"openIn", "openOut"} => \A k \in Inputs : source[k].pc = "none"
  /\ main.pc = "runIn" => \A k \in Inputs : k >= main.i => source[k].pc = "none"
  /\ main.pc = "runOut" => \A o \in Outputs : o >= main.i => sink[o].pc = "none"
  /\ stop \/ cancelled # {} \/ misuse # {} \/ main.ready => Stopping

\* How far main has come with opening the inputs and the outputs.
Opened(k) == main.pc \in {"openOut", "runIn", "runOut", "pause"} \/ (main.pc = "openIn" /\ k < main.i)
OpenedOut(o) == main.pc \in {"runIn", "runOut", "pause"} \/ (main.pc = "openOut" /\ o < main.i)

\* The number that a library of an output knows is that of its only plugin.
OutputsNumbered ==
  \A o \in Outputs : Alone(o) /\ (OpenedOut(o) \/ sink[o].pc # "none") => ReadBy(o) = conf.outs[o].input

\* With every library loaded once, what is static in one is its plugin's.
Owned ==
  Sound =>
    /\ number["testpicture"] = 1
    /\ \A k \in Inputs : InKind(k) = "file" /\ (Opened(k) \/ source[k].pc # "none") => number["file"] = k
    /\ \A k \in Inputs : source[k].pc # "none" =>
         /\ InKind(k) = "ptp2" => number["ptp2"] = k
         /\ InKind(k) # "opencv" => worker[InKind(k)] = k
         /\ InKind(k) = "testpicture" => board[k].buf # "null"
    /\ \A k \in Inputs : board[k].buf = "freed" => source[k].pc = "ended"
    /\ \A o \in Outputs :
         sink[o].pc # "none" \/ (main.pc = "runOut" /\ o < main.i) \/ main.pc = "pause" => worker[OutKind(o)] = o

\* How far the handler has come, when everything had been started.
Told ==
  Orderly =>
    /\ \A k \in Inputs : source[k].pc # "none"
    /\ \A o \in Outputs : worker[OutKind(o)] = o /\ ReadBy(o) = conf.outs[o].input
    /\ \A k \in Inputs :
         main.pc \in {"stopOut", "destroy", "close"} \/ (main.pc = "stopIn" /\ k < main.i) => Source(k) \in cancelled
    /\ \A o \in Outputs :
         main.pc = "close" \/ (main.pc = "stopOut" /\ o < main.i) \/ (main.pc = "destroy" /\ o <= main.i)
           => Sink(o) \in cancelled

\* Which boards are destroyed.
Destroyed ==
  \A b \in Boards : board[b].destroyed =>
    /\ b \in Outputs /\ main.pc \in {"stopOut", "destroy", "close", "exit"}
    /\ main.pc \in {"stopOut", "destroy"} => b < main.i

TidyInv == TypeInv /\ Started /\ OutputsNumbered /\ Owned /\ Told /\ Destroyed /\ TidyShutdown

-----------------------------------------------------------------------------
\* The board that the thread of an input serves.
Serves(k) == IF InKind(k) = "opencv" THEN k ELSE number[InKind(k)]

\* A board whose buffer is gone has lost its input, or has had no picture; and a
\* board that has had one is served by an input.
Served(b) == \E k \in Inputs : source[k].pc # "none" /\ Serves(k) = b
BoardsHold ==
  /\ \A b \in Boards : board[b].size \in conf.sizes \cup {0}
  /\ number["testpicture"] = 1
  /\ OnePtp =>
       /\ \A k \in Inputs :
            InKind(k) = "file" /\ (Opened(k) \/ source[k].pc # "none")
              => number["file"] \in Inputs /\ InKind(number["file"]) = "file"
       /\ \A k \in Inputs : InKind(k) = "ptp2" /\ source[k].pc # "none" =>
            /\ number["ptp2"] = k
            /\ source[k].pc \in {"grab", "camera", "restart"} => board[k].buf # "null"
       /\ \A b \in Boards : board[b].buf = "freed" => Retired(b)
       /\ \A b \in Boards : board[b].buf = "null" => board[b].pic = 0 \/ Retired(b)
       /\ \A b \in Boards : board[b].pic # 0 => Served(b)

\* An output that was woken finds a picture it has not had, or was woken by
\* nobody.
WokenByNew ==
  \A o \in Outputs :
    /\ sink[o].pc = "none" => sink[o].from = 0 /\ sink[o].sent = <<>>
    /\ sink[o].pc # "none" => sink[o].from <= board[ReadBy(o)].pic
    /\ sink[o].pc \in {"woken", "copy"} => Follows(sink[o].from, board[ReadBy(o)].pic)

\* The sizes that buffers can have.
Allocations == {0} \cup {s + Slack : s \in conf.sizes}
Room(o) ==
  LET f == frame[OutKind(o)]
  IN  /\ OutKind(o) \in {"viewer", "autofocus"} => f.room[1] = FixedRoom
      /\ OutKind(o) = "zmqserver" => f.max \in Allocations /\ \A i \in Slots("zmqserver") : f.room[i] \in Allocations
      /\ Asks(o) => f.room[1] = f.max

\* The slots of the buffer that hold pictures not yet sent, and what has been
\* sent: pictures that were copied, each newer than the one before.
Filling(o) == IF sink[o].pc = "deliver" THEN frame[OutKind(o)].pos ELSE frame[OutKind(o)].pos - 1
Lost(o, pic) == pic \in {0, Freed} /\ Retired(ReadBy(o))
Kept(o, pic) == Lost(o, pic) \/ (pic \in 0 .. sink[o].from /\ Follows(0, pic))
InOrderOf(o, old, new) == old = Freed \/ Lost(o, new) \/ Follows(old, new)
Chain(o) ==
  LET pics == frame[OutKind(o)].pics
      sent == sink[o].sent
  IN  /\ \A i \in 1 .. Filling(o) : Kept(o, pics[i])
      /\ \A i, j \in 1 .. Filling(o) : i < j => InOrderOf(o, pics[i], pics[j])
      /\ \A j \in DOMAIN sent : sent[j] = Freed \/ sent[j] \in 0 .. sink[o].from
      /\ \A j \in DOMAIN sent, i \in 1 .. Filling(o) : InOrderOf(o, sent[j], pics[i])
      /\ sink[o].pc = "deliver" =>
           LET last == pics[frame[OutKind(o)].pos] IN last = sink[o].from \/ Lost(o, last)

Carried ==
  OnePtp => \A o \in Outputs : Alone(o) /\ Fits(o) /\ sink[o].pc # "ended" => Room(o) /\ Chain(o)

WholeInv == TidyInv /\ BoardsHold /\ WokenByNew /\ Carried

-----------------------------------------------------------------------------
(* The command line, threads and records.                                  *)

\* What the assumptions say of the command line of a behaviour.
LEMMA ConfIs ==
  ASSUME conf \in Configs
  PROVE  /\ Inputs = 1 .. Len(conf.ins) /\ Len(conf.ins) \in Boards /\ Inputs \subseteq Boards
         /\ Outputs = 1 .. Len(conf.outs) /\ Len(conf.outs) \in Boards /\ Outputs \subseteq Boards
         /\ 1 \in Inputs /\ 1 \in Outputs
         /\ \A k \in Inputs : InKind(k) \in InputKinds
         /\ \A o \in Outputs : OutKind(o) \in OutputKinds /\ conf.outs[o].input \in Boards
         /\ conf.sizes # {} /\ conf.sizes \subseteq Nat \ {0} /\ conf.pics \in Nat
<1>1. /\ conf.ins \in Seq(InputKinds) /\ Len(conf.ins) \in Boards
      /\ conf.outs \in Seq([kind : OutputKinds, input : Boards]) /\ Len(conf.outs) \in Boards
      /\ conf.sizes # {} /\ conf.sizes \subseteq Nat \ {0} /\ conf.pics \in Nat
  BY ConfigsAssumption
<1>2. Inputs = 1 .. Len(conf.ins) /\ \A k \in Inputs : InKind(k) \in InputKinds
  BY <1>1 DEF Inputs, InKind
<1>3. /\ Outputs = 1 .. Len(conf.outs)
      /\ \A o \in Outputs : OutKind(o) \in OutputKinds /\ conf.outs[o].input \in Boards
  <2> DEFINE Outs == [kind : OutputKinds, input : Boards]
  <2>1. \A r \in Outs : r.kind \in OutputKinds /\ r.input \in Boards OBVIOUS
  <2>2. conf.outs \in Seq(Outs) BY <1>1
  <2> HIDE DEF Outs
  <2>3. Outputs = 1 .. Len(conf.outs) /\ \A o \in Outputs : conf.outs[o] \in Outs BY <2>2 DEF Outputs
  <2>4. QED BY <2>1, <2>3 DEF OutKind
<1>4. \A n \in Boards : 1 .. n \subseteq Boards /\ 1 \in 1 .. n BY NumbersAssumption DEF Boards
<1>5. QED BY <1>1, <1>2, <1>3, <1>4

\* Threads are told apart by their numbers.
LEMMA ThreadsAre ==
  /\ \A k \in Boards : Source(k) \in Threads /\ Sink(k) \in Threads /\ Source(k) # Nobody /\ Sink(k) # Nobody
  /\ \A k \in Boards : Source(k) \in {"in", "out"} \X Boards /\ Sink(k) \in {"in", "out"} \X Boards
  /\ \A k, l \in Boards : Source(k) = Source(l) => k = l
  /\ \A k, l \in Boards : Sink(k) = Sink(l) => k = l
  /\ \A k, l \in Boards : Source(k) # Sink(l)
  /\ Nobody \in Threads
BY DEF Source, Sink, Nobody, Threads

\* The slots of a buffer.
LEMMA SlotsAre ==
  /\ \A kind \in OutputKinds : 1 \in Slots(kind) /\ Slots(kind) \subseteq Nat
  /\ Slots("zmqserver") = 1 .. ZmqBufferSize
  /\ \A kind \in OutputKinds : kind # "zmqserver" => Slots(kind) = {1}
BY NumbersAssumption DEF Slots, OutputKinds

-----------------------------------------------------------------------------
(* Types.                                                                  *)

\* At the start nothing is opened.
LEMMA TypeStart == Init => TypeInv
<1> SUFFICES ASSUME Init PROVE TypeInv OBVIOUS
<1> USE DEF Init
<1>1. conf \in Configs OBVIOUS
<1>2. HostType
  BY <1>1, ConfIs, NumbersAssumption DEF HostType, MainPcs, Starting, Handling, Boards
<1>3. PlayersType
  <2>1. 0 \in 0 .. conf.pics BY <1>1, ConfIs
  <2>2. FreshBoard \in Board BY <2>1 DEF FreshBoard, Board, Nobody
  <2>3. [pc |-> "none", tries |-> 0] \in Sources BY DEF Sources, SourcePcs
  <2>4. [pc |-> "none", named |-> FALSE, from |-> 0, sent |-> <<>>] \in Sinks
    <3>1. <<>> \in Seq(Copies) OBVIOUS
    <3>2. QED BY <2>1, <3>1 DEF Sinks, SinkPcs
  <2>5. QED BY <2>2, <2>3, <2>4 DEF PlayersType
<1>4. LibrariesType
  <2>1. 1 \in Boards BY NumbersAssumption DEF Boards
  <2>2. ASSUME NEW kind \in OutputKinds PROVE NewFrame(kind) \in Frames(kind)
    <3>1. 0 \in Copies BY <1>1, ConfIs DEF Copies
    <3>2. (IF kind \in {"viewer", "autofocus"} THEN FixedRoom ELSE 0) \in Nat BY NumbersAssumption
    <3>3. QED BY <3>1, <3>2, SlotsAre DEF NewFrame, Frames
  <2>3. QED BY <2>1, <2>2 DEF LibrariesType, Kinds
<1>5. RestType BY DEF RestType, Threads
<1>6. QED BY <1>2, <1>3, <1>4, <1>5 DEF TypeInv

-----------------------------------------------------------------------------
(* What a step of an input does.                                           *)

\* It touches its own board: it makes the buffer, fills it with a picture more,
\* or ends, and the buffer is gone.
PicturePut(k, b) ==
  /\ b = Serves(k)
  /\ \/ board'[b].buf = "live"
     \/ /\ board'[b].buf = board[b].buf
        /\ \/ InKind(k) = "testpicture" /\ board[b].buf # "null"
           \/ InKind(k) = "ptp2" /\ source[k].pc = "restart"
BoardMoves(k, b) ==
  /\ board'[b].destroyed = board[b].destroyed
  /\ board'[b].pic >= board[b].pic /\ (board'[b].pic # board[b].pic => PicturePut(k, b))
  /\ board'[b].size \in conf.sizes \cup {0, board[b].size}
  /\ board'[b].buf # board[b].buf =>
       /\ b = Serves(k)
       /\ \/ board'[b].buf = "live"
          \/ board'[b].buf = "freed" /\ source'[k].pc = "ended"
          \/ board'[b].buf = "null" /\ InKind(k) = "file" /\ source'[k].pc = "ended"

\* It wakes the outputs that wait, with a picture more on the board.
SinkMoves(k, o) ==
  \/ sink'[o] = sink[o]
  \/ LET b == Serves(k)
     IN  /\ sink[o].pc = "wait" /\ sink'[o].pc = "woken"
         /\ sink'[o].from = sink[o].from /\ sink'[o].sent = sink[o].sent
         /\ ReadBy(o) = b /\ board'[b].pic > board[b].pic

Shoots(k) == source[k].pc \in {"grab", "camera", "restart"}
SourceMoves(k) ==
  /\ source' \in [Inputs -> Sources]
  /\ source[k].pc \notin {"none", "ended"} /\ source'[k].pc # "none"
  /\ \A l \in Inputs \ {k} : source'[l] = source[l]
  /\ InKind(k) = "ptp2" /\ Shoots(k)' => Shoots(k) \/ board'[number["ptp2"]].buf = "live"

FaultMoves(k) ==
  \/ fault' = fault
  \/ fault' = "null buffer" /\ InKind(k) = "testpicture" /\ board[number["testpicture"]].buf = "null"
  \/ fault' = "double free" /\ InKind(k) \in {"file", "testpicture"} /\ board[Serves(k)].buf = "freed"

Ran(k) ==
  /\ SourceMoves(k) /\ FaultMoves(k)
  /\ board' \in [Boards -> Board] /\ \A b \in Boards : BoardMoves(k, b)
  /\ sink' \in [Outputs -> Sinks] /\ \A o \in Outputs : SinkMoves(k, o)
  /\ cleaned' \subseteq Kinds /\ control_mutex' \in Threads \cup {Zoomer}

\* The program counter of one thread changes.
LEMMA SourceMoved ==
  ASSUME TypeInv, NEW k \in Inputs, NEW pc \in SourcePcs \ {"none"}, SourceGoes(k, pc),
         source[k].pc \notin {"none", "ended"}
  PROVE  /\ source' \in [Inputs -> Sources] /\ source'[k].pc = pc /\ source'[k].tries = source[k].tries
         /\ \A l \in Inputs \ {k} : source'[l] = source[l]
BY DEF TypeInv, PlayersType, SourceGoes, Sources

\* One board changes.
OneBoard(b) ==
  /\ board' \in [Boards -> Board]
  /\ \A c \in Boards \ {b} : board'[c] = board[c]
  /\ board'[b].destroyed = board[b].destroyed

\* A broadcast wakes those who wait at the board.
LEMMA WokenMoved ==
  ASSUME TypeInv, NEW b \in Boards, sink' = Woken(b)
  PROVE  /\ sink' \in [Outputs -> Sinks]
         /\ \A o \in Outputs :
              \/ sink'[o] = sink[o]
              \/ /\ sink[o].pc = "wait" /\ sink'[o].pc = "woken" /\ ReadBy(o) = b
                 /\ sink'[o].from = sink[o].from /\ sink'[o].sent = sink[o].sent
<1>1. sink \in [Outputs -> Sinks] BY DEF TypeInv, PlayersType
<1>2. "woken" \in SinkPcs BY DEF SinkPcs
<1>3. ASSUME NEW o \in Outputs
      PROVE  LET new == [sink[o] EXCEPT !.pc = "woken"]
             IN  new \in Sinks /\ new.pc = "woken" /\ new.from = sink[o].from /\ new.sent = sink[o].sent
  BY <1>1, <1>2 DEF Sinks
<1>4. QED BY <1>1, <1>3 DEF Woken, Waiting

\* A new picture.
LEMMA Published ==
  ASSUME TypeInv, NEW b \in Boards, NEW s \in conf.sizes, Publish(b, s)
  PROVE  OneBoard(b) /\ board'[b].buf = "live" /\ board'[b].pic = board[b].pic + 1 /\ board'[b].size = s
<1>1. board \in [Boards -> Board] /\ conf \in Configs BY DEF TypeInv, PlayersType, HostType
<1>2. conf.pics \in Nat /\ s \in Nat BY <1>1, ConfIs
<1>3. QED BY <1>1, <1>2 DEF Publish, OneBoard, Board

\* A buffer is freed.
LEMMA Freeing ==
  ASSUME TypeInv, NEW b \in Boards, Frees(b)
  PROVE  /\ OneBoard(b) /\ board'[b].pic = board[b].pic /\ board'[b].size = board[b].size
         /\ board'[b].buf \in {board[b].buf, "freed"}
<1>1. board \in [Boards -> Board] BY DEF TypeInv, PlayersType
<1>2. CASE board[b].buf = "live" BY <1>1, <1>2 DEF Frees, OneBoard, Board
<1>3. CASE board[b].buf # "live" BY <1>1, <1>3 DEF Frees, OneBoard, Board
<1>4. QED BY <1>2, <1>3

\* A buffer changes, and who has db.
LEMMA Nulled ==
  ASSUME TypeInv, NEW b \in Boards, NEW owner \in {Nobody} \cup ({"in", "out"} \X Boards),
         NEW buf \in {"null", "live", "freed"}, board' = [board EXCEPT ![b].owner = owner, ![b].buf = buf]
  PROVE  OneBoard(b) /\ board'[b].buf = buf /\ board'[b].pic = board[b].pic /\ board'[b].size = board[b].size
<1> DEFINE Owners == {Nobody} \cup ({"in", "out"} \X Boards)
           Bufs == {"null", "live", "freed"}
           Pics == 0 .. conf.pics
<1>1. Board = [destroyed : BOOLEAN, owner : Owners, buf : Bufs, pic : Pics, size : Nat] BY DEF Board
<1>2. owner \in Owners /\ buf \in Bufs OBVIOUS
<1>3. board \in [Boards -> Board] BY DEF TypeInv, PlayersType
<1> HIDE DEF Owners, Bufs, Pics
<1>4. QED BY <1>1, <1>2, <1>3 DEF OneBoard

\* A buffer is given back.
LEMMA Emptied ==
  ASSUME TypeInv, NEW b \in Boards, board' = [board EXCEPT ![b].buf = "null", ![b].size = 0]
  PROVE  OneBoard(b) /\ board'[b].buf = "null" /\ board'[b].pic = board[b].pic /\ board'[b].size = 0
<1> DEFINE Owners == {Nobody} \cup ({"in", "out"} \X Boards)
           Bufs == {"null", "live", "freed"}
           Pics == 0 .. conf.pics
<1>1. Board = [destroyed : BOOLEAN, owner : Owners, buf : Bufs, pic : Pics, size : Nat] BY DEF Board
<1>2. "null" \in Bufs /\ 0 \in Nat OBVIOUS
<1>3. board \in [Boards -> Board] BY DEF TypeInv, PlayersType
<1> HIDE DEF Owners, Bufs, Pics
<1>4. QED BY <1>1, <1>2, <1>3 DEF OneBoard

\* db is locked or unlocked.
LEMMA Owning ==
  ASSUME TypeInv, NEW b \in Boards, NEW owner \in {Nobody} \cup ({"in", "out"} \X Boards),
         board' = [board EXCEPT ![b].owner = owner]
  PROVE  /\ OneBoard(b) /\ board'[b].buf = board[b].buf /\ board'[b].pic = board[b].pic
         /\ board'[b].size = board[b].size
<1>1. board \in [Boards -> Board] BY DEF TypeInv, PlayersType
<1>2. QED BY <1>1 DEF OneBoard, Board

\* A picture more, in whatever buffer there is.
LEMMA Counted ==
  ASSUME TypeInv, NEW b \in Boards, board[b].pic < conf.pics, NEW s \in Nat,
         board' = [board EXCEPT ![b].pic = @ + 1, ![b].size = s]
  PROVE  OneBoard(b) /\ board'[b].buf = board[b].buf /\ board'[b].pic = board[b].pic + 1 /\ board'[b].size = s
<1> DEFINE Owners == {Nobody} \cup ({"in", "out"} \X Boards)
           Bufs == {"null", "live", "freed"}
           Pics == 0 .. conf.pics
<1>1. Board = [destroyed : BOOLEAN, owner : Owners, buf : Bufs, pic : Pics, size : Nat] BY DEF Board
<1>2. board \in [Boards -> Board] /\ conf \in Configs BY DEF TypeInv, PlayersType, HostType
<1>3. board[b].pic + 1 \in Pics BY <1>1, <1>2, ConfIs
<1> HIDE DEF Owners, Bufs, Pics
<1>4. QED BY <1>1, <1>2, <1>3 DEF OneBoard

\* Pictures are counted by numbers.
LEMMA BoardIs ==
  ASSUME TypeInv, NEW b \in Boards
  PROVE  board[b] \in Board /\ board[b].pic \in Nat /\ board[b].size \in Nat
<1>1. board[b] \in Board /\ conf \in Configs BY DEF TypeInv, PlayersType, HostType
<1>2. QED BY <1>1, ConfIs DEF Board

\* The board that an input serves.
LEMMA ServesBoard ==
  ASSUME TypeInv, NEW k \in Inputs
  PROVE  /\ Serves(k) \in Boards /\ k \in Boards /\ InKind(k) \in InputKinds
         /\ InKind(k) # "opencv" => Serves(k) = number[InKind(k)]
<1>1. conf \in Configs /\ number \in [Kinds -> Boards] BY DEF TypeInv, HostType, LibrariesType
<1>2. k \in Boards /\ InKind(k) \in InputKinds BY <1>1, ConfIs
<1>3. QED BY <1>1, <1>2 DEF Serves, Kinds

\* What has not changed has not moved.
LEMMA NothingMoved ==
  ASSUME TypeInv, NEW k \in Inputs
  PROVE  /\ board' = board => board' \in [Boards -> Board] /\ \A b \in Boards : BoardMoves(k, b)
         /\ sink' = sink => sink' \in [Outputs -> Sinks] /\ \A o \in Outputs : SinkMoves(k, o)
<1>1. board \in [Boards -> Board] /\ sink \in [Outputs -> Sinks] BY DEF TypeInv, PlayersType
<1>2. \A b \in Boards : board[b].pic \in Nat BY BoardIs
<1>3. \A n \in Nat : n >= n OBVIOUS
<1>4. board' = board => \A b \in Boards : BoardMoves(k, b) BY <1>2, <1>3 DEF BoardMoves
<1>5. QED BY <1>1, <1>4 DEF SinkMoves

\* One board has moved: its picture, its size and its buffer say how.
LEMMA OneMoved ==
  ASSUME TypeInv, NEW k \in Inputs, NEW b \in Boards, OneBoard(b),
         board'[b].pic >= board[b].pic, board'[b].pic # board[b].pic => PicturePut(k, b),
         board'[b].size \in conf.sizes \cup {0, board[b].size},
         board'[b].buf = board[b].buf \/
           /\ b = Serves(k)
           /\ \/ board'[b].buf = "live"
              \/ board'[b].buf = "freed" /\ source'[k].pc = "ended"
              \/ board'[b].buf = "null" /\ InKind(k) = "file" /\ source'[k].pc = "ended"
  PROVE  board' \in [Boards -> Board] /\ \A c \in Boards : BoardMoves(k, c)
<1>1. BoardMoves(k, b) BY DEF BoardMoves, OneBoard
<1>2. ASSUME NEW c \in Boards, c # b PROVE BoardMoves(k, c)
  <2>1. board'[c] = board[c] /\ board[c].pic \in Nat BY <1>2, BoardIs DEF OneBoard
  <2>2. \A n \in Nat : n >= n OBVIOUS
  <2>3. QED BY <2>1, <2>2 DEF BoardMoves
<1>3. QED BY <1>1, <1>2 DEF OneBoard

\* A thread that ends frees its buffer, or finds that another has.
LEMMA EndedMoves ==
  ASSUME TypeInv, NEW k \in Inputs, SourceGoes(k, "ended"), source[k].pc \notin {"none", "ended"},
         Frees(Serves(k)) \/ UNCHANGED board, UNCHANGED sink
  PROVE  /\ SourceMoves(k)
         /\ board' \in [Boards -> Board] /\ \A b \in Boards : BoardMoves(k, b)
         /\ sink' \in [Outputs -> Sinks] /\ \A o \in Outputs : SinkMoves(k, o)
<1>1. /\ source' \in [Inputs -> Sources] /\ source'[k].pc = "ended"
      /\ \A l \in Inputs \ {k} : source'[l] = source[l]
  BY SourceMoved DEF SourcePcs
<1>2. SourceMoves(k) BY <1>1 DEF SourceMoves, Shoots
<1>3. CASE UNCHANGED board BY <1>2, <1>3, NothingMoved
<1>4. CASE Frees(Serves(k))
  <2>1. Serves(k) \in Boards BY ServesBoard
  <2>2. /\ OneBoard(Serves(k)) /\ board'[Serves(k)].pic = board[Serves(k)].pic
        /\ board'[Serves(k)].size = board[Serves(k)].size
        /\ board'[Serves(k)].buf \in {board[Serves(k)].buf, "freed"}
    BY <1>4, <2>1, Freeing
  <2>3. board[Serves(k)].pic \in Nat BY <2>1, BoardIs
  <2>4. board' \in [Boards -> Board] /\ \A c \in Boards : BoardMoves(k, c)
    BY <1>1, <2>1, <2>2, <2>3, OneMoved
  <2>5. QED BY <1>2, <2>4, NothingMoved
<1>5. QED BY <1>3, <1>4

\* A thread publishes a picture and goes on, in some state.
LEMMA PublishMoves ==
  ASSUME TypeInv, NEW k \in Inputs, NEW s \in conf.sizes, Publish(Serves(k), s),
         source[k].pc \notin {"none", "ended"}, source' \in [Inputs -> Sources], source'[k].pc = "grab",
         \A l \in Inputs \ {k} : source'[l] = source[l],
         InKind(k) = "ptp2" => Shoots(k)
  PROVE  /\ SourceMoves(k)
         /\ board' \in [Boards -> Board] /\ \A b \in Boards : BoardMoves(k, b)
         /\ sink' \in [Outputs -> Sinks] /\ \A o \in Outputs : SinkMoves(k, o)
<1>1. Serves(k) \in Boards BY ServesBoard
<1>2. /\ OneBoard(Serves(k)) /\ board'[Serves(k)].buf = "live"
      /\ board'[Serves(k)].pic = board[Serves(k)].pic + 1 /\ board'[Serves(k)].size = s
  BY <1>1, Published
<1>3. board[Serves(k)].pic \in Nat BY <1>1, BoardIs
<1>4. \A n \in Nat : n + 1 >= n /\ n + 1 > n OBVIOUS
<1>5. board' \in [Boards -> Board] /\ \A c \in Boards : BoardMoves(k, c)
  BY <1>1, <1>2, <1>3, <1>4, OneMoved DEF PicturePut
<1>6. sink' = Woken(Serves(k)) BY DEF Publish
<1>7. sink' \in [Outputs -> Sinks] /\ \A o \in Outputs : SinkMoves(k, o)
  BY <1>1, <1>2, <1>3, <1>4, <1>6, WokenMoved DEF SinkMoves
<1>8. SourceMoves(k) BY DEF SourceMoves
<1>9. QED BY <1>5, <1>7, <1>8

\* What the variables are that Ran adds.
LEMMA RestIs ==
  ASSUME TypeInv
  PROVE  cleaned \subseteq Kinds /\ control_mutex \in Threads \cup {Zoomer}
BY DEF TypeInv, LibrariesType, RestType

\* What input_file does.
LEMMA FileRan == ASSUME TypeInv, NEW k \in Inputs, FileStep(k) PROVE Ran(k)
<1> DEFINE b == number["file"]
<1>1. /\ InKind(k) = "file" /\ source[k].pc = "grab" /\ b = Serves(k) /\ b \in Boards
      /\ cleaned \subseteq Kinds /\ "file" \in Kinds
  BY ServesBoard, RestIs DEF FileStep, Kinds, InputKinds
<1>2. CASE FileEnds(k)
  <2>1. /\ SourceGoes(k, "ended") /\ UNCHANGED <<sink, control_mutex>>
        /\ cleaned' = cleaned \cup {"file"}
        /\ Frees(b) \/ UNCHANGED board
        /\ fault' = fault \/ (fault' = "double free" /\ board[b].buf = "freed")
    BY <1>2 DEF FileEnds, CleanupFrees
  <2>2. QED BY <1>1, <2>1, EndedMoves, RestIs DEF Ran, FaultMoves
<1>3. CASE SourceGoes(k, "ended") /\ UNCHANGED <<board, sink, cleaned, control_mutex, fault>>
  BY <1>1, <1>3, EndedMoves, RestIs DEF Ran, FaultMoves
<1>4. CASE FilePublish(k)
  <2>1. UNCHANGED control_mutex BY <1>4 DEF FilePublish
  <2>2. ASSUME NEW s \in conf.sizes, Publish(b, s), UNCHANGED <<source, cleaned, fault>> PROVE Ran(k)
    <3>1. source' \in [Inputs -> Sources] /\ source'[k].pc = "grab" /\ \A l \in Inputs \ {k} : source'[l] = source[l]
      BY <1>1, <2>2 DEF TypeInv, PlayersType
    <3>2. QED BY <1>1, <2>1, <2>2, <3>1, PublishMoves, RestIs DEF Ran, FaultMoves
  <2>3. CASE board[b].buf = "freed" /\ fault' = "double free" /\ UNCHANGED <<board, source, sink, cleaned>>
    <3>1. SourceMoves(k) BY <1>1, <2>3 DEF SourceMoves, Shoots, TypeInv, PlayersType
    <3>2. QED BY <1>1, <2>1, <2>3, <3>1, NothingMoved, RestIs DEF Ran, FaultMoves
  <2>4. ASSUME SourceGoes(k, "ended"), cleaned' = cleaned \cup {"file"}, UNCHANGED <<sink, fault>>,
               OneBoard(b), board'[b].buf \in {"null", "live", "freed"}, board'[b].pic = board[b].pic,
               board'[b].size \in {board[b].size, 0}
        PROVE  Ran(k)
    <3>1. /\ source' \in [Inputs -> Sources] /\ source'[k].pc = "ended"
          /\ \A l \in Inputs \ {k} : source'[l] = source[l]
      BY <1>1, <2>4, SourceMoved DEF SourcePcs
    <3>2. board[b].pic \in Nat /\ \A n \in Nat : n >= n BY <1>1, BoardIs
    <3>3. board' \in [Boards -> Board] /\ \A c \in Boards : BoardMoves(k, c)
      BY <1>1, <2>4, <3>1, <3>2, OneMoved
    <3>4. SourceMoves(k) BY <1>1, <3>1 DEF SourceMoves
    <3>5. QED BY <1>1, <2>1, <2>4, <3>3, <3>4, NothingMoved, RestIs DEF Ran, FaultMoves
  <2>5. Source(k) \in {Nobody} \cup ({"in", "out"} \X Boards) BY ServesBoard, ThreadsAre
  <2>6. ASSUME \/ board' = [board EXCEPT ![b].owner = Source(k), ![b].buf = "null"]
               \/ board' = [board EXCEPT ![b].buf = "null", ![b].size = 0]
               \/ board' = [board EXCEPT ![b].owner = Source(k),
                                        ![b].buf = IF "file" \in cleaned THEN "live" ELSE "freed"]
        PROVE  /\ OneBoard(b) /\ board'[b].buf \in {"null", "live", "freed"} /\ board'[b].pic = board[b].pic
               /\ board'[b].size \in {board[b].size, 0}
    <3> DEFINE buf == IF "file" \in cleaned THEN "live" ELSE "freed"
    <3>1. buf \in {"null", "live", "freed"} OBVIOUS
    <3>2. CASE board' = [board EXCEPT ![b].buf = "null", ![b].size = 0] BY <1>1, <3>2, Emptied
    <3> HIDE DEF b, buf
    <3>3. CASE \/ board' = [board EXCEPT ![b].owner = Source(k), ![b].buf = "null"]
               \/ board' = [board EXCEPT ![b].owner = Source(k), ![b].buf = buf]
      BY <1>1, <2>5, <3>1, <3>3, Nulled
    <3>4. QED BY <2>6, <3>2, <3>3 DEF b, buf
  <2>7. QED BY <1>4, <2>2, <2>3, <2>4, <2>6 DEF FilePublish
<1>5. QED BY <1>2, <1>3, <1>4 DEF FileStep, FileGivesUp

\* What input_testpicture does.
LEMMA TestpictureRan == ASSUME TypeInv, NEW k \in Inputs, TestpictureStep(k) PROVE Ran(k)
<1> DEFINE b == number["testpicture"]
<1>1. /\ InKind(k) = "testpicture" /\ source[k].pc = "grab" /\ b = Serves(k) /\ b \in Boards
      /\ UNCHANGED <<source, cleaned, control_mutex>>
  BY ServesBoard DEF TestpictureStep
<1>2. SourceMoves(k) BY <1>1 DEF SourceMoves, TypeInv, PlayersType
<1>3. CASE board[b].buf = "null" /\ fault' = "null buffer" /\ UNCHANGED <<board, sink>>
  BY <1>1, <1>2, <1>3, NothingMoved, RestIs DEF Ran, FaultMoves
<1>4. ASSUME board[b].buf # "null", NEW s \in conf.sizes, board[b].pic < conf.pics,
             board' = [board EXCEPT ![b].pic = @ + 1, ![b].size = s], sink' = Woken(b), UNCHANGED fault
      PROVE  Ran(k)
  <2>1. conf \in Configs BY DEF TypeInv, HostType
  <2>2. s \in Nat BY <2>1, ConfIs
  <2>3. /\ OneBoard(b) /\ board'[b].buf = board[b].buf
        /\ board'[b].pic = board[b].pic + 1 /\ board'[b].size = s
    BY <1>1, <1>4, <2>2, Counted
  <2>4. board[b].pic \in Nat /\ \A n \in Nat : n + 1 >= n /\ n + 1 > n BY <1>1, BoardIs
  <2>5. board' \in [Boards -> Board] /\ \A c \in Boards : BoardMoves(k, c)
    BY <1>1, <1>4, <2>3, <2>4, OneMoved DEF PicturePut
  <2>6. sink' \in [Outputs -> Sinks] /\ \A o \in Outputs : SinkMoves(k, o)
    BY <1>1, <1>4, <2>3, <2>4, WokenMoved DEF SinkMoves
  <2>7. QED BY <1>1, <1>2, <1>4, <2>5, <2>6, RestIs DEF Ran, FaultMoves
<1>5. QED BY <1>3, <1>4 DEF TestpictureStep

\* What input_opencv does.
LEMMA OpencvRan == ASSUME TypeInv, NEW k \in Inputs, OpencvStep(k) PROVE Ran(k)
<1>1. InKind(k) = "opencv" /\ source[k].pc = "grab" /\ k = Serves(k) BY DEF OpencvStep, Serves
<1>2. CASE OpencvEnds(k) BY <1>1, <1>2, EndedMoves, RestIs DEF Ran, FaultMoves, OpencvEnds
<1>3. ASSUME NEW s \in conf.sizes, Publish(k, s), UNCHANGED <<source, cleaned, control_mutex, fault>> PROVE Ran(k)
  <2>1. source' \in [Inputs -> Sources] /\ source'[k].pc = "grab" /\ \A l \in Inputs \ {k} : source'[l] = source[l]
    BY <1>1, <1>3 DEF TypeInv, PlayersType
  <2>2. QED BY <1>1, <1>3, <2>1, PublishMoves, RestIs DEF Ran, FaultMoves
<1>4. QED BY <1>2, <1>3 DEF OpencvStep

\* What input_ptp2 does, and how its thread ends.
LEMMA PtpRan ==
  ASSUME TypeInv, NEW k \in Inputs, PtpStep(k) \/ (InKind(k) = "ptp2" /\ Shoots(k) /\ PtpEnds(k))
  PROVE  Ran(k)
<1> DEFINE b == number["ptp2"]
<1>1. /\ InKind(k) = "ptp2" /\ b = Serves(k) /\ b \in Boards /\ k \in Boards
  BY ServesBoard DEF PtpStep
<1>2. Source(k) \in {Nobody} \cup ({"in", "out"} \X Boards) /\ Source(k) \in Threads /\ Nobody \in Threads
  BY <1>1, ThreadsAre
<1>3. board[b].pic \in Nat /\ \A n \in Nat : n >= n /\ n + 1 >= n /\ n + 1 > n BY <1>1, BoardIs
<1>4. {"ended", "grab", "camera", "restart"} \subseteq SourcePcs \ {"none"} BY DEF SourcePcs
<1>5. CASE Shoots(k) /\ PtpEnds(k)
  <2>1. /\ SourceGoes(k, "ended") /\ Frees(Serves(k)) /\ UNCHANGED <<sink, control_mutex, cleaned, fault>>
        /\ source[k].pc \notin {"none", "ended"}
    BY <1>1, <1>5 DEF PtpEnds, Shoots
  <2>2. QED BY <2>1, EndedMoves, RestIs DEF Ran, FaultMoves
<1>6. CASE PtpStart(k) /\ UNCHANGED <<cleaned, fault>>
  <2>1. source[k].pc = "start" /\ UNCHANGED <<sink, control_mutex, cleaned, fault>> BY <1>6 DEF PtpStart
  <2>2. CASE SourceGoes(k, "ended") /\ UNCHANGED board
    BY <1>1, <2>1, <2>2, EndedMoves, RestIs DEF Ran, FaultMoves
  <2>3. CASE board' = [board EXCEPT ![b].buf = "live"] /\ SourceGoes(k, "grab")
    <3>1. board \in [Boards -> Board] BY DEF TypeInv, PlayersType
    <3>2. /\ OneBoard(b) /\ board'[b].buf = "live" /\ board'[b].pic = board[b].pic
          /\ board'[b].size = board[b].size
      <4> HIDE DEF b
      <4>1. QED BY <1>1, <2>3, <3>1 DEF OneBoard, Board
    <3>3. board' \in [Boards -> Board] /\ \A c \in Boards : BoardMoves(k, c)
      BY <1>1, <1>3, <3>2, OneMoved
    <3>4. /\ source' \in [Inputs -> Sources] /\ source'[k].pc = "grab"
          /\ \A l \in Inputs \ {k} : source'[l] = source[l]
      BY <1>4, <2>1, <2>3, SourceMoved
    <3>5. SourceMoves(k) BY <2>1, <3>2, <3>4 DEF SourceMoves
    <3>6. QED BY <2>1, <3>3, <3>5, NothingMoved, RestIs DEF Ran, FaultMoves
  <2>4. QED BY <1>6, <2>2, <2>3 DEF PtpStart
<1>7. CASE (PtpCapture(k) \/ PtpCaptureFails(k)) /\ UNCHANGED <<cleaned, fault>>
  <2>1. /\ Shoots(k) /\ (SourceGoes(k, "camera") \/ SourceGoes(k, "ended"))
        /\ UNCHANGED <<board, sink, cleaned, fault>> /\ control_mutex' \in {control_mutex, Source(k)}
    BY <1>7 DEF PtpCapture, PtpCaptureFails, Shoots
  <2>2. /\ source' \in [Inputs -> Sources] /\ source'[k].pc # "none"
        /\ \A l \in Inputs \ {k} : source'[l] = source[l]
    BY <1>4, <2>1, SourceMoved DEF Shoots
  <2>3. SourceMoves(k) BY <2>1, <2>2 DEF SourceMoves, Shoots
  <2>4. QED BY <1>2, <2>1, <2>3, NothingMoved, RestIs DEF Ran, FaultMoves
<1>8. CASE PtpSection(k) /\ UNCHANGED <<cleaned, fault>>
  <2>1. source[k].pc = "camera" /\ Shoots(k) BY <1>8 DEF PtpSection, Shoots
  <2>2. ASSUME board' = [board EXCEPT ![b].owner = Source(k)], UNCHANGED sink,
               control_mutex' \in {control_mutex, Nobody}, source' \in [Inputs -> Sources],
               source'[k].pc # "none", \A l \in Inputs \ {k} : source'[l] = source[l]
        PROVE  Ran(k)
    <3>1. /\ OneBoard(b) /\ board'[b].buf = board[b].buf /\ board'[b].pic = board[b].pic
          /\ board'[b].size = board[b].size
      BY <1>1, <1>2, <2>2, Owning
    <3>2. board' \in [Boards -> Board] /\ \A c \in Boards : BoardMoves(k, c)
      BY <1>1, <1>3, <3>1, OneMoved
    <3>3. SourceMoves(k) BY <2>1, <2>2 DEF SourceMoves, Shoots
    <3>4. QED BY <1>2, <1>8, <2>2, <3>2, <3>3, NothingMoved, RestIs DEF Ran, FaultMoves
  <2>3. ASSUME SourceGoes(k, "ended")
        PROVE  /\ source' \in [Inputs -> Sources] /\ source'[k].pc # "none"
               /\ \A l \in Inputs \ {k} : source'[l] = source[l]
    BY <1>4, <2>1, <2>3, SourceMoved
  <2>4. CASE PtpGivesUp(k, b) BY <2>2, <2>3, <2>4 DEF PtpGivesUp
  <2>5. CASE PtpRestarts(k, b)
    <3>1. source \in [Inputs -> Sources] BY DEF TypeInv, PlayersType
    <3>2. source[k].tries \in 0 .. 4 /\ source[k].tries <= 3 BY <2>5, <3>1 DEF PtpRestarts, Sources
    <3>3. source[k].tries + 1 \in 0 .. 4 BY <3>2
    <3>4. /\ source' \in [Inputs -> Sources] /\ source'[k].pc # "none"
          /\ \A l \in Inputs \ {k} : source'[l] = source[l]
      BY <2>5, <3>1, <3>3, <1>4 DEF PtpRestarts, Sources
    <3>5. QED BY <2>2, <2>5, <3>4 DEF PtpRestarts
  <2>6. CASE PtpPublish(k, b)
    <3>1. CASE board' = [board EXCEPT ![b].owner = Source(k)] /\ SourceGoes(k, "ended") /\ UNCHANGED sink
      BY <2>2, <2>3, <2>6, <3>1 DEF PtpPublish
    <3>2. ASSUME NEW s \in conf.sizes, Publish(b, s), source' = [source EXCEPT ![k].pc = "grab", ![k].tries = 0]
          PROVE  Ran(k)
      <4>1. source \in [Inputs -> Sources] BY DEF TypeInv, PlayersType
      <4>2. "grab" \in SourcePcs /\ 0 \in 0 .. 4 BY <1>4
      <4>3. /\ source' \in [Inputs -> Sources] /\ source'[k].pc = "grab"
            /\ \A l \in Inputs \ {k} : source'[l] = source[l]
        <5> DEFINE Tries == 0 .. 4
        <5>1. Sources = [pc : SourcePcs, tries : Tries] /\ 0 \in Tries BY DEF Sources
        <5> HIDE DEF Tries
        <5>2. QED BY <3>2, <4>1, <4>2, <5>1
      <4>4. control_mutex' = Nobody BY <2>6 DEF PtpPublish
      <4>5. QED BY <1>1, <1>2, <1>8, <2>1, <3>2, <4>3, <4>4, PublishMoves, RestIs DEF Ran, FaultMoves
    <3>3. QED BY <2>6, <3>1, <3>2 DEF PtpPublish
  <2>7. QED BY <1>8, <2>4, <2>5, <2>6 DEF PtpSection
<1>9. CASE PtpRestarted(k) /\ UNCHANGED <<cleaned, fault>>
  <2>1. source[k].pc = "restart" /\ Shoots(k) BY <1>9 DEF PtpRestarted, Shoots
  <2>2. CASE SourceGoes(k, "ended") /\ control_mutex' \in {control_mutex, Nobody} /\ UNCHANGED <<board, sink>>
    BY <1>1, <1>2, <1>9, <2>1, <2>2, EndedMoves, RestIs DEF Ran, FaultMoves
  <2>3. CASE /\ board[b].pic < conf.pics /\ control_mutex' = Nobody
             /\ board' = [board EXCEPT ![b].owner = Nobody, ![b].pic = @ + 1, ![b].size = 0]
             /\ sink' = Woken(b) /\ SourceGoes(k, "grab")
    <3>1. board \in [Boards -> Board] /\ conf \in Configs BY DEF TypeInv, PlayersType, HostType
    <3>2. conf.pics \in Nat BY <3>1, ConfIs
    <3>3. /\ OneBoard(b) /\ board'[b].buf = board[b].buf
          /\ board'[b].pic = board[b].pic + 1 /\ board'[b].size = 0
      <4> HIDE DEF b
      <4>1. QED BY <1>1, <2>3, <3>1, <3>2 DEF OneBoard, Board
    <3>4. board' \in [Boards -> Board] /\ \A c \in Boards : BoardMoves(k, c)
      BY <1>1, <1>3, <2>1, <3>3, OneMoved DEF PicturePut
    <3>5. sink' \in [Outputs -> Sinks] /\ \A o \in Outputs : SinkMoves(k, o)
      BY <1>1, <1>3, <2>1, <2>3, <3>3, WokenMoved DEF SinkMoves
    <3>6. /\ source' \in [Inputs -> Sources] /\ source'[k].pc # "none"
          /\ \A l \in Inputs \ {k} : source'[l] = source[l]
      BY <1>4, <2>1, <2>3, SourceMoved
    <3>7. SourceMoves(k) BY <2>1, <3>6 DEF SourceMoves, Shoots
    <3>8. QED BY <1>2, <1>9, <2>3, <3>4, <3>5, <3>7, RestIs DEF Ran, FaultMoves
  <2>4. QED BY <1>9, <2>2, <2>3 DEF PtpRestarted
<1>10. QED BY <1>5, <1>6, <1>7, <1>8, <1>9 DEF PtpStep

\* Told to stop, or cancelled, a thread ends.
LEMMA StopsRan == ASSUME TypeInv, NEW k \in Inputs, SourceStops(k) PROVE Ran(k)
<1>1. Shoots(k) /\ source[k].pc \notin {"none", "ended"} BY DEF SourceStops, Shoots
<1>2. ASSUME InKind(k) \in {"file", "testpicture"}, SourceGoes(k, "ended"),
             CleanupFrees(InKind(k), number[InKind(k)]), UNCHANGED <<sink, control_mutex>>
      PROVE  Ran(k)
  <2>1. /\ number[InKind(k)] = Serves(k) /\ Serves(k) \in Boards /\ InKind(k) \in Kinds
        /\ cleaned' = cleaned \cup {InKind(k)}
        /\ Frees(Serves(k)) \/ UNCHANGED board
        /\ fault' = fault \/ (fault' = "double free" /\ board[Serves(k)].buf = "freed")
    BY <1>2, ServesBoard DEF CleanupFrees, Kinds, InputKinds
  <2>2. QED BY <1>1, <1>2, <2>1, EndedMoves, RestIs DEF Ran, FaultMoves
<1>3. CASE InKind(k) = "file" /\ FileEnds(k) BY <1>2, <1>3 DEF FileEnds
<1>4. CASE InKind(k) = "testpicture" /\ TestpictureEnds(k) BY <1>2, <1>4 DEF TestpictureEnds
<1>5. CASE InKind(k) = "opencv" /\ OpencvEnds(k)
  BY <1>1, <1>5, EndedMoves, RestIs DEF Ran, FaultMoves, OpencvEnds, Serves
<1>6. CASE InKind(k) = "ptp2" /\ PtpEnds(k) BY <1>1, <1>6, PtpRan
<1>7. QED BY <1>3, <1>4, <1>5, <1>6 DEF SourceStops, Ends

\* Whatever an input does, it does one of these, and it misuses a board only
\* when that is destroyed.
LEMMA SourceRan ==
  ASSUME TypeInv, NEW k \in Inputs, SourceStep(k)
  PROVE  /\ Ran(k) /\ fault = "none" /\ main.pc # "exit"
         /\ UNCHANGED <<conf, main, stop, worker, number, frame, zoomer, cancelled>>
         /\ misuse' = misuse \/ (misuse' = misuse \cup {Source(k)} /\ board[Serves(k)].destroyed)
<1>1. /\ fault = "none" /\ main.pc # "exit"
      /\ UNCHANGED <<conf, main, stop, worker, number, frame, zoomer, cancelled>>
  BY DEF SourceStep, Running, hostVars
<1>2. CASE /\ FileStep(k) \/ TestpictureStep(k) \/ OpencvStep(k) \/ PtpStep(k) \/ SourceStops(k)
           /\ UNCHANGED misuse
  BY <1>1, <1>2, FileRan, TestpictureRan, OpencvRan, PtpRan, StopsRan
<1>3. CASE SourceMisuses(k)
  <2>1. /\ source[k].pc \notin {"none", "ended"} /\ SourceGoes(k, "ended")
        /\ UNCHANGED <<board, sink, cleaned, control_mutex, fault>>
        /\ misuse' = misuse \cup {Source(k)} /\ board[Serves(k)].destroyed
    BY <1>3 DEF SourceMisuses, Serves
  <2>2. Ran(k) BY <2>1, EndedMoves, RestIs DEF Ran, FaultMoves
  <2>3. QED BY <1>1, <2>1, <2>2
<1>4. QED BY <1>2, <1>3 DEF SourceStep

\* What an input does keeps every variable in its range.
LEMMA SourceTyped == ASSUME TypeInv, NEW k \in Inputs, SourceStep(k) PROVE TypeInv'
<1>1. /\ Ran(k) /\ UNCHANGED <<conf, main, stop, worker, number, frame, zoomer, cancelled>>
      /\ misuse' \subseteq misuse \cup {Source(k)}
  BY SourceRan
<1>2. HostType' BY <1>1 DEF TypeInv, HostType, Inputs, Outputs
<1>3. Board' = Board /\ Sinks' = Sinks /\ Inputs' = Inputs /\ Outputs' = Outputs
  BY <1>1 DEF Board, Sinks, Copies, Inputs, Outputs
<1>4. PlayersType' BY <1>1, <1>3 DEF PlayersType, Ran, SourceMoves
<1>5. LibrariesType'
  <2>1. \A kind \in OutputKinds : Frames(kind)' = Frames(kind) BY <1>1 DEF Frames, Copies
  <2>2. QED BY <1>1, <2>1 DEF TypeInv, LibrariesType, Ran
<1>6. Source(k) \in Threads BY ServesBoard, ThreadsAre
<1>7. fault' \in {"none", "no thread", "null buffer", "double free"}
  BY <1>1 DEF Ran, FaultMoves, TypeInv, RestType
<1>8. RestType' BY <1>1, <1>6, <1>7 DEF TypeInv, RestType, Ran
<1>9. QED BY <1>2, <1>4, <1>5, <1>8 DEF TypeInv

-----------------------------------------------------------------------------
(* What a step of an output does.                                          *)

\* It takes nothing from the boards but their locks, and uses the buffer of its
\* own library; it copies what it was woken for.
SameBoard(b) ==
  /\ board'[b].destroyed = board[b].destroyed /\ board'[b].buf = board[b].buf
  /\ board'[b].pic = board[b].pic /\ board'[b].size = board[b].size
Took(o) ==
  /\ sink' \in [Outputs -> Sinks]
  /\ sink[o].pc \notin {"none", "ended"} /\ sink'[o].pc # "none"
  /\ sink'[o].pc = "woken" => sink'[o].from = sink[o].from /\ conf.spurious
  /\ sink'[o].pc = "copy" => sink[o].pc = "woken"
  /\ \/ sink'[o].from = sink[o].from /\ (sink'[o].pc = "deliver" => sink[o].pc = "deliver")
     \/ sink[o].pc = "copy" /\ sink'[o].pc = "deliver" /\ sink'[o].from = board[ReadBy(o)].pic
  /\ \A p \in Outputs \ {o} : sink'[p] = sink[p]
  /\ board' \in [Boards -> Board] /\ \A b \in Boards : SameBoard(b)
  /\ cleaned' \subseteq Kinds
  /\ DOMAIN frame' = OutputKinds /\ \A kind \in OutputKinds : frame'[kind] \in Frames(kind)
  /\ \A kind \in OutputKinds \ {OutKind(o)} : frame'[kind] = frame[kind]

Cat(s, t) == s \o t

\* Its own record and buffer: it ends, or goes on with what it has, or has
\* filled the next slot, or moves on to the one after, or has sent them all.
Packed(o) ==
  LET f == frame[OutKind(o)]
      g == frame'[OutKind(o)]
  IN  \E pics \in Seq(Copies) :
        /\ sink[o].pc = "deliver" /\ sink'[o].from = sink[o].from
        /\ sink'[o].sent = Cat(sink[o].sent, pics) /\ Len(pics) = f.pos
        /\ \A i \in 1 .. f.pos : pics[i] = f.pics[i]
        /\ \/ sink'[o].pc = "ended"
           \/ /\ sink'[o].pc # "deliver"
              /\ g.pos = 1 /\ g.room = f.room /\ g.max = f.max /\ g.pics = f.pics
Own(o) ==
  LET f == frame[OutKind(o)]
      g == frame'[OutKind(o)]
      b == ReadBy(o)
      size == board[b].size
  IN  \/ sink'[o].pc = "ended" /\ sink'[o].sent = sink[o].sent /\ sink'[o].from = sink[o].from
      \/ sink'[o].pc # "deliver" /\ sink'[o].sent = sink[o].sent /\ sink'[o].from = sink[o].from /\ g = f
      \/ /\ sink[o].pc = "copy" /\ sink'[o].pc = "deliver"
         /\ sink'[o].sent = sink[o].sent /\ sink'[o].from = board[b].pic
         /\ g = Filled(IF GrowsFor(o, size) THEN Grown(f, size) ELSE f, b)
      \/ /\ sink[o].pc = "deliver" /\ sink'[o].pc = "head" /\ OutKind(o) = "zmqserver"
         /\ sink'[o].sent = sink[o].sent /\ sink'[o].from = sink[o].from
         /\ f.pos < ZmqBufferSize /\ g.pos = f.pos + 1
         /\ g.room = f.room /\ g.max = f.max /\ g.pics = f.pics
      \/ Packed(o)

\* A buffer is enlarged to the new size, or to the size it is believed to have.
LEMMA GrownIs ==
  ASSUME NEW kind \in OutputKinds, NEW f \in Frames(kind), NEW size \in Nat
  PROVE  LET g == Grown(f, size)
         IN  /\ g \in Frames(kind) /\ g.pos = f.pos /\ g.pics = f.pics
             /\ g.max = (IF size > f.max THEN size + Slack ELSE f.max) /\ g.room[f.pos] = g.max
             /\ \A i \in Slots(kind) \ {f.pos} : g.room[i] = f.room[i]
<1> DEFINE S == Slots(kind)
           max == IF size > f.max THEN size + Slack ELSE f.max
<1>1. Frames(kind) = [room : [S -> Nat], max : Nat, pos : S, pics : [S -> Copies]] BY DEF Frames
<1>2. max \in Nat BY <1>1, NumbersAssumption
<1>3. Grown(f, size) = [f EXCEPT !.max = max, !.room[f.pos] = max] BY DEF Grown
<1> DEFINE room == [f.room EXCEPT ![f.pos] = max]
<1>4. Grown(f, size) = [room |-> room, max |-> max, pos |-> f.pos, pics |-> f.pics]
  <2>1. f.room \in [S -> Nat] /\ DOMAIN f.room = S BY <1>1
  <2>2. f = [room |-> f.room, max |-> f.max, pos |-> f.pos, pics |-> f.pics] BY <1>1
  <2> HIDE DEF S, max
  <2>3. Grown(f, size) = [[f EXCEPT !.max = max] EXCEPT !.room = room] BY <1>3, Zenon
  <2>4. QED BY <2>2, <2>3
<1>5. room \in [S -> Nat] /\ room[f.pos] = max /\ \A i \in S \ {f.pos} : room[i] = f.room[i]
  <2> HIDE DEF S, max
  <2>1. QED BY <1>1, <1>2
<1> HIDE DEF S, max, room
<1>6. LET g == Grown(f, size)
      IN  /\ g \in Frames(kind) /\ g.pos = f.pos /\ g.pics = f.pics
          /\ g.max = max /\ g.room[f.pos] = g.max
          /\ \A i \in S \ {f.pos} : g.room[i] = f.room[i]
  BY <1>1, <1>2, <1>4, <1>5
<1>7. QED BY <1>6 DEF max, S

\* What is copied into it is the picture, or whatever is there.
LEMMA FilledIs ==
  ASSUME TypeInv, NEW kind \in OutputKinds, NEW f \in Frames(kind), NEW b \in Boards
  PROVE  LET h == Filled(f, b)
         IN  /\ h \in Frames(kind) /\ h.room = f.room /\ h.max = f.max /\ h.pos = f.pos
             /\ h.pics[f.pos] = (IF board[b].size <= f.room[f.pos] THEN Contents(b) ELSE Torn)
             /\ \A i \in Slots(kind) \ {f.pos} : h.pics[i] = f.pics[i]
<1> DEFINE S == Slots(kind)
           pic == IF board[b].size <= f.room[f.pos] THEN Contents(b) ELSE Torn
<1>1. Frames(kind) = [room : [S -> Nat], max : Nat, pos : S, pics : [S -> Copies]] BY DEF Frames
<1>2. board[b].pic \in 0 .. conf.pics /\ 0 \in 0 .. conf.pics
  BY BoardIs, ConfIs DEF Board, TypeInv, HostType
<1>3. pic \in Copies BY <1>2 DEF Contents, Copies
<1>4. Filled(f, b) = [f EXCEPT !.pics[f.pos] = pic] BY DEF Filled
<1> HIDE DEF S, pic
<1>5. QED BY <1>1, <1>3, <1>4 DEF S, pic

\* What an output has.
LEMMA SinkIs ==
  ASSUME TypeInv, NEW o \in Outputs
  PROVE  /\ sink[o] \in Sinks /\ OutKind(o) \in OutputKinds /\ frame[OutKind(o)] \in Frames(OutKind(o))
         /\ ReadBy(o) \in Boards /\ o \in Boards /\ OutKind(o) \in Kinds /\ OutKind(o) \notin InputKinds
         /\ DOMAIN frame = OutputKinds
<1>1. conf \in Configs /\ number \in [Kinds -> Boards] BY DEF TypeInv, HostType, LibrariesType
<1>2. o \in Boards /\ OutKind(o) \in OutputKinds BY <1>1, ConfIs
<1>3. OutKind(o) \in Kinds /\ OutKind(o) \notin InputKinds BY <1>2 DEF Kinds, InputKinds, OutputKinds
<1>4. QED BY <1>1, <1>2, <1>3 DEF TypeInv, PlayersType, LibrariesType, ReadBy

\* Its record is changed.
LEMMA SinkPut ==
  ASSUME TypeInv, NEW o \in Outputs, NEW new \in Sinks, sink' = [sink EXCEPT ![o] = new]
  PROVE  /\ sink' \in [Outputs -> Sinks] /\ sink'[o] = new
         /\ \A p \in Outputs \ {o} : sink'[p] = sink[p]
BY DEF TypeInv, PlayersType

\* One sequence after another.
LEMMA Catenated ==
  ASSUME NEW S, NEW s \in Seq(S), NEW t \in Seq(S)
  PROVE  /\ Cat(s, t) \in Seq(S) /\ Len(Cat(s, t)) = Len(s) + Len(t)
         /\ \A i \in 1 .. Len(s) : Cat(s, t)[i] = s[i]
         /\ \A i \in 1 .. Len(t) : Cat(s, t)[Len(s) + i] = t[i]
BY DEF Cat

Longer(o, pics, pc) == [Sends(o, pics) EXCEPT !.pc = pc]

\* What it has sent has become longer.
LEMMA SentIs ==
  ASSUME TypeInv, NEW o \in Outputs, NEW pc \in SinkPcs, NEW pics \in Seq(Copies)
  PROVE  /\ LET new == Longer(o, pics, pc)
            IN  /\ new \in Sinks /\ new.pc = pc /\ new.from = sink[o].from
                /\ new.sent = Cat(sink[o].sent, pics)
         /\ LET new == [sink[o] EXCEPT !.pc = pc]
            IN  /\ new \in Sinks /\ new.pc = pc /\ new.from = sink[o].from /\ new.sent = sink[o].sent
<1> DEFINE From == 0 .. conf.pics
<1>1. Sinks = [pc : SinkPcs, named : BOOLEAN, from : From, sent : Seq(Copies)] BY DEF Sinks
<1>2. sink[o] \in Sinks BY SinkIs
<1> HIDE DEF From
<1>3. Cat(sink[o].sent, pics) \in Seq(Copies) BY <1>1, <1>2, Catenated
<1>4. Longer(o, pics, pc) = [[sink[o] EXCEPT !.sent = Cat(sink[o].sent, pics)] EXCEPT !.pc = pc]
  BY DEF Longer, Sends, Cat
<1>5. QED BY <1>1, <1>2, <1>3, <1>4

\* Boards that have not changed, or only in who holds the lock of one.
LEMMA BoardsSame ==
  ASSUME TypeInv
  PROVE  /\ board' = board => board' \in [Boards -> Board] /\ \A b \in Boards : SameBoard(b)
         /\ \A b \in Boards, owner \in {Nobody} \cup ({"in", "out"} \X Boards) :
              board' = [board EXCEPT ![b].owner = owner]
                => board' \in [Boards -> Board] /\ \A c \in Boards : SameBoard(c)
<1>1. board \in [Boards -> Board] BY DEF TypeInv, PlayersType
<1>2. board' = board => board' \in [Boards -> Board] /\ \A b \in Boards : SameBoard(b) BY <1>1 DEF SameBoard
<1>3. ASSUME NEW b \in Boards, NEW owner \in {Nobody} \cup ({"in", "out"} \X Boards),
             board' = [board EXCEPT ![b].owner = owner]
      PROVE  board' \in [Boards -> Board] /\ \A c \in Boards : SameBoard(c)
  BY <1>3, Owning DEF OneBoard, SameBoard
<1>4. QED BY <1>2, <1>3

\* Buffers that have not changed.
LEMMA FramesSame ==
  ASSUME TypeInv, UNCHANGED frame
  PROVE  DOMAIN frame' = OutputKinds /\ \A kind \in OutputKinds : frame'[kind] \in Frames(kind)
BY DEF TypeInv, LibrariesType

\* Only the program counter moves.
LEMMA SinkMoved ==
  ASSUME TypeInv, NEW o \in Outputs, NEW pc \in SinkPcs, SinkGoes(o, pc)
  PROVE  /\ sink' \in [Outputs -> Sinks] /\ sink'[o].pc = pc /\ sink'[o].from = sink[o].from
         /\ sink'[o].sent = sink[o].sent /\ \A p \in Outputs \ {o} : sink'[p] = sink[p]
<1> DEFINE new == [sink[o] EXCEPT !.pc = pc]
<1>1. <<>> \in Seq(Copies) OBVIOUS
<1>2. new \in Sinks /\ new.pc = pc /\ new.from = sink[o].from /\ new.sent = sink[o].sent BY <1>1, SentIs
<1>3. sink' = [sink EXCEPT ![o] = new] BY DEF SinkGoes
<1> HIDE DEF new
<1>4. QED BY <1>2, <1>3, SinkPut

\* A library's buffer is freed.
LEMMA CleanedUp ==
  ASSUME TypeInv, NEW o \in Outputs, Cleanup(o)
  PROVE  /\ cleaned' \subseteq Kinds
         /\ DOMAIN frame' = OutputKinds /\ \A kind \in OutputKinds : frame'[kind] \in Frames(kind)
         /\ \A kind \in OutputKinds \ {OutKind(o)} : frame'[kind] = frame[kind]
<1> DEFINE K == OutKind(o)
           S == Slots(K)
           freed == [i \in S |-> Freed]
<1>1. K \in OutputKinds /\ K \in Kinds /\ cleaned \subseteq Kinds /\ DOMAIN frame = OutputKinds
  BY SinkIs, RestIs
<1>2. cleaned' \subseteq Kinds BY <1>1 DEF Cleanup
<1>3. CASE UNCHANGED frame BY <1>2, <1>3, FramesSame
<1>4. CASE frame' = [frame EXCEPT ![K].pics = freed]
  <2>1. \A kind \in OutputKinds : frame[kind] \in Frames(kind) BY DEF TypeInv, LibrariesType
  <2>2. Frames(K) = [room : [S -> Nat], max : Nat, pos : S, pics : [S -> Copies]] BY DEF Frames
  <2>3. freed \in [S -> Copies] BY DEF Copies
  <2> HIDE DEF K, S, freed
  <2> DEFINE f == frame[K]
             g == [f EXCEPT !.pics = freed]
  <2>4. f \in Frames(K) BY <1>1, <2>1
  <2>5. frame'[K] = g /\ \A kind \in OutputKinds \ {K} : frame'[kind] = frame[kind] BY <1>1, <1>4
  <2>6. g \in Frames(K)
    <3> HIDE DEF f
    <3>1. QED BY <2>2, <2>3, <2>4
  <2>7. DOMAIN frame' = OutputKinds BY <1>1, <1>4
  <2>8. QED BY <1>2, <2>1, <2>5, <2>6, <2>7 DEF K
<1>5. QED BY <1>3, <1>4 DEF Cleanup

\* The buffer of one library has changed.
LEMMA FramePut ==
  ASSUME TypeInv, NEW kind \in OutputKinds, NEW g \in Frames(kind), frame' = [frame EXCEPT ![kind] = g]
  PROVE  /\ DOMAIN frame' = OutputKinds /\ \A l \in OutputKinds : frame'[l] \in Frames(l)
         /\ frame'[kind] = g /\ \A l \in OutputKinds \ {kind} : frame'[l] = frame[l]
BY DEF TypeInv, LibrariesType

\* Steps that only move the program counter, and may lock db.
LEMMA MovedTook ==
  ASSUME TypeInv, NEW o \in Outputs, NEW pc \in SinkPcs \ {"none", "deliver"}, SinkGoes(o, pc),
         sink[o].pc \notin {"none", "ended"}, pc = "copy" => sink[o].pc = "woken", pc = "woken" => conf.spurious,
         \/ UNCHANGED board
         \/ board' = [board EXCEPT ![ReadBy(o)].owner = Sink(o)]
         \/ board' = [board EXCEPT ![ReadBy(o)].owner = Nobody],
         UNCHANGED <<frame, cleaned>> \/ (pc = "ended" /\ Cleanup(o))
  PROVE  Took(o) /\ Own(o)
<1>1. /\ sink' \in [Outputs -> Sinks] /\ sink'[o].pc = pc /\ sink'[o].from = sink[o].from
      /\ sink'[o].sent = sink[o].sent /\ \A p \in Outputs \ {o} : sink'[p] = sink[p]
  BY SinkMoved
<1>2. ReadBy(o) \in Boards /\ Sink(o) \in {"in", "out"} \X Boards BY SinkIs, ThreadsAre
<1>3. board' \in [Boards -> Board] /\ \A b \in Boards : SameBoard(b) BY <1>2, BoardsSame
<1>4. CASE UNCHANGED <<frame, cleaned>>
  <2>1. Took(o) BY <1>1, <1>3, <1>4, FramesSame, RestIs DEF Took
  <2>2. QED BY <1>1, <1>4, <2>1 DEF Own
<1>5. CASE pc = "ended" /\ Cleanup(o)
  <2>1. Took(o) BY <1>1, <1>3, <1>5, CleanedUp DEF Took
  <2>2. QED BY <1>1, <1>5, <2>1 DEF Own
<1>6. QED BY <1>4, <1>5

\* At the head of the loop a thread ends or goes on.
LEMMA HeadMoved ==
  ASSUME TypeInv, NEW o \in Outputs, NEW new \in Sinks, new.from = sink[o].from,
         sink[o].pc \in {"deliver", "head"}, LoopHead(o, new), UNCHANGED board
  PROVE  /\ Took(o) /\ sink'[o].from = sink[o].from /\ sink'[o].sent = new.sent
         /\ sink'[o].pc = "ended" \/ (sink'[o].pc # "deliver" /\ UNCHANGED frame)
<1>1. ASSUME NEW pc \in SinkPcs
      PROVE  LET r == [new EXCEPT !.pc = pc]
             IN  r \in Sinks /\ r.pc = pc /\ r.from = sink[o].from /\ r.sent = new.sent
  <2> DEFINE From == 0 .. conf.pics
             Sent == Seq(Copies)
  <2>1. Sinks = [pc : SinkPcs, named : BOOLEAN, from : From, sent : Sent] BY DEF Sinks
  <2> HIDE DEF From, Sent
  <2>2. QED BY <2>1
<1>2. board' \in [Boards -> Board] /\ \A b \in Boards : SameBoard(b) BY BoardsSame
<1>3. CASE Cleanup(o) /\ sink' = [sink EXCEPT ![o] = [new EXCEPT !.pc = "ended"]]
  <2> DEFINE r == [new EXCEPT !.pc = "ended"]
  <2>1. r \in Sinks /\ r.pc = "ended" /\ r.from = sink[o].from /\ r.sent = new.sent
    BY <1>1 DEF SinkPcs
  <2>2. sink' = [sink EXCEPT ![o] = r] BY <1>3
  <2> HIDE DEF r
  <2>3. sink' \in [Outputs -> Sinks] /\ sink'[o] = r /\ \A p \in Outputs \ {o} : sink'[p] = sink[p]
    BY <2>1, <2>2, SinkPut
  <2>4. QED BY <1>2, <1>3, <2>1, <2>3, CleanedUp DEF Took
<1>4. CASE UNCHANGED <<frame, cleaned>> /\ sink' = [sink EXCEPT ![o] = [new EXCEPT !.pc = FirstStep(o)]]
  <2> DEFINE r == [new EXCEPT !.pc = FirstStep(o)]
  <2>1. FirstStep(o) \in SinkPcs /\ FirstStep(o) \in {"request", "lock"} BY DEF SinkPcs, FirstStep
  <2>2. r \in Sinks /\ r.pc \in {"request", "lock"} /\ r.from = sink[o].from /\ r.sent = new.sent
    BY <1>1, <2>1
  <2>3. sink' = [sink EXCEPT ![o] = r] BY <1>4
  <2> HIDE DEF r
  <2>4. sink' \in [Outputs -> Sinks] /\ sink'[o] = r /\ \A p \in Outputs \ {o} : sink'[p] = sink[p]
    BY <2>2, <2>3, SinkPut
  <2>5. QED BY <1>2, <1>4, <2>2, <2>4, FramesSame, RestIs DEF Took
<1>5. QED BY <1>3, <1>4 DEF LoopHead

\* One picture is sent from the only slot.
LEMMA OneSent ==
  ASSUME TypeInv, NEW o \in Outputs, OutKind(o) # "zmqserver", sink[o].pc = "deliver",
         LoopHead(o, Sends(o, <<frame[OutKind(o)].pics[1]>>)), UNCHANGED board
  PROVE  Took(o) /\ Own(o)
<1> DEFINE f == frame[OutKind(o)]
           pics == <<f.pics[1]>>
<1>1. f \in Frames(OutKind(o)) /\ Slots(OutKind(o)) = {1} BY SinkIs, SlotsAre
<1>2. f.pos = 1 /\ f.pics[1] \in Copies BY <1>1 DEF Frames
<1>3. pics \in Seq(Copies) /\ Len(pics) = 1 /\ pics[1] = f.pics[1] BY <1>2
<1>4. LoopHead(o, Sends(o, pics)) OBVIOUS
<1> HIDE DEF f, pics
<1>5. Sends(o, pics) = [sink[o] EXCEPT !.sent = Cat(sink[o].sent, pics)] BY DEF Sends, Cat
<1>6. Sends(o, pics) \in Sinks /\ Sends(o, pics).from = sink[o].from /\ Sends(o, pics).sent = Cat(sink[o].sent, pics)
  <2> DEFINE From == 0 .. conf.pics
             Sent == Seq(Copies)
  <2>1. Sinks = [pc : SinkPcs, named : BOOLEAN, from : From, sent : Sent] /\ sink[o] \in Sinks BY SinkIs DEF Sinks
  <2>2. Cat(sink[o].sent, pics) \in Sent BY <1>3, <2>1, Catenated
  <2> HIDE DEF From, Sent
  <2>3. QED BY <1>5, <2>1, <2>2
<1>7. /\ Took(o) /\ sink'[o].from = sink[o].from /\ sink'[o].sent = Cat(sink[o].sent, pics)
      /\ sink'[o].pc = "ended" \/ (sink'[o].pc # "deliver" /\ UNCHANGED frame)
  BY <1>4, <1>6, HeadMoved
<1>8. \A i \in 1 .. f.pos : pics[i] = f.pics[i] BY <1>2, <1>3
<1>9. Packed(o) BY <1>2, <1>3, <1>7, <1>8 DEF Packed, f
<1>10. QED BY <1>7, <1>9 DEF Own

\* A picture is copied, or there is no memory for it.
LEMMA CopyTook == ASSUME TypeInv, NEW o \in Outputs, Copy(o) PROVE Took(o) /\ Own(o)
<1> DEFINE K == OutKind(o)
           b == ReadBy(o)
           size == board[b].size
           f == frame[K]
<1>1. sink[o].pc = "copy" /\ UNCHANGED cleaned /\ cleaned \subseteq Kinds BY RestIs DEF Copy
<1>2. K \in OutputKinds /\ f \in Frames(K) /\ b \in Boards /\ sink[o] \in Sinks BY SinkIs
<1>3. size \in Nat /\ board[b].pic \in 0 .. conf.pics BY <1>2, BoardIs DEF Board
<1>4. CASE Copied(o, b)
  <2> DEFINE h == IF GrowsFor(o, size) THEN Grown(f, size) ELSE f
             g == Filled(h, b)
  <2>1. h \in Frames(K) BY <1>2, <1>3, GrownIs
  <2>2. g \in Frames(K)
    <3> HIDE DEF h, K, b
    <3>1. QED BY <1>2, <2>1, FilledIs
  <2>3. frame' = [frame EXCEPT ![K] = g] BY <1>4 DEF Copied
  <2>4. /\ DOMAIN frame' = OutputKinds /\ \A l \in OutputKinds : frame'[l] \in Frames(l)
        /\ frame'[K] = g /\ \A l \in OutputKinds \ {K} : frame'[l] = frame[l]
    <3> HIDE DEF g, K
    <3>1. QED BY <1>2, <2>2, <2>3, FramePut
  <2>5. board' \in [Boards -> Board] /\ \A c \in Boards : SameBoard(c)
    BY <1>2, <1>4, BoardsSame DEF Copied
  <2>6. LET new == [sink[o] EXCEPT !.pc = "deliver", !.from = board[b].pic]
        IN  new \in Sinks /\ new.pc = "deliver" /\ new.from = board[b].pic /\ new.sent = sink[o].sent
    <3> DEFINE From == 0 .. conf.pics
               Sent == Seq(Copies)
               pic == board[b].pic
    <3>1. Sinks = [pc : SinkPcs, named : BOOLEAN, from : From, sent : Sent] /\ "deliver" \in SinkPcs /\ pic \in From
      BY <1>3 DEF Sinks, SinkPcs
    <3> HIDE DEF From, Sent, pic
    <3>2. LET new == [sink[o] EXCEPT !.pc = "deliver", !.from = pic]
          IN  new \in Sinks /\ new.pc = "deliver" /\ new.from = pic /\ new.sent = sink[o].sent
      BY <1>2, <3>1
    <3>3. QED BY <3>2 DEF pic
  <2>7. sink' = [sink EXCEPT ![o] = [sink[o] EXCEPT !.pc = "deliver", !.from = board[b].pic]] BY <1>4 DEF Copied
  <2>8. /\ sink' \in [Outputs -> Sinks] /\ \A p \in Outputs \ {o} : sink'[p] = sink[p]
        /\ sink'[o].pc = "deliver" /\ sink'[o].from = board[b].pic /\ sink'[o].sent = sink[o].sent
    BY <2>6, <2>7, SinkPut
  <2>9. Took(o) BY <1>1, <2>4, <2>5, <2>8 DEF Took
  <2>10. Own(o) BY <1>1, <2>4, <2>8 DEF Own
  <2>11. QED BY <2>9, <2>10
<1>5. CASE NoMemory(o, b)
  <2> DEFINE max == IF size > f.max THEN size + Slack ELSE f.max
             g == [f EXCEPT !.max = max]
  <2>1. max \in Nat BY <1>2, <1>3, NumbersAssumption DEF Frames
  <2>2. g \in Frames(K)
    <3> DEFINE S == Slots(K)
    <3>1. Frames(K) = [room : [S -> Nat], max : Nat, pos : S, pics : [S -> Copies]] BY DEF Frames
    <3> HIDE DEF S, max, f
    <3>2. QED BY <1>2, <2>1, <3>1
  <2>3. frame' = [frame EXCEPT ![K] = g] BY <1>5 DEF NoMemory
  <2>4. /\ DOMAIN frame' = OutputKinds /\ \A l \in OutputKinds : frame'[l] \in Frames(l)
        /\ \A l \in OutputKinds \ {K} : frame'[l] = frame[l]
    <3> HIDE DEF g, K
    <3>1. QED BY <1>2, <2>2, <2>3, FramePut
  <2>5. board' \in [Boards -> Board] /\ \A c \in Boards : SameBoard(c)
    BY <1>2, <1>5, BoardsSame DEF NoMemory
  <2>6. "ended" \in SinkPcs /\ SinkGoes(o, "ended") BY <1>5 DEF SinkPcs, NoMemory
  <2>7. /\ sink' \in [Outputs -> Sinks] /\ \A p \in Outputs \ {o} : sink'[p] = sink[p]
        /\ sink'[o].pc = "ended" /\ sink'[o].from = sink[o].from /\ sink'[o].sent = sink[o].sent
    BY <2>6, SinkMoved
  <2>8. Took(o) BY <1>1, <2>4, <2>5, <2>7 DEF Took
  <2>9. QED BY <2>7, <2>8 DEF Own
<1>6. QED BY <1>4, <1>5 DEF Copy

\* What a buffer has, and how its next slot changes.
LEMMA FrameIs ==
  ASSUME NEW kind \in OutputKinds, NEW f \in Frames(kind)
  PROVE  /\ f.pos \in Slots(kind) /\ f.pics \in [Slots(kind) -> Copies]
         /\ f.room \in [Slots(kind) -> Nat] /\ f.max \in Nat
         /\ \A pos \in Slots(kind) :
              LET g == [f EXCEPT !.pos = pos]
              IN  g \in Frames(kind) /\ g.pos = pos /\ g.room = f.room /\ g.max = f.max /\ g.pics = f.pics
<1> DEFINE S == Slots(kind)
<1>1. Frames(kind) = [room : [S -> Nat], max : Nat, pos : S, pics : [S -> Copies]] BY DEF Frames
<1> HIDE DEF S
<1>2. f.pos \in S /\ f.pics \in [S -> Copies] /\ f.room \in [S -> Nat] /\ f.max \in Nat BY <1>1
<1>3. ASSUME NEW pos \in S
      PROVE  LET g == [f EXCEPT !.pos = pos]
             IN  g \in Frames(kind) /\ g.pos = pos /\ g.room = f.room /\ g.max = f.max /\ g.pics = f.pics
  BY <1>1
<1>4. QED BY <1>2, <1>3 DEF S

\* The next slot of a package, or the package is sent.
LEMMA PackTook ==
  ASSUME TypeInv, NEW o \in Outputs, sink[o].pc = "deliver", Pack(o), UNCHANGED board
  PROVE  Took(o) /\ Own(o)
<1> DEFINE f == frame["zmqserver"]
           S == Slots("zmqserver")
<1>1. OutKind(o) = "zmqserver" /\ UNCHANGED cleaned /\ cleaned \subseteq Kinds BY RestIs DEF Pack
<1>2. f \in Frames("zmqserver") /\ sink[o] \in Sinks /\ "zmqserver" \in OutputKinds BY <1>1, SinkIs
<1>3. S = 1 .. ZmqBufferSize /\ ZmqBufferSize \in Nat \ {0} /\ 1 \in S BY SlotsAre, NumbersAssumption
<1>4. f.pos \in S /\ f.pics \in [S -> Copies] BY <1>2, FrameIs
<1>5. ASSUME NEW pos \in S
      PROVE  LET g == [f EXCEPT !.pos = pos]
             IN  g \in Frames("zmqserver") /\ g.pos = pos /\ g.room = f.room /\ g.max = f.max /\ g.pics = f.pics
  BY <1>2, FrameIs
<1>6. board' \in [Boards -> Board] /\ \A b \in Boards : SameBoard(b) BY BoardsSame
<1>7. ASSUME NEW pos \in S, frame' = [frame EXCEPT !["zmqserver"].pos = pos]
      PROVE  LET g == frame'["zmqserver"]
             IN  /\ DOMAIN frame' = OutputKinds /\ \A l \in OutputKinds : frame'[l] \in Frames(l)
                 /\ \A l \in OutputKinds \ {"zmqserver"} : frame'[l] = frame[l]
                 /\ g.pos = pos /\ g.room = f.room /\ g.max = f.max /\ g.pics = f.pics
  <2> DEFINE g == [f EXCEPT !.pos = pos]
  <2>1. g \in Frames("zmqserver") /\ g.pos = pos /\ g.room = f.room /\ g.max = f.max /\ g.pics = f.pics BY <1>5
  <2>2. frame' = [frame EXCEPT !["zmqserver"] = g] BY <1>7
  <2> HIDE DEF g, f
  <2>3. QED BY <1>2, <2>1, <2>2, FramePut
<1>8. CASE f.pos < ZmqBufferSize
  <2>1. frame' = [frame EXCEPT !["zmqserver"].pos = f.pos + 1] /\ SinkGoes(o, "head") BY <1>8 DEF Pack
  <2>2. f.pos + 1 \in S
    <3> HIDE DEF f
    <3>1. QED BY <1>3, <1>4, <1>8
  <2>3. "head" \in SinkPcs BY DEF SinkPcs
  <2>4. /\ sink' \in [Outputs -> Sinks] /\ sink'[o].pc = "head" /\ sink'[o].from = sink[o].from
        /\ sink'[o].sent = sink[o].sent /\ \A p \in Outputs \ {o} : sink'[p] = sink[p]
    BY <2>1, <2>3, SinkMoved
  <2> HIDE DEF S
  <2>5. LET g == frame'["zmqserver"]
        IN  /\ DOMAIN frame' = OutputKinds /\ \A l \in OutputKinds : frame'[l] \in Frames(l)
            /\ \A l \in OutputKinds \ {"zmqserver"} : frame'[l] = frame[l]
            /\ g.pos = f.pos + 1 /\ g.room = f.room /\ g.max = f.max /\ g.pics = f.pics
    BY <1>7, <2>1, <2>2
  <2>6. Took(o) BY <1>1, <1>6, <2>4, <2>5 DEF Took
  <2>7. Own(o) BY <1>1, <1>8, <2>4, <2>5 DEF Own
  <2>8. QED BY <2>6, <2>7
<1>9. CASE ~(f.pos < ZmqBufferSize)
  <2> DEFINE r == [Sends(o, f.pics) EXCEPT !.pc = "head"]
  <2>1. frame' = [frame EXCEPT !["zmqserver"].pos = 1] /\ sink' = [sink EXCEPT ![o] = r] BY <1>9 DEF Pack
  <2>2. "head" \in SinkPcs BY DEF SinkPcs
  <2>3. f.pos \in S /\ f.pics \in [S -> Copies] BY <1>4
  <2>4. f.pos = ZmqBufferSize
    <3> HIDE DEF f
    <3>1. QED BY <1>3, <1>9, <2>3
  <2>5. f.pics \in Seq(Copies) /\ Len(f.pics) = ZmqBufferSize
    <3> DEFINE pics == f.pics
    <3>1. pics \in [1 .. ZmqBufferSize -> Copies] BY <1>3, <2>3
    <3> HIDE DEF pics
    <3>2. pics \in Seq(Copies) /\ Len(pics) = ZmqBufferSize BY <1>3, <3>1
    <3>3. QED BY <3>2 DEF pics
  <2>6. r \in Sinks /\ r.pc = "head" /\ r.from = sink[o].from /\ r.sent = Cat(sink[o].sent, f.pics)
    <3> DEFINE pics == f.pics
    <3>1. pics \in Seq(Copies) BY <2>5
    <3>2. r = Longer(o, pics, "head") BY DEF Longer
    <3> HIDE DEF pics, f
    <3>3. LET new == Longer(o, pics, "head")
          IN  new \in Sinks /\ new.pc = "head" /\ new.from = sink[o].from /\ new.sent = Cat(sink[o].sent, pics)
      BY <2>2, <3>1, SentIs, Zenon
    <3>4. QED BY <3>2, <3>3 DEF pics
  <2> HIDE DEF r
  <2>7. sink' \in [Outputs -> Sinks] /\ sink'[o] = r /\ \A p \in Outputs \ {o} : sink'[p] = sink[p]
    BY <2>1, <2>6, SinkPut
  <2> HIDE DEF S
  <2>8. LET g == frame'["zmqserver"]
        IN  /\ DOMAIN frame' = OutputKinds /\ \A l \in OutputKinds : frame'[l] \in Frames(l)
            /\ \A l \in OutputKinds \ {"zmqserver"} : frame'[l] = frame[l]
            /\ g.pos = 1 /\ g.room = f.room /\ g.max = f.max /\ g.pics = f.pics
    BY <1>3, <1>7, <2>1
  <2>9. Took(o) BY <1>1, <1>6, <2>6, <2>7, <2>8 DEF Took
  <2>10. Packed(o) BY <1>1, <2>4, <2>5, <2>6, <2>7, <2>8 DEF Packed
  <2>11. QED BY <2>9, <2>10 DEF Own
<1>10. QED BY <1>8, <1>9

\* A delivery, of whatever kind.
LEMMA DeliverTook == ASSUME TypeInv, NEW o \in Outputs, Deliver(o) PROVE Took(o) /\ Own(o)
<1>1. sink[o] \in Sinks /\ sink[o].pc \in {"deliver", "head"} /\ UNCHANGED board BY SinkIs DEF Deliver
<1>2. ASSUME LoopHead(o, sink[o]) PROVE Took(o) /\ Own(o) BY <1>1, <1>2, HeadMoved DEF Own
<1>3. CASE sink[o].pc = "deliver" /\ Answer(o)
  <2>1. OutKind(o) # "zmqserver" BY <1>3 DEF Answer, Asks
  <2>2. CASE LoopHead(o, IF sink[o].named THEN Sends(o, <<frame[OutKind(o)].pics[1]>>) ELSE sink[o])
    BY <1>1, <1>2, <1>3, <2>1, <2>2, OneSent
  <2>3. CASE sink[o].named /\ SinkGoes(o, "ended") /\ UNCHANGED <<frame, cleaned>>
    BY <1>1, <1>3, <2>3, MovedTook DEF SinkPcs
  <2>4. QED BY <1>3, <2>2, <2>3 DEF Answer
<1>4. CASE sink[o].pc = "deliver" /\ Pack(o) BY <1>1, <1>4, PackTook
<1>5. CASE sink[o].pc = "deliver" /\ Show(o)
  <2>1. OutKind(o) # "zmqserver" BY <1>5 DEF Show
  <2>2. QED BY <1>1, <1>2, <1>5, <2>1, OneSent DEF Show
<1>6. CASE sink[o].pc = "head" /\ LoopHead(o, sink[o]) BY <1>2, <1>6
<1>7. QED BY <1>3, <1>4, <1>5, <1>6 DEF Deliver

\* Whatever an output does, it does one of these, and it misuses a board only
\* when that is destroyed.
LEMMA SinkTook ==
  ASSUME TypeInv, NEW o \in Outputs, SinkStep(o) \/ SinkAsked(o)
  PROVE  /\ Took(o) /\ Own(o) /\ fault = "none" /\ main.pc # "exit"
         /\ UNCHANGED <<conf, main, stop, source, worker, number, control_mutex, zoomer, cancelled, fault>>
         /\ misuse' = misuse \/ (misuse' = misuse \cup {Sink(o)} /\ board[ReadBy(o)].destroyed)
<1>1. /\ fault = "none" /\ main.pc # "exit"
      /\ UNCHANGED <<conf, main, stop, source, worker, number, control_mutex, zoomer, cancelled, fault>>
  BY DEF SinkStep, SinkAsked, Running, hostVars, controlVars
<1>2. /\ "wait" \in SinkPcs /\ "copy" \in SinkPcs /\ "ended" \in SinkPcs /\ "unwind" \in SinkPcs
      /\ "lock" \in SinkPcs /\ "woken" \in SinkPcs
  BY DEF SinkPcs
<1>3. ASSUME EnterWait(o) PROVE Took(o) /\ Own(o) BY <1>2, <1>3, MovedTook DEF EnterWait
<1>4. ASSUME Relock(o) PROVE Took(o) /\ Own(o) BY <1>2, <1>4, MovedTook DEF Relock
<1>5. ASSUME CancelledAtWork(o) PROVE Took(o) /\ Own(o) BY <1>2, <1>5, MovedTook DEF CancelledAtWork
<1>6. ASSUME CancelledInWait(o) PROVE Took(o) /\ Own(o) BY <1>2, <1>6, MovedTook DEF CancelledInWait
<1>7. ASSUME Unwind(o) PROVE Took(o) /\ Own(o) BY <1>2, <1>7, MovedTook DEF Unwind
<1>8. CASE SinkMisuses(o)
  <2>1. Took(o) /\ Own(o) BY <1>2, <1>8, MovedTook DEF SinkMisuses
  <2>2. QED BY <1>1, <1>8, <2>1 DEF SinkMisuses
<1>9. CASE Request(o) /\ UNCHANGED misuse
  <2>1. PICK named \in BOOLEAN : sink' = [sink EXCEPT ![o].pc = "lock", ![o].named = named]
    BY <1>9 DEF Request
  <2>2. sink[o].pc = "request" /\ UNCHANGED <<board, frame, cleaned>> BY <1>9 DEF Request
  <2> DEFINE new == [sink[o] EXCEPT !.pc = "lock", !.named = named]
  <2>3. new \in Sinks /\ new.pc = "lock" /\ new.from = sink[o].from /\ new.sent = sink[o].sent
    <3> DEFINE From == 0 .. conf.pics
               Sent == Seq(Copies)
    <3>1. Sinks = [pc : SinkPcs, named : BOOLEAN, from : From, sent : Sent] /\ sink[o] \in Sinks BY SinkIs DEF Sinks
    <3> HIDE DEF From, Sent
    <3>2. QED BY <1>2, <3>1
  <2>4. sink' = [sink EXCEPT ![o] = new] BY <2>1
  <2> HIDE DEF new
  <2>5. sink' \in [Outputs -> Sinks] /\ sink'[o] = new /\ \A p \in Outputs \ {o} : sink'[p] = sink[p]
    BY <2>3, <2>4, SinkPut
  <2>6. board' \in [Boards -> Board] /\ \A b \in Boards : SameBoard(b) BY <2>2, BoardsSame
  <2>7. Took(o) BY <2>2, <2>3, <2>5, <2>6, FramesSame, RestIs DEF Took
  <2>8. QED BY <1>1, <1>9, <2>2, <2>3, <2>5, <2>7 DEF Own
<1>10. ASSUME SpuriousWakeup(o) PROVE Took(o) /\ Own(o) BY <1>2, <1>10, MovedTook DEF SpuriousWakeup
<1>11. QED
  BY <1>1, <1>3, <1>4, <1>5, <1>6, <1>7, <1>8, <1>9, <1>10, CopyTook, DeliverTook DEF SinkStep, SinkAsked

\* What an output does keeps every variable in its range.
LEMMA SinkTyped == ASSUME TypeInv, NEW o \in Outputs, SinkStep(o) \/ SinkAsked(o) PROVE TypeInv'
<1>1. /\ Took(o)
      /\ UNCHANGED <<conf, main, stop, source, worker, number, control_mutex, zoomer, cancelled, fault>>
      /\ misuse' \subseteq misuse \cup {Sink(o)}
  BY SinkTook
<1>2. HostType' BY <1>1 DEF TypeInv, HostType, Inputs, Outputs
<1>3. Board' = Board /\ Sinks' = Sinks /\ Inputs' = Inputs /\ Outputs' = Outputs
  BY <1>1 DEF Board, Sinks, Copies, Inputs, Outputs
<1>4. PlayersType' BY <1>1, <1>3 DEF TypeInv, PlayersType, Took
<1>5. LibrariesType'
  <2>1. \A kind \in OutputKinds : Frames(kind)' = Frames(kind) BY <1>1 DEF Frames, Copies
  <2>2. QED BY <1>1, <2>1 DEF TypeInv, LibrariesType, Took
<1>6. Sink(o) \in Threads BY SinkIs, ThreadsAre
<1>7. RestType' BY <1>1, <1>6 DEF TypeInv, RestType
<1>8. QED BY <1>2, <1>4, <1>5, <1>7 DEF TypeInv

-----------------------------------------------------------------------------
(* What a step of main or of the handler does.                             *)

\* The next plugin, or the next list.
LEMMA Advanced ==
  ASSUME TypeInv, NEW count \in Boards, main.i \in 1 .. count, NEW next \in MainPcs, Advance(count, next)
  PROVE  /\ main' \in [pc : MainPcs, i : Boards, ready : BOOLEAN] /\ main'.ready = main.ready
         /\ \/ main.i < count /\ main'.pc = main.pc /\ main'.i = main.i + 1 /\ main'.i \in 1 .. count
            \/ main.i = count /\ main'.pc = next /\ main'.i = 1
<1>1. main \in [pc : MainPcs, i : Boards, ready : BOOLEAN] BY DEF TypeInv, HostType
<1>2. count \in Nat /\ main.i \in Nat /\ main.i <= count /\ main.i >= 1 /\ count <= MAX_INPUT_PLUGINS /\ 1 \in Boards
  BY NumbersAssumption DEF Boards
<1>3. CASE main.i < count
  <2>1. main' = [main EXCEPT !.i = main.i + 1] BY <1>3 DEF Advance
  <2>2. main.i + 1 \in Boards /\ main.i + 1 \in 1 .. count BY <1>2, <1>3, NumbersAssumption DEF Boards
  <2>3. QED BY <1>1, <1>3, <2>1, <2>2
<1>4. CASE ~(main.i < count)
  <2>1. main' = [main EXCEPT !.pc = next, !.i = 1] BY <1>4 DEF Advance
  <2>2. main.i = count BY <1>2, <1>4
  <2>3. QED BY <1>1, <1>2, <2>1, <2>2
<1>5. QED BY <1>3, <1>4

\* main ends where it is.
LEMMA Exited ==
  ASSUME TypeInv, Exit
  PROVE  /\ main' \in [pc : MainPcs, i : Boards, ready : BOOLEAN]
         /\ main'.pc = "exit" /\ main'.i = main.i /\ main'.ready = main.ready
<1>1. main \in [pc : MainPcs, i : Boards, ready : BOOLEAN] BY DEF TypeInv, HostType
<1>2. "exit" \in MainPcs BY DEF MainPcs
<1>3. QED BY <1>1, <1>2 DEF Exit

\* Variables that have not changed keep their types.
LEMMA PlayersKept ==
  ASSUME TypeInv, conf' = conf
  PROVE  /\ UNCHANGED <<board, source, sink>> => PlayersType'
         /\ UNCHANGED <<worker, number, cleaned, frame>> => LibrariesType'
         /\ UNCHANGED <<control_mutex, zoomer, cancelled, misuse, fault>> => RestType'
         /\ Board' = Board /\ Sinks' = Sinks /\ Inputs' = Inputs /\ Outputs' = Outputs
         /\ \A kind \in OutputKinds : Frames(kind)' = Frames(kind)
<1>1. Board' = Board /\ Sinks' = Sinks /\ Inputs' = Inputs /\ Outputs' = Outputs
  BY DEF Board, Sinks, Copies, Inputs, Outputs
<1>2. \A kind \in OutputKinds : Frames(kind)' = Frames(kind) BY DEF Frames, Copies
<1>3. QED BY <1>1, <1>2 DEF TypeInv, PlayersType, LibrariesType, RestType

\* Opening an input or an output.
LEMMA OpenTyped == ASSUME TypeInv, OpenInput \/ OpenOutput PROVE TypeInv'
<1>1. /\ conf \in Configs /\ stop \in BOOLEAN /\ conf' = conf /\ stop' = stop
      /\ UNCHANGED <<board, source, sink, worker, cleaned, frame, zoomer, cancelled, misuse, fault>>
  BY DEF TypeInv, HostType, OpenInput, OpenOutput, controlVars
<1>2. /\ Inputs = 1 .. Len(conf.ins) /\ Len(conf.ins) \in Boards /\ Outputs = 1 .. Len(conf.outs)
      /\ Len(conf.outs) \in Boards /\ 1 \in Inputs /\ 1 \in Outputs
  BY <1>1, ConfIs
<1>3. /\ main.pc \in {"openIn", "runIn", "stopIn"} => main.i \in Inputs
      /\ main.pc \in {"openOut", "runOut", "stopOut", "destroy"} => main.i \in Outputs
  BY DEF TypeInv, HostType
<1>4. "openOut" \in MainPcs /\ "runIn" \in MainPcs BY DEF MainPcs, Starting
<1>5. PlayersType' /\ Inputs' = Inputs /\ Outputs' = Outputs BY <1>1, PlayersKept
<1>6. number \in [Kinds -> Boards] BY DEF TypeInv, LibrariesType
<1>7. HostType' /\ number' \in [Kinds -> Boards] /\ control_mutex' \in Threads \cup {Zoomer}
  <2>1. CASE OpenInput
    <3>1. CASE Advance(Len(conf.ins), "openOut") /\ InputInit(main.i)
      <4>1. /\ main' \in [pc : MainPcs, i : Boards, ready : BOOLEAN]
            /\ \/ main'.pc = "openIn" /\ main'.i \in Inputs
               \/ main'.pc = "openOut" /\ main'.i = 1
        BY <1>2, <1>3, <1>4, <2>1, <3>1, Advanced DEF OpenInput
      <4>2. HostType' BY <1>1, <1>2, <1>5, <4>1 DEF HostType
      <4>3. main.i \in Boards /\ control_mutex \in Threads \cup {Zoomer}
        BY DEF TypeInv, HostType, RestType
      <4>4. number' \in [Kinds -> Boards] /\ control_mutex' \in Threads \cup {Zoomer}
        BY <1>6, <3>1, <4>3 DEF InputInit, FileInit, TestpictureInit, OpencvInit, PtpInit, Threads
      <4>5. QED BY <4>2, <4>4
    <3>2. CASE Exit /\ UNCHANGED <<number, control_mutex>>
      BY <1>1, <1>6, <3>2, Exited DEF HostType, TypeInv, RestType
    <3>3. QED BY <2>1, <3>1, <3>2 DEF OpenInput
  <2>2. CASE OpenOutput
    <3>1. control_mutex' = control_mutex BY <2>2 DEF OpenOutput, controlVars
    <3>2. CASE Advance(Len(conf.outs), "runIn") /\ OutputInit(main.i)
      <4>1. /\ main' \in [pc : MainPcs, i : Boards, ready : BOOLEAN]
            /\ \/ main'.pc = "openOut" /\ main'.i \in Outputs
               \/ main'.pc = "runIn" /\ main'.i = 1
        BY <1>2, <1>3, <1>4, <2>2, <3>2, Advanced DEF OpenOutput
      <4>2. HostType' BY <1>1, <1>2, <1>5, <4>1 DEF HostType
      <4>3. conf.outs[main.i].input \in Boards BY <1>1, <1>3, <2>2, ConfIs DEF OpenOutput
      <4>4. QED BY <1>6, <3>1, <3>2, <4>2, <4>3 DEF OutputInit, TypeInv, RestType
    <3>3. CASE Exit /\ UNCHANGED number
      BY <1>1, <1>6, <3>1, <3>3, Exited DEF HostType, TypeInv, RestType
    <3>4. QED BY <2>2, <3>2, <3>3 DEF OpenOutput
  <2>3. QED BY <2>1, <2>2
<1>8. LibrariesType'
  <2>1. \A kind \in OutputKinds : Frames(kind)' = Frames(kind) BY <1>1, PlayersKept
  <2>2. QED BY <1>1, <1>7, <2>1 DEF TypeInv, LibrariesType
<1>9. RestType' BY <1>1, <1>7 DEF TypeInv, RestType
<1>10. QED BY <1>5, <1>7, <1>8, <1>9 DEF TypeInv

\* input_run starts the thread, of input_ptp2 perhaps not, and some make the
\* buffer of their board.
Launched(k) ==
  /\ source' \in [Inputs -> Sources] /\ \A l \in Inputs \ {k} : source'[l] = source[l]
  /\ \/ source'[k].pc = "grab" /\ InKind(k) # "ptp2"
     \/ source'[k].pc = "start" /\ InKind(k) = "ptp2"
     \/ source'[k] = source[k] /\ InKind(k) = "ptp2"
  /\ board' \in [Boards -> Board] /\ \A b \in Boards \ {k} : board'[b] = board[b]
  /\ board'[k].destroyed = board[k].destroyed /\ board'[k].pic = board[k].pic
  /\ board'[k].size \in {board[k].size, 0}
  /\ InKind(k) \in {"file", "ptp2"} => board'[k].buf = board[k].buf
  /\ InKind(k) = "testpicture" => board'[k].buf = "live"
  /\ InKind(k) = "opencv" => board'[k].buf = "null"
  /\ number' \in [Kinds -> Boards] /\ \A l \in Kinds \ {"ptp2"} : number'[l] = number[l]
  /\ number'["ptp2"] = (IF InKind(k) = "ptp2" THEN k ELSE number["ptp2"])
  /\ worker' \in [Kinds -> {0} \cup Boards] /\ \A l \in Kinds \ {InKind(k)} : worker'[l] = worker[l]
  /\ worker'[InKind(k)] = k \/ InKind(k) = "opencv" \/ (InKind(k) = "ptp2" /\ source'[k] = source[k])

\* And it does nothing else.
LEMMA InputRan == ASSUME TypeInv, NEW k \in Inputs, InputRun(k) PROVE Launched(k)
<1>1. /\ board \in [Boards -> Board] /\ source \in [Inputs -> Sources] /\ number \in [Kinds -> Boards]
      /\ worker \in [Kinds -> {0} \cup Boards]
  BY DEF TypeInv, PlayersType, LibrariesType
<1>2. k \in Boards /\ InKind(k) \in InputKinds /\ InputKinds \subseteq Kinds /\ "ptp2" \in InputKinds
  BY ServesBoard DEF Kinds, InputKinds
<1>3. ASSUME NEW pc \in {"grab", "start"}, SourceGoes(k, pc)
      PROVE  /\ source' \in [Inputs -> Sources] /\ source'[k].pc = pc
             /\ \A l \in Inputs \ {k} : source'[l] = source[l]
  BY <1>1, <1>3 DEF SourceGoes, Sources, SourcePcs
<1>4. /\ UNCHANGED board => /\ board' \in [Boards -> Board] /\ \A b \in Boards : board'[b] = board[b]
      /\ UNCHANGED number => /\ number' \in [Kinds -> Boards] /\ \A l \in Kinds : number'[l] = number[l]
  BY <1>1
<1>5. ASSUME NEW l \in Kinds, worker' = [worker EXCEPT ![l] = k]
      PROVE  /\ worker' \in [Kinds -> {0} \cup Boards] /\ worker'[l] = k
             /\ \A m \in Kinds \ {l} : worker'[m] = worker[m]
  BY <1>1, <1>2, <1>5
<1>6. CASE FileRun(k) BY <1>2, <1>3, <1>4, <1>5, <1>6 DEF FileRun, Launched
<1>7. CASE TestpictureRun(k)
  <2>1. /\ board' \in [Boards -> Board] /\ \A b \in Boards \ {k} : board'[b] = board[b]
        /\ board'[k].destroyed = board[k].destroyed /\ board'[k].pic = board[k].pic
        /\ board'[k].size = board[k].size /\ board'[k].buf = "live"
    <3>1. board' = [board EXCEPT ![k].buf = "live"] BY <1>7 DEF TestpictureRun
    <3> DEFINE Owners == {Nobody} \cup ({"in", "out"} \X Boards)
               Bufs == {"null", "live", "freed"}
               Pics == 0 .. conf.pics
    <3>2. Board = [destroyed : BOOLEAN, owner : Owners, buf : Bufs, pic : Pics, size : Nat] /\ "live" \in Bufs
      BY DEF Board
    <3> HIDE DEF Owners, Bufs, Pics
    <3>3. QED BY <1>1, <1>2, <3>1, <3>2
  <2>2. QED BY <1>2, <1>3, <1>4, <1>5, <1>7, <2>1 DEF TestpictureRun, Launched
<1>8. CASE OpencvRun(k)
  <2>1. /\ board' \in [Boards -> Board] /\ \A b \in Boards \ {k} : board'[b] = board[b]
        /\ board'[k].destroyed = board[k].destroyed /\ board'[k].pic = board[k].pic
        /\ board'[k].size = 0 /\ board'[k].buf = "null"
    <3>1. board' = [board EXCEPT ![k].buf = "null", ![k].size = 0] BY <1>8 DEF OpencvRun
    <3> DEFINE Owners == {Nobody} \cup ({"in", "out"} \X Boards)
               Bufs == {"null", "live", "freed"}
               Pics == 0 .. conf.pics
    <3>2. /\ Board = [destroyed : BOOLEAN, owner : Owners, buf : Bufs, pic : Pics, size : Nat]
          /\ "null" \in Bufs /\ 0 \in Nat
      BY DEF Board
    <3> HIDE DEF Owners, Bufs, Pics
    <3>3. QED BY <1>1, <1>2, <3>1, <3>2
  <2>2. UNCHANGED worker => worker' \in [Kinds -> {0} \cup Boards] /\ \A l \in Kinds : worker'[l] = worker[l]
    BY <1>1
  <2>3. QED BY <1>2, <1>3, <1>4, <1>8, <2>1, <2>2 DEF OpencvRun, Launched
<1>9. CASE PtpRun(k)
  <2>1. /\ number' \in [Kinds -> Boards] /\ number'["ptp2"] = k
        /\ \A l \in Kinds \ {"ptp2"} : number'[l] = number[l]
    BY <1>1, <1>2, <1>9 DEF PtpRun
  <2>2. UNCHANGED <<worker, source>> =>
          /\ worker' \in [Kinds -> {0} \cup Boards] /\ \A l \in Kinds : worker'[l] = worker[l]
          /\ source' \in [Inputs -> Sources] /\ \A l \in Inputs : source'[l] = source[l]
    BY <1>1
  <2>3. CASE UNCHANGED <<worker, source>> BY <1>2, <1>4, <1>9, <2>1, <2>2, <2>3 DEF PtpRun, Launched
  <2>4. CASE worker' = [worker EXCEPT !["ptp2"] = k] /\ SourceGoes(k, "start")
    BY <1>2, <1>3, <1>4, <1>5, <1>9, <2>1, <2>4 DEF PtpRun, Launched
  <2>5. QED BY <1>9, <2>3, <2>4 DEF PtpRun
<1>10. QED BY <1>6, <1>7, <1>8, <1>9 DEF InputRun

\* output_run starts the thread.
LEMMA OutputRan ==
  ASSUME TypeInv, NEW o \in Outputs, OutputRun(o)
  PROVE  /\ sink' \in [Outputs -> Sinks] /\ sink'[o].pc \in {"request", "lock", "ended"}
         /\ sink'[o].from = sink[o].from /\ sink'[o].sent = sink[o].sent
         /\ \A p \in Outputs \ {o} : sink'[p] = sink[p]
         /\ worker' \in [Kinds -> {0} \cup Boards] /\ worker'[OutKind(o)] = o
         /\ \A l \in Kinds \ {OutKind(o)} : worker'[l] = worker[l]
<1>1. worker \in [Kinds -> {0} \cup Boards] /\ o \in Boards /\ OutKind(o) \in Kinds
  BY SinkIs DEF TypeInv, LibrariesType
<1>2. PICK pc \in {"request", "lock", "ended"} : SinkGoes(o, pc) BY DEF OutputRun, FirstStep
<1>3. pc \in SinkPcs BY DEF SinkPcs
<1>4. QED BY <1>1, <1>2, <1>3, SinkMoved DEF OutputRun

\* Running an input or an output.
LEMMA RunTyped == ASSUME TypeInv, RunInput \/ RunOutput PROVE TypeInv'
<1>1. /\ conf \in Configs /\ stop \in BOOLEAN /\ conf' = conf /\ stop' = stop
      /\ UNCHANGED <<cleaned, frame, control_mutex, zoomer, cancelled, misuse, fault>>
  BY DEF TypeInv, HostType, RunInput, RunOutput, controlVars
<1>2. /\ Inputs = 1 .. Len(conf.ins) /\ Len(conf.ins) \in Boards /\ Outputs = 1 .. Len(conf.outs)
      /\ Len(conf.outs) \in Boards /\ 1 \in Inputs /\ 1 \in Outputs
  BY <1>1, ConfIs
<1>3. /\ main.pc \in {"openIn", "runIn", "stopIn"} => main.i \in Inputs
      /\ main.pc \in {"openOut", "runOut", "stopOut", "destroy"} => main.i \in Outputs
  BY DEF TypeInv, HostType
<1>4. "runOut" \in MainPcs /\ "pause" \in MainPcs BY DEF MainPcs, Starting
<1>5. Board' = Board /\ Sinks' = Sinks /\ Inputs' = Inputs /\ Outputs' = Outputs BY <1>1, PlayersKept
<1>6. \A kind \in OutputKinds : Frames(kind)' = Frames(kind) BY <1>1, PlayersKept
<1>7. /\ board \in [Boards -> Board] /\ source \in [Inputs -> Sources] /\ sink \in [Outputs -> Sinks]
      /\ worker \in [Kinds -> {0} \cup Boards] /\ number \in [Kinds -> Boards]
  BY DEF TypeInv, PlayersType, LibrariesType
<1>8. /\ HostType' /\ board' \in [Boards -> Board] /\ source' \in [Inputs -> Sources] /\ sink' \in [Outputs -> Sinks]
      /\ worker' \in [Kinds -> {0} \cup Boards] /\ number' \in [Kinds -> Boards]
  <2>1. CASE RunInput /\ Advance(Len(conf.ins), "runOut") /\ InputRun(main.i)
    <3>1. main.i \in Inputs /\ sink' = sink /\ main.pc = "runIn" BY <1>3, <2>1 DEF RunInput
    <3>2. /\ main' \in [pc : MainPcs, i : Boards, ready : BOOLEAN]
          /\ \/ main'.pc = "runIn" /\ main'.i \in Inputs
             \/ main'.pc = "runOut" /\ main'.i = 1
      BY <1>2, <1>4, <2>1, <3>1, Advanced
    <3>3. HostType' BY <1>1, <1>2, <1>5, <3>2 DEF HostType
    <3>4. QED BY <1>7, <2>1, <3>1, <3>3, InputRan DEF Launched
  <2>2. CASE RunInput /\ Exit /\ UNCHANGED <<board, source, worker, number>>
    <3>1. sink' = sink BY <2>2 DEF RunInput
    <3>2. QED BY <1>1, <1>7, <2>2, <3>1, Exited DEF HostType
  <2>3. CASE RunOutput
    <3>1. main.i \in Outputs /\ UNCHANGED <<board, source, number>> /\ main.pc = "runOut"
      BY <1>3, <2>3 DEF RunOutput
    <3>2. /\ main' \in [pc : MainPcs, i : Boards, ready : BOOLEAN]
          /\ \/ main'.pc = "runOut" /\ main'.i \in Outputs
             \/ main'.pc = "pause" /\ main'.i = 1
      BY <1>2, <1>4, <2>3, <3>1, Advanced DEF RunOutput
    <3>3. HostType' BY <1>1, <1>2, <1>5, <3>2 DEF HostType
    <3>4. QED BY <1>7, <2>3, <3>1, <3>3, OutputRan DEF RunOutput
  <2>4. QED BY <2>1, <2>2, <2>3 DEF RunInput
<1>9. QED BY <1>1, <1>5, <1>6, <1>8 DEF TypeInv, PlayersType, LibrariesType, RestType

\* The thread that input_stop and output_stop cancel.
StoppedBy(k) == IF InKind(k) = "opencv" THEN IF source[k].pc = "none" THEN 0 ELSE k ELSE worker[InKind(k)]

\* A plugin is told to stop: its thread is cancelled, or there is none.
LEMMA InputTold ==
  ASSUME TypeInv, NEW k \in Inputs, InputStop(k)
  PROVE  /\ \/ StoppedBy(k) = 0 /\ fault' = "no thread" /\ UNCHANGED cancelled
            \/ /\ StoppedBy(k) \in Boards /\ StoppedBy(k) # 0
               /\ cancelled' = cancelled \cup {Source(StoppedBy(k))} /\ UNCHANGED fault
         /\ cancelled' \subseteq Threads /\ fault' \in {"none", "no thread", "null buffer", "double free"}
<1>1. worker \in [Kinds -> {0} \cup Boards] /\ k \in Boards /\ InKind(k) \in Kinds
  BY ServesBoard DEF TypeInv, LibrariesType, Kinds
<1>2. cancelled \subseteq Threads /\ fault \in {"none", "no thread", "null buffer", "double free"}
  BY DEF TypeInv, RestType
<1>3. StoppedBy(k) \in {0} \cup Boards BY <1>1 DEF StoppedBy
<1>4. CASE StoppedBy(k) = 0 BY <1>2, <1>4 DEF InputStop, StoppedBy
<1>5. CASE StoppedBy(k) # 0
  <2>1. cancelled' = cancelled \cup {Source(StoppedBy(k))} /\ UNCHANGED fault BY <1>5 DEF InputStop, StoppedBy
  <2>2. QED BY <1>2, <1>3, <1>5, <2>1, ThreadsAre
<1>6. QED BY <1>4, <1>5

\* The same for an output.
LEMMA OutputTold ==
  ASSUME TypeInv, NEW o \in Outputs, OutputStop(o)
  PROVE  /\ \/ worker[OutKind(o)] = 0 /\ fault' = "no thread" /\ UNCHANGED cancelled
            \/ /\ worker[OutKind(o)] \in Boards /\ worker[OutKind(o)] # 0
               /\ cancelled' = cancelled \cup {Sink(worker[OutKind(o)])} /\ UNCHANGED fault
         /\ cancelled' \subseteq Threads /\ fault' \in {"none", "no thread", "null buffer", "double free"}
<1>1. worker[OutKind(o)] \in {0} \cup Boards BY SinkIs DEF TypeInv, LibrariesType
<1>2. cancelled \subseteq Threads /\ fault \in {"none", "no thread", "null buffer", "double free"}
  BY DEF TypeInv, RestType
<1>3. CASE worker[OutKind(o)] = 0 BY <1>2, <1>3 DEF OutputStop
<1>4. CASE worker[OutKind(o)] # 0
  <2>1. cancelled' = cancelled \cup {Sink(worker[OutKind(o)])} /\ UNCHANGED fault BY <1>4 DEF OutputStop
  <2>2. QED BY <1>1, <1>2, <1>4, <2>1, ThreadsAre
<1>5. QED BY <1>3, <1>4

\* A board is destroyed, and the handler goes on.
LEMMA DestroyIs ==
  ASSUME TypeInv, Destroy
  PROVE  /\ main.i \in Outputs /\ main' \in [pc : MainPcs, i : Boards, ready : BOOLEAN]
         /\ main'.ready = main.ready
         /\ \/ main'.pc = "stopOut" /\ main'.i = main.i + 1 /\ main'.i \in Outputs
            \/ main'.pc = "close" /\ main'.i = main.i /\ main.i = Len(conf.outs)
         /\ board' \in [Boards -> Board] /\ board'[main.i].destroyed
         /\ \A b \in Boards \ {main.i} : board'[b] = board[b]
         /\ \A b \in Boards :
              board'[b].buf = board[b].buf /\ board'[b].pic = board[b].pic /\ board'[b].size = board[b].size
<1>1. main \in [pc : MainPcs, i : Boards, ready : BOOLEAN] /\ board \in [Boards -> Board] /\ conf \in Configs
  BY DEF TypeInv, HostType, PlayersType
<1>2. /\ Outputs = 1 .. Len(conf.outs) /\ Len(conf.outs) \in Boards /\ Outputs \subseteq Boards
  BY <1>1, ConfIs
<1>3. main.i \in Outputs BY DEF TypeInv, HostType, Destroy
<1>4. ASSUME NEW b \in Boards, board' = [board EXCEPT ![b].destroyed = TRUE]
      PROVE  /\ board' \in [Boards -> Board] /\ board'[b].destroyed
             /\ \A c \in Boards \ {b} : board'[c] = board[c]
             /\ \A c \in Boards :
                  board'[c].buf = board[c].buf /\ board'[c].pic = board[c].pic /\ board'[c].size = board[c].size
  <2> DEFINE Owners == {Nobody} \cup ({"in", "out"} \X Boards)
             Bufs == {"null", "live", "freed"}
             Pics == 0 .. conf.pics
  <2>1. Board = [destroyed : BOOLEAN, owner : Owners, buf : Bufs, pic : Pics, size : Nat] BY DEF Board
  <2> HIDE DEF Owners, Bufs, Pics
  <2>2. QED BY <1>1, <1>4, <2>1
<1>5. main.i \in Boards BY <1>2, <1>3
<1>6. "stopOut" \in MainPcs /\ "close" \in MainPcs BY DEF MainPcs, Handling
<1>7. CASE main.i < Len(conf.outs)
  <2>1. main.i + 1 \in Boards /\ main.i + 1 \in Outputs BY <1>2, <1>3, <1>7, NumbersAssumption DEF Boards
  <2>2. main' = [main EXCEPT !.pc = "stopOut", !.i = main.i + 1] BY <1>7 DEF Destroy
  <2>3. main' \in [pc : MainPcs, i : Boards, ready : BOOLEAN] /\ main'.ready = main.ready
        /\ main'.pc = "stopOut" /\ main'.i = main.i + 1
    BY <1>1, <1>6, <2>1, <2>2
  <2>4. QED BY <1>3, <1>4, <1>5, <2>1, <2>3 DEF Destroy
<1>8. CASE ~(main.i < Len(conf.outs))
  <2>1. main' = [main EXCEPT !.pc = "close"] BY <1>8 DEF Destroy
  <2>2. main.i = Len(conf.outs) BY <1>2, <1>3, <1>8, NumbersAssumption DEF Boards
  <2>3. main' \in [pc : MainPcs, i : Boards, ready : BOOLEAN] /\ main'.ready = main.ready
        /\ main'.pc = "close" /\ main'.i = main.i
    BY <1>1, <1>6, <2>1
  <2>4. QED BY <1>3, <1>4, <1>5, <2>2, <2>3 DEF Destroy
<1>9. QED BY <1>7, <1>8

\* The handler keeps every variable in its range.
LEMMA HandlerTyped == ASSUME TypeInv, Interrupt \/ StopInput \/ StopOutput \/ Destroy \/ Close PROVE TypeInv'
<1>1. /\ conf \in Configs /\ stop \in BOOLEAN /\ conf' = conf /\ stop' \in BOOLEAN
      /\ UNCHANGED <<source, sink, worker, number, cleaned, frame, control_mutex, zoomer, misuse>>
  BY DEF TypeInv, HostType, Interrupt, StopInput, StopOutput, Destroy, Close, libraryVars, controlVars
<1>2. /\ Inputs = 1 .. Len(conf.ins) /\ Len(conf.ins) \in Boards /\ Outputs = 1 .. Len(conf.outs)
      /\ Len(conf.outs) \in Boards /\ 1 \in Inputs /\ 1 \in Outputs /\ Inputs \subseteq Boards
  BY <1>1, ConfIs
<1>3. /\ main.pc \in {"openIn", "runIn", "stopIn"} => main.i \in Inputs
      /\ main.pc \in {"openOut", "runOut", "stopOut", "destroy"} => main.i \in Outputs
      /\ main \in [pc : MainPcs, i : Boards, ready : BOOLEAN]
  BY DEF TypeInv, HostType
<1>4. {"stopIn", "stopOut", "destroy", "close"} \subseteq MainPcs BY DEF MainPcs, Handling
<1>5. Board' = Board /\ Inputs' = Inputs /\ Outputs' = Outputs BY <1>1, PlayersKept
<1>6. board \in [Boards -> Board] BY DEF TypeInv, PlayersType
<1>7. cancelled \subseteq Threads /\ fault \in {"none", "no thread", "null buffer", "double free"}
  BY DEF TypeInv, RestType
<1>8. /\ HostType' /\ board' \in [Boards -> Board] /\ cancelled' \subseteq Threads
      /\ fault' \in {"none", "no thread", "null buffer", "double free"}
  <2>1. CASE Interrupt
    <3> DEFINE ready == main.pc = "pause" /\ \A k \in Inputs : source[k].pc # "none"
    <3>1. main' = [pc |-> "stopIn", i |-> 1, ready |-> ready] BY <2>1 DEF Interrupt
    <3>2. ready \in BOOLEAN OBVIOUS
    <3> HIDE DEF ready
    <3>3. HostType' BY <1>1, <1>2, <1>4, <1>5, <3>1, <3>2 DEF HostType
    <3>4. QED BY <1>5, <1>6, <1>7, <2>1, <3>3 DEF Interrupt
  <2>2. CASE StopInput
    <3>1. main.i \in Inputs /\ main.pc = "stopIn" /\ UNCHANGED board BY <1>3, <2>2 DEF StopInput
    <3>2. /\ main' \in [pc : MainPcs, i : Boards, ready : BOOLEAN]
          /\ \/ main'.pc = "stopIn" /\ main'.i \in Inputs
             \/ main'.pc = "stopOut" /\ main'.i = 1
      BY <1>2, <1>4, <2>2, <3>1, Advanced DEF StopInput
    <3>3. HostType' BY <1>1, <1>2, <1>5, <3>2 DEF HostType
    <3>4. QED BY <1>6, <2>2, <3>1, <3>3, InputTold DEF StopInput
  <2>3. CASE StopOutput
    <3>1. main.i \in Outputs /\ main' = [main EXCEPT !.pc = "destroy"] /\ UNCHANGED board
      BY <1>3, <2>3 DEF StopOutput
    <3>2. main' \in [pc : MainPcs, i : Boards, ready : BOOLEAN] /\ main'.pc = "destroy" /\ main'.i = main.i
      BY <1>3, <1>4, <3>1
    <3>3. HostType' BY <1>1, <1>5, <3>1, <3>2 DEF HostType
    <3>4. QED BY <1>6, <2>3, <3>1, <3>3, OutputTold DEF StopOutput
  <2>4. CASE Destroy
    <3>1. HostType' BY <1>1, <1>5, <2>4, DestroyIs DEF HostType
    <3>2. QED BY <1>5, <1>7, <2>4, <3>1, DestroyIs DEF Destroy
  <2>5. CASE Close
    <3>1. HostType' BY <1>1, <1>5, <2>5, Exited DEF HostType, Close
    <3>2. QED BY <1>5, <1>6, <1>7, <2>5, <3>1 DEF Close
  <2>6. QED BY <2>1, <2>2, <2>3, <2>4, <2>5
<1>9. PlayersType' BY <1>1, <1>5, <1>8, PlayersKept DEF TypeInv, PlayersType
<1>10. LibrariesType' BY <1>1, PlayersKept
<1>11. RestType' BY <1>1, <1>8 DEF TypeInv, RestType
<1>12. QED BY <1>8, <1>9, <1>10, <1>11 DEF TypeInv

\* Nothing changes, or only what input_cmd of input_ptp2 locks.
LEMMA ZoomTyped == ASSUME TypeInv, Zoom \/ UNCHANGED vars PROVE TypeInv'
<1>1. /\ UNCHANGED <<conf, main, stop, board, source, sink, worker, number, cleaned, frame, cancelled, misuse, fault>>
      /\ control_mutex' \in Threads \cup {Zoomer} /\ zoomer' \in {"idle", "zooms"}
  BY DEF Zoom, ZoomLock, ZoomUnlock, vars, hostVars, libraryVars, controlVars, TypeInv, RestType, Threads
<1>2. HostType' BY <1>1 DEF TypeInv, HostType, Inputs, Outputs
<1>3. PlayersType' /\ LibrariesType' BY <1>1, PlayersKept
<1>4. RestType' BY <1>1 DEF TypeInv, RestType
<1>5. QED BY <1>2, <1>3, <1>4 DEF TypeInv

\* Every step keeps every variable in its range.
LEMMA TypeKept == TypeInv /\ [Next]_vars => TypeInv'
BY OpenTyped, RunTyped, HandlerTyped, ZoomTyped, SourceTyped, SinkTyped DEF Next, MainStep

\* Every variable stays in its range, for any command line.
THEOREM TypeCorrect == Spec => []TypeOK
<1>1. TypeInv => TypeOK
  <2> SUFFICES ASSUME TypeInv PROVE TypeOK OBVIOUS
  <2> USE DEF TypeInv
  <2>1. conf \in Configs /\ stop \in BOOLEAN /\ main \in [pc : MainPcs, i : Boards, ready : BOOLEAN]
    BY DEF HostType
  <2>2. board \in [Boards -> Board] /\ source \in [Inputs -> Sources] BY DEF PlayersType
  <2>3. ASSUME NEW o \in Outputs
        PROVE  /\ sink[o].pc \in SinkPcs /\ sink[o].named \in BOOLEAN /\ sink[o].from \in 0 .. conf.pics
               /\ sink[o].sent \in Seq(Copies)
    BY DEF PlayersType, Sinks
  <2>4. \A kind \in OutputKinds : frame[kind].pos \in Slots(kind) BY FrameIs DEF LibrariesType
  <2>5. QED
    BY <2>1, <2>2, <2>3, <2>4
    DEF TypeOK, LibrariesType, RestType, MainPcs, Sources, SourcePcs, SinkPcs, Copies, Kinds
<1>2. QED BY <1>1, TypeStart, TypeKept, PTL DEF Spec

-----------------------------------------------------------------------------
(* Starting and stopping in order.                                         *)

\* The command line does not change.
LEMMA ConfKept ==
  ASSUME conf' = conf
  PROVE  /\ Inputs' = Inputs /\ Outputs' = Outputs
         /\ Sound' = Sound /\ InOrder' = InOrder /\ OnePtp' = OnePtp
         /\ \A k \in Inputs : InKind(k)' = InKind(k)
         /\ \A o \in Outputs : OutKind(o)' = OutKind(o) /\ Alone(o)' = Alone(o)
<1>1. Inputs' = Inputs /\ Outputs' = Outputs BY DEF Inputs, Outputs
<1>2. \A k : InKind(k)' = InKind(k) BY DEF InKind
<1>3. \A o : OutKind(o)' = OutKind(o) BY DEF OutKind
<1>4. \A o : Alone(o)' = Alone(o) BY <1>1, <1>3 DEF Alone
<1>5. Sound' = Sound BY <1>1, <1>2, <1>4 DEF Sound
<1>6. InOrder' = InOrder /\ OnePtp' = OnePtp BY <1>1, <1>2 DEF InOrder, OnePtp
<1>7. QED BY <1>1, <1>2, <1>3, <1>4, <1>5, <1>6

\* When every library is loaded once, a thread serves its own board.
LEMMA ServesOwn ==
  ASSUME TypeInv, Owned, Sound, NEW k \in Inputs, source[k].pc # "none"
  PROVE  Serves(k) = k
<1>1. InKind(k) \in {"file", "ptp2", "opencv", "testpicture"} BY ServesBoard DEF InputKinds
<1>2. CASE InKind(k) = "file" BY <1>2 DEF Serves, Owned
<1>3. CASE InKind(k) = "ptp2" BY <1>3 DEF Serves, Owned
<1>4. CASE InKind(k) = "opencv" BY <1>4 DEF Serves
<1>5. CASE InKind(k) = "testpicture" BY <1>5 DEF Serves, Owned, Sound
<1>6. QED BY <1>1, <1>2, <1>3, <1>4, <1>5

\* What an input does.
LEMMA SourceTidy ==
  ASSUME TidyInv, NEW k \in Inputs, SourceStep(k)
  PROVE  Started' /\ OutputsNumbered' /\ Owned' /\ Told' /\ Destroyed' /\ TidyShutdown'
<1>1. TypeInv /\ Started /\ OutputsNumbered /\ Owned /\ Told /\ Destroyed /\ TidyShutdown BY DEF TidyInv
<1>2. /\ Ran(k) /\ fault = "none" /\ main.pc # "exit"
      /\ UNCHANGED <<conf, main, stop, worker, number, frame, zoomer, cancelled>>
      /\ misuse' = misuse \/ (misuse' = misuse \cup {Source(k)} /\ board[Serves(k)].destroyed)
  BY <1>1, SourceRan
<1>3. /\ Inputs' = Inputs /\ Outputs' = Outputs /\ Sound' = Sound /\ InOrder' = InOrder
      /\ \A l \in Inputs : InKind(l)' = InKind(l)
      /\ \A o \in Outputs : OutKind(o)' = OutKind(o) /\ Alone(o)' = Alone(o)
  BY <1>2, ConfKept
<1>4. /\ \A o \in Outputs : sink'[o].pc = "none" <=> sink[o].pc = "none"
      /\ \A l \in Inputs : source'[l].pc = "none" <=> source[l].pc = "none"
      /\ source[k].pc \notin {"none", "ended"} /\ \A l \in Inputs \ {k} : source'[l] = source[l]
  BY <1>2 DEF Ran, SinkMoves, SourceMoves
<1>5. \A b \in Boards : board'[b].destroyed = board[b].destroyed BY <1>2 DEF Ran, BoardMoves
<1>6. Serves(k) \in Boards /\ Inputs \subseteq Boards /\ Outputs \subseteq Boards
  BY <1>1, ServesBoard, ConfIs DEF TypeInv, HostType
<1>7. board[Serves(k)].destroyed => main.pc \in {"stopOut", "destroy", "close"} BY <1>1, <1>2, <1>6 DEF Destroyed
<1>8. Stopping' = Stopping BY <1>2 DEF Stopping
<1>9. Started'
  BY <1>1, <1>2, <1>3, <1>4, <1>7, <1>8 DEF Started, Stopping, Handling
<1>10. OutputsNumbered'
  BY <1>1, <1>2, <1>3, <1>4 DEF OutputsNumbered, OpenedOut, ReadBy, OutKind
<1>11. Owned'
  <2> SUFFICES ASSUME Sound PROVE Owned' BY <1>3 DEF Owned
  <2>1. Serves(k) = k BY <1>1, <1>4, ServesOwn
  <2>2. ASSUME NEW l \in Inputs, source[l].pc # "none", InKind(l) = "testpicture" PROVE board'[l].buf # "null"
    <3>1. board[l].buf # "null" BY <1>1, <2>2 DEF Owned
    <3>2. board'[l].buf = "null" /\ board'[l].buf # board[l].buf => l = k /\ InKind(k) = "file"
      BY <1>2, <1>6, <2>1 DEF Ran, BoardMoves
    <3>3. QED BY <2>2, <3>1, <3>2
  <2>3. ASSUME NEW l \in Inputs, board'[l].buf = "freed" PROVE source'[l].pc = "ended"
    <3>1. CASE board'[l].buf = board[l].buf BY <1>1, <1>4, <2>3, <3>1 DEF Owned
    <3>2. CASE board'[l].buf # board[l].buf BY <1>2, <1>6, <2>1, <2>3, <3>2 DEF Ran, BoardMoves
    <3>3. QED BY <3>1, <3>2
  <2>4. \A l \in Inputs : Opened(l)' = Opened(l) BY <1>2 DEF Opened
  <2>5. QED BY <1>1, <1>2, <1>3, <1>4, <2>2, <2>3, <2>4 DEF Owned
<1>12. Orderly' = Orderly BY <1>2, <1>3 DEF Orderly
<1>13. Told' BY <1>1, <1>2, <1>3, <1>4, <1>12 DEF Told, ReadBy, OutKind
<1>14. Destroyed' BY <1>1, <1>2, <1>3, <1>5 DEF Destroyed
<1>15. TidyShutdown'
  <2> SUFFICES ASSUME Orderly PROVE fault' = "none" /\ misuse' \subseteq cancelled' BY <1>12 DEF TidyShutdown
  <2>1. Sound BY DEF Orderly
  <2>2. Serves(k) = k BY <1>1, <1>4, <2>1, ServesOwn
  <2>3. fault' = "none"
    <3>1. InKind(k) = "testpicture" => board[number["testpicture"]].buf # "null"
      BY <1>1, <1>4, <2>1 DEF Owned, Sound
    <3>2. board[Serves(k)].buf # "freed" BY <1>1, <1>4, <2>1, <2>2 DEF Owned
    <3>3. QED BY <1>2, <3>1, <3>2 DEF Ran, FaultMoves
  <2>4. board[Serves(k)].destroyed => Source(k) \in cancelled BY <1>1, <1>7 DEF Told
  <2>5. QED BY <1>1, <1>2, <2>3, <2>4 DEF TidyShutdown
<1>16. QED BY <1>9, <1>10, <1>11, <1>13, <1>14, <1>15

\* What an output does.
LEMMA SinkTidy ==
  ASSUME TidyInv, NEW o \in Outputs, SinkStep(o) \/ SinkAsked(o)
  PROVE  Started' /\ OutputsNumbered' /\ Owned' /\ Told' /\ Destroyed' /\ TidyShutdown'
<1>1. TypeInv /\ Started /\ OutputsNumbered /\ Owned /\ Told /\ Destroyed /\ TidyShutdown BY DEF TidyInv
<1>2. /\ Took(o) /\ fault = "none" /\ main.pc # "exit"
      /\ UNCHANGED <<conf, main, stop, source, worker, number, cancelled, fault>>
      /\ misuse' = misuse \/ (misuse' = misuse \cup {Sink(o)} /\ board[ReadBy(o)].destroyed)
  BY <1>1, SinkTook
<1>3. /\ Inputs' = Inputs /\ Outputs' = Outputs /\ Sound' = Sound /\ InOrder' = InOrder
      /\ \A l \in Inputs : InKind(l)' = InKind(l)
      /\ \A p \in Outputs : OutKind(p)' = OutKind(p) /\ Alone(p)' = Alone(p)
  BY <1>2, ConfKept
<1>4. \A p \in Outputs : sink'[p].pc = "none" <=> sink[p].pc = "none" BY <1>2 DEF Took
<1>5. \A b \in Boards : board'[b].destroyed = board[b].destroyed /\ board'[b].buf = board[b].buf
  BY <1>2 DEF Took, SameBoard
<1>6. ReadBy(o) \in Boards /\ Inputs \subseteq Boards BY <1>1, SinkIs, ConfIs DEF TypeInv, HostType
<1>7. board[ReadBy(o)].destroyed =>
        /\ main.pc \in {"stopOut", "destroy", "close"}
        /\ main.pc \in {"stopOut", "destroy"} => ReadBy(o) < main.i
  BY <1>1, <1>2, <1>6 DEF Destroyed
<1>8. sink[o].pc # "none" BY <1>2 DEF Took
<1>9. Started' BY <1>1, <1>2, <1>3, <1>4, <1>7 DEF Started, Stopping, Handling
<1>10. OutputsNumbered'
  BY <1>1, <1>2, <1>3, <1>4 DEF OutputsNumbered, OpenedOut, ReadBy, OutKind
<1>11. Owned'
  <2>1. \A l \in Inputs : Opened(l)' = Opened(l) BY <1>2 DEF Opened
  <2>2. QED BY <1>1, <1>2, <1>3, <1>4, <1>5, <1>6, <2>1 DEF Owned
<1>12. Orderly' = Orderly BY <1>2, <1>3 DEF Orderly
<1>13. Told' BY <1>1, <1>2, <1>3, <1>12 DEF Told, ReadBy, OutKind
<1>14. Destroyed' BY <1>1, <1>2, <1>3, <1>5 DEF Destroyed
<1>15. TidyShutdown'
  <2> SUFFICES ASSUME Orderly PROVE fault' = "none" /\ misuse' \subseteq cancelled' BY <1>12 DEF TidyShutdown
  <2>1. ReadBy(o) = conf.outs[o].input /\ conf.outs[o].input >= o BY <1>1 DEF Told, Orderly, InOrder
  <2>2. o \in Nat /\ ReadBy(o) \in Nat /\ main.i \in Nat
    BY <1>1, SinkIs, NumbersAssumption DEF Boards, TypeInv, HostType
  <2>3. ReadBy(o) < main.i => o < main.i BY <2>1, <2>2
  <2>4. o < main.i => o <= main.i BY <2>2
  <2>5. board[ReadBy(o)].destroyed => Sink(o) \in cancelled BY <1>1, <1>7, <2>3, <2>4 DEF Told
  <2>6. QED BY <1>1, <1>2, <2>5 DEF TidyShutdown
<1>16. QED BY <1>9, <1>10, <1>11, <1>13, <1>14, <1>15

\* Opening an input: only input_file and input_ptp2 remember anything.
LEMMA OpenInputTidy ==
  ASSUME TidyInv, OpenInput
  PROVE  Started' /\ OutputsNumbered' /\ Owned' /\ Told' /\ Destroyed' /\ TidyShutdown'
<1>1. TypeInv /\ Started /\ OutputsNumbered /\ Owned /\ Told /\ Destroyed /\ TidyShutdown BY DEF TidyInv
<1>2. /\ main.pc = "openIn"
      /\ UNCHANGED <<conf, stop, board, source, sink, worker, cleaned, frame, zoomer, cancelled, misuse, fault>>
  BY DEF OpenInput
<1>3. /\ Inputs' = Inputs /\ Outputs' = Outputs /\ Sound' = Sound /\ InOrder' = InOrder
      /\ \A l \in Inputs : InKind(l)' = InKind(l)
      /\ \A p \in Outputs : OutKind(p)' = OutKind(p) /\ Alone(p)' = Alone(p)
  BY <1>2, ConfKept
<1>4. /\ main.i \in Inputs /\ Inputs = 1 .. Len(conf.ins) /\ Len(conf.ins) \in Boards
      /\ Outputs = 1 .. Len(conf.outs) /\ Len(conf.outs) \in Nat /\ Len(conf.ins) \in Nat
      /\ Inputs \subseteq Boards /\ number \in [Kinds -> Boards]
      /\ \A p \in Outputs : OutKind(p) \in OutputKinds
  BY <1>1, <1>2, ConfIs, NumbersAssumption DEF TypeInv, HostType, LibrariesType, Boards
<1>5. /\ main'.ready = main.ready
      /\ \/ /\ main'.pc = "openIn" /\ main'.i = main.i + 1 /\ InputInit(main.i)
         \/ /\ main'.pc = "openOut" /\ main'.i = 1 /\ main.i = Len(conf.ins) /\ InputInit(main.i)
         \/ main'.pc = "exit" /\ number' = number
  <2>1. "openOut" \in MainPcs BY DEF MainPcs, Starting
  <2>2. CASE Advance(Len(conf.ins), "openOut") /\ InputInit(main.i) BY <1>1, <1>2, <1>4, <2>1, <2>2, Advanced
  <2>3. CASE Exit /\ UNCHANGED <<number, control_mutex>> BY <1>1, <2>3, Exited
  <2>4. QED BY <2>2, <2>3 DEF OpenInput
<1>6. ~main.ready /\ ~stop /\ cancelled = {} /\ misuse = {} BY <1>1, <1>2 DEF Started, Stopping, Handling
<1>7. Started' BY <1>1, <1>2, <1>3, <1>5, <1>6 DEF Started
<1>8. \A l \in Kinds \ {"file"} : number'[l] = number[l]
  BY <1>4, <1>5 DEF InputInit, FileInit, TestpictureInit, OpencvInit, PtpInit
<1>9. \A o \in Outputs : sink'[o].pc = "none" BY <1>1, <1>2 DEF Started
<1>10. OutputsNumbered'
  <2>1. \A o \in Outputs : ~OpenedOut(o)' BY <1>4, <1>5 DEF OpenedOut
  <2>2. QED BY <1>3, <1>9, <2>1 DEF OutputsNumbered
<1>11. Owned'
  <2> SUFFICES ASSUME Sound PROVE Owned' BY <1>3 DEF Owned
  <2>1. number'["testpicture"] = 1 BY <1>1, <1>8 DEF Owned, Kinds, InputKinds
  <2>2. ASSUME NEW k \in Inputs, InKind(k) = "file", Opened(k)' PROVE number'["file"] = k
    <3>1. /\ main'.pc = "openIn" => main'.i = main.i + 1
          /\ main'.pc = "openOut" => main'.i = 1 /\ main.i = Len(conf.ins)
          /\ main'.pc \in {"openIn", "openOut"} /\ InputInit(main.i)
      BY <1>5, <2>2 DEF Opened
    <3>2. k \in Nat /\ main.i \in Nat /\ k <= Len(conf.ins) BY <1>4
    <3>3. k <= main.i BY <3>1, <3>2, <2>2, <1>4 DEF Opened
    <3>4. "file" \in Kinds BY DEF Kinds, InputKinds
    <3>5. CASE k = main.i
      BY <1>4, <2>2, <3>1, <3>4, <3>5 DEF InputInit, FileInit, TestpictureInit, OpencvInit, PtpInit
    <3>6. CASE k < main.i
      <4>1. Opened(k) BY <1>2, <3>6 DEF Opened
      <4>2. number["file"] = k BY <1>1, <2>2, <4>1 DEF Owned
      <4>3. InKind(main.i) # "file" BY <1>4, <2>2, <3>2, <3>6 DEF Sound
      <4>4. number' = number
        BY <3>1, <4>3 DEF InputInit, FileInit, TestpictureInit, OpencvInit, PtpInit
      <4>5. QED BY <4>2, <4>4
    <3>7. QED BY <3>2, <3>3, <3>5, <3>6
  <2>3. \A k \in Inputs : source'[k].pc = "none" BY <1>1, <1>2 DEF Started
  <2>4. main'.pc \notin {"runOut", "pause"} BY <1>5
  <2>5. \A k \in Inputs : board'[k].buf # "freed" BY <1>1, <1>2, <2>3 DEF Owned
  <2>6. QED BY <1>3, <1>9, <2>1, <2>2, <2>3, <2>4, <2>5 DEF Owned
<1>12. Orderly' => FALSE BY <1>5, <1>6 DEF Orderly
<1>13. Destroyed' BY <1>1, <1>2, <1>3 DEF Destroyed
<1>14. QED BY <1>7, <1>10, <1>11, <1>12, <1>13 DEF Told, TidyShutdown

\* Opening an output: the library remembers the number of the input.
LEMMA OpenOutputTidy ==
  ASSUME TidyInv, OpenOutput
  PROVE  Started' /\ OutputsNumbered' /\ Owned' /\ Told' /\ Destroyed' /\ TidyShutdown'
<1>1. TypeInv /\ Started /\ OutputsNumbered /\ Owned /\ Told /\ Destroyed /\ TidyShutdown BY DEF TidyInv
<1>2. /\ main.pc = "openOut"
      /\ UNCHANGED <<conf, stop, board, source, sink, worker, cleaned, frame, zoomer, cancelled, misuse, fault>>
  BY DEF OpenOutput, controlVars
<1>3. /\ Inputs' = Inputs /\ Outputs' = Outputs /\ Sound' = Sound /\ InOrder' = InOrder
      /\ \A l \in Inputs : InKind(l)' = InKind(l)
      /\ \A p \in Outputs : OutKind(p)' = OutKind(p) /\ Alone(p)' = Alone(p)
  BY <1>2, ConfKept
<1>4. /\ main.i \in Outputs /\ Outputs = 1 .. Len(conf.outs) /\ Len(conf.outs) \in Boards
      /\ Len(conf.outs) \in Nat /\ Inputs \subseteq Boards /\ number \in [Kinds -> Boards]
      /\ \A p \in Outputs : OutKind(p) \in OutputKinds
  BY <1>1, <1>2, ConfIs, NumbersAssumption DEF TypeInv, HostType, LibrariesType, Boards
<1>5. /\ main'.ready = main.ready
      /\ \/ /\ main'.pc = "openOut" /\ main'.i = main.i + 1 /\ OutputInit(main.i)
         \/ /\ main'.pc = "runIn" /\ main'.i = 1 /\ main.i = Len(conf.outs) /\ OutputInit(main.i)
         \/ main'.pc = "exit" /\ number' = number
  <2>1. "runIn" \in MainPcs BY DEF MainPcs, Starting
  <2>2. CASE Advance(Len(conf.outs), "runIn") /\ OutputInit(main.i) BY <1>1, <1>2, <1>4, <2>1, <2>2, Advanced
  <2>3. CASE Exit /\ UNCHANGED number BY <1>1, <2>3, Exited
  <2>4. QED BY <2>2, <2>3 DEF OpenOutput
<1>6. ~main.ready /\ ~stop /\ cancelled = {} /\ misuse = {} BY <1>1, <1>2 DEF Started, Stopping, Handling
<1>7. Started' BY <1>1, <1>2, <1>3, <1>5, <1>6 DEF Started
<1>8. \A o \in Outputs : sink'[o].pc = "none" BY <1>1, <1>2 DEF Started
<1>9. OutputsNumbered'
  <2> SUFFICES ASSUME NEW o \in Outputs, Alone(o), OpenedOut(o)' PROVE number'[OutKind(o)] = conf.outs[o].input
    BY <1>2, <1>3, <1>8 DEF OutputsNumbered, ReadBy, OutKind
  <2>1. /\ main'.pc = "openOut" => main'.i = main.i + 1
        /\ main'.pc = "runIn" => main'.i = 1 /\ main.i = Len(conf.outs)
        /\ main'.pc \in {"openOut", "runIn"} /\ OutputInit(main.i)
    BY <1>5 DEF OpenedOut
  <2>2. o \in Nat /\ main.i \in Nat /\ o <= Len(conf.outs) BY <1>4
  <2>3. o <= main.i BY <2>1, <2>2, <1>4 DEF OpenedOut
  <2>4. number' = [number EXCEPT ![OutKind(main.i)] = conf.outs[main.i].input] BY <2>1 DEF OutputInit
  <2>5. OutKind(o) \in Kinds /\ OutKind(main.i) \in Kinds BY <1>4 DEF Kinds
  <2>6. CASE o = main.i BY <1>4, <2>4, <2>5, <2>6
  <2>7. CASE o < main.i
    <3>1. number[OutKind(o)] = conf.outs[o].input BY <1>1, <1>2, <2>7 DEF OutputsNumbered, OpenedOut, ReadBy
    <3>2. OutKind(main.i) # OutKind(o) BY <1>4, <2>2, <2>7 DEF Alone
    <3>3. QED BY <1>4, <2>4, <2>5, <3>1, <3>2
  <2>8. QED BY <2>2, <2>3, <2>6, <2>7
<1>10. \A l \in InputKinds : number'[l] = number[l]
  <2>1. \A l \in InputKinds : l \in Kinds /\ l \notin OutputKinds BY DEF Kinds, InputKinds, OutputKinds
  <2>2. QED BY <1>4, <1>5, <2>1 DEF OutputInit
<1>11. Owned'
  <2>1. \A k \in Inputs : Opened(k)' => Opened(k) BY <1>2 DEF Opened
  <2>2. "file" \in InputKinds /\ "ptp2" \in InputKinds /\ "testpicture" \in InputKinds BY DEF InputKinds
  <2>3. main'.pc \notin {"runOut", "pause"} BY <1>5
  <2>4. QED BY <1>1, <1>2, <1>3, <1>8, <1>10, <2>1, <2>2, <2>3 DEF Owned
<1>12. Orderly' => FALSE BY <1>5, <1>6 DEF Orderly
<1>13. Destroyed' BY <1>1, <1>2, <1>3 DEF Destroyed
<1>14. QED BY <1>7, <1>9, <1>11, <1>12, <1>13 DEF Told, TidyShutdown

\* Starting an input.
LEMMA RunInputTidy ==
  ASSUME TidyInv, RunInput
  PROVE  Started' /\ OutputsNumbered' /\ Owned' /\ Told' /\ Destroyed' /\ TidyShutdown'
<1>1. TypeInv /\ Started /\ OutputsNumbered /\ Owned /\ Told /\ Destroyed /\ TidyShutdown BY DEF TidyInv
<1>2. /\ main.pc = "runIn"
      /\ UNCHANGED <<conf, stop, sink, cleaned, frame, control_mutex, zoomer, cancelled, misuse, fault>>
  BY DEF RunInput, controlVars
<1>3. /\ Inputs' = Inputs /\ Outputs' = Outputs /\ Sound' = Sound /\ InOrder' = InOrder
      /\ \A l \in Inputs : InKind(l)' = InKind(l)
      /\ \A p \in Outputs : OutKind(p)' = OutKind(p) /\ Alone(p)' = Alone(p)
  BY <1>2, ConfKept
<1>4. /\ main.i \in Inputs /\ Inputs = 1 .. Len(conf.ins) /\ Len(conf.ins) \in Boards
      /\ Len(conf.ins) \in Nat /\ Inputs \subseteq Boards
      /\ Outputs = 1 .. Len(conf.outs) /\ Len(conf.outs) \in Nat
      /\ \A p \in Outputs : OutKind(p) \in OutputKinds
      /\ \A l \in Inputs : InKind(l) \in InputKinds
  BY <1>1, <1>2, ConfIs, NumbersAssumption DEF TypeInv, HostType, Boards
<1>5. /\ main'.ready = main.ready
      /\ \/ /\ Launched(main.i)
            /\ \/ main'.pc = "runIn" /\ main'.i = main.i + 1
               \/ main'.pc = "runOut" /\ main'.i = 1
         \/ main'.pc = "exit" /\ UNCHANGED <<board, source, worker, number>>
  <2>1. "runOut" \in MainPcs BY DEF MainPcs, Starting
  <2>2. CASE Advance(Len(conf.ins), "runOut") /\ InputRun(main.i) BY <1>1, <1>2, <1>4, <2>1, <2>2, Advanced, InputRan
  <2>3. CASE Exit /\ UNCHANGED <<board, source, worker, number>> BY <1>1, <2>3, Exited
  <2>4. QED BY <2>2, <2>3 DEF RunInput
<1>6. ~main.ready /\ ~stop /\ cancelled = {} /\ misuse = {} BY <1>1, <1>2 DEF Started, Stopping, Handling
<1>7. source[main.i].pc = "none" /\ \A o \in Outputs : sink[o].pc = "none"
  <2>1. main.i >= main.i BY <1>4
  <2>2. QED BY <1>1, <1>2, <1>4, <2>1 DEF Started
<1>8. Orderly' => FALSE BY <1>5, <1>6 DEF Orderly
<1>9. CASE main'.pc = "exit" /\ UNCHANGED <<board, source, worker, number>>
  <2>1. Started' BY <1>2, <1>3, <1>6, <1>7, <1>9 DEF Started, Stopping
  <2>2. OutputsNumbered' BY <1>1, <1>2, <1>3, <1>7, <1>9 DEF OutputsNumbered, OpenedOut
  <2>3. Owned'
    <3>1. \A k \in Inputs : Opened(k)' => Opened(k) BY <1>9 DEF Opened
    <3>2. QED BY <1>1, <1>2, <1>3, <1>7, <1>9, <3>1 DEF Owned
  <2>4. Destroyed' BY <1>1, <1>2, <1>3, <1>9 DEF Destroyed
  <2>5. QED BY <1>8, <2>1, <2>2, <2>3, <2>4 DEF Told, TidyShutdown
<1>10. ASSUME Launched(main.i),
              \/ main'.pc = "runIn" /\ main'.i = main.i + 1
              \/ main'.pc = "runOut" /\ main'.i = 1
       PROVE  Started' /\ OutputsNumbered' /\ Owned' /\ Destroyed'
  <2> DEFINE j == main.i
  <2>1. \A k \in Inputs \ {j} : source'[k] = source[k] /\ board'[k] = board[k] BY <1>4, <1>10 DEF Launched
  <2>2. Started'
    <3>1. ASSUME NEW k \in Inputs, main'.pc = "runIn", k >= main'.i PROVE source'[k].pc = "none"
      <4>1. k >= j + 1 BY <1>10, <3>1
      <4>2. k # j /\ k >= j BY <1>4, <4>1
      <4>3. QED BY <1>1, <1>2, <2>1, <4>2 DEF Started
    <3>2. QED BY <1>2, <1>3, <1>5, <1>6, <1>7, <1>10, <3>1 DEF Started
  <2>3. \A l \in Kinds \ {"ptp2"} : number'[l] = number[l] BY <1>10 DEF Launched
  <2>4. OutputsNumbered'
    <3>1. ASSUME NEW o \in Outputs, Alone(o) PROVE number'[OutKind(o)] = conf.outs[o].input
      <4>1. OutKind(o) \in Kinds /\ OutKind(o) # "ptp2" BY <1>4 DEF Kinds, OutputKinds
      <4>2. number[OutKind(o)] = conf.outs[o].input BY <1>1, <1>2, <3>1 DEF OutputsNumbered, OpenedOut, ReadBy
      <4>3. QED BY <2>3, <4>1, <4>2
    <3>2. QED BY <1>2, <1>3, <3>1 DEF OutputsNumbered, ReadBy, OutKind
  <2>5. Owned'
    <3> SUFFICES ASSUME Sound PROVE Owned' BY <1>3 DEF Owned
    <3>1. number'["testpicture"] = 1 /\ "file" \in Kinds
      BY <1>1, <2>3 DEF Owned, Kinds, InputKinds
    <3>2. \A k \in Inputs : InKind(k) = "file" => number'["file"] = k
      <4>1. \A k \in Inputs : Opened(k) BY <1>2 DEF Opened
      <4>2. QED BY <1>1, <2>3, <3>1, <4>1 DEF Owned
    <3>3. ASSUME NEW k \in Inputs, source'[k].pc # "none"
          PROVE  /\ InKind(k) = "ptp2" => number'["ptp2"] = k
                 /\ InKind(k) # "opencv" => worker'[InKind(k)] = k
                 /\ InKind(k) = "testpicture" => board'[k].buf # "null"
      <4>1. CASE k = j BY <1>7, <1>10, <3>3, <4>1 DEF Launched
      <4>2. CASE k # j
        <5>1. InKind(k) = InKind(j) => InKind(k) = "opencv" BY <1>4, <4>2 DEF Sound
        <5>2. source[k].pc # "none" /\ board'[k] = board[k] BY <2>1, <3>3, <4>2
        <5>3. InKind(k) \in Kinds BY <1>4 DEF Kinds
        <5>4. InKind(k) # "opencv" => worker'[InKind(k)] = worker[InKind(k)] BY <1>10, <5>1, <5>3 DEF Launched
        <5>5. InKind(k) = "ptp2" => number'["ptp2"] = number["ptp2"] BY <1>10, <5>1 DEF Launched
        <5>6. QED BY <1>1, <5>2, <5>4, <5>5 DEF Owned
      <4>3. QED BY <4>1, <4>2
    <3>4. ASSUME NEW k \in Inputs, board'[k].buf = "freed" PROVE source'[k].pc = "ended"
      <4>1. k # j
        <5>1. board[j].buf # "freed" BY <1>1, <1>4, <1>7 DEF Owned
        <5>2. InKind(j) \in {"file", "ptp2", "opencv", "testpicture"} BY <1>4 DEF InputKinds
        <5>3. board'[j].buf # "freed" BY <1>10, <5>1, <5>2 DEF Launched
        <5>4. QED BY <3>4, <5>3
      <4>2. QED BY <1>1, <2>1, <3>4, <4>1 DEF Owned
    <3>5. \A o \in Outputs : ~(main'.pc = "runOut" /\ o < main'.i) /\ main'.pc # "pause" BY <1>4, <1>10
    <3>6. QED BY <1>2, <1>3, <1>7, <3>1, <3>2, <3>3, <3>4, <3>5 DEF Owned
  <2>6. \A b \in Boards : board'[b].destroyed = board[b].destroyed BY <1>4, <1>10 DEF Launched
  <2>7. Destroyed' BY <1>1, <1>2, <1>3, <2>6 DEF Destroyed
  <2>8. QED BY <2>2, <2>4, <2>5, <2>7
<1>11. QED BY <1>5, <1>8, <1>9, <1>10 DEF Told, TidyShutdown

\* Starting an output.
LEMMA RunOutputTidy ==
  ASSUME TidyInv, RunOutput
  PROVE  Started' /\ OutputsNumbered' /\ Owned' /\ Told' /\ Destroyed' /\ TidyShutdown'
<1>1. TypeInv /\ Started /\ OutputsNumbered /\ Owned /\ Told /\ Destroyed /\ TidyShutdown BY DEF TidyInv
<1>2. /\ main.pc = "runOut" /\ OutputRun(main.i)
      /\ UNCHANGED <<conf, stop, board, source, number, cleaned, frame, control_mutex, zoomer, cancelled, misuse, fault>>
  BY DEF RunOutput, controlVars
<1>3. /\ Inputs' = Inputs /\ Outputs' = Outputs /\ Sound' = Sound /\ InOrder' = InOrder
      /\ \A l \in Inputs : InKind(l)' = InKind(l)
      /\ \A p \in Outputs : OutKind(p)' = OutKind(p) /\ Alone(p)' = Alone(p)
  BY <1>2, ConfKept
<1>4. /\ main.i \in Outputs /\ Outputs = 1 .. Len(conf.outs) /\ Len(conf.outs) \in Boards
      /\ Len(conf.outs) \in Nat /\ Inputs \subseteq Boards
      /\ \A p \in Outputs : OutKind(p) \in OutputKinds
      /\ \A l \in Inputs : InKind(l) \in InputKinds
  BY <1>1, <1>2, ConfIs, NumbersAssumption DEF TypeInv, HostType, Boards
<1>5. /\ main'.ready = main.ready
      /\ \/ main'.pc = "runOut" /\ main'.i = main.i + 1
         \/ main'.pc = "pause" /\ main.i = Len(conf.outs)
  <2>1. "pause" \in MainPcs BY DEF MainPcs
  <2>2. QED BY <1>1, <1>2, <1>4, <2>1, Advanced DEF RunOutput
<1>6. ~main.ready /\ ~stop /\ cancelled = {} /\ misuse = {} BY <1>1, <1>2 DEF Started, Stopping, Handling
<1>7. /\ sink'[main.i].pc # "none" /\ \A p \in Outputs \ {main.i} : sink'[p] = sink[p]
      /\ worker'[OutKind(main.i)] = main.i /\ \A l \in Kinds \ {OutKind(main.i)} : worker'[l] = worker[l]
  BY <1>1, <1>2, <1>4, OutputRan
<1>8. Orderly' => FALSE BY <1>5, <1>6 DEF Orderly
<1>9. Started'
  <2>1. ASSUME NEW o \in Outputs, main'.pc = "runOut", o >= main'.i PROVE sink'[o].pc = "none"
    <3>1. o >= main.i + 1 BY <1>5, <2>1
    <3>2. o # main.i /\ o >= main.i BY <1>4, <3>1
    <3>3. QED BY <1>1, <1>2, <1>7, <3>2 DEF Started
  <2>2. QED BY <1>2, <1>3, <1>5, <1>6, <2>1 DEF Started
<1>10. OutputsNumbered'
  <2>1. \A o \in Outputs : OpenedOut(o) BY <1>2 DEF OpenedOut
  <2>2. QED BY <1>1, <1>2, <1>3, <2>1 DEF OutputsNumbered, ReadBy, OutKind
<1>11. Owned'
  <2> SUFFICES ASSUME Sound PROVE Owned' BY <1>3 DEF Owned
  <2>1. \A k \in Inputs : Opened(k) BY <1>2 DEF Opened
  <2>2. \A k \in Inputs : worker'[InKind(k)] = worker[InKind(k)]
    <3>1. \A k \in Inputs : InKind(k) \in Kinds /\ InKind(k) \notin OutputKinds
      BY <1>4 DEF Kinds, InputKinds, OutputKinds
    <3>2. QED BY <1>4, <1>7, <3>1
  <2>3. ASSUME NEW o \in Outputs, sink'[o].pc # "none" \/ (main'.pc = "runOut" /\ o < main'.i) \/ main'.pc = "pause"
        PROVE  worker'[OutKind(o)] = o
    <3>1. CASE o = main.i BY <1>7, <3>1
    <3>2. CASE o # main.i
      <4>1. OutKind(main.i) # OutKind(o) BY <1>4, <3>2 DEF Sound, Alone
      <4>2. OutKind(o) \in Kinds BY <1>4 DEF Kinds
      <4>3. worker'[OutKind(o)] = worker[OutKind(o)] BY <1>7, <4>1, <4>2
      <4>4. o \in Nat /\ main.i \in Nat /\ o <= Len(conf.outs) BY <1>4
      <4>5. sink[o].pc # "none" \/ o < main.i BY <1>5, <1>7, <2>3, <3>2, <4>4
      <4>6. QED BY <1>1, <1>2, <4>3, <4>5 DEF Owned
    <3>3. QED BY <3>1, <3>2
  <2>4. QED BY <1>1, <1>2, <1>3, <2>1, <2>2, <2>3 DEF Owned
<1>12. Destroyed' BY <1>1, <1>2, <1>3 DEF Destroyed
<1>13. QED BY <1>8, <1>9, <1>10, <1>11, <1>12 DEF Told, TidyShutdown

\* SIGINT: when main pauses, everything is numbered and known.
LEMMA InterruptTidy ==
  ASSUME TidyInv, Interrupt
  PROVE  Started' /\ OutputsNumbered' /\ Owned' /\ Told' /\ Destroyed' /\ TidyShutdown'
<1>1. TypeInv /\ Started /\ OutputsNumbered /\ Owned /\ Told /\ Destroyed /\ TidyShutdown BY DEF TidyInv
<1>2. /\ main.pc \in Starting \cup {"pause"} /\ fault = "none"
      /\ UNCHANGED <<conf, board, source, sink, worker, number, cancelled, misuse, fault>>
      /\ main'.pc = "stopIn" /\ main'.i = 1
      /\ main'.ready => main.pc = "pause" /\ \A k \in Inputs : source[k].pc # "none"
  BY DEF Interrupt, libraryVars, Running
<1>3. /\ Inputs' = Inputs /\ Outputs' = Outputs /\ Sound' = Sound /\ InOrder' = InOrder
      /\ \A l \in Inputs : InKind(l)' = InKind(l)
      /\ \A p \in Outputs : OutKind(p)' = OutKind(p) /\ Alone(p)' = Alone(p)
  BY <1>2, ConfKept
<1>4. ~Stopping BY <1>2 DEF Stopping, Starting, Handling
<1>5. cancelled = {} /\ misuse = {} BY <1>1, <1>4 DEF Started
<1>6. Started' BY <1>2 DEF Started, Stopping, Handling
<1>7. OutputsNumbered' BY <1>1, <1>2, <1>3 DEF OutputsNumbered, OpenedOut, ReadBy, OutKind
<1>8. Owned'
  <2>1. \A k \in Inputs : ~Opened(k)' BY <1>2 DEF Opened
  <2>2. QED BY <1>1, <1>2, <1>3, <2>1 DEF Owned
<1>9. Told'
  <2> SUFFICES ASSUME Orderly' PROVE Told' BY DEF Told
  <2>1. main.pc = "pause" /\ Sound BY <1>2, <1>3 DEF Orderly
  <2>2. ASSUME NEW o \in Outputs PROVE worker[OutKind(o)] = o /\ ReadBy(o) = conf.outs[o].input
    BY <1>1, <2>1 DEF Owned, OutputsNumbered, OpenedOut, Sound
  <2>3. \A k \in Inputs : ~(k < 1)
    BY <1>1, ConfIs, NumbersAssumption DEF TypeInv, HostType
  <2>4. \A k \in Inputs : source[k].pc # "none" BY <1>2 DEF Orderly
  <2>5. QED BY <1>2, <1>3, <2>2, <2>3, <2>4 DEF Told, ReadBy, OutKind
<1>10. Destroyed' BY <1>1, <1>2, <1>3 DEF Destroyed, Starting
<1>11. TidyShutdown' BY <1>2, <1>5 DEF TidyShutdown
<1>12. QED BY <1>6, <1>7, <1>8, <1>9, <1>10, <1>11

\* An input is told to stop, and there is one to tell.
LEMMA StopInputTidy ==
  ASSUME TidyInv, StopInput
  PROVE  Started' /\ OutputsNumbered' /\ Owned' /\ Told' /\ Destroyed' /\ TidyShutdown'
<1>1. TypeInv /\ Started /\ OutputsNumbered /\ Owned /\ Told /\ Destroyed /\ TidyShutdown BY DEF TidyInv
<1>2. /\ main.pc = "stopIn" /\ InputStop(main.i)
      /\ UNCHANGED <<conf, stop, board, source, sink, worker, number, misuse>>
  BY DEF StopInput, libraryVars
<1>3. /\ Inputs' = Inputs /\ Outputs' = Outputs /\ Sound' = Sound /\ InOrder' = InOrder
      /\ \A l \in Inputs : InKind(l)' = InKind(l)
      /\ \A p \in Outputs : OutKind(p)' = OutKind(p) /\ Alone(p)' = Alone(p)
  BY <1>2, ConfKept
<1>4. /\ main.i \in Inputs /\ Inputs = 1 .. Len(conf.ins) /\ Len(conf.ins) \in Boards
      /\ Len(conf.ins) \in Nat /\ Outputs = 1 .. Len(conf.outs) /\ Len(conf.outs) \in Nat
  BY <1>1, <1>2, ConfIs, NumbersAssumption DEF TypeInv, HostType, Boards
<1>5. /\ main'.ready = main.ready
      /\ \/ main'.pc = "stopIn" /\ main'.i = main.i + 1
         \/ main'.pc = "stopOut" /\ main'.i = 1 /\ main.i = Len(conf.ins)
  <2>1. "stopOut" \in MainPcs BY DEF MainPcs, Handling
  <2>2. QED BY <1>1, <1>2, <1>4, <2>1, Advanced DEF StopInput
<1>6. /\ \/ StoppedBy(main.i) = 0
         \/ cancelled' = cancelled \cup {Source(StoppedBy(main.i))} /\ UNCHANGED fault
      /\ cancelled \subseteq cancelled'
  BY <1>1, <1>2, <1>4, InputTold
<1>7. Started' BY <1>2, <1>5 DEF Started, Stopping, Handling
<1>8. OutputsNumbered' BY <1>1, <1>2, <1>3, <1>5 DEF OutputsNumbered, OpenedOut, ReadBy, OutKind
<1>9. Owned'
  <2>1. \A k \in Inputs : ~Opened(k)' BY <1>5 DEF Opened
  <2>2. QED BY <1>1, <1>2, <1>3, <1>5, <2>1 DEF Owned
<1>10. Destroyed' BY <1>1, <1>2, <1>3 DEF Destroyed
<1>11. Orderly' = Orderly BY <1>3, <1>5 DEF Orderly
<1>12. Orderly => Source(main.i) \in cancelled' /\ UNCHANGED fault
  <2> SUFFICES ASSUME Orderly PROVE Source(main.i) \in cancelled' /\ UNCHANGED fault OBVIOUS
  <2>1. source[main.i].pc # "none" BY <1>1, <1>4 DEF Told
  <2>2. InKind(main.i) # "opencv" => worker[InKind(main.i)] = main.i BY <1>1, <1>4, <2>1 DEF Owned, Orderly
  <2>3. StoppedBy(main.i) = main.i BY <2>1, <2>2 DEF StoppedBy
  <2>4. main.i # 0 BY <1>4
  <2>5. QED BY <1>6, <2>3, <2>4
<1>13. Told'
  <2> SUFFICES ASSUME Orderly PROVE Told' BY <1>11 DEF Told
  <2>1. ASSUME NEW k \in Inputs,
               main'.pc \in {"stopOut", "destroy", "close"} \/ (main'.pc = "stopIn" /\ k < main'.i)
        PROVE  Source(k) \in cancelled'
    <3>1. k \in Nat /\ main.i \in Nat /\ k <= Len(conf.ins) BY <1>4
    <3>2. k <= main.i BY <1>5, <2>1, <3>1
    <3>3. CASE k = main.i BY <1>12, <3>3
    <3>4. CASE k < main.i BY <1>1, <1>2, <1>6, <3>4 DEF Told
    <3>5. QED BY <3>1, <3>2, <3>3, <3>4
  <2>2. ASSUME NEW o \in Outputs
        PROVE  /\ ~(main'.pc = "close" \/ (main'.pc = "stopOut" /\ o < main'.i) \/ main'.pc = "destroy")
               /\ worker'[OutKind(o)] = o /\ number'[OutKind(o)] = conf.outs[o].input
    BY <1>1, <1>2, <1>4, <1>5 DEF Told, ReadBy
  <2>3. \A k \in Inputs : source'[k].pc # "none" BY <1>1, <1>2 DEF Told
  <2>4. QED BY <1>2, <1>3, <2>1, <2>2, <2>3 DEF Told, ReadBy, OutKind
<1>14. TidyShutdown' BY <1>1, <1>2, <1>6, <1>11, <1>12 DEF TidyShutdown
<1>15. QED BY <1>7, <1>8, <1>9, <1>10, <1>13, <1>14

\* An output is told to stop.
LEMMA StopOutputTidy ==
  ASSUME TidyInv, StopOutput
  PROVE  Started' /\ OutputsNumbered' /\ Owned' /\ Told' /\ Destroyed' /\ TidyShutdown'
<1>1. TypeInv /\ Started /\ OutputsNumbered /\ Owned /\ Told /\ Destroyed /\ TidyShutdown BY DEF TidyInv
<1>2. /\ main.pc = "stopOut" /\ OutputStop(main.i)
      /\ UNCHANGED <<conf, stop, board, source, sink, worker, number, misuse>>
  BY DEF StopOutput, libraryVars
<1>3. /\ Inputs' = Inputs /\ Outputs' = Outputs /\ Sound' = Sound /\ InOrder' = InOrder
      /\ \A l \in Inputs : InKind(l)' = InKind(l)
      /\ \A p \in Outputs : OutKind(p)' = OutKind(p) /\ Alone(p)' = Alone(p)
  BY <1>2, ConfKept
<1>4. main.i \in Outputs /\ Outputs = 1 .. Len(conf.outs) /\ Len(conf.outs) \in Nat
  BY <1>1, <1>2, ConfIs, NumbersAssumption DEF TypeInv, HostType, Boards
<1>5. main'.ready = main.ready /\ main'.pc = "destroy" /\ main'.i = main.i
  BY <1>1 DEF StopOutput, TypeInv, HostType
<1>6. /\ \/ worker[OutKind(main.i)] = 0
         \/ cancelled' = cancelled \cup {Sink(worker[OutKind(main.i)])} /\ UNCHANGED fault
      /\ cancelled \subseteq cancelled'
  BY <1>1, <1>2, <1>4, OutputTold
<1>7. Started' BY <1>2, <1>5 DEF Started, Stopping, Handling
<1>8. OutputsNumbered' BY <1>1, <1>2, <1>3, <1>5 DEF OutputsNumbered, OpenedOut, ReadBy, OutKind
<1>9. Owned'
  <2>1. \A k \in Inputs : ~Opened(k)' BY <1>5 DEF Opened
  <2>2. QED BY <1>1, <1>2, <1>3, <1>5, <2>1 DEF Owned
<1>10. Destroyed' BY <1>1, <1>2, <1>3, <1>5 DEF Destroyed
<1>11. Orderly' = Orderly BY <1>3, <1>5 DEF Orderly
<1>12. Orderly => Sink(main.i) \in cancelled' /\ UNCHANGED fault
  <2>1. main.i # 0 BY <1>4
  <2>2. QED BY <1>1, <1>4, <1>6, <2>1 DEF Told
<1>13. Told'
  <2> SUFFICES ASSUME Orderly PROVE Told' BY <1>11 DEF Told
  <2>1. ASSUME NEW o \in Outputs, o <= main.i PROVE Sink(o) \in cancelled'
    <3>1. o \in Nat /\ main.i \in Nat BY <1>4
    <3>2. CASE o = main.i BY <1>12, <3>2
    <3>3. CASE o < main.i BY <1>1, <1>2, <1>6, <3>3 DEF Told
    <3>4. QED BY <2>1, <3>1, <3>2, <3>3
  <2>2. \A k \in Inputs : Source(k) \in cancelled' BY <1>1, <1>2, <1>6 DEF Told
  <2>3. QED BY <1>1, <1>2, <1>3, <1>5, <2>1, <2>2 DEF Told, ReadBy, OutKind
<1>14. TidyShutdown' BY <1>1, <1>2, <1>6, <1>11, <1>12 DEF TidyShutdown
<1>15. QED BY <1>7, <1>8, <1>9, <1>10, <1>13, <1>14

\* A board is destroyed after the output of its number has been told.
LEMMA DestroyTidy ==
  ASSUME TidyInv, Destroy
  PROVE  Started' /\ OutputsNumbered' /\ Owned' /\ Told' /\ Destroyed' /\ TidyShutdown'
<1>1. TypeInv /\ Started /\ OutputsNumbered /\ Owned /\ Told /\ Destroyed /\ TidyShutdown BY DEF TidyInv
<1>2. main.pc = "destroy" /\ UNCHANGED <<conf, stop, source, sink, worker, number, cancelled, misuse, fault>>
  BY DEF Destroy, libraryVars
<1>3. /\ Inputs' = Inputs /\ Outputs' = Outputs /\ Sound' = Sound /\ InOrder' = InOrder
      /\ \A l \in Inputs : InKind(l)' = InKind(l)
      /\ \A p \in Outputs : OutKind(p)' = OutKind(p) /\ Alone(p)' = Alone(p)
  BY <1>2, ConfKept
<1>4. main.i \in Outputs /\ Outputs = 1 .. Len(conf.outs) /\ Len(conf.outs) \in Nat /\ Inputs \subseteq Boards
  BY <1>1, <1>2, ConfIs, NumbersAssumption DEF TypeInv, HostType, Boards
<1>5. /\ main'.ready = main.ready
      /\ \/ main'.pc = "stopOut" /\ main'.i = main.i + 1
         \/ main'.pc = "close" /\ main'.i = main.i /\ main.i = Len(conf.outs)
      /\ \A b \in Boards \ {main.i} : board'[b] = board[b]
      /\ \A b \in Boards : board'[b].buf = board[b].buf
  BY <1>1, DestroyIs
<1>6. Started' BY <1>2, <1>5 DEF Started, Stopping, Handling
<1>7. OutputsNumbered' BY <1>1, <1>2, <1>3, <1>5 DEF OutputsNumbered, OpenedOut, ReadBy, OutKind
<1>8. Owned'
  <2>1. \A k \in Inputs : ~Opened(k)' BY <1>5 DEF Opened
  <2>2. QED BY <1>1, <1>2, <1>3, <1>4, <1>5, <2>1 DEF Owned
<1>9. Orderly' = Orderly BY <1>3, <1>5 DEF Orderly
<1>10. Told'
  <2> SUFFICES ASSUME Orderly PROVE Told' BY <1>9 DEF Told
  <2>1. ASSUME NEW o \in Outputs, main'.pc = "close" \/ (main'.pc = "stopOut" /\ o < main'.i)
        PROVE  Sink(o) \in cancelled
    <3>1. o \in Nat /\ main.i \in Nat /\ o <= Len(conf.outs) BY <1>4
    <3>2. o <= main.i BY <1>5, <2>1, <3>1
    <3>3. QED BY <1>1, <1>2, <3>2 DEF Told
  <2>2. main'.pc # "destroy" BY <1>5
  <2>3. QED BY <1>1, <1>2, <1>3, <2>1, <2>2 DEF Told, ReadBy, OutKind
<1>11. Destroyed'
  <2> SUFFICES ASSUME NEW b \in Boards, board'[b].destroyed
               PROVE  /\ b \in Outputs /\ main'.pc \in {"stopOut", "destroy", "close", "exit"}
                      /\ main'.pc \in {"stopOut", "destroy"} => b < main'.i
    BY <1>3 DEF Destroyed
  <2>1. CASE b = main.i BY <1>4, <1>5, <2>1
  <2>2. CASE b # main.i
    <3>1. b \in Outputs /\ b < main.i BY <1>1, <1>2, <1>5, <2>2 DEF Destroyed
    <3>2. b \in Nat /\ main.i \in Nat BY <1>4, <3>1
    <3>3. QED BY <1>5, <3>1, <3>2
  <2>3. QED BY <2>1, <2>2
<1>12. TidyShutdown' BY <1>1, <1>2, <1>9 DEF TidyShutdown
<1>13. QED BY <1>6, <1>7, <1>8, <1>10, <1>11, <1>12

\* The end, a zoom, or nothing at all.
LEMMA RestTidy ==
  ASSUME TidyInv, Close \/ Zoom \/ UNCHANGED vars
  PROVE  Started' /\ OutputsNumbered' /\ Owned' /\ Told' /\ Destroyed' /\ TidyShutdown'
<1>1. TypeInv /\ Started /\ OutputsNumbered /\ Owned /\ Told /\ Destroyed /\ TidyShutdown BY DEF TidyInv
<1>2. /\ UNCHANGED <<conf, stop, board, source, sink, worker, number, cancelled, misuse, fault>>
      /\ main' = main \/ (main.pc = "close" /\ main'.pc = "exit" /\ main'.ready = main.ready)
  <2>1. CASE Close BY <1>1, <2>1, Exited DEF Close, libraryVars
  <2>2. CASE Zoom \/ UNCHANGED vars BY <2>2 DEF Zoom, vars, hostVars, libraryVars
  <2>3. QED BY <2>1, <2>2
<1>3. /\ Inputs' = Inputs /\ Outputs' = Outputs /\ Sound' = Sound /\ InOrder' = InOrder
      /\ \A l \in Inputs : InKind(l)' = InKind(l)
      /\ \A p \in Outputs : OutKind(p)' = OutKind(p) /\ Alone(p)' = Alone(p)
  BY <1>2, ConfKept
<1>4. Started' BY <1>1, <1>2, <1>3 DEF Started, Stopping, Handling
<1>5. OutputsNumbered' BY <1>1, <1>2, <1>3 DEF OutputsNumbered, OpenedOut, ReadBy, OutKind
<1>6. Owned'
  <2>1. \A k \in Inputs : Opened(k)' => Opened(k) BY <1>2 DEF Opened
  <2>2. QED BY <1>1, <1>2, <1>3, <2>1 DEF Owned
<1>7. Orderly' = Orderly BY <1>2, <1>3 DEF Orderly
<1>8. Told' BY <1>1, <1>2, <1>3, <1>7 DEF Told, ReadBy, OutKind
<1>9. Destroyed' BY <1>1, <1>2, <1>3 DEF Destroyed
<1>10. TidyShutdown' BY <1>1, <1>2, <1>7 DEF TidyShutdown
<1>11. QED BY <1>4, <1>5, <1>6, <1>8, <1>9, <1>10

\* At the start nothing runs.
LEMMA TidyStart == Init => TidyInv
<1> SUFFICES ASSUME Init PROVE TidyInv OBVIOUS
<1>1. TypeInv BY TypeStart
<1>2. /\ main.pc = "openIn" /\ main.i = 1 /\ ~main.ready /\ ~stop /\ cancelled = {} /\ misuse = {} /\ fault = "none"
      /\ \A k \in Inputs : source[k].pc = "none"
      /\ \A o \in Outputs : sink[o].pc = "none"
      /\ \A b \in Boards : ~board[b].destroyed /\ board[b].buf = "null"
      /\ \A l \in Kinds : number[l] = 1
  BY DEF Init, FreshBoard, Kinds
<1>3. Inputs \subseteq Boards /\ \A k \in Inputs : ~(k < 1)
  BY <1>1, ConfIs, NumbersAssumption DEF TypeInv, HostType
<1>4. Started BY <1>2 DEF Started
<1>5. OutputsNumbered BY <1>2 DEF OutputsNumbered, OpenedOut
<1>6. Owned
  <2>1. "testpicture" \in Kinds BY DEF Kinds, InputKinds
  <2>2. \A k \in Inputs : ~Opened(k) BY <1>2, <1>3 DEF Opened
  <2>3. QED BY <1>2, <1>3, <2>1, <2>2 DEF Owned
<1>7. ~Orderly BY <1>2 DEF Orderly
<1>8. QED BY <1>1, <1>2, <1>4, <1>5, <1>6, <1>7 DEF TidyInv, Told, Destroyed, TidyShutdown

\* Every step keeps the order.
LEMMA TidyKept == TidyInv /\ [Next]_vars => TidyInv'
<1> SUFFICES ASSUME TidyInv, [Next]_vars PROVE TidyInv' OBVIOUS
<1>1. TypeInv' BY TypeKept DEF TidyInv
<1>2. Started' /\ OutputsNumbered' /\ Owned' /\ Told' /\ Destroyed' /\ TidyShutdown'
  BY OpenInputTidy, OpenOutputTidy, RunInputTidy, RunOutputTidy, InterruptTidy, StopInputTidy, StopOutputTidy,
     DestroyTidy, RestTidy, SourceTidy, SinkTidy
  DEF Next, MainStep
<1>3. QED BY <1>1, <1>2 DEF TidyInv

\* "plugins can tidily shutdown": when every thread had been started, every
\* library is loaded once and no output reads an input with a smaller number,
\* the handler calls nothing that is not there and only threads that were told
\* to stop use a board that it destroyed, however many plugins there are.
THEOREM ShutdownIsTidy == Spec => []TidyShutdown
<1>1. TidyInv => TidyShutdown BY DEF TidyInv
<1>2. QED BY <1>1, TidyStart, TidyKept, PTL DEF Spec

-----------------------------------------------------------------------------
(* Pictures.                                                               *)

\* An output is started when all numbers are known, so that its board stays
\* the same, and an input that has ended does not come back.
LEMMA RetiredStays ==
  ASSUME TidyInv, [Next]_vars, OnePtp, NEW b, Retired(b)
  PROVE  Retired(b)'
<1>1. TypeInv /\ Started BY DEF TidyInv
<1>2. PICK k \in Inputs : source[k].pc = "ended" /\ (k = b \/ number[InKind(k)] = b) BY DEF Retired
<1>3. /\ k \in Boards /\ InKind(k) \in InputKinds /\ InKind(k) \in Kinds /\ InKind(k) \notin OutputKinds
  BY <1>1, <1>2, ServesBoard DEF Kinds, InputKinds, OutputKinds
<1>4. main.pc \notin {"openIn", "openOut"} BY <1>1, <1>2 DEF Started
<1>5. ASSUME conf' = conf, source'[k].pc = "ended", number'[InKind(k)] = number[InKind(k)] PROVE Retired(b)'
  BY <1>2, <1>5, ConfKept DEF Retired
<1>6. ASSUME conf' = conf, UNCHANGED <<source, number>> PROVE Retired(b)' BY <1>2, <1>5, <1>6
<1>7. CASE OpenInput \/ OpenOutput BY <1>4, <1>7 DEF OpenInput, OpenOutput
<1>8. CASE RunInput
  <2>1. conf' = conf BY <1>8 DEF RunInput
  <2>2. main.pc = "runIn" /\ main.i \in Inputs /\ main.i \in Nat
    BY <1>1, <1>8, ConfIs, NumbersAssumption DEF RunInput, TypeInv, HostType, Boards
  <2>3. CASE UNCHANGED <<source, number>> BY <1>6, <2>1, <2>3
  <2>4. CASE InputRun(main.i)
    <3>1. Launched(main.i) BY <1>1, <2>2, <2>4, InputRan
    <3>2. main.i >= main.i BY <2>2
    <3>3. source[main.i].pc = "none" BY <1>1, <2>2, <3>2 DEF Started
    <3>4. k # main.i BY <1>2, <3>3
    <3>5. InKind(k) = "ptp2" => InKind(main.i) # "ptp2" BY <1>2, <2>2, <3>4 DEF OnePtp
    <3>6. source'[k] = source[k] /\ number'[InKind(k)] = number[InKind(k)]
      BY <1>2, <1>3, <2>2, <3>1, <3>4, <3>5 DEF Launched
    <3>7. QED BY <1>2, <1>5, <2>1, <3>6
  <2>5. QED BY <1>8, <2>3, <2>4 DEF RunInput
<1>9. CASE RunOutput \/ StopInput \/ StopOutput \/ Destroy \/ Close \/ Interrupt
  BY <1>6, <1>9 DEF RunOutput, StopInput, StopOutput, Destroy, Close, Interrupt, libraryVars
<1>10. CASE Zoom \/ UNCHANGED vars BY <1>6, <1>10 DEF Zoom, vars, hostVars, libraryVars
<1>11. ASSUME NEW l \in Inputs, SourceStep(l) PROVE Retired(b)'
  <2>1. Ran(l) /\ UNCHANGED <<conf, number>> BY <1>1, <1>11, SourceRan
  <2>2. k # l /\ source'[k] = source[k] BY <1>2, <2>1 DEF Ran, SourceMoves
  <2>3. QED BY <1>2, <1>5, <2>1, <2>2
<1>12. ASSUME NEW o \in Outputs, SinkStep(o) \/ SinkAsked(o) PROVE Retired(b)'
  BY <1>1, <1>6, <1>12, SinkTook
<1>13. QED BY <1>7, <1>8, <1>9, <1>10, <1>11, <1>12 DEF Next, MainStep

\* Nor is an input that serves a board lost to it.
LEMMA ServedStays ==
  ASSUME TidyInv, BoardsHold, [Next]_vars, OnePtp, NEW b, Served(b)
  PROVE  Served(b)'
<1>1. TypeInv /\ Started BY DEF TidyInv
<1>2. PICK k \in Inputs : source[k].pc # "none" /\ Serves(k) = b BY DEF Served
<1>3. /\ k \in Boards /\ InKind(k) \in InputKinds /\ InKind(k) \in Kinds /\ InKind(k) \notin OutputKinds
  BY <1>1, <1>2, ServesBoard DEF Kinds, InputKinds, OutputKinds
<1>4. main.pc \notin {"openIn", "openOut"} BY <1>1, <1>2 DEF Started
<1>5. ASSUME conf' = conf, source'[k].pc # "none", number'[InKind(k)] = number[InKind(k)] PROVE Served(b)'
  <2>1. Inputs' = Inputs /\ InKind(k)' = InKind(k) BY <1>2, <1>5, ConfKept
  <2>2. Serves(k)' = Serves(k) BY <1>5, <2>1 DEF Serves
  <2>3. QED BY <1>2, <1>5, <2>1, <2>2 DEF Served
<1>6. ASSUME conf' = conf, UNCHANGED <<source, number>> PROVE Served(b)' BY <1>2, <1>5, <1>6
<1>7. CASE OpenInput \/ OpenOutput BY <1>4, <1>7 DEF OpenInput, OpenOutput
<1>8. CASE RunInput
  <2>1. conf' = conf BY <1>8 DEF RunInput
  <2>2. main.pc = "runIn" /\ main.i \in Inputs /\ main.i \in Nat
    BY <1>1, <1>8, ConfIs, NumbersAssumption DEF RunInput, TypeInv, HostType, Boards
  <2>3. CASE UNCHANGED <<source, number>> BY <1>6, <2>1, <2>3
  <2>4. CASE InputRun(main.i)
    <3>1. Launched(main.i) BY <1>1, <2>2, <2>4, InputRan
    <3>2. main.i >= main.i BY <2>2
    <3>3. source[main.i].pc = "none" BY <1>1, <2>2, <3>2 DEF Started
    <3>4. k # main.i BY <1>2, <3>3
    <3>5. InKind(k) = "ptp2" => InKind(main.i) # "ptp2" BY <1>2, <2>2, <3>4 DEF OnePtp
    <3>6. source'[k] = source[k] /\ number'[InKind(k)] = number[InKind(k)]
      BY <1>2, <1>3, <2>2, <3>1, <3>4, <3>5 DEF Launched
    <3>7. QED BY <1>2, <1>5, <2>1, <3>6
  <2>5. QED BY <1>8, <2>3, <2>4 DEF RunInput
<1>9. CASE RunOutput \/ StopInput \/ StopOutput \/ Destroy \/ Close \/ Interrupt
  BY <1>6, <1>9 DEF RunOutput, StopInput, StopOutput, Destroy, Close, Interrupt, libraryVars
<1>10. CASE Zoom \/ UNCHANGED vars BY <1>6, <1>10 DEF Zoom, vars, hostVars, libraryVars
<1>11. ASSUME NEW l \in Inputs, SourceStep(l) PROVE Served(b)'
  <2>1. Ran(l) /\ UNCHANGED <<conf, number>> BY <1>1, <1>11, SourceRan
  <2>2. source'[k].pc # "none" BY <1>2, <2>1 DEF Ran, SourceMoves
  <2>3. QED BY <1>2, <1>5, <2>1, <2>2
<1>12. ASSUME NEW o \in Outputs, SinkStep(o) \/ SinkAsked(o) PROVE Served(b)'
  BY <1>1, <1>6, <1>12, SinkTook
<1>13. QED BY <1>7, <1>8, <1>9, <1>10, <1>11, <1>12 DEF Next, MainStep

\* What an output has stays in order while it copies nothing.
LEMMA KeptStays ==
  ASSUME conf' = conf, NEW o, sink'[o].from = sink[o].from, Retired(ReadBy(o)) => Retired(ReadBy(o))'
  PROVE  /\ \A pic : Lost(o, pic) => Lost(o, pic)'
         /\ \A pic : Kept(o, pic) => Kept(o, pic)'
         /\ \A old, new : InOrderOf(o, old, new) => InOrderOf(o, old, new)'
<1>1. \A pic : Lost(o, pic) => Lost(o, pic)' BY DEF Lost
<1>2. \A old, new : Follows(old, new) => Follows(old, new)' BY DEF Follows
<1>3. QED BY <1>1, <1>2 DEF Kept, InOrderOf

\* The three parts at the start.
LEMMA WholeStart == Init => WholeInv
<1> SUFFICES ASSUME Init PROVE WholeInv OBVIOUS
<1>1. TidyInv /\ TypeInv BY TidyStart, TypeStart
<1>2. conf \in Configs BY <1>1 DEF TypeInv, HostType
<1>3. BoardsHold
  <2>1. \A b \in Boards : board[b].size = 0 /\ board[b].buf = "null" /\ board[b].pic = 0
    BY DEF Init, FreshBoard
  <2>2. \A k \in Inputs : source[k].pc = "none" /\ ~Opened(k)
    BY <1>2, ConfIs, NumbersAssumption DEF Init, Opened
  <2>3. number["testpicture"] = 1 BY DEF Init, InputKinds
  <2>4. QED BY <2>1, <2>2, <2>3 DEF BoardsHold
<1>4. WokenByNew BY DEF Init, WokenByNew
<1>5. Carried
  <2> SUFFICES ASSUME NEW o \in Outputs PROVE Room(o) /\ Chain(o) BY DEF Carried
  <2>1. OutKind(o) \in OutputKinds BY <1>2, ConfIs
  <2>2. frame[OutKind(o)] = NewFrame(OutKind(o)) BY <2>1 DEF Init
  <2>3. sink[o].pc = "none" /\ sink[o].from = 0 /\ sink[o].sent = <<>> BY DEF Init
  <2>4. 1 \in Slots(OutKind(o)) /\ 1 \in Slots("zmqserver") BY <2>1, SlotsAre, NumbersAssumption
  <2>5. Room(o)
    <3>1. 0 \in Allocations BY DEF Allocations
    <3>2. QED BY <2>2, <2>4, <3>1 DEF Room, NewFrame, Asks
  <2>6. Filling(o) = 0 BY <2>2, <2>3 DEF Filling, NewFrame
  <2>7. Chain(o)
    <3>1. 1 .. 0 = {} OBVIOUS
    <3>2. DOMAIN sink[o].sent = {} BY <2>3
    <3>3. QED BY <2>3, <2>6, <3>1, <3>2 DEF Chain
  <2>8. QED BY <2>5, <2>7
<1>6. QED BY <1>1, <1>3, <1>4, <1>5 DEF WholeInv

\* What an input does to the boards.
LEMMA SourceBoards ==
  ASSUME WholeInv, NEW k \in Inputs, SourceStep(k)
  PROVE  BoardsHold'
<1>1. TidyInv /\ TypeInv /\ Started /\ BoardsHold BY DEF WholeInv, TidyInv
<1>2. Ran(k) /\ UNCHANGED <<conf, main, number>> BY <1>1, SourceRan
<1>3. /\ Inputs' = Inputs /\ OnePtp' = OnePtp /\ \A l \in Inputs : InKind(l)' = InKind(l)
      /\ Inputs \subseteq Boards /\ Serves(k) \in Boards
  BY <1>1, <1>2, ConfKept, ConfIs, ServesBoard DEF TypeInv, HostType
<1>4. source[k].pc \notin {"none", "ended"} /\ \A l \in Inputs \ {k} : source'[l] = source[l]
  BY <1>2 DEF Ran, SourceMoves
<1>5. \A b \in Boards : board'[b].size \in conf.sizes \cup {0} BY <1>1, <1>2 DEF Ran, BoardMoves, BoardsHold
<1>6. ASSUME OnePtp, NEW l \in Inputs, InKind(l) = "file", Opened(l)' \/ source'[l].pc # "none"
      PROVE  number'["file"] \in Inputs /\ InKind(number'["file"]) = "file"
  <2>1. Opened(l) \/ source[l].pc # "none" BY <1>2, <1>4, <1>6 DEF Opened
  <2>2. QED BY <1>1, <1>2, <1>6, <2>1 DEF BoardsHold
<1>7. ASSUME OnePtp, NEW l \in Inputs, InKind(l) = "ptp2", source'[l].pc # "none"
      PROVE  /\ number'["ptp2"] = l
             /\ source'[l].pc \in {"grab", "camera", "restart"} => board'[l].buf # "null"
  <2>1. source[l].pc # "none" BY <1>4, <1>7
  <2>2. /\ number["ptp2"] = l
        /\ source[l].pc \in {"grab", "camera", "restart"} => board[l].buf # "null"
    BY <1>1, <1>7, <2>1 DEF BoardsHold
  <2>3. ASSUME source[l].pc \in {"grab", "camera", "restart"} PROVE board'[l].buf # "null"
    <3>1. l \in Boards BY <1>3
    <3>2. ASSUME InKind(k) = "file" PROVE Serves(k) # l
      <4>1. InKind(number["file"]) = "file" BY <1>1, <1>4, <1>7, <3>2 DEF BoardsHold
      <4>2. Serves(k) = number["file"] BY <3>2 DEF Serves
      <4>3. QED BY <1>7, <4>1, <4>2
    <3>3. QED BY <1>2, <2>2, <2>3, <3>1, <3>2 DEF Ran, BoardMoves
  <2>4. source'[l].pc \in {"grab", "camera", "restart"} =>
          source[l].pc \in {"grab", "camera", "restart"} \/ board'[l].buf = "live"
    BY <1>2, <1>4, <1>7, <2>2 DEF Ran, SourceMoves, Shoots
  <2>5. QED BY <1>2, <2>2, <2>3, <2>4
<1>8. ASSUME OnePtp, NEW b \in Boards, board'[b].buf = "freed" PROVE Retired(b)'
  <2>1. CASE board[b].buf = "freed"
    <3>1. Retired(b) BY <1>1, <1>8, <2>1 DEF BoardsHold
    <3>2. [Next]_vars BY DEF Next
    <3>3. QED BY <1>1, <1>8, <3>1, <3>2, RetiredStays
  <2>2. CASE board[b].buf # "freed"
    <3>1. b = Serves(k) /\ source'[k].pc = "ended" BY <1>2, <1>8, <2>2 DEF Ran, BoardMoves
    <3>2. k = b \/ number'[InKind(k)] = b BY <1>2, <3>1 DEF Serves
    <3>3. QED BY <1>3, <3>1, <3>2 DEF Retired
  <2>3. QED BY <2>1, <2>2
<1>9. ASSUME OnePtp, NEW b \in Boards, board'[b].buf = "null", board'[b].pic # 0 PROVE Retired(b)'
  <2>1. BoardMoves(k, b) BY <1>2 DEF Ran
  <2>2. CASE board'[b].buf # board[b].buf
    <3>1. b = Serves(k) /\ source'[k].pc = "ended" BY <1>9, <2>1, <2>2 DEF BoardMoves
    <3>2. k = b \/ number'[InKind(k)] = b BY <1>2, <3>1 DEF Serves
    <3>3. QED BY <1>3, <3>1, <3>2 DEF Retired
  <2>3. CASE board'[b].buf = board[b].buf /\ board'[b].pic # board[b].pic
    <3>1. InKind(k) = "ptp2" /\ source[k].pc = "restart" /\ b = Serves(k)
      BY <1>9, <2>1, <2>3 DEF BoardMoves, PicturePut
    <3>2. number["ptp2"] = k /\ board[k].buf # "null" BY <1>1, <1>4, <1>9, <3>1 DEF BoardsHold
    <3>3. b = k BY <3>1, <3>2 DEF Serves
    <3>4. QED BY <1>9, <2>3, <3>2, <3>3
  <2>4. CASE board'[b].buf = board[b].buf /\ board'[b].pic = board[b].pic
    <3>1. Retired(b) BY <1>1, <1>9, <2>4 DEF BoardsHold
    <3>2. [Next]_vars BY DEF Next
    <3>3. QED BY <1>1, <1>9, <3>1, <3>2, RetiredStays
  <2>5. QED BY <2>2, <2>3, <2>4
<1>10. ASSUME OnePtp, NEW b \in Boards, board'[b].pic # 0 PROVE Served(b)'
  <2>1. Served(b)
    <3>1. CASE board'[b].pic = board[b].pic BY <1>1, <1>10, <3>1 DEF BoardsHold
    <3>2. CASE board'[b].pic # board[b].pic
      <4>1. b = Serves(k) BY <1>2, <3>2 DEF Ran, BoardMoves, PicturePut
      <4>2. QED BY <1>4, <4>1 DEF Served
    <3>3. QED BY <3>1, <3>2
  <2>2. [Next]_vars BY DEF Next
  <2>3. QED BY <1>1, <1>10, <2>1, <2>2, ServedStays
<1>11. number'["testpicture"] = 1 BY <1>1, <1>2 DEF BoardsHold
<1>12. QED BY <1>2, <1>3, <1>5, <1>6, <1>7, <1>8, <1>9, <1>10, <1>11 DEF BoardsHold

\* It wakes with a new picture those who had not had it.
LEMMA SourceWakes ==
  ASSUME WholeInv, NEW k \in Inputs, SourceStep(k)
  PROVE  WokenByNew'
<1>1. TidyInv /\ TypeInv /\ WokenByNew BY DEF WholeInv, TidyInv
<1>2. Ran(k) /\ UNCHANGED <<conf, main, number>> BY <1>1, SourceRan
<1>3. Outputs' = Outputs /\ \A p \in Outputs : OutKind(p)' = OutKind(p) BY <1>2, ConfKept
<1>4. \A p \in Outputs : ReadBy(p)' = ReadBy(p) /\ ReadBy(p) \in Boards BY <1>1, <1>2, <1>3, SinkIs DEF ReadBy
<1>5. conf'.spurious = conf.spurious BY <1>2
<1>6. SUFFICES ASSUME NEW o \in Outputs, NEW b \in Boards, b = ReadBy(o)
               PROVE  /\ sink'[o].pc = "none" => sink'[o].from = 0 /\ sink'[o].sent = <<>>
                      /\ sink'[o].pc # "none" => sink'[o].from <= board'[b].pic
                      /\ sink'[o].pc \in {"woken", "copy"} => Follows(sink'[o].from, board'[b].pic)
  <2>1. \A p \in Outputs :
          /\ sink'[p].pc = "none" => sink'[p].from = 0 /\ sink'[p].sent = <<>>
          /\ sink'[p].pc # "none" => sink'[p].from <= board'[ReadBy(p)].pic
          /\ sink'[p].pc \in {"woken", "copy"} => Follows(sink'[p].from, board'[ReadBy(p)].pic)
    BY <1>4, <1>6
  <2>2. QED BY <1>3, <1>4, <1>5, <2>1 DEF WokenByNew, Follows
<1>7. /\ SinkMoves(k, o) /\ BoardMoves(k, b) /\ board[b].pic \in Nat
      /\ sink[o].from \in Nat /\ board'[b].pic \in Nat
  <2>1. sink[o] \in Sinks BY <1>1, SinkIs
  <2>2. conf.pics \in Nat BY <1>1, ConfIs DEF TypeInv, HostType
  <2>3. sink[o].from \in 0 .. conf.pics BY <2>1 DEF Sinks
  <2>4. board'[b] \in Board BY <1>2 DEF Ran
  <2>5. board'[b].pic \in 0 .. conf.pics BY <2>4 DEF Board
  <2>6. QED BY <1>1, <1>2, <2>1, <2>2, <2>3, <2>5, BoardIs DEF Ran
<1>8. /\ sink[o].pc = "none" => sink[o].from = 0 /\ sink[o].sent = <<>>
      /\ sink[o].pc # "none" => sink[o].from <= board[b].pic
      /\ sink[o].pc \in {"woken", "copy"} => Follows(sink[o].from, board[b].pic)
  BY <1>1, <1>6 DEF WokenByNew
<1>9. board'[b].pic >= board[b].pic BY <1>7 DEF BoardMoves
<1>10. CASE sink'[o] = sink[o] BY <1>7, <1>8, <1>9, <1>10 DEF Follows
<1>11. CASE sink'[o] # sink[o]
  <2>1. /\ sink[o].pc = "wait" /\ sink'[o].pc = "woken" /\ sink'[o].from = sink[o].from
        /\ board'[b].pic > board[b].pic
    BY <1>6, <1>7, <1>11 DEF SinkMoves
  <2>2. QED BY <1>7, <1>8, <2>1 DEF Follows
<1>12. QED BY <1>10, <1>11

\* And does not touch what the outputs have.
LEMMA SourceCarries ==
  ASSUME WholeInv, NEW k \in Inputs, SourceStep(k)
  PROVE  Carried'
<1>1. TidyInv /\ TypeInv /\ Carried BY DEF WholeInv, TidyInv
<1>2. Ran(k) /\ UNCHANGED <<conf, main, number, frame>> BY <1>1, SourceRan
<1>3. /\ Outputs' = Outputs /\ OnePtp' = OnePtp
      /\ \A p \in Outputs : OutKind(p)' = OutKind(p) /\ Alone(p)' = Alone(p)
  BY <1>2, ConfKept
<1>4. SUFFICES ASSUME OnePtp, NEW o \in Outputs, Alone(o), Fits(o)', sink'[o].pc # "ended" PROVE Room(o)' /\ Chain(o)'
  BY <1>3 DEF Carried
<1>5. Fits(o) BY <1>2, <1>3, <1>4 DEF Fits
<1>6. /\ sink'[o].from = sink[o].from /\ sink'[o].sent = sink[o].sent
      /\ sink'[o].pc = "deliver" <=> sink[o].pc = "deliver"
      /\ sink[o].pc # "ended"
  BY <1>2, <1>4 DEF Ran, SinkMoves
<1>7. Room(o) /\ Chain(o) BY <1>1, <1>4, <1>5, <1>6 DEF Carried
<1>8. ReadBy(o)' = ReadBy(o) /\ Filling(o)' = Filling(o) BY <1>2, <1>3, <1>6 DEF ReadBy, Filling
<1>9. Retired(ReadBy(o)) => Retired(ReadBy(o))'
  <2>1. [Next]_vars BY DEF Next
  <2>2. ASSUME NEW b, Retired(b) PROVE Retired(b)' BY <1>1, <1>4, <2>1, <2>2, RetiredStays
  <2>3. QED BY <1>8, <2>2
<1>10. Room(o)' BY <1>2, <1>3, <1>7 DEF Room, Asks, Allocations
<1>11. /\ \A pic : Lost(o, pic) => Lost(o, pic)'
       /\ \A pic : Kept(o, pic) => Kept(o, pic)'
       /\ \A old, new : InOrderOf(o, old, new) => InOrderOf(o, old, new)'
  BY <1>2, <1>6, <1>9, KeptStays
<1>12. Chain(o)' BY <1>2, <1>3, <1>6, <1>7, <1>8, <1>11 DEF Chain
<1>13. QED BY <1>10, <1>12

\* What an output takes leaves the boards as they are.
LEMMA SinkBoards ==
  ASSUME WholeInv, NEW o \in Outputs, SinkStep(o) \/ SinkAsked(o)
  PROVE  /\ BoardsHold' /\ \A b : Retired(b)' = Retired(b)
         /\ \A b \in Boards : board'[b].pic = board[b].pic /\ board'[b].buf = board[b].buf
<1>1. TidyInv /\ TypeInv /\ BoardsHold BY DEF WholeInv, TidyInv
<1>2. Took(o) /\ UNCHANGED <<conf, main, source, number>> BY <1>1, SinkTook
<1>3. /\ Inputs' = Inputs /\ OnePtp' = OnePtp /\ \A l \in Inputs : InKind(l)' = InKind(l)
      /\ Inputs \subseteq Boards
  BY <1>1, <1>2, ConfKept, ConfIs DEF TypeInv, HostType
<1>4. \A b \in Boards : SameBoard(b) BY <1>2 DEF Took
<1>5. \A b : Retired(b)' = Retired(b) BY <1>2, <1>3 DEF Retired
<1>6. \A l \in Inputs : Opened(l)' = Opened(l) BY <1>2 DEF Opened
<1>7. BoardsHold'
  <2>1. \A b : Served(b)' = Served(b) BY <1>2, <1>3 DEF Served, Serves
  <2>2. QED BY <1>1, <1>2, <1>3, <1>4, <1>5, <1>6, <2>1 DEF BoardsHold, SameBoard
<1>8. QED BY <1>4, <1>5, <1>7 DEF SameBoard

\* It waits for the next picture, or is woken by nobody.
LEMMA SinkWaits ==
  ASSUME WholeInv, NEW o \in Outputs, SinkStep(o) \/ SinkAsked(o)
  PROVE  WokenByNew'
<1>1. TidyInv /\ TypeInv /\ WokenByNew BY DEF WholeInv, TidyInv
<1>2. Took(o) /\ UNCHANGED <<conf, source, number>> BY <1>1, SinkTook
<1>3. Outputs' = Outputs /\ \A p \in Outputs : OutKind(p)' = OutKind(p) BY <1>2, ConfKept
<1>4. \A p \in Outputs : ReadBy(p)' = ReadBy(p) /\ ReadBy(p) \in Boards BY <1>1, <1>2, <1>3, SinkIs DEF ReadBy
<1>5. \A b \in Boards : board'[b].pic = board[b].pic BY SinkBoards
<1>6. ASSUME NEW p \in Outputs
      PROVE  /\ sink'[p].pc = "none" => sink'[p].from = 0 /\ sink'[p].sent = <<>>
             /\ sink'[p].pc # "none" => sink'[p].from <= board[ReadBy(p)].pic
             /\ sink'[p].pc \in {"woken", "copy"} => Follows(sink'[p].from, board[ReadBy(p)].pic)
  <2>1. CASE p = o
    <3>1. board[ReadBy(o)].pic \in Nat /\ \A n \in Nat : n <= n BY <1>1, <1>4, BoardIs
    <3>2. /\ sink[o].pc # "none" /\ sink'[o].pc # "none"
          /\ sink'[o].pc = "woken" => sink'[o].from = sink[o].from /\ conf.spurious
          /\ sink'[o].pc = "copy" => sink[o].pc = "woken" /\ sink'[o].from = sink[o].from
          /\ sink'[o].from \in {sink[o].from, board[ReadBy(o)].pic}
      BY <1>2 DEF Took
    <3>3. QED BY <1>1, <2>1, <3>1, <3>2 DEF WokenByNew, Follows
  <2>2. CASE p # o
    <3>1. sink'[p] = sink[p] BY <1>2, <2>2 DEF Took
    <3>2. QED BY <1>1, <3>1 DEF WokenByNew
  <2>3. QED BY <2>1, <2>2
<1>7. conf'.spurious = conf.spurious BY <1>2
<1>8. QED BY <1>3, <1>4, <1>5, <1>6, <1>7 DEF WokenByNew, Follows

\* Another library's output keeps what it has.
LEMMA OthersCarry ==
  ASSUME WholeInv, NEW o \in Outputs, SinkStep(o) \/ SinkAsked(o), OnePtp,
         NEW p \in Outputs, p # o, Alone(p), Fits(p), sink[p].pc # "ended"
  PROVE  Room(p)' /\ Chain(p)'
<1>1. TidyInv /\ TypeInv /\ Carried BY DEF WholeInv, TidyInv
<1>2. Took(o) /\ UNCHANGED <<conf, source, number>> BY <1>1, SinkTook
<1>3. OutKind(p)' = OutKind(p) /\ OutKind(p) \in OutputKinds BY <1>1, <1>2, ConfKept, SinkIs
<1>4. OutKind(o) # OutKind(p) BY DEF Alone
<1>5. sink'[p] = sink[p] /\ frame'[OutKind(p)] = frame[OutKind(p)] BY <1>2, <1>3, <1>4 DEF Took
<1>6. Room(p) /\ Chain(p) BY <1>1 DEF Carried
<1>7. ReadBy(p)' = ReadBy(p) /\ Filling(p)' = Filling(p) BY <1>2, <1>3, <1>5 DEF ReadBy, Filling
<1>8. Retired(ReadBy(p))' = Retired(ReadBy(p)) BY <1>2, <1>7, ConfKept DEF Retired
<1>9. Room(p)' BY <1>2, <1>3, <1>5, <1>6 DEF Room, Asks, Allocations
<1>10. /\ \A pic : Lost(p, pic) => Lost(p, pic)'
       /\ \A pic : Kept(p, pic) => Kept(p, pic)'
       /\ \A old, new : InOrderOf(p, old, new) => InOrderOf(p, old, new)'
  BY <1>2, <1>5, <1>8, KeptStays
<1>11. Chain(p)' BY <1>3, <1>5, <1>6, <1>7, <1>10 DEF Chain
<1>12. QED BY <1>9, <1>11

\* A buffer that fits holds the whole picture.
LEMMA RoomEnough ==
  ASSUME WholeInv, NEW o \in Outputs, Fits(o), Room(o), NEW size \in conf.sizes \cup {0}
  PROVE  LET f == frame[OutKind(o)]
             h == IF GrowsFor(o, size) THEN Grown(f, size) ELSE f
         IN  /\ size <= h.room[f.pos] /\ h.pos = f.pos /\ h.pics = f.pics /\ h \in Frames(OutKind(o))
             /\ OutKind(o) \in {"viewer", "autofocus"} => h.room[1] = FixedRoom
             /\ OutKind(o) = "zmqserver" =>
                  h.max \in Allocations /\ \A i \in Slots("zmqserver") : h.room[i] \in Allocations
             /\ Asks(o) => h.room[1] = h.max
<1> DEFINE K == OutKind(o)
           f == frame[K]
           g == Grown(f, size)
<1>1. TypeInv BY DEF WholeInv, TidyInv
<1>2. /\ conf.sizes \subseteq Nat \ {0} /\ conf.sizes # {} /\ Slack \in Nat /\ FixedRoom \in Nat
  BY <1>1, ConfIs, NumbersAssumption DEF TypeInv, HostType
<1>3. size \in Nat BY <1>2
<1>4. K \in OutputKinds /\ f \in Frames(K) /\ K \in {"udp", "rtsp", "zmqserver", "viewer", "autofocus"}
  BY <1>1, SinkIs DEF OutputKinds
<1>5. f.pos \in Slots(K) /\ f.room \in [Slots(K) -> Nat] /\ f.max \in Nat BY <1>4, FrameIs
<1>6. /\ g \in Frames(K) /\ g.pos = f.pos /\ g.pics = f.pics
      /\ g.max = (IF size > f.max THEN size + Slack ELSE f.max) /\ g.room[f.pos] = g.max
      /\ \A i \in Slots(K) \ {f.pos} : g.room[i] = f.room[i]
  BY <1>3, <1>4, GrownIs
<1>7. size <= g.max BY <1>2, <1>3, <1>5, <1>6
<1>8. CASE K \in {"viewer", "autofocus"}
  <2>1. ~GrowsFor(o, size) /\ ~Asks(o) /\ K # "zmqserver" BY <1>8 DEF GrowsFor, Asks
  <2>2. f.pos = 1 /\ f.room[1] = FixedRoom BY <1>4, <1>5, <1>8, SlotsAre DEF Room
  <2>3. \A s, r \in conf.sizes : s <= FixedRoom BY <1>8 DEF Fits
  <2>4. size <= FixedRoom BY <1>2, <2>3
  <2>5. QED BY <1>4, <2>1, <2>2, <2>4
<1>9. CASE Asks(o)
  <2>1. K \notin {"viewer", "autofocus", "zmqserver"} BY <1>9 DEF Asks
  <2>2. f.pos = 1 /\ f.room[1] = f.max BY <1>4, <1>5, <1>9, <2>1, SlotsAre DEF Room
  <2>3. CASE GrowsFor(o, size)
    <3>1. g.room[1] = g.max BY <1>6, <2>2
    <3> HIDE DEF f, g, K
    <3>2. QED BY <1>6, <1>7, <2>1, <2>2, <2>3, <3>1 DEF f, g, K
  <2>4. CASE ~GrowsFor(o, size)
    <3>1. size <= f.max BY <1>3, <1>5, <1>9, <2>1, <2>4 DEF GrowsFor, Grows
    <3>2. QED BY <1>4, <2>1, <2>2, <2>4, <3>1
  <2>5. QED BY <2>3, <2>4
<1>10. CASE K = "zmqserver"
  <2>1. K \notin {"viewer", "autofocus"} /\ ~Asks(o) BY <1>10 DEF Asks
  <2>2. f.max \in Allocations /\ \A i \in Slots("zmqserver") : f.room[i] \in Allocations BY <1>10 DEF Room
  <2>3. CASE GrowsFor(o, size)
    <3>1. g.max \in Allocations
      <4>1. CASE size > f.max
        <5>1. size \in conf.sizes BY <1>3, <1>5, <4>1
        <5>2. QED BY <1>6, <4>1, <5>1 DEF Allocations
      <4>2. CASE ~(size > f.max) BY <1>6, <2>2, <4>2
      <4>3. QED BY <4>1, <4>2
    <3>2. \A i \in Slots("zmqserver") : g.room[i] \in Allocations BY <1>6, <1>10, <2>2, <3>1
    <3> HIDE DEF f, g, K
    <3>3. QED BY <1>6, <1>7, <2>1, <2>3, <3>1, <3>2 DEF f, g, K
  <2>4. CASE ~GrowsFor(o, size)
    <3>1. f.room[f.pos] # 0 BY <1>5, <1>10, <2>1, <2>4 DEF GrowsFor, Grows
    <3>2. f.room[f.pos] \in Allocations BY <1>5, <1>10, <2>2
    <3>3. PICK r \in conf.sizes : f.room[f.pos] = r + Slack BY <3>1, <3>2 DEF Allocations
    <3>4. \A s \in conf.sizes : s <= r + Slack BY <1>10 DEF Fits
    <3>5. r + Slack >= 0 BY <1>2
    <3>6. size <= f.room[f.pos] BY <3>3, <3>4, <3>5
    <3>7. QED BY <1>4, <2>1, <2>2, <2>4, <3>6
  <2>5. QED BY <2>3, <2>4
<1>11. QED BY <1>4, <1>8, <1>9, <1>10 DEF Asks

\* A package is sent: what is in it comes after what was sent before.
LEMMA SentChain ==
  ASSUME TypeInv, NEW o \in Outputs, Chain(o), Packed(o)
  PROVE  LET old == sink[o].sent
             new == sink'[o].sent
         IN  /\ \A j \in DOMAIN new : new[j] = Freed \/ new[j] \in 0 .. sink[o].from
             /\ \A i \in Len(old) + 1 .. Len(new) :
                  /\ Kept(o, new[i])
                  /\ i = Len(new) => new[i] = sink[o].from \/ Lost(o, new[i])
                  /\ \A j \in 1 .. i - 1 : InOrderOf(o, new[j], new[i])
<1> DEFINE old == sink[o].sent
           new == sink'[o].sent
           f == frame[OutKind(o)]
           from == sink[o].from
<1>1. f \in Frames(OutKind(o)) /\ OutKind(o) \in OutputKinds /\ sink[o] \in Sinks BY SinkIs
<1>2. f.pos \in Nat BY <1>1, FrameIs, SlotsAre
<1>3. old \in Seq(Copies) BY <1>1 DEF Sinks
<1>4. PICK pics \in Seq(Copies) :
        /\ sink[o].pc = "deliver" /\ new = Cat(old, pics) /\ Len(pics) = f.pos
        /\ \A i \in 1 .. f.pos : pics[i] = f.pics[i]
  BY DEF Packed
<1>5. Filling(o) = f.pos BY <1>4 DEF Filling
<1>6. /\ \A i \in 1 .. f.pos : Kept(o, pics[i])
      /\ \A i, j \in 1 .. f.pos : i < j => InOrderOf(o, pics[i], pics[j])
      /\ \A j \in DOMAIN old : old[j] = Freed \/ old[j] \in 0 .. from
      /\ \A j \in DOMAIN old, i \in 1 .. f.pos : InOrderOf(o, old[j], pics[i])
      /\ pics[f.pos] = from \/ Lost(o, pics[f.pos]) \/ f.pos = 0
  <2>1. f.pos \in 1 .. f.pos \/ f.pos = 0 BY <1>2
  <2> HIDE DEF f, old, new
  <2>2. QED BY <1>4, <1>5, <2>1 DEF Chain, f, old
<1> HIDE DEF f, old, new, from
<1>7. /\ new \in Seq(Copies) /\ Len(new) = Len(old) + Len(pics)
      /\ \A i \in 1 .. Len(old) : new[i] = old[i]
      /\ \A i \in 1 .. Len(pics) : new[Len(old) + i] = pics[i]
  <2>1. /\ Cat(old, pics) \in Seq(Copies) /\ Len(Cat(old, pics)) = Len(old) + Len(pics)
        /\ \A i \in 1 .. Len(old) : Cat(old, pics)[i] = old[i]
        /\ \A i \in 1 .. Len(pics) : Cat(old, pics)[Len(old) + i] = pics[i]
    BY <1>3 DEF Cat
  <2>2. new = Cat(old, pics) BY <1>4
  <2>3. QED BY <2>1, <2>2
<1>8. Len(old) \in Nat /\ DOMAIN old = 1 .. Len(old) /\ DOMAIN new = 1 .. Len(new) BY <1>3, <1>7
<1>9. \A i \in Len(old) + 1 .. Len(new) : i - Len(old) \in 1 .. f.pos /\ new[i] = pics[i - Len(old)]
  <2> TAKE i \in Len(old) + 1 .. Len(new)
  <2>1. i - Len(old) \in 1 .. f.pos BY <1>2, <1>4, <1>7, <1>8
  <2>2. i = Len(old) + (i - Len(old)) BY <1>8
  <2>3. QED BY <1>4, <1>7, <2>1, <2>2
<1>10. \A pic : Kept(o, pic) => pic = Freed \/ pic \in 0 .. from
  <2>1. conf.pics \in Nat BY ConfIs DEF TypeInv, HostType
  <2>2. 0 \in 0 .. from BY <1>1, <2>1 DEF Sinks, from
  <2>3. QED BY <2>2 DEF Kept, Lost, from
<1>11. ASSUME NEW j \in DOMAIN new PROVE new[j] = Freed \/ new[j] \in 0 .. from
  <2>1. CASE j \in 1 .. Len(old) BY <1>6, <1>7, <1>8, <2>1
  <2>2. CASE j \notin 1 .. Len(old)
    <3>1. j \in Len(old) + 1 .. Len(new) BY <1>2, <1>4, <1>7, <1>8, <2>2
    <3>2. QED BY <1>6, <1>9, <1>10, <3>1
  <2>3. QED BY <2>1, <2>2
<1>12. ASSUME NEW i \in Len(old) + 1 .. Len(new)
       PROVE  /\ Kept(o, new[i])
              /\ i = Len(new) => new[i] = from \/ Lost(o, new[i])
              /\ \A j \in 1 .. i - 1 : InOrderOf(o, new[j], new[i])
  <2>1. Kept(o, new[i]) BY <1>6, <1>9
  <2>2. i = Len(new) => new[i] = from \/ Lost(o, new[i])
    <3>1. i = Len(new) => i - Len(old) = f.pos BY <1>2, <1>4, <1>7, <1>8
    <3>2. f.pos # 0 BY <1>2, <1>9
    <3>3. QED BY <1>6, <1>9, <3>1, <3>2
  <2>3. ASSUME NEW j \in 1 .. i - 1 PROVE InOrderOf(o, new[j], new[i])
    <3>1. CASE j \in 1 .. Len(old) BY <1>6, <1>7, <1>8, <1>9, <3>1
    <3>2. CASE j \notin 1 .. Len(old)
      <4>1. j \in Len(old) + 1 .. Len(new) /\ j - Len(old) < i - Len(old) BY <1>2, <1>4, <1>7, <1>8, <3>2
      <4>2. QED BY <1>6, <1>9, <4>1
    <3>3. QED BY <3>1, <3>2
  <2>4. QED BY <2>1, <2>2, <2>3
<1>13. QED BY <1>11, <1>12 DEF old, new, from

\* What is copied follows what was there, or the input has ended.
LEMMA CopyCarries ==
  ASSUME WholeInv, NEW o \in Outputs, SinkStep(o) \/ SinkAsked(o), OnePtp, Alone(o), Fits(o), Room(o), Chain(o),
         sink[o].pc = "copy", sink'[o].pc = "deliver", sink'[o].sent = sink[o].sent,
         sink'[o].from = board[ReadBy(o)].pic,
         frame'[OutKind(o)] =
           Filled(IF GrowsFor(o, board[ReadBy(o)].size) THEN Grown(frame[OutKind(o)], board[ReadBy(o)].size)
                  ELSE frame[OutKind(o)], ReadBy(o))
  PROVE  Room(o)' /\ Chain(o)'
<1>1. TidyInv /\ TypeInv /\ BoardsHold /\ WokenByNew BY DEF WholeInv, TidyInv
<1>2. UNCHANGED <<conf, source, number>> BY <1>1, SinkTook
<1>3. OutKind(o)' = OutKind(o) /\ ReadBy(o)' = ReadBy(o) BY <1>2, ConfKept DEF ReadBy
<1>4. Retired(ReadBy(o))' = Retired(ReadBy(o)) BY <1>2, <1>3, ConfKept DEF Retired
<1>5. PICK b \in Boards : b = ReadBy(o) BY <1>1, SinkIs
<1>6. PICK size \in conf.sizes \cup {0} : size = board[b].size BY <1>1 DEF BoardsHold
<1>7. PICK K \in OutputKinds : K = OutKind(o) BY <1>1, SinkIs
<1> DEFINE f == frame[K]
           h == IF GrowsFor(o, size) THEN Grown(f, size) ELSE f
           g == frame'[K]
           from == sink[o].from
           pic == board[b].pic
           sent == sink[o].sent
<1>8. /\ size <= h.room[f.pos] /\ h.pos = f.pos /\ h.pics = f.pics /\ h \in Frames(K)
      /\ K \in {"viewer", "autofocus"} => h.room[1] = FixedRoom
      /\ K = "zmqserver" => h.max \in Allocations /\ \A i \in Slots("zmqserver") : h.room[i] \in Allocations
      /\ Asks(o) => h.room[1] = h.max
  BY <1>7, RoomEnough
<1>9. g = Filled(h, b) BY <1>5, <1>6, <1>7
<1>10. f \in Frames(K) /\ f.pos \in Slots(K) /\ Slots(K) \subseteq Nat BY <1>1, <1>7, SinkIs, FrameIs, SlotsAre
<1> HIDE DEF h, g
<1>11. /\ g.room = h.room /\ g.max = h.max /\ g.pos = f.pos /\ g.pics[f.pos] = Contents(b)
       /\ \A i \in Slots(K) \ {f.pos} : g.pics[i] = f.pics[i]
  BY <1>1, <1>6, <1>8, <1>9, FilledIs
<1>12. Room(o)' BY <1>2, <1>3, <1>7, <1>8, <1>11 DEF Room, Asks, Allocations, g
<1>13. from \in Nat /\ pic \in Nat
  <2>1. sink[o] \in Sinks /\ conf.pics \in Nat BY <1>1, SinkIs, ConfIs DEF TypeInv, HostType
  <2>2. QED BY <1>1, <2>1, BoardIs DEF Sinks
<1>14. Follows(from, pic) BY <1>1, <1>5 DEF WokenByNew
<1>15. Contents(b) = pic \/ (Contents(b) \in {0, Freed} /\ Retired(b))
  <2>1. /\ board[b].buf = "freed" => Retired(b)
        /\ board[b].buf = "null" => board[b].pic = 0 \/ Retired(b)
    BY <1>1 DEF BoardsHold
  <2>2. board[b].buf \in {"null", "live", "freed"} BY <1>1 DEF TypeInv, PlayersType, Board
  <2>3. QED BY <2>1, <2>2 DEF Contents
<1>16. Filling(o)' = f.pos /\ Filling(o) = f.pos - 1 BY <1>3, <1>7, <1>11 DEF Filling, g
<1>17. f.pos \in Nat /\ \A i \in 1 .. f.pos - 1 : i \in Slots(K)
  <2>1. Slots(K) = {1} \/ Slots(K) = 1 .. ZmqBufferSize BY SlotsAre
  <2>2. ZmqBufferSize \in Nat BY NumbersAssumption
  <2>3. f.pos \in Nat /\ f.pos \in Slots(K) BY <1>10
  <2> HIDE DEF f
  <2>4. CASE Slots(K) = {1} BY <2>3, <2>4
  <2>5. CASE Slots(K) = 1 .. ZmqBufferSize BY <2>2, <2>3, <2>5
  <2>6. QED BY <2>1, <2>4, <2>5
<1>18. Freed \notin Nat BY ContentsAssumption
<1>19. /\ \A i \in 1 .. f.pos - 1 : Kept(o, f.pics[i])
       /\ \A i, j \in 1 .. f.pos - 1 : i < j => InOrderOf(o, f.pics[i], f.pics[j])
       /\ \A j \in DOMAIN sent : sent[j] = Freed \/ sent[j] \in 0 .. from
       /\ \A j \in DOMAIN sent, i \in 1 .. f.pos - 1 : InOrderOf(o, sent[j], f.pics[i])
  BY <1>7, <1>16 DEF Chain
<1> DEFINE Gone(p) == p \in {0, Freed} /\ Retired(b)
           After(p, q) == p = Freed \/ Gone(q) \/ Follows(p, q)
<1>20. /\ \A p : Kept(o, p) <=> Gone(p) \/ (p \in 0 .. from /\ Follows(0, p))
       /\ \A p, q : InOrderOf(o, p, q) <=> After(p, q)
  BY <1>5 DEF Kept, Lost, InOrderOf
<1>21. /\ Retired(ReadBy(o))' = Retired(b)
       /\ \A p, q : Follows(p, q)' = Follows(p, q)
  BY <1>2, <1>4, <1>5 DEF Follows
<1> HIDE DEF f, pic, from, sent
<1>22. \A i \in 1 .. f.pos - 1 : g.pics[i] = f.pics[i] /\ i # f.pos BY <1>11, <1>17
<1>23. \A i \in 1 .. f.pos : i = f.pos \/ i \in 1 .. f.pos - 1 BY <1>17
<1>24. \A p \in 0 .. from : p \in 0 .. pic /\ Follows(p, pic) BY <1>13, <1>14 DEF Follows
<1>25. pic \in 0 .. pic /\ Follows(0, pic) BY <1>13, <1>24
<1>26. g.pics[f.pos] = pic \/ Gone(g.pics[f.pos]) BY <1>11, <1>15
<1> HIDE DEF Gone
<1>27. \A i \in 1 .. f.pos - 1 : f.pics[i] = Freed \/ Follows(f.pics[i], pic)
  <2>1. \A p : Gone(p) => p = 0 \/ p = Freed BY DEF Gone
  <2>2. QED BY <1>19, <1>20, <1>24, <1>25, <2>1
<1>28. \A i \in 1 .. f.pos : Gone(g.pics[i]) \/ (g.pics[i] \in 0 .. pic /\ Follows(0, g.pics[i]))
  BY <1>19, <1>20, <1>22, <1>23, <1>24, <1>25, <1>26
<1>29. \A i, j \in 1 .. f.pos : i < j => After(g.pics[i], g.pics[j])
  <2> TAKE i, j \in 1 .. f.pos
  <2> HAVE i < j
  <2>1. i \in 1 .. f.pos - 1 BY <1>17
  <2>2. CASE j = f.pos BY <1>22, <1>26, <1>27, <2>1, <2>2
  <2>3. CASE j \in 1 .. f.pos - 1 BY <1>19, <1>20, <1>22, <2>1, <2>3
  <2>4. QED BY <1>23, <2>2, <2>3
<1>30. \A j \in DOMAIN sent : sent[j] = Freed \/ sent[j] \in 0 .. pic BY <1>19, <1>24
<1>31. \A j \in DOMAIN sent, i \in 1 .. f.pos : After(sent[j], g.pics[i])
  BY <1>19, <1>20, <1>22, <1>23, <1>24, <1>26
<1>32. Chain(o)'
  <2>1. sink'[o].sent = sent /\ sink'[o].from = pic BY <1>5 DEF sent, pic
  <2>2. frame'[OutKind(o)'] = g BY <1>3, <1>7 DEF g
  <2>3. \A p : Lost(o, p)' <=> Gone(p) BY <1>21 DEF Lost, Gone
  <2>4. /\ \A p : Kept(o, p)' <=> Gone(p) \/ (p \in 0 .. pic /\ Follows(0, p))
        /\ \A p, q : InOrderOf(o, p, q)' <=> After(p, q)
    BY <1>21, <2>1, <2>3 DEF Kept, InOrderOf
  <2> HIDE DEF After
  <2>5. QED BY <1>11, <1>16, <1>26, <1>28, <1>29, <1>30, <1>31, <2>1, <2>2, <2>3, <2>4 DEF Chain
<1>33. QED BY <1>12, <1>32

\* What an output has follows from what it had.
LEMMA OwnCarries ==
  ASSUME WholeInv, NEW o \in Outputs, SinkStep(o) \/ SinkAsked(o), OnePtp, Alone(o), Fits(o), sink'[o].pc # "ended"
  PROVE  Room(o)' /\ Chain(o)'
<1>1. TidyInv /\ TypeInv /\ Carried BY DEF WholeInv, TidyInv
<1>2. Took(o) /\ Own(o) /\ UNCHANGED <<conf, source, number>> BY <1>1, SinkTook
<1>3. OutKind(o)' = OutKind(o) /\ ReadBy(o)' = ReadBy(o) BY <1>2, ConfKept DEF ReadBy
<1>4. Retired(ReadBy(o))' = Retired(ReadBy(o)) BY <1>2, <1>3, ConfKept DEF Retired
<1>5. sink[o].pc \notin {"none", "ended"} BY <1>2 DEF Took
<1>6. Room(o) /\ Chain(o) BY <1>1, <1>5 DEF Carried
<1> DEFINE f == frame[OutKind(o)]
           g == frame'[OutKind(o)]
<1>7. frame'[OutKind(o)'] = g BY <1>3
<1>8. f.pos \in Nat BY <1>1, SinkIs, FrameIs, SlotsAre
<1>9. ASSUME g.room = f.room, g.max = f.max PROVE Room(o)'
  BY <1>2, <1>3, <1>6, <1>9 DEF Room, Asks, Allocations
<1>10. ASSUME g.pics = f.pics, sink'[o].pc # "deliver", sink'[o].sent = sink[o].sent, sink'[o].from = sink[o].from,
              g.pos - 1 <= Filling(o), g.pos \in Nat
       PROVE  Chain(o)'
  <2>1. Filling(o)' = g.pos - 1 BY <1>7, <1>10 DEF Filling
  <2>2. Filling(o) \in Int BY <1>8 DEF Filling
  <2>3. \A i \in 1 .. g.pos - 1 : i \in 1 .. Filling(o) BY <1>10, <2>2
  <2>4. /\ \A pic : Kept(o, pic) => Kept(o, pic)'
        /\ \A old, new : InOrderOf(o, old, new) => InOrderOf(o, old, new)'
    BY <1>2, <1>4, <1>10, KeptStays
  <2> HIDE DEF f, g
  <2>5. QED BY <1>6, <1>7, <1>10, <2>1, <2>3, <2>4 DEF Chain, f
<1>11. CASE sink'[o].pc # "deliver" /\ sink'[o].sent = sink[o].sent /\ sink'[o].from = sink[o].from /\ g = f
  <2>1. g.pos - 1 <= Filling(o)
    <3>1. g.pos = f.pos BY <1>11
    <3> HIDE DEF g
    <3>2. QED BY <1>8, <3>1 DEF Filling
  <2>2. QED BY <1>8, <1>9, <1>10, <1>11, <2>1
<1>12. CASE /\ sink[o].pc = "copy" /\ sink'[o].pc = "deliver"
            /\ sink'[o].sent = sink[o].sent /\ sink'[o].from = board[ReadBy(o)].pic
            /\ g = Filled(IF GrowsFor(o, board[ReadBy(o)].size) THEN Grown(f, board[ReadBy(o)].size) ELSE f, ReadBy(o))
  BY <1>6, <1>12, CopyCarries
<1>13. CASE /\ sink[o].pc = "deliver" /\ sink'[o].pc = "head" /\ OutKind(o) = "zmqserver"
            /\ sink'[o].sent = sink[o].sent /\ sink'[o].from = sink[o].from
            /\ f.pos < ZmqBufferSize /\ g.pos = f.pos + 1
            /\ g.room = f.room /\ g.max = f.max /\ g.pics = f.pics
  <2>1. Filling(o) = f.pos BY <1>13 DEF Filling
  <2>2. g.pos - 1 <= Filling(o) /\ g.pos \in Nat
    <3>1. g.pos = f.pos + 1 BY <1>13
    <3> HIDE DEF f, g
    <3>2. QED BY <1>8, <2>1, <3>1
  <2>3. QED BY <1>9, <1>10, <1>13, <2>2
<1>14. CASE Packed(o)
  <2>1. sink[o].pc = "deliver" /\ sink'[o].from = sink[o].from BY <1>14 DEF Packed
  <2>2. sink'[o].pc # "deliver" /\ g.pos = 1 /\ g.room = f.room /\ g.max = f.max /\ g.pics = f.pics
    BY <1>14 DEF Packed
  <2>3. Room(o)' BY <1>9, <2>2
  <2>4. Filling(o)' = 0 BY <1>7, <2>2 DEF Filling
  <2>5. \A j \in DOMAIN sink'[o].sent : sink'[o].sent[j] = Freed \/ sink'[o].sent[j] \in 0 .. sink[o].from
    BY <1>1, <1>6, <1>14, SentChain
  <2>6. 1 .. 0 = {} OBVIOUS
  <2>7. Chain(o)' BY <1>7, <2>1, <2>2, <2>4, <2>5, <2>6 DEF Chain
  <2>8. QED BY <2>3, <2>7
<1>15. QED BY <1>2, <1>11, <1>12, <1>13, <1>14 DEF Own

\* What an output does keeps what every output has.
LEMMA SinkCarries == ASSUME WholeInv, NEW o \in Outputs, SinkStep(o) \/ SinkAsked(o) PROVE Carried'
<1>1. TypeInv BY DEF WholeInv, TidyInv
<1>2. Took(o) /\ conf' = conf BY <1>1, SinkTook
<1>3. Outputs' = Outputs /\ OnePtp' = OnePtp /\ \A p \in Outputs : OutKind(p)' = OutKind(p) /\ Alone(p)' = Alone(p)
  BY <1>2, ConfKept
<1>4. SUFFICES ASSUME OnePtp, NEW p \in Outputs, Alone(p), Fits(p)', sink'[p].pc # "ended" PROVE Room(p)' /\ Chain(p)'
  BY <1>3 DEF Carried
<1>5. Fits(p) BY <1>2, <1>3, <1>4 DEF Fits
<1>6. CASE p = o BY <1>4, <1>5, <1>6, OwnCarries
<1>7. CASE p # o
  <2>1. sink[p].pc # "ended" BY <1>2, <1>4, <1>7 DEF Took
  <2>2. QED BY <1>4, <1>5, <1>7, <2>1, OthersCarry
<1>8. QED BY <1>6, <1>7

\* When no output changes what it has, all still have it.
LEMMA QuietCarries ==
  ASSUME WholeInv, conf' = conf, UNCHANGED frame,
         \A o \in Outputs :
           /\ sink'[o].from = sink[o].from /\ sink'[o].sent = sink[o].sent
           /\ sink'[o].pc = "deliver" <=> sink[o].pc = "deliver"
           /\ sink[o].pc = "ended" => sink'[o].pc = "ended",
         OnePtp => \A o \in Outputs : Retired(ReadBy(o)) => Retired(ReadBy(o))'
  PROVE  Carried'
<1>1. Carried BY DEF WholeInv
<1>2. Outputs' = Outputs /\ OnePtp' = OnePtp /\ \A p \in Outputs : OutKind(p)' = OutKind(p) /\ Alone(p)' = Alone(p)
  BY ConfKept
<1>3. SUFFICES ASSUME OnePtp, NEW o \in Outputs, Alone(o), Fits(o)', sink'[o].pc # "ended" PROVE Room(o)' /\ Chain(o)'
  BY <1>2 DEF Carried
<1>4. Fits(o) BY <1>2, <1>3 DEF Fits
<1>5. sink'[o].from = sink[o].from /\ sink'[o].sent = sink[o].sent /\ sink[o].pc # "ended" BY <1>3
<1>6. Room(o) /\ Chain(o) BY <1>1, <1>3, <1>4, <1>5 DEF Carried
<1>7. Filling(o)' = Filling(o) BY <1>2, <1>5 DEF Filling
<1>8. Room(o)' BY <1>2, <1>6 DEF Room, Asks, Allocations
<1>9. /\ \A pic : Lost(o, pic) => Lost(o, pic)'
      /\ \A pic : Kept(o, pic) => Kept(o, pic)'
      /\ \A old, new : InOrderOf(o, old, new) => InOrderOf(o, old, new)'
  BY <1>3, <1>5, KeptStays
<1>10. Chain(o)' BY <1>2, <1>5, <1>6, <1>7, <1>9 DEF Chain
<1>11. QED BY <1>8, <1>10

\* While main opens the plugins there is nothing to keep but their numbers.
LEMMA OpenWhole ==
  ASSUME WholeInv, OpenInput \/ OpenOutput
  PROVE  BoardsHold' /\ WokenByNew' /\ Carried'
<1>1. TidyInv /\ TypeInv /\ Started /\ BoardsHold /\ WokenByNew /\ Carried BY DEF WholeInv, TidyInv
<1>2. main.pc \in {"openIn", "openOut"} /\ UNCHANGED <<conf, board, source, sink, frame>>
  BY DEF OpenInput, OpenOutput
<1>3. /\ Inputs' = Inputs /\ Outputs' = Outputs /\ OnePtp' = OnePtp
      /\ \A l \in Inputs : InKind(l)' = InKind(l)
  BY <1>2, ConfKept
<1>4. /\ \A o \in Outputs : sink[o].pc = "none"
      /\ \A k \in Inputs : source[k].pc = "none"
  BY <1>1, <1>2 DEF Started
<1>5. \A b : ~Retired(b) BY <1>4 DEF Retired
<1>6. WokenByNew' BY <1>1, <1>2, <1>3, <1>4 DEF WokenByNew
<1>7. Carried' BY <1>2, <1>5, QuietCarries
<1>8. ASSUME OnePtp, NEW k \in Inputs, InKind(k) = "file", Opened(k)'
      PROVE  number'["file"] \in Inputs /\ InKind(number'["file"]) = "file"
  <2>1. number \in [Kinds -> Boards] /\ "file" \in Kinds /\ "file" \notin OutputKinds
    BY <1>1 DEF TypeInv, LibrariesType, Kinds, InputKinds, OutputKinds
  <2>2. CASE OpenInput
    <3>1. main.i \in Inputs /\ main.pc = "openIn" BY <1>1, <2>2 DEF TypeInv, HostType, OpenInput
    <3>2. /\ Inputs = 1 .. Len(conf.ins) /\ Len(conf.ins) \in Boards /\ Len(conf.ins) \in Nat
          /\ Outputs = 1 .. Len(conf.outs)
      BY <1>1, ConfIs, NumbersAssumption DEF TypeInv, HostType, Boards
    <3>3. "openOut" \in MainPcs BY DEF MainPcs, Starting
    <3>4. /\ InputInit(main.i)
          /\ \/ main'.pc = "openIn" /\ main'.i = main.i + 1
             \/ main'.pc = "openOut" /\ main.i = Len(conf.ins)
      <4>1. CASE Exit BY <1>1, <1>8, <4>1, Exited DEF Opened
      <4>2. CASE Advance(Len(conf.ins), "openOut") /\ InputInit(main.i)
        BY <1>1, <3>1, <3>2, <3>3, <4>2, Advanced
      <4>3. QED BY <2>2, <4>1, <4>2 DEF OpenInput
    <3>5. CASE InKind(main.i) = "file"
      BY <2>1, <3>1, <3>4, <3>5 DEF InputInit, FileInit, TestpictureInit, OpencvInit, PtpInit
    <3>6. CASE InKind(main.i) # "file"
      <4>1. number' = number
        BY <3>4, <3>6 DEF InputInit, FileInit, TestpictureInit, OpencvInit, PtpInit
      <4>2. k # main.i BY <1>8, <3>6
      <4>3. k < main.i BY <1>8, <3>1, <3>2, <3>4, <4>2 DEF Opened
      <4>4. Opened(k) BY <3>1, <4>3 DEF Opened
      <4>5. QED BY <1>1, <1>8, <4>1, <4>4 DEF BoardsHold
    <3>7. QED BY <3>5, <3>6
  <2>3. CASE OpenOutput
    <3>1. Opened(k) BY <2>3 DEF OpenOutput, Opened
    <3>2. main.i \in Outputs BY <1>1, <2>3 DEF TypeInv, HostType, OpenOutput
    <3>3. OutKind(main.i) # "file" BY <1>1, <2>1, <3>2, ConfIs DEF TypeInv, HostType
    <3>4. number'["file"] = number["file"] BY <2>1, <2>3, <3>3 DEF OpenOutput, OutputInit
    <3>5. QED BY <1>1, <1>8, <3>1, <3>4 DEF BoardsHold
  <2>4. QED BY <2>2, <2>3
<1>9. number'["testpicture"] = 1
  <2>1. /\ number \in [Kinds -> Boards] /\ "testpicture" \in Kinds /\ "testpicture" \notin OutputKinds
        /\ number["testpicture"] = 1
    BY <1>1 DEF TypeInv, LibrariesType, Kinds, InputKinds, OutputKinds, BoardsHold
  <2>2. CASE OpenInput
    BY <2>1, <2>2 DEF OpenInput, InputInit, FileInit, TestpictureInit, OpencvInit, PtpInit
  <2>3. CASE OpenOutput
    <3>1. main.i \in Outputs BY <1>1, <2>3 DEF TypeInv, HostType, OpenOutput
    <3>2. OutKind(main.i) # "testpicture" BY <1>1, <2>1, <3>1, ConfIs DEF TypeInv, HostType
    <3>3. QED BY <2>1, <2>3, <3>2 DEF OpenOutput, OutputInit
  <2>4. QED BY <2>2, <2>3
<1>10. \A b : ~Served(b) BY <1>4 DEF Served
<1>11. OnePtp => \A b \in Boards : board[b].pic = 0 /\ board[b].buf # "freed" BY <1>1, <1>5, <1>10 DEF BoardsHold
<1>12. BoardsHold' BY <1>1, <1>2, <1>3, <1>4, <1>8, <1>9, <1>11 DEF BoardsHold
<1>13. QED BY <1>6, <1>7, <1>12

\* An input is started: what is on the boards is its own.
LEMMA RunInputWhole ==
  ASSUME WholeInv, RunInput, [Next]_vars
  PROVE  BoardsHold' /\ WokenByNew' /\ Carried'
<1>1. TidyInv /\ TypeInv /\ Started /\ BoardsHold /\ WokenByNew /\ Carried BY DEF WholeInv, TidyInv
<1>2. main.pc = "runIn" /\ UNCHANGED <<conf, sink, frame>> BY DEF RunInput
<1>3. /\ Inputs' = Inputs /\ Outputs' = Outputs /\ OnePtp' = OnePtp
      /\ \A l \in Inputs : InKind(l)' = InKind(l)
      /\ \A o \in Outputs : OutKind(o)' = OutKind(o)
  BY <1>2, ConfKept
<1>4. /\ main.i \in Inputs /\ main.i \in Nat /\ Inputs \subseteq Boards /\ \A l \in Inputs : InKind(l) \in InputKinds
      /\ \A n \in Nat : n >= n
  BY <1>1, <1>2, ConfIs, NumbersAssumption DEF TypeInv, HostType, Boards
<1>5. \A o \in Outputs : sink[o].pc = "none" BY <1>1, <1>2 DEF Started
<1>6. WokenByNew' BY <1>1, <1>2, <1>3, <1>5 DEF WokenByNew
<1>7. /\ OnePtp => \A b : Retired(b) => Retired(b)'
      /\ OnePtp => \A b : Served(b) => Served(b)'
  BY <1>1, RetiredStays, ServedStays
<1>8. CASE UNCHANGED <<board, source, worker, number>>
  <2>1. \A l \in Inputs : Opened(l) BY <1>2 DEF Opened
  <2>2. BoardsHold' BY <1>1, <1>2, <1>3, <1>7, <1>8, <2>1 DEF BoardsHold
  <2>3. \A o \in Outputs : Retired(ReadBy(o)) => Retired(ReadBy(o))'
    BY <1>2, <1>3, <1>8 DEF Retired, ReadBy, InKind, OutKind
  <2>4. Carried' BY <1>2, <2>3, QuietCarries
  <2>5. QED BY <1>6, <2>2, <2>4
<1>9. CASE Launched(main.i)
  <2> DEFINE j == main.i
  <2>1. source[j].pc = "none" BY <1>1, <1>2, <1>4 DEF Started
  <2>2. /\ \A k \in Inputs \ {j} : source'[k] = source[k]
        /\ \A b \in Boards \ {j} : board'[b] = board[b]
        /\ board'[j].size \in {board[j].size, 0}
        /\ board'[j].buf \in {board[j].buf, "live", "null"} /\ board'[j].pic = board[j].pic
        /\ board'[j].buf = board[j].buf \/ board'[j].buf = "live" \/ InKind(j) = "opencv"
        /\ \A l \in Kinds \ {"ptp2"} : number'[l] = number[l]
    <3>1. InKind(j) \in {"file", "ptp2", "opencv", "testpicture"} BY <1>4 DEF InputKinds
    <3>2. QED BY <1>4, <1>9, <3>1 DEF Launched
  <2>3. \A b \in Boards : board'[b].size \in conf.sizes \cup {0} BY <1>1, <1>4, <2>2 DEF BoardsHold
  <2>4. ASSUME OnePtp, NEW k \in Inputs, InKind(k) = "file"
        PROVE  number'["file"] \in Inputs /\ InKind(number'["file"]) = "file"
    <3>1. Opened(k) /\ "file" \in Kinds BY <1>2 DEF Opened, Kinds, InputKinds
    <3>2. QED BY <1>1, <2>2, <2>4, <3>1 DEF BoardsHold
  <2>5. ASSUME OnePtp, NEW k \in Inputs, InKind(k) = "ptp2", source'[k].pc # "none"
        PROVE  /\ number'["ptp2"] = k
               /\ source'[k].pc \in {"grab", "camera", "restart"} => board'[k].buf # "null"
    <3>1. CASE k = j BY <1>9, <2>1, <2>5, <3>1 DEF Launched
    <3>2. CASE k # j
      <4>1. InKind(j) # "ptp2" BY <1>4, <2>5, <3>2 DEF OnePtp
      <4>2. number'["ptp2"] = number["ptp2"] BY <1>9, <4>1 DEF Launched
      <4>3. source'[k] = source[k] /\ board'[k] = board[k] BY <1>4, <2>2, <3>2
      <4>4. QED BY <1>1, <2>5, <4>2, <4>3 DEF BoardsHold
    <3>3. QED BY <3>1, <3>2
  <2>6. ASSUME OnePtp, NEW b \in Boards, board'[b].buf = "freed" PROVE Retired(b)'
    <3>1. board[b].buf = "freed" BY <2>2, <2>6
    <3>2. QED BY <1>1, <1>7, <2>6, <3>1 DEF BoardsHold
  <2>7. ASSUME OnePtp, InKind(j) = "opencv" PROVE board[j].pic = 0
    <3> SUFFICES ASSUME Served(j) PROVE FALSE BY <1>1, <1>4, <2>7 DEF BoardsHold
    <3>1. PICK k \in Inputs : source[k].pc # "none" /\ Serves(k) = j BY DEF Served
    <3>2. k # j BY <2>1, <3>1
    <3>3. InKind(k) \in {"file", "testpicture", "opencv", "ptp2"} BY <1>4 DEF InputKinds
    <3>4. InKind(k) # "opencv" BY <3>1, <3>2 DEF Serves
    <3>5. InKind(k) # "file" BY <1>1, <2>7, <3>1 DEF Serves, BoardsHold
    <3>6. InKind(k) # "ptp2" BY <1>1, <2>7, <3>1, <3>2 DEF Serves, BoardsHold
    <3>7. InKind(k) # "testpicture"
      <4> SUFFICES ASSUME InKind(k) = "testpicture" PROVE FALSE OBVIOUS
      <4>1. j = 1 BY <1>1, <3>1 DEF Serves, BoardsHold
      <4>2. k \in Boards BY <1>4
      <4>3. k >= j BY <4>1, <4>2, NumbersAssumption DEF Boards
      <4>4. QED BY <1>1, <1>2, <3>1, <4>3 DEF Started
    <3>8. QED BY <3>3, <3>4, <3>5, <3>6, <3>7
  <2>8. ASSUME OnePtp, NEW b \in Boards, board'[b].buf = "null" PROVE board'[b].pic = 0 \/ Retired(b)'
    <3>1. board'[b].pic = board[b].pic /\ (board'[b].buf = board[b].buf \/ (b = j /\ InKind(j) = "opencv"))
      BY <2>2, <2>8
    <3>2. QED BY <1>1, <1>7, <2>7, <2>8, <3>1 DEF BoardsHold
  <2>9. ASSUME OnePtp, NEW b \in Boards, board'[b].pic # 0 PROVE Served(b)'
    <3>1. board'[b].pic = board[b].pic BY <2>2
    <3>2. QED BY <1>1, <1>7, <2>9, <3>1 DEF BoardsHold
  <2>10. number'["testpicture"] = 1 BY <1>1, <2>2 DEF BoardsHold, Kinds, InputKinds
  <2>11. BoardsHold' BY <1>2, <1>3, <2>3, <2>4, <2>5, <2>6, <2>8, <2>9, <2>10 DEF BoardsHold
  <2>12. ASSUME OnePtp, NEW o \in Outputs, Retired(ReadBy(o)) PROVE Retired(ReadBy(o))'
    <3>1. OutKind(o) \in Kinds /\ OutKind(o) # "ptp2"
      BY <1>1, SinkIs DEF InputKinds
    <3>2. ReadBy(o)' = ReadBy(o) BY <1>3, <2>2, <3>1 DEF ReadBy
    <3>3. PICK b : b = ReadBy(o) OBVIOUS
    <3>4. Retired(b)' BY <1>7, <2>12, <3>3
    <3>5. QED BY <3>2, <3>3, <3>4 DEF Retired
  <2>13. Carried' BY <1>2, <2>12, QuietCarries
  <2>14. QED BY <1>6, <2>11, <2>13
<1>10. QED BY <1>1, <1>4, <1>8, <1>9, InputRan DEF RunInput

\* An output is started with nothing, the others go on as before.
LEMMA RunOutputWhole ==
  ASSUME WholeInv, RunOutput
  PROVE  BoardsHold' /\ WokenByNew' /\ Carried'
<1>1. TidyInv /\ TypeInv /\ Started /\ BoardsHold /\ WokenByNew /\ Carried BY DEF WholeInv, TidyInv
<1>2. main.pc = "runOut" /\ OutputRun(main.i) /\ UNCHANGED <<conf, board, source, number, frame>> BY DEF RunOutput
<1>3. /\ Inputs' = Inputs /\ Outputs' = Outputs /\ OnePtp' = OnePtp
      /\ \A l \in Inputs : InKind(l)' = InKind(l)
      /\ \A o \in Outputs : OutKind(o)' = OutKind(o)
  BY <1>2, ConfKept
<1>4. main.i \in Outputs /\ main.i \in Nat
  BY <1>1, <1>2, ConfIs, NumbersAssumption DEF TypeInv, HostType, Boards
<1>5. /\ sink'[main.i].pc \in {"request", "lock", "ended"}
      /\ sink'[main.i].from = sink[main.i].from /\ sink'[main.i].sent = sink[main.i].sent
      /\ \A p \in Outputs \ {main.i} : sink'[p] = sink[p]
  BY <1>1, <1>2, <1>4, OutputRan
<1>6. sink[main.i].pc = "none"
  <2>1. main.i >= main.i BY <1>4
  <2>2. QED BY <1>1, <1>2, <1>4, <2>1 DEF Started
<1>7. sink[main.i].from = 0 /\ ReadBy(main.i) \in Boards BY <1>1, <1>4, <1>6, SinkIs DEF WokenByNew
<1>8. \A o \in Outputs : ReadBy(o)' = ReadBy(o) /\ (Retired(ReadBy(o))' <=> Retired(ReadBy(o)))
  BY <1>2, <1>3 DEF ReadBy, Retired, InKind, OutKind
<1>9. \A b : (Retired(b)' <=> Retired(b)) /\ (Served(b)' <=> Served(b))
  BY <1>2, <1>3 DEF Retired, Served, Serves, InKind
<1>10. BoardsHold'
  <2>1. \A k \in Inputs : Opened(k) BY <1>2 DEF Opened
  <2>2. QED BY <1>1, <1>2, <1>3, <1>9, <2>1 DEF BoardsHold
<1>11. WokenByNew'
  <2>1. ASSUME NEW o \in Outputs
        PROVE  /\ sink'[o].pc = "none" => sink'[o].from = 0 /\ sink'[o].sent = <<>>
               /\ sink'[o].pc # "none" => sink'[o].from <= board[ReadBy(o)].pic
               /\ sink'[o].pc \in {"woken", "copy"} => Follows(sink'[o].from, board[ReadBy(o)].pic)
    <3>1. CASE o = main.i
      <4>1. board[ReadBy(o)].pic \in Nat BY <1>1, <1>7, <3>1, BoardIs
      <4>2. \A n \in Nat : 0 <= n OBVIOUS
      <4>3. QED BY <1>5, <1>7, <3>1, <4>1, <4>2
    <3>2. CASE o # main.i BY <1>1, <1>5, <3>2 DEF WokenByNew
    <3>3. QED BY <3>1, <3>2
  <2>2. conf'.spurious = conf.spurious BY <1>2
  <2>3. QED BY <1>2, <1>3, <1>8, <2>1, <2>2 DEF WokenByNew, Follows
<1>12. Carried' BY <1>2, <1>5, <1>6, <1>8, QuietCarries
<1>13. QED BY <1>10, <1>11, <1>12

\* The handler, a zoom and a step of nobody change nothing of all this.
LEMMA QuietWhole ==
  ASSUME WholeInv, StopInput \/ StopOutput \/ Destroy \/ Close \/ Interrupt \/ Zoom \/ UNCHANGED vars
  PROVE  BoardsHold' /\ WokenByNew' /\ Carried'
<1>1. TidyInv /\ TypeInv /\ BoardsHold /\ WokenByNew /\ Carried BY DEF WholeInv, TidyInv
<1>2. UNCHANGED <<conf, source, sink, number, frame>>
  BY DEF StopInput, StopOutput, Destroy, Close, Interrupt, Zoom, vars, hostVars, libraryVars
<1>3. /\ Inputs' = Inputs /\ Outputs' = Outputs /\ OnePtp' = OnePtp
      /\ \A l \in Inputs : InKind(l)' = InKind(l)
      /\ \A o \in Outputs : OutKind(o)' = OutKind(o)
  BY <1>2, ConfKept
<1>4. \A b \in Boards :
        board'[b].buf = board[b].buf /\ board'[b].pic = board[b].pic /\ board'[b].size = board[b].size
  <2>1. CASE Destroy BY <1>1, <2>1, DestroyIs
  <2>2. CASE board' = board BY <2>2
  <2>3. QED BY <2>1, <2>2 DEF StopInput, StopOutput, Close, Interrupt, Zoom, vars
<1>5. \A k \in Inputs : Opened(k)' => Opened(k)
  <2>1. CASE main' = main BY <2>1 DEF Opened
  <2>2. CASE main'.pc \in {"stopIn", "stopOut", "destroy", "close", "exit"} BY <2>2 DEF Opened
  <2>3. main \in [pc : MainPcs, i : Boards, ready : BOOLEAN] BY <1>1 DEF TypeInv, HostType
  <2>4. Interrupt => main'.pc = "stopIn" BY DEF Interrupt
  <2>5. StopOutput => main'.pc = "destroy" BY <2>3 DEF StopOutput
  <2>6. Close => main'.pc = "exit" BY <1>1, Exited DEF Close
  <2>7. Destroy => main'.pc \in {"stopOut", "close"} BY <1>1, DestroyIs
  <2>8. StopInput => main'.pc \in {"stopIn", "stopOut"} BY <2>3 DEF StopInput, Advance
  <2>9. Zoom \/ UNCHANGED vars => main' = main BY DEF Zoom, vars, hostVars
  <2>10. QED BY <2>1, <2>2, <2>4, <2>5, <2>6, <2>7, <2>8, <2>9
<1>6. \A b : (Retired(b)' <=> Retired(b)) /\ (Served(b)' <=> Served(b))
  BY <1>2, <1>3 DEF Retired, Served, Serves, InKind
<1>7. \A o \in Outputs : /\ ReadBy(o)' = ReadBy(o) /\ ReadBy(o) \in Boards
                         /\ Retired(ReadBy(o))' <=> Retired(ReadBy(o))
  <2>1. \A o \in Outputs : ReadBy(o) \in Boards BY <1>1, SinkIs
  <2>2. QED BY <1>2, <1>3, <2>1 DEF ReadBy, Retired, InKind, OutKind
<1>8. BoardsHold'
  <2>1. Inputs \subseteq Boards BY <1>1, ConfIs DEF TypeInv, HostType
  <2>2. \A b \in Boards : board'[b].size \in conf.sizes \cup {0} BY <1>1, <1>4 DEF BoardsHold
  <2>3. ASSUME OnePtp, NEW l \in Inputs, InKind(l) = "file", Opened(l)' \/ source'[l].pc # "none"
        PROVE  number'["file"] \in Inputs /\ InKind(number'["file"]) = "file"
    <3>1. Opened(l) \/ source[l].pc # "none" BY <1>2, <1>5, <2>3
    <3>2. QED BY <1>1, <1>2, <2>3, <3>1 DEF BoardsHold
  <2>4. ASSUME OnePtp, NEW l \in Inputs, InKind(l) = "ptp2", source'[l].pc # "none"
        PROVE  /\ number'["ptp2"] = l
               /\ source'[l].pc \in {"grab", "camera", "restart"} => board'[l].buf # "null"
    <3>1. board'[l].buf = board[l].buf /\ source'[l] = source[l] BY <1>2, <1>4, <2>1
    <3>2. QED BY <1>1, <1>2, <2>4, <3>1 DEF BoardsHold
  <2>5. ASSUME OnePtp, NEW b \in Boards, board'[b].buf = "freed" PROVE Retired(b)'
    <3>1. Retired(b) BY <1>1, <1>4, <2>5 DEF BoardsHold
    <3>2. QED BY <1>6, <3>1
  <2>6. ASSUME OnePtp, NEW b \in Boards
        PROVE  /\ board'[b].buf = "null" => board'[b].pic = 0 \/ Retired(b)'
               /\ board'[b].pic # 0 => Served(b)'
    BY <1>1, <1>4, <1>6, <2>6 DEF BoardsHold
  <2>7. number'["testpicture"] = 1 BY <1>1, <1>2 DEF BoardsHold
  <2>8. QED BY <1>2, <1>3, <2>2, <2>3, <2>4, <2>5, <2>6, <2>7 DEF BoardsHold
<1>9. WokenByNew'
  <2>1. conf'.spurious = conf.spurious BY <1>2
  <2>2. QED BY <1>1, <1>2, <1>3, <1>4, <1>7, <2>1 DEF WokenByNew, Follows
<1>10. Carried' BY <1>2, <1>7, QuietCarries
<1>11. QED BY <1>8, <1>9, <1>10

\* Every step keeps the pictures whole and in order.
LEMMA WholeKept == WholeInv /\ [Next]_vars => WholeInv'
<1> SUFFICES ASSUME WholeInv, [Next]_vars PROVE WholeInv' OBVIOUS
<1>1. TidyInv' BY TidyKept DEF WholeInv
<1>2. BoardsHold' /\ WokenByNew' /\ Carried'
  BY OpenWhole, RunInputWhole, RunOutputWhole, QuietWhole, SourceBoards, SourceWakes, SourceCarries,
     SinkBoards, SinkWaits, SinkCarries
  DEF Next, MainStep
<1>3. QED BY <1>1, <1>2 DEF WholeInv

\* What is sent in a step.
DeliveredWhole ==
  \A o \in Outputs :
    LET old == sink[o].sent
        new == sink'[o].sent
    IN  old # new /\ Alone(o) /\ Fits(o) /\ OnePtp =>
          \A i \in Len(old) + 1 .. Len(new) :
            \/ new[i] \in {0, Freed} /\ Retired(ReadBy(o))
            \/ /\ new[i] \in 0 .. sink[o].from /\ Follows(0, new[i])
               /\ i = Len(new) => new[i] = sink[o].from
               /\ \A j \in 1 .. i - 1 : new[j] = Freed \/ Follows(new[j], new[i])

\* Only an output that delivers sends anything.
LEMMA WholeSent == WholeInv /\ [Next]_vars => DeliveredWhole
<1> SUFFICES ASSUME WholeInv, [Next]_vars, NEW o \in Outputs, sink[o].sent # sink'[o].sent, Alone(o), Fits(o), OnePtp
             PROVE  LET old == sink[o].sent
                        new == sink'[o].sent
                    IN  \A i \in Len(old) + 1 .. Len(new) :
                          \/ new[i] \in {0, Freed} /\ Retired(ReadBy(o))
                          \/ /\ new[i] \in 0 .. sink[o].from /\ Follows(0, new[i])
                             /\ i = Len(new) => new[i] = sink[o].from
                             /\ \A j \in 1 .. i - 1 : new[j] = Freed \/ Follows(new[j], new[i])
  BY DEF DeliveredWhole
<1>1. TypeInv /\ Carried BY DEF WholeInv, TidyInv
<1>2. PICK p \in Outputs : SinkStep(p) \/ SinkAsked(p)
  <2>1. ASSUME NEW k \in Inputs, SourceStep(k) PROVE FALSE
    BY <1>1, <2>1, SourceRan DEF Ran, SinkMoves
  <2>2. ~RunOutput
    <3> SUFFICES ASSUME RunOutput PROVE FALSE OBVIOUS
    <3>1. main.i \in Outputs /\ OutputRun(main.i) BY <1>1 DEF RunOutput, TypeInv, HostType
    <3>2. QED BY <1>1, <3>1, OutputRan
  <2>3. sink' # sink OBVIOUS
  <2>4. QED
    BY <2>1, <2>2, <2>3
    DEF Next, MainStep, OpenInput, OpenOutput, RunInput, StopInput, StopOutput, Destroy, Close, Interrupt, Zoom, vars
<1>3. Took(p) /\ Own(p) BY <1>1, <1>2, SinkTook
<1>4. p = o BY <1>3 DEF Took
<1>5. Packed(o) BY <1>3, <1>4 DEF Own
<1>6. sink[o].pc # "ended" BY <1>5 DEF Packed
<1>7. Chain(o) BY <1>1, <1>6 DEF Carried
<1> DEFINE old == sink[o].sent
           new == sink'[o].sent
<1>8. \A i \in Len(old) + 1 .. Len(new) :
        /\ Kept(o, new[i])
        /\ i = Len(new) => new[i] = sink[o].from \/ Lost(o, new[i])
        /\ \A j \in 1 .. i - 1 : InOrderOf(o, new[j], new[i])
  BY <1>1, <1>5, <1>7, SentChain
<1>9. ASSUME NEW i \in Len(old) + 1 .. Len(new)
      PROVE  \/ new[i] \in {0, Freed} /\ Retired(ReadBy(o))
             \/ /\ new[i] \in 0 .. sink[o].from /\ Follows(0, new[i])
                /\ i = Len(new) => new[i] = sink[o].from
                /\ \A j \in 1 .. i - 1 : new[j] = Freed \/ Follows(new[j], new[i])
  <2>1. CASE Lost(o, new[i]) BY <2>1 DEF Lost
  <2>2. CASE ~Lost(o, new[i])
    <3> HIDE DEF old, new
    <3>1. QED BY <1>8, <2>2 DEF Kept, InOrderOf
  <2>3. QED BY <2>1, <2>2
<1>10. QED BY <1>9

\* "copy frame to our local buffer now": an output whose library is loaded once
\* and whose buffers fit hands on the pictures it copied, whole and each newer
\* than the one before (where pthread_cond_wait may return unasked, none older),
\* however many plugins and boards there are.
THEOREM DeliveriesAreWhole == Spec => DeliversWhole
<1>1. WholeInv /\ [Next]_vars => [DeliveredWhole]_vars BY WholeSent
<1>2. DeliversWhole <=> [][DeliveredWhole]_vars BY PTL DEF DeliversWhole, DeliveredWhole
<1>3. QED BY <1>1, <1>2, WholeStart, WholeKept, PTL DEF Spec

=============================================================================
