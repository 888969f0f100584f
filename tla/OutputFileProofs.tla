-------------------------- MODULE OutputFileProofs --------------------------
(***************************************************************************)
(* What the steps of OutputFile keep, for any options, any number of       *)
(* restarts and of browsers that ask for snapshots.                        *)
(*                                                                         *)
(* Four invariants on top of the types: the bound of the ring buffer round *)
(* by round, the order of the files' names, what the static buffer holds   *)
(* while the worker writes from it, and how old that may be.               *)
(***************************************************************************)
EXTENDS OutputFile, FiniteSetTheorems, WellFoundedInduction, TLAPS

WorkerPcs == {"loop", "wait", "copy", "open", "first", "second", "maintain", "dead"}
TakerPcs == {"idle", "copy", "first", "second", "wait", "send"}
Files == [t : Nat, n : Nat, seq : Nat, run : Nat, data : Writes]
Workers == [pc : WorkerPcs, gen : Nat, out : Writes]
TakerStates == [pc : TakerPcs, gen : Nat, out : Writes, saved : BOOLEAN, sent : Pictures]

\* The files in the folder: each has a name of its own, and a place in the
\* order of their opening.
DiskTyped ==
  /\ disk \subseteq Files /\ IsFiniteSet(disk)
  /\ \E m \in Nat : \A f \in disk : f.seq <= m
  /\ \A f, g \in disk : FileName(f) = FileName(g) \/ f.seq = g.seq => f = g

\* There is a file, or a frame in the mjpg file, to write the second half to.
FileThere ==
  /\ worker.pc \in {"first", "second"} /\ ~mjpeg => disk # {}
  /\ worker.pc = "second" /\ mjpeg => movie # <<>>
  /\ worker.pc \in {"open", "maintain"} => ~mjpeg

TypeInv ==
  /\ setup \in Setups
  /\ clock \in Nat \ {0} /\ restarts \in 0 .. setup.restarts /\ clock <= setup.seconds + restarts + 1
  /\ pic \in [no : Pictures, size : Sizes \cup {0}] /\ stuck \in BOOLEAN
  /\ frame \in [gen : Nat, size : Int, pic : Pictures \cup {Freed}]
  /\ maxSize \in Nat /\ counter \in Nat
  /\ worker \in Workers /\ taker \in [Takers -> TakerStates]
  /\ movie \in Seq(Writes)
  /\ DiskTyped /\ FileThere

\* The bound of a round: when the worker waits, what is in excess of the ring
\* buffer was saved since the last maintenance.  Before the first maintenance of
\* a run nothing is known.
Spare == IF Exceed > 0 THEN Exceed ELSE 0
RoundBound ==
  /\ mjpeg => counter = 0
  /\ worker.pc \in {"first", "second", "maintain"} /\ ~mjpeg => counter > 0
  /\ ringSize >= 0 /\ ~setup.failures =>
       /\ worker.pc \in {"loop", "wait", "copy", "open"} /\ counter > 0 =>
            Cardinality(disk) <= ringSize + (counter % (Spare + 1))
       /\ worker.pc \in {"first", "second", "maintain"} /\ counter > 1 =>
            Cardinality(disk) <= ringSize + 1 + ((counter - 1) % (Spare + 1))

\* The counters of one run are in the order of opening; the seconds of all are,
\* if the local time is never set back.
NamesOrdered ==
  /\ \A f \in disk : f.run <= restarts /\ (f.run = restarts => f.n < counter)
  /\ \A f, g \in disk : f.run = g.run /\ f.n < g.n => f.seq < g.seq
  /\ ~setup.jumps =>
       /\ \A f \in disk : f.t <= clock
       /\ \A f, g \in disk : f.t < g.t => f.seq < g.seq

\* Without takers the buffer holds the picture that the worker is writing.
BufferKept ==
  /\ worker.pc # "dead" => frame.size = maxSize /\ frame.pic # Freed
  /\ worker.pc \in {"open", "first", "second"} => worker.out.from = frame.pic /\ worker.out.second = 0
  /\ worker.pc = "open" => worker.out.first = 0
  /\ worker.pc = "second" => worker.gen = frame.gen /\ worker.out.first = worker.out.from
LastFrom == movie[Len(movie)].from
MovieGrows ==
  /\ IF mjpeg THEN disk = {} ELSE movie = <<>>
  /\ worker.out.from <= pic.no
  /\ movie # <<>> =>
       /\ LastFrom <= pic.no
       /\ worker.pc = "copy" => LastFrom < pic.no \/ setup.spurious
       /\ worker.pc = "first" => LastFrom < worker.out.from \/ (setup.spurious /\ LastFrom = worker.out.from)
       /\ worker.pc = "second" /\ mjpeg => LastFrom = worker.out.from

\* The files and the frames of the mjpg file.  The file that the worker writes is
\* one of its run.
Unfinished(f) == LastOfRun(f) /\ (f.run = restarts => worker.pc \in {"first", "second", "dead"})
WholeFiles ==
  /\ \A f \in disk :
       /\ f.run <= restarts
       /\ WholeWrite(f.data) \/ (Beginning(f.data) /\ (setup.short \/ Unfinished(f)))
  /\ worker.pc \in {"first", "second"} /\ ~mjpeg =>
       \E f \in disk : f.run = restarts /\ \A g \in disk : g.seq <= f.seq
WholeFrame(i) ==
  WholeWrite(movie[i])
    \/ (Beginning(movie[i]) /\ (setup.short \/ (i = Len(movie) /\ worker.pc \in {"second", "dead"})))
WholeMovie ==
  \A i \in DOMAIN movie :
    /\ WholeFrame(i)
    /\ i > 1 => \/ movie[i].from > movie[i - 1].from
                \/ setup.spurious /\ movie[i].from = movie[i - 1].from
WholeInv == Takers = {} => BufferKept /\ MovieGrows /\ WholeFiles /\ WholeMovie

\* Nobody writes from a buffer older than what he copied.
Recent(out) == out.from <= pic.no /\ (frame.pic = Freed \/ out.from <= frame.pic)
Ages ==
  /\ frame.pic = Freed \/ frame.pic <= pic.no
  /\ NotOlder(worker.out)
  /\ worker.pc \in {"open", "first", "second"} => Recent(worker.out)
  /\ \A t \in Takers : taker[t].pc \in {"first", "second"} => Recent(taker[t].out)
AgeInv == Ages /\ SavedNotOlder


-----------------------------------------------------------------------------
(* Numbers.                                                                *)

\* A set of numbers has a least one.
LEMMA MinExists == ASSUME NEW T \in SUBSET Nat, T # {} PROVE \E x \in T : \A y \in T : x <= y
<1> DEFINE R == {ss \in Nat \X Nat : ss[1] < ss[2]}
<1>1. IsWellFoundedOn(R, Nat)
  <2>1. R = OpToRel(<, Nat) BY Zenon DEF OpToRel
  <2>2. QED BY <2>1, NatLessThanWellFounded
<1> HIDE DEF R
<1>2. PICK x \in T : \A y \in T : ~(<<y, x>> \in R) BY <1>1, WFMin
<1>3. ASSUME NEW y \in T PROVE x <= y
  <2>1. SUFFICES ASSUME y < x PROVE FALSE OBVIOUS
  <2>2. <<y, x>> \in R BY <2>1 DEF R
  <2>3. QED BY <1>2, <2>2
<1>4. QED BY <1>3

\* A set of numbers that is bounded has a greatest one.
LEMMA MaxExists ==
  ASSUME NEW S \in SUBSET Nat, S # {}, NEW m \in Nat, \A s \in S : s <= m
  PROVE  \E x \in S : \A y \in S : y <= x
<1> DEFINE T == {d \in Nat : \E s \in S : s + d = m}
<1>1. T # {}
  <2>1. PICK s \in S : TRUE OBVIOUS
  <2>2. m - s \in Nat /\ s + (m - s) = m OBVIOUS
  <2>3. QED BY <2>2
<1>2. PICK d \in T : \A e \in T : d <= e BY <1>1, MinExists
<1>3. PICK x \in S : x + d = m OBVIOUS
<1>4. ASSUME NEW y \in S PROVE y <= x
  <2>1. m - y \in T
    <3>1. m - y \in Nat /\ y + (m - y) = m OBVIOUS
    <3>2. QED BY <3>1
  <2>2. d <= m - y BY <1>2, <2>1
  <2>3. QED BY <1>3, <2>2
<1>5. QED BY <1>4

\* What remains of a multiple and less.
LEMMA Remainder == ASSUME NEW m \in Nat \ {0}, NEW r \in 0 .. m - 1, NEW q \in Nat PROVE (q * m + r) % m = r
OBVIOUS

\* A remainder grows by one until it is 0 again.
LEMMA NextRemainder ==
  ASSUME NEW c \in Nat, NEW m \in Nat \ {0}, (c + 1) % m # 0
  PROVE  (c + 1) % m = (c % m) + 1
<1> DEFINE q == c \div m
           r == c % m
<1>1. q \in Nat /\ r \in 0 .. m - 1 OBVIOUS
<1>2. c = q * m + r OBVIOUS
<1> HIDE DEF q, r
<1>3. CASE r + 1 < m
  <2>1. PICK s \in 0 .. m - 1 : s = r + 1 BY <1>1, <1>3
  <2>2. (q * m + s) % m = s BY <1>1, Remainder, Zenon
  <2>3. c + 1 = q * m + s BY <1>1, <1>2, <2>1
  <2>4. (c + 1) % m = r + 1 BY <2>1, <2>2, <2>3, Zenon
  <2>5. QED BY <2>4 DEF r
<1>4. CASE r + 1 = m
  <2>1. 0 \in 0 .. m - 1 /\ q + 1 \in Nat BY <1>1
  <2>2. ((q + 1) * m + 0) % m = 0 BY <2>1, Remainder, Zenon
  <2>3. c + 1 = (q + 1) * m + 0 BY <1>1, <1>2, <1>4
  <2>4. (c + 1) % m = 0 BY <2>2, <2>3, Zenon
  <2>5. QED BY <2>4
<1>5. QED BY <1>1, <1>3, <1>4

-----------------------------------------------------------------------------
(* Types.                                                                  *)

\* The options never change, and so does nothing that is defined by them.
LEMMA SetupStays ==
  ASSUME UNCHANGED setup
  PROVE  /\ Pictures' = Pictures /\ Writes' = Writes /\ Files' = Files /\ Workers' = Workers
         /\ TakerStates' = TakerStates /\ Takers' = Takers /\ mjpeg' = mjpeg
         /\ ringSize' = ringSize /\ Exceed' = Exceed /\ Spare' = Spare
<1>1. Pictures' = Pictures /\ Takers' = Takers /\ mjpeg' = mjpeg /\ ringSize' = ringSize /\ Exceed' = Exceed
  BY DEF Pictures, Takers, mjpeg, ringSize, Exceed
<1>2. Writes' = Writes BY <1>1 DEF Writes
<1>3. QED BY <1>1, <1>2 DEF Files, Workers, TakerStates, Spare

\* The options have their ranges.
LEMMA SetupTyped ==
  ASSUME TypeInv
  PROVE  /\ setup.pics \in Nat /\ setup.seconds \in Nat /\ setup.restarts \in Nat
         /\ mjpeg \in BOOLEAN /\ setup.failures \in BOOLEAN /\ ringSize \in Int /\ Exceed \in Int
         /\ Spare \in Nat
<1>1. setup \in Setups BY DEF TypeInv
<1>2. Exceed \in Int BY <1>1, SetupsAssumption DEF Exceed
<1>3. Spare \in Nat BY <1>2 DEF Spare
<1>4. QED BY <1>1, <1>2, <1>3, SetupsAssumption DEF mjpeg, ringSize

\* Picture 0 is one, and nothing is written of it.
LEMMA NothingTyped ==
  ASSUME TypeInv
  PROVE  /\ 0 \in Pictures /\ Pictures \subseteq Nat /\ NoWrite \in Writes
         /\ IdleWorker \in Workers /\ IdleTaker \in TakerStates
<1>1. 0 \in Pictures /\ Pictures \subseteq Nat BY SetupTyped DEF Pictures
<1>2. NoWrite \in Writes BY <1>1 DEF NoWrite, Writes
<1>3. QED BY <1>1, <1>2 DEF IdleWorker, IdleTaker, Workers, TakerStates, WorkerPcs, TakerPcs

\* What a thread that has copied a picture is about to write.
LEMMA FromTyped ==
  ASSUME TypeInv
  PROVE  /\ [NoWrite EXCEPT !.from = pic.no] = [from |-> pic.no, first |-> 0, second |-> 0]
         /\ [NoWrite EXCEPT !.from = pic.no] \in Writes
<1>1. [NoWrite EXCEPT !.from = pic.no] = [from |-> pic.no, first |-> 0, second |-> 0] BY DEF NoWrite
<1>2. pic.no \in Pictures /\ 0 \in Pictures BY NothingTyped DEF TypeInv
<1>3. QED BY <1>1, <1>2 DEF Writes

\* The buffer after a copy: moved, filled, or lost.
LEMMA CopyDoes ==
  ASSUME TypeInv, CopyToFrame \/ ReallocFails
  PROVE  /\ frame' \in [gen : Nat, size : Int, pic : Pictures \cup {Freed}] /\ maxSize' \in Nat
         /\ frame'.pic \in {frame.pic, pic.no, Freed}
         /\ CopyToFrame =>
              /\ frame'.pic \in {pic.no, Freed}
              /\ frame.size = maxSize /\ frame.pic # Freed =>
                   frame'.pic = pic.no /\ frame'.size = maxSize'
<1>1. /\ frame \in [gen : Nat, size : Int, pic : Pictures \cup {Freed}] /\ maxSize \in Nat
      /\ pic.no \in Pictures /\ pic.size \in Nat /\ Slack \in Nat
  <2>1. pic.size \in Sizes \cup {0} /\ pic.no \in Pictures BY DEF TypeInv
  <2>2. pic.size \in Nat
    <3>1. \A x \in Sizes \cup {0} : x \in Nat BY SizesAssumption
    <3>2. QED BY <2>1, <3>1
  <2>3. QED BY <2>1, <2>2, SizesAssumption DEF TypeInv
<1>2. CASE ReallocFails /\ ~CopyToFrame BY <1>1, <1>2 DEF ReallocFails
<1>3. CASE CopyToFrame
  <2>1. maxSize' = IF Grows THEN pic.size + Slack ELSE maxSize BY <1>3 DEF CopyToFrame
  <2>2. CASE Grows /\ frame.pic # Freed
    <3>1. frame' = [gen |-> frame.gen + 1, size |-> pic.size + Slack, pic |-> pic.no] BY <1>3, <2>2 DEF CopyToFrame
    <3>2. QED BY <1>1, <2>1, <2>2, <3>1
  <2>3. CASE ~(Grows /\ frame.pic # Freed)
    <3>1. PICK x \in {pic.no, Freed} : x = IF frame.size >= pic.size THEN pic.no ELSE Freed OBVIOUS
    <3>2. frame' = [frame EXCEPT !.pic = x] BY <1>3, <2>3, <3>1 DEF CopyToFrame
    <3>3. frame'.pic = x /\ frame'.size = frame.size /\ frame' \in [gen : Nat, size : Int, pic : Pictures \cup {Freed}]
      BY <1>1, <3>2
    <3>4. frame.size = maxSize /\ frame.pic # Freed => x = pic.no /\ maxSize' = maxSize
      BY <1>1, <2>1, <2>3, <3>1 DEF Grows
    <3>5. maxSize' \in Nat BY <1>1, <2>1
    <3>6. QED BY <1>3, <3>3, <3>4, <3>5
  <2>4. QED BY <2>2, <2>3
<1>4. QED BY <1>2, <1>3

\* What write() finds is a picture, or memory that was freed.
LEMMA BytesTyped == ASSUME TypeInv, NEW gen PROVE BytesAt(gen) \in Pictures \cup {Freed}
BY DEF TypeInv, BytesAt


-----------------------------------------------------------------------------
(* The folder.                                                             *)

\* The places that are taken are numbers with a greatest one.
LEMMA WrittenMax ==
  ASSUME DiskTyped, disk # {}
  PROVE  \E s \in Written : \A r \in Written : r <= s
<1>1. PICK m \in Nat : \A f \in disk : f.seq <= m BY DEF DiskTyped
<1>2. Written \in SUBSET Nat /\ Written # {} /\ \A r \in Written : r <= m
  BY <1>1 DEF DiskTyped, Files, Written
<1>3. QED BY <1>2, MaxExists

\* The file opened last is there.
LEMMA CurrentIs ==
  ASSUME DiskTyped, disk # {}
  PROVE  Current \in disk /\ \A g \in disk : g.seq <= Current.seq
<1>1. PICK s \in Written : \A r \in Written : r <= s BY WrittenMax
<1>2. PICK f \in disk : f.seq = s BY DEF Written
<1>3. \A g \in disk : g.seq <= f.seq BY <1>1, <1>2 DEF Written
<1>4. QED BY <1>3 DEF Current

\* The place of a new file is after all others.
LEMMA NextSeqIs ==
  ASSUME DiskTyped
  PROVE  NextSeq \in Nat /\ \A f \in disk : f.seq < NextSeq
<1>1. CASE disk = {} BY <1>1 DEF NextSeq
<1>2. CASE disk # {}
  <2> DEFINE top == CHOOSE s \in Written : \A r \in Written : r <= s
  <2>1. top \in Written /\ \A r \in Written : r <= top BY <1>2, WrittenMax
  <2>2. Written \subseteq Nat BY DEF DiskTyped, Files, Written
  <2>3. NextSeq = 1 + top BY <1>2 DEF NextSeq
  <2> HIDE DEF top
  <2>4. \A f \in disk : f.seq \in Written BY DEF Written
  <2>5. top \in Nat /\ \A f \in disk : f.seq \in Nat /\ f.seq <= top BY <2>1, <2>2, <2>4
  <2>6. QED BY <2>3, <2>5
<1>3. QED BY <1>1, <1>2

\* A folder from which files are deleted.
LEMMA DiskShrinks == ASSUME DiskTyped, UNCHANGED setup, disk' \subseteq disk PROVE DiskTyped'
<1>1. IsFiniteSet(disk') BY FS_Subset DEF DiskTyped
<1>2. disk' \subseteq Files' BY SetupStays DEF DiskTyped
<1>3. QED BY <1>1, <1>2 DEF DiskTyped, FileName

\* A folder in which one file is replaced by another of the same name and place,
\* or which gets one of a new name and the next place.
LEMMA DiskWith ==
  ASSUME DiskTyped, UNCHANGED setup, NEW rest \in SUBSET disk, NEW new \in Files,
         disk' = rest \cup {new},
         \A f \in rest : f.seq # new.seq /\ FileName(f) # FileName(new)
  PROVE  DiskTyped'
<1>1. IsFiniteSet(rest) /\ IsFiniteSet(disk') BY FS_Subset, FS_AddElement DEF DiskTyped
<1>2. disk' \subseteq Files' BY SetupStays DEF DiskTyped
<1>3. \E m \in Nat : \A f \in disk' : f.seq <= m
  <2>1. PICK m \in Nat : \A f \in disk : f.seq <= m BY DEF DiskTyped
  <2>2. \A f \in disk : f.seq \in Nat BY DEF DiskTyped, Files
  <2>3. new.seq \in Nat BY DEF Files
  <2>4. PICK k : k = m + new.seq OBVIOUS
  <2>5. k \in Nat /\ \A f \in disk' : f.seq <= k BY <2>1, <2>2, <2>3, <2>4
  <2>6. QED BY <2>5
<1>4. \A f, g \in disk' : FileName(f) = FileName(g) \/ f.seq = g.seq => f = g
  BY DEF DiskTyped
<1>5. QED BY <1>1, <1>2, <1>3, <1>4 DEF DiskTyped, FileName

\* What the worker writes goes to the last file, or to the end of the mjpg file.
LEMMA StoreDoes ==
  ASSUME TypeInv, NEW data \in Writes, worker.pc \in {"first", "second"}, Store(data), UNCHANGED setup
  PROVE  /\ DiskTyped' /\ movie' \in Seq(Writes)
         /\ mjpeg => /\ UNCHANGED disk /\ movie' # <<>>
                     /\ worker.pc = "first" => movie' = Append(movie, data)
                     /\ worker.pc = "second" => movie' = [movie EXCEPT ![Len(movie)] = data]
         /\ ~mjpeg => /\ UNCHANGED movie
                      /\ \E old \in disk, new \in Files :
                           /\ new.t = old.t /\ new.n = old.n /\ new.seq = old.seq /\ new.run = old.run
                           /\ new.data = data /\ \A g \in disk : g.seq <= old.seq
                           /\ disk' = (disk \ {old}) \cup {new} /\ Cardinality(disk') = Cardinality(disk)
<1>1. CASE mjpeg
  <2>1. UNCHANGED disk BY <1>1 DEF Store
  <2>2. DiskTyped' BY <2>1, DiskShrinks DEF TypeInv
  <2>3. movie \in Seq(Writes) BY DEF TypeInv
  <2>4. CASE worker.pc = "first"
    <3>1. movie' = Append(movie, data) BY <1>1, <2>4 DEF Store
    <3>2. movie' \in Seq(Writes) /\ movie' # <<>> BY <2>3, <3>1
    <3>3. QED BY <1>1, <2>1, <2>2, <2>4, <3>1, <3>2
  <2>5. CASE worker.pc = "second"
    <3>1. movie' = [movie EXCEPT ![Len(movie)] = data] BY <1>1, <2>5 DEF Store
    <3>2. movie # <<>> BY <1>1, <2>5 DEF TypeInv, FileThere
    <3>3. movie' \in Seq(Writes) /\ movie' # <<>> BY <2>3, <3>1, <3>2
    <3>4. QED BY <1>1, <2>1, <2>2, <2>5, <3>1, <3>3
  <2>6. QED BY <2>4, <2>5
<1>2. CASE ~mjpeg
  <2>1. UNCHANGED movie BY <1>2 DEF Store
  <2>2. DiskTyped /\ disk # {} BY <1>2 DEF TypeInv, FileThere
  <2>3. PICK old \in disk : old = Current /\ \A g \in disk : g.seq <= old.seq BY <2>2, CurrentIs
  <2>4. PICK new : new = [old EXCEPT !.data = data] OBVIOUS
  <2>5. old \in Files BY <2>2 DEF DiskTyped
  <2>6. /\ new \in Files /\ new.t = old.t /\ new.n = old.n /\ new.seq = old.seq /\ new.run = old.run
        /\ new.data = data
    BY <2>4, <2>5 DEF Files
  <2>7. disk' = (disk \ {old}) \cup {new} BY <1>2, <2>3, <2>4 DEF Store
  <2>8. \A f \in disk \ {old} : f.seq # new.seq /\ FileName(f) # FileName(new)
    BY <2>2, <2>6 DEF DiskTyped, FileName
  <2>9. DiskTyped' BY <2>2, <2>6, <2>7, <2>8, DiskWith
  <2>10. Cardinality(disk') = Cardinality(disk)
    <3>1. IsFiniteSet(disk) BY <2>2 DEF DiskTyped
    <3>2. Cardinality(disk \ {old}) = Cardinality(disk) - 1 /\ IsFiniteSet(disk \ {old})
      BY <3>1, FS_RemoveElement
    <3>3. new \notin disk \ {old} BY <2>8
    <3>4. Cardinality(disk') = Cardinality(disk \ {old}) + 1 BY <2>7, <3>2, <3>3, FS_AddElement
    <3>5. Cardinality(disk) \in Nat BY <3>1, FS_CardinalityType
    <3>6. QED BY <3>2, <3>4, <3>5
  <2>11. QED BY <1>2, <2>1, <2>3, <2>6, <2>7, <2>9, <2>10 DEF TypeInv
<1>3. QED BY <1>1, <1>2, SetupTyped


-----------------------------------------------------------------------------
(* What the steps of the worker do.                                        *)

\* The worker goes on with what it has.
LEMMA WorkerGoes ==
  ASSUME TypeInv, NEW pc \in WorkerPcs, worker' = [worker EXCEPT !.pc = pc]
  PROVE  /\ worker' \in Workers /\ worker'.pc = pc
         /\ worker'.gen = worker.gen /\ worker'.out = worker.out
BY DEF TypeInv, Workers

\* The worker goes on and writes something else.
LEMMA WorkerWrites ==
  ASSUME TypeInv, NEW pc \in WorkerPcs, NEW out \in Writes,
         worker' = [worker EXCEPT !.pc = pc, !.out = out]
  PROVE  /\ worker' \in Workers /\ worker'.pc = pc
         /\ worker'.gen = worker.gen /\ worker'.out = out
BY DEF TypeInv, Workers

\* The copy, and where the worker goes with it.
LEMMA WorkerCopyDoes ==
  ASSUME TypeInv, WorkerCopy
  PROVE  /\ worker.pc = "copy" /\ worker' \in Workers
         /\ UNCHANGED <<environment, counter, disk, movie, taker>>
         /\ \/ /\ CopyToFrame /\ worker'.pc = (IF mjpeg THEN "first" ELSE "open")
               /\ worker'.out = [from |-> pic.no, first |-> 0, second |-> 0]
            \/ ReallocFails /\ worker'.pc = "dead" /\ worker'.out = worker.out
<1>1. CASE /\ CopyToFrame
           /\ worker' = [worker EXCEPT !.pc = IF mjpeg THEN "first" ELSE "open",
                                       !.out = [NoWrite EXCEPT !.from = pic.no]]
  <2>1. PICK pc \in WorkerPcs : pc = IF mjpeg THEN "first" ELSE "open" BY DEF WorkerPcs
  <2>2. PICK out \in Writes : out = [NoWrite EXCEPT !.from = pic.no] BY FromTyped
  <2>3. worker' = [worker EXCEPT !.pc = pc, !.out = out] BY <1>1, <2>1, <2>2
  <2>4. worker' \in Workers /\ worker'.pc = pc /\ worker'.out = out BY <2>3, WorkerWrites
  <2>5. out = [from |-> pic.no, first |-> 0, second |-> 0] BY <2>2, FromTyped
  <2>6. QED BY <1>1, <2>1, <2>4, <2>5 DEF WorkerCopy
<1>2. CASE ReallocFails /\ worker' = [worker EXCEPT !.pc = "dead"]
  <2>1. "dead" \in WorkerPcs BY DEF WorkerPcs
  <2>2. QED BY <1>2, <2>1, WorkerGoes DEF WorkerCopy
<1>3. QED BY <1>1, <1>2 DEF WorkerCopy

\* The file that is opened, of the second and the counter, takes the place of one
\* of the same name.
LEMMA WorkerOpenDoes ==
  ASSUME TypeInv, WorkerOpen
  PROVE  /\ worker.pc = "open" /\ worker' \in Workers /\ worker'.out = worker.out
         /\ UNCHANGED <<environment, frame, maxSize, movie, taker>> /\ counter' \in {counter, counter + 1}
         /\ DiskTyped'
         /\ \/ /\ worker'.pc = "first" /\ counter' = counter + 1
               /\ \E new \in Files :
                    /\ new.t = clock /\ new.n = counter /\ new.run = restarts /\ new.data = worker.out
                    /\ \A f \in disk : f.seq < new.seq
                    /\ disk' = {f \in disk : FileName(f) # <<clock, counter>>} \cup {new}
            \/ worker'.pc = "dead" /\ UNCHANGED disk
<1>1. CASE /\ worker' = [worker EXCEPT !.pc = "first"] /\ counter' = counter + 1
           /\ disk' = {f \in disk : FileName(f) # <<clock, counter>>}
                        \cup {[t |-> clock, n |-> counter, seq |-> NextSeq,
                               run |-> restarts, data |-> worker.out]}
  <2>1. DiskTyped /\ clock \in Nat /\ counter \in Nat /\ restarts \in Nat /\ worker.out \in Writes
    BY SetupTyped DEF TypeInv, Workers
  <2>2. PICK seq : seq = NextSeq OBVIOUS
  <2>3. seq \in Nat /\ \A f \in disk : f.seq < seq BY <2>1, <2>2, NextSeqIs
  <2>4. PICK new : new = [t |-> clock, n |-> counter, seq |-> seq, run |-> restarts, data |-> worker.out]
    OBVIOUS
  <2>5. PICK rest \in SUBSET disk : rest = {f \in disk : FileName(f) # <<clock, counter>>} OBVIOUS
  <2>6. new \in Files /\ new.t = clock /\ new.n = counter /\ new.run = restarts
        /\ new.data = worker.out /\ new.seq = seq
    BY <2>1, <2>3, <2>4 DEF Files
  <2>7. disk' = rest \cup {new} BY <1>1, <2>2, <2>4, <2>5
  <2>8. \A f \in rest : f.seq # new.seq /\ FileName(f) # FileName(new)
    <3>1. \A f \in disk : f.seq \in Nat BY <2>1 DEF DiskTyped, Files
    <3>2. FileName(new) = <<clock, counter>> BY <2>6 DEF FileName
    <3>3. QED BY <2>3, <2>5, <2>6, <3>1, <3>2
  <2>9. UNCHANGED setup BY DEF WorkerOpen, environment
  <2>10. DiskTyped' BY <2>1, <2>6, <2>7, <2>8, <2>9, DiskWith
  <2>11. "first" \in WorkerPcs BY DEF WorkerPcs
  <2>12. worker' \in Workers /\ worker'.pc = "first" /\ worker'.out = worker.out BY <1>1, <2>11, WorkerGoes
  <2>13. QED BY <1>1, <2>3, <2>5, <2>6, <2>7, <2>10, <2>12 DEF WorkerOpen
<1>2. CASE worker' = [worker EXCEPT !.pc = "dead"] /\ UNCHANGED disk /\ counter' \in {counter, counter + 1}
  <2>1. "dead" \in WorkerPcs BY DEF WorkerPcs
  <2>2. UNCHANGED setup BY DEF WorkerOpen, environment
  <2>3. DiskTyped' BY <1>2, <2>2, DiskShrinks DEF TypeInv
  <2>4. QED BY <1>2, <2>1, <2>3, WorkerGoes DEF WorkerOpen
<1>3. QED BY <1>1, <1>2 DEF WorkerOpen

\* The first half that is written is what the buffer holds.
LEMMA WorkerFirstDoes ==
  ASSUME TypeInv, WorkerFirst
  PROVE  /\ worker.pc = "first" /\ worker' \in Workers
         /\ UNCHANGED <<environment, frame, maxSize, counter, taker>>
         /\ \/ /\ worker'.pc = "second" /\ worker'.gen = frame.gen
               /\ worker'.out = [from |-> worker.out.from, first |-> frame.pic, second |-> worker.out.second]
               /\ Store(worker'.out)
            \/ worker'.pc = "dead" /\ worker'.out = worker.out /\ UNCHANGED <<disk, movie>>
<1>1. worker.out \in Writes /\ frame.gen \in Nat /\ frame.pic \in Pictures \cup {Freed} BY DEF TypeInv, Workers
<1>2. CASE LET out == [worker.out EXCEPT !.first = BytesAt(frame.gen)]
           IN  /\ worker' = [pc |-> "second", gen |-> frame.gen, out |-> out]
               /\ Store(out)
  <2>1. BytesAt(frame.gen) = frame.pic BY DEF BytesAt
  <2>2. PICK out : out = [worker.out EXCEPT !.first = frame.pic] OBVIOUS
  <2>3. out = [from |-> worker.out.from, first |-> frame.pic, second |-> worker.out.second] BY <1>1, <2>2 DEF Writes
  <2>4. out \in Writes BY <1>1, <2>3 DEF Writes
  <2>5. worker' = [pc |-> "second", gen |-> frame.gen, out |-> out] /\ Store(out) BY <1>2, <2>1, <2>2
  <2>6. worker' \in Workers /\ worker'.pc = "second" /\ worker'.gen = frame.gen /\ worker'.out = out
    BY <1>1, <2>4, <2>5 DEF Workers, WorkerPcs
  <2>7. QED BY <2>3, <2>5, <2>6 DEF WorkerFirst
<1>3. CASE worker' = [worker EXCEPT !.pc = "dead"] /\ UNCHANGED <<disk, movie>>
  <2>1. "dead" \in WorkerPcs BY DEF WorkerPcs
  <2>2. QED BY <1>3, <2>1, WorkerGoes DEF WorkerFirst
<1>4. QED BY <1>2, <1>3 DEF WorkerFirst

\* The second half is what is found behind the same pointer, or is left out.
LEMMA WorkerSecondDoes ==
  ASSUME TypeInv, WorkerSecond
  PROVE  /\ worker.pc = "second" /\ worker' \in Workers
         /\ UNCHANGED <<environment, frame, maxSize, counter, taker>>
         /\ worker'.pc = (IF mjpeg THEN "loop" ELSE "maintain")
         /\ Store(worker'.out)
         /\ \E bytes \in {BytesAt(worker.gen)} \cup IF setup.short THEN {0} ELSE {} :
              worker'.out = [from |-> worker.out.from, first |-> worker.out.first, second |-> bytes]
<1>1. PICK bytes \in {BytesAt(worker.gen)} \cup IF setup.short THEN {0} ELSE {} :
        /\ worker' = [worker EXCEPT !.pc = IF mjpeg THEN "loop" ELSE "maintain",
                                    !.out = [worker.out EXCEPT !.second = bytes]]
        /\ Store([worker.out EXCEPT !.second = bytes])
  BY DEF WorkerSecond
<1>2. worker.out \in Writes /\ bytes \in Pictures \cup {Freed} BY BytesTyped, NothingTyped DEF TypeInv, Workers
<1>3. PICK out : out = [worker.out EXCEPT !.second = bytes] OBVIOUS
<1>4. out = [from |-> worker.out.from, first |-> worker.out.first, second |-> bytes] BY <1>2, <1>3 DEF Writes
<1>5. out \in Writes BY <1>2, <1>4 DEF Writes
<1>6. PICK pc \in WorkerPcs : pc = IF mjpeg THEN "loop" ELSE "maintain" BY DEF WorkerPcs
<1>7. worker' = [worker EXCEPT !.pc = pc, !.out = out] /\ Store(out) BY <1>1, <1>3, <1>6
<1>8. worker' \in Workers /\ worker'.pc = pc /\ worker'.out = out BY <1>5, <1>7, WorkerWrites
<1>9. QED BY <1>1, <1>4, <1>6, <1>7, <1>8 DEF WorkerSecond

\* Maintenance only deletes.
LEMMA WorkerMaintainDoes ==
  ASSUME TypeInv, WorkerMaintain
  PROVE  /\ worker.pc = "maintain" /\ worker' = IdleWorker /\ disk' \subseteq disk
         /\ UNCHANGED <<environment, frame, maxSize, counter, movie, taker>>
<1>1. disk' \subseteq disk
  <2>1. CASE MaintenanceDue /\ ringSize >= 0 BY <2>1 DEF WorkerMaintain
  <2>2. CASE ~(MaintenanceDue /\ ringSize >= 0) BY <2>2 DEF WorkerMaintain
  <2>3. QED BY <2>1, <2>2
<1>2. QED BY <1>1 DEF WorkerMaintain


-----------------------------------------------------------------------------
(* What the steps of a taker do.                                           *)

\* One taker gets another state.
LEMMA TakerGets ==
  ASSUME TypeInv, NEW t \in Takers, NEW new \in TakerStates, TakerGoes(t, new)
  PROVE  /\ taker' \in [Takers -> TakerStates] /\ taker'[t] = new
         /\ \A u \in Takers \ {t} : taker'[u] = taker[u]
         /\ UNCHANGED <<environment, worker, counter, disk, movie>>
BY DEF TypeInv, TakerGoes

\* The copy for a snapshot does not wait for a fresh frame.
LEMMA TakeCopyDoes ==
  ASSUME TypeInv, NEW t \in Takers, TakeCopy(t)
  PROVE  \/ \E new \in TakerStates :
              /\ TakerGoes(t, new) /\ CopyToFrame /\ new.pc = "first"
              /\ new.out = [from |-> pic.no, first |-> 0, second |-> 0]
         \/ TakerGoes(t, IdleTaker) /\ ReallocFails
<1>1. PICK out \in Writes : out = [NoWrite EXCEPT !.from = pic.no]
                            /\ out = [from |-> pic.no, first |-> 0, second |-> 0]
  BY FromTyped
<1>2. PICK new : new = [taker[t] EXCEPT !.pc = "first", !.out = out] OBVIOUS
<1>3. taker[t] \in TakerStates BY DEF TypeInv
<1>4. new \in TakerStates /\ new.pc = "first" /\ new.out = out BY <1>2, <1>3 DEF TakerStates, TakerPcs
<1>5. CASE CopyToFrame /\ TakerGoes(t, [taker[t] EXCEPT !.pc = "first", !.out = [NoWrite EXCEPT !.from = pic.no]])
  <2>1. TakerGoes(t, new) BY <1>1, <1>2, <1>5
  <2>2. QED BY <1>1, <1>4, <1>5, <2>1
<1>6. QED BY <1>5 DEF TakeCopy

\* The first half of a snapshot.
LEMMA TakeFirstDoes ==
  ASSUME TypeInv, NEW t \in Takers, TakeFirst(t)
  PROVE  /\ UNCHANGED <<frame, maxSize>> /\ taker[t].pc = "first"
         /\ \/ \E new \in TakerStates :
                 /\ TakerGoes(t, new) /\ new.pc = "second"
                 /\ new.out = [from |-> taker[t].out.from, first |-> frame.pic, second |-> taker[t].out.second]
            \/ TakerGoes(t, IdleTaker)
<1>1. BytesAt(frame.gen) = frame.pic BY DEF BytesAt
<1>2. taker[t] \in TakerStates /\ frame.gen \in Nat /\ frame.pic \in Pictures \cup {Freed} BY DEF TypeInv
<1>3. PICK new : new = [taker[t] EXCEPT !.pc = "second", !.gen = frame.gen, !.out.first = frame.pic] OBVIOUS
<1>4. /\ new.pc = "second" /\ new.gen = frame.gen /\ new.saved = taker[t].saved /\ new.sent = taker[t].sent
      /\ new = [pc |-> new.pc, gen |-> new.gen, out |-> new.out, saved |-> new.saved, sent |-> new.sent]
  BY <1>2, <1>3 DEF TakerStates
<1>5. new.out = [from |-> taker[t].out.from, first |-> frame.pic, second |-> taker[t].out.second]
  BY <1>2, <1>3 DEF TakerStates, Writes
<1>6. new.out \in Writes BY <1>2, <1>5 DEF TakerStates, Writes
<1>7. new \in TakerStates BY <1>2, <1>4, <1>6 DEF TakerStates, TakerPcs
<1>8. CASE TakerGoes(t, [taker[t] EXCEPT !.pc = "second", !.gen = frame.gen, !.out.first = BytesAt(frame.gen)])
  <2>1. TakerGoes(t, new) BY <1>1, <1>3, <1>8
  <2>2. QED BY <1>4, <1>5, <1>7, <2>1 DEF TakeFirst
<1>9. CASE TakerGoes(t, IdleTaker) BY <1>9 DEF TakeFirst
<1>10. QED BY <1>8, <1>9 DEF TakeFirst

\* The second half, behind the pointer that write() was called with.
LEMMA TakeSecondDoes ==
  ASSUME TypeInv, NEW t \in Takers, TakeSecond(t)
  PROVE  /\ UNCHANGED <<frame, maxSize>> /\ taker[t].pc = "second"
         /\ \E new \in TakerStates :
              /\ TakerGoes(t, new) /\ new.pc = "wait"
              /\ new.out.from = taker[t].out.from /\ new.out.first = taker[t].out.first
              /\ new.out.second \in {frame.pic, Freed, 0}
<1>1. PICK bytes \in Pictures \cup {Freed} :
        /\ TakerGoes(t, [taker[t] EXCEPT !.pc = "wait", !.saved = TRUE, !.out.second = bytes])
        /\ bytes \in {frame.pic, Freed, 0}
  <2>1. PICK b \in {BytesAt(taker[t].gen)} \cup IF setup.short THEN {0} ELSE {} :
          TakerGoes(t, [taker[t] EXCEPT !.pc = "wait", !.saved = TRUE, !.out.second = b])
    BY DEF TakeSecond
  <2>2. b \in Pictures \cup {Freed} BY BytesTyped, NothingTyped
  <2>3. b \in {frame.pic, Freed, 0} BY DEF BytesAt
  <2>4. QED BY <2>1, <2>2, <2>3
<1>2. taker[t] \in TakerStates BY DEF TypeInv
<1>3. PICK new : new = [taker[t] EXCEPT !.pc = "wait", !.saved = TRUE, !.out.second = bytes] OBVIOUS
<1>4. /\ new.pc = "wait" /\ new.gen = taker[t].gen /\ new.sent = taker[t].sent
      /\ new = [pc |-> new.pc, gen |-> new.gen, out |-> new.out, saved |-> new.saved, sent |-> new.sent]
  BY <1>2, <1>3 DEF TakerStates
<1>5. new.saved \in BOOLEAN BY <1>2, <1>3 DEF TakerStates
<1>6. new.out = [from |-> taker[t].out.from, first |-> taker[t].out.first, second |-> bytes]
  BY <1>2, <1>3 DEF TakerStates, Writes
<1>7. new.out \in Writes BY <1>2, <1>6 DEF TakerStates, Writes
<1>8. new \in TakerStates BY <1>2, <1>4, <1>5, <1>7 DEF TakerStates, TakerPcs
<1>9. TakerGoes(t, new) BY <1>1, <1>3
<1>10. QED BY <1>1, <1>4, <1>6, <1>8, <1>9 DEF TakeSecond

\* The other steps copy nothing and write nothing.
LEMMA TakerElseDoes ==
  ASSUME TypeInv, NEW t \in Takers, TakeWithoutName(t) \/ TakeRequest(t) \/ TakeSend(t)
  PROVE  /\ UNCHANGED <<frame, maxSize>>
         /\ \E new \in TakerStates :
              TakerGoes(t, new) /\ new.pc \in {"wait", "copy", "idle"} /\ new.out \in {NoWrite, taker[t].out}
<1>1. IdleTaker \in TakerStates BY NothingTyped
<1>2. taker[t] \in TakerStates /\ pic.no \in Pictures BY DEF TypeInv
<1>3. CASE TakeWithoutName(t)
  <2>1. PICK new : new = [IdleTaker EXCEPT !.pc = "wait"] OBVIOUS
  <2>2. new \in TakerStates /\ new.pc = "wait" /\ new.out = NoWrite
    BY <1>1, <2>1 DEF IdleTaker, TakerStates, TakerPcs
  <2>3. QED BY <1>3, <2>1, <2>2 DEF TakeWithoutName
<1>4. CASE TakeRequest(t)
  <2>1. PICK new : new = [IdleTaker EXCEPT !.pc = "copy"] OBVIOUS
  <2>2. new \in TakerStates /\ new.pc = "copy" /\ new.out = NoWrite
    BY <1>1, <2>1 DEF IdleTaker, TakerStates, TakerPcs
  <2>3. QED BY <1>4, <2>1, <2>2 DEF TakeRequest
<1>5. CASE TakeSend(t)
  <2>1. PICK new : new = [taker[t] EXCEPT !.pc = "idle", !.sent = pic.no] OBVIOUS
  <2>2. new \in TakerStates /\ new.pc = "idle" /\ new.out = taker[t].out
    BY <1>2, <2>1 DEF TakerStates, TakerPcs
  <2>3. QED BY <1>5, <2>1, <2>2 DEF TakeSend
<1>6. QED BY <1>3, <1>4, <1>5

\* Whatever a taker does, the folder, the mjpg file and the worker stay.
LEMMA TakerDoes ==
  ASSUME TypeInv, NEW t \in Takers, TakerStep(t)
  PROVE  /\ taker' \in [Takers -> TakerStates]
         /\ frame' \in [gen : Nat, size : Int, pic : Pictures \cup {Freed}] /\ maxSize' \in Nat
         /\ UNCHANGED <<environment, worker, counter, disk, movie>>
<1>1. \E new \in TakerStates : TakerGoes(t, new)
  BY NothingTyped, TakeCopyDoes, TakeFirstDoes, TakeSecondDoes, TakerElseDoes DEF TakerStep
<1>2. UNCHANGED <<frame, maxSize>> \/ CopyToFrame \/ ReallocFails
  BY TakeCopyDoes, TakeFirstDoes, TakeSecondDoes, TakerElseDoes DEF TakerStep
<1>3. /\ frame' \in [gen : Nat, size : Int, pic : Pictures \cup {Freed}] /\ maxSize' \in Nat
  BY <1>2, CopyDoes DEF TypeInv
<1>4. QED BY <1>1, <1>3, TakerGets


-----------------------------------------------------------------------------
(* Type correctness.                                                       *)

\* A picture is published, and who waits is woken.
LEMMA PublishDoes ==
  ASSUME TypeInv, Publish
  PROVE  /\ pic' \in [no : Pictures, size : Sizes \cup {0}] /\ pic'.no = pic.no + 1
         /\ worker' \in Workers /\ worker'.out = worker.out /\ worker'.gen = worker.gen
         /\ worker'.pc = (IF worker.pc = "wait" THEN "copy" ELSE worker.pc)
         /\ taker' \in [Takers -> TakerStates]
         /\ \A t \in Takers :
              /\ taker'[t].out = taker[t].out
              /\ taker'[t].pc = (IF taker[t].pc = "wait" THEN "send" ELSE taker[t].pc)
         /\ UNCHANGED <<setup, clock, restarts, stuck, frame, maxSize, counter, disk, movie>>
<1>1. pic' \in [no : Pictures, size : Sizes \cup {0}] /\ pic'.no = pic.no + 1
  <2>1. PICK s \in Sizes : pic' = [no |-> pic.no + 1, size |-> s] BY DEF Publish
  <2>2. pic.no \in Pictures /\ pic.no < setup.pics BY DEF Publish, TypeInv
  <2>3. pic.no + 1 \in Pictures BY <2>2, SetupTyped DEF Pictures
  <2>4. QED BY <2>1, <2>3
<1>2. /\ worker' \in Workers /\ worker'.out = worker.out /\ worker'.gen = worker.gen
      /\ worker'.pc = (IF worker.pc = "wait" THEN "copy" ELSE worker.pc)
  <2>1. "copy" \in WorkerPcs BY DEF WorkerPcs
  <2>2. CASE worker.pc = "wait"
    <3>1. worker' = [worker EXCEPT !.pc = "copy"] BY <2>2 DEF Publish
    <3>2. QED BY <2>1, <2>2, <3>1, WorkerGoes
  <2>3. CASE worker.pc # "wait" BY <2>3 DEF Publish, TypeInv
  <2>4. QED BY <2>2, <2>3
<1>3. ASSUME NEW t \in Takers
      PROVE  /\ taker'[t] \in TakerStates /\ taker'[t].out = taker[t].out
             /\ taker'[t].pc = (IF taker[t].pc = "wait" THEN "send" ELSE taker[t].pc)
  <2>1. taker[t] \in TakerStates BY DEF TypeInv
  <2>2. taker'[t] = IF taker[t].pc = "wait" THEN [taker[t] EXCEPT !.pc = "send"] ELSE taker[t] BY DEF Publish
  <2>3. CASE taker[t].pc = "wait" BY <2>1, <2>2, <2>3 DEF TakerStates, TakerPcs
  <2>4. CASE taker[t].pc # "wait" BY <2>1, <2>2, <2>4
  <2>5. QED BY <2>3, <2>4
<1>4. taker' \in [Takers -> TakerStates] BY <1>3 DEF Publish
<1>5. QED BY <1>1, <1>2, <1>3, <1>4 DEF Publish

\* Somebody who waits is woken although nothing is published.
LEMMA SpuriousDoes ==
  ASSUME TypeInv, SpuriousWakeup
  PROVE  /\ setup.spurious
         /\ worker' \in Workers /\ worker'.out = worker.out /\ worker'.gen = worker.gen
         /\ worker'.pc = worker.pc \/ (worker'.pc = "copy" /\ worker.pc = "wait")
         /\ taker' \in [Takers -> TakerStates]
         /\ \A t \in Takers :
              /\ taker'[t].out = taker[t].out
              /\ taker'[t].pc = taker[t].pc \/ taker'[t].pc = "send"
         /\ UNCHANGED <<environment, frame, maxSize, counter, disk, movie>>
<1>1. worker \in Workers /\ taker \in [Takers -> TakerStates] BY DEF TypeInv
<1>2. CASE worker.pc = "wait" /\ worker' = [worker EXCEPT !.pc = "copy"] /\ UNCHANGED taker
  <2>1. "copy" \in WorkerPcs BY DEF WorkerPcs
  <2>2. QED BY <1>1, <1>2, <2>1, WorkerGoes DEF SpuriousWakeup
<1>3. ASSUME NEW t \in Takers, taker' = [taker EXCEPT ![t].pc = "send"], UNCHANGED worker
      PROVE  /\ taker' \in [Takers -> TakerStates]
             /\ \A u \in Takers : /\ taker'[u].out = taker[u].out
                                  /\ taker'[u].pc = taker[u].pc \/ taker'[u].pc = "send"
  <2>1. taker' = [taker EXCEPT ![t] = [taker[t] EXCEPT !.pc = "send"]] BY <1>3
  <2>2. PICK new : new = [taker[t] EXCEPT !.pc = "send"] OBVIOUS
  <2>3. new \in TakerStates /\ new.pc = "send" /\ new.out = taker[t].out
    BY <1>1, <2>2 DEF TakerStates, TakerPcs
  <2>4. taker' = [taker EXCEPT ![t] = new] BY <2>1, <2>2
  <2>5. QED BY <1>1, <2>3, <2>4
<1>4. CASE \E t \in Takers : taker' = [taker EXCEPT ![t].pc = "send"] /\ UNCHANGED worker
  BY <1>1, <1>3, <1>4 DEF SpuriousWakeup
<1>5. QED BY <1>2, <1>4 DEF SpuriousWakeup

\* After the cancellation the worker is gone and the buffer freed.
LEMMA CancelledDoes ==
  ASSUME TypeInv, WorkerCancelled
  PROVE  /\ worker' \in Workers /\ worker'.pc = "dead" /\ worker'.out = NoWrite
         /\ frame' \in [gen : Nat, size : Int, pic : Pictures \cup {Freed}] /\ frame'.pic = Freed
         /\ stuck' \in BOOLEAN
         /\ UNCHANGED <<setup, clock, restarts, pic, maxSize, counter, disk, movie, taker>>
<1>1. worker' = [pc |-> "dead", gen |-> 0, out |-> NoWrite] BY DEF WorkerCancelled, IdleWorker
<1>2. worker' \in Workers BY <1>1, NothingTyped DEF Workers, WorkerPcs
<1>3. frame' = [gen |-> frame.gen + 1, size |-> -1, pic |-> Freed] BY DEF WorkerCancelled
<1>4. frame.gen \in Nat BY DEF TypeInv
<1>5. frame' \in [gen : Nat, size : Int, pic : Pictures \cup {Freed}] BY <1>3, <1>4
<1>6. QED BY <1>1, <1>2, <1>3, <1>5 DEF WorkerCancelled

\* At the start the folder is empty and nobody has done anything.
LEMMA TypeStart == Init => TypeInv
<1> SUFFICES ASSUME Init PROVE TypeInv OBVIOUS
<1>1. setup \in Setups BY DEF Init
<1>2. setup.pics \in Nat /\ setup.seconds \in Nat /\ setup.restarts \in Nat BY <1>1, SetupsAssumption
<1>3. 0 \in Pictures BY <1>2 DEF Pictures
<1>4. NoWrite \in Writes BY <1>3 DEF NoWrite, Writes
<1>5. IdleWorker \in Workers /\ IdleTaker \in TakerStates
  BY <1>3, <1>4 DEF IdleWorker, IdleTaker, Workers, TakerStates, WorkerPcs, TakerPcs
<1>6. DiskTyped BY FS_EmptySet DEF Init, DiskTyped
<1>7. FileThere BY DEF Init, FileThere, IdleWorker
<1>8. frame \in [gen : Nat, size : Int, pic : Pictures \cup {Freed}] BY <1>3 DEF Init
<1>9. taker \in [Takers -> TakerStates] BY <1>5 DEF Init
<1>10. pic \in [no : Pictures, size : Sizes \cup {0}] BY <1>3 DEF Init
<1>11. restarts \in 0 .. setup.restarts /\ clock \in Nat \ {0} /\ clock <= setup.seconds + restarts + 1
  BY <1>2 DEF Init
<1>12. /\ movie \in Seq(Writes) /\ maxSize \in Nat /\ counter \in Nat /\ stuck \in BOOLEAN
  <2>1. movie = <<>> /\ maxSize = 0 /\ counter = 0 /\ stuck = FALSE BY DEF Init
  <2>2. movie \in Seq(Writes) BY <2>1
  <2>3. maxSize \in Nat /\ counter \in Nat BY <2>1
  <2>4. QED BY <2>1, <2>2, <2>3, Zenon
<1>13. worker \in Workers BY <1>5 DEF Init
<1>14. QED BY <1>1, <1>6, <1>7, <1>8, <1>9, <1>10, <1>11, <1>12, <1>13 DEF TypeInv

\* TypeInv after a step, in terms of what was before it.
LEMMA TypeNext ==
  ASSUME TypeInv, UNCHANGED setup,
         clock' \in Nat \ {0}, restarts' \in 0 .. setup.restarts, clock' <= setup.seconds + restarts' + 1,
         pic' \in [no : Pictures, size : Sizes \cup {0}], stuck' \in BOOLEAN,
         frame' \in [gen : Nat, size : Int, pic : Pictures \cup {Freed}],
         maxSize' \in Nat, counter' \in Nat,
         worker' \in Workers, taker' \in [Takers -> TakerStates],
         movie' \in Seq(Writes), DiskTyped', FileThere'
  PROVE  TypeInv'
<1>1. /\ Pictures' = Pictures /\ Writes' = Writes /\ Workers' = Workers
      /\ TakerStates' = TakerStates /\ Takers' = Takers
  BY SetupStays
<1>2. setup' \in Setups BY DEF TypeInv
<1>3. QED BY <1>1, <1>2 DEF TypeInv

\* A step that leaves the environment and the takers to themselves.
LEMMA WorkerTyped ==
  ASSUME TypeInv, UNCHANGED <<environment, taker>>,
         frame' \in [gen : Nat, size : Int, pic : Pictures \cup {Freed}], maxSize' \in Nat, counter' \in Nat,
         worker' \in Workers, movie' \in Seq(Writes), DiskTyped', FileThere'
  PROVE  TypeInv'
<1>1. /\ clock \in Nat \ {0} /\ restarts \in 0 .. setup.restarts /\ clock <= setup.seconds + restarts + 1
      /\ pic \in [no : Pictures, size : Sizes \cup {0}] /\ stuck \in BOOLEAN /\ taker \in [Takers -> TakerStates]
  BY DEF TypeInv
<1>2. UNCHANGED <<setup, clock, restarts, pic, stuck, taker>> BY DEF environment
<1>3. QED BY <1>1, <1>2, TypeNext

\* Every step keeps the types.
LEMMA TypeStep == TypeInv /\ [Next]_vars => TypeInv'
<1> SUFFICES ASSUME TypeInv, [Next]_vars PROVE TypeInv' OBVIOUS
<1>1. /\ clock \in Nat \ {0} /\ restarts \in 0 .. setup.restarts /\ clock <= setup.seconds + restarts + 1
      /\ pic \in [no : Pictures, size : Sizes \cup {0}] /\ stuck \in BOOLEAN
      /\ frame \in [gen : Nat, size : Int, pic : Pictures \cup {Freed}]
      /\ maxSize \in Nat /\ counter \in Nat
      /\ worker \in Workers /\ taker \in [Takers -> TakerStates]
      /\ movie \in Seq(Writes) /\ DiskTyped /\ FileThere
  BY DEF TypeInv
<1>2. UNCHANGED setup /\ UNCHANGED disk => DiskTyped' BY <1>1, DiskShrinks
<1>3. CASE Publish
  <2>1. FileThere' BY <1>1, <1>3, PublishDoes, SetupStays DEF FileThere
  <2>2. QED BY <1>1, <1>2, <1>3, <2>1, PublishDoes, TypeNext
<1>4. CASE Tick
  <2>1. clock < setup.seconds /\ clock' = clock + 1
        /\ UNCHANGED <<setup, restarts, pic, stuck, frame, maxSize, worker, counter, disk, movie, taker>>
    BY <1>4 DEF Tick
  <2>2. FileThere' BY <1>1, <2>1, SetupStays DEF FileThere
  <2>3. clock' \in Nat \ {0} /\ clock' <= setup.seconds + restarts' + 1 BY <1>1, <2>1, SetupTyped
  <2>4. QED BY <1>1, <1>2, <2>1, <2>2, <2>3, TypeNext
<1>5. CASE Restart
  <2>1. /\ restarts < setup.restarts /\ restarts' = restarts + 1 /\ clock' \in {clock, clock + 1}
        /\ UNCHANGED <<setup, disk>>
    BY <1>5 DEF Restart
  <2>2. /\ pic' = [no |-> 0, size |-> 0] /\ stuck' = FALSE /\ maxSize' = 0 /\ counter' = 0 /\ movie' = <<>>
        /\ frame' = [gen |-> 0, size |-> 0, pic |-> 0]
        /\ worker' = IdleWorker /\ taker' = [t \in Takers |-> IdleTaker]
    BY <1>5 DEF Restart
  <2>3. FileThere' BY <2>2 DEF FileThere, IdleWorker
  <2>4. /\ restarts' \in 0 .. setup.restarts /\ clock' \in Nat \ {0} /\ clock' <= setup.seconds + restarts' + 1
    <3>1. setup.restarts \in Nat /\ setup.seconds \in Nat BY SetupTyped
    <3>2. restarts' \in 0 .. setup.restarts BY <1>1, <2>1, <3>1
    <3>3. clock' = clock \/ clock' = clock + 1 BY <2>1
    <3>4. clock' \in Nat \ {0} BY <1>1, <3>3
    <3>5. clock' <= clock + 1 BY <1>1, <3>3
    <3>6. clock' <= setup.seconds + restarts' + 1 BY <1>1, <2>1, <3>1, <3>4, <3>5
    <3>7. QED BY <3>2, <3>4, <3>6
  <2>5. frame' \in [gen : Nat, size : Int, pic : Pictures \cup {Freed}] BY <2>2, NothingTyped
  <2>6. worker' \in Workers /\ taker' \in [Takers -> TakerStates] BY <2>2, NothingTyped
  <2>7. movie' \in Seq(Writes) /\ maxSize' \in Nat /\ counter' \in Nat BY <2>2
  <2>8. stuck' \in BOOLEAN BY <2>2, Zenon
  <2>9. pic' \in [no : Pictures, size : Sizes \cup {0}] BY <2>2, NothingTyped
  <2>10. QED BY <1>1, <1>2, <2>1, <2>3, <2>4, <2>5, <2>6, <2>7, <2>8, <2>9, TypeNext
<1>6. CASE WorkerLoop
  <2>1. "wait" \in WorkerPcs BY DEF WorkerPcs
  <2>2. worker' = [worker EXCEPT !.pc = "wait"] /\ UNCHANGED <<environment, frame, maxSize, counter, disk, movie, taker>>
    BY <1>6 DEF WorkerLoop
  <2>3. worker' \in Workers /\ worker'.pc = "wait" BY <2>1, <2>2, WorkerGoes
  <2>4. FileThere' BY <2>3 DEF FileThere
  <2>5. QED BY <1>1, <1>2, <2>2, <2>3, <2>4, WorkerTyped DEF environment
<1>7. CASE WorkerCopy
  <2>1. /\ worker.pc = "copy" /\ worker' \in Workers /\ UNCHANGED <<environment, counter, disk, movie, taker>>
        /\ worker'.pc \in {IF mjpeg THEN "first" ELSE "open", "dead"}
        /\ (CopyToFrame \/ ReallocFails)
        /\ CopyToFrame \/ worker'.pc = "dead"
    BY <1>7, WorkerCopyDoes
  <2>2. UNCHANGED setup BY <2>1 DEF environment
  <2>3. FileThere' BY <2>1, <2>2, SetupStays DEF FileThere
  <2>4. frame' \in [gen : Nat, size : Int, pic : Pictures \cup {Freed}] /\ maxSize' \in Nat BY <2>1, CopyDoes
  <2>5. QED BY <1>1, <1>2, <2>1, <2>2, <2>3, <2>4, WorkerTyped
<1>8. CASE WorkerOpen
  <2>1. /\ worker.pc = "open" /\ worker' \in Workers
        /\ UNCHANGED <<environment, frame, maxSize, movie, taker>> /\ counter' \in {counter, counter + 1} /\ DiskTyped'
        /\ \/ worker'.pc = "first" /\ disk' # {}
           \/ worker'.pc = "dead"
    BY <1>8, WorkerOpenDoes
  <2>2. UNCHANGED setup BY <2>1 DEF environment
  <2>3. FileThere' BY <2>1, <2>2, SetupStays DEF FileThere
  <2>4. counter' \in Nat BY <1>1, <2>1
  <2>5. QED BY <1>1, <2>1, <2>3, <2>4, WorkerTyped
<1>9. CASE WorkerFirst
  <2>1. /\ worker.pc = "first" /\ worker' \in Workers /\ UNCHANGED <<environment, frame, maxSize, counter, taker>>
        /\ \/ worker'.pc = "second" /\ Store(worker'.out)
           \/ worker'.pc = "dead" /\ UNCHANGED <<disk, movie>>
    BY <1>9, WorkerFirstDoes
  <2>2. UNCHANGED setup BY <2>1 DEF environment
  <2>3. CASE worker'.pc = "dead" /\ UNCHANGED <<disk, movie>>
    <3>1. FileThere' BY <2>3 DEF FileThere
    <3>2. QED BY <1>1, <1>2, <2>1, <2>2, <2>3, <3>1, WorkerTyped
  <2>4. CASE worker'.pc = "second" /\ Store(worker'.out)
    <3>1. PICK data \in Writes : data = worker'.out BY <2>1 DEF Workers
    <3>2. Store(data) BY <2>4, <3>1 DEF Store
    <3>3. DiskTyped' /\ movie' \in Seq(Writes) /\ (mjpeg => movie' # <<>>) /\ (~mjpeg => disk' # {})
      BY <2>1, <2>2, <3>2, StoreDoes
    <3>4. FileThere' BY <2>2, <2>4, <3>3, SetupStays DEF FileThere
    <3>5. QED BY <1>1, <2>1, <3>3, <3>4, WorkerTyped
  <2>5. QED BY <2>1, <2>3, <2>4
<1>10. CASE WorkerSecond
  <2>1. /\ worker.pc = "second" /\ worker' \in Workers /\ UNCHANGED <<environment, frame, maxSize, counter, taker>>
        /\ worker'.pc = (IF mjpeg THEN "loop" ELSE "maintain") /\ Store(worker'.out)
    BY <1>10, WorkerSecondDoes
  <2>2. UNCHANGED setup BY <2>1 DEF environment
  <2>3. PICK data \in Writes : data = worker'.out BY <2>1 DEF Workers
  <2>4. Store(data) BY <2>1, <2>3 DEF Store
  <2>5. DiskTyped' /\ movie' \in Seq(Writes) BY <2>1, <2>2, <2>4, StoreDoes
  <2>6. FileThere' BY <2>1, <2>2, SetupStays DEF FileThere
  <2>7. QED BY <1>1, <2>1, <2>5, <2>6, WorkerTyped
<1>11. CASE WorkerMaintain
  <2>1. /\ worker' = IdleWorker /\ disk' \subseteq disk
        /\ UNCHANGED <<environment, frame, maxSize, counter, movie, taker>>
    BY <1>11, WorkerMaintainDoes
  <2>2. DiskTyped' BY <1>1, <2>1, DiskShrinks DEF environment
  <2>3. FileThere' BY <2>1 DEF FileThere, IdleWorker
  <2>4. QED BY <1>1, <2>1, <2>2, <2>3, NothingTyped, WorkerTyped
<1>12. CASE WorkerCancelled
  <2>1. FileThere' BY <1>12, CancelledDoes DEF FileThere
  <2>2. QED BY <1>1, <1>2, <1>12, <2>1, CancelledDoes, TypeNext
<1>13. ASSUME NEW t \in Takers, TakerStep(t) PROVE TypeInv'
  <2>1. /\ taker' \in [Takers -> TakerStates]
        /\ frame' \in [gen : Nat, size : Int, pic : Pictures \cup {Freed}] /\ maxSize' \in Nat
        /\ UNCHANGED <<setup, clock, restarts, pic, stuck, worker, counter, disk, movie>>
    BY <1>13, TakerDoes DEF environment
  <2>2. FileThere' BY <1>1, <2>1, SetupStays DEF FileThere
  <2>3. QED BY <1>1, <1>2, <2>1, <2>2, TypeNext
<1>14. CASE UNCHANGED vars
  <2>1. UNCHANGED <<setup, clock, restarts, pic, stuck, frame, maxSize, worker, counter, disk, movie, taker>>
    BY <1>14 DEF vars
  <2>2. FileThere' BY <1>1, <2>1, SetupStays DEF FileThere
  <2>3. QED BY <1>1, <1>2, <2>1, <2>2, TypeNext
<1>15. CASE SpuriousWakeup
  <2>1. FileThere' BY <1>1, <1>15, SpuriousDoes, SetupStays DEF FileThere, environment
  <2>2. QED BY <1>1, <1>2, <1>15, <2>1, SpuriousDoes, TypeNext DEF environment
<1>16. CASE SetBack
  <2>1. clock' \in 1 .. clock - 1
        /\ UNCHANGED <<setup, restarts, pic, stuck, frame, maxSize, worker, counter, disk, movie, taker>>
    BY <1>16 DEF SetBack
  <2>2. FileThere' BY <1>1, <2>1, SetupStays DEF FileThere
  <2>3. clock' \in Nat \ {0} /\ clock' <= setup.seconds + restarts' + 1 BY <1>1, <2>1, SetupTyped
  <2>4. QED BY <1>1, <1>2, <2>1, <2>2, <2>3, TypeNext
<1>17. QED
  BY <1>3, <1>4, <1>5, <1>6, <1>7, <1>8, <1>9, <1>10, <1>11, <1>12, <1>13, <1>14, <1>15, <1>16 DEF Next, WorkerStep

\* The plugin keeps to its types, whatever its options, the restarts and the
\* browsers.
THEOREM TypeCorrect == Spec => []TypeOK
<1>1. Spec => []TypeInv BY TypeStart, TypeStep, PTL DEF Spec
<1>2. TypeInv => TypeOK
  <2> SUFFICES ASSUME TypeInv PROVE TypeOK OBVIOUS
  <2>1. clock \in 1 .. setup.seconds + restarts + 1 BY SetupTyped DEF TypeInv
  <2>2. \A f \in disk : f.t \in Nat /\ f.n \in Nat /\ f.seq \in Nat /\ f.data \in Writes
    BY DEF TypeInv, DiskTyped, Files
  <2>3. \A i \in DOMAIN movie : movie[i] \in Writes BY DEF TypeInv
  <2>4. \A t \in Takers : taker[t].out \in Writes /\ taker[t].sent \in Pictures
    BY DEF TypeInv, TakerStates
  <2>5. worker.pc \in WorkerPcs /\ worker.out \in Writes BY DEF TypeInv, Workers
  <2>6. /\ restarts \in 0 .. setup.restarts /\ pic.no \in Pictures /\ pic.size \in Sizes \cup {0} /\ stuck \in BOOLEAN
        /\ frame.gen \in Nat /\ frame.size \in Int /\ frame.pic \in Pictures \cup {Freed}
        /\ maxSize \in Nat /\ counter \in Nat
    BY DEF TypeInv
  <2>7. QED BY <2>1, <2>2, <2>3, <2>4, <2>5, <2>6 DEF TypeOK, WorkerPcs
<1>3. QED BY <1>1, <1>2, PTL


-----------------------------------------------------------------------------
(* The bound of the ring buffer.                                           *)

\* The names sort the files of a folder: of two, one is before the other.
LEMMA NamesSort ==
  ASSUME DiskTyped, NEW f \in disk, NEW g \in disk, f # g
  PROVE  /\ Before(f, g) \/ Before(g, f)
         /\ ~Before(f, f)
<1>1. \A h \in disk : h.t \in Nat /\ h.n \in Nat BY DEF DiskTyped, Files
<1>2. f.t # g.t \/ f.n # g.n BY DEF DiskTyped, FileName
<1>3. QED BY <1>1, <1>2 DEF Before

\* maintain_ringbuffer keeps no more than ringSize files: each has another
\* number of files behind it, and that number is less than ringSize.
LEMMA KeptBound ==
  ASSUME TypeInv, ringSize >= 0
  PROVE  Cardinality(disk \ Doomed) <= ringSize
<1> DEFINE kept == disk \ Doomed
           behind(f) == {g \in disk : Before(f, g)}
<1>1. DiskTyped /\ IsFiniteSet(disk) /\ ringSize \in Nat
  <2>1. DiskTyped BY DEF TypeInv
  <2>2. IsFiniteSet(disk) BY <2>1 DEF DiskTyped
  <2>3. QED BY <2>1, <2>2, SetupTyped
<1>2. IsFiniteSet(kept) /\ Cardinality(kept) \in Nat BY <1>1, FS_Subset, FS_CardinalityType
<1>3. \A f \in disk : IsFiniteSet(behind(f)) /\ Cardinality(behind(f)) \in Nat
  BY <1>1, FS_Subset, FS_CardinalityType
<1> DEFINE rank == [f \in kept |-> Cardinality(behind(f))]
<1>4. rank \in [kept -> 0 .. ringSize - 1]
  <2>1. ASSUME NEW f \in kept PROVE Cardinality(behind(f)) \in 0 .. ringSize - 1
    <3>1. ~(Cardinality(behind(f)) >= ringSize) BY DEF Doomed
    <3>2. Cardinality(behind(f)) \in Nat BY <1>3
    <3> HIDE DEF behind
    <3>3. QED BY <1>1, <3>1, <3>2
  <2>2. QED BY <2>1
<1>5. SUFFICES ASSUME Cardinality(kept) > ringSize PROVE FALSE BY <1>1, <1>2
<1>6. IsFiniteSet(0 .. ringSize - 1) /\ Cardinality(0 .. ringSize - 1) = ringSize BY <1>1, FS_Interval
<1>7. \E f, g \in kept : f # g /\ rank[f] = rank[g]
  <2> HIDE DEF kept, rank
  <2>1. Cardinality(0 .. ringSize - 1) < Cardinality(kept) BY <1>5, <1>6, <1>2, <1>1
  <2>2. QED BY <1>2, <1>4, <1>6, <2>1, FS_PigeonHole
<1>8. \A f, g \in disk : f # g /\ Before(f, g) => Cardinality(behind(g)) < Cardinality(behind(f))
  <2> SUFFICES ASSUME NEW f \in disk, NEW g \in disk, f # g, Before(f, g)
               PROVE  Cardinality(behind(g)) < Cardinality(behind(f))
    OBVIOUS
  <2>1. behind(g) \in SUBSET behind(f) /\ g \in behind(f) \ behind(g)
    <3>1. ~Before(g, g) BY <1>1, NamesSort
    <3>2. \A h \in disk : Before(g, h) => Before(f, h)
      <4>1. \A h \in disk : h.t \in Nat /\ h.n \in Nat BY <1>1 DEF DiskTyped, Files
      <4>2. QED BY <4>1 DEF Before
    <3>3. QED BY <3>1, <3>2
  <2> HIDE DEF behind
  <2>2. Cardinality(behind(g)) <= Cardinality(behind(f)) /\ behind(g) # behind(f)
        /\ (Cardinality(behind(f)) = Cardinality(behind(g)) => behind(f) = behind(g))
    BY <1>3, <2>1, FS_Subset
  <2>3. QED BY <1>3, <2>2
<1>9. PICK f \in kept, g \in kept : f # g /\ Cardinality(behind(f)) = Cardinality(behind(g)) BY <1>7
<1>10. f \in disk /\ g \in disk OBVIOUS
<1> HIDE DEF kept, behind
<1>11. QED BY <1>1, <1>3, <1>8, <1>9, <1>10, NamesSort


\* RoundBound at the start, and after each step.
LEMMA RoundStart == Init => RoundBound
<1> SUFFICES ASSUME Init PROVE RoundBound OBVIOUS
<1>1. worker.pc = "loop" /\ counter = 0 BY DEF Init, IdleWorker
<1>2. QED BY <1>1 DEF RoundBound

\* What is needed of the new state: where the worker is, the counter, and how
\* many files there are.
LEMMA RoundNext ==
  ASSUME TypeInv, UNCHANGED setup, RoundBound,
         NEW files \in Nat, files = Cardinality(disk'),
         \/ UNCHANGED counter /\ files <= Cardinality(disk)
              /\ \/ worker'.pc = worker.pc
                 \/ worker'.pc = "copy" /\ worker.pc = "wait"
                 \/ worker'.pc = "wait" /\ worker.pc = "loop"
                 \/ worker'.pc = "open" /\ worker.pc = "copy"
                 \/ worker'.pc = "second" /\ worker.pc = "first"
                 \/ worker'.pc = "maintain" /\ worker.pc = "second"
         \/ UNCHANGED counter /\ worker'.pc = "dead"
         \/ UNCHANGED counter /\ mjpeg /\ counter = 0
  PROVE  RoundBound'
<1>1. UNCHANGED <<mjpeg, ringSize, Spare>> BY SetupStays
<1>2. Cardinality(disk) \in Nat /\ ringSize \in Int /\ Spare \in Nat /\ counter \in Nat
  <2>1. IsFiniteSet(disk) BY DEF TypeInv, DiskTyped
  <2>2. QED BY <2>1, SetupTyped, FS_CardinalityType DEF TypeInv
<1>3. counter % (Spare + 1) \in Nat /\ (counter > 1 => (counter - 1) % (Spare + 1) \in Nat) BY <1>2
<1>4. CASE UNCHANGED counter /\ worker'.pc = "dead" BY <1>1, <1>4 DEF RoundBound
<1>5. CASE UNCHANGED counter /\ mjpeg /\ counter = 0 BY <1>1, <1>5 DEF RoundBound
<1>6. QED BY <1>1, <1>2, <1>3, <1>4, <1>5 DEF RoundBound


\* A file that is opened is one more at most.
LEMMA RoundOpen ==
  ASSUME TypeInv, RoundBound, WorkerOpen
  PROVE  RoundBound'
<1>1. /\ counter' \in {counter, counter + 1} /\ worker.pc = "open" /\ UNCHANGED setup /\ ~mjpeg
      /\ \/ worker'.pc = "dead"
         \/ /\ worker'.pc = "first" /\ counter' = counter + 1
            /\ \E new \in Files : disk' = {f \in disk : FileName(f) # <<clock, counter>>} \cup {new}
  BY WorkerOpenDoes DEF environment, TypeInv, FileThere
<1>2. UNCHANGED <<mjpeg, ringSize, Spare>> /\ UNCHANGED setup.failures BY <1>1, SetupStays
<1>3. counter \in Nat /\ counter' \in Nat /\ (worker'.pc = "first" => counter' = counter + 1 /\ counter' > 0)
  BY <1>1 DEF TypeInv
<1>4. CASE worker'.pc = "dead" BY <1>1, <1>2, <1>4 DEF RoundBound
<1>5. CASE worker'.pc = "first"
  <2>1. PICK new \in Files : disk' = {f \in disk : FileName(f) # <<clock, counter>>} \cup {new} BY <1>1, <1>5
  <2>2. IsFiniteSet(disk) BY DEF TypeInv, DiskTyped
  <2>3. PICK rest \in SUBSET disk : rest = {f \in disk : FileName(f) # <<clock, counter>>} OBVIOUS
  <2>4. IsFiniteSet(rest) /\ Cardinality(rest) <= Cardinality(disk) BY <2>2, FS_Subset
  <2>5. Cardinality(disk) \in Nat /\ Cardinality(rest) \in Nat BY <2>2, <2>4, FS_CardinalityType
  <2>6. Cardinality(disk') \in Nat /\ Cardinality(disk') <= Cardinality(disk) + 1
    <3>1. disk' = rest \cup {new} BY <2>1, <2>3
    <3>2. Cardinality(rest \cup {new}) \in {Cardinality(rest), Cardinality(rest) + 1}
      BY <2>4, FS_AddElement
    <3>3. QED BY <2>4, <2>5, <3>1, <3>2
  <2>7. ASSUME ringSize >= 0, ~setup.failures, counter' > 1
        PROVE  Cardinality(disk') <= ringSize + 1 + ((counter' - 1) % (Spare + 1))
    <3>1. Cardinality(disk) <= ringSize + (counter % (Spare + 1)) BY <1>1, <1>3, <2>7 DEF RoundBound
    <3>2. counter' - 1 = counter BY <1>3, <1>5
    <3>3. ringSize \in Int /\ counter % (Spare + 1) \in Int BY <1>3, SetupTyped
    <3>4. QED BY <2>5, <2>6, <3>1, <3>2, <3>3
  <2>8. QED BY <1>1, <1>2, <1>3, <1>5, <2>7 DEF RoundBound
<1>6. QED BY <1>1, <1>4, <1>5

\* Maintenance leaves ringSize files, and until it is due the excess grows by
\* the one file of the round.
LEMMA RoundMaintain ==
  ASSUME TypeInv, RoundBound, WorkerMaintain
  PROVE  RoundBound'
<1>1. worker.pc = "maintain" /\ worker'.pc = "loop" /\ UNCHANGED setup /\ UNCHANGED counter /\ ~mjpeg
  BY WorkerMaintainDoes DEF environment, IdleWorker, TypeInv, FileThere
<1>2. UNCHANGED <<mjpeg, ringSize, Spare>> /\ UNCHANGED setup.failures BY <1>1, SetupStays
<1>3. counter \in Nat /\ counter > 0 /\ ringSize \in Int /\ Spare \in Nat /\ Exceed \in Int
  BY <1>1, SetupTyped DEF TypeInv, RoundBound
<1>4. ASSUME ringSize >= 0, ~setup.failures
      PROVE  Cardinality(disk') <= ringSize + (counter % (Spare + 1))
  <2>1. counter % (Spare + 1) \in Nat BY <1>3
  <2>2. CASE MaintenanceDue
    <3>1. disk' = disk \ Doomed BY <1>4, <2>2 DEF WorkerMaintain
    <3>2. Cardinality(disk') <= ringSize BY <1>4, <3>1, KeptBound
    <3>3. IsFiniteSet(disk') BY <3>1, FS_Subset DEF TypeInv, DiskTyped
    <3>4. Cardinality(disk') \in Nat BY <3>3, FS_CardinalityType
    <3>5. QED BY <1>3, <2>1, <3>2, <3>4
  <2>3. CASE ~MaintenanceDue
    <3>1. disk' = disk BY <2>3 DEF WorkerMaintain
    <3>2. Spare = Exceed /\ counter > 1 /\ counter % (Spare + 1) # 0
      BY <1>3, <2>3 DEF MaintenanceDue, Spare
    <3>3. PICK c \in Nat : c = counter - 1 BY <3>2, <1>3
    <3>4. PICK m \in Nat \ {0} : m = Spare + 1 BY <1>3
    <3>5. c + 1 = counter /\ (c + 1) % m # 0 BY <1>3, <3>2, <3>3, <3>4
    <3>6. (c + 1) % m = (c % m) + 1 BY <3>5, NextRemainder
    <3>7. Cardinality(disk) <= ringSize + 1 + ((counter - 1) % (Spare + 1))
      BY <1>1, <1>4, <3>2 DEF RoundBound
    <3>8. Cardinality(disk) <= ringSize + 1 + (c % m) BY <3>3, <3>4, <3>7
    <3>9. Cardinality(disk) \in Nat /\ c % m \in Nat
      BY <3>3, <3>4, FS_CardinalityType DEF TypeInv, DiskTyped
    <3>10. Cardinality(disk) <= ringSize + ((c + 1) % m) BY <1>3, <3>6, <3>8, <3>9
    <3>11. QED BY <3>1, <3>4, <3>5, <3>10
  <2>4. QED BY <2>2, <2>3
<1>5. QED BY <1>1, <1>2, <1>3, <1>4 DEF RoundBound

\* Every step keeps the bound of its round.
LEMMA RoundStep == TypeInv /\ RoundBound /\ [Next]_vars => RoundBound'
<1> SUFFICES ASSUME TypeInv, RoundBound, [Next]_vars PROVE RoundBound' OBVIOUS
<1>1. IsFiniteSet(disk) /\ Cardinality(disk) \in Nat BY FS_CardinalityType DEF TypeInv, DiskTyped
<1>2. PICK files : files = Cardinality(disk') OBVIOUS
<1>3. ASSUME UNCHANGED <<setup, counter, disk>>,
             \/ worker'.pc = worker.pc
             \/ worker'.pc = "copy" /\ worker.pc = "wait"
             \/ worker'.pc = "wait" /\ worker.pc = "loop"
             \/ worker'.pc = "open" /\ worker.pc = "copy"
             \/ worker'.pc = "dead"
      PROVE  RoundBound'
  <2>1. files = Cardinality(disk) BY <1>2, <1>3
  <2>2. files \in Nat /\ files <= Cardinality(disk) BY <1>1, <2>1
  <2>3. QED BY <1>2, <1>3, <2>2, RoundNext
<1>4. CASE Publish
  <2>1. worker'.pc = (IF worker.pc = "wait" THEN "copy" ELSE worker.pc) /\ UNCHANGED <<setup, counter, disk>>
    BY <1>4, PublishDoes
  <2>2. QED BY <1>3, <2>1
<1>5. CASE Tick BY <1>3, <1>5 DEF Tick
<1>6. CASE Restart
  <2>1. worker'.pc = "loop" /\ counter' = 0 BY <1>6 DEF Restart, IdleWorker
  <2>2. QED BY <2>1 DEF RoundBound
<1>7. CASE WorkerLoop
  <2>1. "wait" \in WorkerPcs BY DEF WorkerPcs
  <2>2. worker' = [worker EXCEPT !.pc = "wait"] /\ worker.pc = "loop" /\ UNCHANGED <<setup, counter, disk>>
    BY <1>7 DEF WorkerLoop, environment
  <2>3. worker'.pc = "wait" BY <2>1, <2>2, WorkerGoes
  <2>4. QED BY <1>3, <2>2, <2>3
<1>8. CASE WorkerCopy
  <2>1. /\ worker.pc = "copy" /\ UNCHANGED <<setup, counter, disk>>
        /\ worker'.pc \in {IF mjpeg THEN "first" ELSE "open", "dead"}
    BY <1>8, WorkerCopyDoes DEF environment
  <2>2. CASE mjpeg
    <3>1. counter = 0 BY <2>2 DEF RoundBound
    <3>2. files \in Nat BY <1>1, <1>2, <2>1
    <3>3. QED BY <1>2, <2>1, <2>2, <3>1, <3>2, RoundNext
  <2>3. CASE ~mjpeg BY <1>3, <2>1, <2>3
  <2>4. QED BY <2>2, <2>3
<1>9. CASE WorkerOpen BY <1>9, RoundOpen
<1>10. CASE WorkerFirst
  <2>1. /\ worker.pc = "first" /\ UNCHANGED <<setup, counter>> /\ worker' \in Workers
        /\ \/ worker'.pc = "second" /\ Store(worker'.out)
           \/ worker'.pc = "dead" /\ UNCHANGED disk
    BY <1>10, WorkerFirstDoes DEF environment
  <2>2. CASE worker'.pc = "dead" /\ UNCHANGED disk BY <1>3, <2>1, <2>2
  <2>3. CASE worker'.pc = "second" /\ Store(worker'.out)
    <3>1. PICK data \in Writes : data = worker'.out BY <2>1 DEF Workers
    <3>2. Store(data) BY <2>3, <3>1 DEF Store
    <3>3. (mjpeg => UNCHANGED disk) /\ (~mjpeg => Cardinality(disk') = Cardinality(disk))
      BY <2>1, <3>2, StoreDoes
    <3>4. files = Cardinality(disk) BY <1>2, <3>3, SetupTyped
    <3>5. files \in Nat /\ files <= Cardinality(disk) BY <1>1, <3>4
    <3>6. QED BY <1>2, <2>1, <2>3, <3>5, RoundNext
  <2>4. QED BY <2>1, <2>2, <2>3
<1>11. CASE WorkerSecond
  <2>1. /\ worker.pc = "second" /\ UNCHANGED <<setup, counter>> /\ worker' \in Workers
        /\ worker'.pc = (IF mjpeg THEN "loop" ELSE "maintain") /\ Store(worker'.out)
    BY <1>11, WorkerSecondDoes DEF environment
  <2>2. PICK data \in Writes : data = worker'.out BY <2>1 DEF Workers
  <2>3. Store(data) BY <2>1, <2>2 DEF Store
  <2>4. (mjpeg => UNCHANGED disk) /\ (~mjpeg => Cardinality(disk') = Cardinality(disk))
    BY <2>1, <2>3, StoreDoes
  <2>5. files = Cardinality(disk) BY <1>2, <2>4, SetupTyped
  <2>6. files \in Nat /\ files <= Cardinality(disk) BY <1>1, <2>5
  <2>7. CASE mjpeg
    <3>1. counter = 0 BY <2>7 DEF RoundBound
    <3>2. QED BY <1>2, <2>1, <2>6, <2>7, <3>1, RoundNext
  <2>8. CASE ~mjpeg BY <1>2, <2>1, <2>6, <2>8, RoundNext
  <2>9. QED BY <2>7, <2>8
<1>12. CASE WorkerMaintain BY <1>12, RoundMaintain
<1>13. CASE WorkerCancelled BY <1>3, <1>13, CancelledDoes
<1>14. ASSUME NEW t \in Takers, TakerStep(t) PROVE RoundBound'
  <2>1. UNCHANGED <<setup, counter, disk, worker>> BY <1>14, TakerDoes DEF environment
  <2>2. QED BY <1>3, <2>1
<1>15. CASE UNCHANGED vars BY <1>3, <1>15 DEF vars
<1>16. CASE SpuriousWakeup BY <1>3, <1>16, SpuriousDoes DEF environment
<1>17. CASE SetBack BY <1>3, <1>17 DEF SetBack
<1>18. QED
  BY <1>4, <1>5, <1>6, <1>7, <1>8, <1>9, <1>10, <1>11, <1>12, <1>13, <1>14, <1>15, <1>16, <1>17
     DEF Next, WorkerStep

\* When the worker waits for its next frame, having saved one since the program
\* was started, the folder holds at most size + exceed files, whatever size and
\* exceed are and however many files the runs before have left.
THEOREM RingIsBounded == Spec => []RingBound
<1>1. TypeInv /\ RoundBound => RingBound
  <2> SUFFICES ASSUME TypeInv, RoundBound, ringSize >= 0, ~setup.failures, worker.pc = "wait", counter > 0
               PROVE  Cardinality(disk) <= ringSize + Spare
    BY DEF RingBound, Spare
  <2>1. Cardinality(disk) <= ringSize + (counter % (Spare + 1)) BY DEF RoundBound
  <2>2. counter % (Spare + 1) \in 0 .. Spare /\ ringSize \in Int /\ Spare \in Nat
    <3>1. counter \in Nat BY DEF TypeInv
    <3>2. Spare \in Nat /\ ringSize \in Int BY SetupTyped
    <3>3. QED BY <3>1, <3>2
  <2>3. Cardinality(disk) \in Nat BY FS_CardinalityType DEF TypeInv, DiskTyped
  <2>4. QED BY <2>1, <2>2, <2>3
<1>2. QED BY <1>1, TypeStart, TypeStep, RoundStart, RoundStep, PTL DEF Spec


-----------------------------------------------------------------------------
(* The oldest files go first.                                              *)

\* The names of the folder after a step that opens no file.
LEMMA NamesKept ==
  ASSUME TypeInv, NamesOrdered, TypeInv', disk' \subseteq disk, UNCHANGED setup,
         clock <= clock' \/ setup.jumps,
         \/ restarts' = restarts /\ counter <= counter'
         \/ restarts' = restarts + 1
  PROVE  NamesOrdered'
<1>1. \A f \in disk : f.t \in Nat /\ f.n \in Nat /\ f.seq \in Nat /\ f.run \in Nat
  BY DEF TypeInv, DiskTyped, Files
<1>2. clock \in Nat /\ clock' \in Nat /\ restarts \in Int /\ restarts' \in Int /\ counter \in Nat /\ counter' \in Nat
  BY DEF TypeInv
<1>3. QED BY <1>1, <1>2 DEF NamesOrdered

\* The file that the worker opens has the last name of its run and its second.
LEMMA NamesOpen ==
  ASSUME TypeInv, NamesOrdered, TypeInv', WorkerOpen
  PROVE  NamesOrdered'
<1>1. counter' \in {counter, counter + 1} /\ UNCHANGED <<setup, clock, restarts>> BY WorkerOpenDoes DEF environment
<1>2. counter \in Nat /\ clock \in Nat /\ restarts \in Int BY DEF TypeInv
<1>3. CASE UNCHANGED disk
  <2>1. counter <= counter' /\ clock <= clock' BY <1>1, <1>2
  <2>2. QED BY <1>1, <1>3, <2>1, NamesKept
<1>4. CASE ~UNCHANGED disk
  <2>1. PICK new \in Files :
          /\ new.t = clock /\ new.n = counter /\ new.run = restarts
          /\ \A f \in disk : f.seq < new.seq
          /\ disk' = {f \in disk : FileName(f) # <<clock, counter>>} \cup {new}
          /\ counter' = counter + 1
    BY <1>4, WorkerOpenDoes
  <2>2. \A f \in disk \cup {new} : f.t \in Nat /\ f.n \in Nat /\ f.seq \in Nat /\ f.run \in Nat
    BY DEF TypeInv, DiskTyped, Files
  <2>3. disk' \subseteq disk \cup {new} BY <2>1
  <2>4. \A f \in disk \cup {new} : f.run <= restarts /\ (f.run = restarts => f.n < counter + 1)
    BY <1>2, <2>1, <2>2 DEF NamesOrdered
  <2>5. ASSUME NEW f \in disk \cup {new}, NEW g \in disk \cup {new}, f.run = g.run, f.n < g.n
        PROVE  f.seq < g.seq
    <3>1. CASE f \in disk /\ g \in disk BY <2>5, <3>1 DEF NamesOrdered
    <3>2. CASE f \in disk /\ g = new BY <2>1, <3>2
    <3>3. CASE f = new
      <4>1. g.run = restarts /\ counter < g.n BY <2>1, <2>5, <3>3
      <4>2. g # new BY <1>2, <2>1, <4>1
      <4>3. g.n < counter BY <4>1, <4>2 DEF NamesOrdered
      <4>4. QED BY <1>2, <2>2, <4>1, <4>3
    <3>4. QED BY <3>1, <3>2, <3>3
  <2>6. ASSUME ~setup.jumps
        PROVE  /\ \A f \in disk \cup {new} : f.t <= clock
               /\ \A f, g \in disk \cup {new} : f.t < g.t => f.seq < g.seq
    <3>1. \A f \in disk \cup {new} : f.t <= clock BY <1>2, <2>1, <2>6 DEF NamesOrdered
    <3>2. ASSUME NEW f \in disk \cup {new}, NEW g \in disk \cup {new}, f.t < g.t PROVE f.seq < g.seq
      <4>1. CASE f \in disk /\ g \in disk BY <2>6, <3>2, <4>1 DEF NamesOrdered
      <4>2. CASE f \in disk /\ g = new BY <2>1, <4>2
      <4>3. CASE f = new BY <1>2, <2>1, <2>2, <3>1, <3>2, <4>3
      <4>4. QED BY <4>1, <4>2, <4>3
    <3>3. QED BY <3>1, <3>2
  <2>7. QED BY <1>1, <2>1, <2>3, <2>4, <2>5, <2>6 DEF NamesOrdered
<1>5. QED BY <1>3, <1>4

\* A file that is written keeps its name.
LEMMA NamesStore ==
  ASSUME TypeInv, NamesOrdered, worker.pc \in {"first", "second"}, UNCHANGED <<setup, clock, restarts, counter>>,
         NEW data \in Writes, Store(data)
  PROVE  NamesOrdered'
<1>1. CASE mjpeg
  <2>1. UNCHANGED disk BY <1>1, StoreDoes
  <2>2. QED BY <2>1 DEF NamesOrdered
<1>2. CASE ~mjpeg
  <2>1. PICK old \in disk, new \in Files :
          /\ new.t = old.t /\ new.n = old.n /\ new.seq = old.seq /\ new.run = old.run
          /\ disk' = (disk \ {old}) \cup {new}
    BY <1>2, StoreDoes
  <2>2. \A f \in disk' : \E g \in disk : f.t = g.t /\ f.n = g.n /\ f.seq = g.seq /\ f.run = g.run BY <2>1
  <2>3. QED BY <2>2 DEF NamesOrdered
<1>3. QED BY <1>1, <1>2

\* Every step keeps the order of the names.
LEMMA NamesStep == TypeInv /\ NamesOrdered /\ [Next]_vars => NamesOrdered'
<1> SUFFICES ASSUME TypeInv, NamesOrdered, [Next]_vars PROVE NamesOrdered' OBVIOUS
<1>1. TypeInv' BY TypeStep
<1>2. clock \in Nat /\ clock <= clock /\ counter <= counter /\ clock <= clock + 1 BY DEF TypeInv
<1>3. ASSUME disk' \subseteq disk, UNCHANGED <<setup, clock, restarts, counter>> PROVE NamesOrdered'
  <2>1. clock <= clock' /\ restarts' = restarts /\ counter <= counter' BY <1>2, <1>3
  <2>2. QED BY <1>1, <1>3, <2>1, NamesKept
<1>4. CASE Publish BY <1>3, <1>4 DEF Publish
<1>5. CASE Tick
  <2>1. clock <= clock' /\ UNCHANGED <<setup, restarts, counter, disk>> BY <1>2, <1>5 DEF Tick
  <2>2. QED BY <1>1, <1>2, <2>1, NamesKept
<1>6. CASE Restart
  <2>1. clock <= clock' /\ restarts' = restarts + 1 /\ UNCHANGED <<setup, disk>> BY <1>2, <1>6 DEF Restart
  <2>2. QED BY <1>1, <2>1, NamesKept
<1>7. CASE WorkerLoop BY <1>3, <1>7 DEF WorkerLoop, environment
<1>8. CASE WorkerCopy BY <1>3, <1>8 DEF WorkerCopy, environment
<1>9. CASE WorkerOpen BY <1>1, <1>9, NamesOpen
<1>10. CASE WorkerFirst
  <2>1. /\ worker.pc = "first" /\ UNCHANGED <<setup, clock, restarts, counter>> /\ worker' \in Workers
        /\ Store(worker'.out) \/ UNCHANGED disk
    BY <1>10, WorkerFirstDoes DEF environment
  <2>2. CASE UNCHANGED disk BY <1>3, <2>1, <2>2
  <2>3. CASE Store(worker'.out)
    <3>1. PICK data \in Writes : data = worker'.out BY <2>1 DEF Workers
    <3>2. Store(data) BY <2>3, <3>1 DEF Store
    <3>3. QED BY <2>1, <3>2, NamesStore
  <2>4. QED BY <2>1, <2>2, <2>3
<1>11. CASE WorkerSecond
  <2>1. /\ worker.pc = "second" /\ UNCHANGED <<setup, clock, restarts, counter>> /\ worker' \in Workers
        /\ Store(worker'.out)
    BY <1>11, WorkerSecondDoes DEF environment
  <2>2. PICK data \in Writes : data = worker'.out BY <2>1 DEF Workers
  <2>3. Store(data) BY <2>1, <2>2 DEF Store
  <2>4. QED BY <2>1, <2>3, NamesStore
<1>12. CASE WorkerMaintain BY <1>3, <1>12, WorkerMaintainDoes DEF environment
<1>13. CASE WorkerCancelled BY <1>3, <1>13 DEF WorkerCancelled
<1>14. ASSUME NEW t \in Takers, TakerStep(t) PROVE NamesOrdered'
  <2>1. UNCHANGED <<setup, clock, restarts, counter, disk>> BY <1>14, TakerDoes DEF environment
  <2>2. QED BY <1>3, <2>1
<1>15. CASE UNCHANGED vars BY <1>3, <1>15 DEF vars
<1>16. CASE SpuriousWakeup BY <1>3, <1>16 DEF SpuriousWakeup, environment
<1>17. CASE SetBack
  <2>1. setup.jumps /\ UNCHANGED <<setup, restarts, counter, disk>> BY <1>17 DEF SetBack
  <2>2. QED BY <1>1, <1>2, <2>1, NamesKept
<1>18. QED
  BY <1>4, <1>5, <1>6, <1>7, <1>8, <1>9, <1>10, <1>11, <1>12, <1>13, <1>14, <1>15, <1>16, <1>17
     DEF Next, WorkerStep

\* At maintenance, only maintenance changes the folder.
LEMMA OnlyMaintains ==
  ASSUME TypeInv, [Next]_vars, worker.pc = "maintain", disk' # disk
  PROVE  WorkerMaintain
<1>1. ~Publish /\ ~SpuriousWakeup /\ ~Tick /\ ~SetBack /\ ~Restart /\ ~WorkerCancelled /\ ~UNCHANGED vars
  BY DEF Publish, SpuriousWakeup, Tick, SetBack, Restart, WorkerCancelled, vars
<1>2. ~WorkerLoop /\ ~WorkerCopy /\ ~WorkerOpen /\ ~WorkerFirst /\ ~WorkerSecond
  BY DEF WorkerLoop, WorkerCopy, WorkerOpen, WorkerFirst, WorkerSecond
<1>3. \A t \in Takers : ~TakerStep(t) BY TakerDoes
<1>4. QED BY <1>1, <1>2, <1>3 DEF Next, WorkerStep

\* If a file is to be deleted then ringSize others are not: those after the last
\* of the doomed ones.
LEMMA EnoughStay ==
  ASSUME TypeInv, ringSize >= 0, Doomed # {}
  PROVE  Cardinality(disk \ Doomed) >= ringSize
<1> DEFINE behind(f) == {g \in disk : Before(f, g)}
           T == {Cardinality(behind(f)) : f \in Doomed}
<1>1. DiskTyped /\ IsFiniteSet(disk) /\ ringSize \in Int BY SetupTyped DEF TypeInv, DiskTyped
<1>2. \A f \in disk : IsFiniteSet(behind(f)) /\ Cardinality(behind(f)) \in Nat
  BY <1>1, FS_Subset, FS_CardinalityType
<1>3. T \in SUBSET Nat /\ T # {} BY <1>2 DEF Doomed
<1>4. PICK least \in T : \A r \in T : least <= r
  <2> HIDE DEF T
  <2>1. QED BY <1>3, MinExists
<1>5. PICK f \in Doomed : Cardinality(behind(f)) = least BY <1>4
<1>6. f \in disk /\ Cardinality(behind(f)) >= ringSize BY DEF Doomed
<1>7. ASSUME NEW g \in behind(f) PROVE g \in disk \ Doomed
  <2>1. g \in disk /\ Before(f, g) OBVIOUS
  <2>2. behind(g) \in SUBSET behind(f) /\ g \in behind(f) \ behind(g)
    <3>1. \A h \in disk : h.t \in Nat /\ h.n \in Nat BY <1>1 DEF DiskTyped, Files
    <3>2. \A h \in disk : Before(g, h) => Before(f, h) BY <1>6, <2>1, <3>1 DEF Before
    <3>3. ~Before(g, g) BY <2>1, <3>1 DEF Before
    <3>4. QED BY <2>1, <3>2, <3>3
  <2>3. Cardinality(behind(g)) < Cardinality(behind(f))
    <3> HIDE DEF behind
    <3>1. /\ Cardinality(behind(g)) <= Cardinality(behind(f)) /\ behind(g) # behind(f)
          /\ Cardinality(behind(f)) = Cardinality(behind(g)) => behind(f) = behind(g)
      BY <1>2, <1>6, <2>2, FS_Subset
    <3>2. QED BY <1>2, <1>6, <2>1, <3>1
  <2>4. g \in Doomed => least <= Cardinality(behind(g)) BY <1>4
  <2> HIDE DEF behind
  <2>5. QED BY <1>2, <1>5, <1>6, <2>1, <2>3, <2>4
<1>8. PICK later \in SUBSET (disk \ Doomed) : later = behind(f) BY <1>7
<1>9. IsFiniteSet(disk \ Doomed) BY <1>1, FS_Subset
<1>10. /\ Cardinality(later) <= Cardinality(disk \ Doomed)
       /\ Cardinality(later) \in Nat /\ Cardinality(disk \ Doomed) \in Nat
  BY <1>8, <1>9, FS_Subset, FS_CardinalityType
<1>11. Cardinality(later) >= ringSize BY <1>6, <1>8
<1>12. QED BY <1>1, <1>10, <1>11

\* ringSize files are left when one is deleted, whatever the names say; and one of
\* a valid time leaves ringSize files that were opened after it: for any size of
\* the ring buffer, any clock, and with deletions that fail.
THEOREM NewestAreKept == Spec => KeepsNewest
<1> DEFINE Kept == worker.pc = "maintain" /\ disk' # disk =>
             /\ ringSize >= 0 /\ Cardinality(disk') >= ringSize
             /\ \A f \in disk \ disk' :
                  TimeValid(f) => Cardinality({g \in disk : g.seq > f.seq}) >= ringSize
<1>1. TypeInv /\ NamesOrdered /\ [Next]_vars => Kept
  <2> SUFFICES ASSUME TypeInv, NamesOrdered, [Next]_vars, worker.pc = "maintain", disk' # disk
               PROVE  /\ ringSize >= 0 /\ Cardinality(disk') >= ringSize
                      /\ \A f \in disk \ disk' :
                           TimeValid(f) => Cardinality({g \in disk : g.seq > f.seq}) >= ringSize
    OBVIOUS
  <2>1. WorkerMaintain BY OnlyMaintains
  <2>2. MaintenanceDue /\ ringSize >= 0 BY <2>1 DEF WorkerMaintain
  <2>3. PICK gone \in SUBSET Doomed : disk' = disk \ gone
    <3>1. PICK gone \in IF setup.failures THEN SUBSET Doomed ELSE {Doomed} : disk' = disk \ gone
      BY <2>1, <2>2 DEF WorkerMaintain
    <3>2. gone \subseteq Doomed OBVIOUS
    <3>3. QED BY <3>1, <3>2
  <2>4. Cardinality(disk') >= ringSize
    <3>1. Doomed # {} BY <2>3
    <3>2. Cardinality(disk \ Doomed) >= ringSize BY <2>2, <3>1, EnoughStay
    <3>3. PICK stay \in SUBSET disk' : stay = disk \ Doomed BY <2>3
    <3>4. IsFiniteSet(disk') BY <2>3, FS_Subset DEF TypeInv, DiskTyped
    <3>5. Cardinality(stay) <= Cardinality(disk') /\ Cardinality(stay) \in Nat /\ Cardinality(disk') \in Nat
      BY <3>3, <3>4, FS_Subset, FS_CardinalityType
    <3>6. ringSize \in Int BY SetupTyped
    <3>7. Cardinality(stay) >= ringSize BY <3>2, <3>3
    <3>8. QED BY <3>5, <3>6, <3>7
  <2>5. ASSUME NEW f \in disk \ disk', TimeValid(f)
        PROVE  Cardinality({g \in disk : g.seq > f.seq}) >= ringSize
    <3>1. \A g \in disk : g.t \in Nat /\ g.n \in Nat /\ g.seq \in Nat BY DEF TypeInv, DiskTyped, Files
    <3>2. ASSUME NEW g \in disk, Before(f, g) PROVE g.seq > f.seq
      <4>1. CASE f.t < g.t
        <5>1. CASE ~setup.jumps BY <4>1, <5>1 DEF NamesOrdered
        <5>2. CASE setup.jumps
          <6>1. ~(g.seq < f.seq) BY <2>5, <3>1, <4>1, <5>2 DEF TimeValid
          <6>2. g.seq # f.seq BY <3>1, <4>1 DEF TypeInv, DiskTyped
          <6>3. QED BY <3>1, <6>1, <6>2
        <5>3. QED BY <5>1, <5>2
      <4>2. CASE f.t = g.t /\ f.n < g.n BY <2>5, <4>2 DEF NamesOrdered, TimeValid
      <4>3. QED BY <3>2, <4>1, <4>2 DEF Before
    <3>3. PICK later \in SUBSET disk : later = {g \in disk : Before(f, g)} OBVIOUS
    <3>4. PICK newer \in SUBSET disk : newer = {g \in disk : g.seq > f.seq} OBVIOUS
    <3>5. later \in SUBSET newer BY <3>2, <3>3, <3>4
    <3>6. IsFiniteSet(newer) BY FS_Subset DEF TypeInv, DiskTyped
    <3>7. /\ Cardinality(later) <= Cardinality(newer)
          /\ Cardinality(later) \in Nat /\ Cardinality(newer) \in Nat
      BY <3>5, <3>6, FS_Subset, FS_CardinalityType
    <3>8. f \in Doomed BY <2>3
    <3>9. Cardinality(later) >= ringSize BY <3>3, <3>8 DEF Doomed
    <3>10. ringSize \in Int BY SetupTyped
    <3>11. Cardinality(newer) >= ringSize BY <3>7, <3>9, <3>10
    <3>12. QED BY <3>4, <3>11
  <2>6. QED BY <2>2, <2>4, <2>5
<1>2. Init => NamesOrdered BY DEF Init, NamesOrdered
<1>3. TypeInv /\ NamesOrdered /\ [Next]_vars => [Kept]_vars BY <1>1
<1>4. QED BY <1>2, <1>3, TypeStart, TypeStep, NamesStep, PTL DEF Spec, KeepsNewest


-----------------------------------------------------------------------------
(* What is saved is never older than what was copied.                      *)

\* A copy is recent as long as the camera goes forward and the buffer gets the
\* picture that is current, or is lost.
LEMMA RecentStays ==
  ASSUME TypeInv, NEW out \in Writes, Recent(out), pic'.no \in Nat, pic.no <= pic'.no,
         frame'.pic \in {frame.pic, pic.no, Freed}
  PROVE  Recent(out)'
<1>1. out.from \in Nat /\ pic.no \in Nat BY NothingTyped DEF TypeInv, Writes
<1>2. frame.pic = Freed \/ frame.pic \in Nat BY NothingTyped DEF TypeInv
<1>3. QED BY <1>1, <1>2, FreedAssumption DEF Recent

\* What AgeInv asks of a new state.
LEMMA AgesNext ==
  ASSUME TypeInv, AgeInv, UNCHANGED setup, pic'.no \in Nat, pic.no <= pic'.no,
         frame'.pic \in {frame.pic, pic.no, Freed},
         NotOlder(worker'.out),
         worker'.pc \in {"open", "first", "second"} => Recent(worker.out)',
         \A t \in Takers : /\ NotOlder(taker'[t].out)
                           /\ taker'[t].pc \in {"first", "second"} => Recent(taker[t].out)',
         \A f \in disk' : NotOlder(f.data)
  PROVE  AgeInv'
<1>1. Takers' = Takers BY SetupStays
<1>2. frame'.pic = Freed \/ frame'.pic <= pic'.no
  <2>1. pic.no \in Nat /\ (frame.pic = Freed \/ frame.pic \in Nat) BY NothingTyped DEF TypeInv
  <2>2. frame.pic = Freed \/ frame.pic <= pic.no BY DEF AgeInv, Ages
  <2>3. QED BY <2>1, <2>2
<1>3. Ages' BY <1>1, <1>2 DEF Ages
<1>4. SavedNotOlder' BY <1>1 DEF SavedNotOlder
<1>5. QED BY <1>3, <1>4 DEF AgeInv

\* What a thread that has just copied a picture is about to write.
LEMMA CopiedIsRecent ==
  ASSUME TypeInv, CopyToFrame, UNCHANGED pic
  PROVE  \A out : out.from = pic.no => Recent(out)'
<1>1. pic.no \in Nat BY NothingTyped DEF TypeInv
<1>2. frame'.pic \in {pic.no, Freed} BY CopyDoes
<1>3. QED BY <1>1, <1>2 DEF Recent

\* Nothing written is not older, and a half written from a recent buffer either.
LEMMA NotOlderHalves ==
  ASSUME TypeInv, NEW out \in Writes, NotOlder(out), Recent(out), NEW bytes \in {frame.pic, Freed, 0}
  PROVE  /\ NotOlder([from |-> out.from, first |-> bytes, second |-> out.second])
         /\ NotOlder([from |-> out.from, first |-> out.first, second |-> bytes])
<1>1. bytes # 0 => bytes = Freed \/ bytes >= out.from
  <2>1. out.from \in Nat /\ (frame.pic = Freed \/ frame.pic \in Nat) BY NothingTyped DEF TypeInv, Writes
  <2>2. QED BY <2>1 DEF Recent
<1>2. QED BY <1>1 DEF NotOlder

\* Nor is what nobody has written.
LEMMA NotOlderNothing == NotOlder(NoWrite) /\ \A n : NotOlder([from |-> n, first |-> 0, second |-> 0])
BY DEF NotOlder, NoWrite

\* A step of the worker, which leaves the takers and the pictures alone.
LEMMA AgesWorker ==
  ASSUME TypeInv, AgeInv, UNCHANGED <<setup, pic, taker>>,
         frame'.pic \in {frame.pic, pic.no, Freed},
         NotOlder(worker'.out),
         worker'.pc \in {"open", "first", "second"} => Recent(worker.out)',
         \A f \in disk' : NotOlder(f.data)
  PROVE  AgeInv'
<1>1. pic'.no \in Nat /\ pic.no <= pic'.no BY NothingTyped DEF TypeInv
<1>2. ASSUME NEW t \in Takers
      PROVE  /\ NotOlder(taker'[t].out)
             /\ taker'[t].pc \in {"first", "second"} => Recent(taker[t].out)'
  <2>1. PICK out \in Writes : out = taker[t].out BY DEF TypeInv, TakerStates
  <2>2. NotOlder(out) /\ (taker[t].pc \in {"first", "second"} => Recent(out)) BY <2>1 DEF AgeInv, Ages, SavedNotOlder
  <2>3. Recent(out) => Recent(out)' BY <1>1, RecentStays
  <2>4. taker'[t].out = out /\ taker'[t].pc = taker[t].pc BY <2>1
  <2>5. Recent(out)' <=> Recent(taker[t].out)' BY <2>4 DEF Recent
  <2>6. QED BY <2>2, <2>3, <2>4, <2>5
<1>3. QED BY <1>1, <1>2, AgesNext

\* A step of the worker that stores what it has.
LEMMA AgesStore ==
  ASSUME TypeInv, AgeInv, UNCHANGED <<setup, pic, frame, taker>>, worker.pc \in {"first", "second"},
         worker' \in Workers, Store(worker'.out), NotOlder(worker'.out), worker'.out.from = worker.out.from
  PROVE  AgeInv'
<1>1. PICK out \in Writes : out = worker'.out BY DEF Workers
<1>2. Store(out) BY <1>1 DEF Store
<1>3. \A f \in disk' : NotOlder(f.data)
  <2>1. \A f \in disk : NotOlder(f.data) BY DEF AgeInv, SavedNotOlder
  <2>2. CASE mjpeg
    <3>1. UNCHANGED disk BY <1>2, <2>2, StoreDoes
    <3>2. QED BY <2>1, <3>1
  <2>3. CASE ~mjpeg
    <3>1. PICK old \in disk, new \in Files : new.data = out /\ disk' = (disk \ {old}) \cup {new}
      BY <1>2, <2>3, StoreDoes
    <3>2. QED BY <1>1, <2>1, <3>1
  <2>4. QED BY <2>2, <2>3
<1>4. Recent(worker.out)' BY DEF AgeInv, Ages, Recent
<1>5. QED BY <1>3, <1>4, AgesWorker

\* A step of one taker.
LEMMA AgesTaker ==
  ASSUME TypeInv, AgeInv, NEW t \in Takers, NEW new \in TakerStates, TakerGoes(t, new),
         frame'.pic \in {frame.pic, pic.no, Freed}, NotOlder(new.out),
         new.pc \in {"first", "second"} => Recent(new.out)'
  PROVE  AgeInv'
<1>1. /\ taker'[t] = new /\ (\A u \in Takers \ {t} : taker'[u] = taker[u])
      /\ UNCHANGED <<setup, pic, worker, disk>>
  BY TakerGets DEF environment
<1>2. pic'.no \in Nat /\ pic.no <= pic'.no BY <1>1, NothingTyped DEF TypeInv
<1>3. ASSUME NEW u \in Takers
      PROVE  /\ NotOlder(taker'[u].out)
             /\ taker'[u].pc \in {"first", "second"} => Recent(taker[u].out)'
  <2>1. CASE u = t
    <3>1. taker'[u] = new BY <1>1, <2>1
    <3>2. Recent(new.out)' <=> Recent(taker[u].out)' BY <3>1 DEF Recent
    <3>3. QED BY <3>1, <3>2
  <2>2. CASE u # t
    <3>1. PICK out \in Writes : out = taker[u].out BY DEF TypeInv, TakerStates
    <3>2. NotOlder(out) /\ (taker[u].pc \in {"first", "second"} => Recent(out))
      BY <3>1 DEF AgeInv, Ages, SavedNotOlder
    <3>3. Recent(out) => Recent(out)' BY <1>2, RecentStays
    <3>4. taker'[u].out = out /\ taker'[u].pc = taker[u].pc BY <1>1, <2>2, <3>1
    <3>5. Recent(out)' <=> Recent(taker[u].out)' BY <3>4 DEF Recent
    <3>6. QED BY <3>2, <3>3, <3>4, <3>5
  <2>3. QED BY <2>1, <2>2
<1>4. NotOlder(worker'.out) /\ (\A f \in disk' : NotOlder(f.data)) BY <1>1 DEF AgeInv, Ages, SavedNotOlder
<1>5. worker'.pc \in {"open", "first", "second"} => Recent(worker.out)'
  <2>1. PICK out \in Writes : out = worker.out BY DEF TypeInv, Workers
  <2>2. worker.pc \in {"open", "first", "second"} => Recent(out) BY <2>1 DEF AgeInv, Ages
  <2>3. Recent(out) => Recent(out)' BY <1>2, RecentStays
  <2>4. Recent(out)' <=> Recent(worker.out)' BY <1>1, <2>1 DEF Recent
  <2>5. QED BY <1>1, <2>2, <2>3, <2>4
<1>6. QED BY <1>1, <1>2, <1>3, <1>4, <1>5, AgesNext


\* A step of a taker, whichever.
LEMMA AgesTakerStep ==
  ASSUME TypeInv, AgeInv, NEW t \in Takers, TakerStep(t)
  PROVE  AgeInv'
<1>1. PICK out \in Writes : out = taker[t].out BY DEF TypeInv, TakerStates
<1>2. NotOlder(out) /\ (taker[t].pc \in {"first", "second"} => Recent(out))
  BY <1>1 DEF AgeInv, Ages, SavedNotOlder
<1>3. IdleTaker \in TakerStates /\ NotOlder(IdleTaker.out) /\ IdleTaker.pc = "idle"
  BY NothingTyped, NotOlderNothing DEF IdleTaker
<1>4. ASSUME NEW new \in TakerStates, TakerGoes(t, new), UNCHANGED frame, NotOlder(new.out),
             new.pc \in {"first", "second"} => Recent(new.out)
      PROVE  AgeInv'
  <2>1. UNCHANGED pic BY <1>4, TakerGets DEF environment
  <2>2. Recent(new.out) => Recent(new.out)' BY <1>4, <2>1 DEF Recent
  <2>3. QED BY <1>4, <2>2, AgesTaker
<1>5. CASE TakeCopy(t)
  <2>1. CASE \E new \in TakerStates :
               /\ TakerGoes(t, new) /\ CopyToFrame /\ new.pc = "first"
               /\ new.out = [from |-> pic.no, first |-> 0, second |-> 0]
    <3>1. PICK new \in TakerStates :
               /\ TakerGoes(t, new) /\ CopyToFrame /\ new.pc = "first"
               /\ new.out = [from |-> pic.no, first |-> 0, second |-> 0]
      BY <2>1
    <3>2. UNCHANGED pic BY <3>1, TakerGets DEF environment
    <3>3. Recent(new.out)' BY <3>1, <3>2, CopiedIsRecent
    <3>4. NotOlder(new.out) BY <3>1, NotOlderNothing
    <3>5. frame'.pic \in {frame.pic, pic.no, Freed} BY <3>1, CopyDoes
    <3>6. QED BY <3>1, <3>3, <3>4, <3>5, AgesTaker
  <2>2. CASE TakerGoes(t, IdleTaker) /\ ReallocFails BY <1>3, <1>4, <2>2 DEF ReallocFails
  <2>3. QED BY <1>5, <2>1, <2>2, TakeCopyDoes
<1>6. CASE TakeFirst(t)
  <2>1. UNCHANGED frame /\ taker[t].pc = "first" BY <1>6, TakeFirstDoes
  <2>2. CASE TakerGoes(t, IdleTaker) BY <1>3, <1>4, <2>1, <2>2
  <2>3. CASE ~TakerGoes(t, IdleTaker)
    <3>1. PICK new \in TakerStates :
            /\ TakerGoes(t, new)
            /\ new.out = [from |-> taker[t].out.from, first |-> frame.pic, second |-> taker[t].out.second]
      BY <1>6, <2>3, TakeFirstDoes
    <3>2. new.out = [from |-> out.from, first |-> frame.pic, second |-> out.second] BY <1>1, <3>1
    <3>3. NotOlder(new.out) BY <1>2, <2>1, <3>2, NotOlderHalves
    <3>4. Recent(new.out) BY <1>2, <2>1, <3>2 DEF Recent
    <3>5. QED BY <1>4, <2>1, <3>1, <3>3, <3>4
  <2>4. QED BY <2>2, <2>3
<1>7. CASE TakeSecond(t)
  <2>1. UNCHANGED frame /\ taker[t].pc = "second" BY <1>7, TakeSecondDoes
  <2>2. PICK new \in TakerStates :
          /\ TakerGoes(t, new) /\ new.pc = "wait"
          /\ new.out.from = taker[t].out.from /\ new.out.first = taker[t].out.first
          /\ new.out.second \in {frame.pic, Freed, 0}
    BY <1>7, TakeSecondDoes
  <2>3. PICK bytes \in {frame.pic, Freed, 0} : bytes = new.out.second BY <2>2
  <2>4. NotOlder([from |-> out.from, first |-> out.first, second |-> bytes]) BY <1>2, <2>1, NotOlderHalves
  <2>5. NotOlder(new.out) BY <1>1, <2>2, <2>3, <2>4 DEF NotOlder
  <2>6. QED BY <1>4, <2>1, <2>2, <2>5
<1>8. CASE TakeWithoutName(t) \/ TakeRequest(t) \/ TakeSend(t)
  <2>1. PICK new \in TakerStates :
          TakerGoes(t, new) /\ new.pc \in {"wait", "copy", "idle"} /\ new.out \in {NoWrite, taker[t].out}
    BY <1>8, TakerElseDoes
  <2>2. UNCHANGED frame BY <1>8, TakerElseDoes
  <2>3. NotOlder(new.out) BY <1>1, <1>2, <2>1, NotOlderNothing
  <2>4. QED BY <1>4, <2>1, <2>2, <2>3
<1>9. QED BY <1>5, <1>6, <1>7, <1>8 DEF TakerStep

\* At the start nothing is written.
LEMMA AgesStart == Init => AgeInv
<1> SUFFICES ASSUME Init PROVE AgeInv OBVIOUS
<1>1. NotOlder(worker.out) /\ worker.pc = "loop" BY NotOlderNothing DEF Init, IdleWorker
<1>2. \A t \in Takers : NotOlder(taker[t].out) /\ taker[t].pc = "idle" BY NotOlderNothing DEF Init, IdleTaker
<1>3. frame.pic = 0 /\ pic.no = 0 /\ disk = {} BY DEF Init
<1>4. QED BY <1>1, <1>2, <1>3 DEF AgeInv, Ages, SavedNotOlder

\* Every step keeps the ages.
LEMMA AgesStep == TypeInv /\ AgeInv /\ [Next]_vars => AgeInv'
<1> SUFFICES ASSUME TypeInv, AgeInv, [Next]_vars PROVE AgeInv' OBVIOUS
<1>1. PICK out \in Writes : out = worker.out BY DEF TypeInv, Workers
<1>2. /\ NotOlder(out) /\ (worker.pc \in {"open", "first", "second"} => Recent(out))
      /\ \A f \in disk : NotOlder(f.data)
      /\ \A t \in Takers : /\ NotOlder(taker[t].out)
                           /\ taker[t].pc \in {"first", "second"} => Recent(taker[t].out)
  BY <1>1 DEF AgeInv, Ages, SavedNotOlder
<1>3. pic.no \in Nat /\ pic.no <= pic.no /\ pic.no <= pic.no + 1 BY NothingTyped DEF TypeInv
\* The worker goes on with what it has.
<1>4. ASSUME UNCHANGED <<setup, pic, taker, frame>>, disk' \subseteq disk, worker'.out = worker.out,
             worker'.pc \in {"open", "first", "second"} => worker.pc \in {"open", "first", "second"}
      PROVE  AgeInv'
  <2>1. Recent(out) => Recent(worker.out)' BY <1>1, <1>4 DEF Recent
  <2>2. frame'.pic = frame.pic BY <1>4
  <2>3. QED BY <1>1, <1>2, <1>4, <2>1, <2>2, AgesWorker
<1>5. CASE Publish
  <2>1. /\ pic'.no = pic.no + 1 /\ worker'.out = worker.out
        /\ worker'.pc = (IF worker.pc = "wait" THEN "copy" ELSE worker.pc)
        /\ \A t \in Takers :
             /\ taker'[t].out = taker[t].out
             /\ taker'[t].pc = (IF taker[t].pc = "wait" THEN "send" ELSE taker[t].pc)
        /\ UNCHANGED <<setup, frame, disk>>
    BY <1>5, PublishDoes
  <2>2. pic'.no \in Nat /\ pic.no <= pic'.no /\ frame'.pic = frame.pic BY <1>3, <2>1
  <2>3. ASSUME NEW old \in Writes, Recent(old) PROVE Recent(old)' BY <2>2, <2>3, RecentStays
  <2>4. worker'.pc \in {"open", "first", "second"} => Recent(worker.out)'
    <3>1. Recent(out)' <=> Recent(worker.out)' BY <1>1, <2>1 DEF Recent
    <3>2. QED BY <1>2, <2>1, <2>3, <3>1
  <2>5. ASSUME NEW t \in Takers, taker'[t].pc \in {"first", "second"} PROVE Recent(taker[t].out)'
    <3>1. PICK old \in Writes : old = taker[t].out BY DEF TypeInv, TakerStates
    <3>2. Recent(old) BY <1>2, <2>1, <2>5, <3>1
    <3>3. Recent(old)' <=> Recent(taker[t].out)' BY <2>1, <3>1 DEF Recent
    <3>4. QED BY <2>3, <3>2, <3>3
  <2>6. NotOlder(worker'.out) /\ \A t \in Takers : NotOlder(taker'[t].out) BY <1>1, <1>2, <2>1
  <2>7. QED BY <1>2, <2>1, <2>2, <2>4, <2>5, <2>6, AgesNext
<1>6. CASE Tick BY <1>4, <1>6 DEF Tick
<1>7. CASE Restart
  <2>1. /\ frame'.pic = 0 /\ worker' = IdleWorker /\ taker' = [t \in Takers |-> IdleTaker]
        /\ pic' = [no |-> 0, size |-> 0] /\ UNCHANGED <<setup, disk>>
    BY <1>7 DEF Restart
  <2>2. NotOlder(worker'.out) /\ worker'.pc = "loop" BY <2>1, NotOlderNothing DEF IdleWorker
  <2>3. \A t \in Takers : NotOlder(taker'[t].out) /\ taker'[t].pc = "idle"
    BY <2>1, NotOlderNothing DEF IdleTaker
  <2>4. Takers' = Takers BY <2>1, SetupStays
  <2>5. QED BY <1>2, <1>3, <2>1, <2>2, <2>3, <2>4 DEF AgeInv, Ages, SavedNotOlder
<1>8. CASE WorkerLoop
  <2>1. "wait" \in WorkerPcs BY DEF WorkerPcs
  <2>2. worker' = [worker EXCEPT !.pc = "wait"] /\ UNCHANGED <<setup, pic, taker, frame, disk>>
    BY <1>8 DEF WorkerLoop, environment
  <2>3. worker'.pc = "wait" /\ worker'.out = worker.out BY <2>1, <2>2, WorkerGoes
  <2>4. QED BY <1>4, <2>2, <2>3
<1>9. CASE WorkerCopy
  <2>1. UNCHANGED <<setup, pic, taker, disk>> BY <1>9, WorkerCopyDoes DEF environment
  <2>2. CASE CopyToFrame /\ worker'.out = [from |-> pic.no, first |-> 0, second |-> 0]
    <3>1. NotOlder(worker'.out) BY <2>2, NotOlderNothing
    <3>2. worker'.out.from = pic.no BY <2>2
    <3>3. Recent(worker.out)'
      <4>1. frame'.pic \in {pic.no, Freed} BY <2>2, CopyDoes
      <4>2. QED BY <1>3, <2>1, <3>2, <4>1 DEF Recent
    <3>4. frame'.pic \in {frame.pic, pic.no, Freed} BY <2>2, CopyDoes
    <3>5. QED BY <1>2, <2>1, <3>1, <3>3, <3>4, AgesWorker
  <2>3. CASE ReallocFails /\ worker'.pc = "dead" /\ worker'.out = worker.out
    BY <1>4, <2>1, <2>3 DEF ReallocFails
  <2>4. QED BY <1>9, <2>2, <2>3, WorkerCopyDoes
<1>10. CASE WorkerOpen
  <2>1. worker.pc = "open" /\ worker'.out = worker.out /\ UNCHANGED <<setup, pic, taker, frame>>
    BY <1>10, WorkerOpenDoes DEF environment
  <2>2. CASE UNCHANGED disk BY <1>4, <2>1, <2>2
  <2>3. CASE ~UNCHANGED disk
    <3>1. PICK new \in Files :
            new.data = worker.out /\ disk' = {f \in disk : FileName(f) # <<clock, counter>>} \cup {new}
      BY <1>10, <2>3, WorkerOpenDoes
    <3>2. \A f \in disk' : NotOlder(f.data) BY <1>1, <1>2, <3>1
    <3>3. Recent(worker.out)' BY <1>1, <1>2, <2>1 DEF Recent
    <3>4. frame'.pic = frame.pic BY <2>1
    <3>5. QED BY <1>1, <1>2, <2>1, <3>2, <3>3, <3>4, AgesWorker
  <2>4. QED BY <2>2, <2>3
<1>11. CASE WorkerFirst
  <2>1. worker.pc = "first" /\ worker' \in Workers /\ UNCHANGED <<setup, pic, frame, taker>>
    BY <1>11, WorkerFirstDoes DEF environment
  <2>2. CASE /\ worker'.out = [from |-> worker.out.from, first |-> frame.pic, second |-> worker.out.second]
             /\ Store(worker'.out)
    <3>1. worker'.out = [from |-> out.from, first |-> frame.pic, second |-> out.second] BY <1>1, <2>2
    <3>2. NotOlder(worker'.out) BY <1>2, <2>1, <3>1, NotOlderHalves
    <3>3. worker'.out.from = worker.out.from BY <2>2
    <3>4. QED BY <2>1, <2>2, <3>2, <3>3, AgesStore
  <2>3. CASE worker'.pc = "dead" /\ worker'.out = worker.out /\ UNCHANGED <<disk, movie>> BY <1>4, <2>1, <2>3
  <2>4. QED BY <1>11, <2>2, <2>3, WorkerFirstDoes
<1>12. CASE WorkerSecond
  <2>1. /\ worker.pc = "second" /\ worker' \in Workers /\ UNCHANGED <<setup, pic, frame, taker>>
        /\ Store(worker'.out)
    BY <1>12, WorkerSecondDoes DEF environment
  <2>2. PICK bytes \in {frame.pic, Freed, 0} :
          worker'.out = [from |-> worker.out.from, first |-> worker.out.first, second |-> bytes]
    BY <1>12, WorkerSecondDoes DEF BytesAt
  <2>3. worker'.out = [from |-> out.from, first |-> out.first, second |-> bytes] BY <1>1, <2>2
  <2>4. NotOlder(worker'.out) BY <1>2, <2>1, <2>3, NotOlderHalves
  <2>5. worker'.out.from = worker.out.from BY <2>2
  <2>6. QED BY <2>1, <2>4, <2>5, AgesStore
<1>13. CASE WorkerMaintain
  <2>1. worker' = IdleWorker /\ disk' \subseteq disk /\ UNCHANGED <<setup, pic, frame, taker>>
    BY <1>13, WorkerMaintainDoes DEF environment
  <2>2. NotOlder(worker'.out) /\ worker'.pc = "loop" BY <2>1, NotOlderNothing DEF IdleWorker
  <2>3. frame'.pic = frame.pic BY <2>1
  <2>4. QED BY <1>2, <2>1, <2>2, <2>3, AgesWorker
<1>14. CASE WorkerCancelled
  <2>1. worker'.pc = "dead" /\ worker'.out = NoWrite /\ frame'.pic = Freed /\ UNCHANGED <<setup, pic, disk, taker>>
    BY <1>14, CancelledDoes
  <2>2. NotOlder(worker'.out) BY <2>1, NotOlderNothing
  <2>3. QED BY <1>2, <2>1, <2>2, AgesWorker
<1>15. ASSUME NEW t \in Takers, TakerStep(t) PROVE AgeInv' BY <1>15, AgesTakerStep
<1>16. CASE UNCHANGED vars BY <1>4, <1>16 DEF vars
<1>17. CASE SpuriousWakeup
  <2>1. /\ worker'.out = worker.out
        /\ worker'.pc = worker.pc \/ (worker'.pc = "copy" /\ worker.pc = "wait")
        /\ \A t \in Takers :
             /\ taker'[t].out = taker[t].out
             /\ taker'[t].pc = taker[t].pc \/ taker'[t].pc = "send"
        /\ UNCHANGED <<setup, pic, frame, disk>>
    BY <1>17, SpuriousDoes DEF environment
  <2>2. pic'.no \in Nat /\ pic.no <= pic'.no /\ frame'.pic = frame.pic BY <1>3, <2>1
  <2>3. Recent(out) => Recent(worker.out)' BY <1>1, <2>1 DEF Recent
  <2>4. worker'.pc \in {"open", "first", "second"} => Recent(worker.out)' BY <1>2, <2>1, <2>3
  <2>5. ASSUME NEW t \in Takers, taker'[t].pc \in {"first", "second"} PROVE Recent(taker[t].out)'
    <3>1. Recent(taker[t].out) BY <1>2, <2>1, <2>5
    <3>2. QED BY <2>1, <3>1 DEF Recent
  <2>6. NotOlder(worker'.out) /\ \A t \in Takers : NotOlder(taker'[t].out) BY <1>1, <1>2, <2>1
  <2>7. QED BY <1>2, <2>1, <2>2, <2>4, <2>5, <2>6, AgesNext
<1>18. CASE SetBack BY <1>4, <1>18 DEF SetBack
<1>19. QED
  BY <1>5, <1>6, <1>7, <1>8, <1>9, <1>10, <1>11, <1>12, <1>13, <1>14, <1>15, <1>16, <1>17, <1>18
     DEF Next, WorkerStep


-----------------------------------------------------------------------------
(* What is saved without snapshots is whole.                               *)

\* WholeInv of programs without takers.
WholeParts == BufferKept /\ MovieGrows /\ WholeFiles /\ WholeMovie

LEMMA WholeAlone ==
  ASSUME Takers = {}, UNCHANGED setup
  PROVE  (WholeInv <=> WholeParts) /\ (WholeInv' <=> WholeParts')
<1>1. Takers' = {} BY SetupStays
<1>2. QED BY <1>1 DEF WholeInv, WholeParts

\* The files, when none is opened or written.
LEMMA FilesStay ==
  ASSUME WholeFiles, UNCHANGED <<setup, restarts>>, disk' \subseteq disk,
         worker.pc \in {"first", "second", "dead"} => worker'.pc \in {"first", "second", "dead"},
         worker'.pc \in {"first", "second"} /\ ~mjpeg => worker.pc \in {"first", "second"} /\ disk' = disk
  PROVE  WholeFiles'
<1>1. UNCHANGED mjpeg BY SetupStays
<1>2. ASSUME NEW f \in disk', Unfinished(f) PROVE Unfinished(f)'
  <2>1. LastOfRun(f)' BY <1>2 DEF LastOfRun, Unfinished
  <2>2. QED BY <1>2, <2>1 DEF Unfinished
<1>3. \A f \in disk' : f \in disk OBVIOUS
<1>4. \A f \in disk' : /\ f.run <= restarts'
                       /\ WholeWrite(f.data) \/ (Beginning(f.data) /\ (setup'.short \/ Unfinished(f)'))
  BY <1>2, <1>3 DEF WholeFiles
<1>5. worker'.pc \in {"first", "second"} /\ ~mjpeg' =>
        \E f \in disk' : f.run = restarts' /\ \A g \in disk' : g.seq <= f.seq
  BY <1>1 DEF WholeFiles
<1>6. QED BY <1>4, <1>5 DEF WholeFiles

\* The mjpg file, when nothing is written to it.
LEMMA MovieStays ==
  ASSUME WholeMovie, UNCHANGED <<setup, movie>>,
         worker.pc \in {"second", "dead"} => worker'.pc \in {"second", "dead"}
  PROVE  WholeMovie'
<1>1. \A i \in DOMAIN movie : WholeFrame(i) => WholeFrame(i)' BY DEF WholeFrame
<1>2. QED BY <1>1 DEF WholeMovie

\* A step that writes nothing.
LEMMA WholeGoesOn ==
  ASSUME TypeInv, WholeParts,
         UNCHANGED <<setup, restarts, frame, maxSize, movie, disk>>,
         pic'.no \in Nat, pic.no <= pic'.no, worker'.gen = worker.gen, worker'.out = worker.out,
         \/ worker'.pc = worker.pc
         \/ worker.pc = "wait" /\ worker'.pc = "copy" /\ (pic.no < pic'.no \/ setup.spurious)
         \/ worker'.pc = "wait" /\ worker.pc = "loop"
  PROVE  WholeParts'
<1>1. BufferKept' BY DEF BufferKept, WholeParts
<1>2. MovieGrows'
  <2>1. UNCHANGED mjpeg BY SetupStays
  <2>2. pic.no \in Nat /\ worker.out.from \in Nat BY NothingTyped DEF TypeInv, Workers, Writes
  <2>3. movie # <<>> => LastFrom \in Nat
    <3>1. ASSUME movie # <<>> PROVE movie[Len(movie)] \in Writes BY <3>1 DEF TypeInv
    <3>2. QED BY <3>1, NothingTyped DEF LastFrom, Writes
  <2>4. LastFrom' = LastFrom BY DEF LastFrom
  <2>5. QED BY <2>1, <2>2, <2>3, <2>4 DEF MovieGrows, WholeParts
<1>3. WholeFiles' BY FilesStay DEF WholeParts
<1>4. WholeMovie' BY MovieStays DEF WholeParts
<1>5. QED BY <1>1, <1>2, <1>3, <1>4 DEF WholeParts

\* A copy that succeeds.
LEMMA WholeCopy ==
  ASSUME TypeInv, WholeParts, WorkerCopy
  PROVE  WholeParts'
<1>1. worker.pc = "copy" /\ UNCHANGED <<setup, restarts, pic, disk, movie>> BY WorkerCopyDoes DEF environment
<1>2. UNCHANGED mjpeg /\ LastFrom' = LastFrom BY <1>1, SetupStays DEF LastFrom
<1>3. pic.no \in Nat BY NothingTyped DEF TypeInv
<1>4. CASE /\ CopyToFrame /\ worker'.pc = (IF mjpeg THEN "first" ELSE "open")
           /\ worker'.out = [from |-> pic.no, first |-> 0, second |-> 0]
  <2>1. frame'.pic = pic.no /\ frame'.size = maxSize' BY <1>1, <1>4, CopyDoes DEF BufferKept, WholeParts
  <2>2. frame'.pic # Freed BY <1>3, <2>1, FreedAssumption
  <2>3. BufferKept' BY <1>4, <2>1, <2>2 DEF BufferKept
  <2>4. worker'.out.from = pic.no /\ worker'.pc \in {"first", "open"} BY <1>4
  <2>5. MovieGrows'
    <3>1. movie # <<>> => LastFrom <= pic.no /\ (LastFrom < pic.no \/ setup.spurious) /\ LastFrom \in Nat
      <4>1. ASSUME movie # <<>> PROVE movie[Len(movie)] \in Writes BY <4>1 DEF TypeInv
      <4>2. movie # <<>> => LastFrom \in Nat BY <4>1, NothingTyped DEF LastFrom, Writes
      <4>3. QED BY <1>1, <4>2 DEF MovieGrows, WholeParts
    <3>2. IF mjpeg THEN disk = {} ELSE movie = <<>> BY DEF MovieGrows, WholeParts
    <3>3. QED BY <1>1, <1>2, <1>3, <2>4, <3>1, <3>2 DEF MovieGrows
  <2>6. ~mjpeg => worker'.pc = "open" BY <1>4
  <2>7. WholeFiles' BY <1>1, <2>6, FilesStay DEF WholeParts
  <2>8. WholeMovie' BY <1>1, MovieStays DEF WholeParts
  <2>9. QED BY <2>3, <2>5, <2>7, <2>8 DEF WholeParts
<1>5. CASE worker'.pc = "dead" /\ worker'.out = worker.out
  <2>1. BufferKept' BY <1>5 DEF BufferKept
  <2>2. MovieGrows' BY <1>1, <1>2, <1>5 DEF MovieGrows, WholeParts
  <2>3. WholeFiles' BY <1>1, <1>5, FilesStay DEF WholeParts
  <2>4. WholeMovie' BY <1>1, MovieStays DEF WholeParts
  <2>5. QED BY <2>1, <2>2, <2>3, <2>4 DEF WholeParts
<1>6. QED BY <1>4, <1>5, WorkerCopyDoes

\* A new file is not written yet, and all others of its run are whole.
LEMMA WholeOpen ==
  ASSUME TypeInv, WholeParts, WorkerOpen
  PROVE  WholeParts'
<1>1. /\ worker.pc = "open" /\ worker'.out = worker.out /\ worker'.pc \in {"first", "dead"}
      /\ UNCHANGED <<setup, restarts, pic, frame, maxSize, movie>>
  BY WorkerOpenDoes DEF environment
<1>2. ~mjpeg /\ movie = <<>> BY <1>1 DEF TypeInv, FileThere, MovieGrows, WholeParts
<1>3. UNCHANGED mjpeg BY <1>1, SetupStays
<1>4. MovieGrows' BY <1>1, <1>2, <1>3 DEF MovieGrows, WholeParts
<1>5. BufferKept' BY <1>1 DEF BufferKept, WholeParts
<1>6. WholeMovie' BY <1>1, MovieStays DEF WholeParts
<1>7. WholeFiles'
  <2>1. CASE UNCHANGED disk /\ worker'.pc = "dead" BY <1>1, <2>1, FilesStay DEF WholeParts
  <2>2. CASE ~(UNCHANGED disk /\ worker'.pc = "dead")
    <3>1. PICK new \in Files :
            /\ new.run = restarts /\ new.data = worker.out /\ \A f \in disk : f.seq < new.seq
            /\ disk' = {f \in disk : FileName(f) # <<clock, counter>>} \cup {new}
            /\ worker'.pc = "first"
      BY <2>2, WorkerOpenDoes
    <3>2. /\ restarts \in Int /\ new.seq \in Nat /\ (\A f \in disk : f.seq \in Nat)
      BY SetupTyped DEF TypeInv, DiskTyped, Files
    <3>3. \A f \in disk' : f = new \/ f \in disk BY <3>1
    <3>4. new \in disk' /\ \A g \in disk' : g.seq <= new.seq BY <3>1, <3>2, <3>3
    <3>5. Beginning(new.data) BY <1>1, <3>1 DEF BufferKept, Beginning, WholeParts
    <3>6. LastOfRun(new)' BY <3>4 DEF LastOfRun
    <3>7. Unfinished(new)' BY <3>1, <3>6 DEF Unfinished
    <3>8. ASSUME NEW f \in disk, f \in disk', Unfinished(f) PROVE Unfinished(f)'
      <4>1. f.run # restarts BY <1>1, <3>8 DEF Unfinished
      <4>2. LastOfRun(f)' BY <3>1, <3>3, <3>8, <4>1 DEF LastOfRun, Unfinished
      <4>3. QED BY <1>1, <4>1, <4>2 DEF Unfinished
    <3>9. ASSUME NEW f \in disk'
          PROVE  /\ f.run <= restarts'
                 /\ WholeWrite(f.data) \/ (Beginning(f.data) /\ (setup'.short \/ Unfinished(f)'))
      <4>1. CASE f = new BY <1>1, <3>1, <3>2, <3>5, <3>7, <4>1
      <4>2. CASE f \in disk BY <1>1, <3>8, <4>2 DEF WholeFiles, WholeParts
      <4>3. QED BY <3>3, <4>1, <4>2
    <3>10. \E f \in disk' : f.run = restarts' /\ \A g \in disk' : g.seq <= f.seq BY <1>1, <3>1, <3>4
    <3>11. QED BY <3>9, <3>10 DEF WholeFiles
  <2>3. QED BY <2>1, <2>2
<1>8. QED BY <1>4, <1>5, <1>6, <1>7 DEF WholeParts

\* What is stored is what was copied, or a beginning of it that is not the end of
\* the step.
Stored(data) ==
  \/ WholeWrite(data)
  \/ Beginning(data) /\ (setup.short \/ worker'.pc = "second")

\* A file that is written: the other files of its run are whole.
LEMMA WholeStoreFiles ==
  ASSUME TypeInv, WholeFiles, ~mjpeg, worker.pc \in {"first", "second"},
         UNCHANGED <<setup, restarts>>, NEW data \in Writes, Store(data), Stored(data)
  PROVE  WholeFiles'
<1>1. PICK old \in disk, new \in Files :
        /\ new.seq = old.seq /\ new.run = old.run /\ new.data = data /\ \A g \in disk : g.seq <= old.seq
        /\ disk' = (disk \ {old}) \cup {new}
  BY StoreDoes
<1>2. \A f \in disk : f.seq \in Nat BY DEF TypeInv, DiskTyped, Files
<1>3. old.run = restarts
  <2>1. PICK c \in disk : c.run = restarts /\ \A g \in disk : g.seq <= c.seq BY DEF WholeFiles
  <2>2. c.seq = old.seq BY <1>1, <1>2, <2>1
  <2>3. c = old BY <2>2 DEF TypeInv, DiskTyped
  <2>4. QED BY <2>1, <2>3
<1>4. \A f \in disk' : f = new \/ f \in disk \ {old} BY <1>1
<1>5. new \in disk' /\ \A g \in disk' : g.seq <= new.seq BY <1>1, <1>2, <1>4
<1>6. LastOfRun(new)' BY <1>5 DEF LastOfRun
<1>7. ASSUME NEW f \in disk \ {old}, f \in disk', Unfinished(f) PROVE Unfinished(f)'
  <2>1. f.run # restarts
    <3>1. SUFFICES ASSUME f.run = restarts PROVE FALSE OBVIOUS
    <3>2. old.seq <= f.seq BY <1>3, <1>7, <3>1 DEF Unfinished, LastOfRun
    <3>3. f.seq = old.seq BY <1>1, <1>2, <3>2
    <3>4. f = old BY <3>3 DEF TypeInv, DiskTyped
    <3>5. QED BY <3>4
  <2>2. LastOfRun(f)' BY <1>1, <1>3, <1>4, <1>7, <2>1 DEF LastOfRun, Unfinished
  <2>3. QED BY <2>1, <2>2 DEF Unfinished
<1>8. ASSUME NEW f \in disk'
      PROVE  /\ f.run <= restarts'
             /\ WholeWrite(f.data) \/ (Beginning(f.data) /\ (setup'.short \/ Unfinished(f)'))
  <2>1. CASE f = new
    <3>1. f.run <= restarts' BY <1>1, <1>3, <2>1 DEF WholeFiles
    <3>2. worker'.pc = "second" => Unfinished(f)' BY <1>6, <2>1 DEF Unfinished
    <3>3. QED BY <1>1, <2>1, <3>1, <3>2 DEF Stored
  <2>2. CASE f \in disk \ {old} BY <1>7, <2>2 DEF WholeFiles
  <2>3. QED BY <1>4, <2>1, <2>2
<1>9. \E f \in disk' : f.run = restarts' /\ \A g \in disk' : g.seq <= f.seq BY <1>1, <1>3, <1>5
<1>10. QED BY <1>8, <1>9 DEF WholeFiles

\* A frame that is written to the mjpg file: those before it are whole.
LEMMA WholeStoreMovie ==
  ASSUME TypeInv, MovieGrows, WholeMovie, mjpeg, worker.pc \in {"first", "second"},
         UNCHANGED setup, NEW data \in Writes, Store(data), Stored(data), data.from = worker.out.from
  PROVE  WholeMovie' /\ movie' # <<>> /\ LastFrom' = data.from
<1>1. movie \in Seq(Writes) /\ Len(movie) \in Nat /\ DOMAIN movie = 1 .. Len(movie) BY DEF TypeInv
<1>2. ASSUME NEW i \in DOMAIN movie PROVE movie[i].from \in Nat
  <2>1. movie[i] \in Writes BY <1>1
  <2>2. QED BY <2>1, NothingTyped DEF Writes
<1>3. data.from \in Nat BY NothingTyped DEF Writes
\* What is needed of the new film: its last frame is data, and it has the others.
<1>4. ASSUME NEW n \in Nat \ {0}, Len(movie') = n, DOMAIN movie' = 1 .. n, movie'[n] = data,
             \A i \in 1 .. n - 1 : i \in DOMAIN movie /\ movie'[i] = movie[i]
                                   /\ (WholeWrite(movie[i]) \/ (Beginning(movie[i]) /\ setup.short)),
             n > 1 => data.from > movie[n - 1].from \/ (setup.spurious /\ data.from = movie[n - 1].from)
      PROVE  WholeMovie'
  <2>1. ASSUME NEW i \in 1 .. n - 1
        PROVE  WholeFrame(i)' /\ (i > 1 => \/ movie'[i].from > movie'[i - 1].from
                                           \/ setup'.spurious /\ movie'[i].from = movie'[i - 1].from)
    <3>1. WholeFrame(i)' BY <1>4 DEF WholeFrame
    <3>2. i > 1 => i - 1 \in 1 .. n - 1 BY <1>4
    <3>3. i > 1 => movie'[i] = movie[i] /\ movie'[i - 1] = movie[i - 1] BY <1>4, <3>2
    <3>4. i > 1 => \/ movie[i].from > movie[i - 1].from
                   \/ setup.spurious /\ movie[i].from = movie[i - 1].from
      BY <1>4 DEF WholeMovie
    <3>5. QED BY <3>1, <3>3, <3>4
  <2>2. WholeFrame(n)' BY <1>4 DEF WholeFrame, Stored
  <2>3. n > 1 => \/ movie'[n].from > movie'[n - 1].from
                 \/ setup'.spurious /\ movie'[n].from = movie'[n - 1].from
    <3>1. n > 1 => n - 1 \in 1 .. n - 1 BY <1>4
    <3>2. QED BY <1>4, <3>1
  <2>4. \A i \in 1 .. n : i \in 1 .. n - 1 \/ i = n BY <1>4
  <2>5. QED BY <1>4, <2>1, <2>2, <2>3, <2>4 DEF WholeMovie
<1>5. CASE worker.pc = "first"
  <2>1. movie' = Append(movie, data) BY <1>5, StoreDoes
  <2>2. PICK n \in Nat \ {0} : n = Len(movie) + 1 BY <1>1
  <2>3. /\ Len(movie') = n /\ movie'[n] = data /\ movie' # <<>> /\ DOMAIN movie' = 1 .. n
        /\ \A i \in 1 .. Len(movie) : movie'[i] = movie[i]
    BY <1>1, <2>1, <2>2
  <2>4. LastFrom' = data.from BY <2>3 DEF LastFrom
  <2>5. ASSUME NEW i \in 1 .. n - 1
        PROVE  i \in DOMAIN movie /\ movie'[i] = movie[i]
               /\ (WholeWrite(movie[i]) \/ (Beginning(movie[i]) /\ setup.short))
    <3>1. i \in 1 .. Len(movie) BY <1>1, <2>2
    <3>2. WholeFrame(i) BY <1>1, <3>1 DEF WholeMovie
    <3>3. QED BY <1>1, <1>5, <2>3, <3>1, <3>2 DEF WholeFrame
  <2>6. n > 1 => data.from > movie[n - 1].from \/ (setup.spurious /\ data.from = movie[n - 1].from)
    <3>1. SUFFICES ASSUME n > 1 PROVE data.from > movie[n - 1].from \/ (setup.spurious /\ data.from = movie[n - 1].from)
      OBVIOUS
    <3>2. n - 1 = Len(movie) /\ movie # <<>> BY <1>1, <2>2, <3>1
    <3>3. LastFrom = movie[n - 1].from /\ n - 1 \in DOMAIN movie BY <1>1, <2>2, <3>1, <3>2 DEF LastFrom
    <3>4. LastFrom < worker.out.from \/ (setup.spurious /\ LastFrom = worker.out.from)
      BY <1>5, <3>2 DEF MovieGrows
    <3>5. QED BY <1>2, <1>3, <3>3, <3>4
  <2>7. WholeMovie' BY <1>4, <2>3, <2>5, <2>6
  <2>8. QED BY <2>3, <2>4, <2>7
<1>6. CASE worker.pc = "second"
  <2>1. movie' = [movie EXCEPT ![Len(movie)] = data] BY <1>6, StoreDoes
  <2>2. movie # <<>> /\ LastFrom = worker.out.from BY <1>6 DEF TypeInv, FileThere, MovieGrows
  <2>3. PICK n \in Nat \ {0} : n = Len(movie)
    <3>1. Len(movie) # 0 BY <1>1, <2>2
    <3>2. QED BY <1>1, <3>1
  <2>4. DOMAIN movie = 1 .. n /\ n \in DOMAIN movie BY <1>1, <2>3
  <2>5. movie' = [i \in 1 .. n |-> IF i = n THEN data ELSE movie[i]] BY <2>1, <2>3, <2>4
  <2>6. /\ movie'[n] = data /\ DOMAIN movie' = 1 .. n /\ (\A i \in 1 .. n - 1 : movie'[i] = movie[i])
    BY <2>4, <2>5
  <2>7. Len(movie') = n BY <1>1, <2>1, <2>3, <2>4
  <2>8. LastFrom' = data.from /\ movie' # <<>>
    <3>1. LastFrom' = data.from BY <2>6, <2>7 DEF LastFrom
    <3>2. PICK d : d = DOMAIN movie' OBVIOUS
    <3>3. 1 \in d BY <2>6, <3>2
    <3>4. QED BY <3>1, <3>2, <3>3
  <2>9. ASSUME NEW i \in 1 .. n - 1
        PROVE  i \in DOMAIN movie /\ movie'[i] = movie[i]
               /\ (WholeWrite(movie[i]) \/ (Beginning(movie[i]) /\ setup.short))
    <3>1. i \in DOMAIN movie /\ i # Len(movie) BY <2>3, <2>4
    <3>2. WholeFrame(i) BY <3>1 DEF WholeMovie
    <3>3. QED BY <2>6, <3>1, <3>2 DEF WholeFrame
  <2>10. n > 1 => data.from > movie[n - 1].from \/ (setup.spurious /\ data.from = movie[n - 1].from)
    <3>1. data.from = movie[n].from BY <2>2, <2>3 DEF LastFrom
    <3>2. n > 1 => movie[n].from > movie[n - 1].from \/ (setup.spurious /\ movie[n].from = movie[n - 1].from)
      BY <2>4 DEF WholeMovie
    <3>3. QED BY <3>1, <3>2
  <2>11. WholeMovie' BY <1>4, <2>6, <2>7, <2>9, <2>10
  <2>12. QED BY <2>8, <2>11
<1>7. QED BY <1>5, <1>6

\* What is stored is whole as far as it goes.
LEMMA WholeStore ==
  ASSUME TypeInv, MovieGrows, WholeFiles, WholeMovie, worker.pc \in {"first", "second"},
         UNCHANGED <<setup, restarts>>, NEW data \in Writes, Store(data), Stored(data),
         data.from = worker.out.from
  PROVE  /\ WholeFiles' /\ WholeMovie'
         /\ IF mjpeg THEN disk' = {} /\ movie' # <<>> /\ LastFrom' = data.from ELSE movie' = <<>>
<1>1. CASE mjpeg
  <2>1. disk = {} /\ UNCHANGED disk BY <1>1, StoreDoes DEF MovieGrows
  <2>2. mjpeg' BY <1>1, SetupStays
  <2>3. WholeFiles' BY <2>1, <2>2 DEF WholeFiles
  <2>4. QED BY <1>1, <2>1, <2>3, WholeStoreMovie
<1>2. CASE ~mjpeg
  <2>1. movie = <<>> /\ UNCHANGED movie BY <1>2, StoreDoes DEF MovieGrows
  <2>2. WholeMovie' BY <2>1 DEF WholeMovie
  <2>3. QED BY <1>2, <2>1, <2>2, WholeStoreFiles
<1>3. QED BY <1>1, <1>2

\* The first half comes from the buffer that holds the picture.
LEMMA WholeFirst ==
  ASSUME TypeInv, WholeParts, WorkerFirst
  PROVE  WholeParts'
<1>1. /\ worker.pc = "first" /\ worker' \in Workers
      /\ UNCHANGED <<setup, restarts, pic, frame, maxSize>>
  BY WorkerFirstDoes DEF environment
<1>2. UNCHANGED mjpeg BY <1>1, SetupStays
<1>3. worker.out.from = frame.pic /\ worker.out.second = 0 BY <1>1 DEF BufferKept, WholeParts
<1>4. CASE /\ worker'.pc = "second" /\ worker'.gen = frame.gen
           /\ worker'.out = [from |-> worker.out.from, first |-> frame.pic, second |-> worker.out.second]
           /\ Store(worker'.out)
  <2>1. PICK data \in Writes : data = worker'.out BY <1>1 DEF Workers
  <2>2. Store(data) BY <1>4, <2>1 DEF Store
  <2>3. data.from = worker.out.from /\ data.second = 0 /\ data.first = data.from BY <1>3, <1>4, <2>1
  <2>4. Stored(data) BY <1>4, <2>3 DEF Stored, Beginning
  <2>5. /\ WholeFiles' /\ WholeMovie'
        /\ IF mjpeg THEN disk' = {} /\ movie' # <<>> /\ LastFrom' = data.from ELSE movie' = <<>>
    BY <1>1, <2>2, <2>3, <2>4, WholeStore DEF WholeParts
  <2>6. BufferKept' BY <1>1, <1>3, <1>4, <2>1, <2>3 DEF BufferKept, WholeParts
  <2>7. MovieGrows' BY <1>1, <1>2, <1>4, <2>1, <2>3, <2>5 DEF MovieGrows, WholeParts
  <2>8. QED BY <2>5, <2>6, <2>7 DEF WholeParts
<1>5. CASE worker'.pc = "dead" /\ worker'.out = worker.out /\ UNCHANGED <<disk, movie>>
  <2>1. BufferKept' BY <1>5 DEF BufferKept
  <2>2. LastFrom' = LastFrom BY <1>5 DEF LastFrom
  <2>3. MovieGrows' BY <1>1, <1>2, <1>5, <2>2 DEF MovieGrows, WholeParts
  <2>4. WholeFiles' BY <1>1, <1>5, FilesStay DEF WholeParts
  <2>5. WholeMovie' BY <1>1, <1>5, MovieStays DEF WholeParts
  <2>6. QED BY <2>1, <2>3, <2>4, <2>5 DEF WholeParts
<1>6. QED BY <1>4, <1>5, WorkerFirstDoes

\* The second half comes from the same buffer, which holds the same picture.
LEMMA WholeSecond ==
  ASSUME TypeInv, WholeParts, WorkerSecond
  PROVE  WholeParts'
<1>1. /\ worker.pc = "second" /\ worker' \in Workers
      /\ UNCHANGED <<setup, restarts, pic, frame, maxSize>> /\ worker'.pc \in {"loop", "maintain"}
      /\ Store(worker'.out)
  BY WorkerSecondDoes DEF environment
<1>2. UNCHANGED mjpeg BY <1>1, SetupStays
<1>3. BytesAt(worker.gen) = worker.out.from /\ worker.out.first = worker.out.from
  BY <1>1 DEF BufferKept, BytesAt, WholeParts
<1>4. PICK data \in Writes : data = worker'.out BY <1>1 DEF Workers
<1>5. Store(data) BY <1>1, <1>4 DEF Store
<1>6. data.from = worker.out.from /\ Stored(data)
  <2>1. PICK bytes \in {BytesAt(worker.gen)} \cup IF setup.short THEN {0} ELSE {} :
          worker'.out = [from |-> worker.out.from, first |-> worker.out.first, second |-> bytes]
    BY WorkerSecondDoes
  <2>2. CASE bytes = BytesAt(worker.gen) BY <1>3, <1>4, <2>1, <2>2 DEF Stored, WholeWrite
  <2>3. CASE bytes = 0 /\ setup.short BY <1>3, <1>4, <2>1, <2>3 DEF Stored, Beginning
  <2>4. QED BY <2>1, <2>2, <2>3
<1>7. /\ WholeFiles' /\ WholeMovie'
      /\ IF mjpeg THEN disk' = {} /\ movie' # <<>> /\ LastFrom' = data.from ELSE movie' = <<>>
  BY <1>1, <1>5, <1>6, WholeStore DEF WholeParts
<1>8. BufferKept' BY <1>1 DEF BufferKept, WholeParts
<1>9. MovieGrows' BY <1>1, <1>2, <1>4, <1>6, <1>7, SetupTyped DEF MovieGrows, WholeParts
<1>10. QED BY <1>7, <1>8, <1>9 DEF WholeParts

\* After a restart the files of the run before are as they were left, and the last
\* of them may be unfinished.
LEMMA WholeRestart ==
  ASSUME TypeInv, WholeParts, Restart
  PROVE  WholeParts'
<1>1. /\ frame' = [gen |-> 0, size |-> 0, pic |-> 0] /\ maxSize' = 0 /\ worker' = IdleWorker
      /\ movie' = <<>> /\ pic' = [no |-> 0, size |-> 0] /\ restarts' = restarts + 1 /\ UNCHANGED <<setup, disk>>
  BY DEF Restart
<1>2. worker'.pc = "loop" /\ worker'.out.from = 0 BY <1>1 DEF IdleWorker, NoWrite
<1>3. BufferKept' BY <1>1, <1>2, FreedAssumption DEF BufferKept
<1>4. mjpeg' = mjpeg BY <1>1, SetupStays
<1>5. MovieGrows' BY <1>1, <1>2, <1>4 DEF MovieGrows, WholeParts
<1>6. WholeMovie' BY <1>1 DEF WholeMovie
<1>7. restarts \in Nat /\ (\A f \in disk : f.run \in Nat) BY SetupTyped DEF TypeInv, DiskTyped, Files
<1>8. ASSUME NEW f \in disk, f.run <= restarts, Unfinished(f) PROVE Unfinished(f)'
  <2>1. f.run # restarts' BY <1>1, <1>7, <1>8
  <2>2. LastOfRun(f)' BY <1>1, <1>8 DEF LastOfRun, Unfinished
  <2>3. QED BY <2>1, <2>2 DEF Unfinished
<1>9. \A f \in disk : f.run <= restarts => f.run <= restarts' BY <1>1, <1>7
<1>10. WholeFiles' BY <1>1, <1>2, <1>8, <1>9 DEF WholeFiles, WholeParts
<1>11. QED BY <1>3, <1>5, <1>6, <1>10 DEF WholeParts

\* A worker that has nothing to write any more.
LEMMA WholeRests ==
  ASSUME TypeInv, WholeParts, UNCHANGED <<setup, restarts, pic, movie>>, disk' \subseteq disk,
         \/ worker.pc = "maintain" /\ worker' = IdleWorker /\ UNCHANGED <<frame, maxSize>>
         \/ worker'.pc = "dead" /\ worker'.out = NoWrite
  PROVE  WholeParts'
<1>1. worker'.pc \in {"loop", "dead"} /\ worker'.out.from = 0 BY DEF IdleWorker, NoWrite
<1>2. BufferKept' BY <1>1 DEF BufferKept, WholeParts
<1>3. UNCHANGED mjpeg /\ LastFrom' = LastFrom BY SetupStays DEF LastFrom
<1>4. pic.no \in Nat BY NothingTyped DEF TypeInv
<1>5. MovieGrows' BY <1>1, <1>3, <1>4 DEF MovieGrows, WholeParts
<1>6. worker.pc = "maintain" \/ worker'.pc = "dead" OBVIOUS
<1>7. WholeFiles' BY <1>1, <1>6, FilesStay DEF WholeParts
<1>8. WholeMovie' BY <1>1, <1>6, MovieStays DEF WholeParts
<1>9. QED BY <1>2, <1>5, <1>7, <1>8 DEF WholeParts

\* Every step keeps what is saved whole, where nobody asks for snapshots.
LEMMA WholeStep == TypeInv /\ WholeInv /\ [Next]_vars => WholeInv'
<1> SUFFICES ASSUME TypeInv, WholeInv, [Next]_vars PROVE WholeInv' OBVIOUS
<1>1. UNCHANGED setup
  <2>1. \A t \in Takers : TakerStep(t) => UNCHANGED setup BY TakerDoes DEF environment
  <2>2. WorkerStep => UNCHANGED setup
    BY DEF WorkerStep, WorkerLoop, WorkerCopy, WorkerOpen, WorkerFirst, WorkerSecond, WorkerMaintain, environment
  <2>3. Publish \/ SpuriousWakeup \/ Tick \/ SetBack \/ Restart \/ WorkerCancelled \/ UNCHANGED vars => UNCHANGED setup
    BY DEF Publish, SpuriousWakeup, Tick, SetBack, Restart, WorkerCancelled, vars, environment
  <2>4. QED BY <2>1, <2>2, <2>3 DEF Next
<1>2. CASE Takers # {}
  <2>1. Takers' # {} BY <1>1, <1>2, SetupStays
  <2>2. QED BY <2>1 DEF WholeInv
<1>3. CASE Takers = {}
  <2>1. WholeParts BY <1>1, <1>3, WholeAlone
  <2>2. pic.no \in Nat /\ pic.no <= pic.no BY NothingTyped DEF TypeInv
  <2>3. SUFFICES WholeParts' BY <1>1, <1>3, WholeAlone
  <2>4. ASSUME UNCHANGED <<setup, restarts, pic, frame, maxSize, movie, disk, worker>> PROVE WholeParts'
    <3>1. pic'.no \in Nat /\ pic.no <= pic'.no BY <2>2, <2>4
    <3>2. QED BY <2>1, <2>4, <3>1, WholeGoesOn
  <2>5. CASE Publish
    <3>1. /\ pic'.no = pic.no + 1 /\ worker'.out = worker.out /\ worker'.gen = worker.gen
          /\ worker'.pc = (IF worker.pc = "wait" THEN "copy" ELSE worker.pc)
          /\ UNCHANGED <<setup, restarts, frame, maxSize, disk, movie>>
      BY <2>5, PublishDoes
    <3>2. pic'.no \in Nat /\ pic.no <= pic'.no /\ pic.no < pic'.no BY <2>2, <3>1
    <3>3. QED BY <2>1, <3>1, <3>2, WholeGoesOn
  <2>6. CASE SpuriousWakeup
    <3>1. /\ setup.spurious /\ worker'.out = worker.out /\ worker'.gen = worker.gen
          /\ worker'.pc = worker.pc \/ (worker'.pc = "copy" /\ worker.pc = "wait")
          /\ UNCHANGED <<setup, restarts, pic, frame, maxSize, disk, movie>>
      BY <2>6, SpuriousDoes DEF environment
    <3>2. pic'.no \in Nat /\ pic.no <= pic'.no BY <2>2, <3>1
    <3>3. QED BY <2>1, <3>1, <3>2, WholeGoesOn
  <2>7. CASE Tick BY <2>4, <2>7 DEF Tick
  <2>8. CASE SetBack BY <2>4, <2>8 DEF SetBack
  <2>9. CASE Restart BY <2>1, <2>9, WholeRestart
  <2>10. CASE WorkerLoop
    <3>1. "wait" \in WorkerPcs BY DEF WorkerPcs
    <3>2. /\ worker' = [worker EXCEPT !.pc = "wait"] /\ worker.pc = "loop"
          /\ UNCHANGED <<setup, restarts, pic, frame, maxSize, disk, movie>>
      BY <2>10 DEF WorkerLoop, environment
    <3>3. worker'.pc = "wait" /\ worker'.out = worker.out /\ worker'.gen = worker.gen BY <3>1, <3>2, WorkerGoes
    <3>4. pic'.no \in Nat /\ pic.no <= pic'.no BY <2>2, <3>2
    <3>5. QED BY <2>1, <3>2, <3>3, <3>4, WholeGoesOn
  <2>11. CASE WorkerCopy BY <2>1, <2>11, WholeCopy
  <2>12. CASE WorkerOpen BY <2>1, <2>12, WholeOpen
  <2>13. CASE WorkerFirst BY <2>1, <2>13, WholeFirst
  <2>14. CASE WorkerSecond BY <2>1, <2>14, WholeSecond
  <2>15. CASE WorkerMaintain
    <3>1. /\ worker.pc = "maintain" /\ worker' = IdleWorker /\ disk' \subseteq disk
          /\ UNCHANGED <<setup, restarts, pic, frame, maxSize, movie>>
      BY <2>15, WorkerMaintainDoes DEF environment
    <3>2. QED BY <2>1, <3>1, WholeRests
  <2>16. CASE WorkerCancelled
    <3>1. worker'.pc = "dead" /\ worker'.out = NoWrite /\ UNCHANGED <<setup, restarts, pic, disk, movie>>
      BY <2>16, CancelledDoes
    <3>2. QED BY <2>1, <3>1, WholeRests
  <2>17. CASE UNCHANGED vars BY <2>4, <2>17 DEF vars
  <2>18. QED
    BY <1>3, <2>5, <2>6, <2>7, <2>8, <2>9, <2>10, <2>11, <2>12, <2>13, <2>14, <2>15, <2>16, <2>17
       DEF Next, WorkerStep
<1>4. QED BY <1>2, <1>3

\* At the start nothing is saved.
LEMMA WholeStart == Init => WholeInv
<1> SUFFICES ASSUME Init PROVE WholeInv OBVIOUS
<1>1. /\ frame = [gen |-> 0, size |-> 0, pic |-> 0] /\ maxSize = 0 /\ movie = <<>> /\ disk = {} /\ pic.no = 0
      /\ worker.pc = "loop" /\ worker.out.from = 0
  BY DEF Init, IdleWorker, NoWrite
<1>2. BufferKept BY <1>1, FreedAssumption DEF BufferKept
<1>3. MovieGrows BY <1>1 DEF MovieGrows
<1>4. WholeFiles /\ WholeMovie BY <1>1 DEF WholeFiles, WholeMovie
<1>5. QED BY <1>2, <1>3, <1>4 DEF WholeInv

\* What is saved, to a file, to the mjpg file or as a snapshot, is never older
\* than what its thread copied; and where no browser asks for snapshots it is
\* whole, or its beginning where the program ended in the middle or write() was
\* short, and the mjpg file holds the frames in their order, each once unless the
\* worker woke spuriously.
THEOREM SavedIsSound == Spec => []SavedSound
<1>1. WholeInv => SavedWhole
  <2> SUFFICES ASSUME WholeInv, Takers = {} PROVE SavedWhole BY DEF SavedWhole
  <2>1. WholeFiles /\ WholeMovie BY DEF WholeInv
  <2>2. \A f \in disk :
          \/ WholeWrite(f.data)
          \/ /\ Beginning(f.data)
             /\ \/ setup.short
                \/ LastOfRun(f) /\ (f.run = restarts => worker.pc \in {"first", "second", "dead"})
    BY <2>1 DEF WholeFiles, Unfinished
  <2>3. \A i \in DOMAIN movie :
          /\ \/ WholeWrite(movie[i])
             \/ Beginning(movie[i]) /\ (setup.short \/ (i = Len(movie) /\ worker.pc \in {"second", "dead"}))
          /\ i > 1 => \/ movie[i].from > movie[i - 1].from
                      \/ setup.spurious /\ movie[i].from = movie[i - 1].from
    BY <2>1 DEF WholeMovie, WholeFrame
  <2>4. QED BY <2>2, <2>3 DEF SavedWhole
<1>2. WholeInv /\ AgeInv => SavedSound BY <1>1 DEF AgeInv, SavedSound
<1>3. QED BY <1>2, TypeStart, TypeStep, WholeStart, WholeStep, AgesStart, AgesStep, PTL DEF Spec

=============================================================================
