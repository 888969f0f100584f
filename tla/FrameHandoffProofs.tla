------------------------- MODULE FrameHandoffProofs -------------------------
(***************************************************************************)
(* Proofs about FrameHandoff, for any set of clients and any bounds.       *)
(*                                                                         *)
(* The argument is one inductive invariant.  Mutual exclusion              *)
(* (LockDiscipline) keeps the camera thread out of the buffer while a      *)
(* client copies; BufferState says what the three fields of the buffer     *)
(* hold at each point of the camera thread; CopyState follows a client's   *)
(* copy through its critical section.  Freshness needs a second invariant, *)
(* WaitState, which holds only when pthread_cond_wait returns for          *)
(* broadcasts alone.                                                       *)
(***************************************************************************)
EXTENDS FrameHandoff, TLAPS

\* The buffer outside the camera's critical section, during it, and after
\* cam_cleanup.
BufferState ==
  /\ cam \in {"head", "select", "grabbed", "image", "signal", "free"}
       => image = stamp /\ size = stamp
  /\ cam = "signal" => stamp = tmp
  /\ cam \in {"size", "stamp"} => image = tmp
  /\ cam = "stamp" => size = tmp
  /\ cam = "clear" => image = Freed /\ size = stamp
  /\ cam = "dead" => image = Freed /\ size = 0

\* What a client has copied so far agrees with the buffer, unless the camera
\* has cleared its size.
SizeCopied(c) == copy[c].size = stamp \/ (cam = "dead" /\ copy[c].size = 0)

CopyState ==
  \A c \in Clients :
    /\ pc[c] \in {"stamp", "image"} => SizeCopied(c)
    /\ pc[c] = "image" => copy[c].stamp = stamp

\* A client that is past its pthread_cond_wait has been overtaken by a
\* publication, and has taken none since it began to wait.
WaitState ==
  \A c \in Clients :
    /\ copy[c].pub <= published
    /\ pc[c] \in {"wait", "relock", "size", "stamp", "image"}
         => copy[c].pub <= asked[c] /\ asked[c] <= published
    /\ pc[c] = "wait" /\ cam = "signal" => asked[c] < published
    /\ pc[c] \in {"relock", "size", "stamp", "image"} => asked[c] < published

FreshInv == WaitState /\ FreshFrame

-----------------------------------------------------------------------------
(* The type invariant.                                                     *)

\* Every variable stays in its range, whatever the bounds.
THEOREM TypeCorrect == Spec => []TypeOK
<1> USE BoundsAssumption
<1>1. Init => TypeOK
  BY DEF Init, TypeOK, SigStates, CamStates, ClientStates, Kinds, Copies, NoCopy
<1>2. TypeOK /\ [Next]_vars => TypeOK'
  <2> SUFFICES ASSUME TypeOK, [Next]_vars PROVE TypeOK'
    OBVIOUS
  <2> USE DEF TypeOK, SigStates, CamStates, ClientStates, Kinds, Copies
  <2>1. CASE CamStep
    BY <2>1 DEF CamStep, CamHead, Grab, CamFails, CamSkips, CamLock, WriteImage,
       WriteSize, WriteStamp, Broadcast, FreeBuffer, ClearSize, CamGoes, clientVars
  <2>2. ASSUME NEW c \in Clients, ClientStep(c) PROVE TypeOK'
    <3> USE DEF ClientGoes, camVars
    <3>1. ASSUME NEW k \in Kinds, Connect(c, k) PROVE TypeOK'
      BY <3>1 DEF Connect
    <3>2. CASE StreamHead(c) \/ EnterWait(c) \/ SpuriousWakeup(c) \/ Relock(c)
      BY <3>2 DEF StreamHead, EnterWait, SpuriousWakeup, Relock
    <3>3. CASE ReadSize(c) \/ ReadStamp(c)
      BY <3>3 DEF ReadSize, ReadStamp
    <3>4. CASE CopyImage(c)
      <4>1. [image |-> IF copy[c].size = 0 THEN 0 ELSE image,
             size |-> copy[c].size, stamp |-> copy[c].stamp,
             pub |-> published] \in Copies
        BY DEF Copies
      <4>2. copy' \in [Clients -> Copies]
        BY <3>4, <4>1 DEF CopyImage
      <4>3. QED BY <3>4, <4>2 DEF CopyImage
    <3>5. CASE AllocFails(c) \/ Send(c)
      BY <3>5 DEF AllocFails, Send
    <3>6. QED BY <2>2, <3>1, <3>2, <3>3, <3>4, <3>5 DEF ClientStep
  <2>3. CASE SigStep
    BY <2>3 DEF SigStep, SigStop, SigCancel, SigExit, camVars, clientVars
  <2>4. CASE UNCHANGED vars
    BY <2>4 DEF vars, camVars, clientVars
  <2>5. QED BY <2>1, <2>2, <2>3, <2>4 DEF Next
<1>3. QED BY <1>1, <1>2, PTL DEF Spec

-----------------------------------------------------------------------------
(* Mutual exclusion.                                                       *)

\* The owner of db is the thread in a critical section, and every path out of
\* one unlocks it.
THEOREM MutualExclusion == Spec => []LockDiscipline
<1> USE ClientsAssumption DEF LockDiscipline, CamHolds, ClientHolds
<1>1. Init => LockDiscipline
  BY DEF Init
<1>2. TypeOK /\ LockDiscipline /\ [Next]_vars => LockDiscipline'
  <2> SUFFICES ASSUME TypeOK, LockDiscipline, [Next]_vars PROVE LockDiscipline'
    OBVIOUS
  <2> USE DEF TypeOK
  <2>1. CASE CamStep
    <3> USE DEF CamGoes, clientVars
    <3>1. CASE CamHead \/ Grab \/ CamFails \/ CamSkips \/ FreeBuffer \/ ClearSize
      BY <3>1 DEF CamHead, Grab, CamFails, CamSkips, FreeBuffer, ClearSize
    <3>2. CASE CamLock
      BY <3>2 DEF CamLock
    <3>3. CASE WriteImage \/ WriteSize \/ WriteStamp
      BY <3>3 DEF WriteImage, WriteSize, WriteStamp
    <3>4. CASE Broadcast
      BY <3>4 DEF Broadcast
    <3>5. QED BY <2>1, <3>1, <3>2, <3>3, <3>4 DEF CamStep
  <2>2. ASSUME NEW c \in Clients, ClientStep(c) PROVE LockDiscipline'
    <3> USE DEF ClientGoes, camVars
    <3>1. ASSUME NEW k \in Kinds, Connect(c, k) PROVE LockDiscipline'
      BY <3>1 DEF Connect
    <3>2. CASE StreamHead(c) \/ EnterWait(c) \/ SpuriousWakeup(c) \/ Send(c)
      BY <3>2 DEF StreamHead, EnterWait, SpuriousWakeup, Send
    <3>3. CASE Relock(c)
      BY <3>3 DEF Relock
    <3>4. CASE ReadSize(c) \/ ReadStamp(c)
      BY <3>4 DEF ReadSize, ReadStamp
    <3>5. CASE AllocFails(c) \/ CopyImage(c)
      BY <3>5 DEF AllocFails, CopyImage
    <3>6. QED BY <2>2, <3>1, <3>2, <3>3, <3>4, <3>5 DEF ClientStep
  <2>3. CASE SigStep \/ UNCHANGED vars
    BY <2>3 DEF SigStep, SigStop, SigCancel, SigExit, vars, camVars, clientVars
  <2>4. QED BY <2>1, <2>2, <2>3 DEF Next
<1>3. QED BY <1>1, <1>2, TypeCorrect, PTL DEF Spec

-----------------------------------------------------------------------------
(* No frame is made of two pictures.                                       *)

\* The camera thread fills the buffer only while it holds db.
LEMMA CamKeepsCopies ==
  ASSUME TypeOK, LockDiscipline, BufferState, CopyState, WholeFrame, CamStep
  PROVE  BufferState' /\ CopyState' /\ WholeFrame'
<1> USE ClientsAssumption, FreedAssumption, BoundsAssumption
    DEF TypeOK, LockDiscipline, CamHolds, ClientHolds, CamGoes, clientVars,
        BufferState, CopyState, SizeCopied, WholeFrame, Whole, CleaningUp, Copies
<1>1. CASE CamHead \/ Grab \/ CamFails \/ CamSkips \/ CamLock
  BY <1>1 DEF CamHead, Grab, CamFails, CamSkips, CamLock
<1>2. CASE WriteImage \/ WriteSize
  BY <1>2 DEF WriteImage, WriteSize
<1>3. CASE WriteStamp
  BY <1>3 DEF WriteStamp
<1>4. CASE Broadcast
  BY <1>4 DEF Broadcast
<1>5. CASE FreeBuffer
  BY <1>5 DEF FreeBuffer
<1>6. CASE ClearSize
  BY <1>6 DEF ClearSize
<1>7. QED BY <1>1, <1>2, <1>3, <1>4, <1>5, <1>6 DEF CamStep

\* A client copies from it only while it holds db.
LEMMA ClientKeepsCopies ==
  ASSUME TypeOK, LockDiscipline, BufferState, CopyState, WholeFrame,
         NEW c \in Clients, ClientStep(c)
  PROVE  BufferState' /\ CopyState' /\ WholeFrame'
<1> USE ClientsAssumption, FreedAssumption, BoundsAssumption
    DEF TypeOK, LockDiscipline, CamHolds, ClientHolds, ClientGoes, camVars,
        BufferState, CopyState, SizeCopied, WholeFrame, Whole, CleaningUp, Copies
<1>1. ASSUME NEW k \in Kinds, Connect(c, k)
      PROVE  BufferState' /\ CopyState' /\ WholeFrame'
  BY <1>1 DEF Connect
<1>2. CASE StreamHead(c) \/ EnterWait(c) \/ SpuriousWakeup(c) \/ Relock(c)
  BY <1>2 DEF StreamHead, EnterWait, SpuriousWakeup, Relock
<1>3. CASE ReadSize(c)
  BY <1>3, SMTT(30) DEF ReadSize, CamStates
<1>4. CASE AllocFails(c) \/ Send(c)
  BY <1>4 DEF AllocFails, Send
<1>5. CASE ReadStamp(c)
  BY <1>5 DEF ReadStamp
<1>6. CASE CopyImage(c)
  <2>1. \/ image = stamp /\ size = stamp
        \/ image = Freed /\ CleaningUp
    <3>1. db = c
      BY <1>6 DEF CopyImage
    <3>2. cam \notin {"image", "size", "stamp", "signal"}
      BY <3>1
    <3>3. cam \in {"head", "select", "grabbed", "free", "clear", "dead"}
      BY <3>2 DEF CamStates
    <3>4. QED BY <3>3
  <2>2. BufferState' /\ CopyState'
    BY <1>6 DEF CopyImage
  <2>3. WholeFrame'
    BY <1>6, <2>1 DEF CopyImage
  <2>4. QED BY <2>2, <2>3
<1>7. QED BY <1>1, <1>2, <1>3, <1>4, <1>5, <1>6 DEF ClientStep

\* The strengthened invariant behind WholeFrame.
THEOREM CopiesAreWhole == Spec => [](BufferState /\ CopyState /\ WholeFrame)
<1> DEFINE Inv == BufferState /\ CopyState /\ WholeFrame
<1>1. Init => Inv
  BY DEF Init, BufferState, CopyState, WholeFrame
<1>2. TypeOK /\ LockDiscipline /\ Inv /\ [Next]_vars => Inv'
  <2> SUFFICES ASSUME TypeOK, LockDiscipline, Inv, [Next]_vars PROVE Inv'
    OBVIOUS
  <2>1. CASE CamStep
    BY <2>1, CamKeepsCopies
  <2>2. ASSUME NEW c \in Clients, ClientStep(c) PROVE Inv'
    BY <2>2, ClientKeepsCopies
  <2>3. CASE SigStep \/ UNCHANGED vars
    BY <2>3 DEF SigStep, SigStop, SigCancel, SigExit, vars, camVars, clientVars,
       BufferState, CopyState, SizeCopied, WholeFrame, Whole, CleaningUp
  <2>4. QED BY <2>1, <2>2, <2>3 DEF Next
<1>3. QED BY <1>1, <1>2, TypeCorrect, MutualExclusion, PTL DEF Spec

\* Size, timestamp and bytes that a client sends belong to one picture, unless
\* the camera thread is cleaning up.
THEOREM NoTornFrame == Spec => []WholeFrame
BY CopiesAreWhole, PTL

-----------------------------------------------------------------------------
(* Frames are fresh when only broadcasts end a pthread_cond_wait.          *)

\* What the camera thread does to what waiting clients know.
LEMMA CamKeepsFresh ==
  ASSUME TypeOK, FreshInv, CamStep
  PROVE  FreshInv'
<1> USE DEF TypeOK, Copies, FreshInv, WaitState, FreshFrame, CamGoes, clientVars
<1>1. CASE CamHead \/ Grab \/ CamFails \/ CamSkips \/ CamLock \/ WriteImage
           \/ WriteSize \/ FreeBuffer \/ ClearSize
  BY <1>1 DEF CamHead, Grab, CamFails, CamSkips, CamLock, WriteImage, WriteSize,
     FreeBuffer, ClearSize
<1>2. CASE WriteStamp
  BY <1>2 DEF WriteStamp
<1>3. CASE Broadcast
  BY <1>3 DEF Broadcast
<1>4. QED BY <1>1, <1>2, <1>3 DEF CamStep

\* A client that waits is woken by a broadcast only.
LEMMA ClientKeepsFresh ==
  ASSUME ~SpuriousWakeups, TypeOK, LockDiscipline, FreshInv,
         NEW c \in Clients, ClientStep(c)
  PROVE  FreshInv'
<1> USE ClientsAssumption
    DEF TypeOK, Copies, LockDiscipline, CamHolds, ClientHolds, FreshInv,
        WaitState, FreshFrame, ClientGoes, camVars
<1>1. ASSUME NEW k \in Kinds, Connect(c, k) PROVE FreshInv'
  BY <1>1 DEF Connect
<1>2. CASE StreamHead(c) \/ SpuriousWakeup(c) \/ Relock(c) \/ AllocFails(c) \/ Send(c)
  BY <1>2 DEF StreamHead, SpuriousWakeup, Relock, AllocFails, Send
<1>3. CASE EnterWait(c)
  BY <1>3 DEF EnterWait
<1>4. CASE ReadSize(c) \/ ReadStamp(c)
  BY <1>4 DEF ReadSize, ReadStamp
<1>5. CASE CopyImage(c)
  BY <1>5 DEF CopyImage
<1>6. QED BY <1>1, <1>2, <1>3, <1>4, <1>5 DEF ClientStep

\* A client sends only frames that were published after it began to wait.
THEOREM FramesAreFresh == ~SpuriousWakeups /\ Spec => []FreshInv
<1> SUFFICES ASSUME ~SpuriousWakeups PROVE Spec => []FreshInv
  OBVIOUS
<1>1. Init => FreshInv
  BY DEF Init, NoCopy, FreshInv, WaitState, FreshFrame
<1>2. TypeOK /\ LockDiscipline /\ FreshInv /\ [Next]_vars => FreshInv'
  <2> SUFFICES ASSUME TypeOK, LockDiscipline, FreshInv, [Next]_vars PROVE FreshInv'
    OBVIOUS
  <2>1. CASE CamStep
    BY <2>1, CamKeepsFresh
  <2>2. ASSUME NEW c \in Clients, ClientStep(c) PROVE FreshInv'
    BY <2>2, ClientKeepsFresh
  <2>3. CASE SigStep \/ UNCHANGED vars
    BY <2>3 DEF SigStep, SigStop, SigCancel, SigExit, vars, camVars, clientVars,
       FreshInv, WaitState, FreshFrame
  <2>4. QED BY <2>1, <2>2, <2>3 DEF Next
<1>3. QED BY <1>1, <1>2, TypeCorrect, MutualExclusion, PTL DEF Spec

\* The freshness of every frame a client sends.
THEOREM NoStaleFrame == ~SpuriousWakeups /\ Spec => []FreshFrame
<1>1. FreshInv => FreshFrame
  BY DEF FreshInv
<1>2. QED BY <1>1, FramesAreFresh, PTL

\* Successive frames of one client are successive publications.
THEOREM StreamsGoForward == ~SpuriousWakeups /\ Spec => SendsForward
<1> SUFFICES ASSUME ~SpuriousWakeups PROVE Spec => SendsForward
  OBVIOUS
<1> DEFINE Forward == \A c \in Clients :
             pc[c] = "image" /\ pc'[c] = "send" => copy'[c].pub > copy[c].pub
<1>1. TypeOK /\ FreshInv /\ [Next]_vars => [Forward]_vars
  <2> SUFFICES ASSUME TypeOK, FreshInv, Next,
                      NEW c \in Clients, pc[c] = "image", pc'[c] = "send"
               PROVE  copy'[c].pub > copy[c].pub
    BY DEF vars
  <2> USE DEF TypeOK, Copies
  <2>1. copy[c].pub < published /\ published \in Nat /\ copy[c].pub \in Nat
    BY DEF FreshInv, WaitState
  <2>2. CASE CamStep
    BY <2>2 DEF CamStep, CamHead, Grab, CamFails, CamSkips, CamLock, WriteImage,
       WriteSize, WriteStamp, Broadcast, FreeBuffer, ClearSize, CamGoes, clientVars
  <2>3. ASSUME NEW d \in Clients, ClientStep(d) PROVE copy'[c].pub > copy[c].pub
    <3> USE DEF ClientGoes
    <3>1. d = c
      <4>1. ASSUME NEW k \in Kinds, Connect(d, k) PROVE d = c
        BY <4>1 DEF Connect
      <4>2. QED BY <2>3, <4>1 DEF ClientStep, StreamHead, EnterWait, SpuriousWakeup,
              Relock, ReadSize, AllocFails, ReadStamp, CopyImage, Send
    <3>2. CopyImage(c)
      <4>1. ASSUME NEW k \in Kinds, Connect(c, k) PROVE FALSE
        BY <4>1 DEF Connect
      <4>2. QED BY <2>3, <3>1, <4>1 DEF ClientStep, StreamHead, EnterWait,
              SpuriousWakeup, Relock, ReadSize, AllocFails, ReadStamp, Send
    <3>3. copy'[c].pub = published
      BY <3>2 DEF CopyImage
    <3>4. QED BY <2>1, <3>3
  <2>4. CASE SigStep
    BY <2>4 DEF SigStep, SigStop, SigCancel, SigExit, clientVars
  <2>5. QED BY <2>2, <2>3, <2>4 DEF Next
<1>2. QED BY <1>1, TypeCorrect, FramesAreFresh, PTL DEF Spec, SendsForward

-----------------------------------------------------------------------------
(* The handoff implements the frame board.                                 *)

BoardVars == Board!vars
BoardStep == [Board!Next]_BoardVars

\* A step of the camera thread is one of the board, or none.
LEMMA CamImplementsBoard ==
  ASSUME TypeOK, CamStep
  PROVE  BoardStep
<1> USE DEF BoardStep, BoardVars, Board!vars, TypeOK, CamGoes, clientVars, CleaningUp
<1>1. CASE CamHead \/ Grab \/ CamFails \/ CamSkips \/ CamLock \/ WriteImage
           \/ WriteSize \/ Broadcast \/ ClearSize
  BY <1>1 DEF CamHead, Grab, CamFails, CamSkips, CamLock, WriteImage, WriteSize,
     Broadcast, ClearSize
<1>2. CASE WriteStamp
  <2>1. Board!Publish
    BY <1>2 DEF WriteStamp, Board!Publish
  <2>2. QED BY <2>1 DEF Board!Next
<1>3. CASE FreeBuffer
  <2>1. Board!Retire
    BY <1>3 DEF FreeBuffer, Board!Retire
  <2>2. QED BY <2>1 DEF Board!Next
<1>4. QED BY <1>1, <1>2, <1>3 DEF CamStep

\* So is a step of a client.
LEMMA ClientImplementsBoard ==
  ASSUME TypeOK, LockDiscipline, BufferState, CopyState, WholeFrame, FreshInv,
         NEW c \in Clients, ClientStep(c)
  PROVE  BoardStep
<1> USE DEF BoardStep, BoardVars, Board!vars, TypeOK, Copies, ClientGoes, camVars
<1>1. ASSUME NEW k \in Kinds, Connect(c, k) PROVE BoardStep
  BY <1>1 DEF Connect, CleaningUp
<1>2. CASE StreamHead(c) \/ EnterWait(c) \/ SpuriousWakeup(c) \/ Relock(c)
           \/ AllocFails(c) \/ Send(c)
  BY <1>2 DEF StreamHead, EnterWait, SpuriousWakeup, Relock, AllocFails, Send, CleaningUp
<1>3. CASE ReadSize(c)
  BY <1>3 DEF ReadSize, CleaningUp
<1>4. CASE ReadStamp(c)
  BY <1>4 DEF ReadStamp, CleaningUp
<1>5. CASE CopyImage(c)
  <2> DEFINE Seen == [d \in Clients |->
                        [pub |-> copy[d].pub, picture |-> copy[d].image]]
             Latest == [pub |-> published, picture |-> stamp]
             Taken == [pub |-> published,
                       picture |-> IF copy[c].size = 0 THEN 0 ELSE image]
  <2>1. Seen' = [Seen EXCEPT ![c] = Taken]
    BY <1>5 DEF CopyImage
  <2>2. UNCHANGED <<Latest, CleaningUp>>
    BY <1>5 DEF CopyImage, CleaningUp
  <2>3. CASE CleaningUp
    <3>1. image = Freed
      BY <2>3 DEF CleaningUp, BufferState
    <3>2. \E p \in {0, Freed} : Taken = [pub |-> published, picture |-> p]
      BY <3>1
    <3>3. Board!Lose(c)
      BY <2>1, <2>2, <2>3, <3>2 DEF Board!Lose
    <3>4. QED BY <3>3 DEF Board!Next
  <2>4. CASE ~CleaningUp
    <3>1. cam \in {"head", "select", "grabbed", "free"}
      BY <1>5, <2>4, ClientsAssumption
         DEF CopyImage, CleaningUp, CamStates, LockDiscipline, CamHolds, ClientHolds
    <3>2. copy[c].size = stamp /\ image = stamp
      BY <1>5, <3>1 DEF CopyImage, BufferState, CopyState, SizeCopied
    <3>3. Taken = Latest
      BY <3>2
    <3>4. published > copy[c].pub
      BY <1>5 DEF CopyImage, FreshInv, WaitState
    <3>5. Board!Deliver(c)
      BY <2>1, <2>2, <3>3, <3>4 DEF Board!Deliver
    <3>6. QED BY <3>5 DEF Board!Next
  <2>5. QED BY <2>3, <2>4
<1>6. QED BY <1>1, <1>2, <1>3, <1>4, <1>5 DEF ClientStep

\* Threads, mutex and condition variable together behave as the frame board:
\* each client reads complete publications, each at most once and in order.
THEOREM HandoffImplementsBoard == ~SpuriousWakeups /\ Spec => BoardSpec
<1> SUFFICES ASSUME ~SpuriousWakeups PROVE Spec => BoardSpec
  OBVIOUS
<1>1. Init => Board!Init
  BY DEF Init, Board!Init, Board!NoFrame, NoCopy, CleaningUp
<1>2. /\ TypeOK /\ LockDiscipline /\ FreshInv
      /\ BufferState /\ CopyState /\ WholeFrame /\ [Next]_vars
      => BoardStep
  <2> SUFFICES ASSUME TypeOK, LockDiscipline, FreshInv, BufferState, CopyState,
                      WholeFrame, [Next]_vars
               PROVE  BoardStep
    OBVIOUS
  <2>1. CASE CamStep
    BY <2>1, CamImplementsBoard
  <2>2. ASSUME NEW c \in Clients, ClientStep(c) PROVE BoardStep
    BY <2>2, ClientImplementsBoard
  <2>3. CASE SigStep \/ UNCHANGED vars
    BY <2>3 DEF SigStep, SigStop, SigCancel, SigExit, vars, camVars, clientVars,
       BoardStep, BoardVars, Board!vars, CleaningUp
  <2>4. QED BY <2>1, <2>2, <2>3 DEF Next
<1>3. QED
  BY <1>1, <1>2, TypeCorrect, MutualExclusion, CopiesAreWhole, FramesAreFresh, PTL
     DEF Spec, BoardSpec, Board!Spec, BoardStep, BoardVars

=============================================================================
