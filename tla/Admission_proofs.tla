-------------------------- MODULE Admission_proofs --------------------------
(***************************************************************************)
(* Proofs about Admission, for every number of clients, threads and places *)
(* and whatever faults are considered.                                     *)
(***************************************************************************)
EXTENDS Admission, FiniteSetTheorems, SequenceTheorems, TLAPS

(* What the proofs use of the constants. *)
USE ClientAssumption, ThreadAssumption, CapacityAssumption

(* The next place of the ring, as shm.c computes it, is a place. *)
LEMMA NextPlace ==
  ASSUME NEW i \in Place
  PROVE  (i + 1) % N \in Place
  BY DEF Place

(***************************************************************************)
(* Types.                                                                  *)
(***************************************************************************)
LEMMA WrittenType ==
  ASSUME TypeOK, NEW c \in Client, NEW m \in {"quit", "command"}
  PROVE  Written(c, m) \in [Client -> {"nothing", "quit", "command"}]
  BY DEF TypeOK, Written

LEMMA ClientType ==
  ASSUME TypeOK, NEW c \in Client, ClientNext(c)
  PROVE  TypeOK'
  <1> USE DEF TypeOK, Goto, sems, ring, clientVars, consumerVars, threadVars,
              ClientPC, Pid
  <1>0. CASE Launch(c)
    BY <1>0 DEF Launch
  <1>1. CASE \/ PEmpty(c) \/ PMutex(c) \/ VMutex(c) \/ VFull(c)
             \/ OpenQuestion(c) \/ OpenAnswer(c)
    BY <1>1 DEF PEmpty, PMutex, VMutex, VFull, OpenQuestion, OpenAnswer, P, V
  <1>5. CASE Store(c)
    BY <1>5 DEF Store
  <1>2. CASE AdvanceHead(c)
    BY <1>2, NextPlace DEF AdvanceHead
  <1>w. /\ Written(c, "quit") \in [Client -> {"nothing", "quit", "command"}]
        /\ Written(c, "command") \in [Client -> {"nothing", "quit", "command"}]
    BY WrittenType
  <1>3. CASE SendCommand(c) \/ ClientTimeout(c) \/ SendQuit(c)
    BY <1>3, <1>w DEF SendCommand, ClientTimeout, SendQuit
  <1>6. CASE Leave(c) \/ Interrupt(c)
    BY <1>6, <1>w DEF Leave, Interrupt
  <1>4. CASE Receive(c) \/ EndOfInput(c) \/ Kill(c) \/ Restart(c)
    BY <1>4 DEF Receive, EndOfInput, Kill, Restart
  <1> QED BY <1>0, <1>1, <1>2, <1>3, <1>4, <1>5, <1>6 DEF ClientNext

LEMMA ConsumerType ==
  ASSUME TypeOK, ConsumerNext
  PROVE  TypeOK'
  BY NextPlace
  DEF TypeOK, ConsumerNext, ConsumerPFull, ConsumerPMutex, Load, AdvanceTail,
      ConsumerScan, Create, ConsumerVMutex, ConsumerGoto, DaemonExit, P, V,
      sems, ring, clientVars, consumerVars, threadVars, ConsumerPC, ThreadPC

LEMMA ThreadType ==
  ASSUME TypeOK, NEW t \in Thread, ThreadNext(t)
  PROVE  TypeOK'
  <1> USE DEF TypeOK, ThreadGoto, sems, ring, clientVars, consumerVars,
              threadVars, ThreadPC
  <1>1. CASE ReadPid(t)
    BY <1>1 DEF ReadPid
  <1>2. CASE CallOpenQuestion(t) \/ CallOpenAnswer(t)
    BY <1>2 DEF CallOpenQuestion, CallOpenAnswer, BeginOpen, DaemonExit
  <1>3. CASE ReturnOpenQuestion(t) \/ ReturnOpenAnswer(t)
    BY <1>3 DEF ReturnOpenQuestion, ReturnOpenAnswer
  <1>4. CASE ThreadScan(t)
    BY <1>4 DEF ThreadScan
  <1>5. CASE Take(t)
    BY <1>5 DEF Take
  <1>6. CASE ReadQuit(t)
    BY <1>6 DEF ReadQuit, FreeSlot, DaemonExit, Pid
  <1>7. CASE ReadCommand(t) \/ Process(t)
    BY <1>7 DEF ReadCommand, Process
  <1>8. CASE Reply(t) \/ Notify(t)
    BY <1>8 DEF Reply, Notify, WriteAnswer, SigPipe, Running, DaemonExit, Pid
  <1>10. CASE FirstTimeout(t)
    BY <1>10 DEF FirstTimeout, FreeSlot, DaemonExit, Pid
  <1>11. CASE LaterTimeout(t)
    BY <1>11 DEF LaterTimeout, FreeSlot, DaemonExit, Pid
  <1>12. CASE Signal(t)
    BY <1>12 DEF Signal, SigPipe, Running, DaemonExit, Pid
  <1>13. CASE ServeEof(t)
    BY <1>13 DEF ServeEof
  <1>9. CASE VEmpty(t)
    BY <1>9 DEF VEmpty, V, Pid
  <1> QED
    BY <1>1, <1>2, <1>3, <1>4, <1>5, <1>6, <1>7, <1>8, <1>9, <1>10, <1>11,
       <1>12, <1>13 DEF ThreadNext

LEMMA InitType == Init => TypeOK
  BY DEF Init, TypeOK, Place, Pid, ClientPC, ConsumerPC, ThreadPC

LEMMA NextType == TypeOK /\ [Next]_vars => TypeOK'
  <1> SUFFICES ASSUME TypeOK, [Next]_vars PROVE TypeOK'
    OBVIOUS
  <1>1. CASE UNCHANGED vars
    BY <1>1 DEF vars, sems, ring, clientVars, consumerVars, threadVars, TypeOK
  <1>2. CASE Next
    BY <1>2, ClientType, ConsumerType, ThreadType DEF Next
  <1> QED BY <1>1, <1>2

(* The variables keep their types: in particular no step of any process    *)
(* moves an index of the ring or of pthread_alloc past buffer_size.        *)
THEOREM TypeCorrect == Spec => []TypeOK
  BY InitType, NextType, PTL DEF Spec

(***************************************************************************)
(* Mutual exclusion.  The invariant is inductive once the types are known. *)
(***************************************************************************)
LEMMA ClientExclusion ==
  ASSUME TypeOK, MutualExclusion, NEW c \in Client, ClientNext(c)
  PROVE  MutualExclusion'
  <1> USE DEF TypeOK, MutualExclusion, InSection, ConsumerInSection, Goto,
              ClientPC, sems, ring, clientVars, consumerVars, threadVars
  <1>1. CASE PMutex(c)
    BY <1>1 DEF PMutex, P
  <1>2. CASE VMutex(c)
    BY <1>2 DEF VMutex, V
  <1>3. CASE Store(c) \/ AdvanceHead(c)
    BY <1>3 DEF Store, AdvanceHead
  <1>4. CASE Launch(c) \/ PEmpty(c) \/ VFull(c) \/ OpenQuestion(c)
             \/ OpenAnswer(c) \/ SendCommand(c) \/ Receive(c)
             \/ ClientTimeout(c) \/ SendQuit(c) \/ Leave(c) \/ EndOfInput(c)
             \/ Restart(c)
    BY <1>4 DEF Launch, PEmpty, VFull, OpenQuestion, OpenAnswer, SendCommand,
                Receive, ClientTimeout, SendQuit,
                Leave, EndOfInput, Restart, P, V
  <1>5. CASE Interrupt(c) \/ Kill(c)
    BY <1>5 DEF Interrupt, Kill
  <1> QED BY <1>1, <1>2, <1>3, <1>4, <1>5 DEF ClientNext

LEMMA ConsumerExclusion ==
  ASSUME TypeOK, MutualExclusion, ConsumerNext
  PROVE  MutualExclusion'
  <1> USE DEF TypeOK, MutualExclusion, InSection, ConsumerInSection,
              ConsumerGoto, sems, ring, clientVars, consumerVars, threadVars
  <1>1. CASE ConsumerPMutex
    BY <1>1 DEF ConsumerPMutex, P
  <1>2. CASE ConsumerVMutex
    BY <1>2 DEF ConsumerVMutex, V
  <1>3. CASE ConsumerPFull \/ Load \/ AdvanceTail \/ ConsumerScan
             \/ \E t \in Thread : Create(t)
    BY <1>3 DEF ConsumerPFull, Load, AdvanceTail, ConsumerScan, Create, P
  <1> QED BY <1>1, <1>2, <1>3 DEF ConsumerNext

(* No thread touches the mutex, the ring or the positions of the others. *)
LEMMA ThreadFrame ==
  ASSUME NEW t \in Thread, ThreadNext(t)
  PROVE  UNCHANGED <<mutex, full, ring, pc, alive, fifos, consumerVars>>
  BY DEF ThreadNext, ReadPid, CallOpenQuestion, ReturnOpenQuestion,
         CallOpenAnswer, BeginOpen, ReturnOpenAnswer, ThreadScan, Take,
         ReadQuit, ReadCommand, Process, Reply, FirstTimeout, Notify,
         LaterTimeout, Signal, WriteAnswer, ServeEof, VEmpty, ThreadGoto, sems,
         ring,
         clientVars, consumerVars

LEMMA NextExclusion ==
  TypeOK /\ MutualExclusion /\ [Next]_vars => MutualExclusion'
  <1> SUFFICES ASSUME TypeOK, MutualExclusion, [Next]_vars
               PROVE  MutualExclusion'
    OBVIOUS
  <1> USE DEF MutualExclusion, InSection, ConsumerInSection
  <1>1. CASE UNCHANGED vars
    BY <1>1 DEF vars, sems, clientVars, consumerVars
  <1>2. CASE \E t \in Thread : ThreadNext(t)
    BY <1>2, ThreadFrame DEF consumerVars
  <1>3. CASE \E c \in Client : ClientNext(c)
    BY <1>3, ClientExclusion
  <1>4. CASE ConsumerNext
    BY <1>4, ConsumerExclusion
  <1> QED BY <1>1, <1>2, <1>3, <1>4 DEF Next

(* At most one process is between P(mutex) and V(mutex), even when others  *)
(* were killed or interrupted there: the accesses of add_element() and     *)
(* remove_element() to the ring never overlap.                             *)
THEOREM ExclusionHolds == Spec => []MutualExclusion
  <1>1. Init => MutualExclusion
    BY DEF Init, MutualExclusion, InSection, ConsumerInSection
  <1> QED
    BY <1>1, TypeCorrect, NextExclusion, PTL DEF Spec

(***************************************************************************)
(* Conservation of places.  Each step moves one place at most.             *)
(***************************************************************************)
LEMMA Finiteness ==
  /\ IsFiniteSet(Joining) /\ Cardinality(Joining) \in Nat
  /\ IsFiniteSet(Queued) /\ Cardinality(Queued) \in Nat
  /\ IsFiniteSet(Busy) /\ Cardinality(Busy) \in Nat
  <1>1. Joining \subseteq Client /\ Queued \subseteq Client /\ Busy \subseteq Thread
    BY DEF Joining, Queued, Busy
  <1> QED BY <1>1, FS_Subset, FS_CardinalityType

LEMMA Added ==
  ASSUME NEW S, NEW x, IsFiniteSet(S), x \notin S
  PROVE  Cardinality(S \cup {x}) = Cardinality(S) + 1
  BY FS_AddElement

LEMMA Removed ==
  ASSUME NEW S, NEW x, IsFiniteSet(S), x \in S
  PROVE  Cardinality(S \ {x}) = Cardinality(S) - 1
  BY FS_RemoveElement

LEMMA Weights == Taking \in {0, 1} /\ InHand \in {0, 1}
  BY DEF Taking, InHand

(* A step changes no length when it leaves alone what is counted. *)
LEMMA SameCounts ==
  ASSUME UNCHANGED <<full, Queued, Busy, Taking, InHand>>
  PROVE  QueueLength' = QueueLength /\ Served' = Served
  BY DEF QueueLength, Served

(* What a step of a client does to the lengths and to the free places. *)
LEMMA ClientMoves ==
  ASSUME TypeOK, NEW c \in Client, ClientNext(c)
  PROVE  /\ Served' = Served
         /\ AdvanceHead(c) =>
              /\ c \in Joining
              /\ QueueLength' = QueueLength + 1
              /\ empty' + Cardinality(Joining)' = empty + Cardinality(Joining) - 1
         /\ ~AdvanceHead(c) =>
              /\ QueueLength' = QueueLength
              /\ empty' + Cardinality(Joining)' = empty + Cardinality(Joining)
  <1>t. empty \in Nat /\ full \in Nat /\ pc \in [Client -> ClientPC]
    BY DEF TypeOK
  <1> USE Finiteness, Weights, <1>t DEF QueueLength, Served, Goto, sems, ring,
          consumerVars, threadVars
  <1>0. UNCHANGED <<Busy, Taking, InHand>>
    BY DEF ClientNext, Launch, PEmpty, PMutex, Store, AdvanceHead, VMutex,
           VFull, OpenQuestion, OpenAnswer, SendCommand, Receive,
           ClientTimeout, SendQuit, Leave, EndOfInput,
           Interrupt, Kill, Restart, Busy, Taking, InHand
  <1>1. CASE PEmpty(c)
    <2>1. c \notin Joining /\ Joining' = Joining \cup {c} /\ Queued' = Queued
      BY <1>1 DEF PEmpty, Joining, Queued
    <2>2. empty' = empty - 1 /\ full' = full
      BY <1>1 DEF PEmpty, P
    <2>3. ~AdvanceHead(c)
      BY <1>1 DEF PEmpty, AdvanceHead
    <2> QED BY <1>0, <2>1, <2>2, <2>3, Added
  <1>2. CASE AdvanceHead(c)
    <2>1. /\ c \in Joining /\ Joining' = Joining \ {c}
          /\ c \notin Queued /\ Queued' = Queued \cup {c}
      BY <1>2 DEF AdvanceHead, Joining, Queued
    <2>2. empty' = empty /\ full' = full
      BY <1>2 DEF AdvanceHead
    <2> QED BY <1>0, <1>2, <2>1, <2>2, Added, Removed
  <1>3. CASE VFull(c)
    <2>1. c \in Queued /\ Queued' = Queued \ {c} /\ Joining' = Joining
      BY <1>3 DEF VFull, Joining, Queued
    <2>2. empty' = empty /\ full' = full + 1
      BY <1>3 DEF VFull, V
    <2>3. ~AdvanceHead(c)
      BY <1>3 DEF VFull, AdvanceHead
    <2> QED BY <1>0, <2>1, <2>2, <2>3, Removed
  <1>4. CASE \/ Launch(c) \/ PMutex(c) \/ Store(c) \/ VMutex(c)
             \/ OpenQuestion(c) \/ OpenAnswer(c) \/ SendCommand(c)
             \/ Receive(c) \/ ClientTimeout(c) \/ SendQuit(c) \/ Leave(c)
             \/ EndOfInput(c) \/ Interrupt(c) \/ Kill(c) \/ Restart(c)
    <2>1. UNCHANGED <<empty, full, Joining, Queued>>
      BY <1>4
      DEF Launch, PMutex, Store, VMutex, OpenQuestion, OpenAnswer, SendCommand,
          Receive, ClientTimeout, SendQuit,
          Leave, EndOfInput, Interrupt, Kill, Restart, Joining, Queued
    <2>2. ~AdvanceHead(c)
      BY <1>4
      DEF Launch, PMutex, Store, VMutex, OpenQuestion, OpenAnswer, SendCommand,
          Receive, ClientTimeout, SendQuit,
          Leave, EndOfInput, Interrupt, Kill, Restart, AdvanceHead
    <2> QED BY <1>0, <2>1, <2>2
  <1> QED BY <1>1, <1>2, <1>3, <1>4 DEF ClientNext

(* What a step of the consumer does to them. *)
LEMMA ConsumerMoves ==
  ASSUME TypeOK, ConsumerNext
  PROVE  /\ UNCHANGED <<empty, Joining, Queued>>
         /\ Load => QueueLength' = QueueLength - 1 /\ Served' = Served + 1
         /\ ~Load => QueueLength' = QueueLength /\ Served' = Served
  <1> USE Finiteness, Weights DEF TypeOK, QueueLength, Served, ConsumerGoto,
          sems, ring, clientVars, consumerVars, threadVars
  <1>1. UNCHANGED <<empty, Joining, Queued>>
    BY DEF ConsumerNext, ConsumerPFull, ConsumerPMutex, Load, AdvanceTail,
           ConsumerScan, Create, ConsumerVMutex, P, V, Joining, Queued
  <1>2. CASE ConsumerPFull
    <2>1. full' = full - 1 /\ Busy' = Busy /\ ~Load
      BY <1>2 DEF ConsumerPFull, Load, P, Busy
    <2>2. Taking = 0 /\ Taking' = 1 /\ InHand = 0 /\ InHand' = 0
      BY <1>2 DEF ConsumerPFull, Taking, InHand
    <2> QED BY <1>1, <2>1, <2>2
  <1>3. CASE Load
    <2>1. full' = full /\ Busy' = Busy
      BY <1>3 DEF Load, Busy
    <2>2. Taking = 1 /\ Taking' = 0 /\ InHand = 0 /\ InHand' = 1
      BY <1>3 DEF Load, Taking, InHand
    <2> QED BY <1>1, <1>3, <2>1, <2>2
  <1>4. ASSUME NEW t \in Thread, Create(t)
        PROVE  ~Load /\ QueueLength' = QueueLength /\ Served' = Served
    <2>1. full' = full /\ t \notin Busy /\ Busy' = Busy \cup {t} /\ ~Load
      BY <1>4 DEF Create, Load, Busy
    <2>2. Taking = 0 /\ Taking' = 0 /\ InHand = 1 /\ InHand' = 0
      BY <1>4 DEF Create, Taking, InHand
    <2> QED BY <1>1, <2>1, <2>2, Added
  <1>5. CASE ConsumerPMutex \/ AdvanceTail \/ ConsumerScan \/ ConsumerVMutex
    <2>1. UNCHANGED <<full, Busy, Taking, InHand>> /\ ~Load
      BY <1>5 DEF ConsumerPMutex, AdvanceTail, ConsumerScan, ConsumerVMutex,
                  Load, P, V, Busy, Taking, InHand
    <2> QED BY <1>1, <2>1, SameCounts
  <1> QED BY <1>1, <1>2, <1>3, <1>4, <1>5 DEF ConsumerNext

(* What a step of a thread does to them. *)
LEMMA ThreadMoves ==
  ASSUME TypeOK, NEW t \in Thread, ThreadNext(t)
  PROVE  /\ UNCHANGED <<Joining, Queued>>
         /\ QueueLength' = QueueLength
         /\ VEmpty(t) => Served' = Served - 1 /\ empty' = empty + 1
         /\ ~VEmpty(t) => Served' = Served /\ empty' = empty
  <1> USE Finiteness, Weights DEF TypeOK, QueueLength, Served
  <1>1. UNCHANGED <<full, Joining, Queued, Taking, InHand>>
    BY ThreadFrame DEF Joining, Queued, Taking, InHand, consumerVars
  <1>2. CASE VEmpty(t)
    <2>1. t \in Busy /\ Busy' = Busy \ {t} /\ empty' = empty + 1
      BY <1>2 DEF VEmpty, V, ThreadGoto, Busy
    <2> QED BY <1>1, <1>2, <2>1, Removed
  <1>3. CASE ~VEmpty(t)
    <2>1. empty' = empty
      BY <1>3 DEF ThreadNext, ReadPid, CallOpenQuestion, ReturnOpenQuestion,
             CallOpenAnswer, BeginOpen, ReturnOpenAnswer, ThreadScan, Take,
             ReadQuit, ReadCommand, Process, Reply, FirstTimeout, Notify,
         LaterTimeout, Signal, WriteAnswer, ServeEof, sems
    <2>2. Busy' = Busy
      BY <1>3 DEF ThreadNext, ReadPid, CallOpenQuestion, ReturnOpenQuestion,
             CallOpenAnswer, BeginOpen, ReturnOpenAnswer, ThreadScan, Take,
             ReadQuit, ReadCommand, Process, Reply, FirstTimeout, Notify,
         LaterTimeout, Signal, WriteAnswer, ServeEof, ThreadGoto, Busy
    <2> QED BY <1>1, <1>3, <2>1, <2>2, SameCounts
  <1> QED BY <1>2, <1>3

LEMMA StutterMoves ==
  ASSUME UNCHANGED vars
  PROVE  UNCHANGED <<empty, Joining, Queued, QueueLength, Served>>
  <1>1. UNCHANGED <<empty, full, Joining, Queued, Busy, Taking, InHand>>
    BY DEF vars, sems, clientVars, consumerVars, threadVars, Joining, Queued,
           Busy, Taking, InHand
  <1> QED BY <1>1, SameCounts

LEMMA Lengths ==
  ASSUME TypeOK
  PROVE  /\ QueueLength \in Nat /\ Served \in Nat
         /\ Cardinality(Joining) \in Nat
  BY Finiteness, Weights DEF TypeOK, QueueLength, Served

LEMMA NextPlaces == TypeOK /\ PlacesConserved /\ [Next]_vars => PlacesConserved'
  <1> SUFFICES ASSUME TypeOK, PlacesConserved, [Next]_vars
               PROVE  PlacesConserved'
    OBVIOUS
  <1> USE Lengths DEF TypeOK, PlacesConserved
  <1>1. CASE UNCHANGED vars
    BY <1>1, StutterMoves
  <1>2. ASSUME NEW c \in Client, ClientNext(c) PROVE PlacesConserved'
    BY <1>2, ClientMoves
  <1>3. CASE ConsumerNext
    BY <1>3, ConsumerMoves
  <1>4. ASSUME NEW t \in Thread, ThreadNext(t) PROVE PlacesConserved'
    BY <1>4, ThreadMoves
  <1> QED BY <1>1, <1>2, <1>3, <1>4 DEF Next

(* Every place taken by P(empty) in a client is accounted for until the    *)
(* V(empty) at the end of run(): the places of clients that died on the    *)
(* way are neither lost from the sum nor given back twice.                 *)
THEOREM PlacesAreConserved == Spec => []PlacesConserved
  <1>1. Init => PlacesConserved
    <2> SUFFICES ASSUME Init PROVE PlacesConserved
      OBVIOUS
    <2>1. Joining = {} /\ Queued = {} /\ Busy = {} /\ Taking = 0 /\ InHand = 0
      BY DEF Init, Joining, Queued, Busy, Taking, InHand
    <2>2. empty = N /\ full = 0
      BY DEF Init
    <2> QED
      BY <2>1, <2>2, FS_EmptySet DEF PlacesConserved, QueueLength, Served
  <1> QED
    BY <1>1, TypeCorrect, NextPlaces, PTL DEF Spec

(***************************************************************************)
(* The ring.  Indices stay below 2 * N, where % is a single subtraction.   *)
(***************************************************************************)
LEMMA Wrap ==
  ASSUME NEW i \in 0 .. 2 * N - 1
  PROVE  i % N = IF i < N THEN i ELSE i - N
  OBVIOUS

(* One more entry at the head, one fewer at the tail. *)
LEMMA Shift ==
  ASSUME NEW o \in Place, NEW q \in 0 .. N
  PROVE  /\ q < N => (((o + q) % N) + 1) % N = (o + (q + 1)) % N
         /\ q > 0 => (o + q) % N = (((o + 1) % N) + (q - 1)) % N
  <1>1. /\ o + q \in 0 .. 2 * N - 1 /\ o + 1 \in 0 .. 2 * N - 1
        /\ (o + q) % N \in Place /\ (o + 1) % N \in Place
    BY NextPlace, Wrap DEF Place
  <1>2. ASSUME q < N PROVE (((o + q) % N) + 1) % N = (o + (q + 1)) % N
    <2>1. o + (q + 1) \in 0 .. 2 * N - 1 /\ ((o + q) % N) + 1 \in 0 .. 2 * N - 1
      BY <1>1, <1>2 DEF Place
    <2> QED BY <1>1, <2>1, Wrap DEF Place
  <1>3. ASSUME q > 0 PROVE (o + q) % N = (((o + 1) % N) + (q - 1)) % N
    <2>1. CASE o + 1 < N
      <3>1. (o + 1) % N = o + 1
        BY <1>1, <2>1, Wrap DEF Place
      <3> QED BY <3>1 DEF Place
    <2>2. CASE o + 1 = N
      <3>1. (o + 1) % N = 0 /\ (o + q) % N = q - 1
        BY <1>1, <1>3, <2>2, Wrap DEF Place
      <3>2. (q - 1) % N = q - 1
        BY <1>3, Wrap
      <3> QED BY <3>1, <3>2
    <2> QED BY <2>1, <2>2 DEF Place
  <1> QED BY <1>2, <1>3

(* How much room the ring has, by the conservation of places. *)
LEMMA Room ==
  ASSUME TypeOK, PlacesConserved
  PROVE  /\ QueueLength \in 0 .. N /\ Served \in 0 .. N
         /\ QueueLength + Served <= N
         /\ Oldest \in Place
         /\ \A c \in Joining : QueueLength + Served < N
  <1>1. \A c \in Joining : Cardinality(Joining) > 0
    BY Finiteness, FS_EmptySet
  <1> QED BY <1>1, Lengths, NextPlace DEF TypeOK, PlacesConserved, Oldest

LEMMA ClientRing ==
  ASSUME TypeOK, MutualExclusion, PlacesConserved, NoOverrun,
         NEW c \in Client, ClientNext(c)
  PROVE  NoOverrun'
  <1> USE DEF TypeOK, MutualExclusion, NoOverrun, InSection, Goto
  <1>1. Oldest' = Oldest
    BY DEF ClientNext, Launch, PEmpty, PMutex, Store, AdvanceHead, VMutex,
           VFull, OpenQuestion, OpenAnswer, SendCommand, Receive,
           ClientTimeout, SendQuit, Leave, EndOfInput,
           Interrupt, Kill, Restart, Oldest, ring, consumerVars
  <1>2. \A d \in Client : pc[d] \in {"P_mutex", "store"} => QueueLength < N
    BY Room, Lengths DEF Joining
  <1>3. CASE AdvanceHead(c)
    <2>1. QueueLength' = QueueLength + 1 /\ QueueLength < N
      BY <1>3, ClientMoves, Room, Lengths
    <2>2. head' = (Oldest' + QueueLength') % N
      BY <1>1, <1>3, <2>1, Room, Shift DEF AdvanceHead
    <2>3. \A d \in Client : pc'[d] # "store" /\ pc'[d] # "head"
      BY <1>3 DEF AdvanceHead
    <2> QED BY <2>2, <2>3
  <1>4. CASE Store(c)
    <2>1. QueueLength' = QueueLength
      BY <1>4, ClientMoves DEF Store, AdvanceHead
    <2>2. head' = head /\ buffer'[head] = c
      BY <1>4 DEF Store
    <2>3. \A d \in Client : pc'[d] # "store" /\ (pc'[d] = "head" => d = c)
      BY <1>4 DEF Store
    <2> QED BY <1>1, <2>1, <2>2, <2>3
  <1>5. CASE ~AdvanceHead(c) /\ ~Store(c)
    <2>1. QueueLength' = QueueLength
      BY <1>5, ClientMoves
    <2>2. head' = head /\ buffer' = buffer
      BY <1>5
      DEF ClientNext, Launch, PEmpty, PMutex, VMutex, VFull, OpenQuestion,
          OpenAnswer, SendCommand, Receive, ClientTimeout, SendQuit, Leave,
          EndOfInput, Interrupt, Kill, Restart,
          ring
    <2>3. \A d \in Client : /\ pc'[d] = "head" => pc[d] = "head"
                            /\ pc'[d] = "store" =>
                                 pc[d] \in {"P_mutex", "store"}
      BY <1>5
      DEF ClientNext, Launch, PEmpty, PMutex, VMutex, VFull, OpenQuestion,
          OpenAnswer, SendCommand, Receive, ClientTimeout, SendQuit, Leave,
          EndOfInput, Interrupt, Kill, Restart
    <2> QED BY <1>1, <1>2, <2>1, <2>2, <2>3
  <1> QED BY <1>3, <1>4, <1>5

LEMMA ConsumerRing ==
  ASSUME TypeOK, PlacesConserved, NoOverrun, ConsumerNext
  PROVE  NoOverrun'
  <1> USE DEF TypeOK, NoOverrun, ConsumerGoto
  <1>1. UNCHANGED <<pc, head, buffer>>
    BY DEF ConsumerNext, ConsumerPFull, ConsumerPMutex, Load, AdvanceTail,
           ConsumerScan, Create, ConsumerVMutex, ring, clientVars
  <1>2. CASE Load
    <2>1. QueueLength' = QueueLength - 1
      BY <1>2, ConsumerMoves
    <2>2. QueueLength > 0
      BY <1>2, Finiteness DEF Load, QueueLength, Taking
    <2>3. Oldest = tail /\ Oldest' = (tail + 1) % N
      BY <1>2 DEF Load, Oldest, ring
    <2>4. head' = (Oldest' + QueueLength') % N
      BY <1>1, <2>1, <2>2, <2>3, Room, Shift
    <2>5. \A c \in Client : pc[c] = "store" => QueueLength' < N
      BY <2>1, Lengths
    <2> QED BY <1>1, <2>4, <2>5
  <1>3. CASE ~Load
    <2>1. QueueLength' = QueueLength
      BY <1>3, ConsumerMoves
    <2>2. Oldest' = Oldest
      BY <1>3 DEF ConsumerNext, ConsumerPFull, ConsumerPMutex, AdvanceTail,
         ConsumerScan, Create, ConsumerVMutex, Oldest, ring
    <2> QED BY <1>1, <2>1, <2>2
  <1> QED BY <1>2, <1>3

LEMMA NextRing ==
  TypeOK /\ MutualExclusion /\ PlacesConserved /\ NoOverrun /\ [Next]_vars
    => NoOverrun'
  <1> SUFFICES ASSUME TypeOK, MutualExclusion, PlacesConserved, NoOverrun,
                      [Next]_vars
               PROVE  NoOverrun'
    OBVIOUS
  <1>1. CASE UNCHANGED vars
    <2>1. QueueLength' = QueueLength /\ Oldest' = Oldest
      BY <1>1, StutterMoves DEF vars, ring, consumerVars, Oldest
    <2> QED BY <1>1, <2>1 DEF vars, ring, clientVars, NoOverrun
  <1>2. ASSUME NEW t \in Thread, ThreadNext(t) PROVE NoOverrun'
    <2>1. QueueLength' = QueueLength /\ Oldest' = Oldest
      BY <1>2, ThreadMoves, ThreadFrame DEF ring, consumerVars, Oldest
    <2> QED BY <1>2, <2>1, ThreadFrame DEF ring, NoOverrun
  <1> QED BY <1>1, <1>2, ClientRing, ConsumerRing DEF Next

(* The ring never overflows although shm.c does not test for it: head and  *)
(* tail agree with the number of unread pids, and add_element() writes to  *)
(* a place whose pid has been read.                                        *)
THEOREM RingIsSafe == Spec => []NoOverrun
  <1>1. Init => NoOverrun
    <2> SUFFICES ASSUME Init PROVE NoOverrun
      OBVIOUS
    <2>1. Queued = {} /\ Taking = 0 /\ full = 0 /\ Oldest = 0 /\ head = 0
      BY DEF Init, Queued, Taking, Oldest
    <2>2. QueueLength = 0
      BY <2>1, FS_EmptySet DEF QueueLength
    <2> QED BY <2>1, <2>2, Wrap DEF Init, NoOverrun
  <1> QED
    BY <1>1, TypeCorrect, ExclusionHolds, PlacesAreConserved, NextRing, PTL
    DEF Spec

(***************************************************************************)
(* Refinement of BoundedQueue.                                             *)
(***************************************************************************)
(* The unread entries lie before head. *)
LEMMA BeforeHead ==
  ASSUME NEW o \in Place, NEW q \in 0 .. N - 1, NEW k \in 1 .. q
  PROVE  (o + k - 1) % N # (o + q) % N
  <1>1. o + k - 1 \in 0 .. 2 * N - 1 /\ o + q \in 0 .. 2 * N - 1
    BY DEF Place
  <1> QED BY <1>1, Wrap DEF Place

LEMMA QueueLen ==
  ASSUME TypeOK
  PROVE  /\ Len(Queue) = QueueLength
         /\ DOMAIN Queue = 1 .. QueueLength
         /\ Queue \in Seq(Pid)
  <1>1. QueueLength \in Nat
    BY Lengths
  <1>2. \A k \in 1 .. QueueLength : (Oldest + k - 1) % N \in Place
    BY <1>1, NextPlace DEF TypeOK, Oldest, Place
  <1>3. \A k \in 1 .. QueueLength : buffer[(Oldest + k - 1) % N] \in Pid
    BY <1>2 DEF TypeOK
  <1>4. Queue \in [1 .. QueueLength -> Pid]
    BY <1>3 DEF Queue
  <1> QED BY <1>1, <1>4

(* Sequences as functions. *)
LEMMA AppendAsFunction ==
  ASSUME NEW S, NEW q \in Seq(S), NEW x \in S
  PROVE  Append(q, x) =
           [k \in 1 .. Len(q) + 1 |-> IF k = Len(q) + 1 THEN x ELSE q[k]]
  <1>1. /\ Append(q, x) \in [1 .. Len(q) + 1 -> S]
        /\ \A k \in 1 .. Len(q) : Append(q, x)[k] = q[k]
        /\ Append(q, x)[Len(q) + 1] = x
    <2>1. Append(q, x) \in Seq(S) /\ Len(Append(q, x)) = Len(q) + 1
      BY AppendProperties
    <2>2. Append(q, x) \in [1 .. Len(Append(q, x)) -> S]
      BY <2>1, LenProperties
    <2> QED BY <2>1, <2>2, AppendProperties
  <1>2. Len(q) \in Nat
    BY LenProperties
  <1>3. \A k \in 1 .. Len(q) + 1 :
          Append(q, x)[k] = IF k = Len(q) + 1 THEN x ELSE q[k]
    BY <1>1, <1>2
  <1> QED BY <1>1, <1>3

LEMMA TailAsFunction ==
  ASSUME NEW S, NEW q \in Seq(S), q # << >>
  PROVE  Tail(q) = [k \in 1 .. Len(q) - 1 |-> q[k + 1]]
  <1>1. Tail(q) \in [1 .. Len(q) - 1 -> S]
    BY HeadTailProperties, LenProperties
  <1>2. \A k \in 1 .. Len(q) - 1 : Tail(q)[k] = q[k + 1]
    BY HeadTailProperties
  <1> QED BY <1>1, <1>2

(* The queue seen through the ring is a matter of three things. *)
LEMMA SameQueue ==
  ASSUME UNCHANGED <<Oldest, QueueLength, buffer, pid, Served>>
  PROVE  UNCHANGED BQ!vars
  BY DEF BQ!vars, Queue

LEMMA EnqueueStep ==
  ASSUME TypeOK, PlacesConserved, NoOverrun, NEW c \in Client, AdvanceHead(c)
  PROVE  BQ!Enqueue(c)
  <1>1. /\ Served' = Served /\ QueueLength' = QueueLength + 1
        /\ QueueLength + Served < N
    BY ClientMoves, Room DEF ClientNext
  <1>2. pid' = pid /\ buffer' = buffer /\ Oldest' = Oldest
    BY DEF AdvanceHead, consumerVars, Oldest
  <1>3. buffer[(Oldest + QueueLength) % N] = c
    BY DEF AdvanceHead, Goto, NoOverrun
  <1>4. Queue' = Append(Queue, c)
    <2>1. Queue' = [k \in 1 .. QueueLength + 1 |-> buffer[(Oldest + k - 1) % N]]
      BY <1>1, <1>2 DEF Queue
    <2>2. Append(Queue, c) =
            [k \in 1 .. QueueLength + 1 |->
               IF k = QueueLength + 1 THEN c ELSE Queue[k]]
      BY QueueLen, AppendAsFunction DEF Pid
    <2>3. ASSUME NEW k \in 1 .. QueueLength + 1
          PROVE  buffer[(Oldest + k - 1) % N] =
                   IF k = QueueLength + 1 THEN c ELSE Queue[k]
      <3>1. CASE k = QueueLength + 1
        <4>1. Oldest + k - 1 = Oldest + QueueLength
          BY <3>1, Room DEF Place
        <4> QED BY <1>3, <3>1, <4>1
      <3>2. CASE k # QueueLength + 1
        BY <3>2, Lengths DEF Queue
      <3> QED BY <3>1, <3>2
    <2> QED BY <2>1, <2>2, <2>3
  <1> QED BY <1>1, <1>2, <1>4, QueueLen DEF BQ!Enqueue

LEMMA DequeueStep ==
  ASSUME TypeOK, PlacesConserved, NoOverrun, Load
  PROVE  BQ!Dequeue
  <1>1. /\ Served' = Served + 1 /\ QueueLength' = QueueLength - 1
        /\ QueueLength \in 1 .. N
    <2>1. Served' = Served + 1 /\ QueueLength' = QueueLength - 1
      BY ConsumerMoves DEF ConsumerNext
    <2>2. QueueLength > 0
      BY Finiteness DEF Load, ConsumerGoto, QueueLength, Taking, TypeOK
    <2> QED BY <2>1, <2>2, Room
  <1>2. /\ buffer' = buffer /\ pid' = buffer[tail]
        /\ Oldest = tail /\ Oldest' = (tail + 1) % N /\ tail \in Place
    BY DEF Load, ConsumerGoto, ring, Oldest, TypeOK
  <1>3. Queue # << >> /\ pid' = Head(Queue)
    <2>1. Queue[1] = buffer[tail % N]
      BY <1>1, <1>2 DEF Queue, Place
    <2>2. tail % N = tail
      BY <1>2, Wrap DEF Place
    <2> QED BY <1>1, <1>2, <2>1, <2>2, QueueLen
  <1>4. Queue' = Tail(Queue)
    <2>1. Queue' = [k \in 1 .. QueueLength - 1 |->
                      buffer[(((tail + 1) % N) + k - 1) % N]]
      BY <1>1, <1>2 DEF Queue
    <2>2. Tail(Queue) = [k \in 1 .. QueueLength - 1 |-> Queue[k + 1]]
      BY <1>3, QueueLen, TailAsFunction
    <2>3. ASSUME NEW k \in 1 .. QueueLength - 1
          PROVE  buffer[(((tail + 1) % N) + k - 1) % N] = Queue[k + 1]
      <3>1. Queue[k + 1] = buffer[(tail + k) % N]
        BY <1>1, <1>2 DEF Queue, Place
      <3>2. (tail + k) % N = (((tail + 1) % N) + (k - 1)) % N
        BY <1>1, <1>2, Shift
      <3>3. ((tail + 1) % N) + (k - 1) = ((tail + 1) % N) + k - 1
        BY <1>2, NextPlace DEF Place
      <3> QED BY <3>1, <3>2, <3>3
    <2> QED BY <2>1, <2>2, <2>3
  <1> QED BY <1>1, <1>3, <1>4 DEF BQ!Dequeue

(* Only add_element() adds to the queue: in particular the entry that a     *)
(* client writes before it moves head is none of those that are unread.    *)
LEMMA ClientQueue ==
  ASSUME TypeOK, PlacesConserved, NoOverrun,
         NEW c \in Client, ClientNext(c), ~AdvanceHead(c)
  PROVE  UNCHANGED <<Queue, QueueLength, pid, Served>>
  <1>1. QueueLength' = QueueLength /\ Served' = Served
    BY ClientMoves
  <1>2. CASE Store(c)
    <2>1. pid' = pid /\ Oldest' = Oldest /\ buffer' = [buffer EXCEPT ![head] = c]
      BY <1>2 DEF Store, consumerVars, Oldest
    <2>2. QueueLength \in 0 .. N - 1
      BY <1>2, Lengths DEF Store, Goto, NoOverrun
    <2>3. ASSUME NEW k \in 1 .. QueueLength
          PROVE  buffer'[(Oldest + k - 1) % N] = buffer[(Oldest + k - 1) % N]
      <3>1. (Oldest + k - 1) % N # head
        BY <2>2, Room, BeforeHead DEF NoOverrun
      <3>2. (Oldest + k - 1) % N \in Place
        BY <2>2, Room, Wrap DEF Place
      <3> QED BY <2>1, <3>1, <3>2 DEF TypeOK
    <2>4. Queue' = Queue
      BY <1>1, <2>1, <2>3 DEF Queue
    <2> QED BY <1>1, <2>1, <2>4
  <1>3. CASE ~Store(c)
    <2>1. UNCHANGED <<buffer, pid, Oldest>>
      BY <1>3
      DEF ClientNext, Launch, PEmpty, PMutex, VMutex, VFull, OpenQuestion,
          OpenAnswer, SendCommand, Receive, ClientTimeout, SendQuit, Leave,
          EndOfInput, Interrupt, Kill, Restart,
          ring, consumerVars, Oldest
    <2> QED BY <1>1, <2>1 DEF Queue
  <1> QED BY <1>2, <1>3

(* Only the reading of the oldest pid takes one from the queue. *)
LEMMA ConsumerQueue ==
  ASSUME TypeOK, ConsumerNext, ~Load
  PROVE  UNCHANGED <<Queue, QueueLength, pid, Served>>
  <1>1. UNCHANGED <<buffer, pid, Oldest>>
    BY DEF ConsumerNext, ConsumerPFull, ConsumerPMutex, AdvanceTail,
       ConsumerScan, Create, ConsumerVMutex, ConsumerGoto, ring, Oldest
  <1> QED BY <1>1, ConsumerMoves DEF Queue

LEMMA ThreadQueue ==
  ASSUME TypeOK, NEW t \in Thread, ThreadNext(t)
  PROVE  UNCHANGED <<Queue, QueueLength, pid>>
  <1>1. UNCHANGED <<buffer, pid, Oldest, QueueLength>>
    BY ThreadFrame, ThreadMoves DEF ring, consumerVars, Oldest
  <1> QED BY <1>1 DEF Queue

LEMMA NextRefines ==
  TypeOK /\ PlacesConserved /\ NoOverrun /\ [Next]_vars
    => [BQ!Next]_(BQ!vars)
  <1> SUFFICES ASSUME TypeOK, PlacesConserved, NoOverrun, [Next]_vars
               PROVE  BQ!Next \/ UNCHANGED BQ!vars
    BY DEF BQ!vars
  <1>1. CASE UNCHANGED vars
    BY <1>1, StutterMoves, SameQueue DEF vars, ring, consumerVars, Oldest
  <1>2. ASSUME NEW c \in Client, ClientNext(c)
        PROVE  BQ!Next \/ UNCHANGED BQ!vars
    <2>1. CASE AdvanceHead(c)
      BY <2>1, EnqueueStep DEF BQ!Next
    <2>2. CASE ~AdvanceHead(c)
      BY <1>2, <2>2, ClientQueue DEF BQ!vars
    <2> QED BY <2>1, <2>2
  <1>3. CASE ConsumerNext
    <2>1. CASE Load
      BY <2>1, DequeueStep DEF BQ!Next
    <2>2. CASE ~Load
      BY <1>3, <2>2, ConsumerQueue DEF BQ!vars
    <2> QED BY <2>1, <2>2
  <1>4. ASSUME NEW t \in Thread, ThreadNext(t)
        PROVE  BQ!Next \/ UNCHANGED BQ!vars
    <2>1. UNCHANGED <<Queue, pid>>
      BY <1>4, ThreadQueue
    <2>2. CASE VEmpty(t)
      <3>1. Served' = Served - 1 /\ Served' \in Nat
        <4>1. t \in Busy /\ Cardinality(Busy) > 0
          BY <2>2, Finiteness, FS_EmptySet DEF VEmpty, ThreadGoto, Busy
        <4> QED
          BY <1>4, <2>2, <4>1, ThreadMoves, Finiteness, Weights DEF Served
      <3> QED BY <2>1, <3>1, Lengths DEF BQ!Next, BQ!Release
    <2>3. CASE ~VEmpty(t)
      BY <1>4, <2>1, <2>3, ThreadMoves DEF BQ!vars
    <2> QED BY <2>2, <2>3
  <1> QED BY <1>1, <1>2, <1>3, <1>4 DEF Next

(* Semaphores, indices and the detour of V(empty) through run() implement  *)
(* a bounded queue whose places are kept while their clients are served:   *)
(* a pid enters when add_element() has moved head and leaves, oldest       *)
(* first, when remove_element() reads it.                                  *)
THEOREM Refinement == Spec => ImplementsQueue
  <1>1. Init => BQ!Init
    <2> SUFFICES ASSUME Init PROVE BQ!Init
      OBVIOUS
    <2>1. Queued = {} /\ Busy = {} /\ Taking = 0 /\ InHand = 0 /\ full = 0
      BY DEF Init, Queued, Busy, Taking, InHand
    <2>2. QueueLength = 0 /\ Served = 0
      BY <2>1, FS_EmptySet DEF QueueLength, Served
    <2>3. Queue = << >>
      BY <2>2 DEF Queue
    <2> QED BY <2>2, <2>3 DEF Init, BQ!Init
  <1> QED
    BY <1>1, TypeCorrect, PlacesAreConserved, RingIsSafe, NextRefines, PTL
    DEF Spec, ImplementsQueue, BQ!Spec

=============================================================================
