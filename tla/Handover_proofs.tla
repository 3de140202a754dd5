-------------------------- MODULE Handover_proofs --------------------------
(***************************************************************************)
(* The hand-over of a pid from the ring to a thread.  pthread_create() is  *)
(* given the address of the consumer's variable pid, so a thread may read  *)
(* a later pid than the one it was created for.  What is proved here, for  *)
(* every number of clients, threads and places and whatever faults are     *)
(* considered, is that the last pid that was taken is never the one lost.  *)
(***************************************************************************)
EXTENDS Admission_proofs

(* What the proofs use of the constants. *)
USE ClientAssumption, ThreadAssumption, CapacityAssumption

-----------------------------------------------------------------------------
(***************************************************************************)
(* The inductive invariant.                                                *)
(***************************************************************************)
(* Where a client can be once its pid has been read from the ring. *)
Announced ==
  {"V_full", "open_question", "open_answer", "session", "waiting", "quitting",
   "ended"}

(* ... and once it has opened both pipes. *)
Connected == {"session", "waiting", "quitting", "ended"}

(* The daemon knows no client that has not announced itself. *)
KnownAnnounced ==
  /\ \A c \in Client : pid = c => pc[c] \in Announced
  /\ \A c \in Client, t \in Thread : tpid[t] = c => pc[c] \in Announced

(* The pids in the ring are those of clients that wait for the daemon, of  *)
(* which it holds no trace yet, and no pid is there twice.                 *)
QueueFresh ==
  /\ \A k \in 1 .. QueueLength :
       /\ Queue[k] \in Client
       /\ pc[Queue[k]] \in {"V_mutex", "V_full", "open_question"}
       /\ pid # Queue[k]
       /\ \A t \in Thread : tpid[t] # Queue[k]
  /\ \A j, k \in 1 .. QueueLength : Queue[j] = Queue[k] => j = k

(* Nothing is written by a client that has not opened both pipes. *)
WritesLate ==
  \A c \in alive : question[c] # "nothing" => pc[c] \in Connected \cup {"start"}

(* Where a thread is after the first request, time-out or end of its client. *)
Heard == {"serve", "work", "reply", "notify", "signal", "V_empty"}

(* A thread is never ahead of its client in the opening of the pipes. *)
ThreadsBehind ==
  \A t \in Thread :
    /\ tpc[t] \notin {"none", "read_pid", "open_question"} => tpid[t] \in Client
    /\ tpc[t] \in {"open_answer", "wait_answer"} => pc[tpid[t]] # "V_full"
    /\ tpc[t] \in {"scan", "take", "first"} =>
         pc[tpid[t]] \notin {"V_full", "open_question"}
    /\ tpc[t] \in Heard /\ tpid[t] \in alive => pc[tpid[t]] \in Connected

Handover ==
  /\ KnownAnnounced /\ QueueFresh /\ WritesLate /\ ThreadsBehind
  /\ LatestNotLost

(* What was proved in Admission_proofs and is used below. *)
Base == TypeOK /\ MutualExclusion /\ PlacesConserved /\ NoOverrun

THEOREM BaseHolds == Spec => []Base
  BY TypeCorrect, ExclusionHolds, PlacesAreConserved, RingIsSafe, PTL DEF Base

-----------------------------------------------------------------------------
(***************************************************************************)
(* The queue, entry by entry.                                              *)
(***************************************************************************)
LEMMA QueueGrows ==
  ASSUME Base, NEW c \in Client, AdvanceHead(c)
  PROVE  /\ QueueLength \in Nat /\ QueueLength' = QueueLength + 1
         /\ Queue'[QueueLength + 1] = c
         /\ \A k \in 1 .. QueueLength : Queue'[k] = Queue[k]
  <1>1. QueueLength \in Nat /\ QueueLength' = QueueLength + 1
    BY Lengths, ClientMoves DEF Base, ClientNext
  <1>2. Queue' = Append(Queue, c)
    BY EnqueueStep DEF Base, BQ!Enqueue
  <1>3. Queue \in Seq(Pid) /\ Len(Queue) = QueueLength /\ c \in Pid
    BY QueueLen DEF Base, Pid
  <1> QED BY <1>1, <1>2, <1>3, AppendProperties

LEMMA QueueShrinks ==
  ASSUME Base, Load
  PROVE  /\ QueueLength \in Nat \ {0} /\ QueueLength' = QueueLength - 1
         /\ pid' = Queue[1]
         /\ \A k \in 1 .. QueueLength - 1 : Queue'[k] = Queue[k + 1]
  <1>1. /\ Queue # << >> /\ pid' = Head(Queue) /\ Queue' = Tail(Queue)
    BY DequeueStep DEF Base, BQ!Dequeue
  <1>2. Queue \in Seq(Pid) /\ Len(Queue) = QueueLength
    BY QueueLen DEF Base
  <1>3. QueueLength \in Nat /\ QueueLength' = QueueLength - 1
    BY Lengths, ConsumerMoves DEF Base, ConsumerNext
  <1>4. QueueLength # 0
    BY <1>1, <1>2, EmptySeq
  <1> QED BY <1>1, <1>2, <1>3, <1>4, HeadTailProperties

-----------------------------------------------------------------------------
(***************************************************************************)
(* The steps of a client.                                                  *)
(***************************************************************************)
(* A client leaves alone what the daemon knows. *)
LEMMA ClientFrame ==
  ASSUME NEW c \in Client, ClientNext(c)
  PROVE  UNCHANGED <<cpc, pid, tpc, tpid, daemon>>
  BY DEF ClientNext, Launch, PEmpty, PMutex, Store, AdvanceHead, VMutex,
         VFull, OpenQuestion, OpenAnswer, SendCommand, Receive, ClientTimeout,
         SendQuit, Leave, EndOfInput,
         Interrupt, Kill, Restart, consumerVars, threadVars

(* Where a client may go from where it is. *)
LEMMA ClientPath ==
  ASSUME TypeOK, NEW c \in Client, ClientNext(c)
  PROVE  /\ pc' \in [Client -> ClientPC]
         /\ \A d \in Client : d # c => pc'[d] = pc[d]
         /\ pc[c] \in Announced => pc'[c] \in Announced \cup {"start"}
         /\ pc'[c] = "V_full" => pc[c] \in {"V_full", "V_mutex"}
         /\ pc'[c] = "open_question" => pc[c] \in {"open_question", "V_full"}
         /\ pc'[c] = "open_answer" => pc[c] \in {"open_question", "open_answer"}
         /\ pc[c] \in Connected => pc'[c] \in Connected \cup {"start"}
         /\ pc'[c] = "start" /\ pc[c] # "start" => Restart(c)
  BY DEF TypeOK, ClientNext, Launch, PEmpty, PMutex, Store, AdvanceHead,
         VMutex, VFull, OpenQuestion, OpenAnswer, SendCommand, Receive,
         ClientTimeout, SendQuit, Leave, EndOfInput,
         Interrupt, Kill, Restart, Goto, ClientPC, Announced, Connected,
         clientVars

(* Death is final, and nobody writes before both pipes are open. *)
LEMMA ClientWrites ==
  ASSUME TypeOK, WritesLate, NEW c \in Client, ClientNext(c)
  PROVE  WritesLate' /\ alive' \subseteq alive
  BY DEF TypeOK, WritesLate, ClientNext, Launch, PEmpty, PMutex, Store,
         AdvanceHead, VMutex, VFull, OpenQuestion, OpenAnswer, SendCommand,
         Receive, ClientTimeout, SendQuit, Leave,
         EndOfInput, Interrupt, Kill, Restart, Goto, ClientPC, Connected,
         Written

(* Who announces itself is not known yet, who restarts no more. *)
LEMMA ClientKnown ==
  ASSUME TypeOK, KnownAnnounced, NEW c \in Client, ClientNext(c)
  PROVE  KnownAnnounced'
  <1>1. pid' = pid /\ tpid' = tpid
    BY ClientFrame
  <1>2. ASSUME NEW d \in Client, pc[d] \in Announced,
               pid = d \/ \E t \in Thread : tpid[t] = d
        PROVE  pc'[d] \in Announced
    <2>1. ~Restart(d)
      BY <1>2 DEF Restart
    <2> QED BY <1>2, <2>1, ClientPath DEF Announced
  <1> QED BY <1>1, <1>2 DEF KnownAnnounced

(* A client leaves the queue by no step of its own: it waits for a thread. *)
LEMMA ClientFresh ==
  ASSUME Base, KnownAnnounced, QueueFresh, NEW c \in Client, ClientNext(c)
  PROVE  QueueFresh'
  <1>1. pid' = pid /\ tpid' = tpid
    BY ClientFrame
  <1>2. CASE AdvanceHead(c)
    <2>1. /\ pc[c] = "head" /\ pc'[c] = "V_mutex"
          /\ \A d \in Client : d # c => pc'[d] = pc[d]
      BY <1>2 DEF AdvanceHead, Goto, Base, TypeOK
    <2>2. \A k \in 1 .. QueueLength : Queue[k] # c
      BY <2>1 DEF QueueFresh
    <2>3. pid # c /\ \A t \in Thread : tpid[t] # c
      BY <2>1 DEF KnownAnnounced, Announced
    <2>4. ASSUME NEW k \in 1 .. QueueLength + 1
          PROVE  IF k = QueueLength + 1 THEN Queue'[k] = c
                 ELSE k \in 1 .. QueueLength /\ Queue'[k] = Queue[k]
      BY <1>2, QueueGrows
    <2> HIDE DEF Queue, QueueLength
    <2>5. \A k \in 1 .. QueueLength + 1 :
            /\ Queue'[k] \in Client
            /\ pc'[Queue'[k]] \in {"V_mutex", "V_full", "open_question"}
            /\ pid # Queue'[k] /\ \A t \in Thread : tpid[t] # Queue'[k]
      BY <2>1, <2>2, <2>3, <2>4 DEF QueueFresh
    <2>6. \A j, k \in 1 .. QueueLength + 1 : Queue'[j] = Queue'[k] => j = k
      BY <2>2, <2>4 DEF QueueFresh
    <2>7. QueueLength' = QueueLength + 1
      BY <1>2, QueueGrows
    <2> QED BY <1>1, <2>5, <2>6, <2>7 DEF QueueFresh
  <1>3. CASE ~AdvanceHead(c)
    <2>1. Queue' = Queue /\ QueueLength' = QueueLength
      BY <1>3, ClientQueue DEF Base
    <2>2. ASSUME NEW k \in 1 .. QueueLength, Queue[k] = c
          PROVE  pc'[c] \in {"V_mutex", "V_full", "open_question"}
      <3>1. pc[c] \in {"V_mutex", "V_full", "open_question"}
        BY <2>2 DEF QueueFresh
      <3>2. \A t \in Thread : tpid[t] # c
        BY <2>2 DEF QueueFresh
      <3>3. ~OpenQuestion(c)
        BY <3>2 DEF OpenQuestion, Readers
      <3> QED
        BY <3>1, <3>3 DEF ClientNext, Launch, PEmpty, PMutex, Store,
           AdvanceHead, VMutex, VFull, OpenAnswer, SendCommand, Receive,
           ClientTimeout, SendQuit, Leave, EndOfInput,
           Interrupt, Kill, Restart, Goto, Base, TypeOK
    <2>3. \A k \in 1 .. QueueLength :
            pc'[Queue[k]] \in {"V_mutex", "V_full", "open_question"}
      BY <2>2, ClientPath DEF QueueFresh, Base
    <2> QED BY <1>1, <2>1, <2>3 DEF QueueFresh
  <1> QED BY <1>2, <1>3

(* A client may go ahead of its thread, or die, and never falls behind. *)
LEMMA ClientBehind ==
  ASSUME TypeOK, KnownAnnounced, ThreadsBehind, NEW c \in Client, ClientNext(c)
  PROVE  ThreadsBehind'
  <1>1. tpc' = tpc /\ tpid' = tpid
    BY ClientFrame
  <1>2. ASSUME NEW t \in Thread, tpid[t] \in Client
        PROVE  /\ pc[tpid[t]] \in Announced /\ pc'[tpid[t]] # "start"
               /\ pc'[tpid[t]] = "V_full" => pc[tpid[t]] = "V_full"
               /\ pc'[tpid[t]] = "open_question" =>
                    pc[tpid[t]] \in {"open_question", "V_full"}
               /\ pc[tpid[t]] \in Connected => pc'[tpid[t]] \in Connected
    <2>1. pc[tpid[t]] \in Announced
      BY <1>2 DEF KnownAnnounced
    <2>2. ~Restart(tpid[t])
      BY DEF Restart
    <2> QED BY <1>2, <2>1, <2>2, ClientPath DEF Announced, Connected
  <1>3. alive' \subseteq alive
    BY DEF ClientNext, Launch, PEmpty, PMutex, Store, AdvanceHead, VMutex,
       VFull, OpenQuestion, OpenAnswer, SendCommand, Receive, ClientTimeout,
       SendQuit, Leave, EndOfInput, Interrupt,
       Kill, Restart
  <1> SUFFICES ASSUME NEW t \in Thread
               PROVE  ThreadsBehind!(t)'
    BY DEF ThreadsBehind
  <1>4. ThreadsBehind!(t)
    BY DEF ThreadsBehind
  <1>5. CASE tpid[t] \in Client
    BY <1>1, <1>2, <1>3, <1>4, <1>5
  <1>6. CASE tpid[t] \notin Client
    <2>1. tpid[t] \notin alive'
      BY <1>3, <1>6 DEF TypeOK
    <2> QED BY <1>1, <1>4, <1>6, <2>1
  <1> QED BY <1>5, <1>6

(* A client that has just stored its pid is not the one taken last. *)
LEMMA ClientLatest ==
  ASSUME TypeOK, KnownAnnounced, LatestNotLost, NEW c \in Client, ClientNext(c)
  PROVE  LatestNotLost'
  <1>1. UNCHANGED <<cpc, pid, tpc, tpid, daemon>> /\ alive' \subseteq alive
    BY ClientFrame
    DEF ClientNext, Launch, PEmpty, PMutex, Store, AdvanceHead, VMutex,
        VFull, OpenQuestion, OpenAnswer, SendCommand, Receive, ClientTimeout,
        SendQuit, Leave, EndOfInput, Interrupt,
        Kill, Restart
  <1>2. ASSUME NEW d \in Client, pid = d,
               pc'[d] \in {"V_full", "open_question", "open_answer"}
        PROVE  pc[d] \in {"V_full", "open_question", "open_answer"}
    <2>1. pc[d] # "V_mutex"
      BY <1>2 DEF KnownAnnounced, Announced
    <2> QED BY <1>2, <2>1, ClientPath
  <1> QED BY <1>1, <1>2 DEF LatestNotLost

-----------------------------------------------------------------------------
(***************************************************************************)
(* The steps of the consumer.                                              *)
(***************************************************************************)
(* Nobody has just stored a pid while the consumer reads one, so that the  *)
(* client whose pid is read is past V(mutex).                              *)
LEMMA LoadWaiting ==
  ASSUME Base, QueueFresh, Load
  PROVE  /\ pid' \in Client /\ pc[pid'] \in {"V_full", "open_question"}
         /\ \A t \in Thread : tpid[t] # pid'
  <1>1. \A c \in Client : pc[c] # "V_mutex"
    BY DEF Load, ConsumerGoto, Base, MutualExclusion, ConsumerInSection,
           InSection
  <1>2. pid' = Queue[1] /\ QueueLength \in Nat \ {0}
    BY QueueShrinks
  <1> QED BY <1>1, <1>2 DEF QueueFresh

LEMMA LoadHandover ==
  ASSUME Base, Handover, Load
  PROVE  Handover'
  <1>1. /\ UNCHANGED <<pc, alive, question, tpc, tpid>>
        /\ cpc = "load" /\ cpc' = "tail"
    BY DEF Load, ConsumerGoto, clientVars, threadVars
  <1>2. /\ QueueLength \in Nat \ {0} /\ QueueLength' = QueueLength - 1
        /\ pid' = Queue[1]
        /\ \A k \in 1 .. QueueLength - 1 : Queue'[k] = Queue[k + 1]
    BY QueueShrinks
  <1> HIDE DEF Queue, QueueLength
  <1>3. /\ pid' \in Client /\ pc[pid'] \in {"V_full", "open_question"}
        /\ \A t \in Thread : tpid[t] # pid'
    BY LoadWaiting DEF Handover
  <1>4. KnownAnnounced'
    BY <1>1, <1>3 DEF Handover, KnownAnnounced, Announced
  <1>5. QueueFresh'
    <2>1. ASSUME NEW k \in 1 .. QueueLength'
          PROVE  k + 1 \in 1 .. QueueLength /\ 1 \in 1 .. QueueLength /\ k + 1 # 1
                 /\ Queue'[k] = Queue[k + 1]
      BY <1>2
    <2>2. \A k \in 1 .. QueueLength' :
            /\ Queue'[k] \in Client
            /\ pc[Queue'[k]] \in {"V_mutex", "V_full", "open_question"}
            /\ pid' # Queue'[k] /\ \A t \in Thread : tpid[t] # Queue'[k]
      BY <1>2, <2>1 DEF Handover, QueueFresh
    <2>3. \A j, k \in 1 .. QueueLength' : Queue'[j] = Queue'[k] => j = k
      <3> TAKE j, k \in 1 .. QueueLength'
      <3>1. Queue'[j] = Queue[j + 1] /\ Queue'[k] = Queue[k + 1]
            /\ j + 1 \in 1 .. QueueLength /\ k + 1 \in 1 .. QueueLength
        BY <2>1
      <3>2. Queue[j + 1] = Queue[k + 1] => j + 1 = k + 1
        BY <3>1 DEF Handover, QueueFresh
      <3>3. j \in Nat /\ k \in Nat
        BY <1>2
      <3> QED BY <3>1, <3>2, <3>3
    <2> QED BY <1>1, <2>2, <2>3 DEF QueueFresh
  <1>6. WritesLate' /\ ThreadsBehind'
    BY <1>1 DEF Handover, WritesLate, ThreadsBehind
  <1>7. LatestNotLost'
    BY <1>1 DEF LatestNotLost
  <1> QED BY <1>4, <1>5, <1>6, <1>7 DEF Handover

(* The thread for the pid is created before the mutex is given back. *)
LEMMA ConsumerHandover ==
  ASSUME Base, Handover, ConsumerNext, ~Load
  PROVE  Handover'
  <1>1. UNCHANGED <<pc, alive, question, tpid>>
    BY DEF ConsumerNext, ConsumerPFull, ConsumerPMutex, AdvanceTail,
       ConsumerScan, Create, ConsumerVMutex, clientVars, threadVars
  <1>2. UNCHANGED <<Queue, QueueLength, pid>>
    BY ConsumerQueue DEF Base
  <1>3. KnownAnnounced' /\ WritesLate'
    BY <1>1, <1>2 DEF Handover, KnownAnnounced, WritesLate
  <1>4. QueueFresh'
    BY <1>1, <1>2 DEF Handover, QueueFresh
  <1>5. CASE \E t \in Thread : Create(t)
    <2> PICK t \in Thread : Create(t)
      BY <1>5
    <2>1. /\ tpc' = [tpc EXCEPT ![t] = "read_pid"] /\ tpc[t] = "none"
          /\ tpc'[t] = "read_pid" /\ tpc \in [Thread -> ThreadPC]
      BY DEF Create, Base, TypeOK
    <2>2. ThreadsBehind'
      BY <1>1, <2>1 DEF Handover, ThreadsBehind, Heard
    <2>3. LatestNotLost'
      BY <2>1 DEF LatestNotLost
    <2> QED BY <1>3, <1>4, <2>2, <2>3 DEF Handover
  <1>6. CASE ~\E t \in Thread : Create(t)
    <2>1. /\ tpc' = tpc /\ (daemon' = "up" => daemon = "up")
          /\ cpc \in {"tail", "scan", "create"} =>
               cpc' \in {"tail", "scan", "create"}
      BY <1>6 DEF ConsumerNext, ConsumerPFull, ConsumerPMutex, AdvanceTail,
         ConsumerScan, ConsumerVMutex, ConsumerGoto, DaemonExit, threadVars
    <2>2. ThreadsBehind'
      BY <1>1, <2>1 DEF Handover, ThreadsBehind
    <2>3. LatestNotLost'
      BY <1>1, <1>2, <2>1 DEF Handover, LatestNotLost
    <2> QED BY <1>3, <1>4, <2>2, <2>3 DEF Handover
  <1> QED BY <1>5, <1>6

-----------------------------------------------------------------------------
(***************************************************************************)
(* The steps of a thread.                                                  *)
(***************************************************************************)
(* What a thread does to its own variables and to the unread messages. *)
LEMMA ThreadPath ==
  ASSUME TypeOK, NEW t \in Thread, ThreadNext(t)
  PROVE  /\ \A u \in Thread : u # t => tpc'[u] = tpc[u] /\ tpid'[u] = tpid[u]
         /\ daemon = "up" /\ tpc[t] # "none"
         /\ \A c \in Client :
              question'[c] # "nothing" => question[c] # "nothing"
         /\ \/ /\ tpc[t] = "read_pid" /\ tpc'[t] = "open_question"
               /\ tpid'[t] = pid
            \/ /\ tpc[t] = "V_empty" /\ tpc'[t] = "none"
               /\ tpid'[t] = NoPid
            \/ /\ tpc[t] \in {"scan", "take"} /\ tpid'[t] = tpid[t]
               /\ tpc'[t] \in {"scan", "take", "first"}
            \/ /\ daemon' = "exited"
               /\ tpc'[t] = tpc[t] /\ tpid'[t] = tpid[t]
            \/ /\ tpc[t] = "open_question" /\ tpid[t] \in fifos
               /\ tpc'[t] \in {"blocked", "wait_question"} /\ tpid'[t] = tpid[t]
            \/ /\ tpc[t] = "wait_question" /\ tpc'[t] = "open_answer"
               /\ tpid'[t] = tpid[t] /\ pc[tpid[t]] # "V_full"
            \/ /\ tpc[t] = "open_answer" /\ tpid'[t] = tpid[t]
               /\ tpc'[t] \in {"blocked", "wait_answer"}
            \/ /\ tpc[t] = "wait_answer" /\ tpc'[t] = "scan"
               /\ tpid'[t] = tpid[t]
               /\ pc[tpid[t]] \notin {"V_full", "open_question"}
            \/ /\ tpc[t] = "first" /\ tpc'[t] \in Heard /\ tpid'[t] = tpid[t]
               /\ \/ question[tpid[t]] # "nothing"
                  \/ pc[tpid[t]] # "open_answer"
                  \/ Gone(tpid[t])
            \/ /\ tpc[t] \in Heard /\ tpc'[t] \in Heard /\ tpid'[t] = tpid[t]
  <1> USE DEF TypeOK, ThreadGoto, clientVars, threadVars, Heard
  <1>1. CASE ReadPid(t)
    BY <1>1 DEF ReadPid
  <1>2. CASE CallOpenQuestion(t) \/ CallOpenAnswer(t)
    BY <1>2 DEF CallOpenQuestion, CallOpenAnswer, BeginOpen, DaemonExit
  <1>3. CASE ReturnOpenQuestion(t) \/ ReturnOpenAnswer(t)
    BY <1>3 DEF ReturnOpenQuestion, ReturnOpenAnswer
  <1>4. CASE ThreadScan(t) \/ Take(t)
    BY <1>4 DEF ThreadScan, Take
  <1>5. CASE ReadQuit(t) \/ ReadCommand(t)
    BY <1>5 DEF ReadQuit, ReadCommand
  <1>6. CASE Process(t) \/ ServeEof(t)
    BY <1>6 DEF Process, ServeEof
  <1>7. CASE Reply(t) \/ Notify(t)
    BY <1>7 DEF Reply, Notify, WriteAnswer, SigPipe, DaemonExit
  <1>8. CASE FirstTimeout(t) \/ LaterTimeout(t)
    BY <1>8 DEF FirstTimeout, LaterTimeout, Expired
  <1>9. CASE Signal(t)
    BY <1>9 DEF Signal, SigPipe, DaemonExit
  <1>10. CASE VEmpty(t)
    BY <1>10 DEF VEmpty
  <1> QED
    BY <1>1, <1>2, <1>3, <1>4, <1>5, <1>6, <1>7, <1>8, <1>9,
       <1>10 DEF ThreadNext

LEMMA ThreadHandover ==
  ASSUME Base, Handover, NEW t \in Thread, ThreadNext(t)
  PROVE  Handover'
  <1>1. UNCHANGED <<pc, alive, cpc, pid, Queue, QueueLength>>
    BY ThreadFrame, ThreadQueue DEF Base, consumerVars
  <1>2. \A u \in Thread : u # t => tpc'[u] = tpc[u] /\ tpid'[u] = tpid[u]
    BY ThreadPath DEF Base
  <1>3. \/ tpid'[t] = tpid[t]
        \/ tpc[t] = "read_pid" /\ tpid'[t] = pid
        \/ tpc[t] = "V_empty" /\ tpid'[t] = NoPid
    BY ThreadPath DEF Base
  <1>4. KnownAnnounced'
    BY <1>1, <1>2, <1>3 DEF Handover, KnownAnnounced
  <1>5. QueueFresh'
    BY <1>1, <1>2, <1>3 DEF Handover, QueueFresh
  <1>6. WritesLate'
    BY <1>1, ThreadPath DEF Base, TypeOK, Handover, WritesLate
  <1>7. ThreadsBehind'
    <2>1. ASSUME NEW u \in Thread, u # t PROVE ThreadsBehind!(u)'
      BY <1>1, <1>2, <2>1 DEF Handover, ThreadsBehind
    <2>2. tpc[t] = "first" /\ tpc'[t] \in Heard /\ tpid[t] \in alive
            => pc[tpid[t]] \in Connected
      <3> HAVE tpc[t] = "first" /\ tpc'[t] \in Heard /\ tpid[t] \in alive
      <3>1. /\ pc[tpid[t]] \notin {"V_full", "open_question"}
            /\ pc[tpid[t]] \in Announced
        BY DEF Handover, ThreadsBehind, KnownAnnounced, Base, TypeOK
      <3>2. pc[tpid[t]] = "open_answer" => question[tpid[t]] = "nothing"
        BY DEF Handover, WritesLate, Connected, Base, TypeOK
      <3>3. pc[tpid[t]] # "open_answer"
        BY <3>2, ThreadPath DEF Gone, Heard, Base
      <3> QED BY <3>1, <3>3 DEF Announced, Connected
    <2>3. ThreadsBehind!(t)'
      <3>1. ThreadsBehind!(t)
        BY DEF Handover, ThreadsBehind
      <3>2. fifos \subseteq Client
        BY DEF Base, TypeOK
      <3> QED BY <1>1, <2>2, <3>1, <3>2, ThreadPath DEF Base, Heard
    <2> QED BY <2>1, <2>3 DEF ThreadsBehind
  <1>8. LatestNotLost'
    <2> SUFFICES ASSUME NEW c \in Client, daemon' = "up", pid = c, c \in alive,
                        cpc \notin {"tail", "scan", "create"},
                        pc[c] \in {"V_full", "open_question", "open_answer"}
                 PROVE  \E u \in Thread : tpc'[u] = "read_pid" \/ tpid'[u] = c
      BY <1>1 DEF LatestNotLost
    <2>1. PICK u \in Thread : tpc[u] = "read_pid" \/ tpid[u] = c
      BY ThreadPath DEF Handover, LatestNotLost, Base
    <2>2. CASE u # t
      BY <1>2, <2>1, <2>2
    <2>3. CASE u = t /\ tpc[t] = "read_pid"
      BY <2>3, ThreadPath DEF Base, Heard
    <2>4. CASE u = t /\ tpid[t] = c
      <3>1. tpc[t] # "V_empty"
        BY <2>4 DEF Handover, ThreadsBehind, Heard, Connected
      <3> QED BY <1>3, <2>4, <3>1
    <2> QED BY <2>1, <2>2, <2>3, <2>4
  <1> QED BY <1>4, <1>5, <1>6, <1>7, <1>8 DEF Handover

-----------------------------------------------------------------------------
LEMMA InitHandover == Init => Handover
  <1> SUFFICES ASSUME Init PROVE Handover
    OBVIOUS
  <1>1. Queued = {} /\ Taking = 0 /\ full = 0
    BY DEF Init, Queued, Taking
  <1>2. QueueLength = 0
    BY <1>1, FS_EmptySet DEF QueueLength
  <1>3. QueueFresh
    BY <1>2 DEF QueueFresh
  <1>4. KnownAnnounced /\ WritesLate /\ ThreadsBehind /\ LatestNotLost
    BY DEF Init, KnownAnnounced, WritesLate, ThreadsBehind, LatestNotLost
  <1> QED BY <1>3, <1>4 DEF Handover

LEMMA NextHandover == Base /\ Handover /\ [Next]_vars => Handover'
  <1> SUFFICES ASSUME Base, Handover, [Next]_vars PROVE Handover'
    OBVIOUS
  <1>1. CASE UNCHANGED vars
    <2>1. UNCHANGED <<QueueLength, Oldest, buffer>>
      BY <1>1, StutterMoves DEF vars, ring, consumerVars, Oldest
    <2>2. Queue' = Queue
      BY <2>1 DEF Queue
    <2> QED
      BY <1>1, <2>1, <2>2 DEF vars, clientVars, consumerVars, threadVars,
                              Handover,
         KnownAnnounced, QueueFresh, WritesLate, ThreadsBehind, LatestNotLost
  <1>2. ASSUME NEW c \in Client, ClientNext(c) PROVE Handover'
    BY <1>2, ClientKnown, ClientFresh, ClientWrites, ClientBehind, ClientLatest
    DEF Handover, Base
  <1>3. CASE ConsumerNext
    BY <1>3, LoadHandover, ConsumerHandover
  <1>4. ASSUME NEW t \in Thread, ThreadNext(t) PROVE Handover'
    BY <1>4, ThreadHandover
  <1> QED BY <1>1, <1>2, <1>3, <1>4 DEF Next

(* A pid is in the ring once, for a client that waits for the daemon; a    *)
(* client that is known to the daemon has announced itself; and no thread  *)
(* gets ahead of its client, whoever is killed or interrupted meanwhile.   *)
THEOREM HandoverHolds == Spec => []Handover
  BY BaseHolds, InitHandover, NextHandover, PTL DEF Spec

(* The pid taken last is held by a thread or will still be read by one,    *)
(* though pthread_create() in consumer() passes the address of a variable  *)
(* that the next remove_element() overwrites.                              *)
THEOREM LatestIsNotLost == Spec => []LatestNotLost
  BY HandoverHolds, PTL DEF Handover
=============================================================================
