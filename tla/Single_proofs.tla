--------------------------- MODULE Single_proofs ---------------------------
(***************************************************************************)
(* A daemon with one place (MAX_BUFFER_SHM = 1), any number of clients and *)
(* any number of thread descriptors.  With more places two threads may be  *)
(* given the same client and the same entry of pthread_alloc; with one,    *)
(* the place that a client keeps until the end of run() also keeps the     *)
(* threads apart.                                                          *)
(***************************************************************************)
EXTENDS Handover_proofs

(* What the proofs use of the constants. *)
USE ClientAssumption, ThreadAssumption, CapacityAssumption

-----------------------------------------------------------------------------
(***************************************************************************)
(* One thread at a time.                                                   *)
(***************************************************************************)
(* A thread that has ended, or not yet read its argument, has no client. *)
Unassigned ==
  \A t \in Thread : tpc[t] \in {"none", "read_pid"} => tpid[t] = NoPid

LEMMA NextUnassigned ==
  TypeOK /\ Unassigned /\ [Next]_vars => Unassigned'
  <1> SUFFICES ASSUME TypeOK, Unassigned, [Next]_vars PROVE Unassigned'
    OBVIOUS
  <1>1. CASE UNCHANGED vars
    BY <1>1 DEF vars, threadVars, Unassigned
  <1>2. ASSUME NEW c \in Client, ClientNext(c) PROVE Unassigned'
    BY <1>2, ClientFrame DEF Unassigned
  <1>3. CASE ConsumerNext
    BY <1>3 DEF ConsumerNext, ConsumerPFull, ConsumerPMutex, Load, AdvanceTail,
       ConsumerScan, Create, ConsumerVMutex, threadVars, Unassigned, TypeOK
  <1>4. ASSUME NEW t \in Thread, ThreadNext(t) PROVE Unassigned'
    BY <1>4, ThreadPath DEF Unassigned, Heard
  <1> QED BY <1>1, <1>2, <1>3, <1>4 DEF Next

(* While a thread runs there is no other, and no pid on its way to one. *)
LEMMA Sole ==
  ASSUME Base, N = 1, NEW t \in Thread, tpc[t] # "none"
  PROVE  /\ \A u \in Thread : tpc[u] # "none" => u = t
         /\ cpc \notin {"P_mutex", "load", "tail", "scan", "create"}
  <1>1. QueueLength \in Nat /\ Cardinality(Busy) + InHand \in Nat
        /\ QueueLength + Cardinality(Busy) + InHand <= 1
    BY Room, Finiteness, Weights DEF Base, Served
  <1>2. t \in Busy
    BY DEF Busy
  <1>3. Cardinality(Busy) > 0
    BY <1>2, Finiteness, FS_EmptySet
  <1>4. Cardinality(Busy) = 1 /\ InHand = 0 /\ QueueLength = 0
    BY <1>1, <1>3, Finiteness, Weights
  <1>5. \A u \in Busy : u = t
    BY <1>2, <1>4, Finiteness, FS_Singleton
  <1>6. Taking = 0
    BY <1>4, Finiteness, Weights DEF QueueLength, Base, TypeOK
  <1> QED BY <1>4, <1>5, <1>6 DEF Busy, InHand, Taking

(* With one place a client is served by one thread at a time, whatever     *)
(* faults occur: a second thread would need a second place.                *)
THEOREM OneThread ==
  ASSUME N = 1 PROVE Spec => []OneThreadPerClient
  <1>1. Init => Unassigned
    BY DEF Init, Unassigned
  <1>2. Base /\ Unassigned => OneThreadPerClient
    BY Sole DEF OneThreadPerClient, Unassigned
  <1>3. Base => TypeOK
    BY DEF Base
  <1> QED BY <1>1, <1>2, <1>3, NextUnassigned, BaseHolds, PTL DEF Spec

-----------------------------------------------------------------------------
(***************************************************************************)
(* The entry of pthread_alloc.                                             *)
(***************************************************************************)
(* Where a thread is before it takes its entry, and while it owns it. *)
Opening == {"read_pid", "open_question", "wait_question", "open_answer",
            "wait_answer", "blocked", "scan", "take"}
Serving == {"first", "serve", "work", "reply"}

(* A thread that is created finds the only entry free and takes it; what a *)
(* later timeout reads back is the pid of the thread's own client.         *)
Entry ==
  /\ cpc = "create" => slot[0] = NoPid
  /\ \A t \in Thread :
       /\ ti[t] = 0
       /\ tpc[t] \in Opening \cup {"notify", "signal"} => slot[0] = NoPid
       /\ tpc[t] \in Serving => slot[0] = tpid[t]
       /\ tpc[t] = "signal" => old[t] = tpid[t]

LEMMA OnePlace ==
  ASSUME N = 1
  PROVE  Place = {0} /\ \A i \in 0 .. N : i < N <=> i = 0
  BY DEF Place

LEMMA ClientEntry ==
  ASSUME Entry, NEW c \in Client, ClientNext(c)
  PROVE  Entry'
  <1>1. UNCHANGED <<cpc, threadVars, slot>>
    BY DEF ClientNext, Launch, PEmpty, PMutex, Store, AdvanceHead, VMutex,
           VFull, OpenQuestion, OpenAnswer, SendCommand, Receive,
           ClientTimeout, SendQuit, Leave, EndOfInput, Interrupt, Kill,
           Restart, consumerVars
  <1> QED BY <1>1 DEF Entry, threadVars

LEMMA ConsumerEntry ==
  ASSUME Base, Entry, N = 1, ConsumerNext
  PROVE  Entry'
  <1>1. UNCHANGED <<tpid, ti, old, slot>>
    BY DEF ConsumerNext, ConsumerPFull, ConsumerPMutex, Load, AdvanceTail,
           ConsumerScan, Create, ConsumerVMutex, threadVars
  <1>2. cpc' = "create" => slot[0] = NoPid
    BY OnePlace
    DEF ConsumerNext, ConsumerPFull, ConsumerPMutex, Load, AdvanceTail,
        ConsumerScan, Create, ConsumerVMutex, ConsumerGoto, Base, TypeOK
  <1>3. \A t \in Thread :
          tpc'[t] # tpc[t] => tpc'[t] = "read_pid" /\ cpc = "create"
    BY DEF ConsumerNext, ConsumerPFull, ConsumerPMutex, Load, AdvanceTail,
           ConsumerScan, Create, ConsumerVMutex, ConsumerGoto, threadVars,
           Base, TypeOK
  <1> QED BY <1>1, <1>2, <1>3 DEF Entry, Opening, Serving

LEMMA ThreadEntry ==
  ASSUME Base, Handover, Entry, N = 1, NEW t \in Thread, ThreadNext(t)
  PROVE  Entry'
  <1>1. cpc' = cpc /\ daemon = "up" /\ tpc[t] # "none"
    BY ThreadFrame, ThreadPath DEF consumerVars, Base
  <1>2. /\ \A u \in Thread : u # t => tpc[u] = "none" /\ tpc'[u] = "none"
        /\ cpc # "create"
    BY <1>1, Sole, ThreadPath DEF Base
  <1>3. /\ ti[t] = 0
        /\ tpc[t] \in Opening \cup {"notify", "signal"} => slot[0] = NoPid
        /\ tpc[t] \in Serving => slot[0] = tpid[t]
        /\ tpc[t] = "signal" => old[t] = tpid[t]
        /\ \A u \in Thread : ti[u] = 0
    BY DEF Entry
  <1> USE DEF ThreadGoto, Base, TypeOK
  <1>4. /\ slot \in [Place -> Pid] /\ slot' \in [Place -> Pid]
        /\ tpc' \in [Thread -> ThreadPC] /\ ti' \in [Thread -> 0 .. N]
    <2>1. TypeOK'
      BY ThreadType
    <2> QED BY <2>1
  <1>5. /\ \A u \in Thread : ti'[u] = 0
        /\ tpc'[t] \in Opening \cup {"notify", "signal"} => slot'[0] = NoPid
        /\ tpc'[t] \in Serving => slot'[0] = tpid'[t]
        /\ tpc'[t] = "signal" => old'[t] = tpid'[t]
    <2> USE <1>1, <1>3, OnePlace DEF Opening, Serving
    <2>1. CASE ReadPid(t) \/ VEmpty(t)
      BY <2>1 DEF ReadPid, VEmpty
    <2>2. CASE CallOpenQuestion(t) \/ CallOpenAnswer(t)
      BY <2>2 DEF CallOpenQuestion, CallOpenAnswer, BeginOpen, threadVars
    <2>3. CASE ReturnOpenQuestion(t) \/ ReturnOpenAnswer(t)
      BY <2>3 DEF ReturnOpenQuestion, ReturnOpenAnswer
    <2>4. CASE ThreadScan(t)
      BY <2>4 DEF ThreadScan
    <2>5. CASE Take(t)
      BY <2>5 DEF Take
    <2>6. CASE ReadQuit(t) \/ ReadCommand(t) \/ ServeEof(t)
      BY <2>6 DEF ReadQuit, ReadCommand, ServeEof
    <2>7. CASE Process(t)
      BY <2>7 DEF Process
    <2>8. CASE Reply(t) \/ Notify(t)
      BY <2>8 DEF Reply, Notify, WriteAnswer
    <2>9. CASE FirstTimeout(t)
      BY <2>9 DEF FirstTimeout, FreeSlot
    <2>10. CASE LaterTimeout(t)
      BY <2>10 DEF LaterTimeout, FreeSlot
    <2>11. CASE Signal(t)
      BY <2>11 DEF Signal
    <2> QED
      BY <2>1, <2>2, <2>3, <2>4, <2>5, <2>6, <2>7, <2>8, <2>9, <2>10, <2>11
      DEF ThreadNext
  <1> QED BY <1>1, <1>2, <1>5 DEF Entry, Opening, Serving

LEMMA EntryHolds == ASSUME N = 1 PROVE Spec => []Entry
  <1>1. Init => Entry
    BY OnePlace DEF Init, Entry, Opening, Serving
  <1>2. Base /\ Handover /\ Entry /\ [Next]_vars => Entry'
    <2> SUFFICES ASSUME Base, Handover, Entry, [Next]_vars PROVE Entry'
      OBVIOUS
    <2>1. CASE UNCHANGED vars
      BY <2>1 DEF vars, consumerVars, threadVars, Entry
    <2> QED BY <2>1, ClientEntry, ConsumerEntry, ThreadEntry DEF Next
  <1> QED BY <1>1, <1>2, BaseHolds, HandoverHolds, PTL DEF Spec

(* With one place, and whatever happens to the clients, a serving thread   *)
(* finds its own client in its entry: a timeout signals that client and    *)
(* nobody else.                                                            *)
THEOREM PlaceIsOwned == ASSUME N = 1 PROVE Spec => []PlaceOwned
  <1>1. Entry => PlaceOwned
    BY DEF Entry, PlaceOwned, Serving
  <1> QED BY <1>1, EntryHolds, PTL

-----------------------------------------------------------------------------
(***************************************************************************)
(* Clients that are left to themselves: they time out or are timed out, or *)
(* quit, but no signal from elsewhere and no end of input cuts them short. *)
(***************************************************************************)
Undisturbed == Faults \subseteq {"client_timeout", "daemon_timeout"}

(* A client has its pipes from its start to its end, and SIGINT reaches it *)
(* in its session only.                                                    *)
NoneLeavesEarly ==
  /\ alive = Client
  /\ fifos = {c \in Client : pc[c] \notin {"start", "ended"}}
  /\ \A c \in sigint : pc[c] \in {"session", "waiting", "quitting"}

(* A pid that was taken, or that a thread holds before it has called both  *)
(* its opens, is that of a client that waits for the pipes to be opened.   *)
HeldWaiting ==
  /\ cpc \in {"tail", "scan", "create"} =>
       pid \in Client /\ pc[pid] \in {"V_full", "open_question"}
  /\ \A t \in Thread :
       /\ tpc[t] = "read_pid" =>
            pid \in Client /\ pc[pid] \in {"V_full", "open_question"}
       /\ tpc[t] \in {"open_question", "wait_question", "open_answer"} =>
            /\ tpid[t] \in Client
            /\ pc[tpid[t]] \in {"V_full", "open_question", "open_answer"}

(* Nothing is in the answer pipe of a client that has not opened it. *)
AnswersLate ==
  \A c \in Client : c \in answer => pc[c] \in Connected \cup {"start"}

Talking == {"wait_answer", "scan", "take"} \cup Serving
Processing == {"work", "reply"}

(* A client and the thread that has its question pipe take turns: the      *)
(* client writes when nothing is unread and nothing is processed, and who  *)
(* leaves has its "quit" in front.                                         *)
TakesTurns(t, c) ==
  /\ c \notin sigint
  /\ tpc[t] \in Processing => c \notin answer
  /\ pc[c] = "session" =>
       question[c] = "nothing" /\ c \notin answer /\ tpc[t] \notin Processing
  /\ pc[c] = "waiting" =>
       /\ question[c] # "quit"
       /\ c \in answer \/ tpc[t] \in Processing => question[c] = "nothing"
  /\ pc[c] \in {"quitting", "ended"} => question[c] = "quit"

Dialogue ==
  daemon = "up" =>
    \A t \in Thread : tpc[t] \in Talking => TakesTurns(t, tpid[t])

(* The entry is free outside a service, and found at once. *)
EntryFree ==
  /\ cpc = "scan" => ci = 0
  /\ (\A t \in Thread : tpc[t] \notin Serving) => slot[0] = NoPid

Calm ==
  /\ NoneLeavesEarly /\ HeldWaiting /\ AnswersLate /\ Dialogue /\ EntryFree
  /\ EndsByLateWrite

-----------------------------------------------------------------------------
(***************************************************************************)
(* The steps of a client.                                                  *)
(***************************************************************************)
(* What is left of the steps of a client. *)
LEMMA UndisturbedSteps ==
  ASSUME Undisturbed, NoneLeavesEarly, NEW c \in Client
  PROVE  ~Interrupt(c) /\ ~Kill(c) /\ ~EndOfInput(c)
  BY DEF Undisturbed, NoneLeavesEarly, Interrupt, Kill, EndOfInput

LEMMA ClientEarly ==
  ASSUME TypeOK, Undisturbed, NoneLeavesEarly, NEW c \in Client, ClientNext(c)
  PROVE  NoneLeavesEarly'
  <1>1. ~Interrupt(c) /\ ~Kill(c) /\ ~EndOfInput(c)
    BY UndisturbedSteps
  <1> USE DEF NoneLeavesEarly, Goto, TypeOK
  <1>2. CASE \/ Launch(c) \/ PEmpty(c) \/ PMutex(c) \/ Store(c)
             \/ AdvanceHead(c) \/ VMutex(c) \/ VFull(c) \/ OpenQuestion(c)
             \/ OpenAnswer(c)
    BY <1>2 DEF Launch, PEmpty, PMutex, Store, AdvanceHead, VMutex, VFull,
                OpenQuestion, OpenAnswer
  <1>3. CASE \/ SendCommand(c) \/ Receive(c) \/ ClientTimeout(c)
             \/ SendQuit(c) \/ Leave(c) \/ Restart(c)
    BY <1>3 DEF SendCommand, Receive, ClientTimeout, SendQuit, Leave, Restart
  <1> QED BY <1>1, <1>2, <1>3 DEF ClientNext

LEMMA ClientHeld ==
  ASSUME Base, Undisturbed, NoneLeavesEarly, HeldWaiting, Unassigned, N = 1,
         NEW c \in Client, ClientNext(c)
  PROVE  HeldWaiting'
  <1>1. UNCHANGED <<cpc, pid, tpc, tpid, daemon>>
    BY ClientFrame
  <1>2. ~Interrupt(c) /\ ~Kill(c) /\ ~EndOfInput(c)
    BY UndisturbedSteps
  <1>4. ASSUME NEW d \in Client,
               pc[d] \in {"V_full", "open_question", "open_answer"}
        PROVE  \/ pc'[d] = pc[d]
               \/ pc[d] = "V_full" /\ pc'[d] = "open_question"
               \/ d = c /\ (OpenQuestion(c) \/ OpenAnswer(c))
    <2>1. CASE d = c
      BY <1>2, <1>4, <2>1
      DEF ClientNext, Launch, PEmpty, PMutex, Store, AdvanceHead, VMutex,
          VFull, SendCommand, Receive, ClientTimeout, SendQuit, Leave,
          Restart, Goto, Base, TypeOK
    <2> QED BY <2>1, ClientPath DEF Base
  <1>5. ASSUME pid = c, \/ cpc \in {"tail", "scan", "create"}
                        \/ \E t \in Thread : tpc[t] = "read_pid"
        PROVE  ~OpenQuestion(c)
    <2>1. \A t \in Thread : tpc[t] \in {"none", "read_pid"}
      BY <1>5, Sole
    <2> QED BY <2>1 DEF OpenQuestion, Readers, Base
  <1>6. ASSUME NEW t \in Thread,
               tpc[t] \in {"open_question", "wait_question", "open_answer"}
        PROVE  ~OpenAnswer(c) /\ (OpenQuestion(c) => pc'[c] = "open_answer")
    <2>1. \A u \in Thread : tpc[u] # "none" => u = t
      BY <1>6, Sole
    <2> QED
      BY <1>6, <2>1 DEF OpenAnswer, OpenQuestion, Readers, Goto, Base, TypeOK
  <1>7. ASSUME \/ cpc \in {"tail", "scan", "create"}
               \/ \E t \in Thread : tpc[t] = "read_pid"
        PROVE  pid \in Client /\ pc'[pid] \in {"V_full", "open_question"}
    <2>1. pid \in Client /\ pc[pid] \in {"V_full", "open_question"}
      BY <1>7 DEF HeldWaiting
    <2>2. ~OpenAnswer(pid)
      BY <2>1 DEF OpenAnswer, Goto
    <2> QED BY <1>4, <1>5, <1>7, <2>1, <2>2
  <1>8. ASSUME NEW t \in Thread,
               tpc[t] \in {"open_question", "wait_question", "open_answer"}
        PROVE  /\ tpid[t] \in Client
               /\ pc'[tpid[t]] \in {"V_full", "open_question", "open_answer"}
    BY <1>4, <1>6, <1>8 DEF HeldWaiting
  <1> QED BY <1>1, <1>7, <1>8 DEF HeldWaiting

LEMMA ClientAnswers ==
  ASSUME TypeOK, AnswersLate, NEW c \in Client, ClientNext(c)
  PROVE  AnswersLate'
  <1> USE DEF TypeOK, AnswersLate, Connected, Goto
  <1>1. CASE Launch(c)
    BY <1>1 DEF Launch
  <1>2. CASE ~Launch(c)
    <2>1. answer' \subseteq answer
      BY <1>2
      DEF ClientNext, PEmpty, PMutex, Store, AdvanceHead, VMutex, VFull,
          OpenQuestion, OpenAnswer, SendCommand, Receive, ClientTimeout,
          SendQuit, Leave, EndOfInput, Interrupt, Kill, Restart
    <2>2. \A d \in Client :
            pc[d] \in Connected \cup {"start"} => pc'[d] \in Connected \cup {"start"}
      BY <1>2, ClientPath
      DEF ClientNext, PEmpty, PMutex, Store, AdvanceHead, VMutex, VFull,
          OpenQuestion, OpenAnswer, SendCommand, Receive, ClientTimeout,
          SendQuit, Leave, EndOfInput, Interrupt, Kill, Restart
    <2> QED BY <2>1, <2>2
  <1> QED BY <1>1, <1>2

(* The client that moves is the one whose thread is t. *)
LEMMA ClientTurns ==
  ASSUME Base, Handover, Undisturbed, NoneLeavesEarly, AnswersLate, N = 1,
         daemon = "up",
         NEW t \in Thread, tpc[t] \in Talking, tpid[t] \in Client,
         TakesTurns(t, tpid[t]), ClientNext(tpid[t])
  PROVE  TakesTurns(t, tpid[t])'
  <1> DEFINE c == tpid[t]
  <1> USE DEF Talking, Serving, Processing, TakesTurns, Goto, Base, TypeOK
  <1>1. /\ tpc' = tpc /\ tpid' = tpid
        /\ ~Interrupt(c) /\ ~Kill(c) /\ ~EndOfInput(c) /\ ~Restart(c)
    BY ClientFrame, UndisturbedSteps DEF Restart
  <1>2. Readers(c) # {} /\ \A u \in Readers(c) : u = t
    <2>1. t \in Readers(c)
      BY DEF Readers
    <2>2. \A u \in Readers(c) : tpc[u] # "none"
      BY DEF Readers
    <2>3. Readers(c) \subseteq Thread
      BY DEF Readers
    <2> QED BY <2>1, <2>2, <2>3, Sole
  <1>3. pc[c] \in Announced /\ c \in alive
    BY DEF Handover, KnownAnnounced, NoneLeavesEarly
  <1>4. CASE VFull(c) \/ OpenQuestion(c)
    BY <1>1, <1>4 DEF VFull, OpenQuestion
  <1>5. CASE OpenAnswer(c)
    <2>1. question[c] = "nothing" /\ c \notin answer /\ tpc[t] \notin Heard
      BY <1>3, <1>5
      DEF OpenAnswer, Handover, WritesLate, AnswersLate, ThreadsBehind,
          Connected
    <2> QED BY <1>1, <1>5, <2>1 DEF OpenAnswer, Heard
  <1>6. CASE SendCommand(c)
    BY <1>1, <1>2, <1>6 DEF SendCommand, Written
  <1>7. CASE Receive(c)
    BY <1>1, <1>2, <1>7 DEF Receive
  <1>8. CASE ClientTimeout(c)
    BY <1>1, <1>2, <1>8 DEF ClientTimeout, Written
  <1>9. CASE SendQuit(c)
    BY <1>1, <1>2, <1>9 DEF SendQuit, Written
  <1>10. CASE Leave(c)
    <2>1. pc[c] = "quitting"
      BY <1>2, <1>10 DEF Leave, Signalled, Undisturbed
    <2> QED BY <1>1, <1>10, <2>1 DEF Leave, Written
  <1> QED
    BY <1>1, <1>3, <1>4, <1>5, <1>6, <1>7, <1>8, <1>9, <1>10
    DEF ClientNext, Launch, PEmpty, PMutex, Store, AdvanceHead, VMutex,
        Announced

(* The steps of a client leave the messages of the others alone. *)
LEMMA ClientAlone ==
  ASSUME TypeOK, NEW c \in Client, ClientNext(c), NEW d \in Client, d # c
  PROVE  /\ pc'[d] = pc[d] /\ question'[d] = question[d]
         /\ d \in answer' <=> d \in answer
         /\ d \in sigint' <=> d \in sigint
  BY DEF TypeOK, ClientNext, Launch, PEmpty, PMutex, Store, AdvanceHead, VMutex,
         VFull, OpenQuestion, OpenAnswer, SendCommand, Receive, ClientTimeout,
         SendQuit, Leave, EndOfInput, Interrupt, Kill, Restart, Goto, Written

LEMMA ClientDialogue ==
  ASSUME Base, Handover, Undisturbed, NoneLeavesEarly, AnswersLate, Dialogue,
         N = 1, NEW c \in Client, ClientNext(c)
  PROVE  Dialogue'
  <1>1. UNCHANGED <<tpc, tpid, daemon>>
    BY ClientFrame
  <1> SUFFICES ASSUME daemon = "up", NEW t \in Thread, tpc[t] \in Talking
               PROVE  TakesTurns(t, tpid[t])'
    BY <1>1 DEF Dialogue
  <1>2. tpid[t] \in Client /\ TakesTurns(t, tpid[t])
    BY DEF Handover, ThreadsBehind, Dialogue, Talking, Serving
  <1>3. CASE tpid[t] = c
    BY <1>2, <1>3, ClientTurns
  <1>4. CASE tpid[t] # c
    BY <1>1, <1>2, <1>4, ClientAlone DEF TakesTurns, Base
  <1> QED BY <1>3, <1>4

LEMMA ClientCalm ==
  ASSUME Base, Handover, Calm, Unassigned, N = 1, Undisturbed,
         NEW c \in Client, ClientNext(c)
  PROVE  Calm'
  <1>1. UNCHANGED <<cpc, ci, tpc, tpid, old, slot, daemon>>
    BY DEF ClientNext, Launch, PEmpty, PMutex, Store, AdvanceHead, VMutex,
           VFull, OpenQuestion, OpenAnswer, SendCommand, Receive,
           ClientTimeout, SendQuit, Leave, EndOfInput, Interrupt, Kill,
           Restart, consumerVars, threadVars
  <1>2. /\ NoneLeavesEarly' /\ HeldWaiting' /\ AnswersLate' /\ Dialogue'
    BY ClientEarly, ClientHeld, ClientAnswers, ClientDialogue DEF Calm, Base
  <1>3. EntryFree'
    BY <1>1 DEF Calm, EntryFree
  <1>4. EndsByLateWrite'
    <2> SUFFICES ASSUME daemon = "exited"
                 PROVE  \E t \in Thread :
                          /\ tpc'[t] \in {"reply", "notify", "signal"}
                          /\ Gone(tpid[t])'
      BY <1>1 DEF EndsByLateWrite
    <2>1. PICK t \in Thread : /\ tpc[t] \in {"reply", "notify", "signal"}
                              /\ Gone(tpid[t])
      BY DEF Calm, EndsByLateWrite
    <2>2. tpid[t] \in Client /\ pc[tpid[t]] = "ended"
      BY <2>1 DEF Handover, ThreadsBehind, Calm, NoneLeavesEarly, Gone
    <2>3. pc'[tpid[t]] = "ended"
      BY <2>2, UndisturbedSteps
      DEF ClientNext, Launch, PEmpty, PMutex, Store, AdvanceHead, VMutex, VFull,
          OpenQuestion, OpenAnswer, SendCommand, Receive, ClientTimeout,
          SendQuit, Leave, Restart, Goto, Calm, Base, TypeOK
    <2> QED BY <1>1, <2>1, <2>3 DEF Gone
  <1> QED BY <1>2, <1>3, <1>4 DEF Calm

-----------------------------------------------------------------------------
(***************************************************************************)
(* The steps of the consumer and of the threads.                           *)
(***************************************************************************)
LEMMA ConsumerCalm ==
  ASSUME Base, Handover, Entry, Calm, N = 1, ConsumerNext
  PROVE  Calm'
  <1>1. UNCHANGED <<clientVars, tpid, slot>>
    BY DEF ConsumerNext, ConsumerPFull, ConsumerPMutex, Load, AdvanceTail,
           ConsumerScan, Create, ConsumerVMutex, threadVars
  <1>2. cpc = "scan" => slot[0] = NoPid /\ ci = 0
    BY Sole DEF Calm, EntryFree, Serving
  <1>3. daemon = "up" /\ daemon' = "up" /\ (cpc' = "scan" => ci' = 0)
    BY <1>2
    DEF ConsumerNext, ConsumerPFull, ConsumerPMutex, Load, AdvanceTail,
        ConsumerScan, Create, ConsumerVMutex, ConsumerGoto
  <1>4. \A t \in Thread :
          tpc'[t] = tpc[t] \/ (tpc'[t] = "read_pid" /\ cpc = "create")
    BY DEF ConsumerNext, ConsumerPFull, ConsumerPMutex, Load, AdvanceTail,
           ConsumerScan, Create, ConsumerVMutex, ConsumerGoto, threadVars,
           Base, TypeOK
  <1>5. EntryFree'
    <2>1. CASE cpc = "create"
      BY <1>1, <1>3, <2>1 DEF Entry, EntryFree
    <2>2. CASE cpc # "create"
      BY <1>1, <1>3, <1>4, <2>2 DEF Calm, EntryFree
    <2> QED BY <2>1, <2>2
  <1>6. NoneLeavesEarly' /\ AnswersLate' /\ EndsByLateWrite'
    BY <1>1, <1>3
    DEF Calm, NoneLeavesEarly, AnswersLate, EndsByLateWrite, clientVars
  <1>7. Dialogue'
    BY <1>1, <1>3, <1>4
    DEF Calm, Dialogue, TakesTurns, Talking, Serving, clientVars
  <1>8. HeldWaiting'
    <2>1. CASE Load
      <3>1. tpc' = tpc /\ \A t \in Thread : tpc[t] = "none"
        BY <2>1, Sole DEF Load, ConsumerGoto, threadVars
      <3> QED
        BY <1>1, <2>1, <3>1, LoadWaiting
        DEF Handover, Calm, HeldWaiting, clientVars
    <2>2. CASE ~Load
      <3>1. pid' = pid
        BY <2>2, ConsumerQueue DEF Base
      <3>2. cpc' \in {"tail", "scan", "create"} =>
              cpc \in {"tail", "scan", "create"}
        BY <2>2 DEF ConsumerNext, ConsumerPFull, ConsumerPMutex, AdvanceTail,
                    ConsumerScan, Create, ConsumerVMutex, ConsumerGoto
      <3> QED
        BY <1>1, <1>4, <3>1, <3>2 DEF Calm, HeldWaiting, clientVars
    <2> QED BY <2>1, <2>2
  <1> QED BY <1>5, <1>6, <1>7, <1>8 DEF Calm

(* A thread that finds its client waiting or leaving neither fails to open *)
(* a pipe nor meets the end of one; it is brought down by what it writes.  *)
LEMMA ThreadUnharmed ==
  ASSUME Base, Handover, Entry, Calm, N = 1, NEW t \in Thread, ThreadNext(t)
  PROVE  /\ ~ServeEof(t)
         /\ daemon' = "exited" =>
              /\ tpc[t] \in {"reply", "notify", "signal"} /\ Gone(tpid[t])
              /\ UNCHANGED <<tpc, tpid, old, slot, question, answer>>
              /\ sigint' = sigint \cup ({slot[i] : i \in Place} \cap Running)
  <1>1. daemon = "up" /\ ti[t] = 0
    BY ThreadPath DEF Base, Entry
  <1>2. tpc[t] \in {"open_question", "open_answer"} => tpid[t] \in fifos
    BY DEF Calm, HeldWaiting, NoneLeavesEarly
  <1>3. tpc[t] = "signal" => old[t] = tpid[t]
    BY DEF Entry
  <1>4. ~ServeEof(t)
    <2> SUFFICES ASSUME ServeEof(t) PROVE FALSE
      OBVIOUS
    <2>1. /\ tpc[t] \in {"first", "serve"} /\ question[tpid[t]] = "nothing"
          /\ Gone(tpid[t])
      BY DEF ServeEof, ThreadGoto
    <2>2. tpid[t] \in Client /\ pc[tpid[t]] = "ended"
      BY <2>1 DEF Gone, Handover, ThreadsBehind, Calm, NoneLeavesEarly
    <2>3. TakesTurns(t, tpid[t])
      BY <1>1, <2>1 DEF Calm, Dialogue, Talking, Serving
    <2> QED BY <2>1, <2>2, <2>3 DEF TakesTurns
  <1> USE <1>1 DEF ThreadGoto
  <1>5. CASE \/ ReadPid(t) \/ ReturnOpenQuestion(t) \/ ReturnOpenAnswer(t)
             \/ ThreadScan(t) \/ Take(t) \/ ReadCommand(t) \/ Process(t)
             \/ VEmpty(t)
    BY <1>4, <1>5
    DEF ReadPid, ReturnOpenQuestion, ReturnOpenAnswer, ThreadScan, Take,
        ReadCommand, Process, VEmpty
  <1>6. CASE CallOpenQuestion(t) \/ CallOpenAnswer(t)
    BY <1>2, <1>4, <1>6 DEF CallOpenQuestion, CallOpenAnswer, BeginOpen
  <1>7. CASE ReadQuit(t) \/ FirstTimeout(t) \/ LaterTimeout(t)
    BY <1>4, <1>7 DEF ReadQuit, FirstTimeout, LaterTimeout, FreeSlot
  <1>8. CASE Reply(t) \/ Notify(t) \/ Signal(t)
    BY <1>3, <1>4, <1>8
    DEF Reply, Notify, Signal, WriteAnswer, SigPipe, threadVars
  <1> QED BY <1>4, <1>5, <1>6, <1>7, <1>8 DEF ThreadNext

(* SIGINT goes to the client of the thread, once its service is over.      *)
LEMMA ThreadSignals ==
  ASSUME Base, Handover, Entry, Calm, N = 1, NEW t \in Thread, ThreadNext(t)
  PROVE  /\ \A c \in sigint' : pc[c] \in {"session", "waiting", "quitting"}
         /\ tpc'[t] \in Talking /\ daemon' = "up" => sigint' = sigint
  <1>1. \A c \in sigint : pc[c] \in {"session", "waiting", "quitting"}
    BY DEF Calm, NoneLeavesEarly
  <1>2. CASE daemon' = "exited"
    <2>1. /\ tpc[t] \in {"reply", "notify", "signal"} /\ Gone(tpid[t])
          /\ sigint' = sigint \cup ({slot[i] : i \in Place} \cap Running)
      BY <1>2, ThreadUnharmed
    <2>2. tpid[t] \in Client /\ tpid[t] \notin Running
      BY <2>1 DEF Handover, ThreadsBehind, Gone, Running
    <2>3. slot[0] \in {NoPid, tpid[t]}
      BY <2>1 DEF Entry, Serving
    <2>4. Running \subseteq Client
      BY DEF Running, Base, TypeOK
    <2>5. {slot[i] : i \in Place} \cap Running = {}
      BY <2>2, <2>3, <2>4, OnePlace
    <2> QED BY <1>1, <1>2, <2>1, <2>5
  <1>3. CASE daemon' # "exited" /\ Signal(t)
    <2>1. /\ tpc[t] = "signal" /\ tpc'[t] = "V_empty" /\ old[t] = tpid[t]
          /\ sigint' = sigint \cup {c \in Running : old[t] \in {c, NoPid}}
      BY <1>3 DEF Signal, SigPipe, DaemonExit, Entry, Base, TypeOK
    <2>2. /\ tpid[t] \in Client /\ pc[tpid[t]] \in Connected
      BY <2>1 DEF Handover, ThreadsBehind, Heard, Calm, NoneLeavesEarly
    <2>3. \A c \in Running :
            old[t] \in {c, NoPid} => pc[c] \in {"session", "waiting", "quitting"}
      BY <2>1, <2>2 DEF Running, Connected
    <2> QED BY <1>1, <2>1, <2>3 DEF Talking, Serving
  <1>4. CASE daemon' # "exited" /\ ~Signal(t)
    <2>1. sigint' = sigint
      BY <1>4
      DEF ThreadNext, ReadPid, CallOpenQuestion, CallOpenAnswer, BeginOpen,
          ReturnOpenQuestion, ReturnOpenAnswer, ThreadScan, Take, ReadQuit,
          ReadCommand, Process, Reply, FirstTimeout, Notify, LaterTimeout,
          WriteAnswer, SigPipe, DaemonExit, ServeEof, VEmpty, clientVars
    <2> QED BY <1>1, <2>1
  <1> QED BY <1>2, <1>3, <1>4

(* A message in an answer pipe was written by a thread whose client has    *)
(* opened it.                                                              *)
LEMMA ThreadAnswers ==
  ASSUME Base, Handover, Calm, NEW t \in Thread, ThreadNext(t)
  PROVE  AnswersLate'
  <1>1. pc' = pc
    BY ThreadFrame
  <1>2. answer' \subseteq answer \cup (IF tpc[t] \in Heard THEN {tpid[t]} ELSE {})
    BY DEF ThreadNext, ReadPid, CallOpenQuestion, CallOpenAnswer, BeginOpen,
           ReturnOpenQuestion, ReturnOpenAnswer, ThreadScan, Take, ReadQuit,
           ReadCommand, Process, Reply, FirstTimeout, Notify, LaterTimeout,
           WriteAnswer, Signal, ServeEof, VEmpty, clientVars, Heard
  <1>3. tpc[t] \in Heard => tpid[t] \in Client /\ pc[tpid[t]] \in Connected
    BY DEF Handover, ThreadsBehind, Heard, Calm, NoneLeavesEarly
  <1> QED BY <1>1, <1>2, <1>3 DEF Calm, AnswersLate

LEMMA ThreadTurns ==
  ASSUME Base, Handover, Entry, Calm, N = 1, NEW t \in Thread, ThreadNext(t),
         daemon' = "up", tpc'[t] \in Talking
  PROVE  TakesTurns(t, tpid[t])'
  <1>1. pc' = pc /\ sigint' = sigint /\ daemon = "up" /\ alive = Client
    BY ThreadFrame, ThreadSignals, ThreadPath DEF Base, Calm, NoneLeavesEarly
  <1> USE DEF Talking, Serving, ThreadGoto
  <1>2. CASE tpc[t] = "open_answer"
    <2>1. /\ tpc'[t] = "wait_answer" /\ tpid' = tpid
      BY <1>1, <1>2
      DEF ThreadNext, ReadPid, CallOpenQuestion, CallOpenAnswer, BeginOpen,
          ReturnOpenQuestion, ReturnOpenAnswer, ThreadScan, Take, ReadQuit,
          ReadCommand, Process, Reply, FirstTimeout, Notify, LaterTimeout,
          WriteAnswer, Signal, ServeEof, VEmpty, DaemonExit, Base, TypeOK
    <2>2. pc[tpid[t]] \in {"V_full", "open_question", "open_answer"}
      BY <1>2 DEF Calm, HeldWaiting
    <2>3. tpid[t] \notin sigint
      BY <2>2 DEF Calm, NoneLeavesEarly
    <2> QED BY <1>1, <2>1, <2>2, <2>3 DEF TakesTurns, Processing
  <1>3. CASE tpc[t] # "open_answer"
    <2>1. tpc[t] \in Talking /\ tpid'[t] = tpid[t]
      BY <1>1, <1>3
      DEF ThreadNext, ReadPid, CallOpenQuestion, CallOpenAnswer, BeginOpen,
          ReturnOpenQuestion, ReturnOpenAnswer, ThreadScan, Take, ReadQuit,
          ReadCommand, Process, Reply, FirstTimeout, Notify, LaterTimeout,
          WriteAnswer, Signal, ServeEof, VEmpty, DaemonExit, Base, TypeOK
    <2>2. TakesTurns(t, tpid[t]) /\ tpid[t] \in Client
      BY <1>1, <2>1 DEF Calm, Dialogue, Handover, ThreadsBehind
    <2>3. CASE ReturnOpenAnswer(t) \/ ThreadScan(t) \/ Take(t)
      BY <1>1, <2>1, <2>2, <2>3
      DEF ReturnOpenAnswer, ThreadScan, Take, TakesTurns, Processing,
          clientVars, Base, TypeOK
    <2>4. CASE Process(t)
      BY <1>1, <2>1, <2>2, <2>4
      DEF Process, TakesTurns, Processing, clientVars, Base, TypeOK
    <2>5. CASE ReadCommand(t)
      <3>1. /\ question[tpid[t]] = "command" /\ question'[tpid[t]] = "nothing"
            /\ answer' = answer /\ tpc'[t] = "work"
        BY <2>2, <2>5 DEF ReadCommand, Base, TypeOK
      <3>2. pc[tpid[t]] \in Connected
        BY <1>1, <2>2, <2>5, <3>1
        DEF Handover, WritesLate, KnownAnnounced, Announced, Connected
      <3> QED
        BY <1>1, <2>1, <2>2, <3>1, <3>2 DEF TakesTurns, Processing, Connected
    <2>6. CASE Reply(t)
      <3>1. /\ tpc[t] = "reply" /\ tpc'[t] = "serve" /\ question' = question
            /\ answer' = answer \cup {tpid[t]}
        BY <1>1, <2>6
        DEF Reply, WriteAnswer, SigPipe, DaemonExit, Base, TypeOK
      <3> QED BY <1>1, <2>1, <2>2, <3>1 DEF TakesTurns, Processing
    <2> QED
      BY <1>1, <2>1, <2>3, <2>4, <2>5, <2>6
      DEF ThreadNext, ReadPid, CallOpenQuestion, CallOpenAnswer, BeginOpen,
          ReturnOpenQuestion, ReadQuit, FirstTimeout, Notify, LaterTimeout,
          WriteAnswer, Signal, ServeEof, VEmpty, SigPipe, DaemonExit, Base,
          TypeOK
  <1> QED BY <1>2, <1>3

LEMMA ThreadFree ==
  ASSUME Base, Handover, Entry, Calm, N = 1, NEW t \in Thread, ThreadNext(t),
         daemon' = "up", tpc'[t] \notin Serving
  PROVE  slot'[0] = NoPid
  <1>1. /\ ti[t] = 0 /\ ~ServeEof(t) /\ Place = {0}
        /\ tpc[t] \notin Serving => slot[0] = NoPid
    <2>1. tpc[t] # "none"
      BY ThreadPath DEF Base
    <2>2. \A u \in Thread : u # t => tpc[u] = "none"
      BY <2>1, Sole
    <2>3. (\A u \in Thread : tpc[u] \notin Serving) => slot[0] = NoPid
      BY DEF Calm, EntryFree
    <2>4. tpc[t] \notin Serving => \A u \in Thread : tpc[u] \notin Serving
      BY <2>2 DEF Serving
    <2> QED BY <2>3, <2>4, OnePlace, ThreadUnharmed DEF Entry
  <1> USE <1>1 DEF ThreadGoto, Serving, Base, TypeOK
  <1>2. CASE tpc[t] \notin Serving
    BY <1>2
    DEF ThreadNext, ReadPid, CallOpenQuestion, CallOpenAnswer, BeginOpen,
        ReturnOpenQuestion, ReturnOpenAnswer, ThreadScan, Take, ReadQuit,
        ReadCommand, Process, Reply, FirstTimeout, Notify, LaterTimeout,
        WriteAnswer, Signal, VEmpty
  <1>3. CASE tpc[t] \in Serving
    BY <1>3
    DEF ThreadNext, ReadPid, CallOpenQuestion, CallOpenAnswer, BeginOpen,
        ReturnOpenQuestion, ReturnOpenAnswer, ThreadScan, Take, ReadQuit,
        ReadCommand, Process, Reply, FirstTimeout, Notify, LaterTimeout,
        WriteAnswer, Signal, VEmpty, FreeSlot, SigPipe, DaemonExit
  <1> QED BY <1>2, <1>3

LEMMA ThreadCalm ==
  ASSUME Base, Handover, Entry, Calm, N = 1, NEW t \in Thread, ThreadNext(t)
  PROVE  Calm'
  <1>1. UNCHANGED <<pc, alive, fifos, cpc, pid, ci>> /\ tpc[t] # "none"
    BY ThreadFrame, ThreadPath DEF consumerVars, Base
  <1>2. /\ \A u \in Thread : u # t => tpc[u] = "none" /\ tpc'[u] = "none"
        /\ cpc \notin {"tail", "scan", "create"}
    BY <1>1, Sole, ThreadPath DEF Base
  <1>3. NoneLeavesEarly' /\ AnswersLate'
    BY <1>1, ThreadSignals, ThreadAnswers DEF Calm, NoneLeavesEarly
  <1>4. HeldWaiting'
    <2>1. /\ tpc'[t] # "read_pid" \/ UNCHANGED <<tpc, tpid>>
          /\ tpc'[t] \in {"open_question", "wait_question", "open_answer"} =>
               /\ tpid'[t] \in Client
               /\ pc[tpid'[t]] \in {"V_full", "open_question", "open_answer"}
      BY ThreadPath, ThreadUnharmed DEF Calm, HeldWaiting, Base, Heard
    <2> QED BY <1>1, <1>2, <2>1 DEF Calm, HeldWaiting
  <1>5. CASE daemon' = "exited"
    <2>1. /\ tpc[t] \in {"reply", "notify", "signal"} /\ Gone(tpid[t])
          /\ UNCHANGED <<tpc, tpid, slot>>
      BY <1>5, ThreadUnharmed
    <2>2. Gone(tpid[t])'
      BY <1>1, <2>1 DEF Gone
    <2>3. Dialogue' /\ EntryFree' /\ EndsByLateWrite'
      BY <1>1, <1>5, <2>1, <2>2 DEF Calm, Dialogue, EntryFree, EndsByLateWrite
    <2> QED BY <1>3, <1>4, <2>3 DEF Calm
  <1>6. CASE daemon' # "exited"
    <2>1. daemon' = "up"
      BY <1>6, ThreadType DEF Base, TypeOK
    <2>2. Dialogue'
      BY <1>2, <2>1, ThreadTurns DEF Dialogue, Talking, Serving
    <2>3. EntryFree'
      BY <1>1, <1>2, <2>1, ThreadFree DEF EntryFree
    <2> QED BY <1>3, <1>4, <2>1, <2>2, <2>3 DEF Calm, EndsByLateWrite
  <1> QED BY <1>5, <1>6

-----------------------------------------------------------------------------
LEMMA CalmHolds == ASSUME N = 1, Undisturbed PROVE Spec => []Calm
  <1>1. Init => Unassigned /\ Calm
    BY OnePlace
    DEF Init, Unassigned, Calm, NoneLeavesEarly, HeldWaiting, AnswersLate,
        Dialogue, Talking, Serving, EntryFree, EndsByLateWrite
  <1>2. Base /\ Handover /\ Entry /\ Unassigned /\ Calm /\ [Next]_vars => Calm'
    <2> SUFFICES ASSUME Base, Handover, Entry, Unassigned, Calm, [Next]_vars
                 PROVE  Calm'
      OBVIOUS
    <2>1. CASE UNCHANGED vars
      BY <2>1
      DEF vars, clientVars, consumerVars, threadVars, Calm, NoneLeavesEarly,
          HeldWaiting, AnswersLate, Dialogue, TakesTurns, EntryFree,
          EndsByLateWrite, Gone
    <2> QED BY <2>1, ClientCalm, ConsumerCalm, ThreadCalm DEF Next
  <1>3. Base => TypeOK
    BY DEF Base
  <1> QED
    BY <1>1, <1>2, <1>3, NextUnassigned, BaseHolds, HandoverHolds, EntryHolds, PTL
    DEF Spec

(* With one place, timeouts on both sides and users that quit, the pid     *)
(* that the consumer takes finds the entry free: no service ends without   *)
(* giving it back, and exit(EXIT_FAILURE) of consumer() is not reached.    *)
THEOREM FreePlaceIsFound ==
  ASSUME N = 1, Undisturbed PROVE Spec => []FreePlaceForTaken
  <1>1. Base /\ Calm => FreePlaceForTaken
    <2> SUFFICES ASSUME Base, Calm, cpc = "scan"
                 PROVE  \E i \in Place : i >= ci /\ slot[i] = NoPid
      BY DEF FreePlaceForTaken
    <2>1. slot[0] = NoPid /\ ci = 0
      BY Sole DEF Calm, EntryFree, Serving
    <2> QED BY <2>1 DEF Place
  <1> QED BY <1>1, BaseHolds, CalmHolds, PTL

(* Under the same conditions the daemon ends for one reason only: a thread *)
(* has something to write to a client that has left, the answer to its     *)
(* last command, the notice of a first timeout or the "quit" of a later    *)
(* one, and the handler of SIGPIPE exits.                                  *)
THEOREM OnlyLateWritesHarm ==
  ASSUME N = 1, Undisturbed PROVE Spec => []EndsByLateWrite
  BY CalmHolds, PTL DEF Calm
=============================================================================
