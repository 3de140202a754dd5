------------------------------ MODULE Admission ------------------------------
(***************************************************************************)
(* Admission of clients by the daemon: the producer/consumer protocol of   *)
(* client.c producer() and daemon.c consumer() over the shared ring of     *)
(* shm.c and the semaphores mutex, empty and full; the creation of a       *)
(* thread per client; the thread routine run() from the reading of its     *)
(* argument to V(empty), with the table pthread_alloc of occupied places.  *)
(* Of the dialogue of a client with its thread there is what decides how   *)
(* it ends: what lies unread at the front of the question pipe, whether    *)
(* the answer pipe has a message, and who still has them open; module      *)
(* Session has the contents.  One step is one access to shared memory, one *)
(* semaphore operation or one blocking call.                               *)
(***************************************************************************)
EXTENDS Integers, FiniteSets, Sequences

CONSTANTS
  Client,      \* the client processes, named by their pid
  Thread,      \* the thread descriptors of the daemon
  N,           \* conf->buffer_size, the value of MAX_BUFFER_SHM
  NoPid,       \* -1 in pthread_alloc, 0 in a ring entry never written
  Faults,      \* the members of FaultKind considered
  Restarting   \* the clients whose user starts a new one after leaving

FaultKind == {"kill", "interrupt",  \* signals to clients
              "eof",                \* the standard input of a client ends
              "client_timeout",     \* a command outlasts timeout_client
              "daemon_timeout"}     \* a user pauses for timeout_daemon

ASSUME ClientAssumption == IsFiniteSet(Client) /\ NoPid \notin Client
ASSUME ThreadAssumption == IsFiniteSet(Thread)
ASSUME CapacityAssumption == N \in Nat \ {0}
ASSUME FaultAssumption ==
  /\ Faults \subseteq FaultKind
  /\ Restarting \subseteq Client

VARIABLES
  mutex, empty, full,   \* the values of the three named semaphores
  head, tail, buffer,   \* struct fifo in the shared segment
  pc,                   \* where each client is
  alive,                \* the clients that were not killed
  fifos,                \* the clients whose named pipes exist in /tmp
  question,             \* what the unread part of each question pipe begins with
  answer,               \* the clients with an unread message in the answer pipe
  sigint,               \* the clients to which the daemon sent SIGINT
  cpc, pid, ci,         \* consumer(): position, local variables pid and i
  tpc, tpid, ti, old,   \* run(): position, local variables pid, i and pid_old
  slot,                 \* pthread_alloc[i].id
  daemon                \* "up", or "exited" after exit(EXIT_FAILURE)

sems == <<mutex, empty, full>>
ring == <<head, tail, buffer>>
clientVars == <<pc, alive, fifos, question, answer, sigint>>
consumerVars == <<cpc, pid, ci>>
threadVars == <<tpc, tpid, ti, old>>
vars == <<sems, ring, clientVars, consumerVars, threadVars, slot, daemon>>

Place == 0 .. N - 1
Pid == Client \cup {NoPid}

ClientPC == {"start", "P_empty", "P_mutex", "store", "head", "V_mutex",
             "V_full", "open_question", "open_answer", "session", "waiting",
             "quitting", "ended"}
ConsumerPC == {"P_full", "P_mutex", "load", "tail", "scan", "create",
               "V_mutex"}
ThreadPC == {"none", "read_pid", "open_question", "wait_question",
             "open_answer", "wait_answer", "blocked", "scan", "take",
             "first", "serve",   \* the first select() and the later ones
             "work", "reply",    \* a request is processed, and answered
             "notify", "signal", \* after the first or a later timeout
             "V_empty"}

TypeOK ==
  /\ mutex \in Nat /\ empty \in Nat /\ full \in Nat
  /\ head \in Place /\ tail \in Place /\ buffer \in [Place -> Pid]
  /\ pc \in [Client -> ClientPC]
  /\ alive \subseteq Client /\ fifos \subseteq Client /\ sigint \subseteq Client
  /\ question \in [Client -> {"nothing", "quit", "command"}]
  /\ answer \subseteq Pid
  /\ cpc \in ConsumerPC /\ pid \in Pid /\ ci \in 0 .. N
  /\ tpc \in [Thread -> ThreadPC]
  /\ tpid \in [Thread -> Pid]
  /\ ti \in [Thread -> 0 .. N]
  /\ old \in [Thread -> Pid]
  /\ slot \in [Place -> Pid]
  /\ daemon \in {"up", "exited"}

(* The daemon has created the semaphores and the segment and has reached   *)
(* consumer(); no client has started yet.                                  *)
Init ==
  /\ mutex = 1 /\ empty = N /\ full = 0
  /\ head = 0 /\ tail = 0 /\ buffer = [i \in Place |-> NoPid]
  /\ pc = [c \in Client |-> "start"]
  /\ alive = Client /\ fifos = {} /\ sigint = {}
  /\ question = [c \in Client |-> "nothing"] /\ answer = {}
  /\ cpc = "P_full" /\ pid = NoPid /\ ci = 0
  /\ tpc = [t \in Thread |-> "none"]
  /\ tpid = [t \in Thread |-> NoPid]
  /\ ti = [t \in Thread |-> 0]
  /\ old = [t \in Thread |-> NoPid]
  /\ slot = [i \in Place |-> NoPid]
  /\ daemon = "up"

(***************************************************************************)
(* sem_wait and sem_post, behind P and V of utils.c.                       *)
(***************************************************************************)
P(s) == s > 0 /\ s' = s - 1
V(s) == s' = s + 1

(* exit() in a thread of the daemon ends all of them.                      *)
DaemonExit == daemon' = "exited"

Gone(c) == c \notin alive \/ pc[c] = "ended"
Running == {c \in alive : pc[c] \notin {"start", "ended"}}

(* The threads that hold the question pipe of c open for reading.          *)
Readers(c) ==
  IF daemon = "exited" THEN {}
  ELSE {t \in Thread : /\ tpid[t] = c
                       /\ tpc[t] \in {"open_answer", "wait_answer", "scan",
                                      "take", "first", "serve", "work",
                                      "reply", "notify", "signal", "V_empty"}}

(* write() of message m to the question pipe of c.  It changes what is     *)
(* found first only if nothing was unread.                                 *)
Written(c, m) ==
  IF Readers(c) # {} /\ question[c] = "nothing"
  THEN [question EXCEPT ![c] = m] ELSE question

(***************************************************************************)
(* The client.                                                             *)
(***************************************************************************)
Goto(c, from, to) ==
  /\ c \in alive
  /\ pc[c] = from
  /\ pc' = [pc EXCEPT ![c] = to]

(* main(): both named pipes are made anew, then producer() is entered.     *)
Launch(c) ==
  /\ Goto(c, "start", "P_empty")
  /\ fifos' = fifos \cup {c}
  /\ question' = [question EXCEPT ![c] = "nothing"]
  /\ answer' = answer \ {c}
  /\ UNCHANGED <<sems, ring, alive, sigint, consumerVars, threadVars, slot, daemon>>

PEmpty(c) ==
  /\ Goto(c, "P_empty", "P_mutex")
  /\ P(empty)
  /\ UNCHANGED <<mutex, full, ring, alive, fifos, question, answer, sigint,
                 consumerVars, threadVars, slot, daemon>>

(* Mutant of PMutex: the client enters the section without the mutex. *)
PMutexSkipped(c) ==
  /\ Goto(c, "P_mutex", "store")
  /\ UNCHANGED <<sems, ring, alive, fifos, question, answer, sigint,
                 consumerVars, threadVars, slot, daemon>>

PMutex(c) ==
  /\ Goto(c, "P_mutex", "store")
  /\ P(mutex)
  /\ UNCHANGED <<empty, full, ring, alive, fifos, question, answer, sigint,
                 consumerVars, threadVars, slot, daemon>>

(* Mutant of Store: the pid is stored after head has moved on. *)
StoreLate(c) ==
  /\ Goto(c, "store", "head")
  /\ buffer' = [buffer EXCEPT ![(head + 1) % N] = c]
  /\ UNCHANGED <<sems, head, tail, alive, fifos, question, answer, sigint,
                 consumerVars, threadVars, slot, daemon>>

(* add_element(): buffer[head] = element. *)
Store(c) ==
  /\ Goto(c, "store", "head")
  /\ buffer' = [buffer EXCEPT ![head] = c]
  /\ UNCHANGED <<sems, head, tail, alive, fifos, question, answer, sigint,
                 consumerVars, threadVars, slot, daemon>>

(* Mutant of AdvanceHead: the index does not wrap. *)
AdvanceHeadUnwrapped(c) ==
  /\ Goto(c, "head", "V_mutex")
  /\ head' = head + 1
  /\ UNCHANGED <<sems, tail, buffer, alive, fifos, question, answer, sigint,
                 consumerVars, threadVars, slot, daemon>>

(* add_element(): head = (head + 1) % buffer_size. *)
AdvanceHead(c) ==
  /\ Goto(c, "head", "V_mutex")
  /\ head' = (head + 1) % N
  /\ UNCHANGED <<sems, tail, buffer, alive, fifos, question, answer, sigint,
                 consumerVars, threadVars, slot, daemon>>

VMutex(c) ==
  /\ Goto(c, "V_mutex", "V_full")
  /\ V(mutex)
  /\ UNCHANGED <<empty, full, ring, alive, fifos, question, answer, sigint,
                 consumerVars, threadVars, slot, daemon>>

(* Mutant of VFull: the daemon is not told of the new pid. *)
VFullForgotten(c) ==
  /\ Goto(c, "V_full", "open_question")
  /\ UNCHANGED <<sems, ring, alive, fifos, question, answer, sigint,
                 consumerVars, threadVars, slot, daemon>>

VFull(c) ==
  /\ Goto(c, "V_full", "open_question")
  /\ V(full)
  /\ UNCHANGED <<mutex, empty, ring, alive, fifos, question, answer, sigint,
                 consumerVars, threadVars, slot, daemon>>

(* open(pipe_question, O_WRONLY) returns once a thread has opened the      *)
(* other end, or is blocked in its own open of it.                         *)
OpenQuestion(c) ==
  /\ Goto(c, "open_question", "open_answer")
  /\ daemon = "up"
  /\ \/ Readers(c) # {}
     \/ \E t \in Thread : tpid[t] = c /\ tpc[t] = "wait_question"
  /\ UNCHANGED <<sems, ring, alive, fifos, question, answer, sigint,
                 consumerVars, threadVars, slot, daemon>>

(* open(pipe_answer, O_RDONLY), likewise. *)
OpenAnswer(c) ==
  /\ Goto(c, "open_answer", "session")
  /\ \E t \in Readers(c) : tpc[t] # "open_answer"
  /\ UNCHANGED <<sems, ring, alive, fifos, question, answer, sigint,
                 consumerVars, threadVars, slot, daemon>>

(* The user types a command; what comes back is awaited.  A write without  *)
(* a reader raises SIGPIPE, here and in SendQuit: that is Leave.           *)
SendCommand(c) ==
  /\ Goto(c, "session", "waiting")
  /\ Readers(c) # {}
  /\ question' = Written(c, "command")
  /\ UNCHANGED <<sems, ring, alive, fifos, answer, sigint, consumerVars,
                 threadVars, slot, daemon>>

(* Something is read from the answer pipe, or its end.                     *)
Receive(c) ==
  /\ Goto(c, "waiting", "session")
  /\ c \in answer \/ Readers(c) = {}
  /\ answer' = answer \ {c}
  /\ UNCHANGED <<sems, ring, alive, fifos, question, sigint, consumerVars,
                 threadVars, slot, daemon>>

(* select() runs out of time: the command still runs, or gave no output.   *)
(* (The limit is at least ten seconds: a thread that only has to read what *)
(* is in its pipe or to write what it has is assumed to be faster.)        *)
ClientTimeout(c) ==
  /\ "client_timeout" \in Faults
  /\ Goto(c, "waiting", "quitting")
  /\ c \notin answer
  /\ \E t \in Readers(c) :
       tpc[t] = "work" \/ (tpc[t] = "serve" /\ question[c] = "nothing")
  /\ question' = Written(c, "quit")
  /\ UNCHANGED <<sems, ring, alive, fifos, answer, sigint, consumerVars,
                 threadVars, slot, daemon>>

(* The user types quit; kill(getpid(), SIGINT) follows.                    *)
SendQuit(c) ==
  /\ Goto(c, "session", "quitting")
  /\ Readers(c) # {}
  /\ question' = Written(c, "quit")
  /\ UNCHANGED <<sems, ring, alive, fifos, answer, sigint, consumerVars,
                 threadVars, slot, daemon>>

(* Once both pipes are open, a signal of the client itself, of the daemon, *)
(* of the user or, after the thread has left, SIGPIPE.                     *)
Signalled(c) ==
  \/ pc[c] = "quitting"
  \/ c \in sigint \/ "interrupt" \in Faults
  \/ pc[c] = "session" /\ Readers(c) = {}

(* handler() and close_on_signal(): "quit" goes to the question pipe, the  *)
(* pipes are closed and unlinked.                                          *)
Leave(c) ==
  /\ c \in alive
  /\ pc[c] \in {"session", "waiting", "quitting"} /\ Signalled(c)
  /\ pc' = [pc EXCEPT ![c] = "ended"]
  /\ fifos' = fifos \ {c}
  /\ sigint' = sigint \ {c}
  /\ question' = Written(c, "quit")
  /\ UNCHANGED <<sems, ring, alive, answer, consumerVars, threadVars, slot,
                 daemon>>

(* The standard input ends: communicate_pipe() returns and dispose_all()   *)
(* removes the pipes.  No "quit" is written.                               *)
EndOfInput(c) ==
  /\ "eof" \in Faults
  /\ Goto(c, "session", "ended")
  /\ fifos' = fifos \ {c}
  /\ sigint' = sigint \ {c}
  /\ UNCHANGED <<sems, ring, alive, question, answer, consumerVars, threadVars,
                 slot, daemon>>

(* The same handler before the pipes are open: fdquestion is still 0, the  *)
(* semaphores keep whatever the client took from them.                     *)
Interrupt(c) ==
  /\ c \in alive
  /\ pc[c] \notin {"start", "session", "waiting", "quitting", "ended"}
  /\ c \in sigint \/ "interrupt" \in Faults
  /\ alive' = alive \ {c}
  /\ fifos' = fifos \ {c}
  /\ sigint' = sigint \ {c}
  /\ question' = IF pc[c] = "open_answer" THEN Written(c, "quit") ELSE question
  /\ UNCHANGED <<sems, ring, pc, answer, consumerVars, threadVars, slot, daemon>>

(* SIGKILL, or a crash: no handler runs and the named pipes stay. *)
Kill(c) ==
  /\ "kill" \in Faults
  /\ c \in alive
  /\ pc[c] \notin {"start", "ended"}
  /\ alive' = alive \ {c}
  /\ sigint' = sigint \ {c}
  /\ UNCHANGED <<sems, ring, pc, fifos, question, answer, consumerVars,
                 threadVars, slot, daemon>>

(* The user starts another client.  It is given the identity of one that   *)
(* left only when the daemon holds no trace of that one any more.          *)
Restart(c) ==
  /\ c \in Restarting
  /\ Goto(c, "ended", "start")
  /\ \A t \in Thread : tpid[t] # c /\ old[t] # c /\ tpc[t] # "read_pid"
  /\ \A i \in Place : slot[i] # c
  /\ pid # c
  /\ UNCHANGED <<sems, ring, alive, fifos, question, answer, sigint,
                 consumerVars, threadVars, slot, daemon>>

(***************************************************************************)
(* The main thread of the daemon: consumer().                              *)
(***************************************************************************)
ConsumerGoto(from, to) ==
  /\ daemon = "up"
  /\ cpc = from
  /\ cpc' = to

ConsumerPFull ==
  /\ ConsumerGoto("P_full", "P_mutex")
  /\ P(full)
  /\ UNCHANGED <<mutex, empty, ring, clientVars, pid, ci, threadVars, slot, daemon>>

ConsumerPMutex ==
  /\ ConsumerGoto("P_mutex", "load")
  /\ P(mutex)
  /\ UNCHANGED <<empty, full, ring, clientVars, pid, ci, threadVars, slot, daemon>>

(* Mutant of Load: the newest pid is taken first. *)
LoadNewest ==
  /\ ConsumerGoto("load", "tail")
  /\ pid' = buffer[(head + N - 1) % N]
  /\ UNCHANGED <<sems, ring, clientVars, ci, threadVars, slot, daemon>>

(* remove_element(): pid = buffer[tail]. *)
Load ==
  /\ ConsumerGoto("load", "tail")
  /\ pid' = buffer[tail]
  /\ UNCHANGED <<sems, ring, clientVars, ci, threadVars, slot, daemon>>

(* remove_element(): tail = (tail + 1) % buffer_size. *)
AdvanceTail ==
  /\ ConsumerGoto("tail", "scan")
  /\ tail' = (tail + 1) % N
  /\ ci' = 0
  /\ UNCHANGED <<sems, head, buffer, clientVars, pid, threadVars, slot, daemon>>

(* The search for a free place; none means exit(EXIT_FAILURE). *)
ConsumerScan ==
  /\ daemon = "up"
  /\ cpc = "scan"
  /\ \/ /\ ci < N
        /\ slot[ci] = NoPid
        /\ cpc' = "create"
        /\ UNCHANGED <<ci, daemon>>
     \/ /\ ci < N
        /\ slot[ci] # NoPid
        /\ ci' = ci + 1
        /\ UNCHANGED <<cpc, daemon>>
     \/ /\ ci = N
        /\ DaemonExit
        /\ UNCHANGED <<cpc, ci>>
  /\ UNCHANGED <<sems, ring, clientVars, pid, threadVars, slot>>

(* Mutant of Create: pthread_create() fails and nobody looks at its result. *)
CreateUnchecked(t) ==
  /\ ConsumerGoto("create", "V_mutex")
  /\ tpc[t] = "none"
  /\ UNCHANGED <<sems, ring, clientVars, pid, ci, threadVars, slot, daemon>>

(* pthread_create(&th, &attr, run, &pid): the thread gets the address of   *)
(* the variable pid, not its value.                                        *)
Create(t) ==
  /\ ConsumerGoto("create", "V_mutex")
  /\ tpc[t] = "none"
  /\ tpc' = [tpc EXCEPT ![t] = "read_pid"]
  /\ UNCHANGED <<sems, ring, clientVars, pid, ci, tpid, ti, old, slot, daemon>>

(* Mutant of ConsumerVMutex: V(empty) follows, as in the textbook form of  *)
(* the algorithm, and the place is not kept for the service.               *)
ConsumerVMutexEmpty ==
  /\ ConsumerGoto("V_mutex", "P_full")
  /\ V(mutex) /\ V(empty)
  /\ UNCHANGED <<full, ring, clientVars, pid, ci, threadVars, slot, daemon>>

ConsumerVMutex ==
  /\ ConsumerGoto("V_mutex", "P_full")
  /\ V(mutex)
  /\ UNCHANGED <<empty, full, ring, clientVars, pid, ci, threadVars, slot, daemon>>

(***************************************************************************)
(* The threads: run().                                                     *)
(***************************************************************************)
ThreadGoto(t, from, to) ==
  /\ daemon = "up"
  /\ tpc[t] = from
  /\ tpc' = [tpc EXCEPT ![t] = to]

(* data_t pid = *((data_t * ) arg): whatever consumer() holds by now. *)
ReadPid(t) ==
  /\ ThreadGoto(t, "read_pid", "open_question")
  /\ tpid' = [tpid EXCEPT ![t] = pid]
  /\ ti' = [ti EXCEPT ![t] = 0]
  /\ UNCHANGED <<sems, ring, clientVars, consumerVars, old, slot, daemon>>

(* open() of one of the two pipes by thread t.  It fails when the client   *)
(* has unlinked the pipe, and the thread then exits for the whole daemon;  *)
(* it never returns when the client died and left the pipe behind.         *)
BeginOpen(t, from, waiting) ==
  /\ daemon = "up"
  /\ tpc[t] = from
  /\ \/ /\ tpid[t] \notin fifos
        /\ DaemonExit
        /\ UNCHANGED tpc
     \/ /\ tpid[t] \in fifos
        /\ tpc' = [tpc EXCEPT ![t] = IF Gone(tpid[t]) THEN "blocked" ELSE waiting]
        /\ UNCHANGED daemon
  /\ UNCHANGED <<sems, ring, clientVars, consumerVars, tpid, ti, old, slot>>

(* open(pipe_question, O_RDONLY), called. *)
CallOpenQuestion(t) == BeginOpen(t, "open_question", "wait_question")

(* ... and returned: the client has called its own open meanwhile. *)
ReturnOpenQuestion(t) ==
  /\ ThreadGoto(t, "wait_question", "open_answer")
  /\ pc[tpid[t]] \in {"open_question", "open_answer", "session", "waiting",
                     "quitting", "ended"}
  /\ UNCHANGED <<sems, ring, clientVars, consumerVars, tpid, ti, old, slot, daemon>>

(* open(pipe_answer, O_WRONLY), called. *)
CallOpenAnswer(t) == BeginOpen(t, "open_answer", "wait_answer")

(* ... and returned. *)
ReturnOpenAnswer(t) ==
  /\ ThreadGoto(t, "wait_answer", "scan")
  /\ pc[tpid[t]] \in {"open_answer", "session", "waiting", "quitting", "ended"}
  /\ UNCHANGED <<sems, ring, clientVars, consumerVars, tpid, ti, old, slot, daemon>>

(* The search for a free place reads one entry at a time, without a lock. *)
ThreadScan(t) ==
  /\ daemon = "up"
  /\ tpc[t] = "scan"
  /\ \/ /\ ti[t] < N
        /\ slot[ti[t]] = NoPid
        /\ tpc' = [tpc EXCEPT ![t] = "take"]
        /\ UNCHANGED ti
     \/ /\ ti[t] < N
        /\ slot[ti[t]] # NoPid
        /\ ti' = [ti EXCEPT ![t] = @ + 1]
        /\ UNCHANGED tpc
     \/ /\ ti[t] = N
        /\ tpc' = [tpc EXCEPT ![t] = "first"]
        /\ UNCHANGED ti
  /\ UNCHANGED <<sems, ring, clientVars, consumerVars, tpid, old, slot, daemon>>

(* Mutant of Take: the entry is chosen but not written. *)
TakeForgotten(t) ==
  /\ ThreadGoto(t, "take", "first")
  /\ UNCHANGED <<sems, ring, clientVars, consumerVars, tpid, ti, old, slot, daemon>>

(* pthread_alloc[i].id = pid. *)
Take(t) ==
  /\ ThreadGoto(t, "take", "first")
  /\ slot' = [slot EXCEPT ![ti[t]] = tpid[t]]
  /\ UNCHANGED <<sems, ring, clientVars, consumerVars, tpid, ti, old, daemon>>

(* pthread_alloc[i].id = -1.  With i = buffer_size the write falls outside *)
(* the table: it hits no entry, and may bring the process down.            *)
FreeSlot(t) ==
  IF ti[t] < N
  THEN slot' = [slot EXCEPT ![ti[t]] = NoPid] /\ UNCHANGED daemon
  ELSE UNCHANGED slot /\ (DaemonExit \/ UNCHANGED daemon)

(* Mutant of ReadQuit: the entry is not given back. *)
ReadQuitKeepsPlace(t) ==
  /\ \E here \in {"first", "serve"} : ThreadGoto(t, here, "V_empty")
  /\ question[tpid[t]] = "quit"
  /\ question' = [question EXCEPT ![tpid[t]] = "nothing"]
  /\ UNCHANGED <<sems, ring, pc, alive, fifos, answer, sigint, consumerVars, tpid,
                 ti, old, slot, daemon>>

(* read() returns all that is unread, and it begins with "quit".           *)
ReadQuit(t) ==
  /\ \E here \in {"first", "serve"} : ThreadGoto(t, here, "V_empty")
  /\ question[tpid[t]] = "quit"
  /\ question' = [question EXCEPT ![tpid[t]] = "nothing"]
  /\ FreeSlot(t)
  /\ UNCHANGED <<sems, ring, pc, alive, fifos, answer, sigint, consumerVars, tpid,
                 ti, old>>

(* It begins with a command: a "quit" that follows it is lost.             *)
ReadCommand(t) ==
  /\ \E here \in {"first", "serve"} : ThreadGoto(t, here, "work")
  /\ question[tpid[t]] = "command"
  /\ question' = [question EXCEPT ![tpid[t]] = "nothing"]
  /\ UNCHANGED <<sems, ring, pc, alive, fifos, answer, sigint, consumerVars, tpid,
                 ti, old, slot, daemon>>

(* The command has ended, with an output to send or without.               *)
Process(t) ==
  /\ \E to \in {"reply", "serve"} : ThreadGoto(t, "work", to)
  /\ UNCHANGED <<sems, ring, clientVars, consumerVars, tpid, ti, old, slot, daemon>>

(* SIGPIPE: the handler sends SIGINT to the clients of the table, disposes *)
(* of everything and exits.                                                *)
SigPipe ==
  /\ DaemonExit
  /\ sigint' = sigint \cup ({slot[i] : i \in Place} \cap Running)

(* write() to the answer pipe.                                             *)
WriteAnswer(t, from, to) ==
  /\ daemon = "up" /\ tpc[t] = from
  /\ \/ Gone(tpid[t]) /\ SigPipe /\ UNCHANGED <<tpc, answer>>
     \/ /\ ~Gone(tpid[t])
        /\ tpc' = [tpc EXCEPT ![t] = to]
        /\ answer' = answer \cup {tpid[t]}
        /\ UNCHANGED <<daemon, sigint>>
  /\ UNCHANGED <<sems, ring, pc, alive, fifos, question, consumerVars, tpid, ti,
                 old, slot>>

Reply(t) == WriteAnswer(t, "reply", "serve")

(* select() ran out of time with nothing to read.  The client's own open   *)
(* has returned by then, as MIN_TIMEOUT is ten seconds.                    *)
Expired(t) ==
  /\ "daemon_timeout" \in Faults
  /\ question[tpid[t]] = "nothing"
  /\ ~Gone(tpid[t]) /\ pc[tpid[t]] # "open_answer"

(* Mutant of FirstTimeout: select() waits without a limit. *)
FirstTimeoutNever(t) == t \notin Thread

(* Before the first request: the entry is freed, ...                       *)
FirstTimeout(t) ==
  /\ ThreadGoto(t, "first", "notify")
  /\ Expired(t)
  /\ FreeSlot(t)
  /\ UNCHANGED <<sems, ring, clientVars, consumerVars, tpid, ti, old>>

(* ... and the client is told.                                             *)
Notify(t) == WriteAnswer(t, "notify", "V_empty")

(* After a request: pid_old is read back from the entry, or from outside   *)
(* the table; the entry is freed, ...                                      *)
LaterTimeout(t) ==
  /\ ThreadGoto(t, "serve", "signal")
  /\ Expired(t)
  /\ \E p \in Pid :
       /\ ti[t] < N => p = slot[ti[t]]
       /\ old' = [old EXCEPT ![t] = p]
  /\ FreeSlot(t)
  /\ UNCHANGED <<sems, ring, clientVars, consumerVars, tpid, ti>>

(* ... and kill(pid_old, SIGINT) reaches that client, or every one if it   *)
(* is -1.  Of a client that has left there may be a zombie, which takes    *)
(* the signal; if not, "quit" is written to its answer pipe.               *)
Signal(t) ==
  /\ daemon = "up" /\ tpc[t] = "signal"
  /\ \/ /\ tpc' = [tpc EXCEPT ![t] = "V_empty"]
        /\ old' = [old EXCEPT ![t] = NoPid]
        /\ sigint' = sigint \cup {c \in Running : old[t] \in {c, NoPid}}
        /\ UNCHANGED daemon
     \/ /\ old[t] # NoPid /\ Gone(old[t])
        /\ SigPipe
        /\ UNCHANGED <<tpc, old>>
  /\ UNCHANGED <<sems, ring, pc, alive, fifos, question, answer, consumerVars, tpid,
                 ti, slot>>

(* read() returns 0: the client has closed the question pipe and there is  *)
(* nothing left to read.  The place in the table is not given back.        *)
ServeEof(t) ==
  /\ \E here \in {"first", "serve"} : ThreadGoto(t, here, "V_empty")
  /\ question[tpid[t]] = "nothing"
  /\ Gone(tpid[t])
  /\ UNCHANGED <<sems, ring, clientVars, consumerVars, tpid, ti, old, slot, daemon>>

(* Mutant of VEmpty: the thread ends without V(empty). *)
VEmptyForgotten(t) ==
  /\ ThreadGoto(t, "V_empty", "none")
  /\ tpid' = [tpid EXCEPT ![t] = NoPid]
  /\ ti' = [ti EXCEPT ![t] = 0]
  /\ UNCHANGED <<sems, ring, clientVars, consumerVars, old, slot, daemon>>

(* Both pipes are closed and V(empty) lets another client in. *)
VEmpty(t) ==
  /\ ThreadGoto(t, "V_empty", "none")
  /\ V(empty)
  /\ tpid' = [tpid EXCEPT ![t] = NoPid]
  /\ ti' = [ti EXCEPT ![t] = 0]
  /\ UNCHANGED <<mutex, full, ring, clientVars, consumerVars, old, slot, daemon>>

-----------------------------------------------------------------------------
ClientNext(c) ==
  \/ Launch(c) \/ PEmpty(c) \/ PMutex(c) \/ Store(c) \/ AdvanceHead(c)
  \/ VMutex(c) \/ VFull(c) \/ OpenQuestion(c) \/ OpenAnswer(c)
  \/ SendCommand(c) \/ Receive(c) \/ ClientTimeout(c) \/ SendQuit(c)
  \/ Leave(c) \/ EndOfInput(c) \/ Interrupt(c) \/ Kill(c) \/ Restart(c)

ConsumerNext ==
  \/ ConsumerPFull \/ ConsumerPMutex \/ Load \/ AdvanceTail \/ ConsumerScan
  \/ (\E t \in Thread : Create(t))
  \/ ConsumerVMutex

ThreadNext(t) ==
  \/ ReadPid(t) \/ CallOpenQuestion(t) \/ ReturnOpenQuestion(t)
  \/ CallOpenAnswer(t) \/ ReturnOpenAnswer(t) \/ ThreadScan(t) \/ Take(t)
  \/ ReadQuit(t) \/ ReadCommand(t) \/ Process(t) \/ Reply(t)
  \/ FirstTimeout(t) \/ Notify(t) \/ LaterTimeout(t) \/ Signal(t)
  \/ ServeEof(t) \/ VEmpty(t)

Next ==
  \/ \E c \in Client : ClientNext(c)
  \/ ConsumerNext
  \/ \E t \in Thread : ThreadNext(t)

Spec == Init /\ [][Next]_vars

(***************************************************************************)
(* Fairness: processes and threads that can run do run, once started, and  *)
(* commands end.  The user need not start, leave or restart anything and   *)
(* faults need not happen, but nobody types for ever: who always could     *)
(* pause for timeout_daemon between two commands does so once.             *)
(***************************************************************************)
ClientStep(c) ==
  \/ PEmpty(c) \/ PMutex(c) \/ Store(c) \/ AdvanceHead(c) \/ VMutex(c)
  \/ VFull(c) \/ OpenQuestion(c) \/ OpenAnswer(c) \/ Receive(c)

Fairness ==
  /\ \A c \in Client : WF_vars(ClientStep(c))
  /\ WF_vars(ConsumerNext)
  /\ \A t \in Thread : WF_vars(ThreadNext(t)) /\ SF_vars(LaterTimeout(t))

FairSpec == Spec /\ Fairness

-----------------------------------------------------------------------------
(***************************************************************************)
(* Places.  A client that has passed P(empty) occupies one of the N        *)
(* places; the place moves on with its pid, from the client to the ring,   *)
(* to the consumer, and to a thread, whose V(empty) gives it back.         *)
(***************************************************************************)
Joining == {c \in Client : pc[c] \in {"P_mutex", "store", "head"}}
Queued == {c \in Client : pc[c] \in {"V_mutex", "V_full"}}
Busy == {t \in Thread : tpc[t] # "none"}

(* The consumer has passed P(full) and not yet read the oldest entry. *)
Taking == IF cpc \in {"P_mutex", "load"} THEN 1 ELSE 0

(* It has read the pid and not yet created the thread. *)
InHand == IF cpc \in {"tail", "scan", "create"} THEN 1 ELSE 0

QueueLength == full + Cardinality(Queued) + Taking
Served == Cardinality(Busy) + InHand

(* The place of the ring that holds the oldest unread pid. *)
Oldest == IF cpc = "tail" THEN (tail + 1) % N ELSE tail

Queue == [k \in 1 .. QueueLength |-> buffer[(Oldest + k - 1) % N]]

BQ == INSTANCE BoundedQueue WITH
        Capacity <- N, queue <- Queue, taken <- pid, busy <- Served

-----------------------------------------------------------------------------
(***************************************************************************)
(* Properties.                                                             *)
(***************************************************************************)
InSection(c) == pc[c] \in {"store", "head", "V_mutex"}
ConsumerInSection == cpc \in {"load", "tail", "scan", "create", "V_mutex"}

(* The semaphore mutex keeps the accesses to the ring apart, whoever dies  *)
(* and wherever: add_element() and remove_element() are read-modify-write  *)
(* sequences on head and tail (shm.c).                                     *)
MutualExclusion ==
  /\ mutex \in {0, 1}
  /\ mutex = 1 => ~ConsumerInSection /\ \A c \in Client : ~InSection(c)
  /\ ConsumerInSection => \A c \in Client : ~InSection(c)
  /\ \A c, d \in Client : InSection(c) /\ InSection(d) => c = d

(* No place is created or destroyed: the value of empty and the places     *)
(* occupied, those of killed clients included, always add up to N, though  *)
(* P(empty) is in one process and V(empty) in another.                     *)
PlacesConserved ==
  empty + Cardinality(Joining) + QueueLength + Served = N

(* The ring is a queue of the right length: head lies QueueLength places   *)
(* after the oldest unread entry, and the client about to store its pid    *)
(* does not overwrite an unread one (shm.c has no test for a full ring).   *)
NoOverrun ==
  /\ head = (Oldest + QueueLength) % N
  /\ \A c \in Client : pc[c] = "store" => QueueLength < N
  /\ \A c \in Client : pc[c] = "head" => buffer[head] = c

(* The semaphores, the ring and the indices implement the bounded queue.   *)
ImplementsQueue == BQ!Spec

(* Although threads read pid through a pointer, the pid taken last is      *)
(* never lost: its thread has it, or a thread is still going to read it.   *)
LatestNotLost ==
  \A c \in Client :
    /\ daemon = "up"
    /\ pid = c /\ c \in alive
    /\ cpc \notin {"tail", "scan", "create"}
    /\ pc[c] \in {"V_full", "open_question", "open_answer"}
    => \E t \in Thread : tpc[t] = "read_pid" \/ tpid[t] = c

(* With one place, a client is served by one thread at a time: the late    *)
(* V(empty) keeps consumer() away from pid until the thread has read it.   *)
OneThreadPerClient ==
  \A t, u \in Thread : tpid[t] = tpid[u] /\ tpid[t] # NoPid => t = u

(* While it serves, a thread finds its client in its entry: that entry is  *)
(* what a timeout reads back to decide whom to signal.                     *)
PlaceOwned ==
  \A t \in Thread :
    tpc[t] \in {"first", "serve", "work", "reply"} =>
      ti[t] < N /\ slot[ti[t]] = tpid[t]

(* When a pid has been taken from the ring there is a free entry for it:   *)
(* with one place, timeouts on both sides and users that quit, no service  *)
(* ends without giving its entry back.  (A signal to a client whose        *)
(* command is unread loses its "quit" and the entry, as the end of its     *)
(* input does.)                                                            *)
FreePlaceForTaken ==
  cpc = "scan" => \E i \in Place : i >= ci /\ slot[i] = NoPid

(* In the same setting the daemon ends for one reason only: a thread had   *)
(* an answer, a notice or a "quit" to write to a client that had left in   *)
(* the meantime.  Neither consumer() nor the opening of a pipe exits.      *)
EndsByLateWrite ==
  daemon = "exited" =>
    \E t \in Thread : tpc[t] \in {"reply", "notify", "signal"} /\ Gone(tpid[t])

(* When no place is left, one becomes free again unless the daemon ends:   *)
(* P(empty) in one process is undone by V(empty) in another, at the end of *)
(* a whole service.                                                        *)
PlacesComeBack == empty = 0 ~> empty > 0 \/ daemon = "exited"

(* A client that waits for a place ends up connected to its thread, unless *)
(* the daemon ends.  (This is so where the others cannot overtake it again *)
(* and again, as two clients that start anew cannot: a semaphore promises  *)
(* no order among those who wait.)                                         *)
EveryoneConnected ==
  \A c \in Client :
    pc[c] = "P_empty" ~> pc[c] \in {"session", "ended"} \/ daemon = "exited"
=============================================================================
