------------------------------- MODULE Subshell -------------------------------
(***************************************************************************)
(* How the threads of the daemon run commands: daemon.c run() from a       *)
(* request to the end of its answer, do_subshell(), and the SIGCHLD case   *)
(* of handler().  The handlers are installed without SA_RESTART, so that a *)
(* blocking call returns with EINTR when its thread takes a signal.        *)
(*                                                                         *)
(* The dialogue with the client is in module Session: here a thread opens  *)
(* its pipes, waits for a request and is back there when it has answered.  *)
(* A pid is used again when the daemon holds no trace of it.               *)
(***************************************************************************)
EXTENDS Naturals

CONSTANTS
  Threads,      \* the threads that serve clients
  Main,         \* the thread of main(), which sits in consumer()
  Pids,         \* bound: the pids of child processes
  None,         \* no thread, no process
  Zombie,       \* a process that has ended and has not been waited for
  MaxRequests,  \* bound: how many requests there are
  Events        \* the members of EventKind considered

EventKind == {"endless",  \* commands that never end
              "stop"}     \* a command is stopped or continued (bound: once)

ASSUME SubshellAssumption ==
  /\ Main \notin Threads /\ None \notin Threads \cup {Main} \cup Pids
  /\ MaxRequests \in Nat
  /\ Events \subseteq EventKind

VARIABLES
  requests,  \* the number of requests so far
  tpc,       \* where each thread is, main() included
  cpid,      \* its variable pid of do_subshell(), unless waitpid() returned it
  printed,   \* its pipe holds something that nobody has read
  kid,       \* the child process behind each pid
  pending,   \* SIGCHLD is pending
  takers,    \* the threads that are to take it
  handling,  \* the threads inside the handler of SIGCHLD
  daemon,    \* "up" or "down"
  names,     \* the daemon's named objects, removed by dispose_all()
  lost,      \* a thread has ended and left its entry of pthread_alloc taken
  stopped    \* history: a command has been stopped or continued

signalVars == <<pending, takers, handling>>
harmVars == <<daemon, names, lost, stopped>>
vars == <<requests, tpc, cpid, printed, kid, signalVars, harmVars>>

Actors == Threads \cup {Main}

ThreadPC ==
  {"none", "open",       \* the entry is free; open() of the client's pipes
   "first", "select",    \* the first select(), those after a request
   "request",            \* in read() of a request, without select()
   "fork", "wait", "close", "read",
   "ended"}              \* out of its loop, and its entry is still taken
MainPC == {"consume", "create"}      \* in P(full); in pthread_create()

CommandKind == {"prints", "silent", "report", "endless"}

Child ==
  [kind : CommandKind,         \* what it still does; "report": info_...
   parent : Actors,            \* who is sent its SIGCHLD
   out : Threads \cup {None},  \* into whose pipe it prints; None: it is closed
   reads : BOOLEAN,            \* it has the read end of that pipe
   writes : SUBSET Threads]    \* the pipes whose write end it has

ASSUME ProcessAssumption ==
  Zombie # None /\ {Zombie, None} \cap Child = {}

TypeOK ==
  /\ requests \in 0 .. MaxRequests
  /\ tpc \in [Actors -> ThreadPC \cup MainPC]
  /\ \A a \in Actors : tpc[a] \in MainPC <=> a = Main
  /\ cpid \in [Threads -> Pids \cup {None}]
  /\ printed \in [Threads -> BOOLEAN]
  /\ kid \in [Pids -> Child \cup {None, Zombie}]
  /\ pending \in BOOLEAN
  /\ takers \subseteq Actors /\ handling \subseteq Actors
  /\ daemon \in {"up", "down"} /\ names \in {"kept", "removed"}
  /\ lost \in BOOLEAN /\ stopped \in BOOLEAN

Init ==
  /\ requests = 0
  /\ tpc = [a \in Actors |-> IF a = Main THEN "consume" ELSE "none"]
  /\ cpid = [t \in Threads |-> None]
  /\ printed = [t \in Threads |-> FALSE]
  /\ kid = [p \in Pids |-> None]
  /\ pending = FALSE /\ takers = {} /\ handling = {}
  /\ daemon = "up" /\ names = "kept" /\ lost = FALSE /\ stopped = FALSE

Alive(p) == kid[p] \notin {None, Zombie}
OwnChildAlive(t) == cpid[t] # None /\ Alive(cpid[t])

(* A thread that is to take a signal does so before it starts a call.      *)
Runs(a) == daemon = "up" /\ a \notin handling /\ a \notin takers

(***************************************************************************)
(* SIGCHLD goes to the thread that forked, if it can take it, and else to  *)
(* any other one.  It is blocked inside its handler, and while it is       *)
(* pending another one is dropped.                                         *)
(***************************************************************************)
Present == {a \in Actors : tpc[a] # "none"}

Woken(a) ==
  IF a \notin handling THEN {{a}}
  ELSE IF Present \subseteq handling THEN {{}}
  ELSE {{b} : b \in Present \ handling}

SendChld(a) ==
  \/ pending /\ UNCHANGED signalVars
  \/ /\ ~pending
     /\ pending' = TRUE
     /\ takers' \in Woken(a)
     /\ UNCHANGED handling

(* Whoever unblocks it may take it too. *)
Unblocked(a) == IF pending THEN takers \cup {a} ELSE takers

-----------------------------------------------------------------------------
(***************************************************************************)
(* The threads.                                                            *)
(***************************************************************************)
(* consumer() has a pid ...                                                *)
Accept ==
  /\ Runs(Main) /\ tpc[Main] = "consume"
  /\ \E t \in Threads : tpc[t] = "none"
  /\ tpc' = [tpc EXCEPT ![Main] = "create"]
  /\ UNCHANGED <<requests, cpid, printed, kid, signalVars, harmVars>>

(* ... and creates a thread, which opens the pipes of the client.          *)
Start(t) ==
  /\ Runs(Main) /\ tpc[Main] = "create" /\ ~pending
  /\ tpc[t] = "none"
  /\ tpc' = [tpc EXCEPT ![Main] = "consume", ![t] = "open"]
  /\ UNCHANGED <<requests, cpid, printed, kid, signalVars, harmVars>>

(* The client is there. *)
Open(t) ==
  /\ Runs(t) /\ tpc[t] = "open"
  /\ tpc' = [tpc EXCEPT ![t] = "first"]
  /\ UNCHANGED <<requests, cpid, printed, kid, signalVars, harmVars>>

(* While a signal is pending, fork() and pthread_create() start over: the  *)
(* thread takes the signal first.                                          *)
StartOver(a) ==
  /\ Runs(a) /\ tpc[a] \in {"fork", "create"} /\ pending
  /\ takers' = takers \cup {a}
  /\ UNCHANGED <<requests, tpc, cpid, printed, kid, pending, handling>>
  /\ UNCHANGED harmVars

(* A request has been read and pipe() opens both ends; a request of spaces *)
(* only has no command to run.                                             *)
Request(t) ==
  /\ Runs(t) /\ tpc[t] \in {"first", "select", "request"}
  /\ requests < MaxRequests /\ requests' = requests + 1
  /\ \E next \in {"fork", "close"} : tpc' = [tpc EXCEPT ![t] = next]
  /\ cpid' = [cpid EXCEPT ![t] = None]
  /\ UNCHANGED <<printed, kid, signalVars, harmVars>>

(* A child has every descriptor that is open when it is forked, the pipes  *)
(* of the other threads with it.  It closes pipe[0]; dup2() gives it the   *)
(* write end of its own pipe once more.                                    *)
OpenForWriting == {u \in Threads : tpc[u] \in {"fork", "wait", "close"}}

(* Mutant of NewChild: pipe[0] stays open in the child. *)
NewChildReading(t, kind) ==
  [kind |-> kind, parent |-> t, out |-> t,
   reads |-> TRUE, writes |-> OpenForWriting]

NewChild(t, kind) ==
  [kind |-> kind, parent |-> t, out |-> t,
   reads |-> FALSE, writes |-> OpenForWriting]

Fork(t) ==
  /\ Runs(t) /\ tpc[t] = "fork" /\ ~pending
  /\ \E p \in Pids, kind \in CommandKind \ ({"endless"} \ Events) :
       /\ kid[p] = None
       /\ \A u \in Threads : cpid[u] # p
       /\ kid' = [kid EXCEPT ![p] = NewChild(t, kind)]
       /\ cpid' = [cpid EXCEPT ![t] = p]
  /\ tpc' = [tpc EXCEPT ![t] = "wait"]
  /\ UNCHANGED <<requests, printed, signalVars, harmVars>>

(* Mutant of Wait: waitpid() with WNOHANG. *)
WaitNot(t) ==
  /\ Runs(t) /\ tpc[t] = "wait"
  /\ tpc' = [tpc EXCEPT ![t] = "close"]
  /\ UNCHANGED <<requests, cpid, printed, kid, signalVars, harmVars>>

(* waitpid() reaps the child; when a handler already has, it fails, and    *)
(* status keeps what was on the stack: that decides on a message only.     *)
Wait(t) ==
  /\ daemon = "up" /\ t \notin handling /\ tpc[t] = "wait"
  /\ ~Alive(cpid[t])
  /\ kid' = [kid EXCEPT ![cpid[t]] = None]
  /\ tpc' = [tpc EXCEPT ![t] = "close"]
  /\ cpid' = [cpid EXCEPT ![t] = None]
  /\ UNCHANGED <<requests, printed, signalVars, harmVars>>

(* close(pipefd[1]): what the thread reads next ends with the children.    *)
Close(t) ==
  /\ Runs(t) /\ tpc[t] = "close"
  /\ tpc' = [tpc EXCEPT ![t] = "read"]
  /\ UNCHANGED <<requests, cpid, printed, kid, signalVars, harmVars>>

Writers(t) == {p \in Pids : Alive(p) /\ t \in kid[p].writes}
Readable(t) == printed[t] \/ Writers(t) = {}

(* close(pipefd[0]): nobody has to do with this pipe any more. *)
Forget(t) ==
  [p \in Pids |->
     IF ~Alive(p) THEN kid[p]
     ELSE [kid[p] EXCEPT !.writes = @ \ {t},
                         !.out = IF @ = t THEN None ELSE @]]

(* Mutant of Read: one pipe serves for every request. *)
ReadKeepsPipe(t) ==
  /\ daemon = "up" /\ t \notin handling /\ tpc[t] = "read"
  /\ Readable(t)
  /\ tpc' = [tpc EXCEPT ![t] = "select"]
  /\ UNCHANGED <<requests, cpid, printed, kid, signalVars, harmVars>>

(* read() returns what there is, or nothing at the end of file; what it    *)
(* returned becomes the answer, and the pipe is closed.                    *)
Read(t) ==
  /\ daemon = "up" /\ t \notin handling /\ tpc[t] = "read"
  /\ Readable(t)
  /\ tpc' = [tpc EXCEPT ![t] = "select"]
  /\ printed' = [printed EXCEPT ![t] = FALSE]
  /\ kid' = Forget(t)
  /\ UNCHANGED <<requests, cpid, signalVars, harmVars>>

(* Mutant of Leave: the children are nobody's. *)
LeaveToNobody(t) ==
  /\ Runs(t) /\ tpc[t] \in {"first", "select", "request", "ended"}
  /\ tpc' = [tpc EXCEPT ![t] = "none"]
  /\ lost' = (lost \/ tpc[t] = "ended")
  /\ kid' = [p \in Pids |->
               IF Alive(p) /\ kid[p].parent = t
               THEN [kid[p] EXCEPT !.parent = None] ELSE kid[p]]
  /\ UNCHANGED <<requests, cpid, printed, signalVars, daemon, names, stopped>>

(* The client has left or is told to, or the thread is out of its loop:    *)
(* the thread ends.  A child it did not wait for passes to main().         *)
Leave(t) ==
  /\ Runs(t) /\ tpc[t] \in {"first", "select", "request", "ended"}
  /\ tpc' = [tpc EXCEPT ![t] = "none"]
  /\ lost' = (lost \/ tpc[t] = "ended")
  /\ kid' = [p \in Pids |->
               IF Alive(p) /\ kid[p].parent = t
               THEN [kid[p] EXCEPT !.parent = Main] ELSE kid[p]]
  /\ UNCHANGED <<requests, cpid, printed, signalVars, daemon, names, stopped>>

-----------------------------------------------------------------------------
(***************************************************************************)
(* The handler of SIGCHLD.  The call that its thread is blocked in fails   *)
(* with EINTR.  A thread that was not yet in the call is unharmed.         *)
(***************************************************************************)
(* The first select(): the thread ends.  A later one: the thread goes back *)
(* to read(), and when that fails, it ends.                                *)
Failed == [first |-> "ended", select |-> "request", request |-> "ended"]

(* waitpid() fails unless the child has ended, read() of the answer if the *)
(* pipe is empty: then there is no answer.                                 *)
TakeIn(a) ==
  \/ UNCHANGED <<tpc, printed, kid, daemon>>
  \/ /\ tpc[a] \in DOMAIN Failed
     /\ tpc' = [tpc EXCEPT ![a] = Failed[@]]
     /\ UNCHANGED <<printed, kid, daemon>>
  \/ /\ tpc[a] = "wait" /\ Alive(cpid[a])
     /\ tpc' = [tpc EXCEPT ![a] = "close"]
     /\ UNCHANGED <<printed, kid, daemon>>
  \/ /\ tpc[a] = "read" /\ ~Readable(a)
     /\ tpc' = [tpc EXCEPT ![a] = "select"]
     /\ kid' = Forget(a)
     /\ UNCHANGED <<printed, daemon>>

(* After open() or P(full) fails, exit() ends the daemon.                  *)
TakeInExit(a) ==
  /\ tpc[a] \in {"open", "consume"}
  /\ daemon' = "down"
  /\ UNCHANGED <<tpc, printed, kid>>

Take(a) ==
  /\ daemon = "up" /\ pending
  /\ a \in takers /\ a \notin handling
  /\ TakeIn(a) \/ TakeInExit(a)
  /\ handling' = handling \cup {a}
  /\ pending' = FALSE /\ takers' = {}
  /\ UNCHANGED <<requests, cpid, names, lost, stopped>>

(* waitpid(-1, NULL, WNOHANG) reaps one zombie, whoever's child it is ...  *)
Reap(a) ==
  /\ daemon = "up" /\ a \in handling
  /\ \E p \in Pids : kid[p] = Zombie /\ kid' = [kid EXCEPT ![p] = None]
  /\ UNCHANGED <<requests, tpc, cpid, printed, signalVars, harmVars>>

(* Mutant of Return: the loop is left out. *)
ReturnAtOnce(a) ==
  /\ daemon = "up" /\ a \in handling
  /\ handling' = handling \ {a}
  /\ takers' = Unblocked(a)
  /\ UNCHANGED <<requests, tpc, cpid, printed, kid, pending, harmVars>>

(* ... until there is none.                                                *)
Return(a) ==
  /\ daemon = "up" /\ a \in handling
  /\ \A p \in Pids : kid[p] # Zombie
  /\ handling' = handling \ {a}
  /\ takers' = Unblocked(a)
  /\ UNCHANGED <<requests, tpc, cpid, printed, kid, pending, harmVars>>

-----------------------------------------------------------------------------
(***************************************************************************)
(* The children.                                                           *)
(***************************************************************************)
WriteOutput(p) ==
  /\ Alive(p) /\ kid[p].kind = "prints" /\ kid[p].out # None
  /\ kid' = [kid EXCEPT ![p].kind = "silent"]
  /\ printed' = [printed EXCEPT ![kid[p].out] = TRUE]
  /\ UNCHANGED <<requests, tpc, cpid, signalVars, harmVars>>

Ended(p) ==
  /\ kid' = [kid EXCEPT ![p] = Zombie]
  /\ SendChld(kid[p].parent)
  /\ UNCHANGED <<requests, tpc, cpid, daemon, lost, stopped>>

End(p) ==
  /\ Alive(p) /\ kid[p].kind = "silent"
  /\ Ended(p)
  /\ UNCHANGED <<printed, names>>

(* info_proc() and info_user() leave the switch: the child goes on in      *)
(* run() at close(pipefd[1]).  read() and close() of pipefd[0] fail, and   *)
(* it prints an error and exits.                                           *)
GoBack(p) ==
  /\ Alive(p) /\ kid[p].kind = "report" /\ kid[p].out # None
  /\ ~kid[p].reads
  /\ printed' = [printed EXCEPT ![kid[p].out] = TRUE]
  /\ Ended(p)
  /\ UNCHANGED names

(* A write to a pipe that the thread has closed ends the child by SIGPIPE, *)
(* or is lost while another child holds the other end.  A report still has *)
(* the daemon's handler, which disposes of the daemon's names.             *)
PrintToNobody(p) ==
  /\ Alive(p) /\ kid[p].kind \in {"prints", "report"}
  /\ kid[p].out = None
  /\ Ended(p)
  /\ \/ UNCHANGED names
     \/ kid[p].kind = "report" /\ names' = "removed"
  /\ UNCHANGED printed

(* A command that is stopped, or continued, tells its parent as well; in   *)
(* between it only takes longer.                                           *)
StopOrContinue(p) ==
  /\ "stop" \in Events /\ ~stopped
  /\ Alive(p)
  /\ SendChld(kid[p].parent)
  /\ stopped' = TRUE
  /\ UNCHANGED <<requests, tpc, cpid, printed, kid, daemon, names, lost>>

-----------------------------------------------------------------------------
ThreadStep(t) ==
  Fork(t) \/ StartOver(t) \/ Wait(t) \/ Close(t) \/ Read(t)

ClientStep(t) == Start(t) \/ Open(t) \/ Request(t) \/ Leave(t)

HandlerStep(a) == Take(a) \/ Reap(a) \/ Return(a)

ChildStep(p) ==
  daemon = "up" /\ (WriteOutput(p) \/ End(p) \/ GoBack(p) \/ PrintToNobody(p))

Next ==
  \/ \E t \in Threads : ClientStep(t) \/ ThreadStep(t)
  \/ Accept \/ StartOver(Main)
  \/ \E a \in Actors : HandlerStep(a)
  \/ \E p \in Pids : ChildStep(p) \/ (daemon = "up" /\ StopOrContinue(p))

Spec == Init /\ [][Next]_vars

(* Threads, handlers and commands go on, but for endless commands; nobody  *)
(* must type, and a command that is stopped is continued.                  *)
Fairness ==
  /\ \A t \in Threads : WF_vars(ThreadStep(t))
  /\ \A a \in Actors : WF_vars(HandlerStep(a))
  /\ \A p \in Pids : WF_vars(ChildStep(p))

FairSpec == Spec /\ Fairness

-----------------------------------------------------------------------------
(***************************************************************************)
(* Properties.                                                             *)
(***************************************************************************)
(* A child that has ended is never forgotten: SIGCHLD is pending or a      *)
(* handler is in its loop, though the signals of several children become   *)
(* one, handlers of several threads reap each other's children, and a      *)
(* thread may have stopped waiting.                                        *)
ZombieWatched ==
  (\E p \in Pids : kid[p] = Zombie) /\ daemon = "up"
    => pending \/ handling # {}

(* A thread goes for the answer when its command has ended, as long as no  *)
(* command has been stopped or continued: whoever else's SIGCHLD it takes, *)
(* it takes it before fork() or after the end of its own command, and no   *)
(* waitpid() is interrupted.                                               *)
WaitsForChild ==
  ~stopped =>
    \A t \in Threads : tpc[t] \in {"close", "read"} => ~OwnChildAlive(t)

(* What a command prints after its thread went on is never taken for the   *)
(* answer to the next one: each request starts with a pipe of its own.     *)
FreshPipe ==
  \A t \in Threads :
    tpc[t] \notin {"wait", "close", "read"} =>
      ~printed[t] /\ \A p \in Pids : Alive(p) => kid[p].out # t

(* As long as no command has been stopped or continued, commands do no     *)
(* harm to the daemon, though SIGCHLD may reach any thread: no P(), open() *)
(* or select() is interrupted, no thread leaves its entry taken, and no    *)
(* child runs the daemon's handler of SIGPIPE.                             *)
DaemonUnharmed == ~stopped => daemon = "up" /\ names = "kept" /\ ~lost

Busy(t) == tpc[t] \in {"fork", "wait", "close", "read"}

(* When commands end, each request comes to an end, stopped commands       *)
(* included: no thread waits for a child that somebody else has reaped,    *)
(* none waits for ever on a pipe that the children of the others hold      *)
(* open, and no child waits for itself on its way back through run().      *)
ThreadReturns ==
  \A t \in Threads : Busy(t) ~> ~Busy(t) \/ daemon = "down"

(* The end of its own command is enough for a thread to get on.            *)
OwnCommandOnly ==
  \A t \in Threads :
    tpc[t] = "read" /\ ~OwnChildAlive(t)
      ~> tpc[t] # "read" \/ daemon = "down"
=============================================================================
