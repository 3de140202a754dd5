------------------------------ MODULE Lifecycle ------------------------------
(***************************************************************************)
(* The names that daemons and clients meet under: the guard semaphore that *)
(* lets a single daemon run, the shared segment and the semaphores mutex,  *)
(* empty and full.  daemon.c main() and dispose_all(); client.c main(),    *)
(* which tests for a daemon and then opens what is there.  One step        *)
(* creates, removes or opens one name.                                     *)
(*                                                                         *)
(* Several passes of dispose_all() may be under way for one daemon: each   *)
(* termination signal starts one, in whatever thread takes it, and a child *)
(* forked for info_proc or info_user keeps the handlers and may outlive    *)
(* its daemon.  What the passes do to the daemon's memory is in module     *)
(* Shutdown; here is what they do to the names.                            *)
(***************************************************************************)
EXTENDS Naturals, Sequences

CONSTANTS
  Daemon,    \* the daemon processes that may be started
  Client,    \* the client processes
  None,      \* a name that does not exist
  Handler,   \* bound: the passes of dispose_all() in one daemon
  Child,     \* the pass in a report child of it
  Repeated,  \* bound: the daemons that take more than one signal
  Reporting  \* bound: those of which a report child takes a signal

ASSUME LifecycleAssumption ==
  /\ None \notin Daemon
  /\ Child \notin Handler

VARIABLES
  guard,   \* VAR_ONE_RUNNING_DAEMON exists
  object,  \* which daemon created the object behind each name
  dpc,     \* where each daemon is
  dnext,   \* the next name it removes or creates
  pass,    \* the next name each pass of dispose_all() removes, 0: not begun
  cpc,     \* where each client is
  handle,  \* the daemon whose object each client has open under each name
  overrun  \* history: a pass other than the one that gave up the daemon's
           \* guard has removed the guard, or the segment after that

daemonVars == <<dpc, dnext, pass, overrun>>
clientVars == <<cpc, handle>>
vars == <<guard, object, daemonVars, clientVars>>

Names == <<"shm", "mutex", "empty", "full">>     \* in the order of main()

(* Mutant of Removals: the guard goes first. *)
GuardFirst == <<"guard", "shm", "mutex", "empty", "full">>

Removals == <<"shm", "guard", "mutex", "empty", "full">>  \* of dispose_all()
Name == {Names[i] : i \in DOMAIN Names}
Pass == Handler \cup {Child}

DaemonPC == {"start", "config", "remove", "create", "init", "running",
             "dispose", "stopped", "crashed"}
ClientPC == {"start", "created_guard", "open", "connected", "stopped",
             "crashed"}

TypeOK ==
  /\ guard \in BOOLEAN
  /\ object \in [Name -> Daemon \cup {None}]
  /\ dpc \in [Daemon -> DaemonPC]
  /\ dnext \in [Daemon -> 1 .. Len(Names)]
  /\ pass \in [Daemon -> [Pass -> 0 .. Len(Removals) + 1]]
  /\ cpc \in [Client -> ClientPC]
  /\ handle \in [Client -> [Name -> Daemon \cup {None}]]
  /\ overrun \in BOOLEAN

Init ==
  /\ guard = FALSE
  /\ object = [n \in Name |-> None]
  /\ dpc = [d \in Daemon |-> "start"]
  /\ dnext = [d \in Daemon |-> 1]
  /\ pass = [d \in Daemon |-> [h \in Pass |-> 0]]
  /\ cpc = [c \in Client |-> "start"]
  /\ handle = [c \in Client |-> [n \in Name |-> None]]
  /\ overrun = FALSE

(***************************************************************************)
(* The daemon.                                                             *)
(***************************************************************************)
DaemonGoto(d, from, to) ==
  /\ dpc[d] = from
  /\ dpc' = [dpc EXCEPT ![d] = to]

(* Mutant of StepOf: the next sequence starts one too low. *)
StepOfFromZero(d, n, here, next) ==
  /\ dpc[d] = here
  /\ IF dnext[d] = n
     THEN DaemonGoto(d, here, next) /\ dnext' = [dnext EXCEPT ![d] = 0]
     ELSE dnext' = [dnext EXCEPT ![d] = @ + 1] /\ UNCHANGED dpc

(* Step k of a sequence of n steps, in position here; then position next. *)
StepOf(d, n, here, next) ==
  /\ dpc[d] = here
  /\ IF dnext[d] = n
     THEN DaemonGoto(d, here, next) /\ dnext' = [dnext EXCEPT ![d] = 1]
     ELSE dnext' = [dnext EXCEPT ![d] = @ + 1] /\ UNCHANGED dpc

(* sem_open(O_CREAT | O_EXCL) of the guard. *)
TakeGuard(d) ==
  /\ ~guard
  /\ DaemonGoto(d, "start", "config")
  /\ guard' = TRUE
  /\ UNCHANGED <<object, dnext, pass, overrun, clientVars>>

GuardTaken(d) ==
  /\ guard
  /\ DaemonGoto(d, "start", "stopped")
  /\ UNCHANGED <<guard, object, dnext, pass, overrun, clientVars>>

(* The arguments and the configuration file are accepted ... *)
ReadConfig(d) ==
  /\ DaemonGoto(d, "config", "remove")
  /\ UNCHANGED <<guard, object, dnext, pass, overrun, clientVars>>

(* Mutant of RefuseConfig: the guard is left behind. *)
RefuseConfigOnly(d) ==
  /\ DaemonGoto(d, "config", "stopped")
  /\ UNCHANGED <<guard, object, dnext, pass, overrun, clientVars>>

(* ... or refused, and the guard is removed again. *)
RefuseConfig(d) ==
  /\ DaemonGoto(d, "config", "stopped")
  /\ guard' = FALSE
  /\ UNCHANGED <<object, dnext, pass, overrun, clientVars>>

(* Mutant of RemoveOld: the last name is forgotten. *)
RemoveMostOld(d) ==
  /\ StepOf(d, Len(Names) - 1, "remove", "create")
  /\ object' = [object EXCEPT ![Names[dnext[d]]] = None]
  /\ UNCHANGED <<guard, pass, overrun, clientVars>>

(* What a crashed daemon left is removed, name by name. *)
RemoveOld(d) ==
  /\ StepOf(d, Len(Names), "remove", "create")
  /\ object' = [object EXCEPT ![Names[dnext[d]]] = None]
  /\ UNCHANGED <<guard, pass, overrun, clientVars>>

(* The segment and the semaphores are created.  With O_EXCL this fails for *)
(* a name that exists, and dispose_all() is called: that is Terminate.     *)
Create(d) ==
  /\ object[Names[dnext[d]]] = None
  /\ StepOf(d, Len(Names), "create", "init")
  /\ object' = [object EXCEPT ![Names[dnext[d]]] = d]
  /\ UNCHANGED <<guard, pass, overrun, clientVars>>

(* sem_init() of the semaphores and mmap(); then consumer(). *)
Run(d) ==
  /\ DaemonGoto(d, "init", "running")
  /\ UNCHANGED <<guard, object, dnext, pass, overrun, clientVars>>

(***************************************************************************)
(* dispose_all().                                                          *)
(***************************************************************************)
Begin(d, h) ==
  /\ pass[d][h] = 0
  /\ pass' = [pass EXCEPT ![d][h] = 1]

(* A termination signal, or a call that fails, once conf and pthread_alloc *)
(* exist: the first pass begins.                                           *)
Terminate(d) ==
  /\ DaemonGoto(d, dpc[d], "dispose")
  /\ dpc[d] \in {"remove", "create", "init", "running"}
  /\ \E h \in Handler : Begin(d, h)
  /\ UNCHANGED <<guard, object, dnext, overrun, clientVars>>

(* Another signal, to another thread or inside the first handler.          *)
Again(d, h) ==
  /\ d \in Repeated
  /\ dpc[d] = "dispose"
  /\ Begin(d, h)
  /\ UNCHANGED <<guard, object, dpc, dnext, overrun, clientVars>>

(* A thread forks a report, which keeps the handlers of the daemon and     *)
(* will be signalled: when it prints and nobody is left to read.           *)
ForkReport(d) ==
  /\ d \in Reporting
  /\ dpc[d] \in {"running", "dispose"}
  /\ Begin(d, Child)
  /\ UNCHANGED <<guard, object, dpc, dnext, overrun, clientVars>>

(* Another pass in the daemon has unlinked the guard. *)
GaveUp(d, h) == \E g \in Handler \ {h}, k \in DOMAIN Removals :
                  Removals[k] = "guard" /\ pass[d][g] > k

Overruns(d, h) ==
  /\ Removals[pass[d][h]] \in {"guard", "shm"}
  /\ h = Child \/ GaveUp(d, h)

(* Mutant of Dispose: the segment is not removed. *)
DisposeNotShm(d, h) ==
  /\ pass[d][h] \in DOMAIN Removals
  /\ pass' = [pass EXCEPT ![d][h] = @ + 1]
  /\ LET n == Removals[pass[d][h]]
     IN  /\ guard' = (guard /\ n # "guard")
         /\ object' = [x \in Name |->
                       IF x = n /\ n # "shm" THEN None ELSE object[x]]
  /\ overrun' = (overrun \/ Overruns(d, h))
  /\ UNCHANGED <<dpc, dnext, clientVars>>

(* A pass removes the names one by one, whoever they belong to by now.     *)
Dispose(d, h) ==
  /\ pass[d][h] \in DOMAIN Removals
  /\ pass' = [pass EXCEPT ![d][h] = @ + 1]
  /\ LET n == Removals[pass[d][h]]
     IN  /\ guard' = (guard /\ n # "guard")
         /\ object' = [x \in Name |-> IF x = n THEN None ELSE object[x]]
  /\ overrun' = (overrun \/ Overruns(d, h))
  /\ UNCHANGED <<dpc, dnext, clientVars>>

(* The process is gone and its passes with it, but not that of its child.  *)
EndDaemon(d, how) ==
  /\ dpc' = [dpc EXCEPT ![d] = how]
  /\ pass' = [pass EXCEPT ![d] = [h \in Pass |-> IF h = Child THEN @[h] ELSE 0]]
  /\ UNCHANGED <<guard, object, dnext, overrun, clientVars>>

(* exit() at the end of a handler, wherever the other passes are.          *)
Exit(d) ==
  /\ dpc[d] = "dispose"
  /\ \E h \in Handler : pass[d][h] > Len(Removals)
  /\ EndDaemon(d, "stopped")

(* SIGKILL, a crash, or one of the calls of exit() that are not preceded   *)
(* by dispose_all(): everything stays.                                     *)
Crash(d) ==
  /\ dpc[d] \notin {"start", "stopped", "crashed"}
  /\ EndDaemon(d, "crashed")

(* The user does what GuardTaken's message asks for: when no daemon is     *)
(* running, the guard is removed by hand.                                  *)
RemoveGuard ==
  /\ guard
  /\ \A d \in Daemon : dpc[d] \in {"start", "stopped", "crashed"}
  /\ \A c \in Client : cpc[c] # "created_guard"
  /\ guard' = FALSE
  /\ UNCHANGED <<object, daemonVars, clientVars>>

(***************************************************************************)
(* The client.                                                             *)
(***************************************************************************)
ClientGoto(c, from, to) ==
  /\ cpc[c] = from
  /\ cpc' = [cpc EXCEPT ![c] = to]

(* Mutant of Probe: the result of sem_open() is not looked at. *)
ProbeUntested(c) ==
  /\ ClientGoto(c, "start", "created_guard")
  /\ guard' = TRUE
  /\ UNCHANGED <<object, daemonVars, handle>>

(* The client tries to create the guard: it can when no daemon is running. *)
(* Otherwise it goes on to open the segment and the semaphores.            *)
Probe(c) ==
  /\ ClientGoto(c, "start", IF guard THEN "open" ELSE "created_guard")
  /\ guard' = TRUE
  /\ UNCHANGED <<object, daemonVars, handle>>

(* It removes the guard that it has created, and gives up. *)
RemoveProbe(c) ==
  /\ ClientGoto(c, "created_guard", "stopped")
  /\ guard' = FALSE
  /\ UNCHANGED <<object, daemonVars, handle>>

(* A signal ends the client before it has removed the guard. *)
ClientDies(c) ==
  /\ ClientGoto(c, "created_guard", "crashed")
  /\ UNCHANGED <<guard, object, daemonVars, handle>>

(* What the client has to open next, in the order of main(). *)
ToOpen(c, i) ==
  /\ cpc[c] = "open"
  /\ handle[c][Names[i]] = None
  /\ \A k \in 1 .. i - 1 : handle[c][Names[k]] # None

(* shm_open() and sem_open() give it the object behind the name, ...       *)
Open(c, i) ==
  /\ ToOpen(c, i)
  /\ object[Names[i]] # None
  /\ handle' = [handle EXCEPT ![c] = [@ EXCEPT ![Names[i]] = object[Names[i]]]]
  /\ cpc' = [cpc EXCEPT ![c] = IF i = Len(Names) THEN "connected" ELSE @]
  /\ UNCHANGED <<guard, object, daemonVars>>

(* ... or fail when there is none, and the client gives up.                *)
OpenFails(c, i) ==
  /\ ToOpen(c, i)
  /\ object[Names[i]] = None
  /\ ClientGoto(c, "open", "stopped")
  /\ UNCHANGED <<guard, object, daemonVars, handle>>

(* A client that has ended, in whatever way, is started again.             *)
Retry(c) ==
  /\ cpc[c] \in {"open", "connected", "stopped"}
  /\ cpc' = [cpc EXCEPT ![c] = "start"]
  /\ handle' = [handle EXCEPT ![c] = [n \in Name |-> None]]
  /\ UNCHANGED <<guard, object, daemonVars>>

-----------------------------------------------------------------------------
DaemonNext(d) ==
  \/ TakeGuard(d) \/ GuardTaken(d) \/ ReadConfig(d) \/ RefuseConfig(d)
  \/ RemoveOld(d) \/ Create(d) \/ Run(d) \/ Terminate(d)
  \/ (\E h \in Handler : Again(d, h))
  \/ ForkReport(d)
  \/ (\E h \in Pass : Dispose(d, h))
  \/ Exit(d) \/ Crash(d)

ClientNext(c) ==
  \/ Probe(c) \/ RemoveProbe(c) \/ ClientDies(c) \/ Retry(c)
  \/ \E i \in 1 .. Len(Names) : Open(c, i) \/ OpenFails(c, i)

Next ==
  \/ \E d \in Daemon : DaemonNext(d)
  \/ \E c \in Client : ClientNext(c)
  \/ RemoveGuard

Spec == Init /\ [][Next]_vars

-----------------------------------------------------------------------------
(***************************************************************************)
(* Properties.                                                             *)
(***************************************************************************)
Active(d) == dpc[d] \in {"config", "remove", "create", "init", "running"}

(* What main() promises before it creates the guard ("Pour lancer que un   *)
(* seul demon"): a single daemon starts or runs at a time.                 *)
SingleDaemon == \A d, e \in Daemon : Active(d) /\ Active(e) => d = e

(* It is so until a pass of dispose_all() overruns: though clients create  *)
(* and remove the guard too, though daemons crash and leave it behind, and *)
(* though several passes remove the names of the semaphores, which may be  *)
(* those of the next daemon.                                               *)
OneDaemon == ~overrun => SingleDaemon

(* Until then, the names that the daemon creates with O_EXCL do not exist  *)
(* any more, even while a former daemon is still in dispose_all().         *)
FreshNames ==
  ~overrun =>
    \A d \in Daemon : dpc[d] = "create" => object[Names[dnext[d]]] = None

(* Until then, a daemon that serves has its own segment, even while a      *)
(* former daemon is still in dispose_all(): shm_unlink() comes before the  *)
(* sem_unlink() of the guard.  (The semaphores come after it, and nothing  *)
(* of the kind can be said of them.)                                       *)
SegmentKept ==
  ~overrun =>
    \A d \in Daemon : dpc[d] \in {"init", "running"} => object["shm"] = d

(* A client that opens its objects while daemons come and go may end up    *)
(* with those of several, but never beside the segment of a daemon that    *)
(* serves: what such a daemon finds has been removed before it creates the *)
(* segment, which is the first name that clients open.  This too holds     *)
(* until a pass overruns.                                                  *)
OneSet ==
  ~overrun =>
    \A c \in Client : \A d \in Daemon :
      handle[c]["shm"] = d /\ dpc[d] = "running"
        => \A n \in Name : handle[c][n] \in {None, d}

(* Daemons that end in order leave nothing behind, however many passes of  *)
(* dispose_all() overlapped: with no process under way and none crashed,   *)
(* neither the guard nor any other name exists.                            *)
CleanStop ==
  /\ \A d \in Daemon : dpc[d] \in {"start", "stopped"}
  /\ \A c \in Client : cpc[c] \notin {"created_guard", "crashed"}
  => ~guard /\ \A n \in Name : object[n] = None
=============================================================================
