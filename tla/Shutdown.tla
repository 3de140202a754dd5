------------------------------ MODULE Shutdown ------------------------------
(***************************************************************************)
(* The end of the daemon by a signal: daemon.c main() as far as it         *)
(* installs the handler and acquires what the handler disposes of,         *)
(* handler(), send_request_close() and dispose_all(), run by any thread    *)
(* while the others go on using the same objects.                          *)
(*                                                                         *)
(* Entry i of pthread_alloc is that of thread i: the choice of an entry is *)
(* in module Admission, SIGCHLD in module Subshell.                        *)
(***************************************************************************)
EXTENDS Integers, Sequences, FiniteSets

CONSTANTS
  N,           \* conf->buffer_size: the number of threads
  Signals,     \* the termination signals that are sent to the process
  MaxHandlers  \* bound: how many handlers run at a time

SIGPIPE == 13
SIGTSTP == 20
Handled == {1, 2, 3, 10, 12, SIGPIPE, 14, 15, 17, SIGTSTP}

ASSUME ShutdownAssumption ==
  /\ N \in Nat /\ MaxHandlers \in Nat
  /\ Signals \subseteq Handled

VARIABLES
  have,        \* the names that exist and what the process holds
  started,     \* how far main() is in Start
  tpc,         \* where each thread is
  registered,  \* the threads whose entry of pthread_alloc has an id
  frames,      \* the handlers each thread is inside, the innermost first
  told,        \* the threads whose client was told to leave
  late,        \* history: those registered after the first signal
  ended        \* "no", "exit", "failure", or who crashed the process

workVars == <<started, tpc, registered, late>>
vars == <<have, workVars, frames, told, ended>>

Main == 0
Threads == 1 .. N
Actors == 0 .. N

(* "semaphores" stands for the names of mutex, empty and full, "sems" for  *)
(* the same three as the process has them open.                            *)
Names == {"guard", "shm", "semaphores"}
Start == <<"guard", "conf", "table", "shm", "semaphores", "sems", "map">>

(* Mutant of Disposal: pthread_alloc and conf are freed first. *)
DisposalFreesFirst ==
  <<"fds", "table", "conf", "shm", "sems", "guard", "semaphores", "map">>

(* Mutant of Disposal: the names of the semaphores are removed last. *)
DisposalUnlinksLast ==
  <<"fds", "sems", "map", "shm", "table", "guard", "semaphores", "conf">>

Disposal ==
  <<"fds", "shm", "sems", "guard", "semaphores", "map", "table", "conf">>

Frame == [sig : Handled, at : {"send", "check", "dispose", "exit"}, i : Nat]

TypeOK ==
  /\ have \subseteq {Start[k] : k \in DOMAIN Start}
  /\ started \in 0 .. Len(Start)
  /\ tpc \in [Threads -> {"none", "take", "serve", "post"}]
  /\ registered \subseteq Threads /\ told \subseteq Threads
  /\ late \subseteq Threads
  /\ frames \in [Actors -> Seq(Frame)]
  /\ ended \in {"no", "exit", "failure", "handler", "worker"}

Init ==
  /\ have = {} /\ started = 0
  /\ tpc = [t \in Threads |-> "none"]
  /\ registered = {} /\ told = {} /\ late = {}
  /\ frames = [a \in Actors |-> << >>]
  /\ ended = "no"

-----------------------------------------------------------------------------
(***************************************************************************)
(* Signals.  The loop of main() installs each handler with the mask that   *)
(* is left when the signals up to its own have been taken out of it.       *)
(***************************************************************************)
saMask(s) == (1 .. SIGTSTP) \ {h \in Handled : h <= s}

(* Mutant of Blocks: the mask is emptied instead of filled. *)
BlocksItself(s) == {s}

(* What the handler of s blocks: its mask and the signal itself. *)
Blocks(s) == saMask(s) \cup {s}

CanTake(a, s) ==
  \A k \in DOMAIN frames[a] : s \notin Blocks(frames[a][k].sig)

(* A handler never returns, so this bounds the signals that are delivered. *)
Bounded ==
  Cardinality(UNION {{a} \X DOMAIN frames[a] : a \in Actors}) < MaxHandlers

Entered(a, s) == <<[sig |-> s, at |-> "send", i |-> 1]>> \o frames[a]

(* A signal goes to the main thread, or to another one if that blocks it.  *)
Arrive(s) ==
  /\ ended = "no" /\ Bounded
  /\ \E a \in Actors :
       /\ CanTake(a, s)
       /\ a = Main \/ (~CanTake(Main, s) /\ tpc[a] # "none")
       /\ frames' = [frames EXCEPT ![a] = Entered(a, s)]
  /\ UNCHANGED <<have, workVars, told, ended>>

-----------------------------------------------------------------------------
(***************************************************************************)
(* The handler.                                                            *)
(***************************************************************************)
InHandler(a, at) ==
  ended = "no" /\ frames[a] # << >> /\ Head(frames[a]).at = at

At(a, at, i) ==
  <<[sig |-> Head(frames[a]).sig, at |-> at, i |-> i]>> \o Tail(frames[a])

Goto(a, at, i) ==
  /\ frames' = [frames EXCEPT ![a] = At(a, at, i)]
  /\ UNCHANGED ended

EndProcess(how) == ended' = how /\ UNCHANGED frames

(* Mutant of SendRequestClose: the loop starts at the second entry. *)
SendRequestCloseLate(a) ==
  /\ InHandler(a, "send")
  /\ "conf" \in have /\ "table" \in have
  /\ told' = told \cup (registered \ {1})
  /\ Goto(a, "check", 1)
  /\ UNCHANGED <<have, workVars>>

(* Mutant of SendRequestClose: the loop looks one entry past the table. *)
SendRequestClosePast(a) ==
  /\ InHandler(a, "send")
  /\ {"conf", "table"} \subseteq have
  /\ \E past \in SUBSET {N + 1} : told' = told \cup registered \cup past
  /\ Goto(a, "check", 1)
  /\ UNCHANGED <<have, workVars>>

(* send_request_close() looks at one entry: kill(), and if the client is   *)
(* not there, "quit" into a pipe without a reader, unless the signal is    *)
(* SIGPIPE.  The process crashes if conf or the table is not there.        *)
SendRequestClose(a) ==
  /\ InHandler(a, "send")
  /\ LET i == Head(frames[a]).i
         writes == Head(frames[a]).sig # SIGPIPE IN
     \/ /\ "conf" \notin have \/ ("table" \notin have /\ i <= N)
        /\ EndProcess("handler")
        /\ UNCHANGED told
     \/ /\ {"conf", "table"} \subseteq have /\ i <= N
        /\ \/ i \notin registered /\ Goto(a, "send", i + 1) /\ UNCHANGED told
           \/ /\ i \in registered
              /\ told' = told \cup {i}
              /\ \/ Goto(a, "send", i + 1)
                 \/ /\ writes /\ CanTake(a, SIGPIPE) /\ Bounded
                    /\ frames' = [frames EXCEPT ![a] =
                         <<[sig |-> SIGPIPE, at |-> "send", i |-> 1]>>
                           \o At(a, "send", i + 1)]
                    /\ UNCHANGED ended
     \/ /\ "conf" \in have
        /\ i > N \/ started = 2     \* conf->buffer_size may still be 0
        /\ Goto(a, "check", 1)
        /\ UNCHANGED told
  /\ UNCHANGED <<have, workVars>>

(* dispose_all() returns at once when there is no configuration.           *)
Check(a) ==
  /\ InHandler(a, "check")
  /\ IF {"conf", "table"} \subseteq have THEN Goto(a, "dispose", 1)
     ELSE Goto(a, "exit", 1)
  /\ UNCHANGED <<have, workVars, told>>

(* What a step of dispose_all() reads through a pointer.                   *)
Reads(step) ==
  CASE step = "fds" -> {"conf", "table"}
    [] step \in {"shm", "semaphores"} -> {"conf"}
    [] OTHER -> {}

DisposeAll(a) ==
  /\ InHandler(a, "dispose")
  /\ LET i == Head(frames[a]).i IN
     IF Reads(Disposal[i]) \subseteq have
     THEN /\ have' = have \ {Disposal[i]}
          /\ IF i = Len(Disposal) THEN Goto(a, "exit", 1)
             ELSE Goto(a, "dispose", i + 1)
     ELSE EndProcess("handler") /\ UNCHANGED have
  /\ UNCHANGED <<workVars, told>>

Exit(a) ==
  /\ InHandler(a, "exit")
  /\ EndProcess("exit")
  /\ UNCHANGED <<have, workVars, told>>

HandlerStep(a) == SendRequestClose(a) \/ Check(a) \/ DisposeAll(a) \/ Exit(a)

-----------------------------------------------------------------------------
(***************************************************************************)
(* main() and the threads at work: each step crashes the process if        *)
(* something it uses is gone.                                              *)
(***************************************************************************)
Works(a) == ended = "no" /\ frames[a] = << >>

Acquire ==
  /\ Works(Main) /\ started < Len(Start)
  /\ started' = started + 1
  /\ have' = have \cup {Start[started']}
  /\ UNCHANGED <<tpc, registered, late, frames, told, ended>>

Uses(from) ==
  CASE from = "none"  -> {"sems", "map", "conf", "table"}   \* consumer()
    [] from = "take"  -> {"conf", "table"}
    [] from = "serve" -> {"conf", "table"}
    [] from = "post"  -> {"sems"}                           \* V(empty)

WorkerCrash(t) ==
  /\ started = Len(Start)
  /\ Works(IF tpc[t] = "none" THEN Main ELSE t)
  /\ ~(Uses(tpc[t]) \subseteq have)
  /\ EndProcess("worker")
  /\ UNCHANGED <<have, workVars, told>>

(* open(), pipe() or close() fails, or consumer() finds no entry: exit()   *)
(* without dispose_all(), whether a handler is at work or not.             *)
GiveUp(t) ==
  /\ started = Len(Start)
  /\ Works(IF tpc[t] = "none" THEN Main ELSE t)
  /\ tpc[t] # "post"
  /\ EndProcess("failure")
  /\ UNCHANGED <<have, workVars, told>>

Move(a, t, from, to) ==
  /\ Works(a) /\ started = Len(Start)
  /\ tpc[t] = from /\ Uses(from) \subseteq have
  /\ tpc' = [tpc EXCEPT ![t] = to]
  /\ UNCHANGED <<have, started, frames, told, ended>>

(* consumer() creates a thread, ...                                        *)
Create(t) ==
  /\ t \notin registered
  /\ Move(Main, t, "none", "take") /\ UNCHANGED <<registered, late>>

(* ... which opens its pipes and takes its entry, ...                      *)
Take(t) ==
  /\ Move(t, t, "take", "serve")
  /\ registered' = registered \cup {t}
  /\ late' = IF \E a \in Actors : frames[a] # << >> THEN late \cup {t} ELSE late

(* ... serves, gives the entry back unless the pipe just ends, ...         *)
Serve(t) ==
  /\ Move(t, t, "serve", "post")
  /\ registered' \in {registered, registered \ {t}}
  /\ UNCHANGED late

(* ... and ends with V(empty).                                             *)
Post(t) == Move(t, t, "post", "none") /\ UNCHANGED <<registered, late>>

(* An answer is written to a client that has left.                         *)
BrokenPipe(t) ==
  /\ Works(t) /\ tpc[t] = "serve" /\ Bounded
  /\ frames' = [frames EXCEPT ![t] = Entered(t, SIGPIPE)]
  /\ UNCHANGED <<have, workVars, told, ended>>

-----------------------------------------------------------------------------
Next ==
  \/ Acquire
  \/ \E s \in Signals : Arrive(s)
  \/ \E a \in Actors : HandlerStep(a)
  \/ \E t \in Threads :
       Create(t) \/ Take(t) \/ Serve(t) \/ Post(t) \/ BrokenPipe(t)
         \/ WorkerCrash(t) \/ GiveUp(t)

Spec == Init /\ [][Next]_vars

-----------------------------------------------------------------------------
(***************************************************************************)
(* Properties.                                                             *)
(***************************************************************************)
(* Handlers interrupt each other only in one direction: the signal of an   *)
(* inner one has a smaller number, as the order of the installation makes  *)
(* it, so that no signal ever finds itself interrupted.                    *)
NestedDown ==
  \A a \in Actors : \A k \in 2 .. Len(frames[a]) :
    frames[a][k - 1].sig < frames[a][k].sig

(* Whichever of several handlers ends the process, be it by exit() or      *)
(* because another one has already freed what it reads, none of the names  *)
(* is left, from the moment that there is a table of threads.              *)
CleanEnd ==
  ended \in {"exit", "handler"} /\ started >= 3 => have \cap Names = {}

(* A thread that the handler overtakes can crash the process before the    *)
(* names are gone, but only after the semaphores were closed; the segment  *)
(* is never left.  (A thread that gives up leaves whatever is there.)      *)
CrashWindow ==
  ended = "worker" /\ have \cap Names # {}
    => "sems" \notin have /\ "shm" \notin have

(* Every client that had its entry before the first signal, and still has  *)
(* it, was told to leave.                                                  *)
EveryoneTold ==
  ended \in {"exit", "handler"} /\ started >= 3 => registered \subseteq told \cup late
=============================================================================
