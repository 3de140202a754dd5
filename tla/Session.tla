------------------------------- MODULE Session -------------------------------
(***************************************************************************)
(* The dialogue of one client with the thread that serves it: client.c     *)
(* communicate_pipe(), handler() and close_on_signal(), daemon.c run()     *)
(* from the first select() to the closing of the pipes.  Both pipes are    *)
(* open at the start and the thread has its own entry in pthread_alloc.    *)
(*                                                                         *)
(* A named pipe is a sequence of messages, and one read() takes all of it: *)
(* messages written separately are read together (they are shorter than    *)
(* PIPE_BUF).  A line that the anti-flood test drops changes nothing.      *)
(***************************************************************************)
EXTENDS Naturals, Sequences

CONSTANTS
  MaxRequests,  \* bound: how many commands the user types
  Outputs,      \* what commands do: the members of OutputKind considered
  Events        \* what may happen besides: the members of EventKind considered

OutputKind == {"prompt",    \* the command prints something at once
               "slow",      \* ... after timeout_client or more
               "empty",     \* it ends without printing
               "endless"}   \* it never ends, or fills the pipe before it ends

EventKind == {"client_timeout", "daemon_timeout",
              "interrupt",  \* a termination signal reaches the client
              "eof"}        \* the standard input of the client ends

ASSUME SessionAssumption ==
  /\ MaxRequests \in Nat
  /\ Outputs \subseteq OutputKind
  /\ Events \subseteq EventKind

VARIABLES
  cpc,       \* where the client is
  sent,      \* the number of commands written to the question pipe
  shown,     \* pairs of a command and a message that was displayed after it
  sigint,    \* the client has a pending SIGINT
  question,  \* unread messages: Quit, or the number of a command
  answer,    \* unread messages: Notice, or the number of the command answered
  tpc,       \* where the thread is
  request,   \* the command being processed
  output,    \* what that command does
  held,      \* pthread_alloc[i].id is still the pid of the client
  daemon     \* "up", or "down" after SIGPIPE, whose handler ends in exit()

clientVars == <<cpc, sent, shown, sigint>>
threadVars == <<tpc, request, output, held, daemon>>
vars == <<clientVars, question, answer, threadVars>>

Quit == 0
Notice == 0  \* the text of a first timeout, or the "quit" of a later one

ClientPC == {"input", "send", "quitting", "wait", "handler", "ended"}
ThreadPC == {"select_first", "read", "process", "reply", "select", "notify",
             "signal", "close", "ended"}

TypeOK ==
  /\ cpc \in ClientPC /\ sent \in 0 .. MaxRequests /\ sigint \in BOOLEAN
  /\ shown \subseteq (0 .. MaxRequests) \X (0 .. MaxRequests)
  /\ question \in Seq(0 .. MaxRequests) /\ answer \in Seq(0 .. MaxRequests)
  /\ tpc \in ThreadPC /\ request \in 0 .. MaxRequests
  /\ output \in OutputKind /\ held \in BOOLEAN
  /\ daemon \in {"up", "down"}

Init ==
  /\ cpc = "input" /\ sent = 0 /\ shown = {} /\ sigint = FALSE
  /\ question = << >> /\ answer = << >>
  /\ tpc = "select_first" /\ request = 0 /\ output = "prompt" /\ held = TRUE
  /\ daemon = "up"

ClientOpen == cpc # "ended"   \* the client's ends of the pipes
ThreadOpen == tpc # "ended"   \* the thread's ends

(***************************************************************************)
(* The client.  write() to the question pipe raises SIGPIPE when nobody    *)
(* can read it any more, and the handler then writes no "quit".            *)
(***************************************************************************)
Write(message, next) ==
  \/ /\ ThreadOpen
     /\ question' = Append(question, message)
     /\ cpc' = next
  \/ /\ ~ThreadOpen
     /\ cpc' = "handler"
     /\ UNCHANGED question

(* The user types a command. *)
TypeCommand ==
  /\ cpc = "input"
  /\ sent < MaxRequests
  /\ cpc' = "send"
  /\ UNCHANGED <<sent, shown, sigint, question, answer, threadVars>>

(* Mutant of SendCommand: the command is counted and written twice. *)
SendCommandTwice ==
  /\ cpc = "send"
  /\ cpc' = "wait"
  /\ question' = question \o <<sent + 1, sent + 2>>
  /\ sent' = sent + 2
  /\ UNCHANGED <<shown, sigint, answer, threadVars>>

(* The command goes to the question pipe. *)
SendCommand ==
  /\ cpc = "send"
  /\ Write(sent + 1, "wait")
  /\ sent' = sent + 1
  /\ UNCHANGED <<shown, sigint, answer, threadVars>>

(* The user types quit: it is written, then the client signals itself. *)
TypeQuit ==
  /\ cpc = "input"
  /\ Write(Quit, "quitting")
  /\ UNCHANGED <<sent, shown, sigint, answer, threadVars>>

(* select() on the answer pipe returns: read() takes all there is, nothing *)
(* when the thread has closed its end, and the client asks for a new line. *)
Receive ==
  /\ cpc = "wait"
  /\ answer # << >> \/ ~ThreadOpen
  /\ shown' = shown \cup {<<sent, answer[i]>> : i \in DOMAIN answer}
  /\ answer' = << >>
  /\ cpc' = "input"
  /\ UNCHANGED <<sent, sigint, question, threadVars>>

(* Mutants of ClientTimeout: the client waits on; it asks for a new line.  *)
ClientWaitsOn ==
  /\ cpc = "wait" /\ answer = << >>
  /\ UNCHANGED vars

ClientGivesUp ==
  /\ "client_timeout" \in Events
  /\ cpc = "wait" /\ answer = << >>
  /\ tpc = "process" /\ output = "slow"
  /\ cpc' = "input"
  /\ UNCHANGED <<sent, shown, sigint, question, answer, threadVars>>

(* select() runs out of time: "quit" is written, then the client signals   *)
(* itself.  A thread that has work to do does it sooner than that.         *)
ClientTimeout ==
  /\ "client_timeout" \in Events
  /\ cpc = "wait" /\ answer = << >>
  /\ \/ tpc = "process" /\ output \in {"slow", "endless"}
     \/ tpc = "select" /\ question = << >>
  /\ Write(Quit, "quitting")
  /\ UNCHANGED <<sent, shown, sigint, answer, threadVars>>

(* The signal handler writes "quit" ... *)
Handle ==
  /\ \/ cpc = "quitting"
     \/ cpc \in {"input", "send", "wait"} /\ (sigint \/ "interrupt" \in Events)
  /\ cpc' = "handler"
  /\ sigint' = FALSE
  /\ question' = IF ThreadOpen THEN Append(question, Quit) ELSE question
  /\ UNCHANGED <<sent, shown, answer, threadVars>>

(* ... and dispose_all() closes the pipes. *)
Dispose ==
  /\ cpc = "handler"
  /\ cpc' = "ended"
  /\ UNCHANGED <<sent, shown, sigint, question, answer, threadVars>>

(* The standard input ends: dispose_all() without a "quit". *)
EndOfInput ==
  /\ "eof" \in Events
  /\ cpc = "input"
  /\ cpc' = "ended"
  /\ UNCHANGED <<sent, shown, sigint, question, answer, threadVars>>

(***************************************************************************)
(* The thread.                                                             *)
(***************************************************************************)
ThreadGoto(from, to) ==
  /\ daemon = "up"
  /\ tpc = from
  /\ tpc' = to

(* Mutant of Ready: the end of file goes unnoticed. *)
ReadyOnData ==
  /\ \/ ThreadGoto("select_first", "read")
     \/ ThreadGoto("select", "read")
  /\ question # << >>
  /\ UNCHANGED <<clientVars, question, answer, request, output, held, daemon>>

(* select() returns: there is something to read, or the end of file. *)
Ready ==
  /\ \/ ThreadGoto("select_first", "read")
     \/ ThreadGoto("select", "read")
  /\ question # << >> \/ ~ClientOpen
  /\ UNCHANGED <<clientVars, question, answer, request, output, held, daemon>>

(* Mutant of ReadQuit: "quit" is processed like any command. *)
ReadQuitGoesOn ==
  /\ ThreadGoto("read", "process")
  /\ question # << >> /\ Head(question) = Quit
  /\ question' = << >>
  /\ output' \in Outputs
  /\ UNCHANGED <<clientVars, answer, request, held, daemon>>

(* read() takes all there is; what it begins with tells a quit ... *)
ReadQuit ==
  /\ ThreadGoto("read", "close")
  /\ question # << >> /\ Head(question) = Quit
  /\ question' = << >>
  /\ held' = FALSE
  /\ UNCHANGED <<clientVars, answer, request, output, daemon>>

(* ... from a command, whatever follows it. *)
ReadCommand ==
  /\ ThreadGoto("read", "process")
  /\ question # << >> /\ Head(question) # Quit
  /\ question' = << >>
  /\ request' = Head(question)
  /\ output' \in Outputs
  /\ UNCHANGED <<clientVars, answer, held, daemon>>

(* read() returns 0: the entry of pthread_alloc stays. *)
ReadEnd ==
  /\ ThreadGoto("read", "close")
  /\ question = << >> /\ ~ClientOpen
  /\ UNCHANGED <<clientVars, question, answer, request, output, held, daemon>>

(* The command ends, waitpid() returns and its output is read. *)
Process ==
  /\ \/ output \in {"prompt", "slow"} /\ ThreadGoto("process", "reply")
     \/ output = "empty" /\ ThreadGoto("process", "select")
  /\ UNCHANGED <<clientVars, question, answer, request, output, held, daemon>>

(* The handler of SIGPIPE: dispose_all(), then exit() for all threads. *)
SigPipe ==
  /\ tpc' = "ended"
  /\ daemon' = "down"

(* write() to the answer pipe, which needs a reader. *)
Answer(message, from, to) ==
  \/ /\ ThreadGoto(from, to)
     /\ ClientOpen
     /\ answer' = Append(answer, message)
     /\ UNCHANGED <<clientVars, question, request, output, held, daemon>>
  \/ /\ daemon = "up" /\ tpc = from
     /\ ~ClientOpen
     /\ SigPipe
     /\ UNCHANGED <<clientVars, question, answer, request, output, held>>

Reply == Answer(request, "reply", "select")

(* A timeout strikes when both sides are waiting.  The first one ends in a *)
(* message for the user, ...                                               *)
Expired ==
  /\ "daemon_timeout" \in Events
  /\ question = << >> /\ cpc \in {"input", "wait"}

(* Mutant of FirstTimeout: what select() returned is not looked at. *)
FirstTimeoutIgnored ==
  /\ Expired
  /\ ThreadGoto("select_first", "read")
  /\ UNCHANGED <<clientVars, question, answer, request, output, held, daemon>>

FirstTimeout ==
  /\ Expired
  /\ ThreadGoto("select_first", "notify")
  /\ held' = FALSE
  /\ UNCHANGED <<clientVars, question, answer, request, output, daemon>>

Notify == Answer(Notice, "notify", "close")

(* ... a later one in a signal to the client; when the client is gone, in  *)
(* a "quit" to the answer pipe.                                            *)
(* Mutant of LaterTimeout: the entry is not given back. *)
LaterTimeoutKeeps ==
  /\ Expired
  /\ ThreadGoto("select", "signal")
  /\ UNCHANGED <<clientVars, question, answer, request, output, held, daemon>>

LaterTimeout ==
  /\ Expired
  /\ ThreadGoto("select", "signal")
  /\ held' = FALSE
  /\ UNCHANGED <<clientVars, question, answer, request, output, daemon>>

Signal ==
  /\ ThreadGoto("signal", "close")
  /\ sigint' = ClientOpen
  /\ UNCHANGED <<cpc, sent, shown, question, answer, request, output, held,
                 daemon>>

SignalFails == ~ClientOpen /\ Answer(Notice, "signal", "close")

(* Both pipes are closed; V(empty) follows. *)
Close ==
  /\ ThreadGoto("close", "ended")
  /\ UNCHANGED <<clientVars, question, answer, request, output, held, daemon>>

-----------------------------------------------------------------------------
User == TypeCommand \/ TypeQuit \/ EndOfInput

ClientStep == SendCommand \/ Receive \/ ClientTimeout \/ Dispose

ThreadStep ==
  \/ Ready \/ ReadQuit \/ ReadCommand \/ ReadEnd \/ Process \/ Reply
  \/ FirstTimeout \/ Notify \/ LaterTimeout \/ Signal \/ SignalFails \/ Close

Next == User \/ ClientStep \/ Handle \/ ThreadStep

Spec == Init /\ [][Next]_vars

(***************************************************************************)
(* Fairness: both programs keep running and their timers expire; commands  *)
(* end unless they are endless.  Users and signals promise nothing, but a  *)
(* signal that is pending is delivered.                                    *)
(***************************************************************************)
Fairness ==
  /\ WF_vars(ClientStep)
  /\ WF_vars(Handle /\ (sigint \/ cpc = "quitting"))
  /\ WF_vars(ThreadStep)

FairSpec == Spec /\ Fairness

-----------------------------------------------------------------------------
(***************************************************************************)
(* Properties.                                                             *)
(***************************************************************************)
(* An answer displayed after a command is the answer to that command,      *)
(* though nothing in the messages says which command they belong to, and   *)
(* though either side may give up while the other is at work.              *)
AnswersPaired == \A p \in shown : p[2] # Notice => p[1] = p[2]

(* A client that has left while its thread was in select(), about to read, *)
(* closing or gone, with nothing unread or "quit" as the first unread      *)
(* message.  A thread that is at work on a command, about to write a       *)
(* notice, or about to signal its client, is not in question here: it may  *)
(* write to the pipe that the client has closed, and then the handler of   *)
(* SIGPIPE ends the daemon.                                                *)
QuietlyLeft ==
  /\ cpc = "ended" /\ daemon = "up"
  /\ tpc \notin {"process", "reply", "notify", "signal"}
  /\ question = << >> \/ Head(question) = Quit

(* Such a client never costs the others their daemon: no timeout, command  *)
(* or notice follows between what its thread still reads and its end.      *)
QuietLeave == [](QuietlyLeft => [](daemon = "up"))

(* A client that waits for an answer gets on: the two sides never wait for *)
(* each other for ever, even when a command prints nothing or hangs.       *)
ClientGetsOn == cpc = "wait" ~> cpc \in {"input", "ended"}

(* However a client leaves, its thread ends and gives the place back with  *)
(* V(empty), unless it is running a command that does not end.             *)
ThreadEnds ==
  cpc = "ended" ~> (tpc = "ended" \/ (tpc = "process" /\ output = "endless"))

(* A "quit" at the front of the pipe frees the entry of pthread_alloc, by  *)
(* whichever way the thread ends, unless it runs a command that does not   *)
(* end or takes the daemon with it.                                        *)
QuitFrees ==
  question # << >> /\ Head(question) = Quit
    ~> ~held \/ daemon = "down" \/ (tpc = "process" /\ output = "endless")

(* A user who stops typing loses the thread, also when no command was      *)
(* typed at all.                                                           *)
IdleEvicted == <>[](cpc = "input") => <>(tpc = "ended")
=============================================================================
