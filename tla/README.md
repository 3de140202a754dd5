# DaemonInfoSystem: a TLA+ model, its checks and its proofs

DaemonInfoSystem is a daemon (`src/src/daemon.c`) that runs commands for clients
(`src/src/client.c`) on the same machine. A client puts its pid into a ring in shared
memory, guarded by three named semaphores; the daemon takes the pid, creates a thread
for it, and thread and client talk over two named pipes until one of them gives up.

This directory holds TLA+ modules of that system, the configurations with which TLC
checks them, and proofs that TLAPS checks. `PROJECT.json` lists every run, mutant,
mapped definition, finding, hazard and theorem. Line numbers below are those of the
commit in `src/`.

## 1. Inventory

### Components, their state, their operations

| component | state | operations | module |
|---|---|---|---|
| Ring of pids (`shm.c`, `inc/shm.h`) | `head`, `tail`, `buffer[]` in the shared segment | `add_element`, `remove_element` | `Admission` |
| Admission (`client.c producer`, `daemon.c consumer`, `utils.c P`, `V`) | semaphores `mutex` (1), `empty` (N), `full` (0); local `pid`, `i` of `consumer` | P/V of each semaphore, search for a free place, `pthread_create` | `Admission` |
| Threads and table of places (`daemon.c run`, `pthread_alloc`) | local `pid`, `i`, descriptors; `pthread_alloc[i].id` | reading the argument, `open` of both pipes, search, service, release, `V(empty)` | `Admission`, `Session` |
| Dialogue (`client.c communicate_pipe`, loop of `daemon.c run`) | contents of the two pipes, timers, position of both sides | line typed, request, answer, `quit`, both timeouts, end of input, end of file | `Session` |
| Handlers of the client (`handler`, `close_on_signal`, `dispose_all`) | pending signal, position interrupted | write `quit`, close and unlink the pipes, exit | `Admission` (Signalled, Leave, Interrupt), `Session` (Handle, Dispose) |
| Lifecycle (`daemon.c main`, `dispose_all`; `client.c main`) | the guard semaphore `VAR_ONE_RUNNING_DAEMON`, the names of the segment and semaphores | take or find the guard, refuse a configuration, remove old names, create, dispose (several passes at once, and in children), crash; the client's probe | `Lifecycle` |
| Execution of commands (`processing_request`, `do_subshell`, `SIGCHLD` case of `handler`) | child processes, their descriptors, one pipe for each request, `pid`, pending `SIGCHLD` | pipe, fork, exec, wait, read; the loop of the handler | `Subshell`; what commands do to the dialogue, `Session` |
| Shutdown by a signal (`daemon.c handler`, `send_request_close`, `dispose_all`) | everything above, as far as it can be missing; the handlers each thread is inside | tell the clients, dispose, exit, crash | `Shutdown` |
| Installation of handlers (loops of both `main`) | `sigaction` masks | `sigdelset`, `sigaction` | those of the daemon in `Shutdown` |
| Configuration reader (`config.c`, its callers in both `main`) | `struct config` | test of the file name, `start_config`, `parse_configfile`, `filename_format` | `Config` |
| Helpers (`utils.c`) | none | `trim`, `is_numeric`, `atoi`, `prefix`, `get_file_extension`, `P`, `V` | `Config`, `Admission`; the others not modelled |
| Reports (`info_proc`, `info_user`), colours, Makefile | none | reading `/proc`, formatting | not modelled: input, output and layout only |

### How they interact

    client                      shared objects                    daemon main: probe
    ---------->   guard semaphore   <-----------    main producer: P(empty) P(mutex)
    add_element V(mutex) V(full) ---------->   ring, semaphores  <-----------    consumer:
    P(full) P(mutex) remove_element, search, pthread_create(run, &pid), V(mutex)
    communicate_pipe <------>   question / answer pipes <---->    run: open, search, serve
    handler: quit    ------->   question pipe                     run: free entry, close,
    V(empty) <-------   SIGINT  -----------------------   run (second timeout), handler run:
    pipe, fork, waitpid, read child processes --- SIGCHLD --->  handler, in any thread

`V(empty)` comes at the end of `run()`, in the daemon, and undoes the `P(empty)` of a
client: a place is held through the whole service. That departs from the textbook
producer/consumer algorithm, and most of what is correct in this program rests on it.

### What is hard, and what must hold

- *Several processes and threads on shared data.* Ring and semaphores are touched by
  every process, `pid` and `pthread_alloc` by every thread without a lock.
  Must hold: mutual exclusion on the ring, no overwritten pid, places neither lost nor
  created, every pid served by its own thread, a free table entry for each pid taken.
- *Deaths at any point.* A client can be killed or interrupted between any two calls.
  Must hold: the ring and the semaphores stay consistent; what can end the daemon is known.
- *Two sides with timers over an unframed channel.* Messages are not numbered, `read`
  may return several at once, each side may give up while the other works.
  Must hold: answers match commands, nobody waits for ever, entries are freed.
- *Names that outlive processes, and passes of `dispose_all` that are late.* Must hold: one
  daemon at a time, names free when they are created, nothing left behind by an orderly
  end, no client with the objects of two daemons.
- *Signals that any thread may take.* `SIGCHLD` and the termination signals run the same
  handler, without `SA_RESTART`, in whatever thread the kernel picks.
  Must hold: every child is reaped once, answers do not mix, every request ends; of
  several shutdowns at once, one completes, and it tells the clients first.
- *Text from a file that becomes numbers, paths and a format.* Must hold: what is read is
  what is written, within the limits.

The hazards, each at its line and with the properties aimed at it, are in
`PROJECT.json`; the few without a property carry the reason.

## 2. Modules

| module | what it is |
|---|---|
| `BoundedQueue` | abstract specification: a queue of pids with a capacity that counts the clients queued and those being served |
| `Admission` | ring, semaphores, `producer`, `consumer`, `run` from its argument to `V(empty)`, table of places, deaths and restarts of clients |
| `MCAdmission` | the symmetry set for TLC |
| `Admission_proofs` | TLAPS: types, mutual exclusion, places, ring, refinement of `BoundedQueue` |
| `Handover_proofs` | TLAPS: the way of a pid from the ring to a thread, whatever faults occur |
| `Single_proofs` | TLAPS: a daemon with one place |
| `Session` | one client and its thread, over the two pipes |
| `Session_proofs` | TLAPS: the safety properties of `Session` that hold without condition |
| `Subshell` | the threads as they run commands: children, their pipes, `SIGCHLD` in any thread |
| `Subshell_proofs` | TLAPS: every safety property of `Subshell` |
| `Shutdown` | termination signals, handled by several threads while the others work |
| `Shutdown_proofs` | TLAPS: every invariant of `Shutdown` |
| `Lifecycle` | the guard and the other names, several daemons and clients |
| `MCLifecycle` | the symmetry set for TLC |
| `Lifecycle_proofs` | TLAPS: every invariant of `Lifecycle` that a passing run checks |
| `Config` | reading of the configuration file, against a declarative reading of its lines |
| `Config_proofs` | TLAPS: every invariant of `Config` that a passing run checks |
| `MCConfig` | the lines and file names for TLC |

The modules meet at named steps. `Admission` has of the dialogue what decides how a
service ends, and `Session` what is said in it; both run a command with one step where
`Subshell` says what a thread and its children do; the passes of `dispose_all` that
`Lifecycle` lets overlap are what `Shutdown` has the inside of.

### Admission

One step is one semaphore operation, one access to shared memory or one blocking call;
the client's `pc`, the consumer's `cpc` and each thread's `tpc` name the call that comes
next. The variables are those of the code: `mutex`, `empty`, `full`; `head`, `tail`,
`buffer`; `pid` and `ci` (local variables of `consumer`); `tpid` and `ti` (`pid` and `i`
of `run`), `old` (`pid_old`); `slot[i]` for `pthread_alloc[i].id`. Beside them `fifos`
(clients whose named pipes exist), `question[c]` (what the unread part of a question pipe
begins with), `answer` (the answer pipes with something unread), `sigint` (clients that the
daemon signalled), `alive`, and `daemon` (`exit(EXIT_FAILURE)` in any thread, and the
handler of SIGPIPE, end the process).

- `Create(t)` passes the thread the *address* of `pid` (daemon.c:392); `ReadPid(t)` reads
  whatever `consumer` holds by then.
- The searches of `pthread_alloc` in `consumer` (372-383) and `run` (429-438) read one
  entry per step. `ti = N` means that nothing was found; a write through that index falls
  outside the table: the model leaves the table alone and lets the process go on or end.
- An `open` of a named pipe is a call and a return. It fails if the client has unlinked
  the pipe, blocks for ever if the client died and left it, and returns when the other
  side has called its own.
- A client in its session sends one command after the other and waits for each answer. It
  leaves because its user quits, its timer expires, the daemon signals it, its user does, or
  a write finds no reader: `Leave` writes one more `quit`. `Written` says what a write does:
  only the front of what is unread matters, as `run` looks at the beginning of what one
  `read` returns (daemon.c:481). A `quit` behind a command is lost that way, and the entry
  with it (`ReadCommand`, then `ServeEof`).
- A write of the thread to a client that has left (`Reply`, `Notify`, `Signal` when
  `kill` fails) raises SIGPIPE: `SigPipe` is the handler, which signals the clients of the
  table and ends the daemon.
- Faults: `"kill"` (SIGKILL anywhere), `"interrupt"` (a termination signal at any time),
  `"eof"` (the standard input of a client ends), `"client_timeout"` and `"daemon_timeout"`
  (`select` runs out of time on that side). Members of `Restarting` start again after they
  left.

Abstractions: the two descriptors of a thread are closed in one step with `V(empty)`; a
pid is reused only when the daemon holds no trace of it; `MIN_TIMEOUT` is ten seconds, so
a thread that only has to read what is unread or to write what it has, and an `open` that
can return, are taken to be faster than a timeout (`ClientTimeout`, `Expired`). Calls that
fail for want of a resource (`pthread_create`, `malloc`, `write` to the terminal) are left
out here.

### Session

The pipes are sequences of messages; a command is its number, and `Quit` and `Notice`
are 0. One `read` takes all that the pipe holds (messages are shorter than `PIPE_BUF`),
which is how a `quit` written right behind a command is lost. `Outputs` says what a
command may do: print promptly, print after `timeout_client`, print nothing (then `run`
sends no answer at all, daemon.c:502), or never end, which includes filling the pipe
while `do_subshell` is still in `waitpid` (709). Any command may behave in any of
these ways.

Time is abstracted to what may expire: the client's timer when it has no answer and the
thread is busy with a slow or endless command or has nothing to do; the daemon's when
the question pipe is empty and the client is not about to write. Work that takes a few
instructions is taken to be shorter than the timeouts (10 to 1800 seconds). A line
dropped by the anti-flood test is a stutter.

### Lifecycle

`guard` is the semaphore `VAR_ONE_RUNNING_DAEMON`; `object[n]` says which daemon created
what is behind the name `n`, `handle[c][n]` whose object a client has open under it. A
daemon walks through `main`: take the guard, read the configuration (or refuse it and
remove the guard), `RemoveOld` name by name, `Create` name by name, run. `pass[d][h]` is the
next name that a pass `h` of `dispose_all` of the daemon `d` removes (segment, guard, then
the three semaphores): `Terminate` is a signal, or a call that fails, anywhere after
`pthread_alloc` exists, and begins the first pass; `Again` is another signal, to another
thread or inside the first handler; `ForkReport` a child of `info_proc` or `info_user`,
which has kept the handlers of the daemon (daemon.c:647-703) and runs `dispose_all` when
it is signalled, be it after its daemon is gone. `Dispose` removes whatever is behind the
name by then, `Exit` ends the daemon when one of its passes is through, wherever the others
are. `overrun` remembers that a report child has removed the guard or the segment, or that
a pass in a daemon has, after another pass there had given the guard up.

`Crash` is SIGKILL or one of the exits without `dispose_all` (daemon.c:166, 200, 383, 394,
420, 425, P and V on an error), and also a signal before `conf` is set. Daemons and clients
compete for the guard, because a client finds out whether a daemon runs by trying to create
it (client.c:116-120); if one runs, the client opens the segment and the semaphores one by
one (client.c:168-208). The user removes a stale guard, as the message at daemon.c:142 asks,
only when no daemon is under way and no client is probing.

### Subshell

`kid[p]` is the child behind a pid: what it still does, who is its parent thread, into
whose pipe it prints, and which pipes it could write to. A child inherits every pipe that
is open when it is forked (`OpenForWriting`), so that `read` of a pipe sees the end of
file only when the children of other threads have ended as well. `waitpid` in the thread
and `waitpid(-1, WNOHANG)` in the handler compete for the zombies. `SIGCHLD` is one
pending bit (`pending`; `takers`: who takes it). The kernel sends it to the thread that
forked and wakes another one only if that thread blocks it; a thread inside the handler
blocks it. `Take` lets the blocking call of its thread fail with EINTR: `waitpid` returns
early, `read` gives no answer, the first `select` ends the service with its entry taken
(`Failed`, `lost`; daemon.c:458), a later one leads to a `read` without `select` (521),
`open` and `P(full)` exit (`TakeInExit`; 420, 425, `utils.c` P). A thread that was not yet
in the call is unharmed. `fork` and `pthread_create` start over while a signal is pending
(`StartOver`), so that it is taken before them. `stopped` records that a command was stopped
or continued, which tells the parent while the child lives; most of what is right about
commands is right as long as that has not happened.

`info_proc` and `info_user` run in the child, which then falls out of the `switch`
(daemon.c:703) and goes on in `run` at the parent's code: `GoBack` is what becomes of it.

### Shutdown

`have` is the set of names and objects that exist, `Start` the order in which `main`
acquires them, `Disposal` the order in which `dispose_all` gives them back. `frames[a]` is
the stack of handlers that the thread `a` is inside, each at a place of `handler`:
`send_request_close` (entry by entry), the test at the head of `dispose_all`, its steps,
`exit`. `saMask(s)` is what is left in the mask when the loop at daemon.c:98-134 installs
the handler of `s`: it removes the signals one after the other, so that a handler blocks
what is installed later. `SIGPIPE` interrupts `send_request_close` where it writes to a
client that has left. Threads at work crash the process when they use what is gone
(`WorkerCrash`), or exit because a call fails (`GiveUp`; that includes a descriptor which
the handler closed). One step of `dispose_all` is atomic; the functions of the library that
are not safe in a handler are taken to work.

### Config

A line is a sequence of symbols: a variable name is one symbol, as are "=", blanks, digits,
"/" and "%". `trim`, `strtok` (`Split`), `is_numeric`, `atoi`, which wraps around above
`IntMax` after any digit, `get_file_extension`, `filename_format` and `parse_configfile` are
operators; a file is read line by line, in the daemon or in a client. `SizeT` is the
conversion of an `int` to the `size_t` of the fields (config.c:199), which makes a negative
one huge. `Meaning` says what a line means without these functions, from the positions of
its symbols: a number is read as a whole (`Decimal`) and has no limit; one that is left out
(`is_numeric` and `atoi` take the empty value for 0) or that no `int` can hold is "unclear".
`Symbols` is what lines are made of; the symbols that `filename_format` adds are assumed to
be among them. A field that no line sets keeps what `malloc` left (`Unset`).

## 3. Runs

### Passing

| run | instance | shows |
|---|---|---|
| `adm_faults` | N = 2, 2 clients that restart, 2 threads, every fault | Ring and semaphores survive deaths at any step: `MutualExclusion`, `PlacesConserved`, `NoOverrun`; a pid taken has a thread that serves or will read it (`LatestNotLost`); the whole implements `BoundedQueue` (`ImplementsQueue`) |
| `adm_single` | N = 1, 2 clients that restart, 2 threads, the timeouts of both sides, `FairSpec` | With one place the late `V(empty)` serialises `consumer` and the threads, and protects the unlocked `pid` and `pthread_alloc`: `OneThreadPerClient`, `PlaceOwned`, `FreePlaceForTaken`; the daemon ends only by a write to a client that has left (`EndsByLateWrite`), and unless it does, `PlacesComeBack` and `EveryoneConnected` |
| `session_failures` | 3 commands, all outputs, all events, `FairSpec` | `AnswersPaired`, `QuietLeave` (who has left while its thread waits, is about to read or is closing, with nothing or `quit` to be read, never costs the others their daemon; a thread at work, notifying or signalling is not covered), `QuitFrees`, `ClientGetsOn`, `ThreadEnds`, `IdleEvicted`, whatever commands and timers do |
| `subshell` | 2 threads, 2 pids, 4 requests, one stop or continuation, `FairSpec` | `ZombieWatched`, `WaitsForChild`, `FreshPipe`, `DaemonUnharmed`, and `ThreadReturns`: every request comes to an end |
| `shutdown` | N = 2, signals 2 and 15 (and 13 from writes), two handlers at a time | `NestedDown`, `CleanEnd`, `CrashWindow`, `EveryoneTold`, at any moment after the handlers are installed |
| `config` | all files of two lines out of about two hundred, five file names | `MeansFile`, `NamesFormed`, `NameChecked`; what an unclear number means is left open |
| `lifecycle` | 2 daemons, two passes in one, a report child of the other, 1 client that retries | Until a pass overruns: `OneDaemon`, `FreshNames`, `SegmentKept`, `OneSet`, while daemons stop, crash and overlap; and `CleanStop`, whatever passes overlap |

### Violations: what the code does against what it says

| run | what TLC finds |
|---|---|
| `adm_two_threads` | N = 2, no fault: `consumer` overwrites `pid` before the first thread has read it; one client gets both threads, the other waits for ever in `open` |
| `adm_lost_place` | N = 1: an end of input ends the service without freeing its table entry; the next client makes `consumer` exit |
| `subshell_shared_pipe` | a thread whose own command has ended waits in `read` for the endless command of another client, which inherited its pipe |
| `lifecycle_two_daemons` | a report child runs the daemon's handler and unlinks the guard of a daemon that serves; the next one starts beside it |
| `config_overflow` | TIMEOUT_DAEMON beyond `MAX_TIMEOUT` wraps around into the permitted range and is accepted |

`PROJECT.json` quotes, for each, the line of the repository that says otherwise.

### Bounds, and why they are enough

- `Admission`: with N = 2 and two clients the ring wraps, the queue is full and empty,
  two clients meet in the section and two threads share the table; restarts make the
  sequence of admissions unbounded. With N = 1 one client waits while the other is served,
  any number of times. Two threads suffice where at most N services run. The proofs cover
  every N, and every number of clients and threads, for the invariants and the refinement
  of `adm_faults`, and every number of clients and threads for the invariants of
  `adm_single`. No counter needs a bound: the semaphores never exceed N.
- `Session`: `MaxRequests` is the only bound; three commands have all orders of a pending,
  a running and an answered command, with a `quit` before, between and behind them.
- `Subshell`: two threads and the main thread are the three parties of a signal (the one
  it is sent to, another one that serves, the one that must not take it). Two pids are
  two children at once, of one thread or of two; four requests let each thread meet what
  a former child of either left. One stop or continuation shows what each can do.
- `Shutdown`: two handlers at a time are two in different threads or one inside the other;
  two threads are one entry before and one behind the place of `send_request_close`.
- `Config`: each line that sets a variable with each kind of value, each layout of a line,
  and every pair of them, so that a later line overrides or follows a bad one. `IntMax`
  127 and `SizeMax` 65535 stand for 2^31 - 1 and 2^64 - 1: values on both sides of each
  limit, ones that overflow to a permitted one and ones that overflow below 0. The proofs
  cover any lines, files of any length, any `IntMax` and any `SizeMax` above it.
- `Lifecycle`: two daemons are the one that ends and the one that comes next; each daemon
  starts once. Two passes in a daemon (`Repeated`) are one that gave the guard up and one
  that is late; one in a child (`Reporting`) is one that outlives its daemon. Each in one
  daemon keeps the instance small: they do not need each other. The client comes back as
  often as it likes. The proofs cover any number of all of them.
- Symmetry is used only in runs without temporal properties that it would disturb (in
  `lifecycle`, of the passes of a daemon): in `adm_faults` the refinement is checked as an
  action property of a safety specification.

`CHECK_DEADLOCK FALSE` is in every configuration: each of the systems may really stop
(all clients ended, the daemon waiting in `P(full)`; a session over; the last request
answered; the process ended; the file read; all daemons ended).

### Fairness

Processes and threads that can take a step take one: weak fairness of the client's own
steps, of the consumer, of each thread, of each handler of `SIGCHLD` and of each command
that is not endless. That is what the scheduler of the system promises, and `select` with
a timeout returns. Users promise nothing: nobody must start a client, type, or leave, and
no fault must happen. A pending signal is delivered. In `Admission` commands end, and
nobody types for ever: a user that over and over could pause for `timeout_daemon` does so
at some time (strong fairness of `LaterTimeout`; weak fairness would not do, as each command
disables it). Endless commands are not in that module; `ThreadEnds` and `QuitFrees` of
`Session` except them by name. Weak fairness of the other steps is enough for
`EveryoneConnected` in its instance: a client that waits for a semaphore competes with one
other, whose pid is not used again while `consumer` still holds it as the last one, so
that it cannot come twice in between. With more clients that keep coming one can lose
every race, since a semaphore promises no order among those who wait.

### Mutants

Each property of a passing run has a mutant: an operator next to the one it changes, and
marked "Mutant of", that a plausible mistake would turn the code into (a missing P, a
store after the increment, a forgotten V, `V(empty)` where the textbook has it, an entry
not given back, the guard removed first). The property fails when the mutant replaces
the original, which shows that it can tell the two apart.

## 4. Proofs

`Admission_proofs`, for every finite set of clients and threads and every N >= 1
(`ClientAssumption`, `ThreadAssumption`, `CapacityAssumption`):

- `TypeCorrect`, `ExclusionHolds`, `PlacesAreConserved`, `RingIsSafe`: the invariants
  `TypeOK`, `MutualExclusion`, `PlacesConserved` and `NoOverrun`. Together they are
  inductive. `NoOverrun` is not so alone: that a client about to store has room follows
  from `PlacesConserved`, in which it counts itself among the joining clients; and that
  `head` and `tail` do not move under a client's feet follows from `MutualExclusion`.
  The counts are cardinalities of sets of processes (`Joining`, `Queued`, `Busy`); the
  lemmas on how a step changes them come first, and each action is then one case.
- `Refinement`: the specification implements `BoundedQueue`. The queue is read off the
  ring from `Oldest` over `QueueLength` places; a pid enters it when `head` has moved and
  leaves when `remove_element` reads it, and every other step is a stutter.

`Handover_proofs`, under the same assumptions and with every fault:

- `LatestIsNotLost` (`LatestNotLost`), from the inductive `Handover`, which is the theorem
  `HandoverHolds`. A thread that ends while it holds the last pid would lose it; that it
  does not end early needs that it never gets ahead of its client in opening the pipes
  (`ThreadsBehind`), that a client writes nothing before it has opened both
  (`WritesLate`), that the daemon knows a client only after the client has stored its pid
  (`KnownAnnounced`), and that a pid is in the ring once, of a client that the daemon holds
  no trace of (`QueueFresh`). The queue is the one of `Refinement`.

`Single_proofs`, for any number of clients and threads. With N >= 2 these properties are
false (`adm_two_threads`), so N = 1 is a hypothesis of each theorem:

- `OneThread` (`OneThreadPerClient`), whatever faults occur: by `PlacesConserved` a thread
  that runs holds the only place (`Sole`).
- `PlaceIsOwned` (`PlaceOwned`), whatever faults occur, from `Entry`: a thread finds the
  only entry free when it is created, and nobody else writes it.
- `FreePlaceIsFound` (`FreePlaceForTaken`) and `OnlyLateWritesHarm` (`EndsByLateWrite`),
  when the only faults are the timeouts of both sides (`Undisturbed`): an end of input
  leaves no `quit` (`adm_lost_place`), and a signal may lose it behind a command. `Calm` is
  the inductive form. A client waits where it is when its thread opens the pipes
  (`HeldWaiting`), the two sides take turns (`Dialogue`), so that a `quit` is always in front
  of what is unread, and the entry is free outside of a service (`EntryFree`).

`Session_proofs`, for any number of requests, any kinds of commands and any events:

- `TypeCorrect` and `AnswersBelong`. `AnswersPaired` says nothing of messages under way;
  its inductive form `PairInv` follows the number of the last command through the system:
  unread in the question pipe (`CommandUnread`), in the thread (`CommandRunning`), or
  answered (`CommandAnswered`), and only in one of these places as long as the client
  waits. A client that gives up never reads an answer again, which is why a late one
  cannot be taken for the next.
- `QuietLeaveHarmless`: `QuietlyLeft` is stable until the thread has ended.

`Subshell_proofs`, for any set of threads and pids and any number of requests, with
`Zombie` and `None` no children (`ProcessAssumption`):

- `TypeCorrect`, and `NoZombieForgotten`, which is inductive: the step that makes a zombie
  leaves `SIGCHLD` pending, and the handler's loop ends only when there is none.
- `PipesAreFresh`: a thread that is not between `pipe` and `close` is in no child's `out`.
- `AnswersAfterTheEnd` and `CommandsHarmless`, both as long as no command has been stopped
  or continued, from `OrderlyInv`. A child that lives has a thread that waits for it
  (`Awaited`), so `SIGCHLD` is sent to a thread whose own child has ended; that thread, or
  whoever takes the signal because that one is in its handler, is in `fork` or
  `pthread_create`, which start over, or has no child that is alive (`SignalCalm`). No other
  thread is ever offered the signal, hence no `select`, `open` or `P` is interrupted, though
  the handlers run in any thread and reap each other's children.

`Shutdown_proofs`, for any number of threads and any termination signals:

- `TypeCorrect`; `FrameSet` collects the frames of all stacks, and the lemmas `Stacked`,
  `GotoGrows`, `NestedGrows` say which frame each kind of step adds.
- `NamesRemoved`, `SegmentRemoved`, `ClientsTold` (`CleanEnd`, `CrashWindow`,
  `EveryoneTold`), from `EndInv`: what was acquired goes in the order of `Disposal`
  (`Ordered`), so that whoever misses the table or `conf` knows that the names are gone;
  each frame knows what its handler has done (`Behind`), which stays true because handlers
  only remove and only tell; and before `main` is through only `main` can be in a handler
  (`Early`), so that nothing is acquired behind one.
- `HandlersNestDownwards` (`NestedDown`), from `MaskOrder`: a signal that the handler of
  `k` lets through is smaller than `k`, because the loop removes signals in ascending
  order and the signal itself is blocked.

`Lifecycle_proofs`, for every set of daemons and clients:

- `TypeCorrect`, with `Positions`, that the index into the lists of names stays in range.
- `OneDaemonRuns` (`OneDaemon`), until a pass overruns, which is the hypothesis inside each
  of the next three properties too. `OneDaemon` is not inductive; `GuardOwned` is. The guard
  exists whenever it has an owner, and there is at most one: a daemon from `TakeGuard` until
  the first of its passes has removed the guard, or a client between its two calls. A pass
  that comes after that may still remove names of semaphores, those of the next daemon
  among them (`DisposeOwner`).
- `NamesAreFree` and `SegmentIsKept`, from `Cleared` (what `RemoveOld` has passed and
  `Create` has not reached is gone) and `GuardOwned` (no other daemon creates meanwhile;
  one that removes the segment without overrunning still owns the guard).
- `ObjectsBelongTogether` (`OneSet`), from `HandleInv`: the segment is what a client opens
  first, and what other daemons had created is gone before a daemon creates its own.
- `StopsAreClean` (`CleanStop`) without that hypothesis, from `GuardAnswered` and
  `NamesAnswered`: whatever exists has a process that will remove it or that crashed. Each
  pass removes all the names, so the one that ends its daemon leaves none.

`Config_proofs`, for any symbols, lines and file names, files of any length, any limits and
any `IntMax` and `SizeMax` (`ConfigAssumption`):

- `TypeCorrect`, `NamesAreFormed` and `NameIsChecked`: together inductive (`ConfigInv`).
  `TypeOK` holds the limits of the numbers, as they are stored. `NamesFormed` counts the "/"
  and "%" of a name; its form without counting (`TextsFormed`) is what is kept.
- `FileMeans` (`MeansFile`): the reader and `Meaning` agree, unclear numbers apart.
  `LineMeans` says so of a line and `AddLine` of a line added to a file. Underneath,
  `TrimMeans` and `SplitMeans` say what `trim` and `strtok` return by positions, `PartsMean`
  that the two tokens are the first two stretches of `Meaning`, and `AtoiWraps` that `atoi`,
  which wraps after every digit, gives the whole number wrapped once, hence the number
  itself when an `int` holds it. The induction over the digits of a value is by the least
  counterexample (`Least`), because the library's induction theorems cannot be instantiated
  here; `Recursion` defines what a recursive function over 0 .. n computes.

So every invariant and the refinement that a passing run checks is stated by a theorem.
Only model-checked are the liveness properties (`QuitFrees`, `ClientGetsOn`, `ThreadEnds`,
`IdleEvicted`, `ThreadReturns`, `PlacesComeBack`, `EveryoneConnected`), which rest on
fairness and on `ENABLED`, out of the prover's reach, and the five violations.

## 5. What is not modelled, and other observations

Not modelled:

- the contents of the reports, the colours, messages and the Makefile, which only read,
  format or build; `count_digit`, `set_filename_pid`, `strndup`, `get_time_formatted`,
  which serve them or fill buffers;
- the masks of the client's handlers: it has one thread, and its loop is that of the
  daemon;
- the inside of a semaphore, hence `sem_init` on one that clients have opened
  (daemon.c:250): it can lose the wake-up of a client that waits;
- the contents and lengths of buffers, hence the zero one past the end after a `read` of
  `PIPE_BUF` bytes (daemon.c:475, 503, client.c:319, 373), and answers cut at `PIPE_BUF`;
- a configuration file edited between the start of the daemon and that of a client, which
  then count the ring modulo different capacities (client.c:141).

Met while reading, most of them without a run of their own:

- daemon.c:465: the text of a first timeout goes to a pipe the client looks at only after
  its next command, whose `write` meets a closed pipe. The user does not see it.
- daemon.c:481: `quit` read together with a command before it is not recognised; the entry
  of a client that is signalled while its command is unread stays taken, as after an end of
  input. "info_proc" is looked for anywhere in a request (`strstr`).
- daemon.c:504: the answer to a client that gave up (client.c:355-366) is written to a pipe
  without a reader; SIGPIPE runs the handler, which disposes of everything and ends the
  daemon for all clients. `EndsByLateWrite` says that this kind of write is the only end of
  a daemon with one place whose clients are undisturbed.
- daemon.c:420: a client interrupted after `V(full)` unlinks its pipes; the `open` of its
  thread fails and `exit` ends the daemon.
- daemon.c:315-318: the guard goes before the names of the semaphores. A successor can
  create its own in between and lose them; `SegmentKept` shows that the segment is safe
  until a pass overruns.
- client.c:264: a client killed between `P(mutex)` and `V(mutex)` keeps the mutex, and no
  client is admitted any more; one killed between `P(empty)` and `V(full)` keeps a place.
- daemon.c:709: a command that does not end, or that fills its pipe, keeps its thread and
  its entry after its client has left. The liveness properties of `Session` except it by name.
- daemon.c:643: children inherit the pipes of all threads (run `subshell_shared_pipe`).
- daemon.c:703: the answers to `info_proc` and `info_user` begin with the error of the
  child's second `close` of `pipefd[0]`, because that child goes on in `run`.
- daemon.c:96: once a command is stopped or continued, `SIGCHLD` may find a thread whose
  child lives: `waitpid` returns early, the answer is lost, and later signals can interrupt
  `P(full)` or an `open`, which ends the daemon, or the first `select`, which loses the entry.
- daemon.c:282: a second termination signal is handled by another thread while the first one
  is in `dispose_all`; both free the same things. `CleanEnd` shows that the names go; that
  the late pass may remove those of the next daemon is in `Lifecycle`.
- daemon.c:942: a signal before `conf` exists crashes the process, one before
  `pthread_alloc` exists ends it with the guard left behind; between its `malloc` and its
  filling `send_request_close` reads ids that were never written. The properties of
  `Shutdown` begin at `started >= 3`.
- config.c: keys that the file leaves out keep what `malloc` left; equal names for two
  semaphores are accepted; a blank line is a syntax error; a number that is left out is 0,
  and one that overflows is accepted when what is left of it is within the limits
  (`config_overflow`); ANTIFLOOD_CLIENT has no limits, and when it wraps below 0 the
  conversion to `size_t` (199) makes it one under which the client drops every command; the
  sign that `atoi` understands has been refused by `is_numeric`.
- config.c:287: `filename_format` may move the buffer with `realloc` while its caller keeps
  the old pointer. The buffer only shrinks, and the allocator leaves it in place.
- config.h:9 calls 1800 seconds "300 secondes équivalent à 30 minutes".

## 6. Plan

Done: `Admission` with `BoundedQueue`, `Session`, `Subshell`, `Shutdown`, `Lifecycle` and
`Config`, their runs, and the proofs of all invariants and of the refinement.

What is left, in this order:

1. Lemmas that the liveness properties rest on and that need no fairness: which step a
   thread or a client can take next, and that it brings it closer to the end.
2. `sem_init` on an open semaphore, with semaphores that have waiting processes, in
   `Lifecycle`.
3. Capacities that differ between client and daemon, with `Config` as the source of both.
