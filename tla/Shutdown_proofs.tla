-------------------------- MODULE Shutdown_proofs --------------------------
(***************************************************************************)
(* Proofs about Shutdown, for every number of threads, of handlers and     *)
(* every choice of signals.                                                *)
(***************************************************************************)
EXTENDS Shutdown, TLAPS

(***************************************************************************)
(* The two lists of objects.                                               *)
(***************************************************************************)
LEMMA StartList ==
  /\ Len(Start) = 7 /\ DOMAIN Start = 1 .. 7
  /\ Start[1] = "guard" /\ Start[2] = "conf" /\ Start[3] = "table"
  /\ Start[4] = "shm" /\ Start[5] = "semaphores" /\ Start[6] = "sems"
  /\ Start[7] = "map"
  BY DEF Start

LEMMA DisposalList ==
  /\ Len(Disposal) = 8 /\ DOMAIN Disposal = 1 .. 8
  /\ Disposal[1] = "fds" /\ Disposal[2] = "shm" /\ Disposal[3] = "sems"
  /\ Disposal[4] = "guard" /\ Disposal[5] = "semaphores"
  /\ Disposal[6] = "map" /\ Disposal[7] = "table" /\ Disposal[8] = "conf"
  BY DEF Disposal

(***************************************************************************)
(* The frames of all handlers, and what the two ways of changing a stack   *)
(* of frames do to them.                                                   *)
(***************************************************************************)
FrameSet == {f \in Frame : \E a \in Actors : \E k \in DOMAIN frames[a] :
                             frames[a][k] = f}

LEMMA Pushed ==
  ASSUME NEW s \in Seq(Frame), NEW f \in Frame
  PROVE  /\ <<f>> \o s \in Seq(Frame) /\ <<f>> \o s # << >>
         /\ \A k \in DOMAIN (<<f>> \o s) :
              (<<f>> \o s)[k] = f \/ \E j \in DOMAIN s : (<<f>> \o s)[k] = s[j]
  OBVIOUS

LEMMA Replaced ==
  ASSUME NEW s \in Seq(Frame), s # << >>, NEW f \in Frame
  PROVE  /\ <<f>> \o Tail(s) \in Seq(Frame) /\ <<f>> \o Tail(s) # << >>
         /\ \A k \in DOMAIN (<<f>> \o Tail(s)) :
              \/ (<<f>> \o Tail(s))[k] = f
              \/ \E j \in DOMAIN s : (<<f>> \o Tail(s))[k] = s[j]
  <1>1. Tail(s) \in Seq(Frame) /\ \A j \in DOMAIN Tail(s) : Tail(s)[j] = s[j + 1]
    OBVIOUS
  <1>2. \A j \in DOMAIN Tail(s) : j + 1 \in DOMAIN s
    OBVIOUS
  <1> QED
    BY <1>1, <1>2, Pushed

LEMMA TopFrame ==
  ASSUME TypeOK, NEW a \in Actors, frames[a] # << >>
  PROVE  Head(frames[a]) \in FrameSet
  <1>1. 1 \in DOMAIN frames[a] /\ Head(frames[a]) = frames[a][1]
    BY DEF TypeOK
  <1>2. frames[a][1] \in Frame
    BY <1>1 DEF TypeOK
  <1> QED
    BY <1>1, <1>2 DEF FrameSet

(* A step that gives the stack of a, or its top, a new frame. *)
LEMMA Stacked ==
  ASSUME TypeOK, NEW a \in Actors, NEW f \in Frame,
         \/ frames' = [frames EXCEPT ![a] = <<f>> \o frames[a]]
         \/ /\ frames[a] # << >>
            /\ frames' = [frames EXCEPT ![a] = <<f>> \o Tail(frames[a])]
  PROVE  /\ frames' \in [Actors -> Seq(Frame)]
         /\ frames'[a] # << >>
         /\ \A b \in Actors \ {a} : frames'[b] = frames[b]
         /\ FrameSet' \subseteq FrameSet \cup {f}
  <1>1. frames \in [Actors -> Seq(Frame)] /\ frames[a] \in Seq(Frame)
    BY DEF TypeOK
  <1> DEFINE r == frames'[a]
  <1>2. /\ r \in Seq(Frame) /\ r # << >>
        /\ \A k \in DOMAIN r : r[k] = f \/ \E j \in DOMAIN frames[a] : r[k] = frames[a][j]
    <2>1. CASE frames' = [frames EXCEPT ![a] = <<f>> \o frames[a]]
      <3>1. r = <<f>> \o frames[a]
        BY <1>1, <2>1
      <3> HIDE DEF r
      <3> QED
        BY ONLY <1>1, <3>1, Pushed, f \in Frame
    <2>2. CASE /\ frames[a] # << >>
               /\ frames' = [frames EXCEPT ![a] = <<f>> \o Tail(frames[a])]
      <3>1. r = <<f>> \o Tail(frames[a])
        BY <1>1, <2>2
      <3> HIDE DEF r
      <3> QED
        BY ONLY <1>1, <2>2, <3>1, Replaced, f \in Frame
    <2> QED
      BY <2>1, <2>2
  <1>3. \A b \in Actors \ {a} : frames'[b] = frames[b]
    BY <1>1
  <1>4. frames' \in [Actors -> Seq(Frame)]
    BY <1>1, <1>2
  <1>5. FrameSet' \subseteq FrameSet \cup {f}
    <2> SUFFICES ASSUME NEW g \in Frame, NEW b \in Actors,
                        NEW k \in DOMAIN frames'[b], frames'[b][k] = g, g # f
                 PROVE  g \in FrameSet
      BY DEF FrameSet
    <2>1. CASE b = a
      BY <1>2, <2>1 DEF FrameSet
    <2>2. CASE b # a
      BY <1>3, <2>2 DEF FrameSet
    <2> QED
      BY <2>1, <2>2
  <1> QED
    BY <1>2, <1>3, <1>4, <1>5

LEMMA SameFrames ==
  ASSUME frames' = frames
  PROVE  FrameSet' = FrameSet
  BY DEF FrameSet

Places == {"send", "check", "dispose", "exit"}

(* The frame that Goto puts on top. *)
Moved(a, place, i) ==
  [sig |-> Head(frames[a]).sig, at |-> place, i |-> i]

LEMMA GotoFrame ==
  ASSUME TypeOK, NEW a \in Actors, frames[a] # << >>,
         NEW place \in Places, NEW i \in Nat
  PROVE  /\ Moved(a, place, i) \in Frame
         /\ At(a, place, i) = <<Moved(a, place, i)>> \o Tail(frames[a])
  <1>1. Head(frames[a]) \in Frame
    BY TopFrame DEF FrameSet
  <1> QED
    BY <1>1 DEF At, Moved, Frame, Places

LEMMA PipeFrame ==
  [sig |-> SIGPIPE, at |-> "send", i |-> 1] \in Frame
  BY DEF Frame, Handled

(* The frames after a step are those before it and those of S, and only    *)
(* the stack of a has changed.                                             *)
Grows(a, S) ==
  /\ frames' \in [Actors -> Seq(Frame)]
  /\ frames'[a] # << >>
  /\ \A b \in Actors \ {a} : frames'[b] = frames[b]
  /\ FrameSet' \subseteq FrameSet \cup S

LEMMA EnteredGrows ==
  ASSUME TypeOK, NEW a \in Actors, NEW s \in Handled,
         frames' = [frames EXCEPT ![a] = Entered(a, s)]
  PROVE  Grows(a, {[sig |-> s, at |-> "send", i |-> 1]})
  <1>1. [sig |-> s, at |-> "send", i |-> 1] \in Frame
    BY DEF Frame
  <1> QED
    BY <1>1, Stacked DEF Entered, Grows

LEMMA GotoGrows ==
  ASSUME TypeOK, NEW a \in Actors, frames[a] # << >>,
         NEW place \in Places, NEW i \in Nat,
         Goto(a, place, i)
  PROVE  Grows(a, {Moved(a, place, i)})
  <1>1. frames' = [frames EXCEPT ![a] = <<Moved(a, place, i)>> \o Tail(frames[a])]
    BY GotoFrame DEF Goto
  <1> QED
    BY <1>1, GotoFrame, Stacked DEF Grows

(* SIGPIPE interrupts send_request_close(): both frames are new. *)
LEMMA NestedGrows ==
  ASSUME TypeOK, NEW a \in Actors, frames[a] # << >>, NEW i \in Nat,
         frames' = [frames EXCEPT ![a] =
                      <<[sig |-> SIGPIPE, at |-> "send", i |-> 1]>>
                        \o At(a, "send", i)]
  PROVE  Grows(a, {Moved(a, "send", i),
                   [sig |-> SIGPIPE, at |-> "send", i |-> 1]})
  <1> DEFINE f == Moved(a, "send", i)
  <1>1. f \in Frame /\ At(a, "send", i) = <<f>> \o Tail(frames[a])
    BY GotoFrame DEF Places
  <1> HIDE DEF f
  <1> DEFINE g == [sig |-> SIGPIPE, at |-> "send", i |-> 1]
             s == <<f>> \o Tail(frames[a])
             r == <<g>> \o s
  <1>2. g \in Frame
    BY PipeFrame
  <1>3. frames \in [Actors -> Seq(Frame)] /\ frames[a] \in Seq(Frame)
    BY DEF TypeOK
  <1>4. frames' = [frames EXCEPT ![a] = r]
    BY <1>1
  <1> HIDE DEF g
  <1>5. /\ s \in Seq(Frame)
        /\ \A k \in DOMAIN s : s[k] = f \/ \E j \in DOMAIN frames[a] : s[k] = frames[a][j]
    BY <1>1, <1>3, Replaced
  <1> HIDE DEF s
  <1>6. /\ r \in Seq(Frame) /\ r # << >>
        /\ \A k \in DOMAIN r : r[k] = g \/ \E j \in DOMAIN s : r[k] = s[j]
    BY <1>2, <1>5, Pushed
  <1> HIDE DEF r
  <1>7. frames' \in [Actors -> Seq(Frame)] /\ frames'[a] = r
        /\ \A b \in Actors \ {a} : frames'[b] = frames[b]
    BY <1>3, <1>4, <1>6
  <1>8. FrameSet' \subseteq FrameSet \cup {f, g}
    <2> SUFFICES ASSUME NEW h \in Frame, NEW b \in Actors,
                        NEW k \in DOMAIN frames'[b], frames'[b][k] = h,
                        h # f, h # g
                 PROVE  h \in FrameSet
      BY DEF FrameSet
    <2>1. CASE b = a
      BY <1>5, <1>6, <1>7, <2>1 DEF FrameSet
    <2>2. CASE b # a
      BY <1>7, <2>2 DEF FrameSet
    <2> QED
      BY <2>1, <2>2
  <1> QED
    BY <1>1, <1>6, <1>7, <1>8 DEF Grows, f, g

-----------------------------------------------------------------------------
(***************************************************************************)
(* Types.                                                                  *)
(***************************************************************************)
LEMMA TypeInit == Init => TypeOK
  BY ShutdownAssumption, StartList DEF Init, TypeOK

LEMMA SendType ==
  ASSUME TypeOK, NEW a \in Actors, SendRequestClose(a)
  PROVE  TypeOK'
  <1> DEFINE i == Head(frames[a]).i
  <1>1. frames[a] # << >> /\ i \in Nat /\ i + 1 \in Nat
    BY TopFrame DEF SendRequestClose, InHandler, FrameSet, Frame
  <1>2. told' \subseteq Threads
    BY DEF SendRequestClose, TypeOK
  <1>3. frames' \in [Actors -> Seq(Frame)]
    <2>1. CASE Goto(a, "send", i + 1)
      BY <1>1, <2>1, GotoGrows DEF Grows, Places
    <2>2. CASE Goto(a, "check", 1)
      BY <1>1, <2>2, GotoGrows DEF Grows, Places
    <2>3. CASE frames' = [frames EXCEPT ![a] =
                 <<[sig |-> SIGPIPE, at |-> "send", i |-> 1]>>
                   \o At(a, "send", i + 1)]
      BY <1>1, <2>3, NestedGrows DEF Grows
    <2>4. CASE UNCHANGED frames
      BY <2>4 DEF TypeOK
    <2> QED
      BY <2>1, <2>2, <2>3, <2>4 DEF SendRequestClose, EndProcess
  <1>4. ended' \in {ended, "handler"}
    BY DEF SendRequestClose, EndProcess, Goto
  <1> QED
    BY <1>2, <1>3, <1>4 DEF SendRequestClose, TypeOK, workVars

LEMMA HandlerType ==
  ASSUME TypeOK, NEW a \in Actors, HandlerStep(a)
  PROVE  TypeOK'
  <1>1. frames[a] # << >>
    BY DEF HandlerStep, SendRequestClose, Check, DisposeAll, Exit, InHandler
  <1>2. CASE Check(a)
    <2>1. frames' \in [Actors -> Seq(Frame)]
      BY <1>1, <1>2, GotoGrows DEF Check, Grows, Places
    <2>2. ended' = ended
      BY <1>2 DEF Check, Goto
    <2> QED
      BY <1>2, <2>1, <2>2 DEF Check, TypeOK, workVars
  <1>3. CASE DisposeAll(a)
    <2> DEFINE i == Head(frames[a]).i
    <2>1. i + 1 \in Nat
      BY <1>1, TopFrame DEF FrameSet, Frame
    <2>2. frames' \in [Actors -> Seq(Frame)]
      <3>1. CASE Goto(a, "exit", 1) \/ Goto(a, "dispose", i + 1)
        BY <1>1, <2>1, <3>1, GotoGrows DEF Grows, Places
      <3>2. CASE UNCHANGED frames
        BY <3>2 DEF TypeOK
      <3> QED
        BY <1>3, <3>1, <3>2 DEF DisposeAll, EndProcess
    <2>3. have' \subseteq have /\ ended' \in {ended, "handler"}
      BY <1>3 DEF DisposeAll, EndProcess, Goto
    <2> QED
      BY <1>3, <2>2, <2>3 DEF DisposeAll, TypeOK, workVars
  <1>4. CASE Exit(a)
    BY <1>4 DEF Exit, EndProcess, TypeOK, workVars
  <1> QED
    BY <1>2, <1>3, <1>4, SendType DEF HandlerStep

LEMMA WorkType ==
  ASSUME TypeOK, NEW t \in Threads,
         \/ Create(t) \/ Take(t) \/ Serve(t) \/ Post(t)
         \/ WorkerCrash(t) \/ GiveUp(t)
  PROVE  TypeOK'
  <1>1. CASE WorkerCrash(t) \/ GiveUp(t)
    BY <1>1 DEF WorkerCrash, GiveUp, EndProcess, TypeOK, workVars
  <1>2. CASE Create(t) \/ Take(t) \/ Serve(t) \/ Post(t)
    BY <1>2 DEF Create, Take, Serve, Post, Move, TypeOK
  <1> QED
    BY <1>1, <1>2

LEMMA TypeNext == TypeOK /\ [Next]_vars => TypeOK'
  <1> SUFFICES ASSUME TypeOK, [Next]_vars PROVE TypeOK'
    OBVIOUS
  <1>1. CASE Acquire
    BY <1>1, StartList DEF Acquire, TypeOK
  <1>2. ASSUME NEW s \in Signals, Arrive(s) PROVE TypeOK'
    <2>1. s \in Handled
      BY ShutdownAssumption
    <2>2. frames' \in [Actors -> Seq(Frame)]
      BY <1>2, <2>1, EnteredGrows DEF Arrive, Grows
    <2> QED
      BY <1>2, <2>2 DEF Arrive, TypeOK, workVars
  <1>3. ASSUME NEW t \in Threads, BrokenPipe(t) PROVE TypeOK'
    <2>1. t \in Actors /\ SIGPIPE \in Handled
      BY DEF Actors, Threads, Handled
    <2>2. frames' \in [Actors -> Seq(Frame)]
      BY <1>3, <2>1, EnteredGrows DEF BrokenPipe, Grows
    <2> QED
      BY <1>3, <2>2 DEF BrokenPipe, TypeOK, workVars
  <1>4. CASE UNCHANGED vars
    BY <1>4 DEF vars, workVars, TypeOK
  <1> QED
    BY <1>1, <1>2, <1>3, <1>4, HandlerType, WorkType DEF Next

(* Every variable keeps its type, however handlers interrupt each other:   *)
(* send_request_close() tells nobody who is not in the table.              *)
THEOREM TypeCorrect == Spec => []TypeOK
  BY TypeInit, TypeNext, PTL DEF Spec

-----------------------------------------------------------------------------
(***************************************************************************)
(* What is left when the process ends.                                     *)
(***************************************************************************)
Got == {Start[k] : k \in 1 .. started}

Informed == registered \subseteq told \cup late

(* The process has only what main() acquired, all of it without a handler. *)
Acquired ==
  /\ have \subseteq Got
  /\ FrameSet = {} => have = Got

(* Before main() is through there is no thread, hence no handler in one.   *)
Early ==
  started < Len(Start) =>
    /\ \A t \in Threads : tpc[t] = "none" /\ frames[t] = << >>
    /\ registered = {}

(* What was acquired goes in the order of Disposal, ...                    *)
Ordered ==
  \A i \in DOMAIN Disposal : \A j \in 1 .. i :
    Disposal[j] \in have /\ Disposal[i] \in Got => Disposal[i] \in have

(* ... after the clients were told.                                        *)
ToldFirst ==
  started >= 3 /\ ~({"conf", "table"} \subseteq have) => Informed

(* What the place of a handler says about what it has done.                *)
Behind(f) ==
  /\ f.at = "send" => \A t \in registered : t < f.i => t \in told \cup late
  /\ f.at # "send" => Informed
  /\ f.at = "dispose" => /\ started >= 3 /\ f.i \in DOMAIN Disposal
                         /\ \A j \in 1 .. f.i - 1 : Disposal[j] \notin have
  /\ f.at = "exit" /\ started >= 3 => have \cap Names = {}

HandlersOrderly == \A f \in FrameSet : Behind(f)

EndInv ==
  /\ TypeOK /\ Acquired /\ Early /\ Ordered /\ ToldFirst /\ HandlersOrderly
  /\ CleanEnd /\ CrashWindow /\ EveryoneTold

LEMMA NoFrames ==
  ASSUME TypeOK
  PROVE  FrameSet = {} <=> \A a \in Actors : frames[a] = << >>
  <1>1. ASSUME NEW a \in Actors, frames[a] # << >> PROVE FrameSet # {}
    BY <1>1, TopFrame
  <1>2. ASSUME \A a \in Actors : frames[a] = << >> PROVE FrameSet = {}
    BY <1>2 DEF FrameSet
  <1> QED
    BY <1>1, <1>2

LEMMA GotNames ==
  ASSUME TypeOK, started >= 3
  PROVE  {"guard", "conf", "table"} \subseteq Got
  <1>1. started \in Nat
    BY StartList DEF TypeOK
  <1>2. 1 \in 1 .. started /\ 2 \in 1 .. started /\ 3 \in 1 .. started
    BY <1>1
  <1> QED
    BY <1>2, StartList DEF Got

LEMMA GotAll ==
  ASSUME TypeOK, started = Len(Start)
  PROVE  {"sems", "map"} \subseteq Got /\ started >= 3
  <1>1. 6 \in 1 .. started /\ 7 \in 1 .. started
    BY StartList
  <1> QED
    BY <1>1, StartList DEF Got

(* Whatever is lost, what Disposal has before it is lost as well. *)
LEMMA LostInOrder ==
  ASSUME Ordered
  PROVE  /\ \A x \in {"map", "table", "conf"} :
               x \in Got \ have => have \cap (Names \cup {"sems"}) = {}
         /\ "sems" \in Got \ have => "shm" \notin have
  <1>1. \A i \in 1 .. 8 : \A j \in 1 .. i :
          Disposal[j] \in have /\ Disposal[i] \in Got => Disposal[i] \in have
    BY DisposalList DEF Ordered
  <1>2. \A i \in 6 .. 8 : Disposal[i] \in Got \ have =>
          \A j \in 2 .. 5 : Disposal[j] \notin have
    BY <1>1
  <1>3. Names \cup {"sems"} = {Disposal[2], Disposal[3], Disposal[4], Disposal[5]}
    BY DisposalList DEF Names
  <1>4. \A i \in 6 .. 8 : Disposal[i] \in Got \ have => have \cap (Names \cup {"sems"}) = {}
    <2>1. 2 \in 2 .. 5 /\ 3 \in 2 .. 5 /\ 4 \in 2 .. 5 /\ 5 \in 2 .. 5
      OBVIOUS
    <2> QED
      BY <1>2, <1>3, <2>1
  <1>5. 6 \in 6 .. 8 /\ 7 \in 6 .. 8 /\ 8 \in 6 .. 8 /\ 2 \in 1 .. 3 /\ 3 \in 1 .. 8
    OBVIOUS
  <1>6. \A x \in {"map", "table", "conf"} :
          x \in Got \ have => have \cap (Names \cup {"sems"}) = {}
    BY <1>4, <1>5, DisposalList
  <1>7. "sems" \in Got \ have => "shm" \notin have
    BY <1>1, <1>5, DisposalList
  <1> QED
    BY <1>6, <1>7

(* Once there is a table, a handler that misses it or conf leaves nothing. *)
LEMMA NothingLeft ==
  ASSUME EndInv, started >= 3, ~({"conf", "table"} \subseteq have)
  PROVE  have \cap Names = {} /\ Informed
  BY GotNames, LostInOrder DEF EndInv, ToldFirst

LEMMA GrownFrames ==
  ASSUME NEW a \in Actors, NEW S, Grows(a, S)
  PROVE  FrameSet' # {}
  <1>1. frames'[a] \in Seq(Frame) /\ frames'[a] # << >>
    BY DEF Grows
  <1>2. 1 \in DOMAIN frames'[a] /\ frames'[a][1] \in Frame
    BY <1>1
  <1> QED
    BY <1>2 DEF FrameSet

LEMMA EarlyKeeps ==
  ASSUME Early, NEW a \in Actors, NEW S, Grows(a, S), UNCHANGED workVars,
         a = Main \/ frames[a] # << >> \/ tpc[a] # "none"
  PROVE  Early'
  <1> SUFFICES ASSUME started < Len(Start)
               PROVE  \A t \in Threads : frames'[t] = << >>
    BY DEF Early, workVars
  <1>1. \A t \in Threads : t # a
    BY DEF Early, Main, Threads
  <1> QED
    BY <1>1 DEF Early, Grows, Actors, Threads

(* A handler is entered, or goes on, without touching what is shared. *)
LEMMA FramesKeep ==
  ASSUME EndInv, TypeOK', NEW a \in Actors, NEW S, Grows(a, S),
         a = Main \/ frames[a] # << >> \/ tpc[a] # "none",
         \A f \in S : Behind(f)',
         UNCHANGED <<have, workVars, ended>>, told \subseteq told'
  PROVE  EndInv'
  <1>1. Got' = Got /\ (Informed => Informed')
    BY DEF Got, Informed, workVars
  <1>2. Acquired'
    BY <1>1, GrownFrames DEF EndInv, Acquired
  <1>3. Early'
    BY EarlyKeeps DEF EndInv
  <1>4. Ordered' /\ ToldFirst'
    BY <1>1 DEF EndInv, Ordered, ToldFirst, workVars
  <1>5. HandlersOrderly'
    <2>1. \A f : Behind(f) => Behind(f)'
      BY DEF Behind, Informed, workVars
    <2> QED
      BY <2>1 DEF EndInv, HandlersOrderly, Grows
  <1>6. CleanEnd' /\ CrashWindow' /\ EveryoneTold'
    BY DEF EndInv, CleanEnd, CrashWindow, EveryoneTold, workVars
  <1> QED
    BY <1>2, <1>3, <1>4, <1>5, <1>6 DEF EndInv

(* The process ends. *)
LEMMA EndKeeps ==
  ASSUME EndInv, TypeOK', UNCHANGED <<have, workVars, frames, told>>,
         CleanEnd', CrashWindow', EveryoneTold'
  PROVE  EndInv'
  <1>1. Got' = Got /\ FrameSet' = FrameSet
    BY SameFrames DEF Got, workVars
  <1>2. Acquired' /\ Early' /\ Ordered' /\ ToldFirst' /\ HandlersOrderly'
    BY <1>1 DEF EndInv, Acquired, Early, Ordered, ToldFirst, HandlersOrderly,
                Behind, Informed, workVars
  <1> QED
    BY <1>2 DEF EndInv

LEMMA EndInit == Init => EndInv
  <1> SUFFICES ASSUME Init PROVE EndInv
    OBVIOUS
  <1>1. TypeOK
    BY TypeInit
  <1>2. FrameSet = {}
    BY <1>1, NoFrames DEF Init
  <1>3. Got = {}
    BY DEF Init, Got
  <1>4. Acquired /\ Early /\ Ordered /\ ToldFirst /\ HandlersOrderly
    BY <1>2, <1>3 DEF Init, Acquired, Early, Ordered, ToldFirst, HandlersOrderly, Actors, Threads
  <1>5. CleanEnd /\ CrashWindow /\ EveryoneTold
    BY DEF Init, CleanEnd, CrashWindow, EveryoneTold
  <1> QED
    BY <1>1, <1>4, <1>5 DEF EndInv

LEMMA AcquireEnd ==
  ASSUME EndInv, TypeOK', Acquire
  PROVE  EndInv'
  <1>1. started \in Nat /\ started < 7 /\ started' = started + 1 /\ ended = "no"
    BY StartList DEF Acquire, EndInv, TypeOK, Works
  <1>2. \A a \in Actors : frames[a] = << >>
    BY DEF EndInv, Early, Acquire, Works, Main, Actors, Threads
  <1>3. FrameSet = {} /\ FrameSet' = {}
    BY <1>2, NoFrames, SameFrames DEF EndInv, Acquire
  <1>4. have' = Got'
    <2>1. 1 .. started' = (1 .. started) \cup {started'}
      BY <1>1
    <2> QED
      BY <1>3, <2>1 DEF EndInv, Acquired, Acquire, Got
  <1>5. Acquired' /\ Ordered' /\ HandlersOrderly'
    BY <1>3, <1>4 DEF Acquired, Ordered, HandlersOrderly
  <1>6. Early' /\ ToldFirst'
    BY <1>1, StartList DEF EndInv, Early, ToldFirst, Informed, Acquire
  <1>7. CleanEnd' /\ CrashWindow' /\ EveryoneTold'
    BY <1>1 DEF Acquire, CleanEnd, CrashWindow, EveryoneTold
  <1> QED
    BY <1>5, <1>6, <1>7 DEF EndInv

(* A signal is delivered, or an answer breaks its pipe. *)
LEMMA EnterEnd ==
  ASSUME EndInv, TypeOK',
         \/ \E s \in Signals : Arrive(s)
         \/ \E t \in Threads : BrokenPipe(t)
  PROVE  EndInv'
  <1>1. PICK a \in Actors, s \in Handled :
          /\ frames' = [frames EXCEPT ![a] = Entered(a, s)]
          /\ a = Main \/ tpc[a] # "none"
          /\ UNCHANGED <<have, workVars, told, ended>>
    <2>1. CASE \E s \in Signals : Arrive(s)
      BY <2>1, ShutdownAssumption DEF Arrive
    <2>2. CASE \E t \in Threads : BrokenPipe(t)
      <3>1. Threads \subseteq Actors /\ SIGPIPE \in Handled
        BY DEF Threads, Actors, Handled
      <3> QED
        BY <2>2, <3>1 DEF BrokenPipe
    <2> QED
      BY <2>1, <2>2
  <1> DEFINE f == [sig |-> s, at |-> "send", i |-> 1]
  <1>2. Grows(a, {f})
    BY <1>1, EnteredGrows DEF EndInv
  <1>3. Behind(f)'
    <2>1. \A t \in registered' : ~(t < 1)
      BY ShutdownAssumption DEF TypeOK, Threads
    <2> QED
      BY <2>1 DEF Behind
  <1> HIDE DEF f
  <1> QED
    BY <1>1, <1>2, <1>3, FramesKeep

LEMMA SendEnd ==
  ASSUME EndInv, TypeOK', NEW a \in Actors, SendRequestClose(a)
  PROVE  EndInv'
  <1> DEFINE i == Head(frames[a]).i
  <1>1. /\ TypeOK /\ frames[a] # << >> /\ i \in Nat /\ i + 1 \in Nat
        /\ Head(frames[a]) \in FrameSet /\ Head(frames[a]).at = "send"
    BY TopFrame DEF SendRequestClose, InHandler, FrameSet, Frame, EndInv
  <1>2. \A t \in registered : t < i => t \in told \cup late
    BY <1>1 DEF EndInv, HandlersOrderly, Behind
  <1>3. /\ ended = "no" /\ UNCHANGED <<have, workVars>> /\ told \subseteq told'
        /\ registered \subseteq Threads
    BY <1>1 DEF SendRequestClose, InHandler, TypeOK
  <1>4. CASE /\ "conf" \notin have \/ ("table" \notin have /\ i <= N)
             /\ EndProcess("handler")
             /\ UNCHANGED told
    <2>1. started >= 3 => have \cap Names = {} /\ Informed
      BY <1>4, NothingLeft
    <2>2. CleanEnd' /\ CrashWindow' /\ EveryoneTold'
      BY <1>3, <1>4, <2>1 DEF EndProcess, CleanEnd, CrashWindow, EveryoneTold,
                              Informed, workVars
    <2> QED
      BY <1>3, <1>4, <2>2, EndKeeps DEF EndProcess
  <1>5. CASE /\ {"conf", "table"} \subseteq have /\ i <= N
             /\ \/ i \notin registered /\ Goto(a, "send", i + 1) /\ UNCHANGED told
                \/ /\ i \in registered
                   /\ told' = told \cup {i}
                   /\ \/ Goto(a, "send", i + 1)
                      \/ /\ frames' = [frames EXCEPT ![a] =
                              <<[sig |-> SIGPIPE, at |-> "send", i |-> 1]>>
                                \o At(a, "send", i + 1)]
                         /\ UNCHANGED ended
    <2> DEFINE g == [sig |-> SIGPIPE, at |-> "send", i |-> 1]
    <2>0. PICK f : f = Moved(a, "send", i + 1)
      OBVIOUS
    <2>1. ended' = ended /\ (i \in registered => i \in told')
      BY <1>5 DEF Goto
    <2>2. Behind(f)'
      <3>1. f.at = "send" /\ f.i = i + 1
        BY <2>0 DEF Moved
      <3>2. \A t \in registered' : t < i + 1 => t \in told' \cup late'
        BY <1>1, <1>2, <1>3, <2>1 DEF Threads, workVars
      <3> QED
        BY <3>1, <3>2 DEF Behind
    <2>3. Behind(g)'
      <3>1. \A t \in registered' : ~(t < 1)
        BY ShutdownAssumption DEF TypeOK, Threads
      <3> QED
        BY <3>1 DEF Behind
    <2>4. Grows(a, {f}) \/ Grows(a, {f, g})
      BY <1>1, <1>5, <2>0, GotoGrows, NestedGrows DEF Places
    <2> HIDE DEF g
    <2> QED
      BY <1>1, <1>3, <2>1, <2>2, <2>3, <2>4, FramesKeep
  <1>6. CASE /\ i > N \/ started = 2
             /\ Goto(a, "check", 1)
             /\ UNCHANGED told
    <2>0. PICK f : f = Moved(a, "check", 1)
      OBVIOUS
    <2>1. Informed
      <3>1. CASE i > N
        BY <1>1, <1>2, <1>3, <3>1, ShutdownAssumption DEF Informed, Threads
      <3>2. CASE started = 2
        BY <3>2, StartList DEF EndInv, Early, Informed
      <3> QED
        BY <1>6, <3>1, <3>2
    <2>2. Behind(f)'
      BY <1>3, <1>6, <2>0, <2>1 DEF Behind, Moved, Informed, workVars
    <2>3. Grows(a, {f}) /\ ended' = ended
      BY <1>1, <1>6, <2>0, GotoGrows DEF Places, Goto
    <2> QED
      BY <1>1, <1>3, <2>2, <2>3, FramesKeep
  <1> QED
    BY <1>4, <1>5, <1>6 DEF SendRequestClose

LEMMA CheckEnd ==
  ASSUME EndInv, TypeOK', NEW a \in Actors, Check(a)
  PROVE  EndInv'
  <1>1. /\ TypeOK /\ frames[a] # << >>
        /\ Head(frames[a]) \in FrameSet /\ Head(frames[a]).at = "check"
    BY TopFrame DEF Check, InHandler, EndInv
  <1>2. Informed
    BY <1>1 DEF EndInv, HandlersOrderly, Behind
  <1>3. UNCHANGED <<have, workVars, told, ended>>
    BY DEF Check, Goto
  <1>4. CASE {"conf", "table"} \subseteq have /\ Goto(a, "dispose", 1)
    <2>0. PICK f : f = Moved(a, "dispose", 1)
      OBVIOUS
    <2>1. started >= 3
      <3>1. "table" \in Got /\ started \in Nat
        BY <1>4 DEF EndInv, Acquired, TypeOK
      <3>2. PICK k \in 1 .. started : Start[k] = "table"
        BY <3>1 DEF Got
      <3>3. k \in 1 .. 7
        BY <1>1, <3>1, <3>2, StartList DEF TypeOK
      <3>4. k = 3
        BY <3>2, <3>3, StartList
      <3> QED
        BY <3>1, <3>2, <3>4
    <2>2. Behind(f)'
      BY <1>2, <1>3, <2>0, <2>1, DisposalList DEF Behind, Moved, Informed, workVars
    <2>3. Grows(a, {f})
      BY <1>1, <1>4, <2>0, GotoGrows DEF Places
    <2> QED
      BY <1>1, <1>3, <2>2, <2>3, FramesKeep
  <1>5. CASE ~({"conf", "table"} \subseteq have) /\ Goto(a, "exit", 1)
    <2>0. PICK f : f = Moved(a, "exit", 1)
      OBVIOUS
    <2>1. started >= 3 => have \cap Names = {}
      BY <1>5, NothingLeft
    <2>2. Behind(f)'
      BY <1>2, <1>3, <2>0, <2>1 DEF Behind, Moved, Informed, workVars
    <2>3. Grows(a, {f})
      BY <1>1, <1>5, <2>0, GotoGrows DEF Places
    <2> QED
      BY <1>1, <1>3, <2>2, <2>3, FramesKeep
  <1> QED
    BY <1>4, <1>5 DEF Check

LEMMA ExitEnd ==
  ASSUME EndInv, TypeOK', NEW a \in Actors, Exit(a)
  PROVE  EndInv'
  <1>1. Head(frames[a]) \in FrameSet /\ Head(frames[a]).at = "exit"
    BY TopFrame DEF Exit, InHandler, EndInv
  <1>2. Informed /\ (started >= 3 => have \cap Names = {})
    BY <1>1 DEF EndInv, HandlersOrderly, Behind
  <1>3. CleanEnd' /\ CrashWindow' /\ EveryoneTold'
    BY <1>2 DEF Exit, EndProcess, CleanEnd, CrashWindow, EveryoneTold,
                Informed, workVars
  <1> QED
    BY <1>3, EndKeeps DEF Exit, EndProcess

LEMMA DisposeEnd ==
  ASSUME EndInv, TypeOK', NEW a \in Actors, DisposeAll(a)
  PROVE  EndInv'
  <1> DEFINE i == Head(frames[a]).i
  <1>1. /\ TypeOK /\ frames[a] # << >>
        /\ Head(frames[a]) \in FrameSet /\ Head(frames[a]).at = "dispose"
    BY TopFrame DEF DisposeAll, InHandler, EndInv
  <1>2. /\ Informed /\ started >= 3 /\ i \in 1 .. 8
        /\ \A j \in 1 .. i - 1 : Disposal[j] \notin have
    BY <1>1, DisposalList DEF EndInv, HandlersOrderly, Behind
  <1>3. ended = "no" /\ UNCHANGED <<workVars, told>>
    BY DEF DisposeAll, InHandler
  <1>4. CASE /\ ~(Reads(Disposal[i]) \subseteq have)
             /\ EndProcess("handler") /\ UNCHANGED have
    <2>1. ~({"conf", "table"} \subseteq have)
      BY <1>4 DEF Reads
    <2>2. have \cap Names = {}
      BY <1>2, <2>1, NothingLeft
    <2>3. CleanEnd' /\ CrashWindow' /\ EveryoneTold'
      BY <1>2, <1>3, <1>4, <2>2 DEF EndProcess, CleanEnd, CrashWindow,
                                    EveryoneTold, Informed, workVars
    <2> QED
      BY <1>3, <1>4, <2>3, EndKeeps DEF EndProcess
  <1>5. CASE /\ have' = have \ {Disposal[i]}
             /\ IF i = Len(Disposal) THEN Goto(a, "exit", 1)
                ELSE Goto(a, "dispose", i + 1)
    <2>1. PICK f : f = IF i = 8 THEN Moved(a, "exit", 1)
                       ELSE Moved(a, "dispose", i + 1)
      OBVIOUS
    <2>2. Grows(a, {f}) /\ ended' = ended
      BY <1>1, <1>2, <1>5, <2>1, DisposalList, GotoGrows DEF Places, Goto
    <2>3. Got' = Got /\ Informed'
      BY <1>2, <1>3 DEF Got, Informed, workVars
    <2>4. Acquired'
      BY <1>5, <2>2, <2>3, GrownFrames DEF EndInv, Acquired
    <2>5. Early'
      BY <1>1, <1>3, <2>2, EarlyKeeps DEF EndInv
    <2>6. Ordered'
      <3> SUFFICES ASSUME NEW k \in 1 .. 8, NEW j \in 1 .. k,
                          Disposal[j] \in have', Disposal[k] \in Got'
                   PROVE  Disposal[k] \in have'
        BY DisposalList DEF Ordered
      <3>1. Disposal[j] \in have /\ j # i /\ Disposal[k] \in have
        BY <1>5, <2>3, DisposalList DEF EndInv, Ordered
      <3>2. ~(j < i)
        BY <1>2, <3>1
      <3>3. k # i
        BY <1>2, <3>1, <3>2
      <3>4. Disposal[k] # Disposal[i]
        BY <1>2, <3>3, DisposalList
      <3> QED
        BY <1>5, <3>1, <3>4
    <2>7. ToldFirst'
      BY <2>3 DEF ToldFirst
    <2>8. Behind(f)'
      <3>1. \A j \in 1 .. i : Disposal[j] \notin have'
        BY <1>2, <1>5
      <3>2. CASE i = 8
        <4>1. 2 \in 1 .. i /\ 4 \in 1 .. i /\ 5 \in 1 .. i
          BY <3>2
        <4>2. have' \cap Names = {}
          BY <3>1, <4>1, DisposalList DEF Names
        <4>3. f.at = "exit"
          BY <2>1, <3>2 DEF Moved
        <4> QED
          BY <2>3, <4>2, <4>3 DEF Behind
      <3>3. CASE i # 8
        <4>1. f.at = "dispose" /\ f.i = i + 1 /\ f.i - 1 = i /\ f.i \in 1 .. 8
          BY <1>2, <2>1, <3>3 DEF Moved
        <4>2. started' >= 3
          BY <1>2, <1>3 DEF workVars
        <4> QED
          BY <2>3, <3>1, <4>1, <4>2, DisposalList DEF Behind
      <3> QED
        BY <3>2, <3>3
    <2>9. HandlersOrderly'
      <3>1. \A h : Behind(h) => Behind(h)'
        BY <1>3, <1>5, <2>3 DEF Behind, workVars
      <3> QED
        BY <2>2, <2>8, <3>1 DEF EndInv, HandlersOrderly, Grows
    <2>10. CleanEnd' /\ CrashWindow' /\ EveryoneTold'
      BY <1>3, <2>2 DEF CleanEnd, CrashWindow, EveryoneTold
    <2> QED
      BY <2>4, <2>5, <2>6, <2>7, <2>9, <2>10 DEF EndInv
  <1> QED
    BY <1>4, <1>5 DEF DisposeAll

(* A thread, or main() for it, takes a step of its work. *)
LEMMA MoveEnd ==
  ASSUME EndInv, TypeOK', NEW t \in Threads,
         Create(t) \/ Take(t) \/ Serve(t) \/ Post(t)
  PROVE  EndInv'
  <1>1. /\ ended = "no" /\ started = Len(Start)
        /\ UNCHANGED <<have, started, frames, told, ended>>
    BY DEF Create, Take, Serve, Post, Move, Works
  <1>2. late \subseteq late' /\ (FrameSet # {} => registered' \subseteq registered \cup late')
    BY NoFrames DEF EndInv, Create, Take, Serve, Post
  <1>3. Got' = Got /\ FrameSet' = FrameSet
    BY <1>1, SameFrames DEF Got
  <1>4. FrameSet # {} => (Informed => Informed')
    BY <1>1, <1>2 DEF Informed
  <1>5. Acquired' /\ Ordered' /\ Early'
    BY <1>1, <1>3 DEF EndInv, Acquired, Ordered, Early
  <1>6. ToldFirst'
    <2> SUFFICES ASSUME ~({"conf", "table"} \subseteq have) PROVE Informed'
      BY <1>1 DEF ToldFirst
    <2>1. started >= 3
      BY <1>1, StartList
    <2>2. FrameSet # {}
      BY <2>1, GotNames DEF EndInv, Acquired
    <2> QED
      BY <1>4, <2>1, <2>2, NothingLeft
  <1>7. HandlersOrderly'
    <2> SUFFICES ASSUME NEW f \in FrameSet, Behind(f) PROVE Behind(f)'
      BY <1>3 DEF EndInv, HandlersOrderly
    <2> QED
      BY <1>1, <1>2, <1>4 DEF Behind
  <1>8. CleanEnd' /\ CrashWindow' /\ EveryoneTold'
    BY <1>1 DEF CleanEnd, CrashWindow, EveryoneTold
  <1> QED
    BY <1>5, <1>6, <1>7, <1>8 DEF EndInv

LEMMA CrashEnd ==
  ASSUME EndInv, TypeOK', NEW t \in Threads, WorkerCrash(t) \/ GiveUp(t)
  PROVE  EndInv'
  <1>1. /\ UNCHANGED <<have, workVars, frames, told>>
        /\ ended' = "worker" \/ ended' = "failure"
    BY DEF WorkerCrash, GiveUp, EndProcess
  <1>2. CleanEnd' /\ EveryoneTold'
    BY <1>1 DEF CleanEnd, EveryoneTold
  <1>3. CrashWindow'
    <2>1. CASE GiveUp(t)
      BY <2>1 DEF GiveUp, EndProcess, CrashWindow
    <2>2. CASE WorkerCrash(t)
      <3>1. {"sems", "map", "conf", "table"} \subseteq Got
        BY <2>2, GotAll, GotNames DEF WorkerCrash, EndInv
      <3>2. PICK x \in {"sems", "map", "conf", "table"} : x \notin have
        <4>1. tpc[t] \in {"none", "take", "serve", "post"}
          BY DEF EndInv, TypeOK
        <4>2. Uses(tpc[t]) \subseteq {"sems", "map", "conf", "table"}
          BY <4>1 DEF Uses
        <4> QED
          BY <2>2, <4>2 DEF WorkerCrash
      <3>3. \/ have \cap Names = {}
            \/ "sems" \notin have /\ "shm" \notin have
        BY <3>1, <3>2, LostInOrder DEF EndInv
      <3> QED
        BY <1>1, <3>3 DEF CrashWindow
    <2> QED
      BY <2>1, <2>2
  <1> QED
    BY <1>1, <1>2, <1>3, EndKeeps

LEMMA EndNext == EndInv /\ [Next]_vars => EndInv'
  <1> SUFFICES ASSUME EndInv, [Next]_vars PROVE EndInv'
    OBVIOUS
  <1>1. TypeOK'
    BY TypeNext DEF EndInv
  <1>2. CASE UNCHANGED vars
    <2>1. Got' = Got /\ FrameSet' = FrameSet
      BY <1>2, SameFrames DEF Got, vars, workVars
    <2> QED
      BY <1>1, <1>2, <2>1
         DEF EndInv, Acquired, Early, Ordered, ToldFirst, HandlersOrderly, Behind,
             Informed, CleanEnd, CrashWindow, EveryoneTold, vars, workVars
  <1> QED
    BY <1>1, <1>2, AcquireEnd, EnterEnd, SendEnd, CheckEnd, DisposeEnd, ExitEnd,
       MoveEnd, CrashEnd DEF Next, HandlerStep

(* Of several handlers that run at once, in whatever order their steps     *)
(* mix, the one that ends the process leaves no name behind, provided that *)
(* main() has allocated pthread_alloc.                                     *)
THEOREM NamesRemoved == Spec => []CleanEnd
  <1>1. EndInv => CleanEnd
    BY DEF EndInv
  <1> QED
    BY <1>1, EndInit, EndNext, PTL DEF Spec

(* A thread that dispose_all() pulls the objects away from can end the     *)
(* daemon early, but never with the segment of the clients still there.    *)
THEOREM SegmentRemoved == Spec => []CrashWindow
  <1>1. EndInv => CrashWindow
    BY DEF EndInv
  <1> QED
    BY <1>1, EndInit, EndNext, PTL DEF Spec

(* A handler that reaches exit(), or dies on what another one has freed,   *)
(* does so after every client it had to tell was told.                     *)
THEOREM ClientsTold == Spec => []EveryoneTold
  <1>1. EndInv => EveryoneTold
    BY DEF EndInv
  <1> QED
    BY <1>1, EndInit, EndNext, PTL DEF Spec

-----------------------------------------------------------------------------
(***************************************************************************)
(* The masks.                                                              *)
(***************************************************************************)
(* What a handler lets through is smaller than its own signal. *)
LEMMA MaskOrder ==
  ASSUME NEW s \in Handled, NEW k \in Handled, s \notin Blocks(k)
  PROVE  s < k
  <1>1. s \in 1 .. SIGTSTP /\ k \in 1 .. SIGTSTP
    BY DEF Handled, SIGTSTP, SIGPIPE
  <1> QED
    BY <1>1 DEF Blocks, saMask

Descending(s) == \A k \in 2 .. Len(s) : s[k - 1].sig < s[k].sig

LEMMA PushedDescends ==
  ASSUME NEW s \in Seq(Frame), NEW f \in Frame, Descending(s),
         s # << >> => f.sig < s[1].sig
  PROVE  Descending(<<f>> \o s)
  <1> SUFFICES ASSUME NEW k \in 2 .. Len(<<f>> \o s)
               PROVE  (<<f>> \o s)[k - 1].sig < (<<f>> \o s)[k].sig
    BY DEF Descending
  <1>1. /\ k - 1 \in 1 .. Len(s) /\ (<<f>> \o s)[k] = s[k - 1]
        /\ k = 2 => (<<f>> \o s)[k - 1] = f
        /\ k > 2 => /\ (<<f>> \o s)[k - 1] = s[k - 2]
                    /\ k - 1 \in 2 .. Len(s) /\ (k - 1) - 1 = k - 2
    OBVIOUS
  <1>2. CASE k = 2
    BY <1>1, <1>2
  <1>3. CASE k > 2
    <2>1. s[(k - 1) - 1].sig < s[k - 1].sig
      BY <1>1, <1>3 DEF Descending
    <2> QED
      BY <1>1, <1>3, <2>1
  <1> QED
    BY <1>1, <1>2, <1>3

LEMMA ReplacedDescends ==
  ASSUME NEW s \in Seq(Frame), s # << >>, NEW f \in Frame, Descending(s),
         f.sig = s[1].sig
  PROVE  Descending(<<f>> \o Tail(s))
  <1> DEFINE r == Tail(s)
  <1>1. /\ r \in Seq(Frame) /\ Len(r) = Len(s) - 1
        /\ \A k \in 1 .. Len(r) : r[k] = s[k + 1] /\ k + 1 \in 1 .. Len(s)
    OBVIOUS
  <1> HIDE DEF r
  <1>2. Descending(r)
    <2> SUFFICES ASSUME NEW k \in 2 .. Len(r) PROVE r[k - 1].sig < r[k].sig
      BY DEF Descending
    <2>1. /\ k + 1 \in 2 .. Len(s) /\ (k + 1) - 1 = k
          /\ r[k - 1] = s[k] /\ r[k] = s[k + 1]
      BY <1>1
    <2> QED
      BY <2>1 DEF Descending
  <1>3. r # << >> => f.sig < r[1].sig
    <2> SUFFICES ASSUME r # << >> PROVE f.sig < r[1].sig
      OBVIOUS
    <2>1. 2 \in 2 .. Len(s) /\ r[1] = s[2] /\ 2 - 1 = 1
      BY <1>1
    <2> QED
      BY <2>1 DEF Descending
  <1>4. Descending(<<f>> \o r)
    BY <1>1, <1>2, <1>3, PushedDescends
  <1> QED
    BY <1>4 DEF r

(* What a handler lets through is smaller than the signal on top. *)
LEMMA TakenBelow ==
  ASSUME TypeOK, NEW a \in Actors, NEW s \in Handled, frames[a] # << >>,
         CanTake(a, s)
  PROVE  s < frames[a][1].sig
  <1>1. 1 \in DOMAIN frames[a] /\ frames[a][1] \in Frame
    BY DEF TypeOK
  <1>2. frames[a][1].sig \in Handled
    BY <1>1 DEF Frame
  <1> QED
    BY <1>1, <1>2, MaskOrder DEF CanTake

LEMMA EnteredDescends ==
  ASSUME TypeOK, NestedDown, NEW a \in Actors, NEW s \in Handled,
         CanTake(a, s) \/ frames[a] = << >>,
         frames' = [frames EXCEPT ![a] = Entered(a, s)]
  PROVE  NestedDown'
  <1> DEFINE f == [sig |-> s, at |-> "send", i |-> 1]
  <1>1. frames[a] \in Seq(Frame) /\ f \in Frame /\ f.sig = s
    BY DEF TypeOK, Frame
  <1>2. Descending(frames[a])
    BY DEF NestedDown, Descending
  <1>3. frames[a] # << >> => f.sig < frames[a][1].sig
    BY <1>1, TakenBelow
  <1> HIDE DEF f
  <1>4. Descending(<<f>> \o frames[a])
    BY <1>1, <1>2, <1>3, PushedDescends
  <1>5. frames' = [frames EXCEPT ![a] = <<f>> \o frames[a]]
    BY DEF Entered, f
  <1> QED
    BY <1>4, <1>5 DEF NestedDown, Descending, TypeOK

LEMMA MovedDescends ==
  ASSUME TypeOK, NestedDown, NEW a \in Actors, frames[a] # << >>,
         NEW place \in Places, NEW i \in Nat
  PROVE  /\ At(a, place, i) \in Seq(Frame) /\ At(a, place, i) # << >>
         /\ At(a, place, i)[1].sig = frames[a][1].sig
         /\ Descending(At(a, place, i))
  <1> DEFINE f == Moved(a, place, i)
  <1>1. frames[a] \in Seq(Frame) /\ f \in Frame /\ At(a, place, i) = <<f>> \o Tail(frames[a])
    BY GotoFrame DEF TypeOK
  <1>2. f.sig = frames[a][1].sig
    BY <1>1 DEF Moved
  <1>3. Descending(frames[a])
    BY DEF NestedDown, Descending
  <1> HIDE DEF f
  <1>4. Descending(<<f>> \o Tail(frames[a]))
    BY <1>1, <1>2, <1>3, ReplacedDescends
  <1>5. Tail(frames[a]) \in Seq(Frame)
    BY <1>1
  <1>6. /\ <<f>> \o Tail(frames[a]) \in Seq(Frame) /\ <<f>> \o Tail(frames[a]) # << >>
        /\ (<<f>> \o Tail(frames[a]))[1] = f
    BY <1>1, <1>5
  <1> QED
    BY <1>1, <1>2, <1>4, <1>6

LEMMA HandlerDescends ==
  ASSUME TypeOK, NestedDown, NEW a \in Actors, HandlerStep(a)
  PROVE  NestedDown'
  <1> DEFINE i == Head(frames[a]).i
  <1>1. frames[a] # << >> /\ i + 1 \in Nat
    <2>1. frames[a] # << >>
      BY DEF HandlerStep, SendRequestClose, Check, DisposeAll, Exit, InHandler
    <2> QED
      BY <2>1, TopFrame DEF FrameSet, Frame
  <1>2. ASSUME NEW place \in Places, NEW j \in Nat, Goto(a, place, j)
        PROVE  NestedDown'
    <2>1. Descending(At(a, place, j))
      BY <1>1, MovedDescends
    <2> QED
      BY <1>2, <2>1 DEF Goto, NestedDown, Descending, TypeOK
  <1>3. CASE /\ CanTake(a, SIGPIPE)
             /\ frames' = [frames EXCEPT ![a] =
                  <<[sig |-> SIGPIPE, at |-> "send", i |-> 1]>>
                    \o At(a, "send", i + 1)]
    <2> DEFINE g == [sig |-> SIGPIPE, at |-> "send", i |-> 1]
               s == At(a, "send", i + 1)
    <2>1. g \in Frame /\ g.sig = SIGPIPE /\ SIGPIPE \in Handled
      BY PipeFrame DEF Handled
    <2>2. s \in Seq(Frame) /\ s[1].sig = frames[a][1].sig /\ Descending(s)
      BY <1>1, MovedDescends DEF Places
    <2>3. g.sig < s[1].sig
      BY <1>1, <1>3, <2>1, <2>2, TakenBelow
    <2>4. frames' = [frames EXCEPT ![a] = <<g>> \o s]
      BY <1>3
    <2> HIDE DEF g, s
    <2>5. Descending(<<g>> \o s)
      BY <2>1, <2>2, <2>3, PushedDescends
    <2> QED
      BY <2>4, <2>5 DEF NestedDown, Descending, TypeOK
  <1>4. CASE UNCHANGED frames
    BY <1>4 DEF NestedDown
  <1>5. CASE SendRequestClose(a)
    BY <1>1, <1>2, <1>3, <1>4, <1>5 DEF SendRequestClose, EndProcess, Places
  <1>6. CASE Check(a)
    BY <1>2, <1>6 DEF Check, Places
  <1>7. CASE DisposeAll(a)
    BY <1>1, <1>2, <1>4, <1>7 DEF DisposeAll, EndProcess, Places
  <1>8. CASE Exit(a)
    BY <1>4, <1>8 DEF Exit, EndProcess
  <1> QED
    BY <1>5, <1>6, <1>7, <1>8 DEF HandlerStep

LEMMA NestedNext == TypeOK /\ NestedDown /\ [Next]_vars => NestedDown'
  <1> SUFFICES ASSUME TypeOK, NestedDown, [Next]_vars PROVE NestedDown'
    OBVIOUS
  <1>1. CASE UNCHANGED frames
    BY <1>1 DEF NestedDown
  <1>2. ASSUME NEW s \in Signals, Arrive(s) PROVE NestedDown'
    BY <1>2, EnteredDescends, ShutdownAssumption DEF Arrive
  <1>3. ASSUME NEW t \in Threads, BrokenPipe(t) PROVE NestedDown'
    <2>1. t \in Actors /\ SIGPIPE \in Handled
      BY DEF Threads, Actors, Handled
    <2> QED
      BY <1>3, <2>1, EnteredDescends DEF BrokenPipe, Works
  <1>4. ASSUME NEW t \in Threads,
               \/ Create(t) \/ Take(t) \/ Serve(t) \/ Post(t)
               \/ WorkerCrash(t) \/ GiveUp(t)
        PROVE  UNCHANGED frames
    BY <1>4 DEF Create, Take, Serve, Post, Move, WorkerCrash, GiveUp, EndProcess
  <1>5. Acquire \/ UNCHANGED vars => UNCHANGED frames
    BY DEF Acquire, vars
  <1> QED
    BY <1>1, <1>2, <1>3, <1>4, <1>5, HandlerDescends DEF Next

(* A handler is only ever interrupted by one of a smaller signal, so that  *)
(* no signal interrupts its own handler and a thread holds at most one     *)
(* frame for each signal.                                                  *)
THEOREM HandlersNestDownwards == Spec => []NestedDown
  <1>1. Init => NestedDown
    BY DEF Init, NestedDown
  <1> QED
    BY <1>1, NestedNext, TypeCorrect, PTL DEF Spec
=============================================================================
