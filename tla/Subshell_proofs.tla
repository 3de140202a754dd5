-------------------------- MODULE Subshell_proofs --------------------------
(***************************************************************************)
(* Proofs about Subshell, for every set of threads, of pids and of events, *)
(* and every number of requests.                                           *)
(***************************************************************************)
EXTENDS Subshell, TLAPS

(***************************************************************************)
(* Types.                                                                  *)
(***************************************************************************)
LEMMA AliveChild ==
  ASSUME TypeOK, NEW p \in Pids, Alive(p)
  PROVE  kid[p] \in Child
  BY DEF TypeOK, Alive

LEMMA TypeInit == Init => TypeOK
  <1> SUFFICES ASSUME Init PROVE TypeOK
    OBVIOUS
  <1>1. requests \in 0 .. MaxRequests
    BY SubshellAssumption DEF Init
  <1>2. /\ tpc \in [Actors -> ThreadPC \cup MainPC]
        /\ \A a \in Actors : tpc[a] \in MainPC <=> a = Main
    BY DEF Init, ThreadPC, MainPC
  <1>3. /\ cpid \in [Threads -> Pids \cup {None}]
        /\ printed \in [Threads -> BOOLEAN]
        /\ kid \in [Pids -> Child \cup {None, Zombie}]
    BY DEF Init
  <1> QED
    BY <1>1, <1>2, <1>3 DEF Init, TypeOK

(* A thread goes on from one place of run() to another.                    *)
TpcTyped ==
  /\ tpc \in [Actors -> ThreadPC \cup MainPC]
  /\ \A a \in Actors : tpc[a] \in MainPC <=> a = Main

LEMMA TpcMoves ==
  ASSUME TpcTyped, NEW t \in Threads, NEW pc \in ThreadPC,
         tpc' = [tpc EXCEPT ![t] = pc]
  PROVE  TpcTyped'
  BY SubshellAssumption DEF TpcTyped, ThreadPC, MainPC, Actors

LEMMA TpcOfMain ==
  ASSUME TypeOK
  PROVE  /\ TpcTyped /\ tpc[Main] \in MainPC
         /\ \A t \in Threads : tpc[t] \in ThreadPC
  BY SubshellAssumption DEF TypeOK, TpcTyped, ThreadPC, MainPC, Actors

LEMMA NewChildType ==
  ASSUME TypeOK, NEW t \in Threads, NEW kind \in CommandKind
  PROVE  NewChild(t, kind) \in Child
  BY DEF NewChild, Child, OpenForWriting, Actors

LEMMA ForgetType ==
  ASSUME TypeOK, NEW t \in Threads
  PROVE  Forget(t) \in [Pids -> Child \cup {None, Zombie}]
  <1> SUFFICES ASSUME NEW p \in Pids
               PROVE  Forget(t)[p] \in Child \cup {None, Zombie}
    BY DEF Forget
  <1>1. CASE ~Alive(p)
    BY <1>1 DEF Forget, Alive
  <1>2. CASE Alive(p)
    <2>1. kid[p] \in Child
      BY <1>2, AliveChild
    <2>2. Forget(t)[p] = [kid[p] EXCEPT !.writes = @ \ {t},
                                        !.out = IF @ = t THEN None ELSE @]
      BY <1>2 DEF Forget
    <2> QED
      BY <2>1, <2>2 DEF Child
  <1> QED
    BY <1>1, <1>2

LEMMA WokenType ==
  ASSUME TypeOK, NEW a \in Actors, SendChld(a)
  PROVE  /\ pending' \in BOOLEAN
         /\ takers' \subseteq Actors /\ handling' \subseteq Actors
  BY DEF TypeOK, SendChld, Woken, Present, signalVars

LEMMA EndedType ==
  ASSUME TypeOK, NEW p \in Pids, Alive(p), Ended(p)
  PROVE  /\ pending' \in BOOLEAN
         /\ takers' \subseteq Actors /\ handling' \subseteq Actors
         /\ kid' \in [Pids -> Child \cup {None, Zombie}]
  <1>1. kid[p].parent \in Actors
    BY AliveChild DEF Child
  <1> QED
    BY <1>1, WokenType DEF Ended, TypeOK

LEMMA ClientType ==
  ASSUME TypeOK, NEW t \in Threads, ClientStep(t)
  PROVE  TypeOK'
  <1>0. TpcTyped
    BY DEF TypeOK, TpcTyped
  <1>1. CASE Start(t)
    <2>1. TpcTyped'
      BY <1>0, <1>1, SubshellAssumption
         DEF Start, TpcTyped, ThreadPC, MainPC, Actors
    <2> QED
      BY <1>1, <2>1 DEF Start, TypeOK, TpcTyped, signalVars, harmVars
  <1>2. CASE Open(t)
    <2>1. TpcTyped'
      BY <1>0, <1>2, TpcMoves DEF Open, ThreadPC
    <2> QED
      BY <1>2, <2>1 DEF Open, TypeOK, TpcTyped, signalVars, harmVars
  <1>3. CASE Request(t)
    <2>1. TpcTyped'
      BY <1>0, <1>3, TpcMoves DEF Request, ThreadPC
    <2>2. requests' \in 0 .. MaxRequests
      BY <1>3, SubshellAssumption DEF Request, TypeOK
    <2> QED
      BY <1>3, <2>1, <2>2 DEF Request, TypeOK, TpcTyped, signalVars, harmVars
  <1>4. CASE Leave(t)
    <2>1. TpcTyped'
      BY <1>0, <1>4, TpcMoves DEF Leave, ThreadPC
    <2>2. kid' \in [Pids -> Child \cup {None, Zombie}]
      <3> SUFFICES ASSUME NEW p \in Pids
                   PROVE  kid'[p] \in Child \cup {None, Zombie}
        BY <1>4 DEF Leave
      <3>1. CASE Alive(p) /\ kid[p].parent = t
        <4>1. kid[p] \in Child /\ kid'[p] = [kid[p] EXCEPT !.parent = Main]
          BY <1>4, <3>1, AliveChild DEF Leave
        <4> QED
          BY <4>1 DEF Child, Actors
      <3>2. CASE ~(Alive(p) /\ kid[p].parent = t)
        BY <1>4, <3>2 DEF Leave, TypeOK
      <3> QED
        BY <3>1, <3>2
    <2>3. lost' \in BOOLEAN
      BY <1>4 DEF Leave, TypeOK
    <2> QED
      BY <1>4, <2>1, <2>2, <2>3 DEF Leave, TypeOK, TpcTyped, signalVars
  <1> QED
    BY <1>1, <1>2, <1>3, <1>4 DEF ClientStep

LEMMA AcceptType == ASSUME TypeOK, Accept PROVE TypeOK'
  <1>1. TpcTyped
    BY DEF TypeOK, TpcTyped
  <1>2. TpcTyped'
    BY <1>1, SubshellAssumption DEF Accept, TpcTyped, ThreadPC, MainPC, Actors
  <1> QED
    BY <1>2 DEF Accept, TypeOK, TpcTyped, signalVars, harmVars

LEMMA StartOverType ==
  ASSUME TypeOK, NEW a \in Actors, StartOver(a)
  PROVE  TypeOK'
  BY DEF StartOver, TypeOK, harmVars

LEMMA ThreadType ==
  ASSUME TypeOK, NEW t \in Threads, ThreadStep(t)
  PROVE  TypeOK'
  <1>0. TpcTyped /\ t \in Actors
    BY DEF TypeOK, TpcTyped, Actors
  <1>1. CASE StartOver(t)
    BY <1>0, <1>1, StartOverType
  <1>2. CASE Fork(t)
    <2>1. PICK p \in Pids, kind \in CommandKind :
            /\ kid' = [kid EXCEPT ![p] = NewChild(t, kind)]
            /\ cpid' = [cpid EXCEPT ![t] = p]
      BY <1>2 DEF Fork
    <2>2. /\ kid' \in [Pids -> Child \cup {None, Zombie}]
          /\ cpid' \in [Threads -> Pids \cup {None}]
      BY <2>1, NewChildType DEF TypeOK
    <2>3. TpcTyped'
      BY <1>0, <1>2, TpcMoves DEF Fork, ThreadPC
    <2> QED
      BY <1>2, <2>2, <2>3 DEF Fork, TypeOK, TpcTyped, signalVars, harmVars
  <1>3. CASE Wait(t)
    <2>1. TpcTyped'
      BY <1>0, <1>3, TpcMoves DEF Wait, ThreadPC
    <2> QED
      BY <1>3, <2>1 DEF Wait, TypeOK, TpcTyped, signalVars, harmVars
  <1>4. CASE Close(t)
    <2>1. TpcTyped'
      BY <1>0, <1>4, TpcMoves DEF Close, ThreadPC
    <2> QED
      BY <1>4, <2>1 DEF Close, TypeOK, TpcTyped, signalVars, harmVars
  <1>5. CASE Read(t)
    <2>1. TpcTyped'
      BY <1>0, <1>5, TpcMoves DEF Read, ThreadPC
    <2>2. kid' \in [Pids -> Child \cup {None, Zombie}]
      BY <1>5, ForgetType DEF Read
    <2> QED
      BY <1>5, <2>1, <2>2 DEF Read, TypeOK, TpcTyped, signalVars, harmVars
  <1> QED
    BY <1>1, <1>2, <1>3, <1>4, <1>5 DEF ThreadStep

(* Whose call can be interrupted otherwise than at open() or P(full) is a  *)
(* thread.                                                                 *)
LEMMA TakeInThread ==
  ASSUME TypeOK, NEW a \in Actors, tpc[a] \notin MainPC
  PROVE  a \in Threads
  BY SubshellAssumption DEF TypeOK, Actors

LEMMA TakeInType ==
  ASSUME TypeOK, NEW a \in Actors, TakeIn(a) \/ TakeInExit(a)
  PROVE  /\ TpcTyped'
         /\ kid' \in [Pids -> Child \cup {None, Zombie}]
         /\ printed' \in [Threads -> BOOLEAN] /\ daemon' \in {"up", "down"}
  <1>0. TpcTyped
    BY DEF TypeOK, TpcTyped
  <1>1. CASE UNCHANGED <<tpc, printed, kid>> /\ daemon' \in {"up", "down"}
    BY <1>0, <1>1 DEF TypeOK, TpcTyped
  <1>2. CASE /\ tpc[a] \in DOMAIN Failed
             /\ tpc' = [tpc EXCEPT ![a] = Failed[@]]
             /\ UNCHANGED <<printed, kid, daemon>>
    <2>1. a \in Threads
      BY <1>2, TakeInThread DEF Failed, MainPC
    <2>2. Failed[tpc[a]] \in ThreadPC /\ tpc' = [tpc EXCEPT ![a] = Failed[tpc[a]]]
      BY <1>2 DEF Failed, ThreadPC
    <2>3. TpcTyped'
      BY <1>0, <2>1, <2>2, TpcMoves
    <2> QED
      BY <1>2, <2>3 DEF TypeOK
  <1>3. CASE /\ tpc[a] = "wait" /\ tpc' = [tpc EXCEPT ![a] = "close"]
             /\ UNCHANGED <<printed, kid, daemon>>
    <2>1. a \in Threads
      BY <1>3, TakeInThread DEF MainPC
    <2>2. TpcTyped'
      BY <1>0, <1>3, <2>1, TpcMoves DEF ThreadPC
    <2> QED
      BY <1>3, <2>2 DEF TypeOK
  <1>4. CASE /\ tpc[a] = "read" /\ tpc' = [tpc EXCEPT ![a] = "select"]
             /\ kid' = Forget(a) /\ UNCHANGED <<printed, daemon>>
    <2>1. a \in Threads
      BY <1>4, TakeInThread DEF MainPC
    <2>2. TpcTyped'
      BY <1>0, <1>4, <2>1, TpcMoves DEF ThreadPC
    <2>3. kid' \in [Pids -> Child \cup {None, Zombie}]
      BY <1>4, <2>1, ForgetType
    <2> QED
      BY <1>4, <2>2, <2>3 DEF TypeOK
  <1>5. daemon \in {"up", "down"}
    BY DEF TypeOK
  <1> QED
    BY <1>1, <1>2, <1>3, <1>4, <1>5 DEF TakeIn, TakeInExit

LEMMA HandlerType ==
  ASSUME TypeOK, NEW a \in Actors, HandlerStep(a)
  PROVE  TypeOK'
  <1>1. CASE Take(a)
    BY <1>1, TakeInType DEF Take, TypeOK, TpcTyped
  <1>2. CASE Reap(a)
    BY <1>2 DEF Reap, TypeOK, signalVars, harmVars
  <1>3. CASE Return(a)
    BY <1>3 DEF Return, Unblocked, TypeOK, harmVars
  <1> QED
    BY <1>1, <1>2, <1>3 DEF HandlerStep

LEMMA ChildType ==
  ASSUME TypeOK, NEW p \in Pids, ChildStep(p) \/ StopOrContinue(p)
  PROVE  TypeOK'
  <1>1. CASE WriteOutput(p)
    <2>1. kid[p] \in Child /\ kid[p].out \in Threads
      BY <1>1, AliveChild DEF WriteOutput, Child
    <2>2. [kid[p] EXCEPT !.kind = "silent"] \in Child
      BY <2>1 DEF Child, CommandKind
    <2>3. kid' = [kid EXCEPT ![p] = [kid[p] EXCEPT !.kind = "silent"]]
      BY <1>1 DEF WriteOutput
    <2>4. kid' \in [Pids -> Child \cup {None, Zombie}]
      BY <2>2, <2>3 DEF TypeOK
    <2> QED
      BY <1>1, <2>1, <2>4 DEF WriteOutput, TypeOK, signalVars, harmVars
  <1>2. CASE End(p)
    BY <1>2, EndedType DEF End, Ended, TypeOK
  <1>3. CASE GoBack(p)
    BY <1>3, EndedType DEF GoBack, Ended, TypeOK
  <1>4. CASE PrintToNobody(p)
    BY <1>4, EndedType DEF PrintToNobody, Ended, TypeOK
  <1>5. CASE StopOrContinue(p)
    <2>1. kid[p].parent \in Actors
      BY <1>5, AliveChild DEF StopOrContinue, Child
    <2> QED
      BY <1>5, <2>1, WokenType DEF StopOrContinue, TypeOK
  <1> QED
    BY <1>1, <1>2, <1>3, <1>4, <1>5 DEF ChildStep

LEMMA TypeNext == TypeOK /\ [Next]_vars => TypeOK'
  <1> SUFFICES ASSUME TypeOK, [Next]_vars PROVE TypeOK'
    OBVIOUS
  <1>1. CASE UNCHANGED vars
    BY <1>1 DEF vars, signalVars, harmVars, TypeOK
  <1> QED
    BY <1>1, ClientType, ThreadType, AcceptType, StartOverType, HandlerType,
       ChildType DEF Next, Actors

(* Every variable keeps its type: what children inherit are ends of pipes  *)
(* of threads, and whoever is sent a SIGCHLD exists.                       *)
THEOREM TypeCorrect == Spec => []TypeOK
  BY TypeInit, TypeNext, PTL DEF Spec

-----------------------------------------------------------------------------
(***************************************************************************)
(* Zombies.                                                                *)
(***************************************************************************)
LEMMA ZombieInit == Init => ZombieWatched
  BY ProcessAssumption DEF Init, ZombieWatched

LEMMA EndedWatched ==
  ASSUME NEW p \in Pids, Ended(p)
  PROVE  pending'
  BY DEF Ended, SendChld, signalVars

(* A step makes no zombies when every zombie has been one before. *)
NoNewZombie == \A p \in Pids : kid'[p] = Zombie => kid[p] = Zombie

LEMMA ForgetZombie ==
  ASSUME TypeOK, NEW t \in Threads, NEW p \in Pids, Forget(t)[p] = Zombie
  PROVE  kid[p] = Zombie
  <1>1. CASE ~Alive(p)
    BY <1>1 DEF Forget
  <1>2. CASE Alive(p)
    <2>1. Forget(t)[p] = [kid[p] EXCEPT !.writes = @ \ {t},
                                        !.out = IF @ = t THEN None ELSE @]
      BY <1>2 DEF Forget
    <2>2. kid[p] \in Child
      BY <1>2, AliveChild
    <2>3. Forget(t)[p] \in Child
      BY <2>1, <2>2 DEF Child
    <2> QED
      BY <2>3, ProcessAssumption
  <1> QED
    BY <1>1, <1>2

LEMMA ZombieNext == TypeOK /\ ZombieWatched /\ [Next]_vars => ZombieWatched'
  <1> SUFFICES ASSUME TypeOK, ZombieWatched, [Next]_vars, daemon' = "up",
                      NEW z \in Pids, kid'[z] = Zombie
               PROVE  pending' \/ handling' # {}
    BY DEF ZombieWatched
  <1>1. ASSUME NoNewZombie, UNCHANGED <<daemon, pending, handling>>
        PROVE  pending' \/ handling' # {}
    BY <1>1 DEF NoNewZombie, ZombieWatched
  <1>2. ASSUME NEW t \in Threads, ClientStep(t) \/ ThreadStep(t)
        PROVE  pending' \/ handling' # {}
    <2>1. UNCHANGED <<daemon, pending, handling>>
      BY <1>2 DEF ClientStep, ThreadStep, Start, Open, Request, StartOver, Fork,
                  Wait, Close, Read, Leave, signalVars, harmVars
    <2>2. NoNewZombie
      <3>1. CASE Start(t) \/ Open(t) \/ Request(t) \/ StartOver(t) \/ Close(t)
        BY <3>1 DEF Start, Open, Request, StartOver, Close, NoNewZombie
      <3>2. CASE Fork(t)
        <4>1. PICK p \in Pids, kind \in CommandKind :
                kid' = [kid EXCEPT ![p] = NewChild(t, kind)]
          BY <3>2 DEF Fork
        <4>2. NewChild(t, kind) # Zombie
          BY NewChildType, ProcessAssumption
        <4> QED
          BY <4>1, <4>2 DEF NoNewZombie, TypeOK
      <3>3. CASE Wait(t)
        BY <3>3, ProcessAssumption DEF Wait, NoNewZombie, TypeOK
      <3>4. CASE Read(t)
        BY <3>4, ForgetZombie DEF Read, NoNewZombie
      <3>5. CASE Leave(t)
        <4> SUFFICES ASSUME NEW p \in Pids, kid'[p] = Zombie
                     PROVE  kid[p] = Zombie
          BY DEF NoNewZombie
        <4>1. CASE Alive(p) /\ kid[p].parent = t
          <5>1. kid[p] \in Child /\ kid'[p] = [kid[p] EXCEPT !.parent = Main]
            BY <3>5, <4>1, AliveChild DEF Leave
          <5>2. kid'[p] \in Child
            BY <5>1 DEF Child, Actors
          <5> QED
            BY <5>2, ProcessAssumption
        <4>2. CASE ~(Alive(p) /\ kid[p].parent = t)
          BY <3>5, <4>2 DEF Leave
        <4> QED
          BY <4>1, <4>2
      <3> QED
        BY <1>2, <3>1, <3>2, <3>3, <3>4, <3>5 DEF ClientStep, ThreadStep
    <2> QED
      BY <1>1, <2>1, <2>2
  <1>3. ASSUME NEW a \in Actors, HandlerStep(a)
        PROVE  pending' \/ handling' # {}
    <2>1. CASE Take(a)
      BY <2>1 DEF Take
    <2>2. CASE Reap(a)
      BY <2>2 DEF Reap, signalVars
    <2>3. CASE Return(a)
      BY <2>3 DEF Return
    <2> QED
      BY <1>3, <2>1, <2>2, <2>3 DEF HandlerStep
  <1>4. ASSUME NEW p \in Pids, ChildStep(p) \/ StopOrContinue(p)
        PROVE  pending' \/ handling' # {}
    <2>1. CASE WriteOutput(p)
      <3>1. kid[p] \in Child
        BY <2>1, AliveChild DEF WriteOutput
      <3>2. [kid[p] EXCEPT !.kind = "silent"] # Zombie
        BY <3>1, ProcessAssumption DEF Child, CommandKind
      <3>3. kid' = [kid EXCEPT ![p] = [kid[p] EXCEPT !.kind = "silent"]]
        BY <2>1 DEF WriteOutput
      <3>4. NoNewZombie
        BY <3>2, <3>3 DEF NoNewZombie, TypeOK
      <3> QED
        BY <1>1, <2>1, <3>4 DEF WriteOutput, signalVars, harmVars
    <2>2. CASE End(p) \/ GoBack(p) \/ PrintToNobody(p)
      BY <2>2, EndedWatched DEF End, GoBack, PrintToNobody
    <2>3. CASE StopOrContinue(p)
      BY <2>3 DEF StopOrContinue, SendChld, signalVars
    <2> QED
      BY <1>4, <2>1, <2>2, <2>3 DEF ChildStep
  <1>5. CASE UNCHANGED vars
    BY <1>1, <1>5 DEF vars, signalVars, harmVars, NoNewZombie
  <1>6. CASE Accept \/ StartOver(Main)
    BY <1>1, <1>6 DEF Accept, StartOver, signalVars, harmVars, NoNewZombie
  <1> QED
    BY <1>2, <1>3, <1>4, <1>5, <1>6 DEF Next

(* No child that has ended is forgotten, whoever reaps and however many    *)
(* signals are lost.                                                       *)
THEOREM NoZombieForgotten == Spec => []ZombieWatched
  <1>1. TypeOK /\ ZombieWatched /\ [Next]_vars => (TypeOK /\ ZombieWatched)'
    BY TypeNext, ZombieNext
  <1> QED
    BY <1>1, TypeInit, ZombieInit, PTL DEF Spec

-----------------------------------------------------------------------------
(***************************************************************************)
(* What a step does to the children that are alive.  In all but a few      *)
(* steps none is born, and those that stay keep their parent and pipe.     *)
(***************************************************************************)
Remain(p) ==
  Alive(p) /\ kid'[p].parent = kid[p].parent /\ kid'[p].out = kid[p].out

NoneBorn == \A p \in Pids : (Alive(p))' => Remain(p)

LEMMA ForkEffect ==
  ASSUME TypeOK, NEW t \in Threads, Fork(t)
  PROVE  \E q \in Pids :
           /\ ~Alive(q) /\ \A u \in Threads : cpid[u] # q
           /\ cpid' = [cpid EXCEPT ![t] = q]
           /\ kid'[q].parent = t /\ kid'[q].out = t
           /\ \A p \in Pids \ {q} : kid'[p] = kid[p]
  <1>1. PICK q \in Pids, kind \in CommandKind :
          /\ kid[q] = None /\ \A u \in Threads : cpid[u] # q
          /\ kid' = [kid EXCEPT ![q] = NewChild(t, kind)]
          /\ cpid' = [cpid EXCEPT ![t] = q]
    BY DEF Fork
  <1>2. kid'[q] = NewChild(t, kind) /\ \A p \in Pids \ {q} : kid'[p] = kid[p]
    BY <1>1 DEF TypeOK
  <1>3. kid'[q].parent = t /\ kid'[q].out = t
    BY <1>2 DEF NewChild
  <1>4. ~Alive(q)
    BY <1>1 DEF Alive
  <1> QED
    BY <1>1, <1>2, <1>3, <1>4

LEMMA ForgetEffect ==
  ASSUME TypeOK, NEW t \in Threads, kid' = Forget(t), NEW p \in Pids, (Alive(p))'
  PROVE  /\ Alive(p) /\ kid'[p].parent = kid[p].parent
         /\ kid'[p].out = IF kid[p].out = t THEN None ELSE kid[p].out
  <1>1. Alive(p)
    BY DEF Forget, Alive
  <1>2. /\ kid[p] \in Child
        /\ kid'[p] = [kid[p] EXCEPT !.writes = @ \ {t},
                                    !.out = IF @ = t THEN None ELSE @]
    BY <1>1, AliveChild DEF Forget
  <1> QED
    BY <1>1, <1>2 DEF Child

LEMMA LeaveEffect ==
  ASSUME TypeOK, NEW t \in Threads, Leave(t), NEW p \in Pids, (Alive(p))'
  PROVE  /\ Alive(p) /\ kid'[p].out = kid[p].out
         /\ kid[p].parent # t => kid'[p] = kid[p]
  <1>1. kid' = [q \in Pids |-> IF Alive(q) /\ kid[q].parent = t
                               THEN [kid[q] EXCEPT !.parent = Main] ELSE kid[q]]
    BY DEF Leave
  <1>2. Alive(p)
    BY <1>1 DEF Alive
  <1>3. kid[p] \in Child
    BY <1>2, AliveChild
  <1> QED
    BY <1>1, <1>2, <1>3 DEF Child

LEMMA EndEffect ==
  ASSUME TypeOK, NEW p \in Pids, Ended(p)
  PROVE  NoneBorn /\ ~(Alive(p))'
  <1>1. kid' = [kid EXCEPT ![p] = Zombie]
    BY DEF Ended
  <1> QED
    BY <1>1 DEF TypeOK, NoneBorn, Remain, Alive

LEMMA WriteEffect ==
  ASSUME TypeOK, NEW p \in Pids, WriteOutput(p)
  PROVE  NoneBorn
  <1>1. kid' = [kid EXCEPT ![p] = [kid[p] EXCEPT !.kind = "silent"]]
    BY DEF WriteOutput
  <1>2. Alive(p) /\ kid[p] \in Child
    BY AliveChild DEF WriteOutput
  <1>3. /\ kid'[p].parent = kid[p].parent /\ kid'[p].out = kid[p].out
        /\ \A q \in Pids \ {p} : kid'[q] = kid[q]
    BY <1>1, <1>2 DEF TypeOK, Child
  <1> QED
    BY <1>2, <1>3 DEF NoneBorn, Remain, Alive

LEMMA ReapEffect ==
  ASSUME TypeOK, NEW x, kid' = [kid EXCEPT ![x] = None]
  PROVE  NoneBorn
  BY DEF TypeOK, NoneBorn, Remain, Alive

LEMMA SameEffect ==
  ASSUME kid' = kid
  PROVE  NoneBorn
  BY DEF NoneBorn, Remain, Alive

-----------------------------------------------------------------------------
(***************************************************************************)
(* A pipe of its own for each request.                                     *)
(***************************************************************************)
LEMMA FreshInit == Init => FreshPipe
  BY DEF Init, FreshPipe, Alive

(* Steps in which no thread is done with its pipe and nothing is printed.  *)
AtPipe(t) == tpc[t] \in {"wait", "close", "read"}

LEMMA FreshKept ==
  ASSUME FreshPipe, NoneBorn, printed' = printed,
         \A t \in Threads : AtPipe(t) => AtPipe(t)'
  PROVE  FreshPipe'
  BY DEF FreshPipe, NoneBorn, Remain, AtPipe

(* Steps in which thread t closes its pipe. *)
LEMMA FreshClosed ==
  ASSUME TypeOK, FreshPipe, NEW t \in Threads, ~printed'[t], kid' = Forget(t),
         \A u \in Threads \ {t} : printed'[u] = printed[u] /\ tpc'[u] = tpc[u]
  PROVE  FreshPipe'
  <1>1. t # None
    BY SubshellAssumption
  <1> QED
    BY <1>1, ForgetEffect, SubshellAssumption DEF FreshPipe

LEMMA FreshClient ==
  ASSUME TypeOK, FreshPipe, NEW t \in Threads, ClientStep(t)
  PROVE  FreshPipe'
  <1> USE DEF AtPipe
  <1>0. t \in Actors /\ t # Main /\ \A u \in Threads : u \in Actors /\ u # Main
    BY SubshellAssumption DEF Actors
  <1>1. CASE Start(t)
    BY <1>0, <1>1, SameEffect, FreshKept DEF Start, TypeOK
  <1>2. CASE Open(t)
    BY <1>0, <1>2, SameEffect, FreshKept DEF Open, TypeOK
  <1>3. CASE Request(t)
    BY <1>0, <1>3, SameEffect, FreshKept DEF Request, TypeOK
  <1>4. CASE Leave(t)
    <2>1. /\ printed' = printed
          /\ \A u \in Threads : AtPipe(u)' <=> AtPipe(u)
      BY <1>0, <1>4 DEF Leave, TypeOK
    <2>2. \A p \in Pids : (Alive(p))' => Alive(p) /\ kid'[p].out = kid[p].out
      BY <1>4, LeaveEffect
    <2> QED
      BY <2>1, <2>2 DEF FreshPipe
  <1> QED
    BY <1>1, <1>2, <1>3, <1>4 DEF ClientStep

LEMMA FreshThread ==
  ASSUME TypeOK, FreshPipe, NEW t \in Threads, ThreadStep(t)
  PROVE  FreshPipe'
  <1> USE DEF AtPipe
  <1>0. \A u \in Threads : u \in Actors
    BY DEF Actors
  <1>1. CASE StartOver(t)
    BY <1>1, SameEffect, FreshKept DEF StartOver
  <1>2. CASE Fork(t)
    <2>1. PICK q \in Pids : /\ kid'[q].out = t
                            /\ \A p \in Pids \ {q} : kid'[p] = kid[p]
      BY <1>2, ForkEffect
    <2>2. printed' = printed /\ tpc' = [tpc EXCEPT ![t] = "wait"]
      BY <1>2 DEF Fork
    <2> QED
      BY <1>0, <2>1, <2>2 DEF FreshPipe, Alive, TypeOK
  <1>3. CASE Wait(t)
    <2>1. NoneBorn
      BY <1>3, ReapEffect DEF Wait
    <2> QED
      BY <1>0, <1>3, <2>1, FreshKept DEF Wait, TypeOK
  <1>4. CASE Close(t)
    BY <1>0, <1>4, SameEffect, FreshKept DEF Close, TypeOK
  <1>5. CASE Read(t)
    <2>1. /\ ~printed'[t] /\ kid' = Forget(t)
          /\ \A u \in Threads \ {t} :
               printed'[u] = printed[u] /\ tpc'[u] = tpc[u]
      BY <1>0, <1>5 DEF Read, TypeOK
    <2> QED
      BY <2>1, FreshClosed
  <1> QED
    BY <1>1, <1>2, <1>3, <1>4, <1>5 DEF ThreadStep

LEMMA FreshTake ==
  ASSUME TypeOK, FreshPipe, NEW a \in Actors, TakeIn(a) \/ TakeInExit(a)
  PROVE  FreshPipe'
  <1> USE DEF AtPipe
  <1>0. \A u \in Threads : u \in Actors
    BY DEF Actors
  <1>1. CASE UNCHANGED <<tpc, printed, kid>>
    BY <1>1, SameEffect, FreshKept
  <1>2. CASE /\ tpc[a] \in DOMAIN Failed
             /\ tpc' = [tpc EXCEPT ![a] = Failed[@]]
             /\ UNCHANGED <<printed, kid, daemon>>
    <2>1. tpc[a] \notin {"wait", "close", "read"}
      BY <1>2 DEF Failed
    <2>2. \A u \in Threads : AtPipe(u) => AtPipe(u)'
      BY <1>0, <1>2, <2>1 DEF TypeOK
    <2> QED
      BY <1>2, <2>2, SameEffect, FreshKept
  <1>3. CASE /\ tpc[a] = "wait" /\ tpc' = [tpc EXCEPT ![a] = "close"]
             /\ UNCHANGED <<printed, kid, daemon>>
    <2>1. \A u \in Threads : AtPipe(u) => AtPipe(u)'
      BY <1>0, <1>3 DEF TypeOK
    <2> QED
      BY <1>3, <2>1, SameEffect, FreshKept
  <1>4. CASE /\ tpc[a] = "read" /\ ~Readable(a)
             /\ tpc' = [tpc EXCEPT ![a] = "select"]
             /\ kid' = Forget(a) /\ UNCHANGED <<printed, daemon>>
    <2>1. a \in Threads
      BY <1>4, TakeInThread DEF MainPC
    <2>2. /\ ~printed'[a]
          /\ \A u \in Threads \ {a} :
               printed'[u] = printed[u] /\ tpc'[u] = tpc[u]
      BY <1>0, <1>4, <2>1 DEF Readable, TypeOK
    <2> QED
      BY <1>4, <2>1, <2>2, FreshClosed
  <1> QED
    BY <1>1, <1>2, <1>3, <1>4 DEF TakeIn, TakeInExit

LEMMA FreshNext == TypeOK /\ FreshPipe /\ [Next]_vars => FreshPipe'
  <1> SUFFICES ASSUME TypeOK, FreshPipe, [Next]_vars PROVE FreshPipe'
    OBVIOUS
  <1>1. ASSUME NEW t \in Threads, ClientStep(t) \/ ThreadStep(t)
        PROVE  FreshPipe'
    BY <1>1, FreshClient, FreshThread
  <1>2. ASSUME NEW a \in Actors, HandlerStep(a)
        PROVE  FreshPipe'
    <2>1. CASE Take(a)
      BY <2>1, FreshTake DEF Take
    <2>2. CASE Reap(a)
      <3>1. NoneBorn
        BY <2>2, ReapEffect DEF Reap
      <3> QED
        BY <2>2, <3>1, FreshKept DEF Reap, AtPipe
    <2>3. CASE Return(a)
      BY <2>3, SameEffect, FreshKept DEF Return, AtPipe
    <2> QED
      BY <1>2, <2>1, <2>2, <2>3 DEF HandlerStep
  <1>3. ASSUME NEW p \in Pids, ChildStep(p) \/ StopOrContinue(p)
        PROVE  FreshPipe'
    <2>1. CASE WriteOutput(p)
      <3>1. NoneBorn
        BY <2>1, WriteEffect
      <3>2. /\ Alive(p) /\ tpc' = tpc
            /\ printed' = [printed EXCEPT ![kid[p].out] = TRUE]
        BY <2>1 DEF WriteOutput
      <3> QED
        BY <3>1, <3>2 DEF FreshPipe, NoneBorn, Remain, TypeOK
    <2>2. CASE GoBack(p)
      <3>1. NoneBorn
        BY <2>2, EndEffect DEF GoBack
      <3>2. /\ Alive(p) /\ tpc' = tpc
            /\ printed' = [printed EXCEPT ![kid[p].out] = TRUE]
        BY <2>2 DEF GoBack, Ended
      <3> QED
        BY <3>1, <3>2 DEF FreshPipe, NoneBorn, Remain, TypeOK
    <2>3. CASE End(p) \/ PrintToNobody(p)
      <3>1. NoneBorn /\ printed' = printed /\ tpc' = tpc
        BY <2>3, EndEffect DEF End, PrintToNobody, Ended
      <3> QED
        BY <3>1, FreshKept DEF AtPipe
    <2>4. CASE StopOrContinue(p)
      BY <2>4, SameEffect, FreshKept DEF StopOrContinue, AtPipe
    <2> QED
      BY <1>3, <2>1, <2>2, <2>3, <2>4 DEF ChildStep
  <1>4. CASE UNCHANGED vars
    BY <1>4, SameEffect, FreshKept DEF vars, AtPipe
  <1>5. CASE Accept \/ StartOver(Main)
    <2>1. /\ kid' = kid /\ printed' = printed
          /\ \A u \in Threads : tpc'[u] = tpc[u]
      BY <1>5, SubshellAssumption DEF Accept, StartOver, TypeOK, Actors
    <2> QED
      BY <2>1, SameEffect, FreshKept DEF AtPipe
  <1> QED
    BY <1>1, <1>2, <1>3, <1>4, <1>5 DEF Next

(* What a command prints after its thread has gone on never becomes the    *)
(* answer to the next request.                                             *)
THEOREM PipesAreFresh == Spec => []FreshPipe
  <1>1. TypeOK /\ FreshPipe /\ [Next]_vars => (TypeOK /\ FreshPipe)'
    BY TypeNext, FreshNext
  <1> QED
    BY <1>1, TypeInit, FreshInit, PTL DEF Spec

-----------------------------------------------------------------------------
(***************************************************************************)
(* As long as no command is stopped or continued, do_subshell() is what it *)
(* looks like: a thread waits for its only child, and whoever takes a      *)
(* SIGCHLD, or is in its handler, is about to fork() or to create a        *)
(* thread, where it starts over, or has no child that is alive.  The       *)
(* conjuncts support each other: the signal finds its thread waiting since *)
(* that thread is not in a handler, and no other call is interrupted since *)
(* no other thread is ever offered it but before fork() and                *)
(* pthread_create().                                                       *)
(***************************************************************************)
Awaited ==
  \A p \in Pids : Alive(p) =>
    /\ kid[p].parent \in Threads /\ tpc[kid[p].parent] = "wait"
    /\ cpid[kid[p].parent] = p /\ kid[p].out = kid[p].parent

(* Where taking the signal does no harm. *)
Calm(a) ==
  \/ tpc[a] \in {"fork", "create", "close"}
  \/ tpc[a] = "wait" /\ ~Alive(cpid[a])

SignalCalm == \A a \in takers \cup handling : Calm(a)

GoneOn ==
  \A t \in Threads :
    /\ tpc[t] = "wait" <=> cpid[t] # None
    /\ tpc[t] # "ended"

Unharmed == daemon = "up" /\ names = "kept" /\ ~lost

Orderly == Awaited /\ SignalCalm /\ GoneOn /\ Unharmed

LEMMA OrderlyInit == Init => Orderly
  <1> SUFFICES ASSUME Init PROVE Orderly
    OBVIOUS
  <1>1. \A t \in Threads : tpc[t] = "none"
    BY SubshellAssumption DEF Init, Actors
  <1> QED
    BY <1>1 DEF Init, Orderly, Awaited, SignalCalm, GoneOn, Unharmed, Alive

(* What a step must do to keep the calm of the threads it is not about.    *)
LEMMA CalmKept ==
  ASSUME NEW a, Calm(a), tpc'[a] = tpc[a],
         tpc[a] = "wait" =>
           cpid'[a] = cpid[a] /\ (Alive(cpid[a])' => Alive(cpid[a]))
  PROVE  Calm(a)'
  BY DEF Calm, Alive

LEMMA NotNone == \A p \in Pids : p # None
  BY SubshellAssumption

LEMMA AreActors == \A t \in Threads : t \in Actors /\ t # Main
  BY SubshellAssumption DEF Actors

(* waitpid() returns. *)
LEMMA OrderlyWait ==
  ASSUME TypeOK, Orderly, NEW t \in Threads, Wait(t)
  PROVE  Orderly'
  <1>1. /\ tpc[t] = "wait" /\ ~Alive(cpid[t]) /\ cpid[t] \in Pids
        /\ tpc'[t] = "close" /\ cpid'[t] = None
        /\ \A a \in Actors \ {t} : tpc'[a] = tpc[a]
        /\ \A u \in Threads \ {t} : cpid'[u] = cpid[u]
        /\ kid' = [kid EXCEPT ![cpid[t]] = None]
        /\ UNCHANGED <<takers, handling, daemon, names, lost>>
    BY AreActors DEF Wait, signalVars, harmVars, TypeOK, Orderly, GoneOn
  <1>2. /\ NoneBorn
        /\ \A p \in Pids : Alive(p)' => Alive(p)
    BY <1>1, ReapEffect DEF NoneBorn, Remain
  <1>3. Awaited'
    BY <1>1, <1>2, AreActors DEF Orderly, Awaited, NoneBorn, Remain
  <1>4. SignalCalm'
    <2> SUFFICES ASSUME NEW a \in takers \cup handling PROVE Calm(a)'
      BY <1>1 DEF SignalCalm
    <2>1. Calm(a) /\ a \in Actors
      BY DEF Orderly, SignalCalm, TypeOK
    <2>2. CASE a = t
      BY <1>1, <2>2 DEF Calm
    <2>3. CASE a # t
      <3>1. tpc[a] = "wait" => a \in Threads /\ cpid[a] \in Pids
        BY <2>1, TakeInThread DEF MainPC, TypeOK, Orderly, GoneOn
      <3> QED
        BY <1>1, <1>2, <2>1, <2>3, <3>1, CalmKept
    <2> QED
      BY <2>2, <2>3
  <1>5. GoneOn' /\ Unharmed'
    BY <1>1, AreActors DEF Orderly, GoneOn, Unharmed
  <1> QED
    BY <1>3, <1>4, <1>5 DEF Orderly

LEMMA OrderlyFork ==
  ASSUME TypeOK, Orderly, NEW t \in Threads, Fork(t)
  PROVE  Orderly'
  <1>1. PICK q \in Pids :
          /\ ~Alive(q) /\ \A u \in Threads : cpid[u] # q
          /\ cpid' = [cpid EXCEPT ![t] = q]
          /\ kid'[q].parent = t /\ kid'[q].out = t
          /\ \A p \in Pids \ {q} : kid'[p] = kid[p]
    BY ForkEffect
  <1>2. /\ tpc[t] = "fork" /\ tpc'[t] = "wait" /\ cpid'[t] = q
        /\ \A a \in Actors \ {t} : tpc'[a] = tpc[a]
        /\ \A u \in Threads \ {t} : cpid'[u] = cpid[u]
        /\ t \notin takers \cup handling
        /\ UNCHANGED <<takers, handling, daemon, names, lost>>
    BY <1>1, AreActors DEF Fork, Runs, signalVars, harmVars, TypeOK
  <1>3. Awaited'
    <2> SUFFICES ASSUME NEW p \in Pids, (Alive(p))'
                 PROVE  /\ kid'[p].parent \in Threads
                        /\ tpc'[kid'[p].parent] = "wait"
                        /\ cpid'[kid'[p].parent] = p
                        /\ kid'[p].out = kid'[p].parent
      BY DEF Awaited
    <2>1. CASE p = q
      BY <1>1, <1>2, <2>1
    <2>2. CASE p # q
      <3>1. kid'[p] = kid[p] /\ Alive(p)
        BY <1>1, <2>2 DEF Alive
      <3>2. /\ kid[p].parent \in Threads /\ tpc[kid[p].parent] = "wait"
            /\ cpid[kid[p].parent] = p /\ kid[p].out = kid[p].parent
        BY <3>1 DEF Orderly, Awaited
      <3>3. kid[p].parent # t
        BY <1>2, <3>2
      <3> QED
        BY <1>2, <3>1, <3>2, <3>3, AreActors
    <2> QED
      BY <2>1, <2>2
  <1>4. SignalCalm'
    <2> SUFFICES ASSUME NEW a \in takers \cup handling PROVE Calm(a)'
      BY <1>2 DEF SignalCalm
    <2>1. Calm(a) /\ a \in Actors /\ a # t
      BY <1>2 DEF Orderly, SignalCalm, TypeOK
    <2>2. tpc[a] = "wait" => /\ a \in Threads /\ cpid[a] \in Pids
                             /\ cpid[a] # q
      BY <1>1, <2>1, TakeInThread DEF MainPC, TypeOK, Orderly, GoneOn
    <2>3. tpc[a] = "wait" => /\ cpid'[a] = cpid[a]
                             /\ Alive(cpid[a])' => Alive(cpid[a])
      BY <1>1, <1>2, <2>1, <2>2 DEF Alive
    <2> QED
      BY <1>2, <2>1, <2>3, CalmKept
  <1>5. GoneOn' /\ Unharmed'
    BY <1>2, AreActors, NotNone DEF Orderly, GoneOn, Unharmed
  <1> QED
    BY <1>3, <1>4, <1>5 DEF Orderly

(* The other steps of a thread are those of one that has no child and is   *)
(* not offered the signal.                                                 *)
LEMMA OrderlyElsewhere ==
  ASSUME TypeOK, Orderly, NEW t \in Actors, t \notin takers \cup handling,
         tpc[t] # "wait", tpc'[t] \notin {"wait", "ended"},
         \A a \in Actors \ {t} : tpc'[a] = tpc[a],
         \A u \in Threads : cpid'[u] = cpid[u],
         \A p \in Pids : Alive(p)' =>
           /\ Alive(p) /\ kid'[p].parent = kid[p].parent
           /\ kid[p].out # t => kid'[p].out = kid[p].out,
         UNCHANGED <<takers, handling, daemon, names, lost>>
  PROVE  Orderly'
  <1>1. Awaited'
    <2> SUFFICES ASSUME NEW p \in Pids, (Alive(p))'
                 PROVE  /\ kid'[p].parent \in Threads
                        /\ tpc'[kid'[p].parent] = "wait"
                        /\ cpid'[kid'[p].parent] = p
                        /\ kid'[p].out = kid'[p].parent
      BY DEF Awaited
    <2>1. /\ Alive(p) /\ kid[p].parent \in Threads
          /\ tpc[kid[p].parent] = "wait" /\ cpid[kid[p].parent] = p
          /\ kid[p].out = kid[p].parent
      BY DEF Orderly, Awaited
    <2>2. kid[p].parent # t
      BY <2>1
    <2> QED
      BY <2>1, <2>2, AreActors
  <1>2. SignalCalm'
    <2> SUFFICES ASSUME NEW a \in takers \cup handling PROVE Calm(a)'
      BY DEF SignalCalm
    <2>1. Calm(a) /\ a \in Actors /\ a # t
      BY DEF Orderly, SignalCalm, TypeOK
    <2>2. tpc[a] = "wait" => a \in Threads /\ cpid[a] \in Pids
      BY <2>1, TakeInThread DEF MainPC, TypeOK, Orderly, GoneOn
    <2> QED
      BY <2>1, <2>2, CalmKept
  <1>3. GoneOn'
    <2> SUFFICES ASSUME NEW u \in Threads
                 PROVE  (tpc'[u] = "wait" <=> cpid'[u] # None) /\ tpc'[u] # "ended"
      BY DEF GoneOn
    <2> QED
      BY AreActors DEF Orderly, GoneOn
  <1> QED
    BY <1>1, <1>2, <1>3 DEF Orderly, Unharmed

LEMMA OrderlyClient ==
  ASSUME TypeOK, Orderly, NEW t \in Threads, ClientStep(t)
  PROVE  Orderly'
  <1>1. CASE Open(t)
    <2>1. /\ t \in Actors /\ t \notin takers \cup handling
          /\ tpc[t] = "open" /\ tpc'[t] = "first"
          /\ \A a \in Actors \ {t} : tpc'[a] = tpc[a]
          /\ UNCHANGED <<cpid, kid, takers, handling, daemon, names, lost>>
      BY <1>1, AreActors DEF Open, Runs, signalVars, harmVars, TypeOK
    <2> QED
      BY <2>1, OrderlyElsewhere DEF Alive
  <1>2. CASE Request(t)
    <2>1. cpid[t] = None
      BY <1>2 DEF Request, Orderly, GoneOn
    <2>2. /\ t \in Actors /\ t \notin takers \cup handling
          /\ tpc[t] # "wait" /\ tpc'[t] \in {"fork", "close"}
          /\ \A a \in Actors \ {t} : tpc'[a] = tpc[a]
          /\ \A u \in Threads : cpid'[u] = cpid[u]
          /\ UNCHANGED <<kid, takers, handling, daemon, names, lost>>
      BY <1>2, <2>1, AreActors DEF Request, Runs, signalVars, harmVars, TypeOK
    <2> QED
      BY <2>2, OrderlyElsewhere DEF Alive
  <1>3. CASE Leave(t)
    <2>1. \A p \in Pids : Alive(p) => kid[p].parent # t
      BY <1>3 DEF Leave, Orderly, Awaited
    <2>2. /\ t \in Actors /\ t \notin takers \cup handling
          /\ tpc[t] # "wait" /\ tpc'[t] = "none"
          /\ \A a \in Actors \ {t} : tpc'[a] = tpc[a]
          /\ UNCHANGED <<cpid, takers, handling, daemon, names>>
      BY <1>3, AreActors DEF Leave, Runs, signalVars, TypeOK
    <2>3. lost' = lost
      <3>1. lost = FALSE /\ tpc[t] # "ended"
        BY DEF Orderly, GoneOn, Unharmed, TypeOK
      <3>2. lost' = (lost \/ tpc[t] = "ended")
        BY <1>3 DEF Leave
      <3> QED
        BY <3>1, <3>2
    <2>4. \A p \in Pids : Alive(p)' =>
            Alive(p) /\ kid'[p].parent = kid[p].parent /\ kid'[p].out = kid[p].out
      BY <1>3, <2>1, LeaveEffect
    <2> QED
      BY <2>2, <2>3, <2>4, OrderlyElsewhere
  <1>4. CASE Start(t)
    <2>1. /\ Main \notin takers \cup handling /\ t \notin takers \cup handling
      BY <1>4 DEF Start, Runs, Orderly, SignalCalm, Calm
    <2>2. /\ tpc[t] = "none" /\ tpc'[t] = "open" /\ tpc'[Main] = "consume"
          /\ \A a \in Actors \ {t, Main} : tpc'[a] = tpc[a]
          /\ UNCHANGED <<cpid, kid, takers, handling, daemon, names, lost>>
      BY <1>4, AreActors DEF Start, signalVars, harmVars, TypeOK, Actors
    <2>3. Awaited'
      BY <2>2, AreActors DEF Orderly, Awaited, Alive
    <2>4. SignalCalm'
      <3> SUFFICES ASSUME NEW a \in takers \cup handling PROVE Calm(a)'
        BY <2>2 DEF SignalCalm
      <3>1. Calm(a) /\ a \in Actors \ {t, Main}
        BY <2>1 DEF Orderly, SignalCalm, TypeOK
      <3> QED
        BY <2>2, <3>1 DEF Calm, Alive
    <2>5. GoneOn' /\ Unharmed'
      BY <2>2, AreActors DEF Orderly, GoneOn, Unharmed
    <2> QED
      BY <2>3, <2>4, <2>5 DEF Orderly
  <1> QED
    BY <1>1, <1>2, <1>3, <1>4 DEF ClientStep

LEMMA OrderlyAccept == ASSUME TypeOK, Orderly, Accept PROVE Orderly'
  <1>1. Main \in Actors
    BY DEF Actors
  <1>2. /\ Main \notin takers \cup handling
        /\ tpc[Main] = "consume" /\ tpc'[Main] = "create"
        /\ \A a \in Actors \ {Main} : tpc'[a] = tpc[a]
        /\ UNCHANGED <<cpid, kid, takers, handling, daemon, names, lost>>
    BY <1>1 DEF Accept, Runs, signalVars, harmVars, TypeOK
  <1> QED
    BY <1>1, <1>2, OrderlyElsewhere DEF Alive

LEMMA OrderlyStartOver ==
  ASSUME TypeOK, Orderly, NEW a \in Actors, StartOver(a)
  PROVE  Orderly'
  <1>1. /\ tpc[a] \in {"fork", "create"} /\ takers' = takers \cup {a}
        /\ UNCHANGED <<tpc, cpid, kid, handling, daemon, names, lost>>
    BY DEF StartOver, harmVars
  <1>2. SignalCalm'
    BY <1>1 DEF SignalCalm, Calm, Alive, Orderly
  <1> QED
    BY <1>1, <1>2 DEF Orderly, Awaited, Alive, GoneOn, Unharmed

LEMMA OrderlyThread ==
  ASSUME TypeOK, Orderly, NEW t \in Threads, ThreadStep(t)
  PROVE  Orderly'
  <1>1. CASE Close(t)
    <2>1. /\ t \in Actors /\ t \notin takers \cup handling
          /\ tpc[t] = "close" /\ tpc'[t] = "read"
          /\ \A a \in Actors \ {t} : tpc'[a] = tpc[a]
          /\ UNCHANGED <<cpid, kid, takers, handling, daemon, names, lost>>
      BY <1>1, AreActors DEF Close, Runs, signalVars, harmVars, TypeOK
    <2> QED
      BY <2>1, OrderlyElsewhere DEF Alive
  <1>2. CASE Read(t)
    <2>1. t \notin takers \cup handling
      BY <1>2 DEF Read, Orderly, SignalCalm, Calm
    <2>2. /\ t \in Actors /\ tpc[t] = "read" /\ tpc'[t] = "select"
          /\ \A a \in Actors \ {t} : tpc'[a] = tpc[a]
          /\ UNCHANGED <<cpid, takers, handling, daemon, names, lost>>
      BY <1>2, AreActors DEF Read, signalVars, harmVars, TypeOK
    <2>3. \A p \in Pids : Alive(p)' =>
            /\ Alive(p) /\ kid'[p].parent = kid[p].parent
            /\ kid[p].out # t => kid'[p].out = kid[p].out
      BY <1>2, ForgetEffect DEF Read
    <2> QED
      BY <2>1, <2>2, <2>3, OrderlyElsewhere
  <1>3. t \in Actors
    BY AreActors
  <1> QED
    BY <1>1, <1>2, <1>3, OrderlyFork, OrderlyWait,
       OrderlyStartOver DEF ThreadStep

(* Steps that only make children end, and leave fewer or the same threads  *)
(* with the signal.                                                        *)
LEMMA OrderlyLess ==
  ASSUME TypeOK, Orderly, NoneBorn,
  takers' \cup handling' \subseteq takers \cup handling,
         UNCHANGED <<tpc, cpid, daemon, names, lost>>
  PROVE  Orderly'
  <1>1. Awaited'
    BY DEF Orderly, Awaited, NoneBorn, Remain
  <1>2. SignalCalm'
    <2> SUFFICES ASSUME NEW a \in takers \cup handling PROVE Calm(a)'
      BY DEF SignalCalm
    <2>1. Calm(a) /\ a \in Actors
      BY DEF Orderly, SignalCalm, TypeOK
    <2>2. tpc[a] = "wait" => a \in Threads /\ cpid[a] \in Pids
      BY <2>1, TakeInThread DEF MainPC, TypeOK, Orderly, GoneOn
    <2>3. \A p \in Pids : Alive(p)' => Alive(p)
      BY DEF NoneBorn, Remain
    <2> QED
      BY <2>1, <2>2, <2>3, CalmKept
  <1> QED
    BY <1>1, <1>2 DEF Orderly, GoneOn, Unharmed

LEMMA OrderlyHandler ==
  ASSUME TypeOK, Orderly, NEW a \in Actors, HandlerStep(a)
  PROVE  Orderly'
  <1>1. CASE Take(a)
    <2>1. /\ a \in takers /\ handling' = handling \cup {a} /\ takers' = {}
          /\ UNCHANGED <<cpid, names, lost>>
      BY <1>1 DEF Take
    <2>2. Calm(a)
      BY <2>1 DEF Orderly, SignalCalm
    <2>3. UNCHANGED <<tpc, kid, daemon>>
      BY <1>1, <2>2 DEF Take, TakeIn, TakeInExit, Calm, Failed
    <2> QED
      BY <2>1, <2>3, SameEffect, OrderlyLess
  <1>2. CASE Reap(a)
    <2>1. NoneBorn
      BY <1>2, ReapEffect DEF Reap
    <2> QED
      BY <1>2, <2>1, OrderlyLess DEF Reap, signalVars, harmVars
  <1>3. CASE Return(a)
    <2>1. takers' \cup handling' \subseteq takers \cup handling
      BY <1>3 DEF Return, Unblocked
    <2> QED
      BY <1>3, <2>1, SameEffect, OrderlyLess DEF Return, harmVars
  <1> QED
    BY <1>1, <1>2, <1>3 DEF HandlerStep

(* The end of a child is announced to the thread that waits for it.        *)
LEMMA OrderlyEnd ==
  ASSUME TypeOK, Orderly, NEW p \in Pids, Alive(p), Ended(p), names' = names
  PROVE  Orderly'
  <1>1. /\ NoneBorn /\ ~(Alive(p))'
        /\ UNCHANGED <<tpc, cpid, daemon, names, lost>>
    BY EndEffect DEF Ended
  <1>2. PICK t \in Threads :
          t = kid[p].parent /\ tpc[t] = "wait" /\ cpid[t] = p
    BY DEF Orderly, Awaited
  <1>3. t \notin handling
    BY <1>2 DEF Orderly, SignalCalm, Calm
  <1>4. takers' = takers \/ takers' = {t}
    BY <1>2, <1>3 DEF Ended, SendChld, Woken, signalVars
  <1>5. handling' = handling
    BY DEF Ended, SendChld, signalVars
  <1>6. CASE takers' = takers
    BY <1>1, <1>5, <1>6, OrderlyLess
  <1>7. CASE takers' = {t}
    <2>1. Awaited'
      BY <1>1 DEF Orderly, Awaited, NoneBorn, Remain
    <2>2. Calm(t)'
      BY <1>1, <1>2 DEF Calm
    <2>3. \A a \in handling : Calm(a)'
      <3> SUFFICES ASSUME NEW a \in handling PROVE Calm(a)'
        OBVIOUS
      <3>1. Calm(a) /\ a \in Actors
        BY DEF Orderly, SignalCalm, TypeOK
      <3>2. tpc[a] = "wait" => a \in Threads /\ cpid[a] \in Pids
        BY <3>1, TakeInThread DEF MainPC, TypeOK, Orderly, GoneOn
      <3>3. \A r \in Pids : Alive(r)' => Alive(r)
        BY <1>1 DEF NoneBorn, Remain
      <3> QED
        BY <1>1, <3>1, <3>2, <3>3, CalmKept
    <2>4. SignalCalm'
      BY <1>5, <1>7, <2>2, <2>3 DEF SignalCalm
    <2> QED
      BY <1>1, <2>1, <2>4 DEF Orderly, GoneOn, Unharmed
  <1> QED
    BY <1>4, <1>6, <1>7

LEMMA OrderlyChild ==
  ASSUME TypeOK, Orderly, NEW p \in Pids, ChildStep(p)
  PROVE  Orderly'
  <1>1. CASE WriteOutput(p)
    <2>1. NoneBorn /\ UNCHANGED <<tpc, cpid, signalVars, harmVars>>
      BY <1>1, WriteEffect DEF WriteOutput
    <2> QED
      BY <2>1, OrderlyLess DEF signalVars, harmVars
  <1>2. CASE End(p) \/ GoBack(p)
    BY <1>2, OrderlyEnd DEF End, GoBack
  <1>3. CASE PrintToNobody(p)
    BY <1>3, SubshellAssumption DEF PrintToNobody, Orderly, Awaited
  <1> QED
    BY <1>1, <1>2, <1>3 DEF ChildStep

OrderlyInv == TypeOK /\ (~stopped => Orderly)

LEMMA OrderlyNext == OrderlyInv /\ [Next]_vars => OrderlyInv'
  <1> SUFFICES ASSUME OrderlyInv, [Next]_vars, ~stopped' PROVE Orderly'
    BY TypeNext DEF OrderlyInv
  <1>1. ~stopped => TypeOK /\ Orderly
    BY DEF OrderlyInv
  <1>2. ASSUME NEW t \in Threads, ClientStep(t) \/ ThreadStep(t)
        PROVE  Orderly'
    <2>1. ~stopped
      BY <1>2 DEF ClientStep, ThreadStep, Start, Open, Request, Leave, Fork,
                  StartOver, Wait, Close, Read, harmVars
    <2> QED
      BY <1>1, <1>2, <2>1, OrderlyClient, OrderlyThread
  <1>3. ASSUME NEW a \in Actors, HandlerStep(a)
        PROVE  Orderly'
    <2>1. ~stopped
      BY <1>3 DEF HandlerStep, Take, Reap, Return, harmVars
    <2> QED
      BY <1>1, <1>3, <2>1, OrderlyHandler
  <1>4. ASSUME NEW p \in Pids, ChildStep(p) \/ StopOrContinue(p)
        PROVE  Orderly'
    <2>1. ~StopOrContinue(p)
      BY DEF StopOrContinue
    <2>2. ~stopped
      BY <1>4, <2>1 DEF ChildStep, WriteOutput, End, GoBack, PrintToNobody,
                        Ended, harmVars
    <2> QED
      BY <1>1, <1>4, <2>1, <2>2, OrderlyChild
  <1>5. CASE Accept \/ StartOver(Main)
    <2>1. ~stopped /\ Main \in Actors
      BY <1>5 DEF Accept, StartOver, harmVars, Actors
    <2> QED
      BY <1>1, <1>5, <2>1, OrderlyAccept, OrderlyStartOver
  <1>6. CASE UNCHANGED vars
    BY <1>1, <1>6, SameEffect, OrderlyLess DEF vars, signalVars, harmVars
  <1> QED
    BY <1>2, <1>3, <1>4, <1>5, <1>6 DEF Next

LEMMA OrderlyAlways == Spec => []OrderlyInv
  <1>1. Init => OrderlyInv
    BY TypeInit, OrderlyInit DEF OrderlyInv
  <1> QED
    BY <1>1, OrderlyNext, PTL DEF Spec

(* Until a command is stopped or continued, a thread goes for the answer   *)
(* when its command has ended, whatever the other threads' commands do and *)
(* whoever reaps them.                                                     *)
THEOREM AnswersAfterTheEnd == Spec => []WaitsForChild
  <1>1. OrderlyInv => WaitsForChild
    BY DEF OrderlyInv, Orderly, GoneOn, WaitsForChild, OwnChildAlive
  <1> QED
    BY <1>1, OrderlyAlways, PTL

(* Until a command is stopped or continued, no SIGCHLD interrupts a call   *)
(* whose failure ends the daemon or a thread, and no child runs the        *)
(* daemon's handler of SIGPIPE.                                            *)
THEOREM CommandsHarmless == Spec => []DaemonUnharmed
  <1>1. OrderlyInv => DaemonUnharmed
    BY DEF OrderlyInv, Orderly, Unharmed, DaemonUnharmed
  <1> QED
    BY <1>1, OrderlyAlways, PTL
=============================================================================
