-------------------------- MODULE Lifecycle_proofs --------------------------
(***************************************************************************)
(* Proofs about Lifecycle, for every set of daemons and clients.           *)
(***************************************************************************)
EXTENDS Lifecycle, TLAPS

(***************************************************************************)
(* Types.  The index of a sequence of steps stays within the sequence, and *)
(* only a daemon that is ending has passes of dispose_all() under way.     *)
(***************************************************************************)
Positions ==
  \A d \in Daemon :
    /\ dpc[d] \in {"start", "config"} => dnext[d] = 1
    /\ dpc[d] # "dispose" => \A h \in Handler : pass[d][h] = 0

TypeInv == TypeOK /\ Positions

LEMMA Lengths ==
  /\ Len(Names) = 4
  /\ Len(Removals) = 5
  /\ 1 .. Len(Removals) = 1 .. 5
  BY DEF Names, Removals

(* Where the guard and the segment are in the lists of names. *)
LEMMA Order ==
  /\ \A i \in 1 .. 5 : Removals[i] = "guard" <=> i = 2
  /\ \A i \in 1 .. 5 : Removals[i] = "shm" <=> i = 1
  /\ \A i \in 1 .. 4 : Names[i] = "shm" <=> i = 1
  /\ \A i, j \in 1 .. 4 : Names[i] = Names[j] => i = j
  /\ \A i \in 1 .. 4 : Names[i] \in Name
  /\ Name = {"shm", "mutex", "empty", "full"}
  <1>1. DOMAIN Names = 1 .. 4
    BY DEF Names
  <1>2. /\ Names[1] = "shm" /\ Names[2] = "mutex"
        /\ Names[3] = "empty" /\ Names[4] = "full"
    BY DEF Names
  <1>3. /\ Removals[1] = "shm" /\ Removals[2] = "guard"
        /\ Removals[3] = "mutex" /\ Removals[4] = "empty"
        /\ Removals[5] = "full"
    BY DEF Removals
  <1>4. \A i \in 1 .. 4 : i = 1 \/ i = 2 \/ i = 3 \/ i = 4
    OBVIOUS
  <1>5. \A i \in 1 .. 5 : i = 1 \/ i = 2 \/ i = 3 \/ i = 4 \/ i = 5
    OBVIOUS
  <1>6. Name = {"shm", "mutex", "empty", "full"}
    BY <1>1, <1>2, <1>4 DEF Name
  <1> QED
    BY <1>2, <1>3, <1>4, <1>5, <1>6

(* What the provers need of the types.                                     *)
Typed ==
  /\ guard \in BOOLEAN
  /\ object \in [Name -> Daemon \cup {None}]
  /\ dpc \in [Daemon -> DaemonPC]
  /\ dnext \in [Daemon -> 1 .. 4]
  /\ cpc \in [Client -> ClientPC]
  /\ handle \in [Client -> [Name -> Daemon \cup {None}]]

LEMMA Types == TypeOK => Typed
  BY Lengths DEF TypeOK, Typed

LEMMA PassTypes ==
  ASSUME TypeOK, NEW d \in Daemon
  PROVE  /\ \A h \in Pass : pass[d][h] \in 0 .. 6
         /\ \A h \in Handler : h \in Pass /\ pass[d][h] \in 0 .. 6
  BY Lengths DEF TypeOK, Pass

LEMMA TypeInit == Init => TypeInv
  <1> SUFFICES ASSUME Init PROVE TypeInv
    OBVIOUS
  <1>1. dpc \in [Daemon -> DaemonPC] /\ cpc \in [Client -> ClientPC]
    BY DEF Init, DaemonPC, ClientPC
  <1>2. /\ dnext \in [Daemon -> 1 .. Len(Names)]
        /\ pass \in [Daemon -> [Pass -> 0 .. Len(Removals) + 1]]
        /\ overrun \in BOOLEAN
    <2>1. dnext = [d \in Daemon |-> 1] /\ 1 \in 1 .. Len(Names)
      BY Lengths DEF Init
    <2>2. pass = [d \in Daemon |-> [h \in Pass |-> 0]]
      BY DEF Init
    <2>3. [h \in Pass |-> 0] \in [Pass -> 0 .. Len(Removals) + 1]
      BY Lengths
    <2>4. overrun = FALSE
      BY DEF Init
    <2> QED
      BY <2>1, <2>2, <2>3, <2>4
  <1>3. /\ guard \in BOOLEAN /\ object \in [Name -> Daemon \cup {None}]
        /\ handle \in [Client -> [Name -> Daemon \cup {None}]]
    BY DEF Init
  <1>4. Positions
    BY DEF Init, Positions, Pass
  <1> QED
    BY <1>1, <1>2, <1>3, <1>4 DEF TypeInv, TypeOK

LEMMA StepType ==
  ASSUME dpc \in [Daemon -> DaemonPC], dnext \in [Daemon -> 1 .. Len(Names)],
         NEW d \in Daemon, NEW n \in 1 .. Len(Names),
         dnext[d] <= n, NEW here, NEW next \in DaemonPC,
         StepOf(d, n, here, next)
  PROVE  /\ dpc' \in [Daemon -> DaemonPC]
         /\ dnext' \in [Daemon -> 1 .. Len(Names)]
  BY Lengths DEF StepOf, DaemonGoto

(* Signals start passes of dispose_all(), and handlers end the daemon.     *)
Signals(d) ==
  \/ Terminate(d) \/ (\E h \in Handler : Again(d, h)) \/ ForkReport(d)
  \/ Exit(d) \/ Crash(d)

LEMMA SignalSteps ==
  ASSUME TypeOK, NEW d \in Daemon, Signals(d)
  PROVE  /\ UNCHANGED <<guard, object, dnext, overrun, cpc, handle>>
         /\ dpc' \in [Daemon -> DaemonPC]
         /\ pass' \in [Daemon -> [Pass -> 0 .. 6]]
         /\ \A e \in Daemon \ {d} : dpc'[e] = dpc[e] /\ pass'[e] = pass[e]
         /\ \/ /\ dpc[d] \in {"remove", "create", "init", "running"}
               /\ dpc'[d] = "dispose"
               /\ \A h \in Handler : pass'[d][h] \in {pass[d][h], 1}
            \/ /\ dpc[d] \in {"running", "dispose"}
               /\ dpc'[d] = dpc[d]
               /\ \A h \in Handler :
                    \/ pass'[d][h] = pass[d][h]
                    \/ /\ dpc[d] = "dispose"
                       /\ pass[d][h] = 0 /\ pass'[d][h] = 1
            \/ /\ dpc[d] = "dispose" /\ dpc'[d] = "stopped"
               /\ \E h \in Handler : pass[d][h] > 5
               /\ \A h \in Handler : pass'[d][h] = 0
            \/ /\ dpc[d] \notin {"start", "stopped", "crashed"}
               /\ dpc'[d] = "crashed"
               /\ \A h \in Handler : pass'[d][h] = 0
  <1> /\ dpc \in [Daemon -> DaemonPC]
      /\ pass \in [Daemon -> [Pass -> 0 .. 6]]
      /\ pass[d] \in [Pass -> 0 .. 6]
    BY Lengths DEF TypeOK
  <1> Child \in Pass /\ \A h \in Handler : h \in Pass /\ h # Child
    BY LifecycleAssumption DEF Pass
  <1>1. CASE Terminate(d)
    <2>1. "dispose" \in DaemonPC
      BY DEF DaemonPC
    <2>2. PICK h \in Handler : Begin(d, h)
      BY <1>1 DEF Terminate
    <2>3. pass' = [pass EXCEPT ![d] = [pass[d] EXCEPT ![h] = 1]]
      BY <2>2 DEF Begin
    <2>4. [pass[d] EXCEPT ![h] = 1] \in [Pass -> 0 .. 6]
      OBVIOUS
    <2>5. /\ pass' \in [Daemon -> [Pass -> 0 .. 6]]
          /\ \A e \in Daemon \ {d} : pass'[e] = pass[e]
          /\ \A g \in Handler : pass'[d][g] \in {pass[d][g], 1}
      BY <2>3, <2>4
    <2> QED
      BY <1>1, <2>1, <2>5 DEF Terminate, DaemonGoto, clientVars
  <1>2. ASSUME NEW h \in Handler, Again(d, h)
        PROVE  /\ UNCHANGED <<guard, object, dnext, overrun, cpc, handle, dpc>>
               /\ pass' \in [Daemon -> [Pass -> 0 .. 6]]
               /\ \A e \in Daemon \ {d} : pass'[e] = pass[e]
               /\ dpc[d] = "dispose"
               /\ \A g \in Handler :
                    \/ pass'[d][g] = pass[d][g]
                    \/ pass[d][g] = 0 /\ pass'[d][g] = 1
    <2>1. /\ pass[d][h] = 0
          /\ pass' = [pass EXCEPT ![d] = [pass[d] EXCEPT ![h] = 1]]
      BY <1>2 DEF Again, Begin
    <2>2. [pass[d] EXCEPT ![h] = 1] \in [Pass -> 0 .. 6]
      OBVIOUS
    <2>3. /\ pass' \in [Daemon -> [Pass -> 0 .. 6]]
          /\ \A e \in Daemon \ {d} : pass'[e] = pass[e]
          /\ \A g \in Handler :
               \/ pass'[d][g] = pass[d][g]
               \/ pass[d][g] = 0 /\ pass'[d][g] = 1
      <3>1. pass'[d] = [pass[d] EXCEPT ![h] = 1]
        BY <2>1
      <3>2. \A g \in Handler : pass'[d][g] = IF g = h THEN 1 ELSE pass[d][g]
        BY <3>1
      <3>3. /\ pass' \in [Daemon -> [Pass -> 0 .. 6]]
            /\ \A e \in Daemon \ {d} : pass'[e] = pass[e]
        BY <2>1, <2>2
      <3>4. pass[d][h] = 0
        BY <2>1
      <3>5. ASSUME NEW g \in Handler
            PROVE  \/ pass'[d][g] = pass[d][g]
                   \/ pass[d][g] = 0 /\ pass'[d][g] = 1
        BY <3>2, <3>4
      <3> QED BY <3>3, <3>5
    <2> QED
      BY <1>2, <2>3 DEF Again, clientVars
  <1>3. CASE ForkReport(d)
    <2>1. pass' = [pass EXCEPT ![d] = [pass[d] EXCEPT ![Child] = 1]]
      BY <1>3 DEF ForkReport, Begin
    <2>2. [pass[d] EXCEPT ![Child] = 1] \in [Pass -> 0 .. 6]
      OBVIOUS
    <2>3. /\ pass' \in [Daemon -> [Pass -> 0 .. 6]]
          /\ \A e \in Daemon \ {d} : pass'[e] = pass[e]
          /\ \A g \in Handler : pass'[d][g] = pass[d][g]
      BY <2>1, <2>2
    <2> QED
      BY <1>3, <2>3 DEF ForkReport, clientVars
  <1>4. CASE Exit(d) \/ Crash(d)
    <2>1. "stopped" \in DaemonPC /\ "crashed" \in DaemonPC
      BY DEF DaemonPC
    <2>2. [h \in Pass |-> IF h = Child THEN pass[d][h] ELSE 0]
            \in [Pass -> 0 .. 6]
      OBVIOUS
    <2>3. pass' = [pass EXCEPT ![d] =
                    [h \in Pass |-> IF h = Child THEN pass[d][h] ELSE 0]]
      BY <1>4 DEF Exit, Crash, EndDaemon
    <2>4. /\ pass' \in [Daemon -> [Pass -> 0 .. 6]]
          /\ \A e \in Daemon \ {d} : pass'[e] = pass[e]
          /\ \A h \in Handler : pass'[d][h] = 0
      BY <2>2, <2>3
    <2>5. ASSUME Exit(d), NEW h \in Handler, pass[d][h] > Len(Removals)
          PROVE  pass[d][h] > 5
      BY <2>5, Lengths
    <2>6. CASE Exit(d)
      BY <2>1, <2>4, <2>5, <2>6 DEF Exit, EndDaemon, clientVars
    <2>7. CASE Crash(d)
      BY <2>1, <2>4, <2>7 DEF Crash, EndDaemon, clientVars
    <2> QED
      BY <1>4, <2>6, <2>7
  <1> QED
    BY <1>1, <1>2, <1>3, <1>4 DEF Signals

(* A step of a pass of dispose_all().  Unless the step overruns, a pass    *)
(* that removes the guard or the segment is the first to have come so far. *)
LEMMA DisposeSteps ==
  ASSUME TypeInv, NEW d \in Daemon, NEW h \in Pass, Dispose(d, h)
  PROVE  /\ UNCHANGED <<dpc, dnext, cpc, handle>>
         /\ pass[d][h] \in 1 .. 5
         /\ pass' \in [Daemon -> [Pass -> 0 .. 6]]
         /\ pass'[d][h] = pass[d][h] + 1
         /\ \A e \in Daemon, g \in Pass :
              e # d \/ g # h => pass'[e][g] = pass[e][g]
         /\ guard' = (guard /\ pass[d][h] # 2)
         /\ guard' \in BOOLEAN
         /\ object' \in [Name -> Daemon \cup {None}]
         /\ \A n \in Name :
              object'[n] = IF n = Removals[pass[d][h]] THEN None ELSE object[n]
         /\ overrun' \in BOOLEAN
         /\ overrun => overrun'
         /\ h \in Handler => dpc[d] = "dispose"
         /\ ~overrun' /\ pass[d][h] \in {1, 2} =>
              h \in Handler /\ \A g \in Handler \ {h} : pass[d][g] <= 2
  <1> USE Lengths DEF TypeInv, TypeOK
  <1>1. DOMAIN Removals = 1 .. 5
    BY DEF Removals
  <1>2. pass[d] \in [Pass -> 0 .. 6] /\ pass[d][h] \in 1 .. 5
    BY <1>1 DEF Dispose
  <1>3. pass' = [pass EXCEPT ![d] = [pass[d] EXCEPT ![h] = pass[d][h] + 1]]
    BY DEF Dispose
  <1>4. [pass[d] EXCEPT ![h] = pass[d][h] + 1] \in [Pass -> 0 .. 6]
    BY <1>2
  <1>5. /\ pass' \in [Daemon -> [Pass -> 0 .. 6]]
        /\ pass'[d][h] = pass[d][h] + 1
        /\ \A e \in Daemon, g \in Pass :
              e # d \/ g # h => pass'[e][g] = pass[e][g]
    BY <1>2, <1>3, <1>4
  <1>6. guard' = (guard /\ pass[d][h] # 2) /\ guard' \in BOOLEAN
    BY <1>2, Order DEF Dispose
  <1>7. /\ object' \in [Name -> Daemon \cup {None}]
        /\ \A n \in Name :
             object'[n] = IF n = Removals[pass[d][h]] THEN None ELSE object[n]
    BY DEF Dispose
  <1>8. h \in Handler => dpc[d] = "dispose"
    BY <1>2 DEF Positions
  <1>9. overrun' = (overrun \/ Overruns(d, h))
    BY DEF Dispose
  <1>10. ASSUME ~overrun', pass[d][h] \in {1, 2}
         PROVE  h \in Handler /\ \A g \in Handler \ {h} : pass[d][g] <= 2
    <2>1. Removals[pass[d][h]] \in {"guard", "shm"}
      BY <1>2, <1>10, Order
    <2>2. h # Child /\ ~GaveUp(d, h)
      BY <1>9, <1>10, <2>1 DEF Overruns
    <2>3. 2 \in DOMAIN Removals /\ Removals[2] = "guard"
      BY <1>1, Order
    <2>4. \A g \in Handler \ {h} : ~(pass[d][g] > 2)
      BY <2>2, <2>3 DEF GaveUp
    <2>5. \A g \in Handler : pass[d][g] \in 0 .. 6
      BY DEF Pass
    <2> QED
      BY <2>2, <2>4, <2>5 DEF Pass
  <1>11. overrun' \in BOOLEAN /\ (overrun => overrun')
    BY <1>9
  <1> QED
    BY <1>2, <1>5, <1>6, <1>7, <1>8, <1>10, <1>11 DEF Dispose, clientVars

(* What clients do to the names and to themselves. *)
LEMMA ClientSteps ==
  ASSUME TypeOK, NEW c \in Client, ClientNext(c)
  PROVE  /\ UNCHANGED <<object, dpc, dnext, pass, overrun>>
         /\ \/ Probe(c) \/ RemoveProbe(c) \/ ClientDies(c)
            \/ /\ guard' = guard
               /\ cpc[c] \in {"open", "connected", "stopped"}
               /\ cpc'[c] \in {"start", "open", "connected", "stopped"}
               /\ \A b \in Client \ {c} : cpc'[b] = cpc[b]
               /\ cpc' \in [Client -> ClientPC]
  <1> USE DEF TypeOK, ClientPC, daemonVars
  <1>1. CASE Probe(c) \/ RemoveProbe(c) \/ ClientDies(c)
    BY <1>1 DEF Probe, RemoveProbe, ClientDies
  <1>2. CASE Retry(c)
    BY <1>2 DEF Retry
  <1>3. ASSUME NEW i \in 1 .. Len(Names), Open(c, i) \/ OpenFails(c, i)
        PROVE  /\ UNCHANGED <<object, dpc, dnext, pass, overrun, guard>>
               /\ cpc[c] = "open"
               /\ cpc'[c] \in {"open", "connected", "stopped"}
               /\ \A b \in Client \ {c} : cpc'[b] = cpc[b]
               /\ cpc' \in [Client -> ClientPC]
    BY <1>3 DEF Open, OpenFails, ToOpen, ClientGoto
  <1> QED
    BY <1>1, <1>2, <1>3 DEF ClientNext

(* What becomes of the handles of the clients.                             *)
LEMMA HandleSteps ==
  ASSUME TypeOK, NEW c \in Client, ClientNext(c)
  PROVE  /\ handle' \in [Client -> [Name -> Daemon \cup {None}]]
         /\ \A b \in Client \ {c} : handle'[b] = handle[b]
         /\ \/ handle' = handle
            \/ \A n \in Name : handle'[c][n] = None
            \/ \E i \in 1 .. 4 :
                 /\ \A k \in 1 .. 4 : k < i => handle[c][Names[k]] # None
                 /\ handle[c][Names[i]] = None
                 /\ handle'[c] = [handle[c] EXCEPT ![Names[i]] = object[Names[i]]]
                 /\ object[Names[i]] # None
  <1> USE Lengths, Order DEF TypeOK
  <1>1. CASE Probe(c) \/ RemoveProbe(c) \/ ClientDies(c)
    BY <1>1 DEF Probe, RemoveProbe, ClientDies
  <1>2. CASE Retry(c)
    BY <1>2 DEF Retry
  <1>3. ASSUME NEW i \in 1 .. Len(Names), OpenFails(c, i)
        PROVE  handle' = handle
    BY <1>3 DEF OpenFails
  <1>4. ASSUME NEW i \in 1 .. Len(Names), Open(c, i)
        PROVE  /\ handle' \in [Client -> [Name -> Daemon \cup {None}]]
               /\ \A b \in Client \ {c} : handle'[b] = handle[b]
               /\ \A k \in 1 .. 4 : k < i => handle[c][Names[k]] # None
               /\ handle[c][Names[i]] = None
               /\ handle'[c] = [handle[c] EXCEPT ![Names[i]] = object[Names[i]]]
               /\ object[Names[i]] # None
    <2>1. i \in 1 .. 4 /\ Names[i] \in Name
      BY Lengths, Order
    <2>2. object[Names[i]] \in Daemon \cup {None}
      BY <2>1
    <2>3. [handle[c] EXCEPT ![Names[i]] = object[Names[i]]]
            \in [Name -> Daemon \cup {None}]
      BY <2>1, <2>2
    <2>4. handle' = [handle EXCEPT ![c] =
                      [handle[c] EXCEPT ![Names[i]] = object[Names[i]]]]
      BY <1>4 DEF Open
    <2>5. \A k \in 1 .. 4 : k < i => k \in 1 .. i - 1
      BY <2>1
    <2> QED
      BY <1>4, <2>1, <2>3, <2>4, <2>5 DEF Open, ToOpen
  <1> QED
    BY <1>1, <1>2, <1>3, <1>4 DEF ClientNext

LEMMA TypeNext == TypeInv /\ [Next]_vars => TypeInv'
  <1> SUFFICES ASSUME TypeInv, [Next]_vars PROVE TypeInv'
    OBVIOUS
  <1> USE DEF TypeInv
  <1>1. CASE UNCHANGED vars
    BY <1>1 DEF vars, daemonVars, clientVars, TypeOK, Positions
  <1>2. ASSUME NEW d \in Daemon, TakeGuard(d) \/ GuardTaken(d)
                 \/ ReadConfig(d) \/ RefuseConfig(d) \/ Run(d)
        PROVE  TypeInv'
    <2>1. TypeOK'
      BY <1>2 DEF TypeOK, DaemonPC, DaemonGoto, TakeGuard, GuardTaken,
                  ReadConfig, RefuseConfig, Run, clientVars
    <2>2. Positions'
      BY <1>2, Lengths DEF Positions, TypeOK, DaemonGoto, TakeGuard,
                           GuardTaken, ReadConfig, RefuseConfig, Run
    <2> QED BY <2>1, <2>2
  <1>3. ASSUME NEW d \in Daemon, Signals(d)
        PROVE  TypeInv'
    <2>1. TypeOK'
      <3>1. /\ UNCHANGED <<guard, object, dnext, overrun, cpc, handle>>
            /\ dpc' \in [Daemon -> DaemonPC]
            /\ pass' \in [Daemon -> [Pass -> 0 .. Len(Removals) + 1]]
        BY <1>3, SignalSteps, Lengths
      <3> QED BY <3>1 DEF TypeOK
    <2>2. Positions'
      <3>1. /\ dnext' = dnext
            /\ \A e \in Daemon \ {d} : dpc'[e] = dpc[e] /\ pass'[e] = pass[e]
        BY <1>3, SignalSteps
      <3>2. /\ dpc'[d] \in {"start", "config"} => FALSE
            /\ dpc'[d] # "dispose" => dpc[d] # "dispose"
                                      \/ \A h \in Handler : pass'[d][h] = 0
        BY <1>3, SignalSteps
      <3>3. dpc'[d] # "dispose" => \A h \in Handler : pass'[d][h] = 0
        <4>1. CASE dpc[d] = "dispose"
          BY <3>2, <4>1
        <4>2. CASE dpc[d] # "dispose" /\ dpc'[d] # "dispose"
          <5>1. \A h \in Handler : pass[d][h] = 0
            BY <4>2 DEF Positions
          <5>2. \A h \in Handler : pass'[d][h] \in {0, pass[d][h]}
            BY <1>3, <4>2, <5>1, SignalSteps
          <5> QED BY <5>1, <5>2
        <4> QED BY <4>1, <4>2
      <3> QED BY <3>1, <3>2, <3>3 DEF Positions
    <2> QED BY <2>1, <2>2
  <1>4. ASSUME NEW d \in Daemon, RemoveOld(d) \/ Create(d)
        PROVE  TypeInv'
    <2>1. /\ dpc' \in [Daemon -> DaemonPC]
          /\ dnext' \in [Daemon -> 1 .. Len(Names)]
      <3>1. /\ Len(Names) \in 1 .. Len(Names)
            /\ "create" \in DaemonPC
            /\ "init" \in DaemonPC
        BY Lengths DEF DaemonPC
      <3>2. /\ dpc \in [Daemon -> DaemonPC]
            /\ dnext \in [Daemon -> 1 .. Len(Names)]
            /\ dnext[d] <= Len(Names)
        BY Lengths DEF TypeOK
      <3>3. CASE RemoveOld(d)
        BY <3>1, <3>2, <3>3, StepType DEF RemoveOld
      <3>4. CASE Create(d)
        BY <3>1, <3>2, <3>4, StepType DEF Create
      <3> QED BY <1>4, <3>3, <3>4
    <2>2. object' \in [Name -> Daemon \cup {None}]
      BY <1>4 DEF TypeOK, RemoveOld, Create
    <2>3. TypeOK'
      BY <1>4, <2>1, <2>2 DEF TypeOK, RemoveOld, Create, clientVars
    <2>4. Positions'
      BY <1>4, Lengths
      DEF Positions, TypeOK, RemoveOld, Create, StepOf, DaemonGoto
    <2> QED BY <2>3, <2>4
  <1>5. ASSUME NEW d \in Daemon, NEW h \in Pass, Dispose(d, h)
        PROVE  TypeInv'
    <2>1. TypeOK'
      <3>1. /\ UNCHANGED <<dpc, dnext, cpc, handle>>
            /\ guard' \in BOOLEAN /\ overrun' \in BOOLEAN
            /\ object' \in [Name -> Daemon \cup {None}]
            /\ pass' \in [Daemon -> [Pass -> 0 .. Len(Removals) + 1]]
        <4>1. UNCHANGED <<dpc, dnext, cpc, handle>>
          BY <1>5, DisposeSteps
        <4>2. /\ guard' \in BOOLEAN /\ overrun' \in BOOLEAN
              /\ object' \in [Name -> Daemon \cup {None}]
          BY <1>5, DisposeSteps
        <4>3. pass' \in [Daemon -> [Pass -> 0 .. 6]]
          BY <1>5, DisposeSteps
        <4> QED BY <4>1, <4>2, <4>3, Lengths
      <3> QED
        BY <3>1 DEF TypeOK
    <2>2. Positions'
      <3>1. UNCHANGED <<dpc, dnext>>
        BY <1>5, DisposeSteps
      <3>2. \A e \in Daemon, g \in Handler :
              dpc[e] # "dispose" => pass'[e][g] = pass[e][g]
        BY <1>5, DisposeSteps DEF Pass
      <3> QED
        BY <3>1, <3>2 DEF Positions
    <2> QED BY <2>1, <2>2
  <1>6. ASSUME NEW c \in Client, ClientNext(c)
        PROVE  TypeInv'
    <2>1. TypeOK'
      BY <1>6, ClientSteps, HandleSteps
      DEF TypeOK, ClientPC, Probe, RemoveProbe, ClientDies, ClientGoto
    <2>2. Positions'
      BY <1>6, ClientSteps DEF Positions
    <2> QED BY <2>1, <2>2
  <1>7. CASE RemoveGuard
    BY <1>7 DEF RemoveGuard, TypeOK, Positions, daemonVars, clientVars
  <1> QED
    BY <1>1, <1>2, <1>3, <1>4, <1>5, <1>6, <1>7 DEF Next, DaemonNext, Signals

(* Every variable keeps its type, and no step goes beyond the list of      *)
(* names that main() and dispose_all() run through.                        *)
THEOREM TypeCorrect == Spec => []TypeOK
  <1>1. TypeInv => TypeOK
    BY DEF TypeInv
  <1> QED
    BY <1>1, TypeInit, TypeNext, PTL DEF Spec

(***************************************************************************)
(* The guard has at most one owner: a daemon, until a pass of its          *)
(* dispose_all() has removed it, or a client that has just created it.     *)
(***************************************************************************)
Holds(d) == \A h \in Handler : pass[d][h] <= 2

Owner(d) == Active(d) \/ (dpc[d] = "dispose" /\ Holds(d))

Prober(c) == cpc[c] = "created_guard"

GuardOwned ==
  /\ \A d \in Daemon : Owner(d) => guard
  /\ \A c \in Client : Prober(c) => guard
  /\ \A d, e \in Daemon : Owner(d) /\ Owner(e) => d = e
  /\ \A b, c \in Client : Prober(b) /\ Prober(c) => b = c
  /\ \A d \in Daemon, c \in Client : ~(Owner(d) /\ Prober(c))

LEMMA GuardInit == Init => GuardOwned
  BY DEF Init, GuardOwned, Owner, Prober, Active

(* A step of a pass of d that does not overrun: who owns the guard after   *)
(* it did so before, and if it removes the guard or the segment, d does.   *)
LEMMA DisposeOwner ==
  ASSUME TypeInv, NEW d \in Daemon, NEW h \in Pass, Dispose(d, h), ~overrun'
  PROVE  /\ \A e \in Daemon : Owner(e)' => Owner(e)
         /\ pass[d][h] \in {1, 2} => Owner(d)
         /\ pass[d][h] = 2 => ~Owner(d)'
  <1>1. /\ dpc' = dpc /\ pass[d][h] \in 1 .. 5
        /\ pass'[d][h] = pass[d][h] + 1
        /\ \A e \in Daemon, g \in Pass :
             e # d \/ g # h => pass'[e][g] = pass[e][g]
        /\ h \in Handler => dpc[d] = "dispose"
        /\ pass[d][h] \in {1, 2} =>
             h \in Handler /\ \A g \in Handler \ {h} : pass[d][g] <= 2
    BY DisposeSteps
  <1>2. \A e \in Daemon : Active(e)' = Active(e)
    BY <1>1 DEF Active
  <1>3. ASSUME NEW e \in Daemon, Holds(e)' PROVE Holds(e)
    <2>1. SUFFICES ASSUME NEW g \in Handler PROVE pass[e][g] <= 2
      BY DEF Holds
    <2>2. pass'[e][g] <= 2 /\ g \in Pass
      BY <1>3 DEF Holds, Pass
    <2> QED
      BY <1>1, <2>2
  <1>4. pass[d][h] \in {1, 2} => Holds(d) /\ dpc[d] = "dispose"
    BY <1>1 DEF Holds
  <1>5. pass[d][h] = 2 => ~Holds(d)' /\ ~Active(d)'
    BY <1>1 DEF Holds, Active
  <1> QED
    BY <1>1, <1>2, <1>3, <1>4, <1>5 DEF Owner

LEMMA GuardNext ==
  TypeInv /\ GuardOwned /\ [Next]_vars /\ ~overrun' => GuardOwned'
  <1> SUFFICES ASSUME TypeInv, GuardOwned, [Next]_vars, ~overrun'
               PROVE  GuardOwned'
    OBVIOUS
  <1> TypeOK /\ Typed
    BY Types DEF TypeInv
  <1> USE Lengths
      DEF Typed, Positions, GuardOwned, Owner, Holds, Prober, Active
  <1>1. CASE UNCHANGED vars
    BY <1>1 DEF vars, daemonVars, clientVars
  <1>2. ASSUME NEW d \in Daemon, TakeGuard(d) PROVE GuardOwned'
    <2>1. /\ ~guard /\ guard' /\ UNCHANGED <<cpc, pass>>
          /\ \A e \in Daemon \ {d} : dpc'[e] = dpc[e]
      BY <1>2 DEF TakeGuard, DaemonGoto, clientVars
    <2>2. \A e \in Daemon \ {d} : ~Owner(e)'
      BY <2>1
    <2>3. \A c \in Client : ~Prober(c)'
      BY <2>1
    <2> QED
      BY <2>1, <2>2, <2>3
  <1>3. ASSUME NEW d \in Daemon,
               GuardTaken(d) \/ ReadConfig(d) \/ RefuseConfig(d) \/ Run(d)
        PROVE  GuardOwned'
    <2>1. UNCHANGED <<cpc, pass>> /\ \A e \in Daemon \ {d} : dpc'[e] = dpc[e]
      BY <1>3
      DEF GuardTaken, ReadConfig, RefuseConfig, Run, DaemonGoto, clientVars
    <2>2. CASE RefuseConfig(d)
      <3>1. dpc[d] = "config" /\ dpc'[d] = "stopped"
        BY <2>2 DEF RefuseConfig, DaemonGoto
      <3> QED BY <2>1, <3>1
    <2>3. CASE GuardTaken(d) \/ ReadConfig(d) \/ Run(d)
      <3>1. guard' = guard /\ (Active(d)' => Active(d)) /\ dpc'[d] # "dispose"
        BY <2>3 DEF GuardTaken, ReadConfig, Run, DaemonGoto
      <3> QED BY <2>1, <3>1
    <2> QED BY <1>3, <2>2, <2>3
  <1>4. ASSUME NEW d \in Daemon, Signals(d)
        PROVE  GuardOwned'
    <2>1. guard' = guard /\ cpc' = cpc
      BY <1>4, SignalSteps
    <2>2. \A e \in Daemon \ {d} : dpc'[e] = dpc[e] /\ pass'[e] = pass[e]
      BY <1>4, SignalSteps
    <2>3. Owner(d)' => Owner(d)
      <3>1. \A h \in Handler : pass[d][h] \in 0 .. 6
        BY PassTypes
      <3>2. \/ Active(d)
            \/ /\ dpc[d] = "dispose" /\ dpc'[d] = "dispose"
               /\ \A h \in Handler :
                    \/ pass'[d][h] = pass[d][h]
                    \/ pass[d][h] = 0 /\ pass'[d][h] = 1
            \/ dpc'[d] \notin {"dispose", "config", "remove", "create", "init",
                              "running"}
        BY <1>4, SignalSteps
      <3>3. ASSUME dpc[d] = "dispose", Holds(d)',
                   \A h \in Handler :
                     \/ pass'[d][h] = pass[d][h]
                     \/ pass[d][h] = 0 /\ pass'[d][h] = 1
            PROVE  Owner(d)
        <4>1. SUFFICES ASSUME NEW h \in Handler PROVE pass[d][h] <= 2
          BY <3>3
        <4>2. pass'[d][h] <= 2
          BY <3>3
        <4> QED BY <3>1, <3>3, <4>2
      <3> QED BY <3>2, <3>3
    <2> QED BY <2>1, <2>2, <2>3
  <1>5. ASSUME NEW d \in Daemon, RemoveOld(d) \/ Create(d)
        PROVE  GuardOwned'
    <2>1. /\ Active(d) /\ Active(d)'
          /\ guard' = guard /\ cpc' = cpc
          /\ \A e \in Daemon \ {d} : dpc'[e] = dpc[e]
          /\ pass' = pass
      BY <1>5 DEF RemoveOld, Create, StepOf, DaemonGoto, clientVars
    <2> QED BY <2>1
  <1>6. ASSUME NEW d \in Daemon, NEW h \in Pass, Dispose(d, h)
        PROVE  GuardOwned'
    <2> HIDE DEF TypeInv, Owner, Holds, Prober
    <2>1. \A e \in Daemon : Owner(e)' => Owner(e)
      BY <1>6, DisposeOwner
    <2>2. /\ guard' = (guard /\ pass[d][h] # 2)
          /\ \A c \in Client : Prober(c)' = Prober(c)
      BY <1>6, DisposeSteps DEF Prober
    <2>3. CASE pass[d][h] = 2
      <3>1. Owner(d) /\ ~Owner(d)'
        BY <1>6, <2>3, DisposeOwner
      <3> QED
        BY <2>1, <2>2, <3>1
    <2>4. CASE pass[d][h] # 2
      BY <2>1, <2>2, <2>4
    <2> QED BY <2>3, <2>4
  <1>7. ASSUME NEW c \in Client, ClientNext(c) PROVE GuardOwned'
    <2>1. UNCHANGED <<object, dpc, dnext, pass>>
      BY <1>7, ClientSteps
    <2>2. CASE Probe(c) \/ RemoveProbe(c) \/ ClientDies(c)
      <3>1. \A e \in Daemon : Owner(e)' = Owner(e)
        BY <2>1
      <3>2. \A b \in Client \ {c} : cpc'[b] = cpc[b]
        BY <2>2 DEF Probe, RemoveProbe, ClientDies, ClientGoto
      <3>3. \/ guard' = guard /\ cpc'[c] # "created_guard"
            \/ ~guard /\ guard'
            \/ cpc[c] = "created_guard" /\ cpc'[c] # "created_guard"
        BY <2>2 DEF Probe, RemoveProbe, ClientDies, ClientGoto
      <3> HIDE DEF Owner
      <3> QED BY <3>1, <3>2, <3>3
    <2>3. CASE ~(Probe(c) \/ RemoveProbe(c) \/ ClientDies(c))
      <3>1. /\ guard' = guard /\ cpc'[c] # "created_guard"
            /\ \A b \in Client \ {c} : cpc'[b] = cpc[b]
        BY <1>7, <2>3, ClientSteps
      <3> QED BY <2>1, <3>1
    <2> QED BY <2>2, <2>3
  <1>8. CASE RemoveGuard
    BY <1>8 DEF RemoveGuard, daemonVars, clientVars
  <1> QED
    BY <1>1, <1>2, <1>3, <1>4, <1>5, <1>6, <1>7, <1>8 DEF Next, DaemonNext, Signals

(***************************************************************************)
(* The names.                                                              *)
(***************************************************************************)
(* RemoveOld() has been through the names before dnext, Create() has still *)
(* to come to those from dnext on.                                         *)
Cleared ==
  \A d \in Daemon : \A i \in 1 .. 4 :
    \/ dpc[d] = "remove" /\ i < dnext[d]
    \/ dpc[d] = "create" /\ i >= dnext[d]
    => object[Names[i]] = None

HasSegment(d) ==
  dpc[d] \in {"init", "running"} \/ (dpc[d] = "create" /\ dnext[d] > 1)

SegmentInv == \A d \in Daemon : HasSegment(d) => object["shm"] = d

NameInv == Cleared /\ SegmentInv

LEMMA NameInit == Init => NameInv
  BY DEF Init, NameInv, Cleared, SegmentInv, HasSegment

LEMMA NameNext ==
  TypeInv /\ GuardOwned /\ NameInv /\ [Next]_vars /\ ~overrun' => NameInv'
  <1> SUFFICES ASSUME TypeInv, GuardOwned, NameInv, [Next]_vars, ~overrun'
               PROVE  NameInv'
    OBVIOUS
  <1> TypeOK /\ Typed
    BY Types DEF TypeInv
  <1> USE DEF NameInv, Cleared, SegmentInv, HasSegment
  <1>1. CASE UNCHANGED vars
    BY <1>1 DEF vars, daemonVars
  <1>2. ASSUME NEW d \in Daemon, TakeGuard(d) \/ GuardTaken(d)
                 \/ ReadConfig(d) \/ RefuseConfig(d) \/ Run(d)
        PROVE  NameInv'
    <2>1. UNCHANGED <<object, dnext>> /\ dnext[d] \in 1 .. 4
      BY <1>2 DEF TakeGuard, GuardTaken, ReadConfig, RefuseConfig, Run, Typed
    <2>2. /\ \A e \in Daemon \ {d} : dpc'[e] = dpc[e]
          /\ \/ dpc'[d] \in {"config", "stopped"}
             \/ dpc'[d] = "remove" /\ dpc[d] = "config"
             \/ dpc'[d] = "running" /\ dpc[d] = "init"
      BY <1>2 DEF TakeGuard, GuardTaken, ReadConfig, RefuseConfig, Run,
                  DaemonGoto, Typed
    <2>3. dpc[d] = "config" => dnext[d] = 1
      BY DEF TypeInv, Positions
    <2>4. Cleared'
      BY <2>1, <2>2, <2>3
    <2>5. SegmentInv'
      BY <2>1, <2>2
    <2> QED BY <2>4, <2>5
  <1>3. ASSUME NEW d \in Daemon, Signals(d)
        PROVE  NameInv'
    BY <1>3, SignalSteps DEF TypeInv
  <1>4. ASSUME NEW d \in Daemon, RemoveOld(d) \/ Create(d)
        PROVE  NameInv'
    <2>1. \A e \in Daemon \ {d} : ~Active(e)
      BY <1>4 DEF RemoveOld, Create, StepOf, GuardOwned, Owner, Active
    <2>2. \A e \in Daemon \ {d} : dpc[e] = dpc'[e]
      BY <1>4 DEF RemoveOld, Create, StepOf, DaemonGoto, Typed
    <2>3. dnext[d] \in 1 .. 4 /\ dnext[d] = dnext[d]
      BY <1>4, Lengths
      DEF RemoveOld, Create, StepOf, Typed, Positions
    <2>4. CASE RemoveOld(d)
      <3>1. object' = [object EXCEPT ![Names[dnext[d]]] = None]
        BY <2>4 DEF RemoveOld
      <3>2. \A i \in 1 .. 4 : i <= dnext[d] => object'[Names[i]] = None
        BY <2>3, <2>4, <3>1, Order
        DEF RemoveOld, StepOf, Typed
      <3>3. \/ dpc'[d] = "remove" /\ dnext'[d] = dnext[d] + 1
            \/ dpc'[d] = "create" /\ dnext'[d] = 1 /\ dnext[d] = 4
        BY <2>4, Lengths
        DEF RemoveOld, StepOf, DaemonGoto, Typed
      <3> QED
        BY <2>1, <2>2, <2>3, <3>2, <3>3 DEF Active
    <2>5. CASE Create(d)
      <3>1. object' = [object EXCEPT ![Names[dnext[d]]] = d]
        BY <2>5 DEF Create
      <3>2. \A i \in 1 .. 4 : i > dnext[d] => object'[Names[i]] = None
        BY <2>3, <2>5, <3>1, Order DEF Create, StepOf, Typed
      <3>3. \/ dpc'[d] = "create" /\ dnext'[d] = dnext[d] + 1
            \/ dpc'[d] = "init"
        BY <2>5 DEF Create, StepOf, DaemonGoto, Typed
      <3>4. object'["shm"] = d
        BY <2>3, <2>5, <3>1, Order DEF Create, StepOf, Typed
      <3> QED
        BY <2>1, <2>2, <2>3, <3>2, <3>3, <3>4 DEF Active
    <2> QED BY <1>4, <2>4, <2>5
  <1>5. ASSUME NEW d \in Daemon, NEW h \in Pass, Dispose(d, h)
        PROVE  NameInv'
    <2>1. UNCHANGED <<dpc, dnext>> /\ pass[d][h] \in 1 .. 5
      BY <1>5, DisposeSteps
    <2>2. \A n \in Name :
            object'[n] = IF n = Removals[pass[d][h]] THEN None ELSE object[n]
      BY <1>5, DisposeSteps
    <2>3. Cleared'
      BY <2>1, <2>2, Order
    <2>4. ASSUME NEW e \in Daemon, HasSegment(e)'
          PROVE  object'["shm"] = e
      <3>1. HasSegment(e) /\ Active(e) /\ Owner(e) /\ dpc[e] # "dispose"
        BY <2>1, <2>4 DEF Active, Owner
      <3>2. CASE pass[d][h] = 1
        <4>1. Owner(d) /\ dpc[d] = "dispose"
          BY <1>5, <3>2, DisposeOwner, DisposeSteps
        <4> QED
          BY <3>1, <4>1 DEF GuardOwned
      <3>3. CASE pass[d][h] # 1
        BY <2>1, <2>2, <3>1, <3>3, Order
      <3> QED
        BY <3>2, <3>3
    <2> QED BY <2>3, <2>4
  <1>6. ASSUME NEW c \in Client, ClientNext(c)
        PROVE  NameInv'
    BY <1>6, ClientSteps DEF TypeInv
  <1>7. CASE RemoveGuard
    BY <1>7 DEF RemoveGuard, daemonVars
  <1> QED
    BY <1>1, <1>2, <1>3, <1>4, <1>5, <1>6, <1>7 DEF Next, DaemonNext, Signals

(***************************************************************************)
(* The handles of the clients.  A daemon that has created its segment      *)
(* finds nobody else's object under any name, and what a client opens      *)
(* after that segment is none of anybody else.                             *)
(***************************************************************************)
Made(d) == dpc[d] \in {"create", "init", "running"}

Before(d) ==
  dpc[d] \in {"start", "config", "remove"} \/ (dpc[d] = "create" /\ dnext[d] = 1)

OwnNames ==
  \A d \in Daemon : Made(d) => \A n \in Name : object[n] \in {None, d}

NotYet ==
  \A d \in Daemon : Before(d) =>
    object["shm"] # d /\ \A c \in Client : handle[c]["shm"] # d

OwnHandles ==
  \A c \in Client : \A d \in Daemon :
    handle[c]["shm"] = d /\ Made(d) => \A n \in Name : handle[c][n] \in {None, d}

ShmFirst ==
  \A c \in Client :
    handle[c]["shm"] = None => \A n \in Name : handle[c][n] = None

HandleInv == OwnNames /\ NotYet /\ OwnHandles /\ ShmFirst

LEMMA HandleInit == Init => HandleInv
  BY LifecycleAssumption, Order
  DEF Init, HandleInv, OwnNames, NotYet, OwnHandles, ShmFirst, Made

(* A step that opens nothing, starts nobody anew and gives no name to a    *)
(* daemon that has not made its segment.                                   *)
LEMMA QuietStep ==
  ASSUME HandleInv, handle' = handle,
         \A d \in Daemon : Before(d)' => Before(d),
         \A d \in Daemon : Made(d)' =>
           \/ Made(d) /\ \A n \in Name : object'[n] \in {object[n], None, d}
           \/ Before(d) /\ \A n \in Name : object'[n] = None,
         \A d \in Daemon : Before(d)' =>
           object'["shm"] = object["shm"] \/ object'["shm"] # d
  PROVE  HandleInv'
  <1> USE DEF HandleInv, OwnNames, NotYet, OwnHandles, ShmFirst
  <1>1. OwnNames'
    OBVIOUS
  <1>2. NotYet'
    OBVIOUS
  <1>3. OwnHandles'
    OBVIOUS
  <1>4. ShmFirst'
    OBVIOUS
  <1> QED BY <1>1, <1>2, <1>3, <1>4

LEMMA HandleNext ==
  TypeInv /\ GuardOwned /\ NameInv /\ NameInv' /\ HandleInv /\ [Next]_vars
    => HandleInv'
  <1> SUFFICES ASSUME TypeInv, GuardOwned, NameInv, NameInv', HandleInv,
                      [Next]_vars
               PROVE  HandleInv'
    OBVIOUS
  <1> TypeOK /\ Typed
    BY Types DEF TypeInv
  <1> USE DEF Typed
  <1>1. CASE UNCHANGED vars
    BY <1>1, QuietStep DEF vars, daemonVars, clientVars, Made, Before
  <1>2. ASSUME NEW d \in Daemon, TakeGuard(d) \/ GuardTaken(d)
                 \/ ReadConfig(d) \/ RefuseConfig(d) \/ Run(d)
        PROVE  HandleInv'
    <2>1. UNCHANGED <<object, dnext, handle>>
      BY <1>2
      DEF TakeGuard, GuardTaken, ReadConfig, RefuseConfig, Run, clientVars
    <2>2. \A e \in Daemon : (Before(e)' => Before(e)) /\ (Made(e)' => Made(e))
      BY <1>2, <2>1 DEF TakeGuard, GuardTaken, ReadConfig, RefuseConfig, Run,
                        DaemonGoto, Made, Before
    <2> QED BY <2>1, <2>2, QuietStep
  <1>3. ASSUME NEW d \in Daemon, Signals(d)
        PROVE  HandleInv'
    <2>1. UNCHANGED <<object, dnext, handle>>
      BY <1>3, SignalSteps
    <2>2. \A e \in Daemon : (Before(e)' => Before(e)) /\ (Made(e)' => Made(e))
      BY <1>3, <2>1, SignalSteps DEF Made, Before
    <2> QED BY <2>1, <2>2, QuietStep
  <1>4. ASSUME NEW d \in Daemon, RemoveOld(d)
        PROVE  HandleInv'
    <2>1. /\ handle' = handle /\ dpc[d] = "remove"
          /\ \/ dpc'[d] = "remove"
             \/ dpc'[d] = "create" /\ dnext'[d] = 1
          /\ \A e \in Daemon \ {d} : dpc'[e] = dpc[e] /\ dnext'[e] = dnext[e]
      BY <1>4, Lengths DEF RemoveOld, StepOf, DaemonGoto, clientVars
    <2>2. \A n \in Name : object'[n] \in {object[n], None}
      BY <1>4 DEF RemoveOld
    <2>3. dpc'[d] = "create" => \A n \in Name : object'[n] = None
      <3>1. \A n \in Name : \E i \in 1 .. 4 : n = Names[i]
        BY DEF Name, Names
      <3> QED
        BY <2>1, <3>1 DEF NameInv, Cleared
    <2>4. "shm" \in Name
      BY Order
    <2> QED
      BY <2>1, <2>2, <2>3, <2>4, QuietStep, LifecycleAssumption
      DEF Made, Before
  <1>5. ASSUME NEW d \in Daemon, Create(d)
        PROVE  HandleInv'
    <2>1. /\ handle' = handle /\ dpc[d] = "create"
          /\ \/ dpc'[d] = "create" /\ dnext'[d] = dnext[d] + 1
             \/ dpc'[d] = "init"
          /\ \A e \in Daemon \ {d} : dpc'[e] = dpc[e] /\ dnext'[e] = dnext[e]
      BY <1>5 DEF Create, StepOf, DaemonGoto, clientVars
    <2>2. \A n \in Name : object'[n] \in {object[n], d}
      BY <1>5 DEF Create
    <2>3. \A e \in Daemon \ {d} : ~Made(e)
      BY <2>1 DEF GuardOwned, Owner, Active, Made
    <2>4. dnext[d] \in 1 .. 4 /\ ~Before(d)'
      BY <2>1, Lengths DEF Before
    <2>5. "shm" \in Name
      BY Order
    <2> QED
      BY <2>1, <2>2, <2>3, <2>4, <2>5, QuietStep DEF Made, Before
  <1>6. ASSUME NEW d \in Daemon, NEW h \in Pass, Dispose(d, h)
        PROVE  HandleInv'
    <2>1. UNCHANGED <<handle, dpc, dnext>>
      BY <1>6, DisposeSteps DEF TypeInv
    <2>2. \A n \in Name : object'[n] \in {object[n], None}
      BY <1>6, DisposeSteps DEF TypeInv
    <2>3. "shm" \in Name
      BY Order
    <2> QED
      BY <2>1, <2>2, <2>3, QuietStep, LifecycleAssumption DEF Made, Before
  <1>7. ASSUME NEW c \in Client, ClientNext(c)
        PROVE  HandleInv'
    <2> USE DEF HandleInv, OwnNames, NotYet, OwnHandles, ShmFirst
    <2>1. UNCHANGED <<object, dpc, dnext>>
      BY <1>7, ClientSteps
    <2>2. \A d \in Daemon : Made(d)' = Made(d) /\ Before(d)' = Before(d)
      BY <2>1 DEF Made, Before
    <2>3. /\ handle' \in [Client -> [Name -> Daemon \cup {None}]]
          /\ \A b \in Client \ {c} : handle'[b] = handle[b]
      BY <1>7, HandleSteps
    <2>4. ASSUME \A d \in Daemon : handle'[c]["shm"] = d => ~Before(d),
                 \A d \in Daemon : handle'[c]["shm"] = d /\ Made(d) =>
                   \A n \in Name : handle'[c][n] \in {None, d},
                 handle'[c]["shm"] = None =>
                   \A n \in Name : handle'[c][n] = None
          PROVE  HandleInv'
      <3>1. OwnNames'
        BY <2>1, <2>2
      <3>2. NotYet'
        BY <2>1, <2>2, <2>3, <2>4
      <3>3. OwnHandles'
        BY <2>2, <2>3, <2>4
      <3>4. ShmFirst'
        BY <2>3, <2>4
      <3> QED BY <3>1, <3>2, <3>3, <3>4
    <2>5. CASE handle' = handle
      BY <2>4, <2>5
    <2>6. CASE \A n \in Name : handle'[c][n] = None
      <3>1. handle'[c]["shm"] = None
        BY <2>6, Order
      <3> QED BY <2>4, <2>6, <3>1, LifecycleAssumption
    <2>7. ASSUME NEW i \in 1 .. 4,
                 \A k \in 1 .. 4 : k < i => handle[c][Names[k]] # None,
                 handle[c][Names[i]] = None,
                 handle'[c] = [handle[c] EXCEPT ![Names[i]] = object[Names[i]]],
                 object[Names[i]] # None
          PROVE  HandleInv'
      <3>1. Names[i] \in Name /\ "shm" \in Name /\ Names[1] = "shm"
        BY Order
      <3>2. /\ handle'[c][Names[i]] = object[Names[i]]
            /\ \A n \in Name \ {Names[i]} : handle'[c][n] = handle[c][n]
        BY <2>7, <3>1
      <3>3. CASE i = 1
        <4>1. \A n \in Name : handle[c][n] = None
          BY <2>7, <3>1, <3>3
        <4>2. /\ handle'[c]["shm"] = object["shm"] /\ object["shm"] # None
              /\ \A n \in Name \ {"shm"} : handle'[c][n] = None
          BY <2>7, <3>1, <3>2, <3>3, <4>1
        <4>3. \A d \in Daemon : handle'[c]["shm"] = d => ~Before(d)
          BY <4>2
        <4>4. \A d \in Daemon : handle'[c]["shm"] = d =>
                \A n \in Name : handle'[c][n] \in {None, d}
          BY <4>2
        <4> QED
          BY <2>4, <4>2, <4>3, <4>4
      <3>4. CASE i # 1
        <4>1. Names[i] # "shm" /\ handle[c]["shm"] # None
          BY <2>7, <3>1, <3>4, Order
        <4>2. handle'[c]["shm"] = handle[c]["shm"]
          BY <3>1, <3>2, <4>1
        <4>3. \A d \in Daemon : handle'[c]["shm"] = d => ~Before(d)
          BY <4>2
        <4>4. ASSUME NEW d \in Daemon, handle'[c]["shm"] = d, Made(d),
                     NEW n \in Name
              PROVE  handle'[c][n] \in {None, d}
          <5>1. handle[c][n] \in {None, d}
            BY <4>2, <4>4
          <5>2. CASE n = Names[i]
            BY <3>1, <3>2, <4>2, <4>4, <5>2
          <5>3. CASE n # Names[i]
            BY <3>2, <5>1, <5>3
          <5> QED BY <5>2, <5>3
        <4> QED
          BY <2>4, <4>1, <4>2, <4>3, <4>4
      <3> QED BY <3>3, <3>4
    <2>8. \/ handle' = handle
          \/ \A n \in Name : handle'[c][n] = None
          \/ \E i \in 1 .. 4 :
               /\ \A k \in 1 .. 4 : k < i => handle[c][Names[k]] # None
               /\ handle[c][Names[i]] = None
               /\ handle'[c] = [handle[c] EXCEPT ![Names[i]] = object[Names[i]]]
               /\ object[Names[i]] # None
      BY <1>7, HandleSteps
    <2> QED
      BY <2>5, <2>6, <2>7, <2>8
  <1>8. CASE RemoveGuard
    <2>1. UNCHANGED <<object, dpc, dnext, handle>>
      BY <1>8 DEF RemoveGuard, daemonVars, clientVars
    <2> QED BY <2>1, QuietStep DEF Made, Before
  <1> QED
    BY <1>1, <1>2, <1>3, <1>4, <1>5, <1>6, <1>7, <1>8 DEF Next, DaemonNext, Signals

(***************************************************************************)
(* Together: all of this holds until a pass overruns.                      *)
(***************************************************************************)
NoOverrun == GuardOwned /\ NameInv /\ HandleInv

Inv == TypeInv /\ (~overrun => NoOverrun)

LEMMA OverrunStays == TypeInv /\ overrun /\ [Next]_vars => overrun'
  <1> SUFFICES ASSUME TypeInv, overrun, [Next]_vars PROVE overrun'
    OBVIOUS
  <1>1. CASE UNCHANGED vars
    BY <1>1 DEF vars, daemonVars
  <1>2. ASSUME NEW d \in Daemon, TakeGuard(d) \/ GuardTaken(d)
                 \/ ReadConfig(d) \/ RefuseConfig(d) \/ Run(d)
                 \/ RemoveOld(d) \/ Create(d)
        PROVE  overrun'
    BY <1>2 DEF TakeGuard, GuardTaken, ReadConfig, RefuseConfig, Run,
                RemoveOld, Create
  <1>3. ASSUME NEW d \in Daemon, Signals(d) PROVE overrun'
    BY <1>3, SignalSteps DEF TypeInv
  <1>4. ASSUME NEW d \in Daemon, NEW h \in Pass, Dispose(d, h) PROVE overrun'
    BY <1>4, DisposeSteps
  <1>5. ASSUME NEW c \in Client, ClientNext(c) PROVE overrun'
    BY <1>5, ClientSteps DEF TypeInv
  <1>6. CASE RemoveGuard
    BY <1>6 DEF RemoveGuard, daemonVars
  <1> QED
    BY <1>1, <1>2, <1>3, <1>4, <1>5, <1>6 DEF Next, DaemonNext, Signals

LEMMA InvInit == Init => Inv
  BY TypeInit, GuardInit, NameInit, HandleInit DEF Inv, NoOverrun

LEMMA InvNext == Inv /\ [Next]_vars => Inv'
  BY TypeNext, GuardNext, NameNext, HandleNext, OverrunStays
  DEF Inv, NoOverrun

(* Until a pass of dispose_all() overruns (it removes the guard, or the    *)
(* segment, after another pass has given the guard up, or in a report      *)
(* child) a single daemon starts or runs at a time: the comment of         *)
(* daemon.c main(), "Pour lancer que un seul démon".                       *)
THEOREM OneDaemonRuns == Spec => []OneDaemon
  <1>1. Inv => OneDaemon
    BY DEF Inv, NoOverrun, GuardOwned, OneDaemon, SingleDaemon, Owner
  <1> QED
    BY <1>1, InvInit, InvNext, PTL DEF Spec

(* Until then, the names that daemon.c main() creates with O_EXCL are      *)
(* free, whatever the daemons before it left and are still removing.       *)
THEOREM NamesAreFree == Spec => []FreshNames
  <1>1. Inv => FreshNames
    BY Lengths, Types
    DEF Inv, NoOverrun, TypeInv, Typed, NameInv, Cleared, FreshNames
  <1> QED
    BY <1>1, InvInit, InvNext, PTL DEF Spec

(* Until then, a daemon that serves has its own segment: dispose_all() of  *)
(* another daemon removes the segment before it gives the guard away.      *)
THEOREM SegmentIsKept == Spec => []SegmentKept
  <1>1. Inv => SegmentKept
    BY DEF Inv, NoOverrun, NameInv, SegmentInv, HasSegment, SegmentKept
  <1> QED
    BY <1>1, InvInit, InvNext, PTL DEF Spec

(* Until then, beside the segment of a daemon that serves a client never   *)
(* has a semaphore of another one: main() removes all old names before it  *)
(* creates the segment, and clients open the segment first.                *)
THEOREM ObjectsBelongTogether == Spec => []OneSet
  <1>1. Inv => OneSet
    BY DEF Inv, NoOverrun, HandleInv, OwnHandles, OneSet, Made
  <1> QED
    BY <1>1, InvInit, InvNext, PTL DEF Spec

(***************************************************************************)
(* What is left behind has somebody who answers for it: a process that is  *)
(* still to remove it, or one that crashed.                                *)
(***************************************************************************)
Keeps(d, n) ==
  \/ dpc[d] \in {"create", "init", "running", "crashed"}
  \/ dpc[d] = "dispose" /\ \A h \in Handler, i \in 1 .. 5 :
                            Removals[i] = n => pass[d][h] <= i

GuardAnswered ==
  guard => \/ \E d \in Daemon : Owner(d) \/ dpc[d] = "crashed"
           \/ \E c \in Client : Prober(c) \/ cpc[c] = "crashed"

NamesAnswered ==
  \A n \in Name : object[n] # None => \E d \in Daemon : Keeps(d, n)

LEMMA AnsweredInit == Init => GuardAnswered /\ NamesAnswered
  BY DEF Init, GuardAnswered, NamesAnswered

LEMMA GuardAnsweredNext ==
  TypeInv /\ GuardAnswered /\ [Next]_vars => GuardAnswered'
  <1> SUFFICES ASSUME TypeInv, GuardAnswered, [Next]_vars
               PROVE  GuardAnswered'
    OBVIOUS
  <1> TypeOK /\ Typed
    BY Types DEF TypeInv
  <1> USE DEF GuardAnswered, Owner, Holds, Active, Prober, Typed
  <1>1. CASE UNCHANGED vars
    BY <1>1 DEF vars, daemonVars, clientVars
  <1>2. ASSUME NEW d \in Daemon, TakeGuard(d) \/ GuardTaken(d)
                 \/ ReadConfig(d) \/ RefuseConfig(d) \/ Run(d)
        PROVE  GuardAnswered'
    BY <1>2 DEF TakeGuard, GuardTaken, ReadConfig, RefuseConfig, Run,
                DaemonGoto, clientVars
  <1>3. ASSUME NEW d \in Daemon, Signals(d)
        PROVE  GuardAnswered'
    <2>1. guard' = guard /\ cpc' = cpc
      BY <1>3, SignalSteps
    <2>2. \A e \in Daemon \ {d} : dpc'[e] = dpc[e] /\ pass'[e] = pass[e]
      BY <1>3, SignalSteps
    <2>3. \A h \in Handler : pass[d][h] \in 0 .. 6
      BY PassTypes
    <2>4. dpc[d] # "dispose" => \A h \in Handler : pass[d][h] = 0
      BY DEF TypeInv, Positions
    <2>5. Owner(d) => Owner(d)' \/ dpc'[d] = "crashed"
      <3>1. CASE dpc'[d] = "crashed" \/ ~Owner(d)
        BY <3>1
      <3>2. CASE dpc'[d] = "stopped"
        <4>1. dpc[d] = "dispose" /\ \E h \in Handler : pass[d][h] > 5
          BY <1>3, <3>2, SignalSteps
        <4>2. ~Owner(d)
          BY <2>3, <4>1
        <4> QED BY <4>2
      <3>3. CASE dpc'[d] \notin {"crashed", "stopped"} /\ Owner(d)
        <4>1. /\ \A h \in Handler : pass'[d][h] \in {pass[d][h], 1}
              /\ \/ dpc'[d] = "dispose"
                 \/ dpc[d] = "running" /\ dpc'[d] = "running"
          BY <1>3, <3>3, SignalSteps
        <4>2. \A h \in Handler : pass[d][h] <= 2
          BY <2>4, <3>3
        <4> QED BY <4>1, <4>2
      <3> QED BY <3>1, <3>2, <3>3
    <2>6. dpc[d] # "crashed"
      BY <1>3, SignalSteps
    <2> QED BY <2>1, <2>2, <2>5, <2>6
  <1>4. ASSUME NEW d \in Daemon, RemoveOld(d) \/ Create(d)
        PROVE  GuardAnswered'
    <2>1. /\ dpc'[d] \in {"remove", "create", "init"}
          /\ guard' = guard /\ cpc' = cpc
          /\ \A e \in Daemon \ {d} : dpc'[e] = dpc[e]
          /\ pass' = pass
      BY <1>4 DEF RemoveOld, Create, StepOf, DaemonGoto, clientVars
    <2> QED BY <2>1
  <1>5. ASSUME NEW d \in Daemon, NEW h \in Pass, Dispose(d, h)
        PROVE  GuardAnswered'
    <2>1. UNCHANGED <<dpc, cpc>> /\ guard' = (guard /\ pass[d][h] # 2)
      BY <1>5, DisposeSteps
    <2>2. CASE pass[d][h] = 2
      BY <2>1, <2>2
    <2>3. CASE pass[d][h] # 2
      <3>1. pass[d][h] \in 1 .. 5 /\ pass'[d][h] = pass[d][h] + 1
        BY <1>5, DisposeSteps
      <3>2. \A e \in Daemon, g \in Handler :
              pass[e][g] <= 2 => pass'[e][g] <= 2
        <4>1. SUFFICES ASSUME NEW e \in Daemon, NEW g \in Handler,
                              pass[e][g] <= 2
                       PROVE  pass'[e][g] <= 2
          OBVIOUS
        <4>2. CASE e = d /\ g = h
          BY <2>3, <3>1, <4>1, <4>2
        <4>3. CASE ~(e = d /\ g = h)
          BY <1>5, <4>1, <4>3, DisposeSteps DEF Pass
        <4> QED BY <4>2, <4>3
      <3> QED BY <2>1, <3>2
    <2> QED BY <2>2, <2>3
  <1>6. ASSUME NEW c \in Client, ClientNext(c)
        PROVE  GuardAnswered'
    BY <1>6, ClientSteps
    DEF Probe, RemoveProbe, ClientDies, ClientGoto
  <1>7. CASE RemoveGuard
    BY <1>7 DEF RemoveGuard, daemonVars, clientVars
  <1> QED
    BY <1>1, <1>2, <1>3, <1>4, <1>5, <1>6, <1>7 DEF Next, DaemonNext, Signals

LEMMA NamesAnsweredNext ==
  TypeInv /\ NamesAnswered /\ [Next]_vars => NamesAnswered'
  <1> SUFFICES ASSUME TypeInv, NamesAnswered, [Next]_vars,
                      NEW n \in Name, object'[n] # None
               PROVE  \E d \in Daemon : Keeps(d, n)'
    BY DEF NamesAnswered
  <1> TypeOK /\ Typed
    BY Types DEF TypeInv
  <1> USE DEF NamesAnswered, Keeps, Typed
  <1>1. CASE UNCHANGED vars
    BY <1>1 DEF vars, daemonVars, clientVars
  <1>2. ASSUME NEW d \in Daemon, TakeGuard(d) \/ GuardTaken(d)
                 \/ ReadConfig(d) \/ RefuseConfig(d) \/ Run(d)
        PROVE  \E e \in Daemon : Keeps(e, n)'
    BY <1>2 DEF TakeGuard, GuardTaken, ReadConfig, RefuseConfig, Run,
                DaemonGoto
  <1>3. ASSUME NEW d \in Daemon, Signals(d)
        PROVE  \E e \in Daemon : Keeps(e, n)'
    <2>1. object[n] # None
      BY <1>3, SignalSteps
    <2>2. PICK e \in Daemon : Keeps(e, n)
      BY <2>1
    <2>3. CASE e # d
      BY <1>3, <2>2, <2>3, SignalSteps
    <2>4. CASE e = d
      <3>1. \A h \in Handler : pass[d][h] \in 0 .. 6
        BY PassTypes
      <3>2. \E i \in 1 .. 5 : Removals[i] = n
        BY Order DEF Removals
      <3>3. ~(dpc[d] = "dispose" /\ \E h \in Handler : pass[d][h] > 5)
        BY <2>2, <2>4, <3>1, <3>2
      <3>4. dpc[d] \in {"create", "init", "running", "dispose"}
        BY <1>3, <2>2, <2>4, SignalSteps
      <3>5. dpc[d] # "dispose" => \A h \in Handler : pass[d][h] = 0
        BY DEF TypeInv, Positions
      <3>6. \A h \in Handler, i \in 1 .. 5 : Removals[i] = n => pass[d][h] <= i
        BY <2>2, <2>4, <3>4, <3>5
      <3>7. CASE dpc'[d] \in {"create", "init", "running", "crashed"}
        BY <3>7
      <3>8. CASE dpc'[d] \notin {"create", "init", "running", "crashed"}
        <4>1. /\ dpc'[d] = "dispose"
              /\ \A h \in Handler :
                   pass'[d][h] = pass[d][h] \/ pass'[d][h] = 1
          BY <1>3, <3>3, <3>8, SignalSteps
        <4>2. \A h \in Handler, i \in 1 .. 5 :
                Removals[i] = n => pass'[d][h] <= i
          BY <3>6, <4>1
        <4> QED BY <4>1, <4>2
      <3> QED BY <3>7, <3>8
    <2> QED BY <2>3, <2>4
  <1>5. ASSUME NEW d \in Daemon, Create(d)
        PROVE  \E e \in Daemon : Keeps(e, n)'
    BY <1>5 DEF Create, StepOf, DaemonGoto
  <1>6. ASSUME NEW d \in Daemon, RemoveOld(d)
        PROVE  \E e \in Daemon : Keeps(e, n)'
    <2>1. object[n] # None
      BY <1>6 DEF RemoveOld
    <2>2. PICK e \in Daemon : Keeps(e, n)
      BY <2>1
    <2>3. e # d
      BY <1>6, <2>2 DEF RemoveOld, StepOf
    <2> QED BY <1>6, <2>2, <2>3 DEF RemoveOld, StepOf, DaemonGoto
  <1>7. ASSUME NEW d \in Daemon, NEW h \in Pass, Dispose(d, h)
        PROVE  \E e \in Daemon : Keeps(e, n)'
    <2>1. object[n] # None /\ Removals[pass[d][h]] # n
      BY <1>7, DisposeSteps
    <2>2. PICK e \in Daemon : Keeps(e, n)
      BY <2>1
    <2>3. dpc' = dpc /\ pass[d][h] \in 1 .. 5
          /\ pass'[d][h] = pass[d][h] + 1
      BY <1>7, DisposeSteps
    <2>4. ASSUME NEW g \in Handler, NEW i \in 1 .. 5, Removals[i] = n,
                 pass[e][g] <= i
          PROVE  pass'[e][g] <= i
      <3>1. CASE e = d /\ g = h
        BY <2>1, <2>3, <2>4, <3>1
      <3>2. CASE ~(e = d /\ g = h)
        BY <1>7, <2>4, <3>2, DisposeSteps DEF Pass
      <3> QED BY <3>1, <3>2
    <2> QED BY <2>2, <2>3, <2>4
  <1>8. ASSUME NEW c \in Client, ClientNext(c)
        PROVE  \E e \in Daemon : Keeps(e, n)'
    BY <1>8, ClientSteps
  <1>9. CASE RemoveGuard
    BY <1>9 DEF RemoveGuard, daemonVars
  <1> QED
    BY <1>1, <1>2, <1>3, <1>5, <1>6, <1>7, <1>8, <1>9
    DEF Next, DaemonNext, Signals

(* Daemons that end in order, however many passes of dispose_all() they    *)
(* run and however these interleave with a successor's first steps, leave  *)
(* neither the guard nor any name behind.                                  *)
THEOREM StopsAreClean == Spec => []CleanStop
  <1>1. TypeInv /\ GuardAnswered /\ NamesAnswered => CleanStop
    BY DEF CleanStop, GuardAnswered, NamesAnswered, Owner, Active, Prober,
           Keeps
  <1> QED
    BY <1>1, TypeInit, TypeNext, GuardInit, GuardNext, AnsweredInit,
       GuardAnsweredNext, NamesAnsweredNext, PTL DEF Spec
=============================================================================
