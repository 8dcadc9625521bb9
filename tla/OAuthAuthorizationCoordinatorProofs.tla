------------------- MODULE OAuthAuthorizationCoordinatorProofs -------------------
(***************************************************************************)
(* For any operations, sharing their ids in any way, and any limit: an     *)
(* authorization is completed once, can be found until it is, and the      *)
(* threads inside executors stay within the limit.  The invariant joins    *)
(* three things the code keeps apart: who holds the terminal (the guard),  *)
(* who is in the active table, and whose id the executor still occupies.   *)
(***************************************************************************)
EXTENDS OAuthAuthorizationCoordinator, FiniteSetTheorems, TLAPS

\* The limit is a number the constructor validated; an executor answers with a kind of result.
CoordinatorAssumption ==
    /\ MaxActiveOperations \in Nat
    /\ Results \subseteq Kinds
    /\ None \notin Operations

\* The winner of the terminal is on its way to the table and the sink.
Ending == {"removing", "completing"}
InExecutor(o) == at[o]["run"] \notin {"idle", "done"}

\* Who claimed the terminal removes and completes, alone and once.
WinnerFits(o) ==
    /\ terminal[o] = None => delivered[o] = 0 /\ \A w \in Workers : at[o][w] \notin Ending
    /\ \A w \in Workers : at[o][w] \in Ending => delivered[o] = 0
    /\ \A w, v \in Workers : at[o][w] \in Ending /\ at[o][v] \in Ending => w = v
    /\ delivered[o] <= 1

\* An operation is in the table from its admission until its winner takes it out.
TableFits(o) ==
    /\ stage[o] # "admitted" => /\ terminal[o] = None
                                /\ \A w \in Workers : at[o][w] = "idle"
    /\ stage[o] = "admitted" /\ (terminal[o] = None \/ \E w \in Workers : at[o][w] = "removing")
       => active[IdOf[o]] = o
    /\ \A i \in Ids : active[i] = o => i = IdOf[o] /\ stage[o] = "admitted"

\* The id of every operation whose executor has not returned is reserved, for it alone.
PhysicalFits ==
    /\ \A o \in Operations : InExecutor(o) => IdOf[o] \in physical
    /\ \A o, p \in Operations : InExecutor(o) /\ InExecutor(p) /\ IdOf[o] = IdOf[p] => o = p
    /\ IsFiniteSet(physical) /\ Cardinality(physical) <= MaxActiveOperations

CoordinatorInv ==
    /\ TypeOK /\ \A o \in Operations : WinnerFits(o) /\ TableFits(o)
    /\ PhysicalFits

-----------------------------------------------------------------------------
(* What a step of one worker does *)

LEMMA MovesTo ==
    ASSUME TypeOK, NEW o \in Operations, NEW w \in Workers, NEW place \in Places, Moves(o, w, place)
    PROVE  /\ at' \in [Operations -> [Workers -> Places]]
           /\ \A p \in Operations, v \in Workers :
                 at'[p][v] = IF p = o /\ v = w THEN place ELSE at[p][v]
<1>1. at \in [Operations -> [Workers -> Places]]
    BY DEF TypeOK
<1>2. at' = [at EXCEPT ![o] = [at[o] EXCEPT ![w] = place]]
    BY <1>1 DEF Moves
<1>3. [at[o] EXCEPT ![w] = place] \in [Workers -> Places]
    BY <1>1
<1> QED BY <1>1, <1>2, <1>3

LEMMA CancelledType ==
    ASSUME TypeOK, NEW o \in Operations, NEW r \in {"Requested", "Shutdown", "Timeout"},
           Cancelled(o, r)
    PROVE  reason' \in [Operations -> {None, "Requested", "Shutdown", "Timeout"}]
BY DEF TypeOK, Cancelled

LEMMA ObservedType ==
    ASSUME NEW o, Observed(o) # None
    PROVE  Observed(o) \in Kinds
BY DEF Observed, Kinds

LEMMA ExpiredType ==
    ASSUME TypeOK, NEW o \in Operations, CancelledIfExpired(o)
    PROVE  reason' \in [Operations -> {None, "Requested", "Shutdown", "Timeout"}]
BY CancelledType DEF CancelledIfExpired, TypeOK

LEMMA PlaceFacts ==
    /\ Kinds \subseteq Places /\ Ending \subseteq Places /\ {"idle", "working", "done"} \subseteq Places
    /\ Ending \cap Kinds = {} /\ {"idle", "working", "done"} \cap (Kinds \cup Ending) = {}
    /\ None \notin Kinds
    /\ \A w : After(w) \in {"idle", "working", "done"}
    /\ After("run") = "done"
BY DEF Kinds, Places, Ending, None, After

\* Steps that only wait, observe or cancel: no terminal is claimed, none told.
Watches(o, w, place) ==
    /\ Moves(o, w, place)
    /\ stage[o] = "admitted"
    /\ at[o][w] \notin Ending
    /\ place \in Places \ Ending
    /\ w = "run" => at[o][w] = "working" /\ place \notin {"idle", "done"}
    /\ UNCHANGED <<stage, active, physical, terminal, delivered>>

LEMMA WatchingKeeps ==
    ASSUME CoordinatorInv, NEW o \in Operations, NEW w \in Workers, NEW place, Watches(o, w, place),
           bShutdown' \in BOOLEAN, expired' \subseteq Operations,
           reason' \in [Operations -> {None, "Requested", "Shutdown", "Timeout"}]
    PROVE  CoordinatorInv'
<1>1. TypeOK /\ place \in Places /\ UNCHANGED <<stage, active, physical, terminal, delivered>>
    BY DEF CoordinatorInv, Watches
<1>2. /\ at' \in [Operations -> [Workers -> Places]]
      /\ \A p \in Operations, v \in Workers :
            at'[p][v] = IF p = o /\ v = w THEN place ELSE at[p][v]
    BY <1>1, MovesTo DEF Watches
<1>3. TypeOK'
    BY <1>1, <1>2 DEF TypeOK
<1>4. \A p \in Operations : WinnerFits(p)'
    <2>1. \A p \in Operations, v \in Workers : at'[p][v] \in Ending => at[p][v] \in Ending
        BY <1>2 DEF Watches
    <2> SUFFICES ASSUME NEW p \in Operations PROVE WinnerFits(p)'
        OBVIOUS
    <2>2. WinnerFits(p)
        BY DEF CoordinatorInv
    <2>3. terminal'[p] = terminal[p] /\ delivered'[p] = delivered[p]
        BY <1>1
    <2> QED BY <2>1, <2>2, <2>3 DEF WinnerFits
<1>5. \A p \in Operations : TableFits(p)'
    <2>1. \A p \in Operations : (\E v \in Workers : at'[p][v] = "removing")
                                => \E v \in Workers : at[p][v] = "removing"
        BY <1>2 DEF Watches, Ending
    <2> QED BY <1>1, <1>2, <2>1 DEF CoordinatorInv, TableFits, Watches
<1>6. PhysicalFits'
    <2>1. \A p \in Operations : InExecutor(p)' => InExecutor(p)
        BY <1>2 DEF InExecutor, Watches, Workers
    <2> QED BY <1>1, <2>1 DEF CoordinatorInv, PhysicalFits
<1> QED BY <1>3, <1>4, <1>5, <1>6 DEF CoordinatorInv

LEMMA WatchersKeep ==
    ASSUME CoordinatorAssumption, CoordinatorInv, NEW o \in Operations,
           \/ Cancel(o) \/ MonitorObserves(o) \/ MonitorEnds(o) \/ CancelForShutdown(o)
           \/ PumpDeadlines(o) \/ \E result \in Results : ExecutorReturns(o, result)
    PROVE  CoordinatorInv'
<1> USE PlaceFacts DEF Workers
<1>1. /\ TypeOK /\ bShutdown \in BOOLEAN /\ expired \subseteq Operations
      /\ reason \in [Operations -> {None, "Requested", "Shutdown", "Timeout"}]
    BY DEF CoordinatorInv, TypeOK
<1>2. \A w \in Workers : at[o][w] # "idle" => stage[o] = "admitted"
    BY DEF CoordinatorInv, TableFits
<1>3. "Cancelled" \in Kinds
    BY DEF Kinds
<1>4. CASE Cancel(o)
    BY <1>1, <1>3, <1>4, CancelledType, WatchingKeeps DEF Cancel, Watches
<1>5. CASE MonitorObserves(o)
    BY <1>1, <1>2, <1>5, ObservedType, ExpiredType, WatchingKeeps DEF MonitorObserves, Watches
<1>6. CASE MonitorEnds(o)
    BY <1>1, <1>2, <1>6, WatchingKeeps DEF MonitorEnds, Watches
<1>7. CASE CancelForShutdown(o)
    BY <1>1, <1>2, <1>3, <1>7, CancelledType, WatchingKeeps DEF CancelForShutdown, Watches
<1>8. CASE PumpDeadlines(o)
    <2>1. stage[o] = "admitted"
        BY <1>8 DEF PumpDeadlines, CoordinatorInv, TableFits, Ids
    <2> QED BY <1>1, <1>8, <2>1, ObservedType, ExpiredType, WatchingKeeps DEF PumpDeadlines, Watches
<1>9. ASSUME NEW result \in Results, ExecutorReturns(o, result) PROVE CoordinatorInv'
    <2>1. PICK place \in Kinds : Moves(o, "run", place)
        BY <1>9, ObservedType DEF ExecutorReturns, CoordinatorAssumption
    <2>2. reason' \in [Operations -> {None, "Requested", "Shutdown", "Timeout"}]
        BY <1>1, <1>9, ExpiredType DEF ExecutorReturns
    <2> QED BY <1>1, <1>2, <1>9, <2>1, <2>2, WatchingKeeps DEF ExecutorReturns, Watches
<1> QED BY <1>4, <1>5, <1>6, <1>7, <1>8, <1>9

\* A worker that is through: the thread in the executor gives its id back.
LEMMA ReleaseKeeps ==
    ASSUME CoordinatorAssumption, CoordinatorInv, NEW o \in Operations, NEW w \in Workers,
           at[o][w] \notin {"idle", "done"},
           Releases(o, w),
           \A p \in Operations, v \in Workers :
              at'[p][v] = IF p = o /\ v = w THEN After(w) ELSE at[p][v]
    PROVE  PhysicalFits'
<1>1. CASE w = "run"
    <2>1. physical' = physical \ {IdOf[o]} /\ InExecutor(o)
        BY <1>1 DEF Releases, InExecutor
    <2>2. \A p \in Operations : InExecutor(p)' => InExecutor(p) /\ p # o
        BY <1>1, PlaceFacts DEF InExecutor, Workers
    <2>3. IsFiniteSet(physical') /\ Cardinality(physical') <= Cardinality(physical)
        BY <2>1, FS_Subset DEF CoordinatorInv, PhysicalFits
    <2>4. Cardinality(physical) \in Nat /\ Cardinality(physical') \in Nat
        BY <2>3, FS_CardinalityType DEF CoordinatorInv, PhysicalFits
    <2>5. Cardinality(physical') <= MaxActiveOperations
        BY <2>3, <2>4 DEF CoordinatorInv, PhysicalFits, CoordinatorAssumption
    <2> QED BY <2>1, <2>2, <2>3, <2>5 DEF CoordinatorInv, PhysicalFits
<1>2. CASE w # "run"
    <2>1. \A p \in Operations : InExecutor(p)' <=> InExecutor(p)
        BY <1>2 DEF InExecutor, Workers
    <2> QED BY <1>2, <2>1 DEF CoordinatorInv, PhysicalFits, Releases
<1> QED BY <1>1, <1>2

-----------------------------------------------------------------------------
(* Admission, refusal, and what comes from outside *)

LEMMA RefuseKeeps ==
    ASSUME CoordinatorInv, NEW o \in Operations, Refuse(o)
    PROVE  CoordinatorInv'
<1> USE DEF Refuse
<1>1. TypeOK'
    BY DEF CoordinatorInv, TypeOK
<1>2. \A p \in Operations : stage'[p] = IF p = o THEN "rejected" ELSE stage[p]
    BY DEF CoordinatorInv, TypeOK
<1>3. \A p \in Operations : WinnerFits(p)'
    BY DEF CoordinatorInv, WinnerFits
<1>4. \A p \in Operations : TableFits(p)'
    BY <1>2 DEF CoordinatorInv, TableFits
<1>5. PhysicalFits'
    BY DEF CoordinatorInv, PhysicalFits, InExecutor
<1> QED BY <1>1, <1>3, <1>4, <1>5 DEF CoordinatorInv

LEMMA AdmitKeeps ==
    ASSUME CoordinatorAssumption, CoordinatorInv, NEW o \in Operations, AdmitAndStart(o)
    PROVE  CoordinatorInv'
<1> DEFINE started == [at[o] EXCEPT !["run"] = "working", !["monitor"] = "working"]
<1>1. /\ TypeOK /\ IdOf[o] \in Ids /\ stage[o] = "new"
      /\ active[IdOf[o]] = None /\ IdOf[o] \notin physical
    BY DEF CoordinatorInv, AdmitAndStart, Admissible, Ids
<1>2. started \in [Workers -> Places]
    BY <1>1, PlaceFacts DEF TypeOK, Workers
<1>3. at' = [at EXCEPT ![o] = started]
    BY DEF AdmitAndStart
<1>4. /\ at' \in [Operations -> [Workers -> Places]]
      /\ \A p \in Operations, v \in Workers :
            at'[p][v] = IF p = o /\ v \in {"run", "monitor"} THEN "working" ELSE at[p][v]
    BY <1>1, <1>2, <1>3 DEF TypeOK, Workers
<1>5. /\ \A p \in Operations : stage'[p] = IF p = o THEN "admitted" ELSE stage[p]
      /\ \A i \in Ids : active'[i] = IF i = IdOf[o] THEN o ELSE active[i]
      /\ physical' = physical \cup {IdOf[o]}
      /\ UNCHANGED <<bShutdown, reason, expired, terminal, delivered>>
    BY <1>1 DEF AdmitAndStart, TypeOK
<1>6. TypeOK'
    <2>1. stage' \in [Operations -> {"new", "admitted", "rejected"}]
          /\ active' \in [Ids -> Operations \cup {None}]
        BY <1>1 DEF AdmitAndStart, TypeOK
    <2> QED BY <1>1, <1>4, <1>5, <2>1 DEF TypeOK
<1>7. terminal[o] = None /\ \A v \in Workers : at[o][v] = "idle"
    BY <1>1 DEF CoordinatorInv, TableFits
<1>8. \A p \in Operations : WinnerFits(p)'
    BY <1>4, <1>5, PlaceFacts DEF CoordinatorInv, WinnerFits
<1>9. \A p \in Operations : TableFits(p)'
    <2>1. TableFits(o)'
        BY <1>1, <1>4, <1>5, <1>7 DEF CoordinatorInv, TableFits
    <2>2. \A p \in Operations : p # o => TableFits(p)'
        <3> SUFFICES ASSUME NEW p \in Operations, p # o PROVE TableFits(p)'
            OBVIOUS
        <3>1. TableFits(p) /\ IdOf[p] \in Ids /\ p # None
            BY DEF CoordinatorInv, Ids, CoordinatorAssumption
        <3>2. \A v \in Workers : at'[p][v] = at[p][v]
            BY <1>4
        <3> QED BY <1>1, <1>5, <3>1, <3>2 DEF TableFits
    <2> QED BY <2>1, <2>2
<1>10. PhysicalFits'
    <2>1. \A p \in Operations : InExecutor(p)' => p = o \/ InExecutor(p)
        BY <1>4 DEF InExecutor, Workers
    <2>2. \A p \in Operations : InExecutor(p) => IdOf[p] # IdOf[o]
        BY <1>1 DEF CoordinatorInv, PhysicalFits
    <2>3. IsFiniteSet(physical') /\ Cardinality(physical') = Cardinality(physical) + 1
        BY <1>1, <1>5, FS_AddElement DEF CoordinatorInv, PhysicalFits
    <2>4. Cardinality(physical) < MaxActiveOperations /\ Cardinality(physical) \in Nat
        BY FS_CardinalityType DEF AdmitAndStart, Admissible, CoordinatorInv, PhysicalFits
    <2>5. Cardinality(physical') <= MaxActiveOperations
        BY <2>3, <2>4 DEF CoordinatorAssumption
    <2> QED BY <1>5, <2>1, <2>2, <2>3, <2>5 DEF CoordinatorInv, PhysicalFits
<1> QED BY <1>6, <1>8, <1>9, <1>10 DEF CoordinatorInv

LEMMA OutsideKeeps ==
    ASSUME CoordinatorInv,
           UNCHANGED <<stage, active, physical, bShutdown, terminal, at, delivered>>,
           expired' \subseteq Operations,
           reason' \in [Operations -> {None, "Requested", "Shutdown", "Timeout"}]
    PROVE  CoordinatorInv'
<1>1. TypeOK'
    BY DEF CoordinatorInv, TypeOK
<1>2. \A o \in Operations : WinnerFits(o)' /\ TableFits(o)'
    BY DEF CoordinatorInv, WinnerFits, TableFits
<1>3. PhysicalFits'
    BY DEF CoordinatorInv, PhysicalFits, InExecutor
<1> QED BY <1>1, <1>2, <1>3 DEF CoordinatorInv

LEMMA BeginShutdownKeeps ==
    ASSUME CoordinatorInv, BeginShutdown
    PROVE  CoordinatorInv'
<1>1. TypeOK /\ UNCHANGED <<stage, active, physical, reason, expired, terminal, delivered>>
      /\ bShutdown' = TRUE
    BY DEF CoordinatorInv, BeginShutdown
<1>2. at' = [o \in Operations |->
                 IF active[IdOf[o]] = o
                 THEN [at[o] EXCEPT !["sweep"] = "working"] ELSE at[o]]
    BY DEF BeginShutdown
<1>3. \A o \in Operations, v \in Workers :
         at'[o][v] = IF active[IdOf[o]] = o /\ v = "sweep"
                     THEN "working" ELSE at[o][v]
    BY <1>1, <1>2 DEF TypeOK, Workers
<1>4. at' \in [Operations -> [Workers -> Places]]
    <2>1. \A o \in Operations : at[o] \in [Workers -> Places]
        BY <1>1 DEF TypeOK
    <2>2. \A o \in Operations : [at[o] EXCEPT !["sweep"] = "working"] \in [Workers -> Places]
        BY <2>1, PlaceFacts
    <2> QED BY <1>2, <2>1, <2>2
<1>5. TypeOK'
    BY <1>1, <1>4 DEF TypeOK
<1>6. \A o \in Operations : WinnerFits(o)'
    BY <1>1, <1>3, PlaceFacts DEF CoordinatorInv, WinnerFits
<1>7. \A o \in Operations : TableFits(o)'
    <2> SUFFICES ASSUME NEW o \in Operations PROVE TableFits(o)'
        OBVIOUS
    <2>1. TableFits(o) /\ IdOf[o] \in Ids
        BY DEF CoordinatorInv, Ids
    <2>2. active[IdOf[o]] = o => stage[o] = "admitted"
        BY <2>1 DEF TableFits
    <2> QED BY <1>1, <1>3, <2>1, <2>2 DEF TableFits
<1>8. PhysicalFits'
    <2>1. \A o \in Operations : InExecutor(o)' <=> InExecutor(o)
        BY <1>3 DEF InExecutor, Workers
    <2> QED BY <1>1, <2>1 DEF CoordinatorInv, PhysicalFits
<1> QED BY <1>5, <1>6, <1>7, <1>8 DEF CoordinatorInv

-----------------------------------------------------------------------------
(* The terminal, the table and the sink *)

LEMMA TryTerminalKeeps ==
    ASSUME CoordinatorAssumption, CoordinatorInv, NEW o \in Operations, NEW w \in Workers,
           TryTerminal(o, w)
    PROVE  CoordinatorInv'
<1> USE PlaceFacts
<1>1. TypeOK /\ at[o][w] \in Kinds /\ at[o][w] # "idle" /\ stage[o] = "admitted"
    BY DEF TryTerminal, CoordinatorInv, TableFits
<1>2. UNCHANGED <<stage, active, bShutdown, reason, expired, delivered>>
    BY DEF TryTerminal
<1>3. CASE terminal[o] = None
    <2>1. /\ Moves(o, w, "removing") /\ UNCHANGED physical
          /\ terminal' = [terminal EXCEPT ![o] = at[o][w]]
        BY <1>3 DEF TryTerminal, Wins
    <2>2. /\ at' \in [Operations -> [Workers -> Places]]
          /\ \A p \in Operations, v \in Workers :
                at'[p][v] = IF p = o /\ v = w THEN "removing" ELSE at[p][v]
        BY <1>1, <2>1, MovesTo DEF Ending
    <2>3. /\ terminal' \in [Operations -> Kinds \cup {None}]
          /\ \A p \in Operations : terminal'[p] = IF p = o THEN at[o][w] ELSE terminal[p]
        BY <1>1, <2>1 DEF TypeOK
    <2>4. TypeOK'
        BY <1>1, <1>2, <2>1, <2>2, <2>3 DEF TypeOK
    <2>5. \A p \in Operations : WinnerFits(p)'
        <3> SUFFICES ASSUME NEW p \in Operations PROVE WinnerFits(p)'
            OBVIOUS
        <3>1. WinnerFits(p) /\ delivered'[p] = delivered[p]
            BY <1>2 DEF CoordinatorInv
        <3>2. CASE p = o
            <4>1. delivered[p] = 0 /\ \A v \in Workers : at[p][v] \notin Ending
                BY <1>3, <3>1, <3>2 DEF WinnerFits
            <4>2. terminal'[p] # None
                BY <1>1, <2>3, <3>2
            <4>3. \A v \in Workers : at'[p][v] \in Ending => v = w
                BY <2>2, <4>1
            <4> QED BY <3>1, <4>1, <4>2, <4>3 DEF WinnerFits
        <3>3. CASE p # o
            <4>1. terminal'[p] = terminal[p] /\ \A v \in Workers : at'[p][v] = at[p][v]
                BY <2>2, <2>3, <3>3
            <4> QED BY <3>1, <4>1 DEF WinnerFits
        <3> QED BY <3>2, <3>3
    <2>6. \A p \in Operations : TableFits(p)'
        BY <1>1, <1>2, <1>3, <2>2, <2>3 DEF CoordinatorInv, TableFits
    <2>7. PhysicalFits'
        <3>1. \A p \in Operations : InExecutor(p)' => InExecutor(p)
            BY <1>1, <2>2 DEF InExecutor, Workers
        <3> QED BY <2>1, <3>1 DEF CoordinatorInv, PhysicalFits
    <2> QED BY <2>4, <2>5, <2>6, <2>7 DEF CoordinatorInv
<1>4. CASE terminal[o] # None
    <2>1. Moves(o, w, After(w)) /\ Releases(o, w) /\ UNCHANGED terminal
        BY <1>4 DEF TryTerminal, Wins
    <2>2. /\ at' \in [Operations -> [Workers -> Places]]
          /\ \A p \in Operations, v \in Workers :
                at'[p][v] = IF p = o /\ v = w THEN After(w) ELSE at[p][v]
        BY <1>1, <2>1, MovesTo
    <2>3. TypeOK'
        BY <1>1, <1>2, <2>1, <2>2 DEF TypeOK, Releases
    <2>4. \A p \in Operations : WinnerFits(p)'
        BY <1>2, <2>1, <2>2 DEF CoordinatorInv, WinnerFits
    <2>5. \A p \in Operations : TableFits(p)'
        <3>1. After(w) # "removing"
            BY DEF Ending
        <3> QED BY <1>1, <1>2, <2>1, <2>2, <3>1 DEF CoordinatorInv, TableFits
    <2> QED BY <1>1, <2>1, <2>2, <2>3, <2>4, <2>5, ReleaseKeeps DEF CoordinatorInv
<1> QED BY <1>3, <1>4

LEMMA OnTerminalKeeps ==
    ASSUME CoordinatorAssumption, CoordinatorInv, NEW o \in Operations, NEW w \in Workers,
           OnTerminal(o, w)
    PROVE  CoordinatorInv'
<1> USE PlaceFacts
<1>1. /\ TypeOK /\ at[o][w] = "removing" /\ stage[o] = "admitted"
      /\ terminal[o] # None /\ IdOf[o] \in Ids
    BY DEF OnTerminal, CoordinatorInv, TableFits, WinnerFits, Ending, Ids
<1>2. UNCHANGED <<stage, physical, bShutdown, reason, expired, terminal, delivered>>
    BY DEF OnTerminal
<1>3. /\ at' \in [Operations -> [Workers -> Places]]
      /\ \A p \in Operations, v \in Workers :
            at'[p][v] = IF p = o /\ v = w THEN "completing" ELSE at[p][v]
    BY <1>1, MovesTo DEF OnTerminal, Ending
<1>4. /\ active' \in [Ids -> Operations \cup {None}]
      /\ \A i \in Ids : active'[i] = IF i = IdOf[o] THEN None ELSE active[i]
    BY <1>1 DEF OnTerminal, TypeOK
<1>5. TypeOK'
    BY <1>1, <1>2, <1>3, <1>4 DEF TypeOK
<1>6. \A p \in Operations : WinnerFits(p)'
    <2>1. \A p \in Operations, v \in Workers : at'[p][v] \in Ending <=> at[p][v] \in Ending
        BY <1>1, <1>3 DEF Ending
    <2> QED BY <1>2, <2>1 DEF CoordinatorInv, WinnerFits
<1>7. active[IdOf[o]] = o
    BY <1>1 DEF CoordinatorInv, TableFits
<1>8. \A v \in Workers : at'[o][v] # "removing"
    BY <1>1, <1>3 DEF CoordinatorInv, WinnerFits, Ending
<1>9. TableFits(o)'
    BY <1>1, <1>2, <1>3, <1>4, <1>8 DEF CoordinatorInv, TableFits, CoordinatorAssumption
<1>10. \A p \in Operations : p # o => TableFits(p)'
    <2> SUFFICES ASSUME NEW p \in Operations, p # o PROVE TableFits(p)'
        OBVIOUS
    <2>1. TableFits(p) /\ IdOf[p] \in Ids /\ \A v \in Workers : at'[p][v] = at[p][v]
        BY <1>3 DEF CoordinatorInv, Ids
    <2>2. p # None
        BY DEF CoordinatorAssumption
    <2> QED BY <1>2, <1>4, <1>7, <2>1, <2>2 DEF TableFits
<1>11. PhysicalFits'
    <2>1. \A p \in Operations : InExecutor(p)' => InExecutor(p)
        BY <1>1, <1>3 DEF InExecutor, Workers
    <2> QED BY <1>2, <2>1 DEF CoordinatorInv, PhysicalFits
<1> QED BY <1>5, <1>6, <1>9, <1>10, <1>11 DEF CoordinatorInv

LEMMA CompleteKeeps ==
    ASSUME CoordinatorAssumption, CoordinatorInv, NEW o \in Operations, NEW w \in Workers,
           Complete(o, w)
    PROVE  CoordinatorInv'
<1> USE PlaceFacts
<1>1. /\ TypeOK /\ at[o][w] = "completing" /\ at[o][w] \in Ending /\ stage[o] = "admitted"
      /\ terminal[o] # None /\ delivered[o] = 0
    BY DEF Complete, CoordinatorInv, TableFits, WinnerFits, Ending
<1>2. UNCHANGED <<stage, active, bShutdown, reason, expired, terminal>> /\ Releases(o, w)
    BY DEF Complete
<1>3. /\ at' \in [Operations -> [Workers -> Places]]
      /\ \A p \in Operations, v \in Workers :
            at'[p][v] = IF p = o /\ v = w THEN After(w) ELSE at[p][v]
    BY <1>1, MovesTo DEF Complete
<1>4. /\ delivered' \in [Operations -> Nat]
      /\ \A p \in Operations : delivered'[p] = IF p = o THEN 1 ELSE delivered[p]
    BY <1>1 DEF Complete, TypeOK
<1>5. TypeOK'
    BY <1>1, <1>2, <1>3, <1>4 DEF TypeOK, Releases
<1>6. \A p \in Operations : WinnerFits(p)'
    BY <1>1, <1>2, <1>3, <1>4 DEF CoordinatorInv, WinnerFits
<1>7. \A p \in Operations : TableFits(p)'
    <2>1. After(w) # "removing"
        BY DEF Ending
    <2> QED BY <1>1, <1>2, <1>3, <2>1 DEF CoordinatorInv, TableFits
<1>8. PhysicalFits'
    BY <1>1, <1>2, <1>3, ReleaseKeeps DEF Ending
<1> QED BY <1>5, <1>6, <1>7, <1>8 DEF CoordinatorInv

-----------------------------------------------------------------------------

LEMMA InitHolds == CoordinatorAssumption /\ Init => CoordinatorInv
<1> SUFFICES ASSUME CoordinatorAssumption, Init PROVE CoordinatorInv
    OBVIOUS
<1>1. TypeOK
    BY PlaceFacts DEF Init, TypeOK
<1>2. \A o \in Operations : WinnerFits(o)
    BY PlaceFacts DEF Init, WinnerFits
<1>3. \A o \in Operations : TableFits(o)
    BY DEF Init, TableFits, CoordinatorAssumption
<1>4. PhysicalFits
    BY FS_EmptySet DEF Init, PhysicalFits, InExecutor, Workers, CoordinatorAssumption
<1> QED BY <1>1, <1>2, <1>3, <1>4 DEF CoordinatorInv

LEMMA StepKeeps == ASSUME CoordinatorAssumption, CoordinatorInv, [Next]_vars PROVE CoordinatorInv'
<1>1. /\ expired \subseteq Operations
      /\ reason \in [Operations -> {None, "Requested", "Shutdown", "Timeout"}]
    BY DEF CoordinatorInv, TypeOK
<1>2. CASE UNCHANGED vars
    BY <1>1, <1>2, OutsideKeeps DEF vars
<1>3. ASSUME NEW o \in Operations, NEW r \in {"Requested", "Timeout"}, CancelParent(o, r)
      PROVE  CoordinatorInv'
    BY <1>1, <1>3, CancelledType, OutsideKeeps DEF CancelParent, CoordinatorInv
<1>4. ASSUME NEW o \in Operations, Expire(o) PROVE CoordinatorInv'
    BY <1>1, <1>4, OutsideKeeps DEF Expire
<1>5. ASSUME NEW o \in Operations, NEW w \in Workers, Publish(o, w) PROVE CoordinatorInv'
    BY <1>5, TryTerminalKeeps, OnTerminalKeeps, CompleteKeeps DEF Publish
<1> QED
    BY <1>2, <1>3, <1>4, <1>5, RefuseKeeps, AdmitKeeps, WatchersKeep, BeginShutdownKeeps
    DEF Next, Settled

LEMMA InvariantBoundsThreads ==
    ASSUME CoordinatorAssumption, CoordinatorInv
    PROVE  ExecutorThreadsAreBounded
<1> DEFINE Inside == {o \in Operations : at[o]["run"] = "working"}
           idOf == [o \in Inside |-> IdOf[o]]
<1>1. \A o \in Inside : InExecutor(o)
    BY DEF InExecutor
<1>2. IsFiniteSet(physical) /\ Cardinality(physical) <= MaxActiveOperations
    BY DEF CoordinatorInv, PhysicalFits
<1>3. idOf \in Injection(Inside, physical)
    BY <1>1 DEF CoordinatorInv, PhysicalFits, Injection, IsInjective
<1>4. IsFiniteSet(Inside) /\ Cardinality(Inside) <= Cardinality(physical)
    BY <1>2, <1>3, FS_Injection
<1>5. Cardinality(Inside) \in Nat /\ Cardinality(physical) \in Nat
    BY <1>2, <1>4, FS_CardinalityType
<1> QED BY <1>2, <1>4, <1>5 DEF ExecutorThreadsAreBounded, CoordinatorAssumption

LEMMA CoordinatorInvariant == ASSUME CoordinatorAssumption PROVE Spec => []CoordinatorInv
<1>1. Init => CoordinatorInv
    BY InitHolds
<1>2. CoordinatorInv /\ [Next]_vars => CoordinatorInv'
    BY StepKeeps
<1> QED BY <1>1, <1>2, PTL DEF Spec

\* An authorization is completed once, however many of the executor's thread, the monitor,
\* Cancel, the shutdown and the deadline pump end it.
THEOREM AuthorizedOnce == ASSUME CoordinatorAssumption PROVE Spec => []OneCompletion
<1>1. CoordinatorInv => OneCompletion
    BY DEF CoordinatorInv, WinnerFits, OneCompletion
<1> QED BY <1>1, CoordinatorInvariant, PTL

\* Until its terminal is claimed the shutdown and the deadline pump find it in the table,
\* also where another operation had its id before.
THEOREM UnfinishedIsFound == ASSUME CoordinatorAssumption PROVE Spec => []UnfinishedIsReachable
<1>1. CoordinatorInv => UnfinishedIsReachable
    BY DEF CoordinatorInv, TableFits, UnfinishedIsReachable, Unfinished
<1> QED BY <1>1, CoordinatorInvariant, PTL

\* However many authorizations are cancelled and replaced, no more threads than
\* MaxActiveOperations are inside the executor.
THEOREM ExecutorsAreBounded == ASSUME CoordinatorAssumption PROVE Spec => []ExecutorThreadsAreBounded
<1>1. CoordinatorInv => ExecutorThreadsAreBounded
    BY InvariantBoundsThreads
<1> QED BY <1>1, CoordinatorInvariant, PTL
=============================================================================
