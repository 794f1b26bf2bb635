----------------------- MODULE BlackBoxExporterProofs -----------------------
(***************************************************************************)
(* Proofs about BlackBoxExporter, for every set of monitors of either kind *)
(* and every bound: type correctness, and that a part of the exporter that *)
(* monitors miss, or a Service without its Deployment, is the work of both *)
(* controllers at once or of a stale copy.                                 *)
(***************************************************************************)
EXTENDS BlackBoxExporter, TLAPS

\* A worker at work has a monitor of its kind; an idle one has none.
HasMonitor ==
    \A c \in MonitorKinds : /\ pc[c] = "idle" => cur[c] = None
                            /\ pc[c] # "idle" => cur[c] \in Monitors /\ KindOf[cur[c]] = c

\* The conjuncts of TypeOK, by what the actions leave unchanged together.
MonitorTypes == mon \in [Monitors -> States]
CacheTypes   == monCache \in [Monitors -> States]
WorkerTypes  == /\ pc \in [MonitorKinds -> Steps]
                /\ cur \in [MonitorKinds -> Monitors \cup {None}]
                /\ listed \in [MonitorKinds -> SUBSET [name : Monitors, deleting : BOOLEAN]]
                /\ queue \in SUBSET Monitors
                /\ HasMonitor
PartTypes    == parts \in SUBSET Parts /\ partCache \in SUBSET Parts /\ crossed \in SUBSET Parts
BudgetTypes  == edits \in 0..MaxEdits /\ faults \in 0..MaxFaults

Typed == TypeOK /\ HasMonitor

----------------------------------------------------------------------------
(* Type correctness.                                                       *)

\* The parts make up the whole, and a part that is left alone is kept.
LEMMA TypeParts ==
    ASSUME Typed
    PROVE  /\ MonitorTypes /\ CacheTypes /\ WorkerTypes /\ PartTypes /\ BudgetTypes
           /\ UNCHANGED mon => MonitorTypes'
           /\ UNCHANGED monCache => CacheTypes'
           /\ UNCHANGED <<workers, queue>> => WorkerTypes'
           /\ UNCHANGED <<parts, partCache, crossed>> => PartTypes'
           /\ UNCHANGED budget => BudgetTypes'
           /\ (MonitorTypes /\ CacheTypes /\ WorkerTypes /\ PartTypes /\ BudgetTypes)' => Typed'
  <1>1. MonitorTypes /\ CacheTypes /\ WorkerTypes /\ PartTypes /\ BudgetTypes
    BY DEF Typed, TypeOK, MonitorTypes, CacheTypes, WorkerTypes, PartTypes, BudgetTypes
  <1>2. UNCHANGED mon => MonitorTypes'  BY <1>1 DEF MonitorTypes
  <1>3. UNCHANGED monCache => CacheTypes'  BY <1>1 DEF CacheTypes
  <1>4. UNCHANGED <<workers, queue>> => WorkerTypes'  BY <1>1 DEF WorkerTypes, workers, HasMonitor
  <1>5. UNCHANGED <<parts, partCache, crossed>> => PartTypes'  BY <1>1 DEF PartTypes
  <1>6. UNCHANGED budget => BudgetTypes'  BY <1>1 DEF BudgetTypes, budget
  <1>7. (MonitorTypes /\ CacheTypes /\ WorkerTypes /\ PartTypes /\ BudgetTypes)' => Typed'
    BY DEF Typed, TypeOK, MonitorTypes, CacheTypes, WorkerTypes, PartTypes, BudgetTypes
  <1> QED  BY <1>1, <1>2, <1>3, <1>4, <1>5, <1>6, <1>7

\* The end of a reconcile.
LEMMA EndTypes ==
    ASSUME Typed, NEW c \in MonitorKinds, pc[c] # "idle", Stop(c) \/ Requeue(c)
    PROVE  WorkerTypes'
  <1>1. pc' = [pc EXCEPT ![c] = "idle"] /\ cur' = [cur EXCEPT ![c] = None]
        /\ listed' = [listed EXCEPT ![c] = {}]
    BY DEF Stop, Requeue
  <1>2. queue' = queue \/ queue' = queue \cup {cur[c]}  BY DEF Stop, Requeue
  <1>3. queue' \in SUBSET Monitors  BY <1>2 DEF Typed, TypeOK, HasMonitor
  <1>4. HasMonitor'  BY <1>1 DEF Typed, TypeOK, HasMonitor
  <1> QED  BY <1>1, <1>3, <1>4 DEF WorkerTypes, Typed, TypeOK, Steps

\* A reconcile that goes on, with what it has listed.
LEMMA GoTypes ==
    ASSUME Typed, NEW c \in MonitorKinds, pc[c] # "idle", NEW l \in Steps \ {"idle"},
           pc' = [pc EXCEPT ![c] = l], UNCHANGED <<cur, queue>>,
           listed' \in [MonitorKinds -> SUBSET [name : Monitors, deleting : BOOLEAN]]
    PROVE  WorkerTypes'
  <1>1. HasMonitor'  BY DEF Typed, TypeOK, HasMonitor
  <1> QED  BY <1>1 DEF WorkerTypes, Typed, TypeOK

\* What is listed (ShouldDeleteBlackBoxExporterResources).
LEMMA ListedTypes ==
    ASSUME NEW k
    PROVE  Listed(k) \in SUBSET [name : Monitors, deleting : BOOLEAN]
  <1>1. \A m \in Monitors, b \in BOOLEAN :
          [name |-> m, deleting |-> b] \in [name : Monitors, deleting : BOOLEAN]
    OBVIOUS
  <1>2. \A m : (monCache[m] = "deleting") \in BOOLEAN  OBVIOUS
  <1> QED  BY <1>1, <1>2, Zenon DEF Listed

\* The order in which the parts are deleted (EnsureBlackBoxExporterResourcesAbsent).
LEMMA Order ==
    /\ DOMAIN DeletionOrder = {"deleteService", "deleteDeployment", "deleteConfigMap"}
    /\ DeletionOrder["deleteService"] = [part |-> "Service", next |-> "deleteDeployment"]
    /\ DeletionOrder["deleteDeployment"] = [part |-> "Deployment", next |-> "deleteConfigMap"]
    /\ DeletionOrder["deleteConfigMap"] = [part |-> "ConfigMap", next |-> "removeFinalizer"]
  BY DEF DeletionOrder

\* The steps of the reconcile keep the types.
LEMMA ReconcileTypes ==
    ASSUME Typed, NEW c \in MonitorKinds, Reconcile(c)
    PROVE  Typed'
  <1>1. ASSUME NEW m \in Monitors, Start(c, m)
        PROVE  Typed'
    <2>1. queue' \in SUBSET Monitors /\ listed' = listed  BY <1>1 DEF Start, Typed, TypeOK
    <2>2. monCache[m] # "none" => FirstStep(m) \in Steps \ {"idle"}
      BY DEF FirstStep, Typed, TypeOK, States, Steps
    <2>3. CASE monCache[m] = "none"
      <3>1. UNCHANGED <<pc, cur>>  BY <1>1, <2>3 DEF Start
      <3>2. WorkerTypes'  BY <2>1, <3>1 DEF WorkerTypes, HasMonitor, Typed, TypeOK
      <3> QED  BY <1>1, <3>2, TypeParts DEF Start
    <2>4. CASE monCache[m] # "none"
      <3>1. /\ cur' = [cur EXCEPT ![c] = m] /\ pc' = [pc EXCEPT ![c] = FirstStep(m)]
            /\ KindOf[m] = c
        BY <1>1, <2>4 DEF Start
      <3> HIDE DEF FirstStep
      <3>2. HasMonitor'  BY <2>2, <2>4, <3>1 DEF HasMonitor, Typed, TypeOK
      <3>3. WorkerTypes'  BY <2>1, <2>2, <2>4, <3>1, <3>2 DEF WorkerTypes, Typed, TypeOK
      <3> QED  BY <1>1, <3>3, TypeParts DEF Start
    <2> QED  BY <2>3, <2>4
  <1>2. ASSUME pc[c] # "idle", Stop(c) \/ Requeue(c), MonitorTypes', PartTypes',
               UNCHANGED <<monCache, budget>>
        PROVE  Typed'
    BY <1>2, EndTypes, TypeParts
  <1>3. ASSUME pc[c] # "idle", NEW l \in Steps \ {"idle"}, Goto(c, l), PartTypes',
               UNCHANGED <<mon, monCache, budget>>
        PROVE  Typed'
    <2>1. WorkerTypes'  BY <1>3, GoTypes DEF Goto, Typed, TypeOK
    <2> QED  BY <1>3, <2>1, TypeParts
  <1>4. pc[c] # "idle" => cur[c] \in Monitors  BY DEF Typed, HasMonitor
  <1>5. CASE SetFinalizer(c)
    <2>1. pc[c] # "idle" /\ UNCHANGED <<monCache, parts, partCache, crossed, budget>>
          /\ (Stop(c) \/ Requeue(c))
          /\ (mon' = mon \/ mon' = [mon EXCEPT ![cur[c]] = "live"])
      BY <1>5 DEF SetFinalizer
    <2>2. MonitorTypes'  BY <2>1 DEF MonitorTypes, Typed, TypeOK, States
    <2> QED  BY <1>2, <2>1, <2>2, TypeParts
  <1>6. CASE RemoveFinalizer(c)
    <2>1. pc[c] # "idle" /\ UNCHANGED <<monCache, parts, partCache, crossed, budget>>
          /\ (Stop(c) \/ Requeue(c))
          /\ (mon' = mon \/ mon' = [mon EXCEPT ![cur[c]] = "none"])
      BY <1>6 DEF RemoveFinalizer
    <2>2. MonitorTypes'  BY <2>1 DEF MonitorTypes, Typed, TypeOK, States
    <2> QED  BY <1>2, <2>1, <2>2, TypeParts
  <1>7. ASSUME NEW p \in Parts, EnsurePartExists(c, p)
        PROVE  Typed'
    <2>1. pc[c] # "idle" /\ UNCHANGED <<mon, monCache, budget>>
      BY <1>7 DEF EnsurePartExists, Parts
    <2>2. AfterPart(c, p) \/ Requeue(c)  BY <1>7 DEF EnsurePartExists
    <2>3. AfterPart(c, p) => Goto(c, "Deployment") \/ Goto(c, "Service") \/ Stop(c)
      BY DEF AfterPart, Parts
    <2>4. PartTypes'
      BY <1>7 DEF EnsurePartExists, WriteParts, Crosses, Misread, PartTypes, Typed, TypeOK
    <2>5. "Deployment" \in Steps \ {"idle"} /\ "Service" \in Steps \ {"idle"}  BY DEF Steps
    <2> QED  BY <1>2, <1>3, <2>1, <2>2, <2>3, <2>4, <2>5, TypeParts
  <1>8. CASE ListRouteMonitors(c)
    <2>1. listed' \in [MonitorKinds -> SUBSET [name : Monitors, deleting : BOOLEAN]]
      BY <1>8, ListedTypes DEF ListRouteMonitors, Typed, TypeOK
    <2>2. WorkerTypes'  BY <1>8, <2>1, GoTypes DEF ListRouteMonitors, Steps
    <2> QED  BY <1>8, <2>2, TypeParts DEF ListRouteMonitors
  <1>9. CASE ListClusterUrlMonitors(c)
    <2>1. listed' \in [MonitorKinds -> SUBSET [name : Monitors, deleting : BOOLEAN]]
      BY <1>9 DEF ListClusterUrlMonitors, Typed, TypeOK
    <2>2. PICK l \in {"deleteService", "removeFinalizer"} : pc' = [pc EXCEPT ![c] = l]
      BY <1>9 DEF ListClusterUrlMonitors
    <2>3. l \in Steps \ {"idle"}  BY DEF Steps
    <2>4. WorkerTypes'  BY <1>9, <2>1, <2>2, <2>3, GoTypes DEF ListClusterUrlMonitors
    <2> QED  BY <1>9, <2>4, TypeParts DEF ListClusterUrlMonitors
  <1>10. CASE EnsurePartAbsent(c)
    <2>1. pc[c] \in DOMAIN DeletionOrder /\ pc[c] # "idle" /\ UNCHANGED <<mon, monCache, budget>>
      BY <1>10, Order DEF EnsurePartAbsent
    <2>2. DeletionOrder[pc[c]].next \in Steps \ {"idle"}  BY <2>1, Order DEF Steps
    <2>3. Goto(c, DeletionOrder[pc[c]].next) \/ Requeue(c)
      BY <1>10 DEF EnsurePartAbsent
    <2>4. PartTypes'
      <3>1. DeletionOrder[pc[c]].part \in Parts  BY <2>1, Order DEF Parts
      <3> QED
        BY <1>10, <3>1 DEF EnsurePartAbsent, WriteParts, Crosses, Misread, PartTypes, Typed, TypeOK
    <2> QED  BY <1>2, <1>3, <2>1, <2>2, <2>3, <2>4, TypeParts
  <1> QED  BY <1>1, <1>5, <1>6, <1>7, <1>8, <1>9, <1>10 DEF Reconcile

\* The informers, faults and users keep the types.
LEMMA EnvironmentTypes ==
    ASSUME Typed,
           \/ \E c \in MonitorKinds : CallFails(c)
           \/ \E m \in Monitors : SyncMonitor(m) \/ CreateMonitor(m) \/ DeleteMonitor(m)
           \/ \E p \in Parts : SyncPart(p)
           \/ Restart
    PROVE  Typed'
  <1>1. Edit \/ Fault => BudgetTypes'
    BY ExporterAssumption DEF Edit, Fault, BudgetTypes, Typed, TypeOK
  <1>2. ASSUME NEW c \in MonitorKinds, CallFails(c) PROVE Typed'
    BY <1>1, <1>2, EndTypes, TypeParts DEF CallFails
  <1>3. ASSUME NEW m \in Monitors, SyncMonitor(m) PROVE Typed'
    <2>1. CacheTypes'  BY <1>3 DEF SyncMonitor, CacheTypes, Typed, TypeOK
    <2>2. WorkerTypes'  BY <1>3 DEF SyncMonitor, workers, WorkerTypes, HasMonitor, Typed, TypeOK
    <2> QED  BY <1>3, <2>1, <2>2, TypeParts DEF SyncMonitor
  <1>4. ASSUME NEW m \in Monitors, CreateMonitor(m) PROVE Typed'
    <2>1. MonitorTypes'  BY <1>4 DEF CreateMonitor, MonitorTypes, Typed, TypeOK, States
    <2> QED  BY <1>1, <1>4, <2>1, TypeParts DEF CreateMonitor
  <1>5. ASSUME NEW m \in Monitors, DeleteMonitor(m) PROVE Typed'
    <2>1. MonitorTypes'  BY <1>5 DEF DeleteMonitor, MonitorTypes, Typed, TypeOK, States
    <2> QED  BY <1>1, <1>5, <2>1, TypeParts DEF DeleteMonitor
  <1>6. ASSUME NEW p \in Parts, SyncPart(p) PROVE Typed'
    <2>1. PartTypes'  BY <1>6 DEF SyncPart, PartTypes, Typed, TypeOK
    <2> QED  BY <1>6, <2>1, TypeParts DEF SyncPart
  <1>7. CASE Restart
    <2>1. WorkerTypes'  BY <1>7 DEF Restart, WorkerTypes, HasMonitor, Typed, TypeOK, Steps
    <2>2. CacheTypes' /\ PartTypes'  BY <1>7 DEF Restart, CacheTypes, PartTypes, Typed, TypeOK
    <2> QED  BY <1>1, <1>7, <2>1, <2>2, TypeParts DEF Restart
  <1> QED  BY <1>2, <1>3, <1>4, <1>5, <1>6, <1>7

\* The initial state.
LEMMA InitTypes ==
    ASSUME Init
    PROVE  Typed
  BY ExporterAssumption DEF Init, Typed, TypeOK, HasMonitor, States, Steps

\* Every step keeps the types.
LEMMA TypesKept ==
    ASSUME Typed, [Next]_vars
    PROVE  Typed'
  <1>1. CASE UNCHANGED vars  BY <1>1, TypeParts DEF vars, workers, budget
  <1> QED  BY <1>1, ReconcileTypes, EnvironmentTypes DEF Next

\* Every state has the declared types: a worker between two steps has a monitor of
\* its own kind, and only existing names are queued again.
THEOREM TypeCorrect == Spec => []TypeOK
  <1>1. Typed => TypeOK  BY DEF Typed
  <1> QED  BY <1>1, InitTypes, TypesKept, PTL DEF Spec
----------------------------------------------------------------------------
(* The monitors and the cached copies of them.                             *)

Removal == {"listRouteMonitors", "listClusterUrlMonitors", "removeFinalizer"} \cup DOMAIN DeletionOrder

\* A monitor cached as live is still under the finalizer; one cached as deleting has
\* no live successor yet.
Vouched ==
    \A m \in Monitors : /\ monCache[m] = "live" => mon[m] \in {"live", "deleting"}
                        /\ monCache[m] = "deleting" => mon[m] # "live"

\* What a worker knows of its monitor: one that it serves is under the finalizer, one
\* that it removes is not live.
AtWork(c) ==
    /\ pc[c] = "finalizer" =>
          monCache[cur[c]] \in {"new", "none"} \/ mon[cur[c]] \in {"live", "deleting"}
    /\ pc[c] \in Parts => mon[cur[c]] \in {"live", "deleting"}
    /\ pc[c] \in Removal => mon[cur[c]] # "live" /\ monCache[cur[c]] # "live"

Lives == Vouched /\ \A c \in MonitorKinds : AtWork(c)

\* The end of a reconcile, and its next step.
LEMMA NextStep ==
    ASSUME Typed, NEW c \in MonitorKinds
    PROVE  /\ Stop(c) \/ Requeue(c) => pc'[c] = "idle" /\ cur'[c] = None
           /\ Stop(c) => UNCHANGED queue
           /\ Requeue(c) => queue' = queue \cup {cur[c]}
           /\ \A l : Goto(c, l) => pc'[c] = l /\ UNCHANGED <<cur, listed, queue>>
  BY DEF Stop, Requeue, Goto, Typed, TypeOK

\* How the parts are put up and taken down.
LEMMA PartOrder ==
    ASSUME NEW c \in MonitorKinds
    PROVE  /\ \A p \in Parts : AfterPart(c, p) =>
                \/ p = "ConfigMap" /\ Goto(c, "Deployment")
                \/ p = "Deployment" /\ Goto(c, "Service")
                \/ p = "Service" /\ Stop(c)
           /\ \A l \in DOMAIN DeletionOrder : /\ DeletionOrder[l].part \in Parts
                                             /\ DeletionOrder[l].next \in Removal
           /\ Parts \cap Removal = {} /\ "idle" \notin Parts \cup Removal
           /\ "finalizer" \notin Parts \cup Removal
  BY Order DEF AfterPart, Parts, Removal

\* A worker's step leaves the other worker and the monitors of its kind alone.
LEMMA OwnKind ==
    ASSUME Typed, NEW k \in MonitorKinds, Reconcile(k) \/ CallFails(k),
           NEW c \in MonitorKinds, c # k
    PROVE  /\ pc'[c] = pc[c] /\ cur'[c] = cur[c] /\ listed'[c] = listed[c]
           /\ UNCHANGED monCache
           /\ \A m \in Monitors : KindOf[m] = c => mon'[m] = mon[m] /\ (m \in queue' <=> m \in queue)
  <1>1. /\ pc[k] # "idle" => cur[k] \in Monitors /\ KindOf[cur[k]] = k
        /\ pc \in [MonitorKinds -> Steps] /\ mon \in [Monitors -> States]
        /\ cur \in [MonitorKinds -> Monitors \cup {None}]
        /\ listed \in [MonitorKinds -> SUBSET [name : Monitors, deleting : BOOLEAN]]
    BY DEF Typed, TypeOK, HasMonitor
  <1>2. ASSUME pc[k] # "idle", Stop(k) \/ Requeue(k), UNCHANGED monCache,
               mon' = mon \/ \E s : mon' = [mon EXCEPT ![cur[k]] = s]
        PROVE  /\ pc'[c] = pc[c] /\ cur'[c] = cur[c] /\ listed'[c] = listed[c]
               /\ UNCHANGED monCache
               /\ \A m \in Monitors : KindOf[m] = c => mon'[m] = mon[m] /\ (m \in queue' <=> m \in queue)
    BY <1>1, <1>2 DEF Stop, Requeue
  <1>3. ASSUME NEW l, Goto(k, l), UNCHANGED <<mon, monCache>>
        PROVE  /\ pc'[c] = pc[c] /\ cur'[c] = cur[c] /\ listed'[c] = listed[c]
               /\ UNCHANGED monCache
               /\ \A m \in Monitors : KindOf[m] = c => mon'[m] = mon[m] /\ (m \in queue' <=> m \in queue)
    BY <1>1, <1>3 DEF Goto
  <1>4. ASSUME NEW m \in Monitors, Start(k, m)
        PROVE  /\ pc'[c] = pc[c] /\ cur'[c] = cur[c] /\ listed'[c] = listed[c]
               /\ UNCHANGED monCache
               /\ \A n \in Monitors : KindOf[n] = c => mon'[n] = mon[n] /\ (n \in queue' <=> n \in queue)
    <2>1. KindOf[m] = k /\ queue' = queue \ {m} /\ UNCHANGED <<mon, monCache, listed>>
      BY <1>4 DEF Start
    <2>2. pc'[c] = pc[c] /\ cur'[c] = cur[c]
      <3> HIDE DEF FirstStep
      <3> QED  BY <1>1, <1>4 DEF Start
    <2> QED  BY <2>1, <2>2
  <1>5. CASE ListRouteMonitors(k)  BY <1>1, <1>5 DEF ListRouteMonitors
  <1>6. CASE ListClusterUrlMonitors(k)  BY <1>1, <1>6 DEF ListClusterUrlMonitors
  <1>7. CASE SetFinalizer(k) \/ RemoveFinalizer(k) \/ CallFails(k)
    BY <1>2, <1>7 DEF SetFinalizer, RemoveFinalizer, CallFails
  <1>8. ASSUME NEW p \in Parts, EnsurePartExists(k, p)
        PROVE  /\ pc[k] = p /\ UNCHANGED <<mon, monCache>> /\ (AfterPart(k, p) \/ Requeue(k))
    BY <1>8 DEF EnsurePartExists
  <1>9. ASSUME EnsurePartAbsent(k)
        PROVE  /\ pc[k] \in DOMAIN DeletionOrder /\ UNCHANGED <<mon, monCache>>
               /\ Goto(k, DeletionOrder[pc[k]].next) \/ Requeue(k)
    BY <1>9 DEF EnsurePartAbsent
  <1>10. ASSUME NEW p \in Parts, EnsurePartExists(k, p)
         PROVE  /\ pc'[c] = pc[c] /\ cur'[c] = cur[c] /\ listed'[c] = listed[c]
                /\ UNCHANGED monCache
                /\ \A m \in Monitors : KindOf[m] = c => mon'[m] = mon[m] /\ (m \in queue' <=> m \in queue)
    <2>1. pc[k] # "idle" /\ UNCHANGED <<mon, monCache>>  BY <1>8, <1>10, PartOrder
    <2>2. Stop(k) \/ Requeue(k) \/ \E l : Goto(k, l)  BY <1>8, <1>10, PartOrder
    <2> QED  BY <1>2, <1>3, <2>1, <2>2
  <1>11. CASE EnsurePartAbsent(k)
    <2>1. pc[k] # "idle" /\ UNCHANGED <<mon, monCache>>
      BY <1>9, <1>11, PartOrder DEF Removal
    <2> QED  BY <1>2, <1>3, <1>9, <1>11, <2>1
  <1> QED  BY <1>4, <1>5, <1>6, <1>7, <1>10, <1>11 DEF Reconcile

\* Every step keeps what the workers know of their monitors.
LEMMA LivesKept ==
    ASSUME Typed, Lives, [Next]_vars
    PROVE  Lives'
  <1>1. /\ mon \in [Monitors -> States] /\ monCache \in [Monitors -> States]
        /\ pc \in [MonitorKinds -> Steps] /\ cur \in [MonitorKinds -> Monitors \cup {None}]
        /\ \A c \in MonitorKinds : pc[c] # "idle" => cur[c] \in Monitors /\ KindOf[cur[c]] = c
    BY DEF Typed, TypeOK, HasMonitor
  <1>2. "idle" \notin Parts \cup Removal  BY PartOrder DEF MonitorKinds
  <1>3. CASE UNCHANGED vars
    <2>1. UNCHANGED <<mon, monCache, pc, cur>>  BY <1>3 DEF vars
    <2> QED  BY <2>1 DEF Lives, Vouched, AtWork
  <1>4. ASSUME NEW m \in Monitors, SyncMonitor(m) \/ CreateMonitor(m) \/ DeleteMonitor(m)
        PROVE  Lives'
    <2>1. UNCHANGED <<pc, cur>>
      BY <1>4 DEF SyncMonitor, CreateMonitor, DeleteMonitor, workers
    <2>2. \A n \in Monitors :
             \/ mon'[n] = mon[n] /\ monCache'[n] \in {mon[n], monCache[n]}
             \/ mon[n] = "none" /\ mon'[n] = "new" /\ monCache'[n] = monCache[n]
             \/ mon[n] = "new" /\ mon'[n] = "none" /\ monCache'[n] = monCache[n]
             \/ mon[n] = "live" /\ mon'[n] = "deleting" /\ monCache'[n] = monCache[n]
      BY <1>1, <1>4 DEF SyncMonitor, CreateMonitor, DeleteMonitor
    <2>3. Vouched'  BY <2>2 DEF Lives, Vouched
    <2>4. ASSUME NEW c \in MonitorKinds PROVE AtWork(c)'
      <3>1. CASE pc[c] = "idle"  BY <1>2, <2>1, <3>1 DEF AtWork
      <3>2. CASE pc[c] # "idle"
        <4>1. cur[c] \in Monitors /\ mon[cur[c]] \in States /\ monCache[cur[c]] \in States
          BY <1>1, <3>2
        <4> QED  BY <2>1, <2>2, <4>1 DEF Lives, AtWork, States
      <3> QED  BY <3>1, <3>2
    <2> QED  BY <2>3, <2>4 DEF Lives
  <1>5. CASE Restart
    <2>1. monCache' = mon /\ mon' = mon /\ \A c \in MonitorKinds : pc'[c] = "idle"
      BY <1>5 DEF Restart
    <2> QED  BY <1>2, <2>1 DEF Lives, Vouched, AtWork
  <1>6. ASSUME NEW p \in Parts, SyncPart(p) PROVE Lives'
    <2>1. UNCHANGED <<mon, monCache, pc, cur>>  BY <1>6 DEF SyncPart, workers
    <2> QED  BY <2>1 DEF Lives, Vouched, AtWork
  <1>7. ASSUME NEW k \in MonitorKinds, Reconcile(k) \/ CallFails(k)
        PROVE  Lives'
    <2>1. ASSUME NEW c \in MonitorKinds, c # k PROVE AtWork(c)'
      <3>1. pc'[c] = pc[c] /\ cur'[c] = cur[c] /\ monCache' = monCache
        BY <1>7, <2>1, OwnKind
      <3>2. pc[c] # "idle" => cur[c] \in Monitors /\ mon'[cur[c]] = mon[cur[c]]
        BY <1>1, <1>7, <2>1, OwnKind
      <3> QED  BY <1>2, <3>1, <3>2 DEF Lives, AtWork
    <2>2. ASSUME UNCHANGED <<mon, monCache>>, AtWork(k)' PROVE Lives'
      <3>1. Vouched'  BY <2>2 DEF Lives, Vouched
      <3> QED  BY <2>1, <2>2, <3>1 DEF Lives
    <2>3. ASSUME UNCHANGED <<mon, monCache>>, pc'[k] = "idle" PROVE Lives'
      BY <1>2, <2>2, <2>3 DEF AtWork
    <2>4. ASSUME UNCHANGED <<mon, monCache, cur>>,
                 {pc[k], pc'[k]} \subseteq Parts \/ {pc[k], pc'[k]} \subseteq Removal
          PROVE  Lives'
      <3>1. AtWork(k)'  BY <2>4, PartOrder DEF Lives, AtWork
      <3> QED  BY <2>2, <2>4, <3>1
    <2>5. CASE CallFails(k)  BY <2>3, <2>5, NextStep DEF CallFails
    <2>6. ASSUME NEW m \in Monitors, Start(k, m) PROVE Lives'
      <3>1. pc[k] = "idle" /\ UNCHANGED <<mon, monCache>>  BY <2>6 DEF Start
      <3>2. CASE monCache[m] = "none"
        BY <2>3, <2>6, <3>1, <3>2 DEF Start
      <3>3. CASE monCache[m] # "none"
        <4>1. monCache[m] \in {"new", "live", "deleting"}  BY <1>1, <3>3 DEF States
        <4>2. /\ monCache[m] = "new" => FirstStep(m) = "finalizer"
              /\ monCache[m] = "live" => FirstStep(m) = "ConfigMap"
              /\ monCache[m] = "deleting" => FirstStep(m) = "listRouteMonitors"
          BY DEF FirstStep
        <4> HIDE DEF FirstStep
        <4>3. pc'[k] = FirstStep(m) /\ cur'[k] = m  BY <1>1, <2>6, <3>3 DEF Start
        <4>4. "ConfigMap" \in Parts /\ "listRouteMonitors" \in Removal  BY DEF Parts, Removal
        <4>5. AtWork(k)'
          BY <3>1, <4>1, <4>2, <4>3, <4>4, PartOrder DEF AtWork, Lives, Vouched
        <4> QED  BY <2>2, <3>1, <4>5
      <3> QED  BY <3>2, <3>3
    <2>7. CASE SetFinalizer(k)
      <3>1. CASE mon[cur[k]] = "new"
        <4>1. /\ pc[k] = "finalizer" /\ monCache' = monCache /\ pc'[k] = "idle"
              /\ mon' = [mon EXCEPT ![cur[k]] = "live"]
          BY <2>7, <3>1, NextStep DEF SetFinalizer
        <4>2. monCache[cur[k]] \in {"new", "none"}  BY <3>1, <4>1 DEF Lives, AtWork
        <4>3. Vouched'  BY <1>1, <4>1, <4>2 DEF Lives, Vouched
        <4>4. AtWork(k)'  BY <1>2, <4>1 DEF AtWork
        <4> QED  BY <2>1, <4>3, <4>4 DEF Lives
      <3>2. CASE mon[cur[k]] # "new"
        BY <2>3, <2>7, <3>2, NextStep DEF SetFinalizer
      <3> QED  BY <3>1, <3>2
    <2>8. CASE RemoveFinalizer(k)
      <3>1. CASE mon[cur[k]] = "deleting"
        <4>1. /\ pc[k] = "removeFinalizer" /\ monCache' = monCache /\ pc'[k] = "idle"
              /\ mon' = [mon EXCEPT ![cur[k]] = "none"]
          BY <2>8, <3>1, NextStep DEF RemoveFinalizer
        <4>2. monCache[cur[k]] # "live"  BY <4>1 DEF Lives, AtWork, Removal
        <4>3. Vouched'  BY <1>1, <4>1, <4>2 DEF Lives, Vouched
        <4>4. AtWork(k)'  BY <1>2, <4>1 DEF AtWork
        <4> QED  BY <2>1, <4>3, <4>4 DEF Lives
      <3>2. CASE mon[cur[k]] # "deleting"
        BY <2>3, <2>8, <3>2, NextStep DEF RemoveFinalizer
      <3> QED  BY <3>1, <3>2
    <2>9. ASSUME NEW p \in Parts, EnsurePartExists(k, p) PROVE Lives'
      <3>1. pc[k] = p /\ UNCHANGED <<mon, monCache>> /\ (AfterPart(k, p) \/ Requeue(k))
        BY <2>9 DEF EnsurePartExists
      <3>2. pc'[k] = "idle" \/ (pc'[k] \in Parts /\ UNCHANGED cur)
        BY <3>1, PartOrder, NextStep DEF Parts
      <3> QED  BY <2>3, <2>4, <3>1, <3>2
    <2>10. CASE EnsurePartAbsent(k)
      <3>1. /\ pc[k] \in DOMAIN DeletionOrder /\ UNCHANGED <<mon, monCache>>
            /\ Goto(k, DeletionOrder[pc[k]].next) \/ Requeue(k)
        BY <2>10 DEF EnsurePartAbsent
      <3>2. pc[k] \in Removal  BY <3>1 DEF Removal
      <3>3. pc'[k] = "idle" \/ (pc'[k] \in Removal /\ UNCHANGED cur)
        BY <3>1, PartOrder, NextStep
      <3> QED  BY <2>3, <2>4, <3>1, <3>2, <3>3
    <2>11. CASE ListRouteMonitors(k) \/ ListClusterUrlMonitors(k)
      <3>1. /\ pc[k] \in Removal /\ UNCHANGED <<mon, monCache, cur>>
            /\ pc'[k] \in {"listClusterUrlMonitors", "deleteService", "removeFinalizer"}
        BY <1>1, <2>11 DEF ListRouteMonitors, ListClusterUrlMonitors, Removal
      <3>2. pc'[k] \in Removal  BY <3>1, Order DEF Removal
      <3> QED  BY <2>4, <3>1, <3>2
    <2> QED  BY <1>7, <2>5, <2>6, <2>7, <2>8, <2>9, <2>10, <2>11 DEF Reconcile
  <1> QED  BY <1>3, <1>4, <1>5, <1>6, <1>7 DEF Next
----------------------------------------------------------------------------
(* The parts, and the steps that touch them.                               *)

\* The parts that are up or accounted for in the history.
Has == parts \cup crossed

\* A step of worker k puts part p up, or takes it down: when that is at cross purposes
\* with the other worker the history says so.
PutUp(k, p) ==
    /\ pc[k] = p /\ parts' = parts \cup {p} /\ crossed \ {p} \subseteq crossed'
    /\ OthersTakeDown(k) => p \in crossed'
TakenDown(k, p) ==
    /\ pc[k] \in DOMAIN DeletionOrder /\ p = DeletionOrder[pc[k]].part
    /\ parts' = parts \ {p} /\ crossed \ {p} \subseteq crossed'
    /\ OthersServed(k) => p \in crossed'

\* A worker's step leaves the parts alone, puts one up or takes one down.
LEMMA PartSteps ==
    ASSUME Typed, NEW k \in MonitorKinds, Reconcile(k) \/ CallFails(k)
    PROVE  \/ parts' = parts /\ crossed \subseteq crossed'
           \/ \E p \in Parts : PutUp(k, p) \/ TakenDown(k, p)
  <1>1. ASSUME NEW p, Misread(p), parts' = parts
        PROVE  parts' = parts /\ crossed \subseteq crossed'
    BY <1>1 DEF Misread
  <1>2. ASSUME NEW p \in Parts, EnsurePartExists(k, p)
        PROVE  (parts' = parts /\ crossed \subseteq crossed') \/ PutUp(k, p)
    <2>1. \/ Misread(p) /\ parts' = parts
          \/ UNCHANGED <<parts, crossed>>
          \/ Crosses(p, OthersTakeDown(k)) /\ WriteParts(parts \cup {p})
      BY <1>2 DEF EnsurePartExists
    <2>2. CASE Crosses(p, OthersTakeDown(k)) /\ WriteParts(parts \cup {p})
      <3>1. pc[k] = p /\ parts' = parts \cup {p}  BY <1>2, <2>2 DEF EnsurePartExists, WriteParts
      <3>2. crossed \ {p} \subseteq crossed' /\ (OthersTakeDown(k) => p \in crossed')
        BY <2>2 DEF Crosses
      <3> QED  BY <3>1, <3>2 DEF PutUp
    <2> QED  BY <1>1, <2>1, <2>2
  <1>3. ASSUME EnsurePartAbsent(k)
        PROVE  \/ parts' = parts /\ crossed \subseteq crossed'
               \/ \E p \in Parts : TakenDown(k, p)
    <2> DEFINE p == DeletionOrder[pc[k]].part
    <2>1. pc[k] \in DOMAIN DeletionOrder /\ p \in Parts  BY <1>3, PartOrder DEF EnsurePartAbsent
    <2>2. \/ Misread(p) /\ parts' = parts
          \/ UNCHANGED <<parts, crossed>>
          \/ Crosses(p, OthersServed(k)) /\ WriteParts(parts \ {p})
      BY <1>3 DEF EnsurePartAbsent
    <2>3. CASE Crosses(p, OthersServed(k)) /\ WriteParts(parts \ {p})
      <3>1. parts' = parts \ {p}  BY <2>3 DEF WriteParts
      <3>2. crossed \ {p} \subseteq crossed' /\ (OthersServed(k) => p \in crossed')
        BY <2>3 DEF Crosses
      <3> QED  BY <2>1, <3>1, <3>2 DEF TakenDown
    <2> HIDE DEF p
    <2> QED  BY <1>1, <2>2, <2>3
  <1>4. ASSUME ~EnsurePartAbsent(k), \A p \in Parts : ~EnsurePartExists(k, p)
        PROVE  UNCHANGED <<parts, crossed>>
    BY <1>4 DEF Reconcile, CallFails, Start, SetFinalizer, ListRouteMonitors,
                ListClusterUrlMonitors, RemoveFinalizer
  <1> QED  BY <1>2, <1>3, <1>4

\* What is up of the exporter at each step of a worker.
Building(c) ==
    /\ pc[c] = "Deployment" => "ConfigMap" \in Has
    /\ pc[c] = "Service" => "ConfigMap" \in Has /\ "Deployment" \in Has
    /\ pc[c] = "deleteDeployment" => "Service" \notin parts \/ "Service" \in crossed

InOrder == OnlyCrossedServiceEmpty /\ \A c \in MonitorKinds : Building(c)

\* How a worker gets to those steps.
LEMMA Enters ==
    ASSUME Typed, NEW c \in MonitorKinds, Reconcile(c) \/ CallFails(c)
    PROVE  /\ pc'[c] = "Deployment" => pc[c] = "ConfigMap" /\ "ConfigMap" \in Has'
           /\ pc'[c] = "Service" => pc[c] = "Deployment" /\ "Deployment" \in Has'
           /\ pc'[c] = "deleteDeployment" =>
                pc[c] = "deleteService" /\ ("Service" \notin parts' \/ "Service" \in crossed')
           /\ pc[c] \in Parts => pc'[c] \in Parts \cup {"idle"}
  <1>1. ASSUME NEW p \in Parts, EnsurePartExists(c, p)
        PROVE  /\ pc[c] = p
               /\ \/ pc'[c] = "idle"
                  \/ p \in Has' /\ \/ p = "ConfigMap" /\ pc'[c] = "Deployment"
                                   \/ p = "Deployment" /\ pc'[c] = "Service"
    <2>1. pc[c] = p  BY <1>1 DEF EnsurePartExists
    <2>2. \/ Requeue(c)
          \/ AfterPart(c, p) /\ p \in partCache /\ Misread(p) /\ parts' = parts
          \/ AfterPart(c, p) /\ WriteParts(parts \cup {p})
      BY <1>1 DEF EnsurePartExists
    <2>3. Requeue(c) \/ (AfterPart(c, p) /\ p \in Has')
      BY <2>2 DEF Misread, WriteParts, Has
    <2> QED  BY <2>1, <2>3, PartOrder, NextStep
  <1>2. ASSUME EnsurePartAbsent(c)
        PROVE  \/ pc'[c] \in {"idle", "deleteConfigMap", "removeFinalizer"}
               \/ /\ pc'[c] = "deleteDeployment" /\ pc[c] = "deleteService"
                  /\ "Service" \notin parts' \/ "Service" \in crossed'
    <2> DEFINE p == DeletionOrder[pc[c]].part
               l == DeletionOrder[pc[c]].next
    <2>1. pc[c] \in DOMAIN DeletionOrder  BY <1>2 DEF EnsurePartAbsent
    <2>2. \/ Goto(c, l) /\ p \notin partCache /\ Misread(p) /\ parts' = parts
          \/ Goto(c, l) /\ WriteParts(parts \ {p})
          \/ Requeue(c)
      BY <1>2 DEF EnsurePartAbsent
    <2>3. Requeue(c) \/ (Goto(c, l) /\ (p \notin parts' \/ p \in crossed'))
      <3> HIDE DEF p, l
      <3> QED  BY <2>2 DEF Misread, WriteParts
    <2>4. pc'[c] = "idle" \/ (pc'[c] = l /\ (p \notin parts' \/ p \in crossed'))
      BY <2>3, NextStep
    <2> QED  BY <2>1, <2>4, Order
  <1>3. ASSUME ~EnsurePartAbsent(c), \A p \in Parts : ~EnsurePartExists(c, p)
        PROVE  pc'[c] \in {"idle", "finalizer", "ConfigMap", "listRouteMonitors",
                           "listClusterUrlMonitors", "deleteService", "removeFinalizer"}
    <2>1. ASSUME NEW m \in Monitors, Start(c, m)
          PROVE  pc'[c] \in {"idle", "finalizer", "ConfigMap", "listRouteMonitors"}
      <3>1. FirstStep(m) \in {"finalizer", "ConfigMap", "listRouteMonitors"} \/ monCache[m] = "none"
        BY DEF FirstStep, Typed, TypeOK, States
      <3> HIDE DEF FirstStep
      <3> QED  BY <2>1, <3>1 DEF Start, Typed, TypeOK
    <2>2. CASE SetFinalizer(c) \/ RemoveFinalizer(c) \/ CallFails(c)
      BY <2>2, NextStep DEF SetFinalizer, RemoveFinalizer, CallFails
    <2>3. CASE ListRouteMonitors(c) \/ ListClusterUrlMonitors(c)
      BY <2>3 DEF ListRouteMonitors, ListClusterUrlMonitors, Typed, TypeOK
    <2> QED  BY <1>3, <2>1, <2>2, <2>3 DEF Reconcile
  <1>4. ASSUME pc[c] \in Parts PROVE pc'[c] \in Parts \cup {"idle"}
    <2>1. \/ CallFails(c) \/ \E p \in Parts : EnsurePartExists(c, p)
      BY <1>4, Order DEF Parts, Reconcile, Start, SetFinalizer, ListRouteMonitors,
                         ListClusterUrlMonitors, EnsurePartAbsent, RemoveFinalizer
    <2>2. CallFails(c) => pc'[c] = "idle"  BY NextStep DEF CallFails
    <2> QED  BY <1>1, <2>1, <2>2 DEF Parts
  <1>5. CASE EnsurePartAbsent(c)  BY <1>2, <1>4, <1>5
  <1>6. CASE \E p \in Parts : EnsurePartExists(c, p)
    <2>1. PICK p \in Parts : EnsurePartExists(c, p)  BY <1>6
    <2> QED  BY <1>1, <1>4, <2>1 DEF Parts
  <1> QED  BY <1>3, <1>4, <1>5, <1>6

\* A worker that serves a monitor is reason enough for what the other takes down to be
\* accounted for, and a take-down for what the other puts up.
LEMMA Accounted ==
    ASSUME Typed, Lives, NEW k \in MonitorKinds, Reconcile(k) \/ CallFails(k),
           NEW c \in MonitorKinds, c # k
    PROVE  /\ pc[c] \in Parts => Has \subseteq Has'
           /\ pc[c] \in DOMAIN DeletionOrder =>
                \A p \in Parts : p \notin parts \/ p \in crossed => p \notin parts' \/ p \in crossed'
  <1>1. pc[c] \in Parts => OthersServed(k)
    <2>1. pc[c] \in Parts => /\ cur[c] \in Monitors /\ KindOf[cur[c]] = c
                             /\ mon[cur[c]] \in {"live", "deleting"}
      BY PartOrder DEF Typed, HasMonitor, Lives, AtWork
    <2> QED  BY <2>1 DEF OthersServed
  <1>2. pc[c] \in DOMAIN DeletionOrder => OthersTakeDown(k)  BY DEF OthersTakeDown
  <1>3. CASE parts' = parts /\ crossed \subseteq crossed'  BY <1>3 DEF Has
  <1>4. ASSUME NEW p \in Parts, PutUp(k, p)
        PROVE  /\ Has \subseteq Has'
               /\ OthersTakeDown(k) =>
                    \A q \in Parts : q \notin parts \/ q \in crossed => q \notin parts' \/ q \in crossed'
    BY <1>4 DEF PutUp, Has
  <1>5. ASSUME NEW p \in Parts, TakenDown(k, p)
        PROVE  /\ OthersServed(k) => Has \subseteq Has'
               /\ \A q \in Parts : q \notin parts \/ q \in crossed => q \notin parts' \/ q \in crossed'
    BY <1>5 DEF TakenDown, Has
  <1> QED  BY <1>1, <1>2, <1>3, <1>4, <1>5, PartSteps

\* Every step keeps the parts in order.
LEMMA InOrderKept ==
    ASSUME Typed, Lives, InOrder, [Next]_vars
    PROVE  InOrder'
  <1>1. ASSUME UNCHANGED <<parts, crossed>>, \A c \in MonitorKinds : pc'[c] \in {pc[c], "idle"}
        PROVE  InOrder'
    BY <1>1 DEF InOrder, Building, Has, OnlyCrossedServiceEmpty
  <1>2. CASE UNCHANGED vars  BY <1>1, <1>2 DEF vars
  <1>3. CASE Restart  BY <1>1, <1>3 DEF Restart
  <1>4. ASSUME NEW p \in Parts, SyncPart(p) PROVE InOrder'
    BY <1>1, <1>4 DEF SyncPart, workers
  <1>5. ASSUME NEW m \in Monitors, SyncMonitor(m) \/ CreateMonitor(m) \/ DeleteMonitor(m)
        PROVE  InOrder'
    BY <1>1, <1>5 DEF SyncMonitor, CreateMonitor, DeleteMonitor, workers
  <1>6. ASSUME NEW k \in MonitorKinds, Reconcile(k) \/ CallFails(k)
        PROVE  InOrder'
    <2>1. \/ parts' = parts /\ crossed \subseteq crossed'
          \/ \E p \in Parts : PutUp(k, p) \/ TakenDown(k, p)
      BY <1>6, PartSteps
    <2>2. OnlyCrossedServiceEmpty'
      <3>1. CASE parts' = parts /\ crossed \subseteq crossed'
        BY <3>1 DEF InOrder, OnlyCrossedServiceEmpty
      <3>2. ASSUME NEW p \in Parts, PutUp(k, p) PROVE OnlyCrossedServiceEmpty'
        <4>1. p = "Service" => "Deployment" \in Has  BY <3>2 DEF PutUp, InOrder, Building
        <4> QED  BY <3>2, <4>1 DEF PutUp, InOrder, OnlyCrossedServiceEmpty, Has, Parts
      <3>3. ASSUME NEW p \in Parts, TakenDown(k, p) PROVE OnlyCrossedServiceEmpty'
        <4>1. pc[k] \in DOMAIN DeletionOrder /\ p = DeletionOrder[pc[k]].part  BY <3>3 DEF TakenDown
        <4>2. p = "Deployment" => pc[k] = "deleteDeployment"
          <5>1. DeletionOrder["deleteService"].part = "Service"
                /\ DeletionOrder["deleteConfigMap"].part = "ConfigMap"
            BY Order
          <5> QED  BY <4>1, <5>1, Order
        <4>3. p = "Deployment" => "Service" \notin parts \/ "Service" \in crossed
          BY <4>2 DEF InOrder, Building
        <4> QED  BY <3>3, <4>3 DEF TakenDown, InOrder, OnlyCrossedServiceEmpty, Parts
      <3> QED  BY <2>1, <3>1, <3>2, <3>3
    <2>3. ASSUME NEW c \in MonitorKinds, c # k PROVE Building(c)'
      <3>1. pc'[c] = pc[c]  BY <1>6, <2>3, OwnKind
      <3>2. pc[c] \in Parts => Has \subseteq Has'  BY <1>6, <2>3, Accounted
      <3>3. pc[c] = "deleteDeployment" /\ ("Service" \notin parts \/ "Service" \in crossed) =>
              "Service" \notin parts' \/ "Service" \in crossed'
        BY <1>6, <2>3, Accounted, Order DEF Parts
      <3> QED  BY <3>1, <3>2, <3>3 DEF InOrder, Building, Parts
    <2>4. Building(k)'
      <3>1. pc[k] = "Deployment" => Has \subseteq Has'
        <4>1. pc[k] = "Deployment" => pc[k] \notin DOMAIN DeletionOrder  BY Order
        <4> QED  BY <2>1, <4>1 DEF PutUp, TakenDown, Has
      <3>2. pc'[k] = "Service" => "ConfigMap" \in Has'
        BY <1>6, <3>1, Enters DEF InOrder, Building
      <3> QED  BY <1>6, <3>2, Enters DEF Building
    <2> QED  BY <2>2, <2>3, <2>4 DEF InOrder
  <1> QED  BY <1>2, <1>3, <1>4, <1>5, <1>6 DEF Next

\* The invariant up to here.
LEMMA InOrderInvariant == Spec => [](Typed /\ Lives /\ InOrder)
  <1>1. Init => Typed /\ Lives /\ InOrder
    <2> SUFFICES ASSUME Init PROVE Typed /\ Lives /\ InOrder  OBVIOUS
    <2>1. Lives  BY PartOrder DEF Init, Lives, Vouched, AtWork
    <2>2. InOrder  BY DEF Init, InOrder, Building, OnlyCrossedServiceEmpty
    <2> QED  BY <2>1, <2>2, InitTypes
  <1>2. Typed /\ Lives /\ InOrder /\ [Next]_vars => (Typed /\ Lives /\ InOrder)'
    BY TypesKept, LivesKept, InOrderKept
  <1> QED  BY <1>1, <1>2, PTL DEF Spec

\* A Service without its Deployment is the work of both controllers at once or of a
\* stale copy ("A Service should not point to an empty target (Deployment)"): for any
\* monitors of either kind, lagging caches, calls that fail and restarts, the orders in
\* which a controller creates and deletes the parts never leave one.
THEOREM ServiceKeepsTarget == Spec => []OnlyCrossedServiceEmpty
  <1>1. InOrder => OnlyCrossedServiceEmpty  BY DEF InOrder
  <1> QED  BY <1>1, InOrderInvariant, PTL
----------------------------------------------------------------------------
(* What is done for a monitor when nothing of it is due.                   *)

\* The state of the monitor from which a reconcile gets to a step.
Due(step) ==
    IF step = "finalizer" THEN "new" ELSE IF step \in Parts THEN "live" ELSE "deleting"

\* The monitor at work is cached in the state that the work is for, or due again.
Current(c) ==
    pc[c] # "idle" => cur[c] \in queue \/ monCache[cur[c]] = Due(pc[c])

Settled(c, m) == KindOf[m] = c /\ m \notin queue /\ cur[c] # m

\* A settled monitor has had what its cached state asks for: the finalizer, its
\* removal, or a complete exporter, which its own worker is not about to take down.
Done(c, m) ==
    /\ monCache[m] = "new" => mon[m] \in {"live", "deleting"}
    /\ monCache[m] = "deleting" => mon[m] \in {"none", "new"}
    /\ monCache[m] = "live" =>
          /\ Parts \subseteq Has /\ pc[c] \notin DOMAIN DeletionOrder
          /\ pc[c] = "listClusterUrlMonitors" /\ c = "RouteMonitor" =>
                [name |-> m, deleting |-> FALSE] \in listed[c]

Settlement(c) == \A m \in Monitors : Settled(c, m) => Done(c, m)

ExporterInv ==
    /\ Typed /\ Lives /\ InOrder
    /\ \A c \in MonitorKinds : Current(c) /\ Settlement(c)

\* A reconcile that fails is due again.
LEMMA RequeueKeeps ==
    ASSUME NEW c \in MonitorKinds, ExporterInv, pc[c] # "idle", Requeue(c),
           UNCHANGED <<mon, monCache>>, Has \subseteq Has'
    PROVE  Current(c)' /\ Settlement(c)'
  <1>1. pc'[c] = "idle" /\ cur'[c] = None /\ queue' = queue \cup {cur[c]}
    BY NextStep DEF ExporterInv
  <1>2. Current(c)'  BY <1>1 DEF Current
  <1>3. ASSUME NEW m \in Monitors, Settled(c, m)'
        PROVE  Done(c, m)'
    <2>1. Settled(c, m) /\ Done(c, m)
      BY <1>1, <1>3 DEF Settled, ExporterInv, Settlement
    <2> QED  BY <1>1, <2>1, Order DEF Done
  <1> QED  BY <1>2, <1>3 DEF Settlement

\* Putting a part up: what the worker finds it takes to be there.
LEMMA ExistsSteps ==
    ASSUME NEW c \in MonitorKinds, Typed, NEW p \in Parts, EnsurePartExists(c, p)
    PROVE  /\ pc[c] = p /\ UNCHANGED <<mon, monCache>> /\ Has \subseteq Has'
           /\ Requeue(c) \/ (AfterPart(c, p) /\ p \in Has')
  <1>1. pc[c] = p /\ UNCHANGED <<mon, monCache>>  BY DEF EnsurePartExists
  <1>2. \/ Requeue(c) /\ UNCHANGED <<parts, crossed>>
        \/ AfterPart(c, p) /\ p \in partCache /\ Misread(p) /\ parts' = parts
        \/ AfterPart(c, p) /\ Crosses(p, OthersTakeDown(c)) /\ WriteParts(parts \cup {p})
    BY DEF EnsurePartExists
  <1>3. CASE Requeue(c) /\ UNCHANGED <<parts, crossed>>  BY <1>1, <1>3 DEF Has
  <1>4. CASE AfterPart(c, p) /\ p \in partCache /\ Misread(p) /\ parts' = parts
    BY <1>1, <1>4 DEF Has, Misread
  <1>5. CASE AfterPart(c, p) /\ Crosses(p, OthersTakeDown(c)) /\ WriteParts(parts \cup {p})
    BY <1>1, <1>5 DEF Has, Crosses, WriteParts
  <1> QED  BY <1>2, <1>3, <1>4, <1>5

\* Where the reconcile begins, it has the work that the cached monitor asks for.
LEMMA StartKeeps ==
    ASSUME NEW c \in MonitorKinds, ExporterInv, NEW m \in Monitors, Start(c, m)
    PROVE  Current(c)' /\ Settlement(c)'
  <1>1. Typed /\ pc[c] = "idle" /\ cur[c] = None /\ UNCHANGED <<mon, monCache, parts, crossed, listed>>
        /\ queue' = queue \ {m}
    BY DEF Start, ExporterInv, Typed, HasMonitor
  <1>2. CASE monCache[m] = "none"
    <2>1. UNCHANGED <<pc, cur>>  BY <1>2 DEF Start
    <2>2. Current(c)'  BY <1>1, <2>1 DEF Current
    <2>3. ASSUME NEW n \in Monitors, Settled(c, n)'
          PROVE  Done(c, n)'
      <3>1. Done(c, n)
        BY <1>1, <1>2, <2>1, <2>3 DEF Settled, ExporterInv, Settlement, Done
      <3> QED  BY <1>1, <2>1, <3>1 DEF Done, Has
    <2> QED  BY <2>2, <2>3 DEF Settlement
  <1>3. CASE monCache[m] # "none"
    <2>1. cur'[c] = m /\ pc'[c] = FirstStep(m)  BY <1>3 DEF Start, ExporterInv, Typed, TypeOK
    <2>2. monCache[m] \in {"new", "live", "deleting"}
      BY <1>3 DEF ExporterInv, Typed, TypeOK, States
    <2>3. /\ FirstStep(m) \in {"finalizer", "ConfigMap", "listRouteMonitors"}
          /\ monCache[m] = Due(FirstStep(m))
      BY <2>2 DEF FirstStep, Due, Parts
    <2> HIDE DEF FirstStep
    <2>4. Current(c)'  BY <1>1, <2>1, <2>3 DEF Current
    <2>5. ASSUME NEW n \in Monitors, Settled(c, n)'
          PROVE  Done(c, n)'
      <3>1. n # m /\ n \notin queue /\ n # None /\ KindOf[n] = c
        BY <1>1, <2>1, <2>5, ExporterAssumption DEF Settled
      <3>2. Done(c, n)  BY <1>1, <3>1 DEF Settled, ExporterInv, Settlement
      <3> QED  BY <1>1, <2>1, <2>3, <3>2, Order DEF Done, Has
    <2> QED  BY <2>4, <2>5 DEF Settlement
  <1> QED  BY <1>2, <1>3

\* The finalizer is set, or removed: the cached state of the monitor is history.
LEMMA FinalizerKeeps ==
    ASSUME NEW c \in MonitorKinds, ExporterInv, SetFinalizer(c) \/ RemoveFinalizer(c)
    PROVE  Current(c)' /\ Settlement(c)'
  <1>1. Typed /\ pc[c] # "idle" /\ cur[c] \in Monitors /\ UNCHANGED <<monCache, parts, crossed>>
    BY DEF SetFinalizer, RemoveFinalizer, ExporterInv, Typed, HasMonitor
  <1>2. CASE Requeue(c) /\ UNCHANGED mon  BY <1>1, <1>2, RequeueKeeps DEF Has
  <1>3. CASE Stop(c) /\ ~(Requeue(c) /\ UNCHANGED mon)
    <2>1. pc'[c] = "idle" /\ cur'[c] = None /\ queue' = queue  BY <1>1, <1>3, NextStep
    <2>2. Current(c)'  BY <2>1 DEF Current
    <2>3. \A n \in Monitors : n # cur[c] => mon'[n] = mon[n]
      BY DEF SetFinalizer, RemoveFinalizer, ExporterInv, Typed, TypeOK
    <2>4. \/ Due(pc[c]) = "new" /\ mon'[cur[c]] = "live"
          \/ Due(pc[c]) = "deleting" /\ mon'[cur[c]] = "none"
      <3>1. CASE SetFinalizer(c)
        <4>1. mon' = [mon EXCEPT ![cur[c]] = "live"] /\ pc[c] = "finalizer"
          BY <1>3, <3>1 DEF SetFinalizer
        <4> QED  BY <1>1, <4>1 DEF Due, Typed, TypeOK
      <3>2. CASE RemoveFinalizer(c)
        <4>1. mon' = [mon EXCEPT ![cur[c]] = "none"] /\ pc[c] = "removeFinalizer"
          BY <1>3, <3>2 DEF RemoveFinalizer
        <4> QED  BY <1>1, <4>1 DEF Due, Parts, Typed, TypeOK
      <3> QED  BY <3>1, <3>2
    <2>5. ASSUME NEW n \in Monitors, Settled(c, n)'
          PROVE  Done(c, n)'
      <3>1. n \notin queue /\ KindOf[n] = c  BY <2>1, <2>5 DEF Settled
      <3>2. CASE n = cur[c]
        <4>1. monCache[n] = Due(pc[c])  BY <1>1, <3>1, <3>2 DEF ExporterInv, Current
        <4> QED  BY <1>1, <2>4, <3>2, <4>1 DEF Done, Has
      <3>3. CASE n # cur[c]
        <4>1. Done(c, n)  BY <3>1, <3>3 DEF Settled, ExporterInv, Settlement
        <4> QED  BY <1>1, <2>1, <2>3, <3>3, <4>1, Order DEF Done, Has
      <3> QED  BY <3>2, <3>3
    <2> QED  BY <2>2, <2>5 DEF Settlement
  <1> QED  BY <1>2, <1>3 DEF SetFinalizer, RemoveFinalizer

\* Parts are only put up, and the last one completes the exporter.
LEMMA ExistsKeeps ==
    ASSUME NEW c \in MonitorKinds, ExporterInv, NEW p \in Parts, EnsurePartExists(c, p)
    PROVE  Current(c)' /\ Settlement(c)'
  <1>1. /\ Typed /\ pc[c] = p /\ pc[c] # "idle" /\ Due(pc[c]) = "live" /\ cur[c] \in Monitors
    BY ExistsSteps DEF ExporterInv, Typed, HasMonitor, Parts, Due
  <1>2. /\ UNCHANGED <<mon, monCache>> /\ Has \subseteq Has'
        /\ Requeue(c) \/ (AfterPart(c, p) /\ p \in Has')
    BY ExistsSteps DEF ExporterInv
  <1>3. CASE Requeue(c)  BY <1>1, <1>2, <1>3, RequeueKeeps
  <1>4. CASE AfterPart(c, p) /\ p \in Has'
    <2>1. ASSUME NEW l \in {"Deployment", "Service"}, Goto(c, l)
          PROVE  Current(c)' /\ Settlement(c)'
      <3>1. pc'[c] = l /\ UNCHANGED <<cur, listed, queue>>  BY <1>1, <2>1, NextStep
      <3>2. Due(l) = "live" /\ l \notin DOMAIN DeletionOrder /\ l # "listClusterUrlMonitors"
        BY Order DEF Due, Parts
      <3>3. Current(c)'  BY <1>1, <1>2, <3>1, <3>2 DEF ExporterInv, Current
      <3>4. ASSUME NEW n \in Monitors, Settled(c, n)'
            PROVE  Done(c, n)'
        <4>1. Done(c, n)  BY <3>1, <3>4 DEF Settled, ExporterInv, Settlement
        <4> QED  BY <1>2, <3>1, <3>2, <4>1 DEF Done
      <3> QED  BY <3>3, <3>4 DEF Settlement
    <2>2. CASE p = "Service"
      <3>1. Stop(c)  BY <1>4, <2>2 DEF AfterPart
      <3>2. pc'[c] = "idle" /\ cur'[c] = None /\ queue' = queue  BY <1>1, <3>1, NextStep
      <3>3. Parts \subseteq Has'
        BY <1>1, <1>2, <1>4, <2>2 DEF ExporterInv, InOrder, Building, Parts
      <3>4. Current(c)'  BY <3>2 DEF Current
      <3>5. ASSUME NEW n \in Monitors, Settled(c, n)'
            PROVE  Done(c, n)'
        <4>1. KindOf[n] = c /\ (n = cur[c] => monCache[n] = "live")
          BY <1>1, <3>2, <3>5 DEF Settled, ExporterInv, Current
        <4>2. n # cur[c] => Done(c, n)
          BY <3>2, <3>5, <4>1 DEF Settled, ExporterInv, Settlement
        <4> QED  BY <1>2, <3>2, <3>3, <4>1, <4>2, Order DEF Done
      <3> QED  BY <3>4, <3>5 DEF Settlement
    <2>3. p # "Service" => Goto(c, "Deployment") \/ Goto(c, "Service")
      BY <1>4 DEF AfterPart, Parts
    <2> QED  BY <2>1, <2>2, <2>3
  <1> QED  BY <1>2, <1>3, <1>4

\* The lists hold every settled live monitor, and one that is not under deletion is
\* enough to keep the exporter (ShouldDeleteBlackBoxExporterResources).
LEMMA ListKeeps ==
    ASSUME NEW c \in MonitorKinds, ExporterInv,
           ListRouteMonitors(c) \/ ListClusterUrlMonitors(c)
    PROVE  Current(c)' /\ Settlement(c)'
  <1>1. /\ Typed /\ UNCHANGED <<mon, monCache, queue, cur, parts, crossed>>
        /\ pc[c] # "idle" /\ Due(pc[c]) = "deleting"
    BY DEF ListRouteMonitors, ListClusterUrlMonitors, ExporterInv, Due, Parts
  <1>2. ASSUME NEW l, pc'[c] = l, Due(l) = "deleting"
        PROVE  Current(c)'
    BY <1>1, <1>2 DEF ExporterInv, Current
  <1>3. ASSUME NEW n \in Monitors, Settled(c, n)'
        PROVE  Settled(c, n) /\ Done(c, n) /\ KindOf[n] = c
    BY <1>1, <1>3 DEF Settled, ExporterInv, Settlement
  <1>4. ASSUME NEW n \in Monitors, monCache[n] = "live", KindOf[n] = c
        PROVE  [name |-> n, deleting |-> FALSE] \in Listed(c)
    <2>1. n \in {m \in Monitors : KindOf[m] = c /\ monCache[m] # "none"}  BY <1>4
    <2>2. [name |-> n, deleting |-> monCache[n] = "deleting"] \in Listed(c)  BY <2>1 DEF Listed
    <2>3. (monCache[n] = "deleting") = FALSE  BY <1>4
    <2> QED  BY <2>2, <2>3
  <1>5. CASE ListRouteMonitors(c)
    <2>1. pc'[c] = "listClusterUrlMonitors" /\ listed'[c] = Listed("RouteMonitor")
      BY <1>1, <1>5 DEF ListRouteMonitors, Typed, TypeOK
    <2>2. Due("listClusterUrlMonitors") = "deleting"  BY DEF Due, Parts
    <2>3. ASSUME NEW n \in Monitors, Settled(c, n)'
          PROVE  Done(c, n)'
      <3>1. Done(c, n) /\ KindOf[n] = c  BY <1>3, <2>3
      <3>2. monCache[n] = "live" /\ c = "RouteMonitor" =>
              [name |-> n, deleting |-> FALSE] \in listed'[c]
        BY <1>4, <2>1, <3>1
      <3> QED  BY <1>1, <2>1, <3>1, <3>2, Order DEF Done, Has
    <2> QED  BY <1>2, <2>1, <2>2, <2>3 DEF Settlement
  <1>6. CASE ListClusterUrlMonitors(c)
    <2> DEFINE found == listed[c] \cup Listed("ClusterUrlMonitor")
    <2>1. pc'[c] = IF ShouldDelete(found) THEN "deleteService" ELSE "removeFinalizer"
      BY <1>1, <1>6 DEF ListClusterUrlMonitors, Typed, TypeOK
    <2>2. Due("deleteService") = "deleting" /\ Due("removeFinalizer") = "deleting"
      BY DEF Due, Parts
    <2>3. Current(c)'  BY <1>2, <2>1, <2>2
    <2>4. ASSUME NEW n \in Monitors, Settled(c, n)'
          PROVE  Done(c, n)'
      <3>1. Done(c, n) /\ KindOf[n] = c  BY <1>3, <2>4
      <3>2. ASSUME monCache[n] = "live"
            PROVE  pc'[c] = "removeFinalizer"
        <4>1. pc[c] = "listClusterUrlMonitors"  BY <1>6 DEF ListClusterUrlMonitors
        <4>2. [name |-> n, deleting |-> FALSE] \in found
          BY <1>4, <3>1, <3>2, <4>1 DEF Done, MonitorKinds
        <4>3. [name |-> n, deleting |-> FALSE].deleting = FALSE  OBVIOUS
        <4>4. ~ShouldDelete(found)  BY <4>2, <4>3, Zenon DEF ShouldDelete
        <4> HIDE DEF found
        <4> QED  BY <2>1, <4>4
      <3>3. pc'[c] # "listClusterUrlMonitors"  BY <2>1
      <3> HIDE DEF found
      <3> QED  BY <1>1, <3>1, <3>2, <3>3, Order DEF Done, Has
    <2> QED  BY <2>3, <2>4 DEF Settlement
  <1> QED  BY <1>5, <1>6

\* Nothing settled is live while the exporter is taken down.
LEMMA AbsentKeeps ==
    ASSUME NEW c \in MonitorKinds, ExporterInv, EnsurePartAbsent(c)
    PROVE  Current(c)' /\ Settlement(c)'
  <1>1. /\ Typed /\ pc[c] \in DOMAIN DeletionOrder /\ UNCHANGED <<mon, monCache>>
        /\ \/ UNCHANGED <<parts, crossed>> /\ Requeue(c)
           \/ Goto(c, DeletionOrder[pc[c]].next)
    BY DEF EnsurePartAbsent, ExporterInv
  <1>2. pc[c] # "idle" /\ Due(pc[c]) = "deleting"  BY <1>1, Order DEF Due, Parts
  <1>3. CASE UNCHANGED <<parts, crossed>> /\ Requeue(c)
    BY <1>1, <1>2, <1>3, RequeueKeeps DEF Has
  <1>4. CASE Goto(c, DeletionOrder[pc[c]].next)
    <2>1. pc'[c] = DeletionOrder[pc[c]].next /\ UNCHANGED <<cur, queue>>
      BY <1>1, <1>4, NextStep
    <2>2. pc'[c] \in {"deleteDeployment", "deleteConfigMap", "removeFinalizer"}
      BY <1>1, <2>1, Order
    <2>3. Due(pc'[c]) = "deleting"  BY <2>2 DEF Due, Parts
    <2>4. Current(c)'  BY <1>1, <1>2, <2>1, <2>3 DEF ExporterInv, Current, Due
    <2>5. ASSUME NEW n \in Monitors, Settled(c, n)'
          PROVE  Done(c, n)'
      <3>1. Done(c, n)  BY <2>1, <2>5 DEF Settled, ExporterInv, Settlement
      <3>2. monCache[n] # "live"  BY <1>1, <3>1 DEF Done
      <3> QED  BY <1>1, <3>1, <3>2 DEF Done
    <2> QED  BY <2>4, <2>5 DEF Settlement
  <1> QED  BY <1>1, <1>3, <1>4

\* A change of the cache makes the monitor due; users change what is not yet cached.
LEMMA OthersKeep ==
    ASSUME NEW c \in MonitorKinds, ExporterInv,
           \/ \E m \in Monitors : SyncMonitor(m) \/ CreateMonitor(m) \/ DeleteMonitor(m)
           \/ CallFails(c) \/ Restart
    PROVE  Current(c)' /\ Settlement(c)'
  <1>1. Typed  BY DEF ExporterInv
  <1>2. CASE CallFails(c)  BY <1>2, RequeueKeeps DEF CallFails, Has
  <1>3. CASE Restart
    <2>1. /\ pc'[c] = "idle" /\ monCache' = mon /\ mon' = mon
          /\ queue' = {m \in Monitors : mon[m] # "none"}
      BY <1>3 DEF Restart
    <2>2. Current(c)'  BY <2>1 DEF Current
    <2>3. ASSUME NEW n \in Monitors, Settled(c, n)'
          PROVE  Done(c, n)'
      <3>1. monCache'[n] = "none"  BY <2>1, <2>3 DEF Settled
      <3> QED  BY <3>1 DEF Done
    <2> QED  BY <2>2, <2>3 DEF Settlement
  <1>4. ASSUME NEW m \in Monitors, SyncMonitor(m)
        PROVE  Current(c)' /\ Settlement(c)'
    <2>1. /\ monCache' = [monCache EXCEPT ![m] = mon[m]] /\ queue' = queue \cup {m}
          /\ UNCHANGED <<mon, pc, cur, listed, parts, crossed>>
      BY <1>4 DEF SyncMonitor, workers
    <2>2. \A n \in Monitors : n # m => monCache'[n] = monCache[n]
      BY <1>1, <2>1 DEF Typed, TypeOK
    <2>3. Current(c)'
      BY <1>1, <2>1, <2>2 DEF ExporterInv, Current, Typed, HasMonitor
    <2>4. ASSUME NEW n \in Monitors, Settled(c, n)'
          PROVE  Done(c, n)'
      <3>1. n # m /\ Done(c, n)  BY <2>1, <2>4 DEF Settled, ExporterInv, Settlement
      <3> QED  BY <2>1, <2>2, <3>1 DEF Done, Has
    <2> QED  BY <2>3, <2>4 DEF Settlement
  <1>5. ASSUME NEW m \in Monitors, CreateMonitor(m) \/ DeleteMonitor(m)
        PROVE  Current(c)' /\ Settlement(c)'
    <2>1. UNCHANGED <<monCache, queue, pc, cur, listed, parts, crossed>>
      BY <1>5 DEF CreateMonitor, DeleteMonitor, workers
    <2>2. \A n \in Monitors :
             \/ mon'[n] = mon[n]
             \/ mon[n] = "none" /\ mon'[n] = "new"
             \/ mon[n] = "new" /\ mon'[n] = "none"
             \/ mon[n] = "live" /\ mon'[n] = "deleting"
      BY <1>1, <1>5 DEF CreateMonitor, DeleteMonitor, Typed, TypeOK
    <2>3. Current(c)'  BY <2>1 DEF ExporterInv, Current
    <2>4. ASSUME NEW n \in Monitors, Settled(c, n)'
          PROVE  Done(c, n)'
      <3>1. Done(c, n)  BY <2>1, <2>4 DEF Settled, ExporterInv, Settlement
      <3> QED  BY <2>1, <2>2, <3>1 DEF Done, Has
    <2> QED  BY <2>3, <2>4 DEF Settlement
  <1> QED  BY <1>2, <1>3, <1>4, <1>5

\* What the other worker does to the exporter of a live monitor is accounted for.
LEMMA OtherWorkerKeeps ==
    ASSUME NEW c \in MonitorKinds, NEW k \in MonitorKinds, c # k, ExporterInv,
           Reconcile(k) \/ CallFails(k)
    PROVE  Current(c)' /\ Settlement(c)'
  <1>1. Typed /\ Lives  BY DEF ExporterInv
  <1>2. /\ pc'[c] = pc[c] /\ cur'[c] = cur[c] /\ listed'[c] = listed[c] /\ UNCHANGED monCache
        /\ \A m \in Monitors : KindOf[m] = c => mon'[m] = mon[m] /\ (m \in queue' <=> m \in queue)
    BY <1>1, OwnKind
  <1>3. Current(c)'
    <2>1. pc[c] # "idle" => cur[c] \in Monitors /\ KindOf[cur[c]] = c
      BY <1>1 DEF Typed, HasMonitor
    <2> QED  BY <1>2, <2>1 DEF ExporterInv, Current
  <1>4. ASSUME NEW m \in Monitors, Settled(c, m)'
        PROVE  Done(c, m)'
    <2>1. KindOf[m] = c /\ Done(c, m)  BY <1>2, <1>4 DEF Settled, ExporterInv, Settlement
    <2>2. ASSUME monCache[m] = "live" PROVE Has \subseteq Has'
      <3>1. OthersServed(k)
        <4>1. mon[m] \in {"live", "deleting"}  BY <1>1, <2>2 DEF Lives, Vouched
        <4> QED  BY <2>1, <4>1 DEF OthersServed
      <3> QED  BY <1>1, <3>1, PartSteps DEF PutUp, TakenDown, Has
    <2> QED  BY <1>2, <2>1, <2>2 DEF Done
  <1> QED  BY <1>3, <1>4 DEF Settlement

\* Every step keeps the invariant.
LEMMA ExporterKept ==
    ASSUME ExporterInv, [Next]_vars
    PROVE  ExporterInv'
  <1>1. Typed /\ Lives /\ InOrder  BY DEF ExporterInv
  <1>2. Typed' /\ Lives' /\ InOrder'  BY <1>1, TypesKept, LivesKept, InOrderKept
  <1>3. ASSUME NEW c \in MonitorKinds PROVE Current(c)' /\ Settlement(c)'
    <2>1. ASSUME UNCHANGED <<mon, monCache, queue, workers, parts, crossed>>
          PROVE  Current(c)' /\ Settlement(c)'
      BY <2>1 DEF workers, ExporterInv, Current, Settlement, Settled, Done, Has
    <2>2. CASE UNCHANGED vars  BY <2>1, <2>2 DEF vars, workers
    <2>3. ASSUME NEW k \in MonitorKinds, Reconcile(k) \/ CallFails(k)
          PROVE  Current(c)' /\ Settlement(c)'
      <3>1. CASE k # c  BY <2>3, <3>1, OtherWorkerKeeps
      <3>2. CASE k = c
        BY <2>3, <3>2, StartKeeps, FinalizerKeeps, ExistsKeeps, ListKeeps, AbsentKeeps, OthersKeep
           DEF Reconcile
      <3> QED  BY <3>1, <3>2
    <2>4. ASSUME NEW p \in Parts, SyncPart(p)
          PROVE  Current(c)' /\ Settlement(c)'
      BY <2>1, <2>4 DEF SyncPart
    <2> QED  BY <2>2, <2>3, <2>4, OthersKeep DEF Next
  <1> QED  BY <1>2, <1>3 DEF ExporterInv

\* When everything is quiet and some monitor is in place, whatever the exporter lacks
\* ("The operator is making sure that there is one deployment + service of the blackbox
\* exporter") was taken for present on a stale copy, or taken down by one controller
\* from under a monitor of the other: for any monitors of either kind that come and go
\* while others are being removed, lagging caches, failed calls and restarts.
THEOREM ExporterServes == Spec => []OnlyCrossedPartsMissing
  <1>1. Init => ExporterInv
    <2> SUFFICES ASSUME Init PROVE ExporterInv  OBVIOUS
    <2>1. Lives  BY PartOrder DEF Init, Lives, Vouched, AtWork
    <2>2. InOrder  BY DEF Init, InOrder, Building, OnlyCrossedServiceEmpty
    <2>3. \A c \in MonitorKinds : Current(c) /\ Settlement(c)
      BY DEF Init, Current, Settlement, Done
    <2> QED  BY <2>1, <2>2, <2>3, InitTypes DEF ExporterInv
  <1>2. ExporterInv /\ [Next]_vars => ExporterInv'  BY ExporterKept
  <1>3. ExporterInv => OnlyCrossedPartsMissing
    <2> SUFFICES ASSUME ExporterInv, Quiet, NEW m \in Monitors, mon[m] # "none"
                 PROVE  Parts \ parts \subseteq crossed
      BY DEF OnlyCrossedPartsMissing
    <2>1. PICK c \in MonitorKinds : c = KindOf[m]  BY ExporterAssumption
    <2>2. pc[c] = "idle" /\ queue = {} /\ monCache = mon  BY DEF Quiet
    <2>3. cur[c] = None  BY <2>2 DEF ExporterInv, Typed, HasMonitor
    <2>4. Done(c, m)
      BY <2>1, <2>2, <2>3, ExporterAssumption DEF ExporterInv, Settlement, Settled
    <2>5. mon[m] \in {"new", "live", "deleting"}  BY DEF ExporterInv, Typed, TypeOK, States
    <2> QED  BY <2>2, <2>4, <2>5 DEF Done, Has
  <1> QED  BY <1>1, <1>2, <1>3, PTL DEF Spec
=============================================================================
