------------------------- MODULE RouteMonitorProofs -------------------------
(***************************************************************************)
(* Proofs about RouteMonitor, for every set of specs and Routes and every  *)
(* bound: type correctness, DeployUnderFinalizer and KeepsUserIntent.      *)
(***************************************************************************)
EXTENDS RouteMonitor, TLAPS

\* The states of everything that a write of the monitor leaves alone.
others == <<rmCache, sm, smCache, smEvents, pr, prCache, route, edits, faults>>

\* A write of a well-typed monitor (UpdateMonitorResource) keeps the types and
\* ends the reconcile.
LEMMA UpdateTypes ==
    ASSUME TypeOK, NEW new \in Monitor, UpdateMonitorResource(new), UNCHANGED others,
           misread' \in BOOLEAN
    PROVE  TypeOK'
  <1>1. obj' \in Monitor \cup {NoObj} /\ rev' \in Nat
    BY DEF TypeOK, UpdateMonitorResource, Store, Monitor
  <1>2. pc' = "idle" /\ rm' = NoObj /\ queued' \in BOOLEAN
    BY DEF TypeOK, UpdateMonitorResource, Stop, Requeue
  <1> QED  BY <1>1, <1>2 DEF TypeOK, others

\* The URL built from a usable Route (EnsureRouteURLExists) is one.
LEMMA ExtractedURL ==
    ASSUME TypeOK, NEW spec \in Specs, RouteUsable(spec)
    PROVE  ExtractedRouteURL(spec) \in URL
  <1>1. spec \in RouteMonitorSpec  BY RouteMonitorAssumption
  <1>2. route \in Route  BY DEF TypeOK, RouteUsable
  <1>3. route.hosts \in Seq(STRING) /\ Len(route.hosts) > 0  BY <1>2 DEF Route, RouteUsable
  <1>4. \A q \in Seq(STRING) : Len(q) > 0 => q[1] \in STRING  OBVIOUS
  <1>5. route.hosts[1] \in STRING  BY <1>3, <1>4
  <1> QED  BY <1>1, <1>2, <1>5 DEF ExtractedRouteURL, URL, RouteMonitorSpec, Route

\* What the SLO parser returns (ParseMonitorSLOSpecs).
LEMMA ParsedTypes ==
    ASSUME NEW m \in Monitor
    PROVE  Parsed(m).slo \in Int /\ Parsed(m).err \in MonitorErrors
  <1>1. m.spec \in RouteMonitorSpec  BY RouteMonitorAssumption DEF Monitor
  <1>2. m.spec.slo # NoSlo => m.spec.slo.pct \in Int
    BY <1>1 DEF RouteMonitorSpec, SloSpec
  <1> QED
    BY <1>2 DEF Parsed, ParseMonitorSLOSpecs, NoParsedSlo, MonitorErrors

\* The status and finalizer changes of the reconcile keep a monitor a monitor.
LEMMA MonitorFields ==
    ASSUME NEW m \in Monitor
    PROVE  /\ \A u \in URL : [m EXCEPT !.routeURL = u] \in Monitor
           /\ \A r \in {NoRef, Ref} : [m EXCEPT !.smRef = r] \in Monitor
           /\ \A r \in {NoRef, Ref} : [m EXCEPT !.prRef = r] \in Monitor
           /\ \A e \in MonitorErrors : [m EXCEPT !.err = e] \in Monitor
           /\ \A key \in FinalizerKeys : /\ SetFinalizer(m, key).obj \in Monitor
                                         /\ DeleteFinalizer(m, key).obj \in Monitor
           /\ \A n \in Nat, s \in Specs : [m EXCEPT !.spec = s, !.rv = n] \in Monitor
           /\ \A n \in Nat : [m EXCEPT !.deleting = TRUE, !.rv = n] \in Monitor
  BY DEF Monitor, SetFinalizer, DeleteFinalizer

\* The references that SetResourceReference writes.
LEMMA RefTypes ==
    ASSUME NEW m \in Monitor
    PROVE  \A ref \in {NoRef, Ref} : /\ SetResourceReference(m.smRef, ref).ref \in {NoRef, Ref}
                                     /\ SetResourceReference(m.prRef, ref).ref \in {NoRef, Ref}
  BY DEF SetResourceReference, Monitor

\* Both keys are among the finalizers of the model.
LEMMA KeyTypes == FinalizerKey \in FinalizerKeys /\ PrevFinalizerKey \in FinalizerKeys
  BY DEF FinalizerKeys

----------------------------------------------------------------------------
(* Type correctness.                                                       *)

\* The reconcile's steps keep the types.
LEMMA ReconcileTypes ==
    ASSUME TypeOK, HasCopy, Reconcile
    PROVE  TypeOK'
  <1> misread' \in BOOLEAN
    BY DEF TypeOK, Reconcile, GetRouteMonitor, EnsureFinalizerSet, EnsureRouteURLExists,
           EnsureServiceMonitorExists, SetServiceMonitorRef, EnsurePrometheusRuleExists,
           SetPrometheusRuleRef, DeleteServiceMonitorDeployment, DeletePrometheusRuleDeployment,
           RemoveFinalizer
  <1>1. CASE GetRouteMonitor
    BY <1>1 DEF GetRouteMonitor, FirstStep, TypeOK, serviceMonitors, budget, Deploying, Removing
  <1>2. CASE EnsureFinalizerSet
    <2>1. rm \in Monitor  BY <1>2 DEF HasCopy, TypeOK, EnsureFinalizerSet
    <2>2. DeleteFinalizer(SetFinalizer(rm, FinalizerKey).obj, PrevFinalizerKey).obj \in Monitor
      BY <2>1, MonitorFields, KeyTypes
    <2> QED  BY <1>2, <2>2, UpdateTypes DEF EnsureFinalizerSet, others, serviceMonitors, budget
  <1>3. CASE EnsureRouteURLExists
    <2>1. rm \in Monitor /\ rm.spec \in Specs  BY <1>3 DEF HasCopy, TypeOK, EnsureRouteURLExists, Monitor
    <2>2. CASE ~RouteUsable(rm.spec) \/ rm.routeURL = ExtractedRouteURL(rm.spec)
      BY <1>3, <2>2 DEF EnsureRouteURLExists, TypeOK, Requeue, Goto, serviceMonitors, budget, Deploying
    <2>3. CASE RouteUsable(rm.spec) /\ rm.routeURL # ExtractedRouteURL(rm.spec)
      <3>1. [rm EXCEPT !.routeURL = ExtractedRouteURL(rm.spec)] \in Monitor
        BY <2>1, <2>3, ExtractedURL, MonitorFields
      <3> QED  BY <1>3, <2>3, <3>1, UpdateTypes
               DEF EnsureRouteURLExists, others, serviceMonitors, budget
    <2> QED  BY <2>2, <2>3
  <1>4. CASE EnsureServiceMonitorExists
    <2>1. rm \in Monitor  BY <1>4 DEF HasCopy, TypeOK, EnsureServiceMonitorExists
    <2>2. Kind(rm.spec) \in Kinds  BY DEF Kind, Kinds
    <2>3. /\ ServiceMonitorTemplate(rm) \in [url : URL \cup {NoURL}, insecure : BOOLEAN]
          /\ rm.uid \in Nat
      <3>1. rm.spec \in RouteMonitorSpec  BY <2>1, RouteMonitorAssumption DEF Monitor
      <3> QED  BY <2>1, <3>1 DEF ServiceMonitorTemplate, Monitor, RouteMonitorSpec
    <2>4. \A new \in ServiceMonitor : WriteServiceMonitor(Kind(rm.spec), new) =>
              /\ sm' \in [Kinds -> ServiceMonitor \cup {NoObj}]
              /\ smEvents' \in SUBSET Kinds
      BY <2>2 DEF WriteServiceMonitor, TypeOK
    <2>5. [rv |-> rev + 1, owner |-> rm.uid, spec |-> ServiceMonitorTemplate(rm)] \in ServiceMonitor
      BY <2>3 DEF ServiceMonitor, TypeOK
    <2>6. smCache[Kind(rm.spec)] # NoObj =>
            [smCache[Kind(rm.spec)] EXCEPT !.rv = rev + 1, !.spec = ServiceMonitorTemplate(rm)]
                \in ServiceMonitor
      <3>1. smCache[Kind(rm.spec)] \in ServiceMonitor \cup {NoObj}  BY <2>2 DEF TypeOK
      <3>2. rev + 1 \in Nat  BY DEF TypeOK
      <3> QED  BY <2>3, <3>1, <3>2 DEF ServiceMonitor
    <2>7. /\ sm' \in [Kinds -> ServiceMonitor \cup {NoObj}]
          /\ smEvents' \in SUBSET Kinds
          /\ rev' \in Nat
      BY <1>4, <2>4, <2>5, <2>6 DEF EnsureServiceMonitorExists, TypeOK
    <2>8. pc' \in {"idle", "smRef", "prometheusRule"} /\ rm' \in {rm, NoObj} /\ queued' \in BOOLEAN
      BY <1>4 DEF EnsureServiceMonitorExists, AfterServiceMonitor, Goto, Requeue, TypeOK
    <2> QED  BY <1>4, <2>7, <2>8 DEF EnsureServiceMonitorExists, TypeOK, budget, Deploying
  <1>5. CASE SetServiceMonitorRef
    <2>1. rm \in Monitor  BY <1>5 DEF HasCopy, TypeOK, SetServiceMonitorRef
    <2>2. [rm EXCEPT !.smRef = SetResourceReference(@, Ref).ref] \in Monitor
      BY <2>1, RefTypes, MonitorFields
    <2> QED  BY <1>5, <2>2, UpdateTypes DEF SetServiceMonitorRef, others, serviceMonitors, budget
  <1>6. CASE EnsurePrometheusRuleExists
    <2>1. rm \in Monitor  BY <1>6 DEF HasCopy, TypeOK, EnsurePrometheusRuleExists
    <2> DEFINE error == SetErrorStatus(rm.err, Parsed(rm).err)
    <2>2. [rm EXCEPT !.err = error.status] \in Monitor
      <3>1. error.status \in MonitorErrors  BY <2>1, ParsedTypes DEF SetErrorStatus, Monitor
      <3> QED  BY <2>1, <3>1, MonitorFields
    <2>3. CASE ~rm.spec.skip /\ UpdateMonitorResource([rm EXCEPT !.err = error.status])
               /\ UNCHANGED <<pr, prCache>>
      BY <1>6, <2>2, <2>3, UpdateTypes
      DEF EnsurePrometheusRuleExists, others, serviceMonitors, budget
    <2>4. CASE DeletePrometheusRule("prRef") /\ UNCHANGED <<obj, rev>>
      BY <1>6, <2>4 DEF EnsurePrometheusRuleExists, DeletePrometheusRule, WriteRule, Goto, Requeue,
                        TypeOK, serviceMonitors, budget, Deploying
    <2>5. CASE UpdatePrometheusRuleDeployment /\ UNCHANGED obj
      <3>1. [rv |-> rev + 1, spec |-> RuleTemplate(rm)] \in PrometheusRule
        BY <2>1, ParsedTypes DEF RuleTemplate, PrometheusRule, Monitor, TypeOK
      <3>2. /\ pr' \in PrometheusRule \cup {NoObj}
            /\ prCache' \in PrometheusRule \cup {NoObj}
            /\ rev' \in Nat
        BY <2>5, <3>1 DEF UpdatePrometheusRuleDeployment, WriteRule, TypeOK
      <3>3. pc' \in {"idle", "prRef"} /\ rm' \in {rm, NoObj} /\ queued' \in BOOLEAN
        BY <2>5 DEF UpdatePrometheusRuleDeployment, Goto, Stop, Requeue, TypeOK
      <3> QED  BY <1>6, <2>5, <3>2, <3>3
               DEF EnsurePrometheusRuleExists, TypeOK, serviceMonitors, budget, Deploying
    <2> QED  BY <1>6, <2>3, <2>4, <2>5 DEF EnsurePrometheusRuleExists
  <1>7. CASE SetPrometheusRuleRef
    <2>1. rm \in Monitor  BY <1>7 DEF HasCopy, TypeOK, SetPrometheusRuleRef
    <2>2. \A ref \in {NoRef, Ref} :
            [rm EXCEPT !.prRef = SetResourceReference(@, ref).ref] \in Monitor
      BY <2>1, RefTypes, MonitorFields
    <2> QED  BY <1>7, <2>2, UpdateTypes DEF SetPrometheusRuleRef, others, serviceMonitors, budget
  <1>8. CASE DeleteServiceMonitorDeployment
    BY <1>8 DEF DeleteServiceMonitorDeployment, WriteServiceMonitor, Goto, Requeue, Kinds,
                TypeOK, budget, Removing
  <1>9. CASE DeletePrometheusRuleDeployment
    BY <1>9 DEF DeletePrometheusRuleDeployment, DeletePrometheusRule, WriteRule, Goto, Requeue,
                TypeOK, serviceMonitors, budget, Removing
  <1>10. CASE RemoveFinalizer
    <2>1. rm \in Monitor  BY <1>10 DEF HasCopy, TypeOK, RemoveFinalizer
    <2>2. DeleteFinalizer(DeleteFinalizer(rm, FinalizerKey).obj, PrevFinalizerKey).obj \in Monitor
      BY <2>1, MonitorFields, KeyTypes
    <2>3. CASE Stop /\ UNCHANGED <<obj, rev>>
      BY <1>10, <2>3 DEF RemoveFinalizer, Stop, TypeOK, serviceMonitors, budget
    <2> QED  BY <1>10, <2>2, <2>3, UpdateTypes DEF RemoveFinalizer, others, serviceMonitors, budget
  <1> QED
    BY <1>1, <1>2, <1>3, <1>4, <1>5, <1>6, <1>7, <1>8, <1>9, <1>10 DEF Reconcile

\* The informers, the garbage collector, faults and users keep the types.
LEMMA EnvironmentTypes ==
    ASSUME TypeOK, Next, ~Reconcile
    PROVE  TypeOK'
  <1> USE DEF TypeOK, serviceMonitors, budget
  <1>1. CASE SyncMonitor  BY <1>1 DEF SyncMonitor
  <1>2. CASE SyncPrometheusRule  BY <1>2 DEF SyncPrometheusRule
  <1>3. ASSUME NEW k \in Kinds, SyncServiceMonitor(k) PROVE TypeOK'
    BY <1>3 DEF SyncServiceMonitor
  <1>4. ASSUME NEW k \in Kinds, GarbageCollect(k) PROVE TypeOK'
    BY <1>4 DEF GarbageCollect, WriteServiceMonitor
  <1>5. CASE CallFails  BY <1>5, RouteMonitorAssumption DEF CallFails, Fault, Requeue
  <1>6. CASE Restart  BY <1>6, RouteMonitorAssumption DEF Restart, Fault
  <1>7. CASE Resync  BY <1>7, RouteMonitorAssumption DEF Resync, Fault
  <1>8. CASE CreateMonitor
    <2>1. PICK s \in Specs, f \in InitialFinalizers :
            obj' = [uid |-> rev + 1, rv |-> rev + 1, deleting |-> FALSE, fin |-> f, spec |-> s,
                    routeURL |-> NoURL, smRef |-> NoRef, prRef |-> NoRef, err |-> NoErr]
      BY <1>8 DEF CreateMonitor
    <2>2. f \in SUBSET FinalizerKeys /\ NoErr \in MonitorErrors
      BY RouteMonitorAssumption DEF FinalizerKeys, MonitorErrors
    <2>3. obj' \in Monitor  BY <2>1, <2>2 DEF Monitor
    <2> QED  BY <1>8, <2>3, RouteMonitorAssumption DEF CreateMonitor, Edit
  <1>9. CASE EditSpec
    <2>1. obj \in Monitor /\ rev + 1 \in Nat  BY <1>9 DEF EditSpec
    <2>2. PICK s \in Specs : obj' = [obj EXCEPT !.spec = s, !.rv = rev + 1]
      BY <1>9 DEF EditSpec
    <2>3. obj' \in Monitor  BY <2>1, <2>2, MonitorFields
    <2> QED  BY <1>9, <2>3, RouteMonitorAssumption DEF EditSpec, Edit
  <1>10. CASE DeleteMonitor
    <2>1. obj \in Monitor /\ rev + 1 \in Nat  BY <1>10 DEF DeleteMonitor
    <2>2. [obj EXCEPT !.deleting = TRUE, !.rv = rev + 1] \in Monitor  BY <2>1, MonitorFields
    <2>3. obj' \in Monitor \cup {NoObj} /\ rev' \in Nat  BY <1>10, <2>1, <2>2 DEF DeleteMonitor
    <2> QED  BY <1>10, <2>3, RouteMonitorAssumption DEF DeleteMonitor, Edit
  <1>11. ASSUME NEW k \in Meddled, DeleteServiceMonitor(k) PROVE TypeOK'
    BY <1>11, RouteMonitorAssumption DEF DeleteServiceMonitor, WriteServiceMonitor, Edit
  <1>12. CASE ChangeRoute  BY <1>12, RouteMonitorAssumption DEF ChangeRoute, Edit
  <1> QED
    BY <1>1, <1>2, <1>3, <1>4, <1>5, <1>6, <1>7, <1>8, <1>9, <1>10, <1>11, <1>12 DEF Next, Users

\* A step leaves the reconcile idle or with a copy of the monitor.
LEMMA CopyKept ==
    ASSUME TypeOK, HasCopy, [Next]_vars
    PROVE  HasCopy'
  <1>1. CASE GetRouteMonitor  BY <1>1 DEF HasCopy, GetRouteMonitor
  <1>2. CASE UNCHANGED <<pc, rm>>  BY <1>2 DEF HasCopy
  <1>3. CASE pc' = "idle"  BY <1>3 DEF HasCopy
  <1>4. CASE pc # "idle" /\ UNCHANGED rm  BY <1>4 DEF HasCopy
  <1>5. GetRouteMonitor \/ UNCHANGED <<pc, rm>> \/ pc' = "idle" \/ (pc # "idle" /\ UNCHANGED rm)
    <2>1. CASE Reconcile
      BY <2>1 DEF Reconcile, EnsureFinalizerSet, EnsureRouteURLExists, EnsureServiceMonitorExists,
                  AfterServiceMonitor, SetServiceMonitorRef, EnsurePrometheusRuleExists,
                  DeletePrometheusRule, UpdatePrometheusRuleDeployment, SetPrometheusRuleRef,
                  DeleteServiceMonitorDeployment, DeletePrometheusRuleDeployment, RemoveFinalizer,
                  UpdateMonitorResource, Goto, Stop, Requeue
    <2>2. CASE CallFails \/ Restart  BY <2>2 DEF CallFails, Restart, Requeue
    <2>3. CASE SyncMonitor \/ SyncPrometheusRule \/ Resync \/ Users
               \/ \E k \in Kinds : SyncServiceMonitor(k) \/ GarbageCollect(k)
      BY <2>3 DEF SyncMonitor, SyncPrometheusRule, Resync, Users, SyncServiceMonitor, GarbageCollect,
                  CreateMonitor, EditSpec, DeleteMonitor, DeleteServiceMonitor, ChangeRoute
    <2>4. CASE UNCHANGED vars  BY <2>4 DEF vars
    <2> QED  BY <2>1, <2>2, <2>3, <2>4 DEF Next
  <1> QED  BY <1>1, <1>2, <1>3, <1>4, <1>5

\* The initial state is well typed.
LEMMA InitTypes ==
    ASSUME Init
    PROVE  TypeOK /\ HasCopy
  <1>1. sm \in [Kinds -> ServiceMonitor \cup {NoObj}] /\ smCache = sm  BY DEF Init
  <1>2. edits \in 0..MaxEdits /\ faults \in 0..MaxFaults /\ rev \in Nat
    BY RouteMonitorAssumption DEF Init
  <1>3. route \in Route \cup {NoObj}  BY RouteMonitorAssumption DEF Init
  <1> QED  BY <1>1, <1>2, <1>3 DEF Init, TypeOK, HasCopy

\* Every step keeps the types.
LEMMA TypesKept ==
    ASSUME TypeOK, HasCopy, [Next]_vars
    PROVE  TypeOK' /\ HasCopy'
  <1>1. CASE Reconcile  BY <1>1, ReconcileTypes, CopyKept
  <1>2. CASE Next /\ ~Reconcile  BY <1>2, EnvironmentTypes, CopyKept
  <1>3. CASE UNCHANGED vars  BY <1>3, CopyKept DEF vars, TypeOK
  <1> QED  BY <1>1, <1>2, <1>3

\* Every state has the declared types: each write of the controller stores a
\* well-formed monitor, ServiceMonitor or PrometheusRule.
THEOREM TypeCorrect == Spec => []TypeOK
  <1>1. Init => TypeOK /\ HasCopy  BY InitTypes
  <1>2. TypeOK /\ HasCopy /\ [Next]_vars => TypeOK' /\ HasCopy'  BY TypesKept
  <1> QED  BY <1>1, <1>2, PTL DEF Spec

----------------------------------------------------------------------------
(* The inductive invariant.  NonType is what IndInv adds to the types.     *)

NonType ==
    /\ obj # NoObj => obj.rv <= rev
    /\ CopyOf(rmCache)
    /\ CopyOf(rm)
    /\ CacheVouches
    /\ RemovingCopy
    /\ DeployUnderFinalizer

\* A fresh copy is the stored monitor.
LEMMA FreshIsStored ==
    ASSUME IndInv, Fresh(obj, rm), pc # "idle"
    PROVE  rm = obj /\ obj \in Monitor
  BY DEF IndInv, HasCopy, CopyOf, Fresh, TypeOK

\* A status or finalizer write that keeps FinalizerKey keeps the invariant: it
\* takes effect only when the copy is the stored monitor.
LEMMA UpdateKeeps ==
    ASSUME IndInv, TypeOK', pc # "idle", NEW new \in Monitor,
           UpdateMonitorResource(new), UNCHANGED rmCache,
           new.uid = rm.uid, FinalizerKey \in new.fin
    PROVE  NonType'
  <1>1. pc' = "idle" /\ rm' = NoObj
    BY DEF UpdateMonitorResource, Stop, Requeue
  <1>2. CASE ~Fresh(obj, rm)
    <2>1. UNCHANGED <<obj, rev>>  BY <1>2 DEF UpdateMonitorResource
    <2> QED  BY <1>1, <2>1 DEF IndInv, NonType, CopyOf, CacheVouches, RemovingCopy,
                               DeployUnderFinalizer, Removing, Deploying
  <1>3. CASE Fresh(obj, rm)
    <2>1. rm = obj /\ obj \in Monitor  BY <1>3, FreshIsStored
    <2>2. new.fin # {}  OBVIOUS
    <2>3. CASE UNCHANGED <<obj, rev>>
      BY <1>1, <2>3 DEF IndInv, NonType, CopyOf, CacheVouches, RemovingCopy,
                        DeployUnderFinalizer, Removing, Deploying
    <2>4. CASE obj' = [new EXCEPT !.rv = rev + 1] /\ rev' = rev + 1
      <3>1. obj' \in Monitor /\ obj'.rv = rev + 1 /\ obj'.uid = new.uid /\ obj'.fin = new.fin
        BY <2>4 DEF Monitor, IndInv, TypeOK
      <3>2. obj' # NoObj  BY <3>1, RouteMonitorAssumption
      <3>3. rev \in Nat /\ (rmCache # NoObj => rmCache.rv \in Nat /\ rmCache.rv <= rev)
        BY DEF IndInv, TypeOK, CopyOf, Monitor
      <3>4. CopyOf(rmCache)'  BY <2>4, <3>1, <3>3 DEF CopyOf
      <3>5. CacheVouches'  BY <2>1, <3>1, <3>2 DEF CacheVouches, IndInv
      <3> QED  BY <1>1, <2>4, <3>1, <3>3, <3>4, <3>5
               DEF NonType, CopyOf, RemovingCopy, DeployUnderFinalizer, Removing, Deploying
    <2> QED  BY <1>3, <2>2, <2>3, <2>4 DEF UpdateMonitorResource, Store
  <1> QED  BY <1>2, <1>3

\* Removing the finalizer keeps the invariant: the cache knows of the deletion.
LEMMA RemoveKeeps ==
    ASSUME IndInv, TypeOK', RemoveFinalizer
    PROVE  NonType'
  <1>1. pc' = "idle" /\ rm' = NoObj /\ rmCache' = rmCache
    BY DEF RemoveFinalizer, UpdateMonitorResource, Stop, Requeue
  <1>2. CASE UNCHANGED <<obj, rev>>
    BY <1>1, <1>2 DEF IndInv, NonType, CopyOf, CacheVouches, RemovingCopy,
                      DeployUnderFinalizer, Removing, Deploying
  <1>3. CASE ~UNCHANGED <<obj, rev>>
    <2>1. Fresh(obj, rm)  BY <1>3 DEF RemoveFinalizer, UpdateMonitorResource
    <2>2. rm = obj /\ obj \in Monitor
      BY <2>1, FreshIsStored DEF RemoveFinalizer
    <2>3. rmCache # NoObj => rmCache.deleting
      <3>1. rm.deleting /\ (rmCache # NoObj => rm.rv <= rmCache.rv)
        BY DEF IndInv, RemovingCopy, RemoveFinalizer, Removing
      <3>2. rmCache # NoObj => rmCache.rv <= obj.rv /\ (rmCache.rv = obj.rv => rmCache = obj)
        BY <2>1 DEF IndInv, CopyOf, Fresh
      <3>3. rmCache # NoObj => rmCache.rv \in Nat /\ obj.rv \in Nat
        BY <2>2 DEF IndInv, TypeOK, Monitor
      <3> QED  BY <2>2, <3>1, <3>2, <3>3
    <2>4. CacheVouches'  BY <1>1, <2>3 DEF CacheVouches
    <2>5. rev \in Nat /\ (rmCache # NoObj => rmCache.rv \in Nat /\ rmCache.rv <= rev)
      BY DEF IndInv, TypeOK, CopyOf, Monitor
    <2>6. \/ obj' = NoObj /\ rev' = rev
          \/ obj' # NoObj /\ obj'.rv = rev + 1 /\ rev' = rev + 1
      <3> DEFINE new == DeleteFinalizer(DeleteFinalizer(rm, FinalizerKey).obj, PrevFinalizerKey).obj
      <3>1. new \in Monitor  BY <2>2, MonitorFields, KeyTypes
      <3>2. [new EXCEPT !.rv = rev + 1].rv = rev + 1  BY <3>1 DEF Monitor
      <3>3. obj' # NoObj => obj' = [new EXCEPT !.rv = rev + 1] /\ rev' = rev + 1
        BY <1>3 DEF RemoveFinalizer, UpdateMonitorResource, Store
      <3>4. obj' = NoObj => rev' = rev
        <4>1. [new EXCEPT !.rv = rev + 1] \in Monitor  BY <2>5, <3>1 DEF Monitor
        <4> QED  BY <1>3, <4>1, RouteMonitorAssumption
                 DEF RemoveFinalizer, UpdateMonitorResource, Store
      <3> QED  BY <3>2, <3>3, <3>4
    <2> QED  BY <1>1, <2>4, <2>5, <2>6
             DEF NonType, CopyOf, RemovingCopy, DeployUnderFinalizer, Removing, Deploying
  <1> QED  BY <1>2, <1>3

\* The four steps that write the monitor's status or set the finalizer.
LEMMA WritesKeep ==
    ASSUME IndInv, TypeOK',
           \/ EnsureFinalizerSet \/ SetServiceMonitorRef \/ SetPrometheusRuleRef
           \/ EnsureRouteURLExists \/ EnsurePrometheusRuleExists
    PROVE  NonType'
  <1>1. rm \in Monitor /\ pc # "idle"
    BY DEF IndInv, HasCopy, TypeOK, EnsureFinalizerSet, SetServiceMonitorRef, SetPrometheusRuleRef,
           EnsureRouteURLExists, EnsurePrometheusRuleExists
  <1>2. Fresh(obj, rm) => rm = obj  BY <1>1, FreshIsStored
  <1>3. pc \in Deploying /\ Fresh(obj, rm) => FinalizerKey \in rm.fin
    BY <1>2 DEF IndInv, DeployUnderFinalizer
  <1>4. CASE UNCHANGED <<obj, rev, rmCache>> /\ pc' = "idle" /\ rm' = NoObj
    BY <1>4 DEF IndInv, NonType, CopyOf, CacheVouches, RemovingCopy,
                DeployUnderFinalizer, Removing, Deploying
  <1>5. CASE EnsureFinalizerSet
    <2> DEFINE new == DeleteFinalizer(SetFinalizer(rm, FinalizerKey).obj, PrevFinalizerKey).obj
    <2>1. new \in Monitor  BY <1>1, MonitorFields, KeyTypes
    <2>2. new.uid = rm.uid /\ FinalizerKey \in new.fin
      BY <1>1 DEF SetFinalizer, DeleteFinalizer, Monitor, FinalizerKey, PrevFinalizerKey
    <2> QED  BY <1>1, <1>5, <2>1, <2>2, UpdateKeeps DEF EnsureFinalizerSet
  <1>6. ASSUME pc \in Deploying, NEW new \in Monitor, new.uid = rm.uid, new.fin = rm.fin,
               UpdateMonitorResource(new), UNCHANGED rmCache
        PROVE  NonType'
    <2>1. CASE Fresh(obj, rm)  BY <1>1, <1>3, <1>6, <2>1, UpdateKeeps
    <2>2. CASE ~Fresh(obj, rm)  BY <1>4, <1>6, <2>2 DEF UpdateMonitorResource, Requeue
    <2> QED  BY <2>1, <2>2
  <1>7. CASE SetServiceMonitorRef
    <2>1. [rm EXCEPT !.smRef = SetResourceReference(@, Ref).ref] \in Monitor
      BY <1>1, RefTypes, MonitorFields
    <2>2. pc \in Deploying  BY <1>7 DEF SetServiceMonitorRef, Deploying
    <2> QED  BY <1>1, <1>6, <1>7, <2>1, <2>2 DEF SetServiceMonitorRef, Monitor
  <1>8. CASE SetPrometheusRuleRef
    <2>1. \A ref \in {NoRef, Ref} :
            [rm EXCEPT !.prRef = SetResourceReference(@, ref).ref] \in Monitor
      BY <1>1, RefTypes, MonitorFields
    <2>2. pc \in Deploying  BY <1>8 DEF SetPrometheusRuleRef, Deploying
    <2> QED  BY <1>1, <1>6, <1>8, <2>1, <2>2 DEF SetPrometheusRuleRef, Monitor
  <1>9. CASE EnsureRouteURLExists
    <2>1. pc \in Deploying  BY <1>9 DEF EnsureRouteURLExists, Deploying
    <2>2. CASE RouteUsable(rm.spec) /\ rm.routeURL # ExtractedRouteURL(rm.spec)
      <3>1. ExtractedRouteURL(rm.spec) \in URL
        BY <1>1, <2>2, ExtractedURL DEF IndInv, Monitor
      <3>2. [rm EXCEPT !.routeURL = ExtractedRouteURL(rm.spec)] \in Monitor
        BY <1>1, <3>1, MonitorFields
      <3> QED  BY <1>1, <1>6, <1>9, <2>1, <2>2, <3>2 DEF EnsureRouteURLExists, Monitor
    <2>3. CASE ~RouteUsable(rm.spec)
      BY <1>4, <1>9, <2>3 DEF EnsureRouteURLExists, Requeue
    <2>4. CASE RouteUsable(rm.spec) /\ rm.routeURL = ExtractedRouteURL(rm.spec)
      BY <1>9, <2>1, <2>4 DEF EnsureRouteURLExists, Goto, IndInv, NonType, CopyOf, CacheVouches,
                        RemovingCopy, DeployUnderFinalizer, Removing
    <2> QED  BY <2>2, <2>3, <2>4
  <1>10. CASE EnsurePrometheusRuleExists
    <2>1. pc \in Deploying /\ rmCache' = rmCache
      BY <1>10 DEF EnsurePrometheusRuleExists, Deploying
    <2> DEFINE error == SetErrorStatus(rm.err, Parsed(rm).err)
    <2>2. CASE UpdateMonitorResource([rm EXCEPT !.err = error.status])
      <3>1. error.status \in MonitorErrors  BY <1>1, ParsedTypes DEF SetErrorStatus, Monitor
      <3>2. [rm EXCEPT !.err = error.status] \in Monitor  BY <1>1, <3>1, MonitorFields
      <3> QED  BY <1>1, <1>6, <2>1, <2>2, <3>2 DEF Monitor
    <2>3. CASE /\ obj' = obj /\ rev' \in {rev, rev + 1}
               /\ \/ pc' = "idle" /\ rm' = NoObj
                  \/ pc' = "prRef" /\ rm' = rm
      <3>1. \A n \in Int : n <= rev => n <= rev'  BY <2>3 DEF IndInv, TypeOK
      <3>2. /\ rmCache # NoObj => rmCache.rv \in Int
            /\ rm # NoObj => rm.rv \in Int
            /\ obj # NoObj => obj.rv \in Int
        BY DEF IndInv, TypeOK, Monitor
      <3> QED  BY <2>1, <2>3, <3>1, <3>2
               DEF IndInv, NonType, CopyOf, CacheVouches, RemovingCopy, DeployUnderFinalizer, Removing,
                   Deploying
    <2> QED
      BY <1>10, <2>2, <2>3
      DEF EnsurePrometheusRuleExists, DeletePrometheusRule, UpdatePrometheusRuleDeployment,
          Goto, Stop, Requeue
  <1> QED  BY <1>5, <1>7, <1>8, <1>9, <1>10

\* The revisions of the monitor's copies are numbers.
LEMMA Revisions ==
    ASSUME TypeOK
    PROVE  /\ rev \in Nat
           /\ rmCache # NoObj => rmCache.rv \in Nat
           /\ rm # NoObj => rm.rv \in Nat
           /\ obj # NoObj => obj.rv \in Nat
  BY DEF TypeOK, Monitor

\* Every step of the reconcile keeps the invariant.
LEMMA ReconcileKeeps ==
    ASSUME IndInv, TypeOK', Reconcile
    PROVE  NonType'
  <1>1. CASE GetRouteMonitor
    <2>1. UNCHANGED <<obj, rev, rmCache>> /\ rm' = rmCache  BY <1>1 DEF GetRouteMonitor
    <2>2. CopyOf(rmCache)' /\ CopyOf(rm)' /\ CacheVouches'
      BY <2>1 DEF IndInv, CopyOf, CacheVouches
    <2>3. RemovingCopy'
      BY <1>1, <2>1, Revisions
      DEF GetRouteMonitor, FirstStep, RemovingCopy, Removing, WasDeleteRequested, IndInv
    <2>4. DeployUnderFinalizer'
      BY <1>1, <2>1 DEF GetRouteMonitor, FirstStep, DeployUnderFinalizer, Deploying, WasDeleteRequested,
                        SetFinalizer, HasFinalizer, IndInv, CacheVouches
    <2> QED  BY <2>1, <2>2, <2>3, <2>4 DEF NonType, IndInv
  <1>2. CASE EnsureFinalizerSet \/ SetServiceMonitorRef \/ SetPrometheusRuleRef
             \/ EnsureRouteURLExists \/ EnsurePrometheusRuleExists
    BY <1>2, WritesKeep
  <1>3. CASE RemoveFinalizer  BY <1>3, RemoveKeeps
  <1>4. CASE EnsureServiceMonitorExists
    <2>1. /\ UNCHANGED <<obj, rmCache>>
          /\ rev' \in {rev, rev + 1}
          /\ \/ pc' = "idle" /\ rm' = NoObj
             \/ pc' \in Deploying /\ rm' = rm
      BY <1>4 DEF EnsureServiceMonitorExists, AfterServiceMonitor, Goto, Requeue, Deploying
    <2>2. pc \in Deploying  BY <1>4 DEF EnsureServiceMonitorExists, Deploying
    <2>3. \A n \in Nat : n <= rev => n <= rev'  BY <2>1, Revisions DEF IndInv
    <2> QED  BY <2>1, <2>2, <2>3, Revisions
             DEF IndInv, NonType, CopyOf, CacheVouches, RemovingCopy, DeployUnderFinalizer, Removing,
                 Deploying
  <1>5. CASE DeleteServiceMonitorDeployment \/ DeletePrometheusRuleDeployment
    <2>1. /\ UNCHANGED <<obj, rev, rmCache>>
          /\ \/ pc' = "idle" /\ rm' = NoObj
             \/ pc' \in Removing /\ rm' = rm
      BY <1>5 DEF DeleteServiceMonitorDeployment, DeletePrometheusRuleDeployment,
                  DeletePrometheusRule, Goto, Requeue, Removing
    <2>2. pc \in Removing
      BY <1>5 DEF DeleteServiceMonitorDeployment, DeletePrometheusRuleDeployment, Removing
    <2> QED  BY <2>1, <2>2 DEF IndInv, NonType, CopyOf, CacheVouches, RemovingCopy,
                               DeployUnderFinalizer, Removing, Deploying
  <1> QED  BY <1>1, <1>2, <1>3, <1>4, <1>5 DEF Reconcile

\* Caches, the garbage collector, faults and users keep the invariant.
LEMMA EnvironmentKeeps ==
    ASSUME IndInv, TypeOK', Next, ~Reconcile
    PROVE  NonType'
  <1> DEFINE same == UNCHANGED <<obj, rev, rmCache, pc, rm>>
  <1>1. CASE same
    BY <1>1 DEF IndInv, NonType, CopyOf, CacheVouches, RemovingCopy, DeployUnderFinalizer
  <1>2. CASE SyncMonitor
    <2>1. UNCHANGED <<obj, rev, pc, rm>> /\ rmCache' = obj  BY <1>2 DEF SyncMonitor
    <2>2. RemovingCopy'
      <3>1. pc \in Removing => rm # NoObj  BY DEF IndInv, HasCopy, Removing
      <3> QED  BY <2>1, <3>1 DEF IndInv, CopyOf, RemovingCopy
    <2> QED  BY <2>1, <2>2, Revisions DEF IndInv, NonType, CopyOf, CacheVouches, DeployUnderFinalizer
  <1>3. CASE CallFails \/ Restart
    <2>1. /\ UNCHANGED <<obj, rev>> /\ rmCache' \in {rmCache, obj}
          /\ pc' = "idle" /\ rm' = NoObj
      BY <1>3 DEF CallFails, Restart, Requeue
    <2> QED  BY <2>1, Revisions DEF IndInv, NonType, CopyOf, CacheVouches, RemovingCopy,
                                    DeployUnderFinalizer, Removing, Deploying
  <1>4. CASE CreateMonitor
    <2>1. /\ obj = NoObj /\ UNCHANGED <<rmCache, pc, rm>>
          /\ obj'.rv = rev + 1 /\ rev' = rev + 1
      BY <1>4 DEF CreateMonitor
    <2> QED  BY <2>1, Revisions DEF IndInv, NonType, CopyOf, CacheVouches, RemovingCopy,
                                    DeployUnderFinalizer
  <1>5. CASE EditSpec \/ DeleteMonitor
    <2>1. obj \in Monitor /\ UNCHANGED <<rmCache, pc, rm>>
      BY <1>5 DEF EditSpec, DeleteMonitor, IndInv, TypeOK
    <2>2. \/ obj' = NoObj /\ obj.fin = {} /\ rev' = rev
          \/ /\ obj' # NoObj /\ rev' = rev + 1
             /\ obj'.rv = rev + 1 /\ obj'.uid = obj.uid /\ obj'.fin = obj.fin
      <3>1. rev + 1 \in Nat  BY Revisions DEF IndInv
      <3>2. CASE EditSpec
        <4>1. PICK s \in Specs : obj' = [obj EXCEPT !.spec = s, !.rv = rev + 1]
          BY <3>2 DEF EditSpec
        <4>2. obj' \in Monitor  BY <2>1, <3>1, <4>1, MonitorFields
        <4>3. obj' # NoObj  BY <4>2, RouteMonitorAssumption
        <4> QED  BY <2>1, <3>2, <4>1, <4>3 DEF EditSpec, Monitor
      <3>3. CASE DeleteMonitor
        <4>1. [obj EXCEPT !.deleting = TRUE, !.rv = rev + 1] # NoObj
          BY <2>1, <3>1, MonitorFields, RouteMonitorAssumption
        <4> QED  BY <2>1, <3>3, <4>1 DEF DeleteMonitor, Monitor
      <3> QED  BY <1>5, <3>2, <3>3
    <2> QED  BY <2>1, <2>2, Revisions DEF IndInv, NonType, CopyOf, CacheVouches, RemovingCopy,
                                          DeployUnderFinalizer
  <1>6. CASE \/ SyncPrometheusRule \/ Resync \/ ChangeRoute
             \/ \E k \in Kinds : SyncServiceMonitor(k) \/ GarbageCollect(k)
             \/ \E k \in Meddled : DeleteServiceMonitor(k)
    BY <1>1, <1>6 DEF SyncPrometheusRule, Resync, ChangeRoute, SyncServiceMonitor, GarbageCollect,
                      DeleteServiceMonitor
  <1> QED  BY <1>2, <1>3, <1>4, <1>5, <1>6 DEF Next, Users

\* The step that sets the finalizer starts from a copy without deletion request.
LEMMA ProtectedKept ==
    ASSUME ProtectedCopy, [Next]_vars
    PROVE  ProtectedCopy'
  <1>1. CASE GetRouteMonitor
    BY <1>1 DEF GetRouteMonitor, FirstStep, WasDeleteRequested, ProtectedCopy
  <1>2. CASE UNCHANGED <<pc, rm>>  BY <1>2 DEF ProtectedCopy
  <1>3. CASE pc' # "setFinalizer"  BY <1>3 DEF ProtectedCopy
  <1>4. GetRouteMonitor \/ UNCHANGED <<pc, rm>> \/ pc' # "setFinalizer"
    <2>1. CASE Reconcile
      BY <2>1 DEF Reconcile, EnsureFinalizerSet, EnsureRouteURLExists, EnsureServiceMonitorExists,
                  AfterServiceMonitor, SetServiceMonitorRef, EnsurePrometheusRuleExists,
                  DeletePrometheusRule, UpdatePrometheusRuleDeployment, SetPrometheusRuleRef,
                  DeleteServiceMonitorDeployment, DeletePrometheusRuleDeployment, RemoveFinalizer,
                  UpdateMonitorResource, Goto, Stop, Requeue
    <2>2. CASE CallFails \/ Restart  BY <2>2 DEF CallFails, Restart, Requeue
    <2>3. CASE SyncMonitor \/ SyncPrometheusRule \/ Resync \/ Users
               \/ \E k \in Kinds : SyncServiceMonitor(k) \/ GarbageCollect(k)
      BY <2>3 DEF SyncMonitor, SyncPrometheusRule, Resync, Users, SyncServiceMonitor, GarbageCollect,
                  CreateMonitor, EditSpec, DeleteMonitor, DeleteServiceMonitor, ChangeRoute
    <2>4. CASE UNCHANGED vars  BY <2>4 DEF vars
    <2> QED  BY <2>1, <2>2, <2>3, <2>4 DEF Next
  <1> QED  BY <1>1, <1>2, <1>3, <1>4

\* IndInv is an inductive invariant of the specification.
LEMMA Inductive == Spec => []IndInv
  <1>1. Init => IndInv
    <2> SUFFICES ASSUME Init PROVE IndInv  OBVIOUS
    <2>1. TypeOK  BY InitTypes
    <2> QED  BY <2>1 DEF Init, IndInv, HasCopy, CopyOf, CacheVouches, RemovingCopy, ProtectedCopy,
                         DeployUnderFinalizer, Removing, Deploying
  <1>2. IndInv /\ [Next]_vars => IndInv'
    <2> SUFFICES ASSUME IndInv, [Next]_vars PROVE IndInv'  OBVIOUS
    <2>1. TypeOK' /\ HasCopy' /\ ProtectedCopy'  BY TypesKept, ProtectedKept DEF IndInv
    <2>2. CASE Reconcile  BY <2>1, <2>2, ReconcileKeeps DEF IndInv, NonType
    <2>3. CASE Next /\ ~Reconcile  BY <2>1, <2>3, EnvironmentKeeps DEF IndInv, NonType
    <2>4. CASE UNCHANGED vars
      BY <2>1, <2>4 DEF vars, IndInv, CopyOf, CacheVouches, RemovingCopy, DeployUnderFinalizer
    <2> QED  BY <2>2, <2>3, <2>4
  <1> QED  BY <1>1, <1>2, PTL DEF Spec

\* Whatever the caches show, the controller creates and rewrites dependents only
\* for a monitor that exists under the same uid and carries the finalizer that
\* will have them deleted.
THEOREM DeploysUnderFinalizer == Spec => []DeployUnderFinalizer
  <1>1. IndInv => DeployUnderFinalizer  BY DEF IndInv
  <1> QED  BY <1>1, Inductive, PTL

----------------------------------------------------------------------------
(* The operator does not undo what users do.                               *)

SameIntent(m, n) == n.uid = m.uid /\ n.spec = m.spec /\ n.deleting = m.deleting

\* A write that starts from the copy stores the user's current spec.
LEMMA UpdateIntent ==
    ASSUME IndInv, pc # "idle", NEW new \in Monitor, SameIntent(rm, new),
           UpdateMonitorResource(new), obj # NoObj, obj' # NoObj
    PROVE  SameIntent(obj, obj')
  <1>1. CASE Fresh(obj, rm)
    <2>1. rm = obj /\ obj \in Monitor  BY <1>1, FreshIsStored
    <2>2. SameIntent(new, [new EXCEPT !.rv = rev + 1])  BY DEF SameIntent, Monitor
    <2>3. obj' = obj \/ obj' = [new EXCEPT !.rv = rev + 1]
      BY <1>1 DEF UpdateMonitorResource, Store
    <2> QED  BY <2>1, <2>2, <2>3 DEF SameIntent
  <1>2. CASE ~Fresh(obj, rm)
    BY <1>2 DEF UpdateMonitorResource, SameIntent
  <1> QED  BY <1>1, <1>2

\* No step of the reconcile changes the spec, the identity or the deletion
\* request of a monitor that stays.
LEMMA ReconcileIntent ==
    ASSUME IndInv, Reconcile, obj # NoObj, obj' # NoObj
    PROVE  SameIntent(obj, obj')
  <1>1. CASE obj' = obj  BY <1>1 DEF SameIntent
  <1>2. ASSUME NEW new \in Monitor, SameIntent(rm, new), pc # "idle", UpdateMonitorResource(new)
        PROVE  SameIntent(obj, obj')
    BY <1>2, UpdateIntent
  <1>3. pc # "idle" => rm \in Monitor  BY DEF IndInv, HasCopy, TypeOK
  <1>4. CASE EnsureFinalizerSet
    <2> DEFINE new == DeleteFinalizer(SetFinalizer(rm, FinalizerKey).obj, PrevFinalizerKey).obj
    <2>1. rm \in Monitor /\ pc # "idle"  BY <1>3, <1>4 DEF EnsureFinalizerSet
    <2>2. new \in Monitor  BY <2>1, MonitorFields, KeyTypes
    <2>3. SameIntent(rm, new)  BY <2>1 DEF SameIntent, SetFinalizer, DeleteFinalizer, Monitor
    <2> QED  BY <1>2, <1>4, <2>1, <2>2, <2>3 DEF EnsureFinalizerSet
  <1>5. CASE RemoveFinalizer
    <2> DEFINE new == DeleteFinalizer(DeleteFinalizer(rm, FinalizerKey).obj, PrevFinalizerKey).obj
    <2>1. rm \in Monitor /\ pc # "idle"  BY <1>3, <1>5 DEF RemoveFinalizer
    <2>2. new \in Monitor  BY <2>1, MonitorFields, KeyTypes
    <2>3. SameIntent(rm, new)  BY <2>1 DEF SameIntent, DeleteFinalizer, Monitor
    <2> QED  BY <1>1, <1>2, <1>5, <2>1, <2>2, <2>3 DEF RemoveFinalizer
  <1>6. CASE EnsureRouteURLExists
    <2>1. rm \in Monitor /\ pc # "idle"  BY <1>3, <1>6 DEF EnsureRouteURLExists
    <2>2. CASE RouteUsable(rm.spec) /\ rm.routeURL # ExtractedRouteURL(rm.spec)
      <3> DEFINE new == [rm EXCEPT !.routeURL = ExtractedRouteURL(rm.spec)]
      <3>1. ExtractedRouteURL(rm.spec) \in URL
        BY <2>1, <2>2, ExtractedURL DEF IndInv, Monitor
      <3>2. new \in Monitor  BY <2>1, <3>1, MonitorFields
      <3>3. SameIntent(rm, new)  BY <2>1 DEF SameIntent, Monitor
      <3> QED  BY <1>2, <1>6, <2>1, <2>2, <3>2, <3>3 DEF EnsureRouteURLExists
    <2> QED  BY <1>1, <1>6, <2>2 DEF EnsureRouteURLExists
  <1>7. CASE SetServiceMonitorRef
    <2> DEFINE new == [rm EXCEPT !.smRef = SetResourceReference(@, Ref).ref]
    <2>1. rm \in Monitor /\ pc # "idle"  BY <1>3, <1>7 DEF SetServiceMonitorRef
    <2>2. new \in Monitor  BY <2>1, RefTypes, MonitorFields
    <2>3. SameIntent(rm, new)  BY <2>1 DEF SameIntent, Monitor
    <2> QED  BY <1>2, <1>7, <2>1, <2>2, <2>3 DEF SetServiceMonitorRef
  <1>8. CASE SetPrometheusRuleRef
    <2> DEFINE new(ref) == [rm EXCEPT !.prRef = SetResourceReference(@, ref).ref]
    <2>1. rm \in Monitor /\ pc # "idle"  BY <1>3, <1>8 DEF SetPrometheusRuleRef
    <2>2. \A ref \in {NoRef, Ref} : new(ref) \in Monitor  BY <2>1, RefTypes, MonitorFields
    <2>3. \A ref \in {NoRef, Ref} : SameIntent(rm, new(ref))  BY <2>1 DEF SameIntent, Monitor
    <2>4. PICK ref \in {NoRef, Ref} : UpdateMonitorResource(new(ref))
      BY <1>8 DEF SetPrometheusRuleRef
    <2> QED  BY <1>2, <2>1, <2>2, <2>3, <2>4
  <1>9. CASE EnsurePrometheusRuleExists
    <2> DEFINE new == [rm EXCEPT !.err = SetErrorStatus(rm.err, Parsed(rm).err).status]
    <2>1. rm \in Monitor /\ pc # "idle"  BY <1>3, <1>9 DEF EnsurePrometheusRuleExists
    <2>2. new \in Monitor
      <3>1. SetErrorStatus(rm.err, Parsed(rm).err).status \in MonitorErrors
        BY <2>1, ParsedTypes DEF SetErrorStatus, Monitor
      <3> QED  BY <2>1, <3>1, MonitorFields
    <2>3. SameIntent(rm, new)  BY <2>1 DEF SameIntent, Monitor
    <2> QED  BY <1>1, <1>2, <1>9, <2>1, <2>2, <2>3 DEF EnsurePrometheusRuleExists
  <1>10. CASE GetRouteMonitor \/ EnsureServiceMonitorExists
              \/ DeleteServiceMonitorDeployment \/ DeletePrometheusRuleDeployment
    BY <1>1, <1>10 DEF GetRouteMonitor, EnsureServiceMonitorExists, DeleteServiceMonitorDeployment,
                       DeletePrometheusRuleDeployment
  <1> QED
    BY <1>4, <1>5, <1>6, <1>7, <1>8, <1>9, <1>10 DEF Reconcile

\* A step in which no user acts never changes the spec of a stored monitor, nor
\* withdraws or invents its deletion: optimistic locking makes the operator's
\* whole-object writes safe whatever copy they start from.
THEOREM UserIntentKept == Spec => KeepsUserIntent
  <1> DEFINE Keeps == (edits' = edits /\ obj # NoObj /\ obj' # NoObj)
                          => /\ obj'.uid = obj.uid
                             /\ obj'.spec = obj.spec
                             /\ obj'.deleting = obj.deleting
  <1>1. IndInv /\ [Next]_vars => [Keeps]_vars
    <2> SUFFICES ASSUME IndInv, Next, edits' = edits, obj # NoObj, obj' # NoObj
                 PROVE  SameIntent(obj, obj')
      BY DEF SameIntent
    <2>1. CASE Reconcile  BY <2>1, ReconcileIntent
    <2>2. CASE Users
      <3>1. edits \in 0..MaxEdits  BY DEF IndInv, TypeOK
      <3>2. Edit  BY <2>2 DEF Users, CreateMonitor, EditSpec, DeleteMonitor,
                              DeleteServiceMonitor, ChangeRoute
      <3>3. edits' # edits  BY <3>1, <3>2, RouteMonitorAssumption DEF Edit
      <3> QED  BY <3>3
    <2>3. CASE obj' = obj  BY <2>3 DEF SameIntent
    <2> QED  BY <2>1, <2>2, <2>3 DEF Next, SyncMonitor, SyncPrometheusRule, SyncServiceMonitor,
                                     GarbageCollect, CallFails, Restart, Resync
  <1> QED  BY <1>1, Inductive, PTL DEF Spec, KeepsUserIntent

----------------------------------------------------------------------------
(* The controller implements MonitorLife.                                  *)

\* The contents of a dependent, kept or replaced.
LEMMA DependentWrites ==
    ASSUME TypeOK, LifeOf(obj)' = LifeOf(obj)
    PROVE  /\ UNCHANGED <<sm, pr>> => UNCHANGED Life!vars
           /\ \A k \in Kinds : UNCHANGED pr /\ sm' = [sm EXCEPT ![k] = NoObj] => Life!TakeDown(k)
           /\ UNCHANGED sm /\ pr' = NoObj => Life!TakeDown("rule")
           /\ LifeOf(obj) \in {"kept", "going"} =>
                 /\ \A k \in Kinds :
                       UNCHANGED pr /\ sm' = [sm EXCEPT ![k] = sm'[k]] => Life!PutUp(k)
                 /\ UNCHANGED sm => Life!PutUp("rule")
  <1>1. DOMAIN sm = Kinds /\ "rule" \notin Kinds  BY DEF TypeOK, Kinds
  <1>2. UNCHANGED <<sm, pr>> => UNCHANGED Life!vars  BY DEF Life!vars, dependents
  <1>3. ASSUME NEW k \in Kinds, NEW new, UNCHANGED pr, sm' = [sm EXCEPT ![k] = new]
        PROVE  dependents' = [dependents EXCEPT ![k] = new]
    BY <1>1, <1>3 DEF dependents
  <1>4. ASSUME UNCHANGED sm
        PROVE  dependents' = [dependents EXCEPT !["rule"] = pr']
    BY <1>1, <1>4 DEF dependents
  <1>5. \A k \in Kinds : \A new : [dependents EXCEPT ![k] = new][k] = new
    BY DEF dependents
  <1>6. [dependents EXCEPT !["rule"] = pr']["rule"] = pr'  BY DEF dependents
  <1> QED  BY <1>2, <1>3, <1>4, <1>5, <1>6 DEF Life!TakeDown, Life!PutUp

\* An accepted write stores the new monitor, but for its revision.
LEMMA UpdateStores ==
    ASSUME IndInv, pc # "idle", NEW new \in Monitor, UpdateMonitorResource(new)
    PROVE  \/ obj' = obj
           \/ /\ Fresh(obj, rm) /\ rm = obj /\ obj \in Monitor
              /\ \/ obj' = NoObj /\ new.deleting /\ new.fin = {}
                 \/ obj' # NoObj /\ obj'.fin = new.fin /\ obj'.deleting = new.deleting
  <1>1. CASE ~Fresh(obj, rm)  BY <1>1 DEF UpdateMonitorResource
  <1>2. CASE Fresh(obj, rm)
    <2>1. rm = obj /\ obj \in Monitor  BY <1>2, FreshIsStored
    <2>2. rev + 1 \in Nat  BY Revisions DEF IndInv
    <2> DEFINE stored == [new EXCEPT !.rv = rev + 1]
    <2>3. stored \in Monitor /\ stored.fin = new.fin /\ stored.deleting = new.deleting
      BY <2>2 DEF Monitor
    <2>4. stored # NoObj  BY <2>3, RouteMonitorAssumption
    <2>5. obj' = obj \/ obj' = stored \/ (obj' = NoObj /\ new.deleting /\ new.fin = {})
      BY <1>2 DEF UpdateMonitorResource, Store
    <2> HIDE DEF stored
    <2> QED  BY <1>2, <2>1, <2>3, <2>4, <2>5
  <1> QED  BY <1>1, <1>2

\* A status write leaves the phase of the monitor alone.
LEMMA StatusKeepsLife ==
    ASSUME IndInv, pc \in Deploying, NEW new \in Monitor, UpdateMonitorResource(new),
           new.fin = rm.fin, new.deleting = rm.deleting
    PROVE  LifeOf(obj)' = LifeOf(obj)
  <1>1. pc # "idle"  BY DEF Deploying
  <1>2. rm = obj => FinalizerKey \in new.fin  BY DEF IndInv, DeployUnderFinalizer
  <1> QED  BY <1>1, <1>2, UpdateStores, RouteMonitorAssumption DEF LifeOf, Phase, WasDeleteRequested

\* While dependents are put up the monitor is kept, or going.
LEMMA DeployingLife ==
    ASSUME IndInv, pc \in Deploying
    PROVE  LifeOf(obj) \in {"kept", "going"}
  BY DEF IndInv, DeployUnderFinalizer, LifeOf, Phase

\* The steps of the reconcile that write the monitor.
LEMMA MonitorLives ==
    ASSUME IndInv,
           \/ EnsureFinalizerSet \/ RemoveFinalizer \/ EnsureRouteURLExists
           \/ SetServiceMonitorRef \/ SetPrometheusRuleRef
    PROVE  [Life!Next]_(Life!vars)
  <1>1. rm \in Monitor /\ pc # "idle"
    BY DEF IndInv, HasCopy, TypeOK, EnsureFinalizerSet, RemoveFinalizer, SetServiceMonitorRef,
           SetPrometheusRuleRef, EnsureRouteURLExists
  <1>2. UNCHANGED <<sm, pr>>
    BY DEF EnsureFinalizerSet, RemoveFinalizer, SetServiceMonitorRef,
           SetPrometheusRuleRef, EnsureRouteURLExists, serviceMonitors
  <1>3. UNCHANGED dependents  BY <1>2 DEF dependents
  <1>4. CASE LifeOf(obj)' = LifeOf(obj)  BY <1>3, <1>4 DEF Life!vars
  <1>5. CASE EnsureFinalizerSet
    <2> DEFINE new == DeleteFinalizer(SetFinalizer(rm, FinalizerKey).obj, PrevFinalizerKey).obj
    <2>1. new \in Monitor  BY <1>1, MonitorFields, KeyTypes
    <2>2. FinalizerKey \in new.fin /\ new.deleting = rm.deleting
      BY <1>1 DEF SetFinalizer, DeleteFinalizer, Monitor, FinalizerKey, PrevFinalizerKey
    <2>3. ~rm.deleting  BY <1>5 DEF IndInv, ProtectedCopy, EnsureFinalizerSet
    <2>4. CASE obj' # obj
      <3>1. /\ rm = obj /\ obj' # NoObj
            /\ FinalizerKey \in obj'.fin /\ obj'.deleting = rm.deleting
        BY <1>1, <1>5, <2>1, <2>2, <2>4, UpdateStores DEF EnsureFinalizerSet
      <3>2. obj # NoObj  BY <1>1, <3>1, RouteMonitorAssumption
      <3>3. LifeOf(obj)' = "kept" /\ LifeOf(obj) \in {"open", "kept"}
        BY <2>3, <3>1, <3>2 DEF LifeOf, Phase, WasDeleteRequested
      <3>4. CASE LifeOf(obj) = "kept"  BY <1>4, <3>3, <3>4
      <3>5. CASE LifeOf(obj) = "open"
        <4>1. Life!Protect  BY <1>3, <3>3, <3>5 DEF Life!Protect
        <4> QED  BY <4>1 DEF Life!Next
      <3> QED  BY <3>3, <3>4, <3>5
    <2> QED  BY <1>4, <2>4
  <1>6. CASE RemoveFinalizer
    <2> DEFINE d   == DeleteFinalizer(rm, FinalizerKey)
               new == DeleteFinalizer(d.obj, PrevFinalizerKey).obj
    <2>1. new \in Monitor  BY <1>1, MonitorFields, KeyTypes
    <2>2. FinalizerKey \notin new.fin /\ new.deleting = rm.deleting
      BY <1>1 DEF DeleteFinalizer, Monitor
    <2>3. rm.deleting  BY <1>6 DEF IndInv, RemovingCopy, RemoveFinalizer, Removing
    <2>4. CASE obj' # obj
      <3>1. d.changed /\ UpdateMonitorResource(new)  BY <1>6, <2>4 DEF RemoveFinalizer
      <3>2. FinalizerKey \in rm.fin  BY <3>1 DEF DeleteFinalizer, HasFinalizer
      <3>3. rm = obj /\ (obj' = NoObj \/ (obj'.fin = new.fin /\ obj'.deleting = new.deleting))
        BY <1>1, <2>1, <2>4, <3>1, UpdateStores
      <3>4. obj # NoObj  BY <1>1, <3>3, RouteMonitorAssumption
      <3>5. LifeOf(obj)' \in {"absent", "leaving"} /\ LifeOf(obj) = "going"
        BY <2>2, <2>3, <3>2, <3>3, <3>4 DEF LifeOf, Phase, WasDeleteRequested
      <3>6. Life!Release  BY <1>3, <3>5 DEF Life!Release
      <3> QED  BY <3>6 DEF Life!Next
    <2> QED  BY <1>4, <2>4
  <1>7. CASE EnsureRouteURLExists
    <2> DEFINE new == [rm EXCEPT !.routeURL = ExtractedRouteURL(rm.spec)]
    <2>1. pc \in Deploying  BY <1>7 DEF EnsureRouteURLExists, Deploying
    <2>2. CASE RouteUsable(rm.spec) /\ rm.routeURL # ExtractedRouteURL(rm.spec)
      <3>1. ExtractedRouteURL(rm.spec) \in URL
        BY <1>1, <2>2, ExtractedURL DEF IndInv, Monitor
      <3>2. new \in Monitor  BY <1>1, <3>1, MonitorFields
      <3>3. new.fin = rm.fin /\ new.deleting = rm.deleting  BY <1>1 DEF Monitor
      <3>4. UpdateMonitorResource(new)  BY <1>7, <2>2 DEF EnsureRouteURLExists
      <3> QED  BY <1>4, <2>1, <3>2, <3>3, <3>4, StatusKeepsLife
    <2>3. CASE obj' = obj  BY <1>4, <2>3
    <2> QED  BY <1>7, <2>2, <2>3 DEF EnsureRouteURLExists
  <1>8. CASE SetServiceMonitorRef
    <2> DEFINE new == [rm EXCEPT !.smRef = SetResourceReference(@, Ref).ref]
    <2>1. pc \in Deploying  BY <1>8 DEF SetServiceMonitorRef, Deploying
    <2>2. new \in Monitor  BY <1>1, RefTypes, MonitorFields
    <2>3. new.fin = rm.fin /\ new.deleting = rm.deleting  BY <1>1 DEF Monitor
    <2>4. UpdateMonitorResource(new)  BY <1>8 DEF SetServiceMonitorRef
    <2> QED  BY <1>4, <2>1, <2>2, <2>3, <2>4, StatusKeepsLife
  <1>9. CASE SetPrometheusRuleRef
    <2> DEFINE new(ref) == [rm EXCEPT !.prRef = SetResourceReference(@, ref).ref]
    <2>1. pc \in Deploying  BY <1>9 DEF SetPrometheusRuleRef, Deploying
    <2>2. \A ref \in {NoRef, Ref} : new(ref) \in Monitor  BY <1>1, RefTypes, MonitorFields
    <2>3. \A ref \in {NoRef, Ref} : new(ref).fin = rm.fin /\ new(ref).deleting = rm.deleting
      BY <1>1 DEF Monitor
    <2>4. PICK ref \in {NoRef, Ref} : UpdateMonitorResource(new(ref))
      BY <1>9 DEF SetPrometheusRuleRef
    <2> QED  BY <1>4, <2>1, <2>2, <2>3, <2>4, StatusKeepsLife
  <1> QED  BY <1>5, <1>6, <1>7, <1>8, <1>9

\* The steps of the reconcile that write or delete dependents.
LEMMA DependentLives ==
    ASSUME IndInv,
           \/ EnsureServiceMonitorExists \/ EnsurePrometheusRuleExists
           \/ DeleteServiceMonitorDeployment \/ DeletePrometheusRuleDeployment
    PROVE  [Life!Next]_(Life!vars)
  <1>1. TypeOK  BY DEF IndInv
  <1>2. CASE obj' = obj /\ UNCHANGED <<sm, pr>>
    BY <1>2 DEF Life!vars, dependents
  <1>3. ASSUME NEW d \in Kinds \cup {"rule"}, Life!PutUp(d) \/ Life!TakeDown(d)
        PROVE  Life!Next
    BY <1>3 DEF Life!Next
  <1>4. obj' = obj => LifeOf(obj)' = LifeOf(obj)  OBVIOUS
  <1>5. CASE EnsureServiceMonitorExists
    <2>1. LifeOf(obj) \in {"kept", "going"} /\ obj' = obj /\ pr' = pr
      BY <1>5, DeployingLife DEF EnsureServiceMonitorExists, Deploying
    <2>2. Kind(rm.spec) \in Kinds  BY DEF Kind, Kinds
    <2>3. CASE sm' = sm  BY <1>2, <2>1, <2>3
    <2>4. CASE sm' # sm
      <3>1. sm' = [sm EXCEPT ![Kind(rm.spec)] = sm'[Kind(rm.spec)]]
        BY <1>1, <1>5, <2>2, <2>4 DEF EnsureServiceMonitorExists, WriteServiceMonitor, TypeOK
      <3>2. Life!PutUp(Kind(rm.spec))
        BY <1>1, <1>4, <2>1, <2>2, <3>1, DependentWrites
      <3> QED  BY <1>3, <2>2, <3>2
    <2> QED  BY <2>3, <2>4
  <1>6. CASE EnsurePrometheusRuleExists
    <2>1. pc \in Deploying /\ UNCHANGED sm
      BY <1>6 DEF EnsurePrometheusRuleExists, Deploying, serviceMonitors
    <2>2. LifeOf(obj) \in {"kept", "going"}  BY <2>1, DeployingLife
    <2>3. CASE obj' = obj
      <3>1. Life!PutUp("rule")  BY <1>1, <1>4, <2>1, <2>2, <2>3, DependentWrites
      <3> QED  BY <1>3, <3>1
    <2>4. CASE obj' # obj
      <3> DEFINE new == [rm EXCEPT !.err = SetErrorStatus(rm.err, Parsed(rm).err).status]
      <3>1. UpdateMonitorResource(new) /\ pr' = pr
        BY <1>6, <2>4 DEF EnsurePrometheusRuleExists
      <3>2. rm \in Monitor  BY <2>1 DEF IndInv, HasCopy, TypeOK, Deploying
      <3>3. SetErrorStatus(rm.err, Parsed(rm).err).status \in MonitorErrors
        BY <3>2, ParsedTypes DEF SetErrorStatus, Monitor
      <3>4. new \in Monitor  BY <3>2, <3>3, MonitorFields
      <3>5. new.fin = rm.fin /\ new.deleting = rm.deleting  BY <3>2 DEF Monitor
      <3>6. LifeOf(obj)' = LifeOf(obj)  BY <2>1, <3>1, <3>4, <3>5, StatusKeepsLife
      <3> QED  BY <1>1, <2>1, <3>1, <3>6, DependentWrites
    <2> QED  BY <2>3, <2>4
  <1>7. CASE DeleteServiceMonitorDeployment
    <2>1. obj' = obj /\ pr' = pr  BY <1>7 DEF DeleteServiceMonitorDeployment
    <2>2. "coreos" \in Kinds  BY DEF Kinds
    <2>3. sm' = sm \/ sm' = [sm EXCEPT !["coreos"] = NoObj]
      BY <1>7 DEF DeleteServiceMonitorDeployment, WriteServiceMonitor
    <2>4. sm' # sm => Life!TakeDown("coreos")
      BY <1>1, <1>4, <2>1, <2>2, <2>3, DependentWrites
    <2> QED  BY <1>2, <1>3, <2>1, <2>2, <2>4
  <1>8. CASE DeletePrometheusRuleDeployment
    <2>1. obj' = obj /\ sm' = sm  BY <1>8 DEF DeletePrometheusRuleDeployment, serviceMonitors
    <2>2. pr' = pr \/ pr' = NoObj
      BY <1>8 DEF DeletePrometheusRuleDeployment, DeletePrometheusRule, WriteRule
    <2>3. pr' # pr => Life!TakeDown("rule")
      BY <1>1, <1>4, <2>1, <2>2, DependentWrites
    <2> QED  BY <1>2, <1>3, <2>1, <2>3
  <1> QED  BY <1>5, <1>6, <1>7, <1>8

\* Users: creation, deletion, and what leaves the phase alone.
LEMMA UserLives ==
    ASSUME IndInv, CreateMonitor \/ EditSpec \/ DeleteMonitor
    PROVE  [Life!Next]_(Life!vars)
  <1>1. UNCHANGED dependents
    BY DEF CreateMonitor, EditSpec, DeleteMonitor, serviceMonitors, dependents
  <1>2. rev + 1 \in Nat  BY Revisions DEF IndInv
  <1>3. CASE CreateMonitor
    <2>1. PICK s \in Specs, f \in InitialFinalizers :
            obj' = [uid |-> rev + 1, rv |-> rev + 1, deleting |-> FALSE, fin |-> f, spec |-> s,
                    routeURL |-> NoURL, smRef |-> NoRef, prRef |-> NoRef, err |-> NoErr]
      BY <1>3 DEF CreateMonitor
    <2>2. f \in SUBSET FinalizerKeys /\ NoErr \in MonitorErrors /\ FinalizerKey \notin f
      BY RouteMonitorAssumption DEF FinalizerKeys, MonitorErrors, FinalizerKey, PrevFinalizerKey
    <2>3. obj' \in Monitor  BY <1>2, <2>1, <2>2 DEF Monitor
    <2>4. obj' # NoObj  BY <2>3, RouteMonitorAssumption
    <2>5. obj'.fin = f /\ obj'.deleting = FALSE  BY <2>1
    <2>6. LifeOf(obj)' = "open" /\ LifeOf(obj) = "absent"
      BY <1>3, <2>2, <2>4, <2>5 DEF CreateMonitor, LifeOf, Phase, WasDeleteRequested
    <2>7. Life!Create  BY <1>1, <2>6 DEF Life!Create
    <2> QED  BY <2>7 DEF Life!Next
  <1>4. CASE EditSpec
    <2>1. PICK s \in Specs : obj' = [obj EXCEPT !.spec = s, !.rv = rev + 1]
      BY <1>4 DEF EditSpec
    <2>2. obj \in Monitor  BY <1>4 DEF EditSpec, IndInv, TypeOK
    <2>3. obj' \in Monitor  BY <1>2, <2>1, <2>2, MonitorFields
    <2>4. obj' # NoObj /\ obj # NoObj  BY <2>2, <2>3, RouteMonitorAssumption
    <2>5. obj'.fin = obj.fin /\ obj'.deleting = obj.deleting  BY <2>1, <2>2 DEF Monitor
    <2>6. LifeOf(obj)' = LifeOf(obj)  BY <2>4, <2>5 DEF LifeOf, Phase, WasDeleteRequested
    <2> QED  BY <1>1, <2>6 DEF Life!vars
  <1>5. CASE DeleteMonitor
    <2>1. obj \in Monitor /\ obj # NoObj /\ ~obj.deleting
      BY <1>5 DEF DeleteMonitor, IndInv, TypeOK
    <2> DEFINE marked == [obj EXCEPT !.deleting = TRUE, !.rv = rev + 1]
    <2>2. marked \in Monitor  BY <1>2, <2>1, MonitorFields
    <2>3. marked.fin = obj.fin /\ marked.deleting = TRUE  BY <2>1 DEF Monitor
    <2>4. marked # NoObj  BY <2>2, RouteMonitorAssumption
    <2>5. (obj' = NoObj /\ obj.fin = {}) \/ obj' = marked  BY <1>5 DEF DeleteMonitor
    <2> HIDE DEF marked
    <2>6. \/ LifeOf(obj) = "open" /\ LifeOf(obj)' \in {"absent", "leaving"}
          \/ LifeOf(obj) = "kept" /\ LifeOf(obj)' = "going"
      BY <2>1, <2>3, <2>4, <2>5 DEF LifeOf, Phase, WasDeleteRequested
    <2>7. Life!RequestDeletion  BY <1>1, <2>6 DEF Life!RequestDeletion
    <2> QED  BY <2>7 DEF Life!Next
  <1> QED  BY <1>3, <1>4, <1>5

\* Caches, the garbage collector and faults.
LEMMA OtherLives ==
    ASSUME IndInv, Next, ~Reconcile, ~(CreateMonitor \/ EditSpec \/ DeleteMonitor)
    PROVE  [Life!Next]_(Life!vars)
  <1>1. TypeOK  BY DEF IndInv
  <1>2. obj' = obj => LifeOf(obj)' = LifeOf(obj)  OBVIOUS
  <1>3. CASE UNCHANGED <<obj, sm, pr>>
    BY <1>3 DEF Life!vars, dependents
  <1>4. ASSUME NEW k \in Kinds, obj' = obj, pr' = pr, WriteServiceMonitor(k, NoObj)
        PROVE  Life!Next
    <2>1. sm' = [sm EXCEPT ![k] = NoObj]  BY <1>4 DEF WriteServiceMonitor
    <2>2. Life!TakeDown(k)  BY <1>1, <1>2, <1>4, <2>1, DependentWrites
    <2> QED  BY <2>2 DEF Life!Next
  <1>5. CASE \E k \in Kinds : GarbageCollect(k)  BY <1>4, <1>5 DEF GarbageCollect
  <1>6. CASE \E k \in Meddled : DeleteServiceMonitor(k)
    BY <1>4, <1>6, RouteMonitorAssumption DEF DeleteServiceMonitor
  <1>7. CASE SyncMonitor \/ SyncPrometheusRule \/ CallFails \/ Restart \/ Resync \/ ChangeRoute
             \/ \E k \in Kinds : SyncServiceMonitor(k)
    BY <1>3, <1>7 DEF SyncMonitor, SyncPrometheusRule, CallFails, Restart, Resync, ChangeRoute,
                      SyncServiceMonitor, serviceMonitors
  <1> QED  BY <1>5, <1>6, <1>7 DEF Next, Users

\* The controller refines MonitorLife, for every set of specs and Routes and
\* however caches lag, calls fail and the operator restarts: dependents appear
\* only under the finalizer, the finalizer goes only after a deletion request, and
\* no monitor returns from its deletion (routemonitor.go, Reconcile).
THEOREM RefinesLife == Spec => ImplementsLife
  <1>1. Init => Life!Init
    BY DEF Init, Life!Init, LifeOf, dependents
  <1>2. IndInv /\ [Next]_vars => [Life!Next]_(Life!vars)
    <2> SUFFICES ASSUME IndInv, [Next]_vars PROVE [Life!Next]_(Life!vars)  OBVIOUS
    <2>1. CASE \/ EnsureFinalizerSet \/ RemoveFinalizer \/ EnsureRouteURLExists
               \/ SetServiceMonitorRef \/ SetPrometheusRuleRef
      BY <2>1, MonitorLives
    <2>2. CASE \/ EnsureServiceMonitorExists \/ EnsurePrometheusRuleExists
               \/ DeleteServiceMonitorDeployment \/ DeletePrometheusRuleDeployment
      BY <2>2, DependentLives
    <2>3. CASE CreateMonitor \/ EditSpec \/ DeleteMonitor  BY <2>3, UserLives
    <2>4. CASE GetRouteMonitor
      BY <2>4 DEF GetRouteMonitor, serviceMonitors, Life!vars, dependents
    <2>5. CASE UNCHANGED vars  BY <2>5 DEF vars, Life!vars, dependents
    <2>6. CASE Next /\ ~Reconcile /\ ~(CreateMonitor \/ EditSpec \/ DeleteMonitor)
      BY <2>6, OtherLives
    <2> QED  BY <2>1, <2>2, <2>3, <2>4, <2>5, <2>6 DEF Reconcile
  <1> QED  BY <1>1, <1>2, Inductive, PTL DEF Spec, ImplementsLife, Life!Spec
=============================================================================
