-------------------- MODULE ClusterUrlMonitorQuietProofs --------------------
(***************************************************************************)
(* Proofs about what ClusterUrlMonitor has achieved once nothing is left to*)
(* do: QuietServiceMonitor and QuietPrometheusRule, for every set of specs *)
(* and states of the cluster and every bound.                              *)
(***************************************************************************)
EXTENDS ClusterUrlMonitorProofs

\* A reconcile works on the cached monitor, or another one is due.
Work == pc # "idle" => queued \/ cum = cumCache

\* An informer's copy is current unless an event is on its way.
Caches == \A k \in Kinds : k \notin events => depCache[k] = deps[k]

\* The reference to the ServiceMonitor is recorded when there was none.
NewReference == pc = "smRef" => cum.smRef = NoRef

\* No reconcile is due for a monitor that is there to stay.
Settled == obj # NoObj /\ ~obj.deleting /\ cumCache = obj /\ ~queued

\* What a reconcile has done for such a monitor by the time it gets to a step, or has
\* ended: the ServiceMonitor, and the reference to it.
Placed ==
    Settled /\ ~obj.spec.hcp /\ "coreos" \notin events =>
        /\ pc \in {"idle", "smRef", "prometheusRule", "prRef"} =>
              deps["coreos"] # NoObj /\ deps["coreos"].spec.url \in Urls(obj.spec)
        /\ pc \in {"idle", "prometheusRule", "prRef"} => obj.smRef = Ref

\* And the PrometheusRule with its reference; the rule is right unless it was misread.
Ruled ==
    Settled =>
        /\ pc \in {"idle", "prRef"} /\ WantsRule(obj.spec) => misread \/ HasPrometheusRule
        /\ pc = "idle" /\ WantsRule(obj.spec) => obj.prRef = Ref
        /\ pc = "idle" /\ ~WantsRule(obj.spec) /\ (obj.spec.skip \/ ~obj.spec.hcp) =>
              obj.prRef = NoRef

QuietInv == LifeInv /\ Work /\ Caches /\ NewReference /\ Placed /\ Ruled

----------------------------------------------------------------------------
(* The queue and the caches.                                               *)

\* Only the start of a reconcile, or of the operator, takes a request off the queue.
LEMMA QueueKept ==
    ASSUME Next
    PROVE  GetClusterUrlMonitor \/ Restart \/ (queued => queued')
  <1>1. CASE Reconcile
    BY <1>1 DEF Reconcile, EnsureFinalizerSet, EnsureServiceMonitorExists, SetServiceMonitorRef,
                EnsurePrometheusRuleExists, SetPrometheusRuleRef, DeleteServiceMonitorDeployment,
                DeletePrometheusRuleDeployment, RemoveFinalizer, UpdateMonitorResource, Deploy, Delete,
                Goto, Stop, Requeue
  <1>2. CASE SyncMonitor  BY <1>2 DEF SyncMonitor
  <1>3. ASSUME NEW k \in Kinds, SyncDependent(k) PROVE queued => queued'
    BY <1>3 DEF SyncDependent
  <1>4. CASE CallFails  BY <1>4 DEF CallFails, Requeue
  <1>5. ASSUME NEW k \in ServiceMonitors, GarbageCollect(k) PROVE queued => queued'
    BY <1>5 DEF GarbageCollect
  <1>6. CASE ForeignRelease \/ Users
    BY <1>6 DEF ForeignRelease, Users, CreateMonitor, EditSpec, DeleteMonitor, ChangeCluster
  <1> QED  BY <1>1, <1>2, <1>3, <1>4, <1>5, <1>6 DEF Next

LEMMA WorkKept ==
    ASSUME LifeInv, Work, [Next]_vars
    PROVE  Work'
  <1>1. CASE UNCHANGED vars  BY <1>1 DEF vars, Work
  <1>2. CASE pc' = "idle"  BY <1>2 DEF Work
  <1>3. CASE GetClusterUrlMonitor  BY <1>3 DEF GetClusterUrlMonitor, Work
  <1>4. CASE Next /\ ~GetClusterUrlMonitor /\ pc' # "idle"
    <2>1. queued => queued'  BY <1>4, QueueKept DEF Restart
    <2>2. Moved \/ Seen \/ ByOthers \/ Created
      BY <1>4, StepsTaken DEF LifeInv, Written
    <2>3. CASE Seen  BY <1>4, <2>3 DEF Seen, Work
    <2>4. CASE Moved \/ ByOthers \/ Created
      <3>1. UNCHANGED <<cum, cumCache>> /\ pc # "idle"
        BY <1>4, <2>4 DEF Moved, Progress, ByOthers, Created, Deploying, Removing
      <3> QED  BY <2>1, <3>1 DEF Work
    <2> QED  BY <2>2, <2>3, <2>4
  <1> QED  BY <1>1, <1>2, <1>3, <1>4

\* Who touches a dependent or its cache: a write, its informer, or a new start.
LEMMA DependentWrites ==
    ASSUME [Next]_vars
    PROVE  \/ UNCHANGED dependents
           \/ \E k \in Kinds : \E new : WriteDependent(k, new)
           \/ \E k \in Kinds : SyncDependent(k)
           \/ Restart
  <1> DEFINE Goal == \/ UNCHANGED dependents
                     \/ \E k \in Kinds : \E new : WriteDependent(k, new)
  <1>1. ASSUME NEW k \in Kinds, NEW ref, NEW next, Delete(k, ref, next) PROVE Goal
    BY <1>1 DEF Delete
  <1>2. ServiceMonitors \subseteq Kinds /\ "rule" \in Kinds /\ \A spec : Kind(spec) \in Kinds
    BY DEF Kinds, ServiceMonitors, Kind
  <1>3. CASE GetClusterUrlMonitor \/ EnsureFinalizerSet \/ SetServiceMonitorRef
             \/ SetPrometheusRuleRef \/ RemoveFinalizer \/ SyncMonitor \/ ForeignRelease
             \/ CallFails \/ Users \/ UNCHANGED vars
    BY <1>3 DEF GetClusterUrlMonitor, EnsureFinalizerSet, SetServiceMonitorRef, SetPrometheusRuleRef,
                RemoveFinalizer, SyncMonitor, ForeignRelease, CallFails, Users, CreateMonitor,
                EditSpec, DeleteMonitor, ChangeCluster, vars, dependents
  <1>4. CASE EnsureServiceMonitorExists
    BY <1>2, <1>4 DEF EnsureServiceMonitorExists, Deploy
  <1>5. CASE EnsurePrometheusRuleExists
    BY <1>1, <1>2, <1>5 DEF EnsurePrometheusRuleExists, Deploy
  <1>6. CASE DeleteServiceMonitorDeployment
    BY <1>1, <1>2, <1>6 DEF DeleteServiceMonitorDeployment
  <1>7. CASE DeletePrometheusRuleDeployment
    BY <1>1, <1>2, <1>7 DEF DeletePrometheusRuleDeployment
  <1>8. ASSUME NEW k \in ServiceMonitors, GarbageCollect(k) PROVE Goal
    BY <1>2, <1>8 DEF GarbageCollect
  <1> QED  BY <1>3, <1>4, <1>5, <1>6, <1>7, <1>8 DEF Next, Reconcile

LEMMA CachesKept ==
    ASSUME TypeOK, Caches, [Next]_vars
    PROVE  Caches'
  <1>1. CASE UNCHANGED dependents  BY <1>1 DEF Caches, dependents
  <1>2. ASSUME NEW k \in Kinds, NEW new, WriteDependent(k, new) PROVE Caches'
    BY <1>2 DEF WriteDependent, Caches, TypeOK
  <1>3. ASSUME NEW k \in Kinds, SyncDependent(k) PROVE Caches'
    BY <1>3 DEF SyncDependent, Caches, TypeOK
  <1>4. CASE Restart  BY <1>4 DEF Restart, Caches
  <1> QED  BY <1>1, <1>2, <1>3, <1>4, DependentWrites

----------------------------------------------------------------------------
(* What unsettles a monitor, and what leaves it alone.                     *)

\* With a reconcile due or an outdated cache nothing has been achieved yet.
LEMMA NotSettled ==
    ASSUME ~Settled'
    PROVE  Placed' /\ Ruled'
  BY DEF Placed, Ruled

\* A new revision is not in the cache.
LEMMA NewRevision ==
    ASSUME LifeInv, UNCHANGED cumCache, obj' \in Monitor, obj'.rv = rev + 1
    PROVE  ~Settled'
  <1>1. cumCache # NoObj => cumCache.rv \in Nat /\ cumCache.rv <= rev /\ rev \in Nat
    BY Revisions DEF LifeInv, Copies, CopyOf
  <1>2. rev \in Nat  BY DEF LifeInv, TypeOK
  <1>3. obj' # NoObj  BY Revisions DEF LifeInv
  <1> QED  BY <1>1, <1>2, <1>3 DEF Settled

\* A write of the monitor has another reconcile follow, unless it changed nothing.
LEMMA UpdateUnsettles ==
    ASSUME LifeInv, pc # "idle", NEW new \in Monitor, UpdateMonitorResource(new), UNCHANGED cumCache
    PROVE  \/ ~Settled'
           \/ /\ new = obj /\ cum = obj
              /\ pc' = "idle" /\ UNCHANGED <<obj, rev, queued>>
  <1>1. CASE ~Accepted(new)
    BY <1>1 DEF UpdateMonitorResource, Requeue, Settled
  <1>2. CASE Accepted(new)
    <2>1. Store(new) /\ Stop  BY <1>2 DEF UpdateMonitorResource
    <2>2. cum = obj  BY <1>2, FreshIsStored DEF LifeInv, Accepted
    <2>3. CASE obj' = NoObj  BY <2>3 DEF Settled
    <2>4. CASE new = obj /\ UNCHANGED <<obj, rev>>  BY <2>1, <2>2, <2>4 DEF Stop
    <2>5. CASE obj' = [new EXCEPT !.rv = rev + 1]
      <3>1. rev + 1 \in Nat  BY DEF LifeInv, TypeOK
      <3>2. obj' \in Monitor  BY <2>5, <3>1, MonitorFields
      <3>3. obj'.rv = rev + 1  BY <2>5 DEF Monitor
      <3> QED  BY <3>2, <3>3, NewRevision
    <2> QED  BY <2>1, <2>3, <2>4, <2>5 DEF Store
  <1> QED  BY <1>1, <1>2

\* A monitor stays served as long as neither it, its reconcile nor its dependents move,
\* or the ServiceMonitor's event is on its way.
LEMMA LeftAlone ==
    ASSUME Placed, Ruled, UNCHANGED <<obj, cumCache, pc, misread>>, queued => queued',
           deps'["rule"] = deps["rule"],
           "coreos" \notin events' => "coreos" \notin events /\ deps'["coreos"] = deps["coreos"]
    PROVE  Placed' /\ Ruled'
  <1>1. Settled' => Settled  BY DEF Settled
  <1>2. Placed'  BY <1>1 DEF Placed
  <1>3. HasPrometheusRule => HasPrometheusRule'  BY DEF HasPrometheusRule
  <1>4. Ruled'  BY <1>1, <1>3 DEF Ruled
  <1> QED  BY <1>2, <1>4

\* A create or update made on a current cache leaves the contents it was given.
LEMMA DeployedGood ==
    ASSUME TypeOK, NEW k \in Kinds, NEW spec \in Contents, NEW owner \in Nat,
           NEW d \in Deployed(deps[k], depCache[k],
                              [rv |-> rev + 1, owner |-> owner, spec |-> spec]),
           WriteDependent(k, d), d = deps[k] => depCache[k] = deps[k]
    PROVE  deps'[k] # NoObj /\ deps'[k].spec = spec
  <1> DEFINE new == [rv |-> rev + 1, owner |-> owner, spec |-> spec]
  <1>1. deps'[k] = d  BY DEF WriteDependent, TypeOK
  <1>2. NoObj \notin Dependent  BY ClusterUrlMonitorAssumption
  <1>3. d \in Dependent /\ d.spec = spec => deps'[k] # NoObj /\ deps'[k].spec = spec
    BY <1>1, <1>2
  <1>4. CASE d = deps[k]
    <2>1. depCache[k] = deps[k]  BY <1>4
    <2>2. rev + 1 \in Nat  BY DEF TypeOK
    <2>3. new \in Dependent /\ new.spec = spec  BY <2>2 DEF Dependent, Contents
    <2>4. CASE deps[k] = NoObj
      <3>1. d = new  BY <2>1, <2>4 DEF Deployed
      <3> QED  BY <1>3, <2>3, <3>1
    <2>5. CASE deps[k] # NoObj /\ deps[k].spec = spec  BY <1>1, <1>4, <2>5
    <2>6. CASE deps[k] # NoObj /\ deps[k].spec # spec
      <3>1. d = [deps[k] EXCEPT !.rv = new.rv, !.spec = new.spec]
        <4>1. deps[k].spec # new.spec  BY <2>6
        <4> HIDE DEF new
        <4> QED  BY <2>1, <2>6, <4>1 DEF Deployed, new
      <3>2. deps[k] \in Dependent  BY <2>6 DEF TypeOK
      <3>3. d.spec = spec  BY <3>1, <3>2 DEF Dependent
      <3> QED  BY <1>4, <2>6, <3>3
    <2> QED  BY <2>4, <2>5, <2>6
  <1> QED  BY <1>3, <1>4, DeployedTypes

----------------------------------------------------------------------------
(* The steps of the reconcile.                                             *)

\* The reconcile of a settled monitor works on it, and was settled before.
LEMMA WorksOnIt ==
    ASSUME Work, pc # "idle", UNCHANGED <<obj, cumCache>>, queued => queued', Settled'
    PROVE  Settled /\ cum = obj
  BY DEF Settled, Work

\* A write that changes the monitor.
LEMMA ChangedIsUnsettled ==
    ASSUME LifeInv, pc # "idle", NEW new \in Monitor, UpdateMonitorResource(new),
           UNCHANGED cumCache, new # cum
    PROVE  Placed' /\ Ruled'
  BY UpdateUnsettles, NotSettled

\* Steps that write the monitor's finalizer or its references.
LEMMA FinalizerSteps ==
    ASSUME LifeInv, EnsureFinalizerSet \/ RemoveFinalizer
    PROVE  Placed' /\ Ruled'
  <1>1. cum \in Monitor /\ pc # "idle"
    BY DEF EnsureFinalizerSet, RemoveFinalizer, LifeInv, HasCopy
  <1>2. CASE EnsureFinalizerSet
    <2> DEFINE new == DeleteFinalizer(SetFinalizer(cum, FinalizerKey).obj, PrevFinalizerKey).obj
    <2>1. new \in Monitor  BY <1>1, MonitorFields, KeyTypes
    <2>2. FinalizerKey \in new.fin
      BY <1>1, KeyTypes DEF Monitor, SetFinalizer, DeleteFinalizer
    <2>3. FinalizerKey \notin cum.fin  BY <1>2 DEF EnsureFinalizerSet, LifeInv, CopyUsed
    <2> HIDE DEF new
    <2>4. UpdateMonitorResource(new) /\ UNCHANGED cumCache
      BY <1>2 DEF EnsureFinalizerSet, new
    <2>5. new # cum  BY <2>2, <2>3
    <2> QED  BY <1>1, <2>1, <2>4, <2>5, ChangedIsUnsettled
  <1>3. CASE RemoveFinalizer /\ DeleteFinalizer(cum, FinalizerKey).changed
    <2> DEFINE new == DeleteFinalizer(DeleteFinalizer(cum, FinalizerKey).obj, PrevFinalizerKey).obj
    <2>1. new \in Monitor  BY <1>1, MonitorFields, KeyTypes
    <2>2. FinalizerKey \notin new.fin
      BY <1>1 DEF Monitor, DeleteFinalizer
    <2>3. FinalizerKey \in cum.fin  BY <1>3 DEF DeleteFinalizer, HasFinalizer
    <2> HIDE DEF new
    <2>4. UpdateMonitorResource(new) /\ UNCHANGED cumCache
      BY <1>3 DEF RemoveFinalizer, new
    <2>5. new # cum  BY <2>2, <2>3
    <2> QED  BY <1>1, <2>1, <2>4, <2>5, ChangedIsUnsettled
  <1>4. CASE RemoveFinalizer /\ ~DeleteFinalizer(cum, FinalizerKey).changed
    BY <1>4 DEF RemoveFinalizer, Goto, Placed, Ruled
  <1> QED  BY <1>2, <1>3, <1>4

\* The steps between which a monitor that stays is served do not include those of its
\* finalizer and of its removal.
LEMMA Elsewhere ==
    ASSUME pc' \notin {"idle", "smRef", "prometheusRule", "prRef"} \/ queued' = TRUE
    PROVE  Placed' /\ Ruled'
  BY DEF Placed, Ruled, Settled

LEMMA StartStep ==
    ASSUME LifeInv, GetClusterUrlMonitor
    PROVE  Placed' /\ Ruled'
  <1>1. CASE cumCache = NoObj
    BY <1>1, NotSettled DEF GetClusterUrlMonitor, Settled
  <1>2. CASE cumCache # NoObj
    <2>1. pc' = FirstStep(cumCache)  BY <1>2 DEF GetClusterUrlMonitor
    <2>2. pc' \in {"deleteServiceMonitor", "setFinalizer", "serviceMonitor"}
      BY <2>1 DEF FirstStep
    <2> QED  BY <2>2, Elsewhere
  <1> QED  BY <1>1, <1>2

LEMMA RemovingSteps ==
    ASSUME DeleteServiceMonitorDeployment \/ DeletePrometheusRuleDeployment
    PROVE  Placed' /\ Ruled'
  <1>1. pc' \in {"deletePrometheusRule", "removeFinalizer"} \/ queued' = TRUE
    BY DEF DeleteServiceMonitorDeployment, DeletePrometheusRuleDeployment, Delete, Goto, Requeue
  <1> QED  BY <1>1, Elsewhere

\* The reference to the ServiceMonitor is new.
LEMMA ServiceMonitorRefStep ==
    ASSUME LifeInv, NewReference, SetServiceMonitorRef
    PROVE  Placed' /\ Ruled'
  <1> DEFINE new == [cum EXCEPT !.smRef = SetResourceReference(@, Ref).ref]
  <1>1. cum \in Monitor /\ pc # "idle"  BY DEF SetServiceMonitorRef, LifeInv, HasCopy
  <1>2. new \in Monitor  BY <1>1, RefTypes, MonitorFields
  <1>3. new.smRef = Ref  BY <1>1 DEF Monitor, SetResourceReference, SetServiceMonitorRef, NewReference
  <1>4. cum.smRef # Ref  BY DEF SetServiceMonitorRef, NewReference, NoRef, Ref
  <1> HIDE DEF new
  <1>5. UpdateMonitorResource(new) /\ UNCHANGED cumCache  BY DEF SetServiceMonitorRef, new
  <1>6. new # cum  BY <1>3, <1>4
  <1> QED  BY <1>1, <1>2, <1>5, <1>6, ChangedIsUnsettled

\* A URL that the monitor may have.
LEMMA UrlKnown ==
    ASSUME TypeOK, NEW spec, NEW d \in Domains(spec, cluster)
    PROVE  ClusterUrl(spec, d) \in Urls(spec)
  BY DEF Urls, TypeOK

\* The ServiceMonitor is put up, and its reference is known or recorded next.
LEMMA ServiceMonitorStep ==
    ASSUME LifeInv, Work, Caches, EnsureServiceMonitorExists
    PROVE  Placed' /\ Ruled' /\ NewReference'
  <1> DEFINE next == IF SetResourceReference(cum.smRef, Ref).updated
                     THEN "smRef" ELSE "prometheusRule"
             contents(u) == [url |-> ServiceMonitorUrl(cum.spec, u), slo |-> NoParsedSlo]
             new(u) == [rv |-> rev + 1, owner |-> cum.uid, spec |-> contents(u)]
  <1>1. CASE Requeue  BY <1>1, Elsewhere DEF Requeue, NewReference
  <1>2. CASE ~Requeue
    <2>1. /\ TypeOK /\ cum \in Monitor /\ pc # "idle"
          /\ UNCHANGED <<obj, cumCache, cluster>>
      BY DEF EnsureServiceMonitorExists, LifeInv, HasCopy
    <2>2. cum.spec \in Specs /\ cum.uid \in Nat /\ cluster \in Clusters
      BY <2>1, MonitorFields DEF TypeOK
    <2>3. PICK u \in Domains(cum.spec, cluster) :
            Deploy(Kind(cum.spec), contents(u), cum.uid, Goto(next))
      BY <1>2 DEF EnsureServiceMonitorExists
    <2>4. PICK d \in Deployed(deps[Kind(cum.spec)], depCache[Kind(cum.spec)], new(u)) :
            WriteDependent(Kind(cum.spec), d) /\ Goto(next)
      BY <1>2, <2>3 DEF Deploy
    <2>5. contents(u) \in Contents  BY <2>2, UrlTypes DEF ServiceMonitorUrl, NoParsedSlo
    <2>6. contents(u).url \in Urls(cum.spec)  BY <2>1, UrlKnown DEF ServiceMonitorUrl
    <2>7. /\ pc' = "smRef" => cum.smRef = NoRef
          /\ pc' = "prometheusRule" => cum.smRef = Ref
          /\ pc' \in {"smRef", "prometheusRule"} /\ UNCHANGED <<cum, queued>>
      <3>1. cum.smRef \in {NoRef, Ref}  BY <2>1, MonitorFields
      <3> QED  BY <2>4, <3>1 DEF Goto, SetResourceReference, NoRef, Ref
    <2>8. NewReference'  BY <2>7 DEF NewReference
    <2>9. Ruled'  BY <2>7 DEF Ruled
    <2>10. ASSUME Settled', ~obj'.spec.hcp, "coreos" \notin events'
           PROVE  /\ deps'["coreos"] # NoObj /\ deps'["coreos"].spec.url \in Urls(obj'.spec)
                  /\ pc' = "prometheusRule" => obj'.smRef = Ref
      <3>1. cum = obj /\ obj' = obj  BY <2>1, <2>7, <2>10, WorksOnIt
      <3>2. Kind(cum.spec) = "coreos" /\ "coreos" \in Kinds
        BY <2>10, <3>1 DEF Kind, Kinds, ServiceMonitors
      <3>3. d = deps["coreos"] => depCache["coreos"] = deps["coreos"]
        BY <2>4, <2>10, <3>2 DEF WriteDependent, Caches
      <3> HIDE DEF contents
      <3>4. deps'["coreos"] # NoObj /\ deps'["coreos"].spec = contents(u)
        BY <2>1, <2>2, <2>4, <2>5, <3>2, <3>3, DeployedGood
      <3> QED  BY <2>6, <2>7, <3>1, <3>4
    <2>11. Placed'  BY <2>7, <2>10 DEF Placed
    <2> QED  BY <2>8, <2>9, <2>11
  <1> QED  BY <1>1, <1>2

\* The ServiceMonitor's part, in a step that leaves it alone.
LEMMA StaysPlaced ==
    ASSUME Work, Placed, UNCHANGED <<obj, cumCache>>, queued => queued', pc \in {"prometheusRule", "prRef"},
           deps'["coreos"] = deps["coreos"], "coreos" \in events => "coreos" \in events'
    PROVE  Placed'
  <1>1. Settled' => Settled  BY DEF Settled
  <1> QED  BY <1>1 DEF Placed

\* A write of the rule leaves the ServiceMonitor alone.
LEMMA OnlyTheRule ==
    ASSUME TypeOK, NEW d, WriteDependent("rule", d)
    PROVE  /\ deps'["coreos"] = deps["coreos"]
           /\ "coreos" \in events => "coreos" \in events'
  BY DEF WriteDependent, TypeOK, Kinds, ServiceMonitors

\* The rule is taken down, or there is none, for a monitor that wants none.
LEMMA RuleDeleted ==
    ASSUME LifeInv, Work, Placed, pc = "prometheusRule", ~WantsRule(cum.spec),
           Delete("rule", cum.prRef, "prRef"), UNCHANGED <<obj, cumCache>>
    PROVE  Placed' /\ Ruled'
  <1>1. CASE Requeue  BY <1>1, Elsewhere DEF Requeue
  <1>2. CASE ~Requeue
    <2>1. PICK d : WriteDependent("rule", d) /\ Goto("prRef")  BY <1>2 DEF Delete
    <2>2. Placed'  BY <2>1, StaysPlaced, OnlyTheRule DEF Goto, LifeInv
    <2>3. Settled' => cum = obj /\ obj' = obj  BY <2>1, WorksOnIt DEF Goto
    <2>4. Ruled'  BY <2>1, <2>3 DEF Ruled, Goto
    <2> QED  BY <2>2, <2>4
  <1> QED  BY <1>1, <1>2

\* The rule is put up, and its reference is known or recorded next.
LEMMA RuleDeployed ==
    ASSUME LifeInv, Work, Caches, Placed, pc = "prometheusRule", WantsRule(cum.spec),
           NEW u \in Domains(cum.spec, cluster),
           Deploy("rule", [url |-> ClusterUrl(cum.spec, u), slo |-> Parsed(cum.spec).slo], NoOwner,
                  IF SetResourceReference(cum.prRef, Ref).updated THEN Goto("prRef") ELSE Stop),
           misread' = (depCache["rule"] # deps["rule"]), UNCHANGED <<obj, cumCache>>
    PROVE  Placed' /\ Ruled'
  <1> DEFINE contents == [url |-> ClusterUrl(cum.spec, u), slo |-> Parsed(cum.spec).slo]
             new == [rv |-> rev + 1, owner |-> NoOwner, spec |-> contents]
             Ok == IF SetResourceReference(cum.prRef, Ref).updated THEN Goto("prRef") ELSE Stop
  <1>1. CASE Requeue  BY <1>1, Elsewhere DEF Requeue
  <1>2. CASE ~Requeue
    <2>1. TypeOK /\ cum \in Monitor  BY DEF LifeInv, HasCopy
    <2>2. cum.spec \in Specs /\ cluster \in Clusters /\ cum.prRef \in {NoRef, Ref}
      BY <2>1, MonitorFields DEF TypeOK
    <2>3. PICK d \in Deployed(deps["rule"], depCache["rule"], new) : WriteDependent("rule", d) /\ Ok
      BY <1>2 DEF Deploy
    <2>4. contents \in Contents  BY <2>2, UrlTypes, ParsedTypes
    <2>5. contents.url \in Urls(cum.spec) /\ contents.slo = Parsed(cum.spec).slo
      BY <2>1, UrlKnown
    <2>6. UNCHANGED queued /\ (pc' = "prRef" \/ (pc' = "idle" /\ cum.prRef = Ref))
      <3>1. SetResourceReference(cum.prRef, Ref).updated \/ cum.prRef = Ref
        BY <2>2 DEF SetResourceReference
      <3> QED  BY <2>3, <3>1 DEF Goto, Stop
    <2>7. Placed'  BY <2>1, <2>3, <2>6, StaysPlaced, OnlyTheRule
    <2>8. ASSUME Settled', ~misread' PROVE HasPrometheusRule'
      <3>1. cum = obj /\ obj' = obj  BY <2>6, <2>8, WorksOnIt
      <3>2. "rule" \in Kinds /\ depCache["rule"] = deps["rule"]  BY <2>8 DEF Kinds
      <3> HIDE DEF contents
      <3>3. NoOwner \in Nat  BY DEF NoOwner
      <3>4. deps'["rule"] # NoObj /\ deps'["rule"].spec = contents
        BY <2>1, <2>3, <2>4, <3>2, <3>3, DeployedGood
      <3> QED  BY <2>5, <3>1, <3>4 DEF HasPrometheusRule
    <2>9. Settled' => cum = obj /\ obj' = obj  BY <2>6, WorksOnIt
    <2>10. Ruled'  BY <2>6, <2>8, <2>9 DEF Ruled
    <2> QED  BY <2>7, <2>10
  <1> QED  BY <1>1, <1>2

LEMMA PrometheusRuleStep ==
    ASSUME LifeInv, Work, Caches, Placed, EnsurePrometheusRuleExists
    PROVE  Placed' /\ Ruled'
  <1> DEFINE error == SetErrorStatus(cum.err, Parsed(cum.spec).err)
             plain == ~cum.spec.skip /\ ~cum.spec.hcp
  <1>1. /\ pc = "prometheusRule" /\ cum \in Monitor /\ UNCHANGED cumCache
        /\ misread' = (depCache["rule"] # deps["rule"])
    BY DEF EnsurePrometheusRuleExists, LifeInv, HasCopy
  <1>2. CASE Requeue  BY <1>2, Elsewhere DEF Requeue
  <1>3. CASE /\ ~WantsRule(cum.spec)
             /\ Delete("rule", cum.prRef, "prRef") /\ UNCHANGED <<obj, rev>>
    BY <1>1, <1>3, RuleDeleted
  <1>4. CASE /\ ~cum.spec.skip /\ cum.spec.hcp
             /\ Stop /\ UNCHANGED <<obj, rev, dependents>>
    <2>1. Settled' => cum = obj /\ obj' = obj  BY <1>1, <1>4, WorksOnIt DEF Stop
    <2>2. Placed'  BY <1>4, <2>1 DEF Placed
    <2>3. Ruled'  BY <1>4, <2>1 DEF Ruled, WantsRule
    <2> QED  BY <2>2, <2>3
  <1>5. CASE error.changed /\ UpdateMonitorResource([cum EXCEPT !.err = error.status])
    <2> DEFINE new == [cum EXCEPT !.err = error.status]
    <2>1. error.status = Parsed(cum.spec).err /\ error.status # cum.err
      BY <1>5 DEF SetErrorStatus
    <2>2. cum.spec \in Specs /\ Parsed(cum.spec).err \in MonitorErrors
      BY <1>1, MonitorFields, ParsedTypes
    <2> HIDE DEF error
    <2>3. new \in Monitor  BY <1>1, <2>1, <2>2, MonitorFields
    <2>4. new.err = error.status  BY <1>1 DEF Monitor
    <2>5. UpdateMonitorResource(new)  BY <1>5
    <2> HIDE DEF new
    <2>6. new # cum  BY <2>1, <2>4
    <2> QED  BY <1>1, <2>3, <2>5, <2>6, ChangedIsUnsettled
  <1>6. CASE /\ WantsRule(cum.spec) /\ UNCHANGED obj
             /\ \E d \in Domains(cum.spec, cluster) :
                   Deploy("rule", [url |-> ClusterUrl(cum.spec, d), slo |-> Parsed(cum.spec).slo],
                          NoOwner,
                          IF SetResourceReference(cum.prRef, Ref).updated THEN Goto("prRef")
                                                                          ELSE Stop)
    BY <1>1, <1>6, RuleDeployed
  <1>7. cum.spec.skip => ~WantsRule(cum.spec)  BY DEF WantsRule
  <1> QED
    <2> HIDE DEF error
    <2> QED  BY <1>2, <1>3, <1>4, <1>5, <1>6, <1>7 DEF EnsurePrometheusRuleExists, error

\* The reference to the rule is recorded, or is as it should be.
LEMMA PrometheusRuleRefStep ==
    ASSUME LifeInv, Work, Placed, Ruled, SetPrometheusRuleRef
    PROVE  Placed' /\ Ruled'
  <1> DEFINE ref == IF WantsRule(cum.spec) THEN Ref ELSE NoRef
             new == [cum EXCEPT !.prRef = SetResourceReference(@, ref).ref]
  <1>1. cum \in Monitor /\ pc = "prRef" /\ UNCHANGED <<cumCache, dependents, misread>>
    BY DEF SetPrometheusRuleRef, LifeInv, HasCopy
  <1>2. ref \in {NoRef, Ref}  OBVIOUS
  <1>3. new.prRef = ref
    <2>1. SetResourceReference(cum.prRef, ref).ref = ref
      <3>1. cum.prRef \in {NoRef, Ref}  BY <1>1, MonitorFields
      <3> HIDE DEF ref
      <3> QED  BY <1>2, <3>1 DEF SetResourceReference
    <2> HIDE DEF ref
    <2> QED  BY <1>1, <2>1 DEF Monitor
  <1>4. new \in Monitor
    <2>1. SetResourceReference(cum.prRef, ref).ref \in {NoRef, Ref}
      <3> HIDE DEF ref
      <3> QED  BY <1>1, <1>2, RefTypes
    <2> QED  BY <1>1, <2>1, MonitorFields
  <1>5. UpdateMonitorResource(new)  BY DEF SetPrometheusRuleRef
  <1>6. CASE ~Settled'  BY <1>6, NotSettled
  <1>7. CASE Settled'
    <2>1. new = obj /\ cum = obj /\ pc' = "idle" /\ UNCHANGED <<obj, rev, queued>>
      <3> HIDE DEF new
      <3> QED  BY <1>1, <1>4, <1>5, <1>7, UpdateUnsettles
    <2>2. Settled  BY <1>1, <1>7, <2>1, WorksOnIt
    <2>3. Placed'
      BY <1>1, <2>1, StaysPlaced DEF dependents
    <2>4. obj.prRef = ref  BY <1>3, <2>1
    <2>5. UNCHANGED deps  BY <1>1 DEF dependents
    <2>6. HasPrometheusRule => HasPrometheusRule'  BY <2>1, <2>5 DEF HasPrometheusRule
    <2>7. Ruled'
      BY <1>1, <2>1, <2>2, <2>4, <2>6 DEF Ruled
    <2> QED  BY <2>3, <2>7
  <1> QED  BY <1>6, <1>7

----------------------------------------------------------------------------
(* All steps, and what they keep.                                          *)

LEMMA OtherStepsKeep ==
    ASSUME LifeInv, Placed, Ruled, Next, ~Reconcile
    PROVE  Placed' /\ Ruled'
  <1>1. CASE SyncMonitor \/ CallFails
    BY <1>1, Elsewhere DEF SyncMonitor, CallFails, Requeue
  <1>2. CASE Restart
    <2>1. ~Settled'  BY <1>2 DEF Restart, Settled
    <2> QED  BY <2>1, NotSettled
  <1>3. ASSUME NEW k \in Kinds, SyncDependent(k) PROVE Placed' /\ Ruled'
    <2>1. CASE k \in Watched  BY <1>3, <2>1, Elsewhere DEF SyncDependent
    <2>2. CASE k \notin Watched
      <3>1. UNCHANGED <<obj, cumCache, pc, deps, misread>> /\ (queued => queued')
        BY <1>3 DEF SyncDependent
      <3>2. "coreos" \notin events' => "coreos" \notin events
        BY <1>3, <2>2 DEF SyncDependent, Watched
      <3> QED  BY <3>1, <3>2, LeftAlone
    <2> QED  BY <2>1, <2>2
  <1>4. ASSUME NEW k \in ServiceMonitors, GarbageCollect(k) PROVE Placed' /\ Ruled'
    <2>1. /\ UNCHANGED <<obj, cumCache, pc, queued, misread>>
          /\ deps[k] # NoObj /\ WriteDependent(k, NoObj)
      BY <1>4 DEF GarbageCollect
    <2>2. k # "rule" /\ deps'["rule"] = deps["rule"]
      BY <2>1 DEF WriteDependent, ServiceMonitors, Kinds, LifeInv, TypeOK
    <2>3. "coreos" \notin events' => "coreos" \notin events /\ deps'["coreos"] = deps["coreos"]
      <3>1. "coreos" \in Kinds /\ "coreos" \in Watched
        BY DEF Kinds, ServiceMonitors, Watched
      <3>2. CASE k = "coreos"  BY <2>1, <3>1, <3>2 DEF WriteDependent
      <3>3. CASE k # "coreos"  BY <2>1, <3>1, <3>3 DEF WriteDependent, LifeInv, TypeOK
      <3> QED  BY <3>2, <3>3
    <2> QED  BY <2>1, <2>2, <2>3, LeftAlone
  <1>5. CASE ForeignRelease \/ DeleteMonitor
    <2>1. obj \in Monitor
      BY <1>5, Revisions DEF ForeignRelease, DeleteMonitor, LifeInv
    <2>2. PICK new \in Monitor : Store(new) /\ new.deleting /\ (new = obj => obj.deleting)
      <3>1. CASE ForeignRelease
        <4>1. [obj EXCEPT !.fin = @ \ {ForeignFinalizer}].deleting  BY <2>1, <3>1 DEF ForeignRelease, Monitor
        <4> QED  BY <2>1, <3>1, <4>1, MonitorFields DEF ForeignRelease
      <3>2. CASE DeleteMonitor
        <4>1. [obj EXCEPT !.deleting = TRUE].deleting  BY <2>1 DEF Monitor
        <4> QED  BY <2>1, <3>2, <4>1, MonitorFields DEF DeleteMonitor
      <3> QED  BY <1>5, <3>1, <3>2
    <2>3. obj' = NoObj \/ obj'.deleting
      BY <2>1, <2>2 DEF Store, Monitor
    <2>4. ~Settled'  BY <2>3 DEF Settled
    <2> QED  BY <2>4, NotSettled
  <1>6. CASE CreateMonitor \/ EditSpec
    <2>1. UNCHANGED cumCache /\ obj' \in Monitor /\ obj'.rv = rev + 1
      <3>1. rev + 1 \in Nat  BY DEF LifeInv, TypeOK
      <3>2. CASE CreateMonitor
        <4>1. PICK s \in Specs, f \in InitialFinalizers :
                obj' = [uid |-> rev + 1, rv |-> rev + 1, deleting |-> FALSE, fin |-> f, spec |-> s,
                        smRef |-> NoRef, prRef |-> NoRef, err |-> NoErr]
          BY <3>2 DEF CreateMonitor
        <4>2. f \in SUBSET AllFinalizers
          BY ClusterUrlMonitorAssumption, KeyTypes DEF AllFinalizers
        <4>3. NoErr \in MonitorErrors  BY DEF MonitorErrors
        <4> QED  BY <3>1, <3>2, <4>1, <4>2, <4>3 DEF CreateMonitor, Monitor
      <3>3. CASE EditSpec
        <4>1. obj \in Monitor  BY <3>3, Revisions DEF EditSpec, LifeInv
        <4>2. PICK s \in Specs : obj' = [obj EXCEPT !.spec = s, !.rv = rev + 1]  BY <3>3 DEF EditSpec
        <4> QED  BY <3>1, <3>3, <4>1, <4>2, MonitorFields DEF EditSpec, Monitor
      <3> QED  BY <1>6, <3>2, <3>3
    <2> QED  BY <2>1, NewRevision, NotSettled
  <1>7. CASE ChangeCluster
    BY <1>7, LeftAlone DEF ChangeCluster, dependents
  <1> QED  BY <1>1, <1>2, <1>3, <1>4, <1>5, <1>6, <1>7 DEF Next, Users

\* The steps of the reconcile that record no new reference.
LEMMA NewReferenceKept ==
    ASSUME NewReference, [Next]_vars, ~EnsureServiceMonitorExists
    PROVE  NewReference'
  <1>1. pc' = "smRef" => pc = "smRef" /\ UNCHANGED cum
    BY DEF Next, Reconcile, GetClusterUrlMonitor, FirstStep, EnsureFinalizerSet, EnsureServiceMonitorExists,
           SetServiceMonitorRef, EnsurePrometheusRuleExists, SetPrometheusRuleRef,
           DeleteServiceMonitorDeployment, DeletePrometheusRuleDeployment, RemoveFinalizer,
           UpdateMonitorResource, Deploy, Delete, Goto, Stop, Requeue, SyncMonitor, SyncDependent,
           GarbageCollect, ForeignRelease, CallFails, Restart, Users, CreateMonitor, EditSpec,
           DeleteMonitor, ChangeCluster, vars
  <1> QED  BY <1>1 DEF NewReference

LEMMA QuietKept ==
    ASSUME QuietInv, [Next]_vars
    PROVE  QuietInv'
  <1>1. LifeInv' /\ Work' /\ Caches'  BY LifeKept, WorkKept, CachesKept DEF QuietInv, LifeInv
  <1>2. NewReference'
    BY NewReferenceKept, ServiceMonitorStep DEF QuietInv
  <1>3. Placed' /\ Ruled'
    <2>1. CASE UNCHANGED vars
      BY <2>1, LeftAlone DEF QuietInv, vars
    <2>2. CASE Next /\ ~Reconcile  BY <2>2, OtherStepsKeep DEF QuietInv
    <2>3. CASE Reconcile
      BY <2>3, StartStep, FinalizerSteps, ServiceMonitorStep, ServiceMonitorRefStep,
         PrometheusRuleStep, PrometheusRuleRefStep, RemovingSteps DEF QuietInv, Reconcile
    <2> QED  BY <2>1, <2>2, <2>3
  <1> QED  BY <1>1, <1>2, <1>3 DEF QuietInv

LEMMA QuietInvariant == Spec => []QuietInv
  <1>1. Init => QuietInv
    <2>1. ASSUME Init PROVE LifeInv  BY <2>1, InitLife
    <2>2. ASSUME Init PROVE Work /\ Caches /\ NewReference /\ Placed /\ Ruled
      BY <2>2 DEF Init, Work, Caches, NewReference, Placed, Ruled, Settled
    <2> QED  BY <2>1, <2>2 DEF QuietInv
  <1>2. QuietInv /\ [Next]_vars => QuietInv'  BY QuietKept
  <1> QED  BY <1>1, <1>2, PTL DEF Spec

\* Once everything is quiet a monitor of the cluster's own domain has a referenced
\* ServiceMonitor that probes a URL it may have, whatever informers lag, fails,
\* restarts, is edited, or is collected with a predecessor (EnsureServiceMonitorExists).
THEOREM ServiceMonitorInPlace == Spec => []QuietServiceMonitor
  <1>1. QuietInv => QuietServiceMonitor
    BY DEF QuietInv, Placed, Settled, QuietServiceMonitor, Served, Quiet, HasServiceMonitor, Kind
  <1> QED  BY <1>1, QuietInvariant, PTL

\* Once everything is quiet a monitor that asks for a PrometheusRule references it and
\* has it, with the objective of its spec, unless the step that settled it went by a
\* cached rule that was behind; one that asks for none references none
\* (EnsurePrometheusRuleExists).
THEOREM PrometheusRuleInPlace == Spec => []QuietPrometheusRule
  <1>1. QuietInv => QuietPrometheusRule
    BY DEF QuietInv, Ruled, Settled, QuietPrometheusRule, Served, Quiet
  <1> QED  BY <1>1, QuietInvariant, PTL
=============================================================================
