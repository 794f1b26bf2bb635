---------------------- MODULE RouteMonitorQuietProofs ----------------------
(***************************************************************************)
(* Proofs about what RouteMonitor has achieved once nothing is left to do: *)
(* QuietServiceMonitor, QuietPrometheusRule and QuietErrorStatus, for every*)
(* set of specs and Routes and every bound.                                *)
(***************************************************************************)
EXTENDS RouteMonitorProofs

\* A reconcile works on the cached monitor, or another one is due.
Work == pc # "idle" => queued \/ rm = rmCache

\* An informer's copy is current unless an event is on its way.
Caches == \A k \in Kinds : k \notin smEvents => smCache[k] = sm[k]

\* A missing host is never reported: without a URL no reconcile gets that far.
HostReported(m) == m # NoObj => m.err # ErrNoHost
HostKnown == HostReported(obj) /\ HostReported(rmCache) /\ HostReported(rm)

\* What the steps find in the reconcile's copy of the monitor.
Prepared ==
    /\ pc = "setFinalizer" => FinalizerKey \notin rm.fin
    /\ pc \in {"serviceMonitor", "smRef", "prometheusRule", "prRef"} => rm.routeURL # NoURL
    /\ pc = "smRef" => rm.smRef = NoRef
    /\ pc \in {"prometheusRule", "prRef"} => rm.smRef = Ref
    /\ pc = "prRef" /\ ~rm.spec.skip => rm.err = Parsed(rm).err

\* No reconcile is due for a monitor that is there to stay.
Settled == obj # NoObj /\ ~obj.deleting /\ rmCache = obj /\ ~queued

\* What the status of such a monitor says once its reconcile has ended.
Recorded ==
    Settled /\ pc = "idle" =>
        /\ obj.routeURL # NoURL /\ obj.smRef = Ref
        /\ obj.prRef = IF WantsRule(obj) THEN Ref ELSE NoRef
        /\ ~obj.spec.skip => obj.err = Parsed(obj).err

\* Its ServiceMonitor, from the step on that puts it up.
Placed ==
    /\ Settled /\ ~obj.spec.rhobs /\ "coreos" \notin smEvents
    /\ pc \in {"idle", "smRef", "prometheusRule", "prRef"}
    => sm["coreos"] # NoObj /\ sm["coreos"].spec = ServiceMonitorTemplate(obj)

\* And its PrometheusRule, unless the last step on it misread it.
Ruled ==
    ~misread /\ Settled /\ pc \in {"idle", "prRef"} /\ WantsRule(obj)
    => pr # NoObj /\ pr.spec = RuleTemplate(obj)

Achieved == Prepared /\ Recorded /\ Placed /\ Ruled
QuietInv == Work /\ Caches /\ HostKnown /\ Achieved

----------------------------------------------------------------------------
(* The queue and the caches.                                               *)

\* Only the start of a reconcile, or of the operator, takes a request off the queue.
LEMMA QueueKept ==
    ASSUME Next
    PROVE  GetRouteMonitor \/ Restart \/ (queued => queued')
  <1>1. CASE Reconcile
    BY <1>1 DEF Reconcile, EnsureFinalizerSet, EnsureRouteURLExists, EnsureServiceMonitorExists,
                AfterServiceMonitor, SetServiceMonitorRef, EnsurePrometheusRuleExists,
                DeletePrometheusRule, UpdatePrometheusRuleDeployment, SetPrometheusRuleRef,
                DeleteServiceMonitorDeployment, DeletePrometheusRuleDeployment, RemoveFinalizer,
                UpdateMonitorResource, Goto, Stop, Requeue
  <1>2. CASE SyncMonitor \/ SyncPrometheusRule \/ CallFails \/ Resync
    BY <1>2 DEF SyncMonitor, SyncPrometheusRule, CallFails, Requeue, Resync
  <1>3. ASSUME NEW k \in Kinds, SyncServiceMonitor(k) \/ GarbageCollect(k) PROVE queued => queued'
    BY <1>3 DEF SyncServiceMonitor, GarbageCollect
  <1>4. CASE Users
    BY <1>4 DEF Users, CreateMonitor, EditSpec, DeleteMonitor, DeleteServiceMonitor, ChangeRoute
  <1> QED  BY <1>1, <1>2, <1>3, <1>4 DEF Next

\* Who touches the reconcile's copy, and who the cache.
LEMMA CopiesTouched ==
    ASSUME [Next]_vars
    PROVE  \/ GetRouteMonitor
           \/ SyncMonitor
           \/ pc' = "idle" /\ rm' = NoObj /\ (UNCHANGED rmCache \/ rmCache' = obj)
           \/ UNCHANGED <<rm, rmCache>> /\ (pc' # "idle" => pc # "idle")
  <1>1. CASE Reconcile
    BY <1>1 DEF Reconcile, EnsureFinalizerSet, EnsureRouteURLExists, EnsureServiceMonitorExists,
                AfterServiceMonitor, SetServiceMonitorRef, EnsurePrometheusRuleExists,
                DeletePrometheusRule, UpdatePrometheusRuleDeployment, SetPrometheusRuleRef,
                DeleteServiceMonitorDeployment, DeletePrometheusRuleDeployment, RemoveFinalizer,
                UpdateMonitorResource, Goto, Stop, Requeue
  <1>2. CASE CallFails \/ Restart  BY <1>2 DEF CallFails, Restart, Requeue
  <1>3. CASE SyncPrometheusRule \/ Resync \/ Users
             \/ \E k \in Kinds : SyncServiceMonitor(k) \/ GarbageCollect(k)
    BY <1>3 DEF SyncPrometheusRule, Resync, Users, SyncServiceMonitor, GarbageCollect,
                CreateMonitor, EditSpec, DeleteMonitor, DeleteServiceMonitor, ChangeRoute
  <1>4. CASE UNCHANGED vars  BY <1>4 DEF vars
  <1> QED  BY <1>1, <1>2, <1>3, <1>4 DEF Next

LEMMA WorkKept ==
    ASSUME Work, [Next]_vars
    PROVE  Work'
  <1>1. CASE UNCHANGED vars  BY <1>1 DEF vars, Work
  <1>2. CASE pc' = "idle"  BY <1>2 DEF Work
  <1>3. CASE GetRouteMonitor  BY <1>3 DEF GetRouteMonitor, Work
  <1>4. CASE SyncMonitor  BY <1>4 DEF SyncMonitor, Work
  <1>5. CASE Next /\ ~GetRouteMonitor /\ ~SyncMonitor /\ pc' # "idle"
    <2>1. queued => queued'  BY <1>5, QueueKept DEF Restart
    <2>2. UNCHANGED <<rm, rmCache>> /\ pc # "idle"  BY <1>5, CopiesTouched
    <2> QED  BY <2>1, <2>2 DEF Work
  <1> QED  BY <1>1, <1>2, <1>3, <1>4, <1>5

\* A write of a ServiceMonitor leaves an event, which the informer takes.
LEMMA CachesKept ==
    ASSUME TypeOK, Caches, [Next]_vars
    PROVE  Caches'
  <1> DEFINE Goal == \A k \in Kinds : k \notin smEvents' => smCache'[k] = sm'[k]
  <1> SUFFICES Goal  BY DEF Caches
  <1>1. ASSUME UNCHANGED serviceMonitors PROVE Goal  BY <1>1 DEF Caches, serviceMonitors
  <1>2. ASSUME NEW k \in Kinds, NEW new, WriteServiceMonitor(k, new), UNCHANGED smCache PROVE Goal
    BY <1>2 DEF WriteServiceMonitor, Caches, TypeOK
  <1>3. ASSUME NEW k \in Kinds, SyncServiceMonitor(k) PROVE Goal
    BY <1>3 DEF SyncServiceMonitor, Caches, TypeOK
  <1>4. CASE Restart  BY <1>4 DEF Restart
  <1>5. CASE GetRouteMonitor \/ EnsureFinalizerSet \/ EnsureRouteURLExists \/ SetServiceMonitorRef
             \/ EnsurePrometheusRuleExists \/ SetPrometheusRuleRef
             \/ DeletePrometheusRuleDeployment \/ RemoveFinalizer
             \/ SyncMonitor \/ SyncPrometheusRule \/ CallFails \/ Resync \/ UNCHANGED vars
    <2>1. UNCHANGED serviceMonitors
      BY <1>5 DEF GetRouteMonitor, EnsureFinalizerSet, EnsureRouteURLExists, SetServiceMonitorRef,
                  EnsurePrometheusRuleExists, SetPrometheusRuleRef, DeletePrometheusRuleDeployment,
                  RemoveFinalizer, SyncMonitor, SyncPrometheusRule, CallFails, Resync, vars,
                  serviceMonitors
    <2> QED  BY <1>1, <2>1
  <1>6. CASE EnsureServiceMonitorExists
    <2>1. Kind(rm.spec) \in Kinds  BY DEF Kind, Kinds
    <2> QED  BY <1>1, <1>2, <1>6, <2>1 DEF EnsureServiceMonitorExists, serviceMonitors
  <1>7. CASE DeleteServiceMonitorDeployment
    <2>1. "coreos" \in Kinds  BY DEF Kinds
    <2> QED  BY <1>1, <1>2, <1>7, <2>1 DEF DeleteServiceMonitorDeployment, serviceMonitors
  <1>8. CASE \E k \in Kinds : GarbageCollect(k)  BY <1>2, <1>8 DEF GarbageCollect
  <1>9. CASE Users
    <2>1. CASE \E k \in Meddled : DeleteServiceMonitor(k)
      BY <1>2, <2>1, RouteMonitorAssumption DEF DeleteServiceMonitor
    <2>2. CASE CreateMonitor \/ EditSpec \/ DeleteMonitor \/ ChangeRoute
      BY <1>1, <2>2 DEF CreateMonitor, EditSpec, DeleteMonitor, ChangeRoute
    <2> QED  BY <1>9, <2>1, <2>2 DEF Users
  <1> QED  BY <1>3, <1>4, <1>5, <1>6, <1>7, <1>8, <1>9 DEF Next, Reconcile

----------------------------------------------------------------------------
(* What unsettles a monitor, and what leaves it alone.                     *)

\* With a reconcile due or an outdated cache nothing has been achieved yet.
LEMMA NotSettled ==
    ASSUME ~Settled', Prepared'
    PROVE  Achieved'
  BY DEF Achieved, Recorded, Placed, Ruled

\* An ended reconcile claims nothing for its copy.
LEMMA IdlePrepared ==
    ASSUME pc' \notin {"setFinalizer", "serviceMonitor", "smRef", "prometheusRule", "prRef"}
    PROVE  Prepared'
  BY DEF Prepared

\* A new revision is not in the cache.
LEMMA NewRevision ==
    ASSUME IndInv, UNCHANGED rmCache, obj'.rv = rev + 1
    PROVE  ~Settled'
  <1>1. rev \in Nat /\ (rmCache # NoObj => rmCache.rv \in Nat /\ rmCache.rv <= rev)
    BY Revisions DEF IndInv, CopyOf
  <1> QED  BY <1>1 DEF Settled

\* A write of the monitor ends the reconcile and has another follow, unless it changed
\* nothing; it reports no missing host that the written copy does not report.
LEMMA Updates ==
    ASSUME IndInv, pc # "idle", NEW new \in Monitor, UpdateMonitorResource(new), UNCHANGED rmCache
    PROVE  /\ pc' = "idle" /\ rm' = NoObj
           /\ \/ ~Settled'
              \/ new = obj /\ rm = obj /\ UNCHANGED <<obj, rev, queued>>
           /\ obj' = obj \/ obj' = NoObj \/ obj'.err = new.err
  <1>1. pc' = "idle" /\ rm' = NoObj  BY DEF UpdateMonitorResource, Stop, Requeue
  <1>2. CASE ~Fresh(obj, rm)
    BY <1>1, <1>2 DEF UpdateMonitorResource, Requeue, Settled
  <1>3. CASE Fresh(obj, rm)
    <2>1. Store(new) /\ Stop  BY <1>3 DEF UpdateMonitorResource
    <2>2. rm = obj  BY <1>3, FreshIsStored
    <2>3. CASE obj' = NoObj  BY <1>1, <2>3 DEF Settled
    <2>4. CASE new = obj /\ UNCHANGED <<obj, rev>>  BY <1>1, <2>1, <2>2, <2>4 DEF Stop
    <2>5. CASE obj' = [new EXCEPT !.rv = rev + 1]
      <3>1. obj'.rv = rev + 1 /\ obj'.err = new.err  BY <2>5 DEF Monitor
      <3> QED  BY <1>1, <3>1, NewRevision
    <2> QED  BY <2>1, <2>3, <2>4, <2>5 DEF Store
  <1> QED  BY <1>2, <1>3

\* A write that changes the monitor.
LEMMA ChangedIsUnsettled ==
    ASSUME IndInv, pc # "idle", NEW new \in Monitor, UpdateMonitorResource(new),
           UNCHANGED rmCache, new # rm
    PROVE  Achieved'
  <1>1. ~Settled' /\ pc' = "idle"  BY Updates
  <1> QED  BY <1>1, NotSettled, IdlePrepared

\* Away from the steps between which a monitor is served there is nothing to claim.
LEMMA Elsewhere ==
    ASSUME pc' \notin {"idle", "setFinalizer", "serviceMonitor", "smRef", "prometheusRule", "prRef"}
           \/ (queued' = TRUE /\ pc' = "idle")
    PROVE  Achieved'
  BY DEF Achieved, Prepared, Recorded, Placed, Ruled, Settled

\* A monitor stays served as long as neither it, its reconcile nor its dependents move,
\* or the ServiceMonitor's event is on its way.
LEMMA LeftAlone ==
    ASSUME Achieved, UNCHANGED <<obj, rmCache, pc, rm, pr, misread>>, queued => queued',
           "coreos" \notin smEvents' => "coreos" \notin smEvents /\ sm'["coreos"] = sm["coreos"]
    PROVE  Achieved'
  <1>1. Settled' => Settled  BY DEF Settled
  <1>2. Prepared'  BY DEF Achieved, Prepared
  <1>3. Recorded'  BY <1>1 DEF Achieved, Recorded
  <1>4. Placed'  BY <1>1 DEF Achieved, Placed
  <1>5. Ruled'  BY <1>1 DEF Achieved, Ruled
  <1> QED  BY <1>2, <1>3, <1>4, <1>5 DEF Achieved

\* With a URL the only error is that of the SLO (ParseMonitorSLOSpecs).
LEMMA ParsedErrors ==
    ASSUME NEW m, m.routeURL # NoURL
    PROVE  Parsed(m).err \in {NoErr, ErrInvalidSLO}
  BY DEF Parsed, ParseMonitorSLOSpecs

\* The error that a reconcile writes is the parsed one.
LEMMA ErrorWritten ==
    ASSUME NEW status, NEW err, SetErrorStatus(status, err).changed
    PROVE  SetErrorStatus(status, err).status = err /\ err # status
  BY DEF SetErrorStatus

\* And the error that it leaves is the parsed one, since there are but two.
LEMMA ErrorKept ==
    ASSUME NEW m \in Monitor, m.err # ErrNoHost, m.routeURL # NoURL,
           ~SetErrorStatus(m.err, Parsed(m).err).changed
    PROVE  m.err = Parsed(m).err
  <1>1. m.err \in {NoErr, ErrInvalidSLO}  BY DEF Monitor, MonitorErrors
  <1>2. Parsed(m).err \in {NoErr, ErrInvalidSLO}  BY ParsedErrors
  <1>3. NoErr # ErrInvalidSLO  BY DEF NoErr, ErrInvalidSLO
  <1> QED  BY <1>1, <1>2, <1>3 DEF SetErrorStatus

\* No reconcile reports a missing host.
LEMMA HostKept ==
    ASSUME IndInv, HostKnown, Prepared, [Next]_vars
    PROVE  HostKnown'
  <1>1. HostReported(obj)'
    <2>1. CASE UNCHANGED obj  BY <2>1 DEF HostKnown, HostReported
    <2>2. ASSUME pc # "idle", NEW new \in Monitor, UpdateMonitorResource(new), UNCHANGED rmCache,
                 new.err # ErrNoHost
          PROVE  HostReported(obj)'
      BY <2>2, Updates DEF HostKnown, HostReported
    <2>3. pc # "idle" => rm \in Monitor /\ rm.err # ErrNoHost
      BY DEF IndInv, HasCopy, TypeOK, HostKnown, HostReported
    <2>4. CASE EnsureFinalizerSet
      <3> DEFINE new == DeleteFinalizer(SetFinalizer(rm, FinalizerKey).obj, PrevFinalizerKey).obj
      <3>1. rm \in Monitor /\ pc # "idle" /\ rm.err # ErrNoHost /\ UpdateMonitorResource(new)
            /\ UNCHANGED rmCache
        BY <2>3, <2>4 DEF EnsureFinalizerSet
      <3>2. new \in Monitor  BY <3>1, MonitorFields, KeyTypes
      <3>3. new.err = rm.err  BY <3>1 DEF Monitor, SetFinalizer, DeleteFinalizer
      <3> HIDE DEF new
      <3> QED  BY <2>2, <3>1, <3>2, <3>3
    <2>5. CASE RemoveFinalizer /\ obj' # obj
      <3> DEFINE new == DeleteFinalizer(DeleteFinalizer(rm, FinalizerKey).obj, PrevFinalizerKey).obj
      <3>1. rm \in Monitor /\ pc # "idle" /\ rm.err # ErrNoHost /\ UpdateMonitorResource(new)
            /\ UNCHANGED rmCache
        BY <2>3, <2>5 DEF RemoveFinalizer
      <3>2. new \in Monitor  BY <3>1, MonitorFields, KeyTypes
      <3>3. new.err = rm.err  BY <3>1 DEF Monitor, SetFinalizer, DeleteFinalizer
      <3> HIDE DEF new
      <3> QED  BY <2>2, <3>1, <3>2, <3>3
    <2>6. CASE EnsureRouteURLExists /\ obj' # obj
      <3>1. /\ rm \in Monitor /\ pc # "idle" /\ rm.err # ErrNoHost /\ RouteUsable(rm.spec)
            /\ UpdateMonitorResource([rm EXCEPT !.routeURL = ExtractedRouteURL(rm.spec)])
            /\ UNCHANGED rmCache
        BY <2>3, <2>6 DEF EnsureRouteURLExists
      <3>2. ExtractedRouteURL(rm.spec) \in URL  BY <3>1, ExtractedURL DEF IndInv, Monitor
      <3>3. [rm EXCEPT !.routeURL = ExtractedRouteURL(rm.spec)] \in Monitor
        BY <3>1, <3>2, MonitorFields
      <3>4. [rm EXCEPT !.routeURL = ExtractedRouteURL(rm.spec)].err = rm.err
        BY <3>1 DEF Monitor
      <3> QED  BY <2>2, <3>1, <3>3, <3>4
    <2>7. CASE SetServiceMonitorRef
      <3>1. rm \in Monitor /\ pc # "idle" /\ rm.err # ErrNoHost
        BY <2>3, <2>7 DEF SetServiceMonitorRef
      <3>2. [rm EXCEPT !.smRef = SetResourceReference(@, Ref).ref] \in Monitor
        BY <3>1, RefTypes, MonitorFields
      <3>3. [rm EXCEPT !.smRef = SetResourceReference(@, Ref).ref].err = rm.err
        BY <3>1 DEF Monitor
      <3> QED  BY <2>2, <2>7, <3>1, <3>2, <3>3 DEF SetServiceMonitorRef
    <2>8. CASE SetPrometheusRuleRef
      <3>1. rm \in Monitor /\ pc # "idle" /\ rm.err # ErrNoHost
        BY <2>3, <2>8 DEF SetPrometheusRuleRef
      <3>2. PICK ref \in {NoRef, Ref} :
              UpdateMonitorResource([rm EXCEPT !.prRef = SetResourceReference(@, ref).ref])
        BY <2>8 DEF SetPrometheusRuleRef
      <3>3. [rm EXCEPT !.prRef = SetResourceReference(@, ref).ref] \in Monitor
        BY <3>1, RefTypes, MonitorFields
      <3>4. [rm EXCEPT !.prRef = SetResourceReference(@, ref).ref].err = rm.err
        BY <3>1 DEF Monitor
      <3> QED  BY <2>2, <2>8, <3>1, <3>2, <3>3, <3>4 DEF SetPrometheusRuleRef
    <2>9. CASE EnsurePrometheusRuleExists /\ obj' # obj
      <3> DEFINE error == SetErrorStatus(rm.err, Parsed(rm).err)
                 new == [rm EXCEPT !.err = error.status]
      <3>1. /\ rm \in Monitor /\ pc # "idle" /\ pc = "prometheusRule" /\ UNCHANGED rmCache
            /\ error.changed /\ UpdateMonitorResource(new)
        BY <2>3, <2>9 DEF EnsurePrometheusRuleExists
      <3>2. error.status = Parsed(rm).err  BY <3>1, ErrorWritten
      <3>3. Parsed(rm).err \in {NoErr, ErrInvalidSLO} /\ Parsed(rm).err \in MonitorErrors
        BY <3>1, ParsedErrors, ParsedTypes DEF Prepared
      <3>4. error.status # ErrNoHost  BY <3>2, <3>3 DEF NoErr, ErrInvalidSLO, ErrNoHost
      <3>5. error.status \in MonitorErrors  BY <3>2, <3>3
      <3> HIDE DEF error
      <3>6. new \in Monitor  BY <3>1, <3>5, MonitorFields
      <3>7. new.err # ErrNoHost  BY <3>1, <3>4 DEF Monitor
      <3> HIDE DEF new
      <3> QED  BY <2>2, <3>1, <3>6, <3>7
    <2>10. CASE CreateMonitor \/ EditSpec \/ DeleteMonitor
      <3>1. obj # NoObj => obj \in Monitor /\ obj.err # ErrNoHost
        BY DEF IndInv, TypeOK, HostKnown, HostReported
      <3>2. NoErr # ErrNoHost  BY DEF NoErr, ErrNoHost
      <3>3. CASE CreateMonitor  BY <3>2, <3>3 DEF CreateMonitor, HostReported
      <3>4. CASE EditSpec  BY <3>1, <3>4 DEF EditSpec, HostReported, Monitor
      <3>5. CASE DeleteMonitor  BY <3>1, <3>5 DEF DeleteMonitor, HostReported, Monitor
      <3> QED  BY <2>10, <3>3, <3>4, <3>5
    <2> QED
      BY <2>1, <2>4, <2>5, <2>6, <2>7, <2>8, <2>9, <2>10
      DEF Next, Reconcile, GetRouteMonitor, EnsureServiceMonitorExists, DeleteServiceMonitorDeployment,
          DeletePrometheusRuleDeployment, SyncMonitor, SyncPrometheusRule, SyncServiceMonitor,
          GarbageCollect, CallFails, Restart, Resync, Users, DeleteServiceMonitor, ChangeRoute, vars
  <1>2. HostReported(rm)' /\ HostReported(rmCache)'
    BY CopiesTouched DEF GetRouteMonitor, SyncMonitor, HostKnown, HostReported
  <1> QED  BY <1>1, <1>2 DEF HostKnown

----------------------------------------------------------------------------
(* The steps of the reconcile.                                             *)

\* The reconcile of a settled monitor works on it, and was settled before.
LEMMA WorksOnIt ==
    ASSUME Work, pc # "idle", UNCHANGED <<obj, rmCache>>, queued => queued', Settled'
    PROVE  Settled /\ rm = obj
  BY DEF Settled, Work

LEMMA StartStep ==
    ASSUME GetRouteMonitor
    PROVE  Achieved'
  <1>1. CASE rmCache = NoObj
    <2>1. ~Settled' /\ pc' = "idle"  BY <1>1 DEF GetRouteMonitor, Settled
    <2> QED  BY <2>1, NotSettled, IdlePrepared
  <1>2. CASE rmCache # NoObj
    <2>1. pc' = FirstStep(rmCache)  BY <1>2 DEF GetRouteMonitor
    <2>2. CASE pc' \in {"deleteServiceMonitor", "routeURL"}  BY <2>2, Elsewhere
    <2>3. CASE pc' = "setFinalizer" /\ FinalizerKey \notin rm'.fin
      BY <2>3 DEF Achieved, Prepared, Recorded, Placed, Ruled
    <2>4. rm' = rmCache  BY DEF GetRouteMonitor
    <2> QED  BY <2>1, <2>2, <2>3, <2>4 DEF FirstStep, SetFinalizer, HasFinalizer
  <1> QED  BY <1>1, <1>2


LEMMA SetFinalizerStep ==
    ASSUME IndInv, Prepared, EnsureFinalizerSet
    PROVE  Achieved'
  <1> DEFINE new == DeleteFinalizer(SetFinalizer(rm, FinalizerKey).obj, PrevFinalizerKey).obj
  <1>1. rm \in Monitor /\ pc # "idle" /\ UpdateMonitorResource(new) /\ UNCHANGED rmCache
    BY DEF EnsureFinalizerSet, IndInv, HasCopy, TypeOK
  <1>2. new \in Monitor  BY <1>1, MonitorFields, KeyTypes
  <1>3. FinalizerKey \in new.fin
    BY <1>1 DEF SetFinalizer, DeleteFinalizer, Monitor, FinalizerKey, PrevFinalizerKey
  <1>4. new # rm  BY <1>3 DEF EnsureFinalizerSet, Prepared
  <1> HIDE DEF new
  <1> QED  BY <1>1, <1>2, <1>4, ChangedIsUnsettled

\* A monitor whose finalizer is removed, or had none, is not there to stay.
LEMMA RemoveFinalizerStep ==
    ASSUME IndInv, Work, RemoveFinalizer
    PROVE  Achieved'
  <1> DEFINE new == DeleteFinalizer(DeleteFinalizer(rm, FinalizerKey).obj, PrevFinalizerKey).obj
  <1>1. rm \in Monitor /\ pc # "idle" /\ UNCHANGED rmCache /\ rm.deleting
    BY DEF RemoveFinalizer, IndInv, HasCopy, TypeOK, RemovingCopy, Removing
  <1>2. CASE Stop /\ UNCHANGED <<obj, rev>>
    <2>1. pc' = "idle" /\ UNCHANGED queued  BY <1>2 DEF Stop
    <2>2. ~Settled'
      <3>1. Settled' => Settled /\ rm = obj  BY <1>1, <1>2, <2>1, WorksOnIt
      <3> QED  BY <1>1, <3>1 DEF Settled
    <2> QED  BY <2>1, <2>2, NotSettled, IdlePrepared
  <1>3. CASE DeleteFinalizer(rm, FinalizerKey).changed /\ UpdateMonitorResource(new)
    <2>1. new \in Monitor  BY <1>1, MonitorFields, KeyTypes
    <2>2. FinalizerKey \in rm.fin /\ FinalizerKey \notin new.fin
      BY <1>1, <1>3 DEF DeleteFinalizer, HasFinalizer, Monitor
    <2> HIDE DEF new
    <2>3. new # rm  BY <2>2
    <2> QED  BY <1>1, <1>3, <2>1, <2>3, ChangedIsUnsettled
  <1> QED  BY <1>2, <1>3 DEF RemoveFinalizer

\* The URL is known, or recorded now.
LEMMA RouteURLStep ==
    ASSUME IndInv, EnsureRouteURLExists
    PROVE  Achieved'
  <1> DEFINE url == ExtractedRouteURL(rm.spec)
             new == [rm EXCEPT !.routeURL = url]
  <1>1. rm \in Monitor /\ pc # "idle" /\ UNCHANGED rmCache
    BY DEF EnsureRouteURLExists, IndInv, HasCopy, TypeOK
  <1>2. RouteUsable(rm.spec) => url \in URL  BY <1>1, ExtractedURL DEF IndInv, Monitor
  <1>3. CASE Requeue  BY <1>3, Elsewhere DEF Requeue
  <1>4. CASE RouteUsable(rm.spec) /\ rm.routeURL = url /\ Goto("serviceMonitor")
    <2>1. rm'.routeURL # NoURL /\ pc' = "serviceMonitor"
      BY <1>2, <1>4, RouteMonitorAssumption DEF Goto
    <2> QED  BY <2>1 DEF Achieved, Prepared, Recorded, Placed, Ruled
  <1>5. CASE RouteUsable(rm.spec) /\ rm.routeURL # url /\ UpdateMonitorResource(new)
    <2>1. new \in Monitor  BY <1>1, <1>2, <1>5, MonitorFields
    <2>2. new.routeURL = url  BY <1>1 DEF Monitor
    <2>3. new # rm  BY <1>5, <2>2
    <2> HIDE DEF new
    <2> QED  BY <1>1, <1>5, <2>1, <2>3, ChangedIsUnsettled
  <1> QED  BY <1>3, <1>4, <1>5 DEF EnsureRouteURLExists

\* The ServiceMonitor is as the template wants it, or its event is on the way; its
\* reference is known, or recorded next.
LEMMA ServiceMonitorStep ==
    ASSUME IndInv, Work, Caches, Prepared, EnsureServiceMonitorExists
    PROVE  Achieved'
  <1>1. CASE Requeue  BY <1>1, Elsewhere DEF Requeue
  <1>2. CASE AfterServiceMonitor
    <2>1. /\ rm \in Monitor /\ pc # "idle" /\ UNCHANGED <<obj, rmCache>> /\ rm.routeURL # NoURL
      BY DEF EnsureServiceMonitorExists, IndInv, HasCopy, TypeOK, Prepared
    <2>2. rm.smRef \in {NoRef, Ref}  BY <2>1 DEF Monitor
    <2>3. /\ UNCHANGED <<rm, queued>>
          /\ \/ pc' = "smRef" /\ rm.smRef = NoRef
             \/ pc' = "prometheusRule" /\ rm.smRef = Ref
      BY <1>2, <2>2 DEF AfterServiceMonitor, Goto, SetResourceReference
    <2>4. Prepared'  BY <2>1, <2>3 DEF Prepared
    <2>5. ASSUME Settled', ~obj'.spec.rhobs, "coreos" \notin smEvents'
          PROVE  sm'["coreos"] # NoObj /\ sm'["coreos"].spec = ServiceMonitorTemplate(obj')
      <3>1. rm = obj /\ obj' = obj  BY <2>1, <2>3, <2>5, WorksOnIt
      <3>2. Kind(rm.spec) = "coreos" /\ "coreos" \in Kinds  BY <2>5, <3>1 DEF Kind, Kinds
      <3>3. /\ smCache["coreos"] # NoObj /\ smCache["coreos"].spec = ServiceMonitorTemplate(rm)
            /\ UNCHANGED <<sm, smEvents>>
        BY <1>2, <2>1, <2>5, <3>2
        DEF EnsureServiceMonitorExists, WriteServiceMonitor, AfterServiceMonitor, Goto, Requeue
      <3>4. smCache["coreos"] = sm["coreos"]  BY <2>5, <3>2, <3>3 DEF Caches
      <3> QED  BY <3>1, <3>3, <3>4
    <2>6. Placed'  BY <2>5 DEF Placed
    <2>7. Recorded' /\ Ruled'  BY <2>3 DEF Recorded, Ruled
    <2> QED  BY <2>4, <2>6, <2>7 DEF Achieved
  <1> QED  BY <1>1, <1>2 DEF EnsureServiceMonitorExists

\* The reference to the ServiceMonitor is new.
LEMMA ServiceMonitorRefStep ==
    ASSUME IndInv, Prepared, SetServiceMonitorRef
    PROVE  Achieved'
  <1> DEFINE new == [rm EXCEPT !.smRef = SetResourceReference(@, Ref).ref]
  <1>1. rm \in Monitor /\ pc # "idle" /\ UpdateMonitorResource(new) /\ UNCHANGED rmCache
    BY DEF SetServiceMonitorRef, IndInv, HasCopy, TypeOK
  <1>2. new \in Monitor  BY <1>1, RefTypes, MonitorFields
  <1>3. rm.smRef = NoRef /\ NoRef # Ref  BY DEF SetServiceMonitorRef, Prepared, NoRef, Ref
  <1>4. new.smRef = Ref  BY <1>1, <1>3 DEF Monitor, SetResourceReference
  <1>5. new # rm  BY <1>3, <1>4
  <1> HIDE DEF new
  <1> QED  BY <1>1, <1>2, <1>5, ChangedIsUnsettled

\* The monitor's removal is no upkeep.
LEMMA RemovingSteps ==
    ASSUME DeleteServiceMonitorDeployment \/ DeletePrometheusRuleDeployment
    PROVE  Achieved'
  <1>1. pc' \in {"deletePrometheusRule", "removeFinalizer"} \/ Requeue
    BY DEF DeleteServiceMonitorDeployment, DeletePrometheusRuleDeployment, DeletePrometheusRule, Goto
  <1> QED  BY <1>1, Elsewhere DEF Requeue

\* The ServiceMonitor's part, in a step that is about the rule.
LEMMA StaysPlaced ==
    ASSUME Placed, UNCHANGED <<obj, rmCache, serviceMonitors>>, queued => queued',
           pc \in {"prometheusRule", "prRef"}
    PROVE  Placed'
  <1>1. Settled' => Settled  BY DEF Settled
  <1> QED  BY <1>1 DEF Placed, serviceMonitors

\* The rule is taken down, or there is none, for a monitor that wants none.
LEMMA RuleDeleted ==
    ASSUME IndInv, QuietInv, pc = "prometheusRule", ~WantsRule(rm), DeletePrometheusRule("prRef"),
           rm.spec.skip \/ ~SetErrorStatus(rm.err, Parsed(rm).err).changed,
           UNCHANGED <<obj, rmCache, serviceMonitors>>
    PROVE  Achieved'
  <1>1. CASE Requeue  BY <1>1, Elsewhere DEF Requeue
  <1>2. CASE Goto("prRef")
    <2>1. /\ rm \in Monitor /\ rm.routeURL # NoURL /\ rm.smRef = Ref /\ rm.err # ErrNoHost
          /\ rm # NoObj
      BY DEF IndInv, HasCopy, TypeOK, QuietInv, Achieved, Prepared, HostKnown, HostReported
    <2>2. ~rm.spec.skip => rm.err = Parsed(rm).err  BY <2>1, ErrorKept
    <2>3. pc' = "prRef" /\ UNCHANGED <<rm, queued>>  BY <1>2 DEF Goto
    <2>4. Prepared'  BY <2>1, <2>2, <2>3 DEF Prepared
    <2>5. Placed'  BY <2>3, StaysPlaced DEF QuietInv, Achieved
    <2>6. Settled' => rm = obj /\ obj' = obj  BY <2>3, WorksOnIt DEF QuietInv
    <2>7. Ruled' /\ Recorded'  BY <2>3, <2>6 DEF Ruled, Recorded
    <2> QED  BY <2>4, <2>5, <2>7 DEF Achieved
  <1> QED  BY <1>1, <1>2 DEF DeletePrometheusRule

\* What a create or update leaves of the rule, if it is not misread.
LEMMA RuleWritten ==
    ASSUME TypeOK, rm \in Monitor, UpdatePrometheusRuleDeployment, ~Requeue
    PROVE  /\ prCache = pr => pr' # NoObj /\ pr'.spec = RuleTemplate(rm)
           /\ IF SetResourceReference(rm.prRef, Ref).updated THEN Goto("prRef") ELSE Stop
  <1>1. [rv |-> rev + 1, spec |-> RuleTemplate(rm)] \in PrometheusRule
    BY ParsedTypes DEF RuleTemplate, PrometheusRule, Monitor, TypeOK
  <1>2. [rv |-> rev + 1, spec |-> RuleTemplate(rm)] # NoObj  BY <1>1, RouteMonitorAssumption
  <1>3. \/ pr' = [rv |-> rev + 1, spec |-> RuleTemplate(rm)]
        \/ prCache # NoObj /\ prCache.spec = RuleTemplate(rm) /\ pr' = pr
    BY DEF UpdatePrometheusRuleDeployment, WriteRule
  <1>4. IF SetResourceReference(rm.prRef, Ref).updated THEN Goto("prRef") ELSE Stop
    BY DEF UpdatePrometheusRuleDeployment
  <1> QED  BY <1>2, <1>3, <1>4

\* The rule is put up, and its reference is known or recorded next.
LEMMA RuleDeployed ==
    ASSUME IndInv, QuietInv, pc = "prometheusRule", WantsRule(rm), UpdatePrometheusRuleDeployment,
           ~SetErrorStatus(rm.err, Parsed(rm).err).changed,
           misread' = (prCache # pr), UNCHANGED <<obj, rmCache, serviceMonitors>>
    PROVE  Achieved'
  <1>1. CASE Requeue  BY <1>1, Elsewhere DEF Requeue
  <1>2. CASE ~Requeue
    <2>1. /\ TypeOK /\ rm \in Monitor /\ rm.routeURL # NoURL /\ rm.smRef = Ref
          /\ rm.prRef \in {NoRef, Ref} /\ rm.err # ErrNoHost
      BY DEF IndInv, HasCopy, TypeOK, QuietInv, Achieved, Prepared, HostKnown, HostReported, Monitor
    <2>2. rm.err = Parsed(rm).err  BY <2>1, ErrorKept
    <2>3. /\ ~misread' => pr' # NoObj /\ pr'.spec = RuleTemplate(rm)
          /\ IF SetResourceReference(rm.prRef, Ref).updated THEN Goto("prRef") ELSE Stop
      BY <1>2, <2>1, RuleWritten
    <2>4. /\ UNCHANGED queued
          /\ \/ pc' = "prRef" /\ UNCHANGED rm
             \/ pc' = "idle" /\ rm.prRef = Ref
      <3>1. SetResourceReference(rm.prRef, Ref).updated \/ rm.prRef = Ref
        BY <2>1 DEF SetResourceReference
      <3> QED  BY <2>3, <3>1 DEF Goto, Stop
    <2>5. Prepared'  BY <2>1, <2>2, <2>4 DEF Prepared
    <2>6. Placed'  BY <2>4, StaysPlaced DEF QuietInv, Achieved
    <2>7. Settled' => rm = obj /\ obj' = obj  BY <2>4, WorksOnIt DEF QuietInv
    <2>8. Ruled'  BY <2>3, <2>7 DEF Ruled
    <2>9. Recorded'  BY <2>1, <2>2, <2>4, <2>7 DEF Recorded
    <2> QED  BY <2>5, <2>6, <2>8, <2>9 DEF Achieved
  <1> QED  BY <1>1, <1>2

LEMMA PrometheusRuleStep ==
    ASSUME IndInv, QuietInv, EnsurePrometheusRuleExists
    PROVE  Achieved'
  <1> DEFINE error == SetErrorStatus(rm.err, Parsed(rm).err)
             new == [rm EXCEPT !.err = error.status]
  <1>1. /\ pc = "prometheusRule" /\ pc # "idle" /\ rm \in Monitor
        /\ misread' = (prCache # pr) /\ UNCHANGED <<rmCache, serviceMonitors>>
    BY DEF EnsurePrometheusRuleExists, IndInv, HasCopy, TypeOK
  <1>2. CASE error.changed /\ UpdateMonitorResource(new)
    <2>1. error.status = Parsed(rm).err /\ error.status # rm.err  BY <1>2, ErrorWritten
    <2>2. error.status \in MonitorErrors  BY <1>1, <2>1, ParsedTypes
    <2> HIDE DEF error
    <2>3. new \in Monitor /\ new.err = error.status  BY <1>1, <2>2, MonitorFields DEF Monitor
    <2>4. new # rm  BY <2>1, <2>3
    <2> HIDE DEF new
    <2> QED  BY <1>1, <1>2, <2>3, <2>4, ChangedIsUnsettled
  <1>3. CASE /\ ~WantsRule(rm) /\ (rm.spec.skip \/ ~error.changed)
             /\ DeletePrometheusRule("prRef") /\ UNCHANGED <<obj, rev>>
    BY <1>1, <1>3, RuleDeleted
  <1>4. CASE ~error.changed /\ WantsRule(rm) /\ UpdatePrometheusRuleDeployment /\ UNCHANGED obj
    BY <1>1, <1>4, RuleDeployed
  <1>5. rm.spec.skip => ~WantsRule(rm)  BY DEF WantsRule
  <1> QED
    <2> HIDE DEF error
    <2> QED  BY <1>2, <1>3, <1>4, <1>5 DEF EnsurePrometheusRuleExists, error

\* The reference to the rule is recorded, or is as it should be.
LEMMA PrometheusRuleRefStep ==
    ASSUME IndInv, QuietInv, SetPrometheusRuleRef
    PROVE  Achieved'
  <1> DEFINE ref == IF WantsRule(rm) THEN Ref ELSE NoRef
             new == [rm EXCEPT !.prRef = SetResourceReference(@, ref).ref]
  <1>1. /\ rm \in Monitor /\ rm # NoObj /\ pc = "prRef" /\ pc # "idle"
        /\ UNCHANGED <<rmCache, serviceMonitors, pr, misread>>
    BY DEF SetPrometheusRuleRef, IndInv, HasCopy, TypeOK
  <1>2. ref \in {NoRef, Ref}  OBVIOUS
  <1>3. SetResourceReference(rm.prRef, ref).ref = ref
    <2>1. rm.prRef \in {NoRef, Ref}  BY <1>1 DEF Monitor
    <2> HIDE DEF ref
    <2> QED  BY <1>2, <2>1 DEF SetResourceReference
  <1>4. UpdateMonitorResource(new)  BY DEF SetPrometheusRuleRef
  <1>5. new \in Monitor /\ new.prRef = ref
    <2> HIDE DEF ref
    <2> QED  BY <1>1, <1>2, <1>3, MonitorFields DEF Monitor
  <1> HIDE DEF new
  <1>6. pc' = "idle" /\ (~Settled' \/ (new = obj /\ rm = obj /\ UNCHANGED <<obj, rev, queued>>))
    BY <1>1, <1>4, <1>5, Updates
  <1>7. Prepared'  BY <1>6, IdlePrepared
  <1>8. CASE ~Settled'  BY <1>7, <1>8, NotSettled
  <1>9. CASE Settled'
    <2>1. obj.prRef = ref /\ rm = obj /\ UNCHANGED <<obj, rmCache, queued>>
      BY <1>1, <1>5, <1>6, <1>9
    <2>2. Settled  BY <1>9, <2>1 DEF Settled
    <2>3. Placed'  BY <1>1, <2>1, StaysPlaced DEF QuietInv, Achieved
    <2>4. Ruled'  BY <1>1, <2>1, <2>2 DEF Ruled, QuietInv, Achieved
    <2>5. Recorded'  BY <1>1, <2>1 DEF Recorded, QuietInv, Achieved, Prepared
    <2> QED  BY <1>7, <2>3, <2>4, <2>5 DEF Achieved
  <1> QED  BY <1>8, <1>9

----------------------------------------------------------------------------
(* All steps, and what they keep.                                          *)

LEMMA OtherStepsKeep ==
    ASSUME IndInv, QuietInv, Next, ~Reconcile
    PROVE  Achieved'
  <1> USE DEF QuietInv, Achieved
  <1>1. ASSUME UNCHANGED pc, UNCHANGED rm, ~Settled' PROVE Achieved'
    <2>1. Prepared'  BY <1>1 DEF Prepared
    <2> QED  BY <1>1, <2>1, NotSettled
  <1>2. CASE SyncMonitor \/ Resync
    BY <1>1, <1>2 DEF SyncMonitor, Resync, Settled
  <1>3. CASE CallFails  BY <1>3, Elsewhere DEF CallFails, Requeue
  <1>4. CASE Restart
    <2>1. ~Settled' /\ pc' = "idle"  BY <1>4 DEF Restart, Settled
    <2> QED  BY <2>1, NotSettled, IdlePrepared
  <1>5. CASE SyncPrometheusRule
    BY <1>5, LeftAlone DEF SyncPrometheusRule, serviceMonitors
  <1>6. ASSUME NEW k \in Kinds, SyncServiceMonitor(k) PROVE Achieved'
    <2>1. CASE k = "coreos"
      <3>1. ~Settled' /\ UNCHANGED <<pc, rm>>  BY <1>6, <2>1 DEF SyncServiceMonitor, Settled
      <3> QED  BY <1>1, <3>1
    <2>2. CASE k # "coreos"
      <3>1. /\ UNCHANGED <<obj, rmCache, pc, rm, pr, misread, sm>> /\ (queued => queued')
            /\ "coreos" \notin smEvents' => "coreos" \notin smEvents
        BY <1>6, <2>2 DEF SyncServiceMonitor
      <3> QED  BY <3>1, LeftAlone
    <2> QED  BY <2>1, <2>2
  <1>7. ASSUME NEW k \in Kinds, WriteServiceMonitor(k, NoObj),
               UNCHANGED <<obj, rmCache, queued, pc, rm, pr, misread>>
        PROVE  Achieved'
    <2>1. "coreos" \notin smEvents' => "coreos" \notin smEvents /\ sm'["coreos"] = sm["coreos"]
      BY <1>7 DEF WriteServiceMonitor, IndInv, TypeOK, Kinds
    <2> QED  BY <1>7, <2>1, LeftAlone
  <1>8. ASSUME NEW k \in Kinds, GarbageCollect(k) PROVE Achieved'
    BY <1>7, <1>8 DEF GarbageCollect
  <1>9. ASSUME NEW k \in Meddled, DeleteServiceMonitor(k) PROVE Achieved'
    BY <1>7, <1>9, RouteMonitorAssumption DEF DeleteServiceMonitor
  <1>10. CASE CreateMonitor \/ EditSpec
    <2>1. UNCHANGED <<rmCache, pc, rm>> /\ obj'.rv = rev + 1
      <3>1. CASE CreateMonitor  BY <3>1 DEF CreateMonitor
      <3>2. CASE EditSpec
        <4>1. obj \in Monitor  BY <3>2 DEF EditSpec, IndInv, TypeOK
        <4> QED  BY <3>2, <4>1 DEF EditSpec, Monitor
      <3> QED  BY <1>10, <3>1, <3>2
    <2> QED  BY <1>1, <2>1, NewRevision
  <1>11. CASE DeleteMonitor
    <2>1. UNCHANGED <<rmCache, pc, rm>> /\ (obj' = NoObj \/ obj'.deleting)
      BY <1>11 DEF DeleteMonitor, IndInv, TypeOK, Monitor
    <2> QED  BY <1>1, <2>1 DEF Settled
  <1>12. CASE ChangeRoute
    BY <1>12, LeftAlone DEF ChangeRoute, serviceMonitors
  <1> QED
    BY <1>2, <1>3, <1>4, <1>5, <1>6, <1>8, <1>9, <1>10, <1>11, <1>12 DEF Next, Users

LEMMA QuietKept ==
    ASSUME IndInv, QuietInv, [Next]_vars
    PROVE  QuietInv'
  <1>1. Work' /\ Caches' /\ HostKnown'
    BY WorkKept, CachesKept, HostKept DEF QuietInv, IndInv, Achieved
  <1>2. Achieved'
    <2>1. CASE UNCHANGED vars
      BY <2>1, LeftAlone DEF QuietInv, vars
    <2>2. CASE Next /\ ~Reconcile  BY <2>2, OtherStepsKeep
    <2>3. CASE Reconcile
      <3>1. Work /\ Caches /\ Prepared  BY DEF QuietInv, Achieved
      <3> QED  BY <2>3, <3>1, StartStep, SetFinalizerStep, RouteURLStep, ServiceMonitorStep,
                  ServiceMonitorRefStep, PrometheusRuleStep, PrometheusRuleRefStep, RemovingSteps,
                  RemoveFinalizerStep DEF Reconcile
    <2> QED  BY <2>1, <2>2, <2>3
  <1> QED  BY <1>1, <1>2 DEF QuietInv

LEMMA QuietInvariant == Spec => []QuietInv
  <1>1. Init => QuietInv
    BY DEF Init, QuietInv, Work, Caches, HostKnown, HostReported, Achieved, Prepared, Recorded, Placed,
           Ruled, Settled
  <1>2. IndInv /\ QuietInv /\ [Next]_vars => QuietInv'  BY QuietKept
  <1> QED  BY <1>1, <1>2, Inductive, PTL DEF Spec

\* Once everything is quiet a monitor of the watched kind records a URL and has a
\* referenced ServiceMonitor that probes exactly that URL with the requested module,
\* whatever is edited, meddled with, fails or lags (EnsureRouteURLExists,
\* EnsureServiceMonitorExists); the kind of a hosted cluster is not watched.
THEOREM ServiceMonitorInPlace ==
    Spec => []((obj # NoObj => ~obj.spec.rhobs) => QuietServiceMonitor)
  <1>1. QuietInv => ((obj # NoObj => ~obj.spec.rhobs) => QuietServiceMonitor)
    BY DEF QuietInv, Achieved, Recorded, Placed, Settled, QuietServiceMonitor, Served, Quiet, Kind
  <1> QED  BY <1>1, QuietInvariant, PTL

\* Once everything is quiet a monitor that asks for a PrometheusRule references it and
\* has it, with its URL and SLO, unless the step that settled it went by a cached rule
\* that was behind; one that does not ask references none (EnsurePrometheusRuleExists).
THEOREM PrometheusRuleInPlace == Spec => []QuietPrometheusRule
  <1>1. QuietInv => QuietPrometheusRule
    BY DEF QuietInv, Achieved, Recorded, Ruled, Settled, QuietPrometheusRule, Served, Quiet
  <1> QED  BY <1>1, QuietInvariant, PTL

\* Once everything is quiet the error status is that of the SLO, unless rules are
\* skipped: SetErrorStatus never replaces one error by another, and need not, since
\* only one can occur (ParseMonitorSLOSpecs).
THEOREM ErrorStatusTrue == Spec => []QuietErrorStatus
  <1>1. QuietInv => QuietErrorStatus
    BY DEF QuietInv, Achieved, Recorded, Settled, QuietErrorStatus, Served, Quiet
  <1> QED  BY <1>1, QuietInvariant, PTL
=============================================================================
