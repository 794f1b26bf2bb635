---------------------- MODULE ClusterUrlMonitorProofs ----------------------
(***************************************************************************)
(* Proofs about ClusterUrlMonitor, for every set of specs and states of    *)
(* the cluster and every bound: type correctness, the error budget of the  *)
(* rules, and the refinement of MonitorLife.                               *)
(***************************************************************************)
EXTENDS ClusterUrlMonitor, TLAPS

\* A reconcile that is not idle has a copy of the monitor.
HasCopy == pc # "idle" => cum \in Monitor

\* The conjuncts of TypeOK, by what the actions leave unchanged together.
Steps == {"idle", "setFinalizer"} \cup Deploying \cup Removing

ObjectTypes    == obj \in Monitor \cup {NoObj} /\ rev \in Nat
WorkerTypes    == queued \in BOOLEAN /\ pc \in Steps /\ cum \in Monitor \cup {NoObj}
DependentTypes == /\ deps \in [Kinds -> Dependent \cup {NoObj}]
                  /\ depCache \in [Kinds -> Dependent \cup {NoObj}]
                  /\ events \in SUBSET Kinds
BudgetTypes    == edits \in 0..MaxEdits /\ faults \in 0..MaxFaults

----------------------------------------------------------------------------
(* Types of the operators.                                                  *)

\* The parts make up the whole, and a part that is left alone is kept.
LEMMA TypeParts ==
    ASSUME TypeOK
    PROVE  /\ ObjectTypes /\ WorkerTypes /\ DependentTypes /\ BudgetTypes
           /\ cumCache \in Monitor \cup {NoObj} /\ cluster \in Clusters
           /\ UNCHANGED <<obj, rev>> => ObjectTypes'
           /\ UNCHANGED <<queued, pc, cum>> => WorkerTypes'
           /\ UNCHANGED dependents => DependentTypes'
           /\ UNCHANGED budget => BudgetTypes'
           /\ (/\ ObjectTypes /\ WorkerTypes /\ DependentTypes /\ BudgetTypes
               /\ cumCache \in Monitor \cup {NoObj} /\ cluster \in Clusters
               /\ misread \in BOOLEAN)' => TypeOK'
  <1>1. UNCHANGED <<obj, rev>> => ObjectTypes'  BY DEF TypeOK, ObjectTypes
  <1>2. UNCHANGED <<queued, pc, cum>> => WorkerTypes'  BY DEF TypeOK, WorkerTypes, Steps
  <1>3. UNCHANGED dependents => DependentTypes'  BY DEF TypeOK, dependents, DependentTypes
  <1>4. UNCHANGED budget => BudgetTypes'  BY DEF TypeOK, budget, BudgetTypes
  <1> USE DEF TypeOK, ObjectTypes, WorkerTypes, Steps, DependentTypes, BudgetTypes
  <1>5. ObjectTypes /\ WorkerTypes /\ DependentTypes /\ BudgetTypes  OBVIOUS
  <1>6. cumCache \in Monitor \cup {NoObj} /\ cluster \in Clusters  OBVIOUS
  <1>7. (/\ ObjectTypes /\ WorkerTypes /\ DependentTypes /\ BudgetTypes
         /\ cumCache \in Monitor \cup {NoObj} /\ cluster \in Clusters
         /\ misread \in BOOLEAN)' => TypeOK'
    OBVIOUS
  <1> QED  BY <1>1, <1>2, <1>3, <1>4, <1>5, <1>6, <1>7

\* The changes of the reconcile and of users keep a monitor a monitor.
LEMMA MonitorFields ==
    ASSUME NEW m \in Monitor
    PROVE  /\ m.uid \in Nat /\ m.rv \in Nat /\ m.spec \in Specs /\ m.spec \in ClusterUrlMonitorSpec
           /\ m.smRef \in {NoRef, Ref} /\ m.prRef \in {NoRef, Ref} /\ m.err \in MonitorErrors
           /\ \A r \in {NoRef, Ref} : [m EXCEPT !.smRef = r] \in Monitor
           /\ \A r \in {NoRef, Ref} : [m EXCEPT !.prRef = r] \in Monitor
           /\ \A e \in MonitorErrors : [m EXCEPT !.err = e] \in Monitor
           /\ \A key \in FinalizerKeys : /\ SetFinalizer(m, key).obj \in Monitor
                                         /\ DeleteFinalizer(m, key).obj \in Monitor
           /\ [m EXCEPT !.fin = @ \ {ForeignFinalizer}] \in Monitor
           /\ \A n \in Nat : [m EXCEPT !.rv = n] \in Monitor
           /\ \A n \in Nat, s \in Specs : [m EXCEPT !.spec = s, !.rv = n] \in Monitor
           /\ [m EXCEPT !.deleting = TRUE] \in Monitor
  BY ClusterUrlMonitorAssumption DEF Monitor, SetFinalizer, DeleteFinalizer, AllFinalizers

\* Both keys are finalizers of the model, and they differ.
LEMMA KeyTypes ==
    /\ FinalizerKey \in FinalizerKeys /\ PrevFinalizerKey \in FinalizerKeys
    /\ FinalizerKey # PrevFinalizerKey /\ FinalizerKey # ForeignFinalizer
  BY DEF FinalizerKeys, FinalizerKey, PrevFinalizerKey, ForeignFinalizer

\* A sequence of one element.
LEMMA Singleton ==
    ASSUME NEW S, NEW x \in S
    PROVE  <<x>> \in Seq(S) /\ Len(<<x>>) # 0
  OBVIOUS

\* A domain is a host name again (removeSubdomain).
LEMMA DomainTypes ==
    ASSUME NEW spec \in Specs, NEW c \in Clusters, NEW d \in Domains(spec, c)
    PROVE  d \in Host
  <1>1. ASSUME NEW sub, NEW host \in Host
        PROVE  removeSubdomain(sub, host) \in Host
    <2>1. host \in Seq(STRING) /\ host # <<>> /\ Len(host) \in Nat /\ Len(host) # 0
      BY DEF Host
    <2>2. Head(host) \in STRING /\ Tail(host) \in Seq(STRING) /\ Len(Tail(host)) = Len(host) - 1
      BY <2>1
    <2> DEFINE baseName == IF Len(host) = 1 THEN <<"">> ELSE Tail(host)
    <2>3. baseName \in Seq(STRING) /\ Len(baseName) # 0
      <3>1. <<"">> \in Seq(STRING) /\ Len(<<"">>) # 0
        BY Singleton, ClusterUrlMonitorAssumption, Zenon
      <3>2. Len(host) = 1 => baseName = <<"">>  OBVIOUS
      <3>3. CASE Len(host) = 1
        <4> HIDE DEF baseName
        <4>1. baseName = <<"">>  BY <3>2, <3>3
        <4> QED  BY <3>1, <4>1, Zenon
      <3>4. CASE Len(host) # 1  BY <2>1, <2>2, <3>4
      <3> HIDE DEF baseName
      <3> QED  BY <3>3, <3>4
    <2>4. baseName \in Host  BY <2>3 DEF Host
    <2> HIDE DEF baseName
    <2>5. <<Head(host)>> \in Seq(STRING) /\ Len(<<Head(host)>>) = 1  BY <2>2
    <2>6. /\ <<Head(host)>> \o baseName \in Seq(STRING)
          /\ Len(<<Head(host)>> \o baseName) = 1 + Len(baseName)
      BY <2>3, <2>5
    <2>7. <<Head(host)>> \o baseName \in Host  BY <2>3, <2>6 DEF Host
    <2> QED  BY <2>4, <2>7 DEF removeSubdomain, baseName
  <1>2. c \in Cluster  BY ClusterUrlMonitorAssumption
  <1>3. c.infra # NoObj => c.infra \in Host  BY <1>2 DEF Cluster
  <1>4. c.hosted # NoObj => c.hosted \in Host  BY <1>2 DEF Cluster
  <1> QED  BY <1>1, <1>3, <1>4 DEF Domains

\* The contents of a dependent (ServiceMonitorTemplateFor..., TemplateForPrometheusRule).
Contents == [url : URL, slo : Int]

\* The URL of the monitor is one (ClusterUrl).
LEMMA UrlTypes ==
    ASSUME NEW spec \in Specs, NEW c \in Clusters, NEW d \in Domains(spec, c)
    PROVE  \A slo \in Int : [url |-> ClusterUrl(spec, d), slo |-> slo] \in Contents
  <1>1. d \in Host  BY DomainTypes
  <1>2. spec \in ClusterUrlMonitorSpec  BY ClusterUrlMonitorAssumption
  <1>3. spec.affix \in STRING  BY <1>2 DEF ClusterUrlMonitorSpec
  <1>4. ClusterUrl(spec, d) \in URL  BY <1>1, <1>3 DEF ClusterUrl, URL
  <1> QED  BY <1>4 DEF Contents

\* An objective in per cent that is above 90 and leaves an error budget.
Budgeted == (90 * PctScale + 1)..(100 * PctScale - 1)

\* What the SLO parser returns (ParseMonitorSLOSpecs): a rule is wanted only for
\* an objective with an error budget.
LEMMA ParsedTypes ==
    ASSUME NEW spec \in Specs
    PROVE  /\ Parsed(spec).slo \in Int /\ Parsed(spec).err \in MonitorErrors
           /\ WantsRule(spec) => Parsed(spec).slo \in Budgeted
  <1>1. spec \in ClusterUrlMonitorSpec  BY ClusterUrlMonitorAssumption
  <1>2. spec.slo # NoSlo => spec.slo.pct \in Int  BY <1>1 DEF ClusterUrlMonitorSpec, SloSpec
  <1>3. \/ Parsed(spec) = [slo |-> NoParsedSlo, err |-> ErrNoHost]
        \/ Parsed(spec) = [slo |-> NoParsedSlo, err |-> NoErr]
        \/ Parsed(spec) = [slo |-> NoParsedSlo, err |-> ErrInvalidSLO]
        \/ /\ Parsed(spec) = [slo |-> spec.slo.pct, err |-> NoErr]
           /\ spec.slo # NoSlo /\ IsValid(spec.slo)
    BY DEF Parsed, ParseMonitorSLOSpecs
  <1>4. NoParsedSlo \in Int  BY DEF NoParsedSlo
  <1>5. Parsed(spec).slo \in Int /\ Parsed(spec).err \in MonitorErrors
    BY <1>2, <1>3, <1>4 DEF MonitorErrors
  <1>6. ASSUME WantsRule(spec)
        PROVE  Parsed(spec).slo \in Budgeted
    <2>1. Parsed(spec).slo # NoParsedSlo  BY <1>6 DEF WantsRule
    <2>2. spec.slo # NoSlo /\ IsValid(spec.slo) /\ Parsed(spec).slo = spec.slo.pct
      BY <1>3, <2>1
    <2>3. /\ spec.slo.pct \in Int
          /\ 90 * PctScale < spec.slo.pct /\ spec.slo.pct < 100 * PctScale
      BY <1>2, <2>2 DEF IsValid
    <2>4. \A p \in Int : 90 * PctScale < p /\ p < 100 * PctScale => p \in Budgeted
      BY DEF Budgeted, PctScale
    <2> QED  BY <2>2, <2>3, <2>4
  <1> QED  BY <1>5, <1>6

\* The references that SetResourceReference writes.
LEMMA RefTypes ==
    ASSUME NEW m \in Monitor
    PROVE  \A ref \in {NoRef, Ref} : /\ SetResourceReference(m.smRef, ref).ref \in {NoRef, Ref}
                                     /\ SetResourceReference(m.prRef, ref).ref \in {NoRef, Ref}
  BY DEF SetResourceReference, Monitor

\* The object that a create or update leaves, if it changes anything, has the new
\* contents (Deployed).
LEMMA DeployedTypes ==
    ASSUME TypeOK, NEW k \in Kinds, NEW spec \in Contents, NEW owner \in Nat,
           NEW d \in Deployed(deps[k], depCache[k],
                              [rv |-> rev + 1, owner |-> owner, spec |-> spec])
    PROVE  d = deps[k] \/ (d \in Dependent /\ d.spec = spec)
  <1> DEFINE new == [rv |-> rev + 1, owner |-> owner, spec |-> spec]
             upd == [depCache[k] EXCEPT !.rv = new.rv, !.spec = new.spec]
  <1>1. rev + 1 \in Nat  BY DEF TypeOK
  <1>2. new \in Dependent /\ new.spec = spec  BY <1>1 DEF Dependent, Contents
  <1>3. depCache[k] # NoObj => depCache[k] \in Dependent  BY DEF TypeOK
  <1>4. depCache[k] # NoObj => upd \in Dependent /\ upd.spec = spec
    BY <1>1, <1>3 DEF Dependent, Contents
  <1>5. \/ d = deps[k] \/ d = new
        \/ depCache[k] # NoObj /\ d = upd
    BY DEF Deployed
  <1> HIDE DEF new, upd
  <1> QED  BY <1>2, <1>4, <1>5

\* A write of a dependent writes that one, and its cache or the event for it.
LEMMA WriteTypes ==
    ASSUME TypeOK, NEW k \in Kinds, NEW d \in Dependent \cup {NoObj}, WriteDependent(k, d)
    PROVE  DependentTypes' /\ deps' = [deps EXCEPT ![k] = d]
  <1>1. deps' = [deps EXCEPT ![k] = d] /\ deps' \in [Kinds -> Dependent \cup {NoObj}]
    BY DEF WriteDependent, TypeOK
  <1>2. depCache' = depCache \/ depCache' = [depCache EXCEPT ![k] = d]
    BY DEF WriteDependent
  <1>3. depCache' \in [Kinds -> Dependent \cup {NoObj}]  BY <1>2 DEF TypeOK
  <1>4. events' \in SUBSET Kinds  BY DEF WriteDependent, TypeOK
  <1> QED  BY <1>1, <1>3, <1>4 DEF DependentTypes

----------------------------------------------------------------------------
(* What a write of the monitor leaves of it.                               *)

\* Nothing, the new value under a new revision, or no monitor at all.
StoredAs(new) ==
    \/ UNCHANGED <<obj, rev>>
    \/ /\ rev' = rev /\ obj' = NoObj
       /\ new.deleting /\ new.fin = {}
    \/ /\ rev' = rev + 1 /\ obj' \in Monitor /\ obj'.rv = rev + 1
       /\ obj'.fin = new.fin /\ obj'.deleting = new.deleting

LEMMA StoreTypes ==
    ASSUME TypeOK, NEW new \in Monitor, Store(new)
    PROVE  ObjectTypes' /\ StoredAs(new)
  <1>1. CASE new.deleting /\ new.fin = {}
    BY <1>1 DEF Store, StoredAs, ObjectTypes, TypeOK
  <1>2. CASE UNCHANGED <<obj, rev>>  BY <1>2, TypeParts DEF StoredAs
  <1>3. CASE obj' = [new EXCEPT !.rv = rev + 1] /\ rev' = rev + 1
    <2>1. rev + 1 \in Nat  BY DEF TypeOK
    <2>2. obj' \in Monitor  BY <1>3, <2>1, MonitorFields
    <2>3. obj'.rv = rev + 1 /\ obj'.fin = new.fin /\ obj'.deleting = new.deleting
      BY <1>3 DEF Monitor
    <2> QED  BY <1>3, <2>1, <2>2, <2>3 DEF ObjectTypes, StoredAs
  <1> QED  BY <1>1, <1>2, <1>3 DEF Store

\* Client.Update of the monitor ends the reconcile, and is refused or stores.
LEMMA UpdateTypes ==
    ASSUME TypeOK, NEW new \in Monitor, UpdateMonitorResource(new)
    PROVE  /\ ObjectTypes' /\ WorkerTypes' /\ HasCopy'
           /\ pc' = "idle" /\ cum' = NoObj
           /\ UNCHANGED <<obj, rev>> \/ (Accepted(new) /\ StoredAs(new))
  <1>1. pc' = "idle" /\ cum' = NoObj /\ queued' \in {queued, TRUE}
    BY DEF UpdateMonitorResource, Stop, Requeue
  <1>2. WorkerTypes' /\ HasCopy'  BY <1>1 DEF WorkerTypes, HasCopy, Steps, TypeOK
  <1>3. CASE Accepted(new)
    BY <1>1, <1>2, <1>3, StoreTypes DEF UpdateMonitorResource
  <1>4. CASE ~Accepted(new)
    <2>1. UNCHANGED <<obj, rev>>  BY <1>4 DEF UpdateMonitorResource
    <2> QED  BY <1>1, <1>2, <2>1, TypeParts
  <1> QED  BY <1>3, <1>4
----------------------------------------------------------------------------
(* What the steps do, as far as the theorems need it.                      *)

\* The reconcile writes the monitor: in EnsureFinalizerSet, in the removal of the
\* finalizer, or its status.
Written ==
    /\ pc # "idle" /\ pc' = "idle" /\ cum' = NoObj
    /\ UNCHANGED <<cumCache, deps>>
    /\ \E new \in Monitor :
          /\ Accepted(new) /\ StoredAs(new) /\ new.deleting = cum.deleting
          /\ \/ pc = "setFinalizer" /\ FinalizerKey \in new.fin
             \/ pc = "removeFinalizer" /\ FinalizerKey \in cum.fin /\ FinalizerKey \notin new.fin
             \/ pc \in Deploying /\ new.fin = cum.fin

\* Where a reconcile that does not write the monitor gets to.
Progress ==
    \/ pc' = "idle" /\ cum' = NoObj
    \/ /\ UNCHANGED cum
       /\ \/ pc' = pc
          \/ pc \in Deploying /\ pc' \in Deploying
          \/ pc \in Removing /\ pc' \in Removing
          \/ pc \in Removing /\ pc' = "setFinalizer" /\ FinalizerKey \notin cum.fin

\* What is written of the dependents, and when.
DependentsStep ==
    \/ UNCHANGED deps
    \/ \E k \in Kinds : deps' = [deps EXCEPT ![k] = NoObj]
    \/ /\ pc \in Deploying
       /\ \E k \in Kinds, d \in Dependent :
             /\ deps' = [deps EXCEPT ![k] = d]
             /\ k = "rule" => d.spec.slo \in Budgeted

\* The monitor and its cached copy stay as they are.
Moved ==
    /\ UNCHANGED <<obj, cumCache>> /\ rev' \in {rev, rev + 1}
    /\ Progress /\ DependentsStep

\* The cache comes up to date.
Seen ==
    /\ cumCache' = obj /\ UNCHANGED <<obj, rev, deps>>
    /\ \/ UNCHANGED <<pc, cum>> /\ queued' = TRUE
       \/ pc' = "idle" /\ cum' = NoObj

\* Users and other controllers write the monitor; none of them has FinalizerKey.
ByOthers ==
    /\ obj \in Monitor /\ UNCHANGED <<cumCache, pc, cum, deps>>
    /\ \E new \in Monitor :
          /\ StoredAs(new) /\ (obj.deleting => new.deleting)
          /\ \/ new.fin = obj.fin
             \/ obj.deleting /\ new.fin = obj.fin \ {ForeignFinalizer}

Created ==
    /\ obj = NoObj /\ obj' \in Monitor /\ rev' = rev + 1 /\ obj'.rv = rev + 1
    /\ ~obj'.deleting /\ FinalizerKey \notin obj'.fin
    /\ UNCHANGED <<cumCache, pc, cum, deps>>

\* Only the step on the rule says whether it was misread.
LEMMA MisreadTypes ==
    ASSUME TypeOK, Next
    PROVE  misread' \in BOOLEAN
  <1>1. CASE EnsurePrometheusRuleExists  BY <1>1 DEF EnsurePrometheusRuleExists
  <1>2. CASE ~EnsurePrometheusRuleExists
    <2>1. UNCHANGED misread
      BY <1>2 DEF Next, Reconcile, GetClusterUrlMonitor, EnsureFinalizerSet, EnsureServiceMonitorExists,
                  SetServiceMonitorRef, SetPrometheusRuleRef, DeleteServiceMonitorDeployment,
                  DeletePrometheusRuleDeployment, RemoveFinalizer, SyncMonitor, SyncDependent,
                  GarbageCollect, ForeignRelease, CallFails, Restart, Users, CreateMonitor, EditSpec,
                  DeleteMonitor, ChangeCluster
    <2> QED  BY <2>1 DEF TypeOK
  <1> QED  BY <1>1, <1>2

\* A write of the monitor by the reconcile, whichever it is.
LEMMA MonitorWrites ==
    ASSUME TypeOK, misread' \in BOOLEAN, pc # "idle", NEW new \in Monitor, UpdateMonitorResource(new),
           UNCHANGED <<cumCache, dependents, cluster, budget>>, new.deleting = cum.deleting,
           \/ pc = "setFinalizer" /\ FinalizerKey \in new.fin
           \/ pc = "removeFinalizer" /\ FinalizerKey \in cum.fin /\ FinalizerKey \notin new.fin
           \/ pc \in Deploying /\ new.fin = cum.fin
    PROVE  TypeOK' /\ HasCopy' /\ (Written \/ Moved)
  <1>1. ObjectTypes' /\ WorkerTypes' /\ HasCopy' /\ pc' = "idle" /\ cum' = NoObj
    BY UpdateTypes
  <1>2. cumCache' = cumCache /\ cluster' = cluster /\ deps' = deps  BY DEF dependents
  <1>3. DependentTypes' /\ BudgetTypes' /\ cumCache' \in Monitor \cup {NoObj} /\ cluster' \in Clusters
    BY <1>2, TypeParts
  <1>4. TypeOK'  BY <1>1, <1>3, TypeParts
  <1>5. CASE UNCHANGED <<obj, rev>>
    BY <1>1, <1>2, <1>4, <1>5 DEF Moved, Progress, DependentsStep
  <1>6. CASE Accepted(new) /\ StoredAs(new)
    BY <1>1, <1>2, <1>4, <1>6 DEF Written
  <1> QED  BY <1>5, <1>6, UpdateTypes

\* A step of the reconcile that leaves the monitor alone.
LEMMA Moves ==
    ASSUME TypeOK, HasCopy, misread' \in BOOLEAN, UNCHANGED <<obj, cumCache, cluster, budget>>,
           rev' \in {rev, rev + 1}, pc # "idle", Progress, queued' \in {queued, TRUE}, DependentTypes', DependentsStep
    PROVE  TypeOK' /\ HasCopy' /\ Moved
  <1>1. ObjectTypes'  BY DEF TypeOK, ObjectTypes
  <1>2. WorkerTypes' /\ HasCopy'
    BY DEF WorkerTypes, HasCopy, Steps, Progress, TypeOK
  <1>3. BudgetTypes' /\ cumCache' \in Monitor \cup {NoObj} /\ cluster' \in Clusters
    BY TypeParts
  <1> QED  BY <1>1, <1>2, <1>3, TypeParts DEF Moved

\* The write of a create or update of a dependent.
LEMMA Deploys ==
    ASSUME TypeOK, pc \in Deploying, NEW k \in Kinds, NEW spec \in Contents, NEW owner \in Nat,
           NEW d \in Deployed(deps[k], depCache[k],
                              [rv |-> rev + 1, owner |-> owner, spec |-> spec]),
           WriteDependent(k, d), k = "rule" => spec.slo \in Budgeted
    PROVE  DependentTypes' /\ DependentsStep
  <1>1. deps[k] \in Dependent \cup {NoObj}  BY DEF TypeOK
  <1>2. d = deps[k] \/ (d \in Dependent /\ d.spec = spec)  BY DeployedTypes
  <1>3. DependentTypes' /\ deps' = [deps EXCEPT ![k] = d]  BY <1>1, <1>2, WriteTypes
  <1>4. CASE d = deps[k]
    <2>1. deps' = deps  BY <1>3, <1>4 DEF TypeOK
    <2> QED  BY <1>3, <2>1 DEF DependentsStep
  <1>5. CASE d \in Dependent /\ d.spec = spec
    BY <1>3, <1>5 DEF DependentsStep
  <1> QED  BY <1>2, <1>4, <1>5

\* The delete of a dependent, with what the reconcile goes on to.
LEMMA Deletes ==
    ASSUME TypeOK, HasCopy, misread' \in BOOLEAN, NEW k \in Kinds, NEW ref, NEW next,
           Delete(k, ref, next),
           UNCHANGED <<obj, cumCache, cluster, rev, budget>>,
           (pc \in Deploying /\ next \in Deploying) \/ (pc \in Removing /\ next \in Removing)
    PROVE  TypeOK' /\ HasCopy' /\ Moved
  <1>1. pc # "idle"  BY DEF Deploying, Removing
  <1>2. CASE UNCHANGED dependents /\ Requeue
    <2>1. DependentTypes' /\ DependentsStep  BY <1>2, TypeParts DEF dependents, DependentsStep
    <2>2. Progress /\ queued' \in {queued, TRUE}  BY <1>2 DEF Requeue, Progress
    <2> QED  BY <1>1, <2>1, <2>2, Moves
  <1>3. CASE \E d \in Deleted(ref, deps[k], depCache[k]) : WriteDependent(k, d) /\ Goto(next)
    <2>1. PICK d \in Deleted(ref, deps[k], depCache[k]) : WriteDependent(k, d) /\ Goto(next)
      BY <1>3
    <2>2. d = deps[k] \/ d = NoObj  BY DEF Deleted
    <2>3. deps[k] \in Dependent \cup {NoObj}  BY DEF TypeOK
    <2>4. DependentTypes' /\ deps' = [deps EXCEPT ![k] = d]  BY <2>1, <2>2, <2>3, WriteTypes
    <2>5. d = deps[k] => deps' = deps  BY <2>4 DEF TypeOK
    <2>6. DependentsStep  BY <2>2, <2>4, <2>5 DEF DependentsStep
    <2>7. Progress /\ queued' \in {queued, TRUE}  BY <2>1 DEF Goto, Progress
    <2> QED  BY <1>1, <2>4, <2>6, <2>7, Moves
  <1> QED  BY <1>2, <1>3 DEF Delete

\* The steps of the reconcile.
LEMMA ReconcileSteps ==
    ASSUME TypeOK, HasCopy, Reconcile
    PROVE  TypeOK' /\ HasCopy' /\ (Written \/ Moved \/ GetClusterUrlMonitor)
  <1> misread' \in BOOLEAN  BY MisreadTypes DEF Next
  <1>1. CASE GetClusterUrlMonitor
    <2>1. pc' \in Steps /\ (pc' # "idle" => cum' \in Monitor) /\ cum' \in Monitor \cup {NoObj}
      BY <1>1 DEF GetClusterUrlMonitor, FirstStep, TypeOK, Steps, Deploying, Removing
    <2>2. WorkerTypes' /\ HasCopy'  BY <1>1, <2>1 DEF GetClusterUrlMonitor, WorkerTypes, HasCopy
    <2> QED  BY <1>1, <2>2, TypeParts DEF GetClusterUrlMonitor
  <1>2. CASE EnsureFinalizerSet
    <2> DEFINE new == DeleteFinalizer(SetFinalizer(cum, FinalizerKey).obj, PrevFinalizerKey).obj
    <2>1. cum \in Monitor  BY <1>2 DEF EnsureFinalizerSet, HasCopy
    <2>2. new \in Monitor  BY <2>1, MonitorFields, KeyTypes
    <2>3. new.deleting = cum.deleting /\ FinalizerKey \in new.fin
      BY <2>1, KeyTypes DEF Monitor, SetFinalizer, DeleteFinalizer
    <2> HIDE DEF new
    <2>4. /\ pc # "idle" /\ pc = "setFinalizer" /\ UpdateMonitorResource(new)
          /\ UNCHANGED <<cumCache, dependents, cluster, budget>>
      BY <1>2 DEF EnsureFinalizerSet, new
    <2> QED  BY <2>2, <2>3, <2>4, MonitorWrites
  <1>3. CASE EnsureServiceMonitorExists
    <2>1. cum.spec \in Specs /\ cum.uid \in Nat /\ cluster \in Clusters
      BY <1>3, MonitorFields DEF EnsureServiceMonitorExists, HasCopy, TypeOK
    <2>2. /\ pc # "idle" /\ pc \in Deploying /\ Kind(cum.spec) \in Kinds
          /\ Kind(cum.spec) # "rule" /\ UNCHANGED <<obj, cumCache, cluster, budget>>
      BY <1>3 DEF EnsureServiceMonitorExists, Deploying, Kind, Kinds, ServiceMonitors
    <2>3. CASE Requeue /\ UNCHANGED <<dependents, rev>>
      <3>1. DependentTypes' /\ DependentsStep
        BY <2>3, TypeParts DEF dependents, DependentsStep
      <3>2. Progress /\ queued' \in {queued, TRUE}  BY <2>3 DEF Requeue, Progress
      <3> QED  BY <2>2, <2>3, <3>1, <3>2, Moves
    <2>4. CASE ~(Requeue /\ UNCHANGED <<dependents, rev>>)
      <3> DEFINE next == IF SetResourceReference(cum.smRef, Ref).updated
                         THEN "smRef" ELSE "prometheusRule"
                 contents(u) == [url |-> ServiceMonitorUrl(cum.spec, u), slo |-> NoParsedSlo]
                 new(u) == [rv |-> rev + 1, owner |-> cum.uid, spec |-> contents(u)]
      <3>1. PICK u \in Domains(cum.spec, cluster) :
              Deploy(Kind(cum.spec), contents(u), cum.uid, Goto(next))
        BY <1>3, <2>4 DEF EnsureServiceMonitorExists
      <3>2. contents(u) \in Contents
        BY <2>1, UrlTypes DEF ServiceMonitorUrl, NoParsedSlo
      <3>3. PICK d \in Deployed(deps[Kind(cum.spec)], depCache[Kind(cum.spec)], new(u)) :
              /\ WriteDependent(Kind(cum.spec), d) /\ Goto(next)
              /\ rev' = IF d = deps[Kind(cum.spec)] THEN rev ELSE rev + 1
        BY <2>4, <3>1 DEF Deploy
      <3>4. DependentTypes' /\ DependentsStep
        <4> HIDE DEF contents
        <4> QED  BY <2>1, <2>2, <3>2, <3>3, Deploys
      <3>5. Progress /\ queued' \in {queued, TRUE}
        BY <2>2, <3>3 DEF Goto, Progress, Deploying
      <3>6. rev' \in {rev, rev + 1}  BY <3>3
      <3> QED  BY <2>2, <3>4, <3>5, <3>6, Moves
    <2> QED  BY <2>3, <2>4
  <1>4. CASE SetServiceMonitorRef
    <2> DEFINE new == [cum EXCEPT !.smRef = SetResourceReference(@, Ref).ref]
    <2>1. cum \in Monitor  BY <1>4 DEF SetServiceMonitorRef, HasCopy
    <2>2. new \in Monitor  BY <2>1, RefTypes, MonitorFields
    <2>3. new.deleting = cum.deleting /\ new.fin = cum.fin  BY <2>1 DEF Monitor
    <2> HIDE DEF new
    <2>4. /\ pc # "idle" /\ pc \in Deploying /\ UpdateMonitorResource(new)
          /\ UNCHANGED <<cumCache, dependents, cluster, budget>>
      BY <1>4 DEF SetServiceMonitorRef, Deploying, new
    <2> QED  BY <2>2, <2>3, <2>4, MonitorWrites
  <1>5. CASE SetPrometheusRuleRef
    <2> DEFINE ref == IF WantsRule(cum.spec) THEN Ref ELSE NoRef
               new == [cum EXCEPT !.prRef = SetResourceReference(@, ref).ref]
    <2>1. cum \in Monitor  BY <1>5 DEF SetPrometheusRuleRef, HasCopy
    <2>2. ref \in {NoRef, Ref}  OBVIOUS
    <2> HIDE DEF ref
    <2>3. new \in Monitor  BY <2>1, <2>2, RefTypes, MonitorFields
    <2>4. new.deleting = cum.deleting /\ new.fin = cum.fin  BY <2>1 DEF Monitor
    <2> HIDE DEF new
    <2>5. /\ pc # "idle" /\ pc \in Deploying /\ UpdateMonitorResource(new)
          /\ UNCHANGED <<cumCache, dependents, cluster, budget>>
      BY <1>5 DEF SetPrometheusRuleRef, Deploying, new, ref
    <2> QED  BY <2>3, <2>4, <2>5, MonitorWrites
  <1>6. CASE EnsurePrometheusRuleExists
    <2>1. cum \in Monitor /\ cum.spec \in Specs /\ cluster \in Clusters
      BY <1>6, MonitorFields DEF EnsurePrometheusRuleExists, HasCopy, TypeOK
    <2>2. pc # "idle" /\ pc \in Deploying /\ UNCHANGED <<cumCache, cluster, budget>>
      BY <1>6 DEF EnsurePrometheusRuleExists, Deploying
    <2>3. "rule" \in Kinds /\ "prRef" \in Deploying  BY DEF Kinds, Deploying
    <2> DEFINE error == SetErrorStatus(cum.err, Parsed(cum.spec).err)
               report == [cum EXCEPT !.err = error.status]
    <2>4. CASE Delete("rule", cum.prRef, "prRef") /\ UNCHANGED <<obj, rev>>
      BY <2>2, <2>3, <2>4, Deletes
    <2>5. CASE /\ UNCHANGED <<obj, rev, dependents>>
               /\ Stop \/ Requeue
      <3>1. DependentTypes' /\ DependentsStep
        BY <2>5, TypeParts DEF dependents, DependentsStep
      <3>2. Progress /\ queued' \in {queued, TRUE}  BY <2>5 DEF Requeue, Stop, Progress
      <3> QED  BY <2>2, <2>5, <3>1, <3>2, Moves
    <2>6. CASE UpdateMonitorResource(report) /\ UNCHANGED dependents
      <3>1. error.status \in MonitorErrors
        BY <2>1, ParsedTypes, MonitorFields DEF SetErrorStatus
      <3>2. report \in Monitor  BY <2>1, <3>1, MonitorFields
      <3>3. report.deleting = cum.deleting /\ report.fin = cum.fin  BY <2>1 DEF Monitor
      <3> HIDE DEF report
      <3> QED  BY <2>2, <2>6, <3>2, <3>3, MonitorWrites
    <2>7. CASE /\ WantsRule(cum.spec) /\ UNCHANGED obj
               /\ \E u \in Domains(cum.spec, cluster) :
                     Deploy("rule", [url |-> ClusterUrl(cum.spec, u), slo |-> Parsed(cum.spec).slo],
                            NoOwner,
                            IF SetResourceReference(cum.prRef, Ref).updated THEN Goto("prRef")
                                                                            ELSE Stop)
      <3> DEFINE contents(u) == [url |-> ClusterUrl(cum.spec, u), slo |-> Parsed(cum.spec).slo]
                 new(u) == [rv |-> rev + 1, owner |-> NoOwner, spec |-> contents(u)]
      <3>1. PICK u \in Domains(cum.spec, cluster) :
              Deploy("rule", contents(u), NoOwner,
                     IF SetResourceReference(cum.prRef, Ref).updated THEN Goto("prRef") ELSE Stop)
        BY <2>7
      <3>2. contents(u) \in Contents /\ contents(u).slo \in Budgeted
        BY <2>1, <2>7, UrlTypes, ParsedTypes
      <3>3. CASE UNCHANGED <<dependents, rev>> /\ Requeue  BY <2>5, <2>7, <3>3
      <3>4. ASSUME NEW d \in Deployed(deps["rule"], depCache["rule"], new(u)),
                   WriteDependent("rule", d), Goto("prRef") \/ Stop, rev' \in {rev, rev + 1}
            PROVE  TypeOK' /\ HasCopy' /\ Moved
        <4>1. NoOwner \in Nat  BY DEF NoOwner
        <4>2. DependentTypes' /\ DependentsStep
          <5> HIDE DEF contents
          <5> QED  BY <2>2, <2>3, <3>2, <3>4, <4>1, Deploys
        <4>3. Progress /\ queued' \in {queued, TRUE}
          BY <2>2, <2>3, <3>4 DEF Goto, Stop, Progress
        <4> QED  BY <2>2, <2>7, <3>4, <4>2, <4>3, Moves
      <3> HIDE DEF contents
      <3> QED  BY <3>1, <3>3, <3>4 DEF Deploy
    <2> QED  BY <1>6, <2>4, <2>5, <2>6, <2>7 DEF EnsurePrometheusRuleExists
  <1>7. CASE DeleteServiceMonitorDeployment
    <2>1. /\ pc \in Removing /\ "deletePrometheusRule" \in Removing /\ Kind(cum.spec) \in Kinds
          /\ Delete(Kind(cum.spec), cum.smRef, "deletePrometheusRule")
          /\ UNCHANGED <<obj, cumCache, cluster, rev, budget>>
      BY <1>7 DEF DeleteServiceMonitorDeployment, Removing, Kind, Kinds, ServiceMonitors
    <2> QED  BY <2>1, Deletes
  <1>8. CASE DeletePrometheusRuleDeployment
    <2>1. /\ pc \in Removing /\ "removeFinalizer" \in Removing /\ "rule" \in Kinds
          /\ Delete("rule", cum.prRef, "removeFinalizer")
          /\ UNCHANGED <<obj, cumCache, cluster, rev, budget>>
      BY <1>8 DEF DeletePrometheusRuleDeployment, Removing, Kinds
    <2> QED  BY <2>1, Deletes
  <1>9. CASE RemoveFinalizer
    <2> DEFINE d   == DeleteFinalizer(cum, FinalizerKey)
               new == DeleteFinalizer(d.obj, PrevFinalizerKey).obj
    <2>1. /\ cum \in Monitor /\ pc # "idle" /\ pc = "removeFinalizer" /\ pc \in Removing
          /\ UNCHANGED <<cumCache, dependents, cluster, budget>>
      BY <1>9 DEF RemoveFinalizer, HasCopy, Removing
    <2>2. new \in Monitor  BY <2>1, MonitorFields, KeyTypes
    <2>3. new.deleting = cum.deleting /\ FinalizerKey \notin new.fin
      BY <2>1 DEF Monitor, DeleteFinalizer
    <2>4. d.changed = (FinalizerKey \in cum.fin)  BY DEF DeleteFinalizer, HasFinalizer
    <2>5. \/ d.changed /\ UpdateMonitorResource(new)
          \/ ~d.changed /\ Goto("setFinalizer") /\ UNCHANGED <<obj, rev>>
      BY <1>9 DEF RemoveFinalizer
    <2> HIDE DEF new, d
    <2>6. CASE d.changed /\ UpdateMonitorResource(new)
      BY <2>1, <2>2, <2>3, <2>4, <2>6, MonitorWrites
    <2>7. CASE ~d.changed /\ Goto("setFinalizer") /\ UNCHANGED <<obj, rev>>
      <3>1. DependentTypes' /\ DependentsStep
        BY <2>1, TypeParts DEF dependents, DependentsStep
      <3>2. Progress /\ queued' \in {queued, TRUE}
        BY <2>1, <2>4, <2>7 DEF Goto, Progress
      <3> QED  BY <2>1, <2>7, <3>1, <3>2, Moves
    <2> QED  BY <2>5, <2>6, <2>7
  <1> QED
    BY <1>1, <1>2, <1>3, <1>4, <1>5, <1>6, <1>7, <1>8, <1>9 DEF Reconcile
LEMMA Bounds == MaxEdits \in Nat /\ MaxFaults \in Nat
  BY ClusterUrlMonitorAssumption, Zenon

\* Users spend the budget of edits, faults the budget of faults.
LEMMA BudgetSpent ==
    ASSUME TypeOK, Edit \/ Fault
    PROVE  BudgetTypes'
  BY Bounds DEF Edit, Fault, BudgetTypes, TypeOK

\* The informers, the garbage collector, faults, users and other controllers.
LEMMA OtherSteps ==
    ASSUME TypeOK, HasCopy, Next, ~Reconcile
    PROVE  TypeOK' /\ HasCopy' /\ (Moved \/ Seen \/ ByOthers \/ Created)
  <1> misread' \in BOOLEAN  BY MisreadTypes
  <1>1. UNCHANGED <<pc, cum>> => HasCopy'  BY DEF HasCopy
  <1>2. rev + 1 \in Nat  BY DEF TypeOK
  <1>3. CASE SyncMonitor
    <2>1. WorkerTypes'  BY <1>3 DEF SyncMonitor, WorkerTypes, TypeOK, Steps
    <2>2. cumCache' \in Monitor \cup {NoObj}  BY <1>3 DEF SyncMonitor, TypeOK
    <2> QED  BY <1>1, <1>3, <2>1, <2>2, TypeParts DEF SyncMonitor, Seen, dependents
  <1>4. ASSUME NEW k \in Kinds, SyncDependent(k)
        PROVE  TypeOK' /\ HasCopy' /\ Moved
    <2>1. DependentTypes'  BY <1>4 DEF SyncDependent, DependentTypes, TypeOK
    <2>2. queued' \in BOOLEAN  BY <1>4 DEF SyncDependent
    <2>3. WorkerTypes'  BY <1>4, <2>2 DEF SyncDependent, WorkerTypes, TypeOK, Steps
    <2>4. UNCHANGED <<obj, cumCache, pc, cum, deps, cluster, rev, budget>>
      BY <1>4 DEF SyncDependent
    <2>5. Moved  BY <2>4 DEF Moved, Progress, DependentsStep
    <2> QED  BY <1>1, <2>1, <2>3, <2>4, <2>5, TypeParts
  <1>5. ASSUME NEW k \in ServiceMonitors, GarbageCollect(k)
        PROVE  TypeOK' /\ HasCopy' /\ Moved
    <2>1. k \in Kinds  BY DEF Kinds
    <2>2. DependentTypes' /\ deps' = [deps EXCEPT ![k] = NoObj]
      BY <1>5, <2>1, WriteTypes DEF GarbageCollect
    <2>3. UNCHANGED <<obj, cumCache, queued, pc, cum, cluster, rev, budget>>
      BY <1>5 DEF GarbageCollect
    <2>4. Moved  BY <2>1, <2>2, <2>3 DEF Moved, Progress, DependentsStep
    <2> QED  BY <1>1, <2>2, <2>3, <2>4, TypeParts
  <1>6. CASE ForeignRelease
    <2> DEFINE new == [obj EXCEPT !.fin = @ \ {ForeignFinalizer}]
    <2>1. obj \in Monitor  BY <1>6 DEF ForeignRelease, TypeOK
    <2>2. new \in Monitor  BY <2>1, MonitorFields
    <2>3. new.fin = obj.fin \ {ForeignFinalizer} /\ new.deleting = obj.deleting
      BY <2>1 DEF Monitor
    <2>4. /\ obj.deleting /\ Store(new)
          /\ UNCHANGED <<cumCache, queued, pc, cum, dependents, cluster, budget>>
      BY <1>6 DEF ForeignRelease
    <2> HIDE DEF new
    <2>5. ObjectTypes' /\ StoredAs(new)  BY <2>2, <2>4, StoreTypes
    <2>6. ByOthers  BY <2>1, <2>2, <2>3, <2>4, <2>5 DEF ByOthers, dependents
    <2> QED  BY <1>1, <2>4, <2>5, <2>6, TypeParts
  <1>7. CASE CallFails
    <2>1. /\ UNCHANGED <<obj, cumCache, dependents, cluster, rev>>
          /\ pc' = "idle" /\ cum' = NoObj /\ queued' = TRUE
      BY <1>7 DEF CallFails, Requeue
    <2>2. WorkerTypes' /\ HasCopy'  BY <2>1 DEF WorkerTypes, HasCopy, Steps
    <2>3. Moved  BY <2>1 DEF Moved, Progress, DependentsStep, dependents
    <2> QED  BY <1>7, <2>1, <2>2, <2>3, TypeParts, BudgetSpent DEF CallFails
  <1>8. CASE Restart
    <2>1. /\ UNCHANGED <<obj, deps, cluster, rev>>
          /\ pc' = "idle" /\ cum' = NoObj /\ queued' \in BOOLEAN
          /\ cumCache' = obj /\ depCache' = deps /\ events' = {}
      BY <1>8 DEF Restart
    <2>2. WorkerTypes' /\ HasCopy'  BY <2>1 DEF WorkerTypes, HasCopy, Steps
    <2>3. DependentTypes' /\ cumCache' \in Monitor \cup {NoObj}
      BY <2>1 DEF DependentTypes, TypeOK
    <2>4. Seen  BY <2>1 DEF Seen
    <2> QED  BY <1>8, <2>1, <2>2, <2>3, <2>4, TypeParts, BudgetSpent DEF Restart
  <1>9. CASE CreateMonitor
    <2>1. PICK s \in Specs, f \in InitialFinalizers :
            obj' = [uid |-> rev + 1, rv |-> rev + 1, deleting |-> FALSE, fin |-> f, spec |-> s,
                    smRef |-> NoRef, prRef |-> NoRef, err |-> NoErr]
      BY <1>9 DEF CreateMonitor
    <2>2. f \in SUBSET AllFinalizers /\ FinalizerKey \notin f
      BY ClusterUrlMonitorAssumption, KeyTypes DEF AllFinalizers
    <2>3. NoErr \in MonitorErrors  BY DEF MonitorErrors
    <2>4. obj' \in Monitor  BY <1>2, <2>1, <2>2, <2>3 DEF Monitor
    <2>5. obj'.rv = rev + 1 /\ ~obj'.deleting /\ FinalizerKey \notin obj'.fin
      BY <2>1, <2>2
    <2>6. /\ obj = NoObj /\ Edit /\ rev' = rev + 1
          /\ UNCHANGED <<cumCache, queued, pc, cum, dependents, cluster>>
      BY <1>9 DEF CreateMonitor
    <2>7. ObjectTypes'  BY <1>2, <2>4, <2>6 DEF ObjectTypes
    <2>8. Created  BY <2>4, <2>5, <2>6 DEF Created, dependents
    <2> QED  BY <1>1, <2>6, <2>7, <2>8, TypeParts, BudgetSpent
  <1>10. CASE EditSpec
    <2>1. obj \in Monitor  BY <1>10 DEF EditSpec, TypeOK
    <2>2. PICK s \in Specs : obj' = [obj EXCEPT !.spec = s, !.rv = rev + 1]
      BY <1>10 DEF EditSpec
    <2>3. obj' \in Monitor  BY <1>2, <2>1, <2>2, MonitorFields
    <2>4. obj'.rv = rev + 1 /\ obj'.fin = obj.fin /\ obj'.deleting = obj.deleting
      BY <2>1, <2>2 DEF Monitor
    <2>5. Edit /\ rev' = rev + 1 /\ UNCHANGED <<cumCache, queued, pc, cum, dependents, cluster>>
      BY <1>10 DEF EditSpec
    <2>6. ObjectTypes'  BY <1>2, <2>3, <2>5 DEF ObjectTypes
    <2>7. ByOthers  BY <2>1, <2>3, <2>4, <2>5 DEF ByOthers, StoredAs, dependents
    <2> QED  BY <1>1, <2>5, <2>6, <2>7, TypeParts, BudgetSpent
  <1>11. CASE DeleteMonitor
    <2> DEFINE new == [obj EXCEPT !.deleting = TRUE]
    <2>1. obj \in Monitor  BY <1>11 DEF DeleteMonitor, TypeOK
    <2>2. new \in Monitor  BY <2>1, MonitorFields
    <2>3. new.fin = obj.fin /\ new.deleting  BY <2>1 DEF Monitor
    <2>4. Edit /\ Store(new) /\ UNCHANGED <<cumCache, queued, pc, cum, dependents, cluster>>
      BY <1>11 DEF DeleteMonitor
    <2> HIDE DEF new
    <2>5. ObjectTypes' /\ StoredAs(new)  BY <2>2, <2>4, StoreTypes
    <2>6. ByOthers  BY <2>1, <2>2, <2>3, <2>4, <2>5 DEF ByOthers, dependents
    <2> QED  BY <1>1, <2>4, <2>5, <2>6, TypeParts, BudgetSpent
  <1>12. CASE ChangeCluster
    <2>1. Edit /\ cluster' \in Clusters /\ UNCHANGED <<obj, cumCache, queued, pc, cum, dependents, rev>>
      BY <1>12 DEF ChangeCluster
    <2>2. Moved  BY <2>1 DEF Moved, Progress, DependentsStep, dependents
    <2> QED  BY <1>1, <2>1, <2>2, TypeParts, BudgetSpent
  <1> QED
    BY <1>3, <1>4, <1>5, <1>6, <1>7, <1>8, <1>9, <1>10, <1>11, <1>12 DEF Next, Users

\* The initial state.
LEMMA InitTypes ==
    ASSUME Init
    PROVE  TypeOK /\ HasCopy
  <1>1. deps \in [Kinds -> Dependent \cup {NoObj}] /\ depCache = deps  BY DEF Init
  <1>2. edits \in 0..MaxEdits /\ faults \in 0..MaxFaults /\ rev \in Nat
    BY Bounds DEF Init
  <1> QED  BY <1>1, <1>2 DEF Init, TypeOK, HasCopy

\* What a step does, the stuttering one included.
LEMMA StepsTaken ==
    ASSUME TypeOK, HasCopy, [Next]_vars
    PROVE  /\ TypeOK' /\ HasCopy'
           /\ Written \/ Moved \/ GetClusterUrlMonitor \/ Seen \/ ByOthers \/ Created
  <1>1. CASE Reconcile  BY <1>1, ReconcileSteps
  <1>2. CASE Next /\ ~Reconcile  BY <1>2, OtherSteps
  <1>3. CASE UNCHANGED vars
    <2>1. Moved  BY <1>3 DEF vars, Moved, Progress, DependentsStep
    <2> QED  BY <1>3, <2>1 DEF vars, TypeOK, HasCopy
  <1> QED  BY <1>1, <1>2, <1>3

\* Every state has the declared types: each write of the controller stores a
\* well-formed monitor, ServiceMonitor or PrometheusRule, whatever the cluster's
\* objects hold (clusterurlmonitor.go, Reconcile).
THEOREM TypeCorrect == Spec => []TypeOK
  <1>1. Init => TypeOK /\ HasCopy  BY InitTypes
  <1>2. TypeOK /\ HasCopy /\ [Next]_vars => TypeOK' /\ HasCopy'  BY StepsTaken
  <1> QED  BY <1>1, <1>2, PTL DEF Spec

----------------------------------------------------------------------------
(* The error budget of the rules.                                          *)

\* Whatever SLO users ask for and whoever wrote the rule when, its objective is
\* above 90% and below 100% (IsValid, ParseMonitorSLOSpecs): the threshold of the
\* alerts, a multiple of what is left to 100%, is never zero or negative.
THEOREM RuleBudget == Spec => []RuleHasErrorBudget
  <1> DEFINE I == TypeOK /\ HasCopy /\ RuleHasErrorBudget
  <1>1. Init => I
    <2>1. Init => deps["rule"] = NoObj  BY DEF Init, Kinds
    <2> QED  BY <2>1, InitTypes DEF RuleHasErrorBudget
  <1>2. I /\ [Next]_vars => I'
    <2> SUFFICES ASSUME I, [Next]_vars PROVE I'  OBVIOUS
    <2>1. TypeOK' /\ HasCopy'  BY StepsTaken
    <2>2. CASE UNCHANGED deps  BY <2>1, <2>2 DEF RuleHasErrorBudget
    <2>3. CASE DependentsStep
      <3>1. "rule" \in Kinds /\ DOMAIN deps = Kinds  BY DEF Kinds, TypeOK
      <3>2. CASE \E k \in Kinds : deps' = [deps EXCEPT ![k] = NoObj]
        BY <2>1, <3>1, <3>2 DEF RuleHasErrorBudget
      <3>3. ASSUME NEW k \in Kinds, NEW d \in Dependent, deps' = [deps EXCEPT ![k] = d],
                   k = "rule" => d.spec.slo \in Budgeted
            PROVE  RuleHasErrorBudget'
        BY <3>1, <3>3 DEF RuleHasErrorBudget, Budgeted
      <3> QED  BY <2>1, <2>2, <2>3, <3>2, <3>3 DEF DependentsStep
    <2>4. UNCHANGED deps \/ DependentsStep
      BY StepsTaken DEF Written, Moved, GetClusterUrlMonitor, Seen, ByOthers, Created, dependents
    <2> QED  BY <2>2, <2>3, <2>4
  <1>3. I => RuleHasErrorBudget  OBVIOUS
  <1> QED  BY <1>1, <1>2, <1>3, PTL DEF Spec
----------------------------------------------------------------------------
(* The controller implements MonitorLife.                                  *)

\* A copy is not newer than the stored monitor, and one of the same revision is
\* the stored monitor.
CopyOf(m) ==
    m # NoObj => /\ m.rv <= rev
                 /\ obj # NoObj => m.rv <= obj.rv /\ (m.rv = obj.rv => m = obj)

Copies == (obj # NoObj => obj.rv <= rev) /\ CopyOf(cumCache) /\ CopyOf(cum)

\* The stored monitor carries the finalizer.
Protected == obj # NoObj /\ FinalizerKey \in obj.fin

\* A cached monitor under the finalizer is still under it, unless it knows of its
\* deletion.
CacheVouches ==
    (cumCache # NoObj /\ ~cumCache.deleting /\ FinalizerKey \in cumCache.fin) => Protected

\* The finalizer is set where there is none; it is removed from a copy that knows of
\* the deletion and is not newer than the cache; dependents are put up under it.
CopyUsed ==
    /\ pc = "setFinalizer" => FinalizerKey \notin cum.fin
    /\ pc \in Removing => cum.deleting /\ (cumCache # NoObj => cum.rv <= cumCache.rv)
    /\ pc \in Deploying => Protected

LifeInv == TypeOK /\ HasCopy /\ Copies /\ CacheVouches /\ CopyUsed

\* Revisions are numbers.
LEMMA Revisions ==
    ASSUME TypeOK
    PROVE  /\ rev \in Nat /\ NoObj \notin Monitor
           /\ obj # NoObj => obj \in Monitor /\ obj.rv \in Nat
           /\ cumCache # NoObj => cumCache \in Monitor /\ cumCache.rv \in Nat
           /\ cum # NoObj => cum \in Monitor /\ cum.rv \in Nat
  BY ClusterUrlMonitorAssumption DEF TypeOK, Monitor

\* An accepted write starts from the stored monitor (optimistic locking).
LEMMA FreshIsStored ==
    ASSUME LifeInv, pc # "idle", Fresh(obj, cum)
    PROVE  cum = obj /\ obj \in Monitor
  BY Revisions DEF LifeInv, HasCopy, Copies, CopyOf, Fresh

\* What is stored under a new revision is newer than every copy.
LEMMA CopiesKept ==
    ASSUME LifeInv, NEW new, StoredAs(new), UNCHANGED cumCache,
           UNCHANGED cum \/ cum' = NoObj
    PROVE  Copies'
  <1>1. CASE UNCHANGED <<obj, rev>>
    BY <1>1 DEF LifeInv, Copies, CopyOf
  <1>2. CASE rev' = rev /\ obj' = NoObj
    BY <1>2 DEF LifeInv, Copies, CopyOf
  <1>3. CASE rev' = rev + 1 /\ obj' \in Monitor /\ obj'.rv = rev + 1
    BY <1>3, Revisions DEF LifeInv, Copies, CopyOf
  <1> QED  BY <1>1, <1>2, <1>3 DEF StoredAs

\* A write that keeps the finalizer where it is keeps the monitor under it.
LEMMA ProtectedKept ==
    ASSUME TypeOK, NEW new \in Monitor, StoredAs(new), Protected, FinalizerKey \in new.fin
    PROVE  Protected'
  <1>1. new.fin # {}  OBVIOUS
  <1> QED  BY <1>1, Revisions DEF StoredAs, Protected

\* The initial state.
LEMMA InitLife ==
    ASSUME Init
    PROVE  LifeInv
  BY InitTypes DEF Init, LifeInv, Copies, CopyOf, CacheVouches, CopyUsed, Removing, Deploying

\* The invariant after a write by the reconcile.
LEMMA WrittenKeeps ==
    ASSUME LifeInv, Written
    PROVE  Copies' /\ CacheVouches' /\ CopyUsed'
  <1>1. PICK new \in Monitor :
          /\ Accepted(new) /\ StoredAs(new) /\ new.deleting = cum.deleting
          /\ \/ pc = "setFinalizer" /\ FinalizerKey \in new.fin
             \/ pc = "removeFinalizer" /\ FinalizerKey \in cum.fin /\ FinalizerKey \notin new.fin
             \/ pc \in Deploying /\ new.fin = cum.fin
    BY DEF Written
  <1>2. pc # "idle" /\ pc' = "idle" /\ cum' = NoObj /\ cumCache' = cumCache  BY DEF Written
  <1>3. cum = obj /\ obj \in Monitor  BY <1>1, <1>2, FreshIsStored DEF Accepted
  <1>4. Copies'  BY <1>1, <1>2, CopiesKept
  <1>5. CopyUsed'  BY <1>2 DEF CopyUsed, Removing, Deploying
  <1>6. CacheVouches'
    <2>1. CASE FinalizerKey \in new.fin
      BY <1>1, <1>2, <2>1, ProtectedKept DEF LifeInv, CacheVouches
    <2>2. CASE pc = "removeFinalizer"
      <3>1. cum.deleting /\ (cumCache # NoObj => cum.rv <= cumCache.rv)
        BY <2>2 DEF LifeInv, CopyUsed, Removing
      <3>2. cumCache # NoObj => cumCache = obj
        BY <1>3, <3>1, Revisions DEF LifeInv, Copies, CopyOf
      <3> QED  BY <1>2, <1>3, <3>1, <3>2 DEF CacheVouches
    <2>3. CASE pc \in Deploying /\ new.fin = cum.fin
      <3>1. FinalizerKey \in new.fin  BY <1>3, <2>3 DEF LifeInv, CopyUsed, Protected
      <3> QED  BY <2>1, <3>1
    <2> QED  BY <1>1, <2>1, <2>2, <2>3
  <1> QED  BY <1>4, <1>5, <1>6

\* The invariant after a step that leaves the monitor and its cached copy alone.
LEMMA MovedKeeps ==
    ASSUME LifeInv, Moved
    PROVE  Copies' /\ CacheVouches' /\ CopyUsed'
  <1>1. UNCHANGED <<obj, cumCache>> /\ rev' \in {rev, rev + 1} /\ Progress  BY DEF Moved
  <1>2. Copies'
    BY <1>1, Revisions DEF LifeInv, Copies, CopyOf, Progress
  <1>3. CacheVouches'  BY <1>1 DEF LifeInv, CacheVouches, Protected
  <1>4. CASE pc' = "idle"  BY <1>2, <1>3, <1>4 DEF CopyUsed, Removing, Deploying
  <1>5. CASE UNCHANGED <<cum, pc>>
    BY <1>1, <1>2, <1>3, <1>5 DEF LifeInv, CopyUsed, Protected
  <1>6. CASE UNCHANGED cum /\ pc \in Deploying /\ pc' \in Deploying
    BY <1>1, <1>2, <1>3, <1>6 DEF LifeInv, CopyUsed, Protected, Removing, Deploying
  <1>7. CASE UNCHANGED cum /\ pc \in Removing /\ pc' \in Removing
    BY <1>1, <1>2, <1>3, <1>7 DEF LifeInv, CopyUsed, Protected, Removing, Deploying
  <1>8. CASE UNCHANGED cum /\ pc' = "setFinalizer" /\ FinalizerKey \notin cum.fin
    BY <1>1, <1>2, <1>3, <1>8 DEF CopyUsed, Protected, Removing, Deploying
  <1> QED  BY <1>1, <1>4, <1>5, <1>6, <1>7, <1>8 DEF Progress

\* The invariant after a read of the monitor, by the reconcile or the informer.
LEMMA ReadKeeps ==
    ASSUME LifeInv, GetClusterUrlMonitor \/ Seen
    PROVE  Copies' /\ CacheVouches' /\ CopyUsed'
  <1>1. CASE GetClusterUrlMonitor
    <2>1. UNCHANGED <<obj, cumCache, rev>> /\ cum' = cumCache
      BY <1>1 DEF GetClusterUrlMonitor
    <2>2. Copies' /\ CacheVouches'
      BY <2>1 DEF LifeInv, Copies, CopyOf, CacheVouches, Protected
    <2>3. CASE cumCache = NoObj
      <3>1. pc' = "idle"  BY <1>1, <2>3 DEF GetClusterUrlMonitor
      <3> QED  BY <2>2, <3>1 DEF CopyUsed, Removing, Deploying
    <2>4. CASE cumCache # NoObj
      <3>1. pc' = FirstStep(cumCache)  BY <1>1, <2>4 DEF GetClusterUrlMonitor
      <3>2. CASE cumCache.deleting
        <4>1. pc' = "deleteServiceMonitor"  BY <3>1, <3>2 DEF FirstStep, WasDeleteRequested
        <4> QED  BY <2>1, <2>2, <2>4, <3>2, <4>1, Revisions
                 DEF LifeInv, CopyUsed, Removing, Deploying
      <3>3. CASE ~cumCache.deleting /\ FinalizerKey \notin cumCache.fin
        <4>1. pc' = "setFinalizer"
          BY <3>1, <3>3 DEF FirstStep, WasDeleteRequested, SetFinalizer, HasFinalizer
        <4> QED  BY <2>1, <2>2, <3>3, <4>1 DEF CopyUsed, Removing, Deploying
      <3>4. CASE ~cumCache.deleting /\ FinalizerKey \in cumCache.fin
        <4>1. pc' = "serviceMonitor"
          BY <3>1, <3>4 DEF FirstStep, WasDeleteRequested, SetFinalizer, HasFinalizer
        <4>2. Protected'  BY <2>1, <2>4, <3>4 DEF LifeInv, CacheVouches, Protected
        <4> QED  BY <2>2, <4>1, <4>2 DEF CopyUsed, Removing, Deploying
      <3> QED  BY <3>2, <3>3, <3>4
    <2> QED  BY <2>3, <2>4
  <1>2. CASE Seen
    <2>1. /\ cumCache' = obj /\ UNCHANGED <<obj, rev>>
          /\ UNCHANGED <<pc, cum>> \/ (pc' = "idle" /\ cum' = NoObj)
      BY <1>2 DEF Seen
    <2>2. Copies'  BY <2>1, Revisions DEF LifeInv, Copies, CopyOf
    <2>3. CacheVouches'  BY <2>1 DEF CacheVouches, Protected
    <2>4. CASE pc' = "idle"  BY <2>2, <2>3, <2>4 DEF CopyUsed, Removing, Deploying
    <2>5. CASE UNCHANGED <<pc, cum>> /\ pc # "idle"
      <3>1. cum # NoObj  BY <2>5, Revisions DEF LifeInv, HasCopy
      <3> QED  BY <2>1, <2>2, <2>3, <2>5, <3>1
               DEF LifeInv, Copies, CopyOf, CopyUsed, Protected
    <2> QED  BY <2>1, <2>4, <2>5
  <1> QED  BY <1>1, <1>2

\* The invariant after a write by users or another controller.
LEMMA OthersKeep ==
    ASSUME LifeInv, ByOthers \/ Created
    PROVE  Copies' /\ CacheVouches' /\ CopyUsed'
  <1>1. UNCHANGED <<cumCache, pc, cum>>  BY DEF ByOthers, Created
  <1>2. Copies' /\ (Protected => Protected')
    <2>1. CASE ByOthers
      <3>1. PICK new \in Monitor :
              /\ StoredAs(new)
              /\ new.fin = obj.fin \/ new.fin = obj.fin \ {ForeignFinalizer}
        BY <2>1 DEF ByOthers
      <3>2. Protected => FinalizerKey \in new.fin  BY <3>1, KeyTypes DEF Protected
      <3> QED  BY <1>1, <3>1, <3>2, CopiesKept, ProtectedKept DEF LifeInv
    <2>2. CASE Created
      BY <2>2, <1>1, Revisions DEF Created, LifeInv, Copies, CopyOf, Protected
    <2> QED  BY <2>1, <2>2
  <1> QED  BY <1>1, <1>2 DEF LifeInv, CacheVouches, CopyUsed

\* Every step keeps the invariant.
LEMMA LifeKept ==
    ASSUME LifeInv, [Next]_vars
    PROVE  LifeInv'
  <1>1. TypeOK /\ HasCopy  BY DEF LifeInv
  <1> QED  BY <1>1, StepsTaken, WrittenKeeps, MovedKeeps, ReadKeeps, OthersKeep DEF LifeInv

LEMMA LifeInvariant == Spec => []LifeInv
  BY InitLife, LifeKept, PTL DEF Spec
\* The phase of the monitor, before and after a step.
LEMMA Phases ==
    /\ LifeOf(obj) = "absent"  <=> obj = NoObj
    /\ LifeOf(obj) = "open"    <=> obj # NoObj /\ ~obj.deleting /\ FinalizerKey \notin obj.fin
    /\ LifeOf(obj) = "kept"    <=> obj # NoObj /\ ~obj.deleting /\ FinalizerKey \in obj.fin
    /\ LifeOf(obj) = "going"   <=> obj # NoObj /\ obj.deleting /\ FinalizerKey \in obj.fin
    /\ LifeOf(obj) = "leaving" <=> obj # NoObj /\ obj.deleting /\ FinalizerKey \notin obj.fin
  BY DEF LifeOf, Phase, WasDeleteRequested

LEMMA PhasesNext ==
    /\ LifeOf(obj)' = "absent"  <=> obj' = NoObj
    /\ LifeOf(obj)' = "open"    <=> obj' # NoObj /\ ~obj'.deleting /\ FinalizerKey \notin obj'.fin
    /\ LifeOf(obj)' = "kept"    <=> obj' # NoObj /\ ~obj'.deleting /\ FinalizerKey \in obj'.fin
    /\ LifeOf(obj)' = "going"   <=> obj' # NoObj /\ obj'.deleting /\ FinalizerKey \in obj'.fin
    /\ LifeOf(obj)' = "leaving" <=> obj' # NoObj /\ obj'.deleting /\ FinalizerKey \notin obj'.fin
  BY DEF LifeOf, Phase, WasDeleteRequested

\* A write of the reconcile protects an open monitor, releases a going one, or
\* leaves the phase alone.
LEMMA WrittenLives ==
    ASSUME LifeInv, Written
    PROVE  [Life!Next]_(Life!vars)
  <1>1. PICK new \in Monitor :
          /\ Accepted(new) /\ StoredAs(new) /\ new.deleting = cum.deleting
          /\ \/ pc = "setFinalizer" /\ FinalizerKey \in new.fin
             \/ pc = "removeFinalizer" /\ FinalizerKey \in cum.fin /\ FinalizerKey \notin new.fin
             \/ pc \in Deploying /\ new.fin = cum.fin
    BY DEF Written
  <1>2. pc # "idle" /\ UNCHANGED deps  BY DEF Written
  <1>3. cum = obj /\ obj \in Monitor /\ obj # NoObj
    BY <1>1, <1>2, FreshIsStored, Revisions DEF Accepted, LifeInv
  <1>4. CASE UNCHANGED obj  BY <1>2, <1>4 DEF Life!vars
  <1>5. CASE obj' = NoObj /\ new.deleting /\ new.fin = {}
    <2>1. pc = "removeFinalizer" /\ FinalizerKey \in obj.fin
      BY <1>1, <1>3, <1>5 DEF LifeInv, CopyUsed, Protected
    <2>2. LifeOf(obj) = "going" /\ LifeOf(obj)' = "absent"
      BY <1>1, <1>3, <1>5, <2>1, Phases, PhasesNext
    <2> QED  BY <1>2, <2>2 DEF Life!Next, Life!Release
  <1>6. CASE obj' \in Monitor /\ obj'.fin = new.fin /\ obj'.deleting = new.deleting
    <2>1. obj' # NoObj  BY <1>6, Revisions DEF LifeInv
    <2>2. CASE pc = "setFinalizer" /\ FinalizerKey \in new.fin
      <3>1. FinalizerKey \notin obj.fin  BY <1>3, <2>2 DEF LifeInv, CopyUsed
      <3>2. ~obj.deleting  BY <1>1, <2>2, <3>1 DEF Accepted
      <3>3. LifeOf(obj) = "open" /\ LifeOf(obj)' = "kept"
        BY <1>1, <1>3, <1>6, <2>1, <2>2, <3>1, <3>2, Phases, PhasesNext
      <3> QED  BY <1>2, <3>3 DEF Life!Next, Life!Protect
    <2>3. CASE pc = "removeFinalizer" /\ FinalizerKey \in cum.fin /\ FinalizerKey \notin new.fin
      <3>1. cum.deleting  BY <2>3 DEF LifeInv, CopyUsed, Removing
      <3>2. LifeOf(obj) = "going" /\ LifeOf(obj)' = "leaving"
        BY <1>1, <1>3, <1>6, <2>1, <2>3, <3>1, Phases, PhasesNext
      <3> QED  BY <1>2, <3>2 DEF Life!Next, Life!Release
    <2>4. CASE new.fin = cum.fin
      <3>1. LifeOf(obj)' = LifeOf(obj)
        BY <1>1, <1>3, <1>6, <2>1, <2>4 DEF LifeOf, Phase, WasDeleteRequested
      <3> QED  BY <1>2, <3>1 DEF Life!vars
    <2> QED  BY <1>1, <2>2, <2>3, <2>4
  <1> QED  BY <1>1, <1>4, <1>5, <1>6 DEF StoredAs

\* Without a write of the monitor, one dependent is put up under the finalizer, or
\* taken down.
LEMMA MovedLives ==
    ASSUME LifeInv, Moved
    PROVE  [Life!Next]_(Life!vars)
  <1>1. LifeOf(obj)' = LifeOf(obj) /\ DependentsStep  BY DEF Moved
  <1>2. CASE UNCHANGED deps  BY <1>1, <1>2 DEF Life!vars
  <1>3. ASSUME NEW k \in Kinds, deps' = [deps EXCEPT ![k] = NoObj]
        PROVE  Life!Next
    BY <1>1, <1>3 DEF Life!Next, Life!TakeDown
  <1>4. ASSUME pc \in Deploying, NEW k \in Kinds, NEW d, deps' = [deps EXCEPT ![k] = d]
        PROVE  Life!Next
    <2>1. LifeOf(obj) \in {"kept", "going"}
      BY <1>4 DEF LifeInv, CopyUsed, Protected, LifeOf, Phase
    <2>2. deps'[k] = d  BY <1>4 DEF LifeInv, TypeOK
    <2>3. deps' = [deps EXCEPT ![k] = deps'[k]]  BY <1>4, <2>2
    <2>4. Life!PutUp(k)  BY <1>1, <2>1, <2>3 DEF Life!PutUp
    <2> QED  BY <2>4 DEF Life!Next
  <1> QED  BY <1>1, <1>2, <1>3, <1>4 DEF DependentsStep

\* Users create a monitor or request its deletion; another controller lets go of one
\* that is leaving.
LEMMA OthersLive ==
    ASSUME LifeInv, ByOthers \/ Created
    PROVE  [Life!Next]_(Life!vars)
  <1>1. UNCHANGED deps  BY DEF ByOthers, Created
  <1>2. CASE Created
    <2>1. obj' # NoObj  BY <1>2, Revisions DEF LifeInv, Created
    <2>2. LifeOf(obj) = "absent" /\ LifeOf(obj)' = "open"
      BY <1>2, <2>1, Phases, PhasesNext DEF Created
    <2> QED  BY <1>1, <2>2 DEF Life!Next, Life!Create
  <1>3. CASE ByOthers
    <2>1. PICK new \in Monitor :
            /\ StoredAs(new) /\ (obj.deleting => new.deleting)
            /\ \/ new.fin = obj.fin
               \/ obj.deleting /\ new.fin = obj.fin \ {ForeignFinalizer}
      BY <1>3 DEF ByOthers
    <2>2. obj \in Monitor /\ obj # NoObj  BY <1>3, Revisions DEF LifeInv, ByOthers
    <2>3. (FinalizerKey \in new.fin) <=> (FinalizerKey \in obj.fin)  BY <2>1, KeyTypes
    <2>4. CASE LifeOf(obj)' = LifeOf(obj)  BY <1>1, <2>4 DEF Life!vars
    <2>5. CASE obj' = NoObj /\ new.deleting /\ new.fin = {}
      <3>1. FinalizerKey \notin obj.fin  BY <2>3, <2>5
      <3>2. LifeOf(obj)' = "absent" /\ LifeOf(obj) \in {"open", "leaving"}
        BY <2>2, <2>5, <3>1, Phases, PhasesNext
      <3> QED  BY <1>1, <3>2 DEF Life!Next, Life!RequestDeletion, Life!Leave
    <2>6. CASE obj' \in Monitor /\ obj'.fin = new.fin /\ obj'.deleting = new.deleting
      <3>1. obj' # NoObj  BY <2>6, Revisions DEF LifeInv
      <3>2. CASE ~obj.deleting /\ new.deleting
        <4>1. \/ LifeOf(obj) = "open" /\ LifeOf(obj)' = "leaving"
              \/ LifeOf(obj) = "kept" /\ LifeOf(obj)' = "going"
          BY <2>2, <2>3, <2>6, <3>1, <3>2, Phases, PhasesNext
        <4> QED  BY <1>1, <4>1 DEF Life!Next, Life!RequestDeletion
      <3>3. CASE ~(~obj.deleting /\ new.deleting)
        <4>1. LifeOf(obj)' = LifeOf(obj)
          BY <2>1, <2>2, <2>3, <2>6, <3>1, <3>3 DEF LifeOf, Phase, WasDeleteRequested
        <4> QED  BY <2>4, <4>1
      <3> QED  BY <3>2, <3>3
    <2> QED  BY <2>1, <2>4, <2>5, <2>6 DEF StoredAs
  <1> QED  BY <1>2, <1>3

\* The controller refines MonitorLife, for every set of specs and states of the
\* cluster and however caches lag, calls fail, the operator restarts and other
\* controllers hold the monitor back: dependents appear only under the finalizer,
\* the finalizer goes only after a deletion request, and no monitor returns from its
\* deletion, although its reconcile runs on into EnsureFinalizerSet
\* (clusterurlmonitor.go, Reconcile).
THEOREM RefinesLife == Spec => ImplementsLife
  <1>1. Init => Life!Init
    BY DEF Init, Life!Init, LifeOf
  <1>2. LifeInv /\ [Next]_vars => [Life!Next]_(Life!vars)
    <2> SUFFICES ASSUME LifeInv, [Next]_vars PROVE [Life!Next]_(Life!vars)  OBVIOUS
    <2>1. CASE GetClusterUrlMonitor \/ Seen
      <3>1. UNCHANGED <<obj, deps>>  BY <2>1 DEF GetClusterUrlMonitor, Seen, dependents
      <3> QED  BY <3>1 DEF Life!vars
    <2> QED  BY <2>1, StepsTaken, WrittenLives, MovedLives, OthersLive DEF LifeInv
  <1> QED  BY <1>1, <1>2, LifeInvariant, PTL DEF Spec, ImplementsLife, Life!Spec
=============================================================================
