---------------------- MODULE HostedControlPlaneProofs ----------------------
(***************************************************************************)
(* Proofs about HostedControlPlane, for every set of specs, configurations,*)
(* probes, Dynatrace monitors and every bound.                             *)
(***************************************************************************)
EXTENDS HostedControlPlane, TLAPS

\* A reconcile that is not idle has read what it works on.  One that is at the
\* Dynatrace monitors has found that they have a location.
HasWork ==
    /\ pc # "idle" => work \in Work
    /\ pc \in {"dynatraceExcess", "dynatraceMove", "dynatraceCreate"} =>
            DynatraceUsable(work.hcp.spec)

\* The conjuncts of TypeOK, by the groups that the actions leave unchanged.
Steps == {"idle", "finalizer", "readiness", "healthcheck"} \cup Deploying \cup Removing

ObjectTypes  == /\ hcp \in HCP \cup {NoObj} /\ hcpCache \in HCP \cup {NoObj}
                /\ released \in {"no", "in time", "late", "dynatrace", "unconfigured"}
                /\ overlooked \subseteq ProbeIds
WorkerTypes  == queued \in BOOLEAN /\ pc \in Steps /\ work \in Work \cup {NoObj}
CheckTypes   == /\ health \in Nat \cup {NoObj} /\ streak \in Nat /\ passed \in Nat
                /\ healthCache \in [count : Nat \cup {NoObj}, fresh : BOOLEAN]
InsideTypes  == route \in BOOLEAN /\ monitor \in {"absent", "present", "deleting"}
ServiceTypes == /\ dynatrace \in [DynatraceIds -> Locations \cup {NoObj}]
                /\ probes \in [ProbeIds -> Probe \cup {NoObj}]
WorldTypes   == /\ hcLimited \in BOOLEAN /\ enabled \in BOOLEAN
                /\ configMap \in Config \cup {NoObj}
                /\ started \in [url : {"none", "valid"}, onlyPublic : BOOLEAN, skip : BOOLEAN]
                /\ up \subseteq Services /\ late \in BOOLEAN /\ old \in BOOLEAN
BudgetTypes  == edits \in 0..MaxEdits /\ faults \in 0..MaxFaults

----------------------------------------------------------------------------
(* Type correctness.                                                       *)

\* The parts make up the whole, and a group that is left alone keeps its part.
LEMMA TypeParts ==
    ASSUME TypeOK
    PROVE  /\ ObjectTypes /\ WorkerTypes /\ CheckTypes /\ InsideTypes /\ ServiceTypes
           /\ WorldTypes /\ BudgetTypes
           /\ UNCHANGED objects => ObjectTypes'
           /\ UNCHANGED worker  => WorkerTypes'
           /\ UNCHANGED checks  => CheckTypes'
           /\ UNCHANGED inside  => InsideTypes'
           /\ UNCHANGED <<dynatrace, probes>> => ServiceTypes'
           /\ UNCHANGED world   => WorldTypes'
           /\ UNCHANGED budget  => BudgetTypes'
           /\ (/\ ObjectTypes /\ WorkerTypes /\ CheckTypes /\ InsideTypes /\ ServiceTypes
               /\ WorldTypes /\ BudgetTypes)' => TypeOK'
  <1>1. UNCHANGED objects => ObjectTypes'  BY DEF TypeOK, objects, ObjectTypes
  <1>2. UNCHANGED worker  => WorkerTypes'  BY DEF TypeOK, worker, WorkerTypes, Steps
  <1>3. UNCHANGED checks  => CheckTypes'   BY DEF TypeOK, checks, CheckTypes
  <1>4. UNCHANGED inside  => InsideTypes'  BY DEF TypeOK, inside, InsideTypes
  <1>5. UNCHANGED <<dynatrace, probes>> => ServiceTypes'  BY DEF TypeOK, ServiceTypes
  <1>6. UNCHANGED world   => WorldTypes'   BY DEF TypeOK, world, operator, WorldTypes
  <1>7. UNCHANGED budget  => BudgetTypes'  BY DEF TypeOK, budget, BudgetTypes
  <1> USE DEF TypeOK, ObjectTypes, WorkerTypes, Steps, CheckTypes, InsideTypes, ServiceTypes,
              WorldTypes, BudgetTypes
  <1>8. /\ ObjectTypes /\ WorkerTypes /\ CheckTypes /\ InsideTypes /\ ServiceTypes
        /\ WorldTypes /\ BudgetTypes
    OBVIOUS
  <1>9. (/\ ObjectTypes /\ WorkerTypes /\ CheckTypes /\ InsideTypes /\ ServiceTypes
         /\ WorldTypes /\ BudgetTypes)' => TypeOK'
    OBVIOUS
  <1> QED  BY <1>1, <1>2, <1>3, <1>4, <1>5, <1>6, <1>7, <1>8, <1>9

\* The merge of configurations (getRHOBSConfig and main).
LEMMA ConfigTypes ==
    ASSUME TypeOK
    PROVE  /\ getRHOBSConfig \in Config /\ Fallback \in Config
           /\ \A c \in Config : Override(started, c) \in RHOBSConfig
           /\ {StartRead, StartUnread} \subseteq
                  [url : {"none", "valid"}, onlyPublic : BOOLEAN, skip : BOOLEAN]
  <1>1. \A b \in RHOBSConfig, c \in Config : Override(b, c) \in RHOBSConfig
    BY DEF Override, RHOBSConfig, Config
  <1>2. \A c \in RHOBSConfig :
          Validated(c) \in [url : {"none", "valid"}, onlyPublic : BOOLEAN, skip : BOOLEAN]
    BY DEF Validated, RHOBSConfig, URLs
  <1>3. \A c \in RHOBSConfig, on \in BOOLEAN : WithDynatrace(c, on) \in Config
    BY DEF WithDynatrace, RHOBSConfig, Config
  <1>4. started \in RHOBSConfig  BY DEF TypeOK, RHOBSConfig, URLs
  <1>5. configMap # NoObj => configMap \in Config /\ configMap.dynatrace \in BOOLEAN
    BY DEF TypeOK, Config
  <1>6. {StartRead, StartUnread} \subseteq
            [url : {"none", "valid"}, onlyPublic : BOOLEAN, skip : BOOLEAN]
    BY <1>1, <1>2, <1>5, HCPAssumption DEF StartRead, StartUnread
  <1>7. getRHOBSConfig \in Config /\ Fallback \in Config
    BY <1>1, <1>3, <1>4, <1>5 DEF getRHOBSConfig, Fallback
  <1> QED  BY <1>1, <1>4, <1>6, <1>7

\* The changes that users and the operator make keep a HostedControlPlane one.
LEMMA HCPFields ==
    ASSUME NEW c \in HCP
    PROVE  /\ c.rv \in Nat /\ c.spec \in HCPSpecs /\ c.spec \in HCPSpec
           /\ [c EXCEPT !.fin = TRUE, !.rv = @ + 1] \in HCP
           /\ [c EXCEPT !.rv = @ + 1, !.available = ~@] \in HCP
           /\ \A s \in HCPSpecs : [c EXCEPT !.rv = @ + 1, !.spec = s] \in HCP
           /\ [c EXCEPT !.rv = @ + 1, !.limited = TRUE] \in HCP
           /\ [c EXCEPT !.rv = @ + 1, !.deleting = TRUE] \in HCP
  <1>1. c.spec \in HCPSpecs /\ HCPSpecs \subseteq HCPSpec  BY HCPAssumption DEF HCP
  <1>2. c.rv \in Nat /\ c.rv + 1 \in Nat /\ c.available \in BOOLEAN  BY DEF HCP
  <1>3. \A n \in Nat, b \in BOOLEAN, s \in HCPSpecs :
          /\ [c EXCEPT !.fin = b, !.rv = n] \in HCP
          /\ [c EXCEPT !.rv = n, !.available = b] \in HCP
          /\ [c EXCEPT !.rv = n, !.spec = s] \in HCP
          /\ [c EXCEPT !.rv = n, !.limited = b] \in HCP
          /\ [c EXCEPT !.rv = n, !.deleting = b] \in HCP
    BY DEF HCP
  <1>4. TRUE \in BOOLEAN /\ (~c.available) \in BOOLEAN  OBVIOUS
  <1> QED  BY <1>1, <1>2, <1>3, <1>4

\* What a reconcile reads is of the declared kind.
LEMMA WorkFields ==
    ASSUME NEW w \in Work
    PROVE  /\ w.hcp \in HCP /\ w.cfg \in Config /\ w.client \in BOOLEAN
           /\ w.found \in ProbeIds \cup {NoObj} /\ w.count \in Nat
           /\ w.keep \in DynatraceIds \cup {NoObj} /\ w.excess \in SUBSET DynatraceIds
           /\ \A c \in HCP : [w EXCEPT !.hcp = c] \in Work
           /\ \A n \in Nat, f \in BOOLEAN : [w EXCEPT !.count = n, !.fresh = f] \in Work
           /\ \A k \in DynatraceIds \cup {NoObj}, e \in SUBSET DynatraceIds :
                  [w EXCEPT !.keep = k, !.excess = e] \in Work
           /\ \A i \in DynatraceIds : [w EXCEPT !.excess = @ \ {i}] \in Work
           /\ \A i \in ProbeIds \cup {NoObj} : [w EXCEPT !.found = i] \in Work
  BY DEF Work

\* A step that ends the reconcile.
LEMMA Ends ==
    ASSUME TypeOK, Stop \/ Requeue \/ PeriodicRequeue
    PROVE  WorkerTypes' /\ HasWork'
  BY DEF TypeOK, HasWork, WorkerTypes, Steps, Stop, Requeue, PeriodicRequeue

\* A step that goes on, or waits, with what has been read.
LEMMA Moves ==
    ASSUME TypeOK, HasWork, pc # "idle",
           NEW l \in Steps \ {"dynatraceExcess", "dynatraceMove", "dynatraceCreate"},
           Goto(l) \/ Continue(l)
    PROVE  WorkerTypes' /\ HasWork'
  BY DEF TypeOK, HasWork, WorkerTypes, Steps, Requeue, Goto, Continue, PeriodicRequeue

\* The steps up to the choice of what to do read the object and its configuration.
LEMMA StartTypes ==
    ASSUME TypeOK, HasWork, NEW cfg \in Config, Start(cfg)
    PROVE  WorkerTypes' /\ HasWork'
  <1>1. CASE UNCHANGED <<pc, work>>
    BY <1>1 DEF Start, TypeOK, HasWork, WorkerTypes, Steps, DynatraceUsable, DynatraceLocation
  <1>2. CASE ~UNCHANGED <<pc, work>>
    <2> DEFINE w(client) == [hcp |-> hcpCache, cfg |-> cfg, client |-> client, found |-> NoObj,
                             count |-> 0, fresh |-> TRUE, keep |-> NoObj, excess |-> {}]
    <2>1. PICK client \in BOOLEAN :
            queued' = FALSE /\ work' = w(client) /\ pc' = FirstStep(w(client))
      BY <1>2 DEF Start, Clients
    <2>2. hcpCache \in HCP  BY <1>2 DEF Start, TypeOK
    <2>3. w(client) \in Work  BY <2>2 DEF Work
    <2>4. pc' \in {"idle", "finalizer", "readiness", "getProbe", "dynatrace", "deleteDynatrace",
                   "deleteProbe", "deleteRoute"}
      BY <2>1 DEF FirstStep, AfterFinalizer, AfterInternalObjects, AfterDynatrace,
                  AfterDynatraceDeletion
    <2> QED  BY <2>1, <2>3, <2>4 DEF HasWork, WorkerTypes, Steps, Deploying, Removing
  <1> QED  BY <1>1, <1>2

\* Writing and polling the health count.
LEMMA CountTypes ==
    ASSUME TypeOK
    PROVE  /\ \A n \in Nat : WriteHealth(n) => /\ health' \in Nat
                                               /\ healthCache' \in [count : Nat \cup {NoObj},
                                                                    fresh : BOOLEAN]
           /\ \A ok, rec \in BOOLEAN : Polled(ok, rec) => streak' \in Nat /\ passed' \in Nat
           /\ \A ok \in BOOLEAN, n \in Nat : CountAfter(ok, n) \in Nat
  <1>1. ASSUME NEW n \in Nat, WriteHealth(n)
        PROVE  health' \in Nat /\ healthCache' \in [count : Nat \cup {NoObj}, fresh : BOOLEAN]
    <2>1. healthCache' \in {[count |-> n, fresh |-> TRUE], healthCache,
                            [healthCache EXCEPT !.fresh = FALSE]}
      BY <1>1 DEF WriteHealth
    <2>2. healthCache \in [count : Nat \cup {NoObj}, fresh : BOOLEAN]  BY DEF TypeOK
    <2>3. [healthCache EXCEPT !.fresh = FALSE] \in [count : Nat \cup {NoObj}, fresh : BOOLEAN]
      BY <2>2
    <2> QED  BY <1>1, <2>1, <2>2, <2>3 DEF WriteHealth
  <1>2. ASSUME NEW ok \in BOOLEAN, NEW rec \in BOOLEAN, Polled(ok, rec)
        PROVE  streak' \in Nat /\ passed' \in Nat
    <2>1. streak' \in {0, streak, streak + 1} /\ passed' \in {0, passed, passed + 1}
      BY <1>2 DEF Polled, OneMore
    <2>2. streak \in Nat /\ passed \in Nat  BY DEF TypeOK
    <2> QED  BY <2>1, <2>2
  <1>3. ASSUME NEW ok \in BOOLEAN, NEW n \in Nat
        PROVE  CountAfter(ok, n) \in Nat
    <2>1. CountAfter(ok, n) \in {0, n + 1}  BY DEF CountAfter
    <2> QED  BY <2>1
  <1> QED  BY <1>1, <1>2, <1>3

\* Monitors in Dynatrace: where one is put, and what a request leaves.
LEMMA DynatraceTypes ==
    ASSUME TypeOK
    PROVE  /\ \A spec \in HCPSpec : DynatraceUsable(spec) => DynatraceLocation(spec) \in Locations
           /\ dynatrace \in [DynatraceIds -> Locations \cup {NoObj}]
           /\ \A i \in DynatraceIds \cup {NoObj} :
                  Without(i) \in [DynatraceIds -> Locations \cup {NoObj}]
           /\ \A i \in DynatraceIds, l \in Locations :
                  [dynatrace EXCEPT ![i] = l] \in [DynatraceIds -> Locations \cup {NoObj}]
  <1>1. ASSUME NEW spec \in HCPSpec, DynatraceUsable(spec)
        PROVE  DynatraceLocation(spec) \in Locations
    BY <1>1 DEF DynatraceUsable, DynatraceLocation, Locations
  <1>2. dynatrace \in [DynatraceIds -> Locations \cup {NoObj}]  BY DEF TypeOK
  <1> QED  BY <1>1, <1>2 DEF Without

\* Probes at the synthetics API: what the requests may make of them.
LEMMA ProbeTypes ==
    ASSUME TypeOK
    PROVE  /\ probes \in [ProbeIds -> Probe \cup {NoObj}]
           /\ \A i \in Found : Terminated(i) \in [ProbeIds -> Probe \cup {NoObj}]
           /\ \A i \in ProbeIds, r \in STRING : probes[i] # NoObj =>
                  [probes EXCEPT ![i].region = r] \in [ProbeIds -> Probe \cup {NoObj}]
           /\ pc # "idle" /\ HasWork => Created \subseteq [ProbeIds -> Probe \cup {NoObj}]
  <1>1. probes \in [ProbeIds -> Probe \cup {NoObj}]  BY DEF TypeOK
  <1>2. \A q \in Probe, t \in Statuses, r \in STRING :
          [q EXCEPT !.status = t] \in Probe /\ [q EXCEPT !.region = r] \in Probe
    BY DEF Probe
  <1>3. "terminating" \in Statuses  BY DEF Statuses
  <1>4. ASSUME NEW i \in Found
        PROVE  Terminated(i) \in [ProbeIds -> Probe \cup {NoObj}]
    <2>1. CASE i = NoObj  BY <1>1, <2>1 DEF Terminated
    <2>2. CASE i # NoObj
      <3>1. i \in ProbeIds /\ probes[i] \in Probe  BY <1>1, <2>2 DEF Found, Listed
      <3>2. [probes[i] EXCEPT !.status = "terminating"] \in Probe  BY <1>3, <3>1 DEF Probe
      <3> QED  BY <1>1, <2>2, <3>1, <3>2 DEF Terminated
    <2> QED  BY <2>1, <2>2
  <1>5. ASSUME NEW i \in ProbeIds, NEW r \in STRING, probes[i] # NoObj
        PROVE  [probes EXCEPT ![i].region = r] \in [ProbeIds -> Probe \cup {NoObj}]
    <2>1. probes[i] \in Probe  BY <1>1, <1>5
    <2>2. [probes[i] EXCEPT !.region = r] \in Probe  BY <2>1 DEF Probe
    <2> QED  BY <1>1, <2>2
  <1>6. ASSUME pc # "idle", HasWork
        PROVE  Created \subseteq [ProbeIds -> Probe \cup {NoObj}]
    <2>1. work.hcp.spec \in HCPSpec  BY <1>6, WorkFields, HCPFields DEF HasWork
    <2>2. NewProbe(work.hcp.spec) \in Probe
      BY <2>1 DEF NewProbe, Probe, HCPSpec, Statuses
    <2> QED  BY <1>1, <2>2 DEF Created
  <1> QED  BY <1>1, <1>4, <1>5, <1>6

\* Looking the probe up (GetProbe) ends the reconcile or remembers what was found.
LEMMA GetProbeTypes ==
    ASSUME TypeOK, HasWork, pc = "getProbe", NEW limited, GetProbe(limited)
    PROVE  WorkerTypes' /\ HasWork'
  <1>1. CASE Requeue \/ PeriodicRequeue  BY <1>1, Ends
  <1>2. CASE ~(Requeue \/ PeriodicRequeue)
    <2>1. PICK i \in Found :
            LET l == IF limited THEN AfterGetLimited(i) ELSE AfterGet(i, work.hcp.spec)
            IN  /\ l # "idle" /\ pc' = l /\ work' = [work EXCEPT !.found = i] /\ UNCHANGED queued
      BY <1>2 DEF GetProbe
    <2>2. pc' \in {"create", "recreate", "patchRegion", "terminate"}
      BY <2>1 DEF AfterGet, AfterGetLimited
    <2>3. work' \in Work
      BY <2>1, WorkFields DEF HasWork, Found, Listed
    <2> QED  BY <2>1, <2>2, <2>3 DEF WorkerTypes, HasWork, Steps, Deploying, TypeOK
  <1> QED  BY <1>1, <1>2

\* The steps of the reconcile keep the types.
LEMMA ReconcileTypes ==
    ASSUME TypeOK, HasWork, Reconcile
    PROVE  TypeOK' /\ HasWork'
  <1>1. /\ pc # "idle" => work \in Work
        /\ pc # "idle" => work.hcp \in HCP /\ work.hcp.spec \in HCPSpec
    BY WorkFields, HCPFields DEF HasWork
  <1>2. CASE ReadConfig
    <2>1. WorkerTypes' /\ HasWork'
      BY <1>2, StartTypes, ConfigTypes DEF ReadConfig
    <2> QED  BY <1>2, <2>1, TypeParts DEF ReadConfig, Start
  <1>3. CASE AddFinalizer
    <2>1. hcp' \in HCP \cup {NoObj}
      BY <1>3, HCPFields DEF AddFinalizer, Current, TypeOK
    <2>2. CASE Requeue
      BY <1>3, <2>1, <2>2, TypeParts, Ends DEF AddFinalizer, ObjectTypes
    <2>3. CASE ~Requeue
      <3>1. hcp' \in HCP  BY <1>3, <2>3, HCPFields DEF AddFinalizer, Current, TypeOK
      <3> DEFINE w == [work EXCEPT !.hcp = hcp']
      <3>2. w \in Work /\ work' = w /\ pc' = AfterFinalizer(w) /\ UNCHANGED queued
        BY <1>1, <1>3, <2>3, <3>1, WorkFields DEF AddFinalizer
      <3>3. pc' \in {"idle", "readiness", "dynatrace", "getProbe"}
        BY <3>2 DEF AfterFinalizer, AfterInternalObjects, AfterDynatrace
      <3>4. WorkerTypes' /\ HasWork'
        BY <3>2, <3>3 DEF WorkerTypes, HasWork, Steps, Deploying, TypeOK
      <3>5. ObjectTypes'  BY <1>3, <2>1 DEF AddFinalizer, ObjectTypes, TypeOK
      <3> QED  BY <1>3, <3>4, <3>5, TypeParts DEF AddFinalizer
    <2> QED  BY <2>2, <2>3
  <1>4. CASE Readiness
    <2>1. healthCache.fresh \in BOOLEAN /\ healthCache.count \in Nat \cup {NoObj}
      BY DEF TypeOK
    <2>2. \A n \in Nat, f \in BOOLEAN : Checking(n, f) => WorkerTypes' /\ HasWork'
      <3> SUFFICES ASSUME NEW n \in Nat, NEW f \in BOOLEAN, Checking(n, f)
                   PROVE  WorkerTypes' /\ HasWork'
        OBVIOUS
      <3>1. CASE Goto("vpcEndpoint")
        BY <1>4, <3>1, Moves DEF Readiness, Steps, Deploying
      <3>2. CASE /\ work' = [work EXCEPT !.count = n, !.fresh = f]
                 /\ pc' = "healthcheck" /\ UNCHANGED queued
        BY <1>1, <1>4, <3>2, WorkFields DEF Readiness, WorkerTypes, HasWork, Steps, TypeOK
      <3> QED  BY <3>1, <3>2 DEF Checking
    <2>3. WorkerTypes' /\ HasWork'
      <3>1. CASE Goto("vpcEndpoint")
        BY <1>4, <3>1, Moves DEF Readiness, Steps, Deploying
      <3>2. CASE Requeue  BY <3>2, Ends
      <3> QED  BY <1>4, <2>1, <2>2, <3>1, <3>2 DEF Readiness
    <2>4. CheckTypes'
      <3>1. WriteHealth(0) => CheckTypes'  BY <1>4, CountTypes, TypeParts DEF Readiness, CheckTypes
      <3>2. UNCHANGED <<health, healthCache>> => CheckTypes'
        BY <1>4, TypeParts DEF Readiness, CheckTypes
      <3> QED  BY <1>4, <3>1, <3>2 DEF Readiness
    <2> QED  BY <1>4, <2>3, <2>4, TypeParts DEF Readiness
  <1>5. CASE Healthcheck
    <2>1. WorkerTypes' /\ HasWork'
      BY <1>5, Ends, Moves DEF Healthcheck, Steps, Deploying
    <2>2. CheckTypes'
      <3>1. work.count \in Nat  BY <1>1, <1>5, WorkFields DEF Healthcheck
      <3>2. work.fresh \in BOOLEAN  BY <1>1, <1>5 DEF Healthcheck, Work
      <3>3. PICK ok \in BOOLEAN :
              /\ Polled(ok, work.fresh)
              /\ WriteHealth(CountAfter(ok, work.count)) \/ UNCHANGED <<health, healthCache>>
        BY <1>5 DEF Healthcheck
      <3>4. streak' \in Nat /\ passed' \in Nat /\ CountAfter(ok, work.count) \in Nat
        BY <3>1, <3>2, <3>3, CountTypes
      <3> QED  BY <3>3, <3>4, CountTypes, TypeParts DEF CheckTypes
    <2> QED  BY <1>5, <2>1, <2>2, TypeParts DEF Healthcheck
  <1>6. CASE VpcEndpoint \/ KubeAPIServerReachable
    <2>1. WorkerTypes' /\ HasWork'
      BY <1>6, Moves DEF VpcEndpoint, KubeAPIServerReachable, Steps, Deploying
    <2> QED  BY <1>6, <2>1, TypeParts DEF VpcEndpoint, KubeAPIServerReachable
  <1>7. ASSUME NEW first \in Steps, NEW second \in Steps, NEW last \in Steps,
               {first, second, last} \cap {"dynatraceExcess", "dynatraceMove", "dynatraceCreate"} = {},
               first # "idle", second # "idle",
               DeleteInternalObjects(first, second, last)
        PROVE  WorkerTypes' /\ HasWork' /\ InsideTypes'
    <2>1. WorkerTypes' /\ HasWork'
      BY <1>7, Moves DEF DeleteInternalObjects
    <2> QED  BY <1>7, <2>1 DEF DeleteInternalObjects, InsideTypes, TypeOK
  <1>8. CASE TLSUnavailable
    <2>1. WorkerTypes' /\ HasWork' /\ InsideTypes'
      BY <1>7, <1>8 DEF TLSUnavailable, Steps, Deploying
    <2> QED  BY <1>8, <2>1, TypeParts DEF TLSUnavailable
  <1>9. CASE finalizeHostedControlPlane
    <2>1. WorkerTypes' /\ HasWork' /\ InsideTypes'
      BY <1>7, <1>9 DEF finalizeHostedControlPlane, Steps, Removing
    <2> QED  BY <1>9, <2>1, TypeParts DEF finalizeHostedControlPlane
  <1>10. CASE DeployInternalObjects
    <2>1. AfterInternalObjects(work) \in {"idle", "dynatrace", "getProbe"}
      BY DEF AfterInternalObjects, AfterDynatrace
    <2>2. WorkerTypes' /\ HasWork'
      BY <1>10, <2>1, Moves DEF DeployInternalObjects, Steps, Deploying
    <2>3. InsideTypes'  BY <1>10, TypeParts DEF DeployInternalObjects, InsideTypes
    <2> QED  BY <1>10, <2>2, <2>3, TypeParts DEF DeployInternalObjects
  <1>11. CASE deployDynatraceHttpMonitorResources
    <2>1. CASE ListDynatraceMonitors
      <3>1. WorkerTypes' /\ HasWork'
        <4>1. CASE DynatraceFails("getProbe")
          BY <2>1, <4>1, Ends, Moves DEF ListDynatraceMonitors, DynatraceFails, Steps, Deploying
        <4>2. CASE ~DynatraceFails("getProbe")
          <5>1. PICK k \in DynatraceIds \cup {NoObj} :
                  /\ work' = [work EXCEPT !.keep = k, !.excess = Tagged \ {k}]
                  /\ pc' \in {"dynatraceCreate", "dynatraceMove", "dynatraceExcess"}
            BY <2>1, <4>2 DEF ListDynatraceMonitors, Tagged
          <5>2. work \in Work  BY <1>1, <2>1 DEF ListDynatraceMonitors
          <5>3. Tagged \ {k} \in SUBSET DynatraceIds  BY DEF Tagged
          <5>4. work' \in Work /\ work'.hcp = work.hcp
            BY <5>1, <5>2, <5>3, WorkFields DEF Work
          <5>5. DynatraceUsable(work'.hcp.spec)
            BY <2>1, <4>2, <5>4 DEF ListDynatraceMonitors
          <5> QED  BY <2>1, <4>2, <5>1, <5>4, <5>5
                   DEF ListDynatraceMonitors, WorkerTypes, HasWork, Steps, Deploying, TypeOK
        <4> QED  BY <4>1, <4>2
      <3>2. UNCHANGED <<dynatrace, probes>>
        BY <1>11, <2>1 DEF deployDynatraceHttpMonitorResources, ListDynatraceMonitors
      <3> QED  BY <1>11, <3>1, <3>2, TypeParts DEF deployDynatraceHttpMonitorResources
    <2>2. ASSUME UNCHANGED <<objects, checks, inside, probes, world, budget>>,
                 WorkerTypes' /\ HasWork', dynatrace' \in [DynatraceIds -> Locations \cup {NoObj}]
          PROVE  TypeOK' /\ HasWork'
      <3>1. UNCHANGED <<objects, checks, inside, world, budget>> /\ probes' = probes
        BY <2>2
      <3>2. ServiceTypes'  BY <2>2, <3>1 DEF ServiceTypes, TypeOK
      <3> QED  BY <2>2, <3>1, <3>2, TypeParts
    <2>3. CASE removeDyntraceMonitors
      <3>1. PICK i \in work.excess :
              /\ dynatrace' \in {Without(i), dynatrace}
              /\ work' = [work EXCEPT !.excess = @ \ {i}]
              /\ pc' \in {"dynatraceMove", pc}
              /\ UNCHANGED queued
        BY <2>3 DEF removeDyntraceMonitors, DynatraceRequest
      <3>2. work \in Work /\ pc = "dynatraceExcess"  BY <1>1, <2>3 DEF removeDyntraceMonitors
      <3>3. i \in DynatraceIds  BY <3>1, <3>2, WorkFields
      <3>4. work' \in Work /\ work'.hcp = work.hcp
        BY <3>1, <3>2, <3>3, WorkFields DEF Work
      <3>5. DynatraceUsable(work'.hcp.spec)  BY <3>2, <3>4 DEF HasWork
      <3>6. WorkerTypes' /\ HasWork'
        BY <3>1, <3>2, <3>4, <3>5 DEF WorkerTypes, HasWork, Steps, Deploying, TypeOK
      <3>7. dynatrace' \in [DynatraceIds -> Locations \cup {NoObj}]
        BY <3>1, <3>3, DynatraceTypes
      <3> QED  BY <1>11, <2>2, <3>6, <3>7 DEF deployDynatraceHttpMonitorResources
    <2>4. CASE MoveDynatraceMonitor
      <3>1. dynatrace' \in [DynatraceIds -> Locations \cup {NoObj}]
        <4>1. work.keep \in DynatraceIds \cup {NoObj}
          BY <1>1, <2>4, WorkFields DEF MoveDynatraceMonitor
        <4> QED  BY <2>4, <4>1, DynatraceTypes DEF MoveDynatraceMonitor, DynatraceRequest
      <3>2. AfterDynatrace(work) \in {"idle", "getProbe"}  BY DEF AfterDynatrace
      <3>3. Goto("dynatraceCreate") => WorkerTypes' /\ HasWork'
        BY <1>1, <2>4 DEF MoveDynatraceMonitor, Goto, WorkerTypes, HasWork, Steps, Deploying, TypeOK
      <3>4. WorkerTypes' /\ HasWork'
        BY <2>4, <3>2, <3>3, Ends, Moves
        DEF MoveDynatraceMonitor, DynatraceRequest, DynatraceFails, Steps, Deploying
      <3> QED  BY <1>11, <2>2, <3>1, <3>4 DEF deployDynatraceHttpMonitorResources
    <2>5. CASE CreateDynatraceHttpMonitor
      <3>1. DynatraceLocation(work.hcp.spec) \in Locations
        BY <1>1, <2>5, DynatraceTypes DEF CreateDynatraceHttpMonitor, HasWork
      <3>2. dynatrace' \in [DynatraceIds -> Locations \cup {NoObj}]
        BY <2>5, <3>1, DynatraceTypes DEF CreateDynatraceHttpMonitor, DynatraceRequest
      <3>3. AfterDynatrace(work) \in {"idle", "getProbe"}  BY DEF AfterDynatrace
      <3>4. WorkerTypes' /\ HasWork'
        BY <2>5, <3>3, Ends, Moves
        DEF CreateDynatraceHttpMonitor, DynatraceRequest, DynatraceFails, Steps, Deploying
      <3> QED  BY <1>11, <2>2, <3>2, <3>4 DEF deployDynatraceHttpMonitorResources
    <2> QED  BY <1>11, <2>1, <2>3, <2>4, <2>5 DEF deployDynatraceHttpMonitorResources
  <1>12. CASE deleteDynatraceHttpMonitorResources
    <2>1. dynatrace' \in [DynatraceIds -> Locations \cup {NoObj}]
      BY <1>12, DynatraceTypes DEF deleteDynatraceHttpMonitorResources, DynatraceRequest, Tagged
    <2>2. AfterDynatraceDeletion(work) \in {"deleteProbe", "deleteRoute"}
      BY DEF AfterDynatraceDeletion
    <2>3. WorkerTypes' /\ HasWork'
      BY <1>12, <2>2, Ends, Moves
      DEF deleteDynatraceHttpMonitorResources, DynatraceRequest, DynatraceFails, Steps, Removing
    <2>4. ServiceTypes'
      BY <1>12, <2>1 DEF deleteDynatraceHttpMonitorResources, ServiceTypes, TypeOK
    <2> QED  BY <1>12, <2>3, <2>4, TypeParts DEF deleteDynatraceHttpMonitorResources
  <1>13. CASE EnsureProbe
    <2>1. WorkerTypes' /\ HasWork'  BY <1>13, GetProbeTypes DEF EnsureProbe
    <2> QED  BY <1>13, <2>1, TypeParts DEF EnsureProbe, GetProbe
  <1>14. CASE TerminateProbe \/ deleteRHOBSProbe
    <2>1. probes' \in [ProbeIds -> Probe \cup {NoObj}]
      BY <1>14, ProbeTypes DEF TerminateProbe, deleteRHOBSProbe, DeleteProbe, Request
    <2>2. WorkerTypes' /\ HasWork'
      BY <1>14, Ends, Moves
      DEF TerminateProbe, deleteRHOBSProbe, DeleteProbe, Request, GiveUp, Steps, Deploying, Removing
    <2>3. ServiceTypes'
      BY <1>14, <2>1 DEF TerminateProbe, deleteRHOBSProbe, ServiceTypes, TypeOK
    <2>4. ObjectTypes'
      <3>1. TerminateProbe => ObjectTypes'  BY TypeParts DEF TerminateProbe
      <3>2. deleteRHOBSProbe => /\ overlooked' = overlooked \/ \E i : overlooked' = Live \ {i}
                                /\ UNCHANGED <<hcp, hcpCache, released>>
        BY DEF deleteRHOBSProbe, DeleteProbe, Request
      <3> QED  BY <1>14, <3>1, <3>2, TypeParts DEF ObjectTypes, Live, Listed
    <2> QED  BY <1>14, <2>2, <2>3, <2>4, TypeParts DEF TerminateProbe, deleteRHOBSProbe
  <1>15. CASE CreateProbe
    <2>1. probes' \in [ProbeIds -> Probe \cup {NoObj}]
      BY <1>15, ProbeTypes DEF CreateProbe, Request
    <2>2. WorkerTypes' /\ HasWork'
      BY <1>15, Ends DEF CreateProbe, Request
    <2>3. ServiceTypes'  BY <1>15, <2>1 DEF CreateProbe, ServiceTypes, TypeOK
    <2> QED  BY <1>15, <2>2, <2>3, TypeParts DEF CreateProbe
  <1>16. CASE UpdateProbeLabels
    <2>1. probes' \in [ProbeIds -> Probe \cup {NoObj}]
      <3>1. work.hcp.spec.region \in STRING  BY <1>1, <1>16 DEF UpdateProbeLabels, HCPSpec
      <3>2. work.found \in ProbeIds \cup {NoObj}
        BY <1>1, <1>16, WorkFields DEF UpdateProbeLabels
      <3>3. CASE work.found = NoObj
        <4>1. [probes EXCEPT ![NoObj].region = work.hcp.spec.region] = probes
          BY HCPAssumption, ProbeTypes
        <4> QED  BY <1>16, <3>3, <4>1, ProbeTypes DEF UpdateProbeLabels, Request
      <3>4. CASE work.found # NoObj
        BY <1>16, <3>1, <3>2, <3>4, ProbeTypes DEF UpdateProbeLabels, Request
      <3> QED  BY <3>3, <3>4
    <2>2. WorkerTypes' /\ HasWork'
      BY <1>16, Ends DEF UpdateProbeLabels, Request
    <2>3. ServiceTypes'  BY <1>16, <2>1 DEF UpdateProbeLabels, ServiceTypes, TypeOK
    <2> QED  BY <1>16, <2>2, <2>3, TypeParts DEF UpdateProbeLabels
  <1>17. CASE RemoveFinalizer
    <2>1. WorkerTypes' /\ HasWork'  BY <1>17, Ends DEF RemoveFinalizer
    <2>2. ObjectTypes'  BY <1>17 DEF RemoveFinalizer, ObjectTypes, TypeOK
    <2> QED  BY <1>17, <2>1, <2>2, TypeParts DEF RemoveFinalizer
  <1> QED
    BY <1>2, <1>3, <1>4, <1>5, <1>6, <1>8, <1>9, <1>10, <1>11, <1>12, <1>13, <1>14, <1>15,
       <1>16, <1>17 DEF Reconcile

\* What faults and users spend stays within its bounds.
LEMMA BudgetKept ==
    ASSUME TypeOK, Fault \/ Edit
    PROVE  BudgetTypes'
  <1>1. edits \in 0..MaxEdits /\ faults \in 0..MaxFaults  BY DEF TypeOK
  <1>2. MaxEdits \in Nat /\ MaxFaults \in Nat  BY HCPAssumption
  <1>3. CASE Fault  BY <1>1, <1>2, <1>3 DEF Fault, BudgetTypes
  <1>4. CASE Edit   BY <1>1, <1>2, <1>4 DEF Edit, BudgetTypes
  <1> QED  BY <1>3, <1>4

\* Caches, faults, users, the agents and the clock keep the types.
LEMMA EnvironmentTypes ==
    ASSUME TypeOK, HasWork, Next, ~Reconcile
    PROVE  TypeOK' /\ HasWork'
  <1>1. ASSUME WorkerTypes', pc' = pc, work' = work
        PROVE  HasWork'
    BY <1>1 DEF HasWork, DynatraceUsable, DynatraceLocation
  <1>2. UNCHANGED worker => WorkerTypes' /\ HasWork'  BY <1>1, TypeParts DEF worker
  <1>3. CASE SyncHCP
    <2>1. WorkerTypes' /\ HasWork'  BY <1>1, <1>3, TypeParts DEF SyncHCP, WorkerTypes
    <2>2. ObjectTypes'  BY <1>3, TypeParts DEF SyncHCP, ObjectTypes
    <2> QED  BY <1>3, <2>1, <2>2, TypeParts DEF SyncHCP
  <1>4. CASE SyncHealth
    <2>1. CheckTypes'  BY <1>4, TypeParts DEF SyncHealth, CheckTypes
    <2> QED  BY <1>2, <1>4, <2>1, TypeParts DEF SyncHealth
  <1>5. CASE ConfigUnreadable
    <2>1. WorkerTypes' /\ HasWork'  BY <1>5, StartTypes, ConfigTypes DEF ConfigUnreadable
    <2> QED  BY <1>5, <2>1, BudgetKept, TypeParts DEF ConfigUnreadable, Start
  <1>6. CASE HostedClusterUnreadable
    <2>1. WorkerTypes' /\ HasWork'  BY <1>6, GetProbeTypes DEF HostedClusterUnreadable
    <2> QED  BY <1>6, <2>1, BudgetKept, TypeParts DEF HostedClusterUnreadable, GetProbe
  <1>7. CASE TLSFails
    <2>1. WorkerTypes' /\ HasWork'  BY <1>7, Moves DEF TLSFails, Steps, Deploying
    <2> QED  BY <1>7, <2>1, BudgetKept, TypeParts DEF TLSFails
  <1>8. CASE CallFails
    <2>1. WorkerTypes' /\ HasWork'  BY <1>8, Ends DEF CallFails
    <2>2. CheckTypes'
      <3>1. streak' \in Nat /\ passed' \in Nat
        BY <1>8, CountTypes, TypeParts DEF CallFails, CheckTypes
      <3> QED  BY <1>8, <3>1, TypeParts DEF CallFails, CheckTypes
    <2> QED  BY <1>8, <2>1, <2>2, BudgetKept, TypeParts DEF CallFails
  <1>9. CASE Restart
    <2>1. WorkerTypes' /\ HasWork'  BY <1>9, TypeParts DEF Restart, WorkerTypes, HasWork, Steps
    <2>2. ObjectTypes'  BY <1>9, TypeParts DEF Restart, ObjectTypes
    <2>3. CheckTypes'  BY <1>9, TypeParts DEF Restart, CheckTypes
    <2>4. WorldTypes'  BY <1>9, TypeParts, ConfigTypes DEF Restart, WorldTypes
    <2> QED  BY <1>9, <2>1, <2>2, <2>3, <2>4, BudgetKept, TypeParts DEF Restart
  <1>10. CASE CreateHCP
    <2>1. ObjectTypes'
      BY <1>10, TypeParts DEF CreateHCP, ObjectTypes, HCP
    <2> QED  BY <1>2, <1>10, <2>1, BudgetKept, TypeParts DEF CreateHCP
  <1>11. CASE ChangeHCP
    <2>1. hcp' \in HCP
      <3>1. hcp \in HCP  BY <1>11, TypeParts DEF ChangeHCP, ObjectTypes
      <3>2. \/ hcp' = [hcp EXCEPT !.rv = @ + 1, !.available = ~@]
            \/ \E s \in HCPSpecs : hcp' = [hcp EXCEPT !.rv = @ + 1, !.spec = s]
            \/ hcp' = [hcp EXCEPT !.rv = @ + 1, !.limited = TRUE]
            \/ hcp' = hcp
        BY <1>11 DEF ChangeHCP
      <3> QED  BY <3>1, <3>2, HCPFields
    <2>2. ObjectTypes'  BY <1>11, <2>1, TypeParts DEF ChangeHCP, ObjectTypes
    <2>3. hcLimited' \in BOOLEAN  BY <1>11, TypeParts DEF ChangeHCP, WorldTypes
    <2>4. WorldTypes'  BY <1>11, <2>3, TypeParts DEF ChangeHCP, WorldTypes, operator
    <2> QED  BY <1>2, <1>11, <2>2, <2>4, BudgetKept, TypeParts DEF ChangeHCP
  <1>12. CASE DeleteHCP
    <2>1. hcp' \in HCP \cup {NoObj}  BY <1>12, HCPFields DEF DeleteHCP, TypeOK
    <2>2. ObjectTypes'  BY <1>12, <2>1, TypeParts DEF DeleteHCP, ObjectTypes
    <2> QED  BY <1>2, <1>12, <2>2, BudgetKept, TypeParts DEF DeleteHCP
  <1>13. CASE ChangeConfigMap
    <2>1. WorkerTypes' /\ HasWork'  BY <1>1, <1>13, TypeParts DEF ChangeConfigMap, WorkerTypes
    <2>2. configMap' \in Config \cup {NoObj}  BY <1>13, HCPAssumption DEF ChangeConfigMap
    <2>3. WorldTypes'  BY <1>13, <2>2, TypeParts DEF ChangeConfigMap, WorldTypes, operator
    <2> QED  BY <1>13, <2>1, <2>3, BudgetKept, TypeParts DEF ChangeConfigMap
  <1>14. CASE ServiceGoesUpOrDown
    <2>1. up' \subseteq Services
      BY <1>14, HCPAssumption, TypeParts DEF ServiceGoesUpOrDown, WorldTypes
    <2>2. WorldTypes'  BY <1>14, <2>1, TypeParts DEF ServiceGoesUpOrDown, WorldTypes, operator
    <2> QED  BY <1>2, <1>14, <2>2, BudgetKept, TypeParts DEF ServiceGoesUpOrDown
  <1>15. ASSUME NEW i \in ProbeIds, ProbeFails(i)
         PROVE  TypeOK' /\ HasWork'
    <2>1. probes[i] \in Probe /\ "failed" \in Statuses
      BY <1>15, ProbeTypes DEF ProbeFails, Statuses
    <2>2. [probes[i] EXCEPT !.status = "failed"] \in Probe  BY <2>1 DEF Probe
    <2>3. probes' \in [ProbeIds -> Probe \cup {NoObj}]  BY <1>15, <2>2, ProbeTypes DEF ProbeFails
    <2>4. ServiceTypes'  BY <1>15, <2>3, TypeParts DEF ProbeFails, ServiceTypes
    <2> QED  BY <1>2, <1>15, <2>4, BudgetKept, TypeParts DEF ProbeFails
  <1>16. ASSUME NEW i \in ProbeIds, ProbeRemoved(i)
         PROVE  TypeOK' /\ HasWork'
    <2>1. probes' \in [ProbeIds -> Probe \cup {NoObj}]  BY <1>16, ProbeTypes DEF ProbeRemoved
    <2>2. ServiceTypes'  BY <1>16, <2>1, TypeParts DEF ProbeRemoved, ServiceTypes
    <2> QED  BY <1>2, <1>16, <2>2, TypeParts DEF ProbeRemoved
  <1>17. CASE MonitorRemoved
    <2>1. WorkerTypes' /\ HasWork'  BY <1>1, <1>17, TypeParts DEF MonitorRemoved, WorkerTypes
    <2>2. InsideTypes'  BY <1>17, TypeParts DEF MonitorRemoved, InsideTypes
    <2>3. UNCHANGED <<dynatrace, probes>>  BY <1>17 DEF MonitorRemoved
    <2> QED  BY <1>17, <2>1, <2>2, <2>3, TypeParts DEF MonitorRemoved
  <1>18. CASE DeletionIsLate \/ GrowsOld
    <2>1. WorldTypes'
      BY <1>18, TypeParts DEF DeletionIsLate, GrowsOld, WorldTypes, operator
    <2> QED  BY <1>2, <1>18, <2>1, TypeParts DEF DeletionIsLate, GrowsOld
  <1> QED
    BY <1>3, <1>4, <1>5, <1>6, <1>7, <1>8, <1>9, <1>10, <1>11, <1>12, <1>13, <1>14, <1>15, <1>16,
       <1>17, <1>18 DEF Next, Users, Agents

\* The initial state is well typed.
LEMMA InitTypes ==
    ASSUME Init
    PROVE  TypeOK /\ HasWork
  <1>1. configMap \in Config \cup {NoObj}  BY HCPAssumption DEF Init
  <1>2. started \in [url : {"none", "valid"}, onlyPublic : BOOLEAN, skip : BOOLEAN]
    <2>1. \A c \in RHOBSConfig :
            Validated(c) \in [url : {"none", "valid"}, onlyPublic : BOOLEAN, skip : BOOLEAN]
      BY DEF Validated, RHOBSConfig, URLs
    <2>2. \A b \in RHOBSConfig, c \in Config : Override(b, c) \in RHOBSConfig
      BY DEF Override, RHOBSConfig, Config
    <2> QED  BY <1>1, <2>1, <2>2, HCPAssumption DEF Init, StartRead, StartUnread
  <1>3. dynatrace \in [DynatraceIds -> Locations \cup {NoObj}]  BY DEF Init
  <1>4. probes \in [ProbeIds -> Probe \cup {NoObj}]  BY DEF Init
  <1>5. edits \in 0..MaxEdits /\ faults \in 0..MaxFaults  BY HCPAssumption DEF Init
  <1>6. healthCache \in [count : Nat \cup {NoObj}, fresh : BOOLEAN]  BY DEF Init
  <1> QED  BY <1>1, <1>2, <1>3, <1>4, <1>5, <1>6 DEF Init, TypeOK, HasWork

\* Every step keeps the types.
LEMMA TypesKept ==
    ASSUME TypeOK, HasWork, [Next]_vars
    PROVE  TypeOK' /\ HasWork'
  <1>1. CASE Reconcile  BY <1>1, ReconcileTypes
  <1>2. CASE Next /\ ~Reconcile  BY <1>2, EnvironmentTypes
  <1>3. CASE UNCHANGED vars
    <2>1. UNCHANGED <<objects, worker, checks, inside, dynatrace, probes, world, budget>>
      BY <1>3 DEF vars, objects, worker, checks, inside, world, operator, budget
    <2>2. HasWork'  BY <2>1 DEF worker, HasWork, DynatraceUsable, DynatraceLocation
    <2> QED  BY <2>1, <2>2, TypeParts
  <1> QED  BY <1>1, <1>2, <1>3

\* Every state has the declared types: each write of the controller, and each
\* request to the two services, leaves well-formed objects behind.
THEOREM TypeCorrect == Spec => []TypeOK
  <1>1. Init => TypeOK /\ HasWork  BY InitTypes
  <1>2. TypeOK /\ HasWork /\ [Next]_vars => TypeOK' /\ HasWork'  BY TypesKept
  <1> QED  BY <1>1, <1>2, PTL DEF Spec

----------------------------------------------------------------------------
(* The inductive invariant.                                                 *)

Upkeep      == Deploying \cup {"readiness", "healthcheck"}
LastRemoval == {"deleteRoute", "deleteMonitor", "removeFinalizer"}

\* A copy is no younger than the object, and equal to it if of the same version.
CopyOf(c) == hcp # NoObj => c.rv <= hcp.rv /\ (c.rv = hcp.rv => c = hcp)

\* The informer cache and the reconcile hold copies of the one HostedControlPlane there
\* ever is, which is not marked for deletion without the finalizer.
Copies ==
    /\ hcpCache # NoObj => CopyOf(hcpCache)
    /\ pc # "idle" => CopyOf(work.hcp)
    /\ edits = 0 => hcp = NoObj /\ hcpCache = NoObj /\ pc = "idle"
    /\ released # "no" => hcp = NoObj
    /\ hcp # NoObj => (hcp.deleting => hcp.fin)

\* What a copy with the finalizer and not being deleted says still holds, since only a
\* reconcile that saw the deletion removes the finalizer, and the cache does not forget
\* what a reconcile has seen.
Vouched ==
    /\ hcpCache # NoObj /\ hcpCache.fin /\ ~hcpCache.deleting => hcp # NoObj /\ hcp.fin
    /\ pc \in Upkeep => hcp # NoObj /\ hcp.fin
    /\ pc \in Removing => /\ work.hcp.deleting
                          /\ hcpCache # NoObj => work.hcp.rv <= hcpCache.rv

\* When deletion has passed the request to delete the probe in time, what is left are
\* probes that were listed next to it.
ProbesKept ==
    pc \in LastRemoval /\ work.cfg.url # "none" => late \/ Live \subseteq overlooked

\* A reconcile that knows no API URL runs in an operator that started without one.
StartedURL == pc # "idle" /\ work.cfg.url = "none" => started.url = "none"

\* Where Dynatrace is the only service, deletion does not pass it before the last monitor
\* is gone.
MonitorsKept ==
    /\ pc = "deleteProbe" => work.cfg.url # "none"
    /\ pc \in LastRemoval /\ work.cfg.url = "none" /\ work.client => Monitored = {}

\* The recorded count is backed by that many checks.  A copy of the full count is right,
\* however old it is, and a check whose result will be recorded starts from the count.
Counted ==
    /\ health # NoObj => health <= passed
    /\ healthCache.fresh => healthCache.count = health
    /\ healthCache.count # NoObj /\ healthCache.count >= consecutiveSuccessfulHealthchecks =>
           health # NoObj /\ health >= consecutiveSuccessfulHealthchecks
    /\ pc = "healthcheck" /\ work.fresh =>
           /\ work.count = health /\ work.count <= passed
           /\ work.count < consecutiveSuccessfulHealthchecks

----------------------------------------------------------------------------
(* What the steps do to the object, to its copies, and to the reconcile.    *)

\* A reconcile begins with a copy of the object and a configuration.
Begins ==
    /\ pc = "idle" /\ hcpCache # NoObj
    /\ work' \in Work /\ work'.hcp = hcpCache /\ work'.cfg \in {getRHOBSConfig, Fallback}
    /\ pc' = FirstStep(work')
    /\ UNCHANGED <<objects, checks, inside, dynatrace, probes, world>>

\* A reconcile goes on with what it has read.
GoesOn ==
    /\ pc # "idle" /\ pc' # "idle"
    /\ work'.hcp = work.hcp /\ work'.cfg = work.cfg /\ work'.client = work.client
    /\ \/ pc' = pc
       \/ pc = "readiness" /\ pc' = "healthcheck"
       \/ pc \in Upkeep /\ pc' \in Deploying
       \/ {pc, pc'} \subseteq Removing

\* A reconcile ends, begins, gets the finalizer or goes on.
LEMMA WorkerSteps ==
    ASSUME TypeOK, HasWork, [Next]_vars
    PROVE  pc' = "idle" \/ Begins \/ AddFinalizer \/ GoesOn
  <1>1. pc # "idle" => work \in Work  BY DEF HasWork
  <1>2. ASSUME UNCHANGED <<pc, work>>
        PROVE  pc' = "idle" \/ GoesOn
    BY <1>2 DEF GoesOn
  <1>3. ASSUME NEW cfg \in {getRHOBSConfig, Fallback}, Start(cfg)
        PROVE  pc' = "idle" \/ Begins
    <2>1. CASE UNCHANGED <<pc, work>>  BY <1>3, <2>1 DEF Start
    <2>2. CASE ~UNCHANGED <<pc, work>>
      <3> DEFINE w(client) == [hcp |-> hcpCache, cfg |-> cfg, client |-> client, found |-> NoObj,
                               count |-> 0, fresh |-> TRUE, keep |-> NoObj, excess |-> {}]
      <3>1. PICK client \in BOOLEAN : work' = w(client) /\ pc' = FirstStep(w(client))
        BY <1>3, <2>2 DEF Start, Clients
      <3>2. hcpCache # NoObj /\ hcpCache \in HCP /\ cfg \in Config
        BY <1>3, <2>2, ConfigTypes DEF Start, TypeOK
      <3>3. w(client) \in Work  BY <3>2 DEF Work
      <3> QED  BY <1>3, <3>1, <3>2, <3>3 DEF Start, Begins
    <2> QED  BY <2>1, <2>2
  <1>4. ASSUME NEW l \in Steps, pc # "idle", Goto(l) \/ Continue(l),
               \/ pc = l \/ l = "idle"
               \/ pc \in Upkeep /\ l \in Deploying
               \/ {pc, l} \subseteq Removing
        PROVE  pc' = "idle" \/ GoesOn
    BY <1>4 DEF Goto, Continue, PeriodicRequeue, Requeue, GoesOn
  <1>5. Stop \/ Requeue \/ PeriodicRequeue => pc' = "idle"
    BY DEF Stop, Requeue, PeriodicRequeue
  <1>6. ASSUME NEW first \in Steps, NEW second \in Steps, NEW last \in Steps,
               first # "idle", second # "idle",
               \/ {first, second} \subseteq Deploying /\ last = "idle"
               \/ {first, second, last} \subseteq Removing,
               DeleteInternalObjects(first, second, last)
        PROVE  pc' = "idle" \/ GoesOn
    <2>1. CASE pc = first /\ Goto(second)  BY <1>4, <1>6, <2>1 DEF Upkeep
    <2>2. CASE pc = second /\ Continue(last)  BY <1>4, <1>6, <2>2
    <2> QED  BY <1>6, <2>1, <2>2 DEF DeleteInternalObjects
  <1>7. ASSUME NEW limited, pc = "getProbe", GetProbe(limited)
        PROVE  pc' = "idle" \/ GoesOn
    <2>1. CASE Requeue \/ PeriodicRequeue  BY <1>5, <2>1
    <2>2. CASE ~(Requeue \/ PeriodicRequeue)
      <3>1. PICK i \in Found :
              LET l == IF limited THEN AfterGetLimited(i) ELSE AfterGet(i, work.hcp.spec)
              IN  /\ pc' = l /\ work' = [work EXCEPT !.found = i]
        BY <1>7, <2>2 DEF GetProbe
      <3>2. pc' \in {"idle", "create", "recreate", "patchRegion", "terminate"}
        BY <3>1 DEF AfterGet, AfterGetLimited
      <3>3. work'.hcp = work.hcp /\ work'.cfg = work.cfg /\ work'.client = work.client
        BY <1>1, <1>7, <3>1 DEF Work
      <3> QED  BY <1>7, <3>2, <3>3 DEF GoesOn, Upkeep, Deploying
    <2> QED  BY <2>1, <2>2
  <1> USE DEF Steps, Upkeep, Deploying, Removing
  <1>8. CASE ReadConfig \/ ConfigUnreadable  BY <1>3, <1>8 DEF ReadConfig, ConfigUnreadable
  <1>9. CASE Readiness
    <2>1. \A n, f : Checking(n, f) => pc' = "idle" \/ GoesOn
      <3> SUFFICES ASSUME NEW n, NEW f, Checking(n, f)
                   PROVE  pc' = "idle" \/ GoesOn
        OBVIOUS
      <3>1. CASE Goto("vpcEndpoint")  BY <1>4, <1>9, <3>1 DEF Readiness
      <3>2. CASE work' = [work EXCEPT !.count = n, !.fresh = f] /\ pc' = "healthcheck"
        BY <1>1, <1>9, <3>2 DEF Readiness, GoesOn, Work
      <3> QED  BY <3>1, <3>2 DEF Checking
    <2>2. Goto("vpcEndpoint") => pc' = "idle" \/ GoesOn  BY <1>4, <1>9 DEF Readiness
    <2> QED  BY <1>5, <1>9, <2>1, <2>2 DEF Readiness
  <1>10. CASE Healthcheck  BY <1>4, <1>5, <1>10 DEF Healthcheck
  <1>11. CASE VpcEndpoint \/ KubeAPIServerReachable \/ TLSFails
    BY <1>4, <1>11 DEF VpcEndpoint, KubeAPIServerReachable, TLSFails
  <1>12. CASE TLSUnavailable  BY <1>6, <1>12 DEF TLSUnavailable
  <1>13. CASE finalizeHostedControlPlane  BY <1>6, <1>13 DEF finalizeHostedControlPlane
  <1>14. CASE DeployInternalObjects
    <2>1. AfterInternalObjects(work) \in {"idle", "dynatrace", "getProbe"}
      BY DEF AfterInternalObjects, AfterDynatrace
    <2> QED  BY <1>4, <1>14, <2>1 DEF DeployInternalObjects
  <1>15. CASE deployDynatraceHttpMonitorResources
    <2>1. AfterDynatrace(work) \in {"idle", "getProbe"}  BY DEF AfterDynatrace
    <2>2. ASSUME pc \in Deploying, DynatraceFails("getProbe")
          PROVE  pc' = "idle" \/ GoesOn
      BY <1>4, <1>5, <2>2 DEF DynatraceFails
    <2>3. CASE ListDynatraceMonitors
      <3>1. CASE DynatraceFails("getProbe")  BY <2>2, <2>3, <3>1 DEF ListDynatraceMonitors
      <3>2. CASE ~DynatraceFails("getProbe")
        <4>1. PICK k \in DynatraceIds \cup {NoObj} :
                /\ work' = [work EXCEPT !.keep = k, !.excess = Tagged \ {k}]
                /\ pc' \in {"dynatraceCreate", "dynatraceMove", "dynatraceExcess"}
          BY <2>3, <3>2 DEF ListDynatraceMonitors, Tagged
        <4> QED  BY <1>1, <2>3, <4>1 DEF ListDynatraceMonitors, GoesOn, Work
      <3> QED  BY <3>1, <3>2
    <2>4. CASE removeDyntraceMonitors
      <3>1. PICK i \in work.excess : /\ work' = [work EXCEPT !.excess = @ \ {i}]
                                     /\ pc' \in {"dynatraceMove", pc}
        BY <2>4 DEF removeDyntraceMonitors, DynatraceRequest
      <3> QED  BY <1>1, <2>4, <3>1 DEF removeDyntraceMonitors, GoesOn, Work
    <2>5. CASE MoveDynatraceMonitor
      BY <1>4, <2>1, <2>2, <2>5 DEF MoveDynatraceMonitor, DynatraceRequest
    <2>6. CASE CreateDynatraceHttpMonitor
      BY <1>4, <2>1, <2>2, <2>6 DEF CreateDynatraceHttpMonitor, DynatraceRequest
    <2> QED  BY <1>15, <2>3, <2>4, <2>5, <2>6 DEF deployDynatraceHttpMonitorResources
  <1>16. CASE deleteDynatraceHttpMonitorResources
    <2>1. AfterDynatraceDeletion(work) \in {"deleteProbe", "deleteRoute"}
      BY DEF AfterDynatraceDeletion
    <2>2. DynatraceFails("deleteProbe") => pc' = "idle" \/ GoesOn
      BY <1>4, <1>5, <1>16 DEF DynatraceFails, deleteDynatraceHttpMonitorResources
    <2> QED  BY <1>4, <1>16, <2>1, <2>2 DEF deleteDynatraceHttpMonitorResources, DynatraceRequest
  <1>17. CASE EnsureProbe \/ HostedClusterUnreadable
    BY <1>7, <1>17 DEF EnsureProbe, HostedClusterUnreadable
  <1>18. CASE TerminateProbe \/ CreateProbe \/ UpdateProbeLabels \/ deleteRHOBSProbe
    BY <1>4, <1>5, <1>18
    DEF TerminateProbe, CreateProbe, UpdateProbeLabels, deleteRHOBSProbe, DeleteProbe, Request, GiveUp
  <1>19. CASE RemoveFinalizer \/ CallFails \/ Restart
    BY <1>5, <1>19 DEF RemoveFinalizer, CallFails, Restart
  <1>20. CASE \/ SyncHCP \/ SyncHealth \/ Users \/ Agents \/ DeletionIsLate \/ GrowsOld
              \/ UNCHANGED vars
    BY <1>2, <1>20
    DEF SyncHCP, SyncHealth, Users, Agents, DeletionIsLate, GrowsOld, vars, worker, CreateHCP,
        ChangeHCP, DeleteHCP, ChangeConfigMap, ServiceGoesUpOrDown, ProbeFails, ProbeRemoved,
        MonitorRemoved
  <1> QED
    BY <1>8, <1>9, <1>10, <1>11, <1>12, <1>13, <1>14, <1>15, <1>16, <1>17, <1>18, <1>19, <1>20
    DEF Next, Reconcile

\* Only few actions change the object, the informer's copy of it or its release.
LEMMA ObjectSteps ==
    ASSUME [Next]_vars
    PROVE  \/ UNCHANGED <<hcp, hcpCache, released>>
           \/ AddFinalizer \/ RemoveFinalizer \/ SyncHCP \/ Restart
           \/ CreateHCP \/ ChangeHCP \/ DeleteHCP
  BY DEF Next, Reconcile, Users, Agents, ReadConfig, Start, Readiness, Healthcheck, VpcEndpoint,
         KubeAPIServerReachable, TLSUnavailable, DeployInternalObjects,
         deployDynatraceHttpMonitorResources, deleteDynatraceHttpMonitorResources, EnsureProbe,
         GetProbe, TerminateProbe, CreateProbe, UpdateProbeLabels, deleteRHOBSProbe,
         finalizeHostedControlPlane, SyncHealth, ConfigUnreadable, HostedClusterUnreadable,
         TLSFails, CallFails, ChangeConfigMap, ServiceGoesUpOrDown, ProbeFails, ProbeRemoved,
         MonitorRemoved, DeletionIsLate, GrowsOld, objects, vars

\* The informer's copy is kept, dropped or replaced by the object as it is.
LEMMA CacheSteps ==
    ASSUME [Next]_vars
    PROVE  hcpCache' \in {hcpCache, NoObj} \/ (hcpCache' = hcp /\ hcp' = hcp)
  <1>1. Restart => hcpCache' \in {hcp, NoObj} /\ hcp' = hcp  BY DEF Restart
  <1> QED
    BY <1>1, ObjectSteps
    DEF objects, AddFinalizer, RemoveFinalizer, SyncHCP, CreateHCP, ChangeHCP, DeleteHCP

\* A new version of the object is a younger one, and leaves the copies behind it.
LEMMA NewVersion ==
    ASSUME TypeOK, hcp # NoObj, hcp' # NoObj, hcp'.rv = hcp.rv + 1,
           NEW c \in HCP, CopyOf(c)
    PROVE  (hcp' # NoObj => c.rv <= hcp'.rv /\ (c.rv = hcp'.rv => c = hcp'))
  <1>1. hcp \in HCP /\ c.rv \in Nat /\ hcp.rv \in Nat  BY DEF TypeOK, HCP
  <1> QED  BY <1>1 DEF CopyOf

\* What the changes of users and of the operator do to the version and to the fields that
\* matter here.
LEMMA Versions ==
    ASSUME TypeOK, hcp # NoObj
    PROVE  /\ AddFinalizer /\ Current =>
                  /\ hcp' # NoObj /\ hcp'.rv = hcp.rv + 1 /\ hcp'.fin
                  /\ hcp'.deleting = hcp.deleting
           /\ ChangeHCP /\ hcp' # hcp =>
                  /\ hcp' # NoObj /\ hcp'.rv = hcp.rv + 1 /\ hcp'.fin = hcp.fin
                  /\ hcp'.deleting = hcp.deleting
           /\ DeleteHCP => IF hcp.fin THEN /\ hcp' # NoObj /\ hcp'.rv = hcp.rv + 1
                                           /\ hcp'.fin /\ hcp'.deleting
                           ELSE hcp' = NoObj
  <1>1. hcp \in HCP  BY DEF TypeOK
  <1>2. ASSUME AddFinalizer, Current
        PROVE  /\ hcp' # NoObj /\ hcp'.rv = hcp.rv + 1 /\ hcp'.fin
               /\ hcp'.deleting = hcp.deleting
    <2>1. hcp' = [hcp EXCEPT !.fin = TRUE, !.rv = @ + 1]  BY <1>2 DEF AddFinalizer
    <2>2. hcp' \in HCP  BY <1>1, <2>1, HCPFields
    <2> QED  BY <1>1, <2>1, <2>2, HCPAssumption DEF HCP
  <1>3. ASSUME ChangeHCP, hcp' # hcp
        PROVE  /\ hcp' # NoObj /\ hcp'.rv = hcp.rv + 1 /\ hcp'.fin = hcp.fin
               /\ hcp'.deleting = hcp.deleting
    <2>1. \/ hcp' = [hcp EXCEPT !.rv = @ + 1, !.available = ~@]
          \/ \E s \in HCPSpecs : hcp' = [hcp EXCEPT !.rv = @ + 1, !.spec = s]
          \/ hcp' = [hcp EXCEPT !.rv = @ + 1, !.limited = TRUE]
      BY <1>3 DEF ChangeHCP
    <2>2. hcp' \in HCP  BY <1>1, <2>1, HCPFields
    <2> QED  BY <1>1, <2>1, <2>2, HCPAssumption DEF HCP
  <1>4. ASSUME DeleteHCP
        PROVE  IF hcp.fin THEN /\ hcp' # NoObj /\ hcp'.rv = hcp.rv + 1 /\ hcp'.fin /\ hcp'.deleting
               ELSE hcp' = NoObj
    <2>1. hcp' = IF hcp.fin THEN [hcp EXCEPT !.rv = @ + 1, !.deleting = TRUE] ELSE NoObj
      BY <1>4 DEF DeleteHCP
    <2>2. CASE hcp.fin
      <3>1. hcp' \in HCP  BY <1>1, <2>1, <2>2, HCPFields
      <3> QED  BY <1>1, <2>1, <2>2, <3>1, HCPAssumption DEF HCP
    <2> QED  BY <2>1, <2>2
  <1> QED  BY <1>2, <1>3, <1>4

\* The finalizer goes with the object, in the last step of a deletion.
LEMMA FinalizerStays ==
    ASSUME TypeOK, [Next]_vars, ~(RemoveFinalizer /\ Current)
    PROVE  hcp # NoObj /\ hcp.fin => hcp' # NoObj /\ hcp'.fin
  BY ObjectSteps, Versions
  DEF objects, AddFinalizer, RemoveFinalizer, SyncHCP, Restart, CreateHCP, ChangeHCP, DeleteHCP

\* So does the record of how it went.
LEMMA ReleasedSteps ==
    ASSUME [Next]_vars, ~(RemoveFinalizer /\ Current)
    PROVE  released' = released
  BY ObjectSteps
  DEF objects, AddFinalizer, RemoveFinalizer, SyncHCP, Restart, CreateHCP, ChangeHCP, DeleteHCP

\* Users spend their budget one by one.
LEMMA EditsGrow ==
    ASSUME [Next]_vars
    PROVE  edits' = edits \/ edits' = edits + 1
  <1>1. UNCHANGED budget \/ Fault \/ Edit => edits' = edits \/ edits' = edits + 1
    BY DEF budget, Fault, Edit
  <1>2. UNCHANGED budget \/ Fault \/ Edit \/ UNCHANGED vars
    BY DEF Next, Reconcile, Users, Agents, ReadConfig, AddFinalizer, Readiness, Healthcheck,
           VpcEndpoint, KubeAPIServerReachable, TLSUnavailable, DeployInternalObjects,
           deployDynatraceHttpMonitorResources, deleteDynatraceHttpMonitorResources, EnsureProbe,
           TerminateProbe, CreateProbe, UpdateProbeLabels, deleteRHOBSProbe,
           finalizeHostedControlPlane, RemoveFinalizer, SyncHCP, SyncHealth, ConfigUnreadable,
           HostedClusterUnreadable, TLSFails, CallFails, Restart, CreateHCP, ChangeHCP, DeleteHCP,
           ChangeConfigMap, ServiceGoesUpOrDown, ProbeFails, ProbeRemoved, MonitorRemoved,
           DeletionIsLate, GrowsOld
  <1> QED  BY <1>1, <1>2 DEF vars

\* The copies stay copies.
LEMMA CopiesKept ==
    ASSUME TypeOK, HasWork, Copies, TypeOK', [Next]_vars
    PROVE  Copies'
  <1> DEFINE Grown == \/ hcp' = hcp \/ hcp' = NoObj
                      \/ hcp # NoObj /\ hcp' # NoObj /\ hcp'.rv = hcp.rv + 1
             Copied(c) == hcp' # NoObj => c.rv <= hcp'.rv /\ (c.rv = hcp'.rv => c = hcp')
  <1>1. /\ hcp # NoObj => hcp \in HCP
        /\ hcpCache # NoObj => hcpCache \in HCP
        /\ pc # "idle" => work.hcp \in HCP
    BY WorkFields DEF TypeOK, HasWork
  <1>2. ASSUME Grown, NEW c \in HCP, CopyOf(c)
        PROVE  Copied(c)
    BY <1>2, NewVersion DEF CopyOf
  <1>3. CreateHCP => /\ edits = 0 /\ edits' # 0 /\ released' = "no" /\ pc' = "idle"
                     /\ hcpCache' = NoObj /\ hcp' # NoObj /\ ~hcp'.deleting
    <2> SUFFICES ASSUME CreateHCP
                 PROVE  /\ edits = 0 /\ edits' # 0 /\ released' = "no" /\ pc' = "idle"
                        /\ hcpCache' = NoObj /\ hcp' # NoObj /\ ~hcp'.deleting
      OBVIOUS
    <2>1. edits = 0 /\ edits' # 0  BY DEF CreateHCP, Edit
    <2>2. released' = "no" /\ pc' = "idle" /\ hcpCache' = NoObj
      BY <2>1 DEF CreateHCP, worker, Copies
    <2>3. PICK s \in HCPSpecs : hcp' = [rv |-> 1, deleting |-> FALSE, fin |-> FALSE,
                                        available |-> FALSE, limited |-> FALSE, spec |-> s]
      BY DEF CreateHCP
    <2>4. hcp' \in HCP /\ ~hcp'.deleting  BY <2>3 DEF HCP
    <2> QED  BY <2>1, <2>2, <2>4, HCPAssumption
  <1>4. Grown \/ CreateHCP
    BY ObjectSteps, Versions
    DEF objects, AddFinalizer, RemoveFinalizer, SyncHCP, Restart, ChangeHCP, DeleteHCP, Current
  <1>5. hcpCache' \in {hcpCache, NoObj} \/ (hcpCache' = hcp /\ hcp' = hcp)  BY CacheSteps
  <1>6. ASSUME hcp # NoObj
        PROVE  hcp.rv <= hcp.rv
    <2>1. hcp.rv \in Nat  BY <1>1, <1>6 DEF HCP
    <2> QED  BY <2>1
  <1>7. hcpCache' # NoObj => Copied(hcpCache')
    BY <1>1, <1>2, <1>3, <1>4, <1>5, <1>6 DEF Copies
  <1>8. pc' # "idle" => Copied(work'.hcp)
    <2>1. CASE Begins  BY <2>1, <1>1 DEF Begins, Copies, CopyOf, objects
    <2>2. CASE GoesOn  BY <2>2, <1>1, <1>2, <1>3, <1>4 DEF GoesOn, Copies
    <2>3. CASE AddFinalizer /\ pc' # "idle"
      <3>1. hcp' # NoObj /\ hcp' \in HCP /\ work' = [work EXCEPT !.hcp = hcp'] /\ work \in Work
        <4>1. Current /\ work' = [work EXCEPT !.hcp = hcp'] /\ work \in Work
          BY <2>3 DEF AddFinalizer, Requeue, HasWork
        <4>2. hcp \in HCP /\ hcp' = [hcp EXCEPT !.fin = TRUE, !.rv = @ + 1]
          BY <1>1, <2>3, <4>1 DEF AddFinalizer, Current
        <4> QED  BY <4>1, <4>2, HCPFields, HCPAssumption
      <3>2. work'.hcp = hcp' /\ hcp'.rv \in Nat  BY <3>1 DEF Work, HCP
      <3> QED  BY <3>2
    <2> QED  BY <2>1, <2>2, <2>3, WorkerSteps
  <1>9. edits' = 0 => hcp' = NoObj /\ hcpCache' = NoObj /\ pc' = "idle"
    <2> SUFFICES ASSUME edits' = 0
                 PROVE  hcp' = NoObj /\ hcpCache' = NoObj /\ pc' = "idle"
      OBVIOUS
    <2>1. edits \in Nat  BY HCPAssumption, TypeParts DEF BudgetTypes
    <2>2. hcp = NoObj /\ hcpCache = NoObj /\ pc = "idle"  BY <2>1, EditsGrow DEF Copies
    <2>3. hcp' = NoObj /\ hcpCache' = NoObj  BY <1>3, <1>4, <1>5, <2>2
    <2> QED  BY <2>2, <2>3, WorkerSteps DEF Begins, GoesOn, AddFinalizer
  <1>10. released' # "no" => hcp' = NoObj
    BY <1>3, ObjectSteps
    DEF objects, Copies, AddFinalizer, RemoveFinalizer, SyncHCP, Restart, ChangeHCP, DeleteHCP,
        Current
  <1>11. hcp' # NoObj => (hcp'.deleting => hcp'.fin)
    BY <1>3, ObjectSteps, Versions
    DEF objects, Copies, AddFinalizer, RemoveFinalizer, SyncHCP, Restart, ChangeHCP, DeleteHCP,
        Current
  <1> QED  BY <1>7, <1>8, <1>9, <1>10, <1>11 DEF Copies, CopyOf

\* Where a reconcile begins, and where it goes on from the finalizer.
LEMMA FirstSteps ==
    ASSUME NEW w
    PROVE  /\ FirstStep(w) \in Upkeep => ~w.hcp.deleting /\ w.hcp.fin
           /\ FirstStep(w) \in Removing => w.hcp.deleting
           /\ FirstStep(w) \in {"finalizer", "idle"} \cup Upkeep \cup Removing
           /\ AfterFinalizer(w) \in {"idle", "readiness", "dynatrace", "getProbe"}
  BY DEF FirstStep, AfterFinalizer, AfterInternalObjects, AfterDynatrace, AfterDynatraceDeletion,
         Upkeep, Removing, Deploying

\* What the copies vouch for stays true.
LEMMA VouchedKept ==
    ASSUME TypeOK, HasWork, Copies, Vouched, TypeOK', [Next]_vars
    PROVE  Vouched'
  <1>1. /\ hcp # NoObj => hcp \in HCP
        /\ hcpCache # NoObj => hcpCache \in HCP
        /\ pc # "idle" => work.hcp \in HCP
    BY WorkFields DEF TypeOK, HasWork
  <1>2. (hcp # NoObj /\ hcp.fin) => (hcp' # NoObj /\ hcp'.fin) \/ (RemoveFinalizer /\ Current)
    BY FinalizerStays
  <1>3. RemoveFinalizer /\ Current /\ hcpCache # NoObj => hcpCache.deleting
    <2> SUFFICES ASSUME RemoveFinalizer, Current, hcpCache # NoObj
                 PROVE  hcpCache.deleting
      OBVIOUS
    <2>1. pc = "removeFinalizer" /\ hcp # NoObj /\ hcp.rv = work.hcp.rv
      BY DEF RemoveFinalizer, Current
    <2>2. work.hcp.deleting /\ work.hcp.rv <= hcpCache.rv
      BY <2>1 DEF Vouched, Removing
    <2>3. hcpCache.rv <= hcp.rv /\ (hcpCache.rv = hcp.rv => hcpCache = hcp) /\ work.hcp = hcp
      BY <2>1 DEF Copies, CopyOf
    <2>4. hcpCache.rv \in Nat /\ hcp.rv \in Nat  BY <1>1, <2>1 DEF HCP
    <2> QED  BY <2>1, <2>2, <2>3, <2>4
  <1>4. hcpCache' # NoObj /\ hcpCache'.fin /\ ~hcpCache'.deleting => hcp' # NoObj /\ hcp'.fin
    <2>1. CASE hcpCache' = hcpCache
      BY <1>2, <1>3, <2>1 DEF Vouched, RemoveFinalizer
    <2>2. CASE hcpCache' = hcp /\ hcp' = hcp  BY <2>2
    <2> QED  BY <2>1, <2>2, CacheSteps
  <1>5. pc' \in Upkeep => hcp' # NoObj /\ hcp'.fin
    <2>1. CASE Begins  BY <2>1, FirstSteps DEF Begins, Vouched, objects
    <2>2. CASE GoesOn
      BY <1>2, <2>2 DEF GoesOn, Vouched, RemoveFinalizer, Upkeep, Removing, Deploying
    <2>3. CASE AddFinalizer
      BY <2>3, Versions DEF AddFinalizer, Current, Requeue, Upkeep, Deploying
    <2> QED  BY <2>1, <2>2, <2>3, WorkerSteps DEF Upkeep, Deploying
  <1>6. pc' \in Removing => /\ work'.hcp.deleting
                            /\ hcpCache' # NoObj => work'.hcp.rv <= hcpCache'.rv
    <2>1. CASE Begins
      <3>1. hcpCache.rv <= hcpCache.rv
        <4>1. hcpCache.rv \in Nat  BY <1>1, <2>1 DEF Begins, HCP
        <4> QED  BY <4>1
      <3> QED  BY <2>1, <3>1, FirstSteps DEF Begins, objects
    <2>2. CASE GoesOn /\ pc' \in Removing
      <3>1. pc \in Removing /\ pc # "idle" /\ work'.hcp = work.hcp
        BY <2>2 DEF GoesOn, Upkeep, Removing, Deploying
      <3> QED  BY <3>1, CacheSteps DEF Vouched, Copies, CopyOf
    <2>3. CASE AddFinalizer
      BY <2>3, FirstSteps DEF AddFinalizer, Requeue, Removing
    <2> QED  BY <2>1, <2>2, <2>3, WorkerSteps DEF Removing
  <1> QED  BY <1>4, <1>5, <1>6 DEF Vouched

----------------------------------------------------------------------------
(* The rest of the invariant.                                               *)

\* Time does not run backwards, and what the operator started with stays as long as a
\* reconcile runs.
LEMMA WorldSteps ==
    ASSUME [Next]_vars
    PROVE  late' \in {late, TRUE} /\ old' \in {old, TRUE} /\ (started' = started \/ pc' = "idle")
  <1> USE DEF world, operator
  <1>1. CASE Reconcile
    BY <1>1
    DEF Reconcile, ReadConfig, Start, AddFinalizer, Readiness, Healthcheck, VpcEndpoint,
        KubeAPIServerReachable, TLSUnavailable, DeployInternalObjects,
        deployDynatraceHttpMonitorResources, deleteDynatraceHttpMonitorResources, EnsureProbe,
        GetProbe, TerminateProbe, CreateProbe, UpdateProbeLabels, deleteRHOBSProbe,
        finalizeHostedControlPlane, RemoveFinalizer
  <1>2. CASE ~Reconcile
    BY <1>2
    DEF Next, SyncHCP, SyncHealth, ConfigUnreadable, Start, HostedClusterUnreadable, GetProbe,
        TLSFails, CallFails, Restart, Users, CreateHCP, ChangeHCP, DeleteHCP, ChangeConfigMap,
        ServiceGoesUpOrDown, ProbeFails, Agents, ProbeRemoved, MonitorRemoved, DeletionIsLate,
        GrowsOld, vars
  <1> QED  BY <1>1, <1>2

\* Where a reconcile goes on from a step, the action of that step was taken.
LEMMA StepsTaken ==
    ASSUME [Next]_vars, ~UNCHANGED <<pc, work>>, pc' # "idle"
    PROVE  /\ pc = "readiness"       => Readiness
           /\ pc = "healthcheck"     => Healthcheck
           /\ pc = "deleteProbe"     => deleteRHOBSProbe
           /\ pc = "deleteDynatrace" => deleteDynatraceHttpMonitorResources
           /\ pc \in LastRemoval    => finalizeHostedControlPlane
  <1> DEFINE Apart == {"readiness", "healthcheck", "deleteProbe", "deleteDynatrace"}
                      \cup LastRemoval
  <1> USE DEF LastRemoval
  <1>1. CASE Reconcile
    <2>1. deployDynatraceHttpMonitorResources => pc \notin Apart
      BY DEF deployDynatraceHttpMonitorResources, ListDynatraceMonitors, removeDyntraceMonitors,
             MoveDynatraceMonitor, CreateDynatraceHttpMonitor
    <2>2. TLSUnavailable \/ DeployInternalObjects => pc \notin Apart
      BY DEF TLSUnavailable, DeleteInternalObjects, DeployInternalObjects
    <2>3. EnsureProbe \/ TerminateProbe \/ CreateProbe \/ UpdateProbeLabels => pc \notin Apart
      BY DEF EnsureProbe, TerminateProbe, CreateProbe, UpdateProbeLabels
    <2>4. ReadConfig \/ AddFinalizer \/ VpcEndpoint \/ KubeAPIServerReachable => pc \notin Apart
      BY DEF ReadConfig, Start, AddFinalizer, VpcEndpoint, KubeAPIServerReachable
    <2>5. Readiness => pc = "readiness"  BY DEF Readiness
    <2>6. Healthcheck => pc = "healthcheck"  BY DEF Healthcheck
    <2>7. deleteRHOBSProbe => pc = "deleteProbe"  BY DEF deleteRHOBSProbe
    <2>8. deleteDynatraceHttpMonitorResources => pc = "deleteDynatrace"
      BY DEF deleteDynatraceHttpMonitorResources
    <2>9. finalizeHostedControlPlane => pc \in LastRemoval
      BY DEF finalizeHostedControlPlane, DeleteInternalObjects
    <2>10. ~RemoveFinalizer  BY DEF RemoveFinalizer, Stop, Requeue
    <2> QED
      BY <1>1, <2>1, <2>2, <2>3, <2>4, <2>5, <2>6, <2>7, <2>8, <2>9, <2>10 DEF Reconcile
  <1>2. CASE ~Reconcile
    <2>1. ConfigUnreadable \/ HostedClusterUnreadable \/ TLSFails => pc \notin Apart
      BY DEF ConfigUnreadable, Start, HostedClusterUnreadable, TLSFails
    <2>2. ~CallFails /\ ~Restart  BY DEF CallFails, Requeue, Restart
    <2>3. ~(\/ SyncHCP \/ SyncHealth \/ Users \/ Agents \/ DeletionIsLate \/ GrowsOld
            \/ UNCHANGED vars)
      BY DEF SyncHCP, SyncHealth, Users, CreateHCP, ChangeHCP, DeleteHCP, ChangeConfigMap,
             ServiceGoesUpOrDown, ProbeFails, Agents, ProbeRemoved, MonitorRemoved, DeletionIsLate,
             GrowsOld, worker, vars
    <2> QED  BY <1>2, <2>1, <2>2, <2>3 DEF Next
  <1> QED  BY <1>1, <1>2

\* The last steps of deletion are reached past the probe and past the monitors, or where
\* there are none to take care of.
LEMMA LastSteps ==
    ASSUME TypeOK, HasWork, [Next]_vars, pc' \in LastRemoval
    PROVE  \/ GoesOn /\ pc \in LastRemoval
           \/ Begins /\ work'.cfg.url = "none" /\ ~work'.client
           \/ GoesOn /\ deleteRHOBSProbe
           \/ GoesOn /\ deleteDynatraceHttpMonitorResources /\ work.cfg.url = "none"
  <1> USE DEF LastRemoval
  <1>1. pc' # "idle"  OBVIOUS
  <1>2. CASE Begins
    BY <1>2
    DEF Begins, FirstStep, AfterFinalizer, AfterInternalObjects, AfterDynatrace,
        AfterDynatraceDeletion
  <1>3. CASE AddFinalizer  BY <1>3, FirstSteps DEF AddFinalizer, Requeue
  <1>4. CASE GoesOn
    <2>1. pc \in LastRemoval \cup {"deleteDynatrace", "deleteProbe"}
      BY <1>4 DEF GoesOn, Upkeep, Removing, Deploying
    <2>2. CASE pc = "deleteProbe"  BY <1>1, <1>4, <2>2, StepsTaken
    <2>3. CASE pc = "deleteDynatrace"
      <3>1. deleteDynatraceHttpMonitorResources  BY <1>1, <2>3, StepsTaken
      <3>2. work.cfg.url = "none"
        BY <1>1, <2>3, <3>1
        DEF deleteDynatraceHttpMonitorResources, DynatraceRequest, DynatraceFails, Goto, Requeue,
            AfterDynatraceDeletion
      <3> QED  BY <1>4, <3>1, <3>2
    <2> QED  BY <1>4, <2>1, <2>2, <2>3
  <1> QED  BY <1>1, <1>2, <1>3, <1>4, WorkerSteps

\* The merge does not lose the URL the operator started with.
LEMMA StartedURLKept ==
    ASSUME TypeOK, HasWork, StartedURL, [Next]_vars
    PROVE  StartedURL'
  <1> SUFFICES ASSUME pc' # "idle", work'.cfg.url = "none"
               PROVE  started'.url = "none"
    BY DEF StartedURL
  <1>1. started' = started  BY WorldSteps
  <1>2. CASE Begins
    BY <1>1, <1>2 DEF Begins, getRHOBSConfig, Fallback, WithDynatrace, Override
  <1>3. CASE AddFinalizer
    <2>1. work' = [work EXCEPT !.hcp = hcp'] /\ work \in Work /\ pc # "idle"
      BY <1>3 DEF AddFinalizer, Requeue, HasWork
    <2> QED  BY <1>1, <2>1 DEF StartedURL, Work
  <1>4. CASE GoesOn  BY <1>1, <1>4 DEF GoesOn, StartedURL
  <1> QED  BY <1>2, <1>3, <1>4, WorkerSteps

----------------------------------------------------------------------------
(* Probes.                                                                  *)

\* Probes come only from a request to create one; else they go, and one on its way out
\* stays so.
Fading ==
    /\ Listed' \subseteq Listed
    /\ \A i \in Listed' : probes[i].status = "terminating" => probes'[i].status = "terminating"

LEMMA ProbeSteps ==
    ASSUME TypeOK, HasWork, [Next]_vars
    PROVE  pc = "create" \/ Fading
  <1>1. probes \in [ProbeIds -> Probe \cup {NoObj}] /\ NoObj \notin ProbeIds
    BY HCPAssumption DEF TypeOK
  <1>2. UNCHANGED probes => Fading  BY DEF Fading, Listed
  <1>3. ASSUME NEW i \in Found, probes' = Terminated(i)
        PROVE  Fading
    <2>1. CASE i = NoObj  BY <1>2, <1>3, <2>1 DEF Terminated
    <2>2. CASE i # NoObj
      <3>1. i \in ProbeIds /\ i \in Listed /\ probes[i] \in Probe
        BY <1>1, <2>2 DEF Found, Listed
      <3> DEFINE marked == [probes[i] EXCEPT !.status = "terminating"]
      <3>2. probes' = [probes EXCEPT ![i] = marked]  BY <1>3, <2>2 DEF Terminated
      <3>3. marked.status = "terminating"  BY <3>1 DEF Probe
      <3> HIDE DEF marked
      <3> QED  BY <1>1, <3>1, <3>2, <3>3 DEF Fading, Listed
    <2> QED  BY <2>1, <2>2
  <1>4. CASE TerminateProbe \/ deleteRHOBSProbe
    BY <1>2, <1>3, <1>4 DEF TerminateProbe, deleteRHOBSProbe, DeleteProbe, Request
  <1>5. CASE CreateProbe  BY <1>2, <1>5 DEF CreateProbe, Request
  <1>6. CASE UpdateProbeLabels
    <2> DEFINE moved == [probes[work.found] EXCEPT !.region = work.hcp.spec.region]
    <2>1. UNCHANGED probes \/ (probes[work.found] # NoObj
                               /\ probes' = [probes EXCEPT ![work.found] = moved])
      BY <1>6 DEF UpdateProbeLabels, Request
    <2>2. CASE work.found \in ProbeIds /\ probes[work.found] # NoObj
      <3>1. probes[work.found] \in Probe  BY <1>1, <2>2
      <3>2. moved.status = probes[work.found].status  BY <3>1 DEF Probe
      <3> QED  BY <1>1, <1>2, <2>1, <2>2, <3>2 DEF Fading, Listed
    <2>3. CASE work.found \notin ProbeIds
      <3>1. [probes EXCEPT ![work.found] = moved] = probes  BY <1>1, <2>3
      <3> QED  BY <1>2, <2>1, <3>1
    <2> QED  BY <1>2, <2>1, <2>2, <2>3
  <1>7. ASSUME NEW i \in ProbeIds, ProbeFails(i) \/ ProbeRemoved(i)
        PROVE  Fading
    <2>1. CASE ProbeFails(i)
      <3>1. probes[i].status = "active" /\ probes' = [probes EXCEPT ![i].status = "failed"]
            /\ probes[i] # NoObj
        BY <2>1 DEF ProbeFails
      <3> QED  BY <1>1, <3>1 DEF Fading, Listed
    <2>2. CASE ProbeRemoved(i)
      BY <1>1, <2>2 DEF ProbeRemoved, Fading, Listed
    <2> QED  BY <1>7, <2>1, <2>2
  <1>8. \/ UNCHANGED probes
        \/ TerminateProbe \/ deleteRHOBSProbe \/ CreateProbe \/ UpdateProbeLabels
        \/ \E i \in ProbeIds : ProbeFails(i) \/ ProbeRemoved(i)
    BY DEF Next, Reconcile, Users, Agents, ReadConfig, Start, AddFinalizer, Readiness, Healthcheck,
           VpcEndpoint, KubeAPIServerReachable, TLSUnavailable, DeployInternalObjects,
           deployDynatraceHttpMonitorResources, deleteDynatraceHttpMonitorResources, EnsureProbe,
           GetProbe, finalizeHostedControlPlane, RemoveFinalizer, SyncHCP, SyncHealth,
           ConfigUnreadable, HostedClusterUnreadable, TLSFails, CallFails, Restart, CreateHCP,
           ChangeHCP, DeleteHCP, ChangeConfigMap, ServiceGoesUpOrDown, MonitorRemoved,
           DeletionIsLate, GrowsOld, vars
  <1> QED  BY <1>2, <1>4, <1>5, <1>6, <1>7, <1>8

\* The probe that is marked is not live any more, and no other becomes so.
LEMMA Marked ==
    ASSUME TypeOK, HasWork, [Next]_vars, deleteRHOBSProbe, NEW i \in Found, probes' = Terminated(i)
    PROVE  Live' \subseteq Live \ {i}
  <1>1. probes \in [ProbeIds -> Probe \cup {NoObj}]  BY DEF TypeOK
  <1>2. Live' \subseteq Live  BY ProbeSteps DEF deleteRHOBSProbe, Fading, Live
  <1>3. i \notin Live'
    <2>1. CASE i = NoObj  BY <2>1, HCPAssumption DEF Live, Listed
    <2>2. CASE i # NoObj
      <3>1. i \in ProbeIds /\ probes[i] \in Probe  BY <1>1, <2>2 DEF Found, Listed
      <3>2. probes' = [probes EXCEPT ![i].status = "terminating"]  BY <2>2 DEF Terminated
      <3>3. probes'[i].status = "terminating"  BY <1>1, <3>1, <3>2 DEF Probe
      <3> QED  BY <3>3 DEF Live
    <2> QED  BY <2>1, <2>2
  <1> QED  BY <1>2, <1>3

\* Live probes come from a request to create one, and a request to delete one in time
\* leaves those that were listed next to it.
LEMMA ProbesLeft ==
    ASSUME TypeOK, HasWork, [Next]_vars
    PROVE  \/ pc = "create" /\ UNCHANGED overlooked
           \/ Live' \subseteq Live /\ UNCHANGED overlooked
           \/ deleteRHOBSProbe /\ Live' \subseteq overlooked'
  <1>1. Fading => Live' \subseteq Live  BY DEF Fading, Live
  <1>2. CASE UNCHANGED overlooked  BY <1>1, <1>2, ProbeSteps
  <1>3. CASE ~UNCHANGED overlooked
    <2>1. deleteRHOBSProbe
      BY <1>3, ObjectSteps
      DEF Next, Reconcile, Users, Agents, ReadConfig, Start, AddFinalizer, Readiness, Healthcheck,
          VpcEndpoint, KubeAPIServerReachable, TLSUnavailable, DeployInternalObjects,
          deployDynatraceHttpMonitorResources, deleteDynatraceHttpMonitorResources, EnsureProbe,
          GetProbe, TerminateProbe, CreateProbe, UpdateProbeLabels, finalizeHostedControlPlane,
          RemoveFinalizer, SyncHCP, SyncHealth, ConfigUnreadable, HostedClusterUnreadable,
          TLSFails, CallFails, Restart, CreateHCP, ChangeHCP, DeleteHCP, ChangeConfigMap,
          ServiceGoesUpOrDown, ProbeFails, ProbeRemoved, MonitorRemoved, DeletionIsLate, GrowsOld,
          objects, vars
    <2>2. PICK i \in Found : probes' = Terminated(i) /\ overlooked' = Live \ {i}
      BY <1>3, <2>1 DEF deleteRHOBSProbe, DeleteProbe, Request
    <2> QED  BY <2>1, <2>2, Marked
  <1> QED  BY <1>2, <1>3

\* Deletion passes the request only if it was answered, or late.
LEMMA ProbesKeptKept ==
    ASSUME TypeOK, HasWork, TypeOK', ProbesKept, [Next]_vars
    PROVE  ProbesKept'
  <1> SUFFICES ASSUME pc' \in LastRemoval, work'.cfg.url # "none"
               PROVE  late' \/ Live' \subseteq overlooked'
    BY DEF ProbesKept
  <1>1. CASE GoesOn /\ pc \in LastRemoval
    <2>1. ~deleteRHOBSProbe /\ pc # "create"  BY <1>1 DEF deleteRHOBSProbe, LastRemoval
    <2>2. late \/ Live \subseteq overlooked  BY <1>1 DEF GoesOn, ProbesKept
    <2> QED  BY <2>1, <2>2, WorldSteps, ProbesLeft
  <1>2. CASE GoesOn /\ deleteRHOBSProbe
    <2>1. CASE late' = TRUE  BY <2>1
    <2>2. CASE late' # TRUE
      <3>1. PICK i \in Found : probes' = Terminated(i) /\ overlooked' = Live \ {i}
        BY <1>2, <2>2
        DEF deleteRHOBSProbe, GiveUp, Requeue, DeleteProbe, Request, GoesOn, world, TypeOK
      <3> QED  BY <1>2, <3>1, Marked
    <2> QED  BY <2>1, <2>2
  <1> QED  BY <1>1, <1>2, LastSteps DEF GoesOn

----------------------------------------------------------------------------
(* Dynatrace monitors.                                                      *)

\* Monitors come only from a reconcile that keeps the cluster monitored.
LEMMA MonitorSteps ==
    ASSUME TypeOK, HasWork, [Next]_vars
    PROVE  Monitored' \subseteq Monitored \/ pc \in Deploying
  <1>1. dynatrace \in [DynatraceIds -> Locations \cup {NoObj}]  BY DEF TypeOK
  <1>2. UNCHANGED dynatrace => Monitored' \subseteq Monitored  BY DEF Monitored
  <1>3. ASSUME NEW i \in DynatraceIds, dynatrace' = Without(i)
        PROVE  Monitored' \subseteq Monitored
    BY <1>1, <1>3 DEF Without, Monitored
  <1>4. CASE deployDynatraceHttpMonitorResources
    BY <1>4
    DEF deployDynatraceHttpMonitorResources, ListDynatraceMonitors, removeDyntraceMonitors,
        MoveDynatraceMonitor, CreateDynatraceHttpMonitor, Deploying
  <1>5. CASE deleteDynatraceHttpMonitorResources
    BY <1>2, <1>3, <1>5 DEF deleteDynatraceHttpMonitorResources, DynatraceRequest, Tagged
  <1>6. \/ UNCHANGED dynatrace
        \/ deployDynatraceHttpMonitorResources \/ deleteDynatraceHttpMonitorResources
    BY DEF Next, Reconcile, Users, Agents, ReadConfig, Start, AddFinalizer, Readiness, Healthcheck,
           VpcEndpoint, KubeAPIServerReachable, TLSUnavailable, DeployInternalObjects, EnsureProbe,
           GetProbe, TerminateProbe, CreateProbe, UpdateProbeLabels, deleteRHOBSProbe,
           finalizeHostedControlPlane, RemoveFinalizer, SyncHCP, SyncHealth, ConfigUnreadable,
           HostedClusterUnreadable, TLSFails, CallFails, Restart, CreateHCP, ChangeHCP, DeleteHCP,
           ChangeConfigMap, ServiceGoesUpOrDown, ProbeFails, ProbeRemoved, MonitorRemoved,
           DeletionIsLate, GrowsOld, vars
  <1> QED  BY <1>2, <1>4, <1>5, <1>6

\* Deletion that has only Dynatrace to take care of waits for the last monitor.
LEMMA MonitorsKeptKept ==
    ASSUME \A s \in HCPSpecs : s.id,
           TypeOK, HasWork, MonitorsKept, [Next]_vars
    PROVE  MonitorsKept'
  <1>1. pc # "idle" => work.hcp \in HCP /\ work.hcp.spec \in HCPSpecs
    BY WorkFields, HCPFields DEF HasWork
  <1>2. ASSUME pc' = "deleteProbe"
        PROVE  work'.cfg.url # "none"
    <2>1. CASE Begins
      BY <1>2, <2>1
      DEF Begins, FirstStep, AfterFinalizer, AfterInternalObjects, AfterDynatrace,
          AfterDynatraceDeletion
    <2>2. CASE AddFinalizer  BY <1>2, <2>2, FirstSteps DEF AddFinalizer, Requeue
    <2>3. CASE GoesOn
      <3>1. CASE pc = "deleteProbe"  BY <2>3, <3>1 DEF GoesOn, MonitorsKept
      <3>2. CASE pc # "deleteProbe"
        <4>1. pc \in {"deleteDynatrace"} \cup LastRemoval
          BY <1>2, <2>3, <3>2 DEF GoesOn, Upkeep, Removing, Deploying, LastRemoval
        <4>2. pc = "deleteDynatrace"
          BY <1>2, <4>1, StepsTaken
          DEF finalizeHostedControlPlane, DeleteInternalObjects, Goto, Continue, PeriodicRequeue,
              Requeue, LastRemoval
        <4> QED
          BY <1>2, <2>3, <4>2, StepsTaken
          DEF GoesOn, deleteDynatraceHttpMonitorResources, DynatraceRequest, DynatraceFails, Goto,
              Requeue, AfterDynatraceDeletion
      <3> QED  BY <3>1, <3>2
    <2> QED  BY <1>2, <2>1, <2>2, <2>3, WorkerSteps
  <1>3. ASSUME pc' \in LastRemoval, work'.cfg.url = "none", work'.client
        PROVE  Monitored' = {}
    <2>1. CASE GoesOn /\ pc \in LastRemoval
      <3>1. Monitored = {} /\ pc \notin Deploying
        BY <1>3, <2>1 DEF GoesOn, MonitorsKept, LastRemoval, Deploying
      <3> QED  BY <3>1, MonitorSteps
    <2>2. CASE GoesOn /\ deleteRHOBSProbe
      BY <1>3, <2>2 DEF GoesOn, deleteRHOBSProbe, MonitorsKept
    <2>3. CASE GoesOn /\ deleteDynatraceHttpMonitorResources /\ work.cfg.url = "none"
      <3>1. pc = "deleteDynatrace" /\ pc' # pc /\ pc' # "idle"
        BY <1>3, <2>3 DEF deleteDynatraceHttpMonitorResources, LastRemoval
      <3>2. Tagged = Monitored  BY <1>1, <3>1 DEF Tagged, Monitored
      <3>3. ~DynatraceFails("deleteProbe")
        BY <2>3, <3>1 DEF DynatraceFails, Requeue
      <3>4. CASE Tagged = {} /\ UNCHANGED dynatrace  BY <3>2, <3>4 DEF Monitored
      <3>5. ASSUME NEW i \in Tagged, Tagged = {i}, dynatrace' = Without(i)
            PROVE  Monitored' = {}
        <4>1. dynatrace \in [DynatraceIds -> Locations \cup {NoObj}]  BY DEF TypeOK
        <4> QED  BY <3>2, <3>5, <4>1 DEF Without, Monitored
      <3> QED
        BY <2>3, <3>1, <3>3, <3>4, <3>5
        DEF deleteDynatraceHttpMonitorResources, DynatraceRequest, Goto
    <2> QED  BY <1>3, <2>1, <2>2, <2>3, LastSteps
  <1> QED  BY <1>2, <1>3 DEF MonitorsKept

----------------------------------------------------------------------------
(* Health checks.                                                           *)

\* Between two health checks nothing touches the count.
LEMMA CheckSteps ==
    ASSUME [Next]_vars
    PROVE  \/ UNCHANGED checks
           \/ Readiness \/ Healthcheck \/ SyncHealth \/ CallFails \/ Restart
  BY DEF Next, Reconcile, Users, Agents, ReadConfig, Start, AddFinalizer, VpcEndpoint,
         KubeAPIServerReachable, TLSUnavailable, DeployInternalObjects,
         deployDynatraceHttpMonitorResources, deleteDynatraceHttpMonitorResources, EnsureProbe,
         GetProbe, TerminateProbe, CreateProbe, UpdateProbeLabels, deleteRHOBSProbe,
         finalizeHostedControlPlane, RemoveFinalizer, SyncHCP, ConfigUnreadable,
         HostedClusterUnreadable, TLSFails, CreateHCP, ChangeHCP, DeleteHCP, ChangeConfigMap,
         ServiceGoesUpOrDown, ProbeFails, ProbeRemoved, MonitorRemoved, DeletionIsLate, GrowsOld,
         vars, checks

\* The history of a check that passes goes up with the count.
LEMMA PassCounts ==
    ASSUME TypeOK, NEW n \in Nat, NEW ok \in BOOLEAN, NEW rec \in BOOLEAN, Polled(ok, rec)
    PROVE  /\ rec /\ n <= passed /\ n < consecutiveSuccessfulHealthchecks =>
                CountAfter(ok, n) <= passed'
           /\ ~rec /\ n <= passed => n <= passed'
  <1>1. passed \in Nat /\ consecutiveSuccessfulHealthchecks \in Nat
    BY HCPAssumption DEF TypeOK
  <1>2. CASE ok = TRUE  BY <1>1, <1>2 DEF Polled, CountAfter, OneMore
  <1>3. CASE ok = FALSE  BY <1>1, <1>3 DEF Polled, CountAfter
  <1> QED  BY <1>2, <1>3

\* What a write leaves in the cache: the count written, or the copy there was, which is
\* not the current one any more.
LEMMA Written ==
    ASSUME TypeOK, NEW n \in Nat, WriteHealth(n)
    PROVE  /\ health' = n
           /\ \/ healthCache'.count = n
              \/ healthCache' = healthCache /\ n = health
              \/ healthCache'.count = healthCache.count /\ ~healthCache'.fresh
  <1>1. healthCache \in [count : Nat \cup {NoObj}, fresh : BOOLEAN]  BY DEF TypeOK
  <1>2. [healthCache EXCEPT !.fresh = FALSE].count = healthCache.count
        /\ ~[healthCache EXCEPT !.fresh = FALSE].fresh
    BY <1>1
  <1> QED  BY <1>2 DEF WriteHealth

\* The count stays backed: updates from a copy that is not current fail.
LEMMA CountedKept ==
    ASSUME TypeOK, HasWork, Counted, TypeOK', [Next]_vars
    PROVE  Counted'
  <1> DEFINE N == consecutiveSuccessfulHealthchecks
  <1>1. /\ passed \in Nat /\ N \in Nat \ {0} /\ health \in Nat \cup {NoObj}
        /\ healthCache.count \in Nat \cup {NoObj}
        /\ pc # "idle" => work \in Work /\ work.count \in Nat /\ work.fresh \in BOOLEAN
    BY HCPAssumption DEF TypeOK, HasWork, Work
  <1>2. CASE Readiness
    <2>1. UNCHANGED passed /\ pc = "readiness" /\ work \in Work  BY <1>1, <1>2 DEF Readiness
    <2>2. CASE UNCHANGED <<health, healthCache>>
      <3>1. ASSUME pc' = "healthcheck", work'.fresh
            PROVE  work'.count = health /\ work'.count <= passed /\ work'.count < N
        <4>1. (healthCache.count # NoObj /\ Checking(healthCache.count, healthCache.fresh))
              \/ (health = NoObj /\ Checking(0, TRUE) /\ WriteHealth(0))
          BY <1>2, <3>1 DEF Readiness, Goto, Requeue
        <4>2. CASE healthCache.count # NoObj /\ Checking(healthCache.count, healthCache.fresh)
          <5>1. /\ work' = [work EXCEPT !.count = healthCache.count, !.fresh = healthCache.fresh]
                /\ ~(healthCache.count >= N)
            BY <3>1, <4>2 DEF Checking, Goto
          <5>2. work'.count = healthCache.count /\ work'.fresh = healthCache.fresh
            BY <2>1, <5>1 DEF Work
          <5> QED  BY <1>1, <3>1, <4>2, <5>1, <5>2 DEF Counted
        <4>3. CASE Checking(0, TRUE) /\ WriteHealth(0)
          <5>1. work' = [work EXCEPT !.count = 0, !.fresh = TRUE]  BY <3>1, <4>3 DEF Checking, Goto
          <5>2. health = 0  BY <2>2, <4>3 DEF WriteHealth
          <5> QED  BY <1>1, <2>1, <5>1, <5>2 DEF Work
        <4> QED  BY <4>1, <4>2, <4>3
      <3> QED  BY <2>1, <2>2, <3>1 DEF Counted
    <2>3. CASE ~UNCHANGED <<health, healthCache>>
      <3>1. healthCache.count = NoObj /\ Checking(0, TRUE) /\ WriteHealth(0)
        BY <1>2, <2>3 DEF Readiness
      <3>2. /\ health' = 0
            /\ \/ healthCache'.count = 0
               \/ healthCache' = healthCache /\ health = 0
               \/ healthCache'.count = NoObj /\ ~healthCache'.fresh
        BY <3>1, Written
      <3>3. work' = [work EXCEPT !.count = 0, !.fresh = TRUE]
        BY <1>1, <3>1 DEF Checking
      <3>4. work'.count = 0  BY <2>1, <3>3 DEF Work
      <3>5. healthCache'.fresh => healthCache'.count = 0
        BY <3>2 DEF Counted
      <3>6. healthCache'.count \in {0, NoObj}  BY <3>1, <3>2
      <3> QED  BY <1>1, <2>1, <3>2, <3>4, <3>5, <3>6 DEF Counted
    <2> QED  BY <2>2, <2>3
  <1>3. CASE Healthcheck
    <2>1. pc = "healthcheck" /\ pc' # "healthcheck" /\ work.count \in Nat /\ work.fresh \in BOOLEAN
      BY <1>1, <1>3 DEF Healthcheck, Goto, Requeue
    <2>2. PICK ok \in BOOLEAN :
            /\ Polled(ok, work.fresh)
            /\ IF work.fresh THEN WriteHealth(CountAfter(ok, work.count))
                             ELSE UNCHANGED <<health, healthCache>>
      BY <1>3 DEF Healthcheck
    <2>3. CASE work.fresh
      <3> DEFINE n == CountAfter(ok, work.count)
      <3>1. work.count = health /\ work.count < N /\ n \in Nat
        BY <2>1, <2>3, CountTypes DEF Counted
      <3>2. n <= passed'
        <4>1. work.count <= passed  BY <2>1, <2>3 DEF Counted
        <4> QED  BY <2>1, <2>2, <2>3, <3>1, <4>1, PassCounts
      <3> HIDE DEF n
      <3>3. /\ health' = n
            /\ \/ healthCache'.count = n
               \/ healthCache' = healthCache /\ n = health
               \/ healthCache'.count = healthCache.count /\ ~healthCache'.fresh
        BY <2>2, <2>3, <3>1, Written DEF n
      <3>4. healthCache.count # NoObj => ~(healthCache.count >= N)
        BY <1>1, <3>1 DEF Counted
      <3>5. healthCache'.fresh => healthCache'.count = n
        BY <3>3 DEF Counted
      <3>6. healthCache'.count # NoObj /\ healthCache'.count >= N => n # NoObj /\ n >= N
        BY <3>3, <3>4
      <3> QED  BY <2>1, <3>2, <3>3, <3>5, <3>6 DEF Counted
    <2>4. CASE ~work.fresh
      <3>1. UNCHANGED <<health, healthCache>>  BY <2>2, <2>4
      <3>2. health # NoObj => health <= passed'
        BY <1>1, <2>1, <2>2, <2>4, PassCounts DEF Counted
      <3> QED  BY <2>1, <3>1, <3>2 DEF Counted
    <2> QED  BY <2>1, <2>3, <2>4
  <1>4. CASE SyncHealth
    <2>1. healthCache' = [count |-> health, fresh |-> TRUE] /\ UNCHANGED <<health, passed, pc, work>>
      BY <1>4 DEF SyncHealth, worker
    <2> QED  BY <2>1 DEF Counted
  <1>5. CASE CallFails
    <2>1. pc' = "idle" /\ UNCHANGED <<health, healthCache>>  BY <1>5 DEF CallFails, Requeue
    <2>2. passed' = passed \/ \E ok \in BOOLEAN : Polled(ok, FALSE)  BY <1>5 DEF CallFails
    <2>3. health # NoObj => health <= passed'
      BY <1>1, <2>2, PassCounts DEF Counted
    <2> QED  BY <2>1, <2>3 DEF Counted
  <1>6. CASE Restart
    <2>1. /\ pc' = "idle" /\ healthCache' = [count |-> health, fresh |-> TRUE]
          /\ UNCHANGED <<health, passed>>
      BY <1>6 DEF Restart
    <2> QED  BY <2>1 DEF Counted
  <1>7. CASE UNCHANGED checks /\ ~Readiness /\ ~Healthcheck
    <2>1. CASE UNCHANGED <<pc, work>>  BY <1>7, <2>1 DEF checks, Counted
    <2>2. CASE pc' # "healthcheck"  BY <1>7, <2>2 DEF checks, Counted
    <2>3. CASE pc' = "healthcheck" /\ ~UNCHANGED <<pc, work>>
      <3>1. pc # "readiness" /\ pc # "healthcheck"  BY <1>7, <2>3, StepsTaken
      <3>2. ~Begins
        BY <2>3
        DEF Begins, FirstStep, AfterFinalizer, AfterInternalObjects, AfterDynatrace,
            AfterDynatraceDeletion
      <3>3. ~AddFinalizer  BY <2>3, FirstSteps DEF AddFinalizer, Requeue
      <3> QED
        BY <2>3, <3>1, <3>2, <3>3, WorkerSteps DEF GoesOn, Removing, Deploying
    <2> QED  BY <2>1, <2>2, <2>3
  <1> QED  BY <1>2, <1>3, <1>4, <1>5, <1>6, <1>7, CheckSteps


\* A young cluster is passed on only with the count complete, and no check is made past
\* that point.
LEMMA HealthyKept ==
    ASSUME TypeOK, HasWork, Counted, HealthyAfterPasses, TypeOK', [Next]_vars
    PROVE  HealthyAfterPasses'
  <1> DEFINE N == consecutiveSuccessfulHealthchecks
  <1> SUFFICES ASSUME pc' \in Deploying, ~work'.cfg.skip
               PROVE  old' \/ passed' >= N
    BY DEF HealthyAfterPasses
  <1>1. pc' # "idle" /\ passed \in Nat /\ passed' \in Nat /\ N \in Nat
    BY HCPAssumption DEF Deploying, TypeOK
  <1>2. ~Begins
    <2>1. FirstStep(work') \in {"deleteDynatrace", "deleteProbe", "deleteRoute", "readiness", "idle",
                              "finalizer"}
      BY DEF FirstStep, AfterFinalizer, AfterDynatraceDeletion
    <2> QED  BY <2>1 DEF Begins, Deploying
  <1>3. ~AddFinalizer
    <2> SUFFICES ASSUME AddFinalizer
                 PROVE  FALSE
      OBVIOUS
    <2>1. work' = [work EXCEPT !.hcp = hcp'] /\ pc' = AfterFinalizer(work')
      BY <1>1 DEF AddFinalizer, Requeue
    <2> QED  BY <2>1 DEF AfterFinalizer, Deploying
  <1>4. GoesOn  BY <1>1, <1>2, <1>3, WorkerSteps
  <1>5. CASE pc = "readiness"
    <2>1. Readiness  BY <1>1, <1>5, StepsTaken DEF Deploying
    <2>2. old \/ (healthCache.count # NoObj /\ healthCache.count >= N)
      <3>1. ~Requeue  BY <1>1 DEF Requeue
      <3>2. ~Checking(0, TRUE)
        BY HCPAssumption DEF Checking, Deploying
      <3>3. Checking(healthCache.count, healthCache.fresh) => healthCache.count >= N
        BY DEF Checking, Deploying
      <3> QED  BY <2>1, <3>1, <3>2, <3>3 DEF Readiness
    <2>3. healthCache.count # NoObj /\ healthCache.count >= N =>
            health \in Nat /\ health >= N /\ health <= passed
      BY DEF TypeOK, Counted
    <2>4. passed' = passed  BY <2>1 DEF Readiness
    <2>5. CASE old  BY <2>5, WorldSteps
    <2>6. CASE health \in Nat /\ health >= N /\ health <= passed  BY <1>1, <2>4, <2>6
    <2> QED  BY <2>2, <2>3, <2>5, <2>6
  <1>6. CASE pc = "healthcheck"
    <2>1. Healthcheck  BY <1>1, <1>6, StepsTaken DEF Deploying
    <2>2. PICK ok \in BOOLEAN :
            Polled(ok, TRUE) /\ work.fresh /\ CountAfter(ok, work.count) >= N
      BY <1>1, <1>6, <2>1 DEF Healthcheck, Requeue, HasWork, Work
    <2>3. work.count \in Nat /\ work.count <= passed /\ work.count < N
      BY <1>6, <2>2 DEF HasWork, Work, Counted
    <2>4. CountAfter(ok, work.count) <= passed'  BY <2>2, <2>3, PassCounts
    <2>5. CountAfter(ok, work.count) \in Nat  BY <2>3, CountTypes
    <2> QED  BY <1>1, <2>2, <2>4, <2>5
  <1>7. CASE pc \in Deploying
    <2>1. passed' = passed
      BY <1>1, <1>7, CheckSteps
      DEF Readiness, Healthcheck, SyncHealth, CallFails, Restart, Requeue, checks, Deploying
    <2>2. ~work.cfg.skip  BY <1>4 DEF GoesOn
    <2> QED  BY <1>7, <2>1, <2>2, WorldSteps DEF HealthyAfterPasses
  <1> QED  BY <1>4, <1>5, <1>6, <1>7 DEF GoesOn, Upkeep, Removing, Deploying

----------------------------------------------------------------------------
(* The theorems.                                                            *)

HCPInv == TypeOK /\ HasWork /\ Copies /\ Vouched

\* The part of the invariant that needs nothing of the services.
LEMMA HCPInvariant == Spec => []HCPInv
  <1>1. Init => HCPInv
    <2> SUFFICES ASSUME Init
                 PROVE  Copies /\ Vouched
      BY InitTypes DEF HCPInv
    <2> QED  BY DEF Init, Copies, Vouched, Upkeep, Deploying, Removing
  <1>2. HCPInv /\ [Next]_vars => HCPInv'
    BY TypesKept, CopiesKept, VouchedKept DEF HCPInv
  <1> QED  BY <1>1, <1>2, PTL DEF Spec

\* An operator that knew the API URL when it started releases no cluster as one that needs
\* no probe, whatever became of its ConfigMap since.
THEOREM FallsBack == Spec => FallsBackToStart
  <1>1. Init => StartedURL  BY DEF Init, StartedURL
  <1>2. HCPInv /\ StartedURL /\ [Next]_vars => StartedURL'  BY StartedURLKept DEF HCPInv
  <1>3. HCPInv /\ StartedURL /\ [Next]_vars =>
          [released = "no" /\ released' \in {"dynatrace", "unconfigured"} => started.url = "none"]_vars
    <2> SUFFICES ASSUME HCPInv, StartedURL, Next, released = "no",
                        released' \in {"dynatrace", "unconfigured"}
                 PROVE  started.url = "none"
      OBVIOUS
    <2>1. RemoveFinalizer
      BY ObjectSteps
      DEF objects, AddFinalizer, SyncHCP, Restart, CreateHCP, ChangeHCP, DeleteHCP
    <2>2. pc = "removeFinalizer" /\ work.cfg.url = "none"  BY <2>1 DEF RemoveFinalizer
    <2> QED  BY <2>2 DEF StartedURL
  <1> QED  BY <1>1, <1>2, <1>3, HCPInvariant, PTL DEF Spec, FallsBackToStart

\* A deletion that carried out its part in time leaves no live probe behind but those the
\* API listed next to the one it marked, whatever the API refuses and however often it
\* does not answer.
THEOREM ProbesAccountedFor == Spec => []OnlyOverlookedProbesLeft
  <1>1. Init => ProbesKept /\ OnlyOverlookedProbesLeft
    BY DEF Init, ProbesKept, OnlyOverlookedProbesLeft, Live, Listed, LastRemoval
  <1>2. ASSUME HCPInv, HCPInv', ProbesKept, OnlyOverlookedProbesLeft, [Next]_vars
        PROVE  ProbesKept' /\ OnlyOverlookedProbesLeft'
    <2>1. ProbesKept'  BY <1>2, ProbesKeptKept DEF HCPInv
    <2>2. \/ pc = "create"
          \/ Live' \subseteq Live /\ UNCHANGED overlooked
          \/ Live' \subseteq overlooked'
      BY <1>2, ProbesLeft DEF HCPInv
    <2>3. pc = "create" => hcp # NoObj /\ hcp.fin
      BY <1>2 DEF HCPInv, Vouched, Upkeep, Deploying
    <2>4. CASE RemoveFinalizer /\ Current
      <3>1. pc = "removeFinalizer" /\ UNCHANGED <<probes, overlooked>>
        BY <2>4 DEF RemoveFinalizer
      <3>2. released' = IF work.cfg.url # "none" THEN IF late THEN "late" ELSE "in time"
                        ELSE IF work.client THEN "dynatrace" ELSE "unconfigured"
        BY <2>4 DEF RemoveFinalizer
      <3>3. work.cfg.url # "none" => late \/ Live \subseteq overlooked
        BY <1>2, <3>1 DEF ProbesKept, LastRemoval
      <3>4. Live' = Live  BY <3>1 DEF Live, Listed
      <3> QED  BY <2>1, <3>1, <3>2, <3>3, <3>4 DEF OnlyOverlookedProbesLeft, Kept
    <2>5. CASE ~(RemoveFinalizer /\ Current)
      <3>1. hcp # NoObj /\ hcp.fin => hcp' # NoObj /\ hcp'.fin
        BY <1>2, <2>5, FinalizerStays DEF HCPInv
      <3>2. released' = released  BY <1>2, <2>5, ReleasedSteps
      <3>3. Kept => Kept'  BY <3>1, <3>2 DEF Kept
      <3>4. pc = "create" => Kept  BY <2>3 DEF Kept
      <3> QED  BY <1>2, <2>1, <2>2, <3>3, <3>4 DEF OnlyOverlookedProbesLeft
    <2> QED  BY <2>4, <2>5
  <1>3. HCPInv /\ HCPInv' /\ ProbesKept /\ OnlyOverlookedProbesLeft /\ [Next]_vars
          => (ProbesKept /\ OnlyOverlookedProbesLeft)'
    BY <1>2
  <1> QED  BY <1>1, <1>3, HCPInvariant, PTL DEF Spec

\* Where Dynatrace is the only service, no monitor is left behind by a deletion that
\* could read the configuration, provided every cluster has an ID to look them up by.
THEOREM NoDynatraceOrphaned ==
    ASSUME \A s \in HCPSpecs : s.id
    PROVE  Spec => []NoOrphanedDynatrace
  <1>1. Init => MonitorsKept /\ NoOrphanedDynatrace
    BY DEF Init, MonitorsKept, NoOrphanedDynatrace, LastRemoval
  <1>2. ASSUME HCPInv, MonitorsKept, NoOrphanedDynatrace, [Next]_vars
        PROVE  MonitorsKept' /\ NoOrphanedDynatrace'
    <2>1. MonitorsKept'  BY <1>2, MonitorsKeptKept DEF HCPInv
    <2>2. CASE RemoveFinalizer /\ Current
      <3>1. pc = "removeFinalizer" /\ dynatrace' = dynatrace  BY <2>2 DEF RemoveFinalizer
      <3>2. released' = "dynatrace" => work.cfg.url = "none" /\ work.client
        BY <2>2 DEF RemoveFinalizer
      <3>3. Monitored' = Monitored  BY <3>1 DEF Monitored
      <3> QED
        BY <1>2, <2>1, <3>1, <3>2, <3>3 DEF NoOrphanedDynatrace, MonitorsKept, LastRemoval
    <2>3. CASE ~(RemoveFinalizer /\ Current)
      <3>1. released' = released  BY <1>2, <2>3, ReleasedSteps
      <3>2. released = "dynatrace" => hcp = NoObj /\ pc \notin Deploying
        BY <1>2 DEF HCPInv, Copies, Vouched, Upkeep
      <3> QED  BY <1>2, <2>1, <3>1, <3>2, MonitorSteps DEF HCPInv, NoOrphanedDynatrace
    <2> QED  BY <2>2, <2>3
  <1>3. HCPInv /\ MonitorsKept /\ NoOrphanedDynatrace /\ [Next]_vars
          => (MonitorsKept /\ NoOrphanedDynatrace)'
    BY <1>2
  <1> QED  BY <1>1, <1>3, HCPInvariant, PTL DEF Spec

\* A young cluster is not taken for healthy before its health checks have passed since the
\* last failure on record, however far the cache is behind and whatever results are lost.
THEOREM HealthyAfterChecks == Spec => []HealthyAfterPasses
  <1>1. Init => Counted /\ HealthyAfterPasses
    BY HCPAssumption DEF Init, Counted, HealthyAfterPasses, Deploying
  <1>2. HCPInv /\ HCPInv' /\ Counted /\ HealthyAfterPasses /\ [Next]_vars
          => (Counted /\ HealthyAfterPasses)'
    BY CountedKept, HealthyKept DEF HCPInv
  <1> QED  BY <1>1, <1>2, HCPInvariant, PTL DEF Spec
=============================================================================
