--------------------------- MODULE MonitorCommon ---------------------------
(***************************************************************************)
(* The helpers that the RouteMonitor and the ClusterUrlMonitor reconcilers *)
(* share: pkg/reconcile/common.go, pkg/util/finalizer/finalizer.go,        *)
(* pkg/consts/finalizer.go and the SLO parser of                           *)
(* api/v1alpha1/common_types.go.  Everything here is a pure operator on    *)
(* values; the reconcilers' modules say what is done with the results.     *)
(*                                                                         *)
(* A Go pointer argument that is assigned becomes a field of the result.   *)
(***************************************************************************)
EXTENDS Integers

CONSTANTS
    NoURL,   \* the empty status.routeURL
    NoSlo    \* the empty SloSpec{}

----------------------------------------------------------------------------
(* Finalizers.  The code turns the list into a set, so a set it is here.   *)

FinalizerKey     == "routemonitor/finalizer"
PrevFinalizerKey == "finalizer.routemonitor"
FinalizerKeys    == {FinalizerKey, PrevFinalizerKey}

HasFinalizer(o, key) == key \in o.fin

SetFinalizer(o, key) ==
    [changed |-> ~HasFinalizer(o, key), obj |-> [o EXCEPT !.fin = @ \cup {key}]]

DeleteFinalizer(o, key) ==
    [changed |-> HasFinalizer(o, key), obj |-> [o EXCEPT !.fin = @ \ {key}]]

WasDeleteRequested(o) == o.deleting

\* The phase of a monitor (module MonitorLife).
Phase(o) ==
    IF FinalizerKey \in o.fin
    THEN IF WasDeleteRequested(o) THEN "going" ELSE "kept"
    ELSE IF WasDeleteRequested(o) THEN "leaving" ELSE "open"

----------------------------------------------------------------------------
(* References kept in a monitor's status.  NoRef is NamespacedName{}.      *)

NoRef  == ""
NoErr  == ""
ErrNoHost                 == "ErrNoHost"
ErrInvalidSLO             == "ErrInvalidSLO"
ErrInvalidReferenceUpdate == "ErrInvalidReferenceUpdate"
MonitorErrors == {NoErr, ErrNoHost, ErrInvalidSLO}

\* Mutant of SetResourceReference: a reference is only ever filled.
FillResourceReference(ref, desired) ==
    [ref |-> IF ref = NoRef THEN desired ELSE ref, updated |-> ref = NoRef, err |-> NoErr]

\* Filling an empty reference and emptying a reference both report an update,
\* the second one even when the reference was empty already.
SetResourceReference(ref, desired) ==
    IF ref = NoRef \/ desired = NoRef
    THEN [ref |-> desired, updated |-> TRUE,  err |-> NoErr]
    ELSE [ref |-> ref,     updated |-> FALSE,
          err |-> IF ref = desired THEN NoErr ELSE ErrInvalidReferenceUpdate]

\* Mutant of SetErrorStatus: an error that stopped firing is not flushed.
SetErrorStatusOnce(status, err) ==
    IF status = NoErr /\ err # NoErr THEN [status |-> err,    changed |-> TRUE]
                                     ELSE [status |-> status, changed |-> FALSE]

\* Only the passage between "no error" and "some error" changes the status:
\* a second, different error does not replace the first.
SetErrorStatus(status, err) ==
    IF (status = NoErr) = (err = NoErr)
    THEN [status |-> status, changed |-> FALSE]
    ELSE [status |-> err,    changed |-> TRUE]

----------------------------------------------------------------------------
(* Service level objectives.  targetAvailabilityPercent is a decimal       *)
(* string: here it either does not parse or is a number of thousandths of  *)
(* a percent.  IsValid returns the availability as a fraction, which the   *)
(* code gets by a multiplication with 1/100: the same number of            *)
(* hundred-thousandths.                                                    *)

SloSpec    == [parses : BOOLEAN, pct : Int]
PctScale   == 1000
NoParsedSlo == -1

\* Mutant of IsValid: 100% is a valid objective.
IsValidClosed(slo) == slo.parses /\ 90 * PctScale < slo.pct /\ slo.pct <= 100 * PctScale

IsValid(slo) ==
    /\ slo.parses
    /\ 90 * PctScale < slo.pct
    /\ slo.pct < 100 * PctScale

ParseMonitorSLOSpecs(url, slo) ==
    IF url = NoURL           THEN [slo |-> NoParsedSlo, err |-> ErrNoHost]
    ELSE IF slo = NoSlo      THEN [slo |-> NoParsedSlo, err |-> NoErr]
    ELSE IF ~IsValid(slo)    THEN [slo |-> NoParsedSlo, err |-> ErrInvalidSLO]
    ELSE [slo |-> slo.pct, err |-> NoErr]
=============================================================================
