---------------------------- MODULE MonitorLife ----------------------------
(***************************************************************************)
(* What a monitor controller promises about one monitor name, without its  *)
(* caches, queues, revisions and failures.                                 *)
(*                                                                         *)
(* A monitor is "open" until the operator puts its finalizer on it, which  *)
(* makes it "kept"; a deletion request turns a kept monitor into a "going" *)
(* one, and only the operator's release lets that disappear.  "leaving" is *)
(* a monitor under deletion that others hold back.                         *)
(*                                                                         *)
(* Dependents may be missing at any time and may outlive the monitor: a    *)
(* user or the garbage collector removes them, and a crash leaves them     *)
(* half done.  What never happens is that one is put up or rewritten while *)
(* no finalizer protects it, that the finalizer goes before somebody asked *)
(* for the deletion, or that a monitor comes back from its deletion.       *)
(***************************************************************************)
CONSTANTS
    Dependents,  \* the objects the operator keeps for the monitor
    Missing      \* the value of a dependent that is not there

VARIABLES
    life,        \* the phase of the monitor
    deps         \* each dependent's contents

vars == <<life, deps>>

Phases == {"absent", "open", "kept", "going", "leaving"}

Init ==
    /\ life = "absent"
    /\ deps = [d \in Dependents |-> Missing]

Create  == life = "absent" /\ life' = "open" /\ UNCHANGED deps

Protect == life = "open" /\ life' = "kept" /\ UNCHANGED deps

RequestDeletion ==
    /\ \/ life = "open" /\ life' \in {"absent", "leaving"}
       \/ life = "kept" /\ life' = "going"
    /\ UNCHANGED deps

Release == life = "going" /\ life' \in {"absent", "leaving"} /\ UNCHANGED deps

Leave   == life = "leaving" /\ life' = "absent" /\ UNCHANGED deps

\* The new contents are left open: the detailed specifications choose them.
PutUp(d) ==
    /\ life \in {"kept", "going"} /\ UNCHANGED life
    /\ deps' = [deps EXCEPT ![d] = deps'[d]]

TakeDown(d) == deps' = [deps EXCEPT ![d] = Missing] /\ UNCHANGED life

Next ==
    \/ Create \/ Protect \/ RequestDeletion \/ Release \/ Leave
    \/ \E d \in Dependents : PutUp(d) \/ TakeDown(d)

Spec == Init /\ [][Next]_vars
=============================================================================
