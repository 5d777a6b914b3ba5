----------------------------- MODULE ChildCall -----------------------------
(***************************************************************************)
(* What a caller of ChildRunner::run may rely on, whatever the child and   *)
(* the processes it forks do: the call returns; no child outlives it; when *)
(* it returns a status, nothing of the child's process group is left, and  *)
(* a status of the child's own is not the effect of a signal of the        *)
(* runner.  ChildRunner is shown to implement this.                        *)
(***************************************************************************)

VARIABLES
    phase,    \* of the call: idle, active or returned
    fate,     \* of the child: none, running, own (ended by itself), ended
    group,    \* whether any process is in the group of the child
    outcome   \* what the call returned: exited, timed_out or err

callVars == <<phase, fate, group, outcome>>

Init == phase = "idle" /\ fate = "none" /\ group = FALSE /\ outcome = "none"

StartFails ==
    /\ phase = "idle"
    /\ phase' = "returned" /\ outcome' = "err"
    /\ UNCHANGED <<fate, group>>

Start ==
    /\ phase = "idle"
    /\ phase' = "active" /\ fate' = "running" /\ group' = TRUE
    /\ UNCHANGED outcome

\* The child dies, of its own or of a signal.
Dies(how) ==
    /\ fate = "running"
    /\ fate' = how
    /\ UNCHANGED <<phase, group, outcome>>

\* The last process of the group is gone: the child is one of them, and no
\* process joins a group that is empty.
GroupEmpties ==
    /\ group /\ fate # "running"
    /\ group' = FALSE
    /\ UNCHANGED <<phase, fate, outcome>>

Returns(o) ==
    /\ phase = "active"
    /\ fate # "running"
    /\ o # "err" => ~group
    /\ o = "exited" => fate = "own"
    /\ phase' = "returned" /\ outcome' = o
    /\ UNCHANGED <<fate, group>>

Next ==
    \/ StartFails
    \/ Start
    \/ \E how \in {"own", "ended"} : Dies(how)
    \/ GroupEmpties
    \/ \E o \in {"exited", "timed_out", "err"} : Returns(o)

SafeSpec == Init /\ [][Next]_callVars
Spec == SafeSpec /\ <>(phase = "returned")
=============================================================================
