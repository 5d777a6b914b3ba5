--------------------------- MODULE FuzzMinimizer ---------------------------
(***************************************************************************)
(* minimize_actions of crates/bw-experiment/src/fuzz/minimize.rs, for any  *)
(* evaluator: actions are removed one at a time, from the beginning again  *)
(* after each that could go; then each SQL operation is replaced by the    *)
(* first other one that still reproduces the target.  An evaluation of a   *)
(* candidate, with what follows from it, is one step.                      *)
(***************************************************************************)
EXTENDS Naturals, Sequences, SequencesExt

CONSTANTS
    Actions,          \* the actions a sequence is made of
    Targets,          \* what a minimization may be asked to preserve
    Inputs,           \* the sequences it may be given
    Matches(_, _),    \* whether what the evaluator says of a sequence is the target
    Replacements(_)   \* what may take the place of an action, in order of trial

VARIABLES
    target, original,  \* the arguments of minimize_actions
    phase,             \* start, removing, replacing, done; refused for an Err
    current,           \* the sequence as far as it is minimized
    index,             \* the action that is tried next
    trial,             \* replacing: the replacement that is tried next
    reduced            \* history: the sequence at the end of the removals

vars == <<target, original, phase, current, index, trial, reduced>>

Phases == {"start", "removing", "replacing", "done", "refused"}

Init ==
    /\ target \in Targets
    /\ original \in Inputs
    /\ phase = "start"
    /\ current = <<>> /\ reduced = <<>>
    /\ index = 1 /\ trial = 1

\* The sequence itself must reproduce the target.
Start ==
    /\ phase = "start"
    /\ IF Matches(target, original)
       THEN phase' = "removing" /\ current' = original
       ELSE phase' = "refused" /\ UNCHANGED current
    /\ UNCHANGED <<target, original, index, trial, reduced>>

\* Mutant: goes on with the next action instead of starting again.
TryRemovalOnward ==
    /\ phase = "removing" /\ index <= Len(current)
    /\ IF Matches(target, RemoveAt(current, index))
       THEN current' = RemoveAt(current, index) /\ UNCHANGED index
       ELSE index' = index + 1 /\ UNCHANGED current
    /\ UNCHANGED <<target, original, phase, trial, reduced>>

TryRemoval ==
    /\ phase = "removing" /\ index <= Len(current)
    /\ IF Matches(target, RemoveAt(current, index))
       THEN current' = RemoveAt(current, index) /\ index' = 1
       ELSE index' = index + 1 /\ UNCHANGED current
    /\ UNCHANGED <<target, original, phase, trial, reduced>>

\* A round without a change ends the removals.
EndRemovals ==
    /\ phase = "removing" /\ index > Len(current)
    /\ phase' = "replacing" /\ index' = 1 /\ reduced' = current
    /\ UNCHANGED <<target, original, current, trial>>

Replaced(n) == ReplaceAt(current, index, Replacements(current[index])[n])

TryReplacement ==
    /\ phase = "replacing" /\ index <= Len(current)
    /\ trial <= Len(Replacements(current[index]))
    /\ IF Matches(target, Replaced(trial))
       THEN current' = Replaced(trial) /\ index' = index + 1 /\ trial' = 1
       ELSE trial' = trial + 1 /\ UNCHANGED <<current, index>>
    /\ UNCHANGED <<target, original, phase, reduced>>

NextAction ==
    /\ phase = "replacing" /\ index <= Len(current)
    /\ trial > Len(Replacements(current[index]))
    /\ index' = index + 1 /\ trial' = 1
    /\ UNCHANGED <<target, original, phase, current, reduced>>

Finish ==
    /\ phase = "replacing" /\ index > Len(current)
    /\ phase' = "done"
    /\ UNCHANGED <<target, original, current, index, trial, reduced>>

Next == Start \/ TryRemoval \/ EndRemovals \/ TryReplacement \/ NextAction \/ Finish

Spec == Init /\ [][Next]_vars

-----------------------------------------------------------------------------
OneMinimal(s) == \A i \in DOMAIN s : ~Matches(target, RemoveAt(s, i))

\* minimize_actions: at every moment the sequence reproduces the target, and it
\* never gets longer than the one it was given.
StillReproduces ==
    phase \in {"removing", "replacing", "done"} =>
        Matches(target, current) /\ Len(current) <= Len(original)

\* The removals end with a sequence of which no single action can go, although
\* what can go changes with every action that does.
RemovalsComplete ==
    phase \in {"replacing", "done"} =>
        Matches(target, reduced) /\ OneMinimal(reduced) /\ Len(current) = Len(reduced)
=============================================================================
