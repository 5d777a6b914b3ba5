----------------------------- MODULE FuzzCase -----------------------------
(***************************************************************************)
(* The search and what comes after it: a sequence grows action by action,  *)
(* as a mutator may make it, and is given to the minimizer with the        *)
(* harness of an api as its evaluator.                                     *)
(***************************************************************************)
EXTENDS FuzzHarness

CONSTANTS
    MaxActions,   \* bound on the length of a sequence
    MaxIgnored    \* bound on its actions after the first one that is refused

ASSUME FuzzCaseAssumption == MaxActions \in Nat /\ MaxIgnored \in Nat

VARIABLES target, original, phase, current, index, trial, reduced

\* What minimize_actions tries in place of a SQL operation, in its order.
OtherOps(a) ==
    LET others == [insert |-> <<"update", "delete", "select_scalar">>,
                   update |-> <<"insert", "delete", "select_scalar">>,
                   delete |-> <<"insert", "update", "select_scalar">>,
                   select_scalar |-> <<"insert", "update", "delete">>]
    IN IF a.kind = "execute_sql"
       THEN [i \in 1..3 |-> Action("execute_sql", others[a.arg][i])]
       ELSE <<>>

M == INSTANCE FuzzMinimizer WITH
         Actions <- FuzzActions, Targets <- ApiKinds, Inputs <- {<<>>},
         Matches <- Reproduces, Replacements <- OtherOps

Extend(a) ==
    /\ phase = "start" /\ Len(original) < MaxActions
    /\ Len(original) < EffectiveActions(target, original) + MaxIgnored + 1
    /\ original' = Append(original, a)
    /\ UNCHANGED <<target, phase, current, index, trial, reduced>>

Next == (\E a \in FuzzActions : Extend(a)) \/ M!Next

Spec == M!Init /\ [][Next]_M!vars

-----------------------------------------------------------------------------
\* CorpusPolicy: a seed that the audit lets into the corpus, which looks at the
\* order of a few actions only, does not reach a primary objective in the
\* harness of either api.
SafeSeedsFindNothing == ~Audit(original).rejected => ~Reproduces(target, original)

\* The harness keeps SQLite and the wrapper of the connection together: what
\* SQLite calls is what the wrapper retains (update_hook.rs:277-279 expects it).
OnlyRetainedCalled == CallsRetained(Execute(target, original).trace)

\* Both, of every sequence the search may execute.
SearchIsSound == phase = "start" => SafeSeedsFindNothing /\ OnlyRetainedCalled

\* WitnessStages::from_sequence
Stages(s) ==
    \E i, j, k \in DOMAIN s :
        /\ i < j /\ j < k
        /\ s[i].kind = "register_borrowed" /\ s[j].kind = "end_owner_scope" /\ s[k].kind = "execute_sql"

\* What is archived of a finding: the sequence reproduces it, no single action
\* can go, also after the replacements, and it shows the three stages register,
\* end of the owner, later trigger.
MinimizedIsWitness ==
    /\ M!StillReproduces
    /\ M!RemovalsComplete
    /\ phase = "done" => M!OneMinimal(current) /\ Stages(current)
=============================================================================
