---------------------------- MODULE Compatibility ----------------------------
(***************************************************************************)
(* The relation of crates/bw-model between what a safe Rust api promises   *)
(* of a callback and what the foreign component does with it: the contract *)
(* assembled from the static facts, the exact join of the two sides        *)
(* (joint.rs) and the verdict (compatibility.rs), for each of the two      *)
(* things that have to live long enough, what the callback borrows and the *)
(* allocation it is in.  The assumptions the code writes down beside the   *)
(* verdict are left out.                                                   *)
(***************************************************************************)
EXTENDS Naturals, FiniteSets

Subjects == {"referent", "allocation"}

-----------------------------------------------------------------------------
(* The contract. *)

\* effective_capture_admission, of the bound the callback is declared with.
EffectiveCaptureAdmission(bound) ==
    CASE bound \in {"receiver_lifetime", "free_lifetime", "no_bound"} -> "permits_borrow"
      [] bound = "static" -> "requires_static"
      [] OTHER -> "unresolved"

\* assemble_rust_contract_facts: what is missing of the contract of a hand-off;
\* a fact that was not found is "absent".
Gaps(parts) ==
    {g \in {"bound", "guard", "allocation"} : parts[g] = "absent"}
    \cup (IF parts.lineage \in {"direct", "reachable"} THEN {} ELSE {"lineage"})
    \cup (IF parts.symbol \in {"absent", "unresolved"} THEN {"symbol"} ELSE {})

\* The generation, by the number of hand-offs that register with the symbol.
Generation(sites) ==
    CASE sites = 1 -> "unique_site" [] sites > 1 -> "multiple_sites" [] OTHER -> "unresolved"

Contract(parts, key, sites) ==
    [key |-> key, generation |-> Generation(sites), admission |-> EffectiveCaptureAdmission(parts.bound),
     guard |-> parts.guard, allocation |-> parts.allocation]

-----------------------------------------------------------------------------
(* The join. *)

\* What both half keys have: profile, symbol, roles of the parameters and slot key.
KeyFields == {"profile", "symbol", "callback", "userdata", "slotKey"}
JoinsWith(rust, foreign) == \A k \in KeyFields : rust[k] = foreign[k]

\* join_hand_off: every reason there is to reject.
Rejections(rust, foreign, slots) ==
    {k \in KeyFields : rust.key[k] # foreign.key[k]}
    \cup (IF rust.generation = "unresolved" THEN {"generation"} ELSE {})
    \cup (IF slots = {} /\ foreign.retention # "no_retain" THEN {"slots"} ELSE {})

-----------------------------------------------------------------------------
(* The verdict.  A foreign fact, or none, is a sequence of length 0 or 1.  *)

\* Mutant: a static bound is taken to keep the allocation alive too.
ByShapeStaticDenies(rust, subject) ==
    CASE rust.admission = "requires_static" -> "denied"
      [] subject = "referent" /\ rust.admission = "permits_borrow" -> "possible"
      [] subject = "allocation" /\ rust.allocation = "foreign_owned" -> "denied"
      [] subject = "allocation" /\ rust.allocation = "may_free_early" -> "possible"
      [] OTHER -> "unresolved"

\* The first step of safe_lifetime_separation_possible: what the types deny.
ByShape(rust, subject) ==
    CASE subject = "referent" /\ rust.admission = "requires_static" -> "denied"
      [] subject = "referent" /\ rust.admission = "permits_borrow" -> "possible"
      [] subject = "allocation" /\ rust.allocation = "foreign_owned" -> "denied"
      [] subject = "allocation" /\ rust.allocation = "may_free_early" -> "possible"
      [] OTHER -> "unresolved"

IsGuard(guard) == guard \in {"ties_slot_to_subject", "owner_drop_unregisters"}
Says(foreign, field, value) == foreign # <<>> /\ foreign[1][field] = value

GuardDefeated(rust, foreign, subject) ==
    /\ ByShape(rust, subject) # "denied"
    /\ IsGuard(rust.guard) /\ Says(foreign, "clear", "may_leave_slot_populated")

\* safe_lifetime_separation_possible: the types, then the guard, which is as good
\* as the foreign function it calls.
Separation(rust, foreign, subject) ==
    LET shape == ByShape(rust, subject) IN
    CASE shape = "denied" -> "denied"
      [] shape # "denied" /\ IsGuard(rust.guard) /\ Says(foreign, "clear", "clears_on_all_paths") -> "denied"
      [] rust.guard = "none" \/ GuardDefeated(rust, foreign, subject) -> shape
      [] OTHER -> "unresolved"

\* foreign_late_use_possible
LateUse(foreign) ==
    CASE \/ Says(foreign, "retention", "no_retain")
         \/ Says(foreign, "invocation", "synchronous_only") -> "denied"
      [] /\ Says(foreign, "retention", "may_retain")
         /\ Says(foreign, "invocation", "may_invoke_after_return") -> "possible"
      [] OTHER -> "unresolved"

\* judge; a fact of another hand-off is not looked at.
Judge(rust, facts, subject) ==
    LET foreign == IF facts # <<>> /\ ~JoinsWith(rust.key, facts[1].key) THEN <<>> ELSE facts
        separation == Separation(rust, foreign, subject)
        late == LateUse(foreign)
        denied == "denied" \in {separation, late}
        both == separation = "possible" /\ late = "possible"
        evidence == IF foreign = <<>> THEN "none" ELSE foreign[1].invokeEvidence
        candidate == evidence = "same_slot_invoke_candidate"
        every == Says(foreign, "path", "retain_on_every_path")
        defeated == GuardDefeated(rust, foreign, subject)
    IN [verdict |-> CASE denied -> "compatible"
                      [] both /\ ~candidate /\ every -> "incompatible"
                      [] OTHER -> "insufficient",
        grade |-> CASE defeated -> "guard_defeated"
                    [] denied /\ ~defeated -> "none"
                    [] OTHER -> evidence,
        obligation |-> CASE both /\ candidate -> "establish_late_invoke"
                         [] both /\ ~candidate /\ ~every -> "establish_joint_trace"
                         [] OTHER -> "none"]

\* judge_hand_off
JudgeHandOff(rust, fact) == [x \in Subjects |-> Judge(rust, fact, x)]
=============================================================================
