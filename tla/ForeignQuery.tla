---------------------------- MODULE ForeignQuery ----------------------------
(***************************************************************************)
(* The queries of crates/bw-foreign-ir (query.rs) about one hand-off: into *)
(* which slots the registration stores the callback or its user data (Q1), *)
(* whether the clear entry clears all of them (Q4'), and whether anything  *)
(* calls what it reads from one of them (Q3).  The evidence the answers    *)
(* rest on is kept as sets; its text is left out.                          *)
(*                                                                         *)
(* A module is its mutable globals and its functions by name; the roles    *)
(* name the register and the clear entry ("none" if there is none) and the *)
(* parameters, 0 for the user data of an api that has none.                *)
(***************************************************************************)
EXTENDS ForeignFlow

IsDbg(callee) == callee = "@llvm.dbg.declare"

-----------------------------------------------------------------------------
(* Q1. *)

\* A use of `alias' in an instruction: it stores the alias where it outlives
\* the call, takes it out of the analysis, or neither.
StoredIn(globals, flow, alias, i) ==
    LET dest == i.args[2]
        slot == PointerSlot(globals, flow, dest)
    IN CASE slot # NoSlot /\ IsCallerOwned(flow, dest) -> "site"
         [] slot = NoSlot /\ dest \in DOMAIN flow.spills -> "harmless"
         [] OTHER -> "escape"

\* Mutant: pointer arithmetic is taken for a use that is tracked.
UseOfTrackedGep(globals, flow, callback, alias, i) ==
    CASE i.op = "store" /\ i.args[1] = alias -> StoredIn(globals, flow, alias, i)
      [] i.op = "store" /\ i.args[1] # alias -> "harmless"
      [] i.op \in {"load", "cast", "compare", "gep"} -> "harmless"
      [] i.op = "call" ->
           IF \/ i.args[1] = alias
              \/ IsDbg(i.args[1])
              \/ Origin(flow, i.args[1]) = Param(callback) /\ alias \in ToSet(Tail(i.args))
           THEN "harmless" ELSE "escape"
      [] OTHER -> "escape"

\* trace_param: the match over the instructions that use an alias.
UseOf(globals, flow, callback, alias, i) ==
    CASE i.op = "store" /\ i.args[1] = alias -> StoredIn(globals, flow, alias, i)
      [] i.op = "store" /\ i.args[1] # alias -> "harmless"
      [] i.op \in {"load", "cast", "compare"} -> "harmless"
      [] i.op = "call" ->
           IF \/ i.args[1] = alias
              \/ IsDbg(i.args[1])
              \/ Origin(flow, i.args[1]) = Param(callback) /\ alias \in ToSet(Tail(i.args))
           THEN "harmless" ELSE "escape"
      [] OTHER -> "escape"

Uses(insts, flow, index) ==
    UNION {{<<a, k>> : k \in UsesOf(insts, a)} : a \in ParamAliases(flow, index)}

\* What trace_param finds for all subjects: the sites, and whether one escaped.
TraceParams(globals, f, flow, roles) ==
    LET insts == AllInsts(f)
        subjects == {i \in {roles.callback, roles.userdata} : i # 0}
        missing == {i \in subjects : i \notin DOMAIN f.params}
        found == UNION {Uses(insts, flow, i) : i \in subjects \ missing}
        Is(kind) == {u \in found :
                        UseOf(globals, flow, roles.callback, u[1], insts[u[2]].inst) = kind}
    IN [sites   |-> {[slot |-> PointerSlot(globals, flow, insts[u[2]].inst.args[2]),
                      every |-> insts[u[2]].block \in OnEveryReturningPath(f)] : u \in Is("site")},
        escaped |-> missing # {} \/ Is("escape") # {}]

-----------------------------------------------------------------------------
(* Q4'. *)

\* SlotClearEvidence, from the weakest to the strongest (clear_strength).
ClearEvidence == <<"not_written", "some_paths", "unresolved_value", "argument", "null">>

\* The evidence of one store of the clear entry.
EvidenceOf(f, flow, roles, e) ==
    LET origin == Origin(flow, e.inst.args[1]) IN
    IF e.block \notin OnEveryReturningPath(f) THEN 2
    ELSE CASE origin = NullOrigin -> 5
           [] origin \in {Param(roles.callback), Param(roles.userdata)} -> 4
           [] OTHER -> 3

\* The strongest evidence there is of a slot.
SlotClear(globals, f, flow, roles, slot) ==
    LET insts == AllInsts(f)
        stores == {k \in DOMAIN insts : /\ insts[k].inst.op = "store"
                                        /\ PointerSlot(globals, flow, insts[k].inst.args[2]) = slot}
    IN Max({1} \cup {EvidenceOf(f, flow, roles, insts[k]) : k \in stores})

\* Mutant: a slot that is cleared on some paths counts as cleared.
AnalyzeClearSomePaths(globals, functions, flows, roles, slots) ==
    IF roles.clear \notin DOMAIN functions \/ slots = {} \/ CfgIncomplete(functions[roles.clear])
    THEN "unresolved"
    ELSE LET f == functions[roles.clear]
             of == [s \in slots |-> SlotClear(globals, f, flows[roles.clear], roles, s)]
         IN CASE \E s \in slots : of[s] = 1 -> "may_leave_slot_populated"
              [] \A s \in slots : of[s] # 3 -> "clears_on_all_paths"
              [] OTHER -> "unresolved"

\* analyze_clear
AnalyzeClear(globals, functions, flows, roles, slots) ==
    IF roles.clear \notin DOMAIN functions \/ slots = {} \/ CfgIncomplete(functions[roles.clear])
    THEN "unresolved"
    ELSE LET f == functions[roles.clear]
             of == [s \in slots |-> SlotClear(globals, f, flows[roles.clear], roles, s)]
         IN CASE \E s \in slots : of[s] = 1 -> "may_leave_slot_populated"
              [] \A s \in slots : of[s] \in {4, 5} -> "clears_on_all_paths"
              [] OTHER -> "unresolved"

-----------------------------------------------------------------------------
(* Q3. *)

\* Calls of a register whose value has the origin.
CallsThrough(f, flow, origins) ==
    \E e \in ToSet(AllInsts(f)) :
        e.inst.op = "call" /\ IsLocal(e.inst.args[1]) /\ Origin(flow, e.inst.args[1]) \in origins

\* find_same_slot_invokes
SameSlotInvoke(functions, flows, slots) ==
    \E n \in DOMAIN functions :
        CallsThrough(functions[n], flows[n], {SlotLoad(s) : s \in slots})

-----------------------------------------------------------------------------
\* ForeignAnalysis::unresolved
UnresolvedAnalysis ==
    [retention |-> "unresolved", invocation |-> "unresolved", clear |-> "unresolved",
     path |-> "unresolved", invokeEvidence |-> "none", slots |-> {}]

\* analyze; `flows' are those of the functions, by name.
Analyze(globals, functions, flows, roles) ==
    IF roles.register \notin DOMAIN functions THEN UnresolvedAnalysis
    ELSE
    LET f == functions[roles.register]
        flow == flows[roles.register]
        q1 == TraceParams(globals, f, flow, roles)
        slots == {s.slot : s \in q1.sites}
        late == SameSlotInvoke(functions, flows, slots)
        synchronous == CallsThrough(f, flow, {Param(roles.callback)})
    IN [retention |-> CASE q1.sites # {} -> "may_retain"
                        [] q1.sites = {} /\ q1.escaped -> "unresolved"
                        [] OTHER -> "no_retain",
        invocation |-> CASE late -> "may_invoke_after_return"
                         [] ~late /\ synchronous /\ slots = {} /\ ~q1.escaped -> "synchronous_only"
                         [] OTHER -> "unresolved",
        clear |-> AnalyzeClear(globals, functions, flows, roles, slots),
        path |-> CASE CfgIncomplete(f) \/ q1.sites = {} -> "unresolved"
                   [] ~CfgIncomplete(f) /\ q1.sites # {} /\ (\A s \in q1.sites : s.every) -> "retain_on_every_path"
                   [] OTHER -> "retain_on_some_paths",
        invokeEvidence |-> IF late THEN "same_slot_invoke_candidate" ELSE "none",
        slots |-> slots]
=============================================================================
