------------------------------ MODULE CrateFacts ------------------------------
(***************************************************************************)
(* What the compiler driver finds out about a hand-off, that is a function *)
(* of a Rust crate with a callback parameter: what the parameter is bound  *)
(* by, what the value that is returned protects, who frees the allocation, *)
(* whether safe code outside the crate gets there, and which foreign       *)
(* symbol is called in the end (rustc_api/mir.rs, collect_mir_sites).      *)
(*                                                                         *)
(* A crate is a sequence of functions.  A function is a record of          *)
(*   entry      it is exported and not an unsafe fn                        *)
(*   calls      [via, to]; via is direct, pointer, or dispatch if the call *)
(*              names a trait method (of a trait object, a generic or a    *)
(*              closure) or is a drop, so that the body is found elsewhere *)
(*   extern     calls of foreign functions: [symbol, args], each argument  *)
(*              by its type: fn, raw or other                              *)
(*   transfers  [kind, of]: into_raw, from_raw, from_raw_parts             *)
(*   generics   by name, for a type parameter: [callable, bounds], the     *)
(*              sequence of the lifetimes it has to outlive                *)
(*   objects    by name, for an argument with a callable trait object in   *)
(*              it: [under, lifetime]; under is what it is in, from the    *)
(*              outside, each a <<"ref", lifetime>>, <<"box">>, <<"other">>*)
(*   declared, receiver, returned   lifetimes: declared by the function,   *)
(*              of its first argument, of its return type                  *)
(*   guard      the return type: [adt, drop, mir, calls], with calls of    *)
(*              "rust" and foreign functions                               *)
(* and parameters are told apart by name.                                  *)
(***************************************************************************)
EXTENDS Naturals, Sequences, SequencesExt, FiniteSetsExt

-----------------------------------------------------------------------------
(* The bound of a callback. *)

LifetimeScope(f, lifetime) ==
    CASE lifetime = "static" -> "static"
      [] lifetime \in f.declared \cap f.receiver -> "receiver_lifetime"
      [] lifetime \in f.declared \ f.receiver -> "free_lifetime"
      [] OTHER -> "unresolved"

\* callback_bound_scope_from_bounds: the first declared lifetime counts more than
\* 'static, one that is not declared by the function does not count.
BoundScope(f, bounds) ==
    LET declared == {k \in DOMAIN bounds : bounds[k] \in f.declared} IN
    CASE declared # {} -> LifetimeScope(f, bounds[Min(declared)])
      [] declared = {} /\ "static" \in ToSet(bounds) -> "static"
      [] OTHER -> "no_bound"

\* The lifetime of a trait object; if it is elided, it depends on what it is in.
ObjectLifetime(o) ==
    CASE o.lifetime # "elided" -> o.lifetime
      [] o.lifetime = "elided" /\ o.under # <<>> /\ Last(o.under)[1] = "ref" -> Last(o.under)[2]
      [] o.lifetime = "elided" /\ o.under # <<>> /\ Last(o.under)[1] = "box" -> "static"
      [] OTHER -> "unknown"

GenericCallbacks(f) == {p \in DOMAIN f.generics : f.generics[p].callable}
Callbacks(f) == GenericCallbacks(f) \cup DOMAIN f.objects

\* callback_lifetime_bounds
CallbackBound(f, p) ==
    IF p \in DOMAIN f.objects THEN LifetimeScope(f, ObjectLifetime(f.objects[p]))
                              ELSE BoundScope(f, f.generics[p].bounds)

-----------------------------------------------------------------------------
(* The guard and the allocation, of the type parameters only. *)

BoundLifetimes(f, p) == ToSet(f.generics[p].bounds) \cap f.declared

\* adt_drop_foreign_call, and what registration_guards makes of it.
GuardOfDrop(g) ==
    CASE ~g.adt -> "unresolved"
      [] g.adt /\ ~g.drop -> "none"
      [] g.adt /\ g.drop /\ ~g.mir -> "unresolved"
      [] g.adt /\ g.drop /\ g.mir /\ g.calls \ {"rust"} # {} -> "ties_slot_to_subject"
      [] g.adt /\ g.drop /\ g.mir /\ g.calls = {} -> "none"
      [] OTHER -> "unresolved"

\* registration_guards
RegistrationGuard(f, p) ==
    LET returned == f.returned \cap f.declared
        bound == BoundLifetimes(f, p)
    IN CASE p \notin GenericCallbacks(f) -> "absent"
         [] p \in GenericCallbacks(f) /\ returned = {} -> "none"
         [] p \in GenericCallbacks(f) /\ returned # {} /\ bound = {} -> "unresolved"
         [] p \in GenericCallbacks(f) /\ returned \cap bound # {} -> GuardOfDrop(f.guard)
         [] OTHER -> "none"

\* allocation_ownerships
Transferred(f, kinds) == {t.of : t \in {u \in f.transfers : u.kind \in kinds}}
AllocationOwnership(f, p) ==
    LET given == Transferred(f, {"into_raw"})
        taken == Transferred(f, {"from_raw", "from_raw_parts"})
    IN CASE p \notin GenericCallbacks(f) -> "absent"
         [] p \in GenericCallbacks(f) /\ Cardinality(GenericCallbacks(f)) > 1 -> "unresolved"
         [] GenericCallbacks(f) = {p} /\ given \cap taken # {} -> "may_free_early"
         [] GenericCallbacks(f) = {p} /\ given # {} /\ taken = {} -> "foreign_owned"
         [] OTHER -> "unresolved"

-----------------------------------------------------------------------------
(* The call graph. *)

\* crate_call_graph: a call that names a function makes an edge to what it names,
\* and only one through a pointer makes the graph incomplete.
Callees(crate, n) == {e.to : e \in {x \in crate[n].calls : x.via = "direct"}}
GraphComplete(crate) == \A n \in DOMAIN crate : \A e \in crate[n].calls : e.via # "pointer"

Callers(crate, S) == {n \in DOMAIN crate : Callees(crate, n) \cap S # {}}

\* From caller to caller, with the function itself.
Above(crate, n) ==
    LET after[k \in 0..Len(crate)] ==
            IF k = 0 THEN {n} ELSE LET seen == after[k - 1] IN seen \cup Callers(crate, seen)
    IN after[Len(crate)]

\* Mutant: the call graph is taken to be complete.
SafeEntryLineageUnlessFound(crate, n) ==
    LET above == Above(crate, n) IN
    CASE crate[n].entry -> "direct"
      [] ~crate[n].entry /\ \E m \in above : crate[m].entry -> "reachable"
      [] OTHER -> "no_public_safe_entry"

\* safe_entry_lineages, with nearest_public_safe_caller: the search goes from caller
\* to caller, and only a negative answer needs a complete graph.
SafeEntryLineage(crate, n) ==
    LET above == Above(crate, n) IN
    CASE crate[n].entry -> "direct"
      [] ~crate[n].entry /\ \E m \in above : crate[m].entry -> "reachable"
      [] (\A m \in above : ~crate[m].entry) /\ GraphComplete(crate) -> "no_public_safe_entry"
      [] OTHER -> "unresolved"

-----------------------------------------------------------------------------
(* The foreign symbol. *)

\* foreign_callback_calls: the first function pointer, and the first raw pointer
\* behind it, zero for none; a call without a function pointer is not one.
RolesOf(args) ==
    LET First(type, after) == {i \in DOMAIN args : args[i] = type /\ i > after}
        callback == First("fn", 0)
        userdata == First("raw", Min(callback))
    IN [callback |-> Min(callback), userdata |-> IF userdata = {} THEN 0 ELSE Min(userdata)]
ForeignCallbackCalls(f) ==
    {[symbol |-> x.symbol, roles |-> RolesOf(x.args)] : x \in {y \in f.extern : "fn" \in ToSet(y.args)}}

MaxHops == 3

\* nearest_foreign_callback_calls: the calls of the nearest functions that make any.
NearestForeignCallbackCalls(crate, n) ==
    LET Search(s, hop) ==
            LET found == UNION {ForeignCallbackCalls(crate[m]) : m \in s.frontier}
                next == (UNION {Callees(crate, m) : m \in s.frontier}) \ s.seen
            IN IF s.found # {} THEN s
               ELSE [found |-> found, frontier |-> next, seen |-> s.seen \cup next]
    IN FoldLeft(Search, [found |-> {}, frontier |-> {n}, seen |-> {n}],
                [hop \in 1..(MaxHops + 1) |-> hop]).found

\* foreign_symbol_bindings: one call, or one kind of call; none or several is no symbol.
ForeignSymbolBinding(crate, n) ==
    LET calls == NearestForeignCallbackCalls(crate, n) IN
    IF Cardinality(calls) = 1 THEN CHOOSE c \in calls : TRUE
    ELSE [symbol |-> "unresolved", roles |-> [callback |-> 0, userdata |-> 0]]

-----------------------------------------------------------------------------
(* All of it, as the contract is assembled from. *)

Promise(crate, n, p) ==
    [bound |-> CallbackBound(crate[n], p), guard |-> RegistrationGuard(crate[n], p),
     allocation |-> AllocationOwnership(crate[n], p), lineage |-> SafeEntryLineage(crate, n),
     symbol |-> ForeignSymbolBinding(crate, n).symbol]

HandOffsOf(crate) == UNION {{<<n, p>> : p \in Callbacks(crate[n])} : n \in DOMAIN crate}
SitesOf(crate, symbol) == Cardinality({h \in HandOffsOf(crate) : ForeignSymbolBinding(crate, h[1]).symbol = symbol})
=============================================================================
