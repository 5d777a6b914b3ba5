----------------------------- MODULE ForeignFlow -----------------------------
(***************************************************************************)
(* crates/bw-foreign-ir, within one function: the instructions its reader  *)
(* knows (ir.rs), where the values of a function come from, which pointers *)
(* point to a slot, and which blocks every returning path goes through     *)
(* (dataflow.rs).                                                          *)
(*                                                                         *)
(* An operand is a string: "null", a name that begins with @ for a symbol  *)
(* of the module, another name for a register.  A slot (bw-model, slot.rs) *)
(* is a sequence, the symbol or the struct type and then the field path.   *)
(* The type of what a getelementptr is applied to is abstracted to the     *)
(* struct type, or "bytes" for anything that does not begin with %.        *)
(***************************************************************************)
EXTENDS Naturals, Sequences, FiniteSets, SequencesExt, FiniteSetsExt

\* Inst and InstKind; args are the operands an instruction is found by, for a
\* kind without a reader of its own all the names in its text.
NoName == "none"
Inst(op, res, args) == [op |-> op, res |-> res, args |-> args, type |-> NoName, path |-> <<>>, to |-> <<>>]

Alloca(res)      == Inst("alloca", res, <<>>)
Store(v, dest)   == Inst("store", NoName, <<v, dest>>)
Load(res, src)   == Inst("load", res, <<src>>)
Cast(res, src)   == Inst("cast", res, <<src>>)
Call(args)       == Inst("call", NoName, args)
OtherOf(res, v)  == Inst("other", res, <<v>>)
Gep(res, base, type, path) == [Inst("gep", res, <<base>>) EXCEPT !.type = type, !.path = path]
Branch(to)       == [Inst("branch", NoName, <<>>) EXCEPT !.to = to]
Return(args)     == Inst("return", NoName, args)
Unreachable      == Inst("unreachable", NoName, <<>>)
UnsupportedTerminator == Inst("unsupported", NoName, <<>>)

Terminators == {"branch", "return", "unreachable", "unsupported"}
Symbols == {"@g", "@h", "@o", "@ext", "@llvm.dbg.declare", "@llvm.lifetime.start"}
IsLocal(x) == x \notin Symbols \cup {"null"}

\* Function: its parameters and its blocks, a sequence of instructions each.
\* The label of a block is its index; the first one has none.
AllInsts(f) ==
    LET upto[b \in 0..Len(f.blocks)] ==
            IF b = 0 THEN <<>>
            ELSE upto[b - 1] \o [i \in DOMAIN f.blocks[b] |-> [inst |-> f.blocks[b][i], block |-> b]]
    IN upto[Len(f.blocks)]

-----------------------------------------------------------------------------
(* Origins and slots. *)

Unknown == <<"unknown">>
NullOrigin == <<"null">>
Param(i) == <<"param", i>>
SlotLoad(slot) == <<"slot", slot>>
NoSlot == <<>>

IsNonEscapingIntrinsic(callee) == callee \in {"@llvm.dbg.declare", "@llvm.lifetime.start"}

\* build_use_index
UsesOf(insts, name) ==
    {k \in DOMAIN insts : LET args == insts[k].inst.args IN \E j \in DOMAIN args : args[j] = name}

\* Mutant: an alloca may be stored to more than once, the last one counts.
FindSpillAllocasLast(insts) ==
    LET StoresTo(a) == {k \in UsesOf(insts, a) : insts[k].inst.op = "store" /\ insts[k].inst.args[2] = a}
        names == {insts[k].inst.res : k \in {j \in DOMAIN insts : insts[j].inst.op = "alloca"}}
        spills == {a \in names :
                     /\ StoresTo(a) # {}
                     /\ \A k \in UsesOf(insts, a) \ StoresTo(a) :
                          \/ insts[k].inst.op = "load"
                          \/ insts[k].inst.op = "call" /\ IsNonEscapingIntrinsic(insts[k].inst.args[1])}
    IN [a \in spills |-> insts[Max(StoresTo(a))].inst.args[1]]

\* find_spill_allocas: what is stored in an alloca that is stored to once, and
\* otherwise only loaded from or handed to an intrinsic.
FindSpillAllocas(insts) ==
    LET StoresTo(a) == {k \in UsesOf(insts, a) : insts[k].inst.op = "store" /\ insts[k].inst.args[2] = a}
        names == {insts[k].inst.res : k \in {j \in DOMAIN insts : insts[j].inst.op = "alloca"}}
        spills == {a \in names :
                     /\ \E k \in StoresTo(a) : StoresTo(a) = {k}
                     /\ \A k \in UsesOf(insts, a) \ StoresTo(a) :
                          \/ insts[k].inst.op = "load"
                          \/ insts[k].inst.op = "call" /\ IsNonEscapingIntrinsic(insts[k].inst.args[1])}
    IN [a \in spills |-> insts[Max(StoresTo(a))].inst.args[1]]

\* The maps of FunctionFlow; a name without an entry is of unknown origin.
Origin(flow, x) ==
    IF x = "null" THEN NullOrigin
    ELSE IF IsLocal(x) /\ x \in DOMAIN flow.origins THEN flow.origins[x] ELSE Unknown

\* pointer_slot; `globals' are those of the module that are not constant.
PointerSlot(globals, flow, x) ==
    CASE x \in globals -> <<x>>
      [] x \in DOMAIN flow.slots -> flow.slots[x]
      [] OTHER -> NoSlot

\* is_caller_owned, and base_is_caller_owned for the base of a field.
IsCallerOwned(flow, x) == x \in Symbols \/ x \in flow.owned
BaseIsCallerOwned(flow, x) ==
    IsCallerOwned(flow, x) \/ (IsLocal(x) /\ Origin(flow, x)[1] = "param")

GepSlot(globals, flow, i) ==
    LET base == i.args[1] IN
    CASE base \in globals -> <<base>> \o i.path
      [] base \in DOMAIN flow.slots -> flow.slots[base] \o i.path
      [] IsLocal(base) /\ base \notin DOMAIN flow.slots /\ i.type # "bytes" -> <<i.type>> \o i.path
      [] OTHER -> NoSlot

LoadOrigin(globals, flow, src) ==
    IF src \in DOMAIN flow.spills THEN Origin(flow, flow.spills[src])
    ELSE LET slot == PointerSlot(globals, flow, src)
         IN IF slot = NoSlot THEN Unknown ELSE SlotLoad(slot)

Put(map, name, value) == [x \in DOMAIN map \cup {name} |-> IF x = name THEN value ELSE map[x]]
WithOrigin(flow, name, origin) == [flow EXCEPT !.origins = Put(@, name, origin)]
WithSlot(flow, name, slot) == IF slot = NoSlot THEN flow ELSE [flow EXCEPT !.slots = Put(@, name, slot)]
WithOwner(flow, name, base) ==
    IF BaseIsCallerOwned(flow, base) THEN [flow EXCEPT !.owned = @ \cup {name}] ELSE flow

\* One instruction of a round of solve.
Transfer(globals, flow, i) ==
    CASE i.res = NoName \/ i.op = "alloca" -> flow
      [] i.op = "gep" -> WithOwner(WithSlot(flow, i.res, GepSlot(globals, flow, i)), i.res, i.args[1])
      [] i.op = "cast" ->
           LET source == i.args[1]
               placed == WithOwner(WithSlot(flow, i.res, PointerSlot(globals, flow, source)), i.res, source)
           IN WithOrigin(placed, i.res, Origin(flow, source))
      [] i.op = "load" -> WithOrigin(flow, i.res, LoadOrigin(globals, flow, i.args[1]))
      [] OTHER -> WithOrigin(flow, i.res, Unknown)

Round(globals, insts, flow) ==
    LET after[k \in 0..Len(insts)] ==
            IF k = 0 THEN flow ELSE Transfer(globals, after[k - 1], insts[k].inst)
    IN after[Len(insts)]

\* Mutant: one round only.
SolveOnce(globals, insts, flow) == Round(globals, insts, flow)

\* solve: rounds until one changes nothing, at most one more than instructions.
Solve(globals, insts, flow) ==
    LET rounds[k \in 0..(Len(insts) + 1)] ==
            IF k = 0 THEN [flow |-> flow, done |-> FALSE]
            ELSE LET before == rounds[k - 1]
                     next == Round(globals, insts, before.flow)
                 IN IF before.done THEN before ELSE [flow |-> next, done |-> next = before.flow]
    IN rounds[Len(insts) + 1].flow

\* FunctionFlow::new
FlowOf(globals, f) ==
    LET insts == AllInsts(f)
    IN Solve(globals, insts,
             [origins |-> [p \in ToSet(f.params) |-> Param(CHOOSE i \in DOMAIN f.params : f.params[i] = p)],
              slots   |-> [n \in {} |-> NoSlot],
              spills  |-> FindSpillAllocas(insts),
              owned   |-> {}])

ParamAliases(flow, index) == {n \in DOMAIN flow.origins : flow.origins[n] = Param(index)}

-----------------------------------------------------------------------------
(* Paths. *)

\* Block::terminator
Terminator(block) ==
    IF block # <<>> /\ Last(block).op \in Terminators THEN Last(block) ELSE UnsupportedTerminator

\* block_index: the first block has no label.
Labels(f) == 2..Len(f.blocks)

Successors(f, b) == {t \in ToSet(Terminator(f.blocks[b]).to) : t \in Labels(f)}
Exits(f) == {b \in DOMAIN f.blocks : Terminator(f.blocks[b]).op = "return"}

CfgIncomplete(f) ==
    \/ Exits(f) = {}
    \/ \E b \in DOMAIN f.blocks : LET t == Terminator(f.blocks[b]) IN
           t.op = "unsupported" \/ ~(ToSet(t.to) \subseteq Labels(f))

\* blocks_reaching_exit
BlocksReachingExit(f) ==
    LET back[k \in 0..Len(f.blocks)] ==
            IF k = 0 THEN Exits(f)
            ELSE LET s == back[k - 1] IN s \cup {b \in DOMAIN f.blocks : Successors(f, b) \cap s # {}}
    IN back[Len(f.blocks)]

\* Mutant: a block is passed on every path if it is passed after some successor.
PostDominatorsUnion(f, live, pd, b) ==
    IF b \in Exits(f) \/ b \notin live THEN pd
    ELSE [pd EXCEPT ![b] = UNION {pd[s] : s \in Successors(f, b) \cap live} \cup {b}]

\* A block in a round of path_info: what is passed after every successor from
\* which the function can still return.
PostDominators(f, live, pd, b) ==
    LET next == Successors(f, b) \cap live
    IN IF b \in Exits(f) \/ b \notin live THEN pd
       ELSE [pd EXCEPT ![b] = {x \in DOMAIN f.blocks : \A s \in next : x \in pd[s]} \cup {b}]

\* A round of path_info, over the blocks from the last to the first.
PathRound(f, live, pd) ==
    LET n == Len(f.blocks)
        after[k \in 0..n] == IF k = 0 THEN pd ELSE PostDominators(f, live, after[k - 1], n + 1 - k)
    IN after[n]

\* path_info: the blocks on every path that returns, after one round more than
\* there are blocks.
OnEveryReturningPath(f) ==
    LET live == BlocksReachingExit(f)
        first == [b \in DOMAIN f.blocks |-> IF b \in Exits(f) THEN {b} ELSE DOMAIN f.blocks]
        rounds[k \in 0..(Len(f.blocks) + 1)] ==
            IF k = 0 THEN first ELSE PathRound(f, live, rounds[k - 1])
    IN IF Exits(f) = {} THEN {} ELSE rounds[Len(f.blocks) + 1][1]
=============================================================================
