------------------------------- MODULE HandOff -------------------------------
(***************************************************************************)
(* What the verdict on a hand-off is worth: a small foreign module is      *)
(* written instruction by instruction, it is analysed (ForeignQuery), as   *)
(* is the crate that calls it (CrateFacts), both are judged against each   *)
(* other (Compatibility), and then they run, under a client that does all  *)
(* the crate lets safe code do.                                            *)
(*                                                                         *)
(* Writing and running stand for the component that is analysed, C code    *)
(* and its Rust binding; Analysed is what the code of the repository does  *)
(* with it.                                                                *)
(***************************************************************************)
EXTENDS ForeignQuery

Rust == INSTANCE Compatibility
Driver == INSTANCE CrateFacts

CONSTANTS
    Scenarios,   \* which functions are written, with which instructions, by name
    MaxBlocks    \* blocks a call goes through before it is given up

Globals == {"@g", "@h", "@o"}
Params == <<"cb", "ud", "conn">>

-----------------------------------------------------------------------------
(* What may be written: `known' are the names there are, with their types, *)
(* value, cell, object, or holder of an object.                            *)

Locals == {"%1", "%2", "%3", "%4", "%5", "%6", "%7", "%8"}
TypeOfName ==
    [n \in Globals \cup ToSet(Params) |->
        CASE n \in {"cb", "ud"} -> "value" [] n = "conn" -> "object" [] n = "@o" -> "holder" [] OTHER -> "cell"]
Typed(known, type) == {n \in DOMAIN known : known[n] = type}

\* The instructions of each kind that fit the names there are.
Fitting(known, op, new) ==
    LET Value == Typed(known, "value")
        Cell == Typed(known, "cell")
    IN CASE op = "alloca"  -> {Alloca(new)}
         [] op = "store"   -> {Store(v, d) : v \in Value \cup {"null"}, d \in Cell}
         [] op = "load"    -> {Load(new, d) : d \in Cell \cup Typed(known, "holder")}
         [] op = "field"   -> {Gep(new, o, "S", <<"f">>) : o \in Typed(known, "object")}
         [] op = "offset"  -> {Gep(new, v, "bytes", <<"1">>) : v \in Value}
         [] op = "cast"    -> {Cast(new, x) : x \in Value \cup Cell}
         [] op = "other"   -> {OtherOf(new, x) : x \in Value \cup Cell}
         [] op = "invoke"  -> {Call(<<v, w>>) : v \in Value, w \in Value}
         [] op = "escape"  -> {Call(<<"@ext", x>>) : x \in Value \cup Cell}
         [] op = "declare" -> {Call(<<"@llvm.dbg.declare", x>>) : x \in Cell}
AllOps == {"alloca", "store", "load", "field", "offset", "cast", "other", "invoke", "escape", "declare"}

\* The type of what an instruction makes.
Made(known, i) ==
    CASE i.op = "alloca" \/ (i.op = "gep" /\ i.type = "S") -> "cell"
      [] i.op = "load" /\ known[i.args[1]] = "holder" -> "object"
      [] i.op = "load" /\ known[i.args[1]] = "cell" -> "value"
      [] OTHER -> known[i.args[1]]

Fits(known, i) ==
    /\ \E op \in AllOps, new \in Locals : i \in Fitting(known, op, new)
    /\ i.res # NoName => i.res \in DOMAIN known \cap Locals /\ known[i.res] = Made(known, i)

\* How a block ends; it is left to a block there is.
Ends(known, blocks, i) ==
    /\ i.op \in Terminators /\ i.res = NoName
    /\ ToSet(i.to) \subseteq blocks
    /\ ToSet(i.args) \subseteq Typed(known, "value") \cup Typed(known, "cell")

\* Parts to write a function from are well typed, and assign a name once.
IsPart(part) ==
    LET known == part.types IN
    /\ DOMAIN known \subseteq DOMAIN TypeOfName \cup Locals
    /\ \A n \in DOMAIN known \cap DOMAIN TypeOfName : known[n] = TypeOfName[n]
    /\ part.ops \subseteq AllOps
    /\ Len(part.prologue) \in Nat /\ DOMAIN part.prologue = 1..Len(part.prologue)
    /\ \A k \in DOMAIN part.prologue : Fits(known, part.prologue[k])
    /\ \A j, k \in DOMAIN part.prologue :
          part.prologue[j].res = part.prologue[k].res => j = k \/ part.prologue[j].res = NoName
    /\ \A shape \in part.shapes :
          /\ Len(shape) \in Nat \ {0} /\ DOMAIN shape = 1..Len(shape)
          /\ \A b \in DOMAIN shape : Ends(known, DOMAIN shape, shape[b])

\* A function of a crate: it is an entry or not, calls functions of the crate, and
\* tells its parameters apart.
IsFunction(f, callees) ==
    /\ f.entry \in BOOLEAN /\ \A e \in f.calls : e.to \in callees
    /\ \A t \in f.transfers : t.kind \in {"into_raw", "from_raw", "from_raw_parts"}
    /\ DOMAIN f.generics \cap DOMAIN f.objects = {}
    /\ \A p \in DOMAIN f.generics :
          Len(f.generics[p].bounds) \in Nat /\ DOMAIN f.generics[p].bounds = 1..Len(f.generics[p].bounds)

\* What is written is well typed, and a crate consists of such functions, the first of
\* which is there.
ASSUME HandOffAssumption ==
    \A s \in DOMAIN Scenarios :
        /\ IsPart(Scenarios[s].register)
        /\ Scenarios[s].clear = <<>> \/ IsPart(Scenarios[s].clear[1])
        /\ \A c \in Scenarios[s].crates :
              /\ Len(c.fns) \in Nat \ {0} /\ DOMAIN c.fns = 1..Len(c.fns)
              /\ \A n \in DOMAIN c.fns : IsFunction(c.fns[n], DOMAIN c.fns)

VARIABLES
    scenario,
    crate,       \* the functions of the crate, the first one is the hand-off, and its callback
    text,        \* the functions, by role
    role,        \* the function that is being written, "client" when all are
    todo,        \* its blocks that are still to be written, in this order
    types,       \* the names it may use
    flows, analysis, verdict,
    frame,       \* the call in progress, a sequence of length 0 or 1
    memory,      \* what is where, by address
    given,       \* what unknown code has been handed
    guard,       \* none, held, dropped, leaked
    ended,       \* the subjects that are gone, each with what the guard was then
    late         \* those of them that were used after that

vars == <<scenario, crate, text, role, todo, types, flows, analysis, verdict,
          frame, memory, given, guard, ended, late>>
written == <<scenario, crate, text, role, todo, types, flows, analysis, verdict>>
client  == <<frame, memory, given, guard, ended, late>>

\* The half key that either side makes of a symbol and the roles of its parameters.
KeyOf(symbol, callback, userdata) ==
    [profile |-> "dev", symbol |-> symbol, callback |-> callback, userdata |-> userdata, slotKey |-> "none"]
Roles == [register |-> "register", callback |-> 1, userdata |-> 2,
          clear |-> IF Scenarios[scenario].clear = <<>> THEN "none" ELSE "clear"]

-----------------------------------------------------------------------------
(* Values.  A pointer to an object, or to a field of it, is the sequence of *)
(* its name and the field; an alloca is pointed to by its own name.         *)

Null == <<"null">>
Undef == <<"undef">>
Junk == <<"junk">>

Objects == {"conn", "other"}
Lasting == {<<"@g">>, <<"@h">>, <<"@o">>} \cup {<<o, "f">> : o \in Objects}
SlotOf(address) == IF address[1] \in Objects THEN <<"S">> \o Tail(address) ELSE address

Handed == {<<"cb">>, <<"ud">>}
Kept == ({memory[a] : a \in DOMAIN memory} \cup given) \cap Handed

-----------------------------------------------------------------------------
(* The crate: what its types and its code really allow. *)

HandOffFn(c) == c.fns[1]
IsGeneric(c) == c.callback \in DOMAIN HandOffFn(c).generics

\* What the callback captures may be borrowed.
MayBorrow(c) ==
    IF IsGeneric(c) THEN "static" \notin ToSet(HandOffFn(c).generics[c.callback].bounds)
                    ELSE Driver!ObjectLifetime(HandOffFn(c).objects[c.callback]) # "static"

\* The value returned keeps what is captured from ending, until it is dropped or leaked.
Protects(c) ==
    /\ IsGeneric(c) /\ Driver!BoundLifetimes(HandOffFn(c), c.callback) \cap HandOffFn(c).returned # {}
    /\ HandOffFn(c).guard.drop

\* Rust code takes the allocation back; one that was lost track of may be this one.
Reclaims(f) == \E t \in f.transfers : t.kind # "into_raw" /\ t.of \in {"callback", "lost"}
MayReclaim(c) == \E n \in DOMAIN c.fns : Reclaims(c.fns[n])

\* The functions that safe code outside the crate gets to, by these kinds of call.
Reached(c, kinds) ==
    LET More(s) == s \cup UNION {{e.to : e \in {x \in c.fns[n].calls : x.via \in kinds}} : n \in s}
        after[k \in 0..Len(c.fns)] ==
            IF k = 0 THEN {n \in DOMAIN c.fns : c.fns[n].entry} ELSE More(after[k - 1])
    IN after[Len(c.fns)]
AnyCall == {"direct", "pointer", "dispatch"}

-----------------------------------------------------------------------------
(* Writing the module. *)

NewName == CHOOSE n \in Locals : n \notin DOMAIN types

Length(f) == FoldLeft(LAMBDA n, b : n + Len(b) - 1, 0, f.blocks)

\* The function begun: its shape, with the first instructions in its first block.
Begun(part, shape) ==
    [params |-> Params,
     blocks |-> [b \in DOMAIN shape |-> IF b = 1 THEN part.prologue \o <<shape[b]>> ELSE <<shape[b]>>]]

Order(part, shape) == SelectSeq(part.order, LAMBDA b : b \in DOMAIN shape)

AtFirst == [a \in Lasting |-> IF a = <<"@o">> THEN <<"other">> ELSE Null]
NoVerdict == [x \in Rust!Subjects |-> "none"]

Init ==
    \E n \in DOMAIN Scenarios : \E c \in Scenarios[n].crates, shape \in Scenarios[n].register.shapes :
        /\ scenario = n /\ crate = c
        /\ role = "register"
        /\ text = [q \in {"register"} |-> Begun(Scenarios[n].register, shape)]
        /\ todo = Order(Scenarios[n].register, shape) /\ types = Scenarios[n].register.types
        /\ flows = <<>> /\ analysis = UnresolvedAnalysis /\ verdict = NoVerdict
        /\ frame = <<>> /\ given = {} /\ ended = {} /\ late = {}
        /\ memory = AtFirst
        /\ guard = IF Protects(c) THEN "held" ELSE "none"

Part == IF role = "clear" THEN Scenarios[scenario].clear[1] ELSE Scenarios[scenario].register

\* An instruction more in the block that is written.
Write ==
    /\ role # "client" /\ todo # <<>>
    /\ Length(text[role]) < Part.length /\ ~(Locals \subseteq DOMAIN types)
    /\ \E i \in UNION {Fitting(types, op, NewName) : op \in Part.ops} :
          /\ text' = [text EXCEPT ![role].blocks[Head(todo)] = Front(@) \o <<i, Last(@)>>]
          /\ types' = IF i.res = NoName THEN types ELSE Put(types, i.res, Made(types, i))
    /\ UNCHANGED <<scenario, crate, role, todo, flows, analysis, verdict, client>>

NextBlock ==
    /\ role # "client" /\ Len(todo) > 1
    /\ todo' = Tail(todo)
    /\ UNCHANGED <<scenario, crate, text, role, types, flows, analysis, verdict, client>>

\* The register is written, the clear entry is next.
NextFunction ==
    /\ role = "register" /\ Len(todo) <= 1 /\ Scenarios[scenario].clear # <<>>
    /\ role' = "clear"
    /\ LET part == Scenarios[scenario].clear[1] IN
       /\ \E shape \in part.shapes : /\ text' = Put(text, "clear", Begun(part, shape))
                                    /\ todo' = Order(part, shape)
       /\ types' = part.types
    /\ UNCHANGED <<scenario, crate, flows, analysis, verdict, client>>

\* The foreign fact made of an analysis.
FactOf(a) ==
    [key |-> KeyOf("register", Roles.callback, 2),
     retention |-> a.retention, invocation |-> a.invocation,
     clear |-> a.clear, path |-> a.path, invokeEvidence |-> a.invokeEvidence]

\* The contract of the hand-off, a sequence of length 0 or 1.
ContractOf(c) ==
    LET promise == Driver!Promise(c.fns, 1, c.callback)
        roles == Driver!ForeignSymbolBinding(c.fns, 1).roles
    IN IF Rust!Gaps(promise) # {} THEN <<>>
       ELSE <<Rust!Contract(promise, KeyOf(promise.symbol, roles.callback, roles.userdata),
                            Driver!SitesOf(c.fns, promise.symbol))>>

\* The module is complete: crate and module are analysed, and the hand-off is judged
\* if there is a contract and both sides join.
Analysed ==
    /\ Len(todo) <= 1
    /\ role = (IF Scenarios[scenario].clear = <<>> THEN "register" ELSE "clear")
    /\ role' = "client"
    /\ LET flow == [r \in DOMAIN text |-> FlowOf(Globals, text[r])]
           found == Analyze(Globals, text, flow, Roles)
           fact == FactOf(found)
           contract == ContractOf(crate)
           joined == contract # <<>> /\ Rust!Rejections(contract[1], fact, found.slots) = {}
       IN /\ flows' = flow
          /\ analysis' = found
          /\ verdict' = IF joined
                        THEN [x \in Rust!Subjects |-> Rust!JudgeHandOff(contract[1], <<fact>>)[x].verdict]
                        ELSE NoVerdict
    /\ UNCHANGED <<scenario, crate, text, todo, types, client>>

-----------------------------------------------------------------------------
(* Running it. *)

Enter(r, args) ==
    frame' = <<[fn |-> r, block |-> 1, at |-> 1, blocks |-> 1,
                regs |-> [p \in ToSet(Params) |-> args[p]]]>>

Register ==
    /\ role = "client" /\ Scenarios[scenario].runs
    /\ frame = <<>> /\ Kept = {} /\ ended = {} /\ guard \in {"none", "held"} /\ 1 \in Reached(crate, AnyCall)
    /\ Enter("register", [cb |-> <<"cb">>, ud |-> <<"ud">>, conn |-> <<"conn">>])
    /\ UNCHANGED <<written, memory, given, guard, ended, late>>

\* The guard is dropped; if its drop calls the clear entry, then with null.
DropGuard ==
    /\ role = "client" /\ frame = <<>> /\ guard = "held"
    /\ guard' = "dropped"
    /\ IF "clear" \in HandOffFn(crate).guard.calls
       THEN "clear" \in DOMAIN text /\ Enter("clear", [cb |-> Null, ud |-> Null, conn |-> <<"conn">>])
       ELSE UNCHANGED frame
    /\ UNCHANGED <<written, memory, given, ended, late>>

\* Safe code may forget the guard: it is never dropped, and no longer in the way.
LeakGuard ==
    /\ role = "client" /\ frame = <<>> /\ guard = "held"
    /\ guard' = "leaked"
    /\ UNCHANGED <<written, frame, memory, given, ended, late>>

\* A subject ends.  The guard keeps what is captured from it, and nothing else: Rust
\* code that takes the allocation back does not ask for it.  Left out is an end that
\* nothing can follow, because the foreign side has kept nothing, and that of a
\* subject of which nothing is claimed.
End(subject) ==
    /\ role = "client" /\ frame = <<>> /\ Kept # {}
    /\ verdict[subject] = "compatible"
    /\ subject = "referent" => MayBorrow(crate) /\ guard # "held"
    /\ subject = "allocation" => MayReclaim(crate)
    /\ ended' = ended \cup {[subject |-> subject, guard |-> guard]}
    /\ UNCHANGED <<written, frame, memory, given, guard, late>>

\* The foreign component calls what it has, or uses it.
Fire ==
    /\ role = "client" /\ frame = <<>> /\ Kept # {}
    /\ late' = late \cup ended
    /\ UNCHANGED <<written, frame, memory, given, guard, ended>>

Here == frame[1]
Inst1 == text[Here.fn].blocks[Here.block][Here.at]
Value(x) == CASE x = "null" -> Null [] x \in Symbols -> <<x>> [] OTHER -> Here.regs[x]
On(regs) == frame' = <<[Here EXCEPT !.at = @ + 1, !.regs = regs]>>
Set(x, v) == On(Put(Here.regs, x, v))

\* The next instruction of the call.  Unknown code keeps what it is handed and what
\* it finds under the pointers it has, and may write there.  A load or a store that
\* does not go to an address, and a call of what is not the callback, ends the run.
Step ==
    /\ frame # <<>> /\ \A x \in ToSet(Inst1.args) : IsLocal(x) => x \in DOMAIN Here.regs
    /\ LET i == Inst1 IN
       \/ /\ i.op = "alloca"
          /\ memory' = Put(memory, <<i.res>>, Undef) /\ Set(i.res, <<i.res>>)
          /\ UNCHANGED given
       \/ /\ i.op = "store" /\ Value(i.args[2]) \in DOMAIN memory
          /\ memory' = [memory EXCEPT ![Value(i.args[2])] = Value(i.args[1])]
          /\ On(Here.regs) /\ UNCHANGED given
       \/ /\ i.op = "load" /\ Value(i.args[1]) \in DOMAIN memory
          /\ Set(i.res, memory[Value(i.args[1])])
          /\ UNCHANGED <<memory, given>>
       \/ /\ i.op = "gep"
          /\ Set(i.res, IF i.type = "S" THEN Value(i.args[1]) \o i.path ELSE Value(i.args[1]))
          /\ UNCHANGED <<memory, given>>
       \/ /\ i.op = "cast" /\ Set(i.res, Value(i.args[1]))
          /\ UNCHANGED <<memory, given>>
       \/ /\ i.op = "other"
          /\ \E v \in {Value(i.args[1]), Junk} : Set(i.res, v)
          /\ UNCHANGED <<memory, given>>
       \/ /\ i.op = "call" /\ i.args[1] = "@ext"
          /\ LET known == given \cup {Value(i.args[2])}
                 under == known \cap DOMAIN memory
             IN /\ given' = known \cup {memory[a] : a \in under}
                /\ \E over \in SUBSET under :
                      memory' = [a \in DOMAIN memory |-> IF a \in over THEN Junk ELSE memory[a]]
          /\ On(Here.regs)
       \/ /\ i.op = "call" /\ i.args[1] # "@ext"
          /\ i.args[1] = "@llvm.dbg.declare" \/ Value(i.args[1]) = <<"cb">>
          /\ On(Here.regs) /\ UNCHANGED <<memory, given>>
       \/ /\ i.op \in {"branch", "unsupported"} /\ Here.blocks < MaxBlocks
          /\ \E b \in (IF i.op = "branch" THEN ToSet(i.to) ELSE Labels(text[Here.fn])) :
                frame' = <<[Here EXCEPT !.block = b, !.at = 1, !.blocks = @ + 1]>>
          /\ UNCHANGED <<memory, given>>
       \/ /\ i.op = "return"
          /\ frame' = <<>>
          /\ memory' = Restrict(memory, Lasting)
          /\ given' = {v \in given \cup {Value(x) : x \in ToSet(i.args)} : v \in DOMAIN memory => v \in Lasting}
    /\ UNCHANGED <<written, guard, ended, late>>

Next ==
    \/ Write \/ NextBlock \/ NextFunction \/ Analysed
    \/ Register \/ DropGuard \/ LeakGuard \/ Fire \/ Step
    \/ \E x \in Rust!Subjects : End(x)

Spec == Init /\ [][Next]_vars

-----------------------------------------------------------------------------
(* Properties. *)

\* All is written and nothing has run yet.
Ready == role = "client" /\ frame = <<>> /\ memory = AtFirst

\* The blocks a call gets to without going through x.
Without(f, x) ==
    LET More(s) == s \cup ((UNION {Successors(f, b) : b \in s}) \ {x})
        after[k \in 0..Len(f.blocks)] == IF k = 0 THEN {1} \ {x} ELSE More(after[k - 1])
    IN after[Len(f.blocks)]

\* A block is taken to be on every returning path exactly if no exit is reached
\* without it, for every control flow that is complete (path_info).
EveryPathIsEvery ==
    LET f == text.register IN
    (Ready /\ ~CfgIncomplete(f)) =>
        OnEveryReturningPath(f) = {x \in DOMAIN f.blocks : Without(f, x) \cap Exits(f) = {}}

\* Whatever path a call has taken: a register whose origin is a parameter or null
\* holds that, or nothing defined, a register that is taken for a pointer to a
\* slot points to it, and one that is taken for the caller's to what outlives the
\* call (FunctionFlow).
OriginsAreRight ==
    (frame # <<>> /\ Inst1.op \in Terminators) =>
    LET f == text[Here.fn]
        flow == flows[Here.fn]
        Known == {x \in DOMAIN Here.regs : Here.regs[x] # Undef}
        args == [i \in DOMAIN Params |-> Here.regs[Params[i]]]
    IN \A x \in Known :
          /\ x \in DOMAIN flow.origins =>
                /\ flow.origins[x][1] = "param" => Here.regs[x] = args[flow.origins[x][2]]
                /\ flow.origins[x] = NullOrigin => Here.regs[x] = Null
          /\ x \in DOMAIN flow.slots => SlotOf(Here.regs[x]) = flow.slots[x]
          /\ (x \in flow.owned /\ x \in DOMAIN flow.slots) => Here.regs[x] \in Lasting

\* If the analysis says that nothing is retained, then after a registration that
\* has returned, by whatever path, neither the callback nor its user data is where
\* it outlives the call, and no unknown code has been handed them.
NoRetainIsSound ==
    (role = "client" /\ frame = <<>> /\ analysis.retention = "no_retain") => Kept = {}

\* What is read from a slot, or a pointer to one, is lost sight of in a function:
\* what is read is stored or reckoned with, or unknown code, the caller or an
\* instruction without a reader of its own gets the one or the other.
LosesSight(r) ==
    LET To(x) == PointerSlot(Globals, flows[r], x) \in analysis.slots
        From(x) == \E s \in analysis.slots : Origin(flows[r], x) = SlotLoad(s)
        Copies(i) == i.op \in {"store", "gep"}
        Yields(i) == i.op \in {"other", "return"} \/ (i.op = "call" /\ i.args[1] = "@ext")
    IN \E e \in ToSet(AllInsts(text[r])) : \E x \in ToSet(e.inst.args) :
          (Yields(e.inst) /\ (To(x) \/ From(x))) \/ (Copies(e.inst) /\ From(x))

\* The clear entry writes to the field of another object than the caller's.
ClearsAnother ==
    \E e \in ToSet(AllInsts(text.clear)) :
        /\ e.inst.op = "store"
        /\ PointerSlot(Globals, flows["clear"], e.inst.args[2]) \in analysis.slots
        /\ ~IsCallerOwned(flows["clear"], e.inst.args[2])

\* What the analysis does not look at when it says that all slots are cleared: the
\* object a field is in, what becomes of what is in a slot, and a use of a parameter
\* it has lost sight of while it saw another one stored.
Unseen ==
    \/ ClearsAnother
    \/ \E r \in DOMAIN text : LosesSight(r)
    \/ TraceParams(Globals, text.register, flows["register"], Roles).escaped

\* What the driver does not look at, and the judge: what else the crate does with the
\* allocation; which foreign function it is that the drop of the guard calls; and that
\* a guard that is never dropped clears nothing, and one that is held keeps no
\* allocation.
UnseenInCrate(end) ==
    LET promise == Driver!Promise(crate.fns, 1, crate.callback) IN
    \/ /\ end.subject = "allocation" /\ promise.allocation = "foreign_owned"
       /\ \E n \in DOMAIN crate.fns : n # 1 /\ Reclaims(crate.fns[n])
    \/ /\ promise.guard = "ties_slot_to_subject" /\ analysis.clear = "clears_on_all_paths"
       /\ \/ "clear" \notin HandOffFn(crate).guard.calls
          \/ end.guard \in {"held", "leaked"}

\* A subject whose verdict is compatible is not used after its end, by the foreign
\* module that was analysed, under any client the crate allows, unless the verdict
\* rests on what the analyses do not look at.
CompatibleIsSafe ==
    \A end \in late :
        verdict[end.subject] = "compatible" =>
            \/ analysis.clear = "clears_on_all_paths" /\ Unseen
            \/ UnseenInCrate(end)

\* Safe code gets to a hand-off that is said to be reachable.  It does not get to one
\* that is said not to be, and is left out of the contracts for it, unless by a call
\* of a trait method or a drop; and a way that takes none and no pointer is found,
\* whatever other calls there are (safe_entry_lineages).
LineageIsRight ==
    Ready =>
    \A n \in DOMAIN crate.fns :
        LET lineage == Driver!SafeEntryLineage(crate.fns, n)
            found == lineage \in {"direct", "reachable"}
        IN /\ found => n \in Reached(crate, AnyCall)
           /\ lineage = "no_public_safe_entry" => n \notin Reached(crate, {"direct", "pointer"})
           /\ n \in Reached(crate, {"direct"}) => found
=============================================================================
