------------------------------ MODULE MCHandOff ------------------------------
EXTENDS HandOff

\* The shapes of a function: the terminators of its blocks.
Straight == <<Return(<<>>)>>
Gives    == <<Return(<<"cb">>)>>
Early    == <<Branch(<<2, 3>>), Return(<<>>), Return(<<>>)>>
Turned   == <<Branch(<<3>>), Return(<<>>), Branch(<<2>>)>>
Loop     == <<Branch(<<2>>), Branch(<<2, 3>>), Return(<<>>)>>
Abort    == <<Branch(<<2, 3>>), Unreachable, Return(<<>>)>>
Unread   == <<UnsupportedTerminator, Return(<<>>), Return(<<>>)>>

\* Every control flow of up to four blocks with at most two successors each.
FlowGraphs ==
    UNION {[1..n -> {Return(<<>>), Unreachable}
                    \cup {Branch(<<a>>) : a \in 2..n}
                    \cup {Branch(<<p[1], p[2]>>) : p \in {q \in (2..n) \X (2..n) : q[1] < q[2]}}] : n \in 1..4}

\* The crates.  A hand-off has one callback, and calls register with it.
RegisterCall == [symbol |-> "register", args |-> <<"fn", "raw", "raw">>]
NoGuard == [adt |-> FALSE, drop |-> FALSE, mir |-> FALSE, calls |-> {}]
GuardCalling(calls) == [adt |-> TRUE, drop |-> TRUE, mir |-> TRUE, calls |-> calls]
Taken(kinds) == {[kind |-> k, of |-> "callback"] : k \in kinds}
GivenAway == Taken({"into_raw"})
GivenAndTaken == Taken({"into_raw", "from_raw"})

Function(entry, calls, transfers) ==
    [entry |-> entry, calls |-> calls, extern |-> {}, transfers |-> transfers,
     generics |-> <<>>, objects |-> <<>>, declared |-> {}, receiver |-> {}, returned |-> {}, guard |-> NoGuard]
HandingOff(generics, objects, declared, receiver, returned, guards, transfers) ==
    [Function(TRUE, {}, transfers) EXCEPT !.extern = {RegisterCall}, !.generics = generics, !.objects = objects,
        !.declared = declared, !.receiver = receiver, !.returned = returned, !.guard = guards]
Generic(bounds) == [p \in {"F"} |-> [callable |-> TRUE, bounds |-> bounds]]
Object(under, lifetime) == [p \in {"arg1"} |-> [under |-> under, lifetime |-> lifetime]]

GenericFn(bounds, declared, receiver, returned, guards, transfers) ==
    HandingOff(Generic(bounds), <<>>, declared, receiver, returned, guards, transfers)
ObjectFn(under, lifetime) == HandingOff(<<>>, Object(under, lifetime), {"a"}, {}, {}, NoGuard, GivenAway)
Crate(functions) ==
    [fns |-> functions, callback |-> IF functions[1].objects = <<>> THEN "F" ELSE "arg1"]
GenericCrate(bounds, declared, receiver, returned, guards, transfers) ==
    Crate(<<GenericFn(bounds, declared, receiver, returned, guards, transfers)>>)

Unguarded == GenericCrate(<<"a">>, {"a"}, {}, {}, NoGuard, GivenAndTaken)
Unclear   == GenericCrate(<<>>, {"a"}, {"a"}, {"a"}, GuardCalling({"clear"}), GivenAndTaken)
Endless   == GenericCrate(<<"static">>, {}, {}, {}, NoGuard, GivenAway)
Guarded   == GenericCrate(<<"a">>, {"a"}, {"a"}, {"a"}, GuardCalling({"clear"}), GivenAndTaken)

\* Signatures, of a type parameter and of a trait object.
Guards == {NoGuard, [NoGuard EXCEPT !.adt = TRUE], [GuardCalling({"clear"}) EXCEPT !.mir = FALSE]}
          \cup {GuardCalling(c) : c \in {{}, {"rust"}, {"clear"}, {"log"}, {"clear", "log", "rust"}}}
Signatures ==
    {GenericCrate(b, {"a", "b"}, {"a"}, r, g, t) :
        b \in {<<>>, <<"a">>, <<"b">>, <<"static">>, <<"static", "a">>, <<"outer">>},
        r \in {{}, {"a"}, {"b"}, {"outer"}}, g \in Guards,
        t \in {{}, GivenAway, GivenAndTaken, GivenAway \cup {[kind |-> "from_raw", of |-> "lost"]}}}
    \cup {Crate(<<ObjectFn(u, l)>>) :
        u \in {<<>>, <<<<"box">>>>, <<<<"ref", "a">>>>, <<<<"ref", "a">>, <<"box">>>>, <<<<"box">>, <<"other">>>>},
        l \in {"a", "static", "elided"}}

\* A second function, or another call of the hand-off.
Elsewhere == Crate(<<GenericFn(<<"static">>, {}, {}, {}, NoGuard, GivenAway),
                     Function(FALSE, {}, {[kind |-> "from_raw", of |-> "callback"]})>>)
Wrapping(calls) ==
    Crate(<<[GenericFn(<<"static">>, {}, {}, {}, NoGuard, GivenAway) EXCEPT !.extern = calls,
                !.calls = {[via |-> "direct", to |-> 2]}],
            [GenericFn(<<"a">>, {"a"}, {}, {}, NoGuard, GivenAway) EXCEPT !.entry = FALSE]>>)
Calling(n) ==
    Crate([k \in 1..n |-> IF k < n THEN [Function(k = 1, {[via |-> "direct", to |-> k + 1]}, {})
                                            EXCEPT !.generics = Generic(<<"static">>)]
                                   ELSE GenericFn(<<"static">>, {}, {}, {}, NoGuard, GivenAway)])
Wrappers ==
    {Elsewhere} \cup {Calling(n) : n \in 4..5}
    \cup {Wrapping({}), Wrapping({[symbol |-> "log", args |-> <<"raw">>]}), Wrapping({[symbol |-> "log", args |-> <<"fn">>]}),
          Wrapping({RegisterCall, [symbol |-> "log", args |-> <<"fn">>]}),
          Wrapping({[RegisterCall EXCEPT !.args = <<"raw", "fn", "raw">>]}), Wrapping({[RegisterCall EXCEPT !.args = <<"fn">>]})}

\* Every way to get to a hand-off from two other functions.
Ways == {"none", "direct", "pointer", "dispatch"}
To(n, way) == IF way = "none" THEN {} ELSE {[via |-> way, to |-> n]}
CallGraphs ==
    {Crate(<<[GenericFn(<<"static">>, {}, {}, {}, NoGuard, GivenAway) EXCEPT !.entry = e[1], !.calls = To(2, w[1])],
             Function(e[2], To(1, w[2]) \cup To(3, w[3]), {}),
             Function(e[3], To(1, w[4]) \cup To(2, w[5]), {})>>) :
        e \in [1..3 -> BOOLEAN], w \in {x \in [1..5 -> Ways] : x[1] \in {"none", "direct"}}}

With(names, type) == [n \in names |-> type]
Given == With({"conn"}, "object") @@ With({"@g"}, "cell") @@ With({"@o"}, "holder")
Alone == With({"cb"}, "value") @@ Given
Both  == With({"cb", "ud"}, "value") @@ With({"%1"}, "cell") @@ Given
Plain == With({"cb"}, "value") @@ With({"%1"}, "cell") @@ Given
Wide  == With({"cb", "%4"}, "value") @@ With({"%1", "%3"}, "cell") @@ With({"%2"}, "object") @@ Given

Field == <<Gep("%1", "conn", "S", <<"f">>)>>
OtherField == Field \o <<Load("%2", "@o"), Gep("%3", "%2", "S", <<"f">>), Load("%4", "@g")>>

PartOf(shapes, order, prologue, names, ops, free) ==
    [shapes |-> shapes, order |-> order, prologue |-> prologue, types |-> names,
     ops |-> ops, length |-> Len(prologue) + free]
Scenario(register, clear, crates) ==
    [register |-> register, clear |-> clear, crates |-> crates, runs |-> TRUE]

Register1 == PartOf({Straight}, <<1>>, Field, Plain, {"store", "escape"}, 2)

\* What is stored or read is used, given away or stored again.
Used    == PartOf({Straight, Gives}, <<1>>, Field \o <<Store("cb", "%1")>>, Plain, {"load", "other", "offset", "escape", "store"}, 2)
Cleared == PartOf({Straight}, <<1>>, Field \o <<Store("null", "%1")>>, Plain, {"escape", "store"}, 1)

Written == PartOf({Straight}, <<1>>, Field \o <<Store("cb", "%1")>>, Plain, {"store"}, 0)

ScenariosHere ==
    [ paths |-> [Scenario(PartOf(FlowGraphs, <<>>, <<>>, Alone, {}, 0), <<>>, {Endless}) EXCEPT !.runs = FALSE],
      values |-> Scenario(PartOf({Straight, Gives}, <<1>>, <<>>, Alone, AllOps, 3), <<>>, {Unclear}),
      turned |-> Scenario(PartOf({Turned}, <<1, 3, 2>>, <<>>, Alone, {"store", "cast", "offset"}, 3), <<>>, {Endless}),
      loops |-> Scenario(PartOf({Loop}, <<1, 2, 3>>, <<Alloca("%1")>>, Plain, {"store", "load"}, 3), <<>>, {Endless}),
      aborts |-> Scenario(PartOf({Abort}, <<1, 3>>, <<Alloca("%1")>>, Plain, {"store", "load"}, 3), <<>>, {Endless}),
      unguarded |-> Scenario(PartOf({Straight, Early, Unread}, <<1, 3>>, Field, Both, {"store", "escape"}, 2), <<>>,
                             {Unguarded, Endless, Unclear}),
      guarded |-> Scenario(Register1, <<PartOf({Straight}, <<1>>, OtherField, Wide, {"store"}, 2)>>, {Guarded}),
      branches |-> Scenario(Register1, <<PartOf({Early, Unread}, <<1, 3>>, Field, Plain, {"store"}, 2)>>, {Guarded}),
      used |-> Scenario(Used, <<Cleared>>, {Guarded}),
      crates |-> Scenario(Written, <<>>, Wrappers),
      signatures |-> Scenario(Written, <<PartOf({Straight}, <<1>>, Field, Plain, {"store"}, 1)>>, Signatures),
      graphs |-> [Scenario(PartOf({Straight}, <<1>>, <<>>, Alone, {}, 0), <<>>, CallGraphs) EXCEPT !.runs = FALSE] ]
=============================================================================
