---------------------------- MODULE OracleTrace ----------------------------
(***************************************************************************)
(* What the oracle promises, stated over the trace it has read and nothing *)
(* else: `log' is the sequence of accepted events, and Expected is the set *)
(* of findings that trace deserves.  Oracle computes the same set event by *)
(* event from its four tables.                                             *)
(***************************************************************************)
EXTENDS Oracle, FiniteSetsExt

VARIABLE log  \* log[n] is the event with record id n

logVars == <<vars, log>>

Event(kind, o, c) == [kind |-> kind, object |-> o, callback |-> c]

NoObjectId == NoOwner

\* The event is logged unless the step rejected it.
Log(kind, o, c) ==
    log' = IF clock' = clock THEN log ELSE Append(log, Event(kind, o, c))

LogInit == Init /\ log = <<>>

LogNext ==
    \/ \E r \in Runs, b \in Builds :
           TraceStart(r, b) /\ Log("start", NoObjectId, NoCallback)
    \/ Marker /\ Log("marker", NoObjectId, NoCallback)
    \/ \E o \in Objects : ObjectCreate(o) /\ Log("create", o, NoCallback)
    \/ \E c \in Callbacks, w \in Objects, api \in Apis :
           CallbackRegister(c, w, api) /\ Log("register", w, c)
    \/ \E c \in Callbacks, o \in Objects : CaptureBind(c, o) /\ Log("bind", o, c)
    \/ \E c \in Callbacks, w \in Objects, api \in Apis :
           CallbackUnregister(c, w, api) /\ Log("unregister", w, c)
    \/ \E c \in Callbacks, api \in Apis :
           CallbackInvoke(c, api) /\ Log("invoke", NoObjectId, c)
    \/ \E o \in Objects : ObjectUse(o) /\ Log("use", o, NoCallback)
    \/ \E o \in Objects : ObjectDrop(o) /\ Log("drop", o, NoCallback)
    \/ \E o \in Objects : ObjectFree(o) /\ Log("free", o, NoCallback)

LogSpec == LogInit /\ [][LogNext]_logVars

-----------------------------------------------------------------------------
(* The trace, read as a whole. *)

Is(i, kind, o, c) == log[i] = Event(kind, o, c)

Drops(o)     == {i \in DOMAIN log : Is(i, "drop", o, NoCallback)}
Frees(o)     == {i \in DOMAIN log : Is(i, "free", o, NoCallback)}
Uses(o)      == {i \in DOMAIN log : Is(i, "use", o, NoCallback)}
Binds(c, o)  == {i \in DOMAIN log : Is(i, "bind", o, c)}
Invokes(c)   == {i \in DOMAIN log : Is(i, "invoke", NoObjectId, c)}
Registers(c) == {i \in DOMAIN log : log[i].kind = "register" /\ log[i].callback = c}

FirstFree(o) == {Min(S) : S \in {Frees(o)} \ {{}}}

\* The events that end a borrow of o: every drop, and only the first free.
BorrowEnds(o) == Drops(o) \cup FirstFree(o)

\* The events after which c is no longer retained.
Releases(c) ==
    {i \in DOMAIN log : log[i].kind = "unregister" /\ log[i].callback = c}
    \cup UNION {{i \in Drops(log[r].object) : i > r} : r \in Registers(c)}

Borrows == {p \in Callbacks \X Objects : CaptureFact[p[1]][p[2]] = "borrowed"}

ExpectedFinding(r, o, c, b, reg, e, i) ==
    [rule |-> r, object |-> o, callback |-> c,
     bind |-> b, register |-> reg, end |-> e, at |-> i, build |-> StaticBuild]

\* The bind of (c, o) and the event that ended that borrow.
EndedBorrows(c, o) ==
    {p \in Binds(c, o) \X BorrowEnds(o) :
        p[1] < p[2] /\ ~\E x \in BorrowEnds(o) : p[1] < x /\ x < p[2]}

Exposures ==
    UNION {{ExpectedFinding("LIFE-003", p[2], p[1], z[1][1], z[2], z[1][2], z[1][2]) :
               z \in {y \in EndedBorrows(p[1], p[2]) \X Registers(p[1]) :
                         ~\E i \in Releases(p[1]) : i <= y[1][2]}} : p \in Borrows}

DanglingInvokes ==
    UNION {{ExpectedFinding("LIFE-002", p[2], p[1], z[1][1], 0, z[1][2], z[2]) :
               z \in {y \in EndedBorrows(p[1], p[2]) \X Invokes(p[1]) : y[1][2] < y[2]}} : p \in Borrows}

\* A free, then a drop, is what ended an object; the first of either otherwise.
EndOf(o, i) == LET before == {j \in FirstFree(o) : j < i}
                   drops == {j \in Drops(o) : j < i}
               IN IF before # {} THEN before ELSE {Min(S) : S \in {drops} \ {{}}}

UsesAfterEnd ==
    UNION {{ExpectedFinding("LIFE-001", o, NoCallback, 0, 0, z[1], z[2]) :
               z \in {y \in (DOMAIN log) \X Uses(o) : y[1] \in EndOf(o, y[2])}} : o \in Objects}

RepeatedFrees ==
    UNION {{ExpectedFinding("FREE-001", o, NoCallback, 0, 0, z[1], z[2]) :
               z \in FirstFree(o) \X (Frees(o) \ FirstFree(o))} : o \in Objects}

Expected == Exposures \cup DanglingInvokes \cup UsesAfterEnd \cup RepeatedFrees

\* The oracle's four tables lose nothing the rules need: its findings are the
\* ones a reading of the whole trace gives, evidence records included (under a
\* complete contract and complete object facts).
FindingsMatchTrace == findings = Expected
=============================================================================
