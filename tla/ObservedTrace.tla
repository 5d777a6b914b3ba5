--------------------------- MODULE ObservedTrace ---------------------------
(***************************************************************************)
(* Three readers of one trace: the oracle judges it, the fuzz observer     *)
(* takes feedback from it (analyze_events and observe_feedback of the      *)
(* rusqlite fuzz harness run both over the same events), and the trace     *)
(* validator has to accept it first (analyze_d0_replay).  `life',          *)
(* `callback', `capture' and `snapshot' are the observer's; `validator' is *)
(* what the validator says of the records so far: that the trace is open,  *)
(* that it has ended, or that it is refused; `agreed' says that oracle and *)
(* validator took the view of every record that ValidatorAgrees states.    *)
(*                                                                         *)
(* A record the oracle rejects is left out, and the next one is read in    *)
(* its place; after one that only the validator refuses the two are not    *)
(* compared any more, as the validator reads no further.                   *)
(***************************************************************************)
EXTENDS OracleTrace

VARIABLES life, callback, capture, snapshot, validator, agreed

observer == <<life, callback, capture, snapshot>>
observedVars == <<logVars, observer, validator, agreed>>

Observer == INSTANCE FuzzObserver
Validator == INSTANCE TraceValidator

\* Record n of a run as it should be: sites are per instance, numbers and record
\* ids count the records.
Record(e, n, r) ==
    [record |-> n, run |-> r, trace |-> "trace", seq |-> n - 1, build |-> StaticBuild,
     kind |-> e.kind, object |-> e.object, osite |-> e.object, external |-> e.object \in Owners,
     callback |-> e.callback, csite |-> e.callback, count |-> 0]

\* What only the validator looks at may be wrong with it: the record id or the
\* number is one that was there (or the first number is not 0), the sites of a
\* bind are not those of its callback and object (the oracle looks the capture
\* up under the sites of the bind; they are taken to have a fact of the same
\* mode: another mode changes the findings, not what is accepted), the count of
\* a trace_end is not that of the records.
Variants(e, r) ==
    LET right == Record(e, now, r)
        marker == e.kind = "marker"
        bind == e.kind = "bind"
    IN  {right, [right EXCEPT !.record = 1], [right EXCEPT !.seq = IF now = 1 THEN 1 ELSE 0]}
        \cup (IF bind THEN {[right EXCEPT !.csite = NoCallback], [right EXCEPT !.osite = NoOwner]} ELSE {})
        \cup (IF marker THEN {[right EXCEPT !.kind = "end", !.count = n] : n \in {now, now + 1}} ELSE {})

\* The records the validator has accepted; of the markers of the log (the oracle
\* does the same with all of them, nothing) the last may be a trace_end.
Accepted(i) ==
    LET right == Record(log[i], i, run)
    IN  IF validator = "ended" /\ i = Len(log) THEN [right EXCEPT !.kind = "end", !.count = i] ELSE right

ProblemsOf(record) ==
    Validator!Problems(Append([i \in DOMAIN log |-> Accepted(i)], record), now)

\* What the oracle does not look at: it does not even note that a trace ended.
Unheeded ==
    {"RECORD-DUPLICATE", "SEQ-START", "SEQ-ORDER", "AFTER-END", "START-DUPLICATE", "COUNT-MISMATCH",
     "CALLBACK-SITE-MISMATCH", "OBJECT-SITE-MISMATCH"}

\* The oracle binds a pair once; the validator lets a capture be bound again.
BoundAgain(e) == e.kind = "bind" /\ Bound(e.callback, e.object)

\* The oracle has accepted the record exactly if all that is wrong with it is
\* unheeded, and it does not bind a pair again.
SameView(e, problems) ==
    clock' # clock <=> problems \subseteq Unheeded /\ ~BoundAgain(e)

ValidatorReads(record, problems) ==
    validator' = IF validator = "refused" \/ problems # {} THEN "refused"
                 ELSE IF record.kind = "end" THEN "ended" ELSE "open"

Read(e, r) ==
    /\ Log(e.kind, e.object, e.callback)
    /\ IF log' = log THEN UNCHANGED observer ELSE Observer!Observe(e, now)
    /\ \E record \in Variants(e, r) :
           LET problems == ProblemsOf(record)
           IN  /\ agreed' = (agreed /\ (validator = "refused" \/ SameView(e, problems)))
               /\ IF clock' = clock THEN UNCHANGED validator ELSE ValidatorReads(record, problems)

ObservedInit == LogInit /\ Observer!Init /\ validator = "open" /\ agreed = TRUE

\* A trace_end is a marker; a trace_start may come again.
ObservedNext ==
    \/ \E r \in Runs, b \in Builds :
           TraceStart(r, b) /\ Read(Event("start", NoObjectId, NoCallback), r)
    \/ Marker /\ Read(Event("marker", NoObjectId, NoCallback), run)
    \/ \E o \in Objects : ObjectCreate(o) /\ Read(Event("create", o, NoCallback), run)
    \/ \E c \in Callbacks, w \in Objects, api \in Apis :
           CallbackRegister(c, w, api) /\ Read(Event("register", w, c), run)
    \/ \E c \in Callbacks, o \in Objects : CaptureBind(c, o) /\ Read(Event("bind", o, c), run)
    \/ \E c \in Callbacks, w \in Objects, api \in Apis :
           CallbackUnregister(c, w, api) /\ Read(Event("unregister", w, c), run)
    \/ \E c \in Callbacks, api \in Apis :
           CallbackInvoke(c, api) /\ Read(Event("invoke", NoObjectId, c), run)
    \/ \E o \in Objects : ObjectUse(o) /\ Read(Event("use", o, NoCallback), run)
    \/ \E o \in Objects : ObjectDrop(o) /\ Read(Event("drop", o, NoCallback), run)
    \/ \E o \in Objects : ObjectFree(o) /\ Read(Event("free", o, NoCallback), run)

ObservedSpec == ObservedInit /\ [][ObservedNext]_observedVars

-----------------------------------------------------------------------------
\* Up to the first record the validator refuses, the oracle's own checks are the
\* validator's: under complete facts and roles the oracle rejects a record that
\* the validator accepts only if it binds a pair twice, and accepts one that the
\* validator refuses exactly if all that is wrong with it is unheeded.
ValidatorAgrees == agreed

\* What the observer reads differently: it also closes an owner that is freed,
\* and a second free ends what was bound after the first.
Plain ==
    \A o \in Objects : \A i, j \in Frees(o) : i = j /\ o \notin Owners

\* Borrows that ended in the drop of the owner that still retained the callback:
\* the oracle closes the owner before it judges, the observer after.
EndedByOwnOwner ==
    {be \in UNION {EndedBorrows(p[1], p[2]) : p \in {b \in Borrows : b[2] \in Owners}} :
        LET c == log[be[1]].callback
        IN /\ \E r \in Registers(c) : log[r].object = log[be[1]].object
           /\ ~\E i \in Releases(c) : i < be[2]}

FindingsOf(rule) == {f \in findings : f.rule = rule}
FirstOf(S) == {Min(T) : T \in {S} \ {{}}}
FirstSeen(state) == {snapshot[state].first} \ {0}

\* The feedback that guides the fuzzer follows what the oracle reports: on a
\* plain trace both retain the same callbacks, the borrow ends counted are the
\* LIFE-003 findings and those of the owner's own drop, the first of them is
\* marked at the same event, and invoked_after_end is marked at the first
\* LIFE-002 whose callback is still retained.
ObserverAgrees ==
    Plain =>
        LET own == EndedByOwnOwner
        IN /\ \A c \in Callbacks : callback[c].state = callbacks[c].life
           /\ \A o \in Owners : life[o] = objects[o].life
           /\ snapshot["borrow_ended_retained"].count =
                  Cardinality(FindingsOf("LIFE-003")) + Cardinality(own)
           /\ FirstSeen("borrow_ended_retained") =
                  FirstOf({f.at : f \in FindingsOf("LIFE-003")} \cup {be[2] : be \in own})
           /\ FirstSeen("invoked_after_end") =
                  FirstOf({f.at : f \in {g \in FindingsOf("LIFE-002") :
                      ~\E i \in Releases(g.callback) : i < g.at}})
=============================================================================
