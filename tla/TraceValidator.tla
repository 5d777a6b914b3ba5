--------------------------- MODULE TraceValidator ---------------------------
(***************************************************************************)
(* validate_runtime_stream of crates/bw-model: the structure every trace   *)
(* must have before it is analysed.  The validator reads records one by    *)
(* one and stops at the first problem; its tables are what it has read, so *)
(* Problems(t, i) states what it finds wrong with record i of a stream     *)
(* whose earlier records are right, as a set of error codes.               *)
(*                                                                         *)
(* A record holds [record, run, trace, seq, kind, build, object, osite,    *)
(* external, callback, csite, count]; `object' is the owner in a           *)
(* registration and an unregistration, `external' tells whether a created  *)
(* object is an external owner.                                            *)
(***************************************************************************)
EXTENDS Naturals, FiniteSets, Sequences

\* The records of the same trace that were read before record i.
Before(t, i) == {j \in 1..(i - 1) : t[j].trace = t[i].trace}

Created(t, i, o) == {j \in Before(t, i) : t[j].kind = "create" /\ t[j].object = o}
RegisteredAt(t, i, c) == {j \in Before(t, i) : t[j].kind = "register" /\ t[j].callback = c}

If(code, cond) == IF cond THEN {code} ELSE {}

\* Of any record.
StreamProblems(t, i) ==
    If("RECORD-DUPLICATE", \E j \in 1..(i - 1) : t[j].record = t[i].record)
    \cup If("RUN-MISMATCH", \E j \in 1..(i - 1) : t[j].run # t[i].run)

\* Of the first record of a trace.
FirstProblems(t, i) ==
    If("START-MISSING", t[i].kind # "start")
    \cup If("SEQ-START", t[i].seq # 0)
    \cup If("BUILD-MISMATCH", \E j \in 1..(i - 1) : t[j].kind = "start" /\ t[j].build # t[i].build)

\* validate_trace_header: the run, the end, and the order of seq.
HeaderProblems(t, i) ==
    If("AFTER-END", \E j \in Before(t, i) : t[j].kind = "end")
    \cup If("SEQ-ORDER", \E j \in Before(t, i) : t[i].seq <= t[j].seq)

ObjectMissing(t, i) == If("OBJECT-MISSING", Created(t, i, t[i].object) = {})
CallbackMissing(t, i) == If("CALLBACK-MISSING", RegisteredAt(t, i, t[i].callback) = {})

\* Mutant: the owner of an unregistration is not compared.
PayloadProblemsAnyOwner(t, i) ==
    CASE t[i].kind = "create" -> If("OBJECT-DUPLICATE", Created(t, i, t[i].object) # {})
      [] t[i].kind = "register" ->
             ObjectMissing(t, i)
             \cup If("OWNER-KIND", \E j \in Created(t, i, t[i].object) : ~t[j].external)
             \cup If("CALLBACK-DUPLICATE", RegisteredAt(t, i, t[i].callback) # {})
      [] t[i].kind \in {"unregister", "invoke", "bind"} -> CallbackMissing(t, i)
      [] t[i].kind \in {"use", "drop", "free"} -> ObjectMissing(t, i)
      [] t[i].kind = "end" -> If("COUNT-MISMATCH", t[i].count # Cardinality(Before(t, i)) + 1)
      [] OTHER -> {}

\* validate_payload
PayloadProblems(t, i) ==
    CASE t[i].kind = "start" -> {"START-DUPLICATE"}
      [] t[i].kind = "create" -> If("OBJECT-DUPLICATE", Created(t, i, t[i].object) # {})
      [] t[i].kind = "register" ->
             ObjectMissing(t, i)
             \cup If("OWNER-KIND", \E j \in Created(t, i, t[i].object) : ~t[j].external)
             \cup If("CALLBACK-DUPLICATE", RegisteredAt(t, i, t[i].callback) # {})
      [] t[i].kind = "bind" ->
             CallbackMissing(t, i) \cup ObjectMissing(t, i)
             \cup If("CALLBACK-SITE-MISMATCH",
                     \E j \in RegisteredAt(t, i, t[i].callback) : t[j].csite # t[i].csite)
             \cup If("OBJECT-SITE-MISMATCH",
                     \E j \in Created(t, i, t[i].object) : t[j].osite # t[i].osite)
      [] t[i].kind = "unregister" ->
             CallbackMissing(t, i)
             \cup If("OWNER-MISMATCH",
                     \E j \in RegisteredAt(t, i, t[i].callback) : t[j].object # t[i].object)
      [] t[i].kind = "invoke" -> CallbackMissing(t, i)
      [] t[i].kind \in {"use", "drop", "free"} -> ObjectMissing(t, i)
      [] t[i].kind = "end" -> If("COUNT-MISMATCH", t[i].count # Cardinality(Before(t, i)) + 1)
      [] OTHER -> {}

Problems(t, i) ==
    StreamProblems(t, i)
    \cup IF Before(t, i) = {} THEN FirstProblems(t, i)
         ELSE HeaderProblems(t, i) \cup PayloadProblems(t, i)

\* A stream is valid if no record has a problem and every trace has ended.
Valid(t) ==
    /\ \A i \in DOMAIN t : Problems(t, i) = {}
    /\ \A i \in DOMAIN t : \E j \in DOMAIN t : t[j].trace = t[i].trace /\ t[j].kind = "end"

\* Mutant: the declared count is kept.
FlattenKeepsCount(t) == [i \in DOMAIN t |-> [t[i] EXCEPT !.seq = i - 1]]

\* flatten_trace of crates/bw-experiment: the records of the segments in file
\* order get new numbers, and every trace_end the number of records.
Flatten(t) ==
    [i \in DOMAIN t |-> [t[i] EXCEPT !.seq = i - 1,
                                     !.count = IF t[i].kind = "end" THEN Len(t) ELSE @]]
=============================================================================
