---------------------------- MODULE RuntimeTrace ----------------------------
(***************************************************************************)
(* The way of a trace from the runtime to the analysis: RuntimeContext     *)
(* hands events to the sink in some order, the sink keeps that order in    *)
(* its segments (JsonlSink), flatten_trace renumbers them, and the         *)
(* validator accepts the result or not.                                    *)
(***************************************************************************)
EXTENDS Runtime

\* The objects of the program are other than the owner of its callbacks.
ASSUME RuntimeTraceAssumption == "owner" \notin Objects

VARIABLE segments  \* the records in the segments, in file order

Validator == INSTANCE TraceValidator

Record(e, seq, count) ==
    [record |-> seq, run |-> "run", trace |-> "trace", seq |-> seq,
     kind |-> IF e.kind = "marker" THEN "checkpoint" ELSE e.kind, build |-> "build",
     object |-> IF e.kind \in ObjectKinds THEN e.of ELSE "owner",
     osite |-> "site", external |-> e.of = "owner",
     callback |-> e.of, csite |-> "site", count |-> count]

\* The program opens its trace and creates the owner and the object that its
\* callbacks name before it starts the threads.
Opening == <<Record([kind |-> "start", of |-> "none"], 0, 0),
             Record([kind |-> "create", of |-> "owner"], 1, 0)>>

\* The entry of the log that a step adds.
NewEntry == log'[Len(log')]

TraceInit == Init /\ segments = Opening

\* What the sink accepts is the next record of the segments.
TraceNext ==
    /\ Next
    /\ segments' = IF log' # log /\ NewEntry.kind # "finish" /\ NewEntry.ok
                   THEN Append(segments, Record(NewEntry, NewEntry.seq + 1, NewEntry.count + 2))
                   ELSE segments

traceVars == <<vars, segments>>

TraceSpec == TraceInit /\ [][TraceNext]_traceVars

-----------------------------------------------------------------------------
Ended == \A i \in DOMAIN segments : segments[i].kind = "end" <=> i = Len(segments)

CreatedObjects ==
    {segments[i].object : i \in {j \in DOMAIN segments : segments[j].kind = "create"}}

\* Once flattened, a trace is accepted whatever the threads did, except for two
\* reasons: the last record is not the only trace_end, or the sink refused the
\* creation of an object that a later record names.  In particular the order
\* and the gaps of the numbers and the count that emit_trace_end read before it
\* took its own number leave no mark on it.
FlattenedAccepted ==
    Validator!Valid(Validator!Flatten(segments)) <=>
        /\ Ended
        /\ \A i \in DOMAIN segments :
               segments[i].kind \in {"use", "drop"} => segments[i].object \in CreatedObjects
=============================================================================
