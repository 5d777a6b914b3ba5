------------------------------ MODULE D0Runner ------------------------------
(***************************************************************************)
(* run_d0 of crates/bw-experiment: the replays and compile checks of a     *)
(* case matrix are run one after the other in one run directory.  Every    *)
(* replay runs an instrumented program (ChildRunner, by its promise        *)
(* ChildCall), flattens its trace, has it validated and judged             *)
(* (TraceValidator, Oracle: here by their verdict), and then appends the   *)
(* findings and the record of the replay to two files.  Any step may fail, *)
(* or be the last one: the run then stays `.partial'.                      *)
(*                                                                         *)
(* The static facts of a program are read twice, before the child runs and *)
(* after it; somebody may rebuild the program in between.                  *)
(***************************************************************************)
EXTENDS Naturals, Sequences, FiniteSets, SequencesExt

CONSTANTS
    Plan,    \* the work items, in order: [case, replay, kind]
    Builds   \* builds the static facts of a program can be of

ASSUME D0RunnerAssumption ==
    /\ Len(Plan) \in Nat /\ DOMAIN Plan = 1..Len(Plan)
    /\ \A i \in DOMAIN Plan : Plan[i].kind \in {"replay", "compile_check"}
    /\ \A i, j \in DOMAIN Plan : Plan[i].replay = Plan[j].replay => i = j

VARIABLES
    pc,        \* the next step
    item,      \* index of the current work item
    facts,     \* the build of the static facts on disk, none if the file is empty
    build,     \* the build the current replay was started with
    child,     \* how its child ended: status, and whether it printed a panic
    trace,     \* what is in its trace segments
    record,    \* the record made of it
    stage,     \* of the directory: none, partial or final
    files,     \* what the directory holds: flattened traces, logs, artifacts
    findings,  \* findings.jsonl, one entry for the findings of a replay
    records,   \* replay-records.jsonl
    checks,    \* compile-checks.jsonl
    required,  \* files that finalize must find
    summary    \* the buckets of the experiment summary

vars == <<pc, item, facts, build, child, trace, record, stage, files, findings,
          records, checks, required, summary>>

\* plan_d0_work: every case to run as often as the mode says, a compile check once.
PlanOf(matrix, mode, repetitions) ==
    LET n == IF mode = "preflight" THEN 1 ELSE repetitions
    IN FlattenSeq([i \in DOMAIN matrix |->
           IF matrix[i].operation = "run"
           THEN [r \in 1..n |->
                    [case |-> matrix[i].case, replay |-> <<matrix[i].case, r>>, kind |-> "replay"]]
           ELSE <<[case |-> matrix[i].case, replay |-> <<matrix[i].case, 0>>,
                   kind |-> "compile_check"]>>])

Current == Plan[item]
NoRecord == [replay |-> <<>>]
Statuses == {"exit0", "exit_other", "signaled", "timed_out"}

\* What a program that exits with 0 may leave: no index, lines that cannot be
\* read, a trace the validator or the oracle rejects, no event at all, a trace
\* without findings and one with findings.
Traces == {"no_index", "unreadable", "invalid", "rejected", "empty", "clean", "finding"}

Init ==
    /\ pc = "create" /\ item = 1
    /\ facts \in Builds /\ build = "metadata"
    /\ child = [status |-> "exit0", panic |-> FALSE]
    /\ trace = "no_index" /\ record = NoRecord
    /\ stage = "none" /\ files = {}
    /\ findings = <<>> /\ records = <<>> /\ checks = <<>>
    /\ required = {} /\ summary = {}

-----------------------------------------------------------------------------
Step(from, to) == pc = from /\ pc' = to
replaying == <<build, child, trace, record>>
written == <<findings, records, checks>>

\* RunDirectory::create and the copy of the contract.
Create ==
    /\ Step("create", "next")
    /\ stage' = "partial"
    /\ UNCHANGED <<item, facts, replaying, files, written, required, summary>>

Begin ==
    /\ item \in DOMAIN Plan
    /\ Step("next", IF Current.kind = "replay" THEN "facts" ELSE "check")
    /\ UNCHANGED <<item, facts, replaying, stage, files, written, required, summary>>

\* Mutant: an empty file is read as a build.
ReadBuildOfEmpty ==
    /\ Step("facts", "run")
    /\ build' = facts
    /\ UNCHANGED <<item, facts, child, trace, record, stage, files, written, required, summary>>

\* static_build_id: the build is that of the first fact in the file, or else the
\* one in the metadata of the run.
ReadBuild ==
    /\ Step("facts", "run")
    /\ build' = IF facts = "none" THEN "metadata" ELSE facts
    /\ UNCHANGED <<item, facts, child, trace, record, stage, files, written, required, summary>>

\* ChildRunner::run has returned a status; two logs are there to be finalized.
Ran(status, panic) ==
    /\ child' = [status |-> status, panic |-> panic]
    /\ files' = files \cup {<<"log", Current.replay>>}
    /\ required' = required \cup {<<"log", Current.replay>>}

RunChild(status, panic, left) ==
    /\ Step("run", IF status = "exit0" THEN "flatten" ELSE "failure")
    /\ Ran(status, panic)
    /\ trace' = left
    /\ UNCHANGED <<item, facts, build, record, stage, written, summary>>

\* OutcomeFacts and classify_outcome: the evidence, and the first that counts.
Outcome(evidence) ==
    IF "timeout" \in evidence THEN "timeout"
    ELSE IF "contract_finding" \in evidence THEN "contract_finding"
    ELSE IF "native_crash" \in evidence THEN "native_crash"
    ELSE IF "panic" \in evidence THEN "panic" ELSE "no_finding"

RecordOf(evidence, judgedBy) ==
    [replay |-> Current.replay, case |-> Current.case, build |-> build,
     outcome |-> Outcome(evidence), evidence |-> evidence,
     child |-> child, trace |-> trace, judgedBy |-> judgedBy]

\* Mutant: a child that printed a panic has crashed all the same.
FailureEvidenceBoth ==
    {e \in {"timeout", "panic", "native_crash"} :
        CASE e = "timeout" -> child.status = "timed_out"
          [] e = "panic" -> child.status = "exit_other" /\ child.panic
          [] e = "native_crash" -> child.status # "timed_out"}

\* child_failure_record
FailureEvidence ==
    {e \in {"timeout", "panic", "native_crash"} :
        CASE e = "timeout" -> child.status = "timed_out"
          [] e = "panic" -> child.status = "exit_other" /\ child.panic
          [] e = "native_crash" -> child.status # "timed_out" /\ ~child.panic}

Failure ==
    /\ Step("failure", "record")
    /\ record' = RecordOf(FailureEvidence, {})
    /\ UNCHANGED <<item, facts, build, child, trace, stage, files, written, required, summary>>

\* Mutant: finalize is not told of the trace.
FlattenTraceUnasked ==
    /\ trace \notin {"no_index", "unreadable"}
    /\ Step("flatten", "analyze")
    /\ files' = files \cup {<<"trace", Current.replay>>}
    /\ UNCHANGED <<item, facts, replaying, stage, written, required, summary>>

\* flatten_trace; an error ends the run.
FlattenTrace ==
    /\ trace \notin {"no_index", "unreadable"}
    /\ Step("flatten", "analyze")
    /\ files' = files \cup {<<"trace", Current.replay>>}
    /\ required' = required \cup {<<"trace", Current.replay>>}
    /\ UNCHANGED <<item, facts, replaying, stage, written, summary>>

Judged ==
    /\ Step("analyze", "findings")
    /\ record' = RecordOf(IF trace = "finding" THEN {"contract_finding"} ELSE {}, {facts} \ {"none"})
    /\ files' = files \cup {<<"findings", Current.replay>>}
    /\ UNCHANGED <<item, facts, build, child, trace, stage, written, required, summary>>

\* Mutant: the oracle does not compare the build of the trace with the facts'.
AnalyzeAnyBuild ==
    /\ trace \notin {"invalid", "rejected"}
    /\ facts = "none" => trace # "finding"
    /\ Judged

\* analyze_d0_replay: the facts are read again.  The oracle takes a trace_start
\* of their build only, and the trace was started with `build'; without facts it
\* takes any, and every rule that would report something fails.
Analyze ==
    /\ trace \notin {"invalid", "rejected"}
    /\ trace # "empty" => facts \in {build, "none"}
    /\ facts = "none" => trace # "finding"
    /\ Judged

\* Mutant: the file is written anew.
AppendFindingsAnew ==
    /\ Step("findings", "record")
    /\ findings' = IF trace = "finding"
                   THEN <<[replay |-> Current.replay, whole |-> TRUE]>> ELSE findings
    /\ UNCHANGED <<item, facts, replaying, stage, files, records, checks, required, summary>>

\* append_file: nothing is appended if there is no finding.
AppendFindings ==
    /\ Step("findings", "record")
    /\ findings' = IF trace = "finding"
                   THEN Append(findings, [replay |-> Current.replay, whole |-> TRUE]) ELSE findings
    /\ UNCHANGED <<item, facts, replaying, stage, files, records, checks, required, summary>>

AppendRecord ==
    /\ Step("record", "next")
    /\ records' = Append(records, record)
    /\ item' = item + 1
    /\ UNCHANGED <<facts, replaying, stage, files, findings, checks, required, summary>>

\* execute_compile_check: whatever cargo check made of it is recorded.
CompileCheck(status) ==
    /\ Step("check", "next")
    /\ Ran(status, FALSE)
    /\ checks' = Append(checks, [replay |-> Current.replay, status |-> status])
    /\ item' = item + 1
    /\ UNCHANGED <<facts, build, trace, record, stage, findings, records, summary>>

\* summarize_replays: the records by case, build, outcome and signature.
Key(r) == <<r.case, r.build, r.outcome, r.outcome = "contract_finding">>
Bucket(key) == {i \in DOMAIN records : Key(records[i]) = key}
DuplicateReplay == \E i, j \in DOMAIN records : i < j /\ records[i].replay = records[j].replay

Summarize ==
    /\ item \notin DOMAIN Plan
    /\ ~DuplicateReplay
    /\ Step("next", "finalize")
    /\ summary' = {[key |-> Key(records[i]), count |-> Cardinality(Bucket(Key(records[i])))] :
                      i \in DOMAIN records}
    /\ UNCHANGED <<item, facts, replaying, stage, files, written, required>>

\* finalize: the required files are there, the checksums hold (RunDirectory).
Finalize ==
    /\ required \subseteq files
    /\ Step("finalize", "done")
    /\ stage' = "final"
    /\ UNCHANGED <<item, facts, replaying, files, written, required, summary>>

-----------------------------------------------------------------------------
(* An error, or the end of the process, at any step.  The findings of a    *)
(* replay may have been written in part; a torn line of the other files is *)
(* no record.                                                              *)

Stopped == pc \in {"done", "stopped"}

Torn(file) == Append(file, [replay |-> Current.replay, whole |-> FALSE])

Stop(torn) ==
    /\ ~Stopped /\ pc' = "stopped"
    /\ findings' = IF torn /\ pc = "findings" /\ trace = "finding" THEN Torn(findings) ELSE findings
    /\ files' = IF torn /\ pc = "flatten" THEN files \cup {<<"trace", Current.replay>>} ELSE files
    /\ UNCHANGED <<item, facts, replaying, stage, records, checks, required, summary>>

\* Somebody builds the program again; its facts may be half way.
Rebuild(b) ==
    /\ ~Stopped /\ b # facts
    /\ facts' = b
    /\ UNCHANGED <<pc, item, replaying, stage, files, written, required, summary>>

Next ==
    \/ Create \/ Begin \/ ReadBuild
    \/ \E status \in Statuses, panic \in BOOLEAN, left \in Traces : RunChild(status, panic, left)
    \/ Failure \/ FlattenTrace \/ Analyze \/ AppendFindings \/ AppendRecord
    \/ \E status \in Statuses : CompileCheck(status)
    \/ Summarize \/ Finalize
    \/ \E torn \in BOOLEAN : Stop(torn)
    \/ \E b \in Builds \cup {"none"} : Rebuild(b)

Spec == Init /\ [][Next]_vars

-----------------------------------------------------------------------------
(* Correctness. *)

TypeOK ==
    /\ pc \in {"create", "next", "facts", "run", "failure", "flatten", "analyze", "findings",
               "record", "check", "finalize", "done", "stopped"}
    /\ item \in 1..(Len(Plan) + 1)
    /\ pc \notin {"create", "next", "finalize", "done", "stopped"} => item \in DOMAIN Plan
    /\ facts \in Builds \cup {"none"} /\ build \in Builds \cup {"metadata"}
    /\ child \in [status : Statuses, panic : BOOLEAN] /\ trace \in Traces
    /\ stage \in {"none", "partial", "final"}
    /\ \A i \in DOMAIN records : records[i].outcome \in
           {"timeout", "contract_finding", "native_crash", "panic", "no_finding"}

Told == {i \in DOMAIN findings : findings[i].whole}
Ahead == {p \in {Plan[i].replay : i \in DOMAIN Plan} :
             pc \in {"record", "stopped"} /\ item \in DOMAIN Plan /\ p = Current.replay}

\* Whenever the run stops, findings.jsonl and the records tell the same: the
\* findings are those of the replays recorded as contract findings, each once
\* and in their order, and at most those of one replay more, the last one.
FindingsOfRecords ==
    /\ \A r \in DOMAIN records : records[r].outcome = "contract_finding" =>
           \E i \in Told : findings[i].replay = records[r].replay
    /\ \A i \in Told : \/ findings[i].replay \in Ahead
                       \/ \E r \in DOMAIN records : /\ records[r].outcome = "contract_finding"
                                                    /\ records[r].replay = findings[i].replay
    /\ \A i, j \in DOMAIN findings : i < j => findings[i].replay # findings[j].replay
    /\ \A i \in DOMAIN findings : ~findings[i].whole => i = Len(findings) /\ stage # "final"

\* What was judged was judged by the facts of the build it is recorded for, or
\* by none, although the facts are read again after the program has run; and a
\* trace that holds a finding is never recorded as one that does not.
JudgedByItsBuild ==
    \A i \in DOMAIN records :
        LET r == records[i] IN
        r.child.status = "exit0" =>
            /\ r.trace # "empty" => r.judgedBy \subseteq {r.build}
            /\ r.trace = "finding" <=> r.outcome = "contract_finding"
            /\ r.outcome = "contract_finding" => r.judgedBy # {}

\* A replay that failed counts neither as a finding nor as none, and has one
\* kind of evidence; except for a child that printed a panic and was then
\* killed by a signal, which is recorded as no finding.
Aborted(r) == r.child = [status |-> "signaled", panic |-> TRUE]
FailedApart ==
    \A i \in DOMAIN records :
        LET r == records[i] IN
        IF r.child.status = "exit0" THEN r.outcome \in {"contract_finding", "no_finding"}
        ELSE ~Aborted(r) => r.outcome \notin {"contract_finding", "no_finding"}
                            /\ r.evidence = {r.outcome}

\* A final run is complete: one record for each replay of the plan, in its
\* order, and one check for each other item; every log was required and the
\* traces of the replays that exited with 0; the buckets count every replay once.
FinalComplete ==
    stage = "final" =>
        /\ {records[r].replay : r \in DOMAIN records} =
               {Plan[i].replay : i \in {k \in DOMAIN Plan : Plan[k].kind = "replay"}}
        /\ \A r, s \in DOMAIN records, i, j \in DOMAIN Plan :
               r < s /\ records[r].replay = Plan[i].replay /\ records[s].replay = Plan[j].replay => i < j
        /\ Len(records) + Len(checks) = Len(Plan)
        /\ required = {<<"log", Plan[i].replay>> : i \in DOMAIN Plan}
               \cup {<<"trace", records[i].replay>> :
                         i \in {j \in DOMAIN records : records[j].child.status = "exit0"}}
        /\ Cardinality(UNION {{b} \X (1..b.count) : b \in summary}) = Len(records)
=============================================================================
