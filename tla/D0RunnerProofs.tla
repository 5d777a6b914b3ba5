-------------------------- MODULE D0RunnerProofs --------------------------
(***************************************************************************)
(* run_d0 for every plan and every set of builds: what the findings file   *)
(* and the records say, wherever the run stops.                            *)
(***************************************************************************)
EXTENDS D0Runner, SequenceTheorems, FiniteSetTheorems, FunctionTheorems, TLAPS

Replays == {Plan[i].replay : i \in DOMAIN Plan}
Cases == {Plan[i].case : i \in DOMAIN Plan}
Evidence == {"timeout", "contract_finding", "native_crash", "panic"}
Outcomes == Evidence \cup {"no_finding"}
BuildIds == Builds \cup {"metadata"}
Children == [status : Statuses, panic : BOOLEAN]
Record == [replay : Replays, case : Cases, build : BuildIds, outcome : Outcomes,
           evidence : SUBSET Evidence, child : Children, trace : Traces, judgedBy : SUBSET Builds]
Entry == [replay : Replays, whole : BOOLEAN]

\* A record that tells what JudgedByItsBuild and FailedApart say of it.
Sound(r) ==
    /\ r.child.status = "exit0" =>
           /\ r.trace # "empty" => r.judgedBy \subseteq {r.build}
           /\ r.trace = "finding" <=> r.outcome = "contract_finding"
           /\ r.outcome = "contract_finding" => r.judgedBy # {}
           /\ r.outcome \in {"contract_finding", "no_finding"}
    /\ r.child.status # "exit0" /\ ~Aborted(r) =>
           /\ r.outcome \notin {"contract_finding", "no_finding"}
           /\ r.evidence = {r.outcome}

TypeInv == TypeOK /\ records \in Seq(Record) /\ findings \in Seq(Entry)

\* The record that is about to be appended.
RecordInv ==
    /\ \A i \in DOMAIN records : Sound(records[i])
    /\ pc \in {"findings", "record"} =>
           record \in Record /\ Sound(record) /\ record.replay = Current.replay
    /\ pc = "failure" => child.status # "exit0"
    /\ pc \in {"flatten", "analyze"} => child.status = "exit0"
    /\ pc = "findings" => (record.outcome = "contract_finding" <=> trace = "finding")

\* The replays recorded so far, and those with an entry in findings.jsonl.
FindingsInv ==
    /\ \A r \in DOMAIN records : \E k \in DOMAIN Plan : k < item /\ records[r].replay = Plan[k].replay
    /\ \A i \in DOMAIN findings : \E k \in DOMAIN Plan :
           /\ findings[i].replay = Plan[k].replay
           /\ k < item \/ (k = item /\ pc \in {"record", "stopped"})
    /\ pc # "stopped" => \A i \in DOMAIN findings : findings[i].whole
    /\ pc = "record" =>
           (record.outcome = "contract_finding" <=>
                \E i \in DOMAIN findings : findings[i].replay = Current.replay)
    /\ stage = "final" => pc = "done"
    /\ FindingsOfRecords

IInv == TypeInv /\ RecordInv /\ FindingsInv

-----------------------------------------------------------------------------
LEMMA FailureIsSound ==
    ASSUME TypeOK, pc = "failure", child.status # "exit0"
    PROVE  LET r == RecordOf(FailureEvidence, {})
           IN  r \in Record /\ Sound(r) /\ r.replay = Current.replay /\ r.outcome # "contract_finding"
<1> DEFINE e == FailureEvidence
<1>1. /\ "timeout" \in e <=> child.status = "timed_out"
      /\ "panic" \in e <=> child.status = "exit_other" /\ child.panic
      /\ "native_crash" \in e <=> child.status # "timed_out" /\ ~child.panic
      /\ e \subseteq {"timeout", "panic", "native_crash"}
  BY DEF FailureEvidence
<1> HIDE DEF e
<1>2. child.status \in {"exit_other", "signaled", "timed_out"} /\ child.panic \in BOOLEAN /\ child \in Children
  BY DEF TypeOK, Statuses, Children
<1>3. Outcome(e) = IF "timeout" \in e THEN "timeout" ELSE IF "native_crash" \in e THEN "native_crash"
                   ELSE IF "panic" \in e THEN "panic" ELSE "no_finding"
  BY <1>1 DEF Outcome
<1>4. Outcome(e) \in Outcomes \ {"contract_finding"}
  BY <1>3 DEF Outcomes, Evidence
<1>5. e \in SUBSET Evidence
  BY <1>1 DEF Evidence
<1>6. Current.replay \in Replays /\ Current.case \in Cases /\ build \in BuildIds /\ trace \in Traces
  BY DEF TypeOK, Current, Replays, Cases, BuildIds
<1>7. RecordOf(e, {}) \in Record
  BY <1>2, <1>4, <1>5, <1>6 DEF RecordOf, Record
<1>8. ~(child.status = "signaled" /\ child.panic) => Outcome(e) # "no_finding" /\ e = {Outcome(e)}
  BY <1>1, <1>2, <1>3
<1>9. Sound(RecordOf(e, {}))
  <2>1. Aborted(RecordOf(e, {})) <=> child.status = "signaled" /\ child.panic
    BY <1>2 DEF RecordOf, Aborted, Children
  <2> QED BY <1>4, <1>8, <2>1 DEF Sound, RecordOf
<1> QED BY <1>4, <1>7, <1>9 DEF RecordOf, e

LEMMA AnalysisIsSound ==
    ASSUME TypeOK, pc = "analyze", child.status = "exit0", Analyze
    PROVE  /\ record' \in Record /\ Sound(record') /\ record'.replay = Current.replay
           /\ record'.outcome = "contract_finding" <=> trace = "finding"
<1> DEFINE e == IF trace = "finding" THEN {"contract_finding"} ELSE {}
           j == {facts} \ {"none"}
<1>1. record' = RecordOf(e, j)
  BY DEF Analyze, Judged
<1>2. Outcome(e) = IF trace = "finding" THEN "contract_finding" ELSE "no_finding"
  BY DEF Outcome
<1>3. trace # "empty" => j \subseteq {build}
  BY DEF Analyze
<1>4. trace = "finding" => j # {}
  BY DEF Analyze
<1>5. e \in SUBSET Evidence /\ j \in SUBSET Builds /\ Outcome(e) \in Outcomes
  BY <1>2 DEF Evidence, Outcomes, TypeOK
<1> HIDE DEF e, j
<1>6. Current.replay \in Replays /\ Current.case \in Cases /\ build \in BuildIds /\ trace \in Traces
      /\ child \in Children
  BY DEF TypeOK, Current, Replays, Cases, BuildIds, Children
<1>7. RecordOf(e, j) \in Record
  BY <1>5, <1>6 DEF RecordOf, Record
<1>8. Sound(RecordOf(e, j))
  BY <1>2, <1>3, <1>4 DEF Sound, RecordOf
<1> QED BY <1>1, <1>2, <1>7, <1>8 DEF RecordOf

LEMMA InitIInv == Init => IInv
<1> SUFFICES ASSUME Init PROVE IInv
  OBVIOUS
<1>1. TypeInv
  BY D0RunnerAssumption DEF Init, TypeInv, TypeOK, Statuses, Traces
<1>2. RecordInv
  BY DEF Init, RecordInv
<1>3. FindingsInv
  BY DEF Init, FindingsInv, FindingsOfRecords, Told
<1> QED BY <1>1, <1>2, <1>3 DEF IInv

-----------------------------------------------------------------------------
(* A step that adds neither a finding nor a record. *)

LEMMA QuietFindings ==
    ASSUME IInv, UNCHANGED <<item, findings, records>>,
           pc # "stopped", pc # "done", pc' # "record" \/ (pc = "record" /\ UNCHANGED record),
           pc = "record" => pc' \in {"record", "stopped"},
           stage' = "final" => pc' = "done"
    PROVE  FindingsInv'
<1> USE DEF IInv, FindingsInv
<1>1. \A i \in DOMAIN findings : findings[i].whole
  OBVIOUS
<1>2. \A r \in DOMAIN records' : \E k \in DOMAIN Plan : k < item' /\ records'[r].replay = Plan[k].replay
  OBVIOUS
<1>3. \A i \in DOMAIN findings' : \E k \in DOMAIN Plan :
           /\ findings'[i].replay = Plan[k].replay
           /\ k < item' \/ (k = item' /\ pc' \in {"record", "stopped"})
  OBVIOUS
<1>4. FindingsOfRecords'
  BY <1>1 DEF FindingsOfRecords, Told, Ahead, Current
<1>5. pc' = "record" => (record'.outcome = "contract_finding" <=>
                           \E i \in DOMAIN findings' : findings'[i].replay = Current'.replay)
  BY DEF Current
<1> QED BY <1>1, <1>2, <1>3, <1>4, <1>5

LEMMA QuietRecords ==
    ASSUME IInv, UNCHANGED <<item, records>>,
           pc' \notin {"findings", "record", "failure", "flatten", "analyze"}
    PROVE  RecordInv'
BY DEF IInv, RecordInv, TypeInv

-----------------------------------------------------------------------------
(* One lemma for each group of actions. *)

LEMMA QuietIInv ==
    ASSUME IInv, \/ Create \/ Begin \/ ReadBuild \/ FlattenTrace \/ Summarize \/ Finalize
                 \/ \E status \in Statuses, panic \in BOOLEAN, left \in Traces : RunChild(status, panic, left)
                 \/ \E b \in Builds \cup {"none"} : Rebuild(b)
    PROVE  IInv'
<1> USE DEF IInv, written, replaying, Step
<1>1. CASE Create
  BY <1>1, QuietFindings, QuietRecords DEF Create, TypeInv, TypeOK, FindingsInv
<1>2. CASE Begin
  BY <1>2, QuietFindings, QuietRecords DEF Begin, TypeInv, TypeOK, FindingsInv
<1>3. CASE ReadBuild
  BY <1>3, QuietFindings, QuietRecords DEF ReadBuild, TypeInv, TypeOK, FindingsInv
<1>4. CASE FlattenTrace
  <2>1. RecordInv'
    BY <1>4 DEF FlattenTrace, RecordInv
  <2> QED BY <1>4, <2>1, QuietFindings DEF FlattenTrace, TypeInv, TypeOK, FindingsInv
<1>5. CASE Summarize
  BY <1>5, QuietFindings, QuietRecords DEF Summarize, TypeInv, TypeOK, FindingsInv
<1>6. CASE Finalize
  BY <1>6, QuietFindings, QuietRecords DEF Finalize, TypeInv, TypeOK
<1>7. ASSUME NEW status \in Statuses, NEW panic \in BOOLEAN, NEW left \in Traces,
             RunChild(status, panic, left)
      PROVE  IInv'
  <2> USE <1>7 DEF RunChild, Ran
  <2>1. child' = [status |-> status, panic |-> panic] /\ UNCHANGED <<records, item, findings, stage>>
    OBVIOUS
  <2>2. pc = "run" /\ pc' = IF status = "exit0" THEN "flatten" ELSE "failure"
    OBVIOUS
  <2>3. TypeInv'
    BY <2>1, <2>2 DEF TypeInv, TypeOK
  <2>4. RecordInv'
    BY <2>1, <2>2 DEF RecordInv
  <2>5. FindingsInv'
    BY <2>1, <2>2, QuietFindings DEF FindingsInv
  <2> QED BY <2>3, <2>4, <2>5
<1>8. ASSUME NEW b \in Builds \cup {"none"}, Rebuild(b) PROVE IInv'
  <2> USE <1>8 DEF Rebuild, Stopped
  <2>1. TypeInv'
    BY DEF TypeInv, TypeOK
  <2>2. RecordInv'
    BY DEF RecordInv, Current
  <2>3. FindingsInv'
    BY QuietFindings DEF FindingsInv
  <2> QED BY <2>1, <2>2, <2>3
<1> QED BY <1>1, <1>2, <1>3, <1>4, <1>5, <1>6, <1>7, <1>8

\* No entry of findings.jsonl is of the current replay before it is judged.
LEMMA CurrentIsNew ==
    ASSUME IInv, item \in DOMAIN Plan, pc \notin {"record", "stopped"}
    PROVE  \A i \in DOMAIN findings : findings[i].replay # Current.replay
BY D0RunnerAssumption DEF IInv, FindingsInv, Current

LEMMA FailureIInv == ASSUME IInv, Failure PROVE IInv'
<1> USE DEF IInv, Failure, written, Step
<1>1. TypeInv'
  BY DEF TypeInv, TypeOK
<1>2. RecordInv'
  BY FailureIsSound DEF RecordInv, TypeInv, Current
<1>3. FindingsInv'
  <2>1. item \in DOMAIN Plan
    BY DEF TypeInv, TypeOK
  <2>2. \A i \in DOMAIN findings : findings[i].replay # Current.replay
    BY <2>1, CurrentIsNew
  <2>3. record'.outcome # "contract_finding"
    BY FailureIsSound DEF RecordInv, TypeInv
  <2>4. FindingsOfRecords'
    BY DEF FindingsInv, FindingsOfRecords, Told, Ahead, Current
  <2> QED BY <2>2, <2>3, <2>4 DEF FindingsInv, Current
<1> QED BY <1>1, <1>2, <1>3

LEMMA AnalyzeIInv == ASSUME IInv, Analyze PROVE IInv'
<1> USE DEF IInv, written, Step
<1>1. /\ pc = "analyze" /\ pc' = "findings"
      /\ UNCHANGED <<item, facts, build, child, trace, stage, findings, records, checks>>
  BY DEF Analyze, Judged
<1>2. TypeInv'
  BY <1>1 DEF TypeInv, TypeOK
<1>3. RecordInv'
  BY <1>1, AnalysisIsSound DEF RecordInv, TypeInv, Current
<1>4. FindingsInv'
  <2>1. Ahead' = {} /\ Ahead = {} /\ Current' = Current
    BY <1>1 DEF Ahead, Current
  <2>2. FindingsOfRecords'
    BY <1>1, <2>1 DEF FindingsInv, FindingsOfRecords, Told
  <2> QED BY <1>1, <2>1, <2>2 DEF FindingsInv
<1> QED BY <1>2, <1>3, <1>4

LEMMA AppendFindingsIInv == ASSUME IInv, AppendFindings PROVE IInv'
<1> USE DEF IInv, AppendFindings, replaying, Step
<1> DEFINE entry == [replay |-> Current.replay, whole |-> TRUE]
<1>1. item \in DOMAIN Plan /\ entry \in Entry
  <2>1. item \in DOMAIN Plan
    BY DEF TypeInv, TypeOK
  <2>2. Current.replay \in Replays
    BY <2>1 DEF Replays, Current
  <2> QED BY <2>1, <2>2 DEF Entry
<1>2. \A i \in DOMAIN findings : findings[i].replay # Current.replay /\ findings[i].whole
  BY <1>1, CurrentIsNew DEF FindingsInv
<1>3. RecordInv'
  BY DEF RecordInv, Current
<1>4. CASE trace # "finding"
  <2>1. TypeInv'
    BY <1>4 DEF TypeInv, TypeOK
  <2>2. FindingsOfRecords'
    BY <1>4 DEF FindingsInv, FindingsOfRecords, Told, Ahead, Current
  <2>3. FindingsInv'
    BY <1>2, <1>4, <2>2 DEF FindingsInv, RecordInv, Current
  <2> QED BY <1>3, <2>1, <2>3
<1>5. CASE trace = "finding"
  <2>1. findings' = Append(findings, entry)
    BY <1>5
  <2>2. /\ findings' \in Seq(Entry) /\ Len(findings') = Len(findings) + 1
        /\ DOMAIN findings = 1..Len(findings) /\ DOMAIN findings' = 1..(Len(findings) + 1)
        /\ \A i \in DOMAIN findings : findings'[i] = findings[i]
        /\ findings'[Len(findings) + 1] = entry /\ Len(findings) \in Nat
    BY <1>1, <2>1 DEF TypeInv
  <2>3. TypeInv'
    BY <2>2 DEF TypeInv, TypeOK
  <2>4. UNCHANGED <<item, records, record, trace, stage>> /\ pc = "findings" /\ pc' = "record"
    OBVIOUS
  <2>5. FindingsOfRecords'
    <3> HIDE DEF AppendFindings
    <3>1. \A r \in DOMAIN records' : records'[r].outcome = "contract_finding" =>
              \E i \in Told' : findings'[i].replay = records'[r].replay
      BY <2>2, <2>4 DEF FindingsInv, FindingsOfRecords, Told
    <3>2. \A i \in Told' : \/ findings'[i].replay \in Ahead'
                            \/ \E r \in DOMAIN records' : /\ records'[r].outcome = "contract_finding"
                                                          /\ records'[r].replay = findings'[i].replay
      BY <1>1, <2>2, <2>4 DEF FindingsInv, FindingsOfRecords, Told, Ahead, Current
    <3>3. \A i, j \in DOMAIN findings' : i < j => findings'[i].replay # findings'[j].replay
      BY <1>2, <2>2 DEF FindingsInv, FindingsOfRecords
    <3>4. \A i \in DOMAIN findings' : findings'[i].whole
      BY <1>2, <2>2
    <3> QED BY <3>1, <3>2, <3>3, <3>4 DEF FindingsOfRecords
  <2>6. FindingsInv'
    <3>1. \A i \in DOMAIN findings' : \E k \in DOMAIN Plan :
              /\ findings'[i].replay = Plan[k].replay
              /\ k < item' \/ (k = item' /\ pc' \in {"record", "stopped"})
      BY <1>1, <2>2, <2>4 DEF FindingsInv, Current
    <3>2. \A i \in DOMAIN findings' : findings'[i].whole
      BY <1>2, <2>2
    <3>3. record'.outcome = "contract_finding" /\ findings'[Len(findings) + 1].replay = Current'.replay
      BY <1>5, <2>2, <2>4 DEF RecordInv, Current
    <3> QED BY <2>2, <2>4, <2>5, <3>1, <3>2, <3>3 DEF FindingsInv
  <2> QED BY <1>3, <2>3, <2>6
<1> QED BY <1>4, <1>5

LEMMA AppendRecordIInv == ASSUME IInv, AppendRecord PROVE IInv'
<1> USE DEF IInv, AppendRecord, replaying, Step
<1>1. item \in DOMAIN Plan /\ record \in Record /\ Sound(record) /\ record.replay = Current.replay
  BY DEF TypeInv, TypeOK, RecordInv
<1>2. /\ records' \in Seq(Record) /\ Len(records') = Len(records) + 1
      /\ DOMAIN records = 1..Len(records) /\ DOMAIN records' = 1..(Len(records) + 1)
      /\ \A i \in DOMAIN records : records'[i] = records[i]
      /\ records'[Len(records) + 1] = record /\ Len(records) \in Nat
  BY <1>1 DEF TypeInv
<1>3. pc = "record" /\ pc' = "next" /\ item' = item + 1 /\ UNCHANGED <<facts, build, child, trace, stage, findings>>
  OBVIOUS
<1> HIDE DEF AppendRecord
<1>4. TypeInv'
  <2>1. item' \in 1..(Len(Plan) + 1)
    BY <1>1, <1>3, D0RunnerAssumption
  <2>2. \A i \in DOMAIN records' : records'[i].outcome \in Outcomes
    <3>1. \A i \in DOMAIN records' : records'[i] \in Record
      BY <1>2
    <3> QED BY <3>1 DEF Record
  <2>3. TypeOK'
    BY <1>1, <1>3, <2>1, <2>2 DEF TypeInv, TypeOK, Outcomes, Evidence
  <2> QED BY <1>2, <1>3, <2>3 DEF TypeInv
<1>5. RecordInv'
  BY <1>1, <1>2, <1>3 DEF RecordInv
<1>6. \A r \in DOMAIN records' : \E k \in DOMAIN Plan : k < item' /\ records'[r].replay = Plan[k].replay
  BY <1>1, <1>2, <1>3, D0RunnerAssumption DEF FindingsInv, Current
<1>7. \A i \in DOMAIN findings' : \E k \in DOMAIN Plan :
          findings'[i].replay = Plan[k].replay /\ (k < item' \/ (k = item' /\ pc' \in {"record", "stopped"}))
  BY <1>1, <1>3, D0RunnerAssumption DEF FindingsInv
<1>8. \A i \in DOMAIN findings : findings[i].whole
  BY <1>3 DEF FindingsInv
<1>9. FindingsOfRecords'
  <2>1. \A r \in DOMAIN records' : records'[r].outcome = "contract_finding" =>
            \E i \in Told' : findings'[i].replay = records'[r].replay
    BY <1>1, <1>2, <1>3, <1>8 DEF FindingsInv, FindingsOfRecords, Told
  <2>2. \A i \in Told' : \E r \in DOMAIN records' : /\ records'[r].outcome = "contract_finding"
                                                     /\ records'[r].replay = findings'[i].replay
    BY <1>1, <1>2, <1>3 DEF FindingsInv, FindingsOfRecords, Told, Ahead
  <2> QED BY <1>3, <1>8, <2>1, <2>2 DEF FindingsInv, FindingsOfRecords
<1>10. FindingsInv'
  BY <1>3, <1>6, <1>7, <1>8, <1>9 DEF FindingsInv
<1> QED BY <1>4, <1>5, <1>10

LEMMA CompileCheckIInv ==
    ASSUME IInv, NEW status \in Statuses, CompileCheck(status) PROVE IInv'
<1> USE DEF IInv, Step
<1>1. /\ pc = "check" /\ pc' = "next" /\ item' = item + 1
      /\ UNCHANGED <<facts, build, trace, record, stage, findings, records>>
      /\ child' = [status |-> status, panic |-> FALSE]
  BY DEF CompileCheck, Ran
<1>2. item \in DOMAIN Plan
  BY <1>1 DEF TypeInv, TypeOK
<1>3. TypeInv'
  <2>1. item' \in 1..(Len(Plan) + 1)
    BY <1>1, <1>2, D0RunnerAssumption
  <2> QED BY <1>1, <2>1 DEF TypeInv, TypeOK
<1>4. RecordInv'
  BY <1>1 DEF RecordInv
<1>5. FindingsOfRecords'
  BY <1>1 DEF FindingsInv, FindingsOfRecords, Told, Ahead
<1>6. FindingsInv'
  BY <1>1, <1>2, <1>5, D0RunnerAssumption DEF FindingsInv
<1> QED BY <1>3, <1>4, <1>6

LEMMA StopIInv == ASSUME IInv, NEW torn \in BOOLEAN, Stop(torn) PROVE IInv'
<1> USE DEF IInv, Stop, Stopped, replaying
<1> DEFINE entry == [replay |-> Current.replay, whole |-> FALSE]
<1>1. RecordInv'
  BY DEF RecordInv
<1>2. CASE findings' = findings
  <2>1. TypeInv'
    BY <1>2 DEF TypeInv, TypeOK
  <2>2. FindingsInv'
    BY <1>2, QuietFindings DEF FindingsInv
  <2> QED BY <1>1, <2>1, <2>2
<1>3. CASE findings' # findings
  <2>1. pc = "findings" /\ pc' = "stopped" /\ findings' = Append(findings, entry)
        /\ UNCHANGED <<item, records, record, stage, facts, build, child, trace>>
    BY <1>3 DEF Torn
  <2>2. item \in DOMAIN Plan /\ Current.replay \in Replays
    BY <2>1 DEF TypeInv, TypeOK, Replays, Current
  <2>3. entry \in Entry
    BY <2>2 DEF Entry
  <2>4. /\ findings' \in Seq(Entry)
        /\ DOMAIN findings = 1..Len(findings) /\ DOMAIN findings' = 1..(Len(findings) + 1)
        /\ Len(findings') = Len(findings) + 1
        /\ \A i \in DOMAIN findings : findings'[i] = findings[i]
        /\ findings'[Len(findings) + 1] = entry /\ Len(findings) \in Nat
    BY <2>1, <2>3 DEF TypeInv
  <2>5. \A i \in DOMAIN findings : findings[i].replay # Current.replay /\ findings[i].whole
    BY <2>1, <2>2, CurrentIsNew DEF FindingsInv
  <2> HIDE DEF Stop
  <2>6. TypeInv'
    BY <2>1, <2>4 DEF TypeInv, TypeOK
  <2>7. \A i \in DOMAIN findings' : \E k \in DOMAIN Plan :
            findings'[i].replay = Plan[k].replay /\ (k < item' \/ (k = item' /\ pc' \in {"record", "stopped"}))
    BY <2>1, <2>2, <2>4 DEF FindingsInv, Current
  <2>8. FindingsOfRecords'
    <3>1. \A r \in DOMAIN records' : records'[r].outcome = "contract_finding" =>
              \E i \in Told' : findings'[i].replay = records'[r].replay
      BY <2>1, <2>4 DEF FindingsInv, FindingsOfRecords, Told
    <3>2. \A i \in Told' : \/ findings'[i].replay \in Ahead'
                            \/ \E r \in DOMAIN records' : /\ records'[r].outcome = "contract_finding"
                                                          /\ records'[r].replay = findings'[i].replay
      BY <2>1, <2>4 DEF FindingsInv, FindingsOfRecords, Told, Ahead
    <3>3. \A i, j \in DOMAIN findings' : i < j => findings'[i].replay # findings'[j].replay
      BY <2>4, <2>5 DEF FindingsInv, FindingsOfRecords
    <3>4. \A i \in DOMAIN findings' : ~findings'[i].whole => i = Len(findings')
      BY <2>4, <2>5
    <3>5. stage' # "final"
      BY <2>1 DEF FindingsInv
    <3> QED BY <3>1, <3>2, <3>3, <3>4, <3>5 DEF FindingsOfRecords
  <2>9. FindingsInv'
    BY <2>1, <2>7, <2>8 DEF FindingsInv
  <2> QED BY <1>1, <2>6, <2>9
<1> QED BY <1>2, <1>3

LEMMA Invariant == Spec => []IInv
<1>1. IInv /\ [Next]_vars => IInv'
  <2> SUFFICES ASSUME IInv, [Next]_vars PROVE IInv'
    OBVIOUS
  <2>1. CASE UNCHANGED vars
    <3>1. TypeInv' /\ RecordInv'
      BY <2>1 DEF vars, IInv, TypeInv, TypeOK, RecordInv, Current
    <3>2. FindingsInv'
      BY <2>1 DEF vars, IInv, FindingsInv, FindingsOfRecords, Told, Ahead, Current
    <3> QED BY <3>1, <3>2 DEF IInv
  <2> QED BY <2>1, QuietIInv, FailureIInv, AnalyzeIInv, AppendFindingsIInv, AppendRecordIInv,
             CompileCheckIInv, StopIInv DEF Next
<1> QED BY <1>1, InitIInv, PTL DEF Spec

-----------------------------------------------------------------------------
\* The state of run_d0 has its type, for every plan and every set of builds.
THEOREM TypeCorrect == Spec => []TypeOK
BY Invariant, PTL DEF IInv, TypeInv

\* write_findings and append_replay: wherever the run stops, findings.jsonl and
\* the records tell the same, whatever the plan and however it is torn.
THEOREM FindingsAreOfRecords == Spec => []FindingsOfRecords
BY Invariant, PTL DEF IInv, FindingsInv

\* analyze_d0_replay: whoever rebuilds the program and whenever, a replay is
\* judged by the facts of the build it is recorded for.
THEOREM JudgedRight == Spec => []JudgedByItsBuild
<1>1. IInv => JudgedByItsBuild
  BY DEF IInv, RecordInv, Sound, JudgedByItsBuild
<1> QED BY <1>1, Invariant, PTL

\* child_failure_record: a replay that failed counts neither as a finding nor
\* as none, but for a program that panics and is then killed.
THEOREM FailuresAreApart == Spec => []FailedApart
<1>1. IInv => FailedApart
  BY DEF IInv, RecordInv, Sound, FailedApart
<1> QED BY <1>1, Invariant, PTL

-----------------------------------------------------------------------------
(* A final run is complete.                                                  *)

\* The work items that are recorded, and those whose program has been run.
Recorded == {k \in DOMAIN Plan : k < item /\ Plan[k].kind = "replay"}
Begun == {k \in DOMAIN Plan :
             k < item \/ (k = item /\ pc \in {"failure", "flatten", "analyze", "findings", "record"})}

\* The replays of which a trace is flattened: recorded ones, or the current one.
Exited == {r \in DOMAIN records : records[r].child.status = "exit0"}
Flattened == {records[r].replay : r \in Exited}
             \cup IF \/ pc \in {"analyze", "findings"}
                     \/ pc = "record" /\ record.child.status = "exit0"
                  THEN {Current.replay} ELSE {}

Needed == {<<"log", Plan[k].replay>> : k \in Begun} \cup {<<"trace", r>> : r \in Flattened}

KindInv ==
    /\ pc \in {"facts", "run", "failure", "flatten", "analyze", "findings", "record"} => Current.kind = "replay"
    /\ pc = "check" => Current.kind = "compile_check"
    /\ pc \in {"finalize", "done"} => item = Len(Plan) + 1
    /\ pc = "findings" => record.child.status = "exit0"

PlanInv ==
    /\ checks \in Seq([replay : Replays, status : Statuses])
    /\ Len(records) + Len(checks) + 1 = item
    /\ {records[r].replay : r \in DOMAIN records} = {Plan[k].replay : k \in Recorded}
    /\ \A r, s \in DOMAIN records, i, j \in DOMAIN Plan :
           r < s /\ records[r].replay = Plan[i].replay /\ records[s].replay = Plan[j].replay => i < j

RequiredInv == pc # "stopped" => required = Needed

Buckets == {[key |-> Key(records[i]), count |-> Cardinality(Bucket(Key(records[i])))] : i \in DOMAIN records}
SummaryInv == pc \in {"finalize", "done"} => summary = Buckets

CompleteInv == KindInv /\ PlanInv /\ RequiredInv /\ SummaryInv

\* A work item is worked on as its kind says, and the plan is at its end when it
\* is summarized.
LEMMA KindStep == ASSUME IInv, KindInv, [Next]_vars PROVE KindInv'
<1> USE DEF KindInv, Step, written, replaying, Current
<1>t. item \in 1..(Len(Plan) + 1) /\ Len(Plan) \in Nat /\ DOMAIN Plan = 1..Len(Plan)
  BY D0RunnerAssumption DEF IInv, TypeInv, TypeOK
<1>k. \A i \in DOMAIN Plan : Plan[i].kind \in {"replay", "compile_check"}
  BY D0RunnerAssumption
<1>1. CASE Create \/ Begin \/ ReadBuild \/ FlattenTrace \/ UNCHANGED vars
  BY <1>1, <1>k DEF Create, Begin, ReadBuild, FlattenTrace, vars
<1>2. CASE Summarize \/ Finalize
  BY <1>2, <1>t DEF Summarize, Finalize
<1>3. ASSUME NEW status \in Statuses, NEW panic \in BOOLEAN, NEW left \in Traces,
             RunChild(status, panic, left)
      PROVE  KindInv'
  BY <1>3 DEF RunChild
<1>4. CASE Failure
  BY <1>4 DEF Failure
<1>5. CASE Analyze
  <2>1. record'.child = child /\ child.status = "exit0"
    BY <1>5 DEF Analyze, Judged, RecordOf, IInv, RecordInv
  <2>2. QED BY <1>5, <2>1 DEF Analyze, Judged
<1>6. CASE AppendFindings \/ AppendRecord
  BY <1>6 DEF AppendFindings, AppendRecord
<1>7. ASSUME NEW status \in Statuses, CompileCheck(status) PROVE KindInv'
  BY <1>7 DEF CompileCheck
<1>8. ASSUME NEW torn \in BOOLEAN, Stop(torn) PROVE KindInv'
  BY <1>8 DEF Stop
<1>9. ASSUME NEW b \in Builds \cup {"none"}, Rebuild(b) PROVE KindInv'
  BY <1>9 DEF Rebuild
<1>10. QED BY <1>1, <1>2, <1>3, <1>4, <1>5, <1>6, <1>7, <1>8, <1>9 DEF Next

\* Only the last step of a work item adds to the records or to the checks.
LEMMA QuietSteps ==
    ASSUME [Next]_vars
    PROVE  \/ UNCHANGED <<item, records, checks>>
           \/ AppendRecord
           \/ \E status \in Statuses : CompileCheck(status)
<1> USE DEF written
<1>1. CASE Create \/ Begin \/ ReadBuild \/ FlattenTrace \/ Summarize \/ Finalize \/ UNCHANGED vars
  BY <1>1 DEF Create, Begin, ReadBuild, FlattenTrace, Summarize, Finalize, vars
<1>2. CASE Failure \/ Analyze \/ AppendFindings
  BY <1>2 DEF Failure, Analyze, Judged, AppendFindings
<1>3. ASSUME NEW status \in Statuses, NEW panic \in BOOLEAN, NEW left \in Traces,
             RunChild(status, panic, left)
      PROVE  UNCHANGED <<item, records, checks>>
  BY <1>3 DEF RunChild
<1>4. ASSUME NEW torn \in BOOLEAN, Stop(torn) PROVE UNCHANGED <<item, records, checks>>
  BY <1>4 DEF Stop
<1>5. ASSUME NEW b \in Builds \cup {"none"}, Rebuild(b) PROVE UNCHANGED <<item, records, checks>>
  BY <1>5 DEF Rebuild
<1>6. QED BY <1>1, <1>2, <1>3, <1>4, <1>5 DEF Next

\* The records and checks are those of the items before the current one.
LEMMA PlanStep == ASSUME IInv, KindInv, PlanInv, [Next]_vars PROVE PlanInv'
<1>t. /\ item \in 1..(Len(Plan) + 1) /\ Len(Plan) \in Nat /\ DOMAIN Plan = 1..Len(Plan)
      /\ pc \in {"record", "check"} => item \in DOMAIN Plan
  BY D0RunnerAssumption DEF IInv, TypeInv, TypeOK
<1>1. CASE UNCHANGED <<item, records, checks>>
  BY <1>1 DEF PlanInv, Recorded
<1>2. CASE AppendRecord
  <2>1. pc = "record" /\ records' = Append(records, record) /\ item' = item + 1 /\ checks' = checks
    BY <1>2 DEF AppendRecord, Step
  <2>2. record \in Record /\ record.replay = Current.replay /\ records \in Seq(Record)
    BY <2>1 DEF IInv, RecordInv, TypeInv
  <2>3. /\ Len(records') = Len(records) + 1 /\ Len(records) \in Nat
        /\ DOMAIN records = 1..Len(records) /\ DOMAIN records' = 1..(Len(records) + 1)
        /\ \A i \in DOMAIN records : records'[i] = records[i]
        /\ records'[Len(records) + 1].replay = Plan[item].replay
    BY <2>1, <2>2 DEF Current
  <2>4. {records'[r].replay : r \in DOMAIN records'} =
            {records[r].replay : r \in DOMAIN records} \cup {Plan[item].replay}
    BY <2>3
  <2>5. Recorded' = Recorded \cup {item}
    BY <2>1, <1>t DEF Recorded, KindInv, Current
  <2>6. {records'[r].replay : r \in DOMAIN records'} = {Plan[k].replay : k \in Recorded'}
    BY <2>4, <2>5 DEF PlanInv
  <2>7. \A r, s \in DOMAIN records', i, j \in DOMAIN Plan :
           r < s /\ records'[r].replay = Plan[i].replay /\ records'[s].replay = Plan[j].replay => i < j
    <3> SUFFICES ASSUME NEW r \in DOMAIN records', NEW s \in DOMAIN records',
                        NEW i \in DOMAIN Plan, NEW j \in DOMAIN Plan,
                        r < s, records'[r].replay = Plan[i].replay, records'[s].replay = Plan[j].replay
                 PROVE  i < j
      OBVIOUS
    <3>1. r \in DOMAIN records
      BY <2>3
    <3>2. CASE s \in DOMAIN records
      BY <2>3, <3>1, <3>2 DEF PlanInv
    <3>3. CASE s = Len(records) + 1
      <4>1. j = item
        BY <2>3, <2>1, <3>3, <1>t, D0RunnerAssumption
      <4>2. PICK k \in DOMAIN Plan : k < item /\ records[r].replay = Plan[k].replay
        BY <3>1 DEF IInv, FindingsInv
      <4>3. i = k
        BY <4>2, <3>1, <2>3, D0RunnerAssumption
      <4>4. QED BY <4>1, <4>2, <4>3
    <3>4. QED BY <2>3, <3>2, <3>3
  <2>8. Len(records') + Len(checks') + 1 = item'
    <3>1. Len(checks) \in Nat /\ Len(records) \in Nat /\ Len(records) + Len(checks) + 1 = item
      BY <2>3 DEF PlanInv
    <3>2. Len(records') = Len(records) + 1 /\ Len(checks') = Len(checks) /\ item' = item + 1
      BY <2>1, <2>3
    <3>3. \A m, n, k \in Nat : m + n + 1 = k => (m + 1) + n + 1 = k + 1
      OBVIOUS
    <3>4. item \in Nat
      BY <1>t
    <3>5. QED BY <3>1, <3>2, <3>3, <3>4
  <2>9. checks' \in Seq([replay : Replays, status : Statuses])
    BY <2>1 DEF PlanInv
  <2>10. QED BY <2>6, <2>7, <2>8, <2>9 DEF PlanInv
<1>3. ASSUME NEW status \in Statuses, CompileCheck(status) PROVE PlanInv'
  <2> DEFINE check == [replay |-> Current.replay, status |-> status]
             Checks == [replay : Replays, status : Statuses]
  <2>1. pc = "check" /\ checks' = Append(checks, check) /\ item' = item + 1 /\ records' = records
    BY <1>3 DEF CompileCheck, Step
  <2>2. check \in Checks
    BY <2>1, <1>t DEF Current, Replays
  <2>3. checks \in Seq(Checks)
    BY DEF PlanInv
  <2> HIDE DEF check, Checks
  <2>4. checks' \in Seq(Checks) /\ Len(checks') = Len(checks) + 1 /\ Len(checks) \in Nat
    BY <2>1, <2>2, <2>3
  <2>5. Recorded' = Recorded
    BY <2>1, <1>t DEF Recorded, KindInv, Current
  <2>6. Len(records) \in Nat
    BY DEF IInv, TypeInv
  <2>7. Len(records') + Len(checks') + 1 = item'
    <3>1. Len(records) + Len(checks) + 1 = item
      BY DEF PlanInv
    <3>2. Len(records') = Len(records) /\ Len(checks') = Len(checks) + 1 /\ item' = item + 1
      BY <2>1, <2>4
    <3>3. \A m, n, k \in Nat : m + n + 1 = k => m + (n + 1) + 1 = k + 1
      OBVIOUS
    <3>4. item \in Nat
      BY <1>t
    <3>5. QED BY <2>4, <2>6, <3>1, <3>2, <3>3, <3>4
  <2>8. {records'[r].replay : r \in DOMAIN records'} = {Plan[k].replay : k \in Recorded'}
    BY <2>1, <2>5 DEF PlanInv
  <2>9. \A r, s \in DOMAIN records', i, j \in DOMAIN Plan :
           r < s /\ records'[r].replay = Plan[i].replay /\ records'[s].replay = Plan[j].replay => i < j
    BY <2>1 DEF PlanInv
  <2>10. QED BY <2>4, <2>7, <2>8, <2>9 DEF PlanInv, Checks
<1>4. QED BY <1>1, <1>2, <1>3, QuietSteps

\* Nothing is recorded after the summary.
LEMMA SummaryStep == ASSUME KindInv, SummaryInv, [Next]_vars PROVE SummaryInv'
<1> USE DEF SummaryInv, Step, written
<1>b. ASSUME records' = records PROVE Buckets' = Buckets
  <2>1. \A key : Bucket(key)' = Bucket(key)
    BY <1>b DEF Bucket
  <2>2. QED BY <1>b, <2>1 DEF Buckets
<1>1. CASE Summarize
  <2>1. summary' = Buckets /\ records' = records
    BY <1>1 DEF Summarize, Buckets
  <2>2. QED BY <2>1, <1>b
<1>2. CASE Finalize \/ UNCHANGED vars
  <2>1. summary' = summary /\ records' = records /\ (pc' \in {"finalize", "done"} => pc \in {"finalize", "done"})
    BY <1>2 DEF Finalize, vars
  <2>2. QED BY <2>1, <1>b
<1>3. CASE Create \/ Begin \/ ReadBuild \/ FlattenTrace \/ Failure \/ Analyze \/ AppendFindings \/ AppendRecord
  BY <1>3 DEF Create, Begin, ReadBuild, FlattenTrace, Failure, Analyze, Judged, AppendFindings, AppendRecord
<1>4. ASSUME NEW status \in Statuses, NEW panic \in BOOLEAN, NEW left \in Traces,
             RunChild(status, panic, left)
      PROVE  SummaryInv'
  BY <1>4 DEF RunChild
<1>5. ASSUME NEW status \in Statuses, CompileCheck(status) PROVE SummaryInv'
  BY <1>5 DEF CompileCheck
<1>6. ASSUME NEW torn \in BOOLEAN, Stop(torn) PROVE SummaryInv'
  BY <1>6 DEF Stop
<1>7. ASSUME NEW b \in Builds \cup {"none"}, Rebuild(b) PROVE SummaryInv'
  <2>1. UNCHANGED <<pc, records, summary>>
    BY <1>7 DEF Rebuild
  <2>2. QED BY <2>1, <1>b
<1>8. QED BY <1>1, <1>2, <1>3, <1>4, <1>5, <1>6, <1>7 DEF Next

\* What finalize must find is required at the step that writes it.
LEMMA RequiredStep == ASSUME IInv, KindInv, RequiredInv, [Next]_vars PROVE RequiredInv'
<1> USE DEF Step, written, replaying
<1>t. /\ item \in 1..(Len(Plan) + 1) /\ Len(Plan) \in Nat /\ DOMAIN Plan = 1..Len(Plan)
      /\ pc \notin {"create", "next", "finalize", "done", "stopped"} => item \in DOMAIN Plan
  BY D0RunnerAssumption DEF IInv, TypeInv, TypeOK
\* A step that requires no file and after which as many are needed.
<1>q. ASSUME required' = required, pc # "stopped", Begun' = Begun, Flattened' = Flattened PROVE RequiredInv'
  BY <1>q DEF RequiredInv, Needed
<1>1. CASE Create \/ Begin \/ ReadBuild \/ Summarize \/ Finalize
  <2>1. /\ UNCHANGED <<required, item, records>> /\ pc # "stopped"
        /\ pc \notin {"failure", "flatten", "analyze", "findings", "record"}
        /\ pc' \notin {"failure", "flatten", "analyze", "findings", "record"}
    BY <1>1 DEF Create, Begin, ReadBuild, Summarize, Finalize
  <2>2. Begun' = Begun /\ Flattened' = Flattened
    BY <2>1 DEF Begun, Flattened, Exited
  <2>3. QED BY <2>1, <2>2, <1>q
<1>2. ASSUME NEW status \in Statuses, NEW panic \in BOOLEAN, NEW left \in Traces,
             RunChild(status, panic, left)
      PROVE  RequiredInv'
  <2>1. /\ pc = "run" /\ pc' \in {"flatten", "failure"} /\ UNCHANGED <<item, records>>
        /\ required' = required \cup {<<"log", Plan[item].replay>>}
    BY <1>2 DEF RunChild, Ran, Current
  <2>2. Begun' = Begun \cup {item} /\ Flattened' = Flattened
    BY <2>1, <1>t DEF Begun, Flattened, Exited
  <2>3. QED BY <2>1, <2>2 DEF RequiredInv, Needed
<1>3. CASE Failure
  <2>1. pc = "failure" /\ pc' = "record" /\ record'.child = child /\ child.status # "exit0"
        /\ UNCHANGED <<item, records, required>>
    BY <1>3 DEF Failure, RecordOf, IInv, RecordInv
  <2>2. Begun' = Begun /\ Flattened' = Flattened
    BY <2>1 DEF Begun, Flattened, Exited
  <2>3. QED BY <2>1, <2>2, <1>q
<1>4. CASE FlattenTrace
  <2>1. /\ pc = "flatten" /\ pc' = "analyze" /\ UNCHANGED <<item, records>>
        /\ required' = required \cup {<<"trace", Current.replay>>}
    BY <1>4 DEF FlattenTrace
  <2>2. Begun' = Begun /\ Flattened' = Flattened \cup {Current.replay}
    BY <2>1 DEF Begun, Flattened, Exited, Current
  <2>3. QED BY <2>1, <2>2 DEF RequiredInv, Needed
<1>5. CASE Analyze
  <2>1. pc = "analyze" /\ pc' = "findings" /\ UNCHANGED <<item, records, required>>
    BY <1>5 DEF Analyze, Judged
  <2>2. Begun' = Begun /\ Flattened' = Flattened
    BY <2>1 DEF Begun, Flattened, Exited, Current
  <2>3. QED BY <2>1, <2>2, <1>q
<1>6. CASE AppendFindings
  <2>1. pc = "findings" /\ pc' = "record" /\ UNCHANGED <<item, records, required, record>>
    BY <1>6 DEF AppendFindings
  <2>2. Begun' = Begun /\ Flattened' = Flattened
    BY <2>1 DEF Begun, Flattened, Exited, Current, KindInv
  <2>3. QED BY <2>1, <2>2, <1>q
<1>7. CASE AppendRecord
  <2>1. pc = "record" /\ pc' = "next" /\ records' = Append(records, record) /\ item' = item + 1
        /\ required' = required
    BY <1>7 DEF AppendRecord
  <2>2. record \in Record /\ record.replay = Current.replay /\ records \in Seq(Record)
    BY <2>1 DEF IInv, RecordInv, TypeInv
  <2>3. /\ Len(records) \in Nat /\ DOMAIN records = 1..Len(records)
        /\ DOMAIN records' = DOMAIN records \cup {Len(records) + 1}
        /\ \A i \in DOMAIN records : records'[i] = records[i]
        /\ records'[Len(records) + 1] = record
    BY <2>1, <2>2
  <2>4. Exited' = Exited \cup (IF record.child.status = "exit0" THEN {Len(records) + 1} ELSE {})
    BY <2>3 DEF Exited
  <2>5. Flattened' = Flattened
    BY <2>1, <2>2, <2>3, <2>4 DEF Flattened, Exited
  <2>6. Begun' = Begun
    BY <2>1, <1>t DEF Begun
  <2>7. QED BY <2>1, <2>5, <2>6, <1>q
<1>8. ASSUME NEW status \in Statuses, CompileCheck(status) PROVE RequiredInv'
  <2>1. /\ pc = "check" /\ pc' = "next" /\ item' = item + 1 /\ records' = records
        /\ required' = required \cup {<<"log", Plan[item].replay>>}
    BY <1>8 DEF CompileCheck, Ran, Current
  <2>2. Begun' = Begun \cup {item} /\ Flattened' = Flattened
    BY <2>1, <1>t DEF Begun, Flattened, Exited
  <2>3. QED BY <2>1, <2>2 DEF RequiredInv, Needed
<1>9. ASSUME NEW torn \in BOOLEAN, Stop(torn) PROVE RequiredInv'
  BY <1>9 DEF Stop, RequiredInv
<1>10. CASE UNCHANGED vars \/ \E b \in Builds \cup {"none"} : Rebuild(b)
  <2>1. UNCHANGED <<pc, item, records, record, required>>
    BY <1>10 DEF Rebuild, vars
  <2>2. Begun' = Begun /\ Flattened' = Flattened
    BY <2>1 DEF Begun, Flattened, Exited, Current
  <2>3. QED BY <2>1, <2>2 DEF RequiredInv, Needed
<1>11. QED BY <1>1, <1>2, <1>3, <1>4, <1>5, <1>6, <1>7, <1>8, <1>9, <1>10 DEF Next

\* The buckets split the records: as many tickets of buckets as records.
LEMMA BucketsCount ==
    ASSUME TypeInv
    PROVE  Cardinality(UNION {{b} \X (1..b.count) : b \in Buckets}) = Len(records)
<1> DEFINE D == DOMAIN records
           Tickets == UNION {{b} \X (1..b.count) : b \in Buckets}
<1>1. D = 1..Len(records) /\ Len(records) \in Nat /\ IsFiniteSet(D) /\ Cardinality(D) = Len(records)
  <2>1. D = 1..Len(records) /\ Len(records) \in Nat
    BY DEF TypeInv
  <2>2. 1 \in Int /\ Len(records) \in Int /\ (1 > Len(records) => Len(records) = 0)
    BY <2>1
  <2>3. IsFiniteSet(1..Len(records))
        /\ Cardinality(1..Len(records)) = IF 1 > Len(records) THEN 0 ELSE Len(records) - 1 + 1
    BY <2>2, FS_Interval
  <2>4. QED BY <2>1, <2>2, <2>3
<1>2. \A b \in Buckets : b.count = Cardinality(Bucket(b.key)) /\ Bucket(b.key) \in SUBSET D
  <2> TAKE b \in Buckets
  <2>1. PICK i \in D : b = [key |-> Key(records[i]), count |-> Cardinality(Bucket(Key(records[i])))]
    BY DEF Buckets
  <2>2. b.key = Key(records[i]) /\ b.count = Cardinality(Bucket(Key(records[i])))
    BY <2>1
  <2>3. Bucket(b.key) \in SUBSET D
    BY DEF Bucket
  <2>4. QED BY <2>2, <2>3
<1>3. \A b \in Buckets : \E g : g \in Bijection(1..b.count, Bucket(b.key))
  <2> TAKE b \in Buckets
  <2>1. IsFiniteSet(Bucket(b.key))
    BY <1>1, <1>2, FS_Subset
  <2>2. QED BY <1>2, <2>1, FS_CardinalityType DEF ExistsBijection
<1>4. PICK g : \A b \in Buckets : g[b] \in Bijection(1..b.count, Bucket(b.key))
  <2> DEFINE G == [b \in Buckets |-> CHOOSE h : h \in Bijection(1..b.count, Bucket(b.key))]
  <2>1. \A b \in Buckets : G[b] \in Bijection(1..b.count, Bucket(b.key))
    BY <1>3
  <2>2. QED BY <2>1
<1>5. \A t \in Tickets : t[1] \in Buckets /\ t[2] \in 1..t[1].count /\ t = <<t[1], t[2]>>
  OBVIOUS
<1>6. \A b \in Buckets : \A n : n \in 1..b.count => <<b, n>> \in Tickets
  OBVIOUS
<1> DEFINE F == [t \in Tickets |-> g[t[1]][t[2]]]
<1>7. \A b \in Buckets : /\ \A n \in 1..b.count : g[b][n] \in Bucket(b.key)
                         /\ \A n, m \in 1..b.count : g[b][n] = g[b][m] => n = m
                         /\ \A i \in Bucket(b.key) : \E n \in 1..b.count : g[b][n] = i
  <2> TAKE b \in Buckets
  <2>1. g[b] \in Bijection(1..b.count, Bucket(b.key))
    BY <1>4
  <2>2. QED BY <2>1 DEF Bijection, Injection, Surjection, IsInjective
<1>8. \A i \in D : \E b \in Buckets : i \in Bucket(b.key)
  <2> TAKE i \in D
  <2> DEFINE e == [key |-> Key(records[i]), count |-> Cardinality(Bucket(Key(records[i])))]
  <2>1. e \in Buckets
    BY DEF Buckets
  <2>2. e.key = Key(records[i])
    OBVIOUS
  <2> HIDE DEF e
  <2>3. i \in Bucket(e.key)
    BY <2>2 DEF Bucket
  <2>4. QED BY <2>1, <2>3
<1>9. \A b, e \in Buckets : b.key = e.key => b = e
  BY DEF Buckets
<1>10. \A b, e \in Buckets : \A i : i \in Bucket(b.key) /\ i \in Bucket(e.key) => b = e
  BY <1>9 DEF Bucket
<1> HIDE DEF Tickets
<1>11. F \in [Tickets -> D]
  BY <1>2, <1>5, <1>7
<1>12. \A t, u \in Tickets : F[t] = F[u] => t = u
  <2> SUFFICES ASSUME NEW t \in Tickets, NEW u \in Tickets, g[t[1]][t[2]] = g[u[1]][u[2]] PROVE t = u
    OBVIOUS
  <2>1. t[1] = u[1]
    BY <1>5, <1>7, <1>10
  <2>2. t[2] = u[2]
    BY <2>1, <1>5, <1>7
  <2>3. QED BY <2>1, <2>2, <1>5
<1>13. \A i \in D : \E t \in Tickets : F[t] = i
  <2> TAKE i \in D
  <2>1. PICK b \in Buckets : i \in Bucket(b.key)
    BY <1>8
  <2>2. PICK n \in 1..b.count : g[b][n] = i
    BY <2>1, <1>7
  <2>3. <<b, n>> \in Tickets /\ F[<<b, n>>] = i
    BY <2>2, <1>6
  <2>4. QED BY <2>3
<1>14. F \in Bijection(Tickets, D)
  <2> HIDE DEF F
  <2>1. QED BY <1>11, <1>12, <1>13, Fun_IsBij
<1>15. Cardinality(Tickets) = Cardinality(D)
  BY <1>1, <1>14, Fun_ExistsBijSymmetric, FS_Bijection DEF ExistsBijection
<1>16. QED BY <1>1, <1>15 DEF Tickets

\* A run starts with nothing recorded and nothing required.
LEMMA InitComplete == Init => CompleteInv
<1> SUFFICES ASSUME Init PROVE CompleteInv
  OBVIOUS
<1>1. Recorded = {} /\ Begun = {} /\ Exited = {} /\ Flattened = {}
  BY D0RunnerAssumption DEF Init, Recorded, Begun, Exited, Flattened
<1>2. KindInv /\ RequiredInv /\ SummaryInv
  BY <1>1 DEF Init, KindInv, RequiredInv, SummaryInv, Needed
<1>3. PlanInv
  BY <1>1 DEF Init, PlanInv
<1>4. QED BY <1>2, <1>3 DEF CompleteInv

\* finalize: what is in the final place has a record or a check of every item of
\* the plan, in its order, and every log and trace that it must, for every plan.
THEOREM FinalRunsAreComplete == Spec => []FinalComplete
<1>1. IInv /\ CompleteInv => FinalComplete
  <2> SUFFICES ASSUME IInv, CompleteInv, stage = "final" PROVE FinalComplete
    BY DEF FinalComplete
  <2>1. pc = "done" /\ item = Len(Plan) + 1 /\ Len(Plan) \in Nat /\ DOMAIN Plan = 1..Len(Plan)
    BY D0RunnerAssumption DEF IInv, FindingsInv, CompleteInv, KindInv
  <2>2. Recorded = {k \in DOMAIN Plan : Plan[k].kind = "replay"} /\ Begun = DOMAIN Plan
    BY <2>1 DEF Recorded, Begun
  <2>3. required = {<<"log", Plan[i].replay>> : i \in DOMAIN Plan}
               \cup {<<"trace", records[i].replay>> :
                         i \in {j \in DOMAIN records : records[j].child.status = "exit0"}}
    BY <2>1, <2>2 DEF CompleteInv, RequiredInv, Needed, Flattened, Exited
  <2>4. Len(records) + Len(checks) = Len(Plan)
    <3>1. Len(records) \in Nat /\ Len(checks) \in Nat
      BY DEF IInv, TypeInv, CompleteInv, PlanInv
    <3>2. Len(records) + Len(checks) + 1 = item
      BY DEF CompleteInv, PlanInv
    <3>3. Len(records) + Len(checks) + 1 = Len(Plan) + 1
      BY <2>1, <3>2
    <3>4. \A m, n, p \in Nat : m + n + 1 = p + 1 => m + n = p
      OBVIOUS
    <3>5. Len(Plan) \in Nat
      BY <2>1
    <3>6. QED BY <3>1, <3>3, <3>4, <3>5
  <2>5. Cardinality(UNION {{b} \X (1..b.count) : b \in summary}) = Len(records)
    BY <2>1, BucketsCount DEF CompleteInv, SummaryInv, IInv
  <2>6. QED BY <2>2, <2>3, <2>4, <2>5 DEF FinalComplete, CompleteInv, PlanInv
<1>2. IInv /\ CompleteInv /\ [Next]_vars => CompleteInv'
  BY KindStep, PlanStep, SummaryStep, RequiredStep DEF CompleteInv
<1>3. QED BY <1>1, <1>2, InitComplete, Invariant, PTL DEF Spec

-----------------------------------------------------------------------------
(* What run_d0 runs a program with: ChildRunner implements the safety part *)
(* of ChildCall, for any number of processes that the child may fork.      *)
(* That the call returns rests on fairness and stays with TLC.             *)

CONSTANTS Leader, Others
VARIABLES step, status, result, expired, life, member, termed, killed, cause

Child == INSTANCE ChildRunner WITH pc <- step

\* The leader is in its group as long as it has not been waited for.
LeaderInGroup == Leader \in member <=> life[Leader] \in {"running", "zombie"}

\* What a process died of was done to it.
CauseIsReal ==
    /\ cause[Leader] = "term" => Leader \in termed
    /\ cause[Leader] = "kill" => Leader \in killed
    /\ life[Leader] \in {"zombie", "gone"} => cause[Leader] # "none"

\* Where the runner is tells whether the child lives and was signalled.
WhereItIs ==
    /\ step = "spawn" => life[Leader] = "none" /\ member = {} /\ status = "none"
    /\ step \in {"spawn", "poll"} => Leader \notin termed /\ Leader \notin killed
    /\ step \in {"poll", "term", "grace", "kill", "wait"} => life[Leader] \in {"running", "zombie"}
    /\ step \in {"group_term", "group_grace", "group_wait"} =>
           life[Leader] = "gone" /\ status \in {"exited", "timed_out"}
    /\ step # "returned" => result = "none"
    /\ status = "exited" => life[Leader] = "gone" /\ cause[Leader] = "own"

ChildInv == Child!TypeOK /\ LeaderInGroup /\ CauseIsReal /\ WhereItIs

-----------------------------------------------------------------------------
(* The inductive invariant. *)

LEMMA ChildInitInv == Child!ChildRunnerAssumption /\ Child!Init => ChildInv
BY DEF Child!ChildRunnerAssumption, Child!Init, ChildInv, Child!TypeOK, LeaderInGroup, CauseIsReal, WhereItIs, Child!Procs

LEMMA EnvironmentInv == ASSUME Child!ChildRunnerAssumption, ChildInv, Child!Environment PROVE ChildInv'
<1> USE DEF Child!ChildRunnerAssumption, ChildInv, Child!Procs
<1>1. ASSUME NEW p \in Child!Procs, NEW why \in {"own", "term", "kill"}, Child!Running(p), Child!Die(p, why),
             why = "term" => p \in termed, why = "kill" => p \in killed
      PROVE  ChildInv'
  <2>1. Child!TypeOK'
    BY <1>1 DEF Child!Die, Child!Running, Child!TypeOK, Child!runner
  <2>2. LeaderInGroup' /\ CauseIsReal'
    BY <1>1 DEF Child!Die, Child!Running, Child!TypeOK, LeaderInGroup, CauseIsReal, Child!runner
  <2>3. WhereItIs'
    BY <1>1 DEF Child!Die, Child!Running, Child!TypeOK, WhereItIs, Child!runner
  <2>. QED BY <2>1, <2>2, <2>3
<1>2. ASSUME NEW p \in Child!Procs, Child!Exit(p) \/ Child!DieOfTerm(p) \/ Child!DieOfKill(p) PROVE ChildInv'
  BY <1>1, <1>2 DEF Child!Exit, Child!DieOfTerm, Child!DieOfKill
<1>3. ASSUME NEW p \in Child!Procs, Child!LeaveGroup(p) PROVE ChildInv'
  BY <1>3 DEF Child!LeaveGroup, Child!Running, Child!TypeOK, LeaderInGroup, CauseIsReal, WhereItIs, Child!runner
<1>4. ASSUME NEW p \in Child!Procs, Child!Reap(p) PROVE ChildInv'
  <2>1. Child!TypeOK'
    BY <1>4 DEF Child!Reap, Child!TypeOK, Child!runner
  <2>2. LeaderInGroup' /\ CauseIsReal' /\ WhereItIs'
    BY <1>4 DEF Child!Reap, Child!TypeOK, LeaderInGroup, CauseIsReal, WhereItIs, Child!runner
  <2>. QED BY <2>1, <2>2
<1>5. ASSUME NEW p \in Child!Procs, NEW q \in Others, Child!Fork(p, q) PROVE ChildInv'
  <2>1. Child!TypeOK'
    BY <1>5 DEF Child!Fork, Child!Running, Child!TypeOK, Child!runner
  <2>2. LeaderInGroup' /\ CauseIsReal' /\ WhereItIs'
    BY <1>5 DEF Child!Fork, Child!Running, Child!TypeOK, LeaderInGroup, CauseIsReal, WhereItIs, Child!runner
  <2>. QED BY <2>1, <2>2
<1>6. CASE Child!Tick
  BY <1>6 DEF Child!Tick, Child!procs, Child!TypeOK, LeaderInGroup, CauseIsReal, WhereItIs
<1>. QED BY <1>2, <1>3, <1>4, <1>5, <1>6 DEF Child!Environment

LEMMA RunnerInv == ASSUME Child!ChildRunnerAssumption, ChildInv, Child!Runner PROVE ChildInv'
<1> USE DEF Child!ChildRunnerAssumption, ChildInv, Child!Procs, Child!TypeOK, LeaderInGroup, CauseIsReal, WhereItIs,
        Child!Goto, Child!StartTimer, Child!Return, Child!procs
<1>1. CASE Child!SpawnFails
  BY <1>1 DEF Child!SpawnFails
<1>2. CASE Child!Spawn
  <2>1. Child!TypeOK'
    BY <1>2 DEF Child!Spawn
  <2>2. (LeaderInGroup /\ CauseIsReal /\ WhereItIs)'
    BY <1>2 DEF Child!Spawn
  <2>. QED BY <2>1, <2>2
<1>3. ASSUME Child!ReapLeader, UNCHANGED <<result, expired>>, step' = "group_term",
             \/ status' = "exited" /\ step = "poll"
             \/ status' = "timed_out" /\ step \in {"grace", "wait"}
      PROVE  ChildInv'
  <2>1. Child!TypeOK'
    BY <1>3 DEF Child!ReapLeader
  <2>2. (LeaderInGroup /\ CauseIsReal /\ WhereItIs)'
    BY <1>3 DEF Child!ReapLeader
  <2>. QED BY <2>1, <2>2
<1>4. CASE Child!PollDone \/ Child!GraceDone \/ Child!Wait
  BY <1>3, <1>4 DEF Child!PollDone, Child!GraceDone, Child!Wait
<1>5. CASE Child!DeadlineOver \/ Child!GraceOver
  BY <1>5 DEF Child!DeadlineOver, Child!GraceOver
<1>6. ASSUME NEW sent \in BOOLEAN, Child!Term(sent) PROVE ChildInv'
  BY <1>6 DEF Child!Term
<1>7. CASE Child!Kill
  BY <1>7 DEF Child!Kill
<1>8. CASE Child!GroupTerm
  BY <1>8 DEF Child!GroupTerm
<1>9. CASE Child!GroupGrace
  BY <1>9 DEF Child!GroupGrace
<1>10. CASE Child!GroupWait
  BY <1>10 DEF Child!GroupWait
<1>. QED BY <1>1, <1>2, <1>4, <1>5, <1>6, <1>7, <1>8, <1>9, <1>10 DEF Child!Runner

LEMMA ChildNextInv == Child!ChildRunnerAssumption /\ ChildInv /\ [Child!Next]_(Child!vars) => ChildInv'
<1> SUFFICES ASSUME Child!ChildRunnerAssumption, ChildInv, [Child!Next]_(Child!vars) PROVE ChildInv'
  OBVIOUS
<1>1. CASE Child!Environment
  BY <1>1, EnvironmentInv
<1>2. CASE Child!Runner
  BY <1>2, RunnerInv
<1>3. CASE UNCHANGED Child!vars
  BY <1>3 DEF Child!vars, ChildInv, Child!TypeOK, LeaderInGroup, CauseIsReal, WhereItIs
<1>. QED BY <1>1, <1>2, <1>3 DEF Child!Next

LEMMA ChildSpecInv ==
    ASSUME Child!ChildRunnerAssumption PROVE Child!Spec => []ChildInv
<1>1. Child!Init => ChildInv
  BY ChildInitInv
<1>2. ChildInv /\ [Child!Next]_(Child!vars) => ChildInv'
  BY ChildNextInv
<1>. QED BY <1>1, <1>2, PTL DEF Child!Spec

-----------------------------------------------------------------------------
\* The runner's position, its status and result, and the life, group membership
\* and signals of every process have their types in every reachable state,
\* however many processes the child forks.
THEOREM ChildTypeCorrect ==
    ASSUME Child!ChildRunnerAssumption PROVE Child!Spec => []Child!TypeOK
<1>1. ChildInv => Child!TypeOK
  BY DEF ChildInv
<1>. QED BY <1>1, ChildSpecInv, PTL

-----------------------------------------------------------------------------
(* Refinement: every step is a step of ChildCall or leaves what is seen of *)
(* the call unchanged.                                                     *)

seen == <<Child!Phase, Child!Fate, Child!GroupExists, Child!Outcome>>

LEMMA InitPromise == Child!Init => Child!Call!Init
BY DEF Child!Init, Child!Call!Init, Child!Phase, Child!Fate, Child!GroupExists, Child!Outcome, Child!Procs

LEMMA EnvironmentPromise ==
    ASSUME Child!ChildRunnerAssumption, ChildInv, Child!Environment PROVE Child!Call!Next \/ UNCHANGED seen
<1> USE DEF Child!ChildRunnerAssumption, ChildInv, Child!Procs, seen, Child!Phase, Child!Fate, Child!GroupExists, Child!Outcome
<1>1. ASSUME NEW p \in Child!Procs, NEW why \in {"own", "term", "kill"}, Child!Running(p), Child!Die(p, why)
      PROVE  Child!Call!Next \/ UNCHANGED seen
  <2>1. CASE p = Leader
    <3>1. Child!Call!Dies(IF why = "own" THEN "own" ELSE "ended")
      BY <1>1, <2>1 DEF Child!Die, Child!Running, Child!runner, Child!TypeOK, Child!Call!Dies
    <3>. QED BY <3>1 DEF Child!Call!Next
  <2>2. CASE p # Leader
    BY <1>1, <2>2 DEF Child!Die, Child!Running, Child!runner, Child!TypeOK
  <2>. QED BY <2>1, <2>2
<1>2. ASSUME NEW p \in Child!Procs, Child!Exit(p) \/ Child!DieOfTerm(p) \/ Child!DieOfKill(p)
      PROVE  Child!Call!Next \/ UNCHANGED seen
  BY <1>1, <1>2 DEF Child!Exit, Child!DieOfTerm, Child!DieOfKill
<1>3. ASSUME NEW p \in Child!Procs, Child!LeaveGroup(p) PROVE Child!Call!Next \/ UNCHANGED seen
  <2>1. member' = member \ {p} /\ p # Leader /\ UNCHANGED <<Child!Phase, Child!Fate, Child!Outcome>>
    BY <1>3 DEF Child!LeaveGroup, Child!runner
  <2>2. CASE member' = {}
    <3>1. Child!Fate # "running" /\ Child!GroupExists
      BY <1>3, <2>1, <2>2 DEF Child!LeaveGroup, Child!TypeOK, LeaderInGroup
    <3>. QED BY <2>1, <2>2, <3>1 DEF Child!Call!Next, Child!Call!GroupEmpties
  <2>3. CASE member' # {}
    BY <2>1, <2>3
  <2>. QED BY <2>2, <2>3
<1>4. ASSUME NEW p \in Child!Procs, Child!Reap(p) PROVE Child!Call!Next \/ UNCHANGED seen
  <2>1. member' = member \ {p} /\ p # Leader /\ UNCHANGED <<Child!Phase, Child!Fate, Child!Outcome>>
    BY <1>4 DEF Child!Reap, Child!runner, Child!TypeOK
  <2>2. CASE member' = {} /\ member # {}
    <3>1. Child!Fate # "running"
      BY <1>4, <2>1, <2>2 DEF Child!TypeOK, LeaderInGroup
    <3>. QED BY <2>1, <2>2, <3>1 DEF Child!Call!Next, Child!Call!GroupEmpties
  <2>3. CASE member' # {} \/ member = {}
    BY <2>1, <2>3
  <2>. QED BY <2>2, <2>3
<1>5. ASSUME NEW p \in Child!Procs, NEW q \in Others, Child!Fork(p, q)
      PROVE  Child!Call!Next \/ UNCHANGED seen
  BY <1>5 DEF Child!Fork, Child!Running, Child!runner, Child!TypeOK
<1>6. CASE Child!Tick
  BY <1>6 DEF Child!Tick, Child!procs
<1>. QED BY <1>2, <1>3, <1>4, <1>5, <1>6 DEF Child!Environment

LEMMA RunnerPromise ==
    ASSUME Child!ChildRunnerAssumption, ChildInv, Child!Runner PROVE Child!Call!Next \/ UNCHANGED seen
<1> USE DEF Child!ChildRunnerAssumption, ChildInv, Child!Procs, seen, Child!Phase, Child!Fate, Child!GroupExists, Child!Outcome, Child!Goto, Child!StartTimer, Child!Return, Child!procs
<1>1. CASE Child!SpawnFails
  <2>1. Child!Call!StartFails
    BY <1>1 DEF Child!SpawnFails, WhereItIs, Child!Call!StartFails
  <2>. QED BY <2>1 DEF Child!Call!Next
<1>2. CASE Child!Spawn
  <2>1. Child!Call!Start
    BY <1>2 DEF Child!Spawn, WhereItIs, Child!TypeOK, Child!Call!Start
  <2>. QED BY <2>1 DEF Child!Call!Next
<1>3. CASE Child!PollDone \/ Child!GraceDone \/ Child!Wait
  <2>1. /\ member' = member \ {Leader} /\ Leader \in member
        /\ UNCHANGED <<Child!Phase, Child!Fate, Child!Outcome>> /\ Child!Fate # "running"
    BY <1>3 DEF Child!PollDone, Child!GraceDone, Child!Wait, Child!ReapLeader, Child!TypeOK, WhereItIs, LeaderInGroup
  <2>2. CASE member' = {}
    BY <2>1, <2>2 DEF Child!Call!Next, Child!Call!GroupEmpties
  <2>3. CASE member' # {}
    BY <2>1, <2>3
  <2>. QED BY <2>2, <2>3
<1>4. CASE Child!DeadlineOver \/ Child!GraceOver
  BY <1>4 DEF Child!DeadlineOver, Child!GraceOver, WhereItIs
<1>5. ASSUME NEW sent \in BOOLEAN, Child!Term(sent) PROVE UNCHANGED seen
  BY <1>5 DEF Child!Term, WhereItIs
<1>6. CASE Child!Kill
  BY <1>6 DEF Child!Kill, WhereItIs
<1>7. CASE Child!GroupTerm \/ Child!GroupGrace
  BY <1>7 DEF Child!GroupTerm, Child!GroupGrace, WhereItIs
<1>8. CASE Child!GroupWait
  <2>1. /\ Child!Phase = "active" /\ Child!Phase' = "returned" /\ UNCHANGED <<Child!Fate, Child!GroupExists>>
        /\ Child!Fate # "running"
    BY <1>8 DEF Child!GroupWait, WhereItIs
  <2>2. CASE ~Child!GroupExists
    <3>1. Child!Call!Returns(status)
      BY <1>8, <2>1, <2>2 DEF Child!GroupWait, WhereItIs, Child!TypeOK, Child!Call!Returns
    <3>. QED BY <1>8, <3>1 DEF Child!Call!Next, Child!GroupWait, WhereItIs
  <2>3. CASE Child!GroupExists
    <3>1. Child!Call!Returns("err")
      BY <1>8, <2>1, <2>3 DEF Child!GroupWait, WhereItIs, Child!Call!Returns
    <3>. QED BY <3>1 DEF Child!Call!Next
  <2>. QED BY <2>2, <2>3
<1>. QED BY <1>1, <1>2, <1>3, <1>4, <1>5, <1>6, <1>7, <1>8 DEF Child!Runner

LEMMA NextPromise == Child!ChildRunnerAssumption /\ ChildInv /\ [Child!Next]_(Child!vars) => [Child!Call!Next]_(Child!Call!callVars)
<1> SUFFICES ASSUME Child!ChildRunnerAssumption, ChildInv, [Child!Next]_(Child!vars) PROVE Child!Call!Next \/ UNCHANGED seen
  BY DEF Child!Call!callVars, seen
<1>1. CASE Child!Environment
  BY <1>1, EnvironmentPromise
<1>2. CASE Child!Runner
  BY <1>2, RunnerPromise
<1>3. CASE UNCHANGED Child!vars
  BY <1>3 DEF Child!vars, seen, Child!Phase, Child!Fate, Child!GroupExists, Child!Outcome
<1>. QED BY <1>1, <1>2, <1>3 DEF Child!Next

\* The runner implements the safety part of ChildCall: no child outlives the
\* call, a returned status means an empty group, and a child that was ended is
\* not reported as exited, for any number of forked processes.
THEOREM ImplementsChildCall ==
    ASSUME Child!ChildRunnerAssumption PROVE Child!Spec => Child!Call!SafeSpec
<1>1. Child!Init => Child!Call!Init
  BY InitPromise
<1>2. ChildInv /\ [Child!Next]_(Child!vars) => [Child!Call!Next]_(Child!Call!callVars)
  BY NextPromise
<1>. QED BY <1>1, <1>2, ChildSpecInv, PTL DEF Child!Spec, Child!Call!SafeSpec
=============================================================================
