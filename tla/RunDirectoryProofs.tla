------------------------ MODULE RunDirectoryProofs ------------------------
(***************************************************************************)
(* Any number of runners on one run id, and any number of writes by what   *)
(* outlives them: one owner of each path, and an intact final run.         *)
(***************************************************************************)
EXTENDS RunDirectory, TLAPS

\* Where the directory is tells how far its runner is.
PlaceOfStep(r) ==
    /\ pc[r] \in {"check", "check_final", "create"} => place[r] = "none"
    /\ pc[r] \in {"layout", "open", "work", "require", "summary", "complete", "manifest",
                  "list", "hash", "verify", "rename"} => place[r] = "partial"
    /\ pc[r] = "stopped" => place[r] # "final"

\* What has been written so far; nothing that escaped touches these files.
WrittenSoFar(r) ==
    /\ pc[r] \notin {"check", "check_final", "create", "layout", "stopped"} => files[r]["findings"] # 0
    /\ pc[r] \in {"complete", "manifest", "list", "hash", "verify", "rename", "done"} =>
           files[r]["summary"] # 0
    /\ pc[r] \in {"manifest", "list", "hash", "verify", "rename", "done"} => files[r]["COMPLETE"] # 0
    /\ pc[r] \in {"list", "hash", "verify", "rename", "done"} => files[r]["manifest"] = 2

\* What has been verified matches its sum unless it was changed afterwards.
VerifiedSoFar(r) ==
    /\ pc[r] = "verify" =>
           /\ todo[r] \subseteq Summed(r)
           /\ \A f \in Summed(r) \ todo[r] : files[r][f] = sums[r][f] \/ f \in late[r]
    /\ pc[r] \in {"rename", "done"} =>
           \A f \in Files : files[r][f] = sums[r][f] \/ f \in late[r]

Local(r) == PlaceOfStep(r) /\ WrittenSoFar(r) /\ VerifiedSoFar(r)

IInv == TypeOK /\ OneOwner /\ \A r \in Runners : Local(r)

Same(r) ==
    /\ pc'[r] = pc[r] /\ place'[r] = place[r] /\ files'[r] = files[r] /\ sums'[r] = sums[r]
    /\ todo'[r] = todo[r] /\ late'[r] = late[r]

-----------------------------------------------------------------------------
LEMMA InitIInv == Init => IInv
BY RunDirectoryAssumption
   DEF Init, IInv, TypeOK, OneOwner, Local, PlaceOfStep, WrittenSoFar, VerifiedSoFar, Empty

\* What holds of a runner is disturbed by its own steps only.
LEMMA SameLocal == ASSUME NEW r \in Runners, Local(r), Same(r) PROVE Local(r)'
BY DEF Local, PlaceOfStep, WrittenSoFar, VerifiedSoFar, Same, Summed

\* A step of r that leaves every path to its owner.
LEMMA Combine ==
    ASSUME NEW r \in Runners, IInv, TypeOK', Local(r)', OneOwner',
           \A s \in Runners \ {r} : Same(s)
    PROVE  IInv'
BY SameLocal DEF IInv

LEMMA SamePlace == ASSUME OneOwner, UNCHANGED place PROVE OneOwner'
BY DEF OneOwner

-----------------------------------------------------------------------------
LEMMA LookIInv ==
    ASSUME NEW r \in Runners, IInv, NEW from, NEW to, Look(r, from, to),
           \/ <<from, to>> \in {<<"check", "check_final">>, <<"check_final", "create">>,
                                <<"require", "summary">>}
           \/ to = "stopped" /\ from # "done"
           \/ /\ from = "verify" /\ to = "rename" /\ todo[r] = {}
              /\ \A f \in Files : files[r][f] # 0 => f \in Summed(r)
    PROVE  IInv'
<1> USE DEF Look, Step, Goto
<1>1. TypeOK'
  BY DEF IInv, TypeOK
<1>2. OneOwner'
  BY SamePlace DEF IInv
<1>3. \A s \in Runners \ {r} : Same(s)
  BY DEF Same, IInv, TypeOK
<1>4. pc'[r] = to /\ pc[r] = from
  BY DEF IInv, TypeOK
<1>5. PlaceOfStep(r)'
  BY <1>4 DEF IInv, Local, PlaceOfStep, TypeOK
<1>6. WrittenSoFar(r)'
  BY <1>4 DEF IInv, Local, WrittenSoFar
<1>7. VerifiedSoFar(r)'
  <2>1. ASSUME to = "rename"
        PROVE  \A f \in Files : files[r][f] = sums[r][f] \/ f \in late[r]
    BY <2>1, <1>4 DEF IInv, Local, VerifiedSoFar, Summed, TypeOK
  <2> QED BY <2>1, <1>4 DEF VerifiedSoFar
<1> QED BY <1>1, <1>2, <1>3, <1>5, <1>6, <1>7, Combine DEF Local

LEMMA WriteIInv ==
    ASSUME NEW r \in Runners, IInv, NEW from, NEW to, NEW file, NEW content, Write(r, from, to, file, content),
           <<from, to, file, content>> \in
               {<<"layout", "open", "findings", 1>>, <<"open", "work", "manifest", 1>>,
                <<"summary", "complete", "summary", 1>>, <<"complete", "manifest", "COMPLETE", 1>>,
                <<"manifest", "list", "manifest", 2>>}
    PROVE  IInv'
<1> USE DEF Write, Step, Goto
<1>1. content \in 0..MaxWrites /\ file \in Files /\ content # 0
  BY RunDirectoryAssumption DEF Files, RequiredFinalFiles
<1>2. files'[r] = [files[r] EXCEPT ![file] = content] /\ pc'[r] = to /\ pc[r] = from
  BY DEF IInv, TypeOK
<1>3. TypeOK'
  BY <1>1 DEF IInv, TypeOK
<1>4. OneOwner'
  BY SamePlace DEF IInv
<1>5. \A s \in Runners \ {r} : Same(s)
  BY DEF Same, IInv, TypeOK
<1>6. files[r] \in [Files -> 0..MaxWrites]
  BY DEF IInv, TypeOK
<1>7. PlaceOfStep(r)'
  BY <1>2 DEF IInv, Local, PlaceOfStep
<1>8. WrittenSoFar(r)'
  BY <1>1, <1>2, <1>6 DEF IInv, Local, WrittenSoFar, Files, RequiredFinalFiles
<1>9. VerifiedSoFar(r)'
  BY <1>2 DEF VerifiedSoFar
<1> QED BY <1>3, <1>4, <1>5, <1>7, <1>8, <1>9, Combine DEF Local

LEMMA CreateIInv == ASSUME NEW r \in Runners, IInv, Create(r) PROVE IInv'
<1>1. CASE Taken("partial")
  BY <1>1, LookIInv DEF Create
<1>2. CASE ~Taken("partial")
  <2> USE <1>2 DEF Create, Step, Goto
  <2>1. TypeOK'
    BY DEF IInv, TypeOK
  <2>2. OneOwner'
    BY DEF IInv, TypeOK, OneOwner, Taken
  <2>3. \A s \in Runners \ {r} : Same(s)
    BY DEF Same, IInv, TypeOK
  <2>4. Local(r)'
    BY DEF IInv, TypeOK, Local, PlaceOfStep, WrittenSoFar, VerifiedSoFar
  <2> QED BY <2>1, <2>2, <2>3, <2>4, Combine
<1> QED BY <1>1, <1>2

LEMMA WorkIInv ==
    ASSUME NEW r \in Runners, NEW traced \in BOOLEAN, NEW escaped \in BOOLEAN,
           IInv, Work(r, traced, escaped)
    PROVE  IInv'
<1> USE DEF Work, Step, Goto
<1> DEFINE content == IF traced THEN 1 ELSE 0
<1>1. content \in 0..MaxWrites /\ "trace" \in Files
  BY RunDirectoryAssumption DEF Files, Loose
<1>2. files' = [files EXCEPT ![r]["trace"] = content]
  OBVIOUS
<1> HIDE DEF content
<1>3. TypeOK'
  BY <1>1, <1>2 DEF IInv, TypeOK
<1>4. OneOwner'
  BY SamePlace DEF IInv
<1>5. \A s \in Runners \ {r} : Same(s)
  BY <1>2 DEF Same, IInv, TypeOK
<1>6. Local(r)'
  BY <1>2 DEF IInv, TypeOK, Local, PlaceOfStep, WrittenSoFar, VerifiedSoFar, Files, RequiredFinalFiles
<1> QED BY <1>3, <1>4, <1>5, <1>6, Combine

LEMMA ListIInv == ASSUME NEW r \in Runners, IInv, List(r) PROVE IInv'
<1> USE DEF List, Step, Goto
<1>1. TypeOK'
  BY DEF IInv, TypeOK
<1>2. OneOwner'
  BY SamePlace DEF IInv
<1>3. \A s \in Runners \ {r} : Same(s)
  BY DEF Same, IInv, TypeOK
<1>4. Local(r)'
  BY DEF IInv, TypeOK, Local, PlaceOfStep, WrittenSoFar, VerifiedSoFar
<1> QED BY <1>1, <1>2, <1>3, <1>4, Combine

LEMMA HashIInv == ASSUME NEW r \in Runners, NEW f \in Files, IInv, Hash(r, f) PROVE IInv'
<1> USE DEF Hash
<1>1. TypeOK'
  BY DEF IInv, TypeOK
<1>2. OneOwner'
  BY SamePlace DEF IInv
<1>3. \A s \in Runners \ {r} : Same(s)
  BY DEF Same, IInv, TypeOK
<1>4. Local(r)'
  BY DEF IInv, Local, PlaceOfStep, WrittenSoFar, VerifiedSoFar
<1> QED BY <1>1, <1>2, <1>3, <1>4, Combine

LEMMA ReadSumsIInv == ASSUME NEW r \in Runners, IInv, ReadSums(r) PROVE IInv'
<1> USE DEF ReadSums, Step, Goto
<1>1. TypeOK'
  BY DEF IInv, TypeOK, Summed
<1>2. OneOwner'
  BY SamePlace DEF IInv
<1>3. \A s \in Runners \ {r} : Same(s)
  BY DEF Same, IInv, TypeOK
<1>4. Local(r)'
  BY DEF IInv, TypeOK, Local, PlaceOfStep, WrittenSoFar, VerifiedSoFar, Summed
<1> QED BY <1>1, <1>2, <1>3, <1>4, Combine

LEMMA VerifyFileIInv == ASSUME NEW r \in Runners, NEW f \in Files, IInv, VerifyFile(r, f) PROVE IInv'
<1> USE DEF VerifyFile, Step, Goto
<1>1. TypeOK'
  BY DEF IInv, TypeOK
<1>2. OneOwner'
  BY SamePlace DEF IInv
<1>3. \A s \in Runners \ {r} : Same(s)
  BY DEF Same, IInv, TypeOK
<1>4. Local(r)'
  BY DEF IInv, TypeOK, Local, PlaceOfStep, WrittenSoFar, VerifiedSoFar, Summed
<1> QED BY <1>1, <1>2, <1>3, <1>4, Combine

LEMMA RenameIInv == ASSUME NEW r \in Runners, IInv, Rename(r) PROVE IInv'
<1>1. CASE Taken("final")
  BY <1>1, LookIInv DEF Rename
<1>2. CASE ~Taken("final")
  <2> USE <1>2 DEF Rename, Step, Goto
  <2>1. TypeOK'
    BY DEF IInv, TypeOK
  <2>2. OneOwner'
    BY DEF IInv, TypeOK, OneOwner, Taken
  <2>3. \A s \in Runners \ {r} : Same(s)
    BY DEF Same, IInv, TypeOK
  <2>4. Local(r)'
    BY DEF IInv, TypeOK, Local, PlaceOfStep, WrittenSoFar, VerifiedSoFar
  <2> QED BY <2>1, <2>2, <2>3, <2>4, Combine
<1> QED BY <1>1, <1>2

LEMMA StrayIInv == ASSUME NEW r \in Runners, NEW f \in Loose, IInv, Stray(r, f) PROVE IInv'
<1> USE DEF Stray
<1>1. f \in Files /\ f \notin RequiredFinalFiles
  BY DEF Files, Loose, RequiredFinalFiles
<1>2. files[r] \in [Files -> 0..MaxWrites]
  BY DEF IInv, TypeOK
<1>3. files[r][f] + 1 \in 0..MaxWrites
  BY <1>1, <1>2, RunDirectoryAssumption
<1>4. files'[r] = [files[r] EXCEPT ![f] = files[r][f] + 1]
  BY DEF IInv, TypeOK
<1>5. late'[r] = IF LookedAt(r, f) THEN late[r] \cup {f} ELSE late[r]
  BY DEF IInv, TypeOK
<1>6. TypeOK'
  BY <1>1, <1>3 DEF IInv, TypeOK
<1>7. OneOwner'
  BY SamePlace DEF IInv
<1>8. \A s \in Runners \ {r} : Same(s)
  BY DEF Same, IInv, TypeOK
<1>9. PlaceOfStep(r)'
  BY DEF IInv, Local, PlaceOfStep
<1>10. WrittenSoFar(r)'
  BY <1>1, <1>2, <1>4 DEF IInv, Local, WrittenSoFar, Files, RequiredFinalFiles
<1>11. VerifiedSoFar(r)'
  BY <1>1, <1>2, <1>4, <1>5 DEF IInv, Local, VerifiedSoFar, LookedAt, Summed
<1> QED BY <1>6, <1>7, <1>8, <1>9, <1>10, <1>11, Combine DEF Local

LEMMA EndIInv == ASSUME NEW r \in Runners, IInv, End(r) PROVE IInv'
<1>1. TypeOK'
  BY DEF End, IInv, TypeOK
<1>2. OneOwner'
  BY SamePlace DEF End, IInv
<1>3. \A s \in Runners : Same(s)
  BY DEF End, Same
<1> QED BY <1>1, <1>2, <1>3, SameLocal DEF IInv

LEMMA NextIInv == ASSUME IInv, [Next]_vars PROVE IInv'
<1>1. CASE UNCHANGED vars
  <2>1. TypeOK' /\ OneOwner'
    BY <1>1 DEF vars, IInv, TypeOK, OneOwner
  <2>2. \A s \in Runners : Same(s)
    BY <1>1 DEF vars, Same
  <2> QED BY <2>1, <2>2, SameLocal DEF IInv
<1>2. ASSUME NEW r \in Runners, Open(r) PROVE IInv'
  <2>1. CASE CheckPartial(r)
    BY <2>1, LookIInv DEF CheckPartial
  <2>2. CASE CheckFinal(r)
    BY <2>2, LookIInv DEF CheckFinal
  <2>3. CASE Findings(r)
    BY <2>3, WriteIInv DEF Findings
  <2>4. CASE FirstManifest(r)
    BY <2>4, WriteIInv DEF FirstManifest
  <2> QED BY <1>2, <2>1, <2>2, <2>3, <2>4, CreateIInv DEF Open
<1>3. ASSUME NEW r \in Runners, Finalize(r) PROVE IInv'
  <2>1. CASE Require(r)
    BY <2>1, LookIInv DEF Require
  <2>2. CASE Summary(r) \/ Complete(r) \/ Manifest(r)
    BY <2>2, WriteIInv DEF Summary, Complete, Manifest
  <2>3. CASE VerifyNoMore(r)
    BY <2>3, LookIInv DEF VerifyNoMore
  <2> QED BY <1>3, <2>1, <2>2, <2>3, ListIInv, ReadSumsIInv, RenameIInv, HashIInv, VerifyFileIInv
      DEF Finalize
<1>4. ASSUME NEW r \in Runners, Stop(r) PROVE IInv'
  BY <1>4, LookIInv DEF Stop
<1> QED BY <1>1, <1>2, <1>3, <1>4, WorkIInv, StrayIInv, EndIInv DEF Next

LEMMA Invariant == Spec => []IInv
BY InitIInv, NextIInv, PTL DEF Spec

-----------------------------------------------------------------------------
\* RunDirectory (layout.rs): the state of every runner has its type, for any
\* number of runners.
THEOREM TypeCorrect == Spec => []TypeOK
BY Invariant, PTL DEF IInv

\* RunDirectory::create and finalize_at: no two runners ever own one path,
\* although each of them looks before it creates or renames.
THEOREM PathsHaveOneOwner == Spec => []OneOwner
BY Invariant, PTL DEF IInv

\* finalize_at, write_run_checksums, verify_run_integrity: a final run is
\* complete, and what does not match its checksum was changed after it was
\* looked at, whatever goes on writing into it, and however often.
THEOREM FinalRunsAreIntact == Spec => []FinalIntegrity
<1>1. IInv => FinalIntegrity
  <2> SUFFICES ASSUME IInv, NEW r \in Runners, place[r] = "final"
               PROVE  /\ \A f \in RequiredFinalFiles : files[r][f] # 0
                      /\ files[r]["manifest"] = 2
                      /\ \A f \in Files : files[r][f] = sums[r][f] \/ f \in late[r]
    BY DEF FinalIntegrity
  <2>1. pc[r] = "done"
    BY DEF IInv, TypeOK, Local, PlaceOfStep
  <2> QED BY <2>1 DEF IInv, Local, WrittenSoFar, VerifiedSoFar, RequiredFinalFiles
<1> QED BY <1>1, Invariant, PTL
=============================================================================
