---------------------------- MODULE BlindProofs ----------------------------
(***************************************************************************)
(* Theorems about the blind runner and the curator, for every pack, every  *)
(* number of cases and of changes other processes make, and every pairing  *)
(* of cases.                                                               *)
(***************************************************************************)
EXTENDS BlindReveal, FiniteSetTheorems, SequenceTheorems, TLAPS

\* A step of the runner, of another process, or of nobody.
Step == Next \/ ReplaceRun

AuditSteps == {"install", "provenance", "preflight", "audit", "cover", "policy", "cases", "bind"}
PackSteps == AuditSteps \cup {"snapshot"}
CaseSteps == {"launch", "waiting", "remove", "wait", "scan", "observe", "hash", "copy", "cleanup"}
UnsignedSteps == PackSteps \cup {"create", "materialize"} \cup CaseSteps
                     \cup {"write", "observations", "evidence"}
SignedSteps == {"forbidden", "finalize", "rename", "verify"}

PackStep ==
    \/ VerifyInstallReceipt \/ CheckProvenance \/ Preflight
    \/ AuditRead \/ AuditCover \/ AuditPolicy \/ AuditCases \/ Bind \/ Capture \/ CreateRun

CaseStep ==
    \/ Materialize
    \/ \E how \in {"exit0", "failed", "timed_out"}, output \in Outputs :
           RunNative(how, output) \/ ContainerExited(how, output)
    \/ RunNativeFails \/ LaunchContainer \/ ContainerTimeout \/ RemoveContainer
    \/ \E output \in Outputs : WaitContainer(output)
    \/ ScanChild
    \/ \E outcome \in {"failed", "completed", "witnessed"} : Observe(outcome)
    \/ HashWitness \/ CopyWitness \/ RemoveSource

SealStep ==
    \/ WriteObservations \/ DigestObservations \/ SignReceipt \/ ScanCandidate
    \/ Finalize \/ Rename \/ VerifyFinal \/ IoError

OtherStep == Environment \/ ReplaceRun

LEMMA StepGroups == Step <=> PackStep \/ CaseStep \/ SealStep \/ OtherStep
BY DEF Step, Next, RunnerStep, PackStep, CaseStep, SealStep, OtherStep

-----------------------------------------------------------------------------
(* The invariant, part by part. *)

RunnerTyped ==
    /\ at \in UnsignedSteps \cup SignedSteps \cup {"returned"}
    /\ backend \in {"native", "container"}
    /\ k \in 1..Len(CaseOrder)
    /\ engine \in {"off", "starting", "refused", "running", "ended"}
    /\ install \in Versions
    /\ source \in [Cases -> {None, "other", install}]
    /\ seen \in [Cases -> {None, "failed", "completed", "witnessed"}]
    /\ ran \in [Cases -> {None, "other", install}]
    /\ snapshot \in [Cases -> {None, install}]
    /\ dir \in {None, "partial", "final"}
    /\ files \in [RunFiles -> Contents]

\* From the bind on, what is read is compared with what was signed; the cases
\* are kept as they are read, the rest of them is still to be read.
PackBound ==
    /\ at \notin AuditSteps \cup {"returned"} => audit.manifest = install
    /\ at = "snapshot" => /\ left \in Seq(PackFiles) /\ left # <<>>
                          /\ \A c \in Cases : snapshot[c] = install \/ \E i \in DOMAIN left : left[i] = c
    /\ at \notin PackSteps \cup {"returned"} => \A c \in Cases : snapshot[c] = install

ErrorsKept == at \notin {"cleanup", "returned"} => errors = {}

\* An engine that is on belongs to the current case, and once no step of the
\* container waits for it the run is a failed one.
EngineBound ==
    /\ engine # "off" =>
           /\ at \in {"waiting", "remove", "wait"} \/ (at \in {"cleanup", "returned"} /\ errors # {})
    /\ engine \in {"running", "ended"} /\ at \in {"waiting", "remove", "wait"} => ran[Case] # None

\* What has been changed since it was written is known.
ChangedSource(c) == <<Source(c), "unsigned">> \in changed
ChangesBound ==
    \A c \in Cases :
        source[c] = "other" \/ ran[c] = "other" => install = "other" \/ ChangedSource(c)

\* Only the current case has a directory, and it has one until the cleanup.
SourceBound ==
    /\ at \notin CaseSteps \cup {"returned"} => \A c \in Cases : source[c] = None
    /\ at \in CaseSteps => source[Case] # None /\ \A c \in Cases : c # Case => source[c] = None

\* The cases before the current one are done, and at the end all are.
Done(c) == seen[c] # None /\ (backend = "container" => ran[c] # None)

CasesDone ==
    /\ at \in PackSteps \cup {"create"} => k = 1
    /\ at \in {"materialize"} \cup CaseSteps => \A j \in 1..(k - 1) : Done(CaseOrder[j])
    /\ at \in {"scan", "observe", "hash", "copy"} => (backend = "container" => ran[Case] # None)
    /\ at \in {"hash", "copy"} => seen[Case] # None
    /\ at = "cleanup" /\ errors = {} => Done(Case)
    /\ at \in {"write", "observations", "evidence"} \cup SignedSteps => \A c \in Cases : Done(c)
    /\ dir = "final" => \A c \in Cases : Done(c)

DirBound ==
    /\ at \in PackSteps \cup {"create"} => dir = None
    /\ dir = "final" => at \in {"verify", "returned"}
    /\ at = "verify" => dir = "final"

ReceiptBound ==
    /\ at \in UnsignedSteps => files[Receipt] = None
    /\ at \in SignedSteps \/ dir = "final" => files[Receipt] # None
    /\ files[Receipt] # None =>
           /\ receipt.run = "own" /\ receipt.backend = backend
           /\ receipt.manifest = install /\ receipt.executed = install
           /\ \A f \in Evidence : receipt.evidence[f] \in {None, "own"} \/ ChangedUnsigned(f)

\* Before the receipt is signed, evidence is what the run wrote, was changed, or
\* is the output of the child that is about to be scanned.
UnsignedBound ==
    at \in UnsignedSteps /\ ~(at = "cleanup" /\ errors # {}) => \A f \in Evidence :
        \/ files[f] \in {None, "own"} \/ ChangedUnsigned(f)
        \/ at = "scan" /\ f = Log(Case) /\ files[f] = "dirty"

ScanBound ==
    at \in {"finalize", "rename", "verify"} \/ dir = "final" =>
        \A f \in RunFiles : files[f] = "dirty" => <<f, "scanned">> \in changed

ChangedScanned == \E f \in RunFiles : <<f, "scanned">> \in changed
SumsBound ==
    /\ at = "verify" => SumsHold \/ ChangedScanned
    /\ dir = "final" /\ errors # {} => ChangedScanned

-----------------------------------------------------------------------------
(* What the groups of steps do. *)

LEMMA CaseTyped == ASSUME k \in 1..Len(CaseOrder) PROVE Case \in Cases
BY BlindRunnerAssumption DEF Case, Cases, ToSet

LEMMA PackSummary ==
    ASSUME PackStep
    PROVE  /\ at \in PackSteps \cup {"create"}
           /\ UNCHANGED <<install, metadata, backend, caseVars, sums, receipt, others>>
           /\ at = "snapshot" \/ snapshot' = snapshot
           /\ \/ /\ at' = "returned" /\ errors' # {} /\ dir' = dir /\ files' = files
              \/ /\ at \in PackSteps /\ at' \in PackSteps \cup {"create"}
                 /\ errors' = errors /\ dir' = dir /\ files' = files
              \/ /\ at = "create" /\ at' = "materialize" /\ errors' = errors
                 /\ dir' = "partial" /\ files' = [files EXCEPT ![Identity] = "own"]
BY DEF PackStep, VerifyInstallReceipt, CheckProvenance, Preflight, AuditRead, AuditCover, AuditPolicy,
   AuditCases, Bind, Capture, CreateRun, Compare, At, Goto, Fail, PackSteps, AuditSteps,
   packVars, auditVars, caseVars, runVars, others

LEMMA CaseSummary ==
    ASSUME CaseStep
    PROVE  /\ at \in {"materialize"} \cup CaseSteps
           /\ UNCHANGED <<packVars, auditVars, sums, dir, receipt, others>>
           /\ \/ /\ at' \in {"cleanup", "returned"} /\ errors' # {}
              \/ /\ at' \in {"materialize", "write"} \cup CaseSteps /\ errors' = errors
BY DEF CaseStep, Materialize, RunNative, ContainerExited, RunNativeFails, LaunchContainer,
   ContainerTimeout, RemoveContainer, WaitContainer, ScanChild, Observe, HashWitness, CopyWitness,
   RemoveSource, RunError, Ended, Seen, At, Goto, Fail, CaseSteps,
   packVars, auditVars, caseVars, runVars, others

LEMMA SealSummary ==
    ASSUME SealStep
    PROVE  /\ at \in {"create", "write", "observations", "evidence"} \cup SignedSteps
           /\ UNCHANGED <<packVars, auditVars, caseVars, others>>
           /\ \/ at' = "returned" /\ errors' # {}
              \/ at' = "returned" /\ at = "verify" /\ SumsHold /\ errors' = errors
              \/ at = "write" /\ at' = "observations" /\ errors' = errors
              \/ at = "observations" /\ at' = "evidence" /\ errors' = errors
              \/ at = "evidence" /\ at' = "forbidden" /\ errors' = errors
              \/ at = "forbidden" /\ at' = "finalize" /\ errors' = errors
              \/ at = "finalize" /\ at' = "rename" /\ errors' = errors
              \/ /\ at = "rename" /\ at' = "verify" /\ SumsHold /\ errors' = errors
                 /\ dir' = "final" /\ files' = files /\ sums' = sums
           /\ dir' = dir \/ (dir' = "final" /\ at = "rename" /\ at' = "verify")
BY DEF SealStep, WriteObservations, DigestObservations, SignReceipt, ScanCandidate, Finalize, Rename,
   VerifyFinal, IoError, At, Goto, Fail, SignedSteps, packVars, auditVars, caseVars, runVars, others

LEMMA OtherSummary ==
    ASSUME OtherStep
    PROVE  /\ UNCHANGED <<at, left, errors, install, metadata, backend, auditVars,
                          k, status, seen, dir, sums, receipt>>
           /\ \/ UNCHANGED <<engine, ran>>
              \/ engine = "starting" /\ engine' = "refused" /\ ran' = ran
              \/ /\ engine = "starting" /\ engine' = "running"
                 /\ \/ source[Case] = None /\ ran' = ran
                    \/ source[Case] # None /\ ran' = [ran EXCEPT ![Case] = source[Case]]
              \/ engine = "running" /\ engine' = "ended" /\ ran' = ran
           /\ \/ source' = source
              \/ /\ UNCHANGED <<engine, ran>>
                 /\ \E c \in Cases : /\ source[c] # None /\ source' = [source EXCEPT ![c] = "other"]
                                     /\ <<Source(c), "unsigned">> \in changed'
BY DEF OtherStep, Environment, EngineStep, Reinstall, ChangePack, ChangeRun, ChangeSource, ReplaceRun,
   packVars, auditVars, caseVars, runVars, others

\* The run goes on to another case, or to its end, only without an error.
LEMMA CleanupGoesOn ==
    ASSUME CaseStep, at = "cleanup", at' # "returned"
    PROVE  /\ RemoveSource /\ errors = {} /\ source' = [source EXCEPT ![Case] = None]
           /\ \/ k < Len(CaseOrder) /\ at' = "materialize" /\ k' = k + 1
              \/ ~(k < Len(CaseOrder)) /\ at' = "write" /\ k' = k
BY DEF CaseStep, Materialize, RunNative, ContainerExited, RunNativeFails, LaunchContainer,
   ContainerTimeout, RemoveContainer, WaitContainer, ScanChild, Observe, HashWitness, CopyWitness,
   RemoveSource, At, Goto, Fail

\* What other processes do to the files of the run, they are seen to do.
LEMMA OtherFiles ==
    ASSUME OtherStep, files \in [RunFiles -> Contents], NEW f \in RunFiles
    PROVE  /\ changed \subseteq changed'
           /\ files' \in [RunFiles -> Contents]
           /\ \/ files'[f] = files[f]
              \/ /\ files'[f] \in Foreign
                 /\ \/ files[f] # None /\ <<f, Phase>> \in changed'
                    \/ dir = "final" /\ <<f, "scanned">> \in changed'
<1>1. CASE EngineStep
  BY <1>1 DEF EngineStep, runVars, others
<1>2. CASE \E v \in Versions : Reinstall(v) \/ \E g \in PackFiles : ChangePack(g, v)
  BY <1>2 DEF Reinstall, ChangePack, runVars
<1>3. ASSUME NEW g \in RunFiles, NEW content \in Foreign, ChangeRun(g, content)
      PROVE  /\ changed \subseteq changed'
             /\ files' \in [RunFiles -> Contents]
             /\ files'[f] = files[f] \/ (files'[f] \in Foreign /\ files[f] # None /\ <<f, Phase>> \in changed')
  <2>1. /\ files' = [files EXCEPT ![g] = content] /\ changed' = changed \cup {<<g, Phase>>}
        /\ files[g] # None
    BY <1>3 DEF ChangeRun
  <2>2. QED BY <2>1 DEF Contents
<1>4. CASE ReplaceRun
  <2>1. /\ files' = [g \in RunFiles |-> "other"] /\ changed' = changed \cup (RunFiles \X {"scanned"})
        /\ dir = "final"
    BY <1>4 DEF ReplaceRun
  <2>2. QED BY <2>1 DEF Contents, Foreign
<1>6. CASE \E c \in Cases : ChangeSource(c)
  BY <1>6 DEF ChangeSource, runVars
<1>5. QED
  BY <1>1, <1>2, <1>3, <1>4, <1>6 DEF OtherStep, Environment

\* A directory that others change is there before and after.
LEMMA OtherSource ==
    ASSUME OtherStep, RunnerTyped
    PROVE  /\ source' \in [Cases -> {None, "other", install}]
           /\ \A c \in Cases : source'[c] = None <=> source[c] = None
<1>1. \/ source' = source
      \/ \E c \in Cases : source[c] # None /\ source' = [source EXCEPT ![c] = "other"]
  BY OtherSummary
<1>2. QED BY <1>1 DEF RunnerTyped, None

-----------------------------------------------------------------------------
(* Each part is kept by every step. *)

RunnerCore == RunnerTyped /\ PackBound /\ ErrorsKept

LEMMA TypedStep == RunnerTyped /\ PackBound /\ [Step]_vars => RunnerTyped'
<1> SUFFICES ASSUME RunnerTyped, PackBound, [Step]_vars PROVE RunnerTyped'
  OBVIOUS
<1>c. Case \in Cases
  BY CaseTyped DEF RunnerTyped
<1>f. /\ \A c \in Cases : Log(c) \in RunFiles /\ Witness(c) \in RunFiles
      /\ Observations \in RunFiles /\ Receipt \in RunFiles
      /\ Identity \in RunFiles /\ Checksums \in RunFiles
  BY DEF RunFiles, Evidence
<1>1. ASSUME PackStep PROVE RunnerTyped'
  <2>1. at' \in UnsignedSteps \cup {"returned"} /\ dir' \in {None, "partial", "final"}
    BY <1>1, PackSummary DEF RunnerTyped, UnsignedSteps
  <2>2. files' \in [RunFiles -> Contents]
    BY <1>1, PackSummary DEF RunnerTyped, Contents
  <2>3. snapshot' \in [Cases -> {None, install}]
    <3>1. CASE at # "snapshot" BY <3>1, <1>1, PackSummary DEF RunnerTyped
    <3>2. CASE at = "snapshot"
      <4>1. audit.manifest = install
        BY <3>2 DEF PackBound, AuditSteps
      <4>2. Capture
        BY <3>2, <1>1 DEF PackStep, VerifyInstallReceipt, CheckProvenance, Preflight, AuditRead,
           AuditCover, AuditPolicy, AuditCases, Bind, CreateRun, Compare, At
      <4>3. QED BY <4>1, <4>2 DEF Capture, RunnerTyped
    <3>3. QED BY <3>1, <3>2
  <2>4. QED BY <2>1, <2>2, <2>3, <1>1, PackSummary DEF RunnerTyped, caseVars
<1>2. ASSUME CaseStep PROVE RunnerTyped'
  <2>1. at' \in UnsignedSteps \cup {"returned"}
    BY <1>2, CaseSummary DEF UnsignedSteps, CaseSteps
  <2>2. UNCHANGED <<install, backend, snapshot, dir>>
    BY <1>2, CaseSummary DEF packVars, auditVars
  <2>3. k' \in 1..Len(CaseOrder)
    <3>1. k' = k \/ (k < Len(CaseOrder) /\ k' = k + 1)
      BY <1>2 DEF CaseStep, Materialize, RunNative, ContainerExited, RunNativeFails, LaunchContainer,
         ContainerTimeout, RemoveContainer, WaitContainer, ScanChild, Observe, HashWitness, CopyWitness,
         RemoveSource, caseVars
    <3>2. QED BY <3>1, BlindRunnerAssumption, LenProperties DEF RunnerTyped
  <2>4. engine' \in {"off", "starting", "refused", "running", "ended"}
    BY <1>2 DEF RunnerTyped, CaseStep, Materialize, RunNative, ContainerExited, RunNativeFails, LaunchContainer,
       ContainerTimeout, RemoveContainer, WaitContainer, ScanChild, Observe, HashWitness, CopyWitness,
       RemoveSource, Ended, caseVars
  <2>5. source' \in [Cases -> {None, "other", install}]
    <3>1. \/ source' = source
          \/ \E rest \in {None, snapshot[Case], source[Case]} : source' = [source EXCEPT ![Case] = rest]
      BY <1>2 DEF CaseStep, Materialize, RunNative, ContainerExited, RunNativeFails, LaunchContainer,
         ContainerTimeout, RemoveContainer, WaitContainer, ScanChild, Observe, HashWitness, CopyWitness,
         RemoveSource, caseVars
    <3>2. {None, snapshot[Case], source[Case]} \subseteq {None, "other", install}
      BY <1>c DEF RunnerTyped
    <3>3. QED BY <3>1, <3>2, <1>c DEF RunnerTyped
  <2>6. seen' \in [Cases -> {None, "failed", "completed", "witnessed"}]
    BY <1>2 DEF RunnerTyped, CaseStep, Materialize, RunNative, ContainerExited, RunNativeFails, LaunchContainer,
       ContainerTimeout, RemoveContainer, WaitContainer, ScanChild, Observe, HashWitness, CopyWitness,
       RemoveSource, Seen, caseVars
  <2>7. ran' \in [Cases -> {None, "other", install}]
    <3>1. ran' = ran \/ ran' = [ran EXCEPT ![Case] = source[Case]]
      BY <1>2 DEF CaseStep, Materialize, RunNative, ContainerExited, RunNativeFails, LaunchContainer,
         ContainerTimeout, RemoveContainer, WaitContainer, ScanChild, Observe, HashWitness, CopyWitness,
         RemoveSource, caseVars
    <3>2. QED BY <3>1, <1>c DEF RunnerTyped
  <2>8. files' \in [RunFiles -> Contents]
    <3>1. \/ files' = files
          \/ \E output \in Outputs : files' = [files EXCEPT ![Log(Case)] = output]
          \/ files' = [files EXCEPT ![Witness(Case)] = files[Log(Case)]]
      BY <1>2 DEF CaseStep, Materialize, RunNative, ContainerExited, RunNativeFails, LaunchContainer,
         ContainerTimeout, RemoveContainer, WaitContainer, ScanChild, Observe, HashWitness, CopyWitness,
         RemoveSource, Ended, runVars
    <3>2. QED BY <3>1, <1>c, <1>f DEF RunnerTyped, Contents, Outputs, Foreign
  <2>9. QED BY <2>1, <2>2, <2>3, <2>4, <2>5, <2>6, <2>7, <2>8 DEF RunnerTyped
<1>3. ASSUME SealStep PROVE RunnerTyped'
  <2>1. /\ UNCHANGED <<install, backend, snapshot, k, engine, source, seen, ran>>
        /\ at' \in UnsignedSteps \cup SignedSteps \cup {"returned"}
        /\ dir' \in {None, "partial", "final"}
    BY <1>3, SealSummary DEF RunnerTyped, packVars, auditVars, caseVars, UnsignedSteps, SignedSteps
  <2>2. files' \in [RunFiles -> Contents]
    BY <1>3, <1>f DEF RunnerTyped, SealStep, WriteObservations, DigestObservations, SignReceipt, ScanCandidate,
       Finalize, Rename, VerifyFinal, IoError, Contents, runVars
  <2>3. QED BY <2>1, <2>2 DEF RunnerTyped
<1>4. ASSUME OtherStep PROVE RunnerTyped'
  <2>1. UNCHANGED <<at, install, backend, snapshot, k, seen, dir>> /\ source' \in [Cases -> {None, "other", install}]
    BY <1>4, OtherSummary, OtherSource DEF auditVars
  <2>2. engine' \in {"off", "starting", "refused", "running", "ended"}
    BY <1>4, OtherSummary DEF RunnerTyped
  <2>3. ran' \in [Cases -> {None, "other", install}]
    BY <1>4, <1>c, OtherSummary DEF RunnerTyped
  <2>4. files' \in [RunFiles -> Contents]
    BY <1>4, <1>f, OtherFiles DEF RunnerTyped
  <2>5. QED BY <2>1, <2>2, <2>3, <2>4 DEF RunnerTyped
<1>5. CASE UNCHANGED vars
  BY <1>5 DEF RunnerTyped, vars, packVars, auditVars, caseVars, runVars
<1>6. QED BY <1>1, <1>2, <1>3, <1>4, <1>5, StepGroups

\* Reading one file more of a list leaves the rest of it to be read.
LEMMA TailCovers ==
    ASSUME NEW S, NEW seq \in Seq(S), seq # <<>>, Len(seq) # 1
    PROVE  /\ Tail(seq) \in Seq(S) /\ Tail(seq) # <<>>
           /\ \A i \in DOMAIN seq : seq[i] = Head(seq) \/ \E j \in DOMAIN Tail(seq) : Tail(seq)[j] = seq[i]
<1>1. Tail(seq) \in Seq(S) /\ Len(Tail(seq)) = Len(seq) - 1 /\ Len(seq) \in Nat /\ Len(seq) > 1
  <2>1. Len(seq) \in Nat
    BY LenProperties
  <2>2. Len(seq) # 0
    BY EmptySeq
  <2>3. Tail(seq) \in Seq(S) /\ Len(Tail(seq)) = Len(seq) - 1
    BY HeadTailProperties
  <2>4. QED BY <2>1, <2>2, <2>3
<1>2. ASSUME NEW i \in DOMAIN seq, i # 1
      PROVE  \E j \in DOMAIN Tail(seq) : Tail(seq)[j] = seq[i]
  <2>1. i - 1 \in 1..Len(Tail(seq))
    BY <1>1, <1>2, LenProperties
  <2>2. Tail(seq)[i - 1] = seq[i]
    BY <2>1, <1>1, <1>2, HeadTailProperties
  <2>3. QED BY <2>1, <2>2, <1>1, LenProperties
<1>3. Tail(seq) # <<>>
  <2> DEFINE rest == Tail(seq)
  <2>1. Len(rest) # 0
    BY <1>1
  <2> HIDE DEF rest
  <2>2. ASSUME rest = <<>> PROVE Len(rest) = 0
    BY <2>2
  <2>3. rest # <<>>
    BY <2>1, <2>2
  <2>4. QED BY <2>3 DEF rest
<1>4. QED BY <1>1, <1>2, <1>3

LEMMA PackBoundStep == RunnerTyped /\ PackBound /\ [Step]_vars => PackBound'
<1> SUFFICES ASSUME RunnerTyped, PackBound, [Step]_vars PROVE PackBound'
  OBVIOUS
<1>1. ASSUME UNCHANGED <<install, audit, snapshot>>, at \in PackSteps \cup {"returned"} => at' = at,
             at' \in PackSteps => at' = at /\ left' = left, at = "returned" => at' = "returned"
      PROVE  PackBound'
  <2>1. at' \notin AuditSteps \cup {"returned"} => audit.manifest = install
    BY <1>1 DEF PackBound, PackSteps
  <2>2. at' \notin PackSteps \cup {"returned"} => \A c \in Cases : snapshot[c] = install
    BY <1>1 DEF PackBound
  <2>3. QED BY <1>1, <2>1, <2>2 DEF PackBound, PackSteps
<1>2. ASSUME CaseStep \/ SealStep PROVE PackBound'
  <2>1. UNCHANGED <<install, audit, snapshot>> /\ at \notin PackSteps \cup {"returned"} /\ at' \notin PackSteps
    BY <1>2, CaseSummary, SealSummary DEF packVars, auditVars, PackSteps, AuditSteps, CaseSteps, SignedSteps
  <2>2. QED BY <1>1, <2>1
<1>3. ASSUME OtherStep \/ UNCHANGED vars PROVE PackBound'
  <2>1. UNCHANGED <<at, left, install, audit, snapshot>>
    BY <1>3, OtherSummary DEF auditVars, packVars, vars
  <2>2. QED BY <1>1, <2>1
<1>4. ASSUME VerifyInstallReceipt \/ CheckProvenance \/ Preflight \/ AuditRead \/ AuditCover
                 \/ AuditPolicy \/ AuditCases
      PROVE  PackBound'
  <2>1. at' \in AuditSteps \cup {"returned"}
    BY <1>4 DEF VerifyInstallReceipt, CheckProvenance, Preflight, AuditRead, AuditCover, AuditPolicy,
       AuditCases, Compare, At, Fail, AuditSteps
  <2>2. QED BY <2>1 DEF PackBound, PackSteps, AuditSteps
<1>5. ASSUME Bind PROVE PackBound'
  <2>1. CASE at' = "returned" BY <2>1 DEF PackBound, PackSteps, AuditSteps
  <2>2. CASE at' # "returned"
    <3>1. /\ at' = "snapshot" /\ left' = <<"manifest", "policy">> \o CaseOrder
          /\ UNCHANGED <<install, audit, snapshot>> /\ audit.manifest = install
      BY <1>5, <2>2 DEF Bind, Fail, packVars, auditVars
    <3>2. CaseOrder \in Seq(PackFiles) /\ <<"manifest", "policy">> \in Seq(PackFiles)
      BY BlindRunnerAssumption, LenProperties, IsASeq DEF PackFiles, Cases
    <3>3. left' \in Seq(PackFiles) /\ Len(left') = 2 + Len(CaseOrder)
          /\ \A i \in 1..Len(CaseOrder) : left'[i + 2] = CaseOrder[i]
      BY <3>1, <3>2, ConcatProperties, LenProperties
    <3>4. ASSUME NEW c \in Cases PROVE \E i \in DOMAIN left' : left'[i] = c
      <4>1. PICK i \in 1..Len(CaseOrder) : CaseOrder[i] = c
        BY <3>2, LenProperties DEF Cases, ToSet
      <4>2. i + 2 \in DOMAIN left' /\ left'[i + 2] = c
        BY <4>1, <3>2, <3>3, LenProperties
      <4>3. QED BY <4>2
    <3>5. left' # <<>>
      <4>1. ASSUME left' = <<>> PROVE Len(left') = 0
        BY <4>1
      <4>2. Len(left') # 0
        BY <3>2, <3>3, LenProperties
      <4>3. QED BY <4>1, <4>2
    <3>6. QED BY <3>1, <3>3, <3>4, <3>5 DEF PackBound, PackSteps, AuditSteps
  <2>3. QED BY <2>1, <2>2
<1>6. ASSUME Capture PROVE PackBound'
  <2>0. at = "snapshot" /\ audit' = audit /\ install' = install
    BY <1>6 DEF Capture, Compare, At, packVars
  <2>1. CASE at' = "returned" BY <2>1 DEF PackBound, PackSteps, AuditSteps
  <2>2. CASE at' # "returned"
    <3>1. /\ audit.manifest = install /\ left \in Seq(PackFiles) /\ left # <<>>
          /\ \A c \in Cases : snapshot[c] = install \/ \E i \in DOMAIN left : left[i] = c
      BY <2>0 DEF PackBound, PackSteps, AuditSteps
    <3>2. /\ pack[Head(left)] = audit.manifest
          /\ at' = IF Len(left) = 1 THEN "create" ELSE "snapshot"
          /\ left' = IF Len(left) = 1 THEN <<>> ELSE Tail(left)
      BY <1>6, <2>2 DEF Capture, Compare, Fail
    <3>3. \A c \in Cases : snapshot'[c] = IF c = Head(left) THEN install ELSE snapshot[c]
      BY <1>6, <3>1, <3>2 DEF Capture, RunnerTyped
    <3>4. CASE Len(left) = 1
      <4>1. \A i \in DOMAIN left : left[i] = Head(left)
        BY <3>1, <3>4, LenProperties
      <4>2. \A c \in Cases : snapshot'[c] = install
        BY <3>1, <3>3, <4>1
      <4>3. QED BY <2>0, <3>1, <3>2, <3>4, <4>2 DEF PackBound, PackSteps, AuditSteps
    <3>5. CASE Len(left) # 1
      <4>1. /\ left' \in Seq(PackFiles) /\ left' # <<>>
            /\ \A i \in DOMAIN left : left[i] = Head(left) \/ \E j \in DOMAIN left' : left'[j] = left[i]
        BY <3>1, <3>2, <3>5, TailCovers
      <4>2. \A c \in Cases : snapshot'[c] = install \/ \E j \in DOMAIN left' : left'[j] = c
        BY <3>1, <3>3, <4>1
      <4>3. QED BY <2>0, <3>1, <3>2, <3>5, <4>1, <4>2 DEF PackBound, PackSteps, AuditSteps
    <3>6. QED BY <3>4, <3>5
  <2>3. QED BY <2>1, <2>2
<1>7. ASSUME CreateRun PROVE PackBound'
  <2>1. at = "create" /\ at' = "materialize" /\ UNCHANGED <<install, audit, snapshot>>
    BY <1>7 DEF CreateRun, At, Goto, packVars, auditVars
  <2>2. QED BY <2>1 DEF PackBound, PackSteps, AuditSteps
<1>8. QED BY <1>2, <1>3, <1>4, <1>5, <1>6, <1>7, StepGroups DEF PackStep

LEMMA ErrorsStep == RunnerTyped /\ ErrorsKept /\ [Step]_vars => ErrorsKept'
<1> SUFFICES ASSUME RunnerTyped, ErrorsKept, [Step]_vars, at' \notin {"cleanup", "returned"} PROVE errors' = {}
  BY DEF ErrorsKept
<1>1. CASE PackStep
  BY <1>1, PackSummary DEF ErrorsKept, PackSteps, AuditSteps
<1>2. CASE CaseStep
  BY <1>2, CaseSummary, CleanupGoesOn DEF ErrorsKept, CaseSteps
<1>3. CASE SealStep
  BY <1>3, SealSummary DEF ErrorsKept, SignedSteps
<1>4. CASE OtherStep \/ UNCHANGED vars
  BY <1>4, OtherSummary DEF ErrorsKept, vars
<1>5. QED BY <1>1, <1>2, <1>3, <1>4, StepGroups

LEMMA EngineBoundStep == RunnerTyped /\ ErrorsKept /\ EngineBound /\ SourceBound /\ [Step]_vars => EngineBound'
<1> SUFFICES ASSUME RunnerTyped, ErrorsKept, EngineBound, SourceBound, [Step]_vars PROVE EngineBound'
  OBVIOUS
<1>c. Case \in Cases
  BY CaseTyped DEF RunnerTyped
<1>1. CASE PackStep \/ SealStep
  <2>1. engine = "off"
    BY <1>1, PackSummary, SealSummary
    DEF EngineBound, ErrorsKept, PackSteps, AuditSteps, SignedSteps
  <2>2. engine' = engine
    BY <1>1, PackSummary, SealSummary DEF caseVars
  <2>3. QED BY <2>1, <2>2 DEF EngineBound
<1>2. CASE CaseStep
  <2>1. UNCHANGED <<install, snapshot>>
    BY <1>2, CaseSummary DEF packVars, auditVars
  <2>2. CASE at = "launch"
    <3>1. engine = "off"
      BY <2>2 DEF EngineBound
    <3>2. k' = k /\ (engine' = "off" \/ (engine' = "starting" /\ at' = "waiting"))
      BY <1>2, <2>2, <3>1 DEF CaseStep, Materialize, RunNative, ContainerExited, RunNativeFails, LaunchContainer,
       ContainerTimeout, RemoveContainer, WaitContainer, ScanChild, Observe, HashWitness, CopyWitness,
       RemoveSource, Ended, RunError, At, Goto, caseVars
    <3>3. QED BY <2>1, <3>1, <3>2 DEF EngineBound, Case
  <2>3. CASE at \in {"waiting", "remove", "wait"}
    <3>1. /\ UNCHANGED <<k, ran>>
          /\ \/ engine' = "off"
             \/ /\ engine # "off" /\ engine' \in {engine, "refused", "ended"}
                /\ engine' = "ended" => engine \in {"running", "ended"}
                /\ \/ at' \in {"waiting", "remove", "wait"}
                   \/ at' = "cleanup" /\ errors' # {}
      BY <1>2, <2>3 DEF CaseStep, Materialize, RunNative, ContainerExited, RunNativeFails, LaunchContainer,
       ContainerTimeout, RemoveContainer, WaitContainer, ScanChild, Observe, HashWitness, CopyWitness,
       RemoveSource, Ended, RunError, At, Goto, caseVars, EngineBound, RunnerTyped
    <3>2. QED BY <2>3, <3>1 DEF EngineBound, Case
  <2>4. CASE at = "cleanup"
    <3>1. UNCHANGED <<engine, ran>>
      BY <1>2, <2>4 DEF CaseStep, Materialize, RunNative, ContainerExited, RunNativeFails, LaunchContainer,
       ContainerTimeout, RemoveContainer, WaitContainer, ScanChild, Observe, HashWitness, CopyWitness,
       RemoveSource, At
    <3>2. CASE at' # "returned"
      <4>1. errors = {}
        BY <1>2, <2>4, <3>2, CleanupGoesOn
      <4>2. QED BY <4>1, <3>1, <2>4 DEF EngineBound
    <3>3. CASE at' = "returned"
      <4>1. k' = k /\ errors' # {}
        BY <1>2, <2>4, <3>3 DEF CaseStep, Materialize, RunNative, ContainerExited, RunNativeFails, LaunchContainer,
       ContainerTimeout, RemoveContainer, WaitContainer, ScanChild, Observe, HashWitness, CopyWitness,
       RemoveSource, At, Goto, Fail
      <4>2. QED BY <4>1, <3>1, <3>3, <2>1 DEF EngineBound, Case
    <3>4. QED BY <3>2, <3>3
  <2>5. CASE at \in {"materialize", "scan", "observe", "hash", "copy"}
    <3>1. engine = "off"
      BY <2>5 DEF EngineBound
    <3>2. engine' = engine
      BY <1>2, <2>5 DEF CaseStep, Materialize, RunNative, ContainerExited, RunNativeFails, LaunchContainer,
       ContainerTimeout, RemoveContainer, WaitContainer, ScanChild, Observe, HashWitness, CopyWitness,
       RemoveSource, At, caseVars
    <3>3. QED BY <3>1, <3>2 DEF EngineBound
  <2>6. QED BY <1>2, <2>2, <2>3, <2>4, <2>5, CaseSummary DEF CaseSteps
<1>3. CASE OtherStep
  <2>1. UNCHANGED <<at, errors, k>>
    BY <1>3, OtherSummary
  <2>2. \/ UNCHANGED <<engine, ran>>
        \/ engine = "starting" /\ engine' = "refused" /\ ran' = ran
        \/ /\ engine = "starting" /\ engine' = "running"
           /\ \/ source[Case] = None /\ ran' = ran
              \/ source[Case] # None /\ ran' = [ran EXCEPT ![Case] = source[Case]]
        \/ engine = "running" /\ engine' = "ended" /\ ran' = ran
    BY <1>3, OtherSummary
  <2>3. at \in {"waiting", "remove", "wait"} => source[Case] # None
    BY DEF SourceBound, CaseSteps
  <2>4. QED BY <2>1, <2>2, <2>3, <1>c DEF EngineBound, RunnerTyped, Case
<1>4. CASE UNCHANGED vars
  BY <1>4 DEF EngineBound, Case, vars, packVars, auditVars, caseVars
<1>5. QED BY <1>1, <1>2, <1>3, <1>4, StepGroups

LEMMA SourceStep == RunnerTyped /\ PackBound /\ SourceBound /\ [Step]_vars => SourceBound'
<1> SUFFICES ASSUME RunnerTyped, PackBound, SourceBound, [Step]_vars PROVE SourceBound'
  OBVIOUS
<1>c. Case \in Cases
  BY CaseTyped DEF RunnerTyped
<1>1. CASE PackStep \/ SealStep
  <2>1. /\ source' = source /\ at \notin CaseSteps \cup {"returned"} /\ at' \notin CaseSteps
    BY <1>1, PackSummary, SealSummary DEF caseVars, PackSteps, AuditSteps, CaseSteps, SignedSteps
  <2>2. QED BY <2>1 DEF SourceBound
<1>2. CASE CaseStep
  <2>1. CASE at = "materialize"
    <3>1. /\ at' \in {"launch", "returned"} /\ k' = k
          /\ at' = "launch" => source' = [source EXCEPT ![Case] = snapshot[Case]]
      BY <1>2, <2>1, <1>c DEF CaseStep, Materialize, RunNative, ContainerExited, RunNativeFails, LaunchContainer,
       ContainerTimeout, RemoveContainer, WaitContainer, ScanChild, Observe, HashWitness, CopyWitness,
       RemoveSource, At, Goto, Fail, RunnerTyped
    <3>2. at' = "launch" => source'[Case] # None /\ \A c \in Cases : c # Case => source'[c] = None
      <4>1. snapshot[Case] = install /\ install # None
        BY <2>1, <1>c, BlindRunnerAssumption DEF PackBound, PackSteps, AuditSteps, RunnerTyped
      <4>2. \A c \in Cases : source[c] = None
        BY <2>1 DEF SourceBound, CaseSteps
      <4>3. QED BY <3>1, <4>1, <4>2, <1>c DEF RunnerTyped
    <3>3. CASE at' = "returned"
      BY <3>3 DEF SourceBound, CaseSteps
    <3>4. CASE at' = "launch"
      BY <3>1, <3>2, <3>4 DEF SourceBound, Case, CaseSteps
    <3>5. QED BY <3>1, <3>3, <3>4
  <2>2. CASE at = "cleanup"
    <3>1. CASE at' = "returned" BY <3>1 DEF SourceBound, CaseSteps
    <3>2. CASE at' # "returned"
      <4>1. at' \in {"materialize", "write"} /\ source' = [source EXCEPT ![Case] = None]
        BY <1>2, <2>2, <3>2, CleanupGoesOn
      <4>2. \A c \in Cases : source'[c] = None
        BY <4>1, <2>2, <1>c DEF SourceBound, RunnerTyped, CaseSteps
      <4>3. QED BY <4>1, <4>2 DEF SourceBound, CaseSteps
    <3>3. QED BY <3>1, <3>2
  <2>3. CASE at \in CaseSteps \ {"cleanup"}
    <3>1. UNCHANGED <<source, k>> /\ at' \in CaseSteps
      BY <1>2, <2>3 DEF CaseStep, Materialize, RunNative, ContainerExited, RunNativeFails, LaunchContainer,
       ContainerTimeout, RemoveContainer, WaitContainer, ScanChild, Observe, HashWitness, CopyWitness,
       RemoveSource, Ended, RunError, Seen, At, Goto, CaseSteps, caseVars
    <3>2. QED BY <3>1, <2>3 DEF SourceBound, Case
  <2>4. QED BY <1>2, <2>1, <2>2, <2>3, CaseSummary
<1>3. CASE OtherStep \/ UNCHANGED vars
  <2>1. UNCHANGED <<at, k>> /\ \A c \in Cases : source'[c] = None <=> source[c] = None
    BY <1>3, OtherSummary, OtherSource DEF vars, caseVars
  <2>2. QED BY <2>1, <1>c DEF SourceBound, Case
<1>4. QED BY <1>1, <1>2, <1>3, StepGroups

LEMMA DirStep == DirBound /\ [Step]_vars => DirBound'
<1> SUFFICES ASSUME DirBound, [Step]_vars PROVE DirBound'
  OBVIOUS
<1>1. CASE PackStep
  BY <1>1, PackSummary DEF DirBound, PackSteps, AuditSteps
<1>2. CASE CaseStep
  <2>1. /\ dir' = dir /\ at \in {"materialize"} \cup CaseSteps
        /\ at' \in {"returned", "materialize", "write"} \cup CaseSteps
    BY <1>2, CaseSummary DEF CaseSteps
  <2>2. QED BY <2>1 DEF DirBound, PackSteps, AuditSteps, CaseSteps
<1>3. CASE SealStep
  BY <1>3, SealSummary DEF DirBound, PackSteps, AuditSteps, SignedSteps
<1>4. CASE OtherStep \/ UNCHANGED vars
  BY <1>4, OtherSummary DEF DirBound, vars, runVars
<1>5. QED BY <1>1, <1>2, <1>3, <1>4, StepGroups

\* A case that is done stays done.
LEMMA DoneKept ==
    ASSUME RunnerTyped, SourceBound, [Step]_vars, NEW c \in Cases, Done(c)
    PROVE  Done(c)'
<1>c. Case \in Cases
  BY CaseTyped DEF RunnerTyped
<1>1. UNCHANGED <<backend, install>>
  BY StepGroups, PackSummary, CaseSummary, SealSummary, OtherSummary DEF packVars, vars
<1>2. seen'[c] = seen[c] \/ (c = Case /\ seen'[c] # None)
  <2>1. CASE PackStep \/ SealStep \/ OtherStep \/ UNCHANGED vars
    BY <2>1, PackSummary, SealSummary, OtherSummary DEF caseVars, vars
  <2>2. CASE CaseStep
    <3>1. \/ seen' = seen
          \/ \E outcome \in {"failed", "completed", "witnessed"} : seen' = [seen EXCEPT ![Case] = outcome]
      BY <2>2 DEF CaseStep, Materialize, RunNative, ContainerExited, RunNativeFails, LaunchContainer,
       ContainerTimeout, RemoveContainer, WaitContainer, ScanChild, Observe, HashWitness, CopyWitness,
       RemoveSource, Seen, caseVars
    <3>2. QED BY <3>1, <1>c DEF RunnerTyped, None
  <2>3. QED BY <2>1, <2>2, StepGroups
<1>3. ran'[c] = ran[c] \/ ran'[c] # None
  <2>1. CASE PackStep \/ SealStep \/ UNCHANGED vars
    BY <2>1, PackSummary, SealSummary DEF caseVars, vars
  <2>2. CASE CaseStep
    <3>1. ran' = ran \/ (at = "launch" /\ ran' = [ran EXCEPT ![Case] = source[Case]])
      BY <2>2 DEF CaseStep, Materialize, RunNative, ContainerExited, RunNativeFails, LaunchContainer,
       ContainerTimeout, RemoveContainer, WaitContainer, ScanChild, Observe, HashWitness, CopyWitness,
       RemoveSource, At, caseVars
    <3>2. at = "launch" => source[Case] # None
      BY DEF SourceBound, CaseSteps
    <3>3. QED BY <3>1, <3>2, <1>c DEF RunnerTyped
  <2>3. CASE OtherStep
    BY <2>3, <1>c, OtherSummary DEF RunnerTyped
  <2>4. QED BY <2>1, <2>2, <2>3, StepGroups
<1>4. QED BY <1>1, <1>2, <1>3 DEF Done

LEMMA CasesDoneStep ==
    RunnerTyped /\ ErrorsKept /\ EngineBound /\ SourceBound /\ DirBound /\ CasesDone /\ [Step]_vars => CasesDone'
<1> SUFFICES ASSUME RunnerTyped, ErrorsKept, EngineBound, SourceBound, DirBound, CasesDone, [Step]_vars
             PROVE  CasesDone'
  OBVIOUS
<1>c. Case \in Cases
  BY CaseTyped DEF RunnerTyped
<1>i. /\ k \in 1..Len(CaseOrder) /\ Len(CaseOrder) \in Nat
      /\ \A j \in 1..Len(CaseOrder) : CaseOrder[j] \in Cases
      /\ \A c \in Cases : \E j \in 1..Len(CaseOrder) : c = CaseOrder[j]
  BY BlindRunnerAssumption, LenProperties DEF RunnerTyped, Cases, ToSet
<1>k. \A c \in Cases : Done(c) => Done(c)'
  BY DoneKept
<1>1. CASE PackStep
  <2>1. /\ k' = k /\ at \in PackSteps \cup {"create"} /\ k = 1
        /\ at' \in PackSteps \cup {"create", "materialize", "returned"}
        /\ dir' # "final"
    BY <1>1, PackSummary DEF caseVars, CasesDone, DirBound, None
  <2>2. at' = "materialize" => \A j \in 1..(k' - 1) : Done(CaseOrder[j])'
    BY <2>1
  <2>3. QED BY <2>1, <2>2 DEF CasesDone, PackSteps, AuditSteps, CaseSteps, SignedSteps
<1>2. CASE SealStep
  <2>1. /\ at' \in {"observations", "evidence", "returned"} \cup SignedSteps
        /\ at' = "returned" \/ at \in {"write", "observations", "evidence"} \cup SignedSteps
        /\ dir' = "final" => dir = "final" \/ at = "rename"
    BY <1>2, SealSummary DEF SignedSteps
  <2>2. /\ at' # "returned" => \A c \in Cases : Done(c)
        /\ dir' = "final" => \A c \in Cases : Done(c)
    BY <2>1 DEF CasesDone, SignedSteps
  <2>3. at' \notin {"materialize", "create"} \cup CaseSteps \cup PackSteps
    BY <2>1 DEF SignedSteps, CaseSteps, PackSteps, AuditSteps
  <2>4. QED BY <2>2, <2>3, <1>k DEF CasesDone, CaseSteps, SignedSteps
<1>3. CASE OtherStep \/ UNCHANGED vars
  <2>1. UNCHANGED <<at, k, errors, seen, backend, install, dir>>
    BY <1>3, OtherSummary DEF vars, caseVars, packVars, runVars
  <2>2. ran'[Case] = ran[Case] \/ ran'[Case] # None
    BY <1>3, <1>c, OtherSummary DEF RunnerTyped, vars, caseVars
  <2>3. \A j \in 1..(k - 1) : CaseOrder[j] \in Cases
    BY <1>i
  <2>p. at \in PackSteps \cup {"create"} => k = 1
    BY DEF CasesDone
  <2>4. at \in {"materialize"} \cup CaseSteps => \A j \in 1..(k - 1) : Done(CaseOrder[j])'
    BY <2>3, <1>k DEF CasesDone
  <2>5. at \in {"scan", "observe", "hash", "copy"} => (backend = "container" => ran'[Case] # None)
    BY <2>2 DEF CasesDone
  <2>6. at = "cleanup" /\ errors = {} =>
            seen[Case] # None /\ (backend = "container" => ran'[Case] # None)
    BY <2>2 DEF CasesDone, Done
  <2>7. /\ at \in {"write", "observations", "evidence"} \cup SignedSteps => \A c \in Cases : Done(c)'
        /\ dir = "final" => \A c \in Cases : Done(c)'
    BY <1>k DEF CasesDone
  <2>8. at \in {"hash", "copy"} => seen[Case] # None
    BY DEF CasesDone
  <2>9. Case' = Case
    BY <2>1 DEF Case
  <2>10. QED BY <2>1, <2>p, <2>4, <2>5, <2>6, <2>7, <2>8, <2>9 DEF CasesDone, Done
<1>4. CASE CaseStep
  <2>1. /\ UNCHANGED <<backend, install, dir, snapshot>>
        /\ at \in {"materialize"} \cup CaseSteps
        /\ at' \in {"returned", "materialize", "write"} \cup CaseSteps
        /\ dir # "final"
    BY <1>4, CaseSummary DEF packVars, auditVars, DirBound, CaseSteps
  <2>2. \A j \in 1..(k - 1) : Done(CaseOrder[j])'
    BY <2>1, <1>i, <1>k DEF CasesDone
  <2>3. CASE at = "cleanup"
    <3>1. CASE at' = "returned"
      BY <3>1, <2>1 DEF CasesDone, CaseSteps, PackSteps, AuditSteps, SignedSteps
    <3>2. CASE at' # "returned"
      <4>1. errors = {} /\ (\/ k < Len(CaseOrder) /\ at' = "materialize" /\ k' = k + 1
                            \/ ~(k < Len(CaseOrder)) /\ at' = "write" /\ k' = k)
        BY <1>4, <2>3, <3>2, CleanupGoesOn
      <4>2. \A j \in 1..Len(CaseOrder) : j = k => Done(CaseOrder[j])
        BY <4>1, <2>3 DEF CasesDone, Case
      <4>3. \A j \in 1..Len(CaseOrder) : j = k => Done(CaseOrder[j])'
        BY <4>2, <1>k, <1>i
      <4>4. \A j \in 1..k : Done(CaseOrder[j])'
        BY <4>3, <2>2, <1>i
      <4>5. CASE at' = "materialize"
        <5>1. \A j \in 1..(k' - 1) : Done(CaseOrder[j])'
          BY <4>1, <4>4, <4>5, <1>i
        <5>2. QED BY <4>5, <5>1, <2>1 DEF CasesDone, CaseSteps, PackSteps, AuditSteps, SignedSteps
      <4>6. CASE at' = "write"
        <5>1. k = Len(CaseOrder)
          BY <4>1, <4>6, <1>i
        <5>2. \A c \in Cases : Done(c)'
          BY <4>4, <5>1, <1>i
        <5>3. QED BY <4>6, <5>2, <2>1 DEF CasesDone, CaseSteps, PackSteps, AuditSteps, SignedSteps
      <4>7. QED BY <4>1, <4>5, <4>6
    <3>3. QED BY <3>1, <3>2
  <2>4. CASE at # "cleanup"
    <3>1. k' = k /\ at' \in {"returned"} \cup CaseSteps
      BY <1>4, <2>4 DEF CaseStep, Materialize, RunNative, ContainerExited, RunNativeFails, LaunchContainer,
       ContainerTimeout, RemoveContainer, WaitContainer, ScanChild, Observe, HashWitness, CopyWitness,
       RemoveSource, Ended, RunError, Seen, At, Goto, Fail, CaseSteps, caseVars
    <3>2. Case' = Case
      BY <3>1 DEF Case
    <3>3. at' \in {"scan", "observe", "hash", "copy"} => (backend = "container" => ran'[Case] # None)
      BY <1>4, <2>4, <1>c
      DEF CaseStep, Materialize, RunNative, ContainerExited, RunNativeFails, LaunchContainer,
       ContainerTimeout, RemoveContainer, WaitContainer, ScanChild, Observe, HashWitness, CopyWitness,
       RemoveSource, Ended, RunError, Seen, At, Goto, Fail, caseVars, CasesDone, EngineBound
    <3>4. at' \in {"hash", "copy"} => seen'[Case] # None
      BY <1>4, <2>4, <1>c
      DEF CaseStep, Materialize, RunNative, ContainerExited, RunNativeFails, LaunchContainer,
       ContainerTimeout, RemoveContainer, WaitContainer, ScanChild, Observe, HashWitness, CopyWitness,
       RemoveSource, Ended, RunError, Seen, At, Goto, Fail, caseVars, CasesDone, RunnerTyped, None
    <3>5. at' = "cleanup" /\ errors' = {} =>
              seen'[Case] # None /\ (backend = "container" => ran'[Case] # None)
      BY <1>4, <2>4, <1>c
      DEF CaseStep, Materialize, RunNative, ContainerExited, RunNativeFails, LaunchContainer,
       ContainerTimeout, RemoveContainer, WaitContainer, ScanChild, Observe, HashWitness, CopyWitness,
       RemoveSource, Ended, RunError, Seen, At, Goto, Fail, caseVars, CasesDone, RunnerTyped, None
    <3>6. QED
      BY <2>1, <2>2, <3>1, <3>2, <3>3, <3>4, <3>5
      DEF CasesDone, Done, CaseSteps, PackSteps, AuditSteps, SignedSteps
  <2>5. QED BY <2>3, <2>4
<1>5. QED BY <1>1, <1>2, <1>3, <1>4, StepGroups

\* The names of the files of a run are distinct.
LEMMA FileNames ==
    /\ Receipt \notin Evidence /\ Identity \notin Evidence /\ Checksums \notin Evidence
    /\ Receipt # Identity /\ Receipt # Checksums /\ Identity # Checksums
    /\ \A c, d : Log(c) # Witness(d) /\ Log(c) # Observations /\ Witness(c) # Observations
    /\ \A c, d : Log(c) = Log(d) => c = d
    /\ Evidence \subseteq RunFiles /\ Receipt \in RunFiles /\ Identity \in RunFiles /\ Checksums \in RunFiles
    /\ Observations \in Evidence
    /\ \A c \in Cases : Log(c) \in Evidence /\ Witness(c) \in Evidence
BY DEF Receipt, Identity, Checksums, Observations, Evidence, RunFiles, Log, Witness

LEMMA ChangedKept ==
    ASSUME changed \subseteq changed', NEW f, ChangedUnsigned(f)
    PROVE  ChangedUnsigned(f)'
BY DEF ChangedUnsigned

\* Only others change what is not being written: where a case step writes.
LEMMA CaseFiles ==
    ASSUME CaseStep
    PROVE  \/ files' = files /\ (at = "scan" => at' = "observe" \/ at' = "cleanup") /\ at' # "scan"
           \/ /\ \E output \in Outputs : files' = [files EXCEPT ![Log(Case)] = output]
              /\ at # "scan" /\ at' = "scan" /\ k' = k
           \/ /\ files' = [files EXCEPT ![Witness(Case)] = files[Log(Case)]]
              /\ at = "copy" /\ at' = "cleanup"
BY DEF CaseStep, Materialize, RunNative, ContainerExited, RunNativeFails, LaunchContainer,
       ContainerTimeout, RemoveContainer, WaitContainer, ScanChild, Observe, HashWitness, CopyWitness,
       RemoveSource, Ended, RunError, Seen, At, Goto, Fail, runVars, caseVars

LEMMA ReceiptStep ==
    RunnerTyped /\ PackBound /\ DirBound /\ UnsignedBound /\ ReceiptBound /\ [Step]_vars => ReceiptBound'
<1> SUFFICES ASSUME RunnerTyped, PackBound, DirBound, UnsignedBound, ReceiptBound, [Step]_vars PROVE ReceiptBound'
  OBVIOUS
<1>c. Case \in Cases
  BY CaseTyped DEF RunnerTyped
<1>1. CASE PackStep \/ CaseStep
  <2>1. files[Receipt] = None
    BY <1>1, PackSummary, CaseSummary DEF ReceiptBound, UnsignedSteps
  <2>2. files'[Receipt] = files[Receipt]
    BY <1>1, <1>c, PackSummary, CaseFiles, FileNames DEF RunnerTyped
  <2>3. at' \notin SignedSteps /\ dir' # "final"
    <3>1. CASE PackStep
      BY <3>1, PackSummary DEF DirBound, SignedSteps, PackSteps, AuditSteps, None
    <3>2. CASE CaseStep
      BY <3>2, CaseSummary DEF DirBound, SignedSteps, CaseSteps
    <3>3. QED BY <1>1, <3>1, <3>2
  <2>4. QED BY <2>1, <2>2, <2>3 DEF ReceiptBound
<1>2. CASE SealStep
  <2>0. /\ UNCHANGED <<backend, install, changed>>
        /\ at \in {"create", "write", "observations", "evidence"} \cup SignedSteps
    BY <1>2, SealSummary DEF packVars, others
  <2>1. CASE at \in {"create", "write", "observations"}
    <3>1. files[Receipt] = None
      BY <2>1 DEF ReceiptBound, UnsignedSteps
    <3>2. files'[Receipt] = files[Receipt]
      BY <1>2, <2>1, FileNames DEF RunnerTyped, SealStep, WriteObservations, DigestObservations, SignReceipt, ScanCandidate,
       Finalize, Rename, VerifyFinal, IoError, At, runVars
    <3>3. at' \notin SignedSteps /\ dir' # "final"
      BY <1>2, <2>1, SealSummary DEF DirBound, SignedSteps
    <3>4. QED BY <3>1, <3>2, <3>3 DEF ReceiptBound
  <2>2. CASE at = "evidence"
    <3>1. files[Receipt] = None /\ dir # "final" /\ dir' = dir
      BY <1>2, <2>2, SealSummary DEF ReceiptBound, UnsignedSteps, DirBound
    <3>2. CASE SignReceipt
      <4>1. audit.manifest = install
        BY <2>2 DEF PackBound, AuditSteps
      <4>2. \A f \in Evidence : files[f] \in {None, "own"} \/ ChangedUnsigned(f)
        BY <2>2 DEF UnsignedBound, UnsignedSteps
      <4>3. /\ receipt' = [run |-> "own", backend |-> backend,
                           manifest |-> install, executed |-> audit.manifest,
                           observations |-> receipt.observations,
                           evidence |-> [f \in Evidence |-> files[f]]]
            /\ files'[Receipt] = "own" /\ at' = "forbidden"
        BY <3>2, FileNames DEF SignReceipt, Goto, RunnerTyped
      <4>4. receipt'.evidence = [f \in Evidence |-> files[f]]
        BY <4>3
      <4>5. \A f \in Evidence : receipt'.evidence[f] \in {None, "own"} \/ ChangedUnsigned(f)'
        BY <4>2, <4>4, <2>0 DEF ChangedUnsigned
      <4>6. QED BY <4>1, <4>3, <4>5, <2>0, <3>1 DEF ReceiptBound, UnsignedSteps, PackSteps, AuditSteps, CaseSteps, None
    <3>3. CASE ~SignReceipt
      <4>1. files' = files /\ at' = "returned"
        BY <1>2, <2>2, <3>3 DEF SealStep, WriteObservations, DigestObservations, SignReceipt, ScanCandidate,
       Finalize, Rename, VerifyFinal, IoError, At, Fail, runVars
      <4>2. QED BY <4>1, <3>1 DEF ReceiptBound, SignedSteps
    <3>4. QED BY <3>2, <3>3
  <2>3. CASE at \in SignedSteps
    <3>1. files[Receipt] # None
      BY <2>3 DEF ReceiptBound
    <3>2. files'[Receipt] = files[Receipt] /\ receipt' = receipt
      BY <1>2, <2>3, FileNames DEF RunnerTyped, SealStep, WriteObservations, DigestObservations, SignReceipt, ScanCandidate,
       Finalize, Rename, VerifyFinal, IoError, At, runVars, SignedSteps
    <3>3. at' \notin UnsignedSteps
      BY <1>2, <2>3, SealSummary DEF SignedSteps, UnsignedSteps, PackSteps, AuditSteps, CaseSteps
    <3>4. QED BY <2>0, <3>1, <3>2, <3>3, ChangedKept DEF ReceiptBound
  <2>4. QED BY <2>0, <2>1, <2>2, <2>3
<1>3. CASE OtherStep \/ UNCHANGED vars
  <2>1. UNCHANGED <<at, dir, install, backend, receipt>>
    BY <1>3, OtherSummary DEF vars, packVars, runVars
  <2>2. changed \subseteq changed'
        /\ (files'[Receipt] = files[Receipt]
            \/ (files'[Receipt] \in Foreign /\ (files[Receipt] # None \/ dir = "final")))
    BY <1>3, OtherFiles, FileNames DEF RunnerTyped, vars, runVars, others
  <2>3. files'[Receipt] = None <=> files[Receipt] = None
    BY <2>2 DEF ReceiptBound, Foreign, None
  <2>4. QED BY <2>1, <2>2, <2>3, ChangedKept DEF ReceiptBound
<1>4. QED BY <1>1, <1>2, <1>3, StepGroups

LEMMA UnsignedStep ==
    RunnerTyped /\ ErrorsKept /\ DirBound /\ ReceiptBound /\ UnsignedBound /\ [Step]_vars => UnsignedBound'
<1> SUFFICES ASSUME RunnerTyped, ErrorsKept, DirBound, ReceiptBound, UnsignedBound, [Step]_vars,
                    at' \in UnsignedSteps, ~(at' = "cleanup" /\ errors' # {}), NEW f \in Evidence
             PROVE  \/ files'[f] \in {None, "own"} \/ ChangedUnsigned(f)'
                    \/ at' = "scan" /\ f = Log(Case)' /\ files'[f] = "dirty"
  BY DEF UnsignedBound
<1>c. Case \in Cases /\ f \in RunFiles
  BY CaseTyped, FileNames DEF RunnerTyped
<1>0. ASSUME at \in UnsignedSteps, ~(at = "cleanup" /\ errors # {}), at # "scan"
      PROVE  files[f] \in {None, "own"} \/ ChangedUnsigned(f)
  BY <1>0 DEF UnsignedBound
<1>1. CASE PackStep
  <2>1. files'[f] = files[f] /\ changed' = changed
    BY <1>1, <1>c, PackSummary, FileNames DEF RunnerTyped, others
  <2>2. at \in UnsignedSteps /\ at # "cleanup" /\ at # "scan"
    BY <1>1, PackSummary DEF UnsignedSteps, PackSteps, AuditSteps
  <2>3. QED BY <1>0, <2>1, <2>2, ChangedKept
<1>2. CASE SealStep
  <2>1. at \in {"write", "observations"} /\ changed' = changed
    BY <1>2, SealSummary DEF UnsignedSteps, SignedSteps, PackSteps, AuditSteps, CaseSteps, others
  <2>2. files'[f] \in {files[f], "own"}
    BY <1>2, <1>c, <2>1 DEF RunnerTyped, SealStep, WriteObservations, DigestObservations, SignReceipt, ScanCandidate,
       Finalize, Rename, VerifyFinal, IoError, At, runVars
  <2>3. QED BY <1>0, <2>1, <2>2, ChangedKept DEF UnsignedSteps
<1>3. CASE OtherStep \/ UNCHANGED vars
  <2>1. UNCHANGED <<at, errors, dir, k>>
    BY <1>3, OtherSummary DEF vars, runVars, caseVars
  <2>2. dir # "final" /\ Phase = "unsigned"
    BY <2>1
    DEF ReceiptBound, DirBound, Phase, UnsignedSteps, PackSteps, AuditSteps, CaseSteps
  <2>3. changed \subseteq changed' /\ (files'[f] = files[f] \/ <<f, "unsigned">> \in changed')
    BY <1>3, <1>c, <2>2, OtherFiles DEF RunnerTyped, vars, runVars, others
  <2>4. Log(Case)' = Log(Case)
    BY <2>1 DEF Log, Case
  <2>5. CASE <<f, "unsigned">> \in changed' BY <2>5 DEF ChangedUnsigned
  <2>6. CASE files'[f] = files[f]
    BY <2>1, <2>3, <2>4, <2>6, ChangedKept DEF UnsignedBound
  <2>7. QED BY <2>3, <2>5, <2>6
<1>4. CASE CaseStep
  <2>1. at \in {"materialize"} \cup CaseSteps /\ at \in UnsignedSteps /\ changed' = changed
    BY <1>4, CaseSummary DEF UnsignedSteps, others
  <2>2. ~(at = "cleanup" /\ errors # {})
    BY <1>4, CleanupGoesOn DEF UnsignedSteps, PackSteps, AuditSteps, CaseSteps
  <2>3. CASE files' = files /\ at # "scan"
    BY <1>0, <2>1, <2>2, <2>3, ChangedKept
  <2>4. CASE files' = files /\ at = "scan"
    <3>1. files[Log(Case)] # "dirty"
      BY <1>4, <2>4
      DEF CaseStep, Materialize, RunNative, ContainerExited, RunNativeFails, LaunchContainer,
       ContainerTimeout, RemoveContainer, WaitContainer, ScanChild, Observe, HashWitness, CopyWitness,
       RemoveSource, RunError, At, Goto
    <3>2. files[f] \in {None, "own"} \/ ChangedUnsigned(f)
      BY <2>1, <2>2, <2>4, <3>1 DEF UnsignedBound
    <3>3. QED BY <3>2, <2>1, <2>4, ChangedKept
  <2>5. CASE /\ \E output \in Outputs : files' = [files EXCEPT ![Log(Case)] = output]
             /\ at # "scan" /\ at' = "scan" /\ k' = k
    <3>1. Log(Case)' = Log(Case)
      BY <2>5 DEF Log, Case
    <3>2. CASE f = Log(Case)
      BY <2>5, <3>1, <3>2, <1>c DEF Outputs, RunnerTyped
    <3>3. CASE f # Log(Case)
      <4>1. files'[f] = files[f]
        BY <2>5, <3>3
      <4>2. QED BY <1>0, <2>1, <2>2, <2>5, <4>1, ChangedKept
    <3>4. QED BY <3>2, <3>3
  <2>6. CASE files' = [files EXCEPT ![Witness(Case)] = files[Log(Case)]] /\ at = "copy"
    <3>1. \A g \in Evidence : files[g] \in {None, "own"} \/ ChangedUnsigned(g)
      BY <2>1, <2>6 DEF UnsignedBound
    <3>2. CASE f # Witness(Case)
      BY <3>1, <3>2, <2>1, <2>6, <1>c, ChangedKept DEF RunnerTyped
    <3>3. CASE f = Witness(Case)
      <4>1. files'[f] = files[Log(Case)]
        BY <3>3, <2>6, <1>c DEF RunnerTyped
      <4>2. Log(Case) \in Evidence
        BY <1>c, FileNames
      <4>3. ChangedUnsigned(Log(Case)) => ChangedUnsigned(f)
        BY <3>3, <1>c, FileNames DEF ChangedUnsigned
      <4>4. QED BY <3>1, <4>1, <4>2, <4>3, <2>1, ChangedKept
    <3>4. QED BY <3>2, <3>3
  <2>7. QED BY <1>4, <2>3, <2>4, <2>5, <2>6, CaseFiles
<1>5. QED BY <1>1, <1>2, <1>3, <1>4, StepGroups

LEMMA ScanStep ==
    RunnerTyped /\ DirBound /\ ReceiptBound /\ ScanBound /\ [Step]_vars => ScanBound'
<1> SUFFICES ASSUME RunnerTyped, DirBound, ReceiptBound, ScanBound, [Step]_vars,
                    at' \in {"finalize", "rename", "verify"} \/ dir' = "final",
                    NEW f \in RunFiles, files'[f] = "dirty"
             PROVE  <<f, "scanned">> \in changed'
  BY DEF ScanBound
<1>1. CASE PackStep \/ CaseStep
  <2>1. at' \notin {"finalize", "rename", "verify"}
    BY <1>1, PackSummary, CaseSummary DEF PackSteps, AuditSteps, CaseSteps
  <2>2. dir' # "final"
    BY <1>1, PackSummary, CaseSummary DEF DirBound, PackSteps, AuditSteps, CaseSteps, None
  <2>3. QED BY <2>1, <2>2
<1>2. CASE SealStep
  <2>1. changed' = changed
    BY <1>2, SealSummary DEF others
  <2>2. CASE at = "forbidden"
    <3>1. dir' # "final"
      BY <1>2, <2>2, SealSummary DEF DirBound
    <3>2. files' = files /\ (at' # "returned" => \A g \in RunFiles : files[g] # "dirty")
      BY <1>2, <2>2 DEF SealStep, WriteObservations, DigestObservations, SignReceipt, ScanCandidate,
       Finalize, Rename, VerifyFinal, IoError, At, Fail, runVars
    <3>3. QED BY <3>1, <3>2
  <2>3. CASE at \in {"finalize", "rename", "verify"}
    <3>1. files[f] = "dirty"
      BY <1>2, <2>3 DEF RunnerTyped, SealStep, WriteObservations, DigestObservations, SignReceipt, ScanCandidate,
       Finalize, Rename, VerifyFinal, IoError, At, runVars
    <3>2. QED BY <2>1, <2>3, <3>1 DEF ScanBound
  <2>4. CASE at \in {"create", "write", "observations", "evidence"}
    <3>1. at' \notin {"finalize", "rename", "verify"} /\ dir' # "final"
      BY <1>2, <2>4, SealSummary DEF DirBound
    <3>2. QED BY <3>1
  <2>5. QED BY <1>2, <2>2, <2>3, <2>4, SealSummary DEF SignedSteps
<1>3. CASE OtherStep \/ UNCHANGED vars
  <2>1. UNCHANGED <<at, dir>>
    BY <1>3, OtherSummary DEF vars, runVars
  <2>2. Phase = "scanned"
    BY <2>1 DEF ReceiptBound, SignedSteps, DirBound, Phase
  <2>3. changed \subseteq changed' /\ (files'[f] = files[f] \/ <<f, "scanned">> \in changed')
    BY <1>3, <2>2, OtherFiles DEF RunnerTyped, vars, runVars, others
  <2>4. QED BY <2>1, <2>3 DEF ScanBound
<1>4. QED BY <1>1, <1>2, <1>3, StepGroups

LEMMA SumsStep ==
    RunnerTyped /\ ErrorsKept /\ DirBound /\ ReceiptBound /\ SumsBound /\ [Step]_vars => SumsBound'
<1> SUFFICES ASSUME RunnerTyped, ErrorsKept, DirBound, ReceiptBound, SumsBound, [Step]_vars
             PROVE  SumsBound'
  OBVIOUS
<1>1. CASE PackStep \/ CaseStep
  <2>1. at' # "verify" /\ dir' # "final"
    BY <1>1, PackSummary, CaseSummary DEF DirBound, PackSteps, AuditSteps, CaseSteps, None
  <2>2. QED BY <2>1 DEF SumsBound
<1>2. CASE SealStep
  <2>1. changed' = changed
    BY <1>2, SealSummary DEF others
  <2>2. at' = "verify" => SumsHold /\ UNCHANGED <<files, sums>>
    BY <1>2, SealSummary DEF SignedSteps
  <2>3. ASSUME dir' = "final", errors' # {} PROVE ChangedScanned
    <3>1. CASE at = "verify"
      <4>1. VerifyFinal
        BY <1>2, <3>1 DEF SealStep, WriteObservations, DigestObservations, SignReceipt, ScanCandidate,
       Finalize, Rename, VerifyFinal, IoError, At
      <4>2. ~SumsHold
        BY <4>1, <3>1, <2>3 DEF VerifyFinal, Goto, ErrorsKept
      <4>3. QED BY <3>1, <4>2 DEF SumsBound
    <3>2. CASE at # "verify"
      <4>1. at = "rename" /\ at' = "verify" /\ errors' = errors
        BY <1>2, <2>3, <3>2, SealSummary DEF DirBound, SignedSteps
      <4>2. QED BY <4>1, <2>3 DEF ErrorsKept
    <3>3. QED BY <3>1, <3>2
  <2>4. QED BY <2>1, <2>2, <2>3 DEF SumsBound, ChangedScanned, SumsHold
<1>3. CASE OtherStep \/ UNCHANGED vars
  <2>1. UNCHANGED <<at, dir, errors, sums>> /\ changed \subseteq changed'
    BY <1>3, OtherSummary, OtherFiles, FileNames DEF RunnerTyped, vars, runVars, others
  <2>2. ChangedScanned => ChangedScanned'
    BY <2>1 DEF ChangedScanned
  <2>3. at = "verify" => (\A f \in RunFiles : files'[f] = files[f]) \/ ChangedScanned'
    <3>1. at = "verify" => Phase = "scanned"
      BY DEF ReceiptBound, SignedSteps, Phase
    <3>2. QED BY <1>3, <3>1, OtherFiles DEF RunnerTyped, vars, runVars, ChangedScanned
  <2>4. (\A f \in RunFiles : files'[f] = files[f]) /\ SumsHold => SumsHold'
    BY <2>1, FileNames DEF SumsHold
  <2>5. QED BY <2>1, <2>2, <2>3, <2>4 DEF SumsBound
<1>4. QED BY <1>1, <1>2, <1>3, StepGroups

LEMMA LeftStep ==
    RunnerTyped /\ ErrorsKept /\ EngineBound /\ SourceBound /\ NothingLeftUnsaid /\ [Step]_vars
    => NothingLeftUnsaid'
<1> SUFFICES ASSUME RunnerTyped, ErrorsKept, EngineBound, SourceBound, NothingLeftUnsaid, [Step]_vars,
                    at' = "returned"
             PROVE  /\ errors' = {} => engine' = "off" /\ \A c \in Cases : source'[c] = None
                    /\ (\E c \in Cases : source'[c] # None) => "cleanup" \in errors'
  BY DEF NothingLeftUnsaid
<1>c. Case \in Cases
  BY CaseTyped DEF RunnerTyped
<1>1. CASE PackStep \/ SealStep
  <2>1. /\ source' = source /\ engine' = engine
        /\ at \notin CaseSteps \cup {"returned"}
        /\ errors' # {} \/ errors' = errors
    BY <1>1, PackSummary, SealSummary DEF caseVars, PackSteps, AuditSteps, CaseSteps, SignedSteps
  <2>2. engine = "off" /\ \A c \in Cases : source[c] = None
    BY <2>1 DEF EngineBound, SourceBound, CaseSteps
  <2>3. QED BY <2>1, <2>2
<1>2. CASE CaseStep
  <2>1. errors' # {}
    BY <1>2, CaseSummary DEF CaseSteps
  <2>2. ASSUME NEW c \in Cases, source'[c] # None PROVE "cleanup" \in errors'
    <3>1. CASE at = "materialize"
      <4>1. source[c] = None
        BY <3>1 DEF SourceBound, CaseSteps
      <4>2. Materialize
        BY <1>2, <3>1 DEF CaseStep, Materialize, RunNative, ContainerExited, RunNativeFails, LaunchContainer,
       ContainerTimeout, RemoveContainer, WaitContainer, ScanChild, Observe, HashWitness, CopyWitness,
       RemoveSource, At
      <4>3. QED BY <4>1, <4>2, <2>2 DEF Materialize, Goto, Fail
    <3>2. CASE at = "cleanup"
      <4>1. c # Case => source[c] = None
        BY <3>2 DEF SourceBound, CaseSteps
      <4>2. RemoveSource
        BY <1>2, <3>2 DEF CaseStep, Materialize, RunNative, ContainerExited, RunNativeFails, LaunchContainer,
       ContainerTimeout, RemoveContainer, WaitContainer, ScanChild, Observe, HashWitness, CopyWitness,
       RemoveSource, At
      <4>3. PICK rest \in {None, source[Case]} :
                /\ source' = [source EXCEPT ![Case] = rest]
                /\ \/ errors = {} /\ rest = None /\ at' # "returned"
                   \/ rest # None /\ Fail("cleanup")
                   \/ rest = None
        BY <4>2 DEF RemoveSource, Goto
      <4>4. rest # None
        BY <4>1, <4>3, <1>c, <2>2 DEF RunnerTyped
      <4>5. QED BY <4>3, <4>4 DEF Fail
    <3>3. CASE at \notin {"materialize", "cleanup"}
      BY <1>2, <3>3 DEF CaseStep, Materialize, RunNative, ContainerExited, RunNativeFails, LaunchContainer,
       ContainerTimeout, RemoveContainer, WaitContainer, ScanChild, Observe, HashWitness, CopyWitness,
       RemoveSource, Ended, RunError, Seen, At, Goto
    <3>4. QED BY <3>1, <3>2, <3>3
  <2>3. QED BY <2>1, <2>2
<1>3. CASE OtherStep \/ UNCHANGED vars
  <2>1. /\ UNCHANGED <<at, errors>> /\ (engine = "off" => engine' = "off")
        /\ \A c \in Cases : source'[c] = None <=> source[c] = None
    BY <1>3, OtherSummary, OtherSource DEF vars, caseVars
  <2>2. QED BY <2>1 DEF NothingLeftUnsaid
<1>4. QED BY <1>1, <1>2, <1>3, StepGroups

\* Only others make a directory hold something else, and that is kept in mind.
LEMMA ChangesStep == RunnerTyped /\ PackBound /\ ChangesBound /\ [Step]_vars => ChangesBound'
<1> SUFFICES ASSUME RunnerTyped, PackBound, ChangesBound, [Step]_vars PROVE ChangesBound'
  OBVIOUS
<1>i. install' = install
  BY StepGroups, PackSummary, CaseSummary, SealSummary, OtherSummary DEF packVars, vars
<1>c. Case \in Cases
  BY CaseTyped DEF RunnerTyped
<1> SUFFICES ASSUME NEW c \in Cases
             PROVE  source'[c] = "other" \/ ran'[c] = "other"
                    => install = "other" \/ <<Source(c), "unsigned">> \in changed'
  BY <1>i DEF ChangesBound, ChangedSource, Source
<1>b. source[c] = "other" \/ ran[c] = "other" => install = "other" \/ <<Source(c), "unsigned">> \in changed
  BY DEF ChangesBound, ChangedSource
<1>d. source[Case] = "other" => install = "other" \/ <<Source(Case), "unsigned">> \in changed
  BY <1>c DEF ChangesBound, ChangedSource
<1>1. CASE PackStep \/ SealStep \/ UNCHANGED vars
  BY <1>1, <1>b, PackSummary, SealSummary DEF caseVars, others, vars
<1>2. CASE CaseStep
  <2>1. changed' = changed
    BY <1>2, CaseSummary DEF others
  <2>2. /\ \/ source' = source
           \/ at = "materialize" /\ source' = [source EXCEPT ![Case] = snapshot[Case]]
           \/ source' = [source EXCEPT ![Case] = None]
           \/ source' = [source EXCEPT ![Case] = source[Case]]
        /\ ran' = ran \/ ran' = [ran EXCEPT ![Case] = source[Case]]
    BY <1>2 DEF CaseStep, Materialize, RunNative, ContainerExited, RunNativeFails, LaunchContainer,
       ContainerTimeout, RemoveContainer, WaitContainer, ScanChild, Observe, HashWitness, CopyWitness,
       RemoveSource, At, caseVars
  <2>3. at = "materialize" => snapshot[Case] = install
    BY <1>c DEF PackBound, PackSteps, AuditSteps
  <2>4. source'[c] = "other" => source[c] = "other" \/ install = "other"
    BY <2>2, <2>3, <1>c DEF RunnerTyped, None
  <2>5. ran'[c] = "other" => ran[c] = "other" \/ (c = Case /\ source[Case] = "other")
    BY <2>2, <1>c DEF RunnerTyped
  <2>6. QED BY <2>1, <2>4, <2>5, <1>b, <1>d
<1>3. CASE OtherStep
  <2>1. changed \subseteq changed'
    BY <1>3, FileNames, OtherFiles DEF RunnerTyped
  <2>2. source'[c] = "other" => source[c] = "other" \/ <<Source(c), "unsigned">> \in changed'
    BY <1>3, OtherSummary DEF RunnerTyped
  <2>3. ran'[c] = "other" => ran[c] = "other" \/ (c = Case /\ source[Case] = "other")
    BY <1>3, <1>c, OtherSummary DEF RunnerTyped
  <2>4. QED BY <2>1, <2>2, <2>3, <1>b, <1>d
<1>4. QED BY <1>1, <1>2, <1>3, StepGroups

-----------------------------------------------------------------------------
(* The runner, alone or with the curator beside it. *)

RunnerInv ==
    /\ RunnerTyped /\ PackBound /\ ErrorsKept /\ EngineBound /\ SourceBound /\ CasesDone
    /\ DirBound /\ ReceiptBound /\ UnsignedBound /\ ScanBound /\ SumsBound /\ NothingLeftUnsaid /\ ChangesBound

LEMMA RunnerInit == Init => RunnerInv
<1> SUFFICES ASSUME Init PROVE RunnerInv
  OBVIOUS
<1>1. RunnerTyped
  <2>1. 1 \in 1..Len(CaseOrder)
    BY BlindRunnerAssumption, EmptySeq, LenProperties
  <2>2. QED BY <2>1 DEF Init, RunnerTyped, UnsignedSteps, PackSteps, AuditSteps, Contents
<1>2. PackBound /\ ErrorsKept /\ EngineBound /\ SourceBound
  BY DEF Init, PackBound, ErrorsKept, EngineBound, SourceBound, PackSteps, AuditSteps, CaseSteps
<1>3. CasesDone /\ DirBound /\ ScanBound /\ SumsBound /\ NothingLeftUnsaid
  BY DEF Init, CasesDone, DirBound, ScanBound, SumsBound, NothingLeftUnsaid, CaseSteps, SignedSteps, None
<1>4. ReceiptBound /\ UnsignedBound
  BY FileNames DEF Init, ReceiptBound, UnsignedBound, SignedSteps, None
<1>5. ChangesBound
  BY DEF Init, ChangesBound, None
<1>6. QED BY <1>1, <1>2, <1>3, <1>4, <1>5 DEF RunnerInv

LEMMA RunnerStepKeeps == RunnerInv /\ [Step]_vars => RunnerInv'
BY TypedStep, PackBoundStep, ErrorsStep, EngineBoundStep, SourceStep, CasesDoneStep, DirStep, ReceiptStep,
   UnsignedStep, ScanStep, SumsStep, LeftStep, ChangesStep DEF RunnerInv

\* A step with the curator beside the runner is one of the runner, of another
\* process, or of nobody, as far as the run is concerned.
LEMMA CuratorOnlyReads == [RevealNext]_allVars => [Step]_vars
BY DEF RevealNext, allVars, CaptureSums, CaptureFile, Reveal, Step

LEMMA RunnerHolds == (Spec => []RunnerInv) /\ (RevealSpec => []RunnerInv)
<1>1. [Next]_vars => [Step]_vars
  BY DEF Step
<1>2. Spec => []RunnerInv
  BY <1>1, RunnerInit, RunnerStepKeeps, PTL DEF Spec
<1>3. InitReveal => RunnerInv
  BY RunnerInit DEF InitReveal
<1>4. RevealSpec => []RunnerInv
  BY <1>3, CuratorOnlyReads, RunnerStepKeeps, PTL DEF RevealSpec
<1>5. QED BY <1>2, <1>4

LEMMA RanIsAsInstalled ==
    ASSUME RunnerTyped, ChangesBound, NEW c \in Cases
    PROVE  ran[c] = None \/ RanAsInstalled(c)
BY DEF RunnerTyped, ChangesBound, ChangedSource, RanAsInstalled, None

\* Whatever files of the pack are replaced, and whenever: what is executed is of
\* the version of the install receipt, unless the files of that very case were
\* changed after the runner had written them to be executed; and what the runner
\* signs is of that version.
THEOREM ExecutesAsSigned == (Spec => []ExecutedAsSigned) /\ (RevealSpec => []ExecutedAsSigned)
<1>1. RunnerInv => ExecutedAsSigned
  <2> SUFFICES ASSUME RunnerInv PROVE ExecutedAsSigned
    OBVIOUS
  <2>1. \A c \in Cases : ran[c] = None \/ RanAsInstalled(c)
    BY RanIsAsInstalled DEF RunnerInv
  <2>2. QED BY <2>1 DEF RunnerInv, ReceiptBound, ExecutedAsSigned
<1>2. QED
  BY <1>1, RunnerHolds, PTL

\* A final run has an observation of every case and no forbidden token, but for
\* changes made after the scan; an error leaves none behind, but for the same.
THEOREM FinalIsAsScanned == (Spec => []FinalAsScanned) /\ (RevealSpec => []FinalAsScanned)
<1>1. RunnerInv => FinalAsScanned
  BY DEF RunnerInv, CasesDone, Done, ScanBound, SumsBound, ChangedScanned, FinalAsScanned
<1>2. QED
  BY <1>1, RunnerHolds, PTL

\* A report means that nothing runs and nothing is left, and an error that
\* leaves a case directory says so.
THEOREM NothingIsLeftUnsaid == (Spec => []NothingLeftUnsaid) /\ (RevealSpec => []NothingLeftUnsaid)
<1>1. RunnerInv => NothingLeftUnsaid
  BY DEF RunnerInv
<1>2. QED
  BY <1>1, RunnerHolds, PTL

-----------------------------------------------------------------------------
(* The curator. *)

CuratorInv == RevealedAsRun /\ (reveal # "idle" => dir = "final")

\* What the curator relies on does not change under it.
LEMMA FinalKept ==
    ASSUME RunnerInv, [Step]_vars, dir = "final"
    PROVE  /\ dir' = "final" /\ changed \subseteq changed'
           /\ UNCHANGED <<install, backend, seen>>
<1>0. at \in {"verify", "returned"}
  BY DEF RunnerInv, DirBound
<1>1. ~PackStep /\ ~CaseStep
  BY <1>0, PackSummary, CaseSummary DEF PackSteps, AuditSteps, CaseSteps
<1>2. CASE SealStep
  BY <1>2, SealSummary DEF packVars, caseVars, others
<1>3. CASE OtherStep \/ UNCHANGED vars
  BY <1>3, OtherSummary, OtherFiles, FileNames DEF RunnerInv, RunnerTyped, vars, packVars, caseVars, runVars, others
<1>4. QED BY <1>1, <1>2, <1>3, StepGroups

\* A gate that passed has at least one violation confirmed, and no control failed.
LEMMA GateMeans ==
    ASSUME GatePassed
    PROVE  /\ \E v \in Violations : Observed[v] = "witnessed"
           /\ \A c \in Cases \ Violations : Observed[c] # "failed"
<1> DEFINE passed == {v \in Violations : Observed[v] = "witnessed"}
<1>1. Cardinality(passed) >= MinConfirmed
  BY DEF GatePassed
<1>2. passed # {}
  BY <1>1, FS_EmptySet, BlindRevealAssumption
<1>3. \A c \in Cases \ Violations : Observed[c] # "failed"
  BY DEF GatePassed
<1>4. QED BY <1>2, <1>3

LEMMA RevealKeeps ==
    ASSUME RunnerInv, CuratorInv, NEW g \in Given, Reveal(g)
    PROVE  CuratorInv'
<1>0. dir = "final" /\ UNCHANGED vars /\ got' = got /\ reveal' \in {"revealed", "refused"}
  BY DEF Reveal, CuratorInv
<1>u. UNCHANGED <<dir, backend, install, ran, changed, seen>>
  BY <1>0 DEF vars, runVars, packVars, caseVars, others
<1>1. CASE reveal' = "refused"
  BY <1>0, <1>1, <1>u DEF CuratorInv, RevealedAsRun
<1>2. CASE reveal' = "revealed"
  <2>1. /\ ReceiptsAgree(g) /\ IntegrityClean(g) /\ given' = g
        /\ gate' = IF GatePassed THEN "passed" ELSE "failed"
    BY <1>2 DEF Reveal
  <2>2. /\ receipt.backend = backend /\ receipt.manifest = install
        /\ \A f \in Evidence : receipt.evidence[f] \in {None, "own"} \/ ChangedUnsigned(f)
    BY <1>0 DEF RunnerInv, ReceiptBound
  <2>3. got[Receipt] = "own"
    BY <2>1 DEF ReceiptsAgree, SignedReceipt
  <2>4. /\ receipt.backend = "container" /\ receipt.manifest = g.manifest
        /\ g.install = g.manifest /\ g.install = g.policy
        /\ receipt.evidence = [f \in Evidence |-> got[f]]
    BY <2>1, <2>3 DEF ReceiptsAgree, SignedReceipt
  <2>5. backend = "container" /\ g.manifest = install /\ g.policy = install
    BY <2>2, <2>4
  <2>6. \A c \in Cases : RanAsInstalled(c)
    BY <1>0, <2>5, RanIsAsInstalled DEF RunnerInv, CasesDone, Done
  <2>7. \A f \in Evidence : Vouched(f)
    BY <2>2, <2>4 DEF Vouched
  <2>8. ASSUME gate' = "passed", got[Observations] = "own"
        PROVE  /\ \E v \in Violations : seen[v] = "witnessed" /\ got[Witness(v)] = "own"
               /\ \A c \in Cases \ Violations : seen[c] # "failed"
    <3>1. GatePassed /\ Observed = seen
      BY <2>1, <2>8 DEF Observed
    <3>2. \A c \in Cases : seen[c] = "witnessed" => got[Witness(c)] = "own"
      BY <2>1, <2>8, <3>1 DEF IntegrityClean
    <3>3. QED BY <3>1, <3>2, GateMeans, BlindRevealAssumption
  <2>9. \A f \in Evidence : Vouched(f)'
    BY <2>7, <1>0, <1>u DEF Vouched, ChangedUnsigned
  <2>10. QED BY <1>0, <1>u, <2>1, <2>5, <2>6, <2>8, <2>9 DEF CuratorInv, RevealedAsRun, RanAsInstalled
<1>3. QED BY <1>0, <1>1, <1>2

LEMMA CuratorStep == RunnerInv /\ RunnerInv' /\ CuratorInv /\ [RevealNext]_allVars => CuratorInv'
<1> SUFFICES ASSUME RunnerInv, RunnerInv', CuratorInv, [RevealNext]_allVars PROVE CuratorInv'
  OBVIOUS
<1>1. ASSUME UNCHANGED curatorVars, [Step]_vars PROVE CuratorInv'
  <2>1. UNCHANGED <<reveal, got, given, gate>>
    BY <1>1 DEF curatorVars
  <2>2. CASE reveal = "idle" BY <2>1, <2>2 DEF CuratorInv, RevealedAsRun
  <2>3. CASE reveal # "idle"
    <3>1. /\ dir = "final" /\ dir' = "final" /\ changed \subseteq changed'
          /\ UNCHANGED <<install, backend, seen>>
      BY <1>1, <2>3, FinalKept DEF CuratorInv
    <3>2. backend = "container" => \A c \in Cases : RanAsInstalled(c)'
      <4>1. \A c \in Cases : (ran[c] = None \/ RanAsInstalled(c))'
        BY DEF RunnerInv, RunnerTyped, ChangesBound, ChangedSource, RanAsInstalled, Source, None
      <4>2. backend = "container" => \A c \in Cases : ran'[c] # None
        BY <3>1 DEF RunnerInv, CasesDone, Done
      <4>3. QED BY <4>1, <4>2
    <3>3. \A f \in Evidence : Vouched(f) => Vouched(f)'
      BY <2>1, <3>1, ChangedKept DEF Vouched
    <3>4. QED BY <2>1, <3>1, <3>2, <3>3 DEF CuratorInv, RevealedAsRun
  <2>4. QED BY <2>2, <2>3
<1>2. CASE (Next \/ ReplaceRun) /\ UNCHANGED curatorVars
  BY <1>1, <1>2 DEF Step
<1>3. CASE UNCHANGED allVars
  BY <1>1, <1>3 DEF allVars
<1>4. CASE CaptureSums \/ CaptureFile
  <2>1. dir = "final" /\ dir' = dir /\ reveal' \in {"capture", "refused"}
    BY <1>4 DEF CaptureSums, CaptureFile, Refuse, CuratorInv, vars, runVars
  <2>2. QED BY <2>1 DEF CuratorInv, RevealedAsRun
<1>5. ASSUME NEW g \in Given, Reveal(g) PROVE CuratorInv'
  BY <1>5, RevealKeeps
<1>6. QED BY <1>2, <1>3, <1>4, <1>5 DEF RevealNext

\* However pack, run and receipts are replaced under runner and curator: what is
\* revealed is what the run of this name has observed, in a container, on the
\* signed pack, but for case directories changed between their writing and their
\* use, and the gate passes only on what this run has seen.
THEOREM RevealIsOfTheRun == RevealSpec => []RevealedAsRun
<1>1. InitReveal => CuratorInv
  BY DEF InitReveal, CuratorInv, RevealedAsRun
<1>2. CuratorInv => RevealedAsRun
  BY DEF CuratorInv
<1>3. QED
  BY <1>1, <1>2, CuratorStep, RunnerHolds, PTL DEF RevealSpec

=============================================================================
