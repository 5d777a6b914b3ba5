---------------------------- MODULE BlindRunner ----------------------------
(***************************************************************************)
(* run_public_pack of crates/bw-blind-runner: a public pack that somebody  *)
(* else has built, packed and installed is checked against its signed      *)
(* install receipt, audited, read into memory, and run case by case, in    *)
(* the machine or in a container; what the cases leave is hashed into a    *)
(* signed runner receipt, scanned and finalized as a run directory.        *)
(*                                                                         *)
(* The pack and the run lie in the file system: any other process may      *)
(* change a file between two steps of the runner (Change...), at most      *)
(* MaxChanges times.  A digest stands for what it is the digest of: a file *)
(* of the pack is of one version of the pack, and a manifest, policy,      *)
(* checksum list or receipt of version v names files of version v.         *)
(***************************************************************************)
EXTENDS Naturals, Sequences, FiniteSets, SequencesExt

CONSTANTS
    CaseOrder,   \* the cases of the manifest, in order
    Versions,    \* versions of the pack, never mixed by who built it
    MaxChanges   \* bound: changes made by other processes

None == "none"

ASSUME BlindRunnerAssumption ==
    /\ CaseOrder \in Seq(ToSet(CaseOrder)) /\ CaseOrder # <<>>
    /\ \A i, j \in DOMAIN CaseOrder : CaseOrder[i] = CaseOrder[j] => i = j
    /\ None \notin Versions
    /\ MaxChanges \in Nat

VARIABLES
    at,         \* the next step of the runner
    left,       \* the files this step has still to read
    pack,       \* the installed pack: the version of each of its files
    install,    \* the version the install receipt is of
    metadata,   \* the version the operator says is run (deployment, commit, config)
    backend,    \* native or container
    audit,      \* what audit_public_pack has read of policy, manifest, checksums
    snapshot,   \* the case files in memory
    k,          \* index of the current case
    engine,     \* what the container engine does with the current case
    status,     \* how the child of the current case ended
    source,     \* what the directory of each case under execution-source holds
    seen,       \* the observation made of each case
    dir,        \* the run directory: none, partial or final
    files,      \* its files
    sums,       \* what its checksum list says
    receipt,    \* the runner receipt
    errors,     \* what the error run_public_pack returns names
    ran,        \* history: the version of each case that was executed
    changes,    \* number of changes made by others
    changed     \* history: which file of the run or case directory was changed, and when

runVars == <<files, dir, sums>>
packVars == <<pack, install, metadata, backend>>
auditVars == <<audit, snapshot>>
caseVars == <<k, engine, status, source, seen, ran>>
others == <<changes, changed>>
vars == <<at, left, packVars, auditVars, caseVars, runVars, receipt, errors, others>>

Cases == ToSet(CaseOrder)
Case == CaseOrder[k]
PackFiles == {"manifest", "policy", "checksums"} \cup Cases

Source(c) == <<"source", c>>     \* the case directory the case is executed from
Log(c) == <<"log", c>>           \* the child's directory: output, observation, witness
Witness(c) == <<"witness", c>>   \* the copy of a witness among the artifacts
Observations == <<"observations", "">>
Receipt == <<"receipt", "">>
Identity == <<"identity", "">>   \* manifest.json, summary.json and COMPLETE
Checksums == <<"checksums", "">>
Evidence == {Observations} \cup {Log(c) : c \in Cases} \cup {Witness(c) : c \in Cases}
RunFiles == Evidence \cup {Receipt, Identity, Checksums}

\* What the run wrote, something else (a file of an earlier run, say), or
\* something with a forbidden token in it.
Foreign == {"other", "dirty"}
Contents == {None, "own"} \cup Foreign

Init ==
    /\ at = "install" /\ left = <<>>
    /\ pack \in {[f \in PackFiles |-> v] : v \in Versions}
    /\ install \in Versions /\ metadata \in Versions
    /\ backend \in {"native", "container"}
    /\ audit = [f \in {"policy", "manifest", "checksums"} |-> None]
    /\ snapshot = [c \in Cases |-> None]
    /\ k = 1 /\ engine = "off" /\ status = None
    /\ source = [c \in Cases |-> None]
    /\ seen = [c \in Cases |-> None]
    /\ ran = [c \in Cases |-> None]
    /\ dir = None /\ files = [f \in RunFiles |-> None] /\ sums = files
    /\ receipt = [observations |-> None]
    /\ errors = {} /\ changes = 0 /\ changed = {}

-----------------------------------------------------------------------------
At(step) == at = step
Goto(step) == at' = step /\ UNCHANGED <<left, errors>>
Fail(error) == at' = "returned" /\ left' = <<>> /\ errors' = errors \cup {error}

\* verify_install_receipt, and the archive and directory name it must agree on
\* with the metadata of the run.
VerifyInstallReceipt ==
    /\ At("install")
    /\ IF install # metadata
       THEN Fail("refused")
       ELSE /\ at' = "provenance"
            /\ left' = <<"manifest", "manifest">> \o CaseOrder
                           \o <<"checksums", "manifest", "policy", "policy">>
            /\ UNCHANGED errors
    /\ UNCHANGED <<packVars, auditVars, caseVars, runVars, receipt, others>>

\* The next file of a list is read and must be of the expected version.
Compare(step, expected, next, then) ==
    /\ At(step)
    /\ IF pack[Head(left)] # expected
       THEN Fail("refused")
       ELSE /\ at' = IF Len(left) = 1 THEN next ELSE step
            /\ left' = IF Len(left) = 1 THEN then ELSE Tail(left)
            /\ UNCHANGED errors

\* verify_pre_audit_runner_provenance: the digest of the manifest, its commit,
\* the digest of the whole tree and that of the policy, each from a new read.
CheckProvenance ==
    /\ Compare("provenance", install, "preflight", <<>>)
    /\ UNCHANGED <<packVars, auditVars, caseVars, runVars, receipt, others>>

Preflight ==
    /\ At("preflight")
    /\ \/ at' = "audit" /\ left' = <<"policy", "manifest", "checksums">> /\ UNCHANGED errors
       \/ backend = "container" /\ Fail("engine")
    /\ UNCHANGED <<packVars, auditVars, caseVars, runVars, receipt, others>>

\* audit_public_pack: policy, manifest and checksums are read and kept, ...
AuditRead ==
    /\ At("audit")
    /\ audit' = [audit EXCEPT ![Head(left)] = pack[Head(left)]]
    /\ IF Len(left) > 1
       THEN at' = at /\ left' = Tail(left)
       ELSE at' = "cover" /\ left' = CaseOrder \o <<"manifest", "policy">>
    /\ UNCHANGED <<errors, packVars, snapshot, caseVars, runVars, receipt, others>>

\* ... every file is read again against the checksums, ...
AuditCover ==
    /\ Compare("cover", audit.checksums, "policy", <<>>)
    /\ UNCHANGED <<packVars, auditVars, caseVars, runVars, receipt, others>>

AuditPolicy ==
    /\ At("policy")
    /\ IF audit.policy # audit.manifest
       THEN Fail("refused")
       ELSE at' = "cases" /\ left' = CaseOrder /\ UNCHANGED errors
    /\ UNCHANGED <<packVars, auditVars, caseVars, runVars, receipt, others>>

\* ... and the files of the cases once more, against the manifest.
AuditCases ==
    /\ Compare("cases", audit.manifest, "bind", <<>>)
    /\ UNCHANGED <<packVars, auditVars, caseVars, runVars, receipt, others>>

\* Mutant: the audited manifest is not bound to the install receipt.
BindNothing ==
    /\ At("bind")
    /\ at' = "snapshot" /\ left' = <<"manifest", "policy">> \o CaseOrder
    /\ UNCHANGED <<errors, packVars, auditVars, caseVars, runVars, receipt, others>>

\* bind_runner_provenance_to_audit, and commit and config digest of the metadata.
Bind ==
    /\ At("bind")
    /\ IF audit.manifest # install \/ audit.manifest # metadata
       THEN Fail("refused")
       ELSE at' = "snapshot" /\ left' = <<"manifest", "policy">> \o CaseOrder /\ UNCHANGED errors
    /\ UNCHANGED <<packVars, auditVars, caseVars, runVars, receipt, others>>

\* ExecutionPackSnapshot::capture: everything of the pack is read for the last time
\* and kept in memory.
Capture ==
    /\ Compare("snapshot", audit.manifest, "create", <<>>)
    /\ snapshot' = IF Head(left) \in Cases /\ pack[Head(left)] = audit.manifest
                   THEN [snapshot EXCEPT ![Head(left)] = pack[Head(left)]]
                   ELSE snapshot
    /\ UNCHANGED <<packVars, audit, caseVars, runVars, receipt, others>>

CreateRun ==
    /\ At("create")
    /\ dir' = "partial" /\ files' = [files EXCEPT ![Identity] = "own"]
    /\ Goto("materialize")
    /\ UNCHANGED <<sums, packVars, auditVars, caseVars, receipt, others>>

-----------------------------------------------------------------------------
\* One case.  An error of the run itself, not of the case, is kept in `errors'
\* and decides after the cleanup.
RunError(error) == at' = "cleanup" /\ errors' = errors \cup {error} /\ UNCHANGED left

\* materialize_case writes the kept files into a new directory of the run, from
\* which the case is executed, or removes what it has written of them.
Materialize ==
    /\ At("materialize")
    /\ \/ source' = [source EXCEPT ![Case] = snapshot[Case]] /\ Goto("launch")
       \/ UNCHANGED source /\ Fail("case")
       \/ source' = [source EXCEPT ![Case] = snapshot[Case]]
          /\ at' = "returned" /\ UNCHANGED left /\ errors' = errors \cup {"case", "cleanup"}
    /\ UNCHANGED <<packVars, auditVars, k, engine, status, seen, ran, runVars, receipt, others>>

\* The child has ended, its directory holds what it left there.
Ended(how, output) ==
    /\ status' = how
    /\ files' = [files EXCEPT ![Log(Case)] = output]
    /\ engine' = "off"
    /\ Goto("scan")

Outputs == {"own", "dirty"}

\* ChildRunner::run, by its promise: nothing of the case's group is left.  What is
\* executed are the files of the case directory as they are by now.
RunNative(how, output) ==
    /\ At("launch") /\ backend = "native"
    /\ Ended(how, output)
    /\ ran' = [ran EXCEPT ![Case] = source[Case]]
    /\ UNCHANGED <<packVars, auditVars, k, source, seen, dir, sums, receipt, others>>

\* ChildRunner::run fails: this is an observation, tool_error.
RunNativeFails ==
    /\ At("launch") /\ backend = "native"
    /\ seen' = [seen EXCEPT ![Case] = "failed"]
    /\ Goto("cleanup")
    /\ UNCHANGED <<packVars, auditVars, k, engine, status, source, ran, runVars, receipt, others>>

\* ContainerExecutor::run_case starts the client of the engine; an error here or
\* below is one of the run.
LaunchContainer ==
    /\ At("launch") /\ backend = "container"
    /\ \/ engine' = "starting" /\ Goto("waiting")
       \/ UNCHANGED engine /\ RunError("container")
    /\ UNCHANGED <<packVars, auditVars, k, status, source, seen, ran, runVars, receipt, others>>

\* The engine starts the container, or its client exits with 125; the program
\* ends.  It does not ask where the runner is: the case directory it mounts is the
\* one that is there, with what it holds by now, or an empty one.
EngineStep ==
    /\ \/ engine = "starting" /\ engine' = "refused" /\ UNCHANGED ran
       \/ engine = "starting" /\ engine' = "running"
              /\ ran' = IF source[Case] = None THEN ran ELSE [ran EXCEPT ![Case] = source[Case]]
       \/ engine = "running" /\ engine' = "ended" /\ UNCHANGED ran
    /\ UNCHANGED <<at, left, errors, packVars, auditVars, k, status, source, seen,
                   runVars, receipt, others>>

\* try_wait: the client has exited.
ContainerExited(how, output) ==
    /\ At("waiting")
    /\ \/ engine = "ended" /\ how # "timed_out" /\ Ended(how, output)
       \/ engine = "refused" /\ RunError("container") /\ UNCHANGED <<engine, status, files>>
    /\ UNCHANGED <<packVars, auditVars, k, source, seen, ran, dir, sums, receipt, others>>

\* The timeout has passed after a try_wait that found the client running.
ContainerTimeout ==
    /\ At("waiting") /\ Goto("remove")
    /\ UNCHANGED <<packVars, auditVars, caseVars, runVars, receipt, others>>

\* remove_container: rm --force ends a container that runs; one that does not
\* exist yet, or no more, it may report as an error, or not.
RemoveContainer ==
    /\ At("remove")
    /\ \/ engine = "running" /\ engine' = "ended" /\ Goto("wait")
       \/ engine = "starting" /\ engine' = "refused" /\ Goto("wait")
       \/ engine # "running" /\ UNCHANGED engine /\ Goto("wait")
       \/ UNCHANGED engine /\ RunError("container")
    /\ UNCHANGED <<packVars, auditVars, k, status, source, seen, ran, runVars, receipt, others>>

\* Mutant: after the removal the client is not waited for.
WaitContainerNot(output) ==
    /\ At("wait") /\ status' = "timed_out"
    /\ files' = [files EXCEPT ![Log(Case)] = output]
    /\ Goto("scan")
    /\ UNCHANGED <<packVars, auditVars, k, engine, source, seen, ran, dir, sums, receipt, others>>

\* child.wait after the removal, however long the client takes.
WaitContainer(output) ==
    /\ At("wait")
    /\ \/ engine = "ended" /\ Ended("timed_out", output)
       \/ engine = "refused" /\ RunError("container") /\ UNCHANGED <<engine, status, files>>
    /\ UNCHANGED <<packVars, auditVars, k, source, seen, ran, dir, sums, receipt, others>>

\* scan_child_output: a forbidden token ends the run.
ScanChild ==
    /\ At("scan")
    /\ IF files[Log(Case)] = "dirty" THEN RunError("forbidden") ELSE Goto("observe")
    /\ UNCHANGED <<packVars, auditVars, caseVars, runVars, receipt, others>>

Seen(outcome, next) ==
    /\ seen' = [seen EXCEPT ![Case] = outcome]
    /\ Goto(next)

\* The observation of the child is read and validated, with or without a witness.
Observe(outcome) ==
    /\ At("observe")
    /\ IF status # "exit0" \/ outcome = "failed" THEN Seen("failed", "cleanup")
       ELSE Seen(outcome, IF outcome = "witnessed" THEN "hash" ELSE "cleanup")
    /\ UNCHANGED <<packVars, auditVars, k, engine, status, source, ran, runVars, receipt, others>>

\* The witness is read once to be hashed, and once more to be copied.
HashWitness ==
    /\ At("hash")
    /\ IF files[Log(Case)] = "own" THEN Goto("copy") /\ UNCHANGED seen
       ELSE Seen("failed", "cleanup")
    /\ UNCHANGED <<packVars, auditVars, k, engine, status, source, ran, runVars, receipt, others>>

CopyWitness ==
    /\ At("copy")
    /\ \/ files' = [files EXCEPT ![Witness(Case)] = files[Log(Case)]]
          /\ Goto("cleanup") /\ UNCHANGED seen
       \/ Seen("failed", "cleanup") /\ UNCHANGED files
    /\ UNCHANGED <<packVars, auditVars, k, engine, status, source, ran, dir, sums, receipt, others>>

\* remove_materialized_case, and the four combinations of its result with that of
\* the case.  After a failed case the emptied execution-source is removed too; if
\* that fails, its error is returned in the place of the case's.
RemoveSource ==
    /\ At("cleanup")
    /\ \E rest \in {None, source[Case]} :
        /\ source' = [source EXCEPT ![Case] = rest]
        /\ \/ errors = {} /\ rest = None
              /\ IF k < Len(CaseOrder) THEN Goto("materialize") /\ k' = k + 1
                 ELSE Goto("write") /\ UNCHANGED k
           \/ rest # None /\ Fail("cleanup") /\ UNCHANGED k
           \/ errors # {} /\ rest = None /\ at' = "returned" /\ UNCHANGED <<left, k>>
              /\ errors' \in {errors, {"io"}}
    /\ UNCHANGED <<packVars, auditVars, engine, status, seen, ran, runVars, receipt, others>>

-----------------------------------------------------------------------------
\* After the last case: execution-source, by now empty, is removed and the
\* observations are written, one for every case in order.
WriteObservations ==
    /\ At("write")
    /\ files' = [files EXCEPT ![Observations] = "own"]
    /\ Goto("observations")
    /\ UNCHANGED <<dir, sums, packVars, auditVars, caseVars, receipt, others>>

\* The digests of the receipt are taken from the files, those of the observations
\* first; then all evidence is read once more.
DigestObservations ==
    /\ At("observations")
    /\ receipt' = [observations |-> files[Observations]]
    /\ Goto("evidence")
    /\ UNCHANGED <<packVars, auditVars, caseVars, runVars, others>>

\* runner_evidence_digest, build_runner_receipt and the write of the receipt.
SignReceipt ==
    /\ At("evidence")
    /\ receipt' = [run |-> "own", backend |-> backend,
                   manifest |-> install, executed |-> audit.manifest,
                   observations |-> receipt.observations,
                   evidence |-> [f \in Evidence |-> files[f]]]
    /\ files' = [files EXCEPT ![Receipt] = "own"]
    /\ Goto("forbidden")
    /\ UNCHANGED <<dir, sums, packVars, auditVars, caseVars, others>>

\* Mutant: only the children are scanned, each after it has ended.
ScanCandidateNot ==
    /\ At("forbidden")
    /\ Goto("finalize")
    /\ UNCHANGED <<packVars, auditVars, caseVars, runVars, receipt, others>>

\* scan_finalized_candidate: every file that is there by now.
ScanCandidate ==
    /\ At("forbidden")
    /\ IF \E f \in RunFiles : files[f] = "dirty" THEN Fail("forbidden") ELSE Goto("finalize")
    /\ UNCHANGED <<packVars, auditVars, caseVars, runVars, receipt, others>>

\* RunDirectory::finalize_at: manifest, summary and COMPLETE are written, then the
\* checksums of all there is; ...
Finalize ==
    /\ At("finalize")
    /\ LET written == [files EXCEPT ![Identity] = "own"] IN
        /\ sums' = written
        /\ files' = [written EXCEPT ![Checksums] = "own"]
    /\ Goto("rename")
    /\ UNCHANGED <<dir, packVars, auditVars, caseVars, receipt, others>>

SumsHold ==
    /\ files[Checksums] = "own"
    /\ \A f \in RunFiles \ {Checksums} : files[f] = sums[f]

\* ... they are verified, and the directory gets its name.
Rename ==
    /\ At("rename")
    /\ IF SumsHold THEN dir' = "final" /\ Goto("verify") ELSE UNCHANGED dir /\ Fail("integrity")
    /\ UNCHANGED <<files, sums, packVars, auditVars, caseVars, receipt, others>>

\* verify_run_integrity of the final run, before the report is returned.
VerifyFinal ==
    /\ At("verify")
    /\ IF SumsHold THEN Goto("returned") ELSE Fail("integrity")
    /\ UNCHANGED <<packVars, auditVars, caseVars, runVars, receipt, others>>

\* Any of these steps may fail for a reason of its own.
IoError ==
    /\ at \in {"create", "write", "observations", "evidence", "finalize", "rename"}
    /\ Fail("io")
    /\ UNCHANGED <<packVars, auditVars, caseVars, runVars, receipt, others>>

-----------------------------------------------------------------------------
\* Other processes: somebody installs another version of the pack in its place, or
\* only a file of it, ...
Reinstall(v) ==
    /\ changes < MaxChanges /\ changes' = changes + 1
    /\ at \notin {"verify", "returned"}
    /\ pack' = [f \in PackFiles |-> v]
    /\ UNCHANGED <<changed, at, left, errors, install, metadata, backend, auditVars, caseVars,
                   runVars, receipt>>

ChangePack(f, v) ==
    /\ changes < MaxChanges /\ changes' = changes + 1
    /\ at \notin {"verify", "returned"} /\ pack[f] # v
    /\ pack' = [pack EXCEPT ![f] = v]
    /\ UNCHANGED <<changed, at, left, errors, install, metadata, backend, auditVars, caseVars,
                   runVars, receipt>>

Phase ==
    CASE files[Receipt] = None -> "unsigned"
      [] files[Receipt] # None /\ at = "forbidden" -> "signed"
      [] OTHER -> "scanned"

\* ... or a process a case has left behind, or anybody else, writes to a file of
\* the run, final or not.
ChangeRun(f, content) ==
    /\ changes < MaxChanges /\ changes' = changes + 1
    /\ dir # None /\ files[f] \notin {None, content}
    /\ files' = [files EXCEPT ![f] = content]
    /\ changed' = changed \cup {<<f, Phase>>}
    /\ UNCHANGED <<at, left, errors, packVars, auditVars, caseVars, dir, sums, receipt>>

\* ... or to the files a case is executed from: they are written read-only, and
\* never looked at again.
ChangeSource(c) ==
    /\ changes < MaxChanges /\ changes' = changes + 1
    /\ source[c] \notin {None, "other"}
    /\ source' = [source EXCEPT ![c] = "other"]
    /\ changed' = changed \cup {<<Source(c), "unsigned">>}
    /\ UNCHANGED <<at, left, errors, packVars, auditVars, k, engine, status, seen, ran, runVars, receipt>>

RunnerStep ==
    \/ VerifyInstallReceipt \/ CheckProvenance \/ Preflight
    \/ AuditRead \/ AuditCover \/ AuditPolicy \/ AuditCases \/ Bind \/ Capture
    \/ CreateRun \/ Materialize
    \/ \E how \in {"exit0", "failed", "timed_out"}, output \in Outputs :
           RunNative(how, output) \/ ContainerExited(how, output)
    \/ RunNativeFails \/ LaunchContainer \/ ContainerTimeout \/ RemoveContainer
    \/ \E output \in Outputs : WaitContainer(output)
    \/ ScanChild
    \/ \E outcome \in {"failed", "completed", "witnessed"} : Observe(outcome)
    \/ HashWitness \/ CopyWitness \/ RemoveSource
    \/ WriteObservations \/ DigestObservations \/ SignReceipt \/ ScanCandidate
    \/ Finalize \/ Rename \/ VerifyFinal \/ IoError

Environment ==
    \/ EngineStep
    \/ \E v \in Versions : Reinstall(v) \/ \E f \in PackFiles : ChangePack(f, v)
    \/ \E f \in RunFiles, content \in Foreign : ChangeRun(f, content)
    \/ \E c \in Cases : ChangeSource(c)

Next == RunnerStep \/ Environment
Spec == Init /\ [][Next]_vars

-----------------------------------------------------------------------------
\* The case was executed from the files of the installed pack, or from files that
\* others have changed after they were written for it.
RanAsInstalled(c) ==
    \/ ran[c] = install
    \/ ran[c] = "other" /\ <<Source(c), "unsigned">> \in changed

\* Whatever of the pack is replaced while the runner looks at it, or by a case
\* that runs before another one: what is executed is of the version the install
\* receipt was signed for, but for a case directory that others have changed
\* between its writing and its use; and what the runner signs is of that version.
ExecutedAsSigned ==
    /\ \A c \in Cases : ran[c] = None \/ RanAsInstalled(c)
    /\ files[Receipt] # None => receipt.manifest = install /\ receipt.executed = install

\* A final run holds one observation for every case and no forbidden token, but
\* for what was changed after the scan; and an error means that there is none,
\* unless it was changed after its last verification.
FinalAsScanned ==
    dir = "final" =>
        /\ \A c \in Cases : seen[c] # None
        /\ \A f \in RunFiles : files[f] = "dirty" => <<f, "scanned">> \in changed
        /\ errors # {} => \E f \in RunFiles : <<f, "scanned">> \in changed

\* When run_public_pack returns a report, no case of it is running and no case
\* directory is left; when it returns an error and leaves one, the error says so.
NothingLeftUnsaid ==
    at = "returned" =>
        /\ errors = {} => engine = "off" /\ \A c \in Cases : source[c] = None
        /\ (\E c \in Cases : source[c] # None) => "cleanup" \in errors
=============================================================================
