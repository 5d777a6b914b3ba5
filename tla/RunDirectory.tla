---------------------------- MODULE RunDirectory ----------------------------
(***************************************************************************)
(* RunDirectory of crates/bw-experiment: a run is built in `<id>.partial'  *)
(* and renamed to `<id>' once its files are complete, checksummed and      *)
(* verified.  Several runners may use one run id, each may stop at any     *)
(* step (an I/O error, or a crash: the directory stays as it is), and a    *)
(* process that a runner started and that escaped ChildRunner may go on    *)
(* writing into the directory, wherever it has been renamed to.            *)
(*                                                                         *)
(* A file is the number of times its content changed, 0 if it is absent;   *)
(* hashing it is one step, hashing a directory one step per file.  `place' *)
(* says at which path the directory a runner made is.                      *)
(***************************************************************************)
EXTENDS Naturals

CONSTANTS
    Runners,     \* processes that use the run id
    MaxWrites    \* bound on the changes of one file

ASSUME RunDirectoryAssumption == MaxWrites \in Nat \ {0, 1}

RequiredFinalFiles == {"manifest", "findings", "summary", "COMPLETE"}
Loose == {"trace", "stray"}  \* a required trace, and a file nobody asked for
Files == RequiredFinalFiles \cup Loose

VARIABLES
    pc,        \* the next step of each runner
    place,     \* path of its directory
    files,     \* content of its directory
    sums,      \* checksums.sha256 of its directory
    todo,      \* files that are still to be hashed, or to be verified
    leftover,  \* a process it started still writes there
    late       \* files such a process changed after they were looked at last

vars == <<pc, place, files, sums, todo, leftover, late>>

Empty == [f \in Files |-> 0]

Init ==
    /\ pc = [r \in Runners |-> "check"]
    /\ place = [r \in Runners |-> "none"]
    /\ files = [r \in Runners |-> Empty]
    /\ sums = [r \in Runners |-> Empty]
    /\ todo = [r \in Runners |-> {}]
    /\ leftover = [r \in Runners |-> FALSE]
    /\ late = [r \in Runners |-> {}]

-----------------------------------------------------------------------------
Taken(path) == \E r \in Runners : place[r] = path

Goto(r, step) == pc' = [pc EXCEPT ![r] = step]
Step(r, from, to) == pc[r] = from /\ Goto(r, to)

\* A step that writes one file and changes nothing else.
Write(r, from, to, file, content) ==
    /\ Step(r, from, to)
    /\ files' = [files EXCEPT ![r][file] = content]
    /\ UNCHANGED <<place, sums, todo, leftover, late>>

\* A step that only looks.
Look(r, from, to) ==
    /\ Step(r, from, to)
    /\ UNCHANGED <<place, files, sums, todo, leftover, late>>

\* create: two looks at the paths, then create_dir, which fails if it exists.
CheckPartial(r) == Look(r, "check", IF Taken("partial") THEN "stopped" ELSE "check_final")
CheckFinal(r) == Look(r, "check_final", IF Taken("final") THEN "stopped" ELSE "create")

\* Mutant: create_dir_all.
CreateAnyway(r) ==
    /\ Step(r, "create", "layout")
    /\ place' = [place EXCEPT ![r] = "partial"]
    /\ UNCHANGED <<files, sums, todo, leftover, late>>

Create(r) ==
    IF Taken("partial") THEN Look(r, "create", "stopped")
    ELSE /\ Step(r, "create", "layout")
         /\ place' = [place EXCEPT ![r] = "partial"]
         /\ UNCHANGED <<files, sums, todo, leftover, late>>

Findings(r) == Write(r, "layout", "open", "findings", 1)
FirstManifest(r) == Write(r, "open", "work", "manifest", 1)

\* The user of the directory runs programs in it; one may outlive the step.
Work(r, traced, escaped) ==
    /\ Step(r, "work", "require")
    /\ files' = [files EXCEPT ![r]["trace"] = IF traced THEN 1 ELSE 0]
    /\ leftover' = [leftover EXCEPT ![r] = escaped]
    /\ UNCHANGED <<place, sums, todo, late>>

\* finalize_at
Require(r) == Look(r, "require", IF files[r]["trace"] = 0 THEN "stopped" ELSE "summary")
Summary(r) == Write(r, "summary", "complete", "summary", 1)
Complete(r) == Write(r, "complete", "manifest", "COMPLETE", 1)
Manifest(r) == Write(r, "manifest", "list", "manifest", 2)

-----------------------------------------------------------------------------
(* write_run_checksums: a list of the files, then a hash of each. *)

List(r) ==
    /\ Step(r, "list", "hash")
    /\ todo' = [todo EXCEPT ![r] = {f \in Files : files[r][f] # 0}]
    /\ UNCHANGED <<place, files, sums, leftover, late>>

Hash(r, f) ==
    /\ pc[r] = "hash" /\ f \in todo[r]
    /\ sums' = [sums EXCEPT ![r][f] = files[r][f]]
    /\ todo' = [todo EXCEPT ![r] = @ \ {f}]
    /\ UNCHANGED <<pc, place, files, leftover, late>>

(* verify_run_integrity: every required file is listed, every listed file  *)
(* has its hash, and, looking last, no file is unlisted.                   *)

Summed(r) == {f \in Files : sums[r][f] # 0}

ReadSums(r) ==
    /\ Step(r, "hash", IF RequiredFinalFiles \subseteq Summed(r) THEN "verify" ELSE "stopped")
    /\ todo[r] = {}
    /\ todo' = [todo EXCEPT ![r] = Summed(r)]
    /\ UNCHANGED <<place, files, sums, leftover, late>>

VerifyFile(r, f) ==
    /\ f \in todo[r]
    /\ Step(r, "verify", IF files[r][f] = sums[r][f] THEN "verify" ELSE "stopped")
    /\ todo' = [todo EXCEPT ![r] = @ \ {f}]
    /\ UNCHANGED <<place, files, sums, leftover, late>>

\* Mutant: files that are not listed are not looked for.
VerifyNoMoreSkipped(r) ==
    /\ todo[r] = {}
    /\ Look(r, "verify", "rename")

VerifyNoMore(r) ==
    /\ todo[r] = {}
    /\ Look(r, "verify", IF \A f \in Files : files[r][f] # 0 => f \in Summed(r)
                         THEN "rename" ELSE "stopped")

\* rename does not replace a directory that is not empty.
Rename(r) ==
    IF Taken("final") THEN Look(r, "rename", "stopped")
    ELSE /\ Step(r, "rename", "done")
         /\ place' = [place EXCEPT ![r] = "final"]
         /\ UNCHANGED <<files, sums, todo, leftover, late>>

Stop(r) == pc[r] \notin {"done", "stopped"} /\ Look(r, pc[r], "stopped")

-----------------------------------------------------------------------------
(* What escaped writes at any time, or ends. *)

LookedAt(r, f) ==
    \/ pc[r] = "verify" /\ f \in Summed(r) \ todo[r]
    \/ pc[r] \in {"rename", "done"}

Stray(r, f) ==
    /\ leftover[r] /\ files[r][f] < MaxWrites
    /\ files' = [files EXCEPT ![r][f] = @ + 1]
    /\ late' = IF LookedAt(r, f) THEN [late EXCEPT ![r] = @ \cup {f}] ELSE late
    /\ UNCHANGED <<pc, place, sums, todo, leftover>>

End(r) ==
    /\ leftover[r]
    /\ leftover' = [leftover EXCEPT ![r] = FALSE]
    /\ UNCHANGED <<pc, place, files, sums, todo, late>>

-----------------------------------------------------------------------------
Open(r) == CheckPartial(r) \/ CheckFinal(r) \/ Create(r) \/ Findings(r) \/ FirstManifest(r)

Finalize(r) ==
    \/ Require(r) \/ Summary(r) \/ Complete(r) \/ Manifest(r)
    \/ List(r) \/ ReadSums(r) \/ VerifyNoMore(r) \/ Rename(r)
    \/ \E f \in Files : Hash(r, f) \/ VerifyFile(r, f)

Next == \E r \in Runners :
    \/ Open(r)
    \/ \E traced, escaped \in BOOLEAN : Work(r, traced, escaped)
    \/ Finalize(r)
    \/ Stop(r)
    \/ \E f \in Loose : Stray(r, f)
    \/ End(r)

Spec == Init /\ [][Next]_vars

-----------------------------------------------------------------------------
(* Correctness. *)

TypeOK ==
    /\ pc \in [Runners -> {"check", "check_final", "create", "layout", "open", "work",
                           "require", "summary", "complete", "manifest", "list", "hash",
                           "verify", "rename", "done", "stopped"}]
    /\ place \in [Runners -> {"none", "partial", "final"}]
    /\ files \in [Runners -> [Files -> 0..MaxWrites]]
    /\ sums \in [Runners -> [Files -> 0..MaxWrites]]
    /\ todo \in [Runners -> SUBSET Files]
    /\ leftover \in [Runners -> BOOLEAN]
    /\ late \in [Runners -> SUBSET Loose]
    /\ \A r \in Runners : pc[r] = "done" => place[r] = "final"

\* One run id never stands for two runs: no two runners hold the partial
\* directory, and no finalized run takes the place of another, although each
\* looks at the paths before it uses them (RunDirectory::create, finalize_at).
OneOwner ==
    \A r, s \in Runners : r # s /\ place[r] = place[s] => place[r] = "none"

\* A run under its final name is complete, and every file in it is what
\* checksums.sha256 says, unless it was changed after verify_run_integrity
\* looked at it: what is written while the checksums are taken is found out.
FinalIntegrity ==
    \A r \in Runners : place[r] = "final" =>
        /\ \A f \in RequiredFinalFiles : files[r][f] # 0
        /\ files[r]["manifest"] = 2
        /\ \A f \in Files : files[r][f] = sums[r][f] \/ f \in late[r]
=============================================================================
