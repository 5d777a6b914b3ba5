---------------------------- MODULE BlindReveal ----------------------------
(***************************************************************************)
(* reveal and GateDecision of crates/bw-blind-curator, after a run of      *)
(* BlindRunner: the finalized run is captured once, file by file, while    *)
(* other processes may still change it; the receipts, the public manifest, *)
(* the policy and the ground truth the curator was given are compared with *)
(* it; and what the cases have shown is counted against their roles.       *)
(*                                                                         *)
(* There was an earlier run of the same pack, in a directory of its own:   *)
(* content "other" is that of its files.  Its receipt is signed too.       *)
(***************************************************************************)
EXTENDS BlindRunner, FiniteSetsExt

CONSTANTS
    Violations,   \* the cases the ground truth calls violations; all others are controls
    Pairs,        \* the pairs of cases in the ground truth
    MinConfirmed  \* gate_minimum_confirmed_cases of the policy

ASSUME BlindRevealAssumption ==
    /\ Violations \subseteq Cases
    /\ \A p \in Pairs : p \subseteq Cases /\ Cardinality(p) = 2
    /\ MinConfirmed \in Nat \ {0}

VARIABLES
    reveal,   \* the next step of the curator
    listed,   \* the checksum list it has read
    unread,   \* the files it has still to read
    got,      \* the files as it has read them
    given,    \* the receipts, manifest, policy and ground truth it was given
    gate      \* the decision: none, passed or failed

curatorVars == <<reveal, listed, unread, got, given, gate>>
allVars == <<vars, curatorVars>>

\* The order of a checksum list is that of the paths.
RunFileOrder ==
    <<Receipt, Observations>> \o [i \in DOMAIN CaseOrder |-> Witness(CaseOrder[i])]
        \o <<Identity>> \o [i \in DOMAIN CaseOrder |-> Log(CaseOrder[i])]

NoFiles == [f \in RunFiles |-> None]

InitReveal ==
    /\ Init
    /\ reveal = "idle" /\ listed = NoFiles /\ unread = <<>> /\ got = NoFiles
    /\ given = [manifest |-> None] /\ gate = None

Refuse == reveal' = "refused" /\ UNCHANGED <<unread, got>>

\* The list as it is, or as an earlier run has left it.
SumsOn(disk) ==
    IF disk = "own" THEN sums ELSE [f \in RunFiles |-> IF f = Checksums THEN None ELSE "other"]

\* VerifiedRunSnapshot::capture opens the final directory, reads the checksum list,
\* and wants the files that are there to be those it lists.
CaptureSums ==
    /\ reveal = "idle" /\ dir = "final"
    /\ IF files[Checksums] = "dirty"
       THEN Refuse /\ UNCHANGED listed
       ELSE /\ listed' = SumsOn(files[Checksums])
            /\ IF \E f \in RunFiles \ {Checksums} : (files[f] = None) # (listed'[f] = None)
               THEN Refuse
               ELSE /\ reveal' = "capture"
                    /\ unread' = SelectSeq(RunFileOrder, LAMBDA f : listed'[f] # None)
                    /\ UNCHANGED got
    /\ UNCHANGED <<vars, given, gate>>

\* Every file is read once, and the bytes whose digest is right are kept.
CaptureFile ==
    /\ reveal = "capture" /\ unread # <<>>
    /\ LET f == Head(unread) IN
        IF files[f] # listed[f]
        THEN Refuse
        ELSE /\ got' = [got EXCEPT ![f] = files[f]]
             /\ unread' = Tail(unread) /\ UNCHANGED reveal
    /\ UNCHANGED <<vars, listed, given, gate>>

-----------------------------------------------------------------------------
\* The earlier run was of the version of the curator's pack too, and all its files
\* were its own.
SignedReceipt(content, version) ==
    IF content = "own" THEN receipt
    ELSE [manifest |-> version, executed |-> version, observations |-> "other",
          evidence |-> [f \in Evidence |-> "other"], run |-> "other", backend |-> "container"]

\* Mutant: the evidence of the receipt is not compared with the files captured.
ReceiptsAgreeOnObservations(g) ==
    LET r == SignedReceipt(got[Receipt], g.install) IN
    /\ got[Receipt] \in {"own", "other"} /\ g.receipt = got[Receipt]
    /\ r.backend = "container"
    /\ g.install = g.manifest /\ g.install = g.policy
    /\ r.run = "own"
    /\ r.manifest = g.manifest /\ r.executed = g.manifest
    /\ r.observations = got[Observations]

\* verify_receipts: both are signed, the runner receipt given is the one in the
\* run, the run was isolated; and manifest, policy, archive, commit, run id, the
\* executed cases, the observations and the evidence are what the receipts name.
ReceiptsAgree(g) ==
    LET r == SignedReceipt(got[Receipt], g.install) IN
    /\ got[Receipt] \in {"own", "other"} /\ g.receipt = got[Receipt]
    /\ r.backend = "container"
    /\ g.install = g.manifest /\ g.install = g.policy
    /\ r.run = "own"
    /\ r.manifest = g.manifest /\ r.executed = g.manifest
    /\ r.observations = got[Observations]
    /\ r.evidence = [f \in Evidence |-> got[f]]

\* What the captured observations say of the cases; the earlier run had confirmed
\* them all.
Observed == IF got[Observations] = "own" THEN seen ELSE [c \in Cases |-> "witnessed"]

\* validate_run_identity, _ground_truth_identity and _observation_evidence.
IntegrityClean(g) ==
    /\ got[Identity] = "own" /\ metadata = g.manifest
    /\ g.truth = g.manifest
    /\ \A c \in Cases : Observed[c] = "witnessed" => got[Witness(c)] = got[Observations]

\* violation_passes, and the controls that failed: not completed, or confirmed for
\* a rule that a violation they are paired with was confirmed for (here: the rule).
GatePassed ==
    LET passed == {v \in Violations : Observed[v] = "witnessed"}
        failed == {c \in Cases \ Violations :
                       \/ Observed[c] = "failed"
                       \/ Observed[c] = "witnessed" /\ \E v \in passed : {c, v} \in Pairs}
    IN Cardinality(passed) >= MinConfirmed /\ failed = {}

\* reveal with what it was given, each read once, and then GateDecision::from_reveal.
Reveal(g) ==
    /\ reveal = "capture" /\ unread = <<>>
    /\ IF ReceiptsAgree(g) /\ IntegrityClean(g)
       THEN /\ reveal' = "revealed" /\ given' = g
            /\ gate' = IF GatePassed THEN "passed" ELSE "failed"
       ELSE reveal' = "refused" /\ UNCHANGED <<given, gate>>
    /\ UNCHANGED <<vars, listed, unread, got>>

Given == [manifest : Versions, policy : Versions, truth : Versions, install : Versions,
          receipt : {"own", "other"}]

\* Somebody puts the earlier run in the place of this one.
ReplaceRun ==
    /\ changes < MaxChanges /\ changes' = changes + 1
    /\ dir = "final"
    /\ files' = [f \in RunFiles |-> "other"]
    /\ changed' = changed \cup (RunFiles \X {"scanned"})
    /\ UNCHANGED <<at, left, errors, packVars, auditVars, caseVars, dir, sums, receipt>>

RevealNext ==
    \/ (Next \/ ReplaceRun) /\ UNCHANGED curatorVars
    \/ CaptureSums \/ CaptureFile \/ \E g \in Given : Reveal(g)

RevealSpec == InitReveal /\ [][RevealNext]_allVars

-----------------------------------------------------------------------------
\* What was hashed into the runner receipt is what the run wrote, but for files
\* others have changed before; the copy of a witness may be one of a file that
\* others have changed.
ChangedUnsigned(f) == \/ <<f, "unsigned">> \in changed
                      \/ \E c \in Cases : f = Witness(c) /\ <<Log(c), "unsigned">> \in changed

Vouched(f) == got[f] \in {None, "own"} \/ ChangedUnsigned(f)

\* However the pack, the run and the receipts are replaced between the steps of
\* runner and curator, and also while the curator reads: what it reveals is what
\* the run of this name has observed, in a container, on the pack the install
\* receipt was signed for, but for case directories changed before their use, and
\* the gate has passed only on witnesses and controls this run has seen.
RevealedAsRun ==
    reveal = "revealed" =>
        /\ backend = "container"
        /\ given.manifest = install /\ given.policy = install
        /\ \A c \in Cases : RanAsInstalled(c)
        /\ \A f \in Evidence : Vouched(f)
        /\ gate = "passed" /\ got[Observations] = "own" =>
               /\ \E v \in Violations : seen[v] = "witnessed" /\ got[Witness(v)] = "own"
               /\ \A c \in Cases \ Violations : seen[c] # "failed"
=============================================================================
