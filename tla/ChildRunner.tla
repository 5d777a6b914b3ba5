---------------------------- MODULE ChildRunner ----------------------------
(***************************************************************************)
(* ChildRunner::run of crates/bw-experiment: it runs an instrumented       *)
(* program as a child process with a process group of its own, waits for   *)
(* it with a deadline, ends it when the deadline has passed, and then ends *)
(* whatever else is left in its group.                                     *)
(*                                                                         *)
(* Every system call of the runner is an action.  The processes and the    *)
(* kernel are the environment: a process may fork, leave the group, exit   *)
(* or ignore SIGTERM, whenever it likes.  Time is one flag: `expired' says *)
(* that the delay measured at this point of the code has elapsed, and      *)
(* starting to measure another one clears it.  wait and kill fail for no   *)
(* process that exists; those errors are left out.                         *)
(***************************************************************************)
EXTENDS Naturals

CONSTANTS
    Leader,      \* the process that is spawned
    Others       \* processes it may fork, directly or not

ASSUME ChildRunnerAssumption == Leader \notin Others

Procs == Others \cup {Leader}

VARIABLES
    pc,       \* the next step of the runner
    status,   \* the ChildStatus it has settled on
    result,   \* what run returned
    expired,
    life,     \* of each process; a zombie is dead and not yet waited for
    member,   \* processes in the group of the child
    termed,   \* processes that were sent SIGTERM
    killed,   \* processes that were sent SIGKILL
    cause     \* what each process died of

vars == <<pc, status, result, expired, life, member, termed, killed, cause>>
runner == <<pc, status, result, expired>>
procs == <<life, member, termed, killed, cause>>

Init ==
    /\ pc = "spawn"
    /\ status = "none"
    /\ result = "none"
    /\ expired = FALSE
    /\ life = [p \in Procs |-> "none"]
    /\ member = {}
    /\ termed = {}
    /\ killed = {}
    /\ cause = [p \in Procs |-> "none"]

-----------------------------------------------------------------------------
(* The environment. *)

Running(p) == life[p] = "running"

Die(p, why) ==
    /\ life' = [life EXCEPT ![p] = "zombie"]
    /\ cause' = [cause EXCEPT ![p] = why]
    /\ UNCHANGED <<runner, member, termed, killed>>

Exit(p) == Running(p) /\ Die(p, "own")
DieOfTerm(p) == Running(p) /\ p \in termed /\ Die(p, "term")
DieOfKill(p) == Running(p) /\ p \in killed /\ Die(p, "kill")

Fork(p, q) ==
    /\ Running(p) /\ p \notin killed /\ life[q] = "none"
    /\ life' = [life EXCEPT ![q] = "running"]
    /\ member' = IF p \in member THEN member \cup {q} ELSE member
    /\ UNCHANGED <<runner, termed, killed, cause>>

\* setsid or setpgid in a descendant; the leader of a group cannot leave it.
LeaveGroup(p) ==
    /\ Running(p) /\ p \in member \ {Leader}
    /\ member' = member \ {p}
    /\ UNCHANGED <<runner, life, termed, killed, cause>>

\* An orphan is waited for by init.
Reap(p) ==
    /\ p # Leader /\ life[p] = "zombie"
    /\ life' = [life EXCEPT ![p] = "gone"]
    /\ member' = member \ {p}
    /\ UNCHANGED <<runner, termed, killed, cause>>

Tick ==
    /\ ~expired
    /\ expired' = TRUE
    /\ UNCHANGED <<pc, status, result, procs>>

Environment ==
    \/ \E p \in Procs : Exit(p) \/ DieOfTerm(p) \/ DieOfKill(p) \/ LeaveGroup(p) \/ Reap(p)
    \/ \E p \in Procs, q \in Others : Fork(p, q)
    \/ Tick

-----------------------------------------------------------------------------
(* The runner. *)

Goto(step) == pc' = step
StartTimer == expired' = FALSE
Return(r) == Goto("returned") /\ result' = r

SpawnFails ==
    /\ pc = "spawn"
    /\ Return("err")
    /\ UNCHANGED <<status, expired, procs>>

\* configure_child_process_group: the group exists before the program runs.
Spawn ==
    /\ pc = "spawn"
    /\ life' = [life EXCEPT ![Leader] = "running"]
    /\ member' = {Leader}
    /\ Goto("poll") /\ StartTimer
    /\ UNCHANGED <<status, result, termed, killed, cause>>

\* try_wait or wait has found the child dead.
ReapLeader ==
    /\ life[Leader] = "zombie"
    /\ life' = [life EXCEPT ![Leader] = "gone"]
    /\ member' = member \ {Leader}
    /\ UNCHANGED <<termed, killed, cause>>

\* wait_with_timeout
PollDone ==
    /\ pc = "poll"
    /\ ReapLeader
    /\ status' = "exited"
    /\ Goto("group_term")
    /\ UNCHANGED <<result, expired>>

\* Otherwise it sleeps and looks again, until the deadline; the child may still
\* die after the last look.
DeadlineOver ==
    /\ pc = "poll" /\ life[Leader] # "zombie" /\ expired
    /\ Goto("term")
    /\ UNCHANGED <<status, result, expired, procs>>

\* terminate_child: send_term runs `kill' and ignores whether it worked.
Term(sent) ==
    /\ pc = "term"
    /\ termed' = IF sent THEN termed \cup {Leader} ELSE termed
    /\ Goto("grace") /\ StartTimer
    /\ UNCHANGED <<status, result, life, member, killed, cause>>

\* Mutant: the child's own status is reported after all.
GraceDoneExited ==
    /\ pc = "grace"
    /\ ReapLeader
    /\ status' = "exited"
    /\ Goto("group_term")
    /\ UNCHANGED <<result, expired>>

GraceDone ==
    /\ pc = "grace"
    /\ ReapLeader
    /\ status' = "timed_out"
    /\ Goto("group_term")
    /\ UNCHANGED <<result, expired>>

GraceOver ==
    /\ pc = "grace" /\ life[Leader] # "zombie" /\ expired
    /\ Goto("kill")
    /\ UNCHANGED <<status, result, expired, procs>>

Kill ==
    /\ pc = "kill"
    /\ killed' = killed \cup {Leader}
    /\ Goto("wait")
    /\ UNCHANGED <<status, result, expired, life, member, termed, cause>>

Wait ==
    /\ pc = "wait"
    /\ ReapLeader
    /\ status' = "timed_out"
    /\ Goto("group_term")
    /\ UNCHANGED <<result, expired>>

\* terminate_child_process_group; a group without processes is no error.
GroupExists == member # {}

GroupTerm ==
    /\ pc = "group_term"
    /\ termed' = termed \cup member
    /\ Goto("group_grace") /\ StartTimer
    /\ UNCHANGED <<status, result, life, member, killed, cause>>

GroupGrace ==
    /\ pc = "group_grace"
    /\ IF ~GroupExists
       THEN Goto("group_wait") /\ StartTimer /\ UNCHANGED killed
       ELSE /\ expired
            /\ killed' = killed \cup member
            /\ Goto("group_wait") /\ StartTimer
    /\ UNCHANGED <<status, result, life, member, termed, cause>>

GroupWait ==
    /\ pc = "group_wait"
    /\ IF ~GroupExists THEN Return("ok") ELSE expired /\ Return("err")
    /\ UNCHANGED <<status, expired, procs>>

Runner ==
    \/ SpawnFails \/ Spawn
    \/ PollDone \/ DeadlineOver
    \/ \E sent \in BOOLEAN : Term(sent)
    \/ GraceDone \/ GraceOver \/ Kill \/ Wait
    \/ GroupTerm \/ GroupGrace \/ GroupWait

Next == Runner \/ Environment

\* The runner is scheduled, time passes, and the kernel carries out SIGKILL.
\* Nothing is assumed of the processes themselves, nor of init.
Fairness ==
    /\ WF_vars(Runner)
    /\ WF_vars(Tick)
    /\ \A p \in Procs : WF_vars(DieOfKill(p))

Spec == Init /\ [][Next]_vars /\ Fairness

-----------------------------------------------------------------------------
(* Correctness. *)

TypeOK ==
    /\ pc \in {"spawn", "poll", "term", "grace", "kill", "wait",
               "group_term", "group_grace", "group_wait", "returned"}
    /\ status \in {"none", "exited", "timed_out"}
    /\ result \in {"none", "ok", "err"}
    /\ result = "ok" => status # "none"
    /\ expired \in BOOLEAN
    /\ life \in [Procs -> {"none", "running", "zombie", "gone"}]
    /\ member \subseteq {p \in Procs : life[p] \in {"running", "zombie"}}
    /\ termed \subseteq Procs
    /\ killed \subseteq Procs
    /\ cause \in [Procs -> {"none", "own", "term", "kill"}]

\* What is seen of a call from outside: its phase, what became of the child, and
\* whether its group exists.
Phase == IF pc = "spawn" THEN "idle" ELSE IF pc = "returned" THEN "returned" ELSE "active"
Fate == IF life[Leader] \in {"none", "running"} THEN life[Leader]
        ELSE IF cause[Leader] = "own" THEN "own" ELSE "ended"
Outcome == IF result = "ok" THEN status ELSE result

Call == INSTANCE ChildCall
    WITH phase <- Phase, fate <- Fate, group <- GroupExists, outcome <- Outcome

\* The runner keeps the promise of ChildCall, although the child, or what it
\* forked, may ignore SIGTERM, fork on, leave the group and never exit: it
\* returns; the child is dead by then, and its group empty if a status is
\* returned; and a child it had to end is never reported as exited.
KeepsPromise == Call!Spec
=============================================================================
