# BoundaryWitness in TLA+

BoundaryWitness looks for lifecycle defects at Rust-C boundaries. Its static side
(scanner, compiler driver, foreign IR, hand-off verdicts) says where a callback may outlive what it
borrows; its dynamic side runs an instrumented program, records what happens to objects, callbacks
and captures as a trace, judges the trace against static facts and a contract, and stores the run;
a fuzzer searches for such runs, and a blind experiment repeats them under someone else's hands.
This directory models the parts with a state machine in them, or with an algorithm whose claim
can be checked against an execution.

## The system

```
 rustc driver, foreign IR ---> contract facts, behaviour facts ---> verdict on each hand-off
                                    |
 ChildRunner ---runs---> instrumented program              fuzz harness <--- corpus, minimizer
    ^                      | CallbackToken, Tracked (threads)     |
    |                      v                                      v
    |                    RuntimeContext --emit--> JsonlSink   events --> fuzz observer, Oracle
    |                                                |
 D0 runner: flatten_trace <-- segments + trace-index.json
    |   trace validator, Oracle <--- static facts, contract
    v        | findings, records
 RunDirectory: <id>.partial -> checksums -> verify -> rename to <id>
    ^
 blind runner: pack -> audit -> snapshot -> case (native or container) -> receipt -> scan
                                            blind curator: captures a final run, reveals, decides
```

| component | state | operations | hard behaviour | what makes it correct |
| --- | --- | --- | --- | --- |
| lifecycle oracle, `crates/bw-oracle` | four tables (objects, captures, callbacks, owners), run and build, findings | `observe`, one reaction per event kind | calls that fail after changing a table, repeated drops and frees, evidence kept in rows that later events write | findings are exactly those the trace deserves; evidence is in order and is never rewritten; no borrow outlives its object in the tables |
| event runtime, `crates/bw-runtime` | counters, `deferred_error`, state of tokens and tracked values | `register`, `bind_object`, `invoke`, `release`, `Tracked::{new,get,drop}`, `emit`, `finish` | threads interleave between the critical sections of one call; the sink refuses events | one number per event, one unregistration per callback, no event of an unknown callback, no silent loss |
| JSONL sink, `crates/bw-runtime/src/sinks` | open segment, index in memory, files | `emit`, `flush` | any file operation fails; crash between two of them | the index on disk lists only complete segments; accepted events are never deleted |
| child runner, `bw-experiment/src/child.rs` | the child, its process group, deadlines | `run` | processes that ignore SIGTERM, fork, escape, exit at the deadline | `run` returns; nothing of the group is left on Ok; the status is the child's own or TimedOut |
| run directory, `layout.rs`, `checksum.rs` | `<id>.partial`, `<id>`, files, `checksums.sha256` | `create`, `finalize_at` | looks and uses of a path are separate; crashes; a late writer | an id stands for one run; a final run matches its checksums |
| trace validator, `bw-model/src/validate.rs` | what it has read of each trace | one pass over a trace | order, duplicates, missing introductions | accepts what runtime and `flatten_trace` produce, and what the oracle does not reject |
| fuzz observer, `crates/bw-fuzz-observer` | objects, callbacks, captures, feedback | `observe` | silent overwrites, drop after free | agrees with the oracle on what both track |
| D0 runner, `d0_runner.rs` | plan, records, findings on disk | `run_d0`, `execute_replay`, `flatten_trace` | failing children, a crash between two appends, a rebuild during the run | findings and records tell the same; a verdict is by the facts of its build; a final run is complete |
| fuzz actions, harnesses, corpus, minimizer | an action sequence, a harness and its connection | apply, audit, minimize | which action can go depends on the others | a seed that is let in finds nothing; what is archived is a minimal witness |
| foreign IR, `crates/bw-foreign-ir` | none (functions) | dataflow, paths, three queries | aliasing, spills, loops, stores on some paths | what it says of a function is true of every execution |
| compiler driver, hand-off facts, `rustc_api/mir.rs` | none (functions) | bound, guard, allocation, lineage, foreign symbol of a hand-off | a call graph with gaps, a look at one body only | what is denied is really not there; what is found leads there |
| joint verdict, `joint.rs`, `compatibility.rs` | none (functions) | assemble, join, judge | which side may deny what | compatible means that no client can use what is gone |
| blind runner and curator, `crates/bw-blind-*` | pack, snapshot, container, run, receipts, gate | `run_public_pack`, `reveal` | files replaced between a look and a use, a container that outlives its timeout, cleanup after failures | what is executed, signed, scanned and revealed is one and the same, but for a case directory changed before its use |
| `bw-cli`, the rest of `compiler/bw-rustc`, lifecycle candidates, adapters, statistics, schemas, tools | none of their own | I/O, translation, counting | size | |

`PROJECT.json` lists these components with the reason for each that is not modelled, and
under `hazards` what in this code is hard to test, at its line.

## Modules

| module | models | how it corresponds |
| --- | --- | --- |
| `Oracle` | `bw-oracle` | one action per event kind; an action is the whole of `observe`: context check, reduce, rules, selection, findings |
| `OracleTrace` | what `bw-oracle` promises | `Oracle` with a log of the accepted events, and `Expected`, the findings read off that log alone |
| `FuzzObserver` | `ContractStateObserver` | one action per event it reacts to, over tables of its own |
| `TraceValidator` | `validate_runtime_stream`, `flatten_trace` | operators on a sequence of records: what is wrong with record i |
| `ObservedTrace` | composition | `OracleTrace`, `FuzzObserver` and `TraceValidator` read one trace; an event is one step of all three |
| `Runtime` | `RuntimeContext`, `CallbackToken`, `Tracked`, any `EventSink` | one action per critical section of a calling thread |
| `RuntimeTrace` | composition | the log of `Runtime` becomes a trace, is flattened and validated |
| `JsonlSink` | `JsonlSinkInner` | one action per file operation of `emit` and `flush` |
| `ChildCall` | what a caller of `ChildRunner::run` may rely on | the abstract specification |
| `ChildRunner` | `ChildRunner::run` | one action per system call; kernel and processes are the environment; implements `ChildCall` |
| `RunDirectory` | `RunDirectory`, `write_run_checksums`, `verify_run_integrity` | one action per file operation of a runner; hashing is a step per file |
| `D0Runner` | `run_d0` | one action per step of a work item: facts, child, failure, flatten, analyze, findings, record |
| `BlindRunner` | `run_public_pack` | one action per file read or written and per command to the container engine |
| `BlindReveal` | `reveal`, `GateDecision` | extends `BlindRunner`: the curator reads the run file by file while others still write |
| `FuzzHarness` | both harnesses, connection wrappers, `audit_sequence`, `ObjectiveClassifier` | operators: the harness is a record, an action maps it to the next |
| `FuzzMinimizer` | `minimize_actions` | one action per evaluation of a candidate; the evaluator is a parameter |
| `FuzzCase` | composition | a sequence grows and is minimized with `FuzzHarness` as the evaluator (`INSTANCE FuzzMinimizer WITH Matches <- Reproduces`) |
| `ForeignFlow` | `dataflow.rs`, what `ir.rs` reads | operators on a function: origins, slots, spills, paths |
| `ForeignQuery` | `query.rs` | operators on a module: retention, clear, invocation |
| `CrateFacts` | what `collect_mir_sites` finds out about hand-offs | operators on a crate: signatures, transfers and calls of its functions |
| `Compatibility` | `compatibility.rs`, `joint.rs` | operators: contract, join, verdict |
| `HandOff` | composition | a module is written, analysed with the crate that calls it, judged, and then executed under a client |
| `*Proofs` | | theorems about the modules they extend or instantiate |
| `MC*` | | constants and symmetry for TLC |

**Oracle.** `objects`, `captures`, `callbacks`, `owners` are the maps of `OracleState`; an
instance with no row has lifecycle `absent`, an absent `Option<RecordId>` is 0. A record id is
the position of its event among the events that were not rejected (`clock`). An event that is
rejected before any table changes is a stuttering step (`Rejected`); one whose rule
evaluation fails after `reduce` changed the tables is a real step that counts no observation
and yields no finding (`Reduced(FALSE, ...)`). Rules read the tables before the event
unprimed and after it primed, as the code reads `before` and `state`. The contract is the set
`Clauses` and the map `ApiRoles`; the static facts are `CaptureFact` and `KnownObjects`. The
events handed to it are arbitrary: the oracle has no validator in front of it in
`OracleEngine::observe`.

**ObservedTrace.** The observer ignores what it does not know and overwrites what it sees again; the
oracle rejects both. So the two are compared on *plain* traces (no second free, no free of an owner), where
they must agree but for one difference that is stated: borrows that end in the drop of the callback's own owner
(`EndedByOwnOwner`) are counted by the observer and are no exposure for the oracle, which closes the owner first.
`ValidatorAgrees` compares record by record, up to and with the first record the validator refuses. The oracle rejects none that the
validator accepts, except a pair bound twice. Past the run id and the build id it does not look at a record's place in the trace
(oracle.rs:98-103), so it accepts one the validator refuses (validate.rs:176-181 and 190-205) exactly if all that is wrong with it is of the eight kinds in
`Unheeded`: a record id that was there, a first or a later number that is not the next one, a place after `trace_end`, a second `trace_start`, a wrong `event_count`, and
the site of a bind that is not the callback's or the object's. `Variants` gives a record each of these faults. Who reads a trace with the oracle has to ask the
validator first, as `analyze_d0_replay` does (d0_runner.rs:227-228).

**Runtime.** `thread[t]` is the call a thread is in. `Number` is `fetch_add` in `envelope`;
`Deliver` and `Refuse` are `sink.emit` under the sink's mutex; `Defer` is `defer_error` in `emit`,
under its own, and `DeferAgain` the second one, in `emit_deferred` (context.rs:119-123): the lock is let go in between, so a
`finish` may take the error and find it again the next time. `Flush` and `Finish` are the two halves of `finish`. `RetainedCall` is
`require_retained`, whose lock is released before the event is emitted; `Release` tests and sets
in one critical section. `log` is the sink's view: every call of `sink.emit` with its
outcome, and every return of `finish`. `DropObject` waits for uses of the object to end,
which is what Rust's borrow rules enforce. `RuntimeTrace` adds `segments`, the records
of what the sink accepted behind the opening every program writes, which it renumbers as `flatten_trace` does and gives to
the validator.

**JsonlSink.** `call` is the call in progress; the sink's mutex admits one. A file is the
sequence of its lines, `Torn` a line whose end was not written (a later line is glued to it).
`published` is the content of `trace-index.json`, which is replaced by a rename. A write to a
file is durable for a crash of the process, not for one of the machine.

**ChildRunner.** `expired` says that the delay measured here has elapsed; starting another
measurement clears it. `member` is the process group; a zombie is a member until it is waited
for, as `kill(-pgid, 0)` sees it. `ChildCall` has four variables, phase, fate of the child, whether its group is
empty, and the outcome; the refinement mapping (`Phase`, `Fate`, `member # {}`, `Outcome`) is state by state, and
`KeepsPromise` is `Call!Spec`, its fairness included.

**RunDirectory.** A file is the number of its changes. `todo` are the files still to be
hashed or verified; `late` those that an escaped process changed after `verify_run_integrity` had
looked at them.

**D0Runner.** The child is there by the promise of `ChildCall` (a status, and nothing more of it), validator and oracle by
their verdict on what is in the segments (`trace`). The static facts are read for the build id before the
child runs and once more for the analysis, and `Rebuild` may come in between; the contract is read again for every replay as
well, and nothing ties it to the copy in the run. An append may be torn by a crash (`whole`). A program that
prints a panic and is then killed by a signal has neither `has_panic` nor `has_native_crash`
and is recorded as no finding (`Aborted`; the runbook d0.md:78-86 lists the four outcomes).

**BlindRunner, BlindReveal.** A digest stands for what it is the digest of: a file of the pack is of a version, a file of the run
is its own, of another run, or dirty (holds a forbidden token). `ChangePack`, `Reinstall`, `ChangeSource`, `ChangeRun` and `ReplaceRun` are
everybody else, at most `MaxChanges` times and between any two steps; `engine` is the container, which starts, ends or is
refused on its own. Each read is a step, so every look is apart from the use of what was looked at. `Materialize` writes the verified bytes of a
case to its directory below the run (`source`, runner.rs:115-124), and `RunNative` and `EngineStep` execute what is there later. Nobody looks again
in between (the files are made read-only, which their owner can undo), so what `ChangeSource` puts there runs, is signed and may be
revealed: `RanAsInstalled` names this one way, and `ExecutedAsSigned` and `RevealedAsRun` except it. What the model
showed of the code while it was written, none of it contradicting a document:
an error of a case is lost when the removal of its directory fails too (runner.rs:141-145); when
`verify_run_integrity` fails after the rename, a final run remains and `run_public_pack` returns Err;
a container whose `rm --force` failed goes on running after an Err; the executable bit is not part of a
case digest; and a confirmed control does not fail the gate if its paired violation was not confirmed.

**FuzzHarness, FuzzMinimizer, FuzzCase.** The harness record holds what the harness, the wrapper and SQLite each believe
(`current_token`, `retained`, `installed`), changed in the order of the code. An UPDATE or DELETE calls the hook once or
more; one call is modelled. Checkpoints, and the counters of a campaign, are left out. The minimizer removes from the front
again after each success and then replaces SQL operations; the order of replacements makes its result depend on the
input, and a 1-minimal sequence need not be a shortest one: no document says otherwise.

**ForeignFlow, ForeignQuery, CrateFacts, Compatibility, HandOff.** The first four translate the code as operators. `HandOff` states what
they are for: it starts from a crate, writes a foreign function instruction by instruction (`Write`, `NextBlock`, `NextFunction`; only
well-typed text), analyses both and judges the hand-off (`Analysed`), and then *executes* it: a client registers if safe code can get there, drops
its guard or forgets it, ends what the crate's types and code let it end, and the foreign component calls back (`Register`, `DropGuard`, `LeakGuard`,
`End`, `Fire`, `Step`). A held guard keeps what the closure borrows, by its lifetime, and nothing more (compatibility.rs:19-25): the allocation ends as soon as
some function of the crate may take it back. What the client may do is read off the crate (`MayBorrow`, `Protects`, `MayReclaim`, `Reached`), not off the facts made of it.
Unknown code keeps what it is handed and what it finds there, and may write there. The assumptions are those of a safe api: the
drop of the guard passes null to the clear entry if that is what it calls, and register and clear get the same object.
The verdict "compatible" is then safe except where the query does not look, which is stated as one operator, `Unseen`:
a slot that is a field of an object not its caller's (`ClearsAnother`), what is read from a slot, or a pointer to one, that is given away,
reckoned with, returned or (what is read) stored again, if only by the clear entry after its strongest store (`LosesSight`), and a use of a
parameter the analysis lost sight of while it saw another one stored.
Then `clears_on_all_paths` may say more than is true: compatibility.rs:419-420 defines it as
the slot being emptied on all paths when the unregistration is called.
`UnseenInCrate` names what the driver does not look at: a `from_raw` in another function of the crate than the hand-off (known to
mir.rs:21690, although static_fact.rs:521-522 wants no escape to other Rust code either), and which foreign function the drop of
a guard calls: any one makes it a guard, and the clear entry is judged for it. It also names the two ways in which a guard that works does not help: a
`from_raw` in the hand-off's own body (the driver's "may free early", mir.rs:21750-21756) frees the allocation while the guard is held, and a client
forgets the guard (`mem::forget` is safe; docs/project/research-thesis.md:112 counts on a safe client not getting there). `compatible_with_separation`
(compatibility.rs:575-584) denies both subjects on the ground of the guard alone. An end that comes after the guard was dropped, or where there is none, is not excepted.
`LineageIsRight` has an exception of the same kind. mir.rs:21297-21300 and static_fact.rs:503-504 say that calls of trait objects and
other dynamic dispatch make the call graph incomplete. In `crate_call_graph` (mir.rs:21651-21659) only a callee whose type is not `FnDef` does:
a trait method is an `FnDef` and becomes an edge to its declaration, and a drop is not looked at. A private hand-off
that safe code reaches that way gets `no_public_safe_entry`, not `unresolved`, and is left out of the contracts.
Two more observations are on the safe side: an explicit label on the entry block, and a `switch` over several
lines, make the control flow "incomplete" and every answer unresolved.

## Runs

| run | instance | shows |
| --- | --- | --- |
| `oracle` | 2 objects (1 owner), 2 callbacks borrowing both, 2 apis, 2 runs, 2 builds, 8 events; a contract without `release_on_owner_drop` and an object without a static fact, so that calls also fail half way | type invariant, record order, evidence order and stability, borrow end, exposure reported exactly once, forward lifecycles |
| `oracle_trace` | 2 objects, 1 callback, 7 events, full contract | findings = `Expected`, evidence included; what an owner's close releases; the observer agrees with the oracle; the validator does up to the first record it refuses, which may have any of eight faults (two runs, in either role) |
| `owner_end` | 1 callback, 5 events | *violated*: a freed owner keeps its callbacks retained |
| `runtime` | 2 threads, 1 token, 1 object, failing sink; 2 events and 3 finishes, or 3 events and 2 finishes (`MaxCalls` 5) | numbering, release once, introduction first, no silent loss, how often finishes return a refusal; the flattened trace is accepted |
| `runtime_seq` | 2 threads, 3 events | *violated*: sequence numbers out of order in the trace |
| `jsonl_sink` | 3 events, segments of at most 2, with and without compression | index, accepted events, flush |
| `child_runner` | child and 2 descendants | `ChildRunner` implements `ChildCall`, termination included |
| `run_directory` | 2 runners, 2 changes per file | one owner per id, integrity of final runs |
| `d0` | 2 replays and a compile check, 2 builds, every end of a child, every trace, an error or crash at each step | findings and records, the build a verdict is by, failures apart, complete final runs |
| `blind` | 2 cases, one pair; 2 versions; both backends; 2 changes by others | executed, signed, scanned, finalized, revealed: one and the same, but for a case directory changed before its use |
| `fuzz` | every sequence of up to 7 actions for either api, one action after a refused one | accepted seeds find nothing, SQLite calls what is retained, minimization ends in a minimal witness |
| `foreign` | 12 scenarios of written modules and the crates that call them | what dataflow, paths and queries say is true of the execution; safe code gets where the lineage says; compatible is safe |

*Bounds.* Eight events hold the longest chains the oracle's rules relate (start, two creates,
register, bind, end, and two more: another end, a use, an invoke, a repeated free), for two
callbacks at once up to their registrations and binds. Seven events hold each of these chains for one callback whose owner is what
it borrows, or that is invoked, or released, after the end of another object; the comparison with three readers of the
whole trace is costly per state. Three runtime events hold
register, invoke and unregister of one token, or create, use and drop of one object, which are
the longest dependent calls; two threads exhibit every race between two critical
sections. With two finishes one error of a tracked object can be returned twice, with three a third return would show; `MaxCalls` leaves the third one two
events. Three events with segments of two make one full and one partly filled segment, so a
segment closed by the limit and one closed by flush meet. Two descendants allow a fork
while the group is being ended. Two runners allow every race on the paths. `MaxWrites` 2
lets an escaped process change a file the runner wrote once. Two replays and a compile check (`plan_d0_work` makes the plan from
the matrix) let a replay follow a replay, and a check of another kind what went wrong before it. Two changes by others
(`MaxChanges`) replace a file and put it back, or change two files that are compared with each other. The shortest sequence that reaches a primary objective has six
actions (five for scalar functions); seven leave one that can be removed, replaced or refused (`MaxIgnored` 1: everything after a refused action is
ignored alike).

*Scenarios of `foreign`.* `paths`: every control flow of up to four blocks with at most two successors each, 4,236 of them, nothing else;
`values`: a straight function with three instructions of every kind the reader knows; `turned`: three instructions over blocks that are
executed in another order than they are written, which is what takes the fixpoint more than one round; `loops`,
`aborts`: an alloca with stores and loads around a loop, and beside a path that never returns;
`unguarded`: a register that stores into a field, under three crates without a working guard; `guarded`, `branches`: such a register with
a clear entry, straight or with an early return or a terminator the reader does not know; `used`: a register that has stored the callback
and goes on with what is there, and a clear entry that does the same; `crates`: a second
function that takes the allocation back, a wrapper with calls of its own, chains on both sides of the search limit of three hops; `signatures`: 768
signatures of a type parameter (bounds, lifetimes returned, drops of the guard, transfers) and 15 of a trait object, with a clear entry of
at most one store; `graphs`: every way, by four kinds of call, to get to a hand-off from two other functions, each public or not. `MaxBlocks` 4 lets a loop
be entered twice. A client ends subjects and is called back in any order.

*Symmetry* (callbacks, threads, events, runners) is used in runs of safety properties only;
the sets are permuted only where all else treats them alike.

*Fairness* is assumed in `ChildRunner` alone: the runner is scheduled, time passes, and the kernel
carries out SIGKILL. Nothing is assumed of the processes: they may ignore SIGTERM, fork and
never exit. The other programs may stop at any step, and the properties hold of where they stop. All runs but those of `Oracle`
switch TLC's deadlock check off, as their systems stop: the program ends, the process dies, `run` returns,
the run is final, the sequence is minimized, a module is written that cannot be completed.

*Mutants.* Every property of a passing run has a mutated operator beside the original, the
way a plausible bug would change it (marked `Mutant:`); with it TLC finds the property
violated.

## Findings

* `owner_end`: the contract's `owner-drop-releases` clause is described as "when an external owner ends";
  the oracle applies it to a drop and not to a free, the fuzz observer to both.
* `runtime_seq`: docs promise that `seq` starts at 0 and strictly increases in a trace. It starts at 1, and with
  two threads the trace may be out of order. `flatten_trace` renumbers, so later stages do not see it (`FlattenedAccepted`
  states exactly what they still see).

For the same reason as in `runtime_seq` a callback released by one thread may emit an invocation from another one afterwards: the
check of `CallbackToken::invoke` and its emission are separate critical sections. Only the name of a
single-threaded unit test speaks against it. What the models of blind runner and foreign analysis showed is told with them above.

## Proofs

Eight modules hold theorems, for all values of the constants that satisfy the assumption of the module they are about.

`OracleProofs`, about `Oracle` and what is composed with it, for any number of objects, owners, callbacks, events:

* `TypeCorrect`: `Spec => []TypeOK`.
* `RecordsCorrect`: `Spec => []RecordsOrdered`. Inductive together with `TypeOK`: the
  order of the records of a capture needs that of its callback, the order of an
  end record needs that `now` exceeds every record in the tables.
* `EvidenceIsOrdered`: `Spec => []EvidenceOrdered`. A candidate copies records from rows that
  `RecordsOrdered` orders, before (`LIFE-001`, `LIFE-002`, `FREE-001`) or after
  (`LIFE-003`) the event; so the invariant is the conjunction.
* `EvidenceIsStable`: `Spec => []EvidenceStable`. Needs that an ended capture's row, the registration of a
  callback and the first free of an object are never written again.
* `BorrowsEndWithObjects`, `ClosedOwnersRelease`, `LifecycleIsForward`: inductive with `RecordsOrdered`, as what is
  bound or registered later has a later record than the end or the close; the action property needs `OwnersExist` too
  (an owner that is created again would be open again).
* `ExposuresReportedOnce`: that an exposure is not reported again with the next drop or free needs `OneReport`, which says
  the same of any two findings, and `EvidenceStable`: a borrow that has its finding has ended.
* `FindingsAreOfTheTrace`: `LogSpec => []FindingsMatchTrace`, if the contract has the four clauses and every object its fact (`Complete`;
  without it the oracle judges less, and `Expected` is not what it promises). The invariant (`TraceInv`) is that each table is a function of the
  trace (`TablesInTrace`): a row tells which positions of the log made it what it is. A step adds to `Expected` what it adds to `findings`, rule by rule.
* `ValidatorAgreesWithOracle`: `ObservedSpec => []ValidatorAgrees`, for the records up to the first one the validator refuses and if all is given that a record may ask for
  (`AllGiven`). `ReadInv` says that the rows there are those the validator has read (`SameView`), as long as it has refused none; a record whose faults are all in `Unheeded` is
  then reduced like one without, and any other fault is one the oracle has a check for. The one it rejects and the validator accepts is a pair bound twice.
* `ObserverAgreesWithOracle`: `ObservedSpec => []ObserverAgrees`, under `Complete`. The observer's tables agree with those of the oracle (`TablesAgree`) as
  long as the trace is plain, and its counters with the tables of the oracle (`SnapshotAgrees`): a mark counts the ended borrows under a retained
  callback, which are the `LIFE-003` findings and those ended in the drop of the own owner (`EndsSplit`), one finding or position each.

The instance of the run `oracle_trace` satisfies `Complete` and `AllGiven`.

`RuntimeProofs`, about every invariant that the run `runtime` checks: any number of threads, tokens, objects, events
and finishes.

* `TypeCorrect`: `Spec => []TypeOK`, inductive with `NumbersTaken` (a call holds a number below the counter).
* `NumbersAreOnce`: `Spec => []NumberedOnce`. `Placed` and `Apart` say the same without sets of threads and
  entries: the event of a number is with a thread or in the log, and no two places hold the same number.
* `RefusalsAreReported`, `FinishesReportRefusals`: `NoSilentLoss` and `FinishReportsRefusal`. They hold
  because an error is put in `deferred` by its own thread alone, once for a call of `emit` and twice for one of `emit_deferred`: as long as its thread is to defer it once more, or it
  is deferred, one of these returns is still to come, and what finishes have returned is that much less than one or two (`FailedKnown`, `DeferredKnown`, which rest on `NumbersAreOnce`).
* `EventsAreIntroduced`: `Spec => []IntroducedFirst`. `Introduced` ties the state of a token to its accepted
  registration, that of an object to its creation, and both to every call in progress.
* `ReleasesAreOnce`: `Spec => []ReleaseOnce`. Until its event is in the log the one unregistration is with the
  thread that set the token released (`OneRelease`); no token becomes retained again, because the one thread
  that registers it does so while it is `registering` (`ReleaseInHand`).
* `FlattenedIsAccepted`: `TraceSpec => []FlattenedAccepted`. The segments are what was accepted (`Copied`), each record, creation and
  registration once (`RecordedOnce`, from `NumbersAreOnce` and `CreateInHand`) and behind what it names (`RecordedFirst`, from `EventsAreIntroduced`);
  `ProblemsAre` goes through every reason of the validator and finds that only two are left. Of the order and the gaps of the numbers nothing is used.

`JsonlSinkProofs`, for any set of events and any limit of a segment:

* `IndexIsReadable` and `AcceptedIsKept`: `Spec => []IndexedFilesMatch` and `Spec => []AcceptedOnDisk`, through every failure and crash.
  Inductive once each step of a close is tied to what the two files of the segment hold then (`ContentInv`), a listed segment to
  a number below the next and other than the current one (`ListInv`), and the numbers to the events offered (`OrdinalBound`, without which a
  segment might have no file). The index needs more than it says: a segment listed without a refused call is not empty (`Whole`).
* `FlushIsComplete`: `Spec => []FlushComplete`. `FlushComplete` finds a line by its position in the listed segments, counting the lines before
  each, and not by concatenating them. Needs that the listed and the open segment hold the accepted events in order, as long as no call failed.

`RunDirectoryProofs`, for any number of runners and of writes by what outlives them:

* `TypeCorrect`, `PathsHaveOneOwner`, `FinalRunsAreIntact`. Inductive with, for each runner, what its step says of its
  directory (`PlaceOfStep`), of the files it has written (`WrittenSoFar`) and of those it has verified (`VerifiedSoFar`: a
  file that does not match its sum was changed after its look). A runner's part is disturbed by its own steps and by strays in its directory only.

`D0RunnerProofs`, for every plan and every set of builds:

* `TypeCorrect`, `FindingsAreOfRecords`, `JudgedRight`, `FailuresAreApart`, `FinalRunsAreComplete`. `RecordInv` carries what is known of the record in hand
  from the child's end to its append; `FindingsInv` says that the replays told of in either file are those before the current item, or it.
  A final run is complete because the plan is worked off in order, one record an item (`PlanInv`), a replay without a failure has a trace on
  the list of required ones (`RequiredInv`), and the summary is made when all records are there (`SummaryInv`: a bucket for each key, with the number of its records).
* `ChildTypeCorrect`, and `ImplementsChildCall`, about the `ChildRunner` that runs the programs, for any set of processes: initial states map to
  initial states and every step to a step of `ChildCall` or a stutter. The inductive invariant ties the place of the runner in `run` to what
  became of the leader (`WhereItIs`), the leader to its group until it is waited for (`LeaderInGroup`), and the cause of a death to a signal
  that was sent (`CauseIsReal`). Both assume of the processes what `ChildRunner` assumes (`ChildRunnerAssumption`).

`BlindProofs`, for every pack, any order and pairing of the cases and any number of changes by others:

* `ExecutesAsSigned`, `FinalIsAsScanned`, `NothingIsLeftUnsaid`, of the runner alone and with the curator beside it. The invariant (`RunnerInv`) has a part
  for each thing that is carried from a step to a later one: what was read of the pack and compared with the signed version (`PackBound`),
  which cases are done (`CasesDone`), whom the engine works for (`EngineBound`), where a directory may be left (`SourceBound`), which case directories were changed after
  they were written (`ChangesBound`), what the
  evidence files hold or were changed to since they were scanned (`UnsignedBound`, `ScanBound`, `SumsBound`).
* `RevealIsOfTheRun`: a final run is no longer written by the runner, so what the curator has captured and compared stays what it was (`CuratorInv`);
  that a revealed case ran on the signed version has the exception of `ExecutesAsSigned`.

`SequentialProofs`, about the fuzzer's search, the minimizer and the verdict:

* `SearchesAreSound`: `Spec => []SearchIsSound`, for sequences of any length. By induction on the actions (`Executions`; `Upwards` is the
  rule of induction, from the well-foundedness of `<`). `Together` says that what the wrapper retains is what SQLite calls, under an id no earlier event
  has; `Audited` that, as long as the harness goes on, the audit knows that the retained callback borrows and that its borrow has ended (it may also
  think so when it is not: the audit is on the safe side only); `Staged` that a borrow, its end and the finding have come from actions in that order.
  `Changes` is what one action may do to these, proved operation by operation.
* `MinimizedAreWitnesses`: `Spec => []MinimizedIsWitness`. The replacements are not followed by removals in the code, so that the result is 1-minimal
  needs a proof about the evaluator (`ReplacedIsMinimal`): a statement that calls nothing could have been removed (`IdleStatementGoes`, as it changes
  nothing or, refused, ends what happens), so none is left and none is put in; two that call the callback are applied alike (`SameCourse`).
* `MinimizerCorrect`, for every evaluator that answers the same for the same sequence: the sequence reproduces the target at all times and never
  grows, and the removals leave nothing that could go alone. `TriedInVain` is the invariant of a round: no action before the index could go.
* `CompatibleHasAReason`, `GuardNeedsForeignEvidence`, `IncompatibleIsGrounded`, for every contract, foreign fact and subject. They are about
  the operators, by cases; what the reasons are worth is what the run `foreign` shows.

`HandOffProofs`, about the analyses of a hand-off:

* `EveryPathIsFound`: `Spec => []EveryPathIsEvery`, for functions of any size. With A the blocks from which the function returns without x, found layer by
  layer backwards from the exits: a round of `path_info` never takes x out of the map of a block that is not in A (`PassSound`), and what is in the k-th
  layer has lost x after k rounds, however the blocks are numbered (`PassShows`); there are no more layers than blocks (`Closes`: a set of n things grows n times
  at most). A and what is reached without x are each other's complement (`EveryPath`).
* `LineageIsSound`: `Spec => []LineageIsRight`, for crates of any size. The functions above a hand-off and those reached from the entries are both least closed
  sets, and the complement of the one is closed under the other's calls as far as the graph is complete (`LineageMeets`).

* `OriginsAreSound`: `Spec => []OriginsAreRight`, what `FunctionFlow` says of registers against what they hold, for blocks of any length and any number of
  blocks. The maps of `solve` are read while they are filled, so nothing is said of them round by round. `Claimed` is the least relation of names and claims
  (null, a parameter, a pointer to a slot) that holds of parameters, globals and fields and is carried on by casts and by loads from spills. The proof has
  three parts. (1) What is written stays well typed and assigns a name once (`TextInv`). (2) Whatever `solve` has put in its maps at any moment is claimed
  (`Within`: `TransferWithin` for an instruction, `RoundWithin`, `SolveWithin`). (3) While a call runs, all that is claimed of a register with a defined value
  is so (`RunInv`). For this to be inductive it has to be known that the address of a spill is in one register only and has not got to unknown code
  (`RegisterOk`, `SpillOk`: that is what `find_spill_allocas` sees to), so that only the one store to it changes what is there; a load from it before that
  store finds what is undefined. One lemma for each kind of instruction (`RunAlloca` to `RunReturn`) shows that a step keeps this.

* `NothingIsRetained`: `Spec => []NoRetainIsSound`, the answer of Q1 against a run. `OriginsAreSound` says that what `solve` knows is so; this one needs
  that it knows enough, for a use of a parameter under a name `trace_param` does not count among its aliases is not looked at. `AliasesAreAll`: every name
  that is claimed to be a parameter is an alias. Casts and loads from spills span a search over the instructions; the rounds of `solve`, in the order of the
  text, are never more than one step of that search behind (`RoundShows`, `SolveShows`), and there are as many rounds as instructions, and one more, whatever
  order the blocks are in. So every use of a parameter that is not counted is one that is seen through (`Careful`: it is stored in a spill, or in a slot of the
  analysis by a pointer to the caller's object, loaded from, cast, compared, or called). The invariant is where the callback and its user data are meanwhile
  (`Tracked`): in registers that are claimed to be them, or to be read from a slot, in spills of such a register, and in those slots, and with no unknown code.
  It rests on `RunInv`, for unknown code must not get the address of a spill, nor may a load that is not from a spill find one; the return drops the spills
  (`KeepInv`). Where nothing is retained there are no slots, and nothing is left.

* `CompatibleMeansSafe`: `Spec => []CompatibleIsSafe`, what a verdict is worth. Three invariants meet where a subject ends while the
  foreign side keeps something (`EndExcused`); `End` records what the guard was then. `VerdictInv` says what a verdict that says compatible rests on, in terms of the component itself
  (`Grounds`): nothing is retained; or the bound is `'static` and nothing that is borrowed ends; or the allocation is foreign and the hand-off does not take it back;
  or all slots are cleared and the type of the guard ties them to the subject. It is proved from what `judge`, the assembly of the contract and each fact of the driver
  say (`JudgeSays`, `StaticSays`, `ForeignSays`, `GuardSays`; `SynchronousSays` shows that the answer `synchronous_only` is never without `no_retain`). `KeepInv`, above, is
  stated for any slots: as long as nothing is lost sight of (`Watchful`), the callback and its user data are in registers and spills that are known to hold
  them and, beyond the call, in the slots of the analysis only; with no slots that is `NothingIsRetained`. `ClearInv` is about the call the drop of the guard makes:
  for each slot, either neither the callback nor its user data is in it any more, or a store to it, in the caller's object, is still to come on every way to the exit
  (`Wiped`, `IsAhead`, by `Without` and so by `EveryPath`; `AheadMoves` shows that no step gets past it). What is stored cannot be one of the two: the clear entry
  gets null, and what it reads from a slot it stores nowhere (`LosesSight`). So all slots are wiped when it returns (`ClearStep`); the guard has then
  been dropped and nothing is kept, so an end is not late. While the guard is held, what is borrowed does not end, and the end of the allocation is one `UnseenInCrate` names, as
  is any after the guard was forgotten. In the other cases of `Grounds` the end itself is out of the question, but for what `UnseenInCrate` names.

The first two are for functions and crates of any size. The other three are for texts over the names the model has: eight that can be assigned, the parameters, three
globals, one field. All assume `HandOffAssumption`: a function has a block, what it begins with is well typed and assigns a name once, a block is left to one
there is, a crate has a first function, calls in it go to functions of the crate, an allocation is given or taken back in one of the three ways there are, and a
parameter is either a type parameter or a trait object. TLC evaluates it for every scenario of the run `foreign`.

Proofs that did not go through showed five errors, out of the reach of the bounds of the runs: `RevealedAsRun` was false of a witness copied
from a file that others had changed before the receipt was signed (`ChangedUnsigned` in `BlindReveal` now names it), `EndedByOwnOwner` counted captures that are owned and not borrowed;
`Apply` was a `CASE` whose guards overlapped, so that TLC's choice of the first and not the definition said what a harness does after a refusal; and so were
`UseOf`, `EvidenceOf`, `Phase` and `Outcome`, where the code has a match or a chain of conditions and the first one counts: the guards exclude each other now;
and `CompatibleIsSafe` did not except that what is read from a slot is given away by other means than a store (`LosesSight`; the scenario `used` reaches it).

The layout is the same for each: one lemma per kind of effect an action has on a table
(what the table, or the call and the log, look like afterwards), one step per action, and a final step
that combines them with the temporal rule.

Every invariant the passing runs check is now a theorem, for every value of the constants. Only model-checked is liveness (`KeepsPromise` in full: the fairness
and `ENABLED` in it are beyond the provers; `ImplementsChildCall` proves its safety part).

## Not modelled, and why

* Text: formats, messages, signatures, JSON, TOML, LLVM text. The order, numbers and presence of events are what is modelled, and
  instructions by what the reader makes of them.
* Id counters and address epochs (a `fetch_add` or a map entry under a mutex).
* A sink built on a directory that already holds a trace: every replay has a directory of its own.
* Reuse of process ids, errors of `wait` and `kill` on a process that exists.
* Power loss: segments are synced before they are listed, the directory is not.
* `index_foreign_facts`: of two foreign facts with one symbol the later one is kept; `HandOff` has one.
* Packing, archiving and installing of the blind experiment, and parsing of its documents: by their results (signed receipts, versions).
* Campaign counters, baselines, comparison and rollup: counting over finished executions, without a state another part depends on.
* Lifecycle candidates (`lifecycle.rs`, `lifecycle_v326.rs`, 10k lines) and the evidence extraction that feeds them: tables of source
  tokens and string-keyed matching, sequential and without state; a model would be a transcript of the tables.
* The rest of the compiler driver (`compiler/bw-rustc`, about 30k lines): configuration, domain tables, rules about OpenSSL and collections, closures
  and lifecycle facts. They are a translation from rustc's MIR, case by case, without state; what they claim is about MIR, the language of
  another program. The facts a hand-off is judged by are modelled (`CrateFacts`), on signatures and calls as rustc resolves them.
* `bw-cli`, adapters, schemas, benchmarks: files in, files out, around the components above.

## Plan

Done: the dynamic side (`Oracle` to `RunDirectory`), the readers of a trace and their composition, the D0 runner, the blind experiment,
the fuzz search, the foreign analysis and the hand-off facts of the driver with the verdict made of them, and the proofs above. Left, in this order: packing and installing of the blind pack, composed with `BlindRunner`; the grouping of lifecycle
candidates as a relation.
