------------------------------- MODULE Oracle -------------------------------
(***************************************************************************)
(* The lifecycle oracle of crates/bw-oracle: it reads one runtime trace,   *)
(* event by event, keeps four tables (objects, captures, callbacks,        *)
(* external owners) and reports findings.  Each action below is one call   *)
(* of Oracle::observe with one kind of event: context check, snapshots,    *)
(* reduce, rule evaluation, priority selection, finding creation.          *)
(*                                                                         *)
(* A record id is abstracted to the position of its event: `now' is the id *)
(* of the event being observed.  An event rejected before reduce changed a *)
(* table is a stuttering step, so its id is not consumed.  Sites are fixed *)
(* per instance (the trace validator enforces this), so the static facts   *)
(* are functions of instances.                                             *)
(***************************************************************************)
EXTENDS Naturals, FiniteSets, Sequences

CONSTANTS
    Objects,      \* object instances
    Owners,       \* those created with ObjectKind::ExternalOwner
    Callbacks,    \* callback instances
    Apis,         \* api ids that events may name
    ApiRoles,     \* the roles the contract maps each api id to
    Clauses,      \* clause kinds the contract holds exactly once
    CaptureFact,  \* what the static facts say of a (callback, object) pair
    KnownObjects, \* objects whose site has an ObjectSite fact
    Runs, Builds, \* run ids and build ids that events may carry
    StaticBuild,  \* the build of the static facts, NoBuild if there are none
    NoRun, NoBuild, NoCallback, NoOwner,
    MaxEvents     \* bound on the number of events that are not rejected

Roles == {"register", "unregister", "invoke"}
ClauseKinds == {"release_on_owner_drop", "borrow_must_outlive_retention",
                "no_use_after_lifetime_end", "free_at_most_once"}
Modes == {"borrowed", "owned"}

ASSUME OracleAssumption ==
    /\ Owners \subseteq Objects
    /\ ApiRoles \in [Apis -> SUBSET Roles]
    /\ Clauses \subseteq ClauseKinds
    /\ CaptureFact \in [Callbacks -> [Objects -> Modes \cup {"missing", "ambiguous"}]]
    /\ KnownObjects \subseteq Objects
    /\ NoRun \notin Runs
    /\ NoBuild \notin Builds
    /\ NoCallback \notin Callbacks
    /\ NoOwner \notin Owners
    /\ StaticBuild \in Builds \cup {NoBuild}
    /\ MaxEvents \in Nat

\* The build id of the index is that of its facts: no build id, no facts.
ASSUME StaticBuildAssumption ==
    StaticBuild = NoBuild =>
        /\ KnownObjects = {}
        /\ \A c \in Callbacks, o \in Objects : CaptureFact[c][o] = "missing"

VARIABLES
    run, build,   \* current_run and current_build
    objects, captures, callbacks, owners,
    findings,     \* every finding made so far
    observed,     \* observed_events
    clock         \* record id of the last event that was not rejected

tables == <<objects, captures, callbacks, owners>>
vars == <<run, build, objects, captures, callbacks, owners, findings, observed, clock>>

now == clock + 1

\* Mutant: insert instead of get_or_insert_with.
FirstRecordOverwritten(record) == now

\* Option::get_or_insert_with(now)
FirstRecord(record) == IF record = 0 THEN now ELSE record

-----------------------------------------------------------------------------
(* The tables.  0 stands for an absent record id (Option::None), the       *)
(* lifecycle "absent" for an instance with no entry.                       *)

NoObject   == [life |-> "absent", created |-> 0, end |-> 0, free |-> 0]
NoCapture  == [life |-> "absent", mode |-> "owned", bind |-> 0, end |-> 0]
NoEntry    == [life |-> "absent", owner |-> NoOwner, register |-> 0, release |-> 0]
NoOwnerRow == [life |-> "absent", close |-> 0]

ObjectState   == [life : {"absent", "live", "ended", "freed"},
                  created : Nat, end : Nat, free : Nat]
CaptureState  == [life : {"absent", "active", "ended"}, mode : Modes,
                  bind : Nat, end : Nat]
CallbackState == [life : {"absent", "retained", "released"},
                  owner : Owners \cup {NoOwner}, register : Nat, release : Nat]
OwnerState    == [life : {"absent", "open", "closed"}, close : Nat]

Exists(o)     == objects[o].life # "absent"
Opened(o)     == o \in Owners /\ owners[o].life # "absent"
Registered(c) == callbacks[c].life # "absent"
Bound(c, o)   == captures[c][o].life # "absent"

Init ==
    /\ run = NoRun
    /\ build = NoBuild
    /\ objects = [o \in Objects |-> NoObject]
    /\ captures = [c \in Callbacks |-> [o \in Objects |-> NoCapture]]
    /\ callbacks = [c \in Callbacks |-> NoEntry]
    /\ owners = [w \in Owners |-> NoOwnerRow]
    /\ findings = {}
    /\ observed = 0
    /\ clock = 0

-----------------------------------------------------------------------------
(* Rules.  A finding holds its rule, its subject and the runtime records   *)
(* its evidence cites, by role: the bind of the capture, the registration  *)
(* of the callback, the event that ended the object or the borrow (the     *)
(* first free for FREE-001), and the observed event itself.                *)

RuleIds == {"LIFE-001", "LIFE-002", "LIFE-003", "FREE-001"}

Finding == [rule : RuleIds, object : Objects, callback : Callbacks \cup {NoCallback},
            bind : Nat, register : Nat, end : Nat, at : Nat,
            build : Builds \cup {NoBuild}]

Priority == [r \in RuleIds |-> CASE r = "LIFE-001" -> 400
                                 [] r = "LIFE-002" -> 300
                                 [] r = "FREE-001" -> 200
                                 [] r = "LIFE-003" -> 100]

FindingOf(r, o, c, b, reg, e) ==
    [rule |-> r, object |-> o, callback |-> c,
     bind |-> b, register |-> reg, end |-> e, at |-> now, build |-> build]

\* Rules read the tables after reduce (primed) and, for "before", unprimed.
UseCandidates(o) ==
    IF objects[o].life = "live" THEN {}
    ELSE {FindingOf("LIFE-001", o, NoCallback, 0, 0, objects[o].end)}

Dangling(c) == {o \in Objects : captures[c][o].mode = "borrowed" /\ captures[c][o].life = "ended"}

InvokeCandidates(c) ==
    {FindingOf("LIFE-002", o, c, captures[c][o].bind, 0, captures[c][o].end) : o \in Dangling(c)}

\* Mutant: no look at the state before the event.
ExposedAgain(o) == {c \in Callbacks : /\ captures'[c][o].mode = "borrowed"
                                      /\ captures'[c][o].life = "ended"
                                      /\ callbacks'[c].life = "retained"}

Exposed(o) == {c \in Callbacks : /\ captures'[c][o].mode = "borrowed"
                                 /\ captures'[c][o].life = "ended"
                                 /\ callbacks'[c].life = "retained"
                                 /\ captures[c][o].life = "active"}

EndCandidates(o) ==
    {FindingOf("LIFE-003", o, c, captures'[c][o].bind, callbacks'[c].register, now) : c \in Exposed(o)}

\* Mutant: the state after the event instead of the one before it.
RefreeCandidatesAfter(o) ==
    IF objects'[o].life # "freed" THEN {}
    ELSE {FindingOf("FREE-001", o, NoCallback, 0, 0, objects'[o].free)}

RefreeCandidates(o) ==
    IF objects[o].life # "freed" THEN {}
    ELSE {FindingOf("FREE-001", o, NoCallback, 0, 0, objects[o].free)}

\* select_highest_priority: one candidate per subject, the first of the
\* highest priority.
Select(cands) ==
    {f \in cands : ~\E g \in cands : /\ g.object = f.object
                                     /\ g.callback = f.callback
                                     /\ Priority[g.rule] > Priority[f.rule]}

-----------------------------------------------------------------------------
(* observe: how one call ends. *)

\* Some step before any table changed returned Err.
Rejected == UNCHANGED vars

\* The event was reduced; then rule evaluation succeeded or returned Err.
Reduced(ok, cands) ==
    /\ clock < MaxEvents
    /\ clock' = now
    /\ observed' = IF ok THEN observed + 1 ELSE observed
    /\ findings' = IF ok THEN findings \cup Select(cands) ELSE findings

HasRole(api, role) == role \in ApiRoles[api]

InContext == run # NoRun

\* verify_event_context on trace_start: a second one of the same run is
\* accepted, one of another run or of another build than the facts is not.
TraceStart(r, b) ==
    IF \/ StaticBuild # NoBuild /\ b # StaticBuild
       \/ run # NoRun /\ r # run
    THEN Rejected
    ELSE /\ run' = r
         /\ build' = b
         /\ Reduced(TRUE, {})
         /\ UNCHANGED tables

\* verify_event_context on any other event: no run yet, or not this run.
OutOfContext(r) == (~InContext \/ r # run) /\ Rejected

\* Checkpoint and trace_end are counted and change nothing.
Marker ==
    /\ InContext
    /\ Reduced(TRUE, {})
    /\ UNCHANGED <<run, build, objects, captures, callbacks, owners>>

ObjectCreate(o) ==
    /\ InContext
    /\ IF Exists(o) THEN Rejected
       ELSE /\ objects' = [objects EXCEPT ![o] = 
                    [life |-> "live", created |-> now, end |-> 0, free |-> 0]]
            /\ owners' = IF o \in Owners
                         THEN [owners EXCEPT ![o] = [life |-> "open", close |-> 0]]
                         ELSE owners
            /\ Reduced(TRUE, {})
            /\ UNCHANGED <<run, build, captures, callbacks>>

\* Mutant: the owner is not looked up.
CallbackRegisterAnyOwner(c, w, api) ==
    /\ InContext
    /\ IF ~HasRole(api, "register") \/ Registered(c)
       THEN Rejected
       ELSE /\ callbacks' = [callbacks EXCEPT ![c] =
                    [life |-> "retained", owner |-> w, register |-> now, release |-> 0]]
            /\ Reduced(TRUE, {})
            /\ UNCHANGED <<run, build, objects, captures, owners>>

\* The owner only has to have an entry: a closed owner is accepted.
CallbackRegister(c, w, api) ==
    /\ InContext
    /\ IF ~HasRole(api, "register") \/ ~Opened(w) \/ Registered(c)
       THEN Rejected
       ELSE /\ callbacks' = [callbacks EXCEPT ![c] =
                    [life |-> "retained", owner |-> w, register |-> now, release |-> 0]]
            /\ Reduced(TRUE, {})
            /\ UNCHANGED <<run, build, objects, captures, owners>>

\* Neither lifecycle is looked at: an ended object may be bound, and so may a
\* released callback.
CaptureBind(c, o) ==
    /\ InContext
    /\ IF ~Registered(c) \/ ~Exists(o) \/ CaptureFact[c][o] \notin Modes \/ Bound(c, o)
       THEN Rejected
       ELSE /\ captures' = [captures EXCEPT ![c][o] =
                    [life |-> "active", mode |-> CaptureFact[c][o], bind |-> now, end |-> 0]]
            /\ Reduced(TRUE, {})
            /\ UNCHANGED <<run, build, objects, callbacks, owners>>

CallbackUnregister(c, w, api) ==
    /\ InContext
    /\ IF ~HasRole(api, "unregister") \/ ~Registered(c) \/ callbacks[c].owner # w
       THEN Rejected
       ELSE /\ callbacks' = [callbacks EXCEPT ![c].life = "released", ![c].release = now]
            /\ Reduced(TRUE, {})
            /\ UNCHANGED <<run, build, objects, captures, owners>>

\* Nothing is reduced; a missing clause makes the rule fail.
CallbackInvoke(c, api) ==
    /\ InContext
    /\ IF \/ ~HasRole(api, "invoke")
          \/ ~Registered(c)
          \/ "borrow_must_outlive_retention" \notin Clauses
       THEN Rejected
       ELSE /\ Reduced(TRUE, InvokeCandidates(c))
            /\ UNCHANGED <<run, build, objects, captures, callbacks, owners>>

ObjectUse(o) ==
    /\ InContext
    /\ IF \/ ~Exists(o)
          \/ /\ objects[o].life # "live"
             /\ o \notin KnownObjects \/ "no_use_after_lifetime_end" \notin Clauses
       THEN Rejected
       ELSE /\ Reduced(TRUE, UseCandidates(o))
            /\ UNCHANGED <<run, build, objects, captures, callbacks, owners>>

\* Mutant: borrows that have ended end again.
EndBorrowedAgain(o) ==
    captures' = [c \in Callbacks |-> [x \in Objects |->
        IF x = o /\ captures[c][x].mode = "borrowed" /\ captures[c][x].life # "absent"
        THEN [captures[c][x] EXCEPT !.life = "ended", !.end = now]
        ELSE captures[c][x]]]

\* end_borrowed_captures
EndBorrowed(o) ==
    captures' = [c \in Callbacks |-> [x \in Objects |->
        IF x = o /\ captures[c][x].mode = "borrowed" /\ captures[c][x].life = "active"
        THEN [captures[c][x] EXCEPT !.life = "ended", !.end = now]
        ELSE captures[c][x]]]

\* Mutant: the owner is closed and what it retains is forgotten.
CloseOwnerOnly(o) ==
    /\ owners' = [owners EXCEPT ![o] = [life |-> "closed", close |-> now]]
    /\ UNCHANGED callbacks

\* The close of an external owner, reached only when the contract says so.
CloseOwner(o) ==
    /\ owners' = [owners EXCEPT ![o] = [life |-> "closed", close |-> now]]
    /\ callbacks' = [c \in Callbacks |->
           IF callbacks[c].owner = o
           THEN [callbacks[c] EXCEPT !.life = "released", !.release = now]
           ELSE callbacks[c]]

\* Mutant: a drop after a free ends the object again.
ObjectDropFreed(o) ==
    /\ InContext
    /\ IF ~Exists(o) THEN Rejected
       ELSE /\ objects' = [objects EXCEPT ![o].life = "ended",
                                          ![o].end = FirstRecord(objects[o].end)]
            /\ EndBorrowed(o)
            /\ IF o \in Owners /\ "release_on_owner_drop" \in Clauses
               THEN CloseOwner(o)
               ELSE UNCHANGED <<owners, callbacks>>
            /\ Reduced(/\ o \in Owners => "release_on_owner_drop" \in Clauses
                       /\ "borrow_must_outlive_retention" \in Clauses,
                       EndCandidates(o))
            /\ UNCHANGED <<run, build>>

\* A missing release_on_owner_drop clause is found after the object and its
\* captures have ended: the call fails and those changes stay.
ObjectDrop(o) ==
    /\ InContext
    /\ IF ~Exists(o) THEN Rejected
       ELSE /\ objects' = IF objects[o].life = "freed" THEN objects
                          ELSE [objects EXCEPT ![o].life = "ended",
                                               ![o].end = FirstRecord(objects[o].end)]
            /\ EndBorrowed(o)
            /\ IF o \in Owners /\ "release_on_owner_drop" \in Clauses
               THEN CloseOwner(o)
               ELSE UNCHANGED <<owners, callbacks>>
            /\ Reduced(/\ o \in Owners => "release_on_owner_drop" \in Clauses
                       /\ "borrow_must_outlive_retention" \in Clauses,
                       EndCandidates(o))
            /\ UNCHANGED <<run, build>>

\* Mutant: a free leaves the borrows active.
ObjectFreeOnly(o) ==
    /\ InContext
    /\ IF ~Exists(o) THEN Rejected
       ELSE /\ IF objects[o].life = "freed"
               THEN UNCHANGED objects
               ELSE objects' = [objects EXCEPT ![o].life = "freed", ![o].end = now, ![o].free = now]
            /\ UNCHANGED <<run, build, captures, callbacks, owners>>
            /\ Reduced(/\ "borrow_must_outlive_retention" \in Clauses
                       /\ objects[o].life = "freed" =>
                              o \in KnownObjects /\ "free_at_most_once" \in Clauses,
                       EndCandidates(o) \cup RefreeCandidates(o))

\* The borrow-end rule runs first, the repeated-free rule second; either may
\* fail after the object has been marked.
ObjectFree(o) ==
    /\ InContext
    /\ IF ~Exists(o) THEN Rejected
       ELSE /\ IF objects[o].life = "freed"
               THEN UNCHANGED <<objects, captures>>
               ELSE /\ objects' = [objects EXCEPT ![o].life = "freed", ![o].end = now, ![o].free = now]
                    /\ EndBorrowed(o)
            /\ UNCHANGED <<run, build, callbacks, owners>>
            /\ Reduced(/\ "borrow_must_outlive_retention" \in Clauses
                       /\ objects[o].life = "freed" =>
                              o \in KnownObjects /\ "free_at_most_once" \in Clauses,
                       EndCandidates(o) \cup RefreeCandidates(o))

Next ==
    \/ \E r \in Runs, b \in Builds : TraceStart(r, b)
    \/ \E r \in Runs : OutOfContext(r)
    \/ Marker
    \/ \E o \in Objects : ObjectCreate(o)
    \/ \E c \in Callbacks, w \in Objects, api \in Apis : CallbackRegister(c, w, api)
    \/ \E c \in Callbacks, o \in Objects : CaptureBind(c, o)
    \/ \E c \in Callbacks, w \in Objects, api \in Apis : CallbackUnregister(c, w, api)
    \/ \E c \in Callbacks, api \in Apis : CallbackInvoke(c, api)
    \/ \E o \in Objects : ObjectUse(o)
    \/ \E o \in Objects : ObjectDrop(o)
    \/ \E o \in Objects : ObjectFree(o)

Spec == Init /\ [][Next]_vars

-----------------------------------------------------------------------------
(* Correctness. *)

TypeOK ==
    /\ run \in Runs \cup {NoRun}
    /\ build \in Builds \cup {NoBuild}
    /\ objects \in [Objects -> ObjectState]
    /\ captures \in [Callbacks -> [Objects -> CaptureState]]
    /\ callbacks \in [Callbacks -> CallbackState]
    /\ owners \in [Owners -> OwnerState]
    /\ findings \subseteq Finding
    /\ observed \in 0..clock
    /\ clock \in 0..MaxEvents

\* The record ids in the tables agree with the lifecycles and with time: an
\* object has an end exactly when it is over and a first free exactly when it
\* is freed; a borrow was bound after its callback was registered and ended
\* after it was bound, and only a borrowed capture ends.
ObjectRecords ==
    \A o \in Objects : LET r == objects[o] IN
        /\ r.end <= clock /\ r.free <= r.end
        /\ 0 < r.end <=> r.life \in {"ended", "freed"}
        /\ 0 < r.free <=> r.life = "freed"

CallbackRecords ==
    \A c \in Callbacks : LET r == callbacks[c] IN
        /\ r.register <= clock
        /\ 0 < r.register <=> r.life # "absent"
        /\ r.owner = NoOwner <=> r.life = "absent"

CaptureRecords ==
    \A c \in Callbacks, o \in Objects : LET r == captures[c][o] IN
        /\ r.bind <= clock /\ r.end <= clock
        /\ r.life = "absent" => r.bind = 0
        /\ r.life # "absent" => 0 < callbacks[c].register /\ callbacks[c].register < r.bind
        /\ r.life = "ended" => r.mode = "borrowed" /\ r.bind < r.end
        /\ r.life # "ended" => r.end = 0

OwnerRecords ==
    \A w \in Owners : owners[w].close <= clock /\ (0 < owners[w].close <=> owners[w].life = "closed")

RecordsOrdered == ObjectRecords /\ CallbackRecords /\ CaptureRecords /\ OwnerRecords

\* The evidence of a finding tells a story in time: the borrow was bound, then
\* ended, then the callback ran (LIFE-002); the callback was registered, the
\* borrow bound, then ended (LIFE-003); the object ended, then was used
\* (LIFE-001), or was freed, then freed again (FREE-001).
EvidenceOrdered ==
    \A f \in findings :
        /\ f.at <= clock
        /\ f.rule \in {"LIFE-001", "FREE-001"} => 0 < f.end /\ f.end < f.at
        /\ f.rule = "LIFE-002" => 0 < f.bind /\ f.bind < f.end /\ f.end < f.at
        /\ f.rule = "LIFE-003" => 0 < f.register /\ f.register < f.bind /\ f.bind < f.at

\* The records a finding cites stay the ones the tables hold: no later event
\* (a second drop, a free after a drop, an unregistration) rewrites the bind,
\* borrow-end, registration or first-free record behind an earlier finding.
EvidenceStable ==
    \A f \in findings :
        /\ f.rule \in {"LIFE-002", "LIFE-003"} =>
               /\ f.callback \in Callbacks
               /\ captures[f.callback][f.object].life = "ended"
               /\ captures[f.callback][f.object].bind = f.bind
               /\ captures[f.callback][f.object].end = f.end
        /\ f.rule = "LIFE-003" => callbacks[f.callback].register = f.register
        /\ f.rule = "LIFE-001" => f.end <= objects[f.object].end
        /\ f.rule = "FREE-001" => objects[f.object].free = f.end

\* A borrow never outlives what it borrows: a borrowed capture bound before the
\* recorded end of its object has ended, whichever mix of drops and frees got
\* the object there.
BorrowEndsWithObject ==
    \A c \in Callbacks, o \in Objects :
        /\ captures[c][o].life = "active"
        /\ captures[c][o].mode = "borrowed"
        => captures[c][o].bind > objects[o].end

\* A borrow that ends while its callback is retained is reported, once, however
\* often the object is dropped and freed afterwards; if the contract holds the
\* clauses the rule and the owner close depend on.
Reports(c, o) == {f \in findings : f.rule = "LIFE-003" /\ f.callback = c /\ f.object = o}
ExposureReportedOnce ==
    \A c \in Callbacks, o \in Objects :
        /\ Cardinality(Reports(c, o)) <= 1
        /\ (/\ captures[c][o].life = "ended"
            /\ callbacks[c].life = "retained"
            /\ "borrow_must_outlive_retention" \in Clauses
            /\ o \in Owners => "release_on_owner_drop" \in Clauses)
           => Reports(c, o) # {}

\* The close of an owner leaves no callback it retained before behind it.
ClosedOwnerReleased ==
    \A c \in Callbacks, w \in Owners :
        /\ owners[w].life = "closed"
        /\ callbacks[c].owner = w
        /\ callbacks[c].register < owners[w].close
        => callbacks[c].life = "released"

\* Lifecycles only move forward, past a failed call too: a release, a free, a
\* borrow end and a bind are final, and a finding is never withdrawn.
LifecycleStep ==
    /\ findings \subseteq findings'
    /\ \A o \in Objects : objects[o].life = "freed" => objects'[o] = objects[o]
    /\ \A o \in Objects : objects[o].life = "ended" => objects'[o].life \in {"ended", "freed"}
    /\ \A c \in Callbacks : callbacks[c].life = "released" => callbacks'[c].life = "released"
    /\ \A c \in Callbacks, o \in Objects :
           captures[c][o].life = "ended" => captures'[c][o] = captures[c][o]
    /\ \A w \in Owners : owners[w].life = "closed" => owners'[w].life = "closed"
LifecycleForward == [][LifecycleStep]_vars

\* contracts/callback-retention/contract.toml, owner-drop-releases: when an
\* external owner ends, the callbacks it retains are released.  The oracle does
\* so when the owner is dropped, and not when it is freed.
OwnerEndReleases ==
    \A c \in Callbacks, w \in Owners :
        /\ objects[w].life \in {"ended", "freed"}
        /\ callbacks[c].owner = w
        /\ callbacks[c].register < objects[w].end
        => callbacks[c].life = "released"
=============================================================================
