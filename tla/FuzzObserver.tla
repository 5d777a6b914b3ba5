---------------------------- MODULE FuzzObserver ----------------------------
(***************************************************************************)
(* ContractStateObserver of crates/bw-fuzz-observer: the fuzzer's feedback *)
(* reads the same trace as the oracle with tables of its own, and marks    *)
(* which lifecycle situations an execution reached.  It rejects nothing:   *)
(* what it does not know it ignores, and an instance it sees again simply  *)
(* replaces the entry it had.                                              *)
(*                                                                         *)
(* Events are records [kind, object, callback]; `n' is the record id.      *)
(***************************************************************************)
EXTENDS Naturals, FiniteSets

CONSTANTS Objects, Owners, Callbacks, CaptureFact

VARIABLES
    life,      \* of objects: absent, live, ended or freed
    callback,  \* of callbacks: whether retained, and their owner
    capture,   \* of (callback, object) pairs: absent, active or ended
    snapshot   \* of each feedback state: its first event and its count

obsVars == <<life, callback, capture, snapshot>>

FeedbackStates == {"borrowed_retained", "borrow_ended_retained", "invoked_after_end",
                   "released_before_end", "closed_owner_with_retained_callback"}

Init ==
    /\ life = [o \in Objects |-> "absent"]
    /\ callback = [c \in Callbacks |-> [state |-> "absent", owner |-> {}]]
    /\ capture = [c \in Callbacks |-> [o \in Objects |-> "absent"]]
    /\ snapshot = [s \in FeedbackStates |-> [first |-> 0, count |-> 0]]

Retained(c) == callback[c].state = "retained"
Borrowed(c, o) == CaptureFact[c][o] = "borrowed"
Held(c, state) == {o \in Objects : Borrowed(c, o) /\ capture[c][o] = state}

\* FeedbackStateSnapshot::record, called hits[s] times for each state s.
Record(hits, n) ==
    snapshot' = [s \in FeedbackStates |->
        [first |-> IF snapshot[s].first = 0 /\ hits[s] > 0 THEN n ELSE snapshot[s].first,
         count |-> snapshot[s].count + hits[s]]]

\* One state is recorded once, if the condition holds.
RecordIf(state, cond, n) ==
    Record([s \in FeedbackStates |-> IF s = state /\ cond THEN 1 ELSE 0], n)

ObjectCreate(o) ==
    /\ life' = [life EXCEPT ![o] = "live"]
    /\ UNCHANGED <<callback, capture, snapshot>>

CallbackRegister(c, w) ==
    /\ callback' = [callback EXCEPT ![c] = [state |-> "retained", owner |-> {w}]]
    /\ UNCHANGED <<life, capture, snapshot>>

CaptureBind(c, o, n) ==
    /\ CaptureFact[c][o] \in {"borrowed", "owned"}
    /\ capture' = [capture EXCEPT ![c][o] = "active"]
    /\ RecordIf("borrowed_retained", Borrowed(c, o) /\ Retained(c), n)
    /\ UNCHANGED <<life, callback>>

CallbackUnregister(c, n) ==
    /\ RecordIf("released_before_end",
                Retained(c) /\ \E o \in Held(c, "active") : life[o] = "live", n)
    /\ callback' = [callback EXCEPT ![c].state = IF @ = "absent" THEN "absent" ELSE "released"]
    /\ UNCHANGED <<life, capture>>

CallbackInvoke(c, n) ==
    /\ RecordIf("invoked_after_end", Retained(c) /\ Held(c, "ended") # {}, n)
    /\ UNCHANGED <<life, callback, capture>>

\* Mutant: the owner releases its callbacks before the borrows of it end.
EndObjectReleasesFirst(o, how, n) ==
    LET ending == {c \in Callbacks : Borrowed(c, o) /\ capture[c][o] = "active"}
        kept   == {c \in Callbacks : Retained(c) /\ o \in callback[c].owner}
    IN /\ life[o] # "absent"
       /\ life' = [life EXCEPT ![o] = how]
       /\ capture' = [c \in Callbacks |->
              IF c \in ending THEN [capture[c] EXCEPT ![o] = "ended"] ELSE capture[c]]
       /\ Record([s \in FeedbackStates |->
              CASE s = "borrow_ended_retained" -> Cardinality({c \in ending : Retained(c) /\ c \notin kept})
                [] s = "closed_owner_with_retained_callback" /\ o \in Owners /\ kept # {} -> 1
                [] OTHER -> 0], n)
       /\ callback' = [c \in Callbacks |->
              IF o \in Owners /\ o \in callback[c].owner
              THEN [callback[c] EXCEPT !.state = "released"] ELSE callback[c]]

\* end_object: whatever the lifecycle was, it is set again; the borrows of the
\* object end while the owner it may be still retains its callbacks; then the
\* owner closes, on a free as on a drop.
EndObject(o, how, n) ==
    LET ending == {c \in Callbacks : Borrowed(c, o) /\ capture[c][o] = "active"}
        kept   == {c \in Callbacks : Retained(c) /\ o \in callback[c].owner}
    IN /\ life[o] # "absent"
       /\ life' = [life EXCEPT ![o] = how]
       /\ capture' = [c \in Callbacks |->
              IF c \in ending THEN [capture[c] EXCEPT ![o] = "ended"] ELSE capture[c]]
       /\ Record([s \in FeedbackStates |->
              CASE s = "borrow_ended_retained" -> Cardinality({c \in ending : Retained(c)})
                [] s = "closed_owner_with_retained_callback" /\ o \in Owners /\ kept # {} -> 1
                [] OTHER -> 0], n)
       /\ callback' = [c \in Callbacks |->
              IF o \in Owners /\ o \in callback[c].owner
              THEN [callback[c] EXCEPT !.state = "released"] ELSE callback[c]]

\* An event of something unknown, or of no interest, changes nothing.
Ignored(e) ==
    \/ e.kind \in {"start", "marker", "use"}
    \/ e.kind = "bind" /\ CaptureFact[e.callback][e.object] \notin {"borrowed", "owned"}
    \/ e.kind \in {"drop", "free"} /\ life[e.object] = "absent"

\* ContractStateObserver::observe
Observe(e, n) ==
    \/ Ignored(e) /\ UNCHANGED obsVars
    \/ e.kind = "create" /\ ObjectCreate(e.object)
    \/ e.kind = "register" /\ CallbackRegister(e.callback, e.object)
    \/ e.kind = "bind" /\ CaptureBind(e.callback, e.object, n)
    \/ e.kind = "unregister" /\ CallbackUnregister(e.callback, n)
    \/ e.kind = "invoke" /\ CallbackInvoke(e.callback, n)
    \/ e.kind = "drop" /\ EndObject(e.object, "ended", n)
    \/ e.kind = "free" /\ EndObject(e.object, "freed", n)
=============================================================================
