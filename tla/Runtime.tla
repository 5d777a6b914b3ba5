------------------------------ MODULE Runtime ------------------------------
(***************************************************************************)
(* The event runtime of crates/bw-runtime, linked into an instrumented     *)
(* program: threads share one RuntimeContext, register and release         *)
(* callback tokens, create, use and drop tracked objects, and every one of *)
(* these emits an event.  RuntimeContext::emit is not atomic: it takes a   *)
(* sequence number (envelope), then calls the sink under the sink's mutex, *)
(* then, if the sink refused the event, locks deferred_error;              *)
(* emit_deferred locks that once more after emit has returned.  The checks *)
(* of a CallbackToken and the emission they guard are separate too.  Each  *)
(* of these critical sections is one action of the calling thread.         *)
(*                                                                         *)
(* The sink is any EventSink: it keeps an event or refuses it.  JsonlSink  *)
(* models the one that writes files.                                       *)
(***************************************************************************)
EXTENDS Naturals, Sequences

CONSTANTS
    Threads,
    Tokens,       \* callback instances: next_callback_id never repeats one
    Objects,      \* tracked objects: next_object_id never repeats one
    SinkMayFail,  \* whether emit and flush of the sink may return Err
    MaxEvents,    \* bound on the sequence numbers taken
    MaxFinish,    \* bound on the calls of finish
    MaxCalls      \* bound on both together

ASSUME RuntimeAssumption ==
    /\ SinkMayFail \in BOOLEAN
    /\ MaxEvents \in Nat
    /\ MaxFinish \in Nat
    /\ MaxCalls \in Nat
    /\ Tokens \cap Objects = {}

VARIABLES
    next_event,  \* the shared counter of sequence numbers
    thread,      \* where each thread is in the call it makes
    token,       \* state of each CallbackToken
    object,      \* state of each Tracked value
    deferred,    \* sequence number of the event whose error is deferred, 0 for None
    log,         \* calls of sink.emit and returns of finish, in order
    finishes     \* calls of finish so far

vars == <<next_event, thread, token, object, deferred, log, finishes>>

TokenKinds  == {"register", "bind", "invoke", "unregister"}
ObjectKinds == {"create", "use", "drop"}
Kinds == TokenKinds \cup ObjectKinds \cup {"marker", "end"}
Instances == Tokens \cup Objects \cup {"none"}

\* A call: what it emits, of which instance, and the count a trace_end holds.
Idle == [at |-> "idle", kind |-> "marker", of |-> "none", seq |-> 0, count |-> 0]

\* Mutant: the counter starts at 0.
InitFromZero ==
    /\ next_event = 0
    /\ thread = [t \in Threads |-> Idle]
    /\ token = [c \in Tokens |-> "fresh"]
    /\ object = [o \in Objects |-> "fresh"]
    /\ deferred = 0
    /\ log = <<>>
    /\ finishes = 0

Init ==
    /\ next_event = 1
    /\ thread = [t \in Threads |-> Idle]
    /\ token = [c \in Tokens |-> "fresh"]
    /\ object = [o \in Objects |-> "fresh"]
    /\ deferred = 0
    /\ log = <<>>
    /\ finishes = 0

-----------------------------------------------------------------------------
(* Calls.  One that checks nothing under a lock starts by taking its       *)
(* number (envelope: fetch_add on next_event); the others take it in a     *)
(* later step, TakeSeq.                                                    *)

IsIdle(t) == thread[t].at = "idle"

WithinBounds == next_event - 1 + finishes < MaxCalls

\* Mutant: a number that a trace_end has counted is not taken.
NumberLoaded(t, kind, of, count) ==
    /\ next_event <= MaxEvents /\ WithinBounds
    /\ next_event' = next_event + (IF kind = "end" THEN 0 ELSE 1)
    /\ thread' = [thread EXCEPT ![t] =
           [at |-> "sending", kind |-> kind, of |-> of, seq |-> next_event, count |-> count]]

Number(t, kind, of, count) ==
    /\ next_event <= MaxEvents /\ WithinBounds
    /\ next_event' = next_event + 1
    /\ thread' = [thread EXCEPT ![t] =
           [at |-> "sending", kind |-> kind, of |-> of, seq |-> next_event, count |-> count]]

Check(t, kind, of, count) ==
    /\ next_event <= MaxEvents /\ WithinBounds
    /\ thread' = [thread EXCEPT ![t] =
           [at |-> "checked", kind |-> kind, of |-> of, seq |-> 0, count |-> count]]
    /\ UNCHANGED next_event

\* CallbackToken::register: the token exists once its event is in the sink.
Register(t, c) ==
    /\ IsIdle(t) /\ token[c] = "fresh"
    /\ token' = [token EXCEPT ![c] = "registering"]
    /\ Number(t, "register", c, 0)
    /\ UNCHANGED <<object, deferred, log, finishes>>

\* bind_object and invoke: require_retained, in a critical section of its own.
\* On a released token they return Err and emit nothing.
RetainedCall(t, c, kind) ==
    /\ IsIdle(t) /\ token[c] = "retained"
    /\ Check(t, kind, c, 0)
    /\ UNCHANGED <<token, object, deferred, log, finishes>>

\* Mutant: the token is tested and not set.
ReleaseTested(t, c) ==
    /\ IsIdle(t) /\ token[c] = "retained"
    /\ Check(t, "unregister", c, 0)
    /\ UNCHANGED <<token, object, deferred, log, finishes>>

\* release_with_reason: test and set in one critical section, then emit.
\* On a released token it returns Ok and emits nothing.
Release(t, c) ==
    /\ IsIdle(t) /\ token[c] = "retained"
    /\ token' = [token EXCEPT ![c] = "released"]
    /\ Check(t, "unregister", c, 0)
    /\ UNCHANGED <<object, deferred, log, finishes>>

\* Tracked::new
Create(t, o) ==
    /\ IsIdle(t) /\ object[o] = "fresh"
    /\ object' = [object EXCEPT ![o] = "creating"]
    /\ Number(t, "create", o, 0)
    /\ UNCHANGED <<token, deferred, log, finishes>>

\* Tracked::get and get_mut
Use(t, o) ==
    /\ IsIdle(t) /\ object[o] = "alive"
    /\ Number(t, "use", o, 0)
    /\ UNCHANGED <<token, object, deferred, log, finishes>>

\* Drop for Tracked: the borrow rules keep it after every get.
DropObject(t, o) ==
    /\ IsIdle(t) /\ object[o] = "alive"
    /\ \A u \in Threads : thread[u].of # o
    /\ object' = [object EXCEPT ![o] = "dropped"]
    /\ Number(t, "drop", o, 0)
    /\ UNCHANGED <<token, deferred, log, finishes>>

\* emit_trace_start and emit_checkpoint
Mark(t) ==
    /\ IsIdle(t)
    /\ Number(t, "marker", "none", 0)
    /\ UNCHANGED <<token, object, deferred, log, finishes>>

\* emit_trace_end reads the counter before emit takes its number from it.
TraceEnd(t) ==
    /\ IsIdle(t)
    /\ Check(t, "end", "none", next_event - 1)
    /\ UNCHANGED <<token, object, deferred, log, finishes>>

-----------------------------------------------------------------------------
(* RuntimeContext::emit *)

TakeSeq(t) ==
    /\ thread[t].at = "checked"
    /\ Number(t, thread[t].kind, thread[t].of, thread[t].count)
    /\ UNCHANGED <<token, object, deferred, log, finishes>>

Entry(t, ok) == [kind |-> thread[t].kind, of |-> thread[t].of,
                 seq |-> thread[t].seq, count |-> thread[t].count, ok |-> ok]

\* Mutant: register, like Tracked::new, keeps its token when emit fails.
ReturnKept(t, ok) ==
    /\ token' = [c \in Tokens |->
           IF thread[t].kind = "register" /\ thread[t].of = c THEN "retained" ELSE token[c]]
    /\ object' = [o \in Objects |->
           IF thread[t].kind = "create" /\ thread[t].of = o THEN "alive" ELSE object[o]]

\* What the caller does once emit has returned: register keeps the token only
\* on Ok; Tracked::new, which defers its error, has its object either way.
Return(t, ok) ==
    /\ token' = [c \in Tokens |->
           IF thread[t].kind = "register" /\ thread[t].of = c
           THEN IF ok THEN "retained" ELSE "lost"
           ELSE token[c]]
    /\ object' = [o \in Objects |->
           IF thread[t].kind = "create" /\ thread[t].of = o THEN "alive" ELSE object[o]]

\* sink.emit returns Ok.
Deliver(t) ==
    /\ thread[t].at = "sending"
    /\ log' = Append(log, Entry(t, TRUE))
    /\ Return(t, TRUE)
    /\ thread' = [thread EXCEPT ![t] = Idle]
    /\ UNCHANGED <<next_event, deferred, finishes>>

\* sink.emit returns Err.
Refuse(t) ==
    /\ SinkMayFail /\ thread[t].at = "sending"
    /\ log' = Append(log, Entry(t, FALSE))
    /\ thread' = [thread EXCEPT ![t].at = "failed"]
    /\ UNCHANGED <<next_event, token, object, deferred, finishes>>

\* defer_error: the first error is kept.
DeferError(t) == deferred' = IF deferred = 0 THEN thread[t].seq ELSE deferred

Done(t) == Return(t, FALSE) /\ thread' = [thread EXCEPT ![t] = Idle]

\* emit defers the error and returns it: to the calls of a token, or to
\* emit_deferred, through which a tracked object emits all of its events.
Defer(t) ==
    /\ thread[t].at = "failed"
    /\ DeferError(t)
    /\ IF thread[t].kind \in ObjectKinds
       THEN thread' = [thread EXCEPT ![t].at = "returned"] /\ UNCHANGED <<token, object>>
       ELSE Done(t)
    /\ UNCHANGED <<next_event, log, finishes>>

\* emit_deferred defers the error it was returned, which a finish may have taken
\* since emit deferred it.
DeferAgain(t) ==
    /\ thread[t].at = "returned"
    /\ DeferError(t)
    /\ Done(t)
    /\ UNCHANGED <<next_event, log, finishes>>

-----------------------------------------------------------------------------
(* RuntimeContext::finish: flush the sink, then take the deferred error. *)

Flush(t, ok) ==
    /\ IsIdle(t) /\ finishes < MaxFinish /\ WithinBounds
    /\ ok \/ SinkMayFail
    /\ finishes' = finishes + 1
    /\ thread' = [thread EXCEPT ![t].at = IF ok THEN "flushed" ELSE "flush_failed"]
    /\ UNCHANGED <<next_event, token, object, deferred, log>>

\* Mutant: the deferred error is taken and the result of the flush returned.
FinishFlushResult(t) ==
    /\ thread[t].at \in {"flushed", "flush_failed"}
    /\ log' = Append(log, [kind |-> "finish", of |-> "none", seq |-> 0,
                           count |-> 0, ok |-> thread[t].at = "flushed"])
    /\ deferred' = 0
    /\ thread' = [thread EXCEPT ![t] = Idle]
    /\ UNCHANGED <<next_event, token, object, finishes>>

\* Mutant: the deferred error is copied, not taken.
FinishCopies(t) ==
    /\ thread[t].at \in {"flushed", "flush_failed"}
    /\ log' = Append(log, [kind |-> "finish", of |-> "none", seq |-> deferred,
                           count |-> 0, ok |-> deferred = 0 /\ thread[t].at = "flushed"])
    /\ thread' = [thread EXCEPT ![t] = Idle]
    /\ UNCHANGED <<next_event, token, object, deferred, finishes>>

\* The deferred error goes before that of the flush.
Finish(t) ==
    /\ thread[t].at \in {"flushed", "flush_failed"}
    /\ log' = Append(log, [kind |-> "finish", of |-> "none", seq |-> deferred,
                           count |-> 0, ok |-> deferred = 0 /\ thread[t].at = "flushed"])
    /\ deferred' = 0
    /\ thread' = [thread EXCEPT ![t] = Idle]
    /\ UNCHANGED <<next_event, token, object, finishes>>

Call(t) ==
    \/ \E c \in Tokens : Register(t, c)
    \/ \E c \in Tokens : RetainedCall(t, c, "bind")
    \/ \E c \in Tokens : RetainedCall(t, c, "invoke")
    \/ \E c \in Tokens : Release(t, c)
    \/ \E o \in Objects : Create(t, o)
    \/ \E o \in Objects : Use(t, o)
    \/ \E o \in Objects : DropObject(t, o)
    \/ Mark(t)
    \/ TraceEnd(t)

Emit(t) == TakeSeq(t) \/ Deliver(t) \/ Refuse(t) \/ Defer(t) \/ DeferAgain(t)

Next == \E t \in Threads :
    \/ Call(t)
    \/ Emit(t)
    \/ \E ok \in BOOLEAN : Flush(t, ok)
    \/ Finish(t)

Spec == Init /\ [][Next]_vars

-----------------------------------------------------------------------------
(* Correctness. *)

CallState ==
    [at : {"idle", "checked", "sending", "failed", "returned", "flushed", "flush_failed"},
     kind : Kinds, of : Instances, seq : Nat, count : Nat]
LogEntry ==
    [kind : Kinds \cup {"finish"}, of : Instances,
     seq : Nat, count : Nat, ok : BOOLEAN]

TypeOK ==
    /\ next_event \in 1..(MaxEvents + 1)
    /\ thread \in [Threads -> CallState]
    /\ token \in [Tokens -> {"fresh", "registering", "retained", "released", "lost"}]
    /\ object \in [Objects -> {"fresh", "creating", "alive", "dropped"}]
    /\ deferred \in 0..MaxEvents
    /\ log \in Seq(LogEntry)
    /\ finishes \in 0..MaxFinish

Events == {i \in DOMAIN log : log[i].kind # "finish"}
Accepted == {i \in Events : log[i].ok}
Refused == Events \ Accepted
Finishes == DOMAIN log \ Events

Sending(n) == {t \in Threads : thread[t].at = "sending" /\ thread[t].seq = n}
Handed(n)  == {i \in Events : log[i].seq = n}

\* Every number taken from the counter is on one event, which is in one place:
\* in the hand of one thread that is about to call the sink, or handed over once.
NumberedOnce ==
    /\ \A n \in 1..(next_event - 1) : (Sending(n) = {}) # (Handed(n) = {})
    /\ \A n \in 1..(next_event - 1) : \A t, u \in Sending(n) : t = u
    /\ \A n \in 1..(next_event - 1) : \A i, j \in Handed(n) : i = j
    /\ \A i \in Events : log[i].seq \in 1..(next_event - 1)

\* However many threads release a token, and although a release that the sink
\* refused may be tried again, at most one unregistration of it is emitted
\* (release_is_idempotent_and_does_not_emit_duplicate_unregister).
ReleaseOnce ==
    \A i, j \in Events :
        log[i].kind = "unregister" /\ log[j].kind = "unregister" /\ log[i].of = log[j].of
        => i = j

\* The trace introduces what it names: an event of a callback follows the
\* registration in the sink, whichever thread emits it and whatever the sink
\* refused; an event of an object follows the creation handed to the sink.
IntroducedFirst ==
    \A i \in Events :
        /\ log[i].kind \in TokenKinds \ {"register"} =>
               \E j \in Accepted : j < i /\ log[j].kind = "register" /\ log[j].of = log[i].of
        /\ log[i].kind \in ObjectKinds \ {"create"} =>
               \E j \in Events : j < i /\ log[j].kind = "create" /\ log[j].of = log[i].of

\* A refused event never goes unnoticed: its thread is about to defer the error,
\* an error is deferred, or a later finish returned Err.
NoSilentLoss ==
    \A i \in Refused :
        \/ \E t \in Threads : thread[t].at = "failed" /\ thread[t].seq = log[i].seq
        \/ deferred # 0
        \/ \E j \in Finishes : i < j /\ ~log[j].ok

Reports(n) == {j \in Finishes : log[j].seq = n}
AtMostOne(S) == \A j, k \in S : j = k
AtMostTwo(S) == \A j, k, l \in S : j = k \/ k = l \/ j = l

\* The deferred error a finish returns is that of an event refused before.  No
\* two finishes return the error of the same call of emit; that of a call of
\* emit_deferred comes back when a finish takes it between the two times it is
\* deferred, so two may return it, and no third.
FinishReportsRefusal ==
    /\ \A j \in Finishes : log[j].seq # 0 =>
           \E i \in Refused : i < j /\ log[i].seq = log[j].seq
    /\ \A i \in Refused :
           /\ AtMostTwo(Reports(log[i].seq))
           /\ log[i].kind \notin ObjectKinds => AtMostOne(Reports(log[i].seq))

-----------------------------------------------------------------------------
(* What the documents say and the code does not do. *)

\* docs/reference/event-formats.md: seq increases strictly along the trace.
SeqStrictlyIncreasing ==
    \A i, j \in Accepted : i < j => log[i].seq < log[j].seq
=============================================================================
