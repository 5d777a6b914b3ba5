---------------------------- MODULE RuntimeProofs ----------------------------
(* Theorems about Runtime, for any number of threads, tokens and objects, *)
(* and about the trace that the validator gets from it (RuntimeTrace).    *)
EXTENDS RuntimeTrace, FiniteSetTheorems, TLAPS

-----------------------------------------------------------------------------
(* What a step does to the numbers and to the log.  The actions that start a *)
(* call do one of two things: take a number at once, or only check.          *)

Numbering(t) ==
    /\ thread[t].at \in {"idle", "checked"}
    /\ next_event <= MaxEvents
    /\ next_event' = next_event + 1
    /\ \E k \in Kinds, o \in Instances, n \in Nat :
           thread' = [thread EXCEPT ![t] =
               [at |-> "sending", kind |-> k, of |-> o, seq |-> next_event, count |-> n]]
    /\ UNCHANGED <<deferred, log, finishes>>

Checking(t) ==
    /\ thread[t].at = "idle"
    /\ \E k \in Kinds, o \in Instances, n \in Nat :
           thread' = [thread EXCEPT ![t] =
               [at |-> "checked", kind |-> k, of |-> o, seq |-> 0, count |-> n]]
    /\ UNCHANGED <<next_event, deferred, log, finishes>>

Flushing(t) == \E ok \in BOOLEAN : Flush(t, ok)

Handling(t) == Deliver(t) \/ Refuse(t) \/ Defer(t) \/ DeferAgain(t) \/ Flushing(t) \/ Finish(t)

LEMMA KindsOfCalls ==
    /\ {"register", "bind", "invoke", "unregister", "create", "use", "drop", "marker", "end"} \subseteq Kinds
    /\ Tokens \subseteq Instances /\ Objects \subseteq Instances /\ "none" \in Instances
BY DEF Kinds, TokenKinds, ObjectKinds, Instances

LEMMA StepKinds ==
    ASSUME TypeOK, Next
    PROVE  \E t \in Threads : Numbering(t) \/ Checking(t) \/ Handling(t)
<1> USE KindsOfCalls
<1>1. PICK t \in Threads : Call(t) \/ Emit(t) \/ (\E ok \in BOOLEAN : Flush(t, ok)) \/ Finish(t)
  BY DEF Next
<1>2. CASE Call(t)
  <2>1. ASSUME NEW c \in Tokens, Register(t, c) PROVE Numbering(t)
    BY <2>1 DEF Register, Number, IsIdle, Numbering
  <2>2. ASSUME NEW c \in Tokens, NEW k \in {"bind", "invoke"}, RetainedCall(t, c, k) PROVE Checking(t)
    BY <2>2 DEF RetainedCall, Check, IsIdle, Checking
  <2>3. ASSUME NEW c \in Tokens, Release(t, c) PROVE Checking(t)
    BY <2>3 DEF Release, Check, IsIdle, Checking
  <2>4. ASSUME NEW o \in Objects, Create(t, o) PROVE Numbering(t)
    BY <2>4 DEF Create, Number, IsIdle, Numbering
  <2>5. ASSUME NEW o \in Objects, Use(t, o) PROVE Numbering(t)
    BY <2>5 DEF Use, Number, IsIdle, Numbering
  <2>6. ASSUME NEW o \in Objects, DropObject(t, o) PROVE Numbering(t)
    BY <2>6 DEF DropObject, Number, IsIdle, Numbering
  <2>7. ASSUME Mark(t) PROVE Numbering(t)
    BY <2>7 DEF Mark, Number, IsIdle, Numbering
  <2>8. ASSUME TraceEnd(t) PROVE Checking(t)
    <3>1. next_event - 1 \in Nat
      BY RuntimeAssumption DEF TypeOK
    <3>2. QED BY <2>8, <3>1 DEF TraceEnd, Check, IsIdle, Checking
  <2>9. QED BY <1>2, <2>1, <2>2, <2>3, <2>4, <2>5, <2>6, <2>7, <2>8 DEF Call
<1>3. CASE Emit(t)
  <2>1. thread[t].kind \in Kinds /\ thread[t].of \in Instances /\ thread[t].count \in Nat
    BY DEF TypeOK, CallState
  <2>2. CASE TakeSeq(t)
    BY <2>1, <2>2 DEF TakeSeq, Number, Numbering
  <2>3. QED BY <1>3, <2>2 DEF Emit, Handling
<1>4. QED BY <1>1, <1>2, <1>3 DEF Handling, Flushing

-----------------------------------------------------------------------------
(* Type correctness.  A call in progress holds a number that was taken, one  *)
(* that is sent or refused a real one.                                       *)

NumbersTaken ==
    /\ \A t \in Threads : thread[t].seq < next_event
    /\ \A t \in Threads : thread[t].at \in {"sending", "failed", "returned"} => 0 < thread[t].seq

Typed == TypeOK /\ NumbersTaken

LEMMA Appended ==
    ASSUME NEW S, NEW s \in Seq(S), NEW e \in S
    PROVE  /\ Append(s, e) \in Seq(S)
           /\ Len(Append(s, e)) = Len(s) + 1
           /\ Append(s, e)[Len(s) + 1] = e
           /\ \A i \in 1..Len(s) : Append(s, e)[i] = s[i]
OBVIOUS

LEMMA EntryTyped ==
    ASSUME TypeOK, NEW t \in Threads, NEW ok \in BOOLEAN
    PROVE  Entry(t, ok) \in LogEntry
BY DEF TypeOK, CallState, Entry, LogEntry

LEMMA ReturnTyped ==
    ASSUME TypeOK, NEW t \in Threads, NEW ok \in BOOLEAN, Return(t, ok)
    PROVE  /\ token' \in [Tokens -> {"fresh", "registering", "retained", "released", "lost"}]
           /\ object' \in [Objects -> {"fresh", "creating", "alive", "dropped"}]
BY DEF TypeOK, Return

LEMMA IdleTyped == Idle \in CallState
BY DEF Idle, CallState, Kinds, Instances

LEMMA TokensTyped ==
    ASSUME TypeOK, Next
    PROVE  /\ token' \in [Tokens -> {"fresh", "registering", "retained", "released", "lost"}]
           /\ object' \in [Objects -> {"fresh", "creating", "alive", "dropped"}]
<1>1. PICK t \in Threads : Call(t) \/ Emit(t) \/ (\E ok \in BOOLEAN : Flush(t, ok)) \/ Finish(t)
  BY DEF Next
<1>2. CASE Call(t)
  BY <1>2 DEF Call, Register, RetainedCall, Release, Create, Use, DropObject, Mark, TraceEnd, TypeOK
<1>3. CASE Emit(t)
  <2>1. CASE Deliver(t) BY <2>1, ReturnTyped DEF Deliver
  <2>2. CASE Defer(t) \/ DeferAgain(t) BY <2>2, ReturnTyped DEF Defer, DeferAgain, Done, TypeOK
  <2>3. CASE TakeSeq(t) \/ Refuse(t) BY <2>3 DEF TakeSeq, Refuse, TypeOK
  <2>4. QED BY <1>3, <2>1, <2>2, <2>3 DEF Emit
<1>4. CASE (\E ok \in BOOLEAN : Flush(t, ok)) \/ Finish(t)
  BY <1>4 DEF Flush, Finish, TypeOK
<1>5. QED BY <1>1, <1>2, <1>3, <1>4

LEMMA TypeInit == Init => Typed
BY RuntimeAssumption, IdleTyped DEF Init, Typed, TypeOK, NumbersTaken, Idle

LEMMA TypeStep == Typed /\ [Next]_vars => Typed'
<1> SUFFICES ASSUME Typed, [Next]_vars PROVE Typed'
  OBVIOUS
<1> USE RuntimeAssumption, IdleTyped
<1>1. CASE UNCHANGED vars
  BY <1>1 DEF vars, Typed, TypeOK, NumbersTaken
<1>2. CASE Next
  <2>0. /\ TypeOK /\ NumbersTaken
        /\ token' \in [Tokens -> {"fresh", "registering", "retained", "released", "lost"}]
        /\ object' \in [Objects -> {"fresh", "creating", "alive", "dropped"}]
    BY <1>2, TokensTyped DEF Typed
  <2> DEFINE Rest == /\ next_event' \in 1..(MaxEvents + 1)
                     /\ thread' \in [Threads -> CallState]
                     /\ deferred' \in 0..MaxEvents
                     /\ log' \in Seq(LogEntry)
                     /\ finishes' \in 0..MaxFinish
                     /\ NumbersTaken'
  <2>1. PICK t \in Threads : Numbering(t) \/ Checking(t) \/ Handling(t)
    BY <1>2, <2>0, StepKinds
  <2>2. CASE Numbering(t)
    <3>1. PICK k \in Kinds, o \in Instances, n \in Nat :
              thread' = [thread EXCEPT ![t] =
                  [at |-> "sending", kind |-> k, of |-> o, seq |-> next_event, count |-> n]]
      BY <2>2 DEF Numbering
    <3>2. [at |-> "sending", kind |-> k, of |-> o, seq |-> next_event, count |-> n] \in CallState
      BY <2>0 DEF CallState, TypeOK
    <3>3. Rest
      BY <2>0, <2>2, <3>1, <3>2 DEF Numbering, TypeOK, NumbersTaken, CallState
    <3>4. QED BY <2>0, <3>3 DEF Typed, TypeOK
  <2>3. CASE Checking(t)
    <3>1. PICK k \in Kinds, o \in Instances, n \in Nat :
              thread' = [thread EXCEPT ![t] =
                  [at |-> "checked", kind |-> k, of |-> o, seq |-> 0, count |-> n]]
      BY <2>3 DEF Checking
    <3>2. [at |-> "checked", kind |-> k, of |-> o, seq |-> 0, count |-> n] \in CallState
      BY DEF CallState
    <3>3. Rest
      BY <2>0, <2>3, <3>1, <3>2 DEF Checking, TypeOK, NumbersTaken, CallState
    <3>4. QED BY <2>0, <3>3 DEF Typed, TypeOK
  <2>4. CASE Deliver(t)
    <3>1. log' \in Seq(LogEntry)
      BY <2>0, <2>4, EntryTyped, Appended DEF Deliver, TypeOK
    <3>2. /\ thread' \in [Threads -> CallState]
          /\ \A u \in Threads : thread'[u] = IF u = t THEN Idle ELSE thread[u]
          /\ UNCHANGED <<next_event, deferred, finishes>>
      BY <2>0, <2>4 DEF Deliver, TypeOK
    <3>3. NumbersTaken'
      BY <2>0, <3>2 DEF TypeOK, NumbersTaken, Idle
    <3>4. QED BY <2>0, <3>1, <3>2, <3>3 DEF Typed, TypeOK
  <2>5. CASE Refuse(t)
    <3>1. log' \in Seq(LogEntry)
      BY <2>0, <2>5, EntryTyped, Appended DEF Refuse, TypeOK
    <3>2. [thread[t] EXCEPT !.at = "failed"] \in CallState
      BY <2>0 DEF TypeOK, CallState
    <3>3. thread' = [thread EXCEPT ![t] = [thread[t] EXCEPT !.at = "failed"]]
      BY <2>0, <2>5 DEF Refuse, TypeOK
    <3>4. /\ thread' \in [Threads -> CallState]
          /\ \A u \in Threads : thread'[u].seq = thread[u].seq
          /\ \A u \in Threads \ {t} : thread'[u] = thread[u]
      BY <2>0, <3>2, <3>3 DEF TypeOK, CallState
    <3>5. Rest
      BY <2>0, <2>5, <3>1, <3>4 DEF Refuse, TypeOK, NumbersTaken
    <3>6. QED BY <2>0, <3>5 DEF Typed, TypeOK
  <2>6. CASE Defer(t) \/ DeferAgain(t)
    <3>1. thread[t].seq \in 0..MaxEvents
      BY <2>0 DEF TypeOK, NumbersTaken, CallState
    <3>2. PICK c \in CallState :
              /\ thread' = [thread EXCEPT ![t] = c]
              /\ c.at \notin {"sending", "failed"} /\ (c = Idle \/ c.seq = thread[t].seq)
              /\ c.at = "returned" => thread[t].at = "failed" /\ c.seq = thread[t].seq
      <4>1. CASE thread' = [thread EXCEPT ![t] = Idle]
        BY <2>0, <4>1 DEF Idle
      <4>2. CASE Defer(t) /\ thread' = [thread EXCEPT ![t].at = "returned"]
        <5>1. [thread[t] EXCEPT !.at = "returned"] \in CallState
          BY <2>0 DEF TypeOK, CallState
        <5>2. thread' = [thread EXCEPT ![t] = [thread[t] EXCEPT !.at = "returned"]]
          BY <2>0, <4>2 DEF TypeOK
        <5>3. /\ [thread[t] EXCEPT !.at = "returned"].at = "returned"
              /\ [thread[t] EXCEPT !.at = "returned"].seq = thread[t].seq
          BY <2>0 DEF TypeOK, CallState
        <5>4. QED BY <4>2, <5>1, <5>2, <5>3 DEF Defer
      <4>3. QED BY <2>6, <4>1, <4>2 DEF Defer, DeferAgain, Done
    <3>3. /\ UNCHANGED <<next_event, log, finishes>>
          /\ deferred' \in {deferred, thread[t].seq}
      BY <2>6 DEF Defer, DeferAgain, DeferError
    <3>4. Rest
      BY <2>0, <3>1, <3>2, <3>3 DEF TypeOK, NumbersTaken, CallState, Idle
    <3>5. QED BY <2>0, <3>4 DEF Typed, TypeOK
  <2>7. CASE Flushing(t)
    <3>1. PICK ok \in BOOLEAN : Flush(t, ok)
      BY <2>7 DEF Flushing
    <3>2. [thread[t] EXCEPT !.at = IF ok THEN "flushed" ELSE "flush_failed"] \in CallState
      BY <2>0 DEF TypeOK, CallState
    <3>3. Rest
      BY <2>0, <3>1, <3>2 DEF Flush, TypeOK, NumbersTaken, CallState
    <3>4. QED BY <2>0, <3>3 DEF Typed, TypeOK
  <2>8. CASE Finish(t)
    <3>1. [kind |-> "finish", of |-> "none", seq |-> deferred, count |-> 0,
           ok |-> deferred = 0 /\ thread[t].at = "flushed"] \in LogEntry
      BY <2>0 DEF TypeOK, LogEntry, Instances
    <3>2. log' \in Seq(LogEntry)
      BY <2>0, <2>8, <3>1, Appended DEF Finish, TypeOK
    <3>3. Rest
      BY <2>0, <2>8, <3>2 DEF Finish, TypeOK, NumbersTaken, CallState, Idle
    <3>4. QED BY <2>0, <3>3 DEF Typed, TypeOK
  <2>9. QED BY <2>1, <2>2, <2>3, <2>4, <2>5, <2>6, <2>7, <2>8 DEF Handling
<1>3. QED BY <1>1, <1>2

\* The runtime's counter, calls, tokens, objects, deferred error and log have
\* their types in every reachable state (RuntimeContext, CallbackToken, Tracked).
THEOREM TypeCorrect == Spec => []TypeOK
<1>1. Spec => []Typed
  BY TypeInit, TypeStep, PTL DEF Spec
<1>2. Typed => TypeOK
  BY DEF Typed
<1>3. QED BY <1>1, <1>2, PTL

-----------------------------------------------------------------------------
(* What a step does to the calls in progress and to the log, for the other   *)
(* invariants.                                                               *)

Takes(t) ==
    /\ thread[t].at \in {"idle", "checked"}
    /\ thread'[t].at = "sending" /\ thread'[t].seq = next_event
    /\ next_event' = next_event + 1
    /\ UNCHANGED <<deferred, log>>

Hands(t, ok) ==
    /\ thread[t].at = "sending"
    /\ log' = Append(log, Entry(t, ok))
    /\ thread'[t].at = IF ok THEN "idle" ELSE "failed"
    /\ ~ok => thread'[t].seq = thread[t].seq /\ thread'[t].kind = thread[t].kind
    /\ UNCHANGED <<next_event, deferred>>

\* The error is deferred; that of a tracked object's event is to be once more.
Defers(t) ==
    /\ thread[t].at = "failed"
    /\ \/ thread[t].kind \notin ObjectKinds /\ thread'[t].at = "idle"
       \/ /\ thread[t].kind \in ObjectKinds /\ thread'[t].at = "returned"
          /\ thread'[t].seq = thread[t].seq /\ thread'[t].kind = thread[t].kind
    /\ DeferError(t)
    /\ UNCHANGED <<next_event, log>>

DefersAgain(t) ==
    /\ thread[t].at = "returned" /\ thread'[t].at = "idle"
    /\ DeferError(t)
    /\ UNCHANGED <<next_event, log>>

FinishEntry(t) == [kind |-> "finish", of |-> "none", seq |-> deferred, count |-> 0,
                   ok |-> deferred = 0 /\ thread[t].at = "flushed"]

Ends(t) ==
    /\ thread[t].at \in {"flushed", "flush_failed"} /\ thread'[t].at = "idle"
    /\ log' = Append(log, FinishEntry(t))
    /\ deferred' = 0
    /\ UNCHANGED next_event

Quiet(t) ==
    /\ thread[t].at \notin {"sending", "failed", "returned"}
    /\ thread'[t].at \notin {"sending", "failed", "returned"}
    /\ UNCHANGED <<next_event, deferred, log>>

LEMMA Effects ==
    ASSUME Typed, Next
    PROVE  \E t \in Threads :
               /\ \A u \in Threads \ {t} : thread'[u] = thread[u]
               /\ \/ Takes(t) \/ (\E ok \in BOOLEAN : Hands(t, ok))
                  \/ Defers(t) \/ DefersAgain(t) \/ Ends(t) \/ Quiet(t)
<1> USE DEF Typed
<1>1. PICK t \in Threads : Numbering(t) \/ Checking(t) \/ Handling(t)
  BY StepKinds
<1>2. thread \in [Threads -> CallState]
  BY DEF TypeOK
<1>3. CASE Numbering(t)
  BY <1>2, <1>3 DEF Numbering, Takes
<1>4. CASE Checking(t)
  BY <1>2, <1>4 DEF Checking, Quiet
<1>5. CASE Deliver(t)
  <2>1. Hands(t, TRUE) BY <1>2, <1>5 DEF Deliver, Hands, Idle
  <2>2. \A u \in Threads \ {t} : thread'[u] = thread[u] BY <1>2, <1>5 DEF Deliver
  <2>3. QED BY <2>1, <2>2
<1>6. CASE Refuse(t)
  <2>1. thread' = [thread EXCEPT ![t] = [thread[t] EXCEPT !.at = "failed"]]
    BY <1>2, <1>6 DEF Refuse
  <2>2. thread'[t] = [thread[t] EXCEPT !.at = "failed"] BY <1>2, <2>1
  <2>3. /\ thread'[t].at = "failed" /\ thread'[t].seq = thread[t].seq
        /\ thread'[t].kind = thread[t].kind
    BY <1>2, <2>2 DEF CallState
  <2>4. Hands(t, FALSE) BY <1>6, <2>3 DEF Refuse, Hands
  <2>5. \A u \in Threads \ {t} : thread'[u] = thread[u] BY <1>2, <2>1
  <2>6. QED BY <2>4, <2>5
<1>7. CASE Defer(t) /\ thread[t].kind \in ObjectKinds
  <2>1. thread' = [thread EXCEPT ![t] = [thread[t] EXCEPT !.at = "returned"]]
    BY <1>2, <1>7 DEF Defer
  <2>2. thread'[t] = [thread[t] EXCEPT !.at = "returned"] /\ \A u \in Threads \ {t} : thread'[u] = thread[u]
    BY <1>2, <2>1
  <2>3. /\ thread'[t].at = "returned" /\ thread'[t].seq = thread[t].seq
        /\ thread'[t].kind = thread[t].kind
    BY <1>2, <2>2 DEF CallState
  <2>4. QED BY <1>7, <2>2, <2>3 DEF Defer, Defers
<1>11. CASE (Defer(t) /\ thread[t].kind \notin ObjectKinds) \/ DeferAgain(t)
  <2>1. thread' = [thread EXCEPT ![t] = Idle]
    BY <1>11 DEF Defer, DeferAgain, Done
  <2>2. thread'[t].at = "idle" /\ \A u \in Threads \ {t} : thread'[u] = thread[u]
    BY <1>2, <2>1 DEF Idle
  <2>3. Defers(t) \/ DefersAgain(t)
    BY <1>11, <2>2 DEF Defer, DeferAgain, Defers, DefersAgain
  <2>4. QED BY <2>2, <2>3
<1>8. CASE Flushing(t)
  <2>1. PICK ok \in BOOLEAN : Flush(t, ok) BY <1>8 DEF Flushing
  <2>2. thread' = [thread EXCEPT ![t] = [thread[t] EXCEPT !.at = IF ok THEN "flushed" ELSE "flush_failed"]]
    BY <1>2, <2>1 DEF Flush
  <2>3. thread'[t].at = IF ok THEN "flushed" ELSE "flush_failed"
    BY <1>2, <2>2 DEF CallState
  <2>4. Quiet(t) BY <2>1, <2>3 DEF Flush, IsIdle, Quiet
  <2>5. \A u \in Threads \ {t} : thread'[u] = thread[u] BY <1>2, <2>2
  <2>6. QED BY <2>4, <2>5
<1>9. CASE Finish(t)
  BY <1>2, <1>9 DEF Finish, Ends, FinishEntry, Idle
<1>12. QED BY <1>1, <1>3, <1>4, <1>5, <1>6, <1>7, <1>11, <1>8, <1>9 DEF Handling

\* The log keeps what it holds; the new entry is an event or a finish.
LEMMA LogGrows ==
    ASSUME log \in Seq(LogEntry), NEW e \in LogEntry, log' = Append(log, e)
    PROVE  LET new == Len(log) + 1 IN
           /\ log'[new] = e
           /\ \A i \in DOMAIN log : i \in Nat /\ i < new /\ log'[i] = log[i]
           /\ Events'   = IF e.kind = "finish" THEN Events ELSE Events \cup {new}
           /\ Finishes' = IF e.kind = "finish" THEN Finishes \cup {new} ELSE Finishes
           /\ Accepted' = IF e.kind # "finish" /\ e.ok THEN Accepted \cup {new} ELSE Accepted
           /\ Refused'  = IF e.kind # "finish" /\ ~e.ok THEN Refused \cup {new} ELSE Refused
<1> DEFINE new == Len(log) + 1
<1>1. /\ Len(log) \in Nat /\ DOMAIN log = 1..Len(log)
      /\ DOMAIN log' = (DOMAIN log) \cup {new} /\ new \notin DOMAIN log
  OBVIOUS
<1>2. log'[new] = e /\ \A i \in DOMAIN log : i \in Nat /\ i < new /\ log'[i] = log[i]
  BY Appended
<1>3. Events' = IF e.kind = "finish" THEN Events ELSE Events \cup {new}
  BY <1>1, <1>2 DEF Events
<1>4. Finishes' = IF e.kind = "finish" THEN Finishes \cup {new} ELSE Finishes
  BY <1>1, <1>2 DEF Events, Finishes
<1>5. Accepted' = IF e.kind # "finish" /\ e.ok THEN Accepted \cup {new} ELSE Accepted
  BY <1>1, <1>2 DEF Events, Accepted
<1>6. Refused' = IF e.kind # "finish" /\ ~e.ok THEN Refused \cup {new} ELSE Refused
  BY <1>1, <1>2 DEF Events, Accepted, Refused
<1>7. QED BY <1>2, <1>3, <1>4, <1>5, <1>6

LEMMA HandedEntry ==
    ASSUME TypeOK, NEW t \in Threads, NEW ok \in BOOLEAN
    PROVE  /\ Entry(t, ok) \in LogEntry /\ Entry(t, ok).kind # "finish"
           /\ Entry(t, ok).seq = thread[t].seq /\ Entry(t, ok).ok = ok
<1>1. thread[t].kind \in Kinds /\ "finish" \notin Kinds
  BY DEF TypeOK, CallState, Kinds, TokenKinds, ObjectKinds
<1>2. QED BY <1>1, EntryTyped DEF Entry

LEMMA EndEntry ==
    ASSUME TypeOK, NEW t \in Threads
    PROVE  FinishEntry(t) \in LogEntry
BY RuntimeAssumption DEF TypeOK, FinishEntry, LogEntry, Instances

-----------------------------------------------------------------------------
(* A number belongs to one event. *)

(* Of NumberedOnce, what the proof uses: no sets of threads and of entries.  *)

IsSending(t) == thread[t].at = "sending"

Placed ==
    \A n \in 1..(next_event - 1) :
        \/ \E t \in Threads : IsSending(t) /\ thread[t].seq = n
        \/ \E i \in Events : log[i].seq = n

Apart ==
    /\ \A t \in Threads, i \in Events : IsSending(t) => thread[t].seq # log[i].seq
    /\ \A t, u \in Threads : IsSending(t) /\ IsSending(u) /\ thread[t].seq = thread[u].seq => t = u
    /\ \A i, j \in Events : log[i].seq = log[j].seq => i = j
    /\ \A i \in Events : log[i].seq \in 1..(next_event - 1)

NumberInv == Typed /\ Placed /\ Apart

LEMMA NumberInit == Init => NumberInv
<1> SUFFICES ASSUME Init PROVE NumberInv
  OBVIOUS
<1>1. next_event = 1 /\ Events = {} /\ \A t \in Threads : thread[t].at = "idle"
  BY DEF Init, Events, Idle
<1>2. Placed /\ Apart
  BY <1>1 DEF Placed, Apart, IsSending
<1>3. QED BY <1>2, TypeInit DEF NumberInv

LEMMA NumberStep == NumberInv /\ [Next]_vars => NumberInv'
<1> SUFFICES ASSUME NumberInv, [Next]_vars PROVE NumberInv'
  OBVIOUS
<1>0. /\ Typed /\ TypeOK /\ NumbersTaken /\ Placed /\ Apart
      /\ next_event \in Nat \ {0}
      /\ \A t \in Threads : thread[t].seq \in Nat
      /\ \A i \in Events : i \in DOMAIN log
  <2>1. TypeOK BY DEF NumberInv, Typed
  <2>2. next_event \in Nat \ {0} /\ \A t \in Threads : thread[t].seq \in Nat
    BY <2>1, RuntimeAssumption DEF TypeOK, CallState
  <2>3. QED BY <2>1, <2>2 DEF NumberInv, Typed, Events
<1>1. CASE UNCHANGED vars
  BY <1>0, <1>1, TypeStep DEF NumberInv, vars, Placed, Apart, IsSending, Events
<1>2. CASE Next
  <2>0. Typed'
    BY <1>0, <1>2, TypeStep
  <2>1. PICK t \in Threads :
            /\ \A u \in Threads \ {t} : thread'[u] = thread[u]
            /\ \/ Takes(t) \/ (\E ok \in BOOLEAN : Hands(t, ok))
               \/ Defers(t) \/ DefersAgain(t) \/ Ends(t) \/ Quiet(t)
    BY <1>0, <1>2, Effects
  <2>2. CASE Takes(t)
    <3>1. /\ next_event' = next_event + 1
          /\ ~IsSending(t) /\ IsSending(t)' /\ thread'[t].seq = next_event
          /\ \A u \in Threads \ {t} : IsSending(u)' = IsSending(u) /\ thread'[u].seq = thread[u].seq
          /\ Events' = Events /\ log' = log
      BY <2>1, <2>2 DEF Takes, Events, IsSending
    <3>2. Placed'
      <4> SUFFICES ASSUME NEW n \in 1..(next_event' - 1)
                   PROVE  \/ \E u \in Threads : IsSending(u)' /\ thread'[u].seq = n
                          \/ \E i \in Events' : log'[i].seq = n
        BY DEF Placed
      <4>1. n \in 1..(next_event - 1) \/ n = next_event
        BY <1>0, <3>1
      <4>2. QED BY <1>0, <3>1, <4>1 DEF Placed
    <3>3. Apart'
      BY <1>0, <3>1 DEF Apart, NumbersTaken
    <3>4. QED BY <2>0, <3>2, <3>3 DEF NumberInv
  <2>3. ASSUME NEW ok \in BOOLEAN, Hands(t, ok) PROVE NumberInv'
    <3> DEFINE m == thread[t].seq
               new == Len(log) + 1
    <3>1. /\ m \in 1..(next_event - 1) /\ IsSending(t)
          /\ next_event' = next_event
          /\ ~IsSending(t)'
          /\ \A u \in Threads \ {t} : IsSending(u)' = IsSending(u) /\ thread'[u].seq = thread[u].seq
      BY <1>0, <2>1, <2>3 DEF Hands, NumbersTaken, IsSending
    <3>2. /\ log'[new].seq = m
          /\ Events' = Events \cup {new}
          /\ \A i \in Events : i # new /\ log'[i] = log[i]
      <4>1. log' = Append(log, Entry(t, ok)) /\ log \in Seq(LogEntry)
        BY <1>0, <2>3 DEF Hands, TypeOK
      <4>2. Entry(t, ok) \in LogEntry /\ Entry(t, ok).kind # "finish" /\ Entry(t, ok).seq = m
        BY <1>0, HandedEntry
      <4>3. /\ log'[new] = Entry(t, ok) /\ Events' = Events \cup {new}
            /\ \A i \in DOMAIN log : i \in Nat /\ i < new /\ log'[i] = log[i]
        BY <4>1, <4>2, LogGrows
      <4>4. QED
        BY <1>0, <4>2, <4>3
    <3> HIDE DEF m, new
    <3>3. Placed'
      <4> SUFFICES ASSUME NEW n \in 1..(next_event - 1)
                   PROVE  \/ \E u \in Threads : IsSending(u)' /\ thread'[u].seq = n
                          \/ \E i \in Events' : log'[i].seq = n
        BY <3>1 DEF Placed
      <4>1. CASE n = m
        BY <3>2, <4>1
      <4>2. CASE n # m
        BY <1>0, <3>1, <3>2, <4>2 DEF Placed, m
      <4>3. QED BY <4>1, <4>2
    <3>4. Apart'
      <4>1. /\ \A i \in Events : log[i].seq # m
            /\ \A u \in Threads \ {t} : IsSending(u) => thread[u].seq # m
        BY <1>0, <3>1 DEF Apart, m
      <4>2. QED BY <1>0, <3>1, <3>2, <4>1 DEF Apart
    <3>5. QED BY <2>0, <3>3, <3>4 DEF NumberInv
  <2>4. CASE Defers(t) \/ DefersAgain(t) \/ Ends(t) \/ Quiet(t)
    <3>1. /\ next_event' = next_event
          /\ ~IsSending(t) /\ ~IsSending(t)'
          /\ \A u \in Threads \ {t} : IsSending(u)' = IsSending(u) /\ thread'[u].seq = thread[u].seq
      BY <2>1, <2>4 DEF Defers, DefersAgain, Ends, Quiet, IsSending
    <3>2. Events' = Events /\ \A i \in Events : log'[i] = log[i]
      <4>1. CASE Defers(t) \/ DefersAgain(t) \/ Quiet(t)
        BY <4>1 DEF Defers, DefersAgain, Quiet, Events
      <4>2. CASE Ends(t)
        <5>1. log' = Append(log, FinishEntry(t)) /\ log \in Seq(LogEntry)
          BY <1>0, <4>2 DEF Ends, TypeOK
        <5>2. FinishEntry(t) \in LogEntry /\ FinishEntry(t).kind = "finish"
          BY <1>0, EndEntry DEF FinishEntry
        <5>3. QED BY <1>0, <5>1, <5>2, LogGrows
      <4>3. QED BY <2>4, <4>1, <4>2
    <3>3. Placed' /\ Apart'
      BY <1>0, <3>1, <3>2 DEF Placed, Apart
    <3>4. QED BY <2>0, <3>3 DEF NumberInv
  <2>5. QED BY <2>1, <2>2, <2>3, <2>4
<1>3. QED BY <1>1, <1>2

LEMMA NumberImplies == NumberInv => NumberedOnce
<1> SUFFICES ASSUME NumberInv PROVE NumberedOnce
  OBVIOUS
<1>1. Placed /\ Apart
  BY DEF NumberInv
<1>2. ASSUME NEW n \in 1..(next_event - 1)
      PROVE  /\ (Sending(n) = {}) # (Handed(n) = {})
             /\ \A t, u \in Sending(n) : t = u
             /\ \A i, j \in Handed(n) : i = j
  <2>1. /\ \A t : t \in Sending(n) <=> t \in Threads /\ IsSending(t) /\ thread[t].seq = n
        /\ \A i : i \in Handed(n) <=> i \in Events /\ log[i].seq = n
    BY DEF Sending, Handed, IsSending
  <2>2. (Sending(n) = {} <=> \A t : t \notin Sending(n)) /\ (Handed(n) = {} <=> \A i : i \notin Handed(n))
    OBVIOUS
  <2>3. (\E t : t \in Sending(n)) \/ (\E i : i \in Handed(n))
    BY <1>1, <2>1 DEF Placed
  <2>4. ~((\E t : t \in Sending(n)) /\ (\E i : i \in Handed(n)))
    BY <1>1, <2>1 DEF Apart
  <2>5. QED BY <1>1, <2>1, <2>2, <2>3, <2>4 DEF Apart
<1>3. QED BY <1>1, <1>2 DEF NumberedOnce, Apart

\* Every number taken from next_event is on one event, and that event is in one
\* place: with the thread about to call the sink, or handed over once.  It holds
\* although emit takes the number and calls the sink in separate steps.
THEOREM NumbersAreOnce == Spec => []NumberedOnce
<1>1. Spec => []NumberInv
  BY NumberInit, NumberStep, PTL DEF Spec
<1>2. QED BY <1>1, NumberImplies, PTL

-----------------------------------------------------------------------------
(* A refused event is reported, and by no more finishes than its error is    *)
(* deferred.  The error is with one thread, in deferred, or returned.        *)

IsFailed(t) == thread[t].at = "failed"
IsReturned(t) == thread[t].at = "returned"
Failing(t) == IsFailed(t) \/ IsReturned(t)

\* Of FinishReportsRefusal, what the proof uses: no sets of finishes.
Unreported(n) == \A j \in Finishes : log[j].seq # n
Once(n) == \A j, k \in Finishes : log[j].seq = n /\ log[k].seq = n => j = k
Twice(n) == \A j, k, l \in Finishes :
    log[j].seq = n /\ log[k].seq = n /\ log[l].seq = n => j = k \/ k = l \/ j = l

\* The number of a refused event of this kind.
RefusedAs(n, kind) == \E i \in Refused : log[i].seq = n /\ log[i].kind = kind

FailedKnown ==
    /\ \A t \in Threads : Failing(t) => RefusedAs(thread[t].seq, thread[t].kind)
    /\ \A t, u \in Threads : Failing(t) /\ Failing(u) /\ thread[t].seq = thread[u].seq => t = u
    /\ \A t \in Threads : IsFailed(t) => deferred # thread[t].seq /\ Unreported(thread[t].seq)
    /\ \A t \in Threads : IsReturned(t) =>
           /\ thread[t].kind \in ObjectKinds
           /\ Once(thread[t].seq)
           /\ deferred = thread[t].seq => Unreported(thread[t].seq)

DeferredKnown ==
    deferred # 0 =>
        \E kind \in Kinds :
            /\ RefusedAs(deferred, kind)
            /\ Once(deferred)
            /\ kind \in ObjectKinds \/ Unreported(deferred)

Reported ==
    /\ \A j \in Finishes : log[j].seq # 0 => \E i \in Refused : i < j /\ log[i].seq = log[j].seq
    /\ \A i \in Refused : Twice(log[i].seq) /\ (log[i].kind \in ObjectKinds \/ Once(log[i].seq))

LossInv == NumberInv /\ NoSilentLoss /\ Reported /\ FailedKnown /\ DeferredKnown

LEMMA LossInit == Init => LossInv
<1> SUFFICES ASSUME Init PROVE LossInv
  OBVIOUS
<1>1. /\ log = <<>> /\ Events = {} /\ Finishes = {} /\ Refused = {} /\ deferred = 0
      /\ \A t \in Threads : ~IsFailed(t) /\ ~IsReturned(t)
  BY DEF Init, Events, Finishes, Accepted, Refused, Idle, IsFailed, IsReturned
<1>2. NoSilentLoss /\ Reported /\ FailedKnown /\ DeferredKnown
  BY <1>1 DEF NoSilentLoss, Reported, FailedKnown, DeferredKnown, Failing
<1>3. QED BY <1>2, NumberInit DEF LossInv

LEMMA LossStep == LossInv /\ [Next]_vars => LossInv'
<1> SUFFICES ASSUME LossInv, [Next]_vars PROVE LossInv'
  OBVIOUS
<1> DEFINE Goal == NoSilentLoss /\ Reported /\ FailedKnown /\ DeferredKnown
<1>0. /\ Typed /\ TypeOK /\ NumbersTaken /\ Apart
      /\ NoSilentLoss /\ Reported /\ FailedKnown /\ DeferredKnown
      /\ \A i \in Finishes : i \in DOMAIN log
      /\ \A i \in Refused : i \in Events /\ i \in DOMAIN log
      /\ NumberInv'
  BY NumberStep DEF LossInv, NumberInv, Typed, Finishes, Refused, Events
<1>1. /\ log \in Seq(LogEntry) /\ deferred \in Nat
      /\ \A t \in Threads : thread[t].seq \in Nat /\ thread[t].kind \in Kinds
                            /\ (Failing(t) => thread[t].seq # 0)
  BY <1>0, RuntimeAssumption DEF TypeOK, CallState, NumbersTaken, Failing, IsFailed, IsReturned
<1>2. CASE UNCHANGED vars
  <2>1. log' = log /\ Finishes' = Finishes /\ Refused' = Refused /\ thread' = thread /\ deferred' = deferred
    BY <1>2 DEF vars, Finishes, Refused, Accepted, Events
  <2>2. Goal'
    BY <1>0, <2>1
       DEF NoSilentLoss, Reported, FailedKnown, DeferredKnown, Failing, IsFailed, IsReturned, RefusedAs,
           Unreported, Once, Twice
  <2>3. QED BY <1>0, <2>2 DEF LossInv
<1>3. CASE Next
  <2>1. PICK t \in Threads :
            /\ \A u \in Threads \ {t} : thread'[u] = thread[u]
            /\ \/ Takes(t) \/ (\E ok \in BOOLEAN : Hands(t, ok))
               \/ Defers(t) \/ DefersAgain(t) \/ Ends(t) \/ Quiet(t)
    BY <1>0, <1>3, Effects
  <2>2. \A u \in Threads \ {t} :
            /\ thread'[u].seq = thread[u].seq /\ thread'[u].kind = thread[u].kind
            /\ IsFailed(u)' = IsFailed(u) /\ IsReturned(u)' = IsReturned(u) /\ Failing(u)' = Failing(u)
    BY <2>1 DEF IsFailed, IsReturned, Failing
  <2>3. ASSUME log' = log
        PROVE  /\ Finishes' = Finishes /\ Refused' = Refused /\ Reported'
               /\ \A n : /\ Unreported(n)' <=> Unreported(n)
                         /\ Once(n)' <=> Once(n)
                         /\ \A kind : RefusedAs(n, kind)' <=> RefusedAs(n, kind)
    <3>1. Finishes' = Finishes /\ Refused' = Refused
      BY <2>3 DEF Finishes, Refused, Accepted, Events
    <3>2. QED BY <1>0, <2>3, <3>1 DEF Reported, Unreported, Once, Twice, RefusedAs
  <2>4. CASE Takes(t) \/ Quiet(t)
    <3>1. ~Failing(t) /\ ~Failing(t)' /\ deferred' = deferred /\ log' = log
      BY <2>4 DEF Takes, Quiet, Failing, IsFailed, IsReturned
    <3>2. NoSilentLoss'
      BY <1>0, <2>2, <2>3, <3>1 DEF NoSilentLoss, IsFailed, Failing
    <3>3. FailedKnown' /\ DeferredKnown'
      BY <1>0, <2>2, <2>3, <3>1 DEF FailedKnown, DeferredKnown, Failing
    <3>4. QED BY <1>0, <2>3, <3>1, <3>2, <3>3 DEF LossInv
  <2>5. ASSUME NEW ok \in BOOLEAN, Hands(t, ok) PROVE LossInv'
    <3>0. PICK m \in Nat : m = thread[t].seq
      BY <1>1
    <3> DEFINE new == Len(log) + 1
    <3>1. /\ log'[new].seq = m /\ log'[new].kind = thread[t].kind
          /\ \A i \in DOMAIN log : i \in Nat /\ i < new /\ log'[i] = log[i]
          /\ Finishes' = Finishes
          /\ Refused' = IF ok THEN Refused ELSE Refused \cup {new}
      <4>1. log' = Append(log, Entry(t, ok))
        BY <2>5 DEF Hands
      <4>2. /\ Entry(t, ok) \in LogEntry /\ Entry(t, ok).kind # "finish"
            /\ Entry(t, ok).seq = m /\ Entry(t, ok).ok = ok /\ Entry(t, ok).kind = thread[t].kind
        BY <1>0, <3>0, HandedEntry DEF Entry
      <4>3. QED BY <1>1, <4>1, <4>2, LogGrows
    <3>2. /\ deferred' = deferred /\ ~Failing(t)
          /\ IsFailed(t)' <=> ~ok
          /\ ~IsReturned(t)'
          /\ ~ok => thread'[t].seq = m /\ thread'[t].kind = thread[t].kind
      BY <2>5, <3>0 DEF Hands, IsFailed, IsReturned, Failing
    <3>3. m # 0 /\ \A i \in Events : log[i].seq # m
      BY <1>0, <2>5, <3>0 DEF Hands, Apart, IsSending, NumbersTaken
    <3> HIDE DEF new
    <3>4. \A n, kind : RefusedAs(n, kind) => RefusedAs(n, kind)' /\ n # m
      BY <1>0, <3>1, <3>3 DEF RefusedAs
    <3>5. ASSUME ~ok PROVE \E i \in Refused' : log'[i].seq = m /\ log'[i].kind = thread[t].kind
      BY <3>1, <3>5
    <3>6. Unreported(m)
      BY <1>0, <3>3 DEF Reported, Unreported
    <3>7. \A n : /\ Unreported(n)' <=> Unreported(n)
                 /\ Once(n)' <=> Once(n)
                 /\ Twice(n)' <=> Twice(n)
      BY <1>0, <3>1 DEF Unreported, Once, Twice
    <3>8. NoSilentLoss'
      <4>1. \A u \in Threads : IsFailed(u) => u # t /\ IsFailed(u)' /\ thread'[u].seq = thread[u].seq
        BY <2>2, <3>2 DEF Failing
      <4>2. ~ok => IsFailed(t)' /\ thread'[t].seq = m
        BY <3>2
      <4>3. QED BY <1>0, <3>1, <3>2, <4>1, <4>2 DEF NoSilentLoss, IsFailed
    <3>9. Reported'
      <4>1. Once(m) /\ Twice(m)
        BY <3>6 DEF Unreported, Once, Twice
      <4>2. QED BY <1>0, <3>1, <3>7, <4>1 DEF Reported
    <3>10. FailedKnown'
      <4>1. /\ \A u \in Threads : Failing(u) => thread[u].seq # m
            /\ deferred # m
        BY <1>0, <3>3, <3>4 DEF FailedKnown, DeferredKnown
      <4>2. QED
        BY <1>0, <2>2, <3>1, <3>2, <3>4, <3>5, <3>6, <3>7, <4>1 DEF FailedKnown, Failing, RefusedAs
    <3>11. DeferredKnown'
      BY <1>0, <3>2, <3>4, <3>7 DEF DeferredKnown
    <3>12. QED BY <1>0, <3>8, <3>9, <3>10, <3>11 DEF LossInv
  <2>6. CASE Defers(t) \/ DefersAgain(t)
    <3>1. /\ log' = log /\ Failing(t) /\ ~IsFailed(t)' /\ (Failing(t)' <=> IsReturned(t)')
          /\ deferred' = IF deferred = 0 THEN thread[t].seq ELSE deferred
          /\ IsReturned(t)' => IsFailed(t) /\ thread[t].kind \in ObjectKinds
                               /\ thread'[t].seq = thread[t].seq /\ thread'[t].kind = thread[t].kind
          /\ IsFailed(t) \/ IsReturned(t)
      BY <2>6 DEF Defers, DefersAgain, DeferError, IsFailed, IsReturned, Failing
    <3>2. deferred' # 0
      BY <1>1, <3>1
    <3>3. NoSilentLoss'
      BY <1>0, <2>3, <3>1, <3>2 DEF NoSilentLoss
    <3>4. \A n : Unreported(n) => Once(n)
      BY DEF Unreported, Once
    <3>5. FailedKnown'
      BY <1>0, <2>2, <2>3, <3>1, <3>4 DEF FailedKnown, Failing
    <3>6. DeferredKnown'
      <4>1. CASE deferred = 0
        <5>1. /\ RefusedAs(thread[t].seq, thread[t].kind) /\ thread[t].kind \in Kinds
              /\ Once(thread[t].seq)
              /\ thread[t].kind \in ObjectKinds \/ Unreported(thread[t].seq)
          BY <1>0, <1>1, <3>1, <3>4 DEF FailedKnown
        <5>2. QED BY <2>3, <3>1, <4>1, <5>1 DEF DeferredKnown
      <4>2. CASE deferred # 0
        BY <1>0, <2>3, <3>1, <4>2 DEF DeferredKnown
      <4>3. QED BY <4>1, <4>2
    <3>7. QED BY <1>0, <2>3, <3>1, <3>3, <3>5, <3>6 DEF LossInv
  <2>7. CASE Ends(t)
    <3> DEFINE new == Len(log) + 1
    <3>1. /\ log'[new].seq = deferred /\ (deferred # 0 => ~log'[new].ok)
          /\ \A i \in DOMAIN log : i \in Nat /\ i < new /\ log'[i] = log[i]
          /\ Finishes' = Finishes \cup {new}
          /\ Refused' = Refused
      <4>1. log' = Append(log, FinishEntry(t))
        BY <2>7 DEF Ends
      <4>2. /\ FinishEntry(t) \in LogEntry /\ FinishEntry(t).kind = "finish"
            /\ FinishEntry(t).seq = deferred /\ (deferred # 0 => ~FinishEntry(t).ok)
        BY <1>0, EndEntry DEF FinishEntry
      <4>3. QED BY <1>1, <4>1, <4>2, LogGrows
    <3>2. deferred' = 0 /\ ~Failing(t) /\ ~Failing(t)'
      BY <2>7 DEF Ends, IsFailed, IsReturned, Failing
    <3> HIDE DEF new
    <3>3. \A n, kind : RefusedAs(n, kind) => RefusedAs(n, kind)'
      BY <1>0, <3>1 DEF RefusedAs
    <3>4. NoSilentLoss'
      BY <1>0, <2>2, <3>1, <3>2 DEF NoSilentLoss, IsFailed, Failing
    <3>5. \A n : /\ Unreported(n) => Once(n)'
                 /\ Once(n) => Twice(n)'
                 /\ n # deferred /\ Unreported(n) => Unreported(n)'
                 /\ n # deferred /\ Once(n) => Once(n)'
                 /\ n # deferred /\ Twice(n) => Twice(n)'
      BY <1>0, <3>1 DEF Unreported, Once, Twice
    <3>6. Reported'
      <4>1. \A j \in Finishes' : log'[j].seq # 0 => \E i \in Refused' : i < j /\ log'[i].seq = log'[j].seq
        BY <1>0, <3>1 DEF Reported, DeferredKnown, RefusedAs
      <4>2. ASSUME NEW i \in Refused, NEW n, n = log[i].seq
            PROVE  Twice(n)' /\ (log[i].kind \in ObjectKinds \/ Once(n)')
        <5>1. CASE n # deferred
          BY <1>0, <3>5, <4>2, <5>1 DEF Reported
        <5>2. CASE n = deferred
          <6>1. deferred # 0
            <7>1. next_event - 1 \in Int
              BY <1>0, RuntimeAssumption DEF TypeOK
            <7>2. i \in Events /\ log[i].seq \in 1..(next_event - 1)
              BY <1>0 DEF Apart
            <7>3. QED BY <4>2, <5>2, <7>1, <7>2
          <6>2. PICK kind \in Kinds : /\ RefusedAs(deferred, kind)
                                      /\ Once(deferred)
                                      /\ kind \in ObjectKinds \/ Unreported(deferred)
            BY <1>0, <6>1 DEF DeferredKnown
          <6>3. log[i].kind = kind
            BY <1>0, <4>2, <5>2, <6>2 DEF RefusedAs, Apart
          <6>4. QED BY <3>5, <5>2, <6>2, <6>3
        <5>3. QED BY <5>1, <5>2
      <4>3. QED BY <1>0, <3>1, <4>1, <4>2 DEF Reported
    <3>7. FailedKnown' /\ DeferredKnown'
      <4>1. DeferredKnown'
        BY <3>2 DEF DeferredKnown
      <4>2. FailedKnown'
        BY <1>0, <1>1, <2>2, <3>2, <3>3, <3>5 DEF FailedKnown, Failing
      <4>3. QED BY <4>1, <4>2
    <3>8. QED BY <1>0, <3>4, <3>6, <3>7 DEF LossInv
  <2>8. QED BY <2>1, <2>4, <2>5, <2>6, <2>7
<1>4. QED BY <1>2, <1>3

LEMMA LossInvariant == Spec => []LossInv
BY LossInit, LossStep, PTL DEF Spec

\* An event the sink refused is never forgotten: its thread is about to defer
\* the error, an error is deferred, or a later finish has returned Err
\* (RuntimeContext::emit_deferred, defer_error, finish).
THEOREM RefusalsAreReported == Spec => []NoSilentLoss
<1>1. LossInv => NoSilentLoss
  BY DEF LossInv
<1>2. QED BY <1>1, LossInvariant, PTL

\* A finish that returns a deferred error returns that of an event refused
\* before it.  The error of one call of emit is returned by one finish at most
\* (take in finish), that of a call of emit_deferred by two at most: each time it
\* is deferred only while none is, and it is deferred twice.
THEOREM FinishesReportRefusals == Spec => []FinishReportsRefusal
<1>1. LossInv => FinishReportsRefusal
  <2>1. SUFFICES ASSUME LossInv PROVE FinishReportsRefusal
    OBVIOUS
  <2>2. Reported
    BY <2>1 DEF LossInv
  <2>3. ASSUME NEW i \in Refused
        PROVE  /\ AtMostTwo(Reports(log[i].seq))
               /\ log[i].kind \notin ObjectKinds => AtMostOne(Reports(log[i].seq))
    <3>1. Twice(log[i].seq) /\ (log[i].kind \in ObjectKinds \/ Once(log[i].seq))
      BY <2>2 DEF Reported
    <3>2. QED BY <3>1 DEF Once, Twice, AtMostOne, AtMostTwo, Reports
  <2>4. QED BY <2>2, <2>3 DEF Reported, FinishReportsRefusal
<1>2. QED BY <1>1, LossInvariant, PTL

-----------------------------------------------------------------------------
(* What a step does to the tokens and the objects. *)

Held(t) == thread[t].at \in {"checked", "sending"}
Busy(t) == thread[t].at \in {"checked", "sending", "failed", "returned"}

\* A thread starts a call of kind k on o; nothing is in the log yet.
Starts(t, k, o) ==
    /\ ~Busy(t) /\ Held(t)' /\ Busy(t)'
    /\ thread'[t].kind = k /\ thread'[t].of = o
    /\ log' = log

TokenCall(t, c) ==
    \/ /\ Starts(t, "register", c)
       /\ token[c] = "fresh" /\ token' = [token EXCEPT ![c] = "registering"]
    \/ /\ Starts(t, "bind", c) \/ Starts(t, "invoke", c)
       /\ token[c] = "retained" /\ token' = token
    \/ /\ Starts(t, "unregister", c)
       /\ token[c] = "retained" /\ token' = [token EXCEPT ![c] = "released"]

ObjectCall(t, o) ==
    \/ /\ Starts(t, "create", o)
       /\ object[o] = "fresh" /\ object' = [object EXCEPT ![o] = "creating"]
    \/ /\ Starts(t, "use", o)
       /\ object[o] = "alive" /\ object' = object
    \/ /\ Starts(t, "drop", o)
       /\ object[o] = "alive" /\ object' = [object EXCEPT ![o] = "dropped"]

PlainCall(t) == Starts(t, "marker", "none") \/ Starts(t, "end", "none")

Opens(t) ==
    \/ (\E c \in Tokens : TokenCall(t, c)) /\ object' = object
    \/ (\E o \in Objects : ObjectCall(t, o)) /\ token' = token
    \/ PlainCall(t) /\ UNCHANGED <<token, object>>

SameCall(t) == thread'[t].kind = thread[t].kind /\ thread'[t].of = thread[t].of

Resumes(t) ==
    /\ Held(t)' = Held(t) /\ Busy(t) /\ Busy(t)' /\ SameCall(t)
    /\ UNCHANGED <<token, object, log>>

Accepts(t) ==
    /\ Held(t) /\ Busy(t) /\ ~Held(t)' /\ ~Busy(t)'
    /\ log' = Append(log, Entry(t, TRUE))
    /\ Return(t, TRUE)

Refuses(t) ==
    /\ Held(t) /\ Busy(t) /\ ~Held(t)' /\ Busy(t)' /\ SameCall(t)
    /\ log' = Append(log, Entry(t, FALSE))
    /\ UNCHANGED <<token, object>>

GivesUp(t) ==
    /\ ~Held(t) /\ Busy(t) /\ ~Held(t)' /\ ~Busy(t)'
    /\ Return(t, FALSE)
    /\ log' = log

Flushes(t) ==
    /\ ~Busy(t) /\ ~Held(t) /\ ~Busy(t)' /\ ~Held(t)'
    /\ log' = log \/ log' = Append(log, FinishEntry(t))
    /\ UNCHANGED <<token, object>>

LEMMA CallStarts ==
    ASSUME TypeOK, NEW t \in Threads, IsIdle(t), log' = log, NEW k, NEW o, NEW n,
           Number(t, k, o, n) \/ Check(t, k, o, n)
    PROVE  (\A u \in Threads \ {t} : thread'[u] = thread[u]) /\ Starts(t, k, o)
BY DEF TypeOK, IsIdle, Number, Check, Starts, Held, Busy

LEMMA CallSteps ==
    ASSUME TypeOK, NEW t \in Threads, Call(t)
    PROVE  (\A u \in Threads \ {t} : thread'[u] = thread[u]) /\ Opens(t)
<1>1. ASSUME NEW c \in Tokens, Register(t, c)
      PROVE  (\A u \in Threads \ {t} : thread'[u] = thread[u]) /\ TokenCall(t, c) /\ object' = object
  BY <1>1, CallStarts DEF Register, TokenCall
<1>2. ASSUME NEW c \in Tokens, RetainedCall(t, c, "bind") \/ RetainedCall(t, c, "invoke")
      PROVE  (\A u \in Threads \ {t} : thread'[u] = thread[u]) /\ TokenCall(t, c) /\ object' = object
  BY <1>2, CallStarts DEF RetainedCall, TokenCall
<1>3. ASSUME NEW c \in Tokens, Release(t, c)
      PROVE  (\A u \in Threads \ {t} : thread'[u] = thread[u]) /\ TokenCall(t, c) /\ object' = object
  BY <1>3, CallStarts DEF Release, TokenCall
<1>4. ASSUME NEW o \in Objects, Create(t, o) \/ Use(t, o) \/ DropObject(t, o)
      PROVE  (\A u \in Threads \ {t} : thread'[u] = thread[u]) /\ ObjectCall(t, o) /\ token' = token
  BY <1>4, CallStarts DEF Create, Use, DropObject, ObjectCall
<1>5. ASSUME Mark(t) \/ TraceEnd(t)
      PROVE  (\A u \in Threads \ {t} : thread'[u] = thread[u]) /\ PlainCall(t)
             /\ UNCHANGED <<token, object>>
  BY <1>5, CallStarts DEF Mark, TraceEnd, PlainCall
<1>6. QED
  BY <1>1, <1>2, <1>3, <1>4, <1>5 DEF Call, Opens

LEMMA Steps ==
    ASSUME TypeOK, Next
    PROVE  \E t \in Threads :
               /\ \A u \in Threads \ {t} : thread'[u] = thread[u]
               /\ Opens(t) \/ Resumes(t) \/ Accepts(t) \/ Refuses(t) \/ GivesUp(t) \/ Flushes(t)
<1>1. PICK t \in Threads : Call(t) \/ Emit(t) \/ (\E ok \in BOOLEAN : Flush(t, ok)) \/ Finish(t)
  BY DEF Next
<1>2. thread \in [Threads -> CallState]
  BY DEF TypeOK
<1>3. CASE Call(t)
  BY <1>3, CallSteps
<1>4. CASE TakeSeq(t)
  <2>1. Resumes(t) BY <1>2, <1>4 DEF TakeSeq, Number, Resumes, Held, Busy, SameCall
  <2>2. \A u \in Threads \ {t} : thread'[u] = thread[u] BY <1>2, <1>4 DEF TakeSeq, Number
  <2>3. QED BY <2>1, <2>2
<1>5. CASE Deliver(t)
  BY <1>2, <1>5 DEF Deliver, Accepts, Held, Busy, Idle
<1>6. CASE Refuse(t)
  <2>1. thread' = [thread EXCEPT ![t] = [thread[t] EXCEPT !.at = "failed"]]
    BY <1>2, <1>6 DEF Refuse
  <2>2. thread'[t] = [thread[t] EXCEPT !.at = "failed"] /\ \A u \in Threads \ {t} : thread'[u] = thread[u]
    BY <1>2, <2>1
  <2>3. thread'[t].at = "failed" /\ SameCall(t)
    BY <1>2, <2>2 DEF CallState, SameCall
  <2>4. QED BY <1>6, <2>2, <2>3 DEF Refuse, Refuses, Held, Busy
<1>7. CASE Defer(t) /\ thread[t].kind \in ObjectKinds
  <2>1. thread' = [thread EXCEPT ![t] = [thread[t] EXCEPT !.at = "returned"]]
    BY <1>2, <1>7 DEF Defer
  <2>2. thread'[t] = [thread[t] EXCEPT !.at = "returned"] /\ \A u \in Threads \ {t} : thread'[u] = thread[u]
    BY <1>2, <2>1
  <2>3. thread'[t].at = "returned" /\ SameCall(t)
    BY <1>2, <2>2 DEF CallState, SameCall
  <2>4. Resumes(t) BY <1>7, <2>3 DEF Defer, Resumes, Held, Busy
  <2>5. QED BY <2>2, <2>4
<1>11. CASE (Defer(t) /\ thread[t].kind \notin ObjectKinds) \/ DeferAgain(t)
  <2>1. thread' = [thread EXCEPT ![t] = Idle] /\ Return(t, FALSE) /\ log' = log
    BY <1>11 DEF Defer, DeferAgain, Done
  <2>2. thread'[t].at = "idle" /\ \A u \in Threads \ {t} : thread'[u] = thread[u]
    BY <1>2, <2>1 DEF Idle
  <2>3. thread[t].at \in {"failed", "returned"}
    BY <1>11 DEF Defer, DeferAgain
  <2>4. GivesUp(t)
    BY <2>1, <2>2, <2>3 DEF GivesUp, Held, Busy
  <2>5. QED BY <2>2, <2>4
<1>8. CASE \E ok \in BOOLEAN : Flush(t, ok)
  <2>1. PICK ok \in BOOLEAN : Flush(t, ok) BY <1>8
  <2>2. thread' = [thread EXCEPT ![t] = [thread[t] EXCEPT !.at = IF ok THEN "flushed" ELSE "flush_failed"]]
    BY <1>2, <2>1 DEF Flush
  <2>3. thread'[t].at = (IF ok THEN "flushed" ELSE "flush_failed")
        /\ \A u \in Threads \ {t} : thread'[u] = thread[u]
    BY <1>2, <2>2 DEF CallState
  <2>4. QED BY <2>1, <2>3 DEF Flush, IsIdle, Flushes, Held, Busy
<1>9. CASE Finish(t)
  BY <1>2, <1>9 DEF Finish, Flushes, FinishEntry, Held, Busy, Idle
<1>12. QED
  BY <1>1, <1>3, <1>4, <1>5, <1>6, <1>7, <1>11, <1>8, <1>9 DEF Emit

\* What the log holds after a step: what it held, and at most one new entry.
LEMMA LogStep ==
    ASSUME TypeOK, NEW t \in Threads, NEW ok \in BOOLEAN, log' = Append(log, Entry(t, ok))
    PROVE  \E new \in Nat :
               /\ \A i \in Events : i \in Nat /\ i < new /\ log'[i] = log[i]
               /\ Events' = Events \cup {new} /\ Accepted' = IF ok THEN Accepted \cup {new} ELSE Accepted
               /\ log'[new].kind = thread[t].kind /\ log'[new].of = thread[t].of
<1>1. log \in Seq(LogEntry) /\ Len(log) + 1 \in Nat
  BY DEF TypeOK
<1>2. /\ Entry(t, ok) \in LogEntry /\ Entry(t, ok).kind # "finish" /\ Entry(t, ok).ok = ok
      /\ Entry(t, ok).kind = thread[t].kind /\ Entry(t, ok).of = thread[t].of
  BY HandedEntry DEF Entry
<1>3. LET new == Len(log) + 1 IN
          /\ log'[new] = Entry(t, ok)
          /\ \A i \in DOMAIN log : i \in Nat /\ i < new /\ log'[i] = log[i]
          /\ Events' = Events \cup {new} /\ Accepted' = IF ok THEN Accepted \cup {new} ELSE Accepted
  BY <1>1, <1>2, LogGrows
<1>4. QED BY <1>1, <1>2, <1>3 DEF Events

LEMMA EventsKept ==
    ASSUME TypeOK, NEW t \in Threads, log' = log \/ log' = Append(log, FinishEntry(t))
    PROVE  /\ \A i \in Events : log'[i] = log[i]
           /\ Events' = Events /\ Accepted' = Accepted
<1>1. CASE log' = log
  BY <1>1 DEF Events, Accepted
<1>2. CASE log' = Append(log, FinishEntry(t))
  <2>1. log \in Seq(LogEntry) /\ FinishEntry(t) \in LogEntry /\ FinishEntry(t).kind = "finish"
    BY EndEntry DEF TypeOK, FinishEntry
  <2>2. QED BY <1>2, <2>1, LogGrows DEF Events
<1>3. QED BY <1>1, <1>2

-----------------------------------------------------------------------------
(* The trace introduces what it names. *)

Registered(c) == \E j \in Accepted : log[j].kind = "register" /\ log[j].of = c
Created(o) == \E j \in Events : log[j].kind = "create" /\ log[j].of = o

Introduced ==
    /\ \A c \in Tokens : token[c] \in {"retained", "released"} => Registered(c)
    /\ \A o \in Objects : object[o] \in {"alive", "dropped"} => Created(o)
    /\ \A t \in Threads : Busy(t) /\ thread[t].kind \in {"bind", "invoke", "unregister"}
           => Registered(thread[t].of)
    /\ \A t \in Threads : Busy(t) /\ thread[t].kind \in {"use", "drop"} => Created(thread[t].of)
    /\ \A t \in Threads : Busy(t) /\ ~Held(t) /\ thread[t].kind = "create" => Created(thread[t].of)

IntroducedInv == Typed /\ Introduced /\ IntroducedFirst

LEMMA IntroducedInit == Init => IntroducedInv
<1> SUFFICES ASSUME Init PROVE IntroducedInv
  OBVIOUS
<1>1. /\ Events = {} /\ \A t \in Threads : ~Busy(t)
      /\ \A c \in Tokens : token[c] = "fresh"
      /\ \A o \in Objects : object[o] = "fresh"
  BY DEF Init, Events, Idle, Busy
<1>2. Introduced /\ IntroducedFirst
  BY <1>1 DEF Introduced, IntroducedFirst
<1>3. QED BY <1>2, TypeInit DEF IntroducedInv

LEMMA IntroducedStep == IntroducedInv /\ [Next]_vars => IntroducedInv'
<1> SUFFICES ASSUME IntroducedInv, [Next]_vars PROVE IntroducedInv'
  OBVIOUS
<1>1. TypeOK /\ Typed /\ Typed' /\ Introduced /\ IntroducedFirst /\ Accepted \subseteq Events
      /\ token \in [Tokens -> {"fresh", "registering", "retained", "released", "lost"}]
      /\ object \in [Objects -> {"fresh", "creating", "alive", "dropped"}]
  BY TypeStep DEF IntroducedInv, Typed, TypeOK, Accepted
<1>2. /\ TokenKinds \ {"register"} = {"bind", "invoke", "unregister"}
      /\ ObjectKinds \ {"create"} = {"use", "drop"}
  BY DEF TokenKinds, ObjectKinds
<1>3. CASE UNCHANGED vars
  BY <1>1, <1>3 DEF vars, IntroducedInv, Introduced, IntroducedFirst, Registered, Created,
                    Held, Busy, Events, Accepted
<1>4. CASE Next
  <2>1. PICK t \in Threads :
            /\ \A u \in Threads \ {t} : thread'[u] = thread[u]
            /\ Opens(t) \/ Resumes(t) \/ Accepts(t) \/ Refuses(t) \/ GivesUp(t) \/ Flushes(t)
    BY <1>1, <1>4, Steps
  <2>2. \A u \in Threads \ {t} :
            Busy(u)' = Busy(u) /\ Held(u)' = Held(u) /\ thread'[u].kind = thread[u].kind /\ thread'[u].of = thread[u].of
    BY <2>1 DEF Busy, Held
  <2>3. ASSUME Opens(t) \/ Resumes(t) \/ GivesUp(t) \/ Flushes(t) PROVE IntroducedFirst'
    <3>1. log' = log \/ log' = Append(log, FinishEntry(t))
      BY <2>3 DEF Opens, TokenCall, ObjectCall, PlainCall, Starts, Resumes, GivesUp, Flushes
    <3>2. QED BY <1>1, <3>1, EventsKept DEF IntroducedFirst
  <2>4. ASSUME log' = log \/ log' = Append(log, FinishEntry(t))
        PROVE  /\ \A c : Registered(c)' <=> Registered(c)
               /\ \A o : Created(o)' <=> Created(o)
    BY <1>1, <2>4, EventsKept DEF Registered, Created
  <2>5. CASE Opens(t)
    <3>1. log' = log /\ ~Busy(t) /\ Held(t)'
      BY <2>5 DEF Opens, TokenCall, ObjectCall, PlainCall, Starts
    <3>2. /\ \A c : Registered(c)' <=> Registered(c)
          /\ \A o : Created(o)' <=> Created(o)
      BY <2>4, <3>1
    <3>3. ASSUME NEW c \in Tokens, TokenCall(t, c), object' = object PROVE Introduced'
      BY <1>1, <2>2, <3>1, <3>2, <3>3 DEF Introduced, TokenCall, Starts
    <3>4. ASSUME NEW o \in Objects, ObjectCall(t, o), token' = token PROVE Introduced'
      BY <1>1, <2>2, <3>1, <3>2, <3>4 DEF Introduced, ObjectCall, Starts
    <3>5. ASSUME PlainCall(t), UNCHANGED <<token, object>> PROVE Introduced'
      BY <1>1, <2>2, <3>1, <3>2, <3>5 DEF Introduced, PlainCall, Starts
    <3>6. QED BY <1>1, <2>3, <2>5, <3>3, <3>4, <3>5 DEF Opens, IntroducedInv
  <2>6. CASE Resumes(t)
    <3>1. Introduced'
      BY <1>1, <2>2, <2>4, <2>6 DEF Introduced, Resumes, SameCall
    <3>2. QED BY <1>1, <2>3, <2>6, <3>1 DEF IntroducedInv
  <2>7. ASSUME NEW ok \in BOOLEAN, log' = Append(log, Entry(t, ok)), Held(t), Busy(t)
        PROVE  /\ IntroducedFirst'
               /\ \A c : Registered(c) => Registered(c)'
               /\ \A o : Created(o) => Created(o)'
               /\ \A c : thread[t].kind = "register" /\ ok /\ thread[t].of = c => Registered(c)'
               /\ \A o : thread[t].kind = "create" /\ thread[t].of = o => Created(o)'
    <3>1. PICK new \in Nat :
              /\ \A i \in Events : i \in Nat /\ i < new /\ log'[i] = log[i]
              /\ Events' = Events \cup {new} /\ Accepted' = IF ok THEN Accepted \cup {new} ELSE Accepted
              /\ log'[new].kind = thread[t].kind /\ log'[new].of = thread[t].of
      BY <1>1, <2>7, LogStep
    <3>2. /\ \A c : Registered(c) => Registered(c)'
          /\ \A o : Created(o) => Created(o)'
      BY <1>1, <3>1 DEF Registered, Created
    <3>3. /\ \A c : thread[t].kind = "register" /\ ok /\ thread[t].of = c => Registered(c)'
          /\ \A o : thread[t].kind = "create" /\ thread[t].of = o => Created(o)'
      BY <3>1 DEF Registered, Created
    <3>4. IntroducedFirst'
      <4>1. SUFFICES ASSUME NEW i \in Events'
                     PROVE  /\ log'[i].kind \in {"bind", "invoke", "unregister"} =>
                                 \E j \in Accepted' : j < i /\ log'[j].kind = "register" /\ log'[j].of = log'[i].of
                            /\ log'[i].kind \in {"use", "drop"} =>
                                 \E j \in Events' : j < i /\ log'[j].kind = "create" /\ log'[j].of = log'[i].of
        BY <1>2 DEF IntroducedFirst
      <4>2. CASE i \in Events
        BY <1>1, <1>2, <3>1, <4>2 DEF IntroducedFirst
      <4>3. CASE i = new
        <5>1. /\ log'[i].kind \in {"bind", "invoke", "unregister"} => Registered(log'[i].of)
              /\ log'[i].kind \in {"use", "drop"} => Created(log'[i].of)
          BY <1>1, <2>7, <3>1, <4>3 DEF Introduced
        <5>2. QED BY <1>1, <3>1, <4>3, <5>1 DEF Registered, Created
      <4>4. QED BY <3>1, <4>2, <4>3
    <3>5. QED BY <3>2, <3>3, <3>4
  <2>8. CASE Accepts(t)
    <3>1. Introduced'
      BY <1>1, <2>2, <2>7, <2>8 DEF Introduced, Accepts, Return
    <3>2. QED BY <1>1, <2>7, <2>8, <3>1 DEF Accepts, IntroducedInv
  <2>9. CASE Refuses(t)
    <3>1. Introduced'
      BY <1>1, <2>2, <2>7, <2>9 DEF Introduced, Refuses, SameCall
    <3>2. QED BY <1>1, <2>7, <2>9, <3>1 DEF Refuses, IntroducedInv
  <2>10. CASE GivesUp(t)
    <3>1. Busy(t) /\ ~Held(t) /\ ~Busy(t)' /\ log' = log
      BY <2>10 DEF GivesUp, Busy
    <3>2. Introduced'
      BY <1>1, <2>2, <2>4, <2>10, <3>1 DEF Introduced, GivesUp, Return
    <3>3. QED BY <1>1, <2>3, <2>10, <3>2 DEF IntroducedInv
  <2>11. CASE Flushes(t)
    <3>1. Introduced'
      BY <1>1, <2>2, <2>4, <2>11 DEF Introduced, Flushes
    <3>2. QED BY <1>1, <2>3, <2>11, <3>1 DEF IntroducedInv
  <2>12. QED BY <2>1, <2>5, <2>6, <2>8, <2>9, <2>10, <2>11
<1>5. QED BY <1>3, <1>4

\* An event of a callback follows its registration in the sink, an event of an
\* object the creation handed to it, whichever threads emit them and whatever
\* the sink refuses (CallbackToken::register, require_retained, Tracked::new).
THEOREM EventsAreIntroduced == Spec => []IntroducedFirst
<1>1. Spec => []IntroducedInv
  BY IntroducedInit, IntroducedStep, PTL DEF Spec
<1>2. IntroducedInv => IntroducedFirst
  BY DEF IntroducedInv
<1>3. QED BY <1>1, <1>2, PTL

-----------------------------------------------------------------------------
(* One unregistration of a callback.  Until its event is handed over, it is  *)
(* with the one thread that found the token retained and set it released.    *)

Unregistered(c) == \E i \in Events : log[i].kind = "unregister" /\ log[i].of = c

Releasing(t, c) == Held(t) /\ thread[t].kind = "unregister" /\ thread[t].of = c
Registering(t, c) == Busy(t) /\ thread[t].kind = "register" /\ thread[t].of = c

ReleaseInHand ==
    /\ \A c \in Tokens : \A t \in Threads : Releasing(t, c) => token[c] = "released"
    /\ \A c \in Tokens : Unregistered(c) => token[c] = "released"
    /\ \A t \in Threads, c \in Tokens : Registering(t, c) => token[c] = "registering"
    /\ \A t, u \in Threads, c \in Tokens : Registering(t, c) /\ Registering(u, c) => t = u

OneRelease ==
    /\ \A t \in Threads, c \in Tokens : Releasing(t, c) => ~Unregistered(c)
    /\ \A t, u \in Threads, c \in Tokens : Releasing(t, c) /\ Releasing(u, c) => t = u

\* An unregistration is one of a token.
OfTokens ==
    /\ \A t \in Threads : Held(t) /\ thread[t].kind = "unregister" => thread[t].of \in Tokens
    /\ \A i \in Events : log[i].kind = "unregister" => log[i].of \in Tokens

ReleaseInv == Typed /\ ReleaseInHand /\ OneRelease /\ OfTokens /\ ReleaseOnce

LEMMA ReleaseInit == Init => ReleaseInv
<1> SUFFICES ASSUME Init PROVE ReleaseInv
  OBVIOUS
<1>1. Events = {} /\ \A t \in Threads : ~Busy(t) /\ ~Held(t)
  BY DEF Init, Events, Idle, Busy, Held
<1>2. ReleaseInHand /\ OneRelease /\ OfTokens /\ ReleaseOnce
  BY <1>1 DEF ReleaseInHand, OneRelease, OfTokens, ReleaseOnce, Unregistered, Releasing, Registering
<1>3. QED BY <1>2, TypeInit DEF ReleaseInv

LEMMA ReleaseStep == ReleaseInv /\ [Next]_vars => ReleaseInv'
<1> SUFFICES ASSUME ReleaseInv, [Next]_vars PROVE ReleaseInv'
  OBVIOUS
<1> DEFINE Goal == ReleaseInHand /\ OneRelease /\ OfTokens
<1>1. TypeOK /\ Typed /\ Typed' /\ ReleaseInHand /\ OneRelease /\ OfTokens /\ ReleaseOnce
      /\ token \in [Tokens -> {"fresh", "registering", "retained", "released", "lost"}]
  BY TypeStep DEF ReleaseInv, Typed, TypeOK
<1>2. CASE UNCHANGED vars
  BY <1>1, <1>2 DEF vars, ReleaseInv, ReleaseInHand, OneRelease, OfTokens, ReleaseOnce,
                    Unregistered, Releasing, Registering, Held, Busy, Events
<1>3. CASE Next
  <2>1. PICK t \in Threads :
            /\ \A u \in Threads \ {t} : thread'[u] = thread[u]
            /\ Opens(t) \/ Resumes(t) \/ Accepts(t) \/ Refuses(t) \/ GivesUp(t) \/ Flushes(t)
    BY <1>1, <1>3, Steps
  <2>2. \A u \in Threads \ {t} :
            /\ Held(u)' = Held(u) /\ thread'[u].kind = thread[u].kind /\ thread'[u].of = thread[u].of
            /\ \A c : Releasing(u, c)' <=> Releasing(u, c)
            /\ \A c : Registering(u, c)' <=> Registering(u, c)
    BY <2>1 DEF Busy, Held, Releasing, Registering
  <2>3. ASSUME log' = log \/ log' = Append(log, FinishEntry(t))
        PROVE  /\ ReleaseOnce'
               /\ \A c : Unregistered(c)' <=> Unregistered(c)
               /\ \A i \in Events' : log'[i].kind = "unregister" => log'[i].of \in Tokens
    BY <1>1, <2>3, EventsKept DEF ReleaseOnce, Unregistered, OfTokens
  <2>4. CASE Opens(t)
    <3>1. /\ log' = log
          /\ \A c : ~Releasing(t, c) /\ ~Registering(t, c)
          /\ \A c : Releasing(t, c)' <=> thread'[t].kind = "unregister" /\ thread'[t].of = c
          /\ \A c : Registering(t, c)' <=> thread'[t].kind = "register" /\ thread'[t].of = c
      BY <2>4 DEF Opens, TokenCall, ObjectCall, PlainCall, Starts, Releasing, Registering, Held, Busy
    <3>2. /\ ReleaseOnce' /\ \A c : Unregistered(c)' <=> Unregistered(c)
          /\ \A i \in Events' : log'[i].kind = "unregister" => log'[i].of \in Tokens
      BY <2>3, <3>1
    <3>3. ASSUME NEW d \in Tokens, TokenCall(t, d) PROVE Goal'
      <4>1. CASE Starts(t, "register", d)
        <5>1. token[d] = "fresh" /\ token'[d] = "registering" /\ \A c \in Tokens \ {d} : token'[c] = token[c]
          BY <1>1, <3>3, <4>1 DEF TokenCall, Starts
        <5>2. QED BY <1>1, <2>2, <3>1, <3>2, <4>1, <5>1 DEF ReleaseInHand, OneRelease, OfTokens, Starts
      <4>2. CASE Starts(t, "bind", d) \/ Starts(t, "invoke", d)
        <5>1. token' = token
          BY <3>3, <4>2 DEF TokenCall, Starts
        <5>2. QED BY <1>1, <2>2, <3>1, <3>2, <4>2, <5>1 DEF ReleaseInHand, OneRelease, OfTokens, Starts
      <4>3. CASE Starts(t, "unregister", d)
        <5>1. token[d] = "retained" /\ token'[d] = "released" /\ \A c \in Tokens \ {d} : token'[c] = token[c]
          BY <1>1, <3>3, <4>3 DEF TokenCall, Starts
        <5>2. QED BY <1>1, <2>2, <3>1, <3>2, <4>3, <5>1 DEF ReleaseInHand, OneRelease, OfTokens, Starts
      <4>4. QED BY <3>3, <4>1, <4>2, <4>3 DEF TokenCall
    <3>4. ASSUME NEW o \in Objects, ObjectCall(t, o), token' = token PROVE Goal'
      BY <1>1, <2>2, <3>1, <3>2, <3>4 DEF ObjectCall, Starts, ReleaseInHand, OneRelease, OfTokens
    <3>5. ASSUME PlainCall(t), token' = token PROVE Goal'
      BY <1>1, <2>2, <3>1, <3>2, <3>5 DEF PlainCall, Starts, ReleaseInHand, OneRelease, OfTokens
    <3>6. QED BY <1>1, <2>4, <3>2, <3>3, <3>4, <3>5 DEF Opens, ReleaseInv
  <2>5. CASE Resumes(t)
    <3>1. /\ log' = log /\ token' = token
          /\ \A c : (Releasing(t, c)' <=> Releasing(t, c)) /\ (Registering(t, c)' <=> Registering(t, c))
          /\ Held(t)' = Held(t) /\ thread'[t].kind = thread[t].kind /\ thread'[t].of = thread[t].of
      BY <2>5 DEF Resumes, SameCall, Releasing, Registering
    <3>2. Goal'
      BY <1>1, <2>2, <2>3, <3>1 DEF ReleaseInHand, OneRelease, OfTokens
    <3>3. QED BY <1>1, <2>3, <3>1, <3>2 DEF ReleaseInv
  <2>6. ASSUME NEW ok \in BOOLEAN, log' = Append(log, Entry(t, ok)), Held(t), ~Held(t)'
        PROVE  /\ ReleaseOnce'
               /\ \A c : Unregistered(c)' <=> Unregistered(c) \/ Releasing(t, c)
               /\ OneRelease' /\ OfTokens'
               /\ \A c : ~Releasing(t, c)'
    <3>1. PICK new \in Nat :
              /\ \A i \in Events : i \in Nat /\ i < new /\ log'[i] = log[i]
              /\ Events' = Events \cup {new} /\ Accepted' = IF ok THEN Accepted \cup {new} ELSE Accepted
              /\ log'[new].kind = thread[t].kind /\ log'[new].of = thread[t].of
      BY <1>1, <2>6, LogStep
    <3>2. \A c : Unregistered(c)' <=> Unregistered(c) \/ Releasing(t, c)
      BY <2>6, <3>1 DEF Unregistered, Releasing
    <3>3. OfTokens' /\ \A c : ~Releasing(t, c)'
      <4>1. \A u \in Threads :
                Held(u)' => Held(u) /\ thread'[u].kind = thread[u].kind /\ thread'[u].of = thread[u].of
        BY <2>2, <2>6
      <4>2. ASSUME NEW i \in Events' PROVE log'[i].kind = "unregister" => log'[i].of \in Tokens
        <5>1. i \in Events \/ i = new
          BY <3>1
        <5>2. CASE i \in Events
          BY <1>1, <3>1, <5>2 DEF OfTokens
        <5>3. CASE i = new
          <6>1. thread[t].kind = "unregister" => thread[t].of \in Tokens
            BY <1>1, <2>6 DEF OfTokens
          <6>2. QED BY <3>1, <5>3, <6>1
        <5>4. QED BY <5>1, <5>2, <5>3
      <4>3. OfTokens'
        BY <1>1, <4>1, <4>2 DEF OfTokens
      <4>4. QED BY <2>6, <4>3 DEF Releasing
    <3>4. OneRelease'
      BY <1>1, <2>2, <3>2, <3>3 DEF OneRelease
    <3>5. thread[t].kind = "unregister" =>
              thread[t].of \in Tokens /\ \A i \in Events : ~(log[i].kind = "unregister" /\ log[i].of = thread[t].of)
      BY <1>1, <2>6 DEF OneRelease, OfTokens, Unregistered, Releasing
    <3>6. ReleaseOnce'
      BY <1>1, <3>1, <3>5 DEF ReleaseOnce
    <3>7. QED BY <3>2, <3>3, <3>4, <3>6
  <2>7. CASE Accepts(t)
    <3>1. /\ Held(t) /\ Busy(t) /\ ~Held(t)' /\ log' = Append(log, Entry(t, TRUE))
          /\ \A c : ~Registering(t, c)'
          /\ \A c \in Tokens : token'[c] = IF Registering(t, c) THEN "retained" ELSE token[c]
      BY <1>1, <2>7 DEF Accepts, Return, Registering
    <3>2. /\ \A c : Unregistered(c)' <=> Unregistered(c) \/ Releasing(t, c)
          /\ \A c : ~Releasing(t, c)'
          /\ ReleaseOnce' /\ OneRelease' /\ OfTokens'
      BY <2>6, <3>1
    <3>3. ReleaseInHand'
      BY <1>1, <2>2, <3>1, <3>2 DEF ReleaseInHand
    <3>4. QED BY <1>1, <3>2, <3>3 DEF ReleaseInv
  <2>8. CASE Refuses(t)
    <3>1. /\ Held(t) /\ Busy(t) /\ ~Held(t)' /\ log' = Append(log, Entry(t, FALSE))
          /\ \A c : Registering(t, c)' <=> Registering(t, c)
          /\ token' = token
      BY <2>8 DEF Refuses, Registering, SameCall
    <3>2. /\ \A c : Unregistered(c)' <=> Unregistered(c) \/ Releasing(t, c)
          /\ \A c : ~Releasing(t, c)'
          /\ ReleaseOnce' /\ OneRelease' /\ OfTokens'
      BY <2>6, <3>1
    <3>3. ReleaseInHand'
      BY <1>1, <2>2, <3>1, <3>2 DEF ReleaseInHand
    <3>4. QED BY <1>1, <3>2, <3>3 DEF ReleaseInv
  <2>9. CASE GivesUp(t)
    <3>1. /\ ~Held(t) /\ ~Held(t)' /\ log' = log
          /\ \A c : ~Registering(t, c)' /\ ~Releasing(t, c) /\ ~Releasing(t, c)'
          /\ \A c \in Tokens : token'[c] = IF Registering(t, c) THEN "lost" ELSE token[c]
      BY <1>1, <2>9 DEF GivesUp, Busy, Return, Registering, Releasing
    <3>2. Goal'
      BY <1>1, <2>2, <2>3, <3>1 DEF ReleaseInHand, OneRelease, OfTokens
    <3>3. QED BY <1>1, <2>3, <3>1, <3>2 DEF ReleaseInv
  <2>10. CASE Flushes(t)
    <3>1. /\ token' = token /\ ~Held(t) /\ ~Held(t)' /\ (log' = log \/ log' = Append(log, FinishEntry(t)))
          /\ \A c : ~Registering(t, c) /\ ~Registering(t, c)' /\ ~Releasing(t, c) /\ ~Releasing(t, c)'
      BY <2>10 DEF Flushes, Registering, Releasing
    <3>2. Goal'
      BY <1>1, <2>2, <2>3, <3>1 DEF ReleaseInHand, OneRelease, OfTokens
    <3>3. QED BY <1>1, <2>3, <3>1, <3>2 DEF ReleaseInv
  <2>11. QED BY <2>1, <2>4, <2>5, <2>7, <2>8, <2>9, <2>10
<1>4. QED BY <1>2, <1>3

\* At most one unregistration of a callback is handed to the sink, however many
\* threads release its token and whatever the sink refuses (release_with_reason).
THEOREM ReleasesAreOnce == Spec => []ReleaseOnce
<1>1. Spec => []ReleaseInv
  BY ReleaseInit, ReleaseStep, PTL DEF Spec
<1>2. ReleaseInv => ReleaseOnce
  BY DEF ReleaseInv
<1>3. QED BY <1>1, <1>2, PTL
-----------------------------------------------------------------------------
(* The flattened trace is accepted.                                          *)

\* The records that the segments may hold.
RecordKinds == (Kinds \ {"marker"}) \cup {"checkpoint", "start"}
TraceRecord ==
    [record : Nat, run : {"run"}, trace : {"trace"}, seq : Nat, kind : RecordKinds, build : {"build"},
     object : Objects \cup {"owner"}, osite : {"site"}, external : BOOLEAN,
     callback : Instances \cup {"owner"}, csite : {"site"}, count : Nat]

\* A trace has one trace_start, its first record; the owner is created next, and
\* records that are about no object are about the owner.
Opened ==
    /\ segments \in Seq(TraceRecord) /\ Len(segments) >= 2
    /\ \A i \in DOMAIN segments : segments[i].kind = "start" <=> i = 1
    /\ segments[2].kind = "create" /\ segments[2].object = "owner" /\ segments[2].external
    /\ \A i \in DOMAIN segments : segments[i].kind \notin ObjectKinds => segments[i].object = "owner"

\* A record is there once, and so are a creation and a registration.
RecordedOnce ==
    \A i, j \in DOMAIN segments :
        \/ segments[i].record = segments[j].record
        \/ segments[i].kind = "create" /\ segments[j].kind = "create" /\ segments[i].object = segments[j].object
        \/ segments[i].kind = "register" /\ segments[j].kind = "register"
           /\ segments[i].callback = segments[j].callback
        => i = j

\* A callback is registered before it is named, and an object created, if it is.
RecordedFirst ==
    /\ \A i \in DOMAIN segments : segments[i].kind \in {"bind", "invoke", "unregister"} =>
           \E j \in DOMAIN segments :
               j < i /\ segments[j].kind = "register" /\ segments[j].callback = segments[i].callback
    /\ \A i, j \in DOMAIN segments :
           segments[i].kind \in {"use", "drop"} /\ segments[j].kind = "create"
           /\ segments[i].object = segments[j].object
           => j < i

Flat == Validator!Flatten(segments)

\* flatten_trace changes the numbers of all records and the count of the ends.
LEMMA FlatIs ==
    ASSUME Opened
    PROVE  /\ DOMAIN Flat = 1..Len(segments) /\ DOMAIN segments = 1..Len(segments) /\ Len(segments) \in Nat
           /\ \A i \in DOMAIN Flat :
                 /\ Flat[i].seq = i - 1
                 /\ Flat[i].record = segments[i].record /\ Flat[i].run = "run" /\ Flat[i].trace = "trace"
                 /\ Flat[i].kind = segments[i].kind /\ Flat[i].build = "build"
                 /\ Flat[i].object = segments[i].object /\ Flat[i].external = segments[i].external
                 /\ Flat[i].callback = segments[i].callback
                 /\ Flat[i].osite = "site" /\ Flat[i].csite = "site"
                 /\ Flat[i].kind = "end" => Flat[i].count = Len(segments)
<1>1. DOMAIN segments = 1..Len(segments) /\ Len(segments) \in Nat
  BY DEF Opened
<1>2. ASSUME NEW i \in DOMAIN segments
      PROVE  Flat[i] = [segments[i] EXCEPT !.seq = i - 1,
                           !.count = IF segments[i].kind = "end" THEN Len(segments) ELSE segments[i].count]
  BY <1>1 DEF Flat, Validator!Flatten
<1>3. \A i \in DOMAIN segments : segments[i] \in TraceRecord
  BY <1>1 DEF Opened
<1>4. ASSUME NEW r \in TraceRecord, NEW n, NEW m
      PROVE  LET f == [r EXCEPT !.seq = n, !.count = m]
             IN /\ f.seq = n /\ f.count = m
                /\ f.record = r.record /\ f.run = "run" /\ f.trace = "trace" /\ f.kind = r.kind
                /\ f.build = "build" /\ f.object = r.object /\ f.external = r.external
                /\ f.callback = r.callback /\ f.osite = "site" /\ f.csite = "site"
  BY DEF TraceRecord
<1>5. DOMAIN Flat = DOMAIN segments
  BY DEF Flat, Validator!Flatten
<1>6. ASSUME NEW i \in DOMAIN segments
      PROVE  /\ Flat[i].seq = i - 1
             /\ Flat[i].record = segments[i].record /\ Flat[i].run = "run" /\ Flat[i].trace = "trace"
             /\ Flat[i].kind = segments[i].kind /\ Flat[i].build = "build"
             /\ Flat[i].object = segments[i].object /\ Flat[i].external = segments[i].external
             /\ Flat[i].callback = segments[i].callback
             /\ Flat[i].osite = "site" /\ Flat[i].csite = "site"
             /\ Flat[i].kind = "end" => Flat[i].count = Len(segments)
  <2> DEFINE n == i - 1
             m == IF segments[i].kind = "end" THEN Len(segments) ELSE segments[i].count
  <2>1. Flat[i] = [segments[i] EXCEPT !.seq = n, !.count = m] /\ segments[i] \in TraceRecord
    BY <1>2, <1>3
  <2>2. segments[i].kind = "end" => m = Len(segments)
    OBVIOUS
  <2> HIDE DEF m
  <2>3. QED BY <1>4, <2>1, <2>2
<1>7. QED BY <1>1, <1>5, <1>6

\* The validator counts with the same operator.
LEMMA ValidatorCardinality == \A S : Validator!Cardinality(S) = Cardinality(S)
BY DEF Validator!Cardinality, Cardinality

\* What is left of the validator's reasons to refuse a record.
Refusable(i) ==
    \/ \E j \in 1..(i - 1) : segments[j].kind = "end"
    \/ segments[i].kind = "end" /\ i # Len(segments)
    \/ /\ segments[i].kind \in {"use", "drop"}
       /\ ~\E j \in 1..(i - 1) : segments[j].kind = "create" /\ segments[j].object = segments[i].object

\* The validator refuses no record of a flattened trace for another reason.
LEMMA ProblemsAre ==
    ASSUME Opened, RecordedOnce, RecordedFirst, NEW i \in DOMAIN segments
    PROVE  Validator!Problems(Flat, i) = {} <=> ~Refusable(i)
<1> DEFINE P == 1..(i - 1)
<1>n. /\ Len(segments) \in Nat /\ DOMAIN segments = 1..Len(segments) /\ DOMAIN Flat = DOMAIN segments
      /\ i \in 1..Len(segments) /\ P \subseteq 1..Len(segments) /\ i - 1 \in Nat
      /\ 2 \in DOMAIN segments
  BY FlatIs DEF Opened
<1>f. \A j \in DOMAIN segments :
          /\ Flat[j].seq = j - 1
          /\ Flat[j].record = segments[j].record /\ Flat[j].run = "run" /\ Flat[j].trace = "trace"
          /\ Flat[j].kind = segments[j].kind /\ Flat[j].build = "build"
          /\ Flat[j].object = segments[j].object /\ Flat[j].external = segments[j].external
          /\ Flat[j].callback = segments[j].callback
          /\ Flat[j].osite = "site" /\ Flat[j].csite = "site"
          /\ Flat[j].kind = "end" => Flat[j].count = Len(segments)
  BY <1>n, FlatIs
<1>b. Validator!Before(Flat, i) = P
  BY <1>n, <1>f DEF Validator!Before
<1>s. Validator!StreamProblems(Flat, i) = {}
  <2>1. ~\E j \in P : Flat[j].record = Flat[i].record
    BY <1>n, <1>f DEF RecordedOnce
  <2>2. ~\E j \in P : Flat[j].run # Flat[i].run
    BY <1>n, <1>f
  <2>3. QED BY <2>1, <2>2 DEF Validator!StreamProblems, Validator!If
<1>1. CASE i = 1
  <2>1. Validator!Before(Flat, i) = {}
    BY <1>b, <1>1
  <2>2. Validator!FirstProblems(Flat, i) = {}
    <3>1. Flat[i].kind = "start" /\ Flat[i].seq = 0 /\ ~\E j \in P : Flat[j].kind = "start" /\ Flat[j].build # Flat[i].build
      BY <1>1, <1>n, <1>f DEF Opened
    <3>2. QED BY <3>1 DEF Validator!FirstProblems, Validator!If
  <2>3. ~Refusable(i)
    BY <1>1, <1>n DEF Refusable, Opened
  <2>4. QED BY <1>s, <2>1, <2>2, <2>3 DEF Validator!Problems
<1>2. CASE i # 1
  <2>1. Validator!Before(Flat, i) # {} /\ 1 \in P
    BY <1>b, <1>2, <1>n
  <2>2. Validator!HeaderProblems(Flat, i) = {} <=> ~\E j \in P : segments[j].kind = "end"
    <3>1. ~\E j \in P : Flat[i].seq <= Flat[j].seq
      BY <1>n, <1>f
    <3>2. (\E j \in P : Flat[j].kind = "end") <=> \E j \in P : segments[j].kind = "end"
      BY <1>n, <1>f
    <3>3. QED BY <1>b, <3>1, <3>2 DEF Validator!HeaderProblems, Validator!If
  <2>c. \A o : Validator!Created(Flat, i, o) = {j \in P : segments[j].kind = "create" /\ segments[j].object = o}
    BY <1>b, <1>n, <1>f DEF Validator!Created
  <2>r. \A c : Validator!RegisteredAt(Flat, i, c) = {j \in P : segments[j].kind = "register" /\ segments[j].callback = c}
    BY <1>b, <1>n, <1>f DEF Validator!RegisteredAt
  <2>k. Flat[i].kind = segments[i].kind /\ segments[i].kind \in RecordKinds \ {"start"}
        /\ Flat[i].object = segments[i].object /\ Flat[i].callback = segments[i].callback
        /\ Flat[i].osite = "site" /\ Flat[i].csite = "site"
    <3>1. segments[i] \in TraceRecord /\ segments[i].kind # "start"
      BY <1>2, <1>n DEF Opened
    <3>2. segments[i].kind \in RecordKinds
      BY <3>1 DEF TraceRecord
    <3>3. QED BY <1>n, <1>f, <3>1, <3>2
  <2>o. ASSUME segments[i].kind \in {"register", "bind", "unregister"}
        PROVE  /\ segments[i].object = "owner" /\ 2 \in P
               /\ 2 \in Validator!Created(Flat, i, Flat[i].object)
               /\ \A j \in Validator!Created(Flat, i, Flat[i].object) : j = 2 /\ Flat[j].external
    <3>1. segments[i].object = "owner" /\ i # 2
      BY <1>n, <2>o DEF Opened, ObjectKinds
    <3>2. 2 \in P
      BY <1>2, <1>n, <3>1
    <3>3. \A j \in P : segments[j].kind = "create" /\ segments[j].object = "owner" => j = 2
      BY <1>n DEF RecordedOnce, Opened
    <3>4. segments[2].kind = "create" /\ segments[2].object = "owner" /\ Flat[2].external
      BY <1>n, <1>f DEF Opened
    <3>5. QED BY <2>c, <2>k, <3>1, <3>2, <3>3, <3>4
  <2>3. Validator!PayloadProblems(Flat, i) = {} <=>
            /\ segments[i].kind = "end" => i = Len(segments)
            /\ segments[i].kind \in {"use", "drop"} =>
                   \E j \in P : segments[j].kind = "create" /\ segments[j].object = segments[i].object
    <3>1. CASE segments[i].kind = "create"
      <4>1. Validator!Created(Flat, i, Flat[i].object) = {}
        BY <1>n, <2>c, <2>k, <3>1 DEF RecordedOnce
      <4>2. QED BY <2>k, <3>1, <4>1 DEF Validator!PayloadProblems, Validator!If
    <3>2. CASE segments[i].kind = "register"
      <4>1. Validator!RegisteredAt(Flat, i, Flat[i].callback) = {}
        BY <1>n, <2>r, <2>k, <3>2 DEF RecordedOnce
      <4>2. QED
        BY <2>k, <2>o, <3>2, <4>1 DEF Validator!PayloadProblems, Validator!ObjectMissing, Validator!If
    <3>3. CASE segments[i].kind \in {"bind", "unregister", "invoke"}
      <4>1. PICK j \in P : segments[j].kind = "register" /\ segments[j].callback = segments[i].callback
        BY <1>n, <3>3 DEF RecordedFirst
      <4>2. Validator!CallbackMissing(Flat, i) = {}
        BY <2>r, <2>k, <4>1 DEF Validator!CallbackMissing, Validator!If
      <4>3. \A m \in Validator!RegisteredAt(Flat, i, Flat[i].callback) :
                Flat[m].csite = Flat[i].csite /\ Flat[m].object = "owner"
        <5>1. \A m \in P : segments[m].kind = "register" => segments[m].object = "owner"
          BY <1>n DEF Opened, ObjectKinds
        <5>2. QED BY <1>n, <1>f, <2>r, <2>k, <5>1
      <4>4. CASE segments[i].kind = "bind"
        <5>1. Validator!ObjectMissing(Flat, i) = {}
          BY <2>o, <4>4 DEF Validator!ObjectMissing, Validator!If
        <5>2. \A m \in Validator!Created(Flat, i, Flat[i].object) : Flat[m].osite = Flat[i].osite
          BY <1>n, <1>f, <2>o, <2>k, <4>4
        <5>3. QED BY <2>k, <4>2, <4>3, <4>4, <5>1, <5>2 DEF Validator!PayloadProblems, Validator!If
      <4>5. CASE segments[i].kind = "unregister"
        <5>1. Flat[i].object = "owner"
          BY <2>o, <2>k, <4>5
        <5>2. QED BY <2>k, <4>2, <4>3, <4>5, <5>1 DEF Validator!PayloadProblems, Validator!If
      <4>6. CASE segments[i].kind = "invoke"
        BY <2>k, <4>2, <4>6 DEF Validator!PayloadProblems
      <4>7. QED BY <3>3, <4>4, <4>5, <4>6
    <3>4. CASE segments[i].kind \in {"use", "drop"}
      <4>1. Validator!PayloadProblems(Flat, i) = Validator!ObjectMissing(Flat, i)
        BY <2>k, <3>4 DEF Validator!PayloadProblems
      <4>2. Validator!Created(Flat, i, Flat[i].object)
                = {j \in P : segments[j].kind = "create" /\ segments[j].object = segments[i].object}
        BY <2>c, <2>k
      <4>3. Validator!ObjectMissing(Flat, i) = {} <=>
                \E j \in P : segments[j].kind = "create" /\ segments[j].object = segments[i].object
        BY <4>2 DEF Validator!ObjectMissing, Validator!If
      <4>4. QED BY <3>4, <4>1, <4>3
    <3>5. CASE segments[i].kind = "end"
      <4>1. Validator!Cardinality(P) = i - 1
        BY <1>n, FS_Interval, ValidatorCardinality
      <4>2. Flat[i].count = Len(segments)
        BY <1>n, <1>f, <2>k, <3>5
      <4>3. Validator!PayloadProblems(Flat, i) =
                Validator!If("COUNT-MISMATCH", Len(segments) # (i - 1) + 1)
        BY <1>b, <2>k, <3>5, <4>1, <4>2 DEF Validator!PayloadProblems
      <4>4. QED BY <1>n, <3>5, <4>3 DEF Validator!If
    <3>6. CASE segments[i].kind = "checkpoint"
      BY <2>k, <3>6 DEF Validator!PayloadProblems
    <3>7. QED
      BY <2>k, <3>1, <3>2, <3>3, <3>4, <3>5, <3>6 DEF RecordKinds, Kinds, TokenKinds, ObjectKinds
  <2>4. Validator!Problems(Flat, i) = {} <=>
            Validator!HeaderProblems(Flat, i) = {} /\ Validator!PayloadProblems(Flat, i) = {}
    BY <1>s, <2>1 DEF Validator!Problems
  <2>5. QED BY <2>2, <2>3, <2>4 DEF Refusable
<1>3. QED BY <1>1, <1>2

\* Records that are there once, and behind what they name, make an accepted trace.
LEMMA AcceptedIfOrdered ==
    ASSUME Opened, RecordedOnce, RecordedFirst
    PROVE  FlattenedAccepted
<1>n. /\ Len(segments) \in Nat /\ DOMAIN segments = 1..Len(segments) /\ DOMAIN Flat = DOMAIN segments
      /\ Len(segments) \in DOMAIN segments
      /\ \A i \in DOMAIN Flat : Flat[i].trace = "trace" /\ Flat[i].kind = segments[i].kind
  BY FlatIs DEF Opened
<1>1. Validator!Valid(Flat) <=>
          /\ \A i \in DOMAIN segments : ~Refusable(i)
          /\ \E j \in DOMAIN segments : segments[j].kind = "end"
  <2>1. \A i \in DOMAIN segments : Validator!Problems(Flat, i) = {} <=> ~Refusable(i)
    BY ProblemsAre
  <2>2. (\A i \in DOMAIN Flat : \E j \in DOMAIN Flat :
            Flat[j].trace = Flat[i].trace /\ Flat[j].kind = "end")
        <=> \E j \in DOMAIN segments : segments[j].kind = "end"
    BY <1>n
  <2>3. (\A i \in DOMAIN Flat : Validator!Problems(Flat, i) = {})
        <=> \A i \in DOMAIN segments : ~Refusable(i)
    BY <1>n, <2>1
  <2>4. QED BY <2>2, <2>3 DEF Validator!Valid
<1>2. \A i \in DOMAIN segments : segments[i].kind \in {"use", "drop"} =>
          ((\E j \in 1..(i - 1) : segments[j].kind = "create" /\ segments[j].object = segments[i].object)
           <=> segments[i].object \in CreatedObjects)
  <2>1. TAKE i \in DOMAIN segments
  <2>2. HAVE segments[i].kind \in {"use", "drop"}
  <2>3. \A j \in DOMAIN segments :
            segments[j].kind = "create" /\ segments[j].object = segments[i].object => j \in 1..(i - 1)
    BY <1>n, <2>2 DEF RecordedFirst
  <2>4. 1..(i - 1) \subseteq DOMAIN segments
    BY <1>n
  <2>5. QED BY <2>3, <2>4 DEF CreatedObjects
<1>3. ASSUME Validator!Valid(Flat)
      PROVE  Ended
  BY <1>1, <1>3, <1>n DEF Refusable, Ended
<1>4. ASSUME Ended
      PROVE  /\ segments[Len(segments)].kind = "end"
             /\ \A i \in DOMAIN segments : ~(\E j \in 1..(i - 1) : segments[j].kind = "end")
             /\ \A i \in DOMAIN segments : ~(segments[i].kind = "end" /\ i # Len(segments))
  BY <1>4, <1>n DEF Ended
<1>5. Validator!Valid(Flat) <=>
          /\ Ended
          /\ \A i \in DOMAIN segments : segments[i].kind \in {"use", "drop"} => segments[i].object \in CreatedObjects
  BY <1>1, <1>2, <1>3, <1>4, <1>n DEF Refusable
<1>6. QED BY <1>5 DEF FlattenedAccepted, Flat


-----------------------------------------------------------------------------
(* What the sink keeps of the log.                                           *)

Creating(t, o) == Held(t) /\ thread[t].kind = "create" /\ thread[t].of = o

\* The creation of an object is with one thread until it is handed over, and
\* then no other one is started; nor is a registration that was accepted.
CreateInHand ==
    /\ \A t \in Threads, o \in Objects : Creating(t, o) => object[o] = "creating" /\ ~Created(o)
    /\ \A t, u \in Threads, o \in Objects : Creating(t, o) /\ Creating(u, o) => t = u
    /\ \A o \in Objects : Created(o) => object[o] # "fresh"
    /\ \A c \in Tokens : Registered(c) => token[c] \in {"retained", "released"}

\* A call is about what its kind says.
CallsNamed ==
    \A t \in Threads : Busy(t) =>
        /\ thread[t].kind \in TokenKinds => thread[t].of \in Tokens
        /\ thread[t].kind \in ObjectKinds => thread[t].of \in Objects

HandInv == IntroducedInv /\ ReleaseInv /\ CreateInHand /\ CallsNamed

\* Nothing is in hand at first.
LEMMA HandInit == Init => HandInv
<1> SUFFICES ASSUME Init PROVE HandInv
  OBVIOUS
<1>1. Events = {} /\ Accepted = {} /\ \A t \in Threads : ~Busy(t) /\ ~Held(t)
  BY DEF Init, Events, Accepted, Idle, Busy, Held
<1>2. CreateInHand /\ CallsNamed
  BY <1>1 DEF CreateInHand, CallsNamed, Creating, Created, Registered
<1>3. QED BY <1>2, IntroducedInit, ReleaseInit DEF HandInv

\* Every step keeps what is known of the creations and registrations in hand.
LEMMA HandStep == HandInv /\ [Next]_vars => HandInv'
<1> SUFFICES ASSUME HandInv, [Next]_vars PROVE HandInv'
  OBVIOUS
<1> DEFINE Goal == CreateInHand /\ CallsNamed
<1>0. TypeOK /\ CreateInHand /\ CallsNamed /\ ReleaseInHand /\ IntroducedInv' /\ ReleaseInv'
      /\ token \in [Tokens -> {"fresh", "registering", "retained", "released", "lost"}]
      /\ object \in [Objects -> {"fresh", "creating", "alive", "dropped"}]
      /\ Accepted \subseteq Events
  BY IntroducedStep, ReleaseStep DEF HandInv, IntroducedInv, ReleaseInv, Typed, TypeOK, Accepted
<1> SUFFICES Goal'
  BY <1>0 DEF HandInv
<1>1. CASE UNCHANGED vars
  BY <1>0, <1>1 DEF vars, CreateInHand, CallsNamed, Creating, Created, Registered, Held, Busy, Events, Accepted
<1>2. CASE Next
  <2>1. PICK t \in Threads :
            /\ \A u \in Threads \ {t} : thread'[u] = thread[u]
            /\ Opens(t) \/ Resumes(t) \/ Accepts(t) \/ Refuses(t) \/ GivesUp(t) \/ Flushes(t)
    BY <1>0, <1>2, Steps
  <2>2. \A u \in Threads \ {t} :
            /\ Busy(u)' = Busy(u) /\ thread'[u].kind = thread[u].kind /\ thread'[u].of = thread[u].of
            /\ \A o : Creating(u, o)' <=> Creating(u, o)
    BY <2>1 DEF Busy, Held, Creating
  <2>3. ASSUME log' = log \/ log' = Append(log, FinishEntry(t))
        PROVE  /\ \A c : Registered(c)' <=> Registered(c)
               /\ \A o : Created(o)' <=> Created(o)
    BY <1>0, <2>3, EventsKept DEF Registered, Created
  <2>4. CASE Opens(t)
    <3>1. /\ log' = log /\ ~Busy(t) /\ Busy(t)'
          /\ \A o : ~Creating(t, o)
          /\ \A o : Creating(t, o)' <=> thread'[t].kind = "create" /\ thread'[t].of = o
      BY <2>4 DEF Opens, TokenCall, ObjectCall, PlainCall, Starts, Creating, Held, Busy
    <3>2. /\ \A c : Registered(c)' <=> Registered(c)
          /\ \A o : Created(o)' <=> Created(o)
      BY <2>3, <3>1
    <3>3. ASSUME NEW c \in Tokens, TokenCall(t, c), object' = object PROVE Goal'
      <4>1. thread'[t].kind \in TokenKinds /\ thread'[t].of = c /\ thread'[t].kind \notin ObjectKinds
            /\ thread'[t].kind # "create"
        BY <3>3 DEF TokenCall, Starts, TokenKinds, ObjectKinds
      <4>2. \A d \in Tokens : token[d] \in {"retained", "released"} => token'[d] \in {"retained", "released"}
        BY <1>0, <3>3 DEF TokenCall
      <4>3. QED BY <1>0, <2>2, <3>1, <3>2, <3>3, <4>1, <4>2 DEF CreateInHand, CallsNamed
    <3>4. ASSUME NEW o \in Objects, ObjectCall(t, o), token' = token PROVE Goal'
      <4>1. thread'[t].kind \in ObjectKinds /\ thread'[t].of = o /\ thread'[t].kind \notin TokenKinds
        BY <3>4 DEF ObjectCall, Starts, TokenKinds, ObjectKinds
      <4>2. CallsNamed'
        BY <1>0, <2>2, <4>1 DEF CallsNamed
      <4>3. CASE thread'[t].kind = "create"
        <5>1. object[o] = "fresh" /\ object' = [object EXCEPT ![o] = "creating"]
          BY <3>4, <4>3 DEF ObjectCall, Starts
        <5>2. ~Created(o) /\ \A u \in Threads : ~Creating(u, o)
          BY <1>0, <5>1 DEF CreateInHand
        <5>3. /\ object'[o] = "creating" /\ \A p \in Objects \ {o} : object'[p] = object[p]
              /\ \A p : Creating(t, p)' <=> p = o
          BY <1>0, <3>1, <4>1, <4>3, <5>1
        <5>4. CreateInHand'
          BY <1>0, <2>2, <3>1, <3>2, <3>4, <5>2, <5>3 DEF CreateInHand
        <5>5. QED BY <4>2, <5>4
      <4>4. CASE thread'[t].kind # "create"
        <5>1. \A p \in Objects : object[p] # "fresh" => object'[p] # "fresh"
          BY <1>0, <3>4, <4>4 DEF ObjectCall, Starts
        <5>2. \A p \in Objects : object[p] = "creating" => object'[p] = "creating"
          BY <1>0, <3>4, <4>4 DEF ObjectCall, Starts
        <5>3. CreateInHand'
          BY <1>0, <2>2, <3>1, <3>2, <3>4, <4>4, <5>1, <5>2 DEF CreateInHand
        <5>4. QED BY <4>2, <5>3
      <4>5. QED BY <4>3, <4>4
    <3>5. ASSUME PlainCall(t), UNCHANGED <<token, object>> PROVE Goal'
      <4>1. thread'[t].kind \notin TokenKinds /\ thread'[t].kind \notin ObjectKinds /\ thread'[t].kind # "create"
        BY <3>5 DEF PlainCall, Starts, TokenKinds, ObjectKinds
      <4>2. QED BY <1>0, <2>2, <3>1, <3>2, <3>5, <4>1 DEF CreateInHand, CallsNamed
    <3>6. QED BY <2>4, <3>3, <3>4, <3>5 DEF Opens
  <2>5. CASE Resumes(t)
    <3>1. /\ \A o : Creating(t, o)' <=> Creating(t, o)
          /\ log' = log /\ UNCHANGED <<token, object>> /\ Busy(t) /\ SameCall(t)
      BY <2>5 DEF Resumes, SameCall, Creating
    <3>2. QED BY <1>0, <2>2, <2>3, <3>1 DEF CreateInHand, CallsNamed, SameCall
  <2>6. ASSUME NEW ok \in BOOLEAN, log' = Append(log, Entry(t, ok)), Held(t), ~Held(t)'
        PROVE  /\ \A c : Registered(c)' <=> Registered(c) \/ (ok /\ thread[t].kind = "register" /\ thread[t].of = c)
               /\ \A o : Created(o)' <=> Created(o) \/ Creating(t, o)
               /\ \A o : ~Creating(t, o)'
    <3>1. PICK new \in Nat :
              /\ \A i \in Events : i \in Nat /\ i < new /\ log'[i] = log[i]
              /\ Events' = Events \cup {new} /\ Accepted' = IF ok THEN Accepted \cup {new} ELSE Accepted
              /\ log'[new].kind = thread[t].kind /\ log'[new].of = thread[t].of
      BY <1>0, <2>6, LogStep
    <3>2. \A o : Created(o)' <=> Created(o) \/ Creating(t, o)
      BY <2>6, <3>1 DEF Created, Creating
    <3>3. \A c : Registered(c)' <=> Registered(c) \/ (ok /\ thread[t].kind = "register" /\ thread[t].of = c)
      BY <1>0, <2>6, <3>1 DEF Registered
    <3>4. QED BY <2>6, <3>2, <3>3 DEF Creating
  <2>7. CASE Accepts(t)
    <3>1. /\ Held(t) /\ Busy(t) /\ ~Held(t)' /\ ~Busy(t)' /\ log' = Append(log, Entry(t, TRUE))
          /\ \A c \in Tokens : token'[c] = IF thread[t].kind = "register" /\ thread[t].of = c THEN "retained" ELSE token[c]
          /\ \A o \in Objects : object'[o] = IF Creating(t, o) THEN "alive" ELSE object[o]
      BY <2>7 DEF Accepts, Return, Creating
    <3>2. /\ \A c : Registered(c)' <=> Registered(c) \/ (thread[t].kind = "register" /\ thread[t].of = c)
          /\ \A o : Created(o)' <=> Created(o) \/ Creating(t, o)
          /\ \A o : ~Creating(t, o)'
      BY <2>6, <3>1
    <3>3. QED BY <1>0, <2>2, <3>1, <3>2 DEF CreateInHand, CallsNamed
  <2>8. CASE Refuses(t)
    <3>1. /\ Held(t) /\ Busy(t) /\ ~Held(t)' /\ log' = Append(log, Entry(t, FALSE))
          /\ UNCHANGED <<token, object>> /\ SameCall(t)
      BY <2>8 DEF Refuses
    <3>2. /\ \A c : Registered(c)' <=> Registered(c)
          /\ \A o : Created(o)' <=> Created(o) \/ Creating(t, o)
          /\ \A o : ~Creating(t, o)'
      BY <2>6, <3>1
    <3>3. QED BY <1>0, <2>2, <3>1, <3>2 DEF CreateInHand, CallsNamed, SameCall
  <2>9. CASE GivesUp(t)
    <3>1. /\ ~Held(t) /\ ~Held(t)' /\ Busy(t) /\ ~Busy(t)' /\ log' = log
          /\ \A c \in Tokens : token'[c] = IF Registering(t, c) THEN "lost" ELSE token[c]
          /\ \A o \in Objects : object'[o] # object[o] =>
                 object'[o] = "alive" /\ thread[t].kind = "create" /\ thread[t].of = o
      BY <2>9 DEF GivesUp, Busy, Return, Registering
    <3>2. \A o : ~Creating(t, o) /\ ~Creating(t, o)'
      BY <3>1 DEF Creating
    <3>3. \A c \in Tokens : Registering(t, c) => token[c] = "registering"
      BY <1>0 DEF ReleaseInHand
    <3>4. ASSUME NEW o \in Objects, thread[t].kind = "create", thread[t].of = o
          PROVE  Created(o)
      BY <3>1, <3>4 DEF HandInv, IntroducedInv, Introduced
    <3>5. QED BY <1>0, <2>2, <2>3, <3>1, <3>2, <3>3, <3>4 DEF CreateInHand, CallsNamed
  <2>10. CASE Flushes(t)
    <3>1. /\ UNCHANGED <<token, object>> /\ ~Busy(t)' /\ (log' = log \/ log' = Append(log, FinishEntry(t)))
          /\ \A o : ~Creating(t, o) /\ ~Creating(t, o)'
      BY <2>10 DEF Flushes, Creating
    <3>2. QED BY <1>0, <2>2, <2>3, <3>1 DEF CreateInHand, CallsNamed
  <2>11. QED BY <2>1, <2>4, <2>5, <2>7, <2>8, <2>9, <2>10
<1>3. QED BY <1>1, <1>2


\* The segments hold what the sink accepted, and nothing else behind the opening.
Kept(e) == Record(e, e.seq + 1, e.count + 2)
Copied ==
    /\ \A i \in Accepted : \E k \in DOMAIN segments : k > 2 /\ segments[k] = Kept(log[i])
    /\ \A k \in DOMAIN segments : k > 2 => \E i \in Accepted : segments[k] = Kept(log[i])

SegmentsInv ==
    /\ HandInv /\ NumberInv /\ Copied
    /\ Opened /\ segments[1].record = 0 /\ segments[2].record = 1
    /\ RecordedOnce /\ RecordedFirst

\* The fields of a record that is kept.
LEMMA KeptIs ==
    ASSUME NEW e \in LogEntry, e.kind # "finish"
    PROVE  /\ Kept(e).record = e.seq + 1 /\ Kept(e).callback = e.of
           /\ Kept(e).kind = IF e.kind = "marker" THEN "checkpoint" ELSE e.kind
           /\ Kept(e).object = IF e.kind \in ObjectKinds THEN e.of ELSE "owner"
           /\ (e.kind \in ObjectKinds => e.of \in Objects) => Kept(e) \in TraceRecord
           /\ Kept(e).kind # "start"
           /\ "checkpoint" \notin ObjectKinds /\ "marker" \notin ObjectKinds
<1>1. e.seq + 1 \in Nat /\ e.count + 2 \in Nat /\ e.kind \in Kinds /\ e.of \in Instances
  BY DEF LogEntry
<1>2. (IF e.kind = "marker" THEN "checkpoint" ELSE e.kind) \in RecordKinds \ {"start"}
  BY <1>1 DEF RecordKinds, Kinds, TokenKinds, ObjectKinds
<1>3. "checkpoint" \notin ObjectKinds /\ "marker" \notin ObjectKinds
  BY DEF ObjectKinds
<1>4. (e.of = "owner") \in BOOLEAN
  OBVIOUS
<1>5. QED BY <1>1, <1>2, <1>3, <1>4 DEF Kept, Record, TraceRecord

\* The opening is in order.
LEMMA SegmentsInit == TraceInit => SegmentsInv
<1> SUFFICES ASSUME TraceInit PROVE SegmentsInv
  OBVIOUS
<1>1. HandInv /\ NumberInv /\ Accepted = {}
  BY HandInit, NumberInit DEF TraceInit, Init, Accepted, Events
<1>2. /\ Record([kind |-> "start", of |-> "none"], 0, 0) \in TraceRecord
      /\ Record([kind |-> "create", of |-> "owner"], 1, 0) \in TraceRecord
  BY DEF Record, TraceRecord, RecordKinds, Kinds, ObjectKinds, Instances
<1>3. /\ segments = <<Record([kind |-> "start", of |-> "none"], 0, 0),
                      Record([kind |-> "create", of |-> "owner"], 1, 0)>>
      /\ segments \in Seq(TraceRecord) /\ Len(segments) = 2 /\ DOMAIN segments = {1, 2}
  BY <1>2 DEF TraceInit, Opening
<1>4. /\ segments[1].kind = "start" /\ segments[1].record = 0 /\ segments[1].object = "owner"
      /\ segments[2].kind = "create" /\ segments[2].record = 1 /\ segments[2].object = "owner"
      /\ segments[2].external
  BY <1>3 DEF Record, ObjectKinds
<1>5. Copied /\ Opened
  BY <1>1, <1>3, <1>4 DEF Copied, Opened
<1>6. RecordedOnce /\ RecordedFirst
  BY <1>3, <1>4 DEF RecordedOnce, RecordedFirst
<1>7. QED BY <1>1, <1>4, <1>5, <1>6 DEF SegmentsInv

\* What an accepted entry may be, after what has been accepted before it.
LEMMA AcceptedNext ==
    ASSUME HandInv, NEW t \in Threads, Accepts(t)
    PROVE  LET e == Entry(t, TRUE) IN
           /\ e.kind \in ObjectKinds => e.of \in Objects
           /\ e.kind = "create" => ~Created(e.of)
           /\ e.kind = "register" => ~Registered(e.of)
           /\ e.kind \in {"bind", "invoke", "unregister"} => Registered(e.of)
<1>1. /\ Held(t) /\ Busy(t)
      /\ Entry(t, TRUE).kind = thread[t].kind /\ Entry(t, TRUE).of = thread[t].of
  BY DEF Accepts, Entry
<1>2. "create" \in ObjectKinds /\ "register" \in TokenKinds
  BY DEF ObjectKinds, TokenKinds
<1>3. CreateInHand /\ CallsNamed /\ ReleaseInHand /\ Introduced
  BY DEF HandInv, ReleaseInv, IntroducedInv
<1>4. thread[t].kind = "create" => ~Created(thread[t].of)
  BY <1>1, <1>2, <1>3 DEF CreateInHand, CallsNamed, Creating
<1>5. thread[t].kind = "register" => ~Registered(thread[t].of)
  <2>1. ASSUME thread[t].kind = "register" PROVE Registering(t, thread[t].of) /\ thread[t].of \in Tokens
    BY <1>1, <1>2, <1>3, <2>1 DEF Registering, CallsNamed
  <2>2. QED BY <1>3, <2>1 DEF CreateInHand, ReleaseInHand
<1>6. QED BY <1>1, <1>3, <1>4, <1>5 DEF CallsNamed, Introduced

\* The sink accepts one more event, or the segments stay as they are.
LEMMA SegmentsGrow ==
    ASSUME HandInv, TraceNext
    PROVE  \/ \E t \in Threads :
                 /\ Accepts(t) /\ log' = Append(log, Entry(t, TRUE))
                 /\ segments' = Append(segments, Kept(Entry(t, TRUE)))
           \/ /\ segments' = segments /\ Accepted' = Accepted /\ Events \subseteq Events'
              /\ \A i \in Accepted : log'[i] = log[i]
<1>0. TypeOK /\ log \in Seq(LogEntry) /\ Accepted \subseteq Events /\ Next
  BY DEF HandInv, IntroducedInv, Typed, TypeOK, Accepted, TraceNext
<1>1. PICK t \in Threads :
          Opens(t) \/ Resumes(t) \/ Accepts(t) \/ Refuses(t) \/ GivesUp(t) \/ Flushes(t)
  BY <1>0, Steps
<1>2. ASSUME NEW e \in LogEntry, log' = Append(log, e)
      PROVE  log' # log /\ NewEntry = e
  <2>1. Len(log') = Len(log) + 1 /\ log'[Len(log) + 1] = e /\ Len(log) \in Nat
    BY <1>0, <1>2
  <2>2. QED BY <2>1 DEF NewEntry
<1>3. CASE Accepts(t)
  <2>1. log' = Append(log, Entry(t, TRUE))
    BY <1>3 DEF Accepts
  <2>2. Entry(t, TRUE) \in LogEntry /\ Entry(t, TRUE).kind # "finish" /\ Entry(t, TRUE).ok
    BY <1>0, HandedEntry
  <2>3. QED BY <1>2, <1>3, <2>1, <2>2 DEF TraceNext, Kept
<1>4. CASE log' = log
  <2>1. segments' = segments
    BY <1>4 DEF TraceNext
  <2>2. QED BY <1>4, <2>1 DEF Accepted, Events
<1>5. CASE Refuses(t)
  <2>1. log' = Append(log, Entry(t, FALSE))
    BY <1>5 DEF Refuses
  <2>2. Entry(t, FALSE) \in LogEntry /\ Entry(t, FALSE).kind # "finish" /\ ~Entry(t, FALSE).ok
    BY <1>0, HandedEntry
  <2>3. segments' = segments
    BY <1>2, <2>1, <2>2 DEF TraceNext
  <2>4. QED BY <1>0, <2>1, <2>3, LogStep
<1>6. CASE log' = Append(log, FinishEntry(t))
  <2>1. FinishEntry(t) \in LogEntry /\ FinishEntry(t).kind = "finish"
    BY <1>0, EndEntry DEF FinishEntry
  <2>2. segments' = segments
    BY <1>2, <1>6, <2>1 DEF TraceNext
  <2>3. QED BY <1>0, <1>6, <2>2, EventsKept
<1>7. QED
  BY <1>1, <1>3, <1>4, <1>5, <1>6
     DEF Opens, TokenCall, ObjectCall, PlainCall, Starts, Resumes, GivesUp, Flushes

\* Every step of the runtime keeps the segments a faithful, orderly copy.
LEMMA SegmentsStep == SegmentsInv /\ [TraceNext]_traceVars => SegmentsInv'
<1> SUFFICES ASSUME SegmentsInv, [TraceNext]_traceVars PROVE SegmentsInv'
  OBVIOUS
<1>0. /\ HandInv /\ NumberInv /\ Copied /\ Opened /\ RecordedOnce /\ RecordedFirst
      /\ segments[1].record = 0 /\ segments[2].record = 1
      /\ HandInv' /\ NumberInv'
  BY HandStep, NumberStep DEF SegmentsInv, TraceNext, traceVars
<1>1. CASE UNCHANGED traceVars
  BY <1>0, <1>1 DEF traceVars, vars, SegmentsInv, Copied, Opened, RecordedOnce, RecordedFirst, Accepted, Events
<1>2. CASE TraceNext /\ segments' = segments /\ Accepted' = Accepted /\ \A i \in Accepted : log'[i] = log[i]
  BY <1>0, <1>2 DEF SegmentsInv, Copied, Opened, RecordedOnce, RecordedFirst
<1>3. ASSUME NEW t \in Threads, Accepts(t), log' = Append(log, Entry(t, TRUE)),
             segments' = Append(segments, Kept(Entry(t, TRUE)))
      PROVE  SegmentsInv'
  <2> DEFINE e == Entry(t, TRUE)
             r == Kept(Entry(t, TRUE))
             n == Len(segments) + 1
             m == Len(log) + 1
  <2>1. /\ e \in LogEntry /\ e.kind # "finish" /\ e.ok
        /\ log \in Seq(LogEntry) /\ Accepted \subseteq Events /\ Events \subseteq DOMAIN log
    BY <1>0, HandedEntry DEF HandInv, IntroducedInv, Typed, TypeOK, Accepted, Events
  <2>2. /\ log'[m] = e
        /\ \A i \in DOMAIN log : i \in Nat /\ i < m /\ log'[i] = log[i]
        /\ Events' = Events \cup {m} /\ Accepted' = Accepted \cup {m}
    BY <1>3, <2>1, LogGrows
  <2>3. /\ e.kind \in ObjectKinds => e.of \in Objects
        /\ e.kind = "create" => ~Created(e.of)
        /\ e.kind = "register" => ~Registered(e.of)
        /\ e.kind \in {"bind", "invoke", "unregister"} => Registered(e.of)
    BY <1>0, <1>3, AcceptedNext
  <2>4. /\ r.record = e.seq + 1 /\ r.callback = e.of
        /\ r.kind = IF e.kind = "marker" THEN "checkpoint" ELSE e.kind
        /\ r.object = IF e.kind \in ObjectKinds THEN e.of ELSE "owner"
        /\ r \in TraceRecord /\ r.kind # "start"
        /\ "checkpoint" \notin ObjectKinds /\ "marker" \notin ObjectKinds
    BY <2>1, <2>3, KeptIs
  <2> HIDE DEF e, r
  <2>5. segments' = Append(segments, r) /\ segments \in Seq(TraceRecord) /\ Len(segments) >= 2
    BY <1>0, <1>3 DEF Opened, r
  <2>6. /\ segments' \in Seq(TraceRecord) /\ Len(segments') = n /\ n \in Nat /\ n > 2
        /\ DOMAIN segments' = DOMAIN segments \cup {n} /\ DOMAIN segments = 1..(n - 1)
        /\ segments'[n] = r /\ \A k \in DOMAIN segments : segments'[k] = segments[k]
    <3>1. /\ segments' \in Seq(TraceRecord) /\ Len(segments') = n /\ segments'[n] = r
          /\ \A k \in 1..Len(segments) : segments'[k] = segments[k]
      BY <2>4, <2>5, Appended
    <3>2. n \in Nat /\ n > 2 /\ DOMAIN segments = 1..(n - 1) /\ DOMAIN segments' = 1..n
      BY <2>5, <3>1
    <3>3. QED BY <2>5, <3>1, <3>2
  <2> HIDE DEF n, m
  <2>7. Copied'
    <3>0. segments'[n] = Kept(log'[m]) /\ \A i \in Accepted : log'[i] = log[i]
      BY <2>1, <2>2, <2>6 DEF e, r
    <3>1. ASSUME NEW i \in Accepted' PROVE \E k \in DOMAIN segments' : k > 2 /\ segments'[k] = Kept(log'[i])
      <4>1. CASE i = m
        BY <2>6, <3>0, <4>1
      <4>2. CASE i \in Accepted
        BY <1>0, <2>6, <3>0, <4>2 DEF Copied
      <4>3. QED BY <2>2, <4>1, <4>2
    <3>2. ASSUME NEW k \in DOMAIN segments', k > 2 PROVE \E i \in Accepted' : segments'[k] = Kept(log'[i])
      <4>1. CASE k = n
        BY <2>2, <3>0, <4>1
      <4>2. CASE k \in DOMAIN segments
        BY <1>0, <2>2, <2>6, <3>0, <3>2, <4>2 DEF Copied
      <4>3. QED BY <2>6, <4>1, <4>2
    <3>3. QED BY <3>1, <3>2 DEF Copied
  <2>8. Opened'
    BY <1>0, <2>4, <2>6 DEF Opened
  <2>9. \A k \in DOMAIN segments : k = 1 \/ k = 2 \/ \E i \in Accepted :
            /\ segments[k].record = log[i].seq + 1 /\ segments[k].callback = log[i].of
            /\ segments[k].kind = (IF log[i].kind = "marker" THEN "checkpoint" ELSE log[i].kind)
            /\ segments[k].object = IF log[i].kind \in ObjectKinds THEN log[i].of ELSE "owner"
    <3>1. TAKE k \in DOMAIN segments
    <3>2. k = 1 \/ k = 2 \/ k > 2
      BY <2>6
    <3>3. ASSUME k > 2
          PROVE \E i \in Accepted :
            /\ segments[k].record = log[i].seq + 1 /\ segments[k].callback = log[i].of
            /\ segments[k].kind = (IF log[i].kind = "marker" THEN "checkpoint" ELSE log[i].kind)
            /\ segments[k].object = IF log[i].kind \in ObjectKinds THEN log[i].of ELSE "owner"
      <4>1. PICK i \in Accepted : segments[k] = Kept(log[i])
        BY <1>0, <3>3 DEF Copied
      <4>2. log[i] \in LogEntry /\ log[i].kind # "finish"
        BY <2>1 DEF Accepted, Events
      <4>3. QED BY <4>1, <4>2, KeptIs
    <3>4. QED BY <3>2, <3>3
  <2>10. \A k \in DOMAIN segments :
            /\ segments[k].record # r.record
            /\ ~(segments[k].kind = "create" /\ r.kind = "create" /\ segments[k].object = r.object)
            /\ ~(segments[k].kind = "register" /\ r.kind = "register" /\ segments[k].callback = r.callback)
            /\ ~(segments[k].kind \in {"use", "drop"} /\ r.kind = "create" /\ segments[k].object = r.object)
    <3>1. TAKE k \in DOMAIN segments
    <3>2. e.seq \in Nat /\ e.seq > 0 /\ \A i \in Accepted : log[i].seq \in Nat /\ log[i].seq # e.seq
      <4>1. NumberedOnce'
        BY <1>0, NumberImplies, PTL
      <4>2. /\ \A i \in Events' : log'[i].seq \in 1..(next_event' - 1)
            /\ \A i, j \in Events' : log'[i].seq = log'[j].seq => i = j
        BY <4>1 DEF NumberedOnce, Handed
      <4>3. next_event' \in Nat
        BY <1>0, RuntimeAssumption DEF NumberInv, Typed, TypeOK
      <4>4. \A i \in Accepted : i # m /\ i \in Events' /\ log'[i] = log[i]
        BY <2>1, <2>2
      <4>5. m \in Events' /\ log'[m] = e
        BY <2>2
      <4>6. QED BY <4>2, <4>3, <4>4, <4>5
    <3>3. CASE k = 1 \/ k = 2
      <4>1. r.record > 1
        BY <2>4, <3>2
      <4>2. segments[1].kind = "start" /\ segments[2].kind = "create" /\ segments[2].object = "owner"
        BY <1>0, <2>6 DEF Opened
      <4>3. r.kind = "create" => r.object # "owner"
        BY <2>3, <2>4, RuntimeTraceAssumption DEF ObjectKinds
      <4>4. QED BY <1>0, <3>3, <4>1, <4>2, <4>3
    <3>4. ASSUME NEW i \in Accepted,
                 segments[k].record = log[i].seq + 1, segments[k].callback = log[i].of,
                 segments[k].kind = (IF log[i].kind = "marker" THEN "checkpoint" ELSE log[i].kind),
                 segments[k].object = IF log[i].kind \in ObjectKinds THEN log[i].of ELSE "owner"
          PROVE  /\ segments[k].record # r.record
                 /\ ~(segments[k].kind = "create" /\ r.kind = "create" /\ segments[k].object = r.object)
                 /\ ~(segments[k].kind = "register" /\ r.kind = "register" /\ segments[k].callback = r.callback)
                 /\ ~(segments[k].kind \in {"use", "drop"} /\ r.kind = "create" /\ segments[k].object = r.object)
      <4>1. segments[k].record # r.record
        BY <2>4, <3>2, <3>4
      <4>2. "create" \in ObjectKinds /\ "use" \in ObjectKinds /\ "drop" \in ObjectKinds
        BY DEF ObjectKinds
      <4>3. log[i].kind = "create" => Created(log[i].of)
        BY <2>1 DEF Created
      <4>4. log[i].kind = "register" => Registered(log[i].of)
        BY DEF Registered
      <4>5. log[i].kind \in {"use", "drop"} => Created(log[i].of)
        BY <1>0, <2>1 DEF HandInv, IntroducedInv, IntroducedFirst, Created, ObjectKinds
      <4>6. QED BY <2>3, <2>4, <3>4, <4>1, <4>2, <4>3, <4>4, <4>5
    <3>5. QED BY <2>9, <3>3, <3>4
  <2>11. RecordedOnce'
    BY <1>0, <2>6, <2>10 DEF RecordedOnce
  <2>12. RecordedFirst'
    <3>1. ASSUME r.kind \in {"bind", "invoke", "unregister"}
          PROVE  \E j \in DOMAIN segments : segments[j].kind = "register" /\ segments[j].callback = r.callback
      <4>1. Registered(e.of) /\ r.callback = e.of
        BY <2>3, <2>4, <3>1
      <4>2. PICK i \in Accepted : log[i].kind = "register" /\ log[i].of = e.of
        BY <4>1 DEF Registered
      <4>3. PICK j \in DOMAIN segments : segments[j] = Kept(log[i])
        BY <1>0 DEF Copied
      <4>4. log[i] \in LogEntry
        BY <2>1
      <4>5. QED BY <4>1, <4>2, <4>3, <4>4, KeptIs
    <3>2. \A k \in DOMAIN segments : k < n /\ n \in DOMAIN segments'
      BY <2>6
    <3>3. \A i \in DOMAIN segments' : segments'[i].kind \in {"bind", "invoke", "unregister"} =>
              \E j \in DOMAIN segments' :
                  j < i /\ segments'[j].kind = "register" /\ segments'[j].callback = segments'[i].callback
      BY <1>0, <2>6, <3>1, <3>2 DEF RecordedFirst
    <3>4. \A i, j \in DOMAIN segments' :
              segments'[i].kind \in {"use", "drop"} /\ segments'[j].kind = "create"
              /\ segments'[i].object = segments'[j].object
              => j < i
      BY <1>0, <2>6, <2>10, <3>2 DEF RecordedFirst
    <3>5. QED BY <3>3, <3>4 DEF RecordedFirst
  <2>13. segments'[1].record = 0 /\ segments'[2].record = 1
    BY <1>0, <2>6
  <2>14. QED BY <1>0, <2>7, <2>8, <2>11, <2>12, <2>13 DEF SegmentsInv
<1>4. QED BY <1>0, <1>1, <1>2, <1>3, SegmentsGrow

\* Whatever the threads do and the sink refuses, flatten_trace makes of the
\* segments a trace that validate_runtime_stream accepts, unless it does not
\* end in its only trace_end or names an object whose creation was refused.
THEOREM FlattenedIsAccepted == TraceSpec => []FlattenedAccepted
<1>1. SegmentsInv => FlattenedAccepted
  BY AcceptedIfOrdered DEF SegmentsInv
<1>2. QED BY <1>1, SegmentsInit, SegmentsStep, PTL DEF TraceSpec

=============================================================================
