---------------------------- MODULE OracleProofs ----------------------------
(* Theorems about Oracle, for every value of its constants. *)
EXTENDS ObservedTrace, FiniteSetTheorems, TLAPS

-----------------------------------------------------------------------------
(* Type correctness. *)

\* The rules build findings, whatever the tables hold.
LEMMA CandidatesTyped ==
    ASSUME TypeOK
    PROVE  /\ \A o \in Objects : UseCandidates(o) \subseteq Finding
           /\ \A c \in Callbacks : InvokeCandidates(c) \subseteq Finding
           /\ \A o \in Objects : RefreeCandidates(o) \subseteq Finding
<1>1. now \in Nat
  BY DEF TypeOK, now
<1>2. ASSUME NEW o \in Objects PROVE UseCandidates(o) \subseteq Finding
  BY <1>1 DEF TypeOK, UseCandidates, FindingOf, Finding, RuleIds, ObjectState
<1>3. ASSUME NEW c \in Callbacks PROVE InvokeCandidates(c) \subseteq Finding
  BY <1>1 DEF TypeOK, InvokeCandidates, Dangling, FindingOf, Finding, RuleIds, CaptureState
<1>4. ASSUME NEW o \in Objects PROVE RefreeCandidates(o) \subseteq Finding
  BY <1>1 DEF TypeOK, RefreeCandidates, FindingOf, Finding, RuleIds, ObjectState
<1>5. QED BY <1>2, <1>3, <1>4

\* What EvaluateEnd yields for an ended object are findings.
LEMMA EndCandidatesTyped ==
    ASSUME TypeOK, captures' \in [Callbacks -> [Objects -> CaptureState]],
           callbacks' \in [Callbacks -> CallbackState], NEW o \in Objects
    PROVE  EndCandidates(o) \subseteq Finding
BY DEF TypeOK, EndCandidates, Exposed, FindingOf, Finding, RuleIds, CaptureState, CallbackState, now

\* The tail of observe keeps its three variables typed.
LEMMA ReducedTyped ==
    ASSUME TypeOK, NEW ok \in BOOLEAN, NEW cands, cands \subseteq Finding, Reduced(ok, cands)
    PROVE  /\ findings' \subseteq Finding
           /\ observed' \in 0..clock'
           /\ clock' \in 0..MaxEvents
BY OracleAssumption DEF TypeOK, Reduced, Select, now

\* Record ids, the next one included, are numbers.
LEMMA NowTyped == ASSUME TypeOK PROVE now \in Nat /\ \A r \in Nat : FirstRecord(r) \in Nat
BY OracleAssumption DEF TypeOK, now, FirstRecord

\* Marking an entry keeps it an entry.
LEMMA MarkedTyped ==
    ASSUME NEW n \in Nat
    PROVE  /\ \A r \in CaptureState : [r EXCEPT !.life = "ended", !.end = n] \in CaptureState
           /\ \A r \in CallbackState : [r EXCEPT !.life = "released", !.release = n] \in CallbackState
<1>1. ASSUME NEW r \in CaptureState PROVE [r EXCEPT !.life = "ended", !.end = n] \in CaptureState
  BY DEF CaptureState
<1>2. ASSUME NEW r \in CallbackState PROVE [r EXCEPT !.life = "released", !.release = n] \in CallbackState
  BY DEF CallbackState
<1>3. QED BY <1>1, <1>2

\* Ending the borrows of an object keeps the captures typed.
LEMMA EndBorrowedTyped ==
    ASSUME TypeOK, NEW o \in Objects, EndBorrowed(o)
    PROVE  captures' \in [Callbacks -> [Objects -> CaptureState]]
<1>1. \A c \in Callbacks, x \in Objects : captures[c][x] \in CaptureState
  BY DEF TypeOK
<1>2. \A c \in Callbacks, x \in Objects :
          [captures[c][x] EXCEPT !.life = "ended", !.end = now] \in CaptureState
  BY <1>1, NowTyped, MarkedTyped
<1>3. QED BY <1>1, <1>2 DEF EndBorrowed

\* Closing an owner keeps owners and callbacks typed.
LEMMA CloseOwnerTyped ==
    ASSUME TypeOK, NEW o \in Owners, CloseOwner(o)
    PROVE  /\ owners' \in [Owners -> OwnerState]
           /\ callbacks' \in [Callbacks -> CallbackState]
<1>1. \A c \in Callbacks : callbacks[c] \in CallbackState
  BY DEF TypeOK
<1>2. \A c \in Callbacks : [callbacks[c] EXCEPT !.life = "released", !.release = now] \in CallbackState
  BY <1>1, NowTyped, MarkedTyped
<1>3. [life |-> "closed", close |-> now] \in OwnerState
  BY NowTyped DEF OwnerState
<1>4. QED BY <1>1, <1>2, <1>3 DEF CloseOwner, TypeOK

\* Every step of the oracle keeps the types.
LEMMA TypeStep == TypeOK /\ [Next]_vars => TypeOK'
<1> SUFFICES ASSUME TypeOK, [Next]_vars PROVE TypeOK'
  OBVIOUS
<1> USE OracleAssumption
<1>r. ASSUME Rejected PROVE TypeOK'
  BY <1>r DEF Rejected, vars, TypeOK
<1>e. {} \subseteq Finding
  OBVIOUS
<1>n. now \in Nat /\ \A r \in Nat : FirstRecord(r) \in Nat
  BY NowTyped
<1>1. ASSUME NEW r \in Runs, NEW b \in Builds, TraceStart(r, b) PROVE TypeOK'
  <2>1. CASE Rejected BY <2>1, <1>r
  <2>2. CASE run' = r /\ build' = b /\ Reduced(TRUE, {}) /\ UNCHANGED tables
    BY <2>2, <1>e, ReducedTyped DEF TypeOK, tables
  <2>3. QED BY <1>1, <2>1, <2>2 DEF TraceStart
<1>2. ASSUME NEW r \in Runs, OutOfContext(r) PROVE TypeOK'
  BY <1>2, <1>r DEF OutOfContext
<1>3. ASSUME Marker PROVE TypeOK'
  BY <1>3, <1>e, ReducedTyped DEF Marker, TypeOK
<1>4. ASSUME NEW o \in Objects, ObjectCreate(o) PROVE TypeOK'
  <2>1. CASE Exists(o) BY <2>1, <1>4, <1>r DEF ObjectCreate
  <2>2. CASE ~Exists(o)
    <3>1. objects' \in [Objects -> ObjectState]
      <4>1. [life |-> "live", created |-> now, end |-> 0, free |-> 0] \in ObjectState
        BY <1>n DEF ObjectState
      <4>2. QED BY <2>2, <1>4, <4>1 DEF ObjectCreate, TypeOK
    <3>2. owners' \in [Owners -> OwnerState]
      <4>1. [life |-> "open", close |-> 0] \in OwnerState
        BY DEF OwnerState
      <4>2. QED BY <2>2, <1>4, <4>1 DEF ObjectCreate, TypeOK
    <3>3. Reduced(TRUE, {}) /\ UNCHANGED <<run, build, captures, callbacks>>
      BY <2>2, <1>4 DEF ObjectCreate
    <3>4. QED BY <3>1, <3>2, <3>3, <1>e, ReducedTyped DEF TypeOK
  <2>3. QED BY <2>1, <2>2
<1>5. ASSUME NEW c \in Callbacks, NEW w \in Objects, NEW api \in Apis, CallbackRegister(c, w, api)
      PROVE TypeOK'
  <2>1. CASE Rejected BY <2>1, <1>r
  <2>2. CASE ~Rejected
    <3>1. w \in Owners
      BY <2>2, <1>5 DEF CallbackRegister, Opened
    <3>2. callbacks' \in [Callbacks -> CallbackState]
      <4>1. [life |-> "retained", owner |-> w, register |-> now, release |-> 0] \in CallbackState
        BY <1>n, <3>1 DEF CallbackState
      <4>2. QED BY <2>2, <1>5, <4>1 DEF CallbackRegister, TypeOK
    <3>3. Reduced(TRUE, {}) /\ UNCHANGED <<run, build, objects, captures, owners>>
      BY <2>2, <1>5 DEF CallbackRegister
    <3>4. QED BY <3>2, <3>3, <1>e, ReducedTyped DEF TypeOK
  <2>3. QED BY <2>1, <2>2
<1>6. ASSUME NEW c \in Callbacks, NEW o \in Objects, CaptureBind(c, o) PROVE TypeOK'
  <2>1. CASE Rejected BY <2>1, <1>r
  <2>2. CASE ~Rejected
    <3>1. CaptureFact[c][o] \in Modes
      BY <2>2, <1>6 DEF CaptureBind
    <3>2. captures' \in [Callbacks -> [Objects -> CaptureState]]
      <4>1. [life |-> "active", mode |-> CaptureFact[c][o], bind |-> now, end |-> 0] \in CaptureState
        BY <1>n, <3>1 DEF CaptureState
      <4> DEFINE bound == [life |-> "active", mode |-> CaptureFact[c][o], bind |-> now, end |-> 0]
      <4>2. captures' = [captures EXCEPT ![c] = [captures[c] EXCEPT ![o] = bound]]
        BY <2>2, <1>6 DEF CaptureBind
      <4> HIDE DEF bound
      <4>3. [captures[c] EXCEPT ![o] = bound] \in [Objects -> CaptureState]
        BY <4>1 DEF TypeOK, bound
      <4>4. QED BY <4>2, <4>3 DEF TypeOK
    <3>3. Reduced(TRUE, {}) /\ UNCHANGED <<run, build, objects, callbacks, owners>>
      BY <2>2, <1>6 DEF CaptureBind
    <3>4. QED BY <3>2, <3>3, <1>e, ReducedTyped DEF TypeOK
  <2>3. QED BY <2>1, <2>2
<1>7. ASSUME NEW c \in Callbacks, NEW w \in Objects, NEW api \in Apis, CallbackUnregister(c, w, api)
      PROVE TypeOK'
  <2>1. CASE Rejected BY <2>1, <1>r
  <2>2. CASE ~Rejected
    <3>1. callbacks' \in [Callbacks -> CallbackState]
      <4>1. [callbacks[c] EXCEPT !.life = "released", !.release = now] \in CallbackState
        BY <1>n, MarkedTyped DEF TypeOK
      <4>2. callbacks' = [callbacks EXCEPT ![c] = [callbacks[c] EXCEPT !.life = "released", !.release = now]]
        BY <2>2, <1>7 DEF CallbackUnregister
      <4>3. QED BY <4>1, <4>2 DEF TypeOK
    <3>2. Reduced(TRUE, {}) /\ UNCHANGED <<run, build, objects, captures, owners>>
      BY <2>2, <1>7 DEF CallbackUnregister
    <3>3. QED BY <3>1, <3>2, <1>e, ReducedTyped DEF TypeOK
  <2>3. QED BY <2>1, <2>2
<1>8. ASSUME NEW c \in Callbacks, NEW api \in Apis, CallbackInvoke(c, api) PROVE TypeOK'
  <2>1. CASE Rejected BY <2>1, <1>r
  <2>2. CASE ~Rejected
    BY <2>2, <1>8, CandidatesTyped, ReducedTyped DEF CallbackInvoke, TypeOK
  <2>3. QED BY <2>1, <2>2
<1>9. ASSUME NEW o \in Objects, ObjectUse(o) PROVE TypeOK'
  <2>1. CASE Rejected BY <2>1, <1>r
  <2>2. CASE ~Rejected
    BY <2>2, <1>9, CandidatesTyped, ReducedTyped DEF ObjectUse, TypeOK
  <2>3. QED BY <2>1, <2>2
<1>10. ASSUME NEW o \in Objects, ObjectDrop(o) PROVE TypeOK'
  <2>1. CASE ~Exists(o) BY <2>1, <1>10, <1>r DEF ObjectDrop
  <2>2. CASE Exists(o)
    <3>1. objects' \in [Objects -> ObjectState]
      <4>1. CASE objects[o].life = "freed"
        BY <2>2, <1>10, <4>1 DEF ObjectDrop, TypeOK
      <4>2. CASE objects[o].life # "freed"
        <5>1. objects' = [objects EXCEPT ![o].life = "ended", ![o].end = FirstRecord(objects[o].end)]
          BY <2>2, <1>10, <4>2 DEF ObjectDrop
        <5>2. FirstRecord(objects[o].end) \in Nat
          BY <1>n DEF TypeOK, ObjectState
        <5>3. QED BY <5>1, <5>2 DEF TypeOK, ObjectState
      <4>3. QED BY <4>1, <4>2
    <3>2. captures' \in [Callbacks -> [Objects -> CaptureState]]
      BY <2>2, <1>10, EndBorrowedTyped DEF ObjectDrop
    <3>3. owners' \in [Owners -> OwnerState] /\ callbacks' \in [Callbacks -> CallbackState]
      BY <2>2, <1>10, CloseOwnerTyped DEF ObjectDrop, TypeOK
    <3>4. PICK ok \in BOOLEAN : Reduced(ok, EndCandidates(o))
      BY <2>2, <1>10 DEF ObjectDrop
    <3>5. EndCandidates(o) \subseteq Finding
      BY <3>2, <3>3, EndCandidatesTyped
    <3>6. UNCHANGED <<run, build>>
      BY <2>2, <1>10 DEF ObjectDrop
    <3>7. QED BY <3>1, <3>2, <3>3, <3>4, <3>5, <3>6, ReducedTyped DEF TypeOK
  <2>3. QED BY <2>1, <2>2
<1>11. ASSUME NEW o \in Objects, ObjectFree(o) PROVE TypeOK'
  <2>1. CASE ~Exists(o) BY <2>1, <1>11, <1>r DEF ObjectFree
  <2>2. CASE Exists(o)
    <3>1. objects' \in [Objects -> ObjectState]
      BY <2>2, <1>11, <1>n DEF ObjectFree, TypeOK, ObjectState
    <3>2. captures' \in [Callbacks -> [Objects -> CaptureState]]
      BY <2>2, <1>11, EndBorrowedTyped DEF ObjectFree, TypeOK
    <3>3. UNCHANGED <<run, build, callbacks, owners>>
      BY <2>2, <1>11 DEF ObjectFree
    <3>4. PICK ok \in BOOLEAN : Reduced(ok, EndCandidates(o) \cup RefreeCandidates(o))
      BY <2>2, <1>11 DEF ObjectFree
    <3>5. EndCandidates(o) \cup RefreeCandidates(o) \subseteq Finding
      BY <3>2, <3>3, EndCandidatesTyped, CandidatesTyped DEF TypeOK
    <3>6. QED BY <3>1, <3>2, <3>3, <3>4, <3>5, ReducedTyped DEF TypeOK
  <2>3. QED BY <2>1, <2>2
<1>12. CASE UNCHANGED vars
  BY <1>12 DEF vars, TypeOK
<1>13. QED
  BY <1>1, <1>2, <1>3, <1>4, <1>5, <1>6, <1>7, <1>8, <1>9, <1>10, <1>11, <1>12 DEF Next

\* The tables, the findings and the counters of the oracle always have their
\* types, whatever events it is given.
THEOREM TypeCorrect == Spec => []TypeOK
<1>1. Init => TypeOK
  BY OracleAssumption DEF Init, TypeOK, ObjectState, CaptureState, CallbackState, OwnerState,
     NoObject, NoCapture, NoEntry, NoOwnerRow, Modes
<1>2. QED
  BY <1>1, TypeStep, PTL DEF Spec

-----------------------------------------------------------------------------
(* The records of the tables. *)

\* What end_borrowed_captures does to one capture.
LEMMA EndBorrowedEffect ==
    ASSUME TypeOK, NEW o \in Objects, EndBorrowed(o), NEW c \in Callbacks, NEW x \in Objects
    PROVE  \/ /\ captures'[c][x] = captures[c][x]
              /\ ~(x = o /\ captures[c][x].mode = "borrowed" /\ captures[c][x].life = "active")
           \/ /\ x = o /\ captures[c][x].mode = "borrowed" /\ captures[c][x].life = "active"
              /\ captures'[c][x].life = "ended" /\ captures'[c][x].end = now
              /\ captures'[c][x].mode = "borrowed" /\ captures'[c][x].bind = captures[c][x].bind
<1>1. captures[c][x] \in CaptureState
  BY DEF TypeOK
<1>2. captures'[c][x] =
          IF x = o /\ captures[c][x].mode = "borrowed" /\ captures[c][x].life = "active"
          THEN [captures[c][x] EXCEPT !.life = "ended", !.end = now]
          ELSE captures[c][x]
  BY DEF EndBorrowed
<1>3. QED BY <1>1, <1>2 DEF CaptureState

\* What the close of an owner does to one callback.
LEMMA CloseOwnerEffect ==
    ASSUME TypeOK, NEW o \in Owners, CloseOwner(o), NEW c \in Callbacks
    PROVE  \/ callbacks'[c] = callbacks[c] /\ callbacks[c].owner # o
           \/ /\ callbacks[c].owner = o
              /\ callbacks'[c].life = "released" /\ callbacks'[c].release = now
              /\ callbacks'[c].owner = o /\ callbacks'[c].register = callbacks[c].register
<1>1. callbacks[c] \in CallbackState
  BY DEF TypeOK
<1>2. callbacks'[c] = IF callbacks[c].owner = o
                      THEN [callbacks[c] EXCEPT !.life = "released", !.release = now]
                      ELSE callbacks[c]
  BY DEF CloseOwner
<1>3. QED BY <1>1, <1>2 DEF CallbackState

\* Every step keeps the records of objects in order.
LEMMA ObjectRecordsStep == TypeOK /\ ObjectRecords /\ [Next]_vars => ObjectRecords'
<1> SUFFICES ASSUME TypeOK, ObjectRecords, [Next]_vars PROVE ObjectRecords'
  OBVIOUS
<1>t. /\ clock \in Nat
      /\ \A o \in Objects : objects[o] \in ObjectState
  BY OracleAssumption DEF TypeOK
<1>u. ASSUME objects' = objects, clock' \in {clock, now} PROVE ObjectRecords'
  BY <1>u, <1>t DEF ObjectRecords, ObjectState, now
<1>s. ASSUME Rejected \/ UNCHANGED vars PROVE ObjectRecords'
  BY <1>s, <1>u DEF Rejected, vars
<1>1. ASSUME NEW o \in Objects, ObjectCreate(o), ~Exists(o) PROVE ObjectRecords'
  <2>1. objects' = [objects EXCEPT ![o] = [life |-> "live", created |-> now, end |-> 0, free |-> 0]]
    BY <1>1 DEF ObjectCreate
  <2>2. clock' = now
    BY <1>1 DEF ObjectCreate, Reduced
  <2>3. QED BY <2>1, <2>2, <1>t DEF TypeOK, ObjectRecords, ObjectState, now
<1>2. ASSUME NEW o \in Objects, ObjectDrop(o), Exists(o), objects[o].life # "freed" PROVE ObjectRecords'
  <2>1. objects' = [objects EXCEPT ![o].life = "ended", ![o].end = FirstRecord(objects[o].end)]
    BY <1>2 DEF ObjectDrop
  <2>2. clock' = now
    BY <1>2 DEF ObjectDrop, Reduced
  <2>3. QED BY <2>1, <2>2, <1>t, <1>2 DEF TypeOK, ObjectRecords, ObjectState, now, FirstRecord
<1>3. ASSUME NEW o \in Objects, ObjectFree(o), Exists(o), objects[o].life # "freed" PROVE ObjectRecords'
  <2>1. objects' = [objects EXCEPT ![o].life = "freed", ![o].end = now, ![o].free = now]
    BY <1>3 DEF ObjectFree
  <2>2. clock' = now
    BY <1>3 DEF ObjectFree, Reduced
  <2>3. QED BY <2>1, <2>2, <1>t DEF TypeOK, ObjectRecords, ObjectState, now
<1>4. QED
  BY <1>1, <1>2, <1>3, <1>s, <1>u
  DEF Next, Reduced, TraceStart, OutOfContext, Marker, ObjectCreate, CallbackRegister, CaptureBind,
      CallbackUnregister, CallbackInvoke, ObjectUse, ObjectDrop, ObjectFree, tables

\* Every step keeps the records of callbacks in order.
LEMMA CallbackRecordsStep == TypeOK /\ CallbackRecords /\ [Next]_vars => CallbackRecords'
<1> SUFFICES ASSUME TypeOK, CallbackRecords, [Next]_vars PROVE CallbackRecords'
  OBVIOUS
<1>t. /\ clock \in Nat
      /\ \A c \in Callbacks : callbacks[c] \in CallbackState
  BY OracleAssumption DEF TypeOK
<1>u. ASSUME callbacks' = callbacks, clock' \in {clock, now} PROVE CallbackRecords'
  BY <1>u, <1>t DEF CallbackRecords, CallbackState, now
<1>s. ASSUME Rejected \/ UNCHANGED vars PROVE CallbackRecords'
  BY <1>s, <1>u DEF Rejected, vars
<1>1. ASSUME NEW c \in Callbacks, NEW w \in Objects, NEW api \in Apis, CallbackRegister(c, w, api), ~Rejected
      PROVE  CallbackRecords'
  <2>1. callbacks' = [callbacks EXCEPT ![c] =
            [life |-> "retained", owner |-> w, register |-> now, release |-> 0]]
    BY <1>1 DEF CallbackRegister
  <2>2. clock' = now
    BY <1>1 DEF CallbackRegister, Reduced
  <2>3. w # NoOwner
    BY <1>1, OracleAssumption DEF CallbackRegister, Opened
  <2>4. QED BY <2>1, <2>2, <2>3, <1>t DEF TypeOK, CallbackRecords, CallbackState, now
<1>2. ASSUME NEW c \in Callbacks, NEW w \in Objects, NEW api \in Apis, CallbackUnregister(c, w, api), ~Rejected
      PROVE  CallbackRecords'
  <2>1. callbacks' = [callbacks EXCEPT ![c].life = "released", ![c].release = now]
    BY <1>2 DEF CallbackUnregister
  <2>2. clock' = now /\ callbacks[c].life # "absent"
    BY <1>2 DEF CallbackUnregister, Reduced, Registered
  <2>3. QED BY <2>1, <2>2, <1>t DEF TypeOK, CallbackRecords, CallbackState, now
<1>3. ASSUME NEW o \in Owners, CloseOwner(o), clock' = now PROVE CallbackRecords'
  <2>1. \A c \in Callbacks : callbacks[c].owner = o => callbacks[c].life # "absent"
    BY OracleAssumption DEF CallbackRecords
  <2>2. QED BY <2>1, <1>3, <1>t, CloseOwnerEffect DEF CallbackRecords, CallbackState, now
<1>4. QED
  BY <1>1, <1>2, <1>3, <1>s, <1>u
  DEF Next, Reduced, TraceStart, OutOfContext, Marker, ObjectCreate, CallbackRegister, CaptureBind,
      CallbackUnregister, CallbackInvoke, ObjectUse, ObjectDrop, ObjectFree, tables

\* Every step keeps the records of owners in order.
LEMMA OwnerRecordsStep == TypeOK /\ OwnerRecords /\ [Next]_vars => OwnerRecords'
<1> SUFFICES ASSUME TypeOK, OwnerRecords, [Next]_vars PROVE OwnerRecords'
  OBVIOUS
<1>t. /\ clock \in Nat
      /\ \A w \in Owners : owners[w] \in OwnerState
  BY OracleAssumption DEF TypeOK
<1>u. ASSUME owners' = owners, clock' \in {clock, now} PROVE OwnerRecords'
  BY <1>u, <1>t DEF OwnerRecords, OwnerState, now
<1>s. ASSUME Rejected \/ UNCHANGED vars PROVE OwnerRecords'
  BY <1>s, <1>u DEF Rejected, vars
<1>1. ASSUME NEW o \in Owners, clock' = now,
             owners' = [owners EXCEPT ![o] = [life |-> "open", close |-> 0]] PROVE OwnerRecords'
  BY <1>1, <1>t DEF TypeOK, OwnerRecords, OwnerState, now
<1>2. ASSUME NEW o \in Owners, CloseOwner(o), clock' = now PROVE OwnerRecords'
  <2>1. owners' = [owners EXCEPT ![o] = [life |-> "closed", close |-> now]]
    BY <1>2 DEF CloseOwner
  <2>2. QED BY <2>1, <1>2, <1>t DEF TypeOK, OwnerRecords, OwnerState, now
<1>3. QED
  BY <1>1, <1>2, <1>s, <1>u
  DEF Next, Reduced, TraceStart, OutOfContext, Marker, ObjectCreate, CallbackRegister, CaptureBind,
      CallbackUnregister, CallbackInvoke, ObjectUse, ObjectDrop, ObjectFree, tables

\* No event gives a registered callback another registration record.
LEMMA RegistrationKept ==
    ASSUME TypeOK, [Next]_vars, NEW c \in Callbacks, Registered(c)
    PROVE  /\ callbacks'[c].register = callbacks[c].register
           /\ callbacks'[c].owner = callbacks[c].owner
           /\ callbacks'[c].life \in {callbacks[c].life, "released"}
<1>t. callbacks \in [Callbacks -> CallbackState]
  BY DEF TypeOK
<1>s. ASSUME callbacks' = callbacks PROVE callbacks'[c] = callbacks[c]
  BY <1>s
<1>1. ASSUME NEW d \in Callbacks, NEW w \in Objects, NEW api \in Apis, CallbackRegister(d, w, api)
      PROVE  callbacks'[c] = callbacks[c]
  BY <1>1, <1>t DEF CallbackRegister, Rejected, vars
<1>2. ASSUME NEW d \in Callbacks, NEW w \in Objects, NEW api \in Apis, CallbackUnregister(d, w, api)
      PROVE  callbacks'[c] = callbacks[c] \/ callbacks'[c] = [callbacks[c] EXCEPT !.life = "released", !.release = now]
  BY <1>2, <1>t DEF CallbackUnregister, Rejected, vars
<1>3. ASSUME NEW o \in Owners, CloseOwner(o)
      PROVE  callbacks'[c] = callbacks[c] \/ callbacks'[c] = [callbacks[c] EXCEPT !.life = "released", !.release = now]
  BY <1>3, <1>t DEF CloseOwner
<1>4. \/ callbacks'[c] = callbacks[c]
      \/ callbacks'[c] = [callbacks[c] EXCEPT !.life = "released", !.release = now]
  BY <1>1, <1>2, <1>3, <1>s
  DEF Next, vars, Rejected, TraceStart, OutOfContext, Marker, ObjectCreate, CaptureBind,
      CallbackInvoke, ObjectUse, ObjectDrop, ObjectFree, tables
<1>5. callbacks[c] \in CallbackState
  BY <1>t
<1>6. QED BY <1>4, <1>5 DEF CallbackState

\* Every step keeps the records of captures in order, given those of callbacks.
LEMMA CaptureRecordsStep ==
    TypeOK /\ CallbackRecords /\ CaptureRecords /\ [Next]_vars => CaptureRecords'
<1> SUFFICES ASSUME TypeOK, CallbackRecords, CaptureRecords, [Next]_vars PROVE CaptureRecords'
  OBVIOUS
<1>t. /\ clock \in Nat
      /\ \A c \in Callbacks : callbacks[c] \in CallbackState
      /\ \A c \in Callbacks, o \in Objects : captures[c][o] \in CaptureState
  BY OracleAssumption DEF TypeOK
<1>k. \A c \in Callbacks : 0 < callbacks[c].register => callbacks'[c].register = callbacks[c].register
  BY RegistrationKept DEF CallbackRecords, Registered
<1>u. ASSUME captures' = captures, clock' \in {clock, now} PROVE CaptureRecords'
  BY <1>u, <1>k, <1>t DEF CaptureRecords, CaptureState, now
<1>s. ASSUME Rejected \/ UNCHANGED vars PROVE CaptureRecords'
  BY <1>s, <1>u DEF Rejected, vars
<1>1. ASSUME NEW c \in Callbacks, NEW o \in Objects, CaptureBind(c, o), ~Rejected PROVE CaptureRecords'
  <2> DEFINE bound == [life |-> "active", mode |-> CaptureFact[c][o], bind |-> now, end |-> 0]
  <2>1. captures' = [captures EXCEPT ![c] = [captures[c] EXCEPT ![o] = bound]]
    BY <1>1 DEF CaptureBind
  <2>2. clock' = now /\ 0 < callbacks[c].register /\ callbacks[c].register < now
    BY <1>1, <1>t DEF CaptureBind, Reduced, Registered, CallbackRecords, CallbackState, now
  <2>3. captures'[c][o] = bound
    BY <2>1 DEF TypeOK
  <2>4. \A d \in Callbacks, x \in Objects : d # c \/ x # o => captures'[d][x] = captures[d][x]
    BY <2>1 DEF TypeOK
  <2>5. QED BY <2>2, <2>3, <2>4, <1>k, <1>t DEF CaptureRecords, CaptureState, now
<1>2. ASSUME NEW o \in Objects, EndBorrowed(o), clock' = now PROVE CaptureRecords'
  BY <1>2, <1>k, <1>t, EndBorrowedEffect DEF CaptureRecords, CaptureState, now
<1>3. QED
  BY <1>1, <1>2, <1>s, <1>u
  DEF Next, Reduced, TraceStart, OutOfContext, Marker, ObjectCreate, CallbackRegister, CaptureBind,
      CallbackUnregister, CallbackInvoke, ObjectUse, ObjectDrop, ObjectFree, tables

\* Record ids and lifecycles agree in every reachable state.
THEOREM RecordsCorrect == Spec => []RecordsOrdered
<1>1. Init => RecordsOrdered
  BY OracleAssumption DEF Init, RecordsOrdered, ObjectRecords, CallbackRecords, CaptureRecords, OwnerRecords,
     NoObject, NoCapture, NoEntry, NoOwnerRow
<1>2. TypeOK /\ RecordsOrdered /\ [Next]_vars => RecordsOrdered'
  BY ObjectRecordsStep, CallbackRecordsStep, CaptureRecordsStep, OwnerRecordsStep DEF RecordsOrdered
<1>3. QED
  BY <1>1, <1>2, TypeCorrect, PTL DEF Spec

-----------------------------------------------------------------------------
(* The findings. *)

\* Where a new finding comes from: exactly one of the four rules, judged on the
\* tables around the step.
LEMMA NewFinding ==
    ASSUME TypeOK, [Next]_vars, NEW f \in findings', f \notin findings
    PROVE  /\ clock' = now
           /\ \/ \E o \in Objects :
                     /\ UNCHANGED tables
                     /\ objects[o].life \in {"ended", "freed"}
                     /\ f = FindingOf("LIFE-001", o, NoCallback, 0, 0, objects[o].end)
              \/ \E c \in Callbacks : \E o \in Dangling(c) :
                     /\ UNCHANGED tables
                     /\ f = FindingOf("LIFE-002", o, c, captures[c][o].bind, 0, captures[c][o].end)
              \/ \E o \in Objects : \E c \in Exposed(o) :
                     /\ EndBorrowed(o)
                     /\ f = FindingOf("LIFE-003", o, c, captures'[c][o].bind, callbacks'[c].register, now)
              \/ \E o \in Objects :
                     /\ UNCHANGED <<objects, captures>>
                     /\ objects[o].life = "freed"
                     /\ f = FindingOf("FREE-001", o, NoCallback, 0, 0, objects[o].free)
<1>s. ASSUME NEW ok, NEW cands, Reduced(ok, cands) PROVE clock' = now /\ f \in cands
  BY <1>s DEF Reduced, Select
<1>u. findings' # findings
  OBVIOUS
<1>1. ASSUME NEW o \in Objects, ObjectUse(o)
      PROVE  /\ clock' = now /\ UNCHANGED tables /\ objects[o].life \in {"ended", "freed"}
             /\ f = FindingOf("LIFE-001", o, NoCallback, 0, 0, objects[o].end)
  <2>1. Reduced(TRUE, UseCandidates(o)) /\ UNCHANGED tables /\ Exists(o)
    BY <1>1, <1>u DEF ObjectUse, Rejected, vars, tables
  <2>2. f \in UseCandidates(o)
    BY <2>1, <1>s
  <2>3. QED BY <2>1, <2>2, <1>s DEF UseCandidates, Exists, TypeOK, ObjectState
<1>2. ASSUME NEW c \in Callbacks, NEW api \in Apis, CallbackInvoke(c, api)
      PROVE  /\ clock' = now /\ UNCHANGED tables
             /\ \E o \in Dangling(c) :
                    f = FindingOf("LIFE-002", o, c, captures[c][o].bind, 0, captures[c][o].end)
  <2>1. Reduced(TRUE, InvokeCandidates(c)) /\ UNCHANGED tables
    BY <1>2, <1>u DEF CallbackInvoke, Rejected, vars, tables
  <2>2. clock' = now /\ f \in InvokeCandidates(c)
    BY <2>1, <1>s
  <2>3. \E o \in Dangling(c) :
            f = FindingOf("LIFE-002", o, c, captures[c][o].bind, 0, captures[c][o].end)
    BY <2>2 DEF InvokeCandidates
  <2>4. QED BY <2>1, <2>2, <2>3
<1>e. ASSUME NEW o \in Objects, f \in EndCandidates(o)
      PROVE  \E c \in Exposed(o) :
                 f = FindingOf("LIFE-003", o, c, captures'[c][o].bind, callbacks'[c].register, now)
  BY <1>e DEF EndCandidates
<1>3. ASSUME NEW o \in Objects, ObjectDrop(o)
      PROVE  clock' = now /\ EndBorrowed(o) /\ f \in EndCandidates(o)
  BY <1>3, <1>u, <1>s DEF ObjectDrop, Rejected, vars
<1>4. ASSUME NEW o \in Objects, ObjectFree(o)
      PROVE  /\ clock' = now
             /\ \/ EndBorrowed(o) /\ f \in EndCandidates(o)
                \/ /\ UNCHANGED <<objects, captures>> /\ objects[o].life = "freed"
                   /\ f = FindingOf("FREE-001", o, NoCallback, 0, 0, objects[o].free)
  <2>1. Exists(o)
    BY <1>4, <1>u DEF ObjectFree, Rejected, vars
  <2>2. PICK ok \in BOOLEAN : Reduced(ok, EndCandidates(o) \cup RefreeCandidates(o))
    BY <1>4, <2>1 DEF ObjectFree
  <2>3. clock' = now /\ f \in EndCandidates(o) \cup RefreeCandidates(o)
    BY <2>2, <1>s
  <2>4. CASE objects[o].life = "freed"
    <3>1. UNCHANGED <<objects, captures>>
      BY <1>4, <2>1, <2>4 DEF ObjectFree
    <3>2. EndCandidates(o) = {}
      BY <3>1 DEF EndCandidates, Exposed
    <3>3. QED BY <2>3, <2>4, <3>1, <3>2 DEF RefreeCandidates
  <2>5. CASE objects[o].life # "freed"
    BY <1>4, <2>1, <2>3, <2>5 DEF ObjectFree, RefreeCandidates
  <2>6. QED BY <2>4, <2>5
<1>5. \/ \E o \in Objects : ObjectUse(o) \/ ObjectDrop(o) \/ ObjectFree(o)
      \/ \E c \in Callbacks, api \in Apis : CallbackInvoke(c, api)
  <2>1. ~Reduced(TRUE, {})
    BY DEF Reduced, Select
  <2>2. ~Rejected /\ ~UNCHANGED vars
    BY <1>u DEF Rejected, vars
  <2>3. QED
    BY <2>1, <2>2 DEF Next, TraceStart, OutOfContext, Marker, ObjectCreate, CallbackRegister,
       CaptureBind, CallbackUnregister
<1>6. CASE \E o \in Objects : ObjectUse(o)
  BY <1>6, <1>1
<1>7. CASE \E c \in Callbacks, api \in Apis : CallbackInvoke(c, api)
  BY <1>7, <1>2
<1>8. CASE \E o \in Objects : ObjectDrop(o)
  BY <1>8, <1>3, <1>e
<1>9. CASE \E o \in Objects : ObjectFree(o)
  BY <1>9, <1>4, <1>e
<1>10. QED
  BY <1>5, <1>6, <1>7, <1>8, <1>9

\* A capture keeps its bind; an ended one keeps everything.
LEMMA CaptureKept ==
    ASSUME TypeOK, [Next]_vars, NEW c \in Callbacks, NEW o \in Objects, Bound(c, o)
    PROVE  /\ captures'[c][o].bind = captures[c][o].bind
           /\ captures'[c][o].mode = captures[c][o].mode
           /\ captures'[c][o].life \in {captures[c][o].life, "ended"}
           /\ captures[c][o].life = "ended" => captures'[c][o] = captures[c][o]
<1>s. ASSUME captures' = captures PROVE captures'[c][o] = captures[c][o]
  BY <1>s
<1>1. ASSUME NEW d \in Callbacks, NEW x \in Objects, CaptureBind(d, x)
      PROVE  captures'[c][o] = captures[c][o]
  <2>1. CASE Rejected BY <2>1 DEF Rejected, vars
  <2>2. CASE ~Rejected
    <3> DEFINE bound == [life |-> "active", mode |-> CaptureFact[d][x], bind |-> now, end |-> 0]
    <3>1. captures' = [captures EXCEPT ![d] = [captures[d] EXCEPT ![x] = bound]] /\ ~Bound(d, x)
      BY <2>2, <1>1 DEF CaptureBind
    <3> HIDE DEF bound
    <3>2. d # c \/ x # o
      BY <3>1
    <3>3. QED BY <3>1, <3>2 DEF TypeOK
  <2>3. QED BY <2>1, <2>2
<1>2. ASSUME NEW x \in Objects, EndBorrowed(x)
      PROVE  \/ captures'[c][o] = captures[c][o]
             \/ /\ captures[c][o].life = "active" /\ captures'[c][o].life = "ended"
                /\ captures'[c][o].mode = captures[c][o].mode
                /\ captures'[c][o].bind = captures[c][o].bind
  BY <1>2, EndBorrowedEffect
<1>3. QED
  BY <1>1, <1>2, <1>s
  DEF Next, vars, Rejected, TraceStart, OutOfContext, Marker, ObjectCreate, CallbackRegister,
      CallbackUnregister, CallbackInvoke, ObjectUse, ObjectDrop, ObjectFree, tables

\* The first free of an object is kept, and its end only moves forward.
LEMMA ObjectKept ==
    ASSUME TypeOK, ObjectRecords, [Next]_vars, NEW o \in Objects, objects[o].life \in {"ended", "freed"}
    PROVE  /\ objects[o].end <= objects'[o].end
           /\ objects[o].life = "freed" => objects'[o] = objects[o]
           /\ objects'[o].life \in {objects[o].life, "freed"}
<1>t. /\ objects \in [Objects -> ObjectState] /\ clock \in Nat
      /\ objects[o] \in ObjectState /\ objects[o].end <= clock /\ 0 < objects[o].end
  BY OracleAssumption DEF TypeOK, ObjectRecords
<1>s. ASSUME objects' = objects PROVE objects'[o] = objects[o]
  BY <1>s
<1>1. ASSUME NEW x \in Objects, ObjectCreate(x) PROVE objects'[o] = objects[o]
  BY <1>1, <1>t DEF ObjectCreate, Exists, Rejected, vars
<1>2. ASSUME NEW x \in Objects, ObjectDrop(x)
      PROVE  \/ objects'[o] = objects[o]
             \/ objects[o].life = "ended" /\ objects'[o].life = "ended" /\ objects'[o].end = objects[o].end
  <2>1. CASE objects' = objects BY <2>1
  <2>2. CASE objects' # objects
    <3>1. /\ objects[x].life # "freed"
          /\ objects' = [objects EXCEPT ![x].life = "ended", ![x].end = FirstRecord(objects[x].end)]
      BY <2>2, <1>2 DEF ObjectDrop, Rejected, vars
    <3>2. QED BY <3>1, <1>t DEF ObjectState, FirstRecord
  <2>3. QED BY <2>1, <2>2
<1>3. ASSUME NEW x \in Objects, ObjectFree(x)
      PROVE  \/ objects'[o] = objects[o]
             \/ objects[o].life = "ended" /\ objects'[o].life = "freed" /\ objects'[o].end = now
  <2>1. CASE objects' = objects BY <2>1
  <2>2. CASE objects' # objects
    <3>1. /\ objects[x].life # "freed"
          /\ objects' = [objects EXCEPT ![x].life = "freed", ![x].end = now, ![x].free = now]
      BY <2>2, <1>3 DEF ObjectFree, Rejected, vars
    <3>2. QED BY <3>1, <1>t DEF ObjectState
  <2>3. QED BY <2>1, <2>2
<1>4. \/ objects'[o] = objects[o]
      \/ objects[o].life = "ended" /\ objects'[o].life = "ended" /\ objects'[o].end = objects[o].end
      \/ objects[o].life = "ended" /\ objects'[o].life = "freed" /\ objects'[o].end = now
  BY <1>1, <1>2, <1>3, <1>s
  DEF Next, vars, Rejected, TraceStart, OutOfContext, Marker, CallbackRegister, CaptureBind,
      CallbackUnregister, CallbackInvoke, ObjectUse, tables
<1>5. QED
  BY <1>4, <1>t DEF now, ObjectState

\* A borrow ended by this step ended at this step.
LEMMA ExposedNow ==
    ASSUME TypeOK, NEW o \in Objects, EndBorrowed(o), NEW c \in Exposed(o)
    PROVE  /\ c \in Callbacks
           /\ captures[c][o].life = "active" /\ captures'[c][o].life = "ended"
           /\ captures'[c][o].end = now
  BY EndBorrowedEffect DEF Exposed

\* A new finding is made of rows that are in order before or after the step.
LEMMA EvidenceOrderedStep ==
    TypeOK /\ RecordsOrdered /\ RecordsOrdered' /\ EvidenceOrdered /\ [Next]_vars => EvidenceOrdered'
<1> SUFFICES ASSUME TypeOK, RecordsOrdered, RecordsOrdered', EvidenceOrdered, [Next]_vars,
                    NEW f \in findings'
             PROVE  /\ f.at <= clock'
                    /\ f.rule \in {"LIFE-001", "FREE-001"} => 0 < f.end /\ f.end < f.at
                    /\ f.rule = "LIFE-002" => 0 < f.bind /\ f.bind < f.end /\ f.end < f.at
                    /\ f.rule = "LIFE-003" => 0 < f.register /\ f.register < f.bind /\ f.bind < f.at
  BY DEF EvidenceOrdered
<1>t. /\ clock \in Nat /\ clock' \in {clock, now}
      /\ \A o \in Objects : objects[o] \in ObjectState
      /\ \A c \in Callbacks, o \in Objects : captures[c][o] \in CaptureState
  <2>1. clock' \in {clock, now}
    BY DEF Next, Reduced, Rejected, vars, TraceStart, OutOfContext, Marker, ObjectCreate,
       CallbackRegister, CaptureBind, CallbackUnregister, CallbackInvoke, ObjectUse, ObjectDrop, ObjectFree
  <2>2. QED BY <2>1, OracleAssumption DEF TypeOK
<1>1. CASE f \in findings
  BY <1>1, <1>t DEF EvidenceOrdered, TypeOK, Finding, now
<1>2. CASE f \notin findings
  <2>1. ASSUME NEW o \in Objects, objects[o].life \in {"ended", "freed"}, clock' = now,
               f = FindingOf("LIFE-001", o, NoCallback, 0, 0, objects[o].end)
        PROVE  f.rule = "LIFE-001" /\ f.at = clock' /\ 0 < f.end /\ f.end < f.at
    BY <2>1, <1>t DEF FindingOf, RecordsOrdered, ObjectRecords, ObjectState, now
  <2>2. ASSUME NEW c \in Callbacks, NEW o \in Dangling(c), clock' = now,
               f = FindingOf("LIFE-002", o, c, captures[c][o].bind, 0, captures[c][o].end)
        PROVE  f.rule = "LIFE-002" /\ f.at = clock' /\ 0 < f.bind /\ f.bind < f.end /\ f.end < f.at
    <3>1. o \in Objects /\ captures[c][o].life = "ended"
      BY DEF Dangling
    <3>2. /\ 0 < captures[c][o].bind /\ captures[c][o].bind < captures[c][o].end
          /\ captures[c][o].end <= clock
      BY <3>1, <1>t DEF RecordsOrdered, CaptureRecords, CallbackRecords, CaptureState, TypeOK, CallbackState
    <3>3. /\ f.rule = "LIFE-002" /\ f.at = now
          /\ f.bind = captures[c][o].bind /\ f.end = captures[c][o].end
      BY <2>2 DEF FindingOf
    <3>4. captures[c][o] \in CaptureState
      BY <3>1, <1>t
    <3>5. QED BY <2>2, <3>2, <3>3, <3>4, <1>t DEF CaptureState, now
  <2>3. ASSUME NEW o \in Objects, NEW c \in Exposed(o), clock' = now, EndBorrowed(o),
               f = FindingOf("LIFE-003", o, c, captures'[c][o].bind, callbacks'[c].register, now)
        PROVE  /\ f.rule = "LIFE-003" /\ f.at = clock'
               /\ 0 < f.register /\ f.register < f.bind /\ f.bind < f.at
    <3>1. c \in Callbacks /\ captures'[c][o].life = "ended" /\ captures'[c][o].end = now
      BY <2>3, ExposedNow
    <3>2. /\ 0 < callbacks'[c].register /\ callbacks'[c].register < captures'[c][o].bind
          /\ captures'[c][o].bind < captures'[c][o].end
      BY <3>1 DEF RecordsOrdered, CaptureRecords
    <3>3. QED BY <2>3, <3>1, <3>2 DEF FindingOf
  <2>4. ASSUME NEW o \in Objects, objects[o].life = "freed", clock' = now,
               f = FindingOf("FREE-001", o, NoCallback, 0, 0, objects[o].free)
        PROVE  f.rule = "FREE-001" /\ f.at = clock' /\ 0 < f.end /\ f.end < f.at
    BY <2>4, <1>t DEF FindingOf, RecordsOrdered, ObjectRecords, ObjectState, now
  <2>5. \/ f.rule = "LIFE-001" /\ f.at = clock' /\ 0 < f.end /\ f.end < f.at
        \/ f.rule = "LIFE-002" /\ f.at = clock' /\ 0 < f.bind /\ f.bind < f.end /\ f.end < f.at
        \/ /\ f.rule = "LIFE-003" /\ f.at = clock'
           /\ 0 < f.register /\ f.register < f.bind /\ f.bind < f.at
        \/ f.rule = "FREE-001" /\ f.at = clock' /\ 0 < f.end /\ f.end < f.at
    BY <1>2, <2>1, <2>2, <2>3, <2>4, NewFinding
  <2>6. QED BY <2>5, <1>t DEF now
<1>3. QED BY <1>1, <1>2

\* Evidence is in chronological order in every finding the oracle makes.
THEOREM EvidenceIsOrdered == Spec => []EvidenceOrdered
<1>1. Init => EvidenceOrdered
  BY DEF Init, EvidenceOrdered
<1>2. QED
  BY <1>1, EvidenceOrderedStep, TypeCorrect, RecordsCorrect, PTL DEF Spec

\* A row that a finding cites, old or new, holds what the finding says.
LEMMA EvidenceStableStep ==
    TypeOK /\ RecordsOrdered /\ EvidenceOrdered /\ EvidenceStable /\ [Next]_vars => EvidenceStable'
<1> SUFFICES ASSUME TypeOK, RecordsOrdered, EvidenceOrdered, EvidenceStable, [Next]_vars, NEW f \in findings'
             PROVE  /\ f.rule \in {"LIFE-002", "LIFE-003"} =>
                           /\ f.callback \in Callbacks
                           /\ captures'[f.callback][f.object].life = "ended"
                           /\ captures'[f.callback][f.object].bind = f.bind
                           /\ captures'[f.callback][f.object].end = f.end
                    /\ f.rule = "LIFE-003" => callbacks'[f.callback].register = f.register
                    /\ f.rule = "LIFE-001" => f.end <= objects'[f.object].end
                    /\ f.rule = "FREE-001" => objects'[f.object].free = f.end
  BY DEF EvidenceStable
<1>1. CASE f \in findings
  <2>t. f.object \in Objects /\ f.end \in Nat
    BY <1>1 DEF TypeOK, Finding
  <2>1. CASE f.rule \in {"LIFE-002", "LIFE-003"}
    <3>1. /\ f.callback \in Callbacks
          /\ captures[f.callback][f.object].life = "ended"
          /\ captures[f.callback][f.object].bind = f.bind
          /\ captures[f.callback][f.object].end = f.end
          /\ f.rule = "LIFE-003" => callbacks[f.callback].register = f.register
      BY <1>1, <2>1 DEF EvidenceStable
    <3>2. Bound(f.callback, f.object) /\ Registered(f.callback)
      BY <3>1, <2>t DEF Bound, Registered, RecordsOrdered, CaptureRecords, CallbackRecords
    <3>3. captures'[f.callback][f.object] = captures[f.callback][f.object]
      BY <3>1, <3>2, <2>t, CaptureKept
    <3>4. callbacks'[f.callback].register = callbacks[f.callback].register
      BY <3>1, <3>2, RegistrationKept
    <3>5. QED BY <2>1, <3>1, <3>3, <3>4
  <2>2. CASE f.rule = "LIFE-001"
    <3>1. 0 < f.end /\ f.end <= objects[f.object].end
      BY <1>1, <2>2 DEF EvidenceStable, EvidenceOrdered
    <3>2. objects[f.object] \in ObjectState /\ objects'[f.object] \in ObjectState
      BY <2>t, TypeStep DEF TypeOK
    <3>3. objects[f.object].life \in {"ended", "freed"}
      BY <3>1, <3>2, <2>t DEF RecordsOrdered, ObjectRecords, ObjectState
    <3>4. objects[f.object].end <= objects'[f.object].end
      BY <3>3, <2>t, ObjectKept DEF RecordsOrdered
    <3>5. QED BY <2>2, <2>t, <3>1, <3>2, <3>4 DEF ObjectState
  <2>3. CASE f.rule = "FREE-001"
    <3>1. 0 < f.end /\ objects[f.object].free = f.end
      BY <1>1, <2>3 DEF EvidenceStable, EvidenceOrdered
    <3>2. objects[f.object].life = "freed"
      BY <3>1, <2>t DEF RecordsOrdered, ObjectRecords
    <3>3. objects'[f.object] = objects[f.object]
      BY <3>2, <2>t, ObjectKept DEF RecordsOrdered
    <3>4. QED BY <2>3, <3>1, <3>3
  <2>4. QED BY <1>1, <2>1, <2>2, <2>3 DEF TypeOK, Finding, RuleIds
<1>2. CASE f \notin findings
  <2>1. ASSUME NEW o \in Objects, UNCHANGED tables,
               f = FindingOf("LIFE-001", o, NoCallback, 0, 0, objects[o].end)
        PROVE  f.rule = "LIFE-001" /\ f.end <= objects'[f.object].end
    <3>1. f.rule = "LIFE-001" /\ f.object = o /\ f.end = objects[o].end
      BY <2>1 DEF FindingOf
    <3>2. QED BY <2>1, <3>1 DEF tables, TypeOK, ObjectState
  <2>2. ASSUME NEW c \in Callbacks, NEW o \in Dangling(c), UNCHANGED tables,
               f = FindingOf("LIFE-002", o, c, captures[c][o].bind, 0, captures[c][o].end)
        PROVE  /\ f.rule = "LIFE-002"
               /\ f.callback \in Callbacks
               /\ captures'[f.callback][f.object].life = "ended"
               /\ captures'[f.callback][f.object].bind = f.bind
               /\ captures'[f.callback][f.object].end = f.end
    <3>1. /\ f.rule = "LIFE-002" /\ f.callback = c /\ f.object = o
          /\ f.bind = captures[c][o].bind /\ f.end = captures[c][o].end
      BY <2>2 DEF FindingOf
    <3>2. QED BY <2>2, <3>1 DEF tables, Dangling
  <2>3. ASSUME NEW o \in Objects, NEW c \in Exposed(o), EndBorrowed(o),
               f = FindingOf("LIFE-003", o, c, captures'[c][o].bind, callbacks'[c].register, now)
        PROVE  /\ f.rule = "LIFE-003"
               /\ f.callback \in Callbacks
               /\ captures'[f.callback][f.object].life = "ended"
               /\ captures'[f.callback][f.object].bind = f.bind
               /\ captures'[f.callback][f.object].end = f.end
               /\ callbacks'[f.callback].register = f.register
    <3>1. /\ f.rule = "LIFE-003" /\ f.callback = c /\ f.object = o /\ f.end = now
          /\ f.bind = captures'[c][o].bind /\ f.register = callbacks'[c].register
      BY <2>3 DEF FindingOf
    <3>2. QED BY <2>3, <3>1, ExposedNow
  <2>4. ASSUME NEW o \in Objects, UNCHANGED <<objects, captures>>,
               f = FindingOf("FREE-001", o, NoCallback, 0, 0, objects[o].free)
        PROVE  f.rule = "FREE-001" /\ objects'[f.object].free = f.end
    BY <2>4 DEF FindingOf
  <2>5. \/ f.rule = "LIFE-001" /\ f.end <= objects'[f.object].end
        \/ /\ f.rule \in {"LIFE-002", "LIFE-003"}
           /\ f.callback \in Callbacks
           /\ captures'[f.callback][f.object].life = "ended"
           /\ captures'[f.callback][f.object].bind = f.bind
           /\ captures'[f.callback][f.object].end = f.end
           /\ f.rule = "LIFE-003" => callbacks'[f.callback].register = f.register
        \/ f.rule = "FREE-001" /\ objects'[f.object].free = f.end
    BY <1>2, <2>1, <2>2, <2>3, <2>4, NewFinding
  <2>6. QED BY <2>5
<1>3. QED BY <1>1, <1>2

\* No later event rewrites the records an earlier finding cites.
THEOREM EvidenceIsStable == Spec => []EvidenceStable
<1>1. Init => EvidenceStable
  BY DEF Init, EvidenceStable
<1>2. QED
  BY <1>1, EvidenceStableStep, TypeCorrect, RecordsCorrect, EvidenceIsOrdered, PTL DEF Spec
-----------------------------------------------------------------------------
(* Borrows, owners and the order of lifecycles. *)

\* A step counts one record or none, and takes no finding back.
LEMMA ClockStep ==
    ASSUME TypeOK, [Next]_vars
    PROVE  clock' \in {clock, now} /\ findings \subseteq findings'
BY DEF Next, Reduced, Rejected, vars, TraceStart, OutOfContext, Marker, ObjectCreate, CallbackRegister,
   CaptureBind, CallbackUnregister, CallbackInvoke, ObjectUse, ObjectDrop, ObjectFree

\* What a step may do to one object: nothing, its creation, or a drop or free
\* of it that ends the borrows of it.
LEMMA ObjectStepCases ==
    ASSUME TypeOK, [Next]_vars, NEW o \in Objects
    PROVE  \/ objects'[o] = objects[o]
           \/ objects[o].life = "absent" /\ objects'[o].end = 0
           \/ EndBorrowed(o)
<1>t. objects \in [Objects -> ObjectState]
  BY DEF TypeOK
<1>s. ASSUME objects' = objects PROVE objects'[o] = objects[o]
  BY <1>s
<1>1. ASSUME NEW x \in Objects, ObjectCreate(x)
      PROVE  objects'[o] = objects[o] \/ (objects[o].life = "absent" /\ objects'[o].end = 0)
  <2>1. CASE Exists(x) BY <1>1, <2>1 DEF ObjectCreate, Rejected, vars
  <2>2. CASE ~Exists(x)
    <3>1. objects' = [objects EXCEPT ![x] = [life |-> "live", created |-> now, end |-> 0, free |-> 0]]
      BY <1>1, <2>2 DEF ObjectCreate
    <3>2. CASE o = x BY <3>1, <3>2, <2>2, <1>t DEF Exists, ObjectState
    <3>3. CASE o # x BY <3>1, <3>3, <1>t
    <3>4. QED BY <3>2, <3>3
  <2>3. QED BY <2>1, <2>2
<1>2. ASSUME NEW x \in Objects, ObjectDrop(x) PROVE objects'[o] = objects[o] \/ EndBorrowed(o)
  BY <1>2, <1>t DEF ObjectDrop, Rejected, vars
<1>3. ASSUME NEW x \in Objects, ObjectFree(x) PROVE objects'[o] = objects[o] \/ EndBorrowed(o)
  BY <1>3, <1>t DEF ObjectFree, Rejected, vars
<1>4. QED
  BY <1>1, <1>2, <1>3, <1>s
  DEF Next, vars, Rejected, TraceStart, OutOfContext, Marker, CallbackRegister, CaptureBind,
      CallbackUnregister, CallbackInvoke, ObjectUse, tables

\* What a step may do to a capture that is active after it: it was there
\* before, unchanged, or it is bound by this step.
LEMMA ActiveCaptureCases ==
    ASSUME TypeOK, [Next]_vars, NEW c \in Callbacks, NEW o \in Objects, captures'[c][o].life = "active"
    PROVE  \/ captures'[c][o] = captures[c][o]
           \/ captures'[c][o].bind = now /\ clock' = now /\ objects' = objects
<1>s. ASSUME captures' = captures PROVE captures'[c][o] = captures[c][o]
  BY <1>s
<1>1. ASSUME NEW d \in Callbacks, NEW x \in Objects, CaptureBind(d, x)
      PROVE  \/ captures'[c][o] = captures[c][o]
             \/ captures'[c][o].bind = now /\ clock' = now /\ objects' = objects
  <2>1. CASE Rejected BY <2>1 DEF Rejected, vars
  <2>2. CASE ~Rejected
    <3> DEFINE bound == [life |-> "active", mode |-> CaptureFact[d][x], bind |-> now, end |-> 0]
    <3>1. /\ captures' = [captures EXCEPT ![d] = [captures[d] EXCEPT ![x] = bound]]
          /\ clock' = now /\ objects' = objects
      BY <2>2, <1>1 DEF CaptureBind, Reduced
    <3>2. bound.bind = now
      OBVIOUS
    <3> HIDE DEF bound
    <3>3. captures'[c][o] = captures[c][o] \/ captures'[c][o] = bound
      BY <3>1 DEF TypeOK
    <3>4. QED BY <3>1, <3>2, <3>3
  <2>3. QED BY <2>1, <2>2
<1>2. ASSUME NEW x \in Objects, EndBorrowed(x) PROVE captures'[c][o] = captures[c][o]
  BY <1>2, EndBorrowedEffect
<1>3. QED
  BY <1>1, <1>2, <1>s
  DEF Next, vars, Rejected, TraceStart, OutOfContext, Marker, ObjectCreate, CallbackRegister,
      CallbackUnregister, CallbackInvoke, ObjectUse, ObjectDrop, ObjectFree, tables

\* A drop or free ends the borrows that are active, and a bind comes later than it.
LEMMA BorrowEndsStep ==
    TypeOK /\ RecordsOrdered /\ BorrowEndsWithObject /\ [Next]_vars => BorrowEndsWithObject'
<1> SUFFICES ASSUME TypeOK, RecordsOrdered, BorrowEndsWithObject, [Next]_vars,
                    NEW c \in Callbacks, NEW o \in Objects,
                    captures'[c][o].life = "active", captures'[c][o].mode = "borrowed"
             PROVE  captures'[c][o].bind > objects'[o].end
  BY DEF BorrowEndsWithObject
<1>t. /\ clock \in Nat /\ objects[o] \in ObjectState /\ captures[c][o] \in CaptureState
      /\ objects[o].end <= clock
      /\ objects[o].life = "absent" => objects[o].end = 0
  BY OracleAssumption DEF TypeOK, RecordsOrdered, ObjectRecords, ObjectState
<1>1. CASE captures'[c][o].bind = now /\ clock' = now /\ objects' = objects
  BY <1>1, <1>t DEF ObjectState, now
<1>2. CASE captures'[c][o] = captures[c][o]
  <2>1. captures[c][o].bind > objects[o].end
    BY <1>2 DEF BorrowEndsWithObject
  <2>2. ~EndBorrowed(o)
    BY <1>2, EndBorrowedEffect
  <2>3. objects'[o].end = objects[o].end
    BY <2>2, <1>t, ObjectStepCases
  <2>4. QED BY <1>2, <2>1, <2>3
<1>3. QED BY <1>1, <1>2, ActiveCaptureCases

\* A borrow never outlives what it borrows, whatever mix of drops, frees and
\* late binds the events describe.
THEOREM BorrowsEndWithObjects == Spec => []BorrowEndsWithObject
<1>1. Init => BorrowEndsWithObject
  BY DEF Init, BorrowEndsWithObject, NoCapture
<1>2. QED
  BY <1>1, BorrowEndsStep, TypeCorrect, RecordsCorrect, PTL DEF Spec

\* What a step may do to one owner.
LEMMA OwnerStepCases ==
    ASSUME TypeOK, [Next]_vars, NEW w \in Owners
    PROVE  \/ owners'[w] = owners[w]
           \/ objects[w].life = "absent" /\ objects'[w].life = "live" /\ owners'[w].life = "open"
           \/ objects[w].life # "absent" /\ CloseOwner(w)
<1>t. owners \in [Owners -> OwnerState] /\ objects \in [Objects -> ObjectState] /\ w \in Objects
  BY OracleAssumption DEF TypeOK
<1>s. ASSUME owners' = owners PROVE owners'[w] = owners[w]
  BY <1>s
<1>1. ASSUME NEW o \in Objects, ObjectCreate(o)
      PROVE  \/ owners'[w] = owners[w]
             \/ objects[w].life = "absent" /\ objects'[w].life = "live" /\ owners'[w].life = "open"
  <2>1. CASE Exists(o) BY <1>1, <2>1 DEF ObjectCreate, Rejected, vars
  <2>2. CASE ~Exists(o)
    <3>1. /\ objects' = [objects EXCEPT ![o] = [life |-> "live", created |-> now, end |-> 0, free |-> 0]]
          /\ o \in Owners => owners' = [owners EXCEPT ![o] = [life |-> "open", close |-> 0]]
          /\ o \notin Owners => owners' = owners
      BY <1>1, <2>2 DEF ObjectCreate
    <3>2. CASE o = w BY <3>1, <3>2, <2>2, <1>t DEF Exists
    <3>3. CASE o # w BY <3>1, <3>3, <1>t
    <3>4. QED BY <3>2, <3>3
  <2>3. QED BY <2>1, <2>2
<1>2. ASSUME NEW o \in Objects, ObjectDrop(o)
      PROVE  owners'[w] = owners[w] \/ (objects[w].life # "absent" /\ CloseOwner(w))
  <2>1. CASE owners' = owners BY <2>1
  <2>2. CASE owners' # owners
    <3>1. CloseOwner(o) /\ Exists(o) /\ o \in Owners
      BY <2>2, <1>2 DEF ObjectDrop, Rejected, vars
    <3>2. CASE o = w BY <3>1, <3>2 DEF Exists
    <3>3. CASE o # w
      <4>1. owners'[w] = owners[w]
        BY <3>1, <3>3, <1>t DEF CloseOwner
      <4>2. QED BY <4>1
    <3>4. QED BY <3>2, <3>3
  <2>3. QED BY <2>1, <2>2
<1>3. QED
  BY <1>1, <1>2, <1>s
  DEF Next, vars, Rejected, TraceStart, OutOfContext, Marker, CallbackRegister, CaptureBind,
      CallbackUnregister, CallbackInvoke, ObjectUse, ObjectFree, tables

\* What a step may do to a callback: keep its registration, or register it.
LEMMA RegisteredNow ==
    ASSUME TypeOK, [Next]_vars, NEW c \in Callbacks, ~Registered(c), callbacks'[c] # callbacks[c],
           callbacks[c].owner = NoOwner
    PROVE  callbacks'[c].register = now /\ owners' = owners /\ captures' = captures
<1>1. ASSUME NEW d \in Callbacks, NEW w \in Objects, NEW api \in Apis, CallbackRegister(d, w, api)
      PROVE  callbacks'[c].register = now /\ owners' = owners /\ captures' = captures
  <2>1. ~Rejected
    BY DEF Rejected, vars
  <2>2. /\ callbacks' = [callbacks EXCEPT ![d] =
               [life |-> "retained", owner |-> w, register |-> now, release |-> 0]]
        /\ owners' = owners /\ captures' = captures
    BY <2>1, <1>1 DEF CallbackRegister
  <2>3. d = c
    BY <2>2 DEF TypeOK
  <2>4. QED BY <2>2, <2>3 DEF TypeOK
<1>2. ASSUME NEW d \in Callbacks, NEW w \in Objects, NEW api \in Apis, CallbackUnregister(d, w, api)
      PROVE  FALSE
  BY <1>2 DEF CallbackUnregister, Rejected, vars, TypeOK
<1>3. ASSUME NEW o \in Owners, CloseOwner(o) PROVE FALSE
  BY <1>3, CloseOwnerEffect, OracleAssumption
<1>4. callbacks' # callbacks
  OBVIOUS
<1>5. QED
  BY <1>1, <1>2, <1>3, <1>4
  DEF Next, vars, Rejected, TraceStart, OutOfContext, Marker, ObjectCreate, CaptureBind,
      CallbackInvoke, ObjectUse, ObjectDrop, ObjectFree, tables

\* The close of an owner releases what is registered, and what comes later has a
\* later registration.
LEMMA ClosedOwnerStep ==
    TypeOK /\ RecordsOrdered /\ ClosedOwnerReleased /\ [Next]_vars => ClosedOwnerReleased'
<1> SUFFICES ASSUME TypeOK, RecordsOrdered, ClosedOwnerReleased, [Next]_vars,
                    NEW c \in Callbacks, NEW w \in Owners,
                    owners'[w].life = "closed", callbacks'[c].owner = w,
                    callbacks'[c].register < owners'[w].close
             PROVE  callbacks'[c].life = "released"
  BY DEF ClosedOwnerReleased
<1>t. /\ clock \in Nat /\ owners[w] \in OwnerState /\ callbacks[c] \in CallbackState
      /\ owners[w].close <= clock
      /\ callbacks[c].life = "absent" => callbacks[c].owner = NoOwner
      /\ w # NoOwner
  BY OracleAssumption DEF TypeOK, RecordsOrdered, OwnerRecords, CallbackRecords
<1>1. CASE objects[w].life # "absent" /\ CloseOwner(w)
  BY <1>1, CloseOwnerEffect
<1>2. CASE owners'[w] = owners[w]
  <2>1. CASE ~Registered(c)
    <3>1. callbacks'[c].register = now
      BY <2>1, <1>t, RegisteredNow DEF Registered
    <3>2. QED BY <3>1, <1>2, <1>t DEF now, OwnerState
  <2>2. CASE Registered(c)
    <3>1. callbacks[c].life = "released"
      BY <2>2, <1>2, RegistrationKept DEF ClosedOwnerReleased
    <3>2. QED BY <3>1, <2>2, RegistrationKept
  <2>3. QED BY <2>1, <2>2
<1>3. QED BY <1>1, <1>2, OwnerStepCases

\* The close of an owner releases every callback it retained, and no later
\* event retains one of them again.
THEOREM ClosedOwnersRelease == Spec => []ClosedOwnerReleased
<1>1. Init => ClosedOwnerReleased
  BY DEF Init, ClosedOwnerReleased, NoOwnerRow
<1>2. QED
  BY <1>1, ClosedOwnerStep, TypeCorrect, RecordsCorrect, PTL DEF Spec

\* An owner row is made with its object, and rows are never removed.
OwnersExist == \A w \in Owners : owners[w].life # "absent" => objects[w].life # "absent"

\* Every step keeps an owner's row with its object's.
LEMMA OwnersExistStep == TypeOK /\ OwnersExist /\ [Next]_vars => OwnersExist'
<1> SUFFICES ASSUME TypeOK, OwnersExist, [Next]_vars, NEW w \in Owners, owners'[w].life # "absent"
             PROVE  objects'[w].life # "absent"
  BY DEF OwnersExist
<1>t. objects \in [Objects -> ObjectState] /\ w \in Objects
  BY OracleAssumption DEF TypeOK
<1>1. CASE objects[w].life # "absent"
  <2>s. ASSUME objects' = objects PROVE objects'[w].life # "absent"
    BY <2>s, <1>1
  <2>1. ASSUME NEW o \in Objects, ObjectCreate(o) PROVE objects'[w].life # "absent"
    BY <2>1, <1>1, <1>t DEF ObjectCreate, Exists, Rejected, vars
  <2>2. ASSUME NEW o \in Objects, ObjectDrop(o) PROVE objects'[w].life # "absent"
    BY <2>2, <1>1, <1>t DEF ObjectDrop, Exists, Rejected, vars, ObjectState
  <2>3. ASSUME NEW o \in Objects, ObjectFree(o) PROVE objects'[w].life # "absent"
    BY <2>3, <1>1, <1>t DEF ObjectFree, Exists, Rejected, vars, ObjectState
  <2>4. QED
    BY <2>1, <2>2, <2>3, <2>s
    DEF Next, vars, Rejected, TraceStart, OutOfContext, Marker, CallbackRegister, CaptureBind,
        CallbackUnregister, CallbackInvoke, ObjectUse, tables
<1>2. CASE objects[w].life = "absent"
  BY <1>2, OwnerStepCases DEF OwnersExist
<1>3. QED BY <1>1, <1>2

\* No step takes back what the tables or the findings say.
LEMMA LifecycleHolds == TypeOK /\ RecordsOrdered /\ OwnersExist /\ [Next]_vars => LifecycleStep
<1> SUFFICES ASSUME TypeOK, RecordsOrdered, OwnersExist, [Next]_vars PROVE LifecycleStep
  OBVIOUS
<1>1. findings \subseteq findings'
  BY ClockStep
<1>2. \A o \in Objects : /\ objects[o].life = "freed" => objects'[o] = objects[o]
                         /\ objects[o].life = "ended" => objects'[o].life \in {"ended", "freed"}
  BY ObjectKept DEF RecordsOrdered
<1>3. \A c \in Callbacks : callbacks[c].life = "released" => callbacks'[c].life = "released"
  BY RegistrationKept DEF Registered
<1>4. \A c \in Callbacks, o \in Objects : captures[c][o].life = "ended" => captures'[c][o] = captures[c][o]
  BY CaptureKept DEF Bound
<1>5. ASSUME NEW w \in Owners, owners[w].life = "closed" PROVE owners'[w].life = "closed"
  <2>1. objects[w].life # "absent"
    BY <1>5 DEF OwnersExist
  <2>2. ASSUME CloseOwner(w) PROVE owners'[w].life = "closed"
    BY <2>2 DEF CloseOwner, TypeOK
  <2>3. QED BY <1>5, <2>1, <2>2, OwnerStepCases
<1>6. QED BY <1>1, <1>2, <1>3, <1>4, <1>5 DEF LifecycleStep

\* No step, not even a call that fails half-way, takes a lifecycle back or
\* withdraws a finding.
THEOREM LifecycleIsForward == Spec => LifecycleForward
<1>1. Init => OwnersExist
  BY DEF Init, OwnersExist, NoOwnerRow
<1>2. Spec => []OwnersExist
  BY <1>1, OwnersExistStep, TypeCorrect, PTL DEF Spec
<1>3. QED
  BY <1>2, LifecycleHolds, TypeCorrect, RecordsCorrect, PTL DEF Spec, LifecycleForward

-----------------------------------------------------------------------------
(* Exposed borrows are reported, and reported once. *)

\* Two reports of one pair are the same finding.  Not weaker than the bound on
\* their number, and inductive with EvidenceStable: a report says that its
\* borrow has ended, and only a borrow that was active is reported.
OneReport == \A c \in Callbacks, o \in Objects : \A f, g \in Reports(c, o) : f = g

\* A new exposure is of a borrow that was active before the step.
LEMMA NewReport ==
    ASSUME TypeOK, [Next]_vars, NEW c \in Callbacks, NEW o \in Objects, NEW f,
           f \in Reports(c, o)', f \notin findings
    PROVE  /\ captures[c][o].life = "active"
           /\ f = FindingOf("LIFE-003", o, c, captures'[c][o].bind, callbacks'[c].register, now)
<1>1. /\ f \in findings' /\ f.rule = "LIFE-003" /\ f.callback = c /\ f.object = o
  BY DEF Reports
<1>2. PICK x \in Objects : \E d \in Exposed(x) :
          /\ EndBorrowed(x)
          /\ f = FindingOf("LIFE-003", x, d, captures'[d][x].bind, callbacks'[d].register, now)
  BY <1>1, NewFinding DEF FindingOf
<1>3. PICK d \in Exposed(x) :
          /\ EndBorrowed(x)
          /\ f = FindingOf("LIFE-003", x, d, captures'[d][x].bind, callbacks'[d].register, now)
  BY <1>2
<1>4. x = o /\ d = c
  BY <1>1, <1>3 DEF FindingOf
<1>5. QED BY <1>3, <1>4, ExposedNow

\* A borrow that has its exposure is ended, so no step reports it again.
LEMMA OneReportStep ==
    TypeOK /\ EvidenceStable /\ OneReport /\ [Next]_vars => OneReport'
<1> SUFFICES ASSUME TypeOK, EvidenceStable, OneReport, [Next]_vars,
                    NEW c \in Callbacks, NEW o \in Objects,
                    NEW f \in Reports(c, o)', NEW g \in Reports(c, o)'
             PROVE  f = g
  BY DEF OneReport
<1>1. ASSUME NEW h \in Reports(c, o)', h \in findings
      PROVE  h \in Reports(c, o) /\ captures[c][o].life = "ended"
  BY <1>1 DEF Reports, EvidenceStable
<1>2. CASE f \in findings /\ g \in findings
  BY <1>1, <1>2 DEF OneReport
<1>3. CASE f \notin findings \/ g \notin findings
  <2>1. captures[c][o].life = "active"
    BY <1>3, NewReport
  <2>2. f \notin findings /\ g \notin findings
    BY <2>1, <1>1
  <2>3. QED BY <2>2, NewReport
<1>4. QED BY <1>2, <1>3

\* An absent capture is bound before it can end.
LEMMA NotEndedAtOnce ==
    ASSUME TypeOK, [Next]_vars, NEW c \in Callbacks, NEW o \in Objects, captures[c][o].life = "absent"
    PROVE  captures'[c][o].life # "ended"
<1>s. ASSUME captures' = captures PROVE captures'[c][o].life # "ended"
  BY <1>s
<1>1. ASSUME NEW d \in Callbacks, NEW x \in Objects, CaptureBind(d, x) PROVE captures'[c][o].life # "ended"
  <2>1. CASE captures' = captures BY <2>1, <1>s
  <2>2. CASE captures' # captures
    <3>1. captures' = [captures EXCEPT ![d] = [captures[d] EXCEPT ![x] =
              [life |-> "active", mode |-> CaptureFact[d][x], bind |-> now, end |-> 0]]]
      BY <2>2, <1>1 DEF CaptureBind, Rejected, vars
    <3>2. captures'[c][o] \in {captures[c][o],
              [life |-> "active", mode |-> CaptureFact[d][x], bind |-> now, end |-> 0]}
      BY <3>1 DEF TypeOK
    <3>3. QED BY <3>2
  <2>3. QED BY <2>1, <2>2
<1>2. ASSUME NEW x \in Objects, EndBorrowed(x) PROVE captures'[c][o].life # "ended"
  BY <1>2, EndBorrowedEffect
<1>3. QED
  BY <1>1, <1>2, <1>s
  DEF Next, vars, Rejected, TraceStart, OutOfContext, Marker, ObjectCreate, CallbackRegister,
      CallbackUnregister, CallbackInvoke, ObjectUse, ObjectDrop, ObjectFree, tables

\* The drop and the free that end a borrow of a retained callback report it:
\* with the clauses the rules need, no failure comes between the end of the
\* borrow and the report, and no other candidate outranks it.
LEMMA EndIsReported ==
    ASSUME TypeOK, [Next]_vars, NEW c \in Callbacks, NEW o \in Objects,
           captures[c][o].life = "active", captures'[c][o].life = "ended",
           callbacks'[c].life = "retained",
           "borrow_must_outlive_retention" \in Clauses,
           o \in Owners => "release_on_owner_drop" \in Clauses
    PROVE  Reports(c, o)' # {}
<1> DEFINE report == FindingOf("LIFE-003", o, c, captures'[c][o].bind, callbacks'[c].register, now)
<1>s. report.rule = "LIFE-003" /\ report.object = o /\ report.callback = c
  BY DEF FindingOf
<1>0. captures' # captures
  OBVIOUS
<1>e. ASSUME NEW x \in Objects, EndBorrowed(x) PROVE x = o /\ captures'[c][o].mode = "borrowed"
  BY <1>e, EndBorrowedEffect
<1>x. ASSUME EndBorrowed(o) PROVE report \in EndCandidates(o)
  BY <1>x, <1>e DEF EndCandidates, Exposed
<1>y. \A f \in EndCandidates(o) : f.rule = "LIFE-003"
  BY DEF EndCandidates, FindingOf
<1>p. ~(Priority["LIFE-003"] > Priority["LIFE-003"])
  BY DEF Priority, RuleIds
<1> HIDE DEF report
<1>z. ASSUME report \in EndCandidates(o) PROVE report \in Select(EndCandidates(o))
  BY <1>z, <1>y, <1>p, <1>s DEF Select
<1>1. ASSUME ObjectDrop(o) PROVE report \in findings'
  <2>1. EndBorrowed(o) /\ Exists(o)
    BY <1>0, <1>1 DEF ObjectDrop, Rejected, vars
  <2>2. Reduced(TRUE, EndCandidates(o))
    <3>1. (o \in Owners => "release_on_owner_drop" \in Clauses) /\ "borrow_must_outlive_retention" \in Clauses
      OBVIOUS
    <3>2. QED BY <3>1, <2>1, <1>1 DEF ObjectDrop, Reduced
  <2>3. QED BY <2>1, <2>2, <1>x, <1>z DEF Reduced
<1>2. ASSUME ObjectFree(o) PROVE report \in findings'
  <2>1. EndBorrowed(o) /\ Exists(o) /\ objects[o].life # "freed"
    BY <1>0, <1>2 DEF ObjectFree, Rejected, vars
  <2>2. RefreeCandidates(o) = {}
    BY <2>1 DEF RefreeCandidates
  <2>3. Reduced(TRUE, EndCandidates(o))
    BY <2>1, <2>2, <1>2 DEF ObjectFree, Reduced
  <2>4. QED BY <2>1, <2>3, <1>x, <1>z DEF Reduced
<1>3. \E x \in Objects : (ObjectDrop(x) \/ ObjectFree(x)) /\ EndBorrowed(x)
  <2>1. ASSUME NEW d \in Callbacks, NEW x \in Objects, CaptureBind(d, x) PROVE FALSE
    <3>1. captures' = [captures EXCEPT ![d] = [captures[d] EXCEPT ![x] = 
              [life |-> "active", mode |-> CaptureFact[d][x], bind |-> now, end |-> 0]]]
      BY <2>1, <1>0 DEF CaptureBind, Rejected, vars
    <3>2. captures'[c][o] \in {captures[c][o],
              [life |-> "active", mode |-> CaptureFact[d][x], bind |-> now, end |-> 0]}
      BY <3>1 DEF TypeOK
    <3>3. QED BY <3>2
  <2>2. ASSUME NEW x \in Objects, ObjectDrop(x) PROVE EndBorrowed(x)
    BY <2>2, <1>0 DEF ObjectDrop, Rejected, vars
  <2>3. ASSUME NEW x \in Objects, ObjectFree(x) PROVE EndBorrowed(x)
    BY <2>3, <1>0 DEF ObjectFree, Rejected, vars
  <2>4. QED
    BY <1>0, <2>1, <2>2, <2>3
    DEF Next, vars, Rejected, TraceStart, OutOfContext, Marker, ObjectCreate, CallbackRegister,
        CallbackUnregister, CallbackInvoke, ObjectUse, tables
<1>4. report \in findings'
  BY <1>1, <1>2, <1>3, <1>e
<1>5. QED BY <1>4, <1>s DEF Reports

\* A borrow that a step ends under a retained callback is reported by that step.
LEMMA ExposureStep ==
    TypeOK /\ TypeOK' /\ RecordsOrdered /\ ExposureReportedOnce /\ OneReport' /\ [Next]_vars
    => ExposureReportedOnce'
<1> SUFFICES ASSUME TypeOK, TypeOK', RecordsOrdered, ExposureReportedOnce, OneReport', [Next]_vars,
                    NEW c \in Callbacks, NEW o \in Objects
             PROVE  /\ Cardinality(Reports(c, o)') <= 1
                    /\ (/\ captures'[c][o].life = "ended"
                        /\ callbacks'[c].life = "retained"
                        /\ "borrow_must_outlive_retention" \in Clauses
                        /\ o \in Owners => "release_on_owner_drop" \in Clauses)
                       => Reports(c, o)' # {}
  BY DEF ExposureReportedOnce
<1>1. Cardinality(Reports(c, o)') <= 1
  <2>1. CASE Reports(c, o)' = {}
    BY <2>1, FS_EmptySet
  <2>2. CASE Reports(c, o)' # {}
    <3>1. PICK f : f \in Reports(c, o)'
      BY <2>2
    <3>2. Reports(c, o)' = {f}
      BY <3>1 DEF OneReport
    <3>3. Cardinality({f}) = 1
      BY FS_Singleton
    <3>4. QED BY <3>2, <3>3
  <2>3. QED BY <2>1, <2>2
<1>2. ASSUME captures'[c][o].life = "ended", callbacks'[c].life = "retained",
             "borrow_must_outlive_retention" \in Clauses,
             o \in Owners => "release_on_owner_drop" \in Clauses
      PROVE  Reports(c, o)' # {}
  <2>t. captures[c][o] \in CaptureState /\ callbacks[c] \in CallbackState
    BY DEF TypeOK
  <2>1. CASE captures[c][o].life = "absent"
    BY <2>1, <1>2, NotEndedAtOnce
  <2>2. CASE captures[c][o].life = "active"
    BY <2>2, <1>2, EndIsReported
  <2>3. CASE captures[c][o].life = "ended"
    <3>1. Registered(c)
      BY <2>3 DEF Registered, RecordsOrdered, CaptureRecords, CallbackRecords
    <3>2. callbacks[c].life = "retained"
      BY <3>1, <1>2, <2>t, RegistrationKept DEF Registered, CallbackState
    <3>3. Reports(c, o) # {}
      BY <3>2, <2>3, <1>2 DEF ExposureReportedOnce
    <3>4. findings \subseteq findings'
      BY ClockStep
    <3>5. QED BY <3>3, <3>4 DEF Reports
  <2>4. QED BY <2>1, <2>2, <2>3, <2>t DEF CaptureState
<1>3. QED BY <1>1, <1>2

\* A borrow that ends while its callback is retained is reported, and reported
\* once, however often the object is dropped and freed afterwards.
THEOREM ExposuresReportedOnce == Spec => []ExposureReportedOnce
<1>1. Init => OneReport /\ ExposureReportedOnce
  <2> SUFFICES ASSUME Init PROVE OneReport /\ ExposureReportedOnce
    OBVIOUS
  <2>1. \A c, o : Reports(c, o) = {}
    BY DEF Init, Reports
  <2>2. Cardinality({}) = 0
    BY FS_EmptySet
  <2>3. \A c \in Callbacks, o \in Objects : captures[c][o].life = "absent"
    BY DEF Init, NoCapture
  <2>4. QED BY <2>1, <2>2, <2>3 DEF OneReport, ExposureReportedOnce
<1>2. Spec => []OneReport
  BY <1>1, OneReportStep, TypeCorrect, EvidenceIsStable, PTL DEF Spec
<1>3. QED
  BY <1>1, <1>2, ExposureStep, TypeCorrect, RecordsCorrect, PTL DEF Spec

-----------------------------------------------------------------------------
(* The findings are those of the trace.                                      *)

\* The facts and the contract say all that the rules look up.
Complete == ClauseKinds \subseteq Clauses /\ KnownObjects = Objects

Kinds == {"start", "marker", "create", "register", "bind", "unregister", "invoke", "use", "drop", "free"}
LogEvent == [kind : Kinds, object : Objects \cup {NoOwner}, callback : Callbacks \cup {NoCallback}]

LogTyped == log \in Seq(LogEvent) /\ Len(log) = clock

\* One event is added to the trace.
Adds(kind, o, c) ==
    /\ clock' = now
    /\ DOMAIN log' = DOMAIN log \cup {now}
    /\ \A i \in DOMAIN log : log'[i] = log[i]
    /\ log'[now] = Event(kind, o, c)

Unregisters(c) == {i \in DOMAIN log : log[i].kind = "unregister" /\ log[i].callback = c}

ContextKept == InContext /\ StaticBuild # NoBuild => build = StaticBuild

\* The life of an object is that of the trace: its first free, or else its
\* first drop, is the recorded end.
ObjectInTrace(o) ==
    /\ objects[o].life \in {"absent", "live"} => Drops(o) = {}
    /\ objects[o].life = "ended" =>
           objects[o].end \in Drops(o) /\ \A i \in Drops(o) : objects[o].end <= i
    /\ objects[o].life = "freed" =>
           /\ objects[o].end = objects[o].free /\ objects[o].free \in Frees(o)
           /\ \A i \in Frees(o) : objects[o].free <= i
    /\ objects[o].life # "freed" => Frees(o) = {}
    /\ FirstFree(o) = {objects[x].free : x \in {y \in {o} : objects[y].life = "freed"}}

\* A capture has one bind, and no borrow end of its object is between that and
\* its recorded end.
CaptureInTrace(c, o) ==
    LET r == captures[c][o] IN
    /\ r.life = "absent" => Binds(c, o) = {}
    /\ r.life # "absent" => Binds(c, o) = {r.bind} /\ r.mode = CaptureFact[c][o]
    /\ r.life = "active" /\ r.mode = "borrowed" => \A i \in BorrowEnds(o) : i <= r.bind
    /\ r.life = "ended" =>
           /\ r.end \in BorrowEnds(o)
           /\ \A i \in BorrowEnds(o) : i <= r.bind \/ r.end <= i

\* A callback has one registration and is released exactly if the trace holds
\* a release of it.
CallbackInTrace(c) ==
    LET r == callbacks[c] IN
    /\ r.life = "absent" => Registers(c) = {} /\ Unregisters(c) = {}
    /\ r.life # "absent" =>
           /\ Registers(c) = {r.register}
           /\ log[r.register].object = r.owner
           /\ r.life = "released" <=> Releases(c) # {}

TablesInTrace ==
    /\ \A o \in Objects : ObjectInTrace(o)
    /\ \A c \in Callbacks, o \in Objects : CaptureInTrace(c, o)
    /\ \A c \in Callbacks : CallbackInTrace(c)

TraceInv == LogTyped /\ ContextKept /\ TablesInTrace

-----------------------------------------------------------------------------
(* The trace grows by one event at a time. *)

\* An event appended to the trace is its next event, and changes no other.
LEMMA LogGrows ==
    ASSUME TypeOK, LogTyped, NEW kind \in Kinds, NEW o \in Objects \cup {NoOwner},
           NEW c \in Callbacks \cup {NoCallback}, clock' = now, Log(kind, o, c)
    PROVE  LogTyped' /\ Adds(kind, o, c)
<1> DEFINE e == Event(kind, o, c)
<1>1. clock \in Nat /\ clock' = clock + 1
  BY OracleAssumption DEF TypeOK, now
<1>2. e \in LogEvent
  BY DEF Event, LogEvent
<1>3. log' = Append(log, e)
  BY <1>1 DEF Log
<1> HIDE DEF e
<1>4. /\ log' \in Seq(LogEvent) /\ Len(log') = clock'
      /\ DOMAIN log' = DOMAIN log \cup {clock + 1}
      /\ \A i \in DOMAIN log : log'[i] = log[i]
      /\ log'[clock + 1] = e
  BY <1>1, <1>2, <1>3 DEF LogTyped
<1>5. QED BY <1>1, <1>4 DEF LogTyped, Adds, now, e

\* The positions of the trace are the clock's past.
LEMMA LogPast ==
    ASSUME TypeOK, LogTyped
    PROVE  /\ clock \in Nat /\ now \in Nat /\ now = clock + 1 /\ DOMAIN log = 1..clock
           /\ \A i \in DOMAIN log : i \in Nat /\ 0 < i /\ i <= clock /\ i < now
BY OracleAssumption DEF TypeOK, now, LogTyped

\* What an event adds to the sets the trace is read by.
LEMMA ObjectSetsGrow ==
    ASSUME NEW kind, NEW o, NEW c, Adds(kind, o, c), NEW x
    PROVE  /\ Drops(x)' = IF kind = "drop" /\ o = x /\ c = NoCallback THEN Drops(x) \cup {now} ELSE Drops(x)
           /\ Frees(x)' = IF kind = "free" /\ o = x /\ c = NoCallback THEN Frees(x) \cup {now} ELSE Frees(x)
           /\ Uses(x)' = IF kind = "use" /\ o = x /\ c = NoCallback THEN Uses(x) \cup {now} ELSE Uses(x)
<1>1. \A k, y, z : (log'[now] = Event(k, y, z)) <=> (kind = k /\ o = y /\ c = z)
  BY DEF Adds, Event
<1>2. \A k, y, z : \A i \in DOMAIN log : (log'[i] = Event(k, y, z)) <=> (log[i] = Event(k, y, z))
  BY DEF Adds
<1>3. DOMAIN log' = DOMAIN log \cup {now}
  BY DEF Adds
<1>4. Drops(x)' = IF kind = "drop" /\ o = x /\ c = NoCallback THEN Drops(x) \cup {now} ELSE Drops(x)
  BY <1>1, <1>2, <1>3 DEF Drops, Is
<1>5. Frees(x)' = IF kind = "free" /\ o = x /\ c = NoCallback THEN Frees(x) \cup {now} ELSE Frees(x)
  BY <1>1, <1>2, <1>3 DEF Frees, Is
<1>6. Uses(x)' = IF kind = "use" /\ o = x /\ c = NoCallback THEN Uses(x) \cup {now} ELSE Uses(x)
  BY <1>1, <1>2, <1>3 DEF Uses, Is
<1>7. QED BY <1>4, <1>5, <1>6

\* The same for a callback.
LEMMA CallbackSetsGrow ==
    ASSUME NEW kind, NEW o, NEW c, Adds(kind, o, c), NEW d
    PROVE  /\ \A x : Binds(d, x)' = IF kind = "bind" /\ o = x /\ c = d THEN Binds(d, x) \cup {now} ELSE Binds(d, x)
           /\ Invokes(d)' = IF kind = "invoke" /\ o = NoObjectId /\ c = d THEN Invokes(d) \cup {now} ELSE Invokes(d)
           /\ Registers(d)' = IF kind = "register" /\ c = d THEN Registers(d) \cup {now} ELSE Registers(d)
           /\ Unregisters(d)' = IF kind = "unregister" /\ c = d THEN Unregisters(d) \cup {now} ELSE Unregisters(d)
<1>1. \A k, y, z : (log'[now] = Event(k, y, z)) <=> (kind = k /\ o = y /\ c = z)
  BY DEF Adds, Event
<1>2. \A k, y, z : \A i \in DOMAIN log : (log'[i] = Event(k, y, z)) <=> (log[i] = Event(k, y, z))
  BY DEF Adds
<1>3. log'[now].kind = kind /\ log'[now].callback = c
  BY DEF Adds, Event
<1>4. DOMAIN log' = DOMAIN log \cup {now} /\ \A i \in DOMAIN log : log'[i] = log[i]
  BY DEF Adds
<1>5. \A x : Binds(d, x)' = IF kind = "bind" /\ o = x /\ c = d THEN Binds(d, x) \cup {now} ELSE Binds(d, x)
  BY <1>1, <1>2, <1>4 DEF Binds, Is
<1>6. Invokes(d)' = IF kind = "invoke" /\ o = NoObjectId /\ c = d THEN Invokes(d) \cup {now} ELSE Invokes(d)
  BY <1>1, <1>2, <1>4 DEF Invokes, Is
<1>7. Registers(d)' = IF kind = "register" /\ c = d THEN Registers(d) \cup {now} ELSE Registers(d)
  BY <1>3, <1>4 DEF Registers
<1>8. Unregisters(d)' = IF kind = "unregister" /\ c = d THEN Unregisters(d) \cup {now} ELSE Unregisters(d)
  BY <1>3, <1>4 DEF Unregisters
<1>9. QED BY <1>5, <1>6, <1>7, <1>8

\* A nonempty set of naturals has a least element, which is its Min.
LEMMA LeastNat ==
    ASSUME NEW S \in SUBSET Nat, S # {}
    PROVE  \E m \in S : \A i \in S : m <= i
<1> DEFINE R == {ss \in Nat \X Nat : ss[1] < ss[2]}
<1>1. R = OpToRel(<, Nat)
  BY DEF OpToRel
<1>2. IsWellFoundedOn(R, Nat)
  BY <1>1, NatLessThanWellFounded
<1> HIDE DEF R
<1>3. PICK m \in S : \A y \in S : <<y, m>> \notin R
  BY <1>2, WFMin
<1>4. ASSUME NEW y \in S PROVE m <= y
  <2>1. y \in Nat /\ m \in Nat
    OBVIOUS
  <2>2. ~(y < m)
    BY <2>1, <1>3 DEF R
  <2>3. QED BY <2>1, <2>2
<1>5. QED BY <1>3, <1>4

\* The least element of a set is its Min.
LEMMA LeastIsMin ==
    ASSUME NEW S \in SUBSET Nat, NEW m \in S, \A i \in S : m <= i
    PROVE  Min(S) = m /\ {Min(T) : T \in {S} \ {{}}} = {m}
<1>1. Min(S) \in S /\ \A i \in S : Min(S) <= i
  BY DEF Min
<1>2. Min(S) = m
  <2>1. Min(S) \in Nat /\ m \in Nat /\ Min(S) <= m /\ m <= Min(S)
    BY <1>1
  <2>2. QED BY <2>1
<1>3. \A T : T \in {S} \ {{}} <=> T = S
  OBVIOUS
<1>4. QED BY <1>2, <1>3

-----------------------------------------------------------------------------
(* What the logged calls do, under a complete contract and complete facts.  *)

MarkLogged(kind) ==
    /\ Adds(kind, NoObjectId, NoCallback)
    /\ UNCHANGED <<objects, captures, callbacks, findings>>

CreateLogged(o) ==
    /\ Adds("create", o, NoCallback)
    /\ ~Exists(o)
    /\ objects' = [objects EXCEPT ![o] = [life |-> "live", created |-> now, end |-> 0, free |-> 0]]
    /\ UNCHANGED <<captures, callbacks, findings>>

RegisterLogged(c, w) ==
    /\ Adds("register", w, c)
    /\ ~Registered(c)
    /\ callbacks' = [callbacks EXCEPT ![c] =
           [life |-> "retained", owner |-> w, register |-> now, release |-> 0]]
    /\ UNCHANGED <<objects, captures, findings>>

BindLogged(c, o) ==
    /\ Adds("bind", o, c)
    /\ ~Bound(c, o) /\ Exists(o) /\ Registered(c)
    /\ captures' = [captures EXCEPT ![c] = [captures[c] EXCEPT ![o] =
           [life |-> "active", mode |-> CaptureFact[c][o], bind |-> now, end |-> 0]]]
    /\ UNCHANGED <<objects, callbacks, findings>>

UnregisterLogged(c, w) ==
    /\ Adds("unregister", w, c)
    /\ Registered(c)
    /\ callbacks' = [callbacks EXCEPT ![c].life = "released", ![c].release = now]
    /\ UNCHANGED <<objects, captures, findings>>

InvokeLogged(c) ==
    /\ InContext
    /\ Adds("invoke", NoObjectId, c)
    /\ UNCHANGED <<objects, captures, callbacks>>
    /\ findings' = findings \cup InvokeCandidates(c)

UseLogged(o) ==
    /\ InContext
    /\ Adds("use", o, NoCallback)
    /\ Exists(o)
    /\ UNCHANGED <<objects, captures, callbacks>>
    /\ findings' = findings \cup UseCandidates(o)

DropLogged(o) ==
    /\ InContext
    /\ Adds("drop", o, NoCallback)
    /\ Exists(o)
    /\ objects' = IF objects[o].life = "freed" THEN objects
                  ELSE [objects EXCEPT ![o].life = "ended", ![o].end = FirstRecord(objects[o].end)]
    /\ EndBorrowed(o)
    /\ IF o \in Owners THEN CloseOwner(o) ELSE UNCHANGED callbacks
    /\ findings' = findings \cup EndCandidates(o)

FreeLogged(o) ==
    /\ InContext
    /\ Adds("free", o, NoCallback)
    /\ Exists(o)
    /\ IF objects[o].life = "freed"
       THEN UNCHANGED <<objects, captures>>
       ELSE /\ objects' = [objects EXCEPT ![o].life = "freed", ![o].end = now, ![o].free = now]
            /\ EndBorrowed(o)
    /\ UNCHANGED callbacks
    /\ findings' = findings \cup EndCandidates(o) \cup RefreeCandidates(o)

LoggedStep ==
    \/ \E k \in {"start", "marker"} : MarkLogged(k)
    \/ \E o \in Objects : CreateLogged(o) \/ UseLogged(o) \/ DropLogged(o) \/ FreeLogged(o)
    \/ \E c \in Callbacks, w \in Objects : RegisterLogged(c, w) \/ BindLogged(c, w) \/ UnregisterLogged(c, w)
    \/ \E c \in Callbacks : InvokeLogged(c)

\* The candidates of one event never outrank each other.
LEMMA AllSelected ==
    ASSUME NEW cands,
           \A f \in cands : f.rule \in RuleIds,
           \A f, g \in cands : f.object = g.object /\ f.callback = g.callback => f.rule = g.rule
    PROVE  Select(cands) = cands
<1>1. \A r \in RuleIds : Priority[r] \in Nat
  BY DEF Priority, RuleIds
<1>2. \A f \in cands : ~(Priority[f.rule] > Priority[f.rule])
  BY <1>1
<1>3. QED BY <1>2 DEF Select

\* So the selection by priority drops none of them.
LEMMA CandidatesSelected ==
    ASSUME NEW o
    PROVE  /\ Select({}) = {}
           /\ Select(UseCandidates(o)) = UseCandidates(o)
           /\ Select(InvokeCandidates(o)) = InvokeCandidates(o)
           /\ Select(EndCandidates(o)) = EndCandidates(o)
           /\ Select(EndCandidates(o) \cup RefreeCandidates(o)) = EndCandidates(o) \cup RefreeCandidates(o)
<1>1. Select({}) = {}
  BY DEF Select
<1>2. Select(UseCandidates(o)) = UseCandidates(o)
  <2>1. \A f \in UseCandidates(o) : f.rule = "LIFE-001"
    BY DEF UseCandidates, FindingOf
  <2>2. QED BY <2>1, AllSelected DEF RuleIds
<1>3. Select(InvokeCandidates(o)) = InvokeCandidates(o)
  <2>1. \A f \in InvokeCandidates(o) : f.rule = "LIFE-002"
    BY DEF InvokeCandidates, FindingOf
  <2>2. QED BY <2>1, AllSelected DEF RuleIds
<1>4. \A f \in EndCandidates(o) : f.rule = "LIFE-003" /\ f.callback \in Callbacks
  BY DEF EndCandidates, Exposed, FindingOf
<1>5. \A f \in RefreeCandidates(o) : f.rule = "FREE-001" /\ f.callback = NoCallback
  BY DEF RefreeCandidates, FindingOf
<1>6. Select(EndCandidates(o)) = EndCandidates(o)
  BY <1>4, AllSelected DEF RuleIds
<1>7. Select(EndCandidates(o) \cup RefreeCandidates(o)) = EndCandidates(o) \cup RefreeCandidates(o)
  <2> DEFINE all == EndCandidates(o) \cup RefreeCandidates(o)
  <2>1. \A f \in all : f.rule \in RuleIds
    BY <1>4, <1>5 DEF RuleIds
  <2>2. \A f, g \in all : f.object = g.object /\ f.callback = g.callback => f.rule = g.rule
    BY <1>4, <1>5, OracleAssumption
  <2> HIDE DEF all
  <2>3. Select(all) = all
    BY <2>1, <2>2, AllSelected
  <2>4. QED BY <2>3 DEF all
<1>8. QED BY <1>1, <1>2, <1>3, <1>6, <1>7

\* Every step of the logged oracle adds one event, with the effect above, or
\* changes nothing.
LEMMA LoggedSteps ==
    ASSUME TypeOK, LogTyped, Complete, LogNext
    PROVE  \/ UNCHANGED logVars
           \/ LogTyped' /\ LoggedStep
<1> SUFFICES ASSUME ~UNCHANGED logVars PROVE LogTyped' /\ LoggedStep
  OBVIOUS
<1>c. clock \in Nat /\ clock # now
  BY OracleAssumption DEF TypeOK, now
<1>r. ASSUME NEW k, NEW x, NEW d, Rejected, Log(k, x, d) PROVE FALSE
  BY <1>r DEF Rejected, vars, Log, logVars
<1>u. \A k \in Kinds, x \in Objects \cup {NoOwner}, d \in Callbacks \cup {NoCallback} :
          Log(k, x, d) /\ clock' = now => LogTyped' /\ Adds(k, x, d)
  BY LogGrows
<1>s. ASSUME NEW cands, Reduced(TRUE, cands) PROVE clock' = now /\ findings' = findings \cup Select(cands)
  BY <1>s DEF Reduced
<1> USE DEF Kinds, NoObjectId
<1>1. ASSUME NEW r \in Runs, NEW b \in Builds, TraceStart(r, b), Log("start", NoObjectId, NoCallback)
      PROVE LogTyped' /\ MarkLogged("start")
  <2>1. Reduced(TRUE, {}) /\ UNCHANGED tables
    BY <1>1, <1>r DEF TraceStart
  <2>2. clock' = now /\ findings' = findings
    BY <2>1, <1>s, CandidatesSelected DEF Reduced, Select
  <2>3. QED BY <2>1, <2>2, <1>1, <1>u DEF MarkLogged, tables
<1>2. ASSUME Marker, Log("marker", NoObjectId, NoCallback) PROVE LogTyped' /\ MarkLogged("marker")
  <2>2. clock' = now /\ findings' = findings
    BY <1>2 DEF Marker, Reduced, Select
  <2>3. QED BY <2>2, <1>2, <1>u DEF MarkLogged, Marker
<1>3. ASSUME NEW o \in Objects, ObjectCreate(o), Log("create", o, NoCallback) PROVE LogTyped' /\ CreateLogged(o)
  <2>1. ~Exists(o)
    BY <1>3, <1>r DEF ObjectCreate
  <2>2. clock' = now /\ findings' = findings
    BY <1>3, <2>1 DEF ObjectCreate, Reduced, Select
  <2>3. QED BY <2>1, <2>2, <1>3, <1>u DEF CreateLogged, ObjectCreate
<1>4. ASSUME NEW c \in Callbacks, NEW w \in Objects, NEW api \in Apis, CallbackRegister(c, w, api),
             Log("register", w, c)
      PROVE  LogTyped' /\ RegisterLogged(c, w)
  <2>1. ~(~HasRole(api, "register") \/ ~Opened(w) \/ Registered(c))
    BY <1>4, <1>r DEF CallbackRegister
  <2>2. clock' = now /\ findings' = findings
    BY <1>4, <2>1 DEF CallbackRegister, Reduced, Select
  <2>3. QED BY <2>1, <2>2, <1>4, <1>u DEF RegisterLogged, CallbackRegister
<1>5. ASSUME NEW c \in Callbacks, NEW o \in Objects, CaptureBind(c, o), Log("bind", o, c)
      PROVE  LogTyped' /\ BindLogged(c, o)
  <2>1. ~(~Registered(c) \/ ~Exists(o) \/ CaptureFact[c][o] \notin Modes \/ Bound(c, o))
    BY <1>5, <1>r DEF CaptureBind
  <2>2. clock' = now /\ findings' = findings
    BY <1>5, <2>1 DEF CaptureBind, Reduced, Select
  <2>3. QED BY <2>1, <2>2, <1>5, <1>u DEF BindLogged, CaptureBind
<1>6. ASSUME NEW c \in Callbacks, NEW w \in Objects, NEW api \in Apis, CallbackUnregister(c, w, api),
             Log("unregister", w, c)
      PROVE  LogTyped' /\ UnregisterLogged(c, w)
  <2>1. ~(~HasRole(api, "unregister") \/ ~Registered(c) \/ callbacks[c].owner # w)
    BY <1>6, <1>r DEF CallbackUnregister
  <2>2. clock' = now /\ findings' = findings
    BY <1>6, <2>1 DEF CallbackUnregister, Reduced, Select
  <2>3. QED BY <2>1, <2>2, <1>6, <1>u DEF UnregisterLogged, CallbackUnregister
<1>7. ASSUME NEW c \in Callbacks, NEW api \in Apis, CallbackInvoke(c, api), Log("invoke", NoObjectId, c)
      PROVE  LogTyped' /\ InvokeLogged(c)
  <2>1. Reduced(TRUE, InvokeCandidates(c)) /\ UNCHANGED <<objects, captures, callbacks>>
    BY <1>7, <1>r DEF CallbackInvoke
  <2>2. clock' = now /\ findings' = findings \cup InvokeCandidates(c)
    BY <2>1, CandidatesSelected DEF Reduced
  <2>3. QED BY <2>1, <2>2, <1>7, <1>u DEF InvokeLogged, CallbackInvoke
<1>8. ASSUME NEW o \in Objects, ObjectUse(o), Log("use", o, NoCallback) PROVE LogTyped' /\ UseLogged(o)
  <2>1. Exists(o) /\ Reduced(TRUE, UseCandidates(o)) /\ UNCHANGED <<objects, captures, callbacks>>
    BY <1>8, <1>r DEF ObjectUse
  <2>2. clock' = now /\ findings' = findings \cup UseCandidates(o)
    BY <2>1, CandidatesSelected DEF Reduced
  <2>3. QED BY <2>1, <2>2, <1>8, <1>u DEF UseLogged, ObjectUse
<1>9. ASSUME NEW o \in Objects, ObjectDrop(o), Log("drop", o, NoCallback) PROVE LogTyped' /\ DropLogged(o)
  <2>1. Exists(o)
    BY <1>9, <1>r DEF ObjectDrop
  <2>2. Reduced(TRUE, EndCandidates(o))
    BY <1>9, <2>1 DEF ObjectDrop, Complete, ClauseKinds, Reduced
  <2>3. clock' = now /\ findings' = findings \cup EndCandidates(o)
    BY <2>2, CandidatesSelected DEF Reduced
  <2>4. IF o \in Owners THEN CloseOwner(o) ELSE UNCHANGED callbacks
    BY <1>9, <2>1 DEF ObjectDrop, Complete, ClauseKinds
  <2>5. QED BY <2>1, <2>3, <2>4, <1>9, <1>u DEF DropLogged, ObjectDrop
<1>10. ASSUME NEW o \in Objects, ObjectFree(o), Log("free", o, NoCallback) PROVE LogTyped' /\ FreeLogged(o)
  <2>1. Exists(o)
    BY <1>10, <1>r DEF ObjectFree
  <2>2. Reduced(TRUE, EndCandidates(o) \cup RefreeCandidates(o))
    BY <1>10, <2>1 DEF ObjectFree, Complete, ClauseKinds, Reduced
  <2>3. clock' = now /\ findings' = findings \cup EndCandidates(o) \cup RefreeCandidates(o)
    BY <2>2, CandidatesSelected DEF Reduced
  <2>5. QED BY <2>1, <2>3, <1>10, <1>u DEF FreeLogged, ObjectFree
<1>11. QED
  BY <1>1, <1>2, <1>3, <1>4, <1>5, <1>6, <1>7, <1>8, <1>9, <1>10 DEF LogNext, LoggedStep

-----------------------------------------------------------------------------
(* The tables stay those of the trace. *)

\* The end and the free of an object stay those of its events.
LEMMA ObjectTraceStep ==
    ASSUME TypeOK, ObjectRecords, LogTyped, LoggedStep, NEW x \in Objects, ObjectInTrace(x)
    PROVE  ObjectInTrace(x)'
<1>l. /\ clock \in Nat /\ now \in Nat /\ now = clock + 1
      /\ \A i \in DOMAIN log : i \in Nat /\ 0 < i /\ i < now
  BY LogPast
<1>t. /\ objects \in [Objects -> ObjectState] /\ objects[x] \in ObjectState
      /\ 0 < objects[x].end <=> objects[x].life \in {"ended", "freed"}
  BY DEF TypeOK, ObjectRecords
<1>d. Drops(x) \subseteq DOMAIN log /\ Frees(x) \subseteq DOMAIN log
  BY DEF Drops, Frees
<1>k. ASSUME objects'[x] = objects[x], Frees(x)' = Frees(x),
             Drops(x)' = Drops(x) \/ (Drops(x)' = Drops(x) \cup {now} /\ objects[x].life \in {"ended", "freed"})
      PROVE  ObjectInTrace(x)'
  <2>1. FirstFree(x)' = FirstFree(x)
    BY <1>k DEF FirstFree
  <2>2. {objects'[y].free : y \in {z \in {x} : objects'[z].life = "freed"}} =
        {objects[y].free : y \in {z \in {x} : objects[z].life = "freed"}}
    BY <1>k
  <2>3. \A i \in Drops(x)' : i \in Drops(x) \/ (i = now /\ objects[x].life \in {"ended", "freed"})
    BY <1>k
  <2>4. QED BY <1>k, <1>l, <1>t, <1>d, <2>1, <2>2, <2>3 DEF ObjectInTrace, ObjectState, ObjectRecords
<1>f. ASSUME NEW k, NEW w, NEW d, Adds(k, w, d), k \notin {"drop", "free"} \/ w # x, objects'[x] = objects[x]
      PROVE  ObjectInTrace(x)'
  <2>1. Drops(x)' = Drops(x) /\ Frees(x)' = Frees(x)
    BY <1>f, ObjectSetsGrow
  <2>2. QED BY <1>f, <1>k, <2>1
<1>1. ASSUME CreateLogged(x) PROVE ObjectInTrace(x)'
  <2>1. Drops(x)' = Drops(x) /\ Frees(x)' = Frees(x)
    BY <1>1, ObjectSetsGrow DEF CreateLogged
  <2>2. objects'[x] = [life |-> "live", created |-> now, end |-> 0, free |-> 0] /\ objects[x].life = "absent"
    BY <1>1, <1>t DEF CreateLogged, Exists
  <2>3. FirstFree(x)' = FirstFree(x)
    BY <2>1 DEF FirstFree
  <2>4. QED BY <2>1, <2>2, <2>3 DEF ObjectInTrace
<1>2. ASSUME DropLogged(x) PROVE ObjectInTrace(x)'
  <2>1. Drops(x)' = Drops(x) \cup {now} /\ Frees(x)' = Frees(x)
    BY <1>2, ObjectSetsGrow DEF DropLogged
  <2>2. CASE objects[x].life \in {"ended", "freed"}
    <3>0. \/ objects' = objects
          \/ objects' = [objects EXCEPT ![x].life = "ended", ![x].end = objects[x].end] /\ objects[x].life = "ended"
      BY <2>2, <1>2, <1>t DEF DropLogged, FirstRecord, ObjectState
    <3>1. objects'[x] = objects[x]
      BY <3>0, <1>t DEF ObjectState
    <3>2. QED BY <3>1, <2>1, <2>2, <1>k
  <2>3. CASE objects[x].life = "live"
    <3>0. objects[x].end = 0
      BY <2>3, <1>t DEF ObjectState
    <3>1. objects' = [objects EXCEPT ![x].life = "ended", ![x].end = now]
      BY <2>3, <3>0, <1>2 DEF DropLogged, FirstRecord
    <3>2. objects'[x].life = "ended" /\ objects'[x].end = now
      BY <3>1, <1>t DEF ObjectState
    <3>3. Drops(x)' = {now}
      BY <2>1, <2>3 DEF ObjectInTrace
    <3>4. FirstFree(x)' = FirstFree(x)
      BY <2>1 DEF FirstFree
    <3>5. QED BY <2>1, <2>3, <3>2, <3>3, <3>4, <1>l DEF ObjectInTrace
  <2>4. QED BY <2>2, <2>3, <1>2, <1>t DEF DropLogged, Exists, ObjectState
<1>3. ASSUME FreeLogged(x) PROVE ObjectInTrace(x)'
  <2>1. Drops(x)' = Drops(x) /\ Frees(x)' = Frees(x) \cup {now}
    BY <1>3, ObjectSetsGrow DEF FreeLogged
  <2>s. Frees(x)' \in SUBSET Nat
    BY <2>1, <1>d, <1>l
  <2>2. CASE objects[x].life = "freed"
    <3>1. objects'[x] = objects[x]
      BY <2>2, <1>3 DEF FreeLogged
    <3>2. objects[x].free \in Frees(x)' /\ \A i \in Frees(x)' : objects[x].free <= i
      BY <2>1, <2>2, <1>l, <1>d DEF ObjectInTrace
    <3>3. FirstFree(x)' = {objects[x].free}
      BY <3>2, <2>s, LeastIsMin DEF FirstFree
    <3>4. QED BY <3>1, <3>2, <3>3, <2>2 DEF ObjectInTrace
  <2>3. CASE objects[x].life # "freed"
    <3>1. objects'[x] = [objects[x] EXCEPT !.life = "freed", !.end = now, !.free = now]
      BY <2>3, <1>3, <1>t DEF FreeLogged, ObjectState
    <3>2. objects'[x].life = "freed" /\ objects'[x].end = now /\ objects'[x].free = now
      BY <3>1, <1>t DEF ObjectState
    <3>3. Frees(x)' = {now}
      BY <2>1, <2>3 DEF ObjectInTrace
    <3>4. FirstFree(x)' = {now}
      BY <3>3, <2>s, <1>l, LeastIsMin DEF FirstFree
    <3>5. QED BY <3>2, <3>3, <3>4, <1>l DEF ObjectInTrace
  <2>4. QED BY <2>2, <2>3
<1>4. ASSUME NEW o \in Objects, CreateLogged(o) \/ UseLogged(o) \/ DropLogged(o) \/ FreeLogged(o)
      PROVE  ObjectInTrace(x)'
  <2>1. CASE o = x
    <3>1. CASE UseLogged(x) BY <3>1, <1>f DEF UseLogged
    <3>2. QED BY <2>1, <3>1, <1>4, <1>1, <1>2, <1>3
  <2>2. CASE o # x
    <3>1. objects'[x] = objects[x]
      BY <2>2, <1>4, <1>t DEF CreateLogged, UseLogged, DropLogged, FreeLogged
    <3>2. \E k : Adds(k, o, NoCallback)
      BY <1>4 DEF CreateLogged, UseLogged, DropLogged, FreeLogged
    <3>3. QED BY <2>2, <3>1, <3>2, <1>f
  <2>3. QED BY <2>1, <2>2
<1>5. ASSUME NEW k \in {"start", "marker"}, MarkLogged(k) PROVE ObjectInTrace(x)'
  BY <1>5, <1>f DEF MarkLogged
<1>6. ASSUME NEW c \in Callbacks, NEW w \in Objects, RegisterLogged(c, w) \/ BindLogged(c, w) \/ UnregisterLogged(c, w)
      PROVE  ObjectInTrace(x)'
  <2>1. \E k \in {"register", "bind", "unregister"} : Adds(k, w, c)
    BY <1>6 DEF RegisterLogged, BindLogged, UnregisterLogged
  <2>2. objects' = objects
    BY <1>6 DEF RegisterLogged, BindLogged, UnregisterLogged
  <2>3. QED BY <2>1, <2>2, <1>f
<1>7. ASSUME NEW c \in Callbacks, InvokeLogged(c) PROVE ObjectInTrace(x)'
  BY <1>7, <1>f DEF InvokeLogged
<1>8. QED BY <1>4, <1>5, <1>6, <1>7 DEF LoggedStep

\* What a logged step does to one capture and to the ends of its borrows.
LEMMA CaptureSteps ==
    ASSUME TypeOK, LogTyped, LoggedStep, NEW c \in Callbacks, NEW x \in Objects,
           ObjectInTrace(x), ObjectInTrace(x)'
    PROVE  \/ /\ BorrowEnds(x)' = BorrowEnds(x) /\ Binds(c, x)' = Binds(c, x)
              /\ captures'[c][x] = captures[c][x]
           \/ /\ BorrowEnds(x)' = BorrowEnds(x) /\ Binds(c, x)' = Binds(c, x) \cup {now}
              /\ ~Bound(c, x) /\ Registered(c)
              /\ captures'[c][x] = [life |-> "active", mode |-> CaptureFact[c][x], bind |-> now, end |-> 0]
           \/ /\ BorrowEnds(x)' = BorrowEnds(x) \cup {now} /\ Binds(c, x)' = Binds(c, x)
              /\ EndBorrowed(x)
<1>t. /\ captures \in [Callbacks -> [Objects -> CaptureState]]
      /\ objects \in [Objects -> ObjectState]
  BY DEF TypeOK
<1>b. ASSUME NEW k, NEW o, NEW d, Adds(k, o, d), k # "bind" \/ o # x \/ d # c
      PROVE  Binds(c, x)' = Binds(c, x)
  BY <1>b, CallbackSetsGrow
<1>e. ASSUME NEW k, NEW o, NEW d, Adds(k, o, d), k \notin {"drop", "free"} \/ o # x
      PROVE  BorrowEnds(x)' = BorrowEnds(x)
  BY <1>e, ObjectSetsGrow DEF BorrowEnds, FirstFree
<1>s. ASSUME NEW k, NEW o, NEW d, Adds(k, o, d), k # "bind" \/ o # x \/ d # c,
             k \notin {"drop", "free"} \/ o # x, captures'[c][x] = captures[c][x]
      PROVE  /\ BorrowEnds(x)' = BorrowEnds(x) /\ Binds(c, x)' = Binds(c, x)
             /\ captures'[c][x] = captures[c][x]
  BY <1>s, <1>b, <1>e
<1>1. CASE DropLogged(x)
  <2>1. Drops(x)' = Drops(x) \cup {now} /\ Frees(x)' = Frees(x)
    BY <1>1, ObjectSetsGrow DEF DropLogged
  <2>2. BorrowEnds(x)' = BorrowEnds(x) \cup {now}
    BY <2>1 DEF BorrowEnds, FirstFree
  <2>3. Binds(c, x)' = Binds(c, x)
    BY <1>1, <1>b DEF DropLogged
  <2>4. QED BY <2>2, <2>3, <1>1 DEF DropLogged
<1>2. CASE FreeLogged(x)
  <2>1. Drops(x)' = Drops(x)
    BY <1>2, ObjectSetsGrow DEF FreeLogged
  <2>2. Binds(c, x)' = Binds(c, x)
    BY <1>2, <1>b DEF FreeLogged
  <2>3. CASE objects[x].life = "freed"
    <3>1. objects' = objects /\ captures' = captures
      BY <2>3, <1>2 DEF FreeLogged
    <3>2. FirstFree(x)' = FirstFree(x)
      BY <3>1 DEF ObjectInTrace
    <3>3. QED BY <3>1, <3>2, <2>1, <2>2 DEF BorrowEnds
  <2>4. CASE objects[x].life # "freed"
    <3>1. objects' = [objects EXCEPT ![x].life = "freed", ![x].end = now, ![x].free = now]
      BY <2>4, <1>2 DEF FreeLogged
    <3>2. objects'[x].life = "freed" /\ objects'[x].free = now
      BY <3>1, <1>t DEF ObjectState
    <3>3. FirstFree(x)' = {now}
      BY <3>2 DEF ObjectInTrace
    <3>4. FirstFree(x) = {}
      BY <2>4 DEF ObjectInTrace
    <3>5. BorrowEnds(x)' = BorrowEnds(x) \cup {now}
      BY <3>3, <3>4, <2>1 DEF BorrowEnds
    <3>6. QED BY <3>5, <2>2, <2>4, <1>2 DEF FreeLogged
  <2>5. QED BY <2>3, <2>4
<1>3. ASSUME NEW o \in Objects, o # x, CreateLogged(o) \/ UseLogged(o) \/ DropLogged(o) \/ FreeLogged(o)
      PROVE  /\ BorrowEnds(x)' = BorrowEnds(x) /\ Binds(c, x)' = Binds(c, x)
             /\ captures'[c][x] = captures[c][x]
  <2>1. captures'[c][x] = captures[c][x]
    <3>1. captures' = captures \/ EndBorrowed(o)
      BY <1>3 DEF CreateLogged, UseLogged, DropLogged, FreeLogged
    <3>2. QED BY <3>1, <1>3, EndBorrowedEffect
  <2>2. \E k : Adds(k, o, NoCallback)
    BY <1>3 DEF CreateLogged, UseLogged, DropLogged, FreeLogged
  <2>3. QED BY <2>1, <2>2, <1>3, <1>s
<1>4. ASSUME CreateLogged(x) \/ UseLogged(x)
      PROVE  /\ BorrowEnds(x)' = BorrowEnds(x) /\ Binds(c, x)' = Binds(c, x)
             /\ captures'[c][x] = captures[c][x]
  BY <1>4, <1>s DEF CreateLogged, UseLogged
<1>5. ASSUME \/ \E k \in {"start", "marker"} : MarkLogged(k)
             \/ \E d \in Callbacks, w \in Objects : RegisterLogged(d, w) \/ UnregisterLogged(d, w)
             \/ \E d \in Callbacks : InvokeLogged(d)
      PROVE  /\ BorrowEnds(x)' = BorrowEnds(x) /\ Binds(c, x)' = Binds(c, x)
             /\ captures'[c][x] = captures[c][x]
  <2>1. captures' = captures
    BY <1>5 DEF MarkLogged, RegisterLogged, UnregisterLogged, InvokeLogged
  <2>2. ASSUME NEW k \in {"start", "marker"}, MarkLogged(k) PROVE Adds(k, NoObjectId, NoCallback)
    BY <2>2 DEF MarkLogged
  <2>3. ASSUME NEW d \in Callbacks, NEW w \in Objects, RegisterLogged(d, w) \/ UnregisterLogged(d, w)
        PROVE  Adds("register", w, d) \/ Adds("unregister", w, d)
    BY <2>3 DEF RegisterLogged, UnregisterLogged
  <2>4. ASSUME NEW d \in Callbacks, InvokeLogged(d) PROVE Adds("invoke", NoObjectId, d)
    BY <2>4 DEF InvokeLogged
  <2>5. QED BY <2>1, <2>2, <2>3, <2>4, <1>5, <1>s
<1>6. ASSUME NEW d \in Callbacks, NEW o \in Objects, BindLogged(d, o)
      PROVE  \/ /\ BorrowEnds(x)' = BorrowEnds(x) /\ Binds(c, x)' = Binds(c, x)
                /\ captures'[c][x] = captures[c][x]
             \/ /\ BorrowEnds(x)' = BorrowEnds(x) /\ Binds(c, x)' = Binds(c, x) \cup {now}
                /\ ~Bound(c, x) /\ Registered(c)
                /\ captures'[c][x] = [life |-> "active", mode |-> CaptureFact[c][x], bind |-> now, end |-> 0]
  <2>0. captures' = [captures EXCEPT ![d] = [captures[d] EXCEPT ![o] =
            [life |-> "active", mode |-> CaptureFact[d][o], bind |-> now, end |-> 0]]]
    BY <1>6 DEF BindLogged
  <2>1. CASE d = c /\ o = x
    <3>1. captures'[c][x] = [life |-> "active", mode |-> CaptureFact[c][x], bind |-> now, end |-> 0]
      BY <2>0, <2>1, <1>t
    <3>2. Binds(c, x)' = Binds(c, x) \cup {now}
      BY <2>1, <1>6, CallbackSetsGrow DEF BindLogged
    <3>3. BorrowEnds(x)' = BorrowEnds(x)
      BY <1>6, <1>e DEF BindLogged
    <3>4. QED BY <3>1, <3>2, <3>3, <2>1, <1>6 DEF BindLogged
  <2>2. CASE d # c \/ o # x
    <3>1. captures'[c][x] = captures[c][x]
      BY <2>0, <2>2, <1>t
    <3>2. Adds("bind", o, d)
      BY <1>6 DEF BindLogged
    <3>3. QED BY <3>1, <3>2, <2>2, <1>s
  <2>3. QED BY <2>1, <2>2
<1>7. QED BY <1>1, <1>2, <1>3, <1>4, <1>5, <1>6 DEF LoggedStep

\* The capture table stays that of the binds and borrow ends.
LEMMA CaptureTraceStep ==
    ASSUME TypeOK, CaptureRecords, LogTyped, LoggedStep, NEW c \in Callbacks, NEW x \in Objects,
           ObjectInTrace(x), ObjectInTrace(x)', CaptureInTrace(c, x)
    PROVE  CaptureInTrace(c, x)'
<1>l. /\ clock \in Nat /\ now \in Nat /\ now = clock + 1
      /\ \A i \in DOMAIN log : i \in Nat /\ 0 < i /\ i < now
  BY LogPast
<1>t. captures[c][x] \in CaptureState /\ captures[c][x].bind <= clock /\ captures[c][x].end <= clock
  BY DEF TypeOK, CaptureRecords
<1>e. \A i \in BorrowEnds(x) : i \in Nat /\ i < now
  <2>1. \A i \in FirstFree(x) : i \in Frees(x)
    BY DEF ObjectInTrace
  <2>2. QED BY <2>1, <1>l DEF BorrowEnds, Drops, Frees
<1>1. CASE /\ BorrowEnds(x)' = BorrowEnds(x) /\ Binds(c, x)' = Binds(c, x)
           /\ captures'[c][x] = captures[c][x]
  BY <1>1 DEF CaptureInTrace
<1>2. CASE /\ BorrowEnds(x)' = BorrowEnds(x) /\ Binds(c, x)' = Binds(c, x) \cup {now}
           /\ ~Bound(c, x)
           /\ captures'[c][x] = [life |-> "active", mode |-> CaptureFact[c][x], bind |-> now, end |-> 0]
  <2>1. Binds(c, x)' = {now}
    BY <1>2 DEF CaptureInTrace, Bound
  <2>2. \A i \in BorrowEnds(x)' : i <= now
    BY <1>2, <1>e, <1>l
  <2>3. QED BY <1>2, <2>1, <2>2 DEF CaptureInTrace
<1>3. CASE /\ BorrowEnds(x)' = BorrowEnds(x) \cup {now} /\ Binds(c, x)' = Binds(c, x)
           /\ EndBorrowed(x)
  <2>1. CASE captures[c][x].mode = "borrowed" /\ captures[c][x].life = "active"
    <3>1. /\ captures'[c][x].life = "ended" /\ captures'[c][x].end = now
          /\ captures'[c][x].mode = "borrowed" /\ captures'[c][x].bind = captures[c][x].bind
      BY <2>1, <1>3, EndBorrowedEffect
    <3>2. \A i \in BorrowEnds(x)' : i <= captures[c][x].bind \/ now <= i
      BY <2>1, <1>3, <1>l DEF CaptureInTrace
    <3>3. QED BY <3>1, <3>2, <2>1, <1>3 DEF CaptureInTrace
  <2>2. CASE ~(captures[c][x].mode = "borrowed" /\ captures[c][x].life = "active")
    <3>1. captures'[c][x] = captures[c][x]
      BY <2>2, <1>3, EndBorrowedEffect
    <3>2. captures[c][x].life = "ended" => captures[c][x].end <= now
      BY <1>l, <1>t DEF CaptureState
    <3>3. QED BY <3>1, <3>2, <2>2, <1>3 DEF CaptureInTrace
  <2>3. QED BY <2>1, <2>2
<1>4. QED BY <1>1, <1>2, <1>3, CaptureSteps

\* A release of c is an unregistration of it, or a drop of its owner after the
\* registration.
ReleaseAt(c, i) ==
    /\ i \in DOMAIN log
    /\ \/ log[i].kind = "unregister" /\ log[i].callback = c
       \/ \E r \in Registers(c) : log[i] = Event("drop", log[r].object, NoCallback) /\ i > r

\* The membership of Releases, position by position.
LEMMA ReleasesAre == \A c, i : i \in Releases(c) <=> ReleaseAt(c, i)
BY DEF Releases, ReleaseAt, Drops, Is

\* Only an unregistration, or a drop of the registered owner, adds a release.
LEMMA ReleasesGrow ==
    ASSUME TypeOK, LogTyped, NEW k, NEW o, NEW d, Adds(k, o, d), NEW c, Registers(c)' = Registers(c)
    PROVE  Releases(c)' = IF \/ k = "unregister" /\ d = c
                             \/ /\ k = "drop" /\ d = NoCallback
                                /\ \E r \in Registers(c) : log[r].object = o
                          THEN Releases(c) \cup {now} ELSE Releases(c)
<1>l. \A i \in DOMAIN log : i \in Nat /\ i < now /\ i # now
  BY LogPast
<1>g. \A i \in Registers(c) : i \in DOMAIN log
  BY DEF Registers
<1>p. \A i : i \in Releases(c)' <=> ReleaseAt(c, i)'
  BY DEF Releases, ReleaseAt, Drops, Is
<1>n. PICK n : n = now
  OBVIOUS
<1>1. ASSUME NEW i \in DOMAIN log PROVE ReleaseAt(c, i)' <=> ReleaseAt(c, i)
  BY <1>g DEF ReleaseAt, Adds
<1>2. ReleaseAt(c, n)' <=> \/ k = "unregister" /\ d = c
                           \/ /\ k = "drop" /\ d = NoCallback
                              /\ \E r \in Registers(c) : log[r].object = o
  <2>1. now \in DOMAIN log' /\ log'[now] = Event(k, o, d)
    BY DEF Adds
  <2>2. \A r \in Registers(c) : log'[r] = log[r] /\ now > r
    BY <1>g, <1>l DEF Adds
  <2>3. /\ log'[now].kind = k /\ log'[now].callback = d
        /\ \A x : (log'[now] = Event("drop", x, NoCallback)) <=> (k = "drop" /\ d = NoCallback /\ x = o)
    BY <2>1 DEF Event
  <2>4. QED BY <1>n, <2>1, <2>2, <2>3 DEF ReleaseAt
<1>3. \A i : ReleaseAt(c, i)' => i \in DOMAIN log \/ i = now
  BY DEF ReleaseAt, Adds
<1>4. \A i : i \in Releases(c) <=> i \in DOMAIN log /\ ReleaseAt(c, i)
  BY ReleasesAre DEF ReleaseAt
<1>5. QED BY <1>n, <1>p, <1>1, <1>2, <1>3, <1>4

\* What a logged step does to one callback, its registration and its releases.
LEMMA CallbackSteps ==
    ASSUME TypeOK, CallbackRecords, LogTyped, LoggedStep, NEW c \in Callbacks, CallbackInTrace(c)
    PROVE  \/ /\ callbacks'[c] = callbacks[c] /\ Registers(c)' = Registers(c)
              /\ Unregisters(c)' = Unregisters(c) /\ Releases(c)' = Releases(c)
           \/ /\ ~Registered(c) /\ Registers(c)' = {now} /\ Releases(c)' = {}
              /\ \E w \in Objects :
                    /\ callbacks'[c] = [life |-> "retained", owner |-> w, register |-> now, release |-> 0]
                    /\ log'[now].object = w
           \/ /\ Registered(c) /\ Registers(c)' = Registers(c) /\ Releases(c)' = Releases(c) \cup {now}
              /\ callbacks'[c].life = "released"
              /\ callbacks'[c].register = callbacks[c].register /\ callbacks'[c].owner = callbacks[c].owner
<1> DEFINE r == callbacks[c]
           Same == /\ callbacks'[c] = callbacks[c] /\ Registers(c)' = Registers(c)
                   /\ Unregisters(c)' = Unregisters(c) /\ Releases(c)' = Releases(c)
           Released == /\ Registered(c) /\ Registers(c)' = Registers(c) /\ Releases(c)' = Releases(c) \cup {now}
                       /\ callbacks'[c].life = "released"
                       /\ callbacks'[c].register = r.register /\ callbacks'[c].owner = r.owner
<1>l. /\ clock \in Nat /\ now \in Nat /\ now = clock + 1
      /\ \A i \in DOMAIN log : i \in Nat /\ 0 < i /\ i < now
  BY LogPast
<1>t. /\ callbacks \in [Callbacks -> CallbackState] /\ r \in CallbackState
      /\ Registered(c) => r.owner \in Owners
  BY DEF TypeOK, CallbackRecords, Registered, CallbackState
<1>d. \A o : \A i \in Drops(o) : i \in DOMAIN log
  BY DEF Drops
<1>g. \A i \in Registers(c) : i \in DOMAIN log
  BY DEF Registers
\* The trace gains nothing that concerns c.
<1>s. ASSUME NEW k, NEW o, NEW d, Adds(k, o, d), k \notin {"register", "unregister"} \/ d # c,
             k = "drop" => ~Registered(c) \/ o # r.owner, callbacks'[c] = callbacks[c]
      PROVE  Same
  <2>1. Registers(c)' = Registers(c) /\ Unregisters(c)' = Unregisters(c)
    BY <1>s, CallbackSetsGrow
  <2>2. \A i \in Registers(c) : Registered(c) /\ log[i].object = r.owner
    BY DEF CallbackInTrace, Registered
  <2>6. Releases(c)' = Releases(c)
    BY <2>1, <2>2, <1>s, ReleasesGrow
  <2>7. QED BY <2>1, <2>6, <1>s
<1>1. ASSUME NEW w \in Objects, RegisterLogged(c, w)
      PROVE  /\ ~Registered(c) /\ Registers(c)' = {now} /\ Releases(c)' = {}
             /\ callbacks'[c] = [life |-> "retained", owner |-> w, register |-> now, release |-> 0]
             /\ log'[now].object = w
  <2>1. Adds("register", w, c) /\ ~Registered(c)
    BY <1>1 DEF RegisterLogged
  <2>2. Registers(c)' = {now} /\ Unregisters(c)' = {}
    BY <2>1, CallbackSetsGrow DEF CallbackInTrace, Registered
  <2>3. \A i \in DOMAIN log' : ~(log'[i].kind = "unregister" /\ log'[i].callback = c)
    BY <2>2 DEF Unregisters
  <2>4. \A i \in DOMAIN log' : ~(i > now)
    BY <2>1, <1>l DEF Adds
  <2>5. \A i : i \in Releases(c)' <=> ReleaseAt(c, i)'
    BY DEF Releases, ReleaseAt, Drops, Is
  <2>6. Releases(c)' = {}
    BY <2>2, <2>3, <2>4, <2>5 DEF ReleaseAt
  <2>7. log'[now].object = w
    BY <2>1 DEF Adds, Event
  <2>8. QED BY <2>1, <2>2, <2>6, <2>7, <1>1, <1>t DEF RegisterLogged
<1>2. ASSUME NEW w \in Objects, UnregisterLogged(c, w) PROVE Released
  <2>1. Adds("unregister", w, c) /\ Registered(c)
    BY <1>2 DEF UnregisterLogged
  <2>2. Registers(c)' = Registers(c) /\ Unregisters(c)' = Unregisters(c) \cup {now}
    BY <2>1, CallbackSetsGrow
  <2>6. Releases(c)' = Releases(c) \cup {now}
    BY <2>1, <2>2, ReleasesGrow
  <2>7. callbacks' = [callbacks EXCEPT ![c].life = "released", ![c].release = now]
    BY <1>2 DEF UnregisterLogged
  <2>8. /\ callbacks'[c].life = "released"
        /\ callbacks'[c].register = r.register /\ callbacks'[c].owner = r.owner
    BY <2>7, <1>t DEF CallbackState
  <2>9. QED BY <2>1, <2>2, <2>6, <2>8
<1>3. ASSUME NEW d \in Callbacks, d # c, NEW w \in Objects, RegisterLogged(d, w) \/ UnregisterLogged(d, w)
      PROVE  Same
  <2>1. callbacks'[c] = callbacks[c]
    BY <1>3, <1>t DEF RegisterLogged, UnregisterLogged
  <2>2. Adds("register", w, d) \/ Adds("unregister", w, d)
    BY <1>3 DEF RegisterLogged, UnregisterLogged
  <2>3. QED BY <2>1, <2>2, <1>3, <1>s
<1>4. ASSUME NEW o \in Objects, DropLogged(o) PROVE Same \/ Released
  <2>1. Adds("drop", o, NoCallback) /\ NoCallback # c
    BY <1>4, OracleAssumption DEF DropLogged
  <2>2. CASE Registered(c) /\ o = r.owner
    <3>1. CloseOwner(o) /\ o \in Owners
      BY <2>2, <1>4, <1>t DEF DropLogged
    <3>2. /\ callbacks'[c].life = "released"
          /\ callbacks'[c].register = r.register /\ callbacks'[c].owner = r.owner
      BY <3>1, <2>2, CloseOwnerEffect
    <3>3. Registers(c)' = Registers(c) /\ Unregisters(c)' = Unregisters(c)
      BY <2>1, CallbackSetsGrow
    <3>4. Registers(c) = {r.register} /\ log[r.register].object = o /\ r.register < now
      BY <2>2, <1>g, <1>l DEF CallbackInTrace, Registered
    <3>9. Releases(c)' = Releases(c) \cup {now}
      BY <2>1, <3>3, <3>4, ReleasesGrow
    <3>10. QED BY <2>2, <3>2, <3>3, <3>9
  <2>3. CASE ~Registered(c) \/ o # r.owner
    <3>1. callbacks'[c] = callbacks[c]
      <4>1. o \in Owners => r.owner # o
        BY <2>3, OracleAssumption DEF CallbackRecords, Registered
      <4>2. QED BY <4>1, <1>4, CloseOwnerEffect DEF DropLogged
    <3>2. QED BY <2>1, <2>3, <3>1, <1>s
  <2>4. QED BY <2>2, <2>3
<1>5. ASSUME NEW o \in Objects, CreateLogged(o) \/ UseLogged(o) \/ FreeLogged(o) PROVE Same
  <2>1. callbacks' = callbacks
    BY <1>5 DEF CreateLogged, UseLogged, FreeLogged
  <2>2. Adds("create", o, NoCallback) \/ Adds("use", o, NoCallback) \/ Adds("free", o, NoCallback)
    BY <1>5 DEF CreateLogged, UseLogged, FreeLogged
  <2>3. QED BY <2>1, <2>2, <1>s
<1>6. ASSUME NEW k \in {"start", "marker"}, MarkLogged(k) PROVE Same
  BY <1>6, <1>s DEF MarkLogged
<1>7. ASSUME NEW d \in Callbacks, NEW o \in Objects, BindLogged(d, o) PROVE Same
  BY <1>7, <1>s DEF BindLogged
<1>8. ASSUME NEW d \in Callbacks, InvokeLogged(d) PROVE Same
  BY <1>8, <1>s DEF InvokeLogged
<1>9. QED BY <1>1, <1>2, <1>3, <1>4, <1>5, <1>6, <1>7, <1>8 DEF LoggedStep

\* The callback table stays that of the registrations and releases.
LEMMA CallbackTraceStep ==
    ASSUME TypeOK, CallbackRecords, LogTyped, LoggedStep, NEW c \in Callbacks, CallbackInTrace(c)
    PROVE  CallbackInTrace(c)'
<1>t. callbacks[c] \in CallbackState
  BY DEF TypeOK
<1>g. \A i \in Registers(c) : i \in DOMAIN log /\ log'[i] = log[i]
  <2>1. \A i \in DOMAIN log : log'[i] = log[i]
    BY DEF LoggedStep, MarkLogged, CreateLogged, RegisterLogged, BindLogged, UnregisterLogged,
           InvokeLogged, UseLogged, DropLogged, FreeLogged, Adds
  <2>2. QED BY <2>1 DEF Registers
<1>1. CASE /\ callbacks'[c] = callbacks[c] /\ Registers(c)' = Registers(c)
           /\ Unregisters(c)' = Unregisters(c) /\ Releases(c)' = Releases(c)
  BY <1>1, <1>g DEF CallbackInTrace
<1>2. CASE /\ ~Registered(c) /\ Registers(c)' = {now} /\ Releases(c)' = {}
           /\ \E w \in Objects :
                 /\ callbacks'[c] = [life |-> "retained", owner |-> w, register |-> now, release |-> 0]
                 /\ log'[now].object = w
  BY <1>2 DEF CallbackInTrace
<1>3. CASE /\ Registered(c) /\ Registers(c)' = Registers(c) /\ Releases(c)' = Releases(c) \cup {now}
           /\ callbacks'[c].life = "released"
           /\ callbacks'[c].register = callbacks[c].register /\ callbacks'[c].owner = callbacks[c].owner
  BY <1>3, <1>g DEF CallbackInTrace, Registered
<1>4. QED BY <1>1, <1>2, <1>3, CallbackSteps

-----------------------------------------------------------------------------
(* The findings of the trace, read from the tables. *)

ExposuresByTable ==
    \A f : f \in Exposures <=>
        \E c \in Callbacks, o \in Objects :
            /\ captures[c][o].life = "ended"
            /\ \A i \in Releases(c) : i > captures[c][o].end
            /\ f = ExpectedFinding("LIFE-003", o, c, captures[c][o].bind, callbacks[c].register,
                                   captures[c][o].end, captures[c][o].end)

InvokesByTable ==
    \A f : f \in DanglingInvokes <=>
        \E c \in Callbacks, o \in Objects :
            /\ captures[c][o].life = "ended"
            /\ \E i \in Invokes(c) :
                  /\ captures[c][o].end < i
                  /\ f = ExpectedFinding("LIFE-002", o, c, captures[c][o].bind, 0, captures[c][o].end, i)

\* A capture that has ended is the one ended borrow of its pair.
LEMMA EndedBorrow ==
    ASSUME TypeOK, RecordsOrdered, LogTyped, TablesInTrace, NEW c \in Callbacks, NEW o \in Objects,
           CaptureFact[c][o] = "borrowed"
    PROVE  EndedBorrows(c, o) = IF captures[c][o].life = "ended"
                                THEN {<<captures[c][o].bind, captures[c][o].end>>} ELSE {}
<1> DEFINE r == captures[c][o]
<1>t. r \in CaptureState /\ (r.life = "ended" => r.bind < r.end)
  BY DEF TypeOK, RecordsOrdered, CaptureRecords
<1>i. CaptureInTrace(c, o) /\ ObjectInTrace(o)
  BY DEF TablesInTrace
<1>n. \A i \in BorrowEnds(o) : i \in Nat
  <2>1. \A i \in FirstFree(o) : i \in Frees(o)
    BY <1>i DEF ObjectInTrace
  <2>2. QED BY <2>1, LogPast DEF BorrowEnds, Drops, Frees
<1>1. CASE r.life = "absent"
  BY <1>1, <1>i DEF CaptureInTrace, EndedBorrows
<1>2. CASE r.life = "active"
  <2>1. Binds(c, o) = {r.bind} /\ \A i \in BorrowEnds(o) : i <= r.bind
    BY <1>2, <1>i DEF CaptureInTrace
  <2>2. \A p \in Binds(c, o) \X BorrowEnds(o) : ~(p[1] < p[2])
    BY <2>1, <1>n, <1>t DEF CaptureState
  <2>3. QED BY <1>2, <2>2 DEF EndedBorrows
<1>3. CASE r.life = "ended"
  <2>1. /\ Binds(c, o) = {r.bind} /\ r.end \in BorrowEnds(o)
        /\ \A i \in BorrowEnds(o) : i <= r.bind \/ r.end <= i
    BY <1>3, <1>i DEF CaptureInTrace
  <2>2. r.bind \in Nat /\ r.end \in Nat /\ r.bind < r.end
    BY <1>3, <1>t DEF CaptureState
  <2>3. <<r.bind, r.end>> \in EndedBorrows(c, o)
    BY <2>1, <2>2, <1>n DEF EndedBorrows
  <2>4. ASSUME NEW p \in EndedBorrows(c, o) PROVE p = <<r.bind, r.end>>
    <3>1. p \in Binds(c, o) \X BorrowEnds(o) /\ p[1] < p[2] /\ ~\E x \in BorrowEnds(o) : p[1] < x /\ x < p[2]
      BY <2>4 DEF EndedBorrows
    <3>2. p[1] = r.bind /\ p[2] \in BorrowEnds(o) /\ p[2] \in Nat
      BY <3>1, <2>1, <1>n
    <3>3. p[2] = r.end
      BY <3>1, <3>2, <2>1, <2>2
    <3>4. QED BY <3>1, <3>2, <3>3
  <2>5. QED BY <1>3, <2>3, <2>4
<1>4. QED BY <1>1, <1>2, <1>3, <1>t DEF CaptureState

\* An ended capture was a borrow, and its callback is registered.
LEMMA EndedFacts ==
    ASSUME TypeOK, RecordsOrdered, TablesInTrace, NEW c \in Callbacks, NEW o \in Objects,
           captures[c][o].life = "ended"
    PROVE  /\ CaptureFact[c][o] = "borrowed" /\ captures[c][o].mode = "borrowed"
           /\ Registered(c) /\ Registers(c) = {callbacks[c].register}
           /\ captures[c][o].end \in Nat /\ captures[c][o].bind \in Nat
           /\ captures[c][o].end <= clock
<1>1. captures[c][o].mode = "borrowed" /\ callbacks[c].life # "absent" /\ captures[c][o].end <= clock
  BY DEF RecordsOrdered, CaptureRecords, CallbackRecords
<1>2. captures[c][o] \in CaptureState
  BY DEF TypeOK
<1>3. QED BY <1>1, <1>2 DEF TablesInTrace, CaptureInTrace, CallbackInTrace, Registered, CaptureState

\* What a reading of the trace finds of captures can be read off the tables.
LEMMA ByTables == TypeOK /\ RecordsOrdered /\ LogTyped /\ TablesInTrace => ExposuresByTable /\ InvokesByTable
<1> SUFFICES ASSUME TypeOK, RecordsOrdered, LogTyped, TablesInTrace PROVE ExposuresByTable /\ InvokesByTable
  OBVIOUS
<1>r. ASSUME NEW c \in Callbacks PROVE \A i \in Releases(c) : i \in Nat
  BY LogPast, ReleasesAre DEF ReleaseAt
<1>b. \A p \in Borrows : p[1] \in Callbacks /\ p[2] \in Objects /\ CaptureFact[p[1]][p[2]] = "borrowed"
  BY DEF Borrows
<1>c. \A c \in Callbacks, o \in Objects :
          CaptureFact[c][o] = "borrowed" => <<c, o>> \in Borrows /\ <<c, o>>[1] = c /\ <<c, o>>[2] = o
  BY DEF Borrows
<1>1. ASSUME NEW f
      PROVE  f \in Exposures <=>
        \E c \in Callbacks, o \in Objects :
            /\ captures[c][o].life = "ended"
            /\ \A i \in Releases(c) : i > captures[c][o].end
            /\ f = ExpectedFinding("LIFE-003", o, c, captures[c][o].bind, callbacks[c].register,
                                   captures[c][o].end, captures[c][o].end)
  <2> DEFINE Late(c, o) == {y \in EndedBorrows(c, o) \X Registers(c) : ~\E i \in Releases(c) : i <= y[1][2]}
             Traced(c, o) == \E z \in Late(c, o) :
                                 f = ExpectedFinding("LIFE-003", o, c, z[1][1], z[2], z[1][2], z[1][2])
             Tabled(c, o) == /\ captures[c][o].life = "ended"
                             /\ \A i \in Releases(c) : i > captures[c][o].end
                             /\ f = ExpectedFinding("LIFE-003", o, c, captures[c][o].bind, callbacks[c].register,
                                                    captures[c][o].end, captures[c][o].end)
  <2>1. ASSUME NEW c \in Callbacks, NEW o \in Objects, CaptureFact[c][o] = "borrowed"
        PROVE  Traced(c, o) <=> Tabled(c, o)
    <3>1. CASE captures[c][o].life = "ended"
      <4> DEFINE p == <<captures[c][o].bind, captures[c][o].end>>
      <4>1. EndedBorrows(c, o) = {p} /\ Registers(c) = {callbacks[c].register}
        BY <2>1, <3>1, EndedBorrow, EndedFacts
      <4>2. p[1] = captures[c][o].bind /\ p[2] = captures[c][o].end
        OBVIOUS
      <4>3. (~\E i \in Releases(c) : i <= captures[c][o].end) <=> \A i \in Releases(c) : i > captures[c][o].end
        BY <3>1, <1>r, EndedFacts
      <4> DEFINE q == <<p, callbacks[c].register>>
      <4> HIDE DEF p
      <4>4. Late(c, o) = IF \A i \in Releases(c) : i > captures[c][o].end THEN {q} ELSE {}
        <5>1. q[1] = p /\ q[2] = callbacks[c].register
          OBVIOUS
        <5>2. EndedBorrows(c, o) \X Registers(c) = {q}
          BY <4>1
        <5> HIDE DEF q
        <5>3. QED BY <4>2, <4>3, <5>1, <5>2
      <4>5. q[1] = p /\ q[2] = callbacks[c].register
        OBVIOUS
      <4> HIDE DEF q, Late
      <4>6. QED BY <3>1, <4>2, <4>4, <4>5
    <3>2. CASE captures[c][o].life # "ended"
      BY <2>1, <3>2, EndedBorrow
    <3>3. QED BY <3>1, <3>2
  <2>2. f \in Exposures <=> \E p \in Borrows : Traced(p[1], p[2])
    BY DEF Exposures
  <2>3. ASSUME NEW c \in Callbacks, NEW o \in Objects, Tabled(c, o) PROVE CaptureFact[c][o] = "borrowed"
    BY <2>3, EndedFacts
  <2> HIDE DEF Traced, Tabled
  <2>4. (\E p \in Borrows : Traced(p[1], p[2])) <=> \E c \in Callbacks, o \in Objects : Tabled(c, o)
    BY <2>1, <2>3, <1>b, <1>c
  <2>5. QED BY <2>2, <2>4 DEF Tabled
<1>2. ASSUME NEW f
      PROVE  f \in DanglingInvokes <=>
        \E c \in Callbacks, o \in Objects :
            /\ captures[c][o].life = "ended"
            /\ \E i \in Invokes(c) :
                  /\ captures[c][o].end < i
                  /\ f = ExpectedFinding("LIFE-002", o, c, captures[c][o].bind, 0, captures[c][o].end, i)
  <2> DEFINE Later(c, o) == {y \in EndedBorrows(c, o) \X Invokes(c) : y[1][2] < y[2]}
             Traced(c, o) == \E z \in Later(c, o) :
                                 f = ExpectedFinding("LIFE-002", o, c, z[1][1], 0, z[1][2], z[2])
             Tabled(c, o) == /\ captures[c][o].life = "ended"
                             /\ \E i \in Invokes(c) :
                                   /\ captures[c][o].end < i
                                   /\ f = ExpectedFinding("LIFE-002", o, c, captures[c][o].bind, 0,
                                                          captures[c][o].end, i)
  <2>1. ASSUME NEW c \in Callbacks, NEW o \in Objects, CaptureFact[c][o] = "borrowed"
        PROVE  Traced(c, o) <=> Tabled(c, o)
    <3>1. CASE captures[c][o].life = "ended"
      <4> DEFINE p == <<captures[c][o].bind, captures[c][o].end>>
      <4>1. EndedBorrows(c, o) = {p}
        BY <2>1, <3>1, EndedBorrow
      <4>2. p[1] = captures[c][o].bind /\ p[2] = captures[c][o].end
        OBVIOUS
      <4> HIDE DEF p
      <4>3. ASSUME NEW i \in Invokes(c), captures[c][o].end < i
            PROVE  \E z \in Later(c, o) : z[1] = p /\ z[2] = i
        <5>1. <<p, i>> \in EndedBorrows(c, o) \X Invokes(c) /\ <<p, i>>[1] = p /\ <<p, i>>[2] = i
          BY <4>1
        <5>2. QED BY <5>1, <4>2, <4>3
      <4>4. \A z \in Later(c, o) : z[1] = p /\ z[2] \in Invokes(c) /\ captures[c][o].end < z[2]
        BY <4>1, <4>2
      <4> HIDE DEF Later
      <4>5. QED BY <3>1, <4>2, <4>3, <4>4
    <3>2. CASE captures[c][o].life # "ended"
      BY <2>1, <3>2, EndedBorrow
    <3>3. QED BY <3>1, <3>2
  <2>2. f \in DanglingInvokes <=> \E p \in Borrows : Traced(p[1], p[2])
    BY DEF DanglingInvokes
  <2>3. ASSUME NEW c \in Callbacks, NEW o \in Objects, Tabled(c, o) PROVE CaptureFact[c][o] = "borrowed"
    BY <2>3, EndedFacts
  <2> HIDE DEF Traced, Tabled
  <2>4. (\E p \in Borrows : Traced(p[1], p[2])) <=> \E c \in Callbacks, o \in Objects : Tabled(c, o)
    BY <2>1, <2>3, <1>b, <1>c
  <2>5. QED BY <2>2, <2>4 DEF Tabled
<1>3. QED BY <1>1, <1>2 DEF ExposuresByTable, InvokesByTable

\* What a logged step does to one capture: it has ended before, it ends now, or
\* it has not ended.
LEMMA EndedSteps ==
    ASSUME TypeOK, RecordsOrdered, LogTyped, TablesInTrace, TablesInTrace', LoggedStep,
           NEW c \in Callbacks, NEW o \in Objects
    PROVE  \/ captures[c][o].life = "ended" /\ captures'[c][o] = captures[c][o]
           \/ captures[c][o].life # "ended" /\ captures'[c][o].life # "ended"
           \/ /\ captures[c][o].life = "active" /\ captures'[c][o].life = "ended"
              /\ captures'[c][o].end = now /\ EndBorrowed(o)
<1>1. ObjectInTrace(o) /\ ObjectInTrace(o)'
  BY DEF TablesInTrace
<1>2. ASSUME EndBorrowed(o)
      PROVE  \/ captures[c][o].life = "ended" /\ captures'[c][o] = captures[c][o]
             \/ captures[c][o].life # "ended" /\ captures'[c][o].life # "ended"
             \/ /\ captures[c][o].life = "active" /\ captures'[c][o].life = "ended"
                /\ captures'[c][o].end = now /\ EndBorrowed(o)
  BY <1>2, EndBorrowedEffect
<1>3. CASE captures'[c][o] = captures[c][o]
  BY <1>3
<1>4. CASE /\ ~Bound(c, o)
           /\ captures'[c][o] = [life |-> "active", mode |-> CaptureFact[c][o], bind |-> now, end |-> 0]
  BY <1>4 DEF Bound
<1>5. QED BY <1>1, <1>2, <1>3, <1>4, CaptureSteps

\* The registration of a callback with an ended capture stays, and what is
\* added to its releases and invocations is the new event.
LEMMA RegisteredSteps ==
    ASSUME TypeOK, RecordsOrdered, LogTyped, TablesInTrace, LoggedStep, NEW c \in Callbacks, Registered(c)
    PROVE  /\ callbacks'[c].register = callbacks[c].register
           /\ Releases(c)' = Releases(c) \/ Releases(c)' = Releases(c) \cup {now}
BY CallbackSteps DEF RecordsOrdered, TablesInTrace

\* The event of a step tells which call it was.
LEMMA EventOf ==
    ASSUME LoggedStep
    PROVE  \E k, o, d :
               /\ Adds(k, o, d)
               /\ k = "invoke" <=> \E c \in Callbacks : InvokeLogged(c)
               /\ k = "use" <=> \E x \in Objects : UseLogged(x)
               /\ k = "drop" <=> \E x \in Objects : DropLogged(x)
               /\ k = "free" <=> \E x \in Objects : FreeLogged(x)
<1>1. PICK k, o, d : Adds(k, o, d)
  BY DEF LoggedStep, MarkLogged, CreateLogged, RegisterLogged, BindLogged, UnregisterLogged,
         InvokeLogged, UseLogged, DropLogged, FreeLogged
<1>2. \A x, y, z : Adds(x, y, z) => x = k
  BY <1>1 DEF Adds, Event
<1>3. (\E c \in Callbacks : InvokeLogged(c)) => k = "invoke"
  BY <1>2 DEF InvokeLogged
<1>4. (\E x \in Objects : UseLogged(x)) => k = "use"
  BY <1>2 DEF UseLogged
<1>5. (\E x \in Objects : DropLogged(x)) => k = "drop"
  BY <1>2 DEF DropLogged
<1>6. (\E x \in Objects : FreeLogged(x)) => k = "free"
  BY <1>2 DEF FreeLogged
<1>7. (\E x \in {"start", "marker"} : MarkLogged(x)) => k \in {"start", "marker"}
  BY <1>2 DEF MarkLogged
<1>8. (\E x \in Objects : CreateLogged(x)) => k = "create"
  BY <1>2 DEF CreateLogged
<1>9. (\E c \in Callbacks, w \in Objects : RegisterLogged(c, w) \/ BindLogged(c, w) \/ UnregisterLogged(c, w))
      => k \in {"register", "bind", "unregister"}
  BY <1>2 DEF RegisterLogged, BindLogged, UnregisterLogged
<1>10. QED
  BY <1>1, <1>3, <1>4, <1>5, <1>6, <1>7, <1>8, <1>9 DEF LoggedStep

\* An invocation is added by an invoke of that callback only.
LEMMA InvokesGrow ==
    ASSUME TypeOK, LogTyped, LoggedStep, NEW c \in Callbacks
    PROVE  /\ \A i \in Invokes(c) : i \in Nat /\ i <= clock
           /\ \/ Invokes(c)' = Invokes(c) /\ ~InvokeLogged(c)
              \/ Invokes(c)' = Invokes(c) \cup {now} /\ InvokeLogged(c)
<1>1. \A i \in Invokes(c) : i \in Nat /\ i <= clock
  BY LogPast DEF Invokes
<1>2. PICK k, o, d : Adds(k, o, d) /\ (k = "invoke" <=> \E x \in Callbacks : InvokeLogged(x))
  BY EventOf
<1>3. \A x \in Callbacks : InvokeLogged(x) => k = "invoke" /\ o = NoObjectId /\ d = x
  BY <1>2 DEF InvokeLogged, Adds, Event
<1>4. Invokes(c)' = IF k = "invoke" /\ o = NoObjectId /\ d = c THEN Invokes(c) \cup {now} ELSE Invokes(c)
  BY <1>2, CallbackSetsGrow
<1>5. (k = "invoke" /\ o = NoObjectId /\ d = c) <=> InvokeLogged(c)
  BY <1>2, <1>3
<1>6. QED BY <1>1, <1>4, <1>5

\* A finding of an exposure that the step brings about.
NewExposure(f) ==
    \E c \in Callbacks, o \in Objects :
        /\ captures[c][o].life = "active" /\ captures'[c][o].life = "ended"
        /\ callbacks'[c].life = "retained"
        /\ f = ExpectedFinding("LIFE-003", o, c, captures'[c][o].bind, callbacks'[c].register, now, now)

\* An event adds to the exposures those of the captures that it ends.
LEMMA ExposuresGrow ==
    ASSUME TypeOK, TypeOK', RecordsOrdered, RecordsOrdered', LogTyped, LogTyped', TablesInTrace, TablesInTrace',
           LoggedStep, NEW f
    PROVE  f \in Exposures' <=> f \in Exposures \/ NewExposure(f)
<1>l. now \in Nat /\ now = clock + 1 /\ clock \in Nat /\ clock' = now
  BY LogPast DEF LoggedStep, MarkLogged, CreateLogged, RegisterLogged, BindLogged, UnregisterLogged,
         InvokeLogged, UseLogged, DropLogged, FreeLogged, Adds
<1>1. ExposuresByTable /\ ExposuresByTable'
  BY ByTables, PTL
<1> DEFINE Reported(c, o) ==
               /\ captures[c][o].life = "ended"
               /\ \A i \in Releases(c) : i > captures[c][o].end
               /\ f = ExpectedFinding("LIFE-003", o, c, captures[c][o].bind, callbacks[c].register,
                                      captures[c][o].end, captures[c][o].end)
           New(c, o) ==
               /\ captures[c][o].life = "active" /\ captures'[c][o].life = "ended"
               /\ callbacks'[c].life = "retained"
               /\ f = ExpectedFinding("LIFE-003", o, c, captures'[c][o].bind, callbacks'[c].register, now, now)
           ReportedNext(c, o) ==
               /\ captures'[c][o].life = "ended"
               /\ \A i \in Releases(c)' : i > captures'[c][o].end
               /\ f = ExpectedFinding("LIFE-003", o, c, captures'[c][o].bind, callbacks'[c].register,
                                      captures'[c][o].end, captures'[c][o].end)
<1>2. ASSUME NEW c \in Callbacks, NEW o \in Objects
      PROVE  ReportedNext(c, o) <=> Reported(c, o) \/ New(c, o)
  <2>1. CASE captures[c][o].life = "ended" /\ captures'[c][o] = captures[c][o]
    <3>1. Registered(c) /\ captures[c][o].end < now
      BY <2>1, <1>l, EndedFacts
    <3>2. /\ callbacks'[c].register = callbacks[c].register
          /\ Releases(c)' = Releases(c) \/ Releases(c)' = Releases(c) \cup {now}
      BY <3>1, RegisteredSteps
    <3>3. (\A i \in Releases(c)' : i > captures[c][o].end) <=> \A i \in Releases(c) : i > captures[c][o].end
      BY <3>1, <3>2
    <3>4. QED BY <2>1, <3>2, <3>3
  <2>2. CASE captures[c][o].life # "ended" /\ captures'[c][o].life # "ended"
    BY <2>2
  <2>3. CASE /\ captures[c][o].life = "active" /\ captures'[c][o].life = "ended"
             /\ captures'[c][o].end = now
    <3>1. callbacks'[c].life # "absent"
      BY <2>3 DEF RecordsOrdered, CaptureRecords, CallbackRecords
    <3>2. callbacks'[c].life \in {"retained", "released"} /\ (callbacks'[c].life = "released" <=> Releases(c)' # {})
      BY <3>1 DEF TablesInTrace, CallbackInTrace, TypeOK, CallbackState
    <3>3. \A i \in Releases(c)' : i \in DOMAIN log'
      BY DEF Releases, Drops
    <3>4. \A i \in Releases(c)' : ~(i > now)
      BY <3>3, <1>l DEF LogTyped
    <3>5. QED BY <2>3, <3>2, <3>4
  <2>4. QED BY <2>1, <2>2, <2>3, EndedSteps
<1>3. f \in Exposures <=> \E c \in Callbacks, o \in Objects : Reported(c, o)
  BY <1>1 DEF ExposuresByTable
<1>4. f \in Exposures' <=> \E c \in Callbacks, o \in Objects : ReportedNext(c, o)
  BY <1>1 DEF ExposuresByTable
<1>5. NewExposure(f) <=> \E c \in Callbacks, o \in Objects : New(c, o)
  BY DEF NewExposure
<1> HIDE DEF Reported, New, ReportedNext
<1>6. QED BY <1>2, <1>3, <1>4, <1>5

\* A finding of an invocation, now, with an ended borrow.
NewDangling(f) ==
    \E c \in Callbacks : InvokeLogged(c) /\ \E o \in Dangling(c) :
        f = ExpectedFinding("LIFE-002", o, c, captures[c][o].bind, 0, captures[c][o].end, now)

\* An event adds to the dangling invocations those of the callback invoked.
LEMMA DanglingGrow ==
    ASSUME TypeOK, TypeOK', RecordsOrdered, RecordsOrdered', LogTyped, LogTyped', TablesInTrace, TablesInTrace',
           LoggedStep, NEW f
    PROVE  f \in DanglingInvokes' <=> f \in DanglingInvokes \/ NewDangling(f)
<1>l. now \in Nat /\ now = clock + 1 /\ clock \in Nat
  BY LogPast
<1>1. InvokesByTable /\ InvokesByTable'
  BY ByTables, PTL
<1> DEFINE Reported(c, o) ==
               /\ captures[c][o].life = "ended"
               /\ \E i \in Invokes(c) :
                     /\ captures[c][o].end < i
                     /\ f = ExpectedFinding("LIFE-002", o, c, captures[c][o].bind, 0, captures[c][o].end, i)
           New(c, o) ==
               /\ InvokeLogged(c) /\ o \in Dangling(c)
               /\ f = ExpectedFinding("LIFE-002", o, c, captures[c][o].bind, 0, captures[c][o].end, now)
           ReportedNext(c, o) ==
               /\ captures'[c][o].life = "ended"
               /\ \E i \in Invokes(c)' :
                     /\ captures'[c][o].end < i
                     /\ f = ExpectedFinding("LIFE-002", o, c, captures'[c][o].bind, 0, captures'[c][o].end, i)
<1>2. ASSUME NEW c \in Callbacks, NEW o \in Objects
      PROVE  ReportedNext(c, o) <=> Reported(c, o) \/ New(c, o)
  <2>i. /\ \A i \in Invokes(c) : i \in Nat /\ i <= clock
        /\ \/ Invokes(c)' = Invokes(c) /\ ~InvokeLogged(c)
           \/ Invokes(c)' = Invokes(c) \cup {now} /\ InvokeLogged(c)
    BY InvokesGrow
  <2>1. CASE captures[c][o].life = "ended" /\ captures'[c][o] = captures[c][o]
    <3>1. captures[c][o].end < now /\ o \in Dangling(c)
      BY <2>1, <1>l, EndedFacts DEF Dangling
    <3>2. QED BY <2>1, <2>i, <3>1
  <2>2. CASE captures[c][o].life # "ended" /\ captures'[c][o].life # "ended"
    BY <2>2 DEF Dangling
  <2>3. CASE /\ captures[c][o].life = "active" /\ captures'[c][o].life = "ended"
             /\ captures'[c][o].end = now
    <3>1. \A i \in Invokes(c)' : ~(now < i)
      BY <2>i, <1>l
    <3>2. QED BY <2>3, <3>1 DEF Dangling
  <2>4. QED BY <2>1, <2>2, <2>3, EndedSteps
<1>3. f \in DanglingInvokes <=> \E c \in Callbacks, o \in Objects : Reported(c, o)
  BY <1>1 DEF InvokesByTable
<1>4. f \in DanglingInvokes' <=> \E c \in Callbacks, o \in Objects : ReportedNext(c, o)
  BY <1>1 DEF InvokesByTable
<1>5. NewDangling(f) <=> \E c \in Callbacks, o \in Objects : New(c, o)
  BY DEF NewDangling, Dangling
<1> HIDE DEF Reported, New, ReportedNext
<1>6. QED BY <1>2, <1>3, <1>4, <1>5

\* What a logged step does to the drops, frees and uses of one object.
LEMMA ObjectEventsGrow ==
    ASSUME TypeOK, LogTyped, LoggedStep, TablesInTrace, TablesInTrace', NEW o \in Objects
    PROVE  /\ \/ Uses(o)' = Uses(o) /\ ~UseLogged(o)
              \/ Uses(o)' = Uses(o) \cup {now} /\ UseLogged(o) /\ Drops(o)' = Drops(o)
           /\ \/ Frees(o)' = Frees(o) /\ FirstFree(o)' = FirstFree(o) /\ ~FreeLogged(o)
              \/ /\ Frees(o)' = Frees(o) \cup {now} /\ FreeLogged(o) /\ objects[o].life = "freed"
                 /\ FirstFree(o) = {objects[o].free} /\ FirstFree(o)' = {objects[o].free}
              \/ /\ Frees(o) = {} /\ Frees(o)' = {now} /\ FreeLogged(o) /\ objects[o].life # "freed"
                 /\ FirstFree(o) = {} /\ FirstFree(o)' = {now}
           /\ Drops(o)' = Drops(o) \/ Drops(o)' = Drops(o) \cup {now}
           /\ \A i \in Drops(o) \cup Frees(o) \cup Uses(o) \cup FirstFree(o) : i \in DOMAIN log
<1>i. ObjectInTrace(o) /\ ObjectInTrace(o)' /\ objects \in [Objects -> ObjectState]
  BY DEF TablesInTrace, TypeOK
<1>1. PICK k, x, d : /\ Adds(k, x, d)
                     /\ k = "use" <=> \E y \in Objects : UseLogged(y)
                     /\ k = "free" <=> \E y \in Objects : FreeLogged(y)
  BY EventOf
<1>2. \A y \in Objects : /\ UseLogged(y) => k = "use" /\ x = y /\ d = NoCallback
                         /\ FreeLogged(y) => k = "free" /\ x = y /\ d = NoCallback
  <2>1. \A a, b, c : Adds(a, b, c) => a = k /\ b = x /\ c = d
    BY <1>1 DEF Adds, Event
  <2>2. QED BY <2>1 DEF UseLogged, FreeLogged
<1>3. (k = "use" /\ x = o /\ d = NoCallback <=> UseLogged(o)) /\ (k = "free" /\ x = o /\ d = NoCallback <=> FreeLogged(o))
  BY <1>1, <1>2
<1>4. /\ Drops(o)' = IF k = "drop" /\ x = o /\ d = NoCallback THEN Drops(o) \cup {now} ELSE Drops(o)
      /\ Frees(o)' = IF k = "free" /\ x = o /\ d = NoCallback THEN Frees(o) \cup {now} ELSE Frees(o)
      /\ Uses(o)' = IF k = "use" /\ x = o /\ d = NoCallback THEN Uses(o) \cup {now} ELSE Uses(o)
  BY <1>1, ObjectSetsGrow
<1>5. \A i \in Drops(o) \cup Frees(o) \cup Uses(o) \cup FirstFree(o) : i \in DOMAIN log
  <2>1. \A i \in FirstFree(o) : i \in Frees(o)
    BY <1>i DEF ObjectInTrace
  <2>2. QED BY <2>1 DEF Drops, Frees, Uses
<1>6. CASE ~FreeLogged(o)
  <2>1. Frees(o)' = Frees(o) /\ FirstFree(o)' = FirstFree(o)
    BY <1>3, <1>4, <1>6 DEF FirstFree
  <2>2. QED BY <2>1, <1>3, <1>4, <1>5, <1>6
<1>7. CASE FreeLogged(o) /\ objects[o].life = "freed"
  <2>1. objects' = objects
    BY <1>7 DEF FreeLogged
  <2>2. FirstFree(o) = {objects[o].free} /\ FirstFree(o)' = {objects[o].free}
    BY <1>7, <2>1, <1>i DEF ObjectInTrace
  <2>3. QED BY <2>2, <1>3, <1>4, <1>5, <1>7
<1>8. CASE FreeLogged(o) /\ objects[o].life # "freed"
  <2>1. objects' = [objects EXCEPT ![o].life = "freed", ![o].end = now, ![o].free = now]
    BY <1>8 DEF FreeLogged
  <2>2. objects'[o].life = "freed" /\ objects'[o].free = now
    BY <2>1, <1>i DEF ObjectState
  <2>3. Frees(o) = {} /\ FirstFree(o) = {} /\ FirstFree(o)' = {now}
    BY <1>8, <2>2, <1>i DEF ObjectInTrace
  <2>4. QED BY <2>3, <1>3, <1>4, <1>5, <1>8
<1>9. QED BY <1>6, <1>7, <1>8

\* What ended an object before an event of the past does not change; what ended
\* it before the new event is the recorded end.
LEMMA EndOfKept ==
    ASSUME TypeOK, LogTyped, LoggedStep, TablesInTrace, TablesInTrace', NEW o \in Objects, NEW i \in DOMAIN log
    PROVE  EndOf(o, i)' = EndOf(o, i)
<1>1. now \in Nat /\ \A j \in DOMAIN log : j \in Nat /\ j < now
  BY LogPast
<1>2. {j \in FirstFree(o)' : j < i} = {j \in FirstFree(o) : j < i}
  BY <1>1, ObjectEventsGrow
<1>3. {j \in Drops(o)' : j < i} = {j \in Drops(o) : j < i}
  BY <1>1, ObjectEventsGrow
<1>4. QED BY <1>2, <1>3 DEF EndOf

\* The end before a use that happens now is the recorded end.
LEMMA EndOfNow ==
    ASSUME TypeOK, LogTyped, LoggedStep, TablesInTrace, TablesInTrace', NEW o \in Objects, UseLogged(o),
           NEW n, n = now
    PROVE  EndOf(o, n)' = IF objects[o].life \in {"ended", "freed"} THEN {objects[o].end} ELSE {}
<1>1. now \in Nat /\ \A j \in DOMAIN log : j \in Nat /\ j < now
  BY LogPast
<1>2. FirstFree(o)' = FirstFree(o) /\ Drops(o)' = Drops(o)
  <2>1. \A k, x, d, y, z, w : Adds(k, x, d) /\ Adds(y, z, w) => k = y
    BY DEF Adds, Event
  <2>2. ~FreeLogged(o)
    BY <2>1 DEF UseLogged, FreeLogged
  <2>3. Drops(o)' = Drops(o)
    BY ObjectSetsGrow DEF UseLogged
  <2>4. QED BY <2>2, <2>3, ObjectEventsGrow
<1>3. {j \in FirstFree(o)' : j < n} = FirstFree(o) /\ {j \in Drops(o)' : j < n} = Drops(o)
  BY <1>1, <1>2, ObjectEventsGrow
<1>4. EndOf(o, n)' = IF FirstFree(o) # {} THEN FirstFree(o) ELSE {Min(S) : S \in {Drops(o)} \ {{}}}
  BY <1>3 DEF EndOf
<1>i. ObjectInTrace(o) /\ objects[o] \in ObjectState
  BY DEF TablesInTrace, TypeOK
<1>5. CASE objects[o].life = "freed"
  BY <1>4, <1>5, <1>i DEF ObjectInTrace
<1>6. CASE objects[o].life = "ended"
  <2>1. FirstFree(o) = {}
    BY <1>6, <1>i DEF ObjectInTrace
  <2>2. Drops(o) \in SUBSET Nat
    BY <1>1, ObjectEventsGrow
  <2>3. {Min(S) : S \in {Drops(o)} \ {{}}} = {objects[o].end}
    BY <1>6, <1>i, <2>2, LeastIsMin DEF ObjectInTrace
  <2>4. QED BY <1>4, <1>6, <2>1, <2>3
<1>7. CASE objects[o].life \in {"absent", "live"}
  <2>1. FirstFree(o) = {} /\ Drops(o) = {}
    BY <1>7, <1>i DEF ObjectInTrace
  <2>2. QED BY <1>4, <1>7, <2>1
<1>8. QED BY <1>5, <1>6, <1>7, <1>i DEF ObjectState

\* A finding of a use, now, of an ended object.
NewUse(f) ==
    \E o \in Objects :
        /\ UseLogged(o) /\ objects[o].life \in {"ended", "freed"}
        /\ f = ExpectedFinding("LIFE-001", o, NoCallback, 0, 0, objects[o].end, now)

\* An event adds to the uses after an end at most the use that it is.
LEMMA UsesGrow ==
    ASSUME TypeOK, LogTyped, LogTyped', TablesInTrace, TablesInTrace', LoggedStep, NEW f
    PROVE  f \in UsesAfterEnd' <=> f \in UsesAfterEnd \/ NewUse(f)
<1>n. PICK n : n = now
  OBVIOUS
<1>l. now \in Nat /\ now \notin DOMAIN log /\ (\A j \in DOMAIN log : j \in Nat /\ j < now)
      /\ DOMAIN log' = DOMAIN log \cup {now}
  <2>1. now \in Nat /\ \A j \in DOMAIN log : j \in Nat /\ j < now
    BY LogPast
  <2>2. DOMAIN log' = DOMAIN log \cup {now}
    BY EventOf DEF Adds
  <2>3. QED BY <2>1, <2>2
<1> DEFINE At(o, e, i) == f = ExpectedFinding("LIFE-001", o, NoCallback, 0, 0, e, i)
           Used(o) == \E i \in Uses(o) : \E e \in EndOf(o, i) : e \in DOMAIN log /\ At(o, e, i)
           UsedNext(o) == \E i \in Uses(o)' : \E e \in EndOf(o, i)' : e \in DOMAIN log' /\ At(o, e, i)
           New(o) == /\ UseLogged(o) /\ objects[o].life \in {"ended", "freed"}
                     /\ At(o, objects[o].end, now)
<1>1. f \in UsesAfterEnd <=> \E o \in Objects : Used(o)
  <2>1. ASSUME NEW o \in Objects
        PROVE  Used(o) <=> \E z \in {y \in (DOMAIN log) \X Uses(o) : y[1] \in EndOf(o, y[2])} : At(o, z[1], z[2])
    <3> HIDE DEF At
    <3>1. \A e \in DOMAIN log, i \in Uses(o) :
              <<e, i>> \in (DOMAIN log) \X Uses(o) /\ <<e, i>>[1] = e /\ <<e, i>>[2] = i
      OBVIOUS
    <3>2. \A z \in (DOMAIN log) \X Uses(o) : z[1] \in DOMAIN log /\ z[2] \in Uses(o)
      OBVIOUS
    <3>3. QED BY <3>1, <3>2
  <2>2. QED BY <2>1 DEF UsesAfterEnd
<1>2. f \in UsesAfterEnd' <=> \E o \in Objects : UsedNext(o)
  <2>1. ASSUME NEW o \in Objects
        PROVE  UsedNext(o) <=> \E z \in {y \in (DOMAIN log') \X Uses(o)' : y[1] \in EndOf(o, y[2])'} : At(o, z[1], z[2])
    <3> HIDE DEF At
    <3>1. \A e \in DOMAIN log', i \in Uses(o)' :
              <<e, i>> \in (DOMAIN log') \X Uses(o)' /\ <<e, i>>[1] = e /\ <<e, i>>[2] = i
      OBVIOUS
    <3>2. \A z \in (DOMAIN log') \X Uses(o)' : z[1] \in DOMAIN log' /\ z[2] \in Uses(o)'
      OBVIOUS
    <3>3. QED BY <3>1, <3>2
  <2>2. QED BY <2>1 DEF UsesAfterEnd
<1>3. ASSUME NEW o \in Objects PROVE UsedNext(o) <=> Used(o) \/ New(o)
  <2>1. \A i \in Uses(o) : i \in DOMAIN log
    BY ObjectEventsGrow
  <2>2. \A i \in Uses(o) : EndOf(o, i)' = EndOf(o, i)
    BY <2>1, EndOfKept
  <2>3. ASSUME NEW i \in Uses(o), NEW e \in EndOf(o, i), e = now PROVE FALSE
    <3>1. i \in Nat /\ i < now
      BY <2>1, <1>l
    <3>2. e \in FirstFree(o) \/ e \in {Min(S) : S \in {{j \in Drops(o) : j < i}} \ {{}}}
      BY <2>3 DEF EndOf
    <3>3. CASE e \in FirstFree(o)
      BY <3>3, <2>3, <1>l, ObjectEventsGrow
    <3>4. CASE e \in {Min(S) : S \in {{j \in Drops(o) : j < i}} \ {{}}}
      <4>1. PICK S \in {{j \in Drops(o) : j < i}} \ {{}} : e = Min(S)
        BY <3>4
      <4>2. S \in SUBSET DOMAIN log /\ S # {}
        BY <4>1, ObjectEventsGrow
      <4>3. PICK m \in S : \A j \in S : m <= j
        <5>1. S \in SUBSET Nat /\ S # {}
          BY <4>2, <1>l
        <5>2. QED BY <5>1, LeastNat
      <4>4. e = m
        BY <4>1, <4>2, <4>3, <1>l, LeastIsMin
      <4>5. QED BY <4>2, <4>3, <4>4, <2>3, <1>l
    <3>5. QED BY <3>2, <3>3, <3>4
  <2>4. CASE ~UseLogged(o)
    <3>1. Uses(o)' = Uses(o)
      BY <2>4, ObjectEventsGrow
    <3>2. QED BY <3>1, <2>2, <2>3, <2>4, <1>l
  <2>5. CASE UseLogged(o)
    <3>1. Uses(o)' = Uses(o) \cup {n}
      BY <2>5, <1>n, ObjectEventsGrow
    <3>2. EndOf(o, n)' = IF objects[o].life \in {"ended", "freed"} THEN {objects[o].end} ELSE {}
      BY <2>5, <1>n, EndOfNow
    <3>3. objects[o].life \in {"ended", "freed"} => objects[o].end \in DOMAIN log
      BY ObjectEventsGrow DEF TablesInTrace, ObjectInTrace
    <3>4. QED BY <3>1, <3>2, <3>3, <2>2, <2>3, <2>5, <1>l, <1>n
  <2>6. QED BY <2>4, <2>5
<1>4. NewUse(f) <=> \E o \in Objects : New(o)
  BY DEF NewUse
<1> HIDE DEF Used, UsedNext, New
<1>5. QED BY <1>1, <1>2, <1>3, <1>4

\* A finding of a free, now, of a freed object.
NewRefree(f) ==
    \E o \in Objects :
        /\ FreeLogged(o) /\ objects[o].life = "freed"
        /\ f = ExpectedFinding("FREE-001", o, NoCallback, 0, 0, objects[o].free, now)

\* An event adds to the repeated frees at most the free that it is.
LEMMA RefreesGrow ==
    ASSUME TypeOK, LogTyped, TablesInTrace, TablesInTrace', LoggedStep, NEW f
    PROVE  f \in RepeatedFrees' <=> f \in RepeatedFrees \/ NewRefree(f)
<1>l. now \notin DOMAIN log
  BY LogPast
<1> DEFINE At(o, e, i) == f = ExpectedFinding("FREE-001", o, NoCallback, 0, 0, e, i)
           Freed(o) == \E e \in FirstFree(o), i \in Frees(o) \ FirstFree(o) : At(o, e, i)
           FreedNext(o) == \E e \in FirstFree(o)', i \in Frees(o)' \ FirstFree(o)' : At(o, e, i)
           New(o) == FreeLogged(o) /\ objects[o].life = "freed" /\ At(o, objects[o].free, now)
<1>1. f \in RepeatedFrees <=> \E o \in Objects : Freed(o)
  <2>1. ASSUME NEW o \in Objects
        PROVE  Freed(o) <=> \E z \in FirstFree(o) \X (Frees(o) \ FirstFree(o)) : At(o, z[1], z[2])
    <3> HIDE DEF At
    <3>1. \A e \in FirstFree(o), i \in Frees(o) \ FirstFree(o) :
              /\ <<e, i>> \in FirstFree(o) \X (Frees(o) \ FirstFree(o))
              /\ <<e, i>>[1] = e /\ <<e, i>>[2] = i
      OBVIOUS
    <3>2. \A z \in FirstFree(o) \X (Frees(o) \ FirstFree(o)) : z[1] \in FirstFree(o) /\ z[2] \in Frees(o) \ FirstFree(o)
      OBVIOUS
    <3>3. ASSUME Freed(o) PROVE \E z \in FirstFree(o) \X (Frees(o) \ FirstFree(o)) : At(o, z[1], z[2])
      <4>1. PICK e \in FirstFree(o), i \in Frees(o) \ FirstFree(o) : At(o, e, i)
        BY <3>3
      <4> DEFINE q == <<e, i>>
      <4>2. q \in FirstFree(o) \X (Frees(o) \ FirstFree(o)) /\ q[1] = e /\ q[2] = i
        BY <3>1
      <4> HIDE DEF q
      <4>3. At(o, q[1], q[2])
        BY <4>1, <4>2
      <4>4. QED BY <4>2, <4>3
    <3>4. ASSUME NEW z \in FirstFree(o) \X (Frees(o) \ FirstFree(o)), At(o, z[1], z[2]) PROVE Freed(o)
      BY <3>2, <3>4
    <3>5. QED BY <3>3, <3>4
  <2>2. QED BY <2>1 DEF RepeatedFrees
<1>2. f \in RepeatedFrees' <=> \E o \in Objects : FreedNext(o)
  <2>1. ASSUME NEW o \in Objects
        PROVE  FreedNext(o) <=> \E z \in FirstFree(o)' \X (Frees(o)' \ FirstFree(o)') : At(o, z[1], z[2])
    <3> HIDE DEF At
    <3>1. \A e \in FirstFree(o)', i \in Frees(o)' \ FirstFree(o)' :
              /\ <<e, i>> \in FirstFree(o)' \X (Frees(o)' \ FirstFree(o)')
              /\ <<e, i>>[1] = e /\ <<e, i>>[2] = i
      OBVIOUS
    <3>2. \A z \in FirstFree(o)' \X (Frees(o)' \ FirstFree(o)') :
              z[1] \in FirstFree(o)' /\ z[2] \in Frees(o)' \ FirstFree(o)'
      OBVIOUS
    <3>3. ASSUME FreedNext(o) PROVE \E z \in FirstFree(o)' \X (Frees(o)' \ FirstFree(o)') : At(o, z[1], z[2])
      <4>1. PICK e \in FirstFree(o)', i \in Frees(o)' \ FirstFree(o)' : At(o, e, i)
        BY <3>3
      <4> DEFINE q == <<e, i>>
      <4>2. q \in FirstFree(o)' \X (Frees(o)' \ FirstFree(o)') /\ q[1] = e /\ q[2] = i
        BY <3>1
      <4> HIDE DEF q
      <4>3. At(o, q[1], q[2])
        BY <4>1, <4>2
      <4>4. QED BY <4>2, <4>3
    <3>4. ASSUME NEW z \in FirstFree(o)' \X (Frees(o)' \ FirstFree(o)'), At(o, z[1], z[2]) PROVE FreedNext(o)
      BY <3>2, <3>4
    <3>5. QED BY <3>3, <3>4
  <2>2. QED BY <2>1 DEF RepeatedFrees
<1>3. ASSUME NEW o \in Objects PROVE FreedNext(o) <=> Freed(o) \/ New(o)
  <2>1. \A i \in Frees(o) \cup FirstFree(o) : i # now
    BY <1>l, ObjectEventsGrow
  <2>2. CASE Frees(o)' = Frees(o) /\ FirstFree(o)' = FirstFree(o) /\ ~FreeLogged(o)
    BY <2>2
  <2>3. CASE /\ Frees(o)' = Frees(o) \cup {now} /\ FreeLogged(o) /\ objects[o].life = "freed"
             /\ FirstFree(o) = {objects[o].free} /\ FirstFree(o)' = {objects[o].free}
    BY <2>1, <2>3
  <2>4. CASE /\ Frees(o) = {} /\ Frees(o)' = {now} /\ objects[o].life # "freed"
             /\ FirstFree(o) = {} /\ FirstFree(o)' = {now}
    BY <2>4
  <2>5. QED BY <2>2, <2>3, <2>4, ObjectEventsGrow
<1>4. NewRefree(f) <=> \E o \in Objects : New(o)
  BY DEF NewRefree
<1> HIDE DEF Freed, FreedNext, New
<1>5. QED BY <1>1, <1>2, <1>3, <1>4

-----------------------------------------------------------------------------
(* The findings are those of the trace. *)

\* Where an object exists, the trace is one of the build of the facts.
LEMMA BuildIsStatic ==
    ASSUME Complete, ContextKept, InContext, NEW o \in Objects
    PROVE  build = StaticBuild
BY StaticBuildAssumption DEF Complete, ContextKept

\* The oracle reports of an event exactly what it adds to the trace's findings.
LEMMA FindingsGrow ==
    ASSUME TypeOK, TypeOK', RecordsOrdered, LogTyped, Complete, ContextKept, LoggedStep, NEW f
    PROVE  f \in findings' <=>
               f \in findings \/ NewExposure(f) \/ NewDangling(f) \/ NewUse(f) \/ NewRefree(f)
<1>1. PICK k, x, d : /\ Adds(k, x, d)
                     /\ k = "invoke" <=> \E c \in Callbacks : InvokeLogged(c)
                     /\ k = "use" <=> \E y \in Objects : UseLogged(y)
                     /\ k = "drop" <=> \E y \in Objects : DropLogged(y)
                     /\ k = "free" <=> \E y \in Objects : FreeLogged(y)
  BY EventOf
<1>a. \A a, b, c : Adds(a, b, c) => a = k /\ b = x /\ c = d
  BY <1>1 DEF Adds, Event
<1>2. /\ NewUse(f) => k = "use"
      /\ NewDangling(f) => k = "invoke"
      /\ NewRefree(f) => k = "free"
  BY <1>1 DEF NewUse, NewDangling, NewRefree
<1>3. NewExposure(f) => captures' # captures /\ k \in {"drop", "free"}
  <2> SUFFICES ASSUME NewExposure(f) PROVE captures' # captures /\ k \in {"drop", "free"}
    OBVIOUS
  <2>1. PICK c \in Callbacks, o \in Objects : captures[c][o].life = "active" /\ captures'[c][o].life = "ended"
    BY DEF NewExposure
  <2>2. ASSUME NEW e \in Callbacks, NEW w \in Objects, BindLogged(e, w) PROVE FALSE
    <3>1. captures' = [captures EXCEPT ![e] = [captures[e] EXCEPT ![w] =
              [life |-> "active", mode |-> CaptureFact[e][w], bind |-> now, end |-> 0]]]
      BY <2>2 DEF BindLogged
    <3>2. captures'[c][o] \in {captures[c][o], [life |-> "active", mode |-> CaptureFact[e][w], bind |-> now, end |-> 0]}
      BY <3>1 DEF TypeOK
    <3>3. QED BY <2>1, <3>2
  <2>3. captures' # captures
    BY <2>1
  <2>4. QED
    BY <1>1, <2>2, <2>3 DEF LoggedStep, MarkLogged, CreateLogged, RegisterLogged, UnregisterLogged,
       InvokeLogged, UseLogged
\* The end of a borrow: its candidates are the new exposures.
<1>4. ASSUME NEW o \in Objects, EndBorrowed(o), build = StaticBuild
      PROVE  f \in EndCandidates(o) <=> NewExposure(f)
  <2>1. ASSUME NEW c \in Callbacks, NEW y \in Objects,
               captures[c][y].life = "active", captures'[c][y].life = "ended"
        PROVE  y = o /\ captures'[c][y].mode = "borrowed"
    BY <1>4, <2>1, EndBorrowedEffect
  <2>2. f \in EndCandidates(o) <=> \E c \in Exposed(o) :
            f = ExpectedFinding("LIFE-003", o, c, captures'[c][o].bind, callbacks'[c].register, now, now)
    BY <1>4 DEF EndCandidates, FindingOf, ExpectedFinding
  <2>3. \A c : c \in Exposed(o) <=> /\ c \in Callbacks /\ captures'[c][o].mode = "borrowed"
                                    /\ captures'[c][o].life = "ended" /\ callbacks'[c].life = "retained"
                                    /\ captures[c][o].life = "active"
    BY DEF Exposed
  <2>4. QED BY <2>1, <2>2, <2>3 DEF NewExposure
<1>5. ASSUME NEW o \in Objects, captures' = captures PROVE EndCandidates(o) = {} /\ ~NewExposure(f)
  BY <1>5 DEF EndCandidates, Exposed, NewExposure
<1>6. CASE k \notin {"invoke", "use", "drop", "free"}
  <2>1. findings' = findings
    BY <1>1, <1>6 DEF LoggedStep, MarkLogged, CreateLogged, RegisterLogged, BindLogged, UnregisterLogged
  <2>2. QED BY <2>1, <1>2, <1>3, <1>6
<1>7. ASSUME NEW c \in Callbacks, InvokeLogged(c)
      PROVE  f \in findings' <=> f \in findings \/ NewExposure(f) \/ NewDangling(f) \/ NewUse(f) \/ NewRefree(f)
  <2>1. k = "invoke" /\ \A e \in Callbacks : InvokeLogged(e) => e = c
    BY <1>7, <1>a DEF InvokeLogged
  <2>2. findings' = findings \cup InvokeCandidates(c) /\ InContext
    BY <1>7 DEF InvokeLogged
  <2>3. f \in InvokeCandidates(c) <=> NewDangling(f)
    <3>1. f \in InvokeCandidates(c) <=> \E o \in Dangling(c) :
              f = FindingOf("LIFE-002", o, c, captures[c][o].bind, 0, captures[c][o].end)
      BY DEF InvokeCandidates
    <3>2. \A o \in Dangling(c) : build = StaticBuild
      BY <2>2, BuildIsStatic DEF Dangling
    <3>3. QED BY <3>1, <3>2, <1>7, <2>1 DEF NewDangling, FindingOf, ExpectedFinding
  <2>4. QED BY <2>1, <2>2, <2>3, <1>2, <1>3
<1>8. ASSUME NEW o \in Objects, UseLogged(o)
      PROVE  f \in findings' <=> f \in findings \/ NewExposure(f) \/ NewDangling(f) \/ NewUse(f) \/ NewRefree(f)
  <2>1. k = "use" /\ \A y \in Objects : UseLogged(y) => y = o
    BY <1>8, <1>a DEF UseLogged
  <2>2. findings' = findings \cup UseCandidates(o) /\ InContext /\ objects[o].life \in {"live", "ended", "freed"}
    BY <1>8 DEF UseLogged, Exists, TypeOK, ObjectState
  <2>3. f \in UseCandidates(o) <=> NewUse(f)
    <3>1. build = StaticBuild
      BY <2>2, BuildIsStatic
    <3>2. QED BY <3>1, <1>8, <2>1, <2>2 DEF NewUse, UseCandidates, FindingOf, ExpectedFinding
  <2>4. QED BY <2>1, <2>2, <2>3, <1>2, <1>3
<1>9. ASSUME NEW o \in Objects, DropLogged(o)
      PROVE  f \in findings' <=> f \in findings \/ NewExposure(f) \/ NewDangling(f) \/ NewUse(f) \/ NewRefree(f)
  <2>1. k = "drop"
    BY <1>9, <1>a DEF DropLogged
  <2>2. findings' = findings \cup EndCandidates(o) /\ InContext /\ EndBorrowed(o)
    BY <1>9 DEF DropLogged
  <2>3. f \in EndCandidates(o) <=> NewExposure(f)
    BY <2>2, <1>4, BuildIsStatic
  <2>4. QED BY <2>1, <2>2, <2>3, <1>2
<1>10. ASSUME NEW o \in Objects, FreeLogged(o)
       PROVE  f \in findings' <=> f \in findings \/ NewExposure(f) \/ NewDangling(f) \/ NewUse(f) \/ NewRefree(f)
  <2>0. \A y \in Objects : FreeLogged(y) => Adds("free", y, NoCallback)
    BY DEF FreeLogged
  <2>1. k = "free" /\ \A y \in Objects : FreeLogged(y) => y = o
    BY <2>0, <1>10, <1>a
  <2>2. findings' = findings \cup EndCandidates(o) \cup RefreeCandidates(o) /\ InContext
    BY <1>10 DEF FreeLogged
  <2>3. f \in EndCandidates(o) <=> NewExposure(f)
    <3>1. CASE objects[o].life = "freed"
      BY <3>1, <1>10, <1>5 DEF FreeLogged
    <3>2. CASE objects[o].life # "freed"
      BY <3>2, <2>2, <1>4, <1>10, BuildIsStatic DEF FreeLogged
    <3>3. QED BY <3>1, <3>2
  <2>4. f \in RefreeCandidates(o) <=> NewRefree(f)
    <3>1. build = StaticBuild
      BY <2>2, BuildIsStatic
    <3>2. QED BY <3>1, <1>10, <2>1 DEF NewRefree, RefreeCandidates, FindingOf, ExpectedFinding
  <2>5. QED BY <2>1, <2>2, <2>3, <2>4, <1>2
<1>11. QED BY <1>1, <1>6, <1>7, <1>8, <1>9, <1>10

\* The run context keeps naming the build of the facts.
LEMMA ContextStep == TypeOK /\ ContextKept /\ [Next]_vars => ContextKept'
<1> SUFFICES ASSUME TypeOK, ContextKept, [Next]_vars PROVE ContextKept'
  OBVIOUS
<1>1. Rejected => run' = run /\ build' = build
  BY DEF Rejected, vars
<1>2. ASSUME run' = run, build' = build PROVE ContextKept'
  BY <1>2 DEF ContextKept, InContext
<1>3. ASSUME NEW r \in Runs, NEW b \in Builds, TraceStart(r, b) PROVE ContextKept'
  <2>1. CASE Rejected
    BY <2>1, <1>1, <1>2
  <2>2. CASE ~(StaticBuild # NoBuild /\ b # StaticBuild) /\ build' = b
    BY <2>2 DEF ContextKept
  <2>3. QED BY <1>3, <2>1, <2>2 DEF TraceStart
<1>4. ASSUME NEW o \in Objects, ObjectCreate(o) \/ ObjectUse(o) \/ ObjectDrop(o) \/ ObjectFree(o)
      PROVE  run' = run /\ build' = build
  BY <1>4, <1>1 DEF ObjectCreate, ObjectUse, ObjectDrop, ObjectFree
<1>5. ASSUME NEW c \in Callbacks, NEW api \in Apis, NEW w \in Objects,
             CallbackRegister(c, w, api) \/ CallbackUnregister(c, w, api)
      PROVE  run' = run /\ build' = build
  BY <1>5, <1>1 DEF CallbackRegister, CallbackUnregister
<1>6. ASSUME NEW c \in Callbacks, NEW o \in Objects, CaptureBind(c, o)
      PROVE  run' = run /\ build' = build
  BY <1>6, <1>1 DEF CaptureBind
<1>7. ASSUME NEW c \in Callbacks, NEW api \in Apis, CallbackInvoke(c, api)
      PROVE  run' = run /\ build' = build
  BY <1>7, <1>1 DEF CallbackInvoke
<1>8. ASSUME Marker \/ (\E r \in Runs : OutOfContext(r)) \/ vars' = vars
      PROVE  run' = run /\ build' = build
  BY <1>8, <1>1 DEF OutOfContext, Marker, vars
<1>9. CASE \E r \in Runs, b \in Builds : TraceStart(r, b)
  BY <1>9, <1>3
<1>10. CASE ~\E r \in Runs, b \in Builds : TraceStart(r, b)
  <2>1. run' = run /\ build' = build
    <3>1. CASE \E o \in Objects : ObjectCreate(o) \/ ObjectUse(o) \/ ObjectDrop(o) \/ ObjectFree(o)
      BY <3>1, <1>4
    <3>2. CASE \E c \in Callbacks, w \in Objects, api \in Apis :
                   CallbackRegister(c, w, api) \/ CallbackUnregister(c, w, api)
      BY <3>2, <1>5
    <3>3. CASE \E c \in Callbacks, api \in Apis : CallbackInvoke(c, api)
      BY <3>3, <1>7
    <3>4. CASE \E c \in Callbacks, o \in Objects : CaptureBind(c, o)
      BY <3>4, <1>6
    <3>5. QED BY <3>1, <3>2, <3>3, <3>4, <1>10, <1>8 DEF Next
  <2>2. QED BY <2>1, <1>2
<1>11. QED BY <1>9, <1>10

\* Every logged step is a step of the oracle.
LEMMA LoggedIsOracle == LogNext => Next
BY DEF LogNext, Next

\* The induction step: the tables stay those of the trace, so the findings do.
LEMMA TraceStep ==
    ASSUME Complete, TypeOK, TypeOK', RecordsOrdered, RecordsOrdered', TraceInv, FindingsMatchTrace,
           [LogNext]_logVars
    PROVE  TraceInv' /\ FindingsMatchTrace'
<1>u. CASE UNCHANGED logVars
  <2>1. TraceInv'
    <3>1. LogTyped' /\ ContextKept'
      BY <1>u DEF TraceInv, LogTyped, ContextKept, InContext, logVars, vars
    <3>2. TablesInTrace'
      BY <1>u DEF TraceInv, TablesInTrace, ObjectInTrace, CaptureInTrace, CallbackInTrace, Drops, Frees, FirstFree,
         Binds, BorrowEnds, Registers, Unregisters, Releases, Is, logVars, vars
    <3>3. QED BY <3>1, <3>2 DEF TraceInv
  <2>2. FindingsMatchTrace'
    BY <1>u DEF FindingsMatchTrace, Expected, Exposures, DanglingInvokes, UsesAfterEnd, RepeatedFrees,
       EndedBorrows, EndOf, Drops, Frees, Uses, Invokes, FirstFree, Binds, BorrowEnds, Registers, Releases, Is,
       logVars, vars
  <2>3. QED BY <2>1, <2>2
<1>l. CASE LoggedStep /\ LogTyped' /\ LogNext
  <2>1. TypeOK /\ LogTyped /\ TablesInTrace /\ ContextKept
    BY DEF TraceInv
  <2>2. ContextKept'
    BY <1>l, <2>1, ContextStep, LoggedIsOracle
  <2>3. \A o \in Objects : ObjectInTrace(o)'
    BY <1>l, <2>1, ObjectTraceStep DEF TablesInTrace, RecordsOrdered
  <2>4. \A c \in Callbacks, o \in Objects : CaptureInTrace(c, o)'
    BY <1>l, <2>1, <2>3, CaptureTraceStep DEF TablesInTrace, RecordsOrdered
  <2>5. \A c \in Callbacks : CallbackInTrace(c)'
    BY <1>l, <2>1, CallbackTraceStep DEF TablesInTrace, RecordsOrdered
  <2>6. TablesInTrace'
    BY <2>3, <2>4, <2>5 DEF TablesInTrace
  <2>7. ASSUME NEW f PROVE f \in findings' <=> f \in Expected'
    <3>1. f \in findings <=> f \in Exposures \/ f \in DanglingInvokes \/ f \in UsesAfterEnd \/ f \in RepeatedFrees
      BY DEF FindingsMatchTrace, Expected
    <3>2. f \in Expected' <=>
              f \in Exposures' \/ f \in DanglingInvokes' \/ f \in UsesAfterEnd' \/ f \in RepeatedFrees'
      BY DEF Expected
    <3>3. f \in findings' <=>
              f \in findings \/ NewExposure(f) \/ NewDangling(f) \/ NewUse(f) \/ NewRefree(f)
      BY <1>l, <2>1, FindingsGrow
    <3>4. f \in Exposures' <=> f \in Exposures \/ NewExposure(f)
      BY <1>l, <2>1, <2>6, ExposuresGrow
    <3>5. f \in DanglingInvokes' <=> f \in DanglingInvokes \/ NewDangling(f)
      BY <1>l, <2>1, <2>6, DanglingGrow
    <3>6. f \in UsesAfterEnd' <=> f \in UsesAfterEnd \/ NewUse(f)
      BY <1>l, <2>1, <2>6, UsesGrow
    <3>7. f \in RepeatedFrees' <=> f \in RepeatedFrees \/ NewRefree(f)
      BY <1>l, <2>1, <2>6, RefreesGrow
    <3>8. QED BY <3>1, <3>2, <3>3, <3>4, <3>5, <3>6, <3>7
  <2>8. FindingsMatchTrace'
    <3>1. findings' = Expected'
      BY <2>7
    <3>2. QED BY <3>1 DEF FindingsMatchTrace
  <2>9. QED BY <1>l, <2>2, <2>6, <2>8 DEF TraceInv
<1>q. QED BY <1>u, <1>l, LoggedSteps DEF TraceInv

\* What the tables know of the trace they go on knowing, and the findings with it.
LEMMA TraceIsKept ==
    ASSUME Complete
    PROVE  LogSpec => [](TypeOK /\ RecordsOrdered /\ TraceInv /\ FindingsMatchTrace)
<1>1. LogInit => TraceInv /\ FindingsMatchTrace
  <2> SUFFICES ASSUME LogInit PROVE TraceInv /\ FindingsMatchTrace
    OBVIOUS
  <2>0. log = <<>> /\ DOMAIN log = {} /\ clock = 0 /\ run = NoRun /\ findings = {}
    BY DEF LogInit, Init
  <2>1. LogTyped /\ ContextKept
    BY <2>0 DEF LogTyped, ContextKept, InContext
  <2>2. /\ \A o : Drops(o) = {} /\ Frees(o) = {} /\ Uses(o) = {}
        /\ \A c : Registers(c) = {} /\ Unregisters(c) = {} /\ Invokes(c) = {}
        /\ \A c, o : Binds(c, o) = {}
    BY <2>0 DEF Drops, Frees, Uses, Registers, Unregisters, Invokes, Binds
  <2>3. \A o : FirstFree(o) = {}
    BY <2>2 DEF FirstFree
  <2>4. TablesInTrace
    BY <2>2, <2>3 DEF TablesInTrace, ObjectInTrace, CaptureInTrace, CallbackInTrace, LogInit, Init,
       NoObject, NoCapture, NoEntry
  <2>5. \A c, o : EndedBorrows(c, o) = {}
    BY <2>2 DEF EndedBorrows
  <2>6. Exposures = {} /\ DanglingInvokes = {} /\ UsesAfterEnd = {} /\ RepeatedFrees = {}
    BY <2>2, <2>3, <2>5 DEF Exposures, DanglingInvokes, UsesAfterEnd, RepeatedFrees
  <2>7. QED BY <2>0, <2>1, <2>4, <2>6 DEF TraceInv, FindingsMatchTrace, Expected
<1>2. LogSpec => Spec
  <2>1. LogInit => Init
    BY DEF LogInit
  <2>2. [LogNext]_logVars => [Next]_vars
    BY LoggedIsOracle DEF logVars
  <2>3. QED BY <2>1, <2>2, PTL DEF LogSpec, Spec
<1>3. TypeOK /\ TypeOK' /\ RecordsOrdered /\ RecordsOrdered' /\ TraceInv /\ FindingsMatchTrace /\ [LogNext]_logVars
      => TraceInv' /\ FindingsMatchTrace'
  BY TraceStep
<1>4. QED
  BY <1>1, <1>2, <1>3, TypeCorrect, RecordsCorrect, PTL DEF LogSpec

\* Under a complete contract and complete object facts the findings are the
\* ones that a reading of the whole trace gives, for every trace: the four
\* tables forget nothing that a rule needs.
THEOREM FindingsAreOfTheTrace ==
    ASSUME Complete
    PROVE  LogSpec => []FindingsMatchTrace
BY TraceIsKept, PTL

-----------------------------------------------------------------------------
(* The structural validator and the oracle take the same view of an event.  *)

\* The hypothesis of the comparison: the contract is complete and gives every
\* api its roles, every capture and every object has its fact, and the events
\* carry the build of the facts.
AllGiven ==
    /\ Complete
    /\ \A a \in Apis : ApiRoles[a] = Roles
    /\ \A c \in Callbacks, o \in Objects : CaptureFact[c][o] \in Modes
    /\ \A b \in Builds : StaticBuild = NoBuild \/ b = StaticBuild

Creates(o) == {i \in DOMAIN log : log[i].kind = "create" /\ log[i].object = o}

\* The validator's reasons to refuse an event that the oracle has too, in terms
\* of the trace.
Acceptable(e) ==
    /\ e.kind = "create" => Creates(e.object) = {}
    /\ e.kind \in {"register", "bind", "use", "drop", "free"} => Creates(e.object) # {}
    /\ e.kind = "register" => e.object \in Owners /\ Registers(e.callback) = {}
    /\ e.kind \in {"bind", "unregister", "invoke"} => Registers(e.callback) # {}
    /\ e.kind = "unregister" => \A i \in Registers(e.callback) : log[i].object = e.object

\* A trace_end is a marker of the log.
EndIsMarker == validator = "ended" => log # <<>> /\ log[clock].kind = "marker"

Stream(record) == Append([i \in DOMAIN log |-> Accepted(i)], record)

\* The records the validator has read are those of the log.
LEMMA StreamRead ==
    ASSUME TypeOK, LogTyped, NEW record
    PROVE  /\ \A i \in 1..clock : Stream(record)[i] = Accepted(i)
           /\ Stream(record)[now] = record
<1> DEFINE s == [i \in DOMAIN log |-> Accepted(i)]
           R == {Accepted(i) : i \in 1..clock} \cup {record}
<1>1. clock \in Nat /\ now = clock + 1 /\ DOMAIN log = 1..clock
  BY LogPast DEF LogTyped
<1>2. \A i \in 1..clock : s[i] = Accepted(i) /\ s[i] \in R
  BY <1>1
<1>3. DOMAIN s = 1..clock
  BY <1>1
<1>4. record \in R
  OBVIOUS
<1>5. Stream(record) = Append(s, record)
  BY DEF Stream
<1>6. s \in [1..clock -> R]
  BY <1>2, <1>3
<1> HIDE DEF s, R
<1>7. s \in Seq(R) /\ Len(s) = clock
  BY <1>1, <1>3, <1>6
<1>8. QED BY <1>1, <1>2, <1>3, <1>4, <1>5, <1>7

\* What is right of a record whatever else is wrong with it.
LEMMA VariantRead ==
    ASSUME NEW e \in LogEvent, NEW r, NEW record \in Variants(e, r)
    PROVE  /\ record.run = r /\ record.trace = "trace" /\ record.build = StaticBuild
           /\ record.object = e.object /\ record.callback = e.callback
           /\ (record.kind = e.kind \/ (e.kind = "marker" /\ record.kind = "end"))
           /\ record.kind = "end" => e.kind = "marker"
<1> DEFINE right == Record(e, now, r)
           general == {right, [right EXCEPT !.record = 1], [right EXCEPT !.seq = IF now = 1 THEN 1 ELSE 0]}
           binds == {[right EXCEPT !.csite = NoCallback], [right EXCEPT !.osite = NoOwner]}
           ends == {[right EXCEPT !.kind = "end", !.count = n] : n \in {now, now + 1}}
<1>1. /\ right.run = r /\ right.trace = "trace" /\ right.build = StaticBuild
      /\ right.object = e.object /\ right.callback = e.callback /\ right.kind = e.kind
  BY DEF Record
<1>2. {"run", "trace", "build", "object", "callback", "kind"} \subseteq DOMAIN right
  BY DEF Record
<1>3. e.kind # "end"
  BY DEF LogEvent, Kinds
<1>4. Variants(e, r) = general \cup (IF e.kind = "bind" THEN binds ELSE {}) \cup (IF e.kind = "marker" THEN ends ELSE {})
  BY Zenon DEF Variants
<1> HIDE DEF right
<1> DEFINE Kept(x) == /\ x.run = r /\ x.trace = "trace" /\ x.build = StaticBuild
                      /\ x.object = e.object /\ x.callback = e.callback
<1>5. \A x \in general \cup binds : Kept(x) /\ x.kind = e.kind
  BY <1>1, <1>2
<1>6. \A x \in ends : Kept(x) /\ x.kind = "end"
  BY <1>1, <1>2
<1> HIDE DEF general, binds, ends
<1>7. record \in general \cup binds \/ (e.kind = "marker" /\ record \in ends)
  BY <1>4
<1>8. QED BY <1>3, <1>5, <1>6, <1>7

\* What the validator has accepted is what was logged.
LEMMA AcceptedRead ==
    ASSUME TypeOK, LogTyped, EndIsMarker, NEW i \in 1..clock
    PROVE  /\ Accepted(i).run = run /\ Accepted(i).trace = "trace"
           /\ Accepted(i).object = log[i].object /\ Accepted(i).osite = log[i].object
           /\ Accepted(i).external = (log[i].object \in Owners)
           /\ Accepted(i).callback = log[i].callback /\ Accepted(i).csite = log[i].callback
           /\ (Accepted(i).kind = log[i].kind \/ (log[i].kind = "marker" /\ Accepted(i).kind = "end"))
<1> DEFINE right == Record(log[i], i, run)
<1>1. /\ right.run = run /\ right.trace = "trace"
      /\ right.object = log[i].object /\ right.osite = log[i].object
      /\ right.external = (log[i].object \in Owners)
      /\ right.callback = log[i].callback /\ right.csite = log[i].callback /\ right.kind = log[i].kind
  BY DEF Record
<1>2. {"run", "trace", "object", "osite", "external", "callback", "csite", "kind", "count"} \subseteq DOMAIN right
  BY DEF Record
<1>3. Len(log) = clock /\ clock \in Nat
  BY LogPast DEF LogTyped
<1>4. \/ Accepted(i) = right
      \/ log[i].kind = "marker" /\ Accepted(i) = [right EXCEPT !.kind = "end", !.count = i]
  BY <1>3 DEF Accepted, EndIsMarker
<1> HIDE DEF right
<1>5. QED BY <1>1, <1>2, <1>4

\* All that the validator finds wrong with a record is unheeded exactly if its
\* event is acceptable and its run that of the trace.
LEMMA UnheededIsAcceptable ==
    ASSUME TypeOK, LogTyped, EndIsMarker, NEW e \in LogEvent, log # <<>>, NEW r, NEW record \in Variants(e, r)
    PROVE  ProblemsOf(record) \subseteq Unheeded <=> Acceptable(e) /\ r = run
<1> DEFINE t == Stream(record)
<1>1. /\ clock \in Nat /\ now \in Nat /\ now = clock + 1 /\ DOMAIN log = 1..clock /\ 1..(now - 1) = 1..clock
      /\ \A i \in DOMAIN log : i \in Nat /\ i < now /\ log[i] \in LogEvent
  BY LogPast DEF LogTyped
<1>2. 1 \in DOMAIN log
  BY <1>1 DEF LogTyped
<1>3. \A i \in 1..clock : t[i] = Accepted(i)
  BY StreamRead
<1>4. t[now] = record
  BY StreamRead
<1>5. ProblemsOf(record) = Validator!Problems(t, now)
  BY DEF ProblemsOf, Stream
<1> HIDE DEF t
<1>6. \A i \in 1..clock : /\ t[i].run = run /\ t[i].trace = "trace"
                         /\ t[i].object = log[i].object /\ t[i].osite = log[i].object
                         /\ t[i].external = (log[i].object \in Owners)
                         /\ t[i].callback = log[i].callback /\ t[i].csite = log[i].callback
                         /\ (t[i].kind = log[i].kind \/ (log[i].kind = "marker" /\ t[i].kind = "end"))
  <2> TAKE i \in 1..clock
  <2>1. t[i] = Accepted(i)
    BY <1>3
  <2>2. QED BY <2>1, AcceptedRead
<1>7. /\ t[now].run = r /\ t[now].trace = "trace" /\ t[now].object = e.object /\ t[now].callback = e.callback
      /\ (t[now].kind = e.kind \/ (e.kind = "marker" /\ t[now].kind = "end"))
  BY <1>4, VariantRead
<1>8. Validator!Before(t, now) = DOMAIN log
  BY <1>1, <1>6, <1>7 DEF Validator!Before
<1>9. \A o : Validator!Created(t, now, o) = Creates(o)
  BY <1>1, <1>6, <1>8 DEF Validator!Created, Creates
<1>10. \A c : Validator!RegisteredAt(t, now, c) = Registers(c)
  BY <1>1, <1>6, <1>8 DEF Validator!RegisteredAt, Registers
<1>15. \A code, cond : /\ (Validator!If(code, cond) = {}) <=> ~cond
                      /\ (Validator!If(code, cond) \subseteq Unheeded) <=> (~cond \/ code \in Unheeded)
  BY DEF Validator!If
<1>h. /\ "RECORD-DUPLICATE" \in Unheeded /\ "SEQ-ORDER" \in Unheeded /\ "AFTER-END" \in Unheeded
      /\ "START-DUPLICATE" \in Unheeded /\ "COUNT-MISMATCH" \in Unheeded
      /\ "CALLBACK-SITE-MISMATCH" \in Unheeded /\ "OBJECT-SITE-MISMATCH" \in Unheeded
      /\ "RUN-MISMATCH" \notin Unheeded /\ "OBJECT-MISSING" \notin Unheeded /\ "CALLBACK-MISSING" \notin Unheeded
      /\ "OBJECT-DUPLICATE" \notin Unheeded /\ "CALLBACK-DUPLICATE" \notin Unheeded
      /\ "OWNER-KIND" \notin Unheeded /\ "OWNER-MISMATCH" \notin Unheeded
  BY DEF Unheeded
<1> HIDE DEF Unheeded
<1>11. Validator!StreamProblems(t, now) \subseteq Unheeded <=> r = run
  <2>1. (\E j \in 1..(now - 1) : t[j].run # t[now].run) <=> r # run
    BY <1>1, <1>2, <1>6, <1>7
  <2> DEFINE other == \E j \in 1..(now - 1) : t[j].run # t[now].run
             same == \E j \in 1..(now - 1) : t[j].record = t[now].record
  <2>2. Validator!StreamProblems(t, now) =
            Validator!If("RECORD-DUPLICATE", same) \cup Validator!If("RUN-MISMATCH", other)
    BY DEF Validator!StreamProblems
  <2> HIDE DEF other, same
  <2>3. other <=> r # run
    BY <2>1 DEF other
  <2>4. QED BY <2>2, <2>3, <1>h DEF Validator!If
<1>12. Validator!HeaderProblems(t, now) \subseteq Unheeded
  BY <1>h DEF Validator!HeaderProblems, Validator!If
<1>13. ProblemsOf(record) \subseteq Unheeded <=> r = run /\ Validator!PayloadProblems(t, now) \subseteq Unheeded
  <2>1. Validator!Problems(t, now) =
            Validator!StreamProblems(t, now) \cup Validator!HeaderProblems(t, now) \cup Validator!PayloadProblems(t, now)
    BY <1>2, <1>8 DEF Validator!Problems
  <2>2. QED BY <2>1, <1>5, <1>11, <1>12
<1>14. /\ \A i \in Creates(e.object) : t[i].external = (e.object \in Owners)
       /\ \A i \in Registers(e.callback) : t[i].object = log[i].object
  BY <1>1, <1>6 DEF Creates, Registers
<1>m. /\ Validator!ObjectMissing(t, now) \subseteq Unheeded <=> Creates(e.object) # {}
      /\ Validator!CallbackMissing(t, now) \subseteq Unheeded <=> Registers(e.callback) # {}
  BY <1>7, <1>9, <1>10, <1>h DEF Validator!ObjectMissing, Validator!CallbackMissing, Validator!If
<1>16. Validator!PayloadProblems(t, now) \subseteq Unheeded <=> Acceptable(e)
  <2>1. e.kind \in Kinds
    BY DEF LogEvent
  <2>2. CASE e.kind = "start"
    BY <2>2, <1>7, <1>h DEF Validator!PayloadProblems, Acceptable
  <2>3. CASE e.kind = "marker"
    <3>1. Acceptable(e)
      BY <2>3 DEF Acceptable
    <3>2. CASE t[now].kind = "marker"
      BY <3>1, <3>2 DEF Validator!PayloadProblems
    <3>3. CASE t[now].kind = "end"
      <4> DEFINE wrong == t[now].count # Validator!Cardinality(Validator!Before(t, now)) + 1
      <4>1. Validator!PayloadProblems(t, now) = Validator!If("COUNT-MISMATCH", wrong)
        BY <3>3 DEF Validator!PayloadProblems
      <4> HIDE DEF wrong
      <4>2. QED BY <3>1, <4>1, <1>15, <1>h
    <3>4. QED BY <2>3, <1>7, <3>2, <3>3
  <2>4. CASE e.kind = "create"
    <3>1. Validator!PayloadProblems(t, now) = Validator!If("OBJECT-DUPLICATE", Creates(e.object) # {})
      BY <2>4, <1>7, <1>9 DEF Validator!PayloadProblems
    <3>2. QED BY <2>4, <3>1, <1>h DEF Acceptable, Validator!If
  <2>5. CASE e.kind = "register"
    <3>1. Validator!PayloadProblems(t, now) =
              Validator!ObjectMissing(t, now)
              \cup Validator!If("OWNER-KIND", \E j \in Creates(e.object) : ~t[j].external)
              \cup Validator!If("CALLBACK-DUPLICATE", Registers(e.callback) # {})
      BY <2>5, <1>7, <1>9, <1>10 DEF Validator!PayloadProblems
    <3>2. (\E j \in Creates(e.object) : ~t[j].external) <=> Creates(e.object) # {} /\ e.object \notin Owners
      BY <1>14
    <3>3. QED BY <2>5, <3>1, <3>2, <1>h, <1>m DEF Acceptable, Validator!If
  <2>6. CASE e.kind = "bind"
    <3> DEFINE sites == \E j \in Validator!RegisteredAt(t, now, t[now].callback) : t[j].csite # t[now].csite
               osites == \E j \in Validator!Created(t, now, t[now].object) : t[j].osite # t[now].osite
    <3>1. t[now].kind = "bind"
      BY <2>6, <1>7
    <3>2. Validator!PayloadProblems(t, now) =
              Validator!CallbackMissing(t, now) \cup Validator!ObjectMissing(t, now)
              \cup Validator!If("CALLBACK-SITE-MISMATCH", sites)
              \cup Validator!If("OBJECT-SITE-MISMATCH", osites)
      BY <3>1, Zenon DEF Validator!PayloadProblems
    <3> HIDE DEF sites, osites
    <3>4. QED BY <2>6, <3>2, <1>15, <1>h, <1>m DEF Acceptable
  <2>7. CASE e.kind = "unregister"
    <3>1. Validator!PayloadProblems(t, now) =
              Validator!CallbackMissing(t, now)
              \cup Validator!If("OWNER-MISMATCH", \E j \in Registers(e.callback) : t[j].object # e.object)
      BY <2>7, <1>7, <1>10 DEF Validator!PayloadProblems
    <3>2. QED BY <2>7, <3>1, <1>14, <1>h, <1>m DEF Acceptable, Validator!If
  <2>8. CASE e.kind = "invoke"
    <3>1. Validator!PayloadProblems(t, now) = Validator!CallbackMissing(t, now)
      BY <2>8, <1>7 DEF Validator!PayloadProblems
    <3>2. QED BY <2>8, <3>1, <1>m DEF Acceptable
  <2>9. CASE e.kind \in {"use", "drop", "free"}
    <3>1. Validator!PayloadProblems(t, now) = Validator!ObjectMissing(t, now)
      BY <2>9, <1>7 DEF Validator!PayloadProblems
    <3>2. QED BY <2>9, <3>1, <1>m DEF Acceptable
  <2>10. QED BY <2>1, <2>2, <2>3, <2>4, <2>5, <2>6, <2>7, <2>8, <2>9 DEF Kinds
<1>17. QED BY <1>13, <1>16

\* All that can be wrong with the first record of a trace is unheeded too.
LEMMA FirstUnheeded ==
    ASSUME TypeOK, LogTyped, log = <<>>, NEW e \in LogEvent, e.kind = "start", NEW r, NEW record \in Variants(e, r)
    PROVE  ProblemsOf(record) \subseteq Unheeded
<1> DEFINE t == Stream(record)
<1>1. clock = 0 /\ now = 1 /\ 1..(now - 1) = {}
  BY LogPast DEF LogTyped
<1>2. t[now] = record /\ ProblemsOf(record) = Validator!Problems(t, now)
  BY StreamRead DEF ProblemsOf, Stream
<1>3. record.kind = "start"
  BY VariantRead
<1> HIDE DEF t
<1>4. Validator!Before(t, now) = {} /\ Validator!StreamProblems(t, now) = {}
  BY <1>1 DEF Validator!Before, Validator!StreamProblems, Validator!If
<1>5. Validator!FirstProblems(t, now) \subseteq {"SEQ-START"}
  BY <1>1, <1>2, <1>3 DEF Validator!FirstProblems, Validator!If
<1>6. Validator!Problems(t, now) = Validator!FirstProblems(t, now)
  BY <1>4 DEF Validator!Problems
<1>7. QED BY <1>2, <1>5, <1>6 DEF Unheeded

\* What the trace and the tables know alike: whether the trace is open, and
\* which objects and owners there are.
ReadInv ==
    /\ InContext <=> log # <<>>
    /\ \A o \in Objects : Exists(o) <=> Creates(o) # {}
    /\ \A w \in Owners : owners[w].life # "absent" <=> Exists(w)
    /\ EndIsMarker

\* ReadInv grows with an event, if objects and owners come to exist by creates only.
LEMMA ReadInvGrows ==
    ASSUME TypeOK, LogTyped, ReadInv, NEW k \in Kinds, NEW o, NEW c, Adds(k, o, c), InContext', EndIsMarker',
           \A x \in Objects : objects'[x].life # "absent" <=> Exists(x) \/ (k = "create" /\ x = o),
           \A w \in Owners : owners'[w].life # "absent" <=> owners[w].life # "absent" \/ (k = "create" /\ w = o)
    PROVE  ReadInv'
<1>1. log' # <<>>
  <2>1. now \in DOMAIN log'
    BY DEF Adds
  <2>2. QED BY <2>1
<1>2. log'[now].kind = k /\ log'[now].object = o
  BY DEF Adds, Event
<1>3. \A x : Creates(x)' = IF k = "create" /\ o = x THEN Creates(x) \cup {now} ELSE Creates(x)
  <2>1. DOMAIN log' = DOMAIN log \cup {now} /\ \A i \in DOMAIN log : log'[i] = log[i]
    BY DEF Adds
  <2>2. QED BY <2>1, <1>2 DEF Creates
<1>4. \A x \in Objects : Exists(x)' <=> Creates(x)' # {}
  BY <1>3 DEF ReadInv, Exists
<1>5. \A w \in Owners : owners'[w].life # "absent" <=> Exists(w)'
  BY OracleAssumption DEF ReadInv, Exists
<1>6. QED BY <1>1, <1>4, <1>5 DEF ReadInv

\* Both take the view of a record that SameView asks for if the oracle accepts
\* it exactly when it is acceptable, of the run, and does not bind a pair again.
LEMMA AgreedStep ==
    ASSUME TypeOK, LogTyped, EndIsMarker, NEW e \in LogEvent, log # <<>>, NEW r, Read(e, r), agreed = TRUE,
           clock' # clock <=> Acceptable(e) /\ r = run /\ ~BoundAgain(e)
    PROVE  agreed' = TRUE
<1>1. PICK record \in Variants(e, r) :
          agreed' = (agreed /\ (validator = "refused" \/ SameView(e, ProblemsOf(record))))
  BY DEF Read
<1>2. ProblemsOf(record) \subseteq Unheeded <=> Acceptable(e) /\ r = run
  BY UnheededIsAcceptable
<1>3. SameView(e, ProblemsOf(record))
  BY <1>2 DEF SameView
<1>4. QED BY <1>1, <1>3

\* The validator says that a trace has ended at a trace_end only.
LEMMA EndIsMarkerStep ==
    ASSUME TypeOK, LogTyped, NEW k \in Kinds, NEW o \in Objects \cup {NoOwner}, NEW c \in Callbacks \cup {NoCallback},
           NEW r, Read(Event(k, o, c), r), Adds(k, o, c)
    PROVE  EndIsMarker'
<1> DEFINE e == Event(k, o, c)
<1>1. e \in LogEvent
  BY DEF Event, LogEvent
<1>2. clock # now /\ clock' = now /\ now \in DOMAIN log' /\ log'[now] = e
  BY LogPast DEF Adds
<1>3. PICK record \in Variants(e, r) : ValidatorReads(record, ProblemsOf(record))
  BY <1>2 DEF Read
<1>4. validator' = "ended" => record.kind = "end"
  BY <1>3 DEF ValidatorReads
<1>5. record.kind = "end" => e.kind = "marker"
  BY <1>1, VariantRead
<1>6. log' # <<>>
  BY <1>2
<1>7. QED BY <1>2, <1>4, <1>5, <1>6 DEF EndIsMarker

\* An event of a trace the validator has accepted so far keeps the two readers in step.
LEMMA ReadStep ==
    ASSUME AllGiven, TypeOK, TraceInv, ReadInv, ObservedNext, agreed = TRUE
    PROVE  ReadInv' /\ agreed' = TRUE
<1> USE OracleAssumption DEF ReadInv
<1>c. clock \in Nat /\ now \in Nat /\ now # clock /\ LogTyped
  BY LogPast DEF TraceInv
<1>e. \A k \in Kinds : \A o \in Objects \cup {NoOwner} : \A c \in Callbacks \cup {NoCallback} :
          /\ Event(k, o, c) \in LogEvent
          /\ Event(k, o, c).kind = k /\ Event(k, o, c).object = o /\ Event(k, o, c).callback = c
  BY DEF Event, LogEvent
<1>k. /\ {"start", "marker", "create", "register", "bind", "unregister", "invoke", "use", "drop", "free"} \subseteq Kinds
      /\ NoObjectId \in Objects \cup {NoOwner}
  BY DEF Kinds, NoObjectId
<1>r. ASSUME NEW c \in Callbacks
      PROVE  /\ Registered(c) <=> Registers(c) # {}
             /\ \A w : Registered(c) => ((\A i \in Registers(c) : log[i].object = w) <=> callbacks[c].owner = w)
  <2>1. CallbackInTrace(c)
    BY DEF TraceInv, TablesInTrace
  <2>2. QED BY <2>1 DEF CallbackInTrace, Registered
\* A rejected event changes nothing.
<1>u. ASSUME Rejected, NEW e, NEW r, Read(e, r) PROVE ReadInv' /\ clock' = clock
  <2>1. log' = log /\ validator' = validator
    BY <1>u DEF Read, Log, Rejected, vars
  <2>2. QED BY <1>u, <2>1 DEF Rejected, vars, InContext, Exists, Creates, EndIsMarker
\* An accepted one is added.
<1>a. ASSUME NEW k \in Kinds, NEW o \in Objects \cup {NoOwner}, NEW c \in Callbacks \cup {NoCallback},
             NEW r, Read(Event(k, o, c), r), clock' = now
      PROVE  Adds(k, o, c) /\ EndIsMarker'
  <2>1. Event(k, o, c).kind = k /\ Event(k, o, c).object = o /\ Event(k, o, c).callback = c
    BY DEF Event
  <2>2. Log(k, o, c)
    BY <1>a, <2>1 DEF Read
  <2>3. Adds(k, o, c)
    BY <2>2, <1>a, <1>c, LogGrows
  <2>4. QED BY <2>3, <1>a, <1>c, EndIsMarkerStep
\* All but a bind are accepted exactly if they are acceptable.
<1>g. ASSUME NEW e \in LogEvent, e.kind # "bind", log # <<>>, Read(e, run), clock' # clock <=> Acceptable(e)
      PROVE  agreed' = TRUE
  BY <1>g, <1>c, AgreedStep DEF BoundAgain
\* Neither objects nor owners come or go.
<1>s. ASSUME NEW k \in Kinds \ {"create"}, NEW o \in Objects \cup {NoOwner}, NEW c \in Callbacks \cup {NoCallback},
             NEW r, Read(Event(k, o, c), r), clock' = now, InContext',
             \A x \in Objects : objects'[x].life # "absent" <=> Exists(x),
             \A w \in Owners : owners'[w].life # "absent" <=> owners[w].life # "absent"
      PROVE  ReadInv'
  BY <1>s, <1>a, <1>c, ReadInvGrows
<1>1. ASSUME NEW r \in Runs, NEW b \in Builds, TraceStart(r, b), Read(Event("start", NoObjectId, NoCallback), r)
      PROVE  ReadInv' /\ agreed' = TRUE
  <2> DEFINE e == Event("start", NoObjectId, NoCallback)
  <2>a. e \in LogEvent /\ e.kind = "start"
    BY <1>k DEF Event, LogEvent
  <2>b. Acceptable(e) /\ ~BoundAgain(e)
    BY <2>a DEF Acceptable, BoundAgain
  <2>0. e \in LogEvent /\ e.kind = "start" /\ Acceptable(e) /\ ~BoundAgain(e)
    BY <2>a, <2>b
  <2>1. run = NoRun \/ r = run => run' = r /\ Reduced(TRUE, {}) /\ UNCHANGED tables
    BY <1>1 DEF TraceStart, AllGiven
  <2>2. run # NoRun /\ r # run => Rejected
    BY <1>1 DEF TraceStart
  <2>3. ASSUME run = NoRun \/ r = run PROVE ReadInv' /\ clock' # clock
    <3>1. clock' = now /\ InContext'
      BY <2>1, <2>3, OracleAssumption DEF Reduced, InContext
    <3>2. QED BY <1>1, <2>1, <2>3, <3>1, <1>c, <1>s, <1>k DEF tables, Exists
  <2>4. ASSUME run # NoRun /\ r # run PROVE ReadInv' /\ clock' = clock
    BY <1>1, <1>u, <2>2, <2>4
  <2>5. CASE log # <<>>
    <3>1. run # NoRun
      BY <2>5 DEF InContext
    <3>2. clock' # clock <=> r = run
      BY <2>3, <2>4, <3>1
    <3>3. agreed' = TRUE
      BY <1>1, <1>c, <2>0, <2>5, <3>2, AgreedStep
    <3>4. QED BY <2>3, <2>4, <3>1, <3>3
  <2>6. CASE log = <<>>
    <3>1. run = NoRun
      BY <2>6 DEF InContext
    <3>2. PICK record \in Variants(e, r) :
              agreed' = (agreed /\ (validator = "refused" \/ SameView(e, ProblemsOf(record))))
      BY <1>1 DEF Read
    <3>3. SameView(e, ProblemsOf(record))
      BY <1>c, <2>0, <2>3, <2>6, <3>1, FirstUnheeded DEF SameView
    <3>4. QED BY <2>3, <3>1, <3>2, <3>3
  <2>7. QED BY <2>5, <2>6
<1>2. ASSUME Marker, Read(Event("marker", NoObjectId, NoCallback), run) PROVE ReadInv' /\ agreed' = TRUE
  <2>1. clock' = now /\ UNCHANGED <<run, objects, owners>> /\ InContext
    BY <1>2 DEF Marker, Reduced
  <2>2. ReadInv'
    BY <1>2, <2>1, <1>s, <1>k DEF Exists, InContext
  <2> DEFINE e == Event("marker", NoObjectId, NoCallback)
  <2>0. e \in LogEvent /\ e.kind = "marker"
    BY <1>k DEF Event, LogEvent
  <2>3. Acceptable(e)
    BY <2>0 DEF Acceptable
  <2>4. log # <<>>
    BY <2>1
  <2> HIDE DEF e
  <2>5. agreed' = TRUE
    <3>1. Read(e, run)
      BY <1>2 DEF e
    <3>2. QED BY <1>c, <2>0, <2>1, <2>3, <2>4, <3>1, <1>g
  <2>6. QED BY <2>2, <2>5
<1>3. ASSUME NEW o \in Objects, ObjectCreate(o), Read(Event("create", o, NoCallback), run) PROVE ReadInv' /\ agreed' = TRUE
  <2> DEFINE e == Event("create", o, NoCallback)
  <2>0. InContext /\ e \in LogEvent /\ e.kind = "create" /\ e.object = o
    BY <1>3, <1>e, <1>k DEF ObjectCreate
  <2>1. Acceptable(e) <=> ~Exists(o)
    BY <2>0 DEF Acceptable
  <2>2. CASE Exists(o)
    <3>1. Rejected
      BY <1>3, <2>2 DEF ObjectCreate
    <3>2. QED BY <1>3, <1>c, <1>u, <2>0, <2>1, <2>2, <3>1, <1>g
  <2>3. CASE ~Exists(o)
    <3>1. /\ clock' = now /\ run' = run
          /\ objects' = [objects EXCEPT ![o] = [life |-> "live", created |-> now, end |-> 0, free |-> 0]]
          /\ owners' = IF o \in Owners THEN [owners EXCEPT ![o] = [life |-> "open", close |-> 0]] ELSE owners
      BY <1>3, <2>3 DEF ObjectCreate, Reduced
    <3>2. Adds("create", o, NoCallback) /\ EndIsMarker'
      BY <1>3, <1>a, <1>k, <3>1
    <3>3. /\ \A x \in Objects : objects'[x].life # "absent" <=> Exists(x) \/ x = o
          /\ \A w \in Owners : owners'[w].life # "absent" <=> owners[w].life # "absent" \/ w = o
      BY <3>1 DEF TypeOK, Exists
    <3>4. ReadInv'
      BY <2>0, <3>1, <3>2, <3>3, <1>c, <1>k, ReadInvGrows DEF InContext
    <3>5. QED BY <1>3, <1>c, <2>0, <2>1, <2>3, <3>1, <3>4, <1>g
  <2>4. QED BY <2>2, <2>3
<1>4. ASSUME NEW c \in Callbacks, NEW w \in Objects, NEW api \in Apis, CallbackRegister(c, w, api),
             Read(Event("register", w, c), run)
      PROVE  ReadInv' /\ agreed' = TRUE
  <2> DEFINE e == Event("register", w, c)
  <2>0. InContext /\ e \in LogEvent /\ e.kind = "register" /\ e.object = w /\ e.callback = c /\ HasRole(api, "register")
    BY <1>4, <1>e, <1>k DEF CallbackRegister, AllGiven, HasRole, Roles
  <2>1. Acceptable(e) <=> Opened(w) /\ ~Registered(c)
    BY <2>0, <1>r DEF Acceptable, Opened
  <2>2. CASE Rejected
    <3>1. ~(Opened(w) /\ ~Registered(c))
      BY <1>4, <2>0, <2>2, <1>c DEF CallbackRegister, Reduced, Rejected, vars
    <3>2. QED BY <1>4, <1>c, <1>u, <2>0, <2>1, <2>2, <3>1, <1>g
  <2>3. CASE Opened(w) /\ ~Registered(c)
    <3>1. clock' = now /\ UNCHANGED <<run, objects, owners>>
      BY <1>4, <2>0, <2>3 DEF CallbackRegister, Reduced
    <3>2. ReadInv'
      BY <1>4, <2>0, <3>1, <1>s, <1>k DEF Exists, InContext
    <3>3. QED BY <1>4, <1>c, <2>0, <2>1, <2>3, <3>1, <3>2, <1>g
  <2>4. QED BY <1>4, <2>0, <2>2, <2>3 DEF CallbackRegister
<1>5. ASSUME NEW c \in Callbacks, NEW o \in Objects, CaptureBind(c, o), Read(Event("bind", o, c), run)
      PROVE  ReadInv' /\ agreed' = TRUE
  <2> DEFINE e == Event("bind", o, c)
  <2>0. InContext /\ e \in LogEvent /\ e.kind = "bind" /\ e.object = o /\ e.callback = c /\ CaptureFact[c][o] \in Modes
    BY <1>5, <1>e, <1>k DEF CaptureBind, AllGiven
  <2>1. Acceptable(e) <=> Registered(c) /\ Exists(o)
    BY <2>0, <1>r DEF Acceptable
  <2>b. BoundAgain(e) <=> Bound(c, o)
    BY <2>0 DEF BoundAgain
  <2>2. CASE Rejected
    <3>1. ~(Registered(c) /\ Exists(o)) \/ Bound(c, o)
      BY <1>5, <2>0, <2>2, <1>c DEF CaptureBind, Reduced, Rejected, vars
    <3>2. QED BY <1>5, <1>c, <1>u, <2>0, <2>1, <2>2, <2>b, <3>1, AgreedStep
  <2>3. CASE Registered(c) /\ Exists(o) /\ ~Bound(c, o)
    <3>1. clock' = now /\ UNCHANGED <<run, objects, owners>>
      BY <1>5, <2>0, <2>3 DEF CaptureBind, Reduced
    <3>2. ReadInv'
      BY <1>5, <2>0, <3>1, <1>s, <1>k DEF Exists, InContext
    <3>3. QED BY <1>5, <1>c, <2>0, <2>1, <2>b, <2>3, <3>1, <3>2, AgreedStep
  <2>4. QED BY <1>5, <2>0, <2>2, <2>3 DEF CaptureBind
<1>6. ASSUME NEW c \in Callbacks, NEW w \in Objects, NEW api \in Apis, CallbackUnregister(c, w, api),
             Read(Event("unregister", w, c), run)
      PROVE  ReadInv' /\ agreed' = TRUE
  <2> DEFINE e == Event("unregister", w, c)
  <2>0. InContext /\ e \in LogEvent /\ e.kind = "unregister" /\ e.object = w /\ e.callback = c /\ HasRole(api, "unregister")
    BY <1>6, <1>e, <1>k DEF CallbackUnregister, AllGiven, HasRole, Roles
  <2>1. Acceptable(e) <=> Registered(c) /\ callbacks[c].owner = w
    BY <2>0, <1>r DEF Acceptable
  <2>2. CASE Rejected
    <3>1. ~(Registered(c) /\ callbacks[c].owner = w)
      BY <1>6, <2>0, <2>2, <1>c DEF CallbackUnregister, Reduced, Rejected, vars
    <3>2. QED BY <1>6, <1>c, <1>u, <2>0, <2>1, <2>2, <3>1, <1>g
  <2>3. CASE Registered(c) /\ callbacks[c].owner = w
    <3>1. clock' = now /\ UNCHANGED <<run, objects, owners>>
      BY <1>6, <2>0, <2>3 DEF CallbackUnregister, Reduced
    <3>2. ReadInv'
      BY <1>6, <2>0, <3>1, <1>s, <1>k DEF Exists, InContext
    <3>3. QED BY <1>6, <1>c, <2>0, <2>1, <2>3, <3>1, <3>2, <1>g
  <2>4. QED BY <1>6, <2>0, <2>2, <2>3 DEF CallbackUnregister
<1>7. ASSUME NEW c \in Callbacks, NEW api \in Apis, CallbackInvoke(c, api), Read(Event("invoke", NoObjectId, c), run)
      PROVE  ReadInv' /\ agreed' = TRUE
  <2> DEFINE e == Event("invoke", NoObjectId, c)
  <2>a. e \in LogEvent /\ e.kind = "invoke" /\ e.callback = c
    BY <1>k DEF Event, LogEvent
  <2>b. InContext /\ HasRole(api, "invoke")
    BY <1>7 DEF CallbackInvoke, AllGiven, HasRole, Roles
  <2>c. "borrow_must_outlive_retention" \in Clauses
    BY DEF AllGiven, Complete, ClauseKinds
  <2>0. /\ InContext /\ e \in LogEvent /\ e.kind = "invoke" /\ e.callback = c /\ HasRole(api, "invoke")
        /\ "borrow_must_outlive_retention" \in Clauses
    BY <2>a, <2>b, <2>c
  <2>1. Acceptable(e) <=> Registered(c)
    BY <2>0, <1>r DEF Acceptable
  <2>2. CASE Rejected
    <3>1. ~Registered(c)
      BY <1>7, <2>0, <2>2, <1>c DEF CallbackInvoke, Reduced, Rejected, vars
    <3>2. QED BY <1>7, <1>c, <1>u, <2>0, <2>1, <2>2, <3>1, <1>g
  <2>3. CASE Registered(c)
    <3>1. clock' = now /\ UNCHANGED <<run, objects, owners>>
      BY <1>7, <2>0, <2>3 DEF CallbackInvoke, Reduced
    <3>2. ReadInv'
      BY <1>7, <2>0, <3>1, <1>s, <1>k DEF Exists, InContext
    <3>3. QED BY <1>7, <1>c, <2>0, <2>1, <2>3, <3>1, <3>2, <1>g
  <2>4. QED BY <1>7, <2>0, <2>2, <2>3 DEF CallbackInvoke
\* The events of an object alone are rejected only if it is not there.
<1>o. ASSUME NEW k \in {"use", "drop", "free"}, NEW o \in Objects, Read(Event(k, o, NoCallback), run), InContext,
             Exists(o) => /\ clock' = now /\ run' = run
                          /\ \A x \in Objects : objects'[x].life # "absent" <=> Exists(x)
                          /\ \A w \in Owners : owners'[w].life # "absent" <=> owners[w].life # "absent",
             ~Exists(o) => Rejected
      PROVE  ReadInv' /\ agreed' = TRUE
  <2> DEFINE e == Event(k, o, NoCallback)
  <2>0. e \in LogEvent /\ e.kind = k /\ e.object = o /\ k \in Kinds \ {"create"}
    BY <1>e, <1>k
  <2>1. Acceptable(e) <=> Exists(o)
    BY <2>0 DEF Acceptable
  <2>2. CASE ~Exists(o)
    BY <1>o, <1>c, <1>u, <2>0, <2>1, <2>2, <1>g
  <2>3. CASE Exists(o)
    <3>1. ReadInv'
      BY <1>o, <2>0, <2>3, <1>s DEF InContext
    <3>2. QED BY <1>o, <1>c, <2>0, <2>1, <2>3, <3>1, <1>g
  <2>4. QED BY <2>2, <2>3
<1>8. ASSUME NEW o \in Objects, ObjectUse(o), Read(Event("use", o, NoCallback), run) PROVE ReadInv' /\ agreed' = TRUE
  <2>1. InContext /\ (~Exists(o) => Rejected)
    BY <1>8 DEF ObjectUse
  <2>2. Exists(o) => clock' = now /\ UNCHANGED <<run, objects, owners>>
    BY <1>8 DEF ObjectUse, Reduced, AllGiven, Complete, ClauseKinds
  <2>3. QED BY <1>8, <1>o, <2>1, <2>2 DEF Exists
<1>9. ASSUME NEW o \in Objects, ObjectDrop(o), Read(Event("drop", o, NoCallback), run) PROVE ReadInv' /\ agreed' = TRUE
  <2>1. InContext /\ (~Exists(o) => Rejected)
    BY <1>9 DEF ObjectDrop
  <2>2. ASSUME Exists(o)
        PROVE  /\ clock' = now /\ run' = run
               /\ \A x \in Objects : objects'[x].life # "absent" <=> Exists(x)
               /\ \A w \in Owners : owners'[w].life # "absent" <=> owners[w].life # "absent"
    <3>1. /\ clock' = now /\ run' = run
          /\ objects' = objects
             \/ objects' = [objects EXCEPT ![o].life = "ended", ![o].end = FirstRecord(objects[o].end)]
          /\ owners' = owners \/ (o \in Owners /\ owners' = [owners EXCEPT ![o] = [life |-> "closed", close |-> now]])
      BY <1>9, <2>2 DEF ObjectDrop, Reduced, CloseOwner
    <3>2. \A x \in Objects : objects'[x].life # "absent" <=> Exists(x)
      <4>1. ASSUME NEW x \in Objects PROVE objects'[x] = objects[x] \/ (x = o /\ objects'[x].life # "absent")
        BY <3>1 DEF TypeOK, ObjectState
      <4>2. QED BY <2>2, <4>1 DEF Exists
    <3>3. \A w \in Owners : owners'[w].life # "absent" <=> owners[w].life # "absent"
      BY <2>2, <3>1 DEF TypeOK
    <3>4. QED BY <3>1, <3>2, <3>3
  <2>3. QED BY <1>9, <1>o, <2>1, <2>2
<1>10. ASSUME NEW o \in Objects, ObjectFree(o), Read(Event("free", o, NoCallback), run) PROVE ReadInv' /\ agreed' = TRUE
  <2>1. InContext /\ (~Exists(o) => Rejected)
    BY <1>10 DEF ObjectFree
  <2>2. ASSUME Exists(o)
        PROVE  /\ clock' = now /\ run' = run
               /\ \A x \in Objects : objects'[x].life # "absent" <=> Exists(x)
               /\ \A w \in Owners : owners'[w].life # "absent" <=> owners[w].life # "absent"
    <3>1. /\ clock' = now /\ run' = run /\ owners' = owners
          /\ objects' = objects
             \/ objects' = [objects EXCEPT ![o].life = "freed", ![o].end = now, ![o].free = now]
      BY <1>10, <2>2 DEF ObjectFree, Reduced
    <3>2. \A x \in Objects : objects'[x].life # "absent" <=> Exists(x)
      <4>1. ASSUME NEW x \in Objects PROVE objects'[x] = objects[x] \/ (x = o /\ objects'[x].life # "absent")
        BY <3>1 DEF TypeOK, ObjectState
      <4>2. QED BY <2>2, <4>1 DEF Exists
    <3>3. QED BY <3>1, <3>2
  <2>3. QED BY <1>10, <1>o, <2>1, <2>2
<1>11. QED BY <1>1, <1>2, <1>3, <1>4, <1>5, <1>6, <1>7, <1>8, <1>9, <1>10 DEF ObservedNext

\* The readers never move the oracle: an observed step is a logged one.
LEMMA ObservedIsLogged == [ObservedNext]_observedVars => [LogNext]_logVars
<1>e. \A k, o, c : Event(k, o, c).kind = k /\ Event(k, o, c).object = o /\ Event(k, o, c).callback = c
  BY DEF Event
<1>1. \A k, o, c, r : Read(Event(k, o, c), r) => Log(k, o, c)
  <2> TAKE k, o, c, r
  <2>1. QED BY <1>e DEF Read
<1>2. ObservedNext => LogNext
  BY <1>1 DEF ObservedNext, LogNext
<1>3. UNCHANGED observedVars => UNCHANGED logVars
  BY DEF observedVars
<1>4. QED BY <1>2, <1>3

\* What is observed together is, for the oracle, a trace of it.
LEMMA ObservedIsTraced == ObservedSpec => LogSpec
<1>1. ObservedInit => LogInit
  BY DEF ObservedInit
<1>2. QED BY <1>1, ObservedIsLogged, PTL DEF ObservedSpec, LogSpec

\* For every trace, up to its first record that the validator refuses: under
\* complete facts and a complete contract the oracle rejects nothing that the
\* validator accepts, but a pair bound twice, and accepts a record the validator
\* refuses exactly if all that is wrong with it is of the eight kinds the oracle
\* does not look at: a record id or number seen before or a first number other
\* than 0, a record after trace_end, a second trace_start, a wrong count in
\* trace_end, a bind whose sites are not those of its callback and object.
THEOREM ValidatorAgreesWithOracle ==
    ASSUME AllGiven
    PROVE  ObservedSpec => []ValidatorAgrees
<1>1. ObservedInit => ReadInv /\ agreed = TRUE
  <2> SUFFICES ASSUME ObservedInit PROVE ReadInv /\ agreed = TRUE
    OBVIOUS
  <2>1. log = <<>> /\ DOMAIN log = {} /\ run = NoRun /\ agreed = TRUE
    BY DEF ObservedInit, LogInit, Init
  <2>2. \A o \in Objects : ~Exists(o) /\ Creates(o) = {}
    BY <2>1 DEF ObservedInit, LogInit, Init, Exists, NoObject, Creates
  <2>3. \A w \in Owners : owners[w].life = "absent"
    BY DEF ObservedInit, LogInit, Init, NoOwnerRow
  <2>4. EndIsMarker
    BY DEF ObservedInit, EndIsMarker
  <2>5. QED BY <2>1, <2>2, <2>3, <2>4, OracleAssumption DEF ReadInv, InContext
<1>2. TypeOK /\ TraceInv /\ ReadInv /\ agreed = TRUE /\ [ObservedNext]_observedVars => ReadInv' /\ (agreed = TRUE)'
  <2> SUFFICES ASSUME TypeOK, TraceInv, ReadInv, agreed = TRUE, [ObservedNext]_observedVars
               PROVE  ReadInv' /\ agreed' = TRUE
    OBVIOUS
  <2>1. CASE ObservedNext
    BY <2>1, ReadStep
  <2>2. CASE UNCHANGED observedVars
    BY <2>2 DEF observedVars, logVars, vars, ReadInv, InContext, Exists, Creates, EndIsMarker
  <2>3. QED BY <2>1, <2>2
<1>3. LogSpec => [](TypeOK /\ RecordsOrdered /\ TraceInv /\ FindingsMatchTrace)
  BY TraceIsKept DEF AllGiven
<1>4. agreed = TRUE => ValidatorAgrees
  BY DEF ValidatorAgrees
<1>5. QED
  BY <1>1, <1>2, <1>3, <1>4, ObservedIsTraced, PTL DEF ObservedSpec

-----------------------------------------------------------------------------
(* The fuzz observer's feedback follows what the oracle reports.             *)

\* The observer's tables are those of the oracle, as far as it keeps them.
TablesAgree ==
    /\ life \in [Objects -> {"absent", "live", "ended", "freed"}]
    /\ \A o \in Objects : life[o] = "absent" <=> ~Exists(o)
    /\ \A w \in Owners : life[w] = objects[w].life
    /\ callback = [c \in Callbacks |-> [state |-> callbacks[c].life,
                                        owner |-> IF Registered(c) THEN {callbacks[c].owner} ELSE {}]]
    /\ capture = [c \in Callbacks |-> [o \in Objects |-> captures[c][o].life]]

\* The observer reads the event that the step adds to the trace.
LEMMA Observing ==
    ASSUME TypeOK, LogTyped, ObservedNext, LoggedStep
    PROVE  \A k, o, c : Adds(k, o, c) => Observer!Observe(Event(k, o, c), now)
<1>l. clock \in Nat /\ now \in Nat /\ now # clock /\ now \notin DOMAIN log
  BY LogPast
<1>c. clock' = now
  BY DEF LoggedStep, MarkLogged, CreateLogged, RegisterLogged, BindLogged, UnregisterLogged,
         InvokeLogged, UseLogged, DropLogged, FreeLogged, Adds
<1>e. \A k, o, c : Event(k, o, c).kind = k /\ Event(k, o, c).object = o /\ Event(k, o, c).callback = c
  BY DEF Event
<1>1. \E r : \E k \in Kinds, o \in Objects \cup {NoOwner}, c \in Callbacks \cup {NoCallback} : Read(Event(k, o, c), r)
  <2>1. /\ {"start", "marker", "create", "register", "bind", "unregister", "invoke", "use", "drop", "free"} \subseteq Kinds
        /\ NoObjectId \in Objects \cup {NoOwner}
    BY DEF Kinds, NoObjectId
  <2>2. QED BY <2>1 DEF ObservedNext
<1>r. PICK r : \E k \in Kinds, o \in Objects \cup {NoOwner}, c \in Callbacks \cup {NoCallback} : Read(Event(k, o, c), r)
  BY <1>1
<1>2. PICK k \in Kinds, o \in Objects \cup {NoOwner}, c \in Callbacks \cup {NoCallback} : Read(Event(k, o, c), r)
  BY <1>r
<1>3. Log(k, o, c) /\ (log' # log => Observer!Observe(Event(k, o, c), now))
  BY <1>2, <1>e DEF Read
<1>4. Adds(k, o, c)
  BY <1>3, <1>c, <1>l, LogGrows
<1>5. log' # log
  BY <1>4, <1>l DEF Adds
<1>6. \A x, y, z : Adds(x, y, z) => Event(x, y, z) = Event(k, o, c)
  BY <1>4 DEF Adds
<1>7. QED BY <1>3, <1>5, <1>6

\* What the observer does with an event, by the kind of the event.
LEMMA ObservedKinds ==
    ASSUME NEW k, NEW o, NEW c, Observer!Observe(Event(k, o, c), now)
    PROVE  /\ k \in {"start", "marker", "use"} => UNCHANGED observer
           /\ k = "create" => Observer!ObjectCreate(o)
           /\ k = "register" => Observer!CallbackRegister(c, o)
           /\ k = "bind" /\ CaptureFact[c][o] \in Modes => Observer!CaptureBind(c, o, now)
           /\ k = "unregister" => Observer!CallbackUnregister(c, now)
           /\ k = "invoke" => Observer!CallbackInvoke(c, now)
           /\ k = "drop" /\ life[o] # "absent" => Observer!EndObject(o, "ended", now)
           /\ k = "free" /\ life[o] # "absent" => Observer!EndObject(o, "freed", now)
<1>1. Event(k, o, c).kind = k /\ Event(k, o, c).object = o /\ Event(k, o, c).callback = c
  BY DEF Event
<1> DEFINE e == Event(k, o, c)
<1> HIDE DEF e
<1>2. /\ Observer!Observe(e, now)
      /\ e.kind = k /\ e.object = o /\ e.callback = c
  BY <1>1 DEF e
<1>3. QED BY <1>2 DEF Observer!Observe, Observer!Ignored, Observer!obsVars, observer, Modes

\* Where the oracle ends the borrows of an object, the observer ends them too.
LEMMA CapturesAgree ==
    ASSUME TypeOK, TablesInTrace, TablesAgree, NEW o \in Objects, NEW how, Observer!EndObject(o, how, now), EndBorrowed(o)
    PROVE  capture' = [c \in Callbacks |-> [x \in Objects |-> captures'[c][x].life]]
<1>1. ASSUME NEW c \in Callbacks, NEW x \in Objects
      PROVE  /\ capture[c] \in [Objects -> {"absent", "active", "ended"}] /\ capture[c][x] = captures[c][x].life
             /\ captures[c][x].life # "absent" => captures[c][x].mode = CaptureFact[c][x]
  <2>1. captures[c][x] \in CaptureState /\ CaptureInTrace(c, x)
    BY DEF TypeOK, TablesInTrace
  <2>2. \A y \in Objects : captures[c][y].life \in {"absent", "active", "ended"}
    BY DEF TypeOK, CaptureState
  <2>3. QED BY <2>1, <2>2 DEF TablesAgree, CaptureInTrace
<1>2. capture' = [c \in Callbacks |-> IF CaptureFact[c][o] = "borrowed" /\ capture[c][o] = "active"
                                      THEN [capture[c] EXCEPT ![o] = "ended"] ELSE capture[c]]
  BY DEF Observer!EndObject, Observer!Borrowed
<1>3. ASSUME NEW c \in Callbacks PROVE capture'[c] = [x \in Objects |-> captures'[c][x].life]
  <2>1. ASSUME NEW x \in Objects PROVE capture'[c][x] = captures'[c][x].life
    BY <1>1, <1>2, EndBorrowedEffect
  <2>2. capture'[c] \in [Objects -> {"absent", "active", "ended"}]
    BY <1>1, <1>2
  <2>3. QED BY <2>1, <2>2
<1>4. QED BY <1>2, <1>3

\* A call on an object keeps the tables alike.
LEMMA EndAgrees ==
    ASSUME TypeOK, TypeOK', CallbackRecords, TablesInTrace, TablesInTrace', TablesAgree,
           NEW o \in Objects, NEW how \in {"ended", "freed"}, Observer!EndObject(o, how, now), EndBorrowed(o),
           Exists(o), \A x \in Objects : objects'[x] = objects[x] \/ (x = o /\ Exists(o)'),
           o \in Owners => objects'[o].life = how /\ CloseOwner(o),
           o \notin Owners => UNCHANGED callbacks
    PROVE  TablesAgree'
<1>1. life' = [life EXCEPT ![o] = how]
  BY DEF Observer!EndObject
<1>2. /\ life' \in [Objects -> {"absent", "live", "ended", "freed"}]
      /\ \A x \in Objects : life'[x] = "absent" <=> ~Exists(x)'
      /\ \A w \in Owners : life'[w] = objects'[w].life
  BY <1>1, OracleAssumption DEF TablesAgree, Exists
<1>3. capture' = [c \in Callbacks |-> [x \in Objects |-> captures'[c][x].life]]
  BY CapturesAgree
<1>4. callback' = [c \in Callbacks |->
              IF o \in Owners /\ o \in callback[c].owner
              THEN [callback[c] EXCEPT !.state = "released"] ELSE callback[c]]
  BY DEF Observer!EndObject
<1>5. ASSUME NEW c \in Callbacks
      PROVE  callback'[c] = [state |-> callbacks'[c].life,
                             owner |-> IF Registered(c)' THEN {callbacks'[c].owner} ELSE {}]
  <2>1. callback[c] = [state |-> callbacks[c].life, owner |-> IF Registered(c) THEN {callbacks[c].owner} ELSE {}]
    BY DEF TablesAgree
  <2>2. CASE o \in Owners
    <3>1. callbacks[c].owner = o => Registered(c)
      BY <2>2, OracleAssumption DEF CallbackRecords, Registered
    <3>2. o \in callback[c].owner <=> callbacks[c].owner = o
      BY <2>1, <3>1
    <3>3. \/ callbacks'[c] = callbacks[c] /\ callbacks[c].owner # o
          \/ callbacks[c].owner = o /\ callbacks'[c].life = "released" /\ callbacks'[c].owner = o
      BY <2>2, CloseOwnerEffect
    <3>4. CASE callbacks[c].owner # o
      BY <1>4, <2>1, <3>2, <3>3, <3>4 DEF Registered
    <3>5. CASE callbacks[c].owner = o
      <4>1. callback[c] = [state |-> callbacks[c].life, owner |-> {o}]
        BY <2>1, <3>1, <3>5
      <4>2. callback'[c] = [callback[c] EXCEPT !.state = "released"]
        BY <1>4, <2>2, <3>2, <3>5
      <4>3. callbacks'[c].life = "released" /\ callbacks'[c].owner = o /\ Registered(c)'
        BY <3>3, <3>5 DEF Registered
      <4>4. QED BY <4>1, <4>2, <4>3
    <3>6. QED BY <3>4, <3>5
  <2>3. CASE o \notin Owners
    BY <1>4, <2>1, <2>3 DEF Registered
  <2>4. QED BY <2>2, <2>3
<1>6. callback' = [c \in Callbacks |-> [state |-> callbacks'[c].life,
                                        owner |-> IF Registered(c)' THEN {callbacks'[c].owner} ELSE {}]]
  BY <1>4, <1>5
<1>7. QED BY <1>2, <1>3, <1>6 DEF TablesAgree, Exists, Registered


\* On a plain trace a free is the first of its object, which is no owner.
LEMMA PlainFree ==
    ASSUME TypeOK, LogTyped, TablesInTrace, NEW o \in Objects, FreeLogged(o), Plain'
    PROVE  o \notin Owners /\ objects[o].life # "freed"
<1>1. Frees(o)' = Frees(o) \cup {now}
  BY ObjectSetsGrow DEF FreeLogged
<1>2. \A i \in Frees(o) : i # now
  BY LogPast DEF Frees
<1>3. objects[o].life = "freed" => Frees(o) # {}
  BY DEF TablesInTrace, ObjectInTrace
<1>4. \A i, j \in Frees(o)' : i = j /\ o \notin Owners
  BY DEF Plain
<1>5. QED BY <1>1, <1>2, <1>3, <1>4

\* A trace that is plain was plain before its last event.
LEMMA PlainBefore == LoggedStep /\ Plain' => Plain
<1> SUFFICES ASSUME LoggedStep, Plain' PROVE Plain
  OBVIOUS
<1>1. DOMAIN log \subseteq DOMAIN log' /\ \A i \in DOMAIN log : log'[i] = log[i]
  BY DEF LoggedStep, MarkLogged, CreateLogged, RegisterLogged, BindLogged, UnregisterLogged,
         InvokeLogged, UseLogged, DropLogged, FreeLogged, Adds
<1>2. \A o : \A i \in Frees(o) : i \in Frees(o)'
  BY <1>1 DEF Frees, Is
<1>3. QED BY <1>2 DEF Plain

\* Every event of a plain trace keeps the tables alike.
LEMMA TablesAgreeStep ==
    ASSUME TypeOK, TypeOK', RecordsOrdered, LogTyped, TablesInTrace, TablesInTrace', LoggedStep, ObservedNext,
           TablesAgree, Plain'
    PROVE  TablesAgree'
<1>o. \A k, o, c : Adds(k, o, c) => Observer!Observe(Event(k, o, c), now)
  BY Observing
<1>x. \A o \in Objects : Exists(o) => life[o] # "absent"
  BY DEF TablesAgree
<1>1. ASSUME NEW k \in {"start", "marker"}, MarkLogged(k) PROVE TablesAgree'
  <2>1. UNCHANGED observer /\ UNCHANGED <<objects, captures, callbacks>>
    BY <1>1, <1>o, ObservedKinds DEF MarkLogged
  <2>2. QED BY <2>1 DEF TablesAgree, observer, Exists, Registered
<1>2. ASSUME NEW o \in Objects, UseLogged(o) PROVE TablesAgree'
  <2>1. UNCHANGED observer /\ UNCHANGED <<objects, captures, callbacks>>
    BY <1>2, <1>o, ObservedKinds DEF UseLogged
  <2>2. QED BY <2>1 DEF TablesAgree, observer, Exists, Registered
<1>3. ASSUME NEW c \in Callbacks, InvokeLogged(c) PROVE TablesAgree'
  <2>1. Observer!CallbackInvoke(c, now) /\ UNCHANGED <<objects, captures, callbacks>>
    BY <1>3, <1>o, ObservedKinds DEF InvokeLogged
  <2>2. life' = life /\ callback' = callback /\ capture' = capture
    BY <2>1 DEF Observer!CallbackInvoke
  <2>3. QED BY <2>1, <2>2 DEF TablesAgree, Exists, Registered
<1>4. ASSUME NEW o \in Objects, CreateLogged(o) PROVE TablesAgree'
  <2>1. Observer!ObjectCreate(o)
    BY <1>4, <1>o, ObservedKinds DEF CreateLogged
  <2>2. /\ life' = [life EXCEPT ![o] = "live"] /\ callback' = callback /\ capture' = capture
        /\ captures' = captures /\ callbacks' = callbacks
        /\ \A x \in Objects : objects'[x] = IF x = o THEN [life |-> "live", created |-> now, end |-> 0, free |-> 0]
                                            ELSE objects[x]
    BY <2>1, <1>4 DEF Observer!ObjectCreate, CreateLogged, TypeOK
  <2>3. /\ life' \in [Objects -> {"absent", "live", "ended", "freed"}]
        /\ \A x \in Objects : life'[x] = "absent" <=> ~Exists(x)'
        /\ \A w \in Owners : life'[w] = objects'[w].life
    <3>1. life' \in [Objects -> {"absent", "live", "ended", "freed"}]
      BY <2>2 DEF TablesAgree
    <3>2. \A x \in Objects : life'[x] = IF x = o THEN "live" ELSE life[x]
      BY <2>2 DEF TablesAgree
    <3>3. ASSUME NEW x \in Objects PROVE life'[x] = "absent" <=> ~Exists(x)'
      BY <2>2, <3>2 DEF TablesAgree, Exists
    <3>4. ASSUME NEW w \in Owners PROVE life'[w] = objects'[w].life
      BY <2>2, <3>2, OracleAssumption DEF TablesAgree
    <3>5. QED BY <3>1, <3>3, <3>4
  <2>4. QED BY <2>2, <2>3 DEF TablesAgree, Registered
<1>5. ASSUME NEW c \in Callbacks, NEW w \in Objects, RegisterLogged(c, w) PROVE TablesAgree'
  <2>1. Observer!CallbackRegister(c, w)
    BY <1>5, <1>o, ObservedKinds DEF RegisterLogged
  <2>2. /\ callback' = [callback EXCEPT ![c] = [state |-> "retained", owner |-> {w}]]
        /\ life' = life /\ capture' = capture /\ captures' = captures /\ objects' = objects
        /\ \A d \in Callbacks : callbacks'[d] =
               IF d = c THEN [life |-> "retained", owner |-> w, register |-> now, release |-> 0] ELSE callbacks[d]
    BY <2>1, <1>5 DEF Observer!CallbackRegister, RegisterLogged, TypeOK
  <2>3. callback' = [d \in Callbacks |-> [state |-> callbacks'[d].life,
                                          owner |-> IF Registered(d)' THEN {callbacks'[d].owner} ELSE {}]]
    <3>1. callback' = [d \in Callbacks |-> IF d = c THEN [state |-> "retained", owner |-> {w}] ELSE callback[d]]
      BY <2>2 DEF TablesAgree
    <3>2. ASSUME NEW d \in Callbacks
          PROVE  callback'[d] = [state |-> callbacks'[d].life,
                                 owner |-> IF Registered(d)' THEN {callbacks'[d].owner} ELSE {}]
      <4>1. callback[d] = [state |-> callbacks[d].life, owner |-> IF Registered(d) THEN {callbacks[d].owner} ELSE {}]
        BY DEF TablesAgree
      <4>2. CASE d = c
        BY <2>2, <3>1, <4>2 DEF Registered
      <4>3. CASE d # c
        BY <2>2, <3>1, <4>1, <4>3 DEF Registered
      <4>4. QED BY <4>2, <4>3
    <3>3. QED BY <3>1, <3>2
  <2>4. capture' = [d \in Callbacks |-> [x \in Objects |-> captures'[d][x].life]]
    BY <2>2 DEF TablesAgree
  <2>5. /\ life' \in [Objects -> {"absent", "live", "ended", "freed"}]
        /\ \A x \in Objects : life'[x] = "absent" <=> ~Exists(x)'
        /\ \A x \in Owners : life'[x] = objects'[x].life
    BY <2>2 DEF TablesAgree, Exists
  <2>6. QED BY <2>3, <2>4, <2>5 DEF TablesAgree
<1>6. ASSUME NEW c \in Callbacks, NEW w \in Objects, UnregisterLogged(c, w) PROVE TablesAgree'
  <2>1. Observer!CallbackUnregister(c, now)
    BY <1>6, <1>o, ObservedKinds DEF UnregisterLogged
  <2>2. /\ callback' = [callback EXCEPT ![c].state = IF @ = "absent" THEN "absent" ELSE "released"]
        /\ life' = life /\ capture' = capture /\ captures' = captures /\ objects' = objects
        /\ callbacks' = [callbacks EXCEPT ![c].life = "released", ![c].release = now]
        /\ Registered(c)
    BY <2>1, <1>6 DEF Observer!CallbackUnregister, UnregisterLogged
  <2>3. ASSUME NEW d \in Callbacks
        PROVE  callbacks'[d].owner = callbacks[d].owner
               /\ callbacks'[d].life = IF d = c THEN "released" ELSE callbacks[d].life
    BY <2>2 DEF TypeOK, CallbackState
  <2>4. callback' = [d \in Callbacks |-> [state |-> callbacks'[d].life,
                                          owner |-> IF Registered(d)' THEN {callbacks'[d].owner} ELSE {}]]
    <3>1. callback' = [d \in Callbacks |-> IF d = c /\ callback[c].state # "absent"
                                            THEN [callback[c] EXCEPT !.state = "released"] ELSE callback[d]]
      BY <2>2 DEF TablesAgree
    <3>2. ASSUME NEW d \in Callbacks
          PROVE  callback'[d] = [state |-> callbacks'[d].life,
                                 owner |-> IF Registered(d)' THEN {callbacks'[d].owner} ELSE {}]
      <4>1. callback[d] = [state |-> callbacks[d].life, owner |-> IF Registered(d) THEN {callbacks[d].owner} ELSE {}]
        BY DEF TablesAgree
      <4>2. CASE d = c
        <5>1. callback[d] = [state |-> callbacks[d].life, owner |-> {callbacks[d].owner}] /\ callbacks[d].life # "absent"
          BY <2>2, <4>1, <4>2 DEF Registered
        <5>2. callback'[d] = [callback[d] EXCEPT !.state = "released"]
          BY <3>1, <4>2, <5>1
        <5>3. Registered(d)' /\ callbacks'[d].owner = callbacks[d].owner /\ callbacks'[d].life = "released"
          BY <2>3, <4>2 DEF Registered
        <5>4. QED BY <5>1, <5>2, <5>3
      <4>3. CASE d # c
        BY <2>3, <3>1, <4>1, <4>3 DEF Registered
      <4>4. QED BY <4>2, <4>3
    <3>3. QED BY <3>1, <3>2
  <2>5. capture' = [d \in Callbacks |-> [x \in Objects |-> captures'[d][x].life]]
    BY <2>2 DEF TablesAgree
  <2>6. /\ life' \in [Objects -> {"absent", "live", "ended", "freed"}]
        /\ \A x \in Objects : life'[x] = "absent" <=> ~Exists(x)'
        /\ \A x \in Owners : life'[x] = objects'[x].life
    BY <2>2 DEF TablesAgree, Exists
  <2>7. QED BY <2>4, <2>5, <2>6 DEF TablesAgree
<1>7. ASSUME NEW c \in Callbacks, NEW o \in Objects, BindLogged(c, o) PROVE TablesAgree'
  <2>0. captures' = [captures EXCEPT ![c] = [captures[c] EXCEPT ![o] =
            [life |-> "active", mode |-> CaptureFact[c][o], bind |-> now, end |-> 0]]]
    BY <1>7 DEF BindLogged
  <2>1. CaptureFact[c][o] \in Modes
    <3>1. captures'[c][o].mode = CaptureFact[c][o]
      BY <2>0 DEF TypeOK
    <3>2. captures'[c][o] \in CaptureState
      BY DEF TypeOK
    <3>3. QED BY <3>1, <3>2 DEF CaptureState
  <2>2. Observer!CaptureBind(c, o, now)
    BY <1>7, <1>o, <2>1, ObservedKinds DEF BindLogged
  <2>3. capture' = [capture EXCEPT ![c][o] = "active"] /\ life' = life /\ callback' = callback
        /\ objects' = objects /\ callbacks' = callbacks
    BY <2>2, <1>7 DEF Observer!CaptureBind, BindLogged
  <2>4. ASSUME NEW d \in Callbacks, NEW x \in Objects
        PROVE  captures'[d][x].life = IF d = c /\ x = o THEN "active" ELSE captures[d][x].life
    BY <2>0 DEF TypeOK
  <2>5. capture' = [d \in Callbacks |-> [x \in Objects |-> captures'[d][x].life]]
    <3>1. capture' = [d \in Callbacks |-> IF d = c THEN [capture[c] EXCEPT ![o] = "active"] ELSE capture[d]]
      BY <2>3 DEF TablesAgree
    <3>2. ASSUME NEW d \in Callbacks PROVE capture'[d] = [x \in Objects |-> captures'[d][x].life]
      <4>1. capture[d] = [x \in Objects |-> captures[d][x].life]
        BY DEF TablesAgree
      <4>2. capture'[d] = [x \in Objects |-> IF d = c /\ x = o THEN "active" ELSE captures[d][x].life]
        BY <3>1, <4>1
      <4>3. QED BY <2>4, <4>2
    <3>3. QED BY <3>1, <3>2
  <2>6. QED BY <2>3, <2>5 DEF TablesAgree, Exists, Registered
<1>8. ASSUME NEW o \in Objects, DropLogged(o) PROVE TablesAgree'
  <2>1. Observer!EndObject(o, "ended", now)
    BY <1>8, <1>o, <1>x, ObservedKinds DEF DropLogged
  <2>2. \A x \in Objects : objects'[x] = objects[x] \/ (x = o /\ Exists(o)')
    BY <1>8 DEF DropLogged, TypeOK, ObjectState, Exists
  <2>3. o \in Owners => objects'[o].life = "ended" /\ CloseOwner(o)
    <3>1. ASSUME o \in Owners PROVE objects[o].life # "freed"
      <4>1. objects[o].life = "freed" => Frees(o) # {}
        BY DEF TablesInTrace, ObjectInTrace
      <4>2. QED BY <4>1, <3>1, PlainBefore DEF Plain
    <3>2. QED BY <3>1, <1>8 DEF DropLogged, TypeOK, ObjectState
  <2>4. QED BY <2>1, <2>2, <2>3, <1>8, EndAgrees DEF DropLogged, RecordsOrdered
<1>9. ASSUME NEW o \in Objects, FreeLogged(o) PROVE TablesAgree'
  <2>0. o \notin Owners /\ objects[o].life # "freed"
    BY <1>9, PlainFree
  <2>1. Observer!EndObject(o, "freed", now)
    BY <1>9, <1>o, <1>x, ObservedKinds DEF FreeLogged
  <2>2. \A x \in Objects : objects'[x] = objects[x] \/ (x = o /\ Exists(o)')
    BY <1>9, <2>0 DEF FreeLogged, TypeOK, ObjectState, Exists
  <2>3. QED BY <2>0, <2>1, <2>2, <1>9, EndAgrees DEF FreeLogged, RecordsOrdered
<1>10. QED BY <1>1, <1>2, <1>3, <1>4, <1>5, <1>6, <1>7, <1>8, <1>9 DEF LoggedStep


\* The borrows that ended while their callback was retained, by table.
EndedWhileRetained ==
    {p \in Callbacks \X Objects :
        /\ captures[p[1]][p[2]].life = "ended"
        /\ \A i \in Releases(p[1]) : captures[p[1]][p[2]].end <= i}

EndsSeen == {captures[p[1]][p[2]].end : p \in EndedWhileRetained}

\* The invocations of a callback that was still retained, after a borrow of it
\* had ended.
InvokedAfterEnd ==
    {i \in DOMAIN log :
        \E c \in Callbacks, o \in Objects :
            /\ captures[c][o].life = "ended" /\ captures[c][o].end < i
            /\ i \in Invokes(c) /\ \A j \in Releases(c) : i <= j}

\* The mark of a state is at its first event.
FirstMark(m, S) == IF S = {} THEN m = 0 ELSE m \in S /\ \A i \in S : m <= i

SnapshotAgrees ==
    /\ IsFiniteSet(EndedWhileRetained)
    /\ snapshot["borrow_ended_retained"].count = Cardinality(EndedWhileRetained)
    /\ FirstMark(snapshot["borrow_ended_retained"].first, EndsSeen)
    /\ FirstMark(snapshot["invoked_after_end"].first, InvokedAfterEnd)

\* The borrows that the step ends while their callback is retained.
EndingRetained ==
    {p \in Callbacks \X Objects :
        /\ captures[p[1]][p[2]].life = "active" /\ captures'[p[1]][p[2]].life = "ended"
        /\ callbacks[p[1]].life = "retained"}

\* A mark is set once.
LEMMA MarkStep ==
    ASSUME NEW S \in SUBSET Nat, NEW n \in Nat, \A i \in S : 0 < i /\ i < n,
           NEW m, FirstMark(m, S), NEW hit \in BOOLEAN
    PROVE  FirstMark(IF m = 0 /\ hit THEN n ELSE m, IF hit THEN S \cup {n} ELSE S)
<1>1. CASE S = {}
  BY <1>1 DEF FirstMark
<1>2. CASE S # {}
  <2>1. m \in S /\ \A i \in S : m <= i
    BY <1>2 DEF FirstMark
  <2>2. m \in Nat /\ m # 0 /\ m <= n
    BY <2>1
  <2>3. QED BY <1>2, <2>1, <2>2 DEF FirstMark
<1>3. QED BY <1>1, <1>2

\* Whether a registered callback is retained shows in the trace.
LEMMA RetainedIs ==
    ASSUME TypeOK, TablesInTrace, NEW c \in Callbacks, Registered(c)
    PROVE  callbacks[c].life = "retained" <=> Releases(c) = {}
<1>1. CallbackInTrace(c) /\ callbacks[c] \in CallbackState
  BY DEF TablesInTrace, TypeOK
<1>2. QED BY <1>1 DEF CallbackInTrace, CallbackState, Registered

\* The borrows that ended while retained are joined by those that end now.
LEMMA EndsGrow ==
    ASSUME TypeOK, RecordsOrdered, LogTyped, TablesInTrace, TablesInTrace', LoggedStep
    PROVE  /\ EndedWhileRetained' = EndedWhileRetained \cup EndingRetained
           /\ EndedWhileRetained \cap EndingRetained = {}
           /\ EndsSeen' = IF EndingRetained = {} THEN EndsSeen ELSE EndsSeen \cup {now}
           /\ \A i \in EndsSeen : i \in Nat /\ 0 < i /\ i < now
<1>l. clock \in Nat /\ now \in Nat /\ now = clock + 1
  BY LogPast
<1>r. \A c : \A i \in Releases(c) : i \in Nat /\ i < now
  BY LogPast, ReleasesAre DEF ReleaseAt
<1>t. ASSUME NEW c \in Callbacks, NEW o \in Objects
      PROVE  \/ captures[c][o].life = "ended" /\ captures'[c][o] = captures[c][o]
             \/ captures[c][o].life # "ended" /\ captures'[c][o].life # "ended"
             \/ captures[c][o].life = "active" /\ captures'[c][o].life = "ended" /\ captures'[c][o].end = now
  BY EndedSteps
<1>e. ASSUME NEW c \in Callbacks, NEW o \in Objects, captures[c][o].life = "ended"
      PROVE  captures[c][o].end \in Nat /\ 0 < captures[c][o].end /\ captures[c][o].end < now /\ Registered(c)
  <2>1. captures[c][o].end \in Nat /\ captures[c][o].bind \in Nat /\ captures[c][o].end <= clock /\ Registered(c)
    BY <1>e, EndedFacts
  <2>2. captures[c][o].bind < captures[c][o].end
    BY <1>e DEF RecordsOrdered, CaptureRecords
  <2>3. QED BY <2>1, <2>2, <1>l
<1>g. ASSUME NEW c \in Callbacks, NEW o \in Objects, captures[c][o].life = "active" PROVE Registered(c)
  BY <1>g DEF RecordsOrdered, CaptureRecords, CallbackRecords, Registered
<1>s. ASSUME NEW c \in Callbacks, Registered(c) PROVE Releases(c)' = Releases(c) \/ Releases(c)' = Releases(c) \cup {now}
  BY <1>s, RegisteredSteps
<1>1. ASSUME NEW c \in Callbacks, NEW o \in Objects
      PROVE  /\ <<c, o>> \in EndedWhileRetained' <=> <<c, o>> \in EndedWhileRetained \/ <<c, o>> \in EndingRetained
             /\ ~(<<c, o>> \in EndedWhileRetained /\ <<c, o>> \in EndingRetained)
             /\ <<c, o>> \in EndedWhileRetained => captures'[c][o] = captures[c][o]
             /\ <<c, o>> \in EndingRetained => captures'[c][o].end = now
  <2>1. <<c, o>> \in EndedWhileRetained <=>
            captures[c][o].life = "ended" /\ \A i \in Releases(c) : captures[c][o].end <= i
    BY DEF EndedWhileRetained
  <2>2. <<c, o>> \in EndedWhileRetained' <=>
            captures'[c][o].life = "ended" /\ \A i \in Releases(c)' : captures'[c][o].end <= i
    BY DEF EndedWhileRetained
  <2>3. <<c, o>> \in EndingRetained <=>
            /\ captures[c][o].life = "active" /\ captures'[c][o].life = "ended"
            /\ callbacks[c].life = "retained"
    BY DEF EndingRetained
  <2>4. CASE captures[c][o].life = "ended"
    <3>1. captures'[c][o] = captures[c][o]
      BY <1>t, <2>4
    <3>2. (\A i \in Releases(c)' : captures[c][o].end <= i) <=> (\A i \in Releases(c) : captures[c][o].end <= i)
      BY <1>s, <1>e, <2>4, <1>l
    <3>3. QED BY <2>1, <2>2, <2>3, <2>4, <3>1, <3>2
  <2>5. CASE captures[c][o].life # "ended" /\ captures'[c][o].life = "ended"
    <3>1. captures[c][o].life = "active" /\ captures'[c][o].end = now
      BY <1>t, <2>5
    <3>2. Registered(c)
      BY <3>1, <1>g
    <3>3. (\A i \in Releases(c)' : now <= i) <=> Releases(c) = {}
      BY <1>s, <3>2, <1>l, <1>r
    <3>4. QED BY <2>1, <2>2, <2>3, <2>5, <3>1, <3>2, <3>3, RetainedIs
  <2>6. CASE captures[c][o].life # "ended" /\ captures'[c][o].life # "ended"
    BY <2>1, <2>2, <2>3, <2>6
  <2>7. QED BY <2>4, <2>5, <2>6
<1>p. \A p : p \in EndedWhileRetained \/ p \in EndedWhileRetained' \/ p \in EndingRetained =>
          p[1] \in Callbacks /\ p[2] \in Objects /\ p = <<p[1], p[2]>>
  BY DEF EndedWhileRetained, EndingRetained
<1>2. EndedWhileRetained' = EndedWhileRetained \cup EndingRetained /\ EndedWhileRetained \cap EndingRetained = {}
  BY <1>1, <1>p
<1>3. \A p \in EndedWhileRetained : captures'[p[1]][p[2]].end = captures[p[1]][p[2]].end
  BY <1>1, <1>p
<1>4. \A p \in EndingRetained : captures'[p[1]][p[2]].end = now
  BY <1>1, <1>p
<1>5. EndsSeen' = {captures'[p[1]][p[2]].end : p \in EndedWhileRetained'}
  BY DEF EndsSeen
<1>6. EndsSeen' = IF EndingRetained = {} THEN EndsSeen ELSE EndsSeen \cup {now}
  BY <1>2, <1>3, <1>4, <1>5 DEF EndsSeen
<1>7. \A i \in EndsSeen : i \in Nat /\ 0 < i /\ i < now
  <2>1. \A p \in EndedWhileRetained : captures[p[1]][p[2]].life = "ended"
    BY DEF EndedWhileRetained
  <2>2. QED BY <2>1, <1>e, <1>p DEF EndsSeen
<1>8. QED BY <1>2, <1>6, <1>7


\* An invocation joins those after an end if its callback is retained and one
\* of its borrows has ended.
LEMMA InvokedGrow ==
    ASSUME TypeOK, RecordsOrdered, LogTyped, TablesInTrace, TablesInTrace', LoggedStep
    PROVE  /\ InvokedAfterEnd' = IF \E c \in Callbacks : /\ InvokeLogged(c) /\ callbacks[c].life = "retained"
                                                         /\ \E o \in Objects : captures[c][o].life = "ended"
                                 THEN InvokedAfterEnd \cup {now} ELSE InvokedAfterEnd
           /\ \A i \in InvokedAfterEnd : i \in Nat /\ 0 < i /\ i < now
<1>l. /\ clock \in Nat /\ now \in Nat /\ now = clock + 1
      /\ \A i \in DOMAIN log : i \in Nat /\ 0 < i /\ i < now
  BY LogPast
<1>d. DOMAIN log' = DOMAIN log \cup {now}
  BY DEF LoggedStep, MarkLogged, CreateLogged, RegisterLogged, BindLogged, UnregisterLogged,
         InvokeLogged, UseLogged, DropLogged, FreeLogged, Adds
<1>r. \A c : \A i \in Releases(c) : i \in Nat /\ i < now
  BY LogPast, ReleasesAre DEF ReleaseAt
<1>i. ASSUME NEW c \in Callbacks
      PROVE  /\ \A i \in Invokes(c) : i \in Nat /\ i < now
             /\ \/ Invokes(c)' = Invokes(c) /\ ~InvokeLogged(c)
                \/ Invokes(c)' = Invokes(c) \cup {now} /\ InvokeLogged(c)
  BY InvokesGrow, <1>l
<1>t. ASSUME NEW c \in Callbacks, NEW o \in Objects
      PROVE  \/ captures[c][o].life = "ended" /\ captures'[c][o] = captures[c][o]
             \/ captures[c][o].life # "ended" /\ captures'[c][o].life # "ended"
             \/ captures[c][o].life # "ended" /\ captures'[c][o].life = "ended" /\ captures'[c][o].end = now
  BY EndedSteps
<1>e. ASSUME NEW c \in Callbacks, NEW o \in Objects, captures[c][o].life = "ended"
      PROVE  captures[c][o].end \in Nat /\ captures[c][o].end < now /\ Registered(c)
  BY <1>e, <1>l, EndedFacts
<1>s. ASSUME NEW c \in Callbacks, Registered(c)
      PROVE  /\ Releases(c)' = Releases(c) \/ Releases(c)' = Releases(c) \cup {now}
             /\ callbacks[c].life = "retained" <=> Releases(c) = {}
  BY <1>s, RegisteredSteps, RetainedIs
<1> DEFINE After(i, c, o) == /\ captures[c][o].life = "ended" /\ captures[c][o].end < i
                             /\ i \in Invokes(c) /\ \A j \in Releases(c) : i <= j
           Hit(c) == /\ InvokeLogged(c) /\ callbacks[c].life = "retained"
                     /\ \E o \in Objects : captures[c][o].life = "ended"
<1>1. ASSUME NEW i \in DOMAIN log, NEW c \in Callbacks, NEW o \in Objects PROVE After(i, c, o)' <=> After(i, c, o)
  <2>0. i \in Nat /\ i < now /\ i # now /\ (i \in Invokes(c)' <=> i \in Invokes(c))
    BY <1>l, <1>i
  <2>1. CASE captures[c][o].life = "ended"
    <3>1. (\A j \in Releases(c)' : i <= j) <=> (\A j \in Releases(c) : i <= j)
      BY <1>s, <1>e, <2>0, <2>1, <1>l
    <3>2. captures'[c][o] = captures[c][o]
      BY <1>t, <2>1
    <3>3. QED BY <2>0, <3>1, <3>2
  <2>2. CASE captures[c][o].life # "ended"
    <3>1. captures'[c][o].life = "ended" => captures'[c][o].end = now
      BY <1>t, <2>2
    <3>2. QED BY <2>0, <2>2, <3>1, <1>l
  <2>3. QED BY <2>1, <2>2
<1>n. PICK n : n = now
  OBVIOUS
<1>2. ASSUME NEW c \in Callbacks PROVE (\E o \in Objects : After(n, c, o)') <=> Hit(c)
  <2>1. n \in Invokes(c)' <=> InvokeLogged(c)
    BY <1>n, <1>i, <1>l
  <2>2. ASSUME NEW o \in Objects, InvokeLogged(c)
        PROVE  After(n, c, o)' <=> captures[c][o].life = "ended" /\ callbacks[c].life = "retained"
    <3>1. captures' = captures
      BY <2>2 DEF InvokeLogged
    <3>2. CASE captures[c][o].life = "ended"
      <4>1. Releases(c)' = Releases(c) \/ Releases(c)' = Releases(c) \cup {now}
        BY <3>2, <1>e, <1>s
      <4>2. Releases(c)' = Releases(c)
        <5>1. Adds("invoke", NoObjectId, c)
          BY <2>2 DEF InvokeLogged
        <5>2. Registers(c)' = Registers(c)
          BY <5>1, CallbackSetsGrow
        <5>3. QED BY <5>1, <5>2, ReleasesGrow
      <4>3. (\A j \in Releases(c)' : n <= j) <=> Releases(c) = {}
        BY <4>2, <1>r, <1>n, <1>l
      <4>4. QED BY <2>1, <2>2, <3>1, <3>2, <4>3, <1>e, <1>s, <1>n
    <3>3. QED BY <3>1, <3>2
  <2>3. QED BY <2>1, <2>2
<1>3. \A i : i \in InvokedAfterEnd <=> i \in DOMAIN log /\ \E c \in Callbacks, o \in Objects : After(i, c, o)
  BY DEF InvokedAfterEnd
<1>4. \A i : i \in InvokedAfterEnd' <=> i \in DOMAIN log' /\ \E c \in Callbacks, o \in Objects : After(i, c, o)'
  BY DEF InvokedAfterEnd
<1> HIDE DEF After, Hit
<1>5. \A i : i \in InvokedAfterEnd' <=> i \in InvokedAfterEnd \/ (i = now /\ \E c \in Callbacks : Hit(c))
  BY <1>1, <1>2, <1>3, <1>4, <1>d, <1>n, <1>l
<1>6. InvokedAfterEnd' = IF \E c \in Callbacks : Hit(c) THEN InvokedAfterEnd \cup {now} ELSE InvokedAfterEnd
  BY <1>5
<1>7. \A i \in InvokedAfterEnd : i \in Nat /\ 0 < i /\ i < now
  BY <1>3, <1>l
<1>8. QED BY <1>6, <1>7 DEF Hit


\* The borrows of one object end for finitely many callbacks: each has its own
\* bind in the trace.
LEMMA EndingFinite ==
    ASSUME TypeOK, LogTyped, TablesInTrace, NEW o \in Objects, NEW S \in SUBSET Callbacks,
           \A c \in S : captures[c][o].life = "active"
    PROVE  IsFiniteSet(S)
<1> DEFINE f == [c \in S |-> captures[c][o].bind]
<1>1. ASSUME NEW c \in S PROVE captures[c][o].bind \in 1..clock /\ log[captures[c][o].bind] = Event("bind", o, c)
  <2>1. captures[c][o].bind \in Binds(c, o)
    BY DEF TablesInTrace, CaptureInTrace
  <2>2. QED BY <2>1, LogPast DEF Binds, Is
<1>2. \A c, d : Event("bind", o, c) = Event("bind", o, d) => c = d
  BY DEF Event
<1>3. f \in Injection(S, 1..clock)
  BY <1>1, <1>2 DEF Injection, IsInjective
<1>4. IsFiniteSet(1..clock)
  BY FS_Interval, LogPast
<1>5. QED BY <1>3, <1>4, FS_Injection

\* The observer counts as the oracle's modules do.
LEMMA SameCardinality == \A S : Observer!Cardinality(S) = Cardinality(S)
BY DEF Observer!Cardinality, Cardinality

\* The observer counts the borrows that end while their callback is retained.
LEMMA EndingCounted ==
    ASSUME TypeOK, LogTyped, TablesInTrace, TablesAgree, NEW o \in Objects, NEW how,
           Observer!EndObject(o, how, now), EndBorrowed(o)
    PROVE  LET n == Cardinality(EndingRetained)
               m == snapshot["borrow_ended_retained"].first
           IN /\ IsFiniteSet(EndingRetained)
              /\ snapshot'["borrow_ended_retained"].count = snapshot["borrow_ended_retained"].count + n
              /\ snapshot'["borrow_ended_retained"].first = IF m = 0 /\ n > 0 THEN now ELSE m
              /\ snapshot'["invoked_after_end"].first = snapshot["invoked_after_end"].first
<1> DEFINE ending == {c \in Callbacks : Observer!Borrowed(c, o) /\ capture[c][o] = "active"}
           kept == {c \in Callbacks : Observer!Retained(c) /\ o \in callback[c].owner}
           E == {c \in ending : Observer!Retained(c)}
           hits == [s \in Observer!FeedbackStates |->
                       CASE s = "borrow_ended_retained" -> Observer!Cardinality(E)
                         [] s = "closed_owner_with_retained_callback" /\ o \in Owners /\ kept # {} -> 1
                         [] OTHER -> 0]
<1>0. Observer!Record(hits, now)
  BY Zenon DEF Observer!EndObject
<1> HIDE DEF hits
<1>1. snapshot' = [s \in Observer!FeedbackStates |->
          [first |-> IF snapshot[s].first = 0 /\ hits[s] > 0 THEN now ELSE snapshot[s].first,
           count |-> snapshot[s].count + hits[s]]]
  BY <1>0 DEF Observer!Record
<1> USE DEF hits
<1>2. hits["borrow_ended_retained"] = Cardinality(E) /\ hits["invoked_after_end"] = 0
  BY SameCardinality DEF Observer!FeedbackStates
<1> HIDE DEF hits, kept, E
<1>3. /\ snapshot'["borrow_ended_retained"].count = snapshot["borrow_ended_retained"].count + Cardinality(E)
      /\ snapshot'["borrow_ended_retained"].first =
             IF snapshot["borrow_ended_retained"].first = 0 /\ Cardinality(E) > 0 THEN now
             ELSE snapshot["borrow_ended_retained"].first
      /\ snapshot'["invoked_after_end"].first = snapshot["invoked_after_end"].first
  <2>1. \A s \in Observer!FeedbackStates :
            /\ snapshot'[s].first = IF snapshot[s].first = 0 /\ hits[s] > 0 THEN now ELSE snapshot[s].first
            /\ snapshot'[s].count = snapshot[s].count + hits[s]
    BY <1>1
  <2>2. "borrow_ended_retained" \in Observer!FeedbackStates /\ "invoked_after_end" \in Observer!FeedbackStates
    BY DEF Observer!FeedbackStates
  <2>3. QED BY <1>2, <2>1, <2>2
<1> USE DEF E
<1>4. ASSUME NEW c \in Callbacks
      PROVE  c \in E <=> /\ captures[c][o].life = "active" /\ captures[c][o].mode = "borrowed"
                         /\ callbacks[c].life = "retained"
  <2>1. capture[c][o] = captures[c][o].life /\ callback[c].state = callbacks[c].life
    BY DEF TablesAgree
  <2>2. captures[c][o].life # "absent" => captures[c][o].mode = CaptureFact[c][o]
    BY DEF TablesInTrace, CaptureInTrace
  <2>3. QED BY <2>1, <2>2 DEF Observer!Borrowed, Observer!Retained
<1>5. E \in SUBSET Callbacks
  OBVIOUS
<1> HIDE DEF E
<1>6. IsFiniteSet(E)
  BY <1>4, <1>5, EndingFinite
<1>7. ASSUME NEW c \in Callbacks, NEW x \in Objects
      PROVE  <<c, x>> \in EndingRetained <=> x = o /\ c \in E
  <2>1. captures[c][x].life = "active" /\ captures'[c][x].life = "ended" <=>
            x = o /\ captures[c][x].life = "active" /\ captures[c][x].mode = "borrowed"
    BY EndBorrowedEffect
  <2>2. <<c, x>> \in EndingRetained <=>
            /\ captures[c][x].life = "active" /\ captures'[c][x].life = "ended"
            /\ callbacks[c].life = "retained"
    BY DEF EndingRetained
  <2>3. QED BY <2>1, <2>2, <1>4
<1>8. \A p \in EndingRetained : p[1] \in Callbacks /\ p[2] \in Objects /\ p = <<p[1], p[2]>>
  BY DEF EndingRetained
<1>9. EndingRetained = {<<c, o>> : c \in E}
  BY <1>5, <1>7, <1>8
<1> DEFINE f == [c \in E |-> <<c, o>>]
<1>10. f \in Bijection(E, EndingRetained)
  <2>1. f \in [E -> EndingRetained] /\ \A p \in EndingRetained : \E c \in E : f[c] = p
    BY <1>9
  <2>2. \A c, d \in E : f[c] = f[d] => c = d
    OBVIOUS
  <2>3. QED BY <2>1, <2>2 DEF Bijection, Injection, Surjection, IsInjective
<1>11. IsFiniteSet(EndingRetained) /\ Cardinality(EndingRetained) = Cardinality(E)
  BY <1>6, <1>10, FS_Bijection DEF ExistsBijection
<1>12. QED BY <1>3, <1>11


\* A call that records one feedback state leaves the others alone.
LEMMA RecordedAlone ==
    ASSUME NEW state \in Observer!FeedbackStates, NEW cond \in BOOLEAN, Observer!RecordIf(state, cond, now)
    PROVE  \A s \in Observer!FeedbackStates :
               /\ snapshot'[s].first = IF snapshot[s].first = 0 /\ s = state /\ cond THEN now ELSE snapshot[s].first
               /\ snapshot'[s].count = snapshot[s].count + (IF s = state /\ cond THEN 1 ELSE 0)
<1> DEFINE hits == [s \in Observer!FeedbackStates |-> IF s = state /\ cond THEN 1 ELSE 0]
<1>1. Observer!Record(hits, now)
  BY DEF Observer!RecordIf
<1>2. \A s \in Observer!FeedbackStates :
          hits[s] = (IF s = state /\ cond THEN 1 ELSE 0) /\ (hits[s] > 0 <=> s = state /\ cond)
  OBVIOUS
<1> HIDE DEF hits
<1>3. QED BY <1>1, <1>2 DEF Observer!Record

\* Every event of a plain trace keeps the feedback that of the tables.
LEMMA SnapshotStep ==
    ASSUME TypeOK, TypeOK', RecordsOrdered, LogTyped, TablesInTrace, TablesInTrace', LoggedStep, ObservedNext,
           TablesAgree, SnapshotAgrees, Plain'
    PROVE  SnapshotAgrees'
<1> DEFINE ended == snapshot["borrow_ended_retained"]
           invoked == snapshot["invoked_after_end"]
           Hit == \E c \in Callbacks : /\ InvokeLogged(c) /\ callbacks[c].life = "retained"
                                       /\ \E o \in Objects : captures[c][o].life = "ended"
<1>o. \A k, o, c : Adds(k, o, c) => Observer!Observe(Event(k, o, c), now)
  BY Observing
<1>x. \A o \in Objects : Exists(o) => life[o] # "absent"
  BY DEF TablesAgree
<1>n. now \in Nat
  BY LogPast
<1>f. "borrow_ended_retained" \in Observer!FeedbackStates /\ "invoked_after_end" \in Observer!FeedbackStates
  BY DEF Observer!FeedbackStates
<1>e. /\ EndedWhileRetained' = EndedWhileRetained \cup EndingRetained
      /\ EndedWhileRetained \cap EndingRetained = {}
      /\ EndsSeen' = IF EndingRetained = {} THEN EndsSeen ELSE EndsSeen \cup {now}
      /\ \A i \in EndsSeen : i \in Nat /\ 0 < i /\ i < now
  BY EndsGrow
<1>i. /\ InvokedAfterEnd' = IF Hit THEN InvokedAfterEnd \cup {now} ELSE InvokedAfterEnd
      /\ \A i \in InvokedAfterEnd : i \in Nat /\ 0 < i /\ i < now
  BY InvokedGrow
<1>c. Cardinality(EndedWhileRetained) \in Nat
  BY FS_CardinalityType DEF SnapshotAgrees
<1> HIDE DEF Hit
\* It is enough to know what the event adds to the counts and the marks.
<1>s. ASSUME IsFiniteSet(EndingRetained),
             snapshot'["borrow_ended_retained"].count = ended.count + Cardinality(EndingRetained),
             snapshot'["borrow_ended_retained"].first =
                 IF ended.first = 0 /\ EndingRetained # {} THEN now ELSE ended.first,
             snapshot'["invoked_after_end"].first = IF invoked.first = 0 /\ Hit THEN now ELSE invoked.first
      PROVE  SnapshotAgrees'
  <2>1. IsFiniteSet(EndedWhileRetained')
    BY <1>e, <1>s, FS_Union DEF SnapshotAgrees
  <2>2. Cardinality(EndedWhileRetained') = Cardinality(EndedWhileRetained) + Cardinality(EndingRetained)
    <3>1. Cardinality(EndingRetained) \in Nat
      BY <1>s, FS_CardinalityType
    <3>2. Cardinality(EndedWhileRetained \cap EndingRetained) = 0
      BY <1>e, FS_EmptySet
    <3>3. QED BY <1>e, <1>s, <1>c, <3>1, <3>2, FS_Union DEF SnapshotAgrees
  <2>3. snapshot'["borrow_ended_retained"].count = Cardinality(EndedWhileRetained')
    BY <1>s, <2>2 DEF SnapshotAgrees
  <2>4. FirstMark(snapshot'["borrow_ended_retained"].first, EndsSeen')
    <3>1. FirstMark(IF ended.first = 0 /\ EndingRetained # {} THEN now ELSE ended.first,
                    IF EndingRetained # {} THEN EndsSeen \cup {now} ELSE EndsSeen)
      BY <1>e, <1>n, MarkStep DEF SnapshotAgrees
    <3>2. QED BY <1>e, <1>s, <3>1
  <2>5. FirstMark(snapshot'["invoked_after_end"].first, InvokedAfterEnd')
    <3>1. FirstMark(IF invoked.first = 0 /\ Hit THEN now ELSE invoked.first,
                    IF Hit THEN InvokedAfterEnd \cup {now} ELSE InvokedAfterEnd)
      BY <1>i, <1>n, MarkStep DEF SnapshotAgrees, Hit
    <3>2. QED BY <1>i, <1>s, <3>1
  <2>6. QED BY <2>1, <2>3, <2>4, <2>5 DEF SnapshotAgrees
<1>k. \A k, o, d, x, y, z : Adds(k, o, d) /\ Adds(x, y, z) => k = x /\ o = y /\ d = z
  BY DEF Adds, Event
<1>h. ASSUME NEW k, NEW o, NEW d, Adds(k, o, d), k # "invoke" PROVE ~Hit
  BY <1>h, <1>k DEF Hit, InvokeLogged
\* Where no capture ends, nothing is counted as ended.
<1>q. ASSUME \A c \in Callbacks, o \in Objects : captures'[c][o].life = "ended" => captures[c][o].life = "ended"
      PROVE  /\ EndingRetained = {} /\ IsFiniteSet(EndingRetained) /\ Cardinality(EndingRetained) = 0
             /\ ended.count + Cardinality(EndingRetained) = ended.count
  <2>1. EndingRetained = {}
    BY <1>q DEF EndingRetained
  <2>2. Cardinality(EndingRetained) = 0 /\ IsFiniteSet(EndingRetained)
    BY <2>1, FS_EmptySet
  <2>3. QED BY <2>1, <2>2, <1>c DEF SnapshotAgrees
<1>u. ASSUME UNCHANGED <<snapshot, captures>>, ~Hit PROVE SnapshotAgrees'
  BY <1>u, <1>q, <1>s
<1>r. ASSUME NEW state \in Observer!FeedbackStates, state # "borrow_ended_retained", NEW cond \in BOOLEAN,
             Observer!RecordIf(state, cond, now)
      PROVE  /\ snapshot'["borrow_ended_retained"].count = ended.count
             /\ snapshot'["borrow_ended_retained"].first = ended.first
             /\ snapshot'["invoked_after_end"].first =
                    IF invoked.first = 0 /\ state = "invoked_after_end" /\ cond THEN now ELSE invoked.first
  BY <1>r, <1>f, <1>c, RecordedAlone DEF SnapshotAgrees
<1>1. ASSUME NEW k \in {"start", "marker"}, MarkLogged(k) PROVE SnapshotAgrees'
  <2>1. UNCHANGED observer /\ UNCHANGED captures /\ ~Hit
    BY <1>1, <1>o, <1>h, ObservedKinds DEF MarkLogged
  <2>2. QED BY <2>1, <1>u DEF observer
<1>2. ASSUME NEW o \in Objects, UseLogged(o) PROVE SnapshotAgrees'
  <2>1. UNCHANGED observer /\ UNCHANGED captures /\ ~Hit
    BY <1>2, <1>o, <1>h, ObservedKinds DEF UseLogged
  <2>2. QED BY <2>1, <1>u DEF observer
<1>3. ASSUME NEW c \in Callbacks, InvokeLogged(c) PROVE SnapshotAgrees'
  <2> DEFINE cond == Observer!Retained(c) /\ Observer!Held(c, "ended") # {}
  <2>1. Observer!CallbackInvoke(c, now) /\ UNCHANGED captures
    BY <1>3, <1>o, ObservedKinds DEF InvokeLogged
  <2>2. Observer!RecordIf("invoked_after_end", cond, now)
    BY <2>1 DEF Observer!CallbackInvoke
  <2>3. Hit <=> callbacks[c].life = "retained" /\ \E o \in Objects : captures[c][o].life = "ended"
    <3>1. \A d \in Callbacks : InvokeLogged(d) => d = c
      BY <1>3, <1>k DEF InvokeLogged
    <3>2. QED BY <1>3, <3>1 DEF Hit
  <2>4. cond <=> Hit
    <3>1. callback[c].state = callbacks[c].life /\ \A o \in Objects : capture[c][o] = captures[c][o].life
      BY DEF TablesAgree
    <3>2. \A o \in Objects : captures[c][o].life = "ended" => CaptureFact[c][o] = "borrowed"
      BY EndedFacts
    <3>3. QED BY <2>3, <3>1, <3>2 DEF Observer!Retained, Observer!Held, Observer!Borrowed
  <2>5. /\ snapshot'["borrow_ended_retained"].count = ended.count
        /\ snapshot'["borrow_ended_retained"].first = ended.first
        /\ snapshot'["invoked_after_end"].first = IF invoked.first = 0 /\ Hit THEN now ELSE invoked.first
    <3> HIDE DEF cond
    <3>1. cond \in BOOLEAN
      BY DEF cond
    <3>2. QED BY <2>2, <2>4, <3>1, <1>r, <1>f
  <2>6. QED BY <2>1, <2>5, <1>q, <1>s
<1>4. ASSUME NEW o \in Objects, CreateLogged(o) PROVE SnapshotAgrees'
  <2>1. Observer!ObjectCreate(o) /\ UNCHANGED captures /\ ~Hit
    BY <1>4, <1>o, <1>h, ObservedKinds DEF CreateLogged
  <2>2. QED BY <2>1, <1>u DEF Observer!ObjectCreate
<1>5. ASSUME NEW c \in Callbacks, NEW w \in Objects, RegisterLogged(c, w) PROVE SnapshotAgrees'
  <2>1. Observer!CallbackRegister(c, w) /\ UNCHANGED captures /\ ~Hit
    BY <1>5, <1>o, <1>h, ObservedKinds DEF RegisterLogged
  <2>2. QED BY <2>1, <1>u DEF Observer!CallbackRegister
<1>6. ASSUME NEW c \in Callbacks, NEW w \in Objects, UnregisterLogged(c, w) PROVE SnapshotAgrees'
  <2> DEFINE cond == Observer!Retained(c) /\ \E x \in Observer!Held(c, "active") : life[x] = "live"
  <2>1. Observer!CallbackUnregister(c, now) /\ UNCHANGED captures /\ ~Hit
    BY <1>6, <1>o, <1>h, ObservedKinds DEF UnregisterLogged
  <2>2. Observer!RecordIf("released_before_end", cond, now)
    BY <2>1 DEF Observer!CallbackUnregister
  <2>3. /\ snapshot'["borrow_ended_retained"].count = ended.count
        /\ snapshot'["borrow_ended_retained"].first = ended.first
        /\ snapshot'["invoked_after_end"].first = invoked.first
    <3> HIDE DEF cond
    <3>1. cond \in BOOLEAN /\ "released_before_end" \in Observer!FeedbackStates
      BY DEF cond, Observer!FeedbackStates
    <3>2. QED BY <2>2, <3>1, <1>r
  <2>4. QED BY <2>1, <2>3, <1>q, <1>s
<1>7. ASSUME NEW c \in Callbacks, NEW o \in Objects, BindLogged(c, o) PROVE SnapshotAgrees'
  <2> DEFINE cond == Observer!Borrowed(c, o) /\ Observer!Retained(c)
  <2>0. captures' = [captures EXCEPT ![c] = [captures[c] EXCEPT ![o] =
            [life |-> "active", mode |-> CaptureFact[c][o], bind |-> now, end |-> 0]]]
    BY <1>7 DEF BindLogged
  <2>1. CaptureFact[c][o] \in Modes
    <3>1. captures'[c][o].mode = CaptureFact[c][o]
      BY <2>0 DEF TypeOK
    <3>2. captures'[c][o] \in CaptureState
      BY DEF TypeOK
    <3>3. QED BY <3>1, <3>2 DEF CaptureState
  <2>2. Observer!CaptureBind(c, o, now) /\ ~Hit
    BY <1>7, <1>o, <1>h, <2>1, ObservedKinds DEF BindLogged
  <2>3. Observer!RecordIf("borrowed_retained", cond, now)
    BY <2>2 DEF Observer!CaptureBind
  <2>4. /\ snapshot'["borrow_ended_retained"].count = ended.count
        /\ snapshot'["borrow_ended_retained"].first = ended.first
        /\ snapshot'["invoked_after_end"].first = invoked.first
    <3> HIDE DEF cond
    <3>1. cond \in BOOLEAN /\ "borrowed_retained" \in Observer!FeedbackStates
      BY DEF cond, Observer!FeedbackStates
    <3>2. QED BY <2>3, <3>1, <1>r
  <2>5. \A d \in Callbacks, x \in Objects : captures'[d][x].life = "ended" => captures[d][x].life = "ended"
    BY <2>0 DEF TypeOK
  <2>6. QED BY <2>2, <2>4, <2>5, <1>q, <1>s
<1>8. ASSUME NEW o \in Objects, DropLogged(o) \/ FreeLogged(o) PROVE SnapshotAgrees'
  <2>1. EndBorrowed(o) /\ ~Hit
    <3>1. FreeLogged(o) => objects[o].life # "freed"
      BY PlainFree
    <3>2. QED BY <1>8, <3>1, <1>h DEF DropLogged, FreeLogged
  <2>2. Observer!EndObject(o, "ended", now) \/ Observer!EndObject(o, "freed", now)
    BY <1>8, <1>o, <1>x, ObservedKinds DEF DropLogged, FreeLogged
  <2>3. /\ IsFiniteSet(EndingRetained)
        /\ snapshot'["borrow_ended_retained"].count = ended.count + Cardinality(EndingRetained)
        /\ snapshot'["borrow_ended_retained"].first =
               IF ended.first = 0 /\ Cardinality(EndingRetained) > 0 THEN now ELSE ended.first
        /\ snapshot'["invoked_after_end"].first = invoked.first
    BY <2>1, <2>2, EndingCounted
  <2>4. Cardinality(EndingRetained) > 0 <=> EndingRetained # {}
    BY <2>3, FS_EmptySet, FS_CardinalityType
  <2>5. QED BY <2>1, <2>3, <2>4, <1>s
<1>9. QED BY <1>1, <1>2, <1>3, <1>4, <1>5, <1>6, <1>7, <1>8 DEF LoggedStep


\* The ended borrows by whether the oracle reported them: before any release, or
\* in the drop that released the callback.
ReportedEnds ==
    {p \in EndedWhileRetained : \A i \in Releases(p[1]) : i > captures[p[1]][p[2]].end}
ReleasingEnds ==
    {p \in EndedWhileRetained : captures[p[1]][p[2]].end \in Releases(p[1])}

\* The two kinds of ended borrows are all there are, and none is of both.
LEMMA EndsSplit ==
    ASSUME TypeOK, RecordsOrdered, LogTyped, TablesInTrace
    PROVE  /\ EndedWhileRetained = ReportedEnds \cup ReleasingEnds
           /\ ReportedEnds \cap ReleasingEnds = {}
<1>1. \A c : \A i \in Releases(c) : i \in Nat
  BY LogPast, ReleasesAre DEF ReleaseAt
<1>2. ASSUME NEW p \in EndedWhileRetained
      PROVE  /\ captures[p[1]][p[2]].end \in Nat
             /\ \A i \in Releases(p[1]) : captures[p[1]][p[2]].end <= i
  <2>1. p[1] \in Callbacks /\ p[2] \in Objects /\ captures[p[1]][p[2]].life = "ended"
    BY DEF EndedWhileRetained
  <2>2. QED BY <2>1, EndedFacts DEF EndedWhileRetained
<1>3. ASSUME NEW p \in EndedWhileRetained
      PROVE  (p \in ReportedEnds) <=> ~(p \in ReleasingEnds)
  BY <1>1, <1>2 DEF ReportedEnds, ReleasingEnds
<1>4. QED BY <1>3 DEF ReportedEnds, ReleasingEnds

\* The findings by rule.
LEMMA FindingsByRule ==
    ASSUME FindingsMatchTrace
    PROVE  FindingsOf("LIFE-003") = Exposures /\ FindingsOf("LIFE-002") = DanglingInvokes
<1>1. /\ \A f \in Exposures : f.rule = "LIFE-003"
      /\ \A f \in DanglingInvokes : f.rule = "LIFE-002"
      /\ \A f \in UsesAfterEnd : f.rule = "LIFE-001"
      /\ \A f \in RepeatedFrees : f.rule = "FREE-001"
  BY DEF Exposures, DanglingInvokes, UsesAfterEnd, RepeatedFrees, ExpectedFinding
<1>2. QED BY <1>1 DEF FindingsOf, FindingsMatchTrace, Expected

\* Each borrow that ended before any release is one LIFE-003 finding, at the end.
LEMMA ReportedAreFindings ==
    ASSUME TypeOK, RecordsOrdered, LogTyped, TablesInTrace, FindingsMatchTrace, IsFiniteSet(EndedWhileRetained)
    PROVE  /\ IsFiniteSet(ReportedEnds) /\ Cardinality(ReportedEnds) = Cardinality(FindingsOf("LIFE-003"))
           /\ {f.at : f \in FindingsOf("LIFE-003")} = {captures[p[1]][p[2]].end : p \in ReportedEnds}
<1> DEFINE F(c, o) == ExpectedFinding("LIFE-003", o, c, captures[c][o].bind, callbacks[c].register,
                                      captures[c][o].end, captures[c][o].end)
           g == [p \in ReportedEnds |-> F(p[1], p[2])]
<1>1. IsFiniteSet(ReportedEnds)
  BY FS_Subset DEF ReportedEnds
<1>r. \A c : \A i \in Releases(c) : i \in Nat
  BY LogPast, ReleasesAre DEF ReleaseAt
<1>2. ASSUME NEW c \in Callbacks, NEW o \in Objects
      PROVE  <<c, o>> \in ReportedEnds <=>
                 captures[c][o].life = "ended" /\ \A i \in Releases(c) : i > captures[c][o].end
  <2>1. captures[c][o].life = "ended" => captures[c][o].end \in Nat
    BY EndedFacts
  <2>2. QED BY <2>1, <1>r DEF ReportedEnds, EndedWhileRetained
<1>3. \A p \in ReportedEnds : p[1] \in Callbacks /\ p[2] \in Objects /\ p = <<p[1], p[2]>>
  BY DEF ReportedEnds, EndedWhileRetained
<1>4. \A f : f \in Exposures <=> \E c \in Callbacks, o \in Objects : <<c, o>> \in ReportedEnds /\ f = F(c, o)
  <2>1. ExposuresByTable
    BY ByTables
  <2>2. ASSUME NEW f, NEW c \in Callbacks, NEW o \in Objects
        PROVE  <<c, o>> \in ReportedEnds /\ f = F(c, o) <=>
                   /\ captures[c][o].life = "ended"
                   /\ \A i \in Releases(c) : i > captures[c][o].end
                   /\ f = ExpectedFinding("LIFE-003", o, c, captures[c][o].bind, callbacks[c].register,
                                          captures[c][o].end, captures[c][o].end)
    BY <1>2
  <2> HIDE DEF F
  <2>3. ASSUME NEW f
        PROVE  f \in Exposures <=> \E c \in Callbacks, o \in Objects : <<c, o>> \in ReportedEnds /\ f = F(c, o)
    <3> DEFINE G(c, o) == <<c, o>> \in ReportedEnds /\ f = F(c, o)
               T(c, o) == /\ captures[c][o].life = "ended"
                          /\ \A i \in Releases(c) : i > captures[c][o].end
                          /\ f = ExpectedFinding("LIFE-003", o, c, captures[c][o].bind, callbacks[c].register,
                                                 captures[c][o].end, captures[c][o].end)
    <3>1. f \in Exposures <=> \E c \in Callbacks, o \in Objects : T(c, o)
      BY <2>1 DEF ExposuresByTable
    <3>2. \A c \in Callbacks, o \in Objects : G(c, o) <=> T(c, o)
      BY <2>2
    <3> HIDE DEF T, G
    <3>3. f \in Exposures <=> \E c \in Callbacks, o \in Objects : G(c, o)
      BY <3>1, <3>2
    <3>4. QED BY <3>3 DEF G
  <2>4. QED BY <2>3
<1>5. \A c, o, d, x : F(c, o) = F(d, x) => c = d /\ o = x
  BY DEF ExpectedFinding
<1>6. \A c, o : F(c, o).at = captures[c][o].end
  BY DEF ExpectedFinding
<1> HIDE DEF F
<1>7. Exposures = {F(p[1], p[2]) : p \in ReportedEnds}
  <2>1. ASSUME NEW p \in ReportedEnds PROVE F(p[1], p[2]) \in Exposures
    BY <1>3, <1>4
  <2>2. ASSUME NEW f \in Exposures PROVE \E p \in ReportedEnds : f = F(p[1], p[2])
    <3>1. PICK c \in Callbacks, o \in Objects : <<c, o>> \in ReportedEnds /\ f = F(c, o)
      BY <1>4
    <3>2. <<c, o>>[1] = c /\ <<c, o>>[2] = o
      OBVIOUS
    <3>3. QED BY <3>1, <3>2
  <2>3. QED BY <2>1, <2>2
<1>8. g \in Bijection(ReportedEnds, Exposures)
  <2>1. g \in [ReportedEnds -> Exposures] /\ \A f \in Exposures : \E p \in ReportedEnds : g[p] = f
    BY <1>7
  <2>2. \A p, q \in ReportedEnds : g[p] = g[q] => p = q
    BY <1>3, <1>5
  <2>3. QED BY <2>1, <2>2 DEF Bijection, Injection, Surjection, IsInjective
<1>9. Cardinality(ReportedEnds) = Cardinality(Exposures)
  BY <1>1, <1>8, FS_Bijection DEF ExistsBijection
<1>10. {f.at : f \in Exposures} = {captures[p[1]][p[2]].end : p \in ReportedEnds}
  BY <1>6, <1>7
<1>11. QED BY <1>1, <1>9, <1>10, FindingsByRule

\* A borrow that ended in a release of its callback ended in the drop of the
\* callback's owner, and on a plain trace so did every borrow of an owner that
\* no earlier event had released.
LEMMA ReleasingAreOwnDrops ==
    ASSUME TypeOK, RecordsOrdered, LogTyped, TablesInTrace, IsFiniteSet(EndedWhileRetained), Plain
    PROVE  /\ IsFiniteSet(ReleasingEnds) /\ Cardinality(ReleasingEnds) = Cardinality(EndedByOwnOwner)
           /\ {be[2] : be \in EndedByOwnOwner} = {captures[p[1]][p[2]].end : p \in ReleasingEnds}
<1> DEFINE B(c, o) == <<captures[c][o].bind, captures[c][o].end>>
           g == [p \in ReleasingEnds |-> B(p[1], p[2])]
           Own(be) == /\ \E r \in Registers(log[be[1]].callback) : log[r].object = log[be[1]].object
                      /\ ~\E i \in Releases(log[be[1]].callback) : i < be[2]
<1>1. IsFiniteSet(ReleasingEnds)
  BY FS_Subset DEF ReleasingEnds
<1>r. \A c : \A i \in Releases(c) : i \in Nat
  BY LogPast, ReleasesAre DEF ReleaseAt
<1>b. ASSUME NEW c \in Callbacks, NEW o \in Objects, captures[c][o].life = "ended"
      PROVE  /\ CaptureFact[c][o] = "borrowed" /\ <<c, o>> \in Borrows
             /\ EndedBorrows(c, o) = {B(c, o)}
             /\ Registers(c) = {callbacks[c].register} /\ log[callbacks[c].register].object = callbacks[c].owner
             /\ callbacks[c].owner \in Owners
             /\ log[captures[c][o].bind] = Event("bind", o, c)
             /\ captures[c][o].end \in BorrowEnds(o)
             /\ callbacks[c].register \in Nat /\ captures[c][o].end \in Nat
             /\ callbacks[c].register < captures[c][o].end
  <2>1. /\ CaptureFact[c][o] = "borrowed" /\ Registered(c) /\ Registers(c) = {callbacks[c].register}
        /\ captures[c][o].end \in Nat /\ captures[c][o].bind \in Nat
    BY <1>b, EndedFacts
  <2>2. EndedBorrows(c, o) = {B(c, o)} /\ <<c, o>> \in Borrows
    BY <1>b, <2>1, EndedBorrow DEF Borrows
  <2>3. log[callbacks[c].register].object = callbacks[c].owner
    BY <2>1 DEF TablesInTrace, CallbackInTrace, Registered
  <2>4. callbacks[c].owner \in Owners /\ callbacks[c].register \in Nat
    BY <2>1 DEF RecordsOrdered, CallbackRecords, Registered, TypeOK, CallbackState
  <2>5. captures[c][o].bind \in Binds(c, o) /\ captures[c][o].end \in BorrowEnds(o)
    BY <1>b DEF TablesInTrace, CaptureInTrace
  <2>6. log[captures[c][o].bind] = Event("bind", o, c)
    BY <2>5 DEF Binds, Is
  <2>7. callbacks[c].register < captures[c][o].bind /\ captures[c][o].bind < captures[c][o].end
    BY <1>b DEF RecordsOrdered, CaptureRecords
  <2>8. callbacks[c].register < captures[c][o].end
    BY <2>1, <2>4, <2>7
  <2>9. QED BY <2>1, <2>2, <2>3, <2>4, <2>5, <2>6, <2>8
<1>f. \A o \in Objects : \A i \in BorrowEnds(o) :
          i \in DOMAIN log /\ (log[i] = Event("drop", o, NoCallback) \/ (log[i] = Event("free", o, NoCallback) /\ o \notin Owners))
  <2>1. \A o \in Objects : \A i \in FirstFree(o) : i \in Frees(o)
    BY DEF TablesInTrace, ObjectInTrace
  <2>2. \A o \in Objects : o \in Owners => Frees(o) = {}
    BY DEF Plain
  <2>3. QED BY <2>1, <2>2 DEF BorrowEnds, Drops, Frees, Is
<1>2. ASSUME NEW c \in Callbacks, NEW o \in Objects
      PROVE  <<c, o>> \in ReleasingEnds <=>
                 /\ captures[c][o].life = "ended" /\ o = callbacks[c].owner
                 /\ ~\E i \in Releases(c) : i < captures[c][o].end
  <2> SUFFICES ASSUME captures[c][o].life = "ended"
               PROVE  <<c, o>> \in ReleasingEnds <=>
                          o = callbacks[c].owner /\ ~\E i \in Releases(c) : i < captures[c][o].end
    BY DEF ReleasingEnds, EndedWhileRetained
  <2> DEFINE e == captures[c][o].end
  <2>1. <<c, o>> \in ReleasingEnds <=> e \in Releases(c) /\ ~\E i \in Releases(c) : i < e
    BY <1>b, <1>r DEF ReleasingEnds, EndedWhileRetained
  <2>2. e \in Releases(c) <=> /\ e \in DOMAIN log
                              /\ \/ log[e].kind = "unregister" /\ log[e].callback = c
                                 \/ log[e] = Event("drop", callbacks[c].owner, NoCallback)
    <3>1. /\ Registers(c) = {callbacks[c].register} /\ log[callbacks[c].register].object = callbacks[c].owner
          /\ e > callbacks[c].register
      BY <1>b
    <3> HIDE DEF e
    <3>2. e \in Releases(c) <=> ReleaseAt(c, e)
      BY ReleasesAre
    <3>3. QED BY <3>1, <3>2 DEF ReleaseAt
  <2>3. e \in DOMAIN log /\ (log[e] = Event("drop", o, NoCallback) \/ (log[e] = Event("free", o, NoCallback) /\ o \notin Owners))
    BY <1>b, <1>f
  <2>4. e \in Releases(c) <=> o = callbacks[c].owner
    <3>1. /\ Event("drop", o, NoCallback).kind = "drop" /\ Event("free", o, NoCallback).kind = "free"
          /\ Event("drop", callbacks[c].owner, NoCallback).kind = "drop"
          /\ Event("drop", o, NoCallback).object = o
          /\ Event("drop", callbacks[c].owner, NoCallback).object = callbacks[c].owner
      BY DEF Event
    <3>2. callbacks[c].owner \in Owners
      BY <1>b
    <3> HIDE DEF e
    <3>3. CASE log[e] = Event("drop", o, NoCallback)
      BY <2>2, <2>3, <3>1, <3>3
    <3>4. CASE log[e] = Event("free", o, NoCallback) /\ o \notin Owners
      BY <2>2, <2>3, <3>1, <3>2, <3>4
    <3>5. QED BY <2>3, <3>3, <3>4
  <2>5. QED BY <2>1, <2>4
<1>3. \A p \in ReleasingEnds : p[1] \in Callbacks /\ p[2] \in Objects /\ p = <<p[1], p[2]>>
  BY DEF ReleasingEnds, EndedWhileRetained
<1>p. \A p \in Borrows : p[1] \in Callbacks /\ p[2] \in Objects /\ p = <<p[1], p[2]>> /\ CaptureFact[p[1]][p[2]] = "borrowed"
  BY DEF Borrows
<1>4. \A be : be \in EndedByOwnOwner <=>
                  (\E p \in Borrows : p[2] \in Owners /\ be \in EndedBorrows(p[1], p[2])) /\ Own(be)
  BY DEF EndedByOwnOwner
<1>5. ASSUME NEW c \in Callbacks, NEW o \in Objects, captures[c][o].life = "ended"
      PROVE  Own(B(c, o)) /\ o \in Owners <=> <<c, o>> \in ReleasingEnds
  <2>1. log[B(c, o)[1]].callback = c /\ log[B(c, o)[1]].object = o /\ B(c, o)[2] = captures[c][o].end
    <3>1. B(c, o)[1] = captures[c][o].bind /\ B(c, o)[2] = captures[c][o].end
      OBVIOUS
    <3>2. log[captures[c][o].bind] = Event("bind", o, c)
      BY <1>5, <1>b
    <3> HIDE DEF B
    <3>3. QED BY <3>1, <3>2 DEF Event
  <2> HIDE DEF B
  <2>2. (\E r \in Registers(c) : log[r].object = o) <=> callbacks[c].owner = o
    <3>1. Registers(c) = {callbacks[c].register} /\ log[callbacks[c].register].object = callbacks[c].owner
      BY <1>5, <1>b
    <3>2. QED BY <3>1
  <2>3. callbacks[c].owner \in Owners
    BY <1>5, <1>b
  <2>4. QED BY <2>1, <2>2, <2>3, <1>2, <1>5
<1>6. ASSUME NEW be
      PROVE  be \in EndedByOwnOwner <=> \E p \in ReleasingEnds : be = B(p[1], p[2])
  <2>1. ASSUME be \in EndedByOwnOwner PROVE \E p \in ReleasingEnds : be = B(p[1], p[2])
    <3>1. PICK p \in Borrows : p[2] \in Owners /\ be \in EndedBorrows(p[1], p[2])
      BY <1>4, <2>1
    <3>2. captures[p[1]][p[2]].life = "ended" /\ be = B(p[1], p[2])
      <4>1. captures[p[1]][p[2]].life = "ended"
        BY <3>1, <1>p, EndedBorrow
      <4>2. QED BY <3>1, <4>1, <1>p, <1>b
    <3> HIDE DEF B
    <3>3. QED BY <1>4, <1>5, <1>p, <2>1, <3>1, <3>2
  <2>2. ASSUME NEW p \in ReleasingEnds, be = B(p[1], p[2]) PROVE be \in EndedByOwnOwner
    <3>1. p[1] \in Callbacks /\ p[2] \in Objects /\ p = <<p[1], p[2]>> /\ captures[p[1]][p[2]].life = "ended"
      BY <1>3 DEF ReleasingEnds, EndedWhileRetained
    <3>2. <<p[1], p[2]>> \in Borrows /\ be \in EndedBorrows(p[1], p[2])
      BY <2>2, <3>1, <1>b
    <3> HIDE DEF B
    <3>3. Own(be) /\ p[2] \in Owners
      BY <2>2, <3>1, <1>5
    <3> HIDE DEF Own
    <3>4. QED BY <3>1, <3>2, <3>3, <1>4
  <2>3. QED BY <2>1, <2>2
<1>7. ASSUME NEW p \in ReleasingEnds, NEW q \in ReleasingEnds, B(p[1], p[2]) = B(q[1], q[2]) PROVE p = q
  <2>1. /\ log[captures[p[1]][p[2]].bind] = Event("bind", p[2], p[1])
        /\ log[captures[q[1]][q[2]].bind] = Event("bind", q[2], q[1])
    BY <1>3, <1>b DEF ReleasingEnds, EndedWhileRetained
  <2>2. captures[p[1]][p[2]].bind = captures[q[1]][q[2]].bind
    BY <1>7
  <2>3. p[1] = q[1] /\ p[2] = q[2]
    BY <2>1, <2>2 DEF Event
  <2>4. QED BY <2>3, <1>3
<1>8. \A p \in ReleasingEnds : B(p[1], p[2])[2] = captures[p[1]][p[2]].end
  OBVIOUS
<1> HIDE DEF B, Own
<1>9. EndedByOwnOwner = {B(p[1], p[2]) : p \in ReleasingEnds}
  BY <1>6
<1>10. g \in Bijection(ReleasingEnds, EndedByOwnOwner)
  <2>1. g \in [ReleasingEnds -> EndedByOwnOwner] /\ \A f \in EndedByOwnOwner : \E p \in ReleasingEnds : g[p] = f
    BY <1>9
  <2>2. \A p, q \in ReleasingEnds : g[p] = g[q] => p = q
    BY <1>7
  <2>3. QED BY <2>1, <2>2 DEF Bijection, Injection, Surjection, IsInjective
<1>11. Cardinality(ReleasingEnds) = Cardinality(EndedByOwnOwner)
  BY <1>1, <1>10, FS_Bijection DEF ExistsBijection
<1>12. {be[2] : be \in EndedByOwnOwner} = {captures[p[1]][p[2]].end : p \in ReleasingEnds}
  BY <1>8, <1>9
<1>13. QED BY <1>1, <1>11, <1>12


\* The invocations after an end are the LIFE-002 findings whose callback was
\* still retained.
LEMMA InvokedAreFindings ==
    ASSUME TypeOK, RecordsOrdered, LogTyped, TablesInTrace, FindingsMatchTrace
    PROVE  InvokedAfterEnd = {f.at : f \in {g \in FindingsOf("LIFE-002") : ~\E i \in Releases(g.callback) : i < g.at}}
<1> DEFINE F(c, o, i) == ExpectedFinding("LIFE-002", o, c, captures[c][o].bind, 0, captures[c][o].end, i)
           Late(f) == ~\E i \in Releases(f.callback) : i < f.at
<1>r. \A c : \A i \in Releases(c) : i \in Nat
  BY LogPast, ReleasesAre DEF ReleaseAt
<1>i. \A c : \A i \in Invokes(c) : i \in DOMAIN log /\ i \in Nat
  BY LogPast DEF Invokes
<1>1. \A c, o, i : F(c, o, i).callback = c /\ F(c, o, i).at = i
  BY DEF ExpectedFinding
<1>2. ASSUME NEW f
      PROVE  f \in DanglingInvokes <=>
                 \E c \in Callbacks, o \in Objects :
                     captures[c][o].life = "ended" /\ \E i \in Invokes(c) : captures[c][o].end < i /\ f = F(c, o, i)
  BY ByTables DEF InvokesByTable
<1> HIDE DEF F
<1>3. ASSUME NEW i \in InvokedAfterEnd PROVE \E f \in DanglingInvokes : f.at = i /\ Late(f)
  <2>1. PICK c \in Callbacks, o \in Objects :
            /\ captures[c][o].life = "ended" /\ captures[c][o].end < i
            /\ i \in Invokes(c) /\ \A j \in Releases(c) : i <= j
    BY <1>3 DEF InvokedAfterEnd
  <2>2. F(c, o, i) \in DanglingInvokes /\ F(c, o, i).callback = c /\ F(c, o, i).at = i
    BY <1>1, <1>2, <2>1
  <2>3. \A j \in Releases(c) : ~(j < i)
    BY <1>r, <1>i, <2>1
  <2>4. QED BY <2>2, <2>3
<1>4. ASSUME NEW f \in DanglingInvokes, Late(f) PROVE f.at \in InvokedAfterEnd
  <2>1. PICK c \in Callbacks, o \in Objects :
            captures[c][o].life = "ended" /\ \E i \in Invokes(c) : captures[c][o].end < i /\ f = F(c, o, i)
    BY <1>2
  <2>2. PICK i \in Invokes(c) : captures[c][o].end < i /\ f = F(c, o, i)
    BY <2>1
  <2>3. f.callback = c /\ f.at = i
    BY <1>1, <2>2
  <2>4. i \in DOMAIN log /\ \A j \in Releases(c) : i <= j
    BY <1>4, <1>r, <1>i, <2>3
  <2>5. QED BY <2>1, <2>2, <2>3, <2>4 DEF InvokedAfterEnd
<1>5. FindingsOf("LIFE-002") = DanglingInvokes
  BY FindingsByRule
<1>6. {f.at : f \in {g \in FindingsOf("LIFE-002") : Late(g)}} = {f.at : f \in {g \in DanglingInvokes : Late(g)}}
  BY <1>5
<1> HIDE DEF Late
<1>7. InvokedAfterEnd = {f.at : f \in {g \in FindingsOf("LIFE-002") : Late(g)}}
  BY <1>3, <1>4, <1>6
<1>8. QED BY <1>7 DEF Late

\* The first event of a set of findings is its mark.
LEMMA MarkIsFirst ==
    ASSUME NEW S \in SUBSET Nat, 0 \notin S, NEW m, FirstMark(m, S)
    PROVE  {m} \ {0} = FirstOf(S)
<1>1. CASE S = {}
  BY <1>1 DEF FirstMark, FirstOf
<1>2. CASE S # {}
  <2>1. m \in S /\ \A i \in S : m <= i
    BY <1>2 DEF FirstMark
  <2>2. FirstOf(S) = {m}
    BY <2>1, LeastIsMin DEF FirstOf
  <2>3. QED BY <2>1, <2>2
<1>3. QED BY <1>1, <1>2

\* What the observer has counted and marked is what the oracle has reported.
LEMMA ReportsAgree ==
    ASSUME TypeOK, RecordsOrdered, LogTyped, TablesInTrace, FindingsMatchTrace, Plain, TablesAgree, SnapshotAgrees
    PROVE  ObserverAgrees
<1> DEFINE at3 == {f.at : f \in FindingsOf("LIFE-003")}
           own == {be[2] : be \in EndedByOwnOwner}
           at2 == {f.at : f \in {g \in FindingsOf("LIFE-002") : ~\E i \in Releases(g.callback) : i < g.at}}
<1>1. /\ \A c \in Callbacks : callback[c].state = callbacks[c].life
      /\ \A o \in Owners : life[o] = objects[o].life
  BY DEF TablesAgree
<1>2. /\ EndedWhileRetained = ReportedEnds \cup ReleasingEnds /\ ReportedEnds \cap ReleasingEnds = {}
      /\ IsFiniteSet(EndedWhileRetained)
  BY EndsSplit DEF SnapshotAgrees
<1>3. /\ IsFiniteSet(ReportedEnds) /\ Cardinality(ReportedEnds) = Cardinality(FindingsOf("LIFE-003"))
      /\ at3 = {captures[p[1]][p[2]].end : p \in ReportedEnds}
  BY <1>2, ReportedAreFindings
<1>4. /\ IsFiniteSet(ReleasingEnds) /\ Cardinality(ReleasingEnds) = Cardinality(EndedByOwnOwner)
      /\ own = {captures[p[1]][p[2]].end : p \in ReleasingEnds}
  BY <1>2, ReleasingAreOwnDrops
<1>5. snapshot["borrow_ended_retained"].count = Cardinality(FindingsOf("LIFE-003")) + Cardinality(EndedByOwnOwner)
  <2>1. Cardinality(ReportedEnds \cap ReleasingEnds) = 0
    BY <1>2, FS_EmptySet
  <2>2. Cardinality(ReportedEnds) \in Nat /\ Cardinality(ReleasingEnds) \in Nat
    BY <1>3, <1>4, FS_CardinalityType
  <2>3. Cardinality(EndedWhileRetained) = Cardinality(ReportedEnds) + Cardinality(ReleasingEnds)
    <3>1. Cardinality(ReportedEnds \cup ReleasingEnds) =
              Cardinality(ReportedEnds) + Cardinality(ReleasingEnds) - Cardinality(ReportedEnds \cap ReleasingEnds)
      BY <1>3, <1>4, FS_Union
    <3>2. QED BY <1>2, <2>1, <2>2, <3>1
  <2>4. QED BY <1>3, <1>4, <2>3 DEF SnapshotAgrees
<1>6. FirstSeen("borrow_ended_retained") = FirstOf(at3 \cup own)
  <2>1. EndsSeen = at3 \cup own
    BY <1>2, <1>3, <1>4 DEF EndsSeen
  <2>2. \A p \in EndedWhileRetained : captures[p[1]][p[2]].end \in Nat /\ captures[p[1]][p[2]].end # 0
    <3>1. ASSUME NEW p \in EndedWhileRetained
          PROVE  p[1] \in Callbacks /\ p[2] \in Objects /\ captures[p[1]][p[2]].life = "ended"
      BY DEF EndedWhileRetained
    <3>2. ASSUME NEW c \in Callbacks, NEW o \in Objects, captures[c][o].life = "ended"
          PROVE  captures[c][o].end \in Nat /\ captures[c][o].end # 0
      <4>1. captures[c][o].bind < captures[c][o].end
        BY <3>2 DEF RecordsOrdered, CaptureRecords
      <4>2. captures[c][o].bind \in Nat /\ captures[c][o].end \in Nat
        BY <3>2, EndedFacts
      <4>3. QED BY <4>1, <4>2
    <3>3. QED BY <3>1, <3>2
  <2>3. EndsSeen \in SUBSET Nat /\ 0 \notin EndsSeen
    BY <2>2 DEF EndsSeen
  <2>4. QED BY <2>1, <2>3, MarkIsFirst DEF SnapshotAgrees, FirstSeen
<1>7. FirstSeen("invoked_after_end") = FirstOf(at2)
  <2>1. InvokedAfterEnd = at2
    BY InvokedAreFindings
  <2>2. InvokedAfterEnd \in SUBSET Nat /\ 0 \notin InvokedAfterEnd
    BY LogPast DEF InvokedAfterEnd
  <2>3. QED BY <2>1, <2>2, MarkIsFirst DEF SnapshotAgrees, FirstSeen
<1>8. QED BY <1>1, <1>5, <1>6, <1>7, Zenon DEF ObserverAgrees

\* The fuzz observer's feedback follows the findings, for every plain trace: it
\* counts the exposures that the oracle reports and those of an owner's own
\* drop, and marks the first of them, and the first invocation after an end, at
\* the events where the oracle does.
THEOREM ObserverAgreesWithOracle ==
    ASSUME Complete
    PROVE  ObservedSpec => []ObserverAgrees
<1> DEFINE Inv == Plain => TablesAgree /\ SnapshotAgrees
           Kept == TypeOK /\ RecordsOrdered /\ TraceInv /\ FindingsMatchTrace
<1>1. ObservedInit => Inv
  <2> SUFFICES ASSUME ObservedInit PROVE TablesAgree /\ SnapshotAgrees
    OBVIOUS
  <2>1. TablesAgree
    BY OracleAssumption DEF ObservedInit, LogInit, Init, Observer!Init, TablesAgree, Exists, Registered,
       NoObject, NoCapture, NoEntry
  <2>2. EndedWhileRetained = {} /\ EndsSeen = {}
    <3>1. EndedWhileRetained = {}
      BY DEF ObservedInit, LogInit, Init, NoCapture, EndedWhileRetained
    <3>2. QED BY <3>1 DEF EndsSeen
  <2>3. InvokedAfterEnd = {}
    BY DEF ObservedInit, LogInit, Init, NoCapture, InvokedAfterEnd
  <2>4. QED BY <2>1, <2>2, <2>3, FS_EmptySet
        DEF SnapshotAgrees, FirstMark, ObservedInit, Observer!Init, Observer!FeedbackStates
<1>2. Kept /\ Kept' /\ Inv /\ [ObservedNext]_observedVars => Inv'
  <2> SUFFICES ASSUME Kept, Kept', Plain => TablesAgree /\ SnapshotAgrees, [ObservedNext]_observedVars, Plain'
               PROVE  TablesAgree' /\ SnapshotAgrees'
    OBVIOUS
  <2>t. LogTyped /\ TablesInTrace /\ TablesInTrace'
    BY DEF TraceInv
  <2>1. ASSUME UNCHANGED logVars, UNCHANGED observer PROVE TablesAgree' /\ SnapshotAgrees'
    <3>1. /\ objects' = objects /\ captures' = captures /\ callbacks' = callbacks /\ log' = log
          /\ life' = life /\ callback' = callback /\ capture' = capture /\ snapshot' = snapshot
      BY <2>1 DEF logVars, vars, observer
    <3>2. Plain
      BY <3>1 DEF Plain, Frees, Is
    <3>3. TablesAgree'
      BY <3>1, <3>2 DEF TablesAgree, Exists, Registered
    <3>4. EndedWhileRetained' = EndedWhileRetained /\ EndsSeen' = EndsSeen /\ InvokedAfterEnd' = InvokedAfterEnd
      BY <3>1 DEF EndedWhileRetained, EndsSeen, InvokedAfterEnd, Releases, Registers, Drops, Invokes, Is
    <3>5. QED BY <3>1, <3>2, <3>3, <3>4 DEF SnapshotAgrees
  <2>2. CASE ObservedNext /\ LoggedStep
    BY <2>2, <2>t, PlainBefore, TablesAgreeStep, SnapshotStep
  <2>3. CASE ObservedNext /\ UNCHANGED logVars
    <3>1. \E k, o, c, r : Read(Event(k, o, c), r)
      BY <2>3 DEF ObservedNext
    <3>2. UNCHANGED observer
      BY <2>3, <3>1 DEF Read, logVars
    <3>3. QED BY <2>1, <2>3, <3>2
  <2>4. CASE UNCHANGED observedVars
    BY <2>1, <2>4 DEF observedVars
  <2>5. ObservedNext => LoggedStep \/ UNCHANGED logVars
    BY <2>t, ObservedIsLogged, LoggedSteps
  <2>6. QED BY <2>2, <2>3, <2>4, <2>5
<1>3. Kept /\ Inv => ObserverAgrees
  <2>1. ASSUME Kept, TablesAgree, SnapshotAgrees, Plain PROVE ObserverAgrees
    BY <2>1, ReportsAgree DEF TraceInv
  <2>2. ~Plain => ObserverAgrees
    BY DEF ObserverAgrees
  <2>3. QED BY <2>1, <2>2
<1>4. LogSpec => []Kept
  BY TraceIsKept
<1> HIDE DEF Inv, Kept
<1>5. QED
  BY <1>1, <1>2, <1>3, <1>4, ObservedIsTraced, PTL DEF ObservedSpec
===========================================================================
