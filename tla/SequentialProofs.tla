-------------------------- MODULE SequentialProofs --------------------------
(***************************************************************************)
(* Theorems about the parts in which nothing runs beside anything else:    *)
(* the joint verdict, the minimizer, and the search of the fuzzer with the *)
(* harnesses and the audit it goes through.                                *)
(***************************************************************************)
EXTENDS Compatibility, FuzzCase, SequenceTheorems, WellFoundedInduction, TLAPS

CONSTANTS Actions, Targets, Inputs, Matches(_, _), Replacements(_)

\* minimize_actions with any evaluator; M is the one with the harness.
Any == INSTANCE FuzzMinimizer

-----------------------------------------------------------------------------
(* What a verdict rests on, for every contract, every foreign fact, of     *)
(* this hand-off or of another, and both subjects.                         *)

\* The foreign fact there is, if it is one of this hand-off.
Joined(rust, facts) ==
    IF facts # <<>> /\ ~JoinsWith(rust.key, facts[1].key) THEN <<>> ELSE facts

\* Nothing is said where there is no foreign fact.
LEMMA NothingSaid ==
    ASSUME NEW field, NEW value
    PROVE  ~Says(<<>>, field, value)
BY DEF Says

\* The three parts a verdict is made of.
LEMMA VerdictOf ==
    ASSUME NEW rust, NEW facts, NEW subject,
           NEW foreign, foreign = Joined(rust, facts)
    PROVE  /\ Judge(rust, facts, subject).verdict \in {"compatible", "incompatible", "insufficient"}
           /\ Judge(rust, facts, subject).verdict = "compatible" <=>
                 "denied" \in {Separation(rust, foreign, subject), LateUse(foreign)}
           /\ Judge(rust, facts, subject).verdict = "incompatible" =>
                 /\ Separation(rust, foreign, subject) = "possible" /\ LateUse(foreign) = "possible"
                 /\ foreign = <<>> \/ foreign[1].invokeEvidence # "same_slot_invoke_candidate"
                 /\ Says(foreign, "path", "retain_on_every_path")
BY DEF Judge, Joined

\* Which part denies the separation of a subject from its slot.
LEMMA SeparationDenied ==
    ASSUME NEW rust, NEW foreign, NEW subject
    PROVE  Separation(rust, foreign, subject) = "denied" <=>
              \/ ByShape(rust, subject) = "denied"
              \/ IsGuard(rust.guard) /\ Says(foreign, "clear", "clears_on_all_paths")
BY DEF Separation, GuardDefeated, ByShape, IsGuard, Says

\* What denies a call after the return.
LEMMA LateUseDenied ==
    ASSUME NEW foreign
    PROVE  LateUse(foreign) = "denied" <=>
              \/ Says(foreign, "retention", "no_retain")
              \/ Says(foreign, "invocation", "synchronous_only")
<1> DEFINE never == Says(foreign, "retention", "no_retain") \/ Says(foreign, "invocation", "synchronous_only")
           later == Says(foreign, "retention", "may_retain") /\ Says(foreign, "invocation", "may_invoke_after_return")
<1>1. ~(never /\ later)
  BY DEF Says
<1>2. LateUse(foreign) = CASE never -> "denied" [] later -> "possible" [] OTHER -> "unresolved"
  BY DEF LateUse
<1> HIDE DEF never, later
<1>3. LateUse(foreign) = "denied" <=> never
  BY <1>1, <1>2
<1>4. QED
  BY <1>3 DEF never

\* A hand-off is judged compatible exactly if the types keep the subject alive, or
\* a guard calls what clears the slots, or the foreign side does not retain or only
\* calls back at once; and what is said of the foreign side is said of this very
\* hand-off (judge).
THEOREM CompatibleHasAReason ==
    ASSUME NEW rust, NEW facts, NEW subject
    PROVE  Judge(rust, facts, subject).verdict = "compatible" <=>
              \/ ByShape(rust, subject) = "denied"
              \/ IsGuard(rust.guard) /\ Says(Joined(rust, facts), "clear", "clears_on_all_paths")
              \/ Says(Joined(rust, facts), "retention", "no_retain")
              \/ Says(Joined(rust, facts), "invocation", "synchronous_only")
BY VerdictOf, SeparationDenied, LateUseDenied

\* Without a foreign fact, and with one of another hand-off, a guard never makes a
\* hand-off compatible, only the types do (compatibility.rs:640).
THEOREM GuardNeedsForeignEvidence ==
    ASSUME NEW rust, NEW facts, NEW subject,
           facts = <<>> \/ ~JoinsWith(rust.key, facts[1].key),
           ByShape(rust, subject) # "denied"
    PROVE  Judge(rust, facts, subject).verdict = "insufficient"
<1>1. Joined(rust, facts) = <<>>
  BY DEF Joined
<1>2. Judge(rust, facts, subject).verdict # "compatible"
  BY <1>1, CompatibleHasAReason, NothingSaid
<1>3. Judge(rust, facts, subject).verdict # "incompatible"
  BY <1>1, VerdictOf, NothingSaid
<1>4. QED
  BY <1>2, <1>3, VerdictOf

\* A hand-off is judged incompatible only if the types let the subject end, no guard
\* stands against it but a defeated one, and the foreign side retains on every path
\* and calls later, with more than the bare candidate of a call from the same slot.
THEOREM IncompatibleIsGrounded ==
    ASSUME NEW rust, NEW facts, NEW subject,
           Judge(rust, facts, subject).verdict = "incompatible"
    PROVE  /\ facts # <<>> /\ JoinsWith(rust.key, facts[1].key)
           /\ facts[1].retention = "may_retain" /\ facts[1].invocation = "may_invoke_after_return"
           /\ facts[1].path = "retain_on_every_path"
           /\ facts[1].invokeEvidence # "same_slot_invoke_candidate"
           /\ ByShape(rust, subject) = "possible"
           /\ rust.guard = "none" \/ GuardDefeated(rust, facts, subject)
<1> DEFINE foreign == Joined(rust, facts)
<1>1. /\ Separation(rust, foreign, subject) = "possible" /\ LateUse(foreign) = "possible"
      /\ foreign = <<>> \/ foreign[1].invokeEvidence # "same_slot_invoke_candidate"
      /\ Says(foreign, "path", "retain_on_every_path")
  BY VerdictOf
<1>2. /\ facts # <<>> /\ JoinsWith(rust.key, facts[1].key) /\ foreign = facts
  BY <1>1, NothingSaid DEF Joined
<1>3. facts[1].retention = "may_retain" /\ facts[1].invocation = "may_invoke_after_return"
  BY <1>1, <1>2 DEF LateUse, Says
<1>4. /\ ByShape(rust, subject) = "possible"
      /\ rust.guard = "none" \/ GuardDefeated(rust, facts, subject)
  BY <1>1, <1>2 DEF Separation
<1>5. facts[1].path = "retain_on_every_path" /\ facts[1].invokeEvidence # "same_slot_invoke_candidate"
  BY <1>1, <1>2 DEF Says
<1>6. QED
  BY <1>2, <1>3, <1>4, <1>5

-----------------------------------------------------------------------------
(* What minimize_actions promises whatever the evaluator answers, as long  *)
(* as it answers the same for the same sequence: the result reproduces the *)
(* target, and the removals leave nothing that could go alone.             *)

\* A sequence without its i-th action.
Without(s, i) == SubSeq(s, 1, i - 1) \o SubSeq(s, i + 1, Len(s))

\* It is one shorter, and what comes after the place moves up.
LEMMA WithoutIs ==
    ASSUME NEW S, NEW s \in Seq(S), NEW i \in 1..Len(s)
    PROVE  /\ Without(s, i) \in Seq(S) /\ Len(Without(s, i)) = Len(s) - 1
           /\ \A n \in 1..(Len(s) - 1) : Without(s, i)[n] = IF n < i THEN s[n] ELSE s[n + 1]
<1> DEFINE front == SubSeq(s, 1, i - 1)
           back == SubSeq(s, i + 1, Len(s))
<1>0. Len(s) \in Nat /\ i \in Nat /\ i >= 1 /\ i <= Len(s)
  OBVIOUS
<1>1. front \in Seq(S) /\ Len(front) = i - 1 /\ \A n \in 1..(i - 1) : front[n] = s[n]
  <2>1. \A j \in 1..(i - 1) : s[j] \in S
    OBVIOUS
  <2> QED BY <2>1, SubSeqProperties, Z3
<1>2. back \in Seq(S) /\ Len(back) = Len(s) - i /\ \A n \in 1..(Len(s) - i) : back[n] = s[i + n]
  <2>1. \A j \in (i + 1)..Len(s) : s[j] \in S
    OBVIOUS
  <2>2. \A n \in 1..(Len(s) - i) : (i + 1) + n - 1 = i + n
    BY <1>0
  <2> QED BY <2>1, <2>2, SubSeqProperties, Z3
<1> HIDE DEF front, back
<1>3. /\ front \o back \in Seq(S) /\ Len(front \o back) = Len(front) + Len(back)
      /\ \A n \in 1..Len(front) : (front \o back)[n] = front[n]
      /\ \A n \in (Len(front) + 1)..(Len(front) + Len(back)) : (front \o back)[n] = back[n - Len(front)]
  <2>1. front \in Seq(S) /\ back \in Seq(S)
    BY <1>1, <1>2
  <2>2. QED BY <2>1, ConcatProperties
<1>4. \A n \in 1..(Len(s) - 1) : (front \o back)[n] = IF n < i THEN s[n] ELSE s[n + 1]
  <2> SUFFICES ASSUME NEW n \in 1..(Len(s) - 1)
               PROVE  (front \o back)[n] = IF n < i THEN s[n] ELSE s[n + 1]
    OBVIOUS
  <2>1. CASE n < i
    <3>1. n \in 1..(i - 1)
      BY <1>0, <2>1
    <3>2. QED BY <1>1, <1>3, <2>1, <3>1
  <2>2. CASE ~(n < i)
    <3>1. /\ n \in ((i - 1) + 1)..((i - 1) + (Len(s) - i)) /\ n - (i - 1) \in 1..(Len(s) - i)
          /\ i + (n - (i - 1)) = n + 1
      BY <1>0, <2>2
    <3>2. (front \o back)[n] = back[n - (i - 1)]
      BY <1>1, <1>2, <1>3, <3>1
    <3>3. back[n - (i - 1)] = s[n + 1]
      BY <1>2, <3>1
    <3>4. QED BY <2>2, <3>2, <3>3
  <2>3. QED BY <2>1, <2>2
<1>5. Without(s, i) = front \o back
  BY DEF Without, front, back
<1>6. (i - 1) + (Len(s) - i) = Len(s) - 1
  BY <1>0
<1>7. QED BY <1>1, <1>2, <1>3, <1>4, <1>5, <1>6

\* Each variable has a value of its kind.
AnyTypeOK ==
    /\ target \in Targets /\ original \in Seq(Actions) /\ phase \in Any!Phases
    /\ current \in Seq(Actions) /\ reduced \in Seq(Actions)
    /\ index \in Nat \ {0} /\ trial \in Nat \ {0}

\* In a round of removals, what comes before the index could not go.
AnyTriedInVain ==
    phase = "removing" =>
        \A i \in DOMAIN current : i < index => ~Matches(target, Any!RemoveAt(current, i))

\* What every step of the minimizer keeps.
AnyInv ==
    /\ AnyTypeOK /\ Any!StillReproduces /\ Any!RemovalsComplete /\ AnyTriedInVain
    /\ phase = "start" => index = 1

\* minimize_actions (minimize.rs:63-140): for every evaluator, every input and
\* every target, the sequence reproduces the target at every moment and never
\* gets longer, and the one that the removals end with is 1-minimal.
THEOREM MinimizerCorrect ==
    ASSUME Inputs \subseteq Seq(Actions),
           \A a \in Actions : Replacements(a) \in Seq(Actions)
    PROVE  Any!Spec => [](Any!StillReproduces /\ Any!RemovalsComplete)
<1>1. Any!Init => AnyInv
  BY DEF Any!Init, AnyInv, AnyTypeOK, Any!Phases, Any!StillReproduces, Any!RemovalsComplete, AnyTriedInVain
<1>2. AnyInv /\ [Any!Next]_Any!vars => AnyInv'
  <2> SUFFICES ASSUME AnyInv, [Any!Next]_Any!vars PROVE AnyInv'
    OBVIOUS
  <2> USE DEF AnyInv, AnyTypeOK, Any!Phases
  <2>1. CASE Any!Start
    BY <2>1 DEF Any!Start, Any!StillReproduces, Any!RemovalsComplete, AnyTriedInVain
  <2>2. CASE Any!TryRemoval
    <3> DEFINE shorter == Any!RemoveAt(current, index)
    <3>1. index \in 1..Len(current) /\ phase = "removing"
      BY <2>2 DEF Any!TryRemoval
    <3>2. shorter \in Seq(Actions) /\ Len(shorter) = Len(current) - 1
      BY <3>1, WithoutIs DEF Any!RemoveAt, Without
    <3>3. CASE Matches(target, shorter)
      <4>1. current' = shorter /\ index' = 1 /\ UNCHANGED <<target, original, phase, reduced, trial>>
        BY <2>2, <3>3 DEF Any!TryRemoval
      <4> HIDE DEF shorter
      <4>2. AnyTriedInVain'
        BY <4>1, <3>2 DEF AnyTriedInVain
      <4>3. Any!StillReproduces'
        BY <4>1, <3>1, <3>2, <3>3 DEF Any!StillReproduces
      <4>4. AnyTypeOK'
        BY <4>1, <3>2
      <4>5. Any!RemovalsComplete'
        BY <4>1, <3>1 DEF Any!RemovalsComplete
      <4> QED BY <4>1, <4>2, <4>3, <4>4, <4>5, <3>1
    <3>4. CASE ~Matches(target, shorter)
      <4>1. index' = index + 1 /\ UNCHANGED <<target, original, phase, current, reduced, trial>>
        BY <2>2, <3>4 DEF Any!TryRemoval
      <4>2. AnyTriedInVain'
        <5>1. \A i \in DOMAIN current : i < index => ~Matches(target, Any!RemoveAt(current, i))
          BY <3>1 DEF AnyTriedInVain
        <5>2. \A i \in DOMAIN current : i < index + 1 => i < index \/ i = index
          OBVIOUS
        <5>3. \A i \in DOMAIN current : i < index + 1 => ~Matches(target, Any!RemoveAt(current, i))
          BY <5>1, <5>2, <3>4
        <5> QED BY <5>3, <4>1 DEF AnyTriedInVain
      <4>3. AnyTypeOK' /\ Any!StillReproduces'
        BY <4>1 DEF Any!StillReproduces
      <4>4. Any!RemovalsComplete'
        BY <4>1, <3>1 DEF Any!RemovalsComplete
      <4> QED BY <4>1, <4>2, <4>3, <4>4, <3>1
    <3> QED BY <3>3, <3>4
  <2>3. CASE Any!EndRemovals
    BY <2>3 DEF Any!EndRemovals, Any!StillReproduces, Any!RemovalsComplete, Any!OneMinimal, AnyTriedInVain
  <2>4. CASE Any!TryReplacement
    <3>1. /\ index \in 1..Len(current) /\ phase = "replacing"
          /\ trial \in 1..Len(Replacements(current[index]))
      BY <2>4 DEF Any!TryReplacement
    <3>2. Any!Replaced(trial) \in Seq(Actions) /\ Len(Any!Replaced(trial)) = Len(current)
      <4> DEFINE r == Replacements(current[index])
      <4>1. r \in Seq(Actions)
        BY <3>1
      <4>2. r[trial] \in Actions
        BY <3>1, <4>1
      <4> QED BY <3>1, <4>2, ExceptSeq DEF Any!Replaced, Any!ReplaceAt
    <3>3. CASE Matches(target, Any!Replaced(trial))
      BY <2>4, <3>1, <3>2, <3>3
         DEF Any!TryReplacement, Any!StillReproduces, Any!RemovalsComplete, Any!OneMinimal, AnyTriedInVain
    <3>4. CASE ~Matches(target, Any!Replaced(trial))
      BY <2>4, <3>1, <3>4
         DEF Any!TryReplacement, Any!StillReproduces, Any!RemovalsComplete, Any!OneMinimal, AnyTriedInVain
    <3> QED BY <3>3, <3>4
  <2>5. CASE Any!NextAction
    BY <2>5 DEF Any!NextAction, Any!StillReproduces, Any!RemovalsComplete, Any!OneMinimal, AnyTriedInVain
  <2>6. CASE Any!Finish
    BY <2>6 DEF Any!Finish, Any!StillReproduces, Any!RemovalsComplete, Any!OneMinimal, AnyTriedInVain
  <2>7. CASE UNCHANGED Any!vars
    BY <2>7 DEF Any!vars, Any!StillReproduces, Any!RemovalsComplete, Any!OneMinimal, AnyTriedInVain
  <2> QED BY <2>1, <2>2, <2>3, <2>4, <2>5, <2>6, <2>7 DEF Any!Next
<1>3. AnyInv => Any!StillReproduces /\ Any!RemovalsComplete
  BY DEF AnyInv
<1> QED BY <1>1, <1>2, <1>3, PTL DEF Any!Spec

-----------------------------------------------------------------------------
(* What an execution computes, by induction on the actions.                *)

\* What holds of 0, and of the next number of a number below m, holds up to m.
LEMMA Upwards ==
    ASSUME NEW m \in Nat, NEW T, 0 \in T,
           \A n \in Nat : n < m /\ n \in T => n + 1 \in T
    PROVE  0..m \subseteq T
<1> DEFINE Out == (0..m) \ T
<1> SUFFICES ASSUME Out # {} PROVE FALSE
  OBVIOUS
<1>1. PICK x \in Out : \A y \in Out : ~(<<y, x>> \in OpToRel(<, Nat))
  <2> HIDE DEF Out
  <2>1. Out \subseteq Nat
    BY DEF Out
  <2>2. QED BY <2>1, NatLessThanWellFounded, WFMin
<1>2. \A x1, y1 \in Nat : <<x1, y1>> \in OpToRel(<, Nat) <=> x1 < y1
  BY DEF OpToRel
<1>3. x \in Nat /\ x # 0 /\ x <= m /\ x \notin T
  <2>1. x \in 0..m /\ x \notin T
    BY <1>1
  <2>2. QED BY <2>1
<1>4. x - 1 \in Nat /\ x - 1 < x /\ x - 1 < m /\ x = (x - 1) + 1 /\ x - 1 \in 0..m
  BY <1>3
<1>5. x - 1 \in T
  BY <1>1, <1>2, <1>3, <1>4
<1>6. QED BY <1>3, <1>4, <1>5

\* The harness takes one action after the other.
LEMMA HarnessSteps ==
    ASSUME NEW api, NEW s, Len(s) \in Nat
    PROVE  LET h == Harnesses(api, s)
           IN /\ h[0] = NewHarness
              /\ \A n \in 1..Len(s) : h[n] = Apply(api, h[n - 1], s[n])
<1> DEFINE m == Len(s)
           Course(f, n) == f = [i \in 0..n |-> IF i = 0 THEN NewHarness ELSE Apply(api, f[i - 1], s[i])]
           T == {n \in Nat : \E f : Course(f, n)}
<1>1. 0 \in T
  <2> DEFINE f == [i \in 0..0 |-> NewHarness]
  <2>1. Course(f, 0)
    <3>1. \A i \in 0..0 : i = 0
      OBVIOUS
    <3>2. QED BY <3>1
  <2>2. QED BY <2>1
<1>2. \A n \in Nat : n < m /\ n \in T => n + 1 \in T
  <2> SUFFICES ASSUME NEW n \in Nat, n \in T PROVE n + 1 \in T
    OBVIOUS
  <2>1. PICK f : Course(f, n)
    OBVIOUS
  <2> DEFINE g == [i \in 0..(n + 1) |-> IF i = n + 1 THEN Apply(api, f[n], s[n + 1]) ELSE f[i]]
  <2>2. ASSUME NEW i \in 0..(n + 1)
        PROVE  g[i] = IF i = 0 THEN NewHarness ELSE Apply(api, g[i - 1], s[i])
    <3>1. CASE i = 0
      <4>1. g[i] = f[0] /\ 0 \in 0..n /\ f[0] = NewHarness
        BY <2>1, <3>1
      <4>2. QED BY <4>1, <3>1
    <3>2. CASE i = n + 1
      <4>1. g[i] = Apply(api, f[n], s[n + 1]) /\ i - 1 = n /\ g[n] = f[n]
        BY <3>2
      <4>2. QED BY <4>1, <3>2
    <3>3. CASE i # 0 /\ i # n + 1
      <4>1. i \in 0..n /\ i - 1 \in 0..n /\ i - 1 # n + 1 /\ i - 1 \in 0..(n + 1)
        BY <3>3
      <4>2. f[i] = Apply(api, f[i - 1], s[i])
        BY <2>1, <3>3, <4>1
      <4>3. g[i] = f[i] /\ g[i - 1] = f[i - 1]
        BY <3>3, <4>1
      <4>4. QED BY <3>3, <4>2, <4>3
    <3>4. QED BY <3>1, <3>2, <3>3
  <2>3. Course(g, n + 1)
    BY <2>2
  <2> HIDE DEF g, Course
  <2>4. QED BY <2>3
<1>3. m \in T
  <2> HIDE DEF T
  <2>1. 0..m \subseteq T
    BY <1>1, <1>2, Upwards
  <2>2. QED BY <2>1
<1>4. Course(Harnesses(api, s), m)
  <2>1. \E f : Course(f, m)
    BY <1>3
  <2>2. Harnesses(api, s) = CHOOSE f : Course(f, m)
    BY DEF Harnesses
  <2> HIDE DEF Course
  <2>3. QED BY <2>1, <2>2
<1>5. QED BY <1>4

\* So does the audit.
LEMMA AuditSteps ==
    ASSUME NEW s, Len(s) \in Nat
    PROVE  LET h == Audits(s)
           IN /\ h[0] = NewAudit
              /\ \A n \in 1..Len(s) : h[n] = AuditAction(h[n - 1], s[n])
<1> DEFINE m == Len(s)
           Course(f, n) == f = [i \in 0..n |-> IF i = 0 THEN NewAudit ELSE AuditAction(f[i - 1], s[i])]
           T == {n \in Nat : \E f : Course(f, n)}
<1>1. 0 \in T
  <2> DEFINE f == [i \in 0..0 |-> NewAudit]
  <2>1. Course(f, 0)
    <3>1. \A i \in 0..0 : i = 0
      OBVIOUS
    <3>2. QED BY <3>1
  <2>2. QED BY <2>1
<1>2. \A n \in Nat : n < m /\ n \in T => n + 1 \in T
  <2> SUFFICES ASSUME NEW n \in Nat, n \in T PROVE n + 1 \in T
    OBVIOUS
  <2>1. PICK f : Course(f, n)
    OBVIOUS
  <2> DEFINE g == [i \in 0..(n + 1) |-> IF i = n + 1 THEN AuditAction(f[n], s[n + 1]) ELSE f[i]]
  <2>2. ASSUME NEW i \in 0..(n + 1)
        PROVE  g[i] = IF i = 0 THEN NewAudit ELSE AuditAction(g[i - 1], s[i])
    <3>1. CASE i = 0
      <4>1. g[i] = f[0] /\ 0 \in 0..n /\ f[0] = NewAudit
        BY <2>1, <3>1
      <4>2. QED BY <4>1, <3>1
    <3>2. CASE i = n + 1
      <4>1. g[i] = AuditAction(f[n], s[n + 1]) /\ i - 1 = n /\ g[n] = f[n]
        BY <3>2
      <4>2. QED BY <4>1, <3>2
    <3>3. CASE i # 0 /\ i # n + 1
      <4>1. i \in 0..n /\ i - 1 \in 0..n /\ i - 1 # n + 1 /\ i - 1 \in 0..(n + 1)
        BY <3>3
      <4>2. f[i] = AuditAction(f[i - 1], s[i])
        BY <2>1, <3>3, <4>1
      <4>3. g[i] = f[i] /\ g[i - 1] = f[i - 1]
        BY <3>3, <4>1
      <4>4. QED BY <3>3, <4>2, <4>3
    <3>4. QED BY <3>1, <3>2, <3>3
  <2>3. Course(g, n + 1)
    BY <2>2
  <2> HIDE DEF g, Course
  <2>4. QED BY <2>3
<1>3. m \in T
  <2> HIDE DEF T
  <2>1. 0..m \subseteq T
    BY <1>1, <1>2, Upwards
  <2>2. QED BY <2>1
<1>4. Course(Audits(s), m)
  <2>1. \E f : Course(f, m)
    BY <1>3
  <2>2. Audits(s) = CHOOSE f : Course(f, m)
    BY DEF Harnesses
  <2> HIDE DEF Course
  <2>3. QED BY <2>1, <2>2
<1>5. QED BY <1>4

-----------------------------------------------------------------------------
(* What a trace tells.                                                     *)

\* The events of a harness.
Sites == {"owner", "borrowed", "owned"}
EventKinds == {"create", "register", "bind", "unregister", "invoke", "drop"}
Events ==
    [kind : EventKinds \ {"bind"}, site : Sites, id : Nat]
    \cup [kind : {"bind"}, site : Sites, id : Nat, object : Nat]
Traces == Seq(Events)

\* A borrowed state was bound to the callback; it was dropped after that.
BindsTo(e, c) == e.kind = "bind" /\ e.site = "borrowed" /\ e.id = c
Borrows(t, c) == \E b \in DOMAIN t : BindsTo(t[b], c)
BorrowEnded(t, c) ==
    \E b, e \in DOMAIN t : b < e /\ BindsTo(t[b], c) /\ t[e] = Event("drop", "borrowed", t[b].object)
Tells(t, kind, c) == \E i \in DOMAIN t : t[i].kind = kind /\ t[i].id = c
Drops(t) == \E i \in DOMAIN t : t[i].kind = "drop" /\ t[i].site = "borrowed"

\* What the events that are added change of it.
LEMMA TraceGrows ==
    ASSUME NEW t \in Traces, NEW new \in Traces
    PROVE  /\ t \o new \in Traces /\ Len(t \o new) = Len(t) + Len(new)
           /\ \A i \in DOMAIN (t \o new) :
                  \/ i \in DOMAIN t /\ (t \o new)[i] = t[i]
                  \/ i - Len(t) \in DOMAIN new /\ (t \o new)[i] = new[i - Len(t)]
           /\ \A c : Borrows(t \o new, c) => Borrows(t, c) \/ Borrows(new, c)
           /\ \A k, c : Tells(t \o new, k, c) => Tells(t, k, c) \/ Tells(new, k, c)
           /\ Drops(t \o new) => Drops(t) \/ Drops(new)
           /\ \A c : BorrowEnded(t \o new, c) =>
                  BorrowEnded(t, c) \/ (Drops(new) /\ (Borrows(t, c) \/ Borrows(new, c)))
           /\ IsPrimary(t) => IsPrimary(t \o new)
           /\ IsPrimary(t \o new) =>
                  \/ IsPrimary(t)
                  \/ \E c : Tells(new, "invoke", c) /\ (BorrowEnded(t, c) \/ Drops(new))
           /\ /\ CallsRetained(t)
              /\ \A c : Tells(new, "invoke", c) => ~Tells(t, "unregister", c) /\ ~Tells(new, "unregister", c)
              => CallsRetained(t \o new)
<1> DEFINE u == t \o new
           n == Len(t)
<1>1. /\ u \in Traces /\ Len(u) = n + Len(new) /\ n \in Nat /\ Len(new) \in Nat
      /\ DOMAIN t = 1..n /\ DOMAIN new = 1..Len(new) /\ DOMAIN u = 1..(n + Len(new))
      /\ \A i \in 1..n : u[i] = t[i]
      /\ \A i \in (n + 1)..(n + Len(new)) : u[i] = new[i - n]
  BY ConcatProperties DEF Traces
<1> HIDE DEF u, n
<1>2. \A i \in DOMAIN u :
          \/ i \in DOMAIN t /\ u[i] = t[i]
          \/ i - n \in DOMAIN new /\ u[i] = new[i - n] /\ i \notin DOMAIN t
  BY <1>1
<1>3. \A i, j \in DOMAIN u : i < j /\ j \in DOMAIN t => i \in DOMAIN t
  BY <1>1
<1>4. \A c : Borrows(u, c) => Borrows(t, c) \/ Borrows(new, c)
  BY <1>2 DEF Borrows
<1>5. \A k, c : Tells(u, k, c) => Tells(t, k, c) \/ Tells(new, k, c)
  BY <1>2 DEF Tells
<1>d. Drops(u) => Drops(t) \/ Drops(new)
  BY <1>2 DEF Drops
<1>6. ASSUME NEW c, BorrowEnded(u, c)
      PROVE  BorrowEnded(t, c) \/ (Drops(new) /\ (Borrows(t, c) \/ Borrows(new, c)))
  <2>1. PICK b \in DOMAIN u, e \in DOMAIN u :
            b < e /\ BindsTo(u[b], c) /\ u[e] = Event("drop", "borrowed", u[b].object)
    BY <1>6 DEF BorrowEnded
  <2>2. CASE e \in DOMAIN t
    BY <1>2, <1>3, <2>1, <2>2, <1>1 DEF BorrowEnded
  <2>3. CASE e \notin DOMAIN t
    <3>1. Drops(new)
      BY <1>2, <2>1, <2>3 DEF Drops, Event
    <3>2. Borrows(u, c)
      BY <2>1 DEF Borrows
    <3>3. QED BY <1>4, <3>1, <3>2
  <2>4. QED BY <2>2, <2>3
<1>p. IsPrimary(t) => IsPrimary(u)
  BY <1>1 DEF IsPrimary
<1>7. ASSUME IsPrimary(u)
      PROVE  IsPrimary(t) \/ \E c : Tells(new, "invoke", c) /\ (BorrowEnded(t, c) \/ Drops(new))
  <2>1. PICK b \in DOMAIN u, e \in DOMAIN u, i \in DOMAIN u :
            /\ u[b].kind = "bind" /\ u[b].site = "borrowed"
            /\ b < e /\ u[e] = Event("drop", "borrowed", u[b].object)
            /\ e < i /\ u[i] = Event("invoke", "owner", u[b].id)
    BY <1>7 DEF IsPrimary
  <2>2. CASE i \in DOMAIN t
    <3>1. b \in DOMAIN t /\ e \in DOMAIN t /\ u[b] = t[b] /\ u[e] = t[e] /\ u[i] = t[i]
      BY <1>1, <1>3, <2>1, <2>2
    <3>2. QED BY <2>1, <2>2, <3>1 DEF IsPrimary
  <2>3. CASE i \notin DOMAIN t
    <3>1. Tells(new, "invoke", u[b].id)
      BY <1>2, <2>1, <2>3 DEF Tells, Event
    <3>2. CASE e \in DOMAIN t
      <4>1. b \in DOMAIN t /\ u[b] = t[b] /\ u[e] = t[e]
        BY <1>1, <1>3, <2>1, <3>2
      <4>2. BorrowEnded(t, u[b].id)
        BY <2>1, <3>2, <4>1 DEF BorrowEnded, BindsTo
      <4>3. QED BY <3>1, <4>2
    <3>3. CASE e \notin DOMAIN t
      <4>1. Drops(new)
        BY <1>2, <2>1, <3>3 DEF Drops, Event
      <4>2. QED BY <3>1, <4>1
    <3>4. QED BY <3>2, <3>3
  <2>4. QED BY <2>2, <2>3
<1>8. ASSUME CallsRetained(t),
             \A c : Tells(new, "invoke", c) => ~Tells(t, "unregister", c) /\ ~Tells(new, "unregister", c)
      PROVE  CallsRetained(u)
  <2> SUFFICES ASSUME NEW i \in DOMAIN u, NEW j \in DOMAIN u,
                      u[i].kind = "unregister", u[j].kind = "invoke", i < j, u[i].id = u[j].id
               PROVE  FALSE
    BY DEF CallsRetained
  <2>1. CASE j \in DOMAIN t
    <3>1. i \in DOMAIN t /\ u[i] = t[i] /\ u[j] = t[j]
      BY <1>1, <1>3, <2>1
    <3>2. QED BY <1>8, <2>1, <3>1 DEF CallsRetained
  <2>2. CASE j \notin DOMAIN t
    <3>1. Tells(new, "invoke", u[j].id)
      BY <1>2, <2>2 DEF Tells
    <3>2. Tells(u, "unregister", u[j].id)
      BY DEF Tells
    <3>3. QED BY <1>5, <1>8, <3>1, <3>2
  <2>3. QED BY <2>1, <2>2
<1>9. QED
  BY <1>1, <1>2, <1>4, <1>5, <1>d, <1>6, <1>7, <1>8, <1>p DEF u, n

\* A value or none.
Option == {q \in Seq(Nat) : Len(q) <= 1}

\* The one value of an option.
LEMMA Options ==
    /\ <<>> \in Option /\ \A i \in Nat : <<i>> \in Option /\ <<i>> # <<>> /\ Head(<<i>>) = i
    /\ \A q \in Option : q # <<>> => Head(q) \in Nat /\ Head(q) = q[1] /\ 1 \in DOMAIN q
    /\ \A q \in Option : \A i \in DOMAIN q : q # <<>> /\ q[i] = Head(q) /\ i = 1
BY DEF Option

\* The events of a kind about each value.
LEMMA EachIs ==
    ASSUME NEW q \in Option, NEW k \in EventKinds \ {"bind"}, NEW site \in Sites
    PROVE  /\ Each(k, site, q) \in Traces /\ DOMAIN Each(k, site, q) = DOMAIN q
           /\ \A i \in DOMAIN q :
                  Each(k, site, q)[i].kind = k /\ Each(k, site, q)[i].id = Head(q) /\ q # <<>>
           /\ \A kk, c : Tells(Each(k, site, q), kk, c) => kk = k /\ q # <<>> /\ c = Head(q)
           /\ Drops(Each(k, site, q)) => k = "drop" /\ site = "borrowed" /\ q # <<>>
           /\ \A c : ~Borrows(Each(k, site, q), c)
<1> DEFINE t == Each(k, site, q)
<1>1. DOMAIN t = DOMAIN q /\ q \in Seq(Nat)
  BY DEF Each, Option
<1>2. \A i \in DOMAIN q : t[i] = Event(k, site, q[i]) /\ q[i] \in Nat
  BY <1>1 DEF Each
<1>3. \A i \in DOMAIN q : t[i] \in Events /\ t[i].kind = k /\ t[i].site = site /\ t[i].id = q[i]
  <2>1. ASSUME NEW i \in Nat
        PROVE  Event(k, site, i) \in Events /\ Event(k, site, i).kind = k
              /\ Event(k, site, i).site = site /\ Event(k, site, i).id = i
    BY DEF Event, Events
  <2> HIDE DEF t
  <2>2. QED BY <1>2, <2>1
<1>4. t = [i \in 1..Len(q) |-> Event(k, site, q[i])] /\ Len(q) \in Nat /\ DOMAIN q = 1..Len(q)
  BY <1>1 DEF Each
<1>5. t \in Seq(Events)
  BY <1>1, <1>3, <1>4, IsASeq
<1> HIDE DEF t
<1>6. QED
  BY <1>1, <1>3, <1>5, Options DEF t, Traces, Tells, Drops, Borrows, BindsTo

-----------------------------------------------------------------------------
(* What an operation does to the harness and to its trace.                 *)

\* The harnesses there may be.
HarnessSet ==
    [owner : Option, table : BOOLEAN, borrowed : Option, owned : Option,
     retained : Option, token : Option, installed : Option,
     stopped : BOOLEAN, trace : Traces]

\* What is registered is what SQLite calls and what the token is for, and no
\* callback of an earlier event has its id.
Together(h) ==
    /\ h \in HarnessSet
    /\ h.token = h.retained /\ h.installed = h.retained
    /\ \A c : Tells(h.trace, "bind", c) \/ Tells(h.trace, "unregister", c) => c <= Len(h.trace)
    /\ h.retained # <<>> =>
           Head(h.retained) <= Len(h.trace) /\ ~Tells(h.trace, "unregister", Head(h.retained))
    /\ CallsRetained(h.trace)

\* A new harness has found nothing.
LEMMA TogetherInit == Together(NewHarness) /\ ~IsPrimary(NewHarness.trace)
<1>1. NewHarness \in HarnessSet /\ NewHarness.trace = <<>> /\ DOMAIN NewHarness.trace = {}
      /\ NewHarness.token = <<>> /\ NewHarness.retained = <<>> /\ NewHarness.installed = <<>>
  BY Options DEF NewHarness, HarnessSet, Traces
<1>2. QED BY <1>1 DEF Together, Tells, CallsRetained, IsPrimary

\* Emitting changes nothing but the trace.
LEMMA EmitIs ==
    ASSUME NEW h \in HarnessSet, NEW new \in Traces
    PROVE  LET g == Emit(h, new)
           IN /\ g \in HarnessSet /\ g.trace = h.trace \o new
              /\ g.owner = h.owner /\ g.borrowed = h.borrowed /\ g.owned = h.owned
              /\ g.retained = h.retained /\ g.token = h.token /\ g.installed = h.installed
              /\ g.stopped = h.stopped /\ g.table = h.table
<1>1. h.trace \o new \in Traces
  BY TraceGrows DEF HarnessSet
<1>2. QED BY <1>1 DEF Emit, HarnessSet

\* One event in the trace.
LEMMA OneEvent ==
    ASSUME NEW e \in Events
    PROVE  /\ <<e>> \in Traces /\ Len(<<e>>) = 1
           /\ \A k, c : Tells(<<e>>, k, c) => e.kind = k /\ e.id = c
           /\ Drops(<<e>>) => e.kind = "drop"
           /\ \A c : Borrows(<<e>>, c) => BindsTo(e, c)
BY DEF Traces, Tells, Drops, Borrows

\* A new object has an event of its own.
LEMMA TrackIs ==
    ASSUME NEW h \in HarnessSet, NEW site \in Sites
    PROVE  LET g == Track(h, site)
               e == Event("create", site, NextId(h))
           IN /\ g \in HarnessSet /\ e \in Events /\ e.kind = "create" /\ g.trace = h.trace \o <<e>>
              /\ g[site] # <<>>
              /\ g.retained = h.retained /\ g.token = h.token /\ g.installed = h.installed
              /\ g.stopped = h.stopped
<1> DEFINE e == Event("create", site, NextId(h))
           f == Emit(h, <<e>>)
           n == NextId(h)
<1>1. n \in Nat
  BY DEF NextId, HarnessSet, Traces
<1>2. e \in Events /\ e.kind = "create"
  BY <1>1 DEF Event, Events, EventKinds
<1>3. /\ f \in HarnessSet /\ f.trace = h.trace \o <<e>>
      /\ f.retained = h.retained /\ f.token = h.token /\ f.installed = h.installed
      /\ f.stopped = h.stopped
  BY <1>2, EmitIs, OneEvent
<1>4. Track(h, site) = [f EXCEPT ![site] = <<n>>]
  BY DEF Track
<1>5. <<n>> \in Option /\ <<n>> # <<>>
  BY <1>1, Options
<1> HIDE DEF e, f, n
<1>6. CASE site = "owner"
  BY <1>2, <1>3, <1>4, <1>5, <1>6 DEF HarnessSet, e
<1>7. CASE site = "borrowed"
  BY <1>2, <1>3, <1>4, <1>5, <1>7 DEF HarnessSet, e
<1>8. CASE site = "owned"
  BY <1>2, <1>3, <1>4, <1>5, <1>8 DEF HarnessSet, e
<1>9. QED BY <1>6, <1>7, <1>8 DEF Sites

\* What a step leaves of what is known, if it adds these events.
Grows(h, g, new) ==
    /\ h.trace \in Traces /\ g \in HarnessSet /\ new \in Traces /\ g.trace = h.trace \o new
    /\ g.stopped = h.stopped

\* What TraceGrows says, of the two harnesses.
LEMMA GrowthIs ==
    ASSUME NEW h, NEW g, NEW new, Grows(h, g, new)
    PROVE  /\ Len(g.trace) = Len(h.trace) + Len(new) /\ Len(g.trace) >= Len(h.trace) /\ Len(h.trace) \in Nat
           /\ \A c : Borrows(g.trace, c) => Borrows(h.trace, c) \/ Borrows(new, c)
           /\ \A k, c : Tells(g.trace, k, c) => Tells(h.trace, k, c) \/ Tells(new, k, c)
           /\ \A c : BorrowEnded(g.trace, c) =>
                  BorrowEnded(h.trace, c) \/ (Drops(new) /\ (Borrows(h.trace, c) \/ Borrows(new, c)))
           /\ IsPrimary(h.trace) => IsPrimary(g.trace)
           /\ IsPrimary(g.trace) =>
                  \/ IsPrimary(h.trace)
                  \/ \E c : Tells(new, "invoke", c) /\ (BorrowEnded(h.trace, c) \/ Drops(new))
           /\ /\ CallsRetained(h.trace)
              /\ \A c : Tells(new, "invoke", c) => ~Tells(h.trace, "unregister", c) /\ ~Tells(new, "unregister", c)
              => CallsRetained(g.trace)
<1> DEFINE t == h.trace
           u == t \o new
<1>1. t \in Traces /\ new \in Traces /\ g.trace = u /\ Len(t) \in Nat /\ Len(new) \in Nat
  BY DEF Grows, Traces
<1> HIDE DEF t
<1>2. QED BY <1>1, TraceGrows DEF t

\* Nothing is called, released or bound.
LEMMA QuietStep ==
    ASSUME NEW h, Together(h), NEW g, NEW new, Grows(h, g, new),
           g.retained = h.retained, g.token = h.token, g.installed = h.installed,
           \A k, c : Tells(new, k, c) => k \in {"create", "drop"}
    PROVE  /\ Together(g)
           /\ \A c : Borrows(g.trace, c) => Borrows(h.trace, c)
           /\ \A c : BorrowEnded(g.trace, c) => BorrowEnded(h.trace, c) \/ (Drops(new) /\ Borrows(h.trace, c))
           /\ IsPrimary(g.trace) <=> IsPrimary(h.trace)
<1>1. \A c : ~Borrows(new, c)
  BY DEF Borrows, BindsTo, Tells
<1>2. Len(g.trace) = Len(h.trace) + Len(new) /\ Len(g.trace) >= Len(h.trace) /\ Len(h.trace) \in Nat
  BY GrowthIs
<1>3. \A c : Tells(g.trace, "bind", c) \/ Tells(g.trace, "unregister", c)
             => Tells(h.trace, "bind", c) \/ Tells(h.trace, "unregister", c)
  <2>1. \A k, c : Tells(g.trace, k, c) => Tells(h.trace, k, c) \/ Tells(new, k, c)
    BY GrowthIs
  <2>2. \A c : ~Tells(new, "bind", c) /\ ~Tells(new, "unregister", c)
    OBVIOUS
  <2>3. QED BY <2>1, <2>2
<1>4. CallsRetained(g.trace)
  BY GrowthIs DEF Together
<1>a. \A c : Tells(h.trace, "bind", c) \/ Tells(h.trace, "unregister", c) => c \in Nat
  BY DEF Tells, Together, HarnessSet, Traces, Events
<1>b. h.retained # <<>> => Head(h.retained) \in Nat
  BY Options DEF Together, HarnessSet
<1>5. Together(g)
  <2>1. \A c : Tells(g.trace, "bind", c) \/ Tells(g.trace, "unregister", c) => c <= Len(g.trace)
    BY <1>2, <1>3, <1>a DEF Together
  <2>2. h.retained # <<>> =>
           Head(h.retained) <= Len(g.trace) /\ ~Tells(g.trace, "unregister", Head(h.retained))
    <3>1. \A c : Tells(g.trace, "unregister", c) => Tells(h.trace, "unregister", c)
      BY GrowthIs
    <3>2. QED BY <1>2, <1>b, <3>1 DEF Together
  <2>3. QED BY <1>4, <2>1, <2>2 DEF Together, Grows
<1>6. \A c : Borrows(g.trace, c) => Borrows(h.trace, c)
  BY <1>1, GrowthIs
<1>7. \A c : BorrowEnded(g.trace, c) => BorrowEnded(h.trace, c) \/ (Drops(new) /\ Borrows(h.trace, c))
  BY <1>1, GrowthIs
<1>8. IsPrimary(g.trace) <=> IsPrimary(h.trace)
  BY GrowthIs
<1>9. QED BY <1>5, <1>6, <1>7, <1>8

\* The callback that is retained is called.
LEMMA CallStep ==
    ASSUME NEW h, Together(h), NEW g, g = Emit(h, Each("invoke", "owner", h.installed))
    PROVE  /\ Together(g) /\ g.retained = h.retained /\ g.stopped = h.stopped
           /\ \A c : Borrows(g.trace, c) => Borrows(h.trace, c)
           /\ \A c : BorrowEnded(g.trace, c) => BorrowEnded(h.trace, c)
           /\ IsPrimary(h.trace) => IsPrimary(g.trace)
           /\ IsPrimary(g.trace) =>
                 IsPrimary(h.trace) \/ (h.retained # <<>> /\ BorrowEnded(h.trace, Head(h.retained)))
<1> DEFINE new == Each("invoke", "owner", h.installed)
<1>1. h.installed \in Option /\ h.installed = h.retained /\ "owner" \in Sites
      /\ "invoke" \in EventKinds \ {"bind"} /\ h \in HarnessSet /\ h.trace \in Traces
  BY DEF Together, HarnessSet, Sites, EventKinds
<1>2. /\ new \in Traces
      /\ \A k, c : Tells(new, k, c) => k = "invoke" /\ h.retained # <<>> /\ c = Head(h.retained)
      /\ ~Drops(new) /\ \A c : ~Borrows(new, c)
  BY <1>1, EachIs
<1> HIDE DEF new
<1>3. /\ g \in HarnessSet /\ g.trace = h.trace \o new /\ g.stopped = h.stopped
      /\ g.retained = h.retained /\ g.token = h.token /\ g.installed = h.installed
  BY <1>1, <1>2, EmitIs DEF new
<1>g. Grows(h, g, new)
  BY <1>1, <1>2, <1>3 DEF Grows
<1>4. Len(g.trace) = Len(h.trace) + Len(new) /\ Len(g.trace) >= Len(h.trace) /\ Len(h.trace) \in Nat
  BY <1>g, GrowthIs
<1>5. \A k, c : k # "invoke" /\ Tells(g.trace, k, c) => Tells(h.trace, k, c)
  BY <1>2, <1>g, GrowthIs
<1>6. CallsRetained(g.trace)
  BY <1>2, <1>g, GrowthIs DEF Together
<1>a. \A c : Tells(h.trace, "bind", c) \/ Tells(h.trace, "unregister", c) => c \in Nat
  BY DEF Tells, Together, HarnessSet, Traces, Events
<1>b. h.retained # <<>> => Head(h.retained) \in Nat
  BY Options DEF Together, HarnessSet
<1>7. Together(g)
  BY <1>3, <1>4, <1>5, <1>6, <1>a, <1>b DEF Together
<1>8. \A c : BorrowEnded(g.trace, c) => BorrowEnded(h.trace, c)
  BY <1>2, <1>g, GrowthIs
<1>9. \A c : Borrows(g.trace, c) => Borrows(h.trace, c)
  BY <1>2, <1>g, GrowthIs
<1>10. /\ IsPrimary(h.trace) => IsPrimary(g.trace)
       /\ IsPrimary(g.trace) =>
             IsPrimary(h.trace) \/ (h.retained # <<>> /\ BorrowEnded(h.trace, Head(h.retained)))
  BY <1>2, <1>g, GrowthIs
<1>11. QED BY <1>3, <1>7, <1>8, <1>9, <1>10

\* The callback that is retained is released, or none.
Released(h, g) ==
    /\ g \in HarnessSet /\ g.stopped = h.stopped
    /\ g.borrowed = h.borrowed /\ g.owned = h.owned /\ g.owner = h.owner
    /\ g.retained = h.retained /\ g.token = h.token /\ g.installed = h.installed
    /\ \A c : Tells(g.trace, "bind", c) \/ Tells(g.trace, "unregister", c)
                => c \in Nat /\ c <= Len(g.trace)
    /\ CallsRetained(g.trace)
    /\ \A c : Borrows(g.trace, c) => Borrows(h.trace, c)
    /\ \A c : BorrowEnded(g.trace, c) => BorrowEnded(h.trace, c)
    /\ IsPrimary(g.trace) <=> IsPrimary(h.trace)

\* A release adds no borrow, no end of one and no finding.
LEMMA ReleaseStep ==
    ASSUME NEW h, Together(h), NEW g, g = Emit(h, Each("unregister", "owner", h.retained))
    PROVE  Released(h, g)
<1> DEFINE new == Each("unregister", "owner", h.retained)
<1>1. h.retained \in Option /\ "owner" \in Sites
      /\ "unregister" \in EventKinds \ {"bind"} /\ h \in HarnessSet /\ h.trace \in Traces
  BY DEF Together, HarnessSet, Sites, EventKinds
<1>2. /\ new \in Traces
      /\ \A k, c : Tells(new, k, c) => k = "unregister" /\ h.retained # <<>> /\ c = Head(h.retained)
      /\ ~Drops(new) /\ \A c : ~Borrows(new, c)
  BY <1>1, EachIs
<1> HIDE DEF new
<1>3. /\ g \in HarnessSet /\ g.trace = h.trace \o new /\ g.stopped = h.stopped
      /\ g.borrowed = h.borrowed /\ g.owned = h.owned /\ g.owner = h.owner
      /\ g.retained = h.retained /\ g.token = h.token /\ g.installed = h.installed
  BY <1>1, <1>2, EmitIs DEF new
<1>g. Grows(h, g, new)
  BY <1>1, <1>2, <1>3 DEF Grows
<1>4. Len(g.trace) = Len(h.trace) + Len(new) /\ Len(g.trace) >= Len(h.trace) /\ Len(h.trace) \in Nat
  BY <1>g, GrowthIs
<1>5. \A k, c : Tells(g.trace, k, c) => Tells(h.trace, k, c) \/ (h.retained # <<>> /\ c = Head(h.retained))
  BY <1>2, <1>g, GrowthIs
<1>6. CallsRetained(g.trace)
  BY <1>2, <1>g, GrowthIs DEF Together
<1>a. \A c : Tells(h.trace, "bind", c) \/ Tells(h.trace, "unregister", c) => c \in Nat
  BY DEF Tells, Together, HarnessSet, Traces, Events
<1>b. h.retained # <<>> => Head(h.retained) \in Nat
  BY Options DEF Together, HarnessSet
<1>7. \A c : Tells(g.trace, "bind", c) \/ Tells(g.trace, "unregister", c) => c \in Nat /\ c <= Len(g.trace)
  <2>1. ASSUME NEW c, Tells(g.trace, "bind", c) \/ Tells(g.trace, "unregister", c)
        PROVE  \/ Tells(h.trace, "bind", c) \/ Tells(h.trace, "unregister", c)
               \/ h.retained # <<>> /\ c = Head(h.retained)
    BY <1>5, <2>1
  <2>2. QED BY <1>4, <1>a, <1>b, <2>1 DEF Together
<1>8. \A c : BorrowEnded(g.trace, c) => BorrowEnded(h.trace, c)
  BY <1>2, <1>g, GrowthIs
<1>9. \A c : Borrows(g.trace, c) => Borrows(h.trace, c)
  BY <1>2, <1>g, GrowthIs
<1>10. IsPrimary(g.trace) <=> IsPrimary(h.trace)
  BY <1>2, <1>g, GrowthIs
<1>11. QED BY <1>2, <1>3, <1>6, <1>7, <1>8, <1>9, <1>10 DEF new, Released

\* A callback is registered with an object bound to it, in place of the one that
\* is retained.
LEMMA RegisterStep ==
    ASSUME NEW h, Together(h), NEW site \in {"borrowed", "owned"}, h[site] # <<>>,
           NEW g, g = Register(h, site)
    PROVE  /\ Together(g) /\ g.stopped = h.stopped /\ g.retained # <<>>
           /\ ~BorrowEnded(g.trace, Head(g.retained))
           /\ site = "owned" => ~Borrows(g.trace, Head(g.retained))
           /\ \A c : Borrows(g.trace, c) => Borrows(h.trace, c) \/ site = "borrowed"
           /\ \A c : BorrowEnded(g.trace, c) => BorrowEnded(h.trace, c)
           /\ IsPrimary(g.trace) <=> IsPrimary(h.trace)
<1> DEFINE rel == Emit(h, Each("unregister", "owner", h.retained))
           c == NextId(rel)
           o == Head(h[site])
           e1 == Event("register", "owner", c)
           e2 == [kind |-> "bind", site |-> site, id |-> c, object |-> o]
           new == <<e1, e2>>
           f == Emit(rel, new)
<1>0. rel = Emit(h, Each("unregister", "owner", h.retained))
  OBVIOUS
<1> HIDE DEF rel
<1>1. /\ rel \in HarnessSet /\ rel.stopped = h.stopped
      /\ \A x : Tells(rel.trace, "bind", x) \/ Tells(rel.trace, "unregister", x)
                => x \in Nat /\ x <= Len(rel.trace)
      /\ CallsRetained(rel.trace)
      /\ \A x : Borrows(rel.trace, x) => Borrows(h.trace, x)
      /\ \A x : BorrowEnded(rel.trace, x) => BorrowEnded(h.trace, x)
      /\ IsPrimary(rel.trace) <=> IsPrimary(h.trace)
  <2>1. Released(h, rel)
    BY <1>0, ReleaseStep
  <2>2. QED BY <2>1 DEF Released
<1>2. rel.trace \in Traces /\ c = Len(rel.trace) + 1 /\ Len(rel.trace) \in Nat /\ c \in Nat
  BY <1>1 DEF NextId, HarnessSet, Traces
<1>3. o \in Nat
  BY Options DEF Together, HarnessSet
<1> HIDE DEF c, o
<1>4. /\ e1 \in Events /\ e1.kind = "register"
      /\ e2 \in Events /\ e2.kind = "bind" /\ e2.site = site /\ e2.id = c
  BY <1>2, <1>3 DEF Events, Event, EventKinds, Sites
<1> HIDE DEF e1, e2
<1>5. /\ new \in Traces /\ Len(new) = 2
      /\ \A k, x : Tells(new, k, x) => k = "register" \/ (k = "bind" /\ x = c)
      /\ ~Drops(new)
      /\ \A x : Borrows(new, x) => x = c /\ site = "borrowed"
  BY <1>4 DEF Traces, Tells, Drops, Borrows, BindsTo
<1> HIDE DEF new
<1>6. f \in HarnessSet /\ f.trace = rel.trace \o new /\ f.stopped = rel.stopped
  BY <1>1, <1>5, EmitIs
<1>7. Grows(rel, f, new)
  BY <1>2, <1>5, <1>6 DEF Grows
<1>8. g = [f EXCEPT !.retained = <<c>>, !.token = <<c>>, !.installed = <<c>>]
  BY DEF Register, rel, c, o, e1, e2, new
<1> HIDE DEF f
<1>9. <<c>> \in Option /\ <<c>> # <<>> /\ Head(<<c>>) = c
  BY <1>2, Options
<1>10. /\ g \in HarnessSet /\ g.trace = f.trace /\ g.stopped = h.stopped
       /\ g.retained = <<c>> /\ g.token = <<c>> /\ g.installed = <<c>>
  BY <1>1, <1>6, <1>8, <1>9 DEF HarnessSet
<1>11. Len(f.trace) = Len(rel.trace) + 2
  BY <1>5, <1>7, GrowthIs
<1>12. \A k, x : k # "register" /\ Tells(f.trace, k, x) => Tells(rel.trace, k, x) \/ (k = "bind" /\ x = c)
  <2>1. \A k, x : Tells(f.trace, k, x) => Tells(rel.trace, k, x) \/ Tells(new, k, x)
    BY <1>7, GrowthIs
  <2>2. QED BY <1>5, <2>1
<1>13. \A x : Borrows(f.trace, x) => Borrows(rel.trace, x) \/ (x = c /\ site = "borrowed")
  <2>1. \A x : Borrows(f.trace, x) => Borrows(rel.trace, x) \/ Borrows(new, x)
    BY <1>7, GrowthIs
  <2>2. QED BY <1>5, <2>1
<1>14. \A x : BorrowEnded(f.trace, x) => BorrowEnded(rel.trace, x)
  BY <1>5, <1>7, GrowthIs
<1>15. IsPrimary(f.trace) <=> IsPrimary(rel.trace)
  BY <1>5, <1>7, GrowthIs
<1>16. CallsRetained(f.trace)
  BY <1>1, <1>5, <1>7, GrowthIs
<1>17. ~Tells(rel.trace, "bind", c) /\ ~Tells(rel.trace, "unregister", c)
  BY <1>1, <1>2
<1>18. ~Borrows(rel.trace, c)
  BY <1>17 DEF Borrows, BindsTo, Tells
<1>19. ~BorrowEnded(rel.trace, c)
  BY <1>18 DEF BorrowEnded, Borrows
<1>20. Together(g)
  <2>1. \A x : Tells(f.trace, "bind", x) \/ Tells(f.trace, "unregister", x) => x <= Len(f.trace)
    <3>1. ASSUME NEW x, Tells(f.trace, "bind", x) \/ Tells(f.trace, "unregister", x)
          PROVE  x <= Len(f.trace)
      <4>1. Tells(rel.trace, "bind", x) \/ Tells(rel.trace, "unregister", x) \/ x = c
        BY <1>12, <3>1
      <4>2. QED BY <1>1, <1>2, <1>11, <4>1
    <3>2. QED BY <3>1
  <2>2. ~Tells(f.trace, "unregister", c)
    BY <1>12, <1>17
  <2>3. c <= Len(f.trace)
    BY <1>2, <1>11
  <2>4. QED BY <1>9, <1>10, <1>16, <2>1, <2>2, <2>3 DEF Together
<1>21. QED
  BY <1>1, <1>9, <1>10, <1>13, <1>14, <1>15, <1>18, <1>19, <1>20

\* The callback is released by the program.
LEMMA UnregisterStep ==
    ASSUME NEW h, Together(h), NEW g,
           g = [Emit(h, Each("unregister", "owner", h.retained))
                   EXCEPT !.token = <<>>, !.installed = <<>>, !.retained = <<>>]
    PROVE  /\ Together(g) /\ g.stopped = h.stopped /\ g.retained = <<>>
           /\ \A c : Borrows(g.trace, c) => Borrows(h.trace, c)
           /\ \A c : BorrowEnded(g.trace, c) => BorrowEnded(h.trace, c)
           /\ IsPrimary(g.trace) <=> IsPrimary(h.trace)
<1> DEFINE rel == Emit(h, Each("unregister", "owner", h.retained))
<1>0. rel = Emit(h, Each("unregister", "owner", h.retained))
  OBVIOUS
<1> HIDE DEF rel
<1>1. /\ rel \in HarnessSet /\ rel.stopped = h.stopped
      /\ \A x : Tells(rel.trace, "bind", x) \/ Tells(rel.trace, "unregister", x)
                => x \in Nat /\ x <= Len(rel.trace)
      /\ CallsRetained(rel.trace)
      /\ \A x : Borrows(rel.trace, x) => Borrows(h.trace, x)
      /\ \A x : BorrowEnded(rel.trace, x) => BorrowEnded(h.trace, x)
      /\ IsPrimary(rel.trace) <=> IsPrimary(h.trace)
  <2>1. Released(h, rel)
    BY <1>0, ReleaseStep
  <2>2. QED BY <2>1 DEF Released
<1>2. g = [rel EXCEPT !.token = <<>>, !.installed = <<>>, !.retained = <<>>]
  BY DEF rel
<1>3. /\ g \in HarnessSet /\ g.trace = rel.trace /\ g.stopped = h.stopped
      /\ g.retained = <<>> /\ g.token = <<>> /\ g.installed = <<>>
  BY <1>1, <1>2, Options DEF HarnessSet
<1>4. Together(g)
  BY <1>1, <1>3 DEF Together
<1>5. QED BY <1>1, <1>3, <1>4

\* The connection is closed, which releases the callback first.
LEMMA CloseStep ==
    ASSUME NEW h, Together(h), NEW g, g = Close(h)
    PROVE  /\ Together(g) /\ g.stopped = h.stopped /\ g.retained = <<>>
           /\ \A c : Borrows(g.trace, c) => Borrows(h.trace, c)
           /\ \A c : BorrowEnded(g.trace, c) => BorrowEnded(h.trace, c)
           /\ IsPrimary(g.trace) <=> IsPrimary(h.trace)
<1> DEFINE e1 == Each("unregister", "owner", h.retained)
           e2 == Each("drop", "owner", h.owner)
           new == e1 \o e2
           f == Emit(h, new)
<1>1. /\ h.retained \in Option /\ h.owner \in Option /\ "owner" \in Sites
      /\ "unregister" \in EventKinds \ {"bind"} /\ "drop" \in EventKinds \ {"bind"}
      /\ h \in HarnessSet /\ h.trace \in Traces
  BY DEF Together, HarnessSet, Sites, EventKinds
<1>2. /\ e1 \in Traces /\ ~Drops(e1) /\ \A c : ~Borrows(e1, c)
      /\ \A k, c : Tells(e1, k, c) => k = "unregister" /\ h.retained # <<>> /\ c = Head(h.retained)
  BY <1>1, EachIs
<1>3. /\ e2 \in Traces /\ ~Drops(e2) /\ \A c : ~Borrows(e2, c)
      /\ \A k, c : Tells(e2, k, c) => k = "drop"
  BY <1>1, EachIs
<1> HIDE DEF e1, e2
<1>4. /\ new \in Traces /\ ~Drops(new) /\ \A c : ~Borrows(new, c)
      /\ \A k, c : Tells(new, k, c) => k = "drop" \/ (k = "unregister" /\ h.retained # <<>> /\ c = Head(h.retained))
  BY <1>2, <1>3, TraceGrows
<1> HIDE DEF new
<1>5. f \in HarnessSet /\ f.trace = h.trace \o new /\ f.stopped = h.stopped
  BY <1>1, <1>4, EmitIs
<1>6. Grows(h, f, new)
  BY <1>1, <1>4, <1>5 DEF Grows
<1>7. g = [f EXCEPT !.owner = <<>>, !.retained = <<>>, !.token = <<>>, !.installed = <<>>, !.table = FALSE]
  BY DEF Close, e1, e2, new
<1> HIDE DEF f
<1>8. /\ g \in HarnessSet /\ g.trace = f.trace /\ g.stopped = h.stopped
      /\ g.retained = <<>> /\ g.token = <<>> /\ g.installed = <<>>
  BY <1>5, <1>7, Options DEF HarnessSet
<1>9. /\ Len(f.trace) >= Len(h.trace) /\ Len(h.trace) \in Nat /\ Len(f.trace) \in Nat
  BY <1>4, <1>6, GrowthIs DEF Traces
<1>10. \A k, c : k # "drop" /\ Tells(f.trace, k, c) => Tells(h.trace, k, c) \/ (h.retained # <<>> /\ c = Head(h.retained))
  <2>1. \A k, c : Tells(f.trace, k, c) => Tells(h.trace, k, c) \/ Tells(new, k, c)
    BY <1>6, GrowthIs
  <2>2. QED BY <1>4, <2>1
<1>11. CallsRetained(f.trace)
  BY <1>4, <1>6, GrowthIs DEF Together
<1>a. \A c : Tells(h.trace, "bind", c) \/ Tells(h.trace, "unregister", c) => c \in Nat
  BY DEF Tells, Together, HarnessSet, Traces, Events
<1>b. h.retained # <<>> => Head(h.retained) \in Nat
  BY <1>1, Options
<1>12. \A c : Tells(f.trace, "bind", c) \/ Tells(f.trace, "unregister", c) => c <= Len(f.trace)
  <2>1. ASSUME NEW c, Tells(f.trace, "bind", c) \/ Tells(f.trace, "unregister", c)
        PROVE  \/ Tells(h.trace, "bind", c) \/ Tells(h.trace, "unregister", c)
               \/ h.retained # <<>> /\ c = Head(h.retained)
    BY <1>10, <2>1
  <2>2. QED BY <1>9, <1>a, <1>b, <2>1 DEF Together
<1>13. Together(g)
  BY <1>8, <1>11, <1>12 DEF Together
<1>14. /\ \A c : Borrows(f.trace, c) => Borrows(h.trace, c)
       /\ \A c : BorrowEnded(f.trace, c) => BorrowEnded(h.trace, c)
       /\ IsPrimary(f.trace) <=> IsPrimary(h.trace)
  BY <1>4, <1>6, GrowthIs
<1>15. QED BY <1>8, <1>13, <1>14

\* The owner's scope ends: both objects are dropped.
LEMMA DropStateStep ==
    ASSUME NEW h, Together(h), NEW g, g = DropState(h)
    PROVE  /\ Together(g) /\ g.stopped = h.stopped /\ g.retained = h.retained
           /\ \A c : Borrows(g.trace, c) => Borrows(h.trace, c)
           /\ \A c : BorrowEnded(g.trace, c) => BorrowEnded(h.trace, c) \/ Borrows(h.trace, c)
           /\ IsPrimary(g.trace) <=> IsPrimary(h.trace)
<1> DEFINE e1 == Each("drop", "borrowed", h.borrowed)
           e2 == Each("drop", "owned", h.owned)
           new == e1 \o e2
           f == Emit(h, new)
<1>1. /\ h.borrowed \in Option /\ h.owned \in Option /\ "borrowed" \in Sites /\ "owned" \in Sites
      /\ "drop" \in EventKinds \ {"bind"} /\ h \in HarnessSet /\ h.trace \in Traces
  BY DEF Together, HarnessSet, Sites, EventKinds
<1>2. e1 \in Traces /\ \A k, c : Tells(e1, k, c) => k = "drop"
  BY <1>1, EachIs
<1>3. e2 \in Traces /\ \A k, c : Tells(e2, k, c) => k = "drop"
  BY <1>1, EachIs
<1> HIDE DEF e1, e2
<1>4. new \in Traces /\ \A k, c : Tells(new, k, c) => k \in {"create", "drop"}
  BY <1>2, <1>3, TraceGrows
<1> HIDE DEF new
<1>5. /\ f \in HarnessSet /\ f.trace = h.trace \o new /\ f.stopped = h.stopped
      /\ f.retained = h.retained /\ f.token = h.token /\ f.installed = h.installed
  BY <1>1, <1>4, EmitIs
<1>6. g = [f EXCEPT !.borrowed = <<>>, !.owned = <<>>]
  BY DEF DropState, e1, e2, new
<1> HIDE DEF f
<1>7. /\ g \in HarnessSet /\ g.trace = f.trace /\ g.stopped = h.stopped
      /\ g.retained = h.retained /\ g.token = h.token /\ g.installed = h.installed
  BY <1>5, <1>6, Options DEF HarnessSet
<1>8. Grows(h, g, new)
  BY <1>1, <1>4, <1>5, <1>7 DEF Grows
<1>9. QED BY <1>4, <1>7, <1>8, QuietStep

\* What an action may be.
ActionKinds == {"open_connection", "create_table", "create_borrowed_state", "end_owner_scope",
                "close_connection", "register_borrowed", "register_owned", "unregister", "execute_sql"}

\* Every action is one of these.
LEMMA KindsOfActions ==
    ASSUME NEW a \in FuzzActions
    PROVE  a.kind \in ActionKinds
BY DEF FuzzActions, Action, ActionKinds

\* What an action that is possible changes.
Changes(api, h, a, g) ==
    /\ Together(g) /\ g.stopped = h.stopped
    /\ \A c : Borrows(g.trace, c) => Borrows(h.trace, c) \/ a.kind = "register_borrowed"
    /\ \A c : BorrowEnded(g.trace, c) =>
           BorrowEnded(h.trace, c) \/ (a.kind = "end_owner_scope" /\ Borrows(h.trace, c))
    /\ IsPrimary(h.trace) => IsPrimary(g.trace)
    /\ IsPrimary(g.trace) =>
           \/ IsPrimary(h.trace)
           \/ /\ a.kind = "execute_sql" /\ Calls(api, a.arg)
              /\ h.retained # <<>> /\ BorrowEnded(h.trace, Head(h.retained))
    /\ g.retained # <<>> =>
           \/ /\ g.retained = h.retained
              /\ a.kind \notin {"register_borrowed", "register_owned", "unregister", "close_connection"}
           \/ /\ a.kind \in {"register_borrowed", "register_owned"} /\ a.arg = api
              /\ ~BorrowEnded(g.trace, Head(g.retained))
              /\ a.kind = "register_owned" => ~Borrows(g.trace, Head(g.retained))

\* Every effect does no more than that.
LEMMA EffectIs ==
    ASSUME NEW api, NEW h, Together(h), NEW a \in FuzzActions, Possible(api, h, a),
           NEW g, g = Effect(api, h, a)
    PROVE  Changes(api, h, a, g)
<1>0. h \in HarnessSet /\ h.trace \in Traces /\ h.token = h.retained
  BY DEF Together, HarnessSet
<1>1. ASSUME NEW site \in Sites, NEW f, f = Track(h, site)
      PROVE  /\ Together(f) /\ f.stopped = h.stopped /\ f.retained = h.retained /\ f[site] # <<>>
             /\ \A c : Borrows(f.trace, c) => Borrows(h.trace, c)
             /\ \A c : BorrowEnded(f.trace, c) => BorrowEnded(h.trace, c)
             /\ IsPrimary(f.trace) <=> IsPrimary(h.trace)
  <2> DEFINE e == Event("create", site, NextId(h))
             new == <<e>>
  <2>1. /\ f \in HarnessSet /\ e \in Events /\ e.kind = "create" /\ f.trace = h.trace \o new
        /\ f[site] # <<>> /\ f.stopped = h.stopped
        /\ f.retained = h.retained /\ f.token = h.token /\ f.installed = h.installed
    BY <1>0, <1>1, TrackIs
  <2> HIDE DEF e
  <2>2. new \in Traces /\ ~Drops(new) /\ \A k, c : Tells(new, k, c) => k \in {"create", "drop"}
    BY <2>1, OneEvent
  <2> HIDE DEF new
  <2>3. Grows(h, f, new)
    BY <1>0, <2>1, <2>2 DEF Grows
  <2>4. QED BY <2>1, <2>2, <2>3, QuietStep
<1>2. CASE a.kind = "open_connection"
  <2>1. g = Track(h, "owner") /\ "owner" \in Sites
    BY <1>2 DEF Effect, Sites
  <2>2. QED BY <1>1, <1>2, <2>1 DEF Changes
<1>3. CASE a.kind = "create_table"
  <2>1. g = [h EXCEPT !.table = TRUE]
    BY <1>3 DEF Effect
  <2>2. /\ g \in HarnessSet /\ g.trace = h.trace /\ g.stopped = h.stopped
        /\ g.retained = h.retained /\ g.token = h.token /\ g.installed = h.installed
    BY <1>0, <2>1 DEF HarnessSet
  <2>3. Together(g)
    BY <2>2 DEF Together
  <2>4. QED BY <1>3, <2>2, <2>3 DEF Changes
<1>4. CASE a.kind = "create_borrowed_state"
  <2>1. g = Track(h, "borrowed") /\ "borrowed" \in Sites
    BY <1>4 DEF Effect, Sites
  <2>2. QED BY <1>1, <1>4, <2>1 DEF Changes
<1>5. CASE a.kind = "register_borrowed"
  <2>1. g = Register(h, "borrowed") /\ h["borrowed"] # <<>> /\ a.arg = api
    BY <1>5 DEF Effect, Possible
  <2>2. QED BY <1>5, <2>1, RegisterStep DEF Changes
<1>6. CASE a.kind = "register_owned"
  <2> DEFINE f == IF h.owned = <<>> THEN Track(h, "owned") ELSE h
  <2>1. g = Register(f, "owned") /\ a.arg = api
    BY <1>6 DEF Effect, Possible
  <2>2. /\ Together(f) /\ f.stopped = h.stopped /\ f["owned"] # <<>>
        /\ \A c : Borrows(f.trace, c) => Borrows(h.trace, c)
        /\ \A c : BorrowEnded(f.trace, c) => BorrowEnded(h.trace, c)
        /\ IsPrimary(f.trace) <=> IsPrimary(h.trace)
    <3>1. CASE h.owned = <<>>
      <4>1. f = Track(h, "owned") /\ "owned" \in Sites
        BY <3>1 DEF Sites
      <4> HIDE DEF f
      <4>2. QED BY <1>1, <4>1
    <3>2. CASE h.owned # <<>>
      BY <3>2
    <3>3. QED BY <3>1, <3>2
  <2> HIDE DEF f
  <2>3. QED BY <1>6, <2>1, <2>2, RegisterStep DEF Changes
<1>7. CASE a.kind = "unregister"
  <2> DEFINE c == IF api = "update_hook" THEN h.token ELSE h.retained
  <2>1. c = h.retained
    BY <1>0
  <2>2. g = [Emit(h, Each("unregister", "owner", c))
                EXCEPT !.token = <<>>, !.installed = <<>>, !.retained = IF @ = c THEN <<>> ELSE @]
    BY <1>7 DEF Effect
  <2>3. Emit(h, Each("unregister", "owner", h.retained)).retained = h.retained
    BY ReleaseStep DEF Released
  <2>4. g = [Emit(h, Each("unregister", "owner", h.retained))
                EXCEPT !.token = <<>>, !.installed = <<>>, !.retained = <<>>]
    <3> DEFINE f == Emit(h, Each("unregister", "owner", h.retained))
    <3>1. g = [f EXCEPT !.token = <<>>, !.installed = <<>>, !.retained = IF @ = h.retained THEN <<>> ELSE @]
      BY <2>1, <2>2
    <3>2. f.retained = h.retained
      BY <2>3
    <3>3. f \in HarnessSet
      BY ReleaseStep DEF Released
    <3> HIDE DEF f
    <3>4. g = [f EXCEPT !.token = <<>>, !.installed = <<>>, !.retained = <<>>]
      BY <3>1, <3>2, <3>3 DEF HarnessSet
    <3>5. QED BY <3>4 DEF f
  <2>5. QED BY <1>7, <2>4, UnregisterStep DEF Changes
<1>8. CASE a.kind = "end_owner_scope"
  <2>1. g = DropState(h)
    BY <1>8 DEF Effect
  <2>2. QED BY <1>8, <2>1, DropStateStep DEF Changes
<1>9. CASE a.kind = "execute_sql"
  <2>1. CASE Calls(api, a.arg)
    <3>1. g = Emit(h, Each("invoke", "owner", h.installed))
      BY <1>9, <2>1 DEF Effect
    <3>2. QED BY <1>9, <2>1, <3>1, CallStep DEF Changes
  <2>2. CASE ~Calls(api, a.arg)
    <3>1. g = h
      BY <1>9, <2>2 DEF Effect
    <3>2. QED BY <1>9, <3>1 DEF Changes
  <2>3. QED BY <2>1, <2>2
<1>10. CASE a.kind = "close_connection"
  <2>1. g = Close(h)
    BY <1>10 DEF Effect
  <2>2. QED BY <1>10, <2>1, CloseStep DEF Changes
<1>11. QED
  BY <1>2, <1>3, <1>4, <1>5, <1>6, <1>7, <1>8, <1>9, <1>10, KindsOfActions DEF ActionKinds

-----------------------------------------------------------------------------
(* What the audit and the stages of a sequence say of its execution.       *)

\* The states of the audit.
AuditSet == [retained : ApiKinds \cup {"none"}, ended : ApiKinds \cup {"none"}, rejected : BOOLEAN]

\* As long as the harness goes on, the audit knows that a borrow is retained and
\* that it has ended; it may take either for so when it is not.
Audited(api, h, u) ==
    /\ Together(h) /\ u \in AuditSet
    /\ IsPrimary(h.trace) => u.rejected
    /\ ~h.stopped /\ h.retained # <<>> =>
           /\ Borrows(h.trace, Head(h.retained)) => u.retained = api
           /\ BorrowEnded(h.trace, Head(h.retained)) => u.ended = api

\* A borrowed registration, the end of the owner's scope and a later trigger are
\* among the first n actions.
Stage1(s, n) == \E i \in 1..n : s[i].kind = "register_borrowed"
Stage2(s, n) ==
    \E i, j \in 1..n : i < j /\ s[i].kind = "register_borrowed" /\ s[j].kind = "end_owner_scope"
Stage3(s, n) ==
    \E i, j, k \in 1..n :
        /\ i < j /\ j < k
        /\ s[i].kind = "register_borrowed" /\ s[j].kind = "end_owner_scope" /\ s[k].kind = "execute_sql"

\* What the trace tells has come from actions in this order.
Staged(s, n, h) ==
    /\ \A c : Borrows(h.trace, c) => Stage1(s, n)
    /\ \A c : BorrowEnded(h.trace, c) => Stage2(s, n)
    /\ IsPrimary(h.trace) => Stage3(s, n)

\* What has ended was a borrow.
LEMMA EndedIsBorrowed ==
    ASSUME NEW t, NEW c, BorrowEnded(t, c)
    PROVE  Borrows(t, c)
BY DEF BorrowEnded, Borrows

\* An action is applied: nothing changes but that the harness stops, or there is
\* its effect.
LEMMA ApplyIs ==
    ASSUME NEW api, NEW h, Together(h), NEW a, NEW g, g = Apply(api, h, a)
    PROVE  \/ /\ Together(g) /\ g.stopped
              /\ g.trace = h.trace /\ g.retained = h.retained
           \/ /\ ~h.stopped /\ Possible(api, h, a)
              /\ \E f : /\ f = Effect(api, h, a)
                        /\ Together(f) /\ f.stopped = h.stopped =>
                              Together(g) /\ g.trace = f.trace /\ g.retained = f.retained /\ ~g.stopped
<1>0. h \in HarnessSet /\ h.stopped \in BOOLEAN
  BY DEF Together, HarnessSet
<1>1. CASE h.stopped
  <2>1. g = h
    BY <1>0, <1>1 DEF Apply
  <2>2. QED BY <1>1, <2>1
<1>2. CASE ~h.stopped /\ Possible(api, h, a)
  <2> DEFINE f == Effect(api, h, a)
  <2>1. g = f
    BY <1>2 DEF Apply
  <2> HIDE DEF f
  <2>2. ASSUME Together(f), f.stopped = h.stopped
        PROVE  Together(g) /\ g.trace = f.trace /\ g.retained = f.retained /\ ~g.stopped
    <3>1. /\ g \in HarnessSet /\ g.trace = f.trace /\ g.stopped = f.stopped
          /\ g.retained = f.retained /\ g.token = f.token /\ g.installed = f.installed
      BY <2>1, <2>2 DEF HarnessSet, Together
    <3>2. QED BY <1>2, <2>2, <3>1 DEF Together
  <2>3. QED BY <1>2, <2>2 DEF f
<1>3. CASE ~h.stopped /\ ~Possible(api, h, a)
  <2>1. g = [h EXCEPT !.stopped = TRUE]
    BY <1>3 DEF Apply
  <2>2. /\ g \in HarnessSet /\ g.trace = h.trace /\ g.stopped
        /\ g.retained = h.retained /\ g.token = h.token /\ g.installed = h.installed
    BY <1>0, <2>1 DEF HarnessSet
  <2>3. QED BY <2>2 DEF Together
<1>4. QED BY <1>1, <1>2, <1>3

\* What the audit makes of an action.
LEMMA AuditIs ==
    ASSUME NEW u \in AuditSet, NEW a \in FuzzActions
    PROVE  LET v == AuditAction(u, a)
           IN /\ v \in AuditSet /\ (u.rejected => v.rejected)
              /\ a.kind = "register_borrowed" => v.retained = a.arg
              /\ a.kind = "end_owner_scope" =>
                     v.retained = u.retained /\ v.ended = IF u.retained = "none" THEN u.ended ELSE u.retained
              /\ a.kind = "execute_sql" =>
                     /\ v.retained = u.retained /\ v.ended = u.ended
                     /\ TriggersApi(a.arg, u.ended) => v.rejected
              /\ a.kind \in {"open_connection", "create_table", "create_borrowed_state", "register_owned"} => v = u
<1> DEFINE v == AuditAction(u, a)
<1>1. CASE a.kind = "register_borrowed"
  <2>1. v = [u EXCEPT !.retained = a.arg, !.ended = "none"]
    BY <1>1 DEF AuditAction
  <2>2. a.arg \in ApiKinds
    BY <1>1 DEF FuzzActions, Action
  <2>3. QED BY <1>1, <2>1, <2>2 DEF AuditSet
<1>2. CASE a.kind = "unregister"
  <2>1. v = [u EXCEPT !.retained = Forget(a.arg, @), !.ended = Forget(a.arg, @)]
    BY <1>2 DEF AuditAction
  <2>2. QED BY <1>2, <2>1 DEF AuditSet, Forget
<1>3. CASE a.kind = "end_owner_scope"
  <2>1. v = IF u.retained # "none" THEN [u EXCEPT !.ended = u.retained] ELSE u
    BY <1>3 DEF AuditAction
  <2>2. QED BY <1>3, <2>1 DEF AuditSet
<1>4. CASE a.kind = "execute_sql"
  <2>1. v = IF TriggersApi(a.arg, u.ended) THEN [u EXCEPT !.rejected = TRUE] ELSE u
    BY <1>4 DEF AuditAction
  <2>2. QED BY <1>4, <2>1 DEF AuditSet
<1>5. CASE a.kind = "close_connection"
  <2>1. v = [u EXCEPT !.retained = "none", !.ended = "none"]
    BY <1>5 DEF AuditAction
  <2>2. QED BY <1>5, <2>1 DEF AuditSet
<1>6. CASE a.kind \in {"open_connection", "create_table", "create_borrowed_state", "register_owned"}
  <2>1. v = u
    BY <1>6 DEF AuditAction
  <2>2. QED BY <1>6, <2>1
<1>7. QED
  BY <1>1, <1>2, <1>3, <1>4, <1>5, <1>6, KindsOfActions DEF ActionKinds

\* An action keeps the audit ahead of the harness.
LEMMA AuditedStep ==
    ASSUME NEW api \in ApiKinds, NEW h, NEW u, Audited(api, h, u), NEW a \in FuzzActions
    PROVE  Audited(api, Apply(api, h, a), AuditAction(u, a))
<1> DEFINE g == Apply(api, h, a)
           v == AuditAction(u, a)
<1>0. Together(h) /\ u \in AuditSet
  BY DEF Audited
<1>1. /\ v \in AuditSet /\ (u.rejected => v.rejected)
      /\ a.kind = "register_borrowed" => v.retained = a.arg
      /\ a.kind = "end_owner_scope" =>
             v.retained = u.retained /\ v.ended = IF u.retained = "none" THEN u.ended ELSE u.retained
      /\ a.kind = "execute_sql" =>
             /\ v.retained = u.retained /\ v.ended = u.ended
             /\ TriggersApi(a.arg, u.ended) => v.rejected
      /\ a.kind \in {"open_connection", "create_table", "create_borrowed_state", "register_owned"} => v = u
  BY <1>0, AuditIs
<1>a. g = Apply(api, h, a)
  OBVIOUS
<1> HIDE DEF v, g
<1>b. u.rejected \in BOOLEAN /\ v.rejected \in BOOLEAN
  <2>1. v \in AuditSet
    BY <1>1
  <2>2. QED BY <1>0, <2>1 DEF AuditSet
<1>2. ASSUME Together(g) /\ g.stopped /\ g.trace = h.trace /\ g.retained = h.retained
      PROVE  Audited(api, g, v)
  BY <1>1, <1>2, <1>b DEF Audited
<1>3. ASSUME ~h.stopped, Possible(api, h, a), NEW f, f = Effect(api, h, a),
             Together(f) /\ f.stopped = h.stopped =>
                 Together(g) /\ g.trace = f.trace /\ g.retained = f.retained /\ ~g.stopped
      PROVE  Audited(api, g, v)
  <2>1. Changes(api, h, a, f)
    <3>1. Together(h) /\ Possible(api, h, a) /\ f = Effect(api, h, a)
      BY <1>0, <1>3
    <3>2. QED BY <3>1, EffectIs
  <2>2. Together(g) /\ g.trace = f.trace /\ g.retained = f.retained /\ ~g.stopped
    BY <1>3, <2>1 DEF Changes
  <2>3. /\ IsPrimary(h.trace) => u.rejected
        /\ h.retained # <<>> =>
               /\ Borrows(h.trace, Head(h.retained)) => u.retained = api
               /\ BorrowEnded(h.trace, Head(h.retained)) => u.ended = api
    BY <1>3 DEF Audited
  <2>4. IsPrimary(f.trace) => v.rejected
    <3>1. Calls(api, a.arg) => TriggersApi(a.arg, api)
      BY DEF Calls, TriggersApi, ApiKinds
    <3>2. QED BY <1>1, <1>b, <2>1, <2>3, <3>1 DEF Changes
  <2>5. api # "none"
    BY DEF ApiKinds
  <2>6. ASSUME f.retained # <<>>
        PROVE  /\ Borrows(f.trace, Head(f.retained)) => v.retained = api
               /\ BorrowEnded(f.trace, Head(f.retained)) => v.ended = api
    <3> DEFINE c == Head(f.retained)
    <3>1. CASE /\ f.retained = h.retained
               /\ a.kind \notin {"register_borrowed", "register_owned", "unregister", "close_connection"}
      <4>1. /\ Borrows(f.trace, c) => Borrows(h.trace, c) /\ u.retained = api
            /\ BorrowEnded(f.trace, c) =>
                   \/ u.ended = api /\ u.retained = api
                   \/ a.kind = "end_owner_scope" /\ u.retained = api
        BY <2>1, <2>3, <2>6, <3>1, EndedIsBorrowed DEF Changes
      <4>2. a.kind \in {"open_connection", "create_table", "create_borrowed_state", "end_owner_scope", "execute_sql"}
        BY <3>1, KindsOfActions DEF ActionKinds
      <4>3. QED BY <1>1, <2>5, <4>1, <4>2
    <3>2. CASE /\ a.kind \in {"register_borrowed", "register_owned"} /\ a.arg = api
               /\ ~BorrowEnded(f.trace, c)
               /\ a.kind = "register_owned" => ~Borrows(f.trace, c)
      BY <1>1, <3>2
    <3>3. QED BY <2>1, <2>6, <3>1, <3>2 DEF Changes
  <2>7. QED BY <1>1, <1>b, <2>2, <2>4, <2>6 DEF Audited
<1>4. QED BY <1>0, <1>2, <1>3, <1>a, ApplyIs DEF g, v

\* An action adds a stage to the trace only if it is the one for it.
LEMMA StagedStep ==
    ASSUME NEW api, NEW h, Together(h), NEW s, NEW n \in Nat, Staged(s, n, h),
           s[n + 1] \in FuzzActions
    PROVE  Staged(s, n + 1, Apply(api, h, s[n + 1]))
<1> DEFINE a == s[n + 1]
           g == Apply(api, h, a)
<1>0. /\ \A i \in 1..n : i \in 1..(n + 1) /\ i < n + 1
      /\ n + 1 \in 1..(n + 1)
  OBVIOUS
<1>1. Stage1(s, n) => Stage1(s, n + 1)
  BY <1>0 DEF Stage1
<1>2. Stage2(s, n) => Stage2(s, n + 1)
  BY <1>0 DEF Stage2
<1>3. Stage3(s, n) => Stage3(s, n + 1)
  BY <1>0 DEF Stage3
<1>4. a.kind = "register_borrowed" => Stage1(s, n + 1)
  BY <1>0 DEF Stage1
<1>5. a.kind = "end_owner_scope" /\ Stage1(s, n) => Stage2(s, n + 1)
  BY <1>0 DEF Stage1, Stage2
<1>6. a.kind = "execute_sql" /\ Stage2(s, n) => Stage3(s, n + 1)
  BY <1>0 DEF Stage2, Stage3
<1>7. /\ \A c : Borrows(h.trace, c) => Stage1(s, n)
      /\ \A c : BorrowEnded(h.trace, c) => Stage2(s, n)
      /\ IsPrimary(h.trace) => Stage3(s, n)
  BY DEF Staged
<1>a. g = Apply(api, h, a) /\ a \in FuzzActions
  OBVIOUS
<1>b. Staged(s, n + 1, g) <=>
      /\ \A c : Borrows(g.trace, c) => Stage1(s, n + 1)
      /\ \A c : BorrowEnded(g.trace, c) => Stage2(s, n + 1)
      /\ IsPrimary(g.trace) => Stage3(s, n + 1)
  BY DEF Staged
<1> HIDE DEF a, g
<1>8. ASSUME g.trace = h.trace
      PROVE  Staged(s, n + 1, g)
  BY <1>1, <1>2, <1>3, <1>7, <1>8, <1>b
<1>9. ASSUME ~h.stopped, Possible(api, h, a), NEW f, f = Effect(api, h, a),
             Together(f) /\ f.stopped = h.stopped => g.trace = f.trace
      PROVE  Staged(s, n + 1, g)
  <2>1. Changes(api, h, a, f)
    <3>1. Together(h) /\ Possible(api, h, a) /\ f = Effect(api, h, a) /\ a \in FuzzActions
      BY <1>9, <1>a
    <3>2. QED BY <3>1, EffectIs
  <2>2. QED BY <1>1, <1>2, <1>3, <1>4, <1>5, <1>6, <1>7, <1>9, <1>b, <2>1 DEF Changes
<1>10. QED BY <1>8, <1>9, <1>a, ApplyIs DEF a, g

\* What every execution shows, whatever the actions are.
LEMMA Executions ==
    ASSUME NEW api \in ApiKinds, NEW s \in Seq(FuzzActions)
    PROVE  /\ CallsRetained(Execute(api, s).trace)
           /\ Reproduces(api, s) => Audit(s).rejected /\ Stages(s)
<1> DEFINE h == Harnesses(api, s)
           u == Audits(s)
           m == Len(s)
           T == {n \in Nat : Audited(api, h[n], u[n]) /\ Staged(s, n, h[n])}
<1>0. m \in Nat /\ DOMAIN s = 1..m /\ \A n \in 1..m : s[n] \in FuzzActions
  OBVIOUS
<1>1. h[0] = NewHarness /\ \A n \in 1..m : h[n] = Apply(api, h[n - 1], s[n])
  BY <1>0, HarnessSteps
<1>2. u[0] = NewAudit /\ \A n \in 1..m : u[n] = AuditAction(u[n - 1], s[n])
  BY <1>0, AuditSteps
<1>x. Execute(api, s) = DropState(Close(h[m])) /\ Audit(s) = u[m]
  BY DEF Execute, Audit
<1> HIDE DEF h, u, m
<1>3. 0 \in T
  <2>1. Together(NewHarness) /\ ~IsPrimary(NewHarness.trace) /\ NewHarness.retained = <<>>
        /\ NewHarness.trace = <<>>
    BY TogetherInit DEF NewHarness
  <2>2. NewAudit \in AuditSet
    BY DEF NewAudit, AuditSet
  <2>3. \A c : ~Borrows(<<>>, c) /\ ~BorrowEnded(<<>>, c)
    BY DEF Borrows, BorrowEnded
  <2>4. Audited(api, NewHarness, NewAudit) /\ Staged(s, 0, NewHarness)
    BY <2>1, <2>2, <2>3 DEF Audited, Staged
  <2>5. QED BY <1>1, <1>2, <2>4
<1>4. \A n \in Nat : n < m /\ n \in T => n + 1 \in T
  <2> SUFFICES ASSUME NEW n \in Nat, n < m, Audited(api, h[n], u[n]), Staged(s, n, h[n])
               PROVE  Audited(api, h[n + 1], u[n + 1]) /\ Staged(s, n + 1, h[n + 1])
    OBVIOUS
  <2>1. n + 1 \in 1..m /\ (n + 1) - 1 = n
    BY <1>0
  <2>2. /\ h[n + 1] = Apply(api, h[n], s[n + 1]) /\ u[n + 1] = AuditAction(u[n], s[n + 1])
        /\ s[n + 1] \in FuzzActions
    BY <1>0, <1>1, <1>2, <2>1
  <2>3. Audited(api, h[n + 1], u[n + 1])
    BY <2>2, AuditedStep
  <2>4. Together(h[n])
    BY DEF Audited
  <2>5. Staged(s, n + 1, h[n + 1])
    BY <2>2, <2>4, StagedStep
  <2>6. QED BY <2>3, <2>5
<1>5. Audited(api, h[m], u[m]) /\ Staged(s, m, h[m])
  <2> HIDE DEF T
  <2>1. 0..m \subseteq T
    BY <1>0, <1>3, <1>4, Upwards
  <2>2. m \in T
    BY <1>0, <2>1
  <2>3. QED BY <2>2 DEF T
<1>6. Together(h[m])
  BY <1>5 DEF Audited
<1>7. Together(Close(h[m])) /\ (IsPrimary(Close(h[m]).trace) <=> IsPrimary(h[m].trace))
  BY <1>6, CloseStep
<1>8. /\ Together(DropState(Close(h[m])))
      /\ IsPrimary(DropState(Close(h[m])).trace) <=> IsPrimary(Close(h[m]).trace)
  BY <1>7, DropStateStep
<1>9. CallsRetained(Execute(api, s).trace)
  BY <1>x, <1>8 DEF Together
<1>10. ASSUME Reproduces(api, s)
       PROVE  Audit(s).rejected /\ Stages(s)
  <2>1. IsPrimary(h[m].trace)
    BY <1>x, <1>7, <1>8, <1>10 DEF Reproduces
  <2>2. Stage3(s, m) /\ u[m].rejected
    BY <1>5, <2>1 DEF Staged, Audited
  <2>3. QED BY <1>0, <1>x, <2>2 DEF Stage3, Stages
<1>11. QED BY <1>9, <1>10

-----------------------------------------------------------------------------
(* Sequences whose executions are the same, or one of which is a part of   *)
(* the other.                                                              *)

\* An action keeps the harness together and takes no finding back; none has an
\* effect after one that was refused.
LEMMA ApplyKeeps ==
    ASSUME NEW api, NEW h, Together(h), NEW a \in FuzzActions
    PROVE  /\ Together(Apply(api, h, a))
           /\ IsPrimary(h.trace) => IsPrimary(Apply(api, h, a).trace)
           /\ h.stopped => Apply(api, h, a) = h
<1> DEFINE g == Apply(api, h, a)
<1>1. h.stopped => g = h
  BY DEF Apply
<1>a. g = Apply(api, h, a)
  OBVIOUS
<1> HIDE DEF g
<1>2. ASSUME ~h.stopped, Possible(api, h, a), NEW f, f = Effect(api, h, a),
             Together(f) /\ f.stopped = h.stopped => Together(g) /\ g.trace = f.trace
      PROVE  Together(g) /\ (IsPrimary(h.trace) => IsPrimary(g.trace))
  <2>1. Changes(api, h, a, f)
    BY <1>2, EffectIs
  <2>2. QED BY <1>2, <2>1 DEF Changes
<1>3. Together(g) /\ (IsPrimary(h.trace) => IsPrimary(g.trace))
  BY <1>2, <1>a, ApplyIs
<1>4. QED BY <1>1, <1>3 DEF g

\* The harness is together after every action.
LEMMA CourseTogether ==
    ASSUME NEW api, NEW s \in Seq(FuzzActions)
    PROVE  \A n \in 0..Len(s) : Together(Harnesses(api, s)[n])
<1> DEFINE h == Harnesses(api, s)
           T == {n \in Nat : Together(h[n])}
<1>1. h[0] = NewHarness /\ \A n \in 1..Len(s) : h[n] = Apply(api, h[n - 1], s[n])
  <2>1. Len(s) \in Nat
    OBVIOUS
  <2>2. QED BY <2>1, HarnessSteps
<1> HIDE DEF h
<1>2. 0 \in T
  BY <1>1, TogetherInit
<1>3. ASSUME NEW n \in Nat, n < Len(s), n \in T
      PROVE  n + 1 \in T
  <2>1. n + 1 \in 1..Len(s) /\ (n + 1) - 1 = n
    BY <1>3
  <2>2. h[n + 1] = Apply(api, h[n], s[n + 1]) /\ s[n + 1] \in FuzzActions
    BY <1>1, <2>1
  <2>3. QED BY <1>3, <2>2, ApplyKeeps
<1>4. Len(s) \in Nat
  OBVIOUS
<1> HIDE DEF T
<1>5. 0..Len(s) \subseteq T
  BY <1>2, <1>3, <1>4, Upwards
<1>6. QED BY <1>5 DEF T, h

\* Once found is found, and once refused is refused, from the action p on.
LEMMA CourseKeeps ==
    ASSUME NEW api, NEW s \in Seq(FuzzActions), NEW p \in 0..Len(s)
    PROVE  LET h == Harnesses(api, s)
           IN /\ IsPrimary(h[p].trace) => IsPrimary(h[Len(s)].trace)
              /\ h[p].stopped => h[Len(s)] = h[p]
<1> DEFINE h == Harnesses(api, s)
           k == Len(s) - p
           T == {n \in Nat : /\ IsPrimary(h[p].trace) => IsPrimary(h[p + n].trace)
                             /\ h[p].stopped => h[p + n] = h[p]}
<1>0. k \in Nat /\ p \in Nat /\ Len(s) \in Nat /\ p + k = Len(s) /\ p + 0 = p
  OBVIOUS
<1>1. \A n \in 1..Len(s) : h[n] = Apply(api, h[n - 1], s[n])
  BY <1>0, HarnessSteps
<1>2. \A n \in 0..Len(s) : Together(h[n])
  BY CourseTogether
<1> HIDE DEF h, k
<1>3. 0 \in T
  BY <1>0
<1>4. ASSUME NEW n \in Nat, n < k, n \in T
      PROVE  n + 1 \in T
  <2>1. p + n \in 0..Len(s) /\ p + (n + 1) \in 1..Len(s) /\ (p + (n + 1)) - 1 = p + n
    BY <1>0, <1>4
  <2> DEFINE x == p + n
             y == p + (n + 1)
  <2>2. h[y] = Apply(api, h[x], s[y]) /\ s[y] \in FuzzActions /\ Together(h[x])
    BY <1>1, <1>2, <2>1
  <2>3. /\ IsPrimary(h[p].trace) => IsPrimary(h[x].trace)
        /\ h[p].stopped => h[x] = h[p]
    BY <1>4
  <2> HIDE DEF x, y
  <2>4. /\ IsPrimary(h[p].trace) => IsPrimary(h[y].trace)
        /\ h[p].stopped => h[y] = h[p]
    BY <2>2, <2>3, ApplyKeeps
  <2>5. QED BY <2>4 DEF y
<1>5. k \in T
  <2> HIDE DEF T
  <2>1. 0..k \subseteq T
    BY <1>0, <1>3, <1>4, Upwards
  <2>2. QED BY <1>0, <2>1
<1>6. QED BY <1>0, <1>5 DEF h

\* Actions that are applied alike.
Alike(api, a, b) == \A h : Apply(api, h, a) = Apply(api, h, b)
\* k actions of s after the p-th, and of r after the q-th, are.
AlikeFrom(api, s, p, r, q, k) == \A n \in 1..k : Alike(api, s[p + n], r[q + n])

\* From the same harness on, sequences that go on alike stay together.
LEMMA SameCourse ==
    ASSUME NEW api, NEW s, NEW r, Len(s) \in Nat, Len(r) \in Nat,
           NEW p \in Nat, NEW q \in Nat, NEW k \in Nat, AlikeFrom(api, s, p, r, q, k),
           NEW x \in 0..Len(s), NEW y \in 0..Len(r), x = p + k, y = q + k,
           Harnesses(api, s)[p] = Harnesses(api, r)[q]
    PROVE  Harnesses(api, s)[x] = Harnesses(api, r)[y]
<1> DEFINE h == Harnesses(api, s)
           g == Harnesses(api, r)
           T == {n \in Nat : h[p + n] = g[q + n]}
<1>0. p + 0 = p /\ q + 0 = q
  OBVIOUS
<1>1. /\ \A n \in 1..Len(s) : h[n] = Apply(api, h[n - 1], s[n])
      /\ \A n \in 1..Len(r) : g[n] = Apply(api, g[n - 1], r[n])
  BY HarnessSteps
<1>2. 0 \in T
  BY <1>0
<1> HIDE DEF h, g
<1>3. ASSUME NEW n \in Nat, n < k, n \in T
      PROVE  n + 1 \in T
  <2>1. /\ n + 1 \in 1..k
        /\ p + (n + 1) \in 1..Len(s) /\ (p + (n + 1)) - 1 = p + n
        /\ q + (n + 1) \in 1..Len(r) /\ (q + (n + 1)) - 1 = q + n
    <3>1. n < k /\ p + k <= Len(s) /\ q + k <= Len(r)
      BY <1>3
    <3> HIDE DEF T
    <3>2. QED BY <3>1
  <2>2. /\ h[p + (n + 1)] = Apply(api, h[p + n], s[p + (n + 1)])
        /\ g[q + (n + 1)] = Apply(api, g[q + n], r[q + (n + 1)])
    BY <1>1, <2>1
  <2>3. h[p + n] = g[q + n]
    BY <1>3, Zenon
  <2>4. Alike(api, s[p + (n + 1)], r[q + (n + 1)])
    BY <2>1 DEF AlikeFrom
  <2>5. QED BY <2>2, <2>3, <2>4 DEF Alike
<1>4. k \in T
  <2> HIDE DEF T
  <2>1. 0..k \subseteq T
    BY <1>2, <1>3, Upwards
  <2>2. QED BY <2>1
<1>5. QED BY <1>4 DEF h, g

\* What the clean-up adds is no finding.
LEMMA ReproducesIs ==
    ASSUME NEW api, NEW s \in Seq(FuzzActions)
    PROVE  Reproduces(api, s) <=> IsPrimary(Harnesses(api, s)[Len(s)].trace)
<1> DEFINE h == Harnesses(api, s)[Len(s)]
<1>1. Execute(api, s) = DropState(Close(h))
  BY DEF Execute
<1>2. Len(s) \in 0..Len(s)
  OBVIOUS
<1>3. Together(h)
  BY <1>2, CourseTogether
<1> HIDE DEF h
<1>4. Together(Close(h)) /\ (IsPrimary(Close(h).trace) <=> IsPrimary(h.trace))
  BY <1>3, CloseStep
<1>5. IsPrimary(DropState(Close(h)).trace) <=> IsPrimary(Close(h).trace)
  BY <1>4, DropStateStep
<1>6. QED BY <1>1, <1>4, <1>5 DEF Reproduces, h

\* Two statements are alike if SQLite calls the callback for both or for neither.
LEMMA StatementsAlike ==
    ASSUME NEW api, NEW a, NEW b, a.kind = "execute_sql", b.kind = "execute_sql",
           Calls(api, a.arg) <=> Calls(api, b.arg)
    PROVE  Alike(api, a, b)
<1> SUFFICES ASSUME NEW h PROVE Apply(api, h, a) = Apply(api, h, b)
  BY DEF Alike
<1>1. Possible(api, h, a) <=> Possible(api, h, b)
  BY DEF Possible
<1>2. Effect(api, h, a) = Effect(api, h, b)
  BY DEF Effect
<1>3. QED BY <1>1, <1>2 DEF Apply

\* What the minimizer tries is that.
LEMMA RemoveAtIs ==
    ASSUME NEW S, NEW s \in Seq(S), NEW i \in 1..Len(s)
    PROVE  /\ M!RemoveAt(s, i) \in Seq(S) /\ Len(M!RemoveAt(s, i)) = Len(s) - 1
           /\ \A n \in 1..(Len(s) - 1) : M!RemoveAt(s, i)[n] = IF n < i THEN s[n] ELSE s[n + 1]
BY WithoutIs DEF M!RemoveAt, Without

\* A statement that calls nothing can go: it changed nothing, or it was refused and
\* nothing has happened after it.
LEMMA IdleStatementGoes ==
    ASSUME NEW api, NEW s \in Seq(FuzzActions), NEW i \in 1..Len(s),
           s[i].kind = "execute_sql", ~Calls(api, s[i].arg), Reproduces(api, s)
    PROVE  Reproduces(api, M!RemoveAt(s, i))
<1> DEFINE r == M!RemoveAt(s, i)
           h == Harnesses(api, s)
           g == Harnesses(api, r)
           m == Len(s)
<1>0. m \in Nat /\ i \in Nat /\ i >= 1 /\ i <= m /\ i - 1 \in Nat /\ m - i \in Nat /\ m - 1 \in Nat
  OBVIOUS
<1>1. /\ r \in Seq(FuzzActions) /\ Len(r) = m - 1
      /\ \A n \in 1..(m - 1) : r[n] = IF n < i THEN s[n] ELSE s[n + 1]
  BY RemoveAtIs
<1>2. /\ h[0] = NewHarness /\ \A n \in 1..m : h[n] = Apply(api, h[n - 1], s[n])
      /\ g[0] = NewHarness
  BY <1>0, <1>1, HarnessSteps
<1> HIDE DEF r
<1>3. h[i - 1] = g[i - 1]
  <2>1. \A n \in 1..(i - 1) : 0 + n = n /\ n \in 1..(m - 1) /\ n < i
    BY <1>0
  <2>2. AlikeFrom(api, s, 0, r, 0, i - 1)
    BY <1>1, <2>1 DEF AlikeFrom, Alike
  <2>3. i - 1 \in 0..Len(s) /\ i - 1 \in 0..Len(r) /\ i - 1 = 0 + (i - 1) /\ 0 \in Nat
    BY <1>0, <1>1
  <2>4. Len(s) \in Nat /\ Len(r) \in Nat /\ i - 1 \in Nat /\ h[0] = g[0]
    BY <1>0, <1>1, <1>2
  <2>5. QED BY <2>2, <2>3, <2>4, SameCourse
<1>4. \/ h[i] = h[i - 1]
      \/ h[i] = [h[i - 1] EXCEPT !.stopped = TRUE]
  <2>1. h[i] = Apply(api, h[i - 1], s[i])
    BY <1>2
  <2>2. Effect(api, h[i - 1], s[i]) = h[i - 1]
    BY DEF Effect
  <2> HIDE DEF h
  <2>3. QED BY <2>1, <2>2 DEF Apply
<1>5. IsPrimary(h[m].trace)
  BY ReproducesIs
<1>6. CASE h[i] = h[i - 1]
  <2>1. \A n \in 1..(m - i) : /\ (i - 1) + n \in 1..(m - 1) /\ ~((i - 1) + n < i)
                              /\ ((i - 1) + n) + 1 = i + n
    BY <1>0
  <2>2. AlikeFrom(api, s, i, r, i - 1, m - i)
    BY <1>1, <2>1 DEF AlikeFrom, Alike
  <2>3. /\ m \in 0..Len(s) /\ m - 1 \in 0..Len(r) /\ m = i + (m - i) /\ m - 1 = (i - 1) + (m - i)
        /\ i - 1 \in Nat /\ Len(s) \in Nat /\ Len(r) \in Nat
    <3>1. \A x, y \in Int : x = y + (x - y) /\ x - 1 = (y - 1) + (x - y)
      OBVIOUS
    <3>2. QED BY <1>0, <1>1, <3>1
  <2>4. h[m] = g[m - 1]
    BY <1>0, <1>3, <1>6, <2>2, <2>3, SameCourse
  <2>5. QED BY <1>1, <1>5, <2>4, ReproducesIs DEF r
<1>7. CASE h[i] = [h[i - 1] EXCEPT !.stopped = TRUE]
  <2>1. Together(h[i - 1]) /\ h[i - 1] \in HarnessSet
    <3>1. i - 1 \in 0..m
      BY <1>0
    <3>2. Together(h[i - 1])
      BY <3>1, CourseTogether
    <3>3. QED BY <3>2 DEF Together
  <2>2. h[i].stopped /\ h[i].trace = h[i - 1].trace
    <3> HIDE DEF h
    <3>1. QED BY <1>7, <2>1 DEF HarnessSet
  <2>3. h[m] = h[i]
    <3>1. i \in 0..m
      BY <1>0
    <3>2. QED BY <2>2, <3>1, CourseKeeps
  <2>4. IsPrimary(g[i - 1].trace)
    BY <1>3, <1>5, <2>2, <2>3
  <2>5. IsPrimary(g[m - 1].trace)
    <3>1. i - 1 \in 0..(m - 1)
      BY <1>0
    <3>2. QED BY <1>1, <2>4, <3>1, CourseKeeps
  <2>6. QED BY <1>1, <2>5, ReproducesIs DEF r
<1>8. QED BY <1>4, <1>6, <1>7

\* Sequences whose actions are applied alike, one by one, reproduce the same.
LEMMA AlikeReproduce ==
    ASSUME NEW api, NEW s \in Seq(FuzzActions), NEW r \in Seq(FuzzActions), Len(s) = Len(r),
           \A n \in 1..Len(s) : Alike(api, s[n], r[n])
    PROVE  Reproduces(api, s) <=> Reproduces(api, r)
<1>1. Len(s) \in Nat /\ Len(s) \in 0..Len(s) /\ Len(s) = 0 + Len(s) /\ 0 \in Nat
  OBVIOUS
<1>2. AlikeFrom(api, s, 0, r, 0, Len(s))
  <2>1. \A n \in 1..Len(s) : 0 + n = n
    OBVIOUS
  <2>2. QED BY <2>1 DEF AlikeFrom
<1>3. Harnesses(api, s)[0] = Harnesses(api, r)[0]
  BY <1>1, HarnessSteps
<1>4. Harnesses(api, s)[Len(s)] = Harnesses(api, r)[Len(r)]
  BY <1>1, <1>2, <1>3, SameCourse
<1>5. QED BY <1>4, ReproducesIs

\* A statement of a 1-minimal sequence is replaced by another one: if the result
\* still reproduces the finding, it is 1-minimal too.
LEMMA ReplacedIsMinimal ==
    ASSUME NEW api, NEW s \in Seq(FuzzActions), NEW i \in 1..Len(s), NEW b \in FuzzActions,
           s[i].kind = "execute_sql", b.kind = "execute_sql", Reproduces(api, s),
           \A j \in 1..Len(s) : ~Reproduces(api, M!RemoveAt(s, j)),
           NEW r, r = [s EXCEPT ![i] = b], Reproduces(api, r)
    PROVE  \A j \in 1..Len(r) : ~Reproduces(api, M!RemoveAt(r, j))
<1>1. /\ r \in Seq(FuzzActions) /\ Len(r) = Len(s) /\ Len(s) \in Nat /\ r[i] = b
      /\ \A n \in 1..Len(s) : n # i => r[n] = s[n]
  BY ExceptSeq
<1>2. ASSUME NEW j \in 1..Len(s), j = i \/ Alike(api, s[i], b)
      PROVE  Reproduces(api, M!RemoveAt(s, j)) <=> Reproduces(api, M!RemoveAt(r, j))
  <2> DEFINE x == M!RemoveAt(s, j)
             y == M!RemoveAt(r, j)
  <2>1. /\ x \in Seq(FuzzActions) /\ Len(x) = Len(s) - 1
        /\ \A n \in 1..(Len(s) - 1) : x[n] = IF n < j THEN s[n] ELSE s[n + 1]
    BY RemoveAtIs
  <2>2. /\ y \in Seq(FuzzActions) /\ Len(y) = Len(s) - 1
        /\ \A n \in 1..(Len(s) - 1) : y[n] = IF n < j THEN r[n] ELSE r[n + 1]
    <3>1. j \in 1..Len(r)
      BY <1>1
    <3>2. QED BY <1>1, <3>1, RemoveAtIs
  <2> HIDE DEF x, y
  <2>3. ASSUME NEW n \in 1..(Len(s) - 1)
        PROVE  Alike(api, x[n], y[n])
    <3>1. PICK k \in 1..Len(s) : x[n] = s[k] /\ y[n] = r[k] /\ k # j
      <4>1. CASE n < j
        <5>1. n \in 1..Len(s) /\ n # j
          BY <1>1, <4>1
        <5>2. QED BY <2>1, <2>2, <4>1, <5>1
      <4>2. CASE ~(n < j)
        <5>1. n + 1 \in 1..Len(s) /\ n + 1 # j
          BY <1>1, <4>2
        <5>2. QED BY <2>1, <2>2, <4>2, <5>1
      <4>3. QED BY <4>1, <4>2
    <3>2. CASE k = i
      BY <1>1, <1>2, <3>1, <3>2
    <3>3. CASE k # i
      <4>1. x[n] = y[n]
        BY <1>1, <3>1, <3>3
      <4>2. QED BY <4>1 DEF Alike
    <3>4. QED BY <3>2, <3>3
  <2>4. QED BY <2>1, <2>2, <2>3, AlikeReproduce DEF x, y
<1>3. Calls(api, s[i].arg)
  BY IdleStatementGoes
<1>4. Calls(api, b.arg)
  <2>1. i \in 1..Len(r) /\ r[i].kind = "execute_sql"
    BY <1>1
  <2>2. SUFFICES ASSUME ~Calls(api, b.arg) PROVE FALSE
    OBVIOUS
  <2>3. Reproduces(api, M!RemoveAt(r, i))
    BY <1>1, <2>1, <2>2, IdleStatementGoes
  <2>4. QED BY <1>2, <2>3
<1>5. Alike(api, s[i], b)
  BY <1>3, <1>4, StatementsAlike
<1>6. QED BY <1>1, <1>2, <1>5

-----------------------------------------------------------------------------
(* The search and the minimizer, for every evaluator they are given and    *)
(* every bound on the sequences.                                           *)

\* Each variable has a value of its kind.
FuzzTypeOK ==
    /\ target \in ApiKinds /\ original \in Seq(FuzzActions) /\ phase \in M!Phases
    /\ current \in Seq(FuzzActions) /\ reduced \in Seq(FuzzActions)
    /\ index \in Nat \ {0} /\ trial \in Nat \ {0}

\* In a round of removals, what comes before the index could not go.
TriedInVain ==
    phase = "removing" =>
        \A i \in DOMAIN current : i < index => ~Reproduces(target, M!RemoveAt(current, i))

\* After the removals no action can go, whatever is replaced.
StaysMinimal == phase \in {"replacing", "done"} => M!OneMinimal(current)

\* What every step of the search and of the minimizer keeps.
FuzzInv ==
    /\ FuzzTypeOK /\ M!StillReproduces /\ M!RemovalsComplete /\ TriedInVain /\ StaysMinimal
    /\ phase = "start" => index = 1

\* What may take the place of a statement are other statements.
LEMMA OtherOpsAre ==
    ASSUME NEW a \in FuzzActions
    PROVE  /\ OtherOps(a) \in Seq(FuzzActions)
           /\ \A n \in 1..Len(OtherOps(a)) :
                  /\ OtherOps(a)[n] \in FuzzActions
                  /\ a.kind = "execute_sql" /\ OtherOps(a)[n].kind = "execute_sql"
<1>1. CASE a.kind # "execute_sql"
  BY <1>1 DEF OtherOps
<1>2. CASE a.kind = "execute_sql"
  <2> DEFINE others == [insert |-> <<"update", "delete", "select_scalar">>,
                        update |-> <<"insert", "delete", "select_scalar">>,
                        delete |-> <<"insert", "update", "select_scalar">>,
                        select_scalar |-> <<"insert", "update", "delete">>]
  <2>1. a.arg \in SqlOps
    BY <1>2 DEF FuzzActions, Action
  <2>2. \A i \in 1..3 : others[a.arg][i] \in SqlOps
    <3>1. \A i \in 1..3 : i = 1 \/ i = 2 \/ i = 3
      OBVIOUS
    <3>2. QED BY <2>1, <3>1 DEF SqlOps
  <2> HIDE DEF others
  <2>3. \A op \in SqlOps : Action("execute_sql", op) \in FuzzActions /\ Action("execute_sql", op).kind = "execute_sql"
    <3> DEFINE statements == {Action("execute_sql", op) : op \in SqlOps}
    <3>1. \A op \in SqlOps : Action("execute_sql", op) \in statements
      OBVIOUS
    <3>2. statements \subseteq FuzzActions
      BY DEF FuzzActions
    <3> HIDE DEF statements
    <3>3. QED BY <3>1, <3>2 DEF Action
  <2>4. OtherOps(a) = [i \in 1..3 |-> Action("execute_sql", others[a.arg][i])]
    BY <1>2 DEF OtherOps, others
  <2>5. QED BY <1>2, <2>2, <2>3, <2>4, IsASeq
<1>3. QED BY <1>1, <1>2

\* The invariant holds before the first action.
LEMMA FuzzInvInit == M!Init => FuzzInv
BY DEF M!Init, FuzzInv, FuzzTypeOK, M!Phases, M!StillReproduces, M!RemovalsComplete, TriedInVain, StaysMinimal

\* The search and each step of the minimizer keep it.
LEMMA FuzzInvNext == FuzzInv /\ [Next]_M!vars => FuzzInv'
<1> SUFFICES ASSUME FuzzInv, [Next]_M!vars PROVE FuzzInv'
  OBVIOUS
<1> USE DEF FuzzInv, FuzzTypeOK, M!Phases
<1>0. ASSUME NEW a \in FuzzActions, Extend(a) PROVE FuzzInv'
  BY <1>0, AppendProperties DEF Extend, M!StillReproduces, M!RemovalsComplete, TriedInVain, StaysMinimal
<1>1. CASE M!Start
  BY <1>1 DEF M!Start, M!StillReproduces, M!RemovalsComplete, TriedInVain, StaysMinimal
<1>2. CASE M!TryRemoval
  <2> DEFINE shorter == M!RemoveAt(current, index)
  <2>1. index \in 1..Len(current) /\ phase = "removing"
    BY <1>2 DEF M!TryRemoval
  <2>2. shorter \in Seq(FuzzActions) /\ Len(shorter) = Len(current) - 1
    BY <2>1, RemoveAtIs
  <2>3. CASE Reproduces(target, shorter)
    <3>1. current' = shorter /\ index' = 1 /\ UNCHANGED <<target, original, phase, reduced, trial>>
      BY <1>2, <2>3 DEF M!TryRemoval
    <3> HIDE DEF shorter
    <3>2. TriedInVain' /\ StaysMinimal'
      BY <2>1, <2>2, <3>1 DEF TriedInVain, StaysMinimal
    <3>3. M!StillReproduces'
      BY <2>1, <2>2, <2>3, <3>1 DEF M!StillReproduces
    <3>4. FuzzTypeOK'
      BY <2>2, <3>1
    <3>5. M!RemovalsComplete'
      BY <2>1, <3>1 DEF M!RemovalsComplete
    <3> QED BY <2>1, <3>1, <3>2, <3>3, <3>4, <3>5
  <2>4. CASE ~Reproduces(target, shorter)
    <3>1. index' = index + 1 /\ UNCHANGED <<target, original, phase, current, reduced, trial>>
      BY <1>2, <2>4 DEF M!TryRemoval
    <3>2. TriedInVain'
      <4>1. \A i \in DOMAIN current : i < index => ~Reproduces(target, M!RemoveAt(current, i))
        BY <2>1 DEF TriedInVain
      <4>2. \A i \in DOMAIN current : i < index + 1 => i < index \/ i = index
        OBVIOUS
      <4>3. \A i \in DOMAIN current : i < index + 1 => ~Reproduces(target, M!RemoveAt(current, i))
        BY <2>4, <4>1, <4>2
      <4> QED BY <3>1, <4>3 DEF TriedInVain
    <3>3. FuzzTypeOK' /\ M!StillReproduces' /\ M!RemovalsComplete' /\ StaysMinimal'
      BY <2>1, <3>1 DEF M!StillReproduces, M!RemovalsComplete, StaysMinimal
    <3> QED BY <2>1, <3>1, <3>2, <3>3
  <2> QED BY <2>3, <2>4
<1>3. CASE M!EndRemovals
  BY <1>3 DEF M!EndRemovals, M!StillReproduces, M!RemovalsComplete, M!OneMinimal, TriedInVain, StaysMinimal
<1>4. CASE M!TryReplacement
  <2> DEFINE b == OtherOps(current[index])[trial]
             r == M!Replaced(trial)
  <2>1. /\ index \in 1..Len(current) /\ phase = "replacing"
        /\ trial \in 1..Len(OtherOps(current[index])) /\ current[index] \in FuzzActions
    BY <1>4 DEF M!TryReplacement
  <2>2. b \in FuzzActions /\ current[index].kind = "execute_sql" /\ b.kind = "execute_sql"
    BY <2>1, OtherOpsAre
  <2>3. r = [current EXCEPT ![index] = b]
    BY DEF M!Replaced, M!ReplaceAt
  <2> HIDE DEF b, r
  <2>4. r \in Seq(FuzzActions) /\ Len(r) = Len(current)
    BY <2>1, <2>2, <2>3, ExceptSeq
  <2>5. CASE Reproduces(target, r)
    <3>1. current' = r /\ index' = index + 1 /\ trial' = 1 /\ UNCHANGED <<target, original, phase, reduced>>
      BY <1>4, <2>5 DEF M!TryReplacement, r
    <3>2. Reproduces(target, current) /\ \A j \in 1..Len(current) : ~Reproduces(target, M!RemoveAt(current, j))
      BY <2>1 DEF M!StillReproduces, StaysMinimal, M!OneMinimal
    <3>3. \A j \in 1..Len(r) : ~Reproduces(target, M!RemoveAt(r, j))
      BY <2>1, <2>2, <2>3, <2>5, <3>2, ReplacedIsMinimal
    <3>4. StaysMinimal'
      BY <2>4, <3>1, <3>3 DEF StaysMinimal, M!OneMinimal
    <3>5. FuzzTypeOK' /\ TriedInVain'
      BY <2>1, <2>4, <3>1 DEF TriedInVain
    <3>6. M!StillReproduces' /\ M!RemovalsComplete'
      BY <2>1, <2>4, <2>5, <3>1 DEF M!StillReproduces, M!RemovalsComplete, M!OneMinimal
    <3> QED BY <2>1, <3>1, <3>4, <3>5, <3>6
  <2>6. CASE ~Reproduces(target, r)
    <3>1. trial' = trial + 1 /\ UNCHANGED <<target, original, phase, current, index, reduced>>
      BY <1>4, <2>6 DEF M!TryReplacement, r
    <3> QED BY <2>1, <3>1 DEF M!StillReproduces, M!RemovalsComplete, M!OneMinimal, TriedInVain, StaysMinimal
  <2> QED BY <2>5, <2>6
<1>5. CASE M!NextAction
  BY <1>5 DEF M!NextAction, M!StillReproduces, M!RemovalsComplete, M!OneMinimal, TriedInVain, StaysMinimal
<1>6. CASE M!Finish
  BY <1>6 DEF M!Finish, M!StillReproduces, M!RemovalsComplete, M!OneMinimal, TriedInVain, StaysMinimal
<1>7. CASE UNCHANGED M!vars
  BY <1>7 DEF M!vars, M!StillReproduces, M!RemovalsComplete, M!OneMinimal, TriedInVain, StaysMinimal
<1> QED BY <1>0, <1>1, <1>2, <1>3, <1>4, <1>5, <1>6, <1>7 DEF Next, M!Next

\* CorpusPolicy::audit_sequence and the two harnesses: whatever sequence the search
\* comes to, of any length, if the audit admits it to the corpus it reproduces no
\* primary finding in the harness of either api, and no execution calls a callback
\* the wrapper has released.
THEOREM SearchesAreSound == Spec => []SearchIsSound
<1>1. FuzzInv => SearchIsSound
  <2> SUFFICES ASSUME FuzzTypeOK PROVE SearchIsSound
    BY DEF FuzzInv
  <2>1. target \in ApiKinds /\ original \in Seq(FuzzActions)
    BY DEF FuzzTypeOK
  <2>2. QED BY <2>1, Executions DEF SearchIsSound, SafeSeedsFindNothing, OnlyRetainedCalled
<1>2. QED BY <1>1, FuzzInvInit, FuzzInvNext, PTL DEF Spec

\* minimize_actions with the harness as its evaluator: whatever sequence it is given,
\* the result reproduces the finding, no single action of it can go, neither after
\* the removals nor after the replacements, and it shows the three stages.
THEOREM MinimizedAreWitnesses == Spec => []MinimizedIsWitness
<1>1. FuzzInv => MinimizedIsWitness
  <2> SUFFICES ASSUME FuzzInv PROVE MinimizedIsWitness
    OBVIOUS
  <2>1. M!StillReproduces /\ M!RemovalsComplete
    BY DEF FuzzInv
  <2>2. ASSUME phase = "done" PROVE M!OneMinimal(current) /\ Stages(current)
    <3>1. M!OneMinimal(current)
      BY <2>2 DEF FuzzInv, StaysMinimal
    <3>2. target \in ApiKinds /\ current \in Seq(FuzzActions) /\ Reproduces(target, current)
      BY <2>2 DEF FuzzInv, FuzzTypeOK, M!StillReproduces
    <3>3. QED BY <3>1, <3>2, Executions
  <2>3. QED BY <2>1, <2>2 DEF MinimizedIsWitness
<1>2. QED BY <1>1, FuzzInvInit, FuzzInvNext, PTL DEF Spec
=============================================================================
