---------------------------- MODULE HandOffProofs ----------------------------
(***************************************************************************)
(* The searches behind the verdict on a hand-off: the blocks on every      *)
(* returning path of a function, the callers from which safe code gets to  *)
(* a hand-off, for functions and crates of any size; what the values in a  *)
(* function come from, and what is left of them when it has returned; and  *)
(* that what is judged to be compatible is not used after its end.         *)
(***************************************************************************)
EXTENDS HandOff, SequenceTheorems, FiniteSetTheorems, WellFoundedInduction, TLAPS

-----------------------------------------------------------------------------
(* What a search computes that goes from one to the next: a set that grows *)
(* by what its members lead to.                                            *)

\* What holds of 0, and of the next number of a number below m, holds up to m.
LEMMA Upwards ==
    ASSUME NEW m \in Nat, NEW T, 0 \in T,
           \A n \in Nat : n < m /\ n \in T => n + 1 \in T
    PROVE  0..m \subseteq T
<1> DEFINE Out == (0..m) \ T
<1> SUFFICES ASSUME Out # {} PROVE FALSE
  OBVIOUS
<1>1. PICK x \in Out : \A y \in Out : ~(<<y, x>> \in OpToRel(<, Nat))
  <2> HIDE DEF Out
  <2>1. Out \subseteq Nat
    BY DEF Out
  <2>2. QED BY <2>1, NatLessThanWellFounded, WFMin
<1>2. \A x1, y1 \in Nat : <<x1, y1>> \in OpToRel(<, Nat) <=> x1 < y1
  BY DEF OpToRel
<1>3. x \in Nat /\ x # 0 /\ x <= m /\ x \notin T
  <2>1. x \in 0..m /\ x \notin T
    BY <1>1
  <2>2. QED BY <2>1
<1>4. x - 1 \in Nat /\ x - 1 < x /\ x - 1 < m /\ x = (x - 1) + 1 /\ x - 1 \in 0..m
  BY <1>3
<1>5. x - 1 \in T
  BY <1>1, <1>2, <1>3, <1>4
<1>6. QED BY <1>3, <1>4, <1>5

\* f is the course of a value that starts as base and is taken through n steps, g[k]
\* the k-th; each of them keeps the set S.
Keeps(g, n, S) == \A k \in 1..n : \A x \in S : g[k][x] \in S
IsCourse(f, n, S, base, g) == f \in [0..n -> S] /\ f[0] = base /\ \A k \in 1..n : f[k] = g[k][f[k - 1]]

LEMMA Courses ==
    ASSUME NEW n \in Nat, NEW S, NEW base \in S, NEW g, Keeps(g, n, S)
    PROVE  \E f : IsCourse(f, n, S, base, g)
<1> DEFINE T == {m \in Nat : \E f : IsCourse(f, m, S, base, g)}
<1>1. 0 \in T
  <2> DEFINE f == [k \in 0..0 |-> base]
  <2>1. IsCourse(f, 0, S, base, g)
    BY DEF IsCourse
  <2>2. QED BY <2>1
<1>2. \A m \in Nat : m < n /\ m \in T => m + 1 \in T
  <2> SUFFICES ASSUME NEW m \in Nat, m < n, m \in T PROVE m + 1 \in T
    OBVIOUS
  <2>1. PICK f : IsCourse(f, m, S, base, g)
    OBVIOUS
  <2>a. f \in [0..m -> S] /\ f[0] = base /\ \A k \in 1..m : f[k] = g[k][f[k - 1]]
    BY <2>1 DEF IsCourse
  <2> DEFINE h == [k \in 0..(m + 1) |-> IF k = m + 1 THEN g[m + 1][f[m]] ELSE f[k]]
  <2>2. m + 1 \in 1..n /\ f[m] \in S /\ g[m + 1][f[m]] \in S
    BY <2>a DEF Keeps
  <2>3. h \in [0..(m + 1) -> S] /\ h[0] = base
    BY <2>a, <2>2
  <2>4. ASSUME NEW k \in 1..(m + 1) PROVE h[k] = g[k][h[k - 1]]
    <3>1. CASE k = m + 1
      <4>1. h[k] = g[m + 1][f[m]] /\ k - 1 = m /\ h[m] = f[m]
        BY <3>1
      <4>2. QED BY <4>1, <3>1
    <3>2. CASE k # m + 1
      <4>1. k \in 1..m /\ k - 1 \in 0..(m + 1) /\ k - 1 # m + 1 /\ k \in 0..(m + 1)
        BY <3>2
      <4>2. h[k] = f[k] /\ h[k - 1] = f[k - 1]
        BY <4>1, <3>2
      <4>3. QED BY <4>1, <4>2, <2>a
    <3>3. QED BY <3>1, <3>2
  <2>5. IsCourse(h, m + 1, S, base, g)
    BY <2>3, <2>4 DEF IsCourse
  <2>6. QED BY <2>5
<1> HIDE DEF T
<1>3. 0..n \subseteq T
  BY <1>1, <1>2, Upwards
<1>4. n \in T
  BY <1>3
<1>5. QED BY <1>4 DEF T

\* In c a set grows by what its members lead to.
Spreads(c, n, base, R) ==
    /\ c[0] = base
    /\ \A k \in 1..n : c[k] = c[k - 1] \cup {y \in 1..n : \E x \in c[k - 1] : <<x, y>> \in R}
ClosedUnder(T, n, R) == \A x \in T : \A y \in 1..n : <<x, y>> \in R => y \in T
Least(s, n, base, R) ==
    /\ s \subseteq 1..n /\ base \subseteq s /\ ClosedUnder(s, n, R)
    /\ \A T : base \subseteq T /\ ClosedUnder(T, n, R) => s \subseteq T

\* A set of n things grows n times at most, and then it is the least that is closed.
LEMMA Closes ==
    ASSUME NEW n \in Nat, NEW base, base \subseteq 1..n, NEW R, NEW c, Spreads(c, n, base, R)
    PROVE  (\A k \in 0..n : c[k] \subseteq 1..n) /\ Least(c[n], n, base, R)
<1> DEFINE T1 == {k \in Nat : k <= n =>
                    /\ c[k] \subseteq 1..n /\ base \subseteq c[k]
                    /\ ClosedUnder(c[k], n, R) \/ Cardinality(c[k]) >= k}
<1>0. IsFiniteSet(1..n) /\ Cardinality(1..n) = n
  BY FS_Interval
<1>a. \A s \in SUBSET (1..n) : IsFiniteSet(s) /\ Cardinality(s) \in Nat
  BY <1>0, FS_Subset, FS_CardinalityType
<1>1. 0..n \subseteq T1
  <2>1. 0 \in T1
    <3>1. c[0] = base
      BY DEF Spreads
    <3>2. Cardinality(base) >= 0
      BY <1>a
    <3>3. QED BY <3>1, <3>2
  <2>2. \A k \in Nat : k < n /\ k \in T1 => k + 1 \in T1
    <3> SUFFICES ASSUME NEW k \in Nat, k < n, k \in T1 PROVE k + 1 \in T1
      OBVIOUS
    <3> DEFINE new == {y \in 1..n : \E x \in c[k] : <<x, y>> \in R}
    <3>1. c[k + 1] = c[k] \cup new
      <4>1. k + 1 \in 1..n /\ (k + 1) - 1 = k
        OBVIOUS
      <4>2. QED BY <4>1 DEF Spreads
    <3>2. c[k] \subseteq 1..n /\ base \subseteq c[k]
      OBVIOUS
    <3>3. CASE ClosedUnder(c[k], n, R)
      <4>1. c[k + 1] = c[k]
        BY <3>1, <3>3 DEF ClosedUnder
      <4>2. QED BY <4>1, <3>2, <3>3
    <3>4. CASE ~ClosedUnder(c[k], n, R)
      <4>1. PICK y \in 1..n : y \in new /\ y \notin c[k]
        BY <3>4 DEF ClosedUnder
      <4>2. Cardinality(c[k]) >= k
        BY <3>4
      <4> HIDE DEF new, T1
      <4>3. IsFiniteSet(c[k]) /\ Cardinality(c[k]) \in Nat
        BY <1>a, <3>2
      <4>4. Cardinality(c[k] \cup {y}) = Cardinality(c[k]) + 1
        BY <4>1, <4>3, FS_AddElement
      <4>5. new \subseteq 1..n
        BY DEF new
      <4>6. c[k + 1] \subseteq 1..n /\ c[k] \cup {y} \subseteq c[k + 1]
        BY <3>1, <3>2, <4>1, <4>5
      <4>7. IsFiniteSet(c[k + 1]) /\ Cardinality(c[k + 1]) \in Nat
        BY <4>6, <1>a
      <4>8. Cardinality(c[k] \cup {y}) <= Cardinality(c[k + 1])
        BY <4>6, <4>7, FS_Subset
      <4>9. Cardinality(c[k + 1]) >= k + 1
        BY <4>2, <4>3, <4>4, <4>7, <4>8
      <4>10. base \subseteq c[k + 1]
        BY <3>1, <3>2
      <4>11. QED BY <4>6, <4>9, <4>10 DEF T1
    <3>5. QED BY <3>3, <3>4
  <2> HIDE DEF T1
  <2>3. QED BY <2>1, <2>2, Upwards
<1>2. \A k \in 0..n : c[k] \subseteq 1..n
  <2> SUFFICES ASSUME NEW k \in 0..n PROVE c[k] \subseteq 1..n
    OBVIOUS
  <2>1. k \in T1 /\ k <= n
    BY <1>1
  <2>2. QED BY <2>1
<1>3. n \in T1
  BY <1>1
<1>4. base \subseteq c[n]
  BY <1>3
<1>5. ClosedUnder(c[n], n, R)
  <2>1. CASE Cardinality(c[n]) >= n
    <3>1. c[n] \subseteq 1..n
      BY <1>2
    <3>2. Cardinality(c[n]) <= n /\ Cardinality(c[n]) \in Nat
      BY <3>1, <1>0, <1>a, FS_Subset
    <3>3. Cardinality(c[n]) = Cardinality(1..n)
      BY <2>1, <3>2, <1>0
    <3>4. c[n] = 1..n
      BY <3>1, <3>3, <1>0, FS_Subset
    <3>5. QED BY <3>4 DEF ClosedUnder
  <2>2. QED BY <2>1, <1>3
<1>6. ASSUME NEW T, base \subseteq T, ClosedUnder(T, n, R) PROVE c[n] \subseteq T
  <2> DEFINE T2 == {k \in Nat : k <= n => c[k] \subseteq T}
  <2>1. 0 \in T2
    BY <1>6 DEF Spreads
  <2>2. \A k \in Nat : k < n /\ k \in T2 => k + 1 \in T2
    <3> SUFFICES ASSUME NEW k \in Nat, k < n, k \in T2 PROVE k + 1 \in T2
      OBVIOUS
    <3>1. k + 1 \in 1..n /\ (k + 1) - 1 = k
      OBVIOUS
    <3>2. c[k + 1] = c[k] \cup {y \in 1..n : \E x \in c[k] : <<x, y>> \in R}
      BY <3>1 DEF Spreads
    <3>3. c[k] \subseteq T
      OBVIOUS
    <3>4. c[k + 1] \subseteq T
      BY <3>2, <3>3, <1>6 DEF ClosedUnder
    <3>5. QED BY <3>4
  <2> HIDE DEF T2
  <2>3. 0..n \subseteq T2
    BY <2>1, <2>2, Upwards
  <2>4. n \in T2
    BY <2>3
  <2>5. QED BY <2>4 DEF T2
<1>7. n \in 0..n
  OBVIOUS
<1>8. QED BY <1>2, <1>4, <1>5, <1>6, <1>7 DEF Least

\* There is such a course.
LEMMA SpreadExists ==
    ASSUME NEW n \in Nat, NEW base, base \subseteq 1..n, NEW R
    PROVE  \E c : Spreads(c, n, base, R) /\ c \in [0..n -> SUBSET (1..n)]
<1> DEFINE S == SUBSET (1..n)
           g == [k \in 1..n |-> [s \in S |-> s \cup {y \in 1..n : \E x \in s : <<x, y>> \in R}]]
<1>1. base \in S /\ Keeps(g, n, S)
  BY DEF Keeps
<1> HIDE DEF g, S
<1>a. PICK c : IsCourse(c, n, S, base, g)
  BY <1>1, Courses
<1>2. c \in [0..n -> S] /\ c[0] = base /\ \A k \in 1..n : c[k] = g[k][c[k - 1]]
  BY <1>a DEF IsCourse
<1>3. ASSUME NEW k \in 1..n
      PROVE  c[k] = c[k - 1] \cup {y \in 1..n : \E x \in c[k - 1] : <<x, y>> \in R}
  <2>1. k - 1 \in 0..n
    OBVIOUS
  <2>2. c[k - 1] \in S
    BY <2>1, <1>2
  <2>3. QED BY <2>2, <1>2 DEF g
<1>4. QED BY <1>2, <1>3 DEF Spreads, S

\* It is enough that it grows so as long as it is in range.
LEMMA SpreadsIf ==
    ASSUME NEW n \in Nat, NEW base, base \subseteq 1..n, NEW R, NEW c, c[0] = base,
           \A k \in 1..n : c[k - 1] \subseteq 1..n =>
               c[k] = c[k - 1] \cup {y \in 1..n : \E x \in c[k - 1] : <<x, y>> \in R}
    PROVE  Spreads(c, n, base, R)
<1> DEFINE T == {k \in Nat : k <= n => c[k] \subseteq 1..n}
<1>1. 0 \in T
  OBVIOUS
<1>2. \A k \in Nat : k < n /\ k \in T => k + 1 \in T
  <2> SUFFICES ASSUME NEW k \in Nat, k < n, k \in T PROVE k + 1 \in T
    OBVIOUS
  <2>1. k + 1 \in 1..n /\ (k + 1) - 1 = k /\ c[k] \subseteq 1..n
    OBVIOUS
  <2>2. c[k + 1] = c[k] \cup {y \in 1..n : \E x \in c[k] : <<x, y>> \in R}
    BY <2>1
  <2>3. c[k + 1] \subseteq 1..n
    BY <2>1, <2>2
  <2>4. QED BY <2>3
<1> HIDE DEF T
<1>3. 0..n \subseteq T
  BY <1>1, <1>2, Upwards
<1>4. ASSUME NEW k \in 1..n PROVE c[k - 1] \subseteq 1..n
  <2>1. k - 1 \in 0..n /\ k - 1 <= n
    OBVIOUS
  <2>2. QED BY <2>1, <1>3 DEF T
<1>5. QED BY <1>4 DEF Spreads

-----------------------------------------------------------------------------
(* The way safe code gets to a hand-off.                                   *)

\* The functions of a crate call functions of the crate.
CrateOf(fns) ==
    /\ Len(fns) \in Nat /\ DOMAIN fns = 1..Len(fns)
    /\ \A n \in DOMAIN fns : fns[n].entry \in BOOLEAN /\ \A e \in fns[n].calls : e.to \in DOMAIN fns

\* R is the calls of these kinds; R is the direct calls, from callee to caller.
Follows(R, fns, kinds) ==
    \A x, y \in DOMAIN fns : <<x, y>> \in R <=> \E e \in fns[x].calls : e.via \in kinds /\ e.to = y
GoesBack(R, fns) == \A x, y \in DOMAIN fns : <<x, y>> \in R <=> x \in Driver!Callees(fns, y)

\* The search from caller to caller, and from callee to callee, gets everywhere.
LEMMA AboveIs ==
    ASSUME NEW fns, CrateOf(fns), NEW n \in DOMAIN fns
    PROVE  \E R : /\ Least(Driver!Above(fns, n), Len(fns), {n}, R)
                  /\ GoesBack(R, fns)
<1> DEFINE m == Len(fns)
           R == {p \in (1..m) \X (1..m) : p[1] \in Driver!Callees(fns, p[2])}
           Body(f) == [k \in 0..m |-> IF k = 0 THEN {n}
                                      ELSE LET seen == f[k - 1] IN seen \cup Driver!Callers(fns, seen)]
           after == CHOOSE f : f = Body(f)
<1>1. m \in Nat /\ DOMAIN fns = 1..m /\ {n} \subseteq 1..m
  BY DEF CrateOf
<1>2. Driver!Above(fns, n) = after[m]
  BY DEF Driver!Above
<1>3. \A x, y \in DOMAIN fns : <<x, y>> \in R <=> x \in Driver!Callees(fns, y)
  BY <1>1
<1>a. \A y \in 1..m : Driver!Callees(fns, y) \subseteq 1..m
  BY <1>1 DEF CrateOf, Driver!Callees
<1>4. ASSUME NEW s PROVE Driver!Callers(fns, s) = {y \in 1..m : \E x \in s : <<x, y>> \in R}
  <2>1. \A y \in 1..m : Driver!Callees(fns, y) \cap s # {} <=> \E x \in s : <<x, y>> \in R
    BY <1>a
  <2>2. QED BY <2>1, <1>1 DEF Driver!Callers
<1> HIDE DEF R, m
<1>5. PICK c : Spreads(c, m, {n}, R) /\ c \in [0..m -> SUBSET (1..m)]
  BY <1>1, SpreadExists
<1>6. ASSUME NEW k \in 0..m PROVE c[k] = Body(c)[k]
  <2>1. CASE k = 0
    BY <2>1, <1>5 DEF Spreads
  <2>2. CASE k # 0
    <3>1. k \in 1..m
      BY <2>2, <1>1
    <3>2. c[k] = c[k - 1] \cup Driver!Callers(fns, c[k - 1])
      BY <3>1, <1>4, <1>5 DEF Spreads
    <3>3. QED BY <3>2, <2>2
  <2>3. QED BY <2>1, <2>2
<1>7. c = Body(c)
  BY <1>5, <1>6
<1>8. after = Body(after)
  <2> HIDE DEF Body
  <2>1. QED BY <1>7
<1> HIDE DEF after
<1>9. Spreads(after, m, {n}, R)
  <2>1. after[0] = {n}
    BY <1>8, <1>1
  <2>2. ASSUME NEW k \in 1..m PROVE after[k] = after[k - 1] \cup Driver!Callers(fns, after[k - 1])
    <3>1. k \in 0..m /\ k # 0
      OBVIOUS
    <3>2. after[k] = Body(after)[k]
      BY <1>8
    <3>3. QED BY <3>1, <3>2
  <2>3. QED BY <2>1, <2>2, <1>4 DEF Spreads
<1>10. Least(after[m], m, {n}, R)
  <2>1. m \in 0..m
    BY <1>1
  <2>2. QED BY <1>1, <1>9, <2>1, Closes
<1>11. QED BY <1>2, <1>3, <1>10 DEF m, GoesBack

\* The same of what safe code gets to.
LEMMA ReachedIs ==
    ASSUME NEW c, CrateOf(c.fns), NEW kinds
    PROVE  \E R : /\ Least(Reached(c, kinds), Len(c.fns), {n \in DOMAIN c.fns : c.fns[n].entry}, R)
                  /\ Follows(R, c.fns, kinds)
<1> DEFINE fns == c.fns
           m == Len(fns)
           base == {n \in DOMAIN fns : fns[n].entry}
           R == {p \in (1..m) \X (1..m) : \E e \in fns[p[1]].calls : e.via \in kinds /\ e.to = p[2]}
           Further(s) == s \cup UNION {{e.to : e \in {x \in fns[n].calls : x.via \in kinds}} : n \in s}
           Body(f) == [k \in 0..m |-> IF k = 0 THEN base ELSE Further(f[k - 1])]
           after == CHOOSE f : f = Body(f)
<1>1. m \in Nat /\ DOMAIN fns = 1..m /\ base \subseteq 1..m
  BY DEF CrateOf
<1>2. Reached(c, kinds) = after[m]
  BY DEF Reached
<1>3. \A x, y \in DOMAIN fns : <<x, y>> \in R <=> \E e \in fns[x].calls : e.via \in kinds /\ e.to = y
  BY <1>1
<1>4. ASSUME NEW s, s \subseteq 1..m PROVE Further(s) = s \cup {y \in 1..m : \E x \in s : <<x, y>> \in R}
  <2>1. \A x \in 1..m : \A e \in fns[x].calls : e.to \in 1..m
    BY <1>1 DEF CrateOf
  <2>2. ASSUME NEW y PROVE y \in Further(s) <=> y \in s \/ (y \in 1..m /\ \E x \in s : <<x, y>> \in R)
    <3>1. y \in Further(s) <=> y \in s \/ \E n \in s : \E e \in fns[n].calls : e.via \in kinds /\ e.to = y
      OBVIOUS
    <3> HIDE DEF Further
    <3>2. QED BY <3>1, <2>1, <1>4
  <2>3. QED BY <2>2
<1> HIDE DEF R, m, base
<1>5. PICK g : Spreads(g, m, base, R) /\ g \in [0..m -> SUBSET (1..m)]
  BY <1>1, SpreadExists
<1> HIDE DEF Further
<1>6. ASSUME NEW k \in 0..m PROVE g[k] = Body(g)[k]
  <2>1. CASE k = 0
    BY <2>1, <1>5 DEF Spreads
  <2>2. CASE k # 0
    <3>1. k \in 1..m /\ k - 1 \in 0..m
      BY <2>2, <1>1
    <3>2. g[k - 1] \subseteq 1..m
      BY <3>1, <1>5
    <3>3. g[k] = Further(g[k - 1])
      BY <3>1, <3>2, <1>4, <1>5 DEF Spreads
    <3>4. QED BY <3>3, <2>2
  <2>3. QED BY <2>1, <2>2
<1>7. g = Body(g)
  BY <1>5, <1>6
<1>8. after = Body(after)
  <2> HIDE DEF Body
  <2>1. QED BY <1>7
<1> HIDE DEF after
<1>9. after[0] = base /\ \A k \in 1..m : after[k] = Further(after[k - 1])
  <2>1. after[0] = base
    BY <1>8, <1>1
  <2>2. ASSUME NEW k \in 1..m PROVE after[k] = Further(after[k - 1])
    <3>1. k \in 0..m /\ k # 0
      OBVIOUS
    <3>2. after[k] = Body(after)[k]
      BY <1>8
    <3>3. QED BY <3>1, <3>2
  <2>3. QED BY <2>1, <2>2
<1>10. Spreads(after, m, base, R)
  <2>1. \A k \in 1..m : after[k - 1] \subseteq 1..m =>
            after[k] = after[k - 1] \cup {y \in 1..m : \E v \in after[k - 1] : <<v, y>> \in R}
    BY <1>4, <1>9
  <2>2. QED BY <2>1, <1>1, <1>9, SpreadsIf
<1>11. Least(after[m], m, base, R)
  <2>1. m \in 0..m
    BY <1>1
  <2>2. QED BY <1>1, <1>10, <2>1, Closes
<1>12. QED BY <1>2, <1>3, <1>11 DEF m, base, Follows

\* What a lineage says, and when it says it.
LEMMA LineageOf ==
    ASSUME NEW fns, NEW n, NEW direct \in BOOLEAN, direct <=> fns[n].entry,
           NEW above \in BOOLEAN, above <=> \E m \in Driver!Above(fns, n) : fns[m].entry,
           direct => above,
           NEW complete \in BOOLEAN, complete <=> Driver!GraphComplete(fns)
    PROVE  LET lineage == Driver!SafeEntryLineage(fns, n)
           IN /\ lineage \in {"direct", "reachable"} <=> above
              /\ lineage = "no_public_safe_entry" => ~above /\ complete
<1>1. Driver!SafeEntryLineage(fns, n) =
         CASE direct -> "direct"
           [] ~direct /\ above -> "reachable"
           [] ~above /\ complete -> "no_public_safe_entry"
           [] OTHER -> "unresolved"
  BY Zenon DEF Driver!SafeEntryLineage
<1>2. CASE direct
  <2>1. Driver!SafeEntryLineage(fns, n) = "direct"
    BY <1>1, <1>2
  <2>2. QED BY <2>1, <1>2
<1>3. CASE ~direct /\ above
  BY <1>1, <1>3
<1>4. CASE ~direct /\ ~above /\ complete
  BY <1>1, <1>4
<1>5. CASE ~direct /\ ~above /\ ~complete
  BY <1>1, <1>5
<1>6. QED BY <1>2, <1>3, <1>4, <1>5

\* What Above and Reached have to do with each other.
LEMMA LineageMeets ==
    ASSUME NEW c, CrateOf(c.fns), NEW n \in DOMAIN c.fns
    PROVE  LET found == Driver!SafeEntryLineage(c.fns, n) \in {"direct", "reachable"}
           IN /\ found => n \in Reached(c, AnyCall)
              /\ Driver!SafeEntryLineage(c.fns, n) = "no_public_safe_entry" =>
                     n \notin Reached(c, {"direct", "pointer"})
              /\ n \in Reached(c, {"direct"}) => found
<1> DEFINE fns == c.fns
           m == Len(fns)
           base == {x \in DOMAIN fns : fns[x].entry}
           up == Driver!Above(fns, n)
           any == Reached(c, AnyCall)
           some == Reached(c, {"direct", "pointer"})
           direct == Reached(c, {"direct"})
           entered == \E x \in up : fns[x].entry
           complete == Driver!GraphComplete(fns)
<1>1. m \in Nat /\ DOMAIN fns = 1..m /\ \A x \in 1..m : fns[x].entry \in BOOLEAN
  BY DEF CrateOf
<1>2. \A x, y \in 1..m : x \in Driver!Callees(fns, y) <=> \E e \in fns[y].calls : e.via = "direct" /\ e.to = x
  BY DEF Driver!Callees
<1>3. PICK R : /\ Least(up, m, {n}, R)
               /\ \A x, y \in 1..m : <<x, y>> \in R <=> x \in Driver!Callees(fns, y)
  BY <1>1, AboveIs DEF GoesBack
<1>a. ASSUME NEW kinds
      PROVE  \E Rk : /\ Least(Reached(c, kinds), m, base, Rk)
                     /\ \A x, y \in 1..m : <<x, y>> \in Rk <=> \E e \in fns[x].calls : e.via \in kinds /\ e.to = y
  <2>1. PICK Rk : Least(Reached(c, kinds), m, base, Rk) /\ Follows(Rk, fns, kinds)
    BY ReachedIs
  <2>2. \A x, y \in 1..m : <<x, y>> \in Rk <=> \E e \in fns[x].calls : e.via \in kinds /\ e.to = y
    BY <2>1, <1>1 DEF Follows
  <2> HIDE DEF fns, m, base
  <2>3. QED BY <2>1, <2>2
<1>4. PICK Ra : /\ Least(any, m, base, Ra)
                /\ \A x, y \in 1..m : <<x, y>> \in Ra <=> \E e \in fns[x].calls : e.via \in AnyCall /\ e.to = y
  BY <1>a
<1>5. PICK Rs : /\ Least(some, m, base, Rs)
                /\ \A x, y \in 1..m :
                      <<x, y>> \in Rs <=> \E e \in fns[x].calls : e.via \in {"direct", "pointer"} /\ e.to = y
  BY <1>a
<1>6. PICK Rd : /\ Least(direct, m, base, Rd)
                /\ \A x, y \in 1..m : <<x, y>> \in Rd <=> \E e \in fns[x].calls : e.via \in {"direct"} /\ e.to = y
  BY <1>a
<1>7. n \in 1..m /\ n \in up /\ up \subseteq 1..m
  BY <1>1, <1>3 DEF Least
<1>8. /\ Driver!SafeEntryLineage(fns, n) \in {"direct", "reachable"} <=> entered
      /\ Driver!SafeEntryLineage(fns, n) = "no_public_safe_entry" => ~entered /\ complete
  <2>1. PICK p \in BOOLEAN : p <=> fns[n].entry
    OBVIOUS
  <2>2. entered \in BOOLEAN
    OBVIOUS
  <2>3. complete \in BOOLEAN
    BY DEF Driver!GraphComplete
  <2>4. p => entered
    BY <2>1, <1>7
  <2> HIDE DEF entered, complete
  <2>5. /\ Driver!SafeEntryLineage(fns, n) \in {"direct", "reachable"} <=> entered
        /\ Driver!SafeEntryLineage(fns, n) = "no_public_safe_entry" => ~entered /\ complete
    BY <2>1, <2>2, <2>3, <2>4, LineageOf DEF entered, complete
  <2>6. QED BY <2>5
<1> HIDE DEF up, any, some, direct, base, m, fns
<1>9. entered => n \in any
  <2> DEFINE T == {x \in 1..m : x \in any => n \in any}
  <2>1. {n} \subseteq T
    BY <1>7
  <2>2. ASSUME NEW x \in T, NEW y \in 1..m, <<x, y>> \in R PROVE y \in T
    <3>1. PICK e \in fns[y].calls : e.via = "direct" /\ e.to = x
      BY <2>2, <1>2, <1>3
    <3>2. <<y, x>> \in Ra
      BY <3>1, <1>4 DEF AnyCall
    <3>3. y \in any => x \in any
      BY <3>2, <1>4 DEF Least, ClosedUnder
    <3>4. QED BY <3>3
  <2> HIDE DEF T
  <2>3. up \subseteq T
    BY <2>1, <2>2, <1>3 DEF Least, ClosedUnder
  <2>4. base \subseteq any
    BY <1>4 DEF Least
  <2>5. \A x \in up : fns[x].entry => x \in any /\ x \in T
    BY <2>3, <2>4, <1>1, <1>7 DEF base
  <2>6. QED BY <2>5 DEF T
<1> DEFINE Out == (1..m) \ up
<1>10. ~entered => base \subseteq Out
  BY <1>1 DEF base
<1>11. ASSUME ~entered, complete PROVE n \notin some
  <2>1. ASSUME NEW x \in Out, NEW y \in 1..m, <<x, y>> \in Rs PROVE y \in Out
    <3>1. PICK e \in fns[x].calls : e.via \in {"direct", "pointer"} /\ e.to = y
      BY <2>1, <1>5
    <3>2. e.via # "pointer"
      BY <1>11, <1>1 DEF Driver!GraphComplete
    <3>3. <<y, x>> \in R
      BY <3>1, <3>2, <1>2, <1>3
    <3>4. y \in up => x \in up
      BY <3>3, <1>3 DEF Least, ClosedUnder
    <3>5. QED BY <3>4
  <2> HIDE DEF Out, entered, complete
  <2>2. some \subseteq Out
    BY <2>1, <1>5, <1>10, <1>11 DEF Least, ClosedUnder
  <2>3. QED BY <2>2, <1>7 DEF Out
<1>12. ASSUME ~entered PROVE n \notin direct
  <2>1. ASSUME NEW x \in Out, NEW y \in 1..m, <<x, y>> \in Rd PROVE y \in Out
    <3>1. PICK e \in fns[x].calls : e.via = "direct" /\ e.to = y
      BY <2>1, <1>6
    <3>2. <<y, x>> \in R
      BY <3>1, <1>2, <1>3
    <3>3. y \in up => x \in up
      BY <3>2, <1>3 DEF Least, ClosedUnder
    <3>4. QED BY <3>3
  <2> HIDE DEF Out, entered
  <2>2. direct \subseteq Out
    BY <2>1, <1>6, <1>10, <1>12 DEF Least, ClosedUnder
  <2>3. QED BY <2>2, <1>7 DEF Out
<1> HIDE DEF entered, complete
<1>13. QED BY <1>8, <1>9, <1>11, <1>12 DEF any, some, direct, fns

-----------------------------------------------------------------------------
(* The blocks on every returning path.                                     *)

BlocksOf(f) == Len(f.blocks) \in Nat \ {0} /\ DOMAIN f.blocks = 1..Len(f.blocks)

LEMMA ControlFlow ==
    ASSUME NEW f, BlocksOf(f)
    PROVE  /\ Exits(f) \subseteq 1..Len(f.blocks)
           /\ \A b : Successors(f, b) \subseteq 1..Len(f.blocks)
<1>1. Exits(f) \subseteq 1..Len(f.blocks)
  BY DEF BlocksOf, Exits
<1>2. ASSUME NEW b PROVE Successors(f, b) \subseteq 1..Len(f.blocks)
  <2>1. Labels(f) \subseteq 1..Len(f.blocks)
    BY DEF BlocksOf, Labels
  <2>2. Successors(f, b) \subseteq Labels(f)
    BY DEF Successors
  <2>3. QED BY <2>1, <2>2
<1>3. QED BY <1>1, <1>2

\* R is the control flow that does not go to x; R is the control flow backwards.
FlowsPast(R, f, x) == \A b, s \in 1..Len(f.blocks) : <<b, s>> \in R <=> s \in Successors(f, b) /\ s # x
FlowsBack(R, f) == \A b, s \in 1..Len(f.blocks) : <<s, b>> \in R <=> s \in Successors(f, b)

LEMMA LiveIs ==
    ASSUME NEW f, BlocksOf(f)
    PROVE  \E R : Least(BlocksReachingExit(f), Len(f.blocks), Exits(f), R) /\ FlowsBack(R, f)
<1> DEFINE m == Len(f.blocks)
           base == Exits(f)
           R == {p \in (1..m) \X (1..m) : p[1] \in Successors(f, p[2])}
           Further(s) == s \cup {b \in DOMAIN f.blocks : Successors(f, b) \cap s # {}}
           Body(g) == [k \in 0..m |-> IF k = 0 THEN base
                                      ELSE LET s == g[k - 1]
                                           IN s \cup {b \in DOMAIN f.blocks : Successors(f, b) \cap s # {}}]
           back == CHOOSE g : g = Body(g)
<1>1. m \in Nat /\ DOMAIN f.blocks = 1..m /\ base \subseteq 1..m
  BY ControlFlow DEF BlocksOf
<1>2. BlocksReachingExit(f) = back[m]
  BY DEF BlocksReachingExit
<1>3. \A b, s \in 1..m : <<s, b>> \in R <=> s \in Successors(f, b)
  OBVIOUS
<1>4. ASSUME NEW s PROVE Further(s) = s \cup {y \in 1..m : \E x \in s : <<x, y>> \in R}
  <2>1. \A b \in 1..m : Successors(f, b) \cap s # {} <=> \E x \in s : <<x, b>> \in R
    BY ControlFlow
  <2>2. QED BY <2>1, <1>1
<1> HIDE DEF R, m, base
<1>5. PICK c : Spreads(c, m, base, R) /\ c \in [0..m -> SUBSET (1..m)]
  BY <1>1, SpreadExists
<1>6. ASSUME NEW k \in 0..m PROVE c[k] = Body(c)[k]
  <2>1. CASE k = 0
    BY <2>1, <1>5 DEF Spreads
  <2>2. CASE k # 0
    <3>1. k \in 1..m
      BY <2>2, <1>1
    <3>2. c[k] = Further(c[k - 1])
      BY <3>1, <1>4, <1>5 DEF Spreads
    <3>3. QED BY <3>2, <2>2
  <2>3. QED BY <2>1, <2>2
<1>7. c = Body(c)
  BY <1>5, <1>6
<1>8. back = Body(back)
  <2> HIDE DEF Body
  <2>1. QED BY <1>7
<1> HIDE DEF back
<1>9. Spreads(back, m, base, R)
  <2>1. back[0] = base
    BY <1>8, <1>1
  <2>2. ASSUME NEW k \in 1..m PROVE back[k] = Further(back[k - 1])
    <3>1. k \in 0..m /\ k # 0
      OBVIOUS
    <3>2. back[k] = Body(back)[k]
      BY <1>8
    <3>3. QED BY <3>1, <3>2
  <2>3. QED BY <2>1, <2>2, <1>4 DEF Spreads
<1>10. Least(back[m], m, base, R)
  <2>1. m \in 0..m
    BY <1>1
  <2>2. QED BY <1>1, <1>9, <2>1, Closes
<1>11. QED BY <1>2, <1>3, <1>10 DEF m, base, FlowsBack

LEMMA PastIs ==
    ASSUME NEW f, BlocksOf(f), NEW x
    PROVE  \E R : Least(Without(f, x), Len(f.blocks), {1} \ {x}, R) /\ FlowsPast(R, f, x)
<1> DEFINE m == Len(f.blocks)
           base == {1} \ {x}
           R == {p \in (1..m) \X (1..m) : p[2] \in Successors(f, p[1]) /\ p[2] # x}
           Onto(s) == UNION {Successors(f, b) : b \in s}
           Further(s) == s \cup (Onto(s) \ {x})
           Body(g) == [k \in 0..m |-> IF k = 0 THEN base ELSE Further(g[k - 1])]
           after == CHOOSE g : g = Body(g)
<1>1. m \in Nat /\ DOMAIN f.blocks = 1..m /\ base \subseteq 1..m
  BY DEF BlocksOf
<1>2. Without(f, x) = after[m]
  BY DEF Without
<1>3. \A b, s \in 1..m : <<b, s>> \in R <=> s \in Successors(f, b) /\ s # x
  OBVIOUS
<1>4. ASSUME NEW s, s \subseteq 1..m PROVE Further(s) = s \cup {y \in 1..m : \E b \in s : <<b, y>> \in R}
  <2>1. \A b : Successors(f, b) \subseteq 1..m
    BY ControlFlow
  <2>2. ASSUME NEW y PROVE y \in Further(s) <=> y \in s \/ (y \in 1..m /\ \E b \in s : <<b, y>> \in R)
    <3>1. y \in Onto(s) <=> \E b \in s : y \in Successors(f, b)
      OBVIOUS
    <3> HIDE DEF Onto, m, R
    <3>2. y \in Further(s) <=> y \in s \/ (y # x /\ y \in Onto(s))
      OBVIOUS
    <3> HIDE DEF Further
    <3>3. QED BY <3>1, <3>2, <2>1, <1>3, <1>4
  <2>3. QED BY <2>2
<1> HIDE DEF R, m, base
<1>5. PICK g : Spreads(g, m, base, R) /\ g \in [0..m -> SUBSET (1..m)]
  BY <1>1, SpreadExists
<1> HIDE DEF Further
<1>6. ASSUME NEW k \in 0..m PROVE g[k] = Body(g)[k]
  <2>1. CASE k = 0
    BY <2>1, <1>5 DEF Spreads
  <2>2. CASE k # 0
    <3>1. k \in 1..m /\ k - 1 \in 0..m
      BY <2>2, <1>1
    <3>2. g[k - 1] \subseteq 1..m
      BY <3>1, <1>5
    <3>3. g[k] = Further(g[k - 1])
      BY <3>1, <3>2, <1>4, <1>5 DEF Spreads
    <3>4. QED BY <3>3, <2>2
  <2>3. QED BY <2>1, <2>2
<1>7. g = Body(g)
  BY <1>5, <1>6
<1>8. after = Body(after)
  <2> HIDE DEF Body
  <2>1. QED BY <1>7
<1> HIDE DEF after
<1>9. after[0] = base /\ \A k \in 1..m : after[k] = Further(after[k - 1])
  <2>1. after[0] = base
    BY <1>8, <1>1
  <2>2. ASSUME NEW k \in 1..m PROVE after[k] = Further(after[k - 1])
    <3>1. k \in 0..m /\ k # 0
      OBVIOUS
    <3>2. after[k] = Body(after)[k]
      BY <1>8
    <3>3. QED BY <3>1, <3>2
  <2>3. QED BY <2>1, <2>2
<1>10. Spreads(after, m, base, R)
  <2>1. \A k \in 1..m : after[k - 1] \subseteq 1..m =>
            after[k] = after[k - 1] \cup {y \in 1..m : \E v \in after[k - 1] : <<v, y>> \in R}
    BY <1>4, <1>9
  <2>2. QED BY <2>1, <1>1, <1>9, SpreadsIf
<1>11. Least(after[m], m, base, R)
  <2>1. m \in 0..m
    BY <1>1
  <2>2. QED BY <1>1, <1>10, <2>1, Closes
<1>12. QED BY <1>2, <1>3, <1>11 DEF m, base, FlowsPast

\* A step of a round keeps its maps.
Maps(m) == [1..m -> SUBSET (1..m)]

LEMMA StepKeeps ==
    ASSUME NEW f, BlocksOf(f), NEW live, NEW m, m = Len(f.blocks), NEW pd \in Maps(m), NEW b \in 1..m
    PROVE  PostDominators(f, live, pd, b) \in Maps(m)
<1>1. DOMAIN f.blocks = 1..m
  BY DEF BlocksOf
<1>2. ASSUME NEW s \in SUBSET (1..m) PROVE [pd EXCEPT ![b] = s] \in Maps(m)
  BY DEF Maps
<1> DEFINE next == Successors(f, b) \cap live
           passed == {x \in DOMAIN f.blocks : \A s \in next : x \in pd[s]} \cup {b}
<1>3. passed \in SUBSET (1..m)
  BY <1>1
<1>4. PostDominators(f, live, pd, b) \in {pd, [pd EXCEPT ![b] = passed]}
  BY DEF PostDominators
<1> HIDE DEF passed
<1>5. QED BY <1>2, <1>3, <1>4

\* A round goes through the blocks from the last to the first, and a search through
\* one round more than there are blocks.
Pass(after, f, live, pd) ==
    LET m == Len(f.blocks)
    IN /\ after \in [0..m -> Maps(m)] /\ after[0] = pd
       /\ \A k \in 1..m : after[k] = PostDominators(f, live, after[k - 1], m + 1 - k)

LEMMA PassIs ==
    ASSUME NEW f, BlocksOf(f), NEW live, NEW pd \in Maps(Len(f.blocks))
    PROVE  \E after : Pass(after, f, live, pd) /\ PathRound(f, live, pd) = after[Len(f.blocks)]
<1> DEFINE m == Len(f.blocks)
           S == Maps(m)
           g == [k \in 1..m |-> [s \in S |-> PostDominators(f, live, s, m + 1 - k)]]
           Body(h) == [k \in 0..m |-> IF k = 0 THEN pd ELSE PostDominators(f, live, h[k - 1], m + 1 - k)]
           after == CHOOSE h : h = Body(h)
<1>1. m \in Nat /\ pd \in S
  BY DEF BlocksOf
<1>2. PathRound(f, live, pd) = after[m]
  BY DEF PathRound
<1>3. ASSUME NEW k \in 1..m, NEW s \in S PROVE PostDominators(f, live, s, m + 1 - k) \in S
  <2>1. m + 1 - k \in 1..m
    BY <1>1
  <2>2. QED BY <2>1, StepKeeps
<1>4. Keeps(g, m, S)
  BY <1>3 DEF Keeps
<1>5. \A k \in 1..m : \A s \in S : g[k][s] = PostDominators(f, live, s, m + 1 - k)
  OBVIOUS
<1> HIDE DEF m, S, g
<1>6. PICK h : IsCourse(h, m, S, pd, g)
  BY <1>1, <1>4, Courses
<1>7. h \in [0..m -> S] /\ h[0] = pd /\ \A k \in 1..m : h[k] = g[k][h[k - 1]]
  BY <1>6 DEF IsCourse
<1>8. ASSUME NEW k \in 0..m PROVE h[k] = Body(h)[k]
  <2>1. CASE k = 0
    BY <2>1, <1>7
  <2>2. CASE k # 0
    <3>1. k \in 1..m /\ k - 1 \in 0..m
      BY <2>2, <1>1
    <3>2. h[k - 1] \in S
      BY <3>1, <1>7
    <3>3. h[k] = PostDominators(f, live, h[k - 1], m + 1 - k)
      BY <3>1, <3>2, <1>5, <1>7
    <3>4. QED BY <3>3, <2>2
  <2>3. QED BY <2>1, <2>2
<1>9. h = Body(h)
  BY <1>7, <1>8
<1>10. after = Body(after)
  <2> HIDE DEF Body
  <2>1. QED BY <1>9
<1> HIDE DEF after
<1>11. after[0] = pd /\ \A k \in 1..m : after[k] = PostDominators(f, live, after[k - 1], m + 1 - k)
  <2>1. after[0] = pd
    BY <1>10, <1>1
  <2>2. ASSUME NEW k \in 1..m PROVE after[k] = PostDominators(f, live, after[k - 1], m + 1 - k)
    <3>1. k \in 0..m /\ k # 0
      OBVIOUS
    <3>2. after[k] = Body(after)[k]
      BY <1>10
    <3>3. QED BY <3>1, <3>2
  <2>3. QED BY <2>1, <2>2
<1>12. after \in [0..m -> S]
  <2> DEFINE T == {k \in Nat : k <= m => after[k] \in S}
  <2>1. 0 \in T
    BY <1>1, <1>11
  <2>2. \A k \in Nat : k < m /\ k \in T => k + 1 \in T
    <3> SUFFICES ASSUME NEW k \in Nat, k < m, k \in T PROVE k + 1 \in T
      OBVIOUS
    <3>1. k + 1 \in 1..m /\ (k + 1) - 1 = k /\ after[k] \in S
      BY <1>1
    <3>2. after[k + 1] = PostDominators(f, live, after[k], m + 1 - (k + 1))
      BY <3>1, <1>11
    <3>3. QED BY <3>1, <3>2, <1>3
  <2> HIDE DEF T
  <2>3. 0..m \subseteq T
    BY <2>1, <2>2, <1>1, Upwards
  <2>4. ASSUME NEW k \in 0..m PROVE after[k] \in S
    BY <2>3, <1>1 DEF T
  <2>5. after = [k \in 0..m |-> after[k]]
    BY <1>10
  <2>6. QED BY <2>4, <2>5
<1>13. QED BY <1>2, <1>11, <1>12 DEF Pass, m, S

First(f) == [b \in DOMAIN f.blocks |-> IF b \in Exits(f) THEN {b} ELSE DOMAIN f.blocks]
Search(rounds, f) ==
    LET m == Len(f.blocks)
    IN /\ rounds \in [0..(m + 1) -> Maps(m)] /\ rounds[0] = First(f)
       /\ \A k \in 1..(m + 1) : rounds[k] = PathRound(f, BlocksReachingExit(f), rounds[k - 1])

LEMMA SearchIs ==
    ASSUME NEW f, BlocksOf(f), Exits(f) # {}
    PROVE  \E rounds : Search(rounds, f) /\ OnEveryReturningPath(f) = rounds[Len(f.blocks) + 1][1]
<1> DEFINE m == Len(f.blocks)
           last == m + 1
           S == Maps(m)
           live == BlocksReachingExit(f)
           first == [b \in DOMAIN f.blocks |-> IF b \in Exits(f) THEN {b} ELSE DOMAIN f.blocks]
           g == [k \in 1..last |-> [s \in S |-> PathRound(f, live, s)]]
           Body(h) == [k \in 0..last |-> IF k = 0 THEN first ELSE PathRound(f, live, h[k - 1])]
           rounds == CHOOSE h : h = Body(h)
<1>1. m \in Nat /\ last \in Nat /\ first \in S
  BY DEF BlocksOf, Maps
<1>2. OnEveryReturningPath(f) = rounds[last][1]
  BY DEF OnEveryReturningPath
<1>3. ASSUME NEW s \in S PROVE PathRound(f, live, s) \in S
  <2> HIDE DEF live
  <2>1. PICK after : Pass(after, f, live, s) /\ PathRound(f, live, s) = after[m]
    BY PassIs
  <2>2. m \in 0..m
    BY <1>1
  <2>3. QED BY <2>1, <2>2 DEF Pass
<1>4. Keeps(g, last, S)
  BY <1>3 DEF Keeps
<1>5. \A k \in 1..last : \A s \in S : g[k][s] = PathRound(f, live, s)
  OBVIOUS
<1>a. first = First(f)
  BY DEF First
<1> HIDE DEF m, S, g, last, first, live
<1>6. PICK h : IsCourse(h, last, S, first, g)
  BY <1>1, <1>4, Courses
<1>7. h \in [0..last -> S] /\ h[0] = first /\ \A k \in 1..last : h[k] = g[k][h[k - 1]]
  BY <1>6 DEF IsCourse
<1>8. ASSUME NEW k \in 0..last PROVE h[k] = Body(h)[k]
  <2>1. CASE k = 0
    BY <2>1, <1>7
  <2>2. CASE k # 0
    <3>1. k \in 1..last /\ k - 1 \in 0..last
      BY <2>2, <1>1
    <3>2. h[k - 1] \in S
      BY <3>1, <1>7
    <3>3. h[k] = PathRound(f, live, h[k - 1])
      BY <3>1, <3>2, <1>5, <1>7
    <3>4. QED BY <3>3, <2>2
  <2>3. QED BY <2>1, <2>2
<1>9. h = Body(h)
  BY <1>7, <1>8
<1>10. rounds = Body(rounds)
  <2> HIDE DEF Body
  <2>1. QED BY <1>9
<1> HIDE DEF rounds
<1>11. rounds[0] = first /\ \A k \in 1..last : rounds[k] = PathRound(f, live, rounds[k - 1])
  <2>1. rounds[0] = first
    BY <1>10, <1>1
  <2>2. ASSUME NEW k \in 1..last PROVE rounds[k] = PathRound(f, live, rounds[k - 1])
    <3>1. k \in 0..last /\ k # 0
      OBVIOUS
    <3>2. rounds[k] = Body(rounds)[k]
      BY <1>10
    <3>3. QED BY <3>1, <3>2
  <2>3. QED BY <2>1, <2>2
<1>12. rounds \in [0..last -> S]
  <2> DEFINE T == {k \in Nat : k <= last => rounds[k] \in S}
  <2>1. 0 \in T
    BY <1>1, <1>11
  <2>2. \A k \in Nat : k < last /\ k \in T => k + 1 \in T
    <3> SUFFICES ASSUME NEW k \in Nat, k < last, k \in T PROVE k + 1 \in T
      OBVIOUS
    <3>1. k + 1 \in 1..last /\ (k + 1) - 1 = k /\ rounds[k] \in S
      BY <1>1
    <3>2. rounds[k + 1] = PathRound(f, live, rounds[k])
      BY <3>1, <1>11
    <3>3. QED BY <3>1, <3>2, <1>3
  <2> HIDE DEF T
  <2>3. 0..last \subseteq T
    BY <2>1, <2>2, <1>1, Upwards
  <2>4. ASSUME NEW k \in 0..last PROVE rounds[k] \in S
    BY <2>3, <1>1 DEF T
  <2>5. rounds = [k \in 0..last |-> rounds[k]]
    BY <1>10
  <2>6. QED BY <2>4, <2>5
<1>13. QED BY <1>2, <1>11, <1>12, <1>a DEF Search, m, S, last, live

\* R leads from a block backwards, but not to x.
AvoidsBack(R, f, x) == \A b, s \in 1..Len(f.blocks) : <<s, b>> \in R <=> s \in Successors(f, b) /\ b # x

\* From each of the blocks B the function returns, without x, through others of them.
Supported(B, f, x) == \A b \in B : b \in Exits(f) \/ \E s \in Successors(f, b) : s \in B
\* The map shows that x is not on every path from these blocks, and that it is.
Shown(B, pd, f, x) == (\A b \in B : x \notin pd[b]) /\ \A b \in Exits(f) : pd[b] = {b}
Sound(B, pd, m, x) == \A b \in (1..m) \ B : x \in pd[b]

\* A step does not undo this, and may add a block.
Progress(f, live, pd, b, B, x) ==
    LET next == PostDominators(f, live, pd, b)
    IN /\ Shown(B, next, f, x)
       /\ \A c \in 1..Len(f.blocks) : c # b => next[c] = pd[c]
       /\ (b \in live /\ b \notin Exits(f) /\ b # x /\ \E s \in Successors(f, b) : s \in B) => x \notin next[b]

LEMMA StepShows ==
    ASSUME NEW f, BlocksOf(f), NEW live, NEW pd \in Maps(Len(f.blocks)),
           NEW b \in 1..Len(f.blocks), NEW x \in 1..Len(f.blocks),
           NEW B, B \subseteq live, x \notin B, Supported(B, f, x), Shown(B, pd, f, x)
    PROVE  Progress(f, live, pd, b, B, x)
<1> DEFINE m == Len(f.blocks)
           next == PostDominators(f, live, pd, b)
<1>a. m \in Nat /\ b \in 1..m
  BY DEF BlocksOf
<1> SUFFICES /\ Shown(B, next, f, x)
             /\ \A c \in 1..m : c # b => next[c] = pd[c]
             /\ (b \in live /\ b \notin Exits(f) /\ b # x /\ \E s \in Successors(f, b) : s \in B) => x \notin next[b]
  BY DEF Progress
<1>b. pd \in Maps(m)
  OBVIOUS
<1> HIDE DEF m
<1> DEFINE to == Successors(f, b) \cap live
           passed == {y \in DOMAIN f.blocks : \A s \in to : y \in pd[s]} \cup {b}
<1>1. Exits(f) \subseteq 1..m /\ DOMAIN pd = 1..m
  BY ControlFlow, <1>b DEF Maps, m
<1>2. CASE b \in Exits(f) \/ b \notin live
  <2>1. next = pd
    BY <1>2 DEF PostDominators
  <2> HIDE DEF next
  <2>2. QED BY <2>1, <1>2
<1>3. CASE ~(b \in Exits(f) \/ b \notin live)
  <2>1. next = [pd EXCEPT ![b] = passed]
    BY <1>3 DEF PostDominators
  <2>2. next[b] = passed /\ \A c \in 1..m : c # b => next[c] = pd[c]
    BY <2>1, <1>1, <1>a
  <2>3. ASSUME b # x, NEW s \in Successors(f, b), s \in B PROVE x \notin next[b]
    <3>1. s \in to /\ x \notin pd[s]
      BY <2>3 DEF Shown
    <3>2. QED BY <3>1, <2>2, <2>3
  <2>4. b \in B => x \notin next[b]
    <3>1. SUFFICES ASSUME b \in B PROVE x \notin next[b]
      OBVIOUS
    <3>2. PICK s \in Successors(f, b) : s \in B
      BY <3>1, <1>3 DEF Supported
    <3>3. QED BY <3>1, <3>2, <2>3
  <2>5. ASSUME NEW c \in B PROVE x \notin next[c]
    <3>1. CASE c = b
      BY <3>1, <2>4, <2>5
    <3>2. CASE c # b
      <4>1. next[c] = pd[c]
        BY <3>2, <2>1
      <4>2. QED BY <4>1, <2>5 DEF Shown
    <3>3. QED BY <3>1, <3>2
  <2>6. \A c \in Exits(f) : next[c] = {c}
    BY <2>2, <1>1, <1>3 DEF Shown
  <2> HIDE DEF passed, to, next
  <2>7. QED BY <2>2, <2>3, <2>5, <2>6 DEF Shown
<1>4. QED BY <1>2, <1>3

\* Nor does a round, which adds every block that leads to one of them.
LEMMA PassShows ==
    ASSUME NEW f, BlocksOf(f), NEW live, NEW m, m = Len(f.blocks), NEW pd \in Maps(m), NEW x \in 1..m,
           NEW B, B \subseteq live, x \notin B, Supported(B, f, x), Shown(B, pd, f, x),
           NEW C, C \subseteq live, C \subseteq 1..m, x \notin C,
           \A b \in C \ B : b \notin Exits(f) /\ \E s \in Successors(f, b) : s \in B
    PROVE  Shown(C, PathRound(f, live, pd), f, x)
<1>1. PICK after : Pass(after, f, live, pd) /\ PathRound(f, live, pd) = after[m]
  BY PassIs
<1>2. /\ m \in Nat /\ after \in [0..m -> Maps(m)] /\ after[0] = pd
      /\ \A k \in 1..m : after[k] = PostDominators(f, live, after[k - 1], m + 1 - k)
  BY <1>1 DEF Pass, BlocksOf
<1> DEFINE Done(k) == Shown(B, after[k], f, x) /\ \A b \in C : b > m - k => x \notin after[k][b]
           T == {k \in Nat : k <= m => Done(k)}
<1>3. 0 \in T
  <2>1. \A b \in C : ~(b > m - 0)
    BY <1>2
  <2>2. QED BY <2>1, <1>2
<1>4. \A k \in Nat : k < m /\ k \in T => k + 1 \in T
  <2> SUFFICES ASSUME NEW k \in Nat, k < m, k \in T PROVE Done(k + 1)
    OBVIOUS
  <2> DEFINE b == m - k
  <2>0. m \in Nat
    BY <1>2
  <2>1. b \in 1..m /\ k + 1 \in 1..m /\ k \in 0..m /\ (k + 1) - 1 = k /\ m + 1 - (k + 1) = b
    BY <2>0
  <2>2. Done(k)
    BY <1>2
  <2>a. Shown(B, after[k], f, x)
    BY <2>2
  <2> HIDE DEF T
  <2>3. after[k] \in Maps(m) /\ after[k + 1] = PostDominators(f, live, after[k], b)
    BY <2>1, <1>2
  <2> HIDE DEF b
  <2>4. /\ Shown(B, after[k + 1], f, x)
        /\ \A c \in 1..m : c # b => after[k + 1][c] = after[k][c]
        /\ (b \in live /\ b \notin Exits(f) /\ b # x /\ \E s \in Successors(f, b) : s \in B)
              => x \notin after[k + 1][b]
    <3>1. Progress(f, live, after[k], b, B, x)
      BY <2>1, <2>a, <2>3, StepShows
    <3>2. QED BY <3>1, <2>3 DEF Progress
  <2>5. ASSUME NEW c \in C, c > m - (k + 1) PROVE x \notin after[k + 1][c]
    <3>1. CASE c = b
      <4>1. CASE c \in B
        BY <4>1, <2>4 DEF Shown
      <4>2. CASE c \notin B
        BY <4>2, <3>1, <2>4
      <4>3. QED BY <4>1, <4>2
    <3>2. CASE c # b
      <4>1. c \in 1..m /\ c > m - k
        BY <3>2, <2>5, <2>0 DEF b
      <4>2. x \notin after[k][c]
        BY <4>1, <2>2
      <4>3. QED BY <4>1, <4>2, <3>2, <2>4
    <3>3. QED BY <3>1, <3>2
  <2>6. QED BY <2>4, <2>5
<1> HIDE DEF T
<1>5. 0..m \subseteq T
  BY <1>2, <1>3, <1>4, Upwards
<1>6. Done(m)
  <2>1. m \in 0..m
    BY <1>2
  <2>2. m \in T
    BY <2>1, <1>5
  <2>3. QED BY <2>2, <1>2 DEF T
<1>7. \A b \in C : b > m - m
  BY <1>2
<1>8. QED BY <1>1, <1>6, <1>7 DEF Shown

\* What leads to nothing but blocks from which x is passed, or is x, passes x.
Closed(B, f, x) == /\ \A b \in 1..Len(f.blocks) : \A s \in Successors(f, b) : s \in B /\ b # x => b \in B
                   /\ Exits(f) \ {x} \subseteq B

LEMMA PassSound ==
    ASSUME NEW f, BlocksOf(f), NEW live, NEW m, m = Len(f.blocks), NEW pd \in Maps(m), NEW x \in 1..m,
           NEW B, Closed(B, f, x), Sound(B, pd, m, x)
    PROVE  Sound(B, PathRound(f, live, pd), m, x)
<1>1. PICK after : Pass(after, f, live, pd) /\ PathRound(f, live, pd) = after[m]
  BY PassIs
<1>2. /\ m \in Nat /\ after \in [0..m -> Maps(m)] /\ after[0] = pd
      /\ \A k \in 1..m : after[k] = PostDominators(f, live, after[k - 1], m + 1 - k)
  BY <1>1 DEF Pass, BlocksOf
<1> DEFINE T == {k \in Nat : k <= m => Sound(B, after[k], m, x)}
<1>3. 0 \in T
  BY <1>2
<1>4. \A k \in Nat : k < m /\ k \in T => k + 1 \in T
  <2> SUFFICES ASSUME NEW k \in Nat, k < m, k \in T PROVE Sound(B, after[k + 1], m, x)
    OBVIOUS
  <2> DEFINE b == m - k
             to == Successors(f, b) \cap live
             passed == {y \in DOMAIN f.blocks : \A s \in to : y \in after[k][s]} \cup {b}
  <2>0. m \in Nat
    BY <1>2
  <2>1. b \in 1..m /\ k + 1 \in 1..m /\ k \in 0..m /\ (k + 1) - 1 = k /\ m + 1 - (k + 1) = b
    <3> HIDE DEF T
    <3>1. b \in 1..m /\ k + 1 \in 1..m /\ k \in 0..m
      BY <2>0
    <3>2. \A i, j \in Nat : i + 1 - (j + 1) = i - j
      OBVIOUS
    <3>3. m + 1 - (k + 1) = m - k
      BY <2>0, <3>2
    <3>4. (k + 1) - 1 = k
      OBVIOUS
    <3>5. QED BY <3>1, <3>3, <3>4
  <2>2. Sound(B, after[k], m, x)
    BY <1>2
  <2> HIDE DEF T
  <2>3. after[k] \in Maps(m) /\ after[k + 1] = PostDominators(f, live, after[k], b)
    BY <2>1, <1>2
  <2>4. after[k + 1] \in {after[k], [after[k] EXCEPT ![b] = passed]}
    BY <2>3 DEF PostDominators
  <2>5. b \notin B => x \in passed
    <3>1. SUFFICES ASSUME b \notin B, b # x, NEW s \in to PROVE x \in after[k][s]
      BY DEF BlocksOf
    <3>2. s \in 1..m /\ s \notin B
      <4>1. s \in 1..m
        BY <3>1, ControlFlow
      <4>2. QED BY <4>1, <3>1, <2>1 DEF Closed
    <3>3. QED BY <3>2, <2>2 DEF Sound
  <2> HIDE DEF passed, b
  <2>6. ASSUME NEW c \in (1..m) \ B PROVE x \in after[k + 1][c]
    <3>1. x \in after[k][c]
      BY <2>2 DEF Sound
    <3>2. [after[k] EXCEPT ![b] = passed][c] = IF c = b THEN passed ELSE after[k][c]
      BY <2>3 DEF Maps
    <3>3. QED BY <3>1, <3>2, <2>4, <2>5
  <2>7. QED BY <2>6 DEF Sound
<1> HIDE DEF T
<1>5. 0..m \subseteq T
  BY <1>2, <1>3, <1>4, Upwards
<1>6. QED BY <1>5, <1>1, <1>2 DEF T

\* After the last round the map of the first block has x exactly if A, the blocks from
\* which the function returns without x, does not have the first block.
LEMMA RoundsAreRight ==
    ASSUME NEW f, BlocksOf(f), NEW x \in 1..Len(f.blocks), NEW rounds, Search(rounds, f),
           NEW R, AvoidsBack(R, f, x), NEW a, Spreads(a, Len(f.blocks), Exits(f) \ {x}, R)
    PROVE  /\ Closed(a[Len(f.blocks)], f, x) /\ Supported(a[Len(f.blocks)], f, x)
           /\ x \notin a[Len(f.blocks)] /\ a[Len(f.blocks)] \subseteq 1..Len(f.blocks)
           /\ x \in rounds[Len(f.blocks) + 1][1] <=> 1 \notin a[Len(f.blocks)]
<1> DEFINE m == Len(f.blocks)
           last == m + 1
           A == a[m]
           live == BlocksReachingExit(f)
           start == Exits(f) \ {x}
<1>1. m \in Nat /\ m # 0 /\ DOMAIN f.blocks = 1..m /\ x \in 1..m /\ 1 \in 1..m /\ last \in Nat
  BY DEF BlocksOf
<1>2. Exits(f) \subseteq 1..m /\ \A b : Successors(f, b) \subseteq 1..m
  BY ControlFlow
<1>3. Least(A, m, start, R) /\ \A k \in 0..m : a[k] \subseteq 1..m
  <2>1. start \subseteq 1..m
    BY <1>2
  <2> HIDE DEF m, start
  <2>2. QED BY <2>1, <1>1, Closes DEF m, start
<1>4. \A b, s \in 1..m : <<s, b>> \in R <=> s \in Successors(f, b) /\ b # x
  BY DEF AvoidsBack
<1>5. PICK Rl : Least(live, m, Exits(f), Rl) /\ \A b, s \in 1..m : <<s, b>> \in Rl <=> s \in Successors(f, b)
  BY LiveIs DEF FlowsBack
<1>6. a[0] = start
  BY DEF Spreads
<1>7. \A k \in 1..m : a[k] = a[k - 1] \cup {y \in 1..m : \E s \in a[k - 1] : <<s, y>> \in R}
  BY DEF Spreads
<1>8. /\ rounds \in [0..last -> Maps(m)] /\ rounds[0] = First(f)
      /\ \A k \in 1..last : rounds[k] = PathRound(f, live, rounds[k - 1])
  BY DEF Search
<1> HIDE DEF m, A, live, start, last
\* Layer by layer: what a layer is made of.
<1> DEFINE Layer(k) == a[k] \subseteq live /\ x \notin a[k] /\ Supported(a[k], f, x) /\ start \subseteq a[k]
           T == {k \in Nat : k <= m => Layer(k)}
<1>9. 0 \in T
  <2>1. start \subseteq live /\ x \notin start /\ start \subseteq Exits(f)
    BY <1>5 DEF Least, start
  <2>2. QED BY <2>1, <1>6 DEF Supported
<1>10. \A k \in Nat : k < m /\ k \in T => k + 1 \in T
  <2> SUFFICES ASSUME NEW k \in Nat, k < m, k \in T PROVE Layer(k + 1)
    OBVIOUS
  <2>1. k + 1 \in 1..m /\ (k + 1) - 1 = k /\ k \in 0..m
    BY <1>1
  <2>2. a[k + 1] = a[k] \cup {y \in 1..m : \E s \in a[k] : <<s, y>> \in R}
    BY <2>1, <1>7
  <2>3. Layer(k)
    BY <1>1
  <2> HIDE DEF T
  <2>4. ASSUME NEW b \in a[k + 1], b \notin a[k]
        PROVE  b \in live /\ b # x /\ \E s \in Successors(f, b) : s \in a[k]
    <3>1. PICK s \in a[k] : b \in 1..m /\ <<s, b>> \in R
      BY <2>2, <2>4
    <3>2. s \in 1..m /\ s \in live
      BY <2>1, <2>3, <1>3
    <3>3. s \in Successors(f, b) /\ b # x
      BY <3>1, <3>2, <1>4
    <3>4. b \in live
      BY <3>1, <3>2, <3>3, <1>5 DEF Least, ClosedUnder
    <3>5. QED BY <3>3, <3>4
  <2>5. a[k] \subseteq a[k + 1]
    BY <2>2
  <2>6. Supported(a[k + 1], f, x)
    <3> SUFFICES ASSUME NEW b \in a[k + 1], b \notin Exits(f) PROVE \E s \in Successors(f, b) : s \in a[k + 1]
      BY DEF Supported
    <3>1. CASE b \in a[k]
      BY <3>1, <2>3, <2>5 DEF Supported
    <3>2. CASE b \notin a[k]
      BY <3>2, <2>4, <2>5
    <3>3. QED BY <3>1, <3>2
  <2>7. QED BY <2>3, <2>4, <2>5, <2>6
<1> HIDE DEF T
<1>11. 0..m \subseteq T
  BY <1>1, <1>9, <1>10, Upwards
<1>12. \A k \in 0..m : Layer(k)
  BY <1>11, <1>1 DEF T
<1> HIDE DEF Layer
<1>13. A \subseteq live /\ x \notin A /\ Supported(A, f, x) /\ A \subseteq 1..m
  <2>1. m \in 0..m
    BY <1>1
  <2>2. QED BY <2>1, <1>12, <1>3 DEF Layer, A
<1>14. Closed(A, f, x)
  <2>1. start \subseteq A
    BY <1>3 DEF Least
  <2>2. ASSUME NEW b \in 1..m, NEW s \in Successors(f, b), s \in A, b # x PROVE b \in A
    <3>1. s \in 1..m /\ <<s, b>> \in R
      BY <2>2, <1>2, <1>4
    <3>2. QED BY <3>1, <2>2, <1>3 DEF Least, ClosedUnder
  <2>3. QED BY <2>1, <2>2 DEF Closed, start, m
\* The rounds.
<1> DEFINE D == {k \in Nat : k <= last => Sound(A, rounds[k], m, x) /\ (k <= m => Shown(a[k], rounds[k], f, x))}
<1>15. 0 \in D
  <2>1. \A b \in 1..m : First(f)[b] = IF b \in Exits(f) THEN {b} ELSE 1..m
    BY <1>1 DEF First
  <2>2. Shown(a[0], rounds[0], f, x)
    BY <2>1, <1>2, <1>6, <1>8 DEF Shown, start
  <2>3. Sound(A, rounds[0], m, x)
    BY <2>1, <1>1, <1>8, <1>14 DEF Sound, Closed
  <2>4. QED BY <2>2, <2>3
<1>16. \A k \in Nat : k < last /\ k \in D => k + 1 \in D
  <2> SUFFICES ASSUME NEW k \in Nat, k < last, k \in D PROVE k + 1 \in D
    OBVIOUS
  <2>1. k + 1 \in 1..last /\ (k + 1) - 1 = k /\ k \in 0..last /\ k \in 0..m
    BY <1>1 DEF last
  <2>2. Sound(A, rounds[k], m, x) /\ Shown(a[k], rounds[k], f, x)
    BY <2>1
  <2> HIDE DEF D
  <2>3. rounds[k] \in Maps(m) /\ rounds[k + 1] = PathRound(f, live, rounds[k])
    BY <2>1, <1>8
  <2>4. Sound(A, rounds[k + 1], m, x)
    BY <2>2, <2>3, <1>1, <1>14, PassSound DEF m
  <2>5. ASSUME k + 1 <= m PROVE Shown(a[k + 1], rounds[k + 1], f, x)
    <3>1. k + 1 \in 0..m /\ k + 1 \in 1..m
      BY <2>5, <1>1
    <3>2. Layer(k) /\ Layer(k + 1)
      BY <3>1, <2>1, <1>12
    <3>3. a[k + 1] = a[k] \cup {y \in 1..m : \E s \in a[k] : <<s, y>> \in R} /\ a[k] \subseteq 1..m
      BY <3>1, <2>1, <1>3, <1>7
    <3>4. ASSUME NEW b \in a[k + 1] \ a[k] PROVE b \notin Exits(f) /\ \E s \in Successors(f, b) : s \in a[k]
      <4>1. b # x
        BY <3>2 DEF Layer
      <4>2. b \notin Exits(f)
        BY <4>1, <3>2 DEF Layer, start
      <4>3. PICK s \in a[k] : b \in 1..m /\ <<s, b>> \in R
        BY <3>3
      <4>4. s \in Successors(f, b)
        BY <4>3, <3>3, <1>4
      <4>5. QED BY <4>2, <4>4
    <3>5. a[k + 1] \subseteq 1..m /\ a[k] \subseteq live /\ a[k + 1] \subseteq live /\ x \notin a[k + 1] /\ x \notin a[k]
      BY <3>2, <3>3 DEF Layer
    <3>6. Supported(a[k], f, x)
      BY <3>2 DEF Layer
    <3>7. Shown(a[k + 1], PathRound(f, live, rounds[k]), f, x)
      BY <3>4, <3>5, <3>6, <2>2, <2>3, <1>1, PassShows DEF m
    <3>8. QED BY <3>7, <2>3
  <2>6. QED BY <2>4, <2>5 DEF D
<1> HIDE DEF D
<1>17. 0..last \subseteq D
  BY <1>1, <1>15, <1>16, Upwards
<1>18. m \in 0..last /\ m <= m /\ m <= last /\ last \in 1..last /\ last - 1 = m /\ last \in 0..last /\ last <= last
  BY <1>1 DEF last
<1>19. Shown(A, rounds[m], f, x) /\ Sound(A, rounds[last], m, x)
  BY <1>17, <1>18 DEF D, A
<1>20. Shown(A, rounds[last], f, x)
  <2>1. rounds[m] \in Maps(m) /\ rounds[last] = PathRound(f, live, rounds[m])
    BY <1>8, <1>18
  <2>2. \A b \in A \ A : b \notin Exits(f) /\ \E s \in Successors(f, b) : s \in A
    OBVIOUS
  <2>3. QED BY <2>1, <2>2, <1>1, <1>13, <1>19, PassShows DEF m
<1>21. x \in rounds[last][1] <=> 1 \notin A
  BY <1>1, <1>19, <1>20 DEF Shown, Sound
<1>22. QED BY <1>13, <1>14, <1>21 DEF A, m, last

\* A block is on every returning path exactly if no exit is reached without it.
LEMMA EveryPath ==
    ASSUME NEW f, BlocksOf(f), Exits(f) # {}
    PROVE  OnEveryReturningPath(f) = {x \in DOMAIN f.blocks : Without(f, x) \cap Exits(f) = {}}
<1> DEFINE m == Len(f.blocks)
<1>1. m \in Nat /\ m # 0 /\ DOMAIN f.blocks = 1..m /\ 1 \in 1..m
  BY DEF BlocksOf
<1>2. Exits(f) \subseteq 1..m /\ \A b : Successors(f, b) \subseteq 1..m
  BY ControlFlow
<1>3. PICK rounds : Search(rounds, f) /\ OnEveryReturningPath(f) = rounds[m + 1][1]
  BY SearchIs
<1>4. rounds[m + 1][1] \subseteq 1..m
  <2>1. rounds[m + 1] \in Maps(m)
    BY <1>1, <1>3 DEF Search
  <2>2. QED BY <2>1, <1>1 DEF Maps
<1>5. ASSUME NEW x \in 1..m PROVE x \in rounds[m + 1][1] <=> Without(f, x) \cap Exits(f) = {}
  <2> DEFINE R == {p \in (1..m) \X (1..m) : p[1] \in Successors(f, p[2]) /\ p[2] # x}
             W == Without(f, x)
  <2>1. AvoidsBack(R, f, x)
    BY DEF AvoidsBack
  <2> HIDE DEF R
  <2>2. PICK a : Spreads(a, m, Exits(f) \ {x}, R)
    BY <1>1, <1>2, SpreadExists
  <2> DEFINE A == a[m]
  <2>3. /\ Closed(A, f, x) /\ Supported(A, f, x) /\ x \notin A /\ A \subseteq 1..m
        /\ x \in rounds[m + 1][1] <=> 1 \notin A
    BY <2>1, <2>2, <1>3, RoundsAreRight
  <2>4. PICK Q : /\ Least(W, m, {1} \ {x}, Q)
                 /\ \A b, s \in 1..m : <<b, s>> \in Q <=> s \in Successors(f, b) /\ s # x
    BY PastIs DEF FlowsPast
  <2> HIDE DEF A, W, m
  <2>5. 1 \notin A => W \cap Exits(f) = {}
    <3> SUFFICES ASSUME 1 \notin A PROVE W \cap Exits(f) = {}
      OBVIOUS
    <3> DEFINE Out == ((1..m) \ A) \ {x}
    <3>1. {1} \ {x} \subseteq Out
      BY <1>1
    <3>2. ASSUME NEW b \in Out, NEW s \in 1..m, <<b, s>> \in Q PROVE s \in Out
      BY <3>2, <2>3, <2>4 DEF Closed, m
    <3> HIDE DEF Out
    <3>3. W \subseteq Out
      BY <3>1, <3>2, <2>4 DEF Least, ClosedUnder
    <3>4. QED BY <3>3, <2>3 DEF Out, Closed
  <2>6. W \cap Exits(f) = {} => 1 \notin A
    <3> SUFFICES ASSUME W \cap Exits(f) = {}, 1 \in A PROVE FALSE
      OBVIOUS
    <3> DEFINE Out == {b \in 1..m : b \notin W /\ b # x}
    <3>1. Exits(f) \ {x} \subseteq Out
      BY <1>2
    <3>2. ASSUME NEW s \in Out, NEW b \in 1..m, <<s, b>> \in R PROVE b \in Out
      <4>1. s \in Successors(f, b) /\ b # x /\ s # x /\ s \notin W /\ s \in 1..m
        BY <3>2, <2>1 DEF AvoidsBack, m
      <4>2. b \notin W
        BY <4>1, <2>4 DEF Least, ClosedUnder
      <4>3. QED BY <4>1, <4>2
    <3> HIDE DEF Out
    <3>a. Least(A, m, Exits(f) \ {x}, R)
      <4>1. Exits(f) \ {x} \subseteq 1..m
        BY <1>2 DEF m
      <4>2. QED BY <4>1, <2>2, <1>1, Closes DEF A, m
    <3>3. A \subseteq Out
      BY <3>1, <3>2, <3>a DEF ClosedUnder, Least
    <3>4. 1 \in W \/ 1 = x
      BY <2>4 DEF Least
    <3>5. QED BY <3>3, <3>4 DEF Out
  <2>7. QED BY <2>3, <2>5, <2>6 DEF W
<1>6. QED BY <1>1, <1>3, <1>4, <1>5

-----------------------------------------------------------------------------
(* What is written, and the crate, stay what the analyses take them for.   *)

LEMMA LenIs ==
    ASSUME NEW s, NEW n \in Nat, DOMAIN s = 1..n
    PROVE  Len(s) = n
OBVIOUS

LEMMA PutKeeps ==
    ASSUME NEW map, NEW x \in DOMAIN map, NEW y, x # y, NEW v
    PROVE  x \in DOMAIN Put(map, y, v) /\ Put(map, y, v)[x] = map[x]
BY DEF Put

\* The functions a crate and a module consist of.
HandOffInv ==
    /\ scenario \in DOMAIN Scenarios /\ crate \in Scenarios[scenario].crates
    /\ "register" \in DOMAIN text /\ "blocks" \in DOMAIN text["register"] /\ BlocksOf(text["register"])

LEMMA HandOffInit == ASSUME Init PROVE HandOffInv
<1>1. PICK n \in DOMAIN Scenarios :
         \E c \in Scenarios[n].crates, shape \in Scenarios[n].register.shapes :
            /\ scenario = n /\ crate = c
            /\ text = [q \in {"register"} |-> Begun(Scenarios[n].register, shape)]
  BY DEF Init
<1>2. PICK shape \in Scenarios[n].register.shapes :
         text = [q \in {"register"} |-> Begun(Scenarios[n].register, shape)]
  BY <1>1
<1> DEFINE f == Begun(Scenarios[n].register, shape)
<1>3. text["register"] = f /\ "register" \in DOMAIN text
  BY <1>2
<1>4. "blocks" \in DOMAIN f /\ DOMAIN f.blocks = DOMAIN shape
  BY DEF Begun
<1>5. Len(shape) \in Nat \ {0} /\ DOMAIN shape = 1..Len(shape)
  BY <1>1, HandOffAssumption DEF IsPart
<1> HIDE DEF f
<1>6. BlocksOf(f)
  BY <1>4, <1>5, LenIs DEF BlocksOf
<1>7. QED BY <1>1, <1>3, <1>4, <1>6 DEF HandOffInv

LEMMA HandOffNext == ASSUME HandOffInv, [Next]_vars PROVE HandOffInv'
<1>1. CASE UNCHANGED vars
  BY <1>1 DEF HandOffInv, vars
<1>2. CASE Write
  <2>1. scenario' = scenario /\ crate' = crate
    BY <1>2 DEF Write
  <2>2. PICK i : text' = [text EXCEPT ![role].blocks[Head(todo)] = Front(@) \o <<i, Last(@)>>]
    BY <1>2 DEF Write
  <2>3. QED BY <2>1, <2>2 DEF HandOffInv, BlocksOf
<1>3. CASE NextFunction
  <2>1. scenario' = scenario /\ crate' = crate
    BY <1>3 DEF NextFunction
  <2>2. PICK v : text' = Put(text, "clear", v)
    BY <1>3 DEF NextFunction
  <2>3. "register" \in DOMAIN text' /\ text'["register"] = text["register"]
    BY <2>2, PutKeeps DEF HandOffInv
  <2>4. QED BY <2>1, <2>3 DEF HandOffInv
<1>4. ASSUME UNCHANGED <<scenario, crate, text>> PROVE HandOffInv'
  BY <1>4 DEF HandOffInv
<1>5. CASE NextBlock \/ Analysed
  BY <1>4, <1>5 DEF NextBlock, Analysed
<1>6. CASE Register \/ DropGuard \/ LeakGuard \/ Fire \/ Step \/ \E x \in Rust!Subjects : End(x)
  <2>1. UNCHANGED written
    BY <1>6 DEF Register, DropGuard, LeakGuard, Fire, Step, End, written
  <2>2. QED BY <2>1, <1>4 DEF written
<1>7. QED BY <1>1, <1>2, <1>3, <1>5, <1>6 DEF Next

\* On every returning path are the blocks without which no exit is reached, for every
\* function written, whatever its control flow (path_info).
THEOREM EveryPathIsFound == Spec => []EveryPathIsEvery
<1>1. HandOffInv => EveryPathIsEvery
  <2> SUFFICES ASSUME HandOffInv, ~CfgIncomplete(text.register)
               PROVE  OnEveryReturningPath(text.register) =
                        {x \in DOMAIN text.register.blocks : Without(text.register, x) \cap Exits(text.register) = {}}
    BY DEF EveryPathIsEvery
  <2>1. BlocksOf(text.register) /\ Exits(text.register) # {}
    BY DEF HandOffInv, CfgIncomplete
  <2>2. QED BY <2>1, EveryPath
<1>2. QED BY <1>1, HandOffInit, HandOffNext, PTL DEF Spec

\* The lineage of every hand-off is what safe code can do, in every crate
\* (safe_entry_lineages).
THEOREM LineageIsSound == Spec => []LineageIsRight
<1>1. HandOffInv => LineageIsRight
  <2> SUFFICES ASSUME HandOffInv, NEW n \in DOMAIN crate.fns
               PROVE  LET lineage == Driver!SafeEntryLineage(crate.fns, n)
                          found == lineage \in {"direct", "reachable"}
                      IN /\ found => n \in Reached(crate, AnyCall)
                         /\ lineage = "no_public_safe_entry" => n \notin Reached(crate, {"direct", "pointer"})
                         /\ n \in Reached(crate, {"direct"}) => found
    BY DEF LineageIsRight
  <2>1. CrateOf(crate.fns)
    BY HandOffAssumption DEF HandOffInv, CrateOf, IsFunction
  <2>2. QED BY <2>1, LineageMeets
<1>2. QED BY <1>1, HandOffInit, HandOffNext, PTL DEF Spec

-----------------------------------------------------------------------------
(* What is written is well typed, and assigns a name once.                 *)

ValuesIn(known) == Typed(known, "value")
CellsIn(known) == Typed(known, "cell")

\* An instruction that fits, kind by kind.
Shaped(known, i) ==
    \/ i.op = "alloca" /\ i.args = <<>> /\ i.res \in Locals
    \/ i.op = "store" /\ i.res = NoName /\ Len(i.args) = 2 /\ DOMAIN i.args = 1..2
       /\ i.args[1] \in ValuesIn(known) \cup {"null"} /\ i.args[2] \in CellsIn(known)
    \/ /\ i.op \in {"load", "gep", "cast", "other"} /\ i.res \in Locals
       /\ Len(i.args) = 1 /\ DOMAIN i.args = 1..1
       /\ \/ i.op = "load" /\ i.args[1] \in CellsIn(known) \cup Typed(known, "holder")
          \/ i.op = "gep" /\ i.type = "S" /\ i.path = <<"f">> /\ i.args[1] \in Typed(known, "object")
          \/ i.op = "gep" /\ i.type = "bytes" /\ i.path = <<"1">> /\ i.args[1] \in ValuesIn(known)
          \/ i.op \in {"cast", "other"} /\ i.args[1] \in ValuesIn(known) \cup CellsIn(known)
    \/ /\ i.op = "call" /\ i.res = NoName /\ Len(i.args) = 2 /\ DOMAIN i.args = 1..2
       /\ \/ i.args[1] \in ValuesIn(known) /\ i.args[2] \in ValuesIn(known)
          \/ i.args[1] = "@ext" /\ i.args[2] \in ValuesIn(known) \cup CellsIn(known)
          \/ i.args[1] = "@llvm.dbg.declare" /\ i.args[2] \in CellsIn(known)

LEMMA InstIs ==
    ASSUME NEW op, NEW res, NEW args
    PROVE  /\ Inst(op, res, args).op = op /\ Inst(op, res, args).res = res /\ Inst(op, res, args).args = args
           /\ Inst(op, res, args).to = <<>>
BY DEF Inst

LEMMA GepIs ==
    ASSUME NEW res, NEW base, NEW type, NEW path
    PROVE  LET i == Gep(res, base, type, path)
           IN i.op = "gep" /\ i.res = res /\ i.args = <<base>> /\ i.type = type /\ i.path = path
BY DEF Gep, Inst

LEMMA StoreIs ==
    ASSUME NEW v, NEW d
    PROVE  Store(v, d).op = "store" /\ Store(v, d).res = NoName /\ Store(v, d).args = <<v, d>>
BY DEF Store, Inst

LEMMA CallIs ==
    ASSUME NEW v, NEW d
    PROVE  Call(<<v, d>>).op = "call" /\ Call(<<v, d>>).res = NoName /\ Call(<<v, d>>).args = <<v, d>>
BY DEF Call, Inst

LEMMA FittingIsShaped ==
    ASSUME NEW known, NEW op \in AllOps, NEW new \in Locals, NEW i \in Fitting(known, op, new)
    PROVE  Shaped(known, i) /\ i.res \in {new, NoName}
<1>1. CASE op = "alloca"
  <2>1. i = Alloca(new)
    BY <1>1, Z3 DEF Fitting, ValuesIn, CellsIn
  <2>2. i.op = "alloca" /\ i.res = new /\ i.args = <<>>
    BY <2>1, InstIs DEF Alloca
  <2>3. QED BY <2>2 DEF Shaped
<1>2. CASE op = "store"
  <2>1. PICK v \in ValuesIn(known) \cup {"null"}, d \in CellsIn(known) : i = Store(v, d)
    BY <1>2, Z3 DEF Fitting, ValuesIn, CellsIn
  <2>2. i.op = "store" /\ i.res = NoName /\ i.args = <<v, d>>
    BY <2>1, StoreIs
  <2>3. Len(i.args) = 2 /\ DOMAIN i.args = 1..2 /\ i.args[1] = v /\ i.args[2] = d
    BY <2>2
  <2>4. QED BY <2>1, <2>2, <2>3 DEF Shaped
<1>3. CASE op = "load"
  <2>1. PICK d \in CellsIn(known) \cup Typed(known, "holder") : i = Load(new, d)
    BY <1>3, Z3 DEF Fitting, ValuesIn, CellsIn
  <2>2. i.op = "load" /\ i.res = new /\ i.args = <<d>>
    BY <2>1, InstIs DEF Load
  <2>3. QED BY <2>2 DEF Shaped
<1>4. CASE op = "field"
  <2>1. PICK o \in Typed(known, "object") : i = Gep(new, o, "S", <<"f">>)
    BY <1>4, Z3 DEF Fitting, ValuesIn, CellsIn
  <2>2. i.op = "gep" /\ i.res = new /\ i.args = <<o>> /\ i.type = "S" /\ i.path = <<"f">>
    BY <2>1, GepIs
  <2>3. QED BY <2>2 DEF Shaped
<1>5. CASE op = "offset"
  <2>1. PICK v \in ValuesIn(known) : i = Gep(new, v, "bytes", <<"1">>)
    BY <1>5, Z3 DEF Fitting, ValuesIn, CellsIn
  <2>2. i.op = "gep" /\ i.res = new /\ i.args = <<v>> /\ i.type = "bytes" /\ i.path = <<"1">>
    BY <2>1, GepIs
  <2>3. QED BY <2>2 DEF Shaped
<1>6. CASE op = "cast"
  <2>1. PICK x \in ValuesIn(known) \cup CellsIn(known) : i = Cast(new, x)
    BY <1>6, Z3 DEF Fitting, ValuesIn, CellsIn
  <2>2. i.op = "cast" /\ i.res = new /\ i.args = <<x>>
    BY <2>1, InstIs DEF Cast
  <2>3. QED BY <2>2 DEF Shaped
<1>7. CASE op = "other"
  <2>1. PICK x \in ValuesIn(known) \cup CellsIn(known) : i = OtherOf(new, x)
    BY <1>7, Z3 DEF Fitting, ValuesIn, CellsIn
  <2>2. i.op = "other" /\ i.res = new /\ i.args = <<x>>
    BY <2>1, InstIs DEF OtherOf
  <2>3. QED BY <2>2 DEF Shaped
<1>8. CASE op = "invoke"
  <2>1. PICK v \in ValuesIn(known), w \in ValuesIn(known) : i = Call(<<v, w>>)
    BY <1>8, Z3 DEF Fitting, ValuesIn, CellsIn
  <2>2. i.op = "call" /\ i.res = NoName /\ i.args = <<v, w>>
    BY <2>1, CallIs
  <2>3. Len(i.args) = 2 /\ DOMAIN i.args = 1..2 /\ i.args[1] = v /\ i.args[2] = w
    BY <2>2
  <2>4. QED BY <2>1, <2>2, <2>3 DEF Shaped
<1>9. CASE op = "escape"
  <2>1. PICK x \in ValuesIn(known) \cup CellsIn(known) : i = Call(<<"@ext", x>>)
    BY <1>9, Z3 DEF Fitting, ValuesIn, CellsIn
  <2>2. i.op = "call" /\ i.res = NoName /\ i.args = <<"@ext", x>>
    BY <2>1, CallIs
  <2>3. Len(i.args) = 2 /\ DOMAIN i.args = 1..2 /\ i.args[1] = "@ext" /\ i.args[2] = x
    BY <2>2
  <2>4. QED BY <2>1, <2>2, <2>3 DEF Shaped
<1>10. CASE op = "declare"
  <2>1. PICK x \in CellsIn(known) : i = Call(<<"@llvm.dbg.declare", x>>)
    BY <1>10, Z3 DEF Fitting, ValuesIn, CellsIn
  <2>2. i.op = "call" /\ i.res = NoName /\ i.args = <<"@llvm.dbg.declare", x>>
    BY <2>1, CallIs
  <2>3. Len(i.args) = 2 /\ DOMAIN i.args = 1..2 /\ i.args[1] = "@llvm.dbg.declare" /\ i.args[2] = x
    BY <2>2
  <2>4. QED BY <2>1, <2>2, <2>3 DEF Shaped
<1>11. QED BY <1>1, <1>2, <1>3, <1>4, <1>5, <1>6, <1>7, <1>8, <1>9, <1>10 DEF AllOps

Apt(known, i) ==
    /\ Shaped(known, i)
    /\ i.res # NoName => i.res \in DOMAIN known \cap Locals /\ known[i.res] = Made(known, i)

LEMMA FitsIsApt == ASSUME NEW known, NEW i, Fits(known, i) PROVE Apt(known, i)
BY FittingIsShaped DEF Fits, Apt

InstsOf(f) == UNION {ToSet(f.blocks[b]) : b \in DOMAIN f.blocks}

LEMMA InstsAre ==
    ASSUME NEW f, NEW i
    PROVE  i \in InstsOf(f) <=> \E b \in DOMAIN f.blocks : \E k \in DOMAIN f.blocks[b] : i = f.blocks[b][k]
BY DEF InstsOf, ToSet

IsBlock(known, blocks, s) ==
    /\ Len(s) \in Nat \ {0} /\ DOMAIN s = 1..Len(s)
    /\ \A k \in 1..(Len(s) - 1) : Apt(known, s[k])
    /\ Ends(known, blocks, s[Len(s)])

NamesIn(known) ==
    /\ DOMAIN known \subseteq DOMAIN TypeOfName \cup Locals
    /\ \A n \in DOMAIN known \cap DOMAIN TypeOfName : known[n] = TypeOfName[n]

Once(f) == \A i, j \in InstsOf(f) : i.res = j.res => i = j \/ i.res = NoName

WellTyped(f, known) ==
    /\ DOMAIN f = {"params", "blocks"} /\ f.params = Params
    /\ Len(f.blocks) \in Nat \ {0} /\ DOMAIN f.blocks = 1..Len(f.blocks)
    /\ \A b \in DOMAIN f.blocks : IsBlock(known, DOMAIN f.blocks, f.blocks[b])
    /\ Once(f)
    /\ NamesIn(known)

LEMMA AppendIs ==
    ASSUME NEW s, NEW x, Len(s) \in Nat, DOMAIN s = 1..Len(s)
    PROVE  /\ Len(s \o <<x>>) = Len(s) + 1 /\ DOMAIN (s \o <<x>>) = 1..(Len(s) + 1)
           /\ \A k \in 1..Len(s) : (s \o <<x>>)[k] = s[k]
           /\ (s \o <<x>>)[Len(s) + 1] = x
OBVIOUS

LEMMA BegunIsTyped ==
    ASSUME NEW part, IsPart(part), NEW shape \in part.shapes
    PROVE  WellTyped(Begun(part, shape), part.types)
<1> DEFINE f == Begun(part, shape)
           known == part.types
           p == part.prologue
<1>1. DOMAIN f = {"params", "blocks"} /\ f.params = Params /\ DOMAIN f.blocks = DOMAIN shape
  BY DEF Begun
<1>2. \A b \in DOMAIN shape : f.blocks[b] = IF b = 1 THEN p \o <<shape[b]>> ELSE <<shape[b]>>
  BY DEF Begun
<1> HIDE DEF f
<1>3. /\ NamesIn(known)
      /\ Len(p) \in Nat /\ DOMAIN p = 1..Len(p)
      /\ \A k \in DOMAIN p : Fits(known, p[k])
      /\ \A j, k \in DOMAIN p : p[j].res = p[k].res => j = k \/ p[j].res = NoName
      /\ Len(shape) \in Nat \ {0} /\ DOMAIN shape = 1..Len(shape)
      /\ \A b \in DOMAIN shape : Ends(known, DOMAIN shape, shape[b])
  BY DEF IsPart, NamesIn
<1> HIDE DEF known, p
<1>4. Len(f.blocks) \in Nat \ {0} /\ DOMAIN f.blocks = 1..Len(f.blocks)
  BY <1>1, <1>3, LenIs
<1>5. ASSUME NEW b \in DOMAIN f.blocks
      PROVE  IsBlock(known, DOMAIN f.blocks, f.blocks[b])
  <2>1. CASE b = 1
    <3>1. f.blocks[b] = p \o <<shape[b]>>
      BY <1>1, <1>2, <2>1
    <3>2. /\ Len(f.blocks[b]) = Len(p) + 1 /\ DOMAIN f.blocks[b] = 1..(Len(p) + 1)
          /\ \A k \in 1..Len(p) : f.blocks[b][k] = p[k]
          /\ f.blocks[b][Len(p) + 1] = shape[b]
      BY <1>3, <3>1, AppendIs
    <3>3. \A k \in 1..Len(p) : Apt(known, p[k])
      BY <1>3, FitsIsApt
    <3>4. QED BY <1>1, <1>3, <3>2, <3>3 DEF IsBlock
  <2>2. CASE b # 1
    <3>1. f.blocks[b] = <<shape[b]>>
      BY <1>1, <1>2, <2>2
    <3>2. Len(f.blocks[b]) = 1 /\ DOMAIN f.blocks[b] = 1..1 /\ f.blocks[b][1] = shape[b]
      BY <3>1
    <3>3. QED BY <1>1, <1>3, <3>2 DEF IsBlock
  <2>3. QED BY <2>1, <2>2
<1>6. \A i \in InstsOf(f) : i.res = NoName \/ \E k \in DOMAIN p : i = p[k]
  <2> SUFFICES ASSUME NEW b \in DOMAIN f.blocks, NEW k \in DOMAIN f.blocks[b]
               PROVE  LET i == f.blocks[b][k] IN i.res = NoName \/ \E j \in DOMAIN p : i = p[j]
    BY InstsAre
  <2>0. shape[b].res = NoName
    BY <1>1, <1>3 DEF Ends
  <2>1. CASE b = 1
    <3>1. f.blocks[b] = p \o <<shape[b]>>
      BY <1>1, <1>2, <2>1
    <3>2. /\ Len(f.blocks[b]) = Len(p) + 1 /\ DOMAIN f.blocks[b] = 1..(Len(p) + 1)
          /\ \A j \in 1..Len(p) : f.blocks[b][j] = p[j]
          /\ f.blocks[b][Len(p) + 1] = shape[b]
      BY <1>3, <3>1, AppendIs
    <3>3. QED BY <1>3, <2>0, <3>2
  <2>2. CASE b # 1
    <3>1. f.blocks[b] = <<shape[b]>>
      BY <1>1, <1>2, <2>2
    <3>2. DOMAIN f.blocks[b] = 1..1 /\ f.blocks[b][1] = shape[b]
      BY <3>1
    <3>3. QED BY <2>0, <3>2
  <2>3. QED BY <2>1, <2>2
<1>7. Once(f)
  BY <1>3, <1>6 DEF Once
<1>8. QED BY <1>1, <1>3, <1>4, <1>5, <1>7 DEF WellTyped, f, known

\* A new name changes nothing for what is written.
LEMMA ShapedStays ==
    ASSUME NEW known, NEW n, n \notin DOMAIN known, NEW t, NEW i, Shaped(known, i)
    PROVE  /\ Shaped(Put(known, n, t), i)
           /\ i.res # NoName => Made(Put(known, n, t), i) = Made(known, i)
<1> DEFINE more == Put(known, n, t)
<1>1. DOMAIN known \subseteq DOMAIN more /\ \A x \in DOMAIN known : more[x] = known[x]
  BY DEF Put
<1> HIDE DEF more
<1>2. \A type : Typed(known, type) \subseteq Typed(more, type)
  BY <1>1 DEF Typed
<1>3. Shaped(more, i)
  BY <1>2 DEF Shaped, ValuesIn, CellsIn
<1>4. ASSUME i.res # NoName PROVE Made(more, i) = Made(known, i)
  <2>1. i.op = "alloca" \/ i.args[1] \in DOMAIN known
    BY <1>4 DEF Shaped, ValuesIn, CellsIn, Typed
  <2>2. i.op = "alloca" \/ more[i.args[1]] = known[i.args[1]]
    BY <1>1, <2>1
  <2>3. QED BY <2>2 DEF Made
<1>5. QED BY <1>3, <1>4 DEF more

LEMMA AptStays ==
    ASSUME NEW known, NEW n, n \notin DOMAIN known, NEW t, NEW i, Apt(known, i)
    PROVE  Apt(Put(known, n, t), i)
<1>1. DOMAIN known \subseteq DOMAIN Put(known, n, t) /\ \A x \in DOMAIN known : Put(known, n, t)[x] = known[x]
  BY DEF Put
<1>2. QED BY <1>1, ShapedStays DEF Apt

LEMMA EndsStays ==
    ASSUME NEW known, NEW n, n \notin DOMAIN known, NEW t, NEW blocks, NEW i, Ends(known, blocks, i)
    PROVE  Ends(Put(known, n, t), blocks, i)
<1> DEFINE more == Put(known, n, t)
<1>1. DOMAIN known \subseteq DOMAIN more /\ \A x \in DOMAIN known : more[x] = known[x]
  BY DEF Put
<1> HIDE DEF more
<1>2. \A type : Typed(known, type) \subseteq Typed(more, type)
  BY <1>1 DEF Typed
<1>3. QED BY <1>2 DEF Ends, more

LEMMA TypedStays ==
    ASSUME NEW f, NEW known, WellTyped(f, known), NEW n \in Locals, n \notin DOMAIN known, NEW t
    PROVE  WellTyped(f, Put(known, n, t))
<1> DEFINE more == Put(known, n, t)
<1>1. NamesIn(more)
  <2>1. n \notin DOMAIN TypeOfName
    BY DEF TypeOfName, Locals, Globals, Params, ToSet
  <2>2. DOMAIN more = DOMAIN known \cup {n} /\ \A x \in DOMAIN known : more[x] = known[x]
    BY DEF Put
  <2>3. QED BY <2>1, <2>2 DEF NamesIn, WellTyped
<1>2. \A b \in DOMAIN f.blocks : IsBlock(more, DOMAIN f.blocks, f.blocks[b])
  BY AptStays, EndsStays DEF WellTyped, IsBlock
<1>3. QED BY <1>1, <1>2 DEF WellTyped

\* An instruction more, before the last one of a block.
Inserted(s, i) == Front(s) \o <<i, Last(s)>>

LEMMA InsertIs ==
    ASSUME NEW s, Len(s) \in Nat \ {0}, DOMAIN s = 1..Len(s), NEW i, NEW r, r = Inserted(s, i)
    PROVE  /\ Len(r) = Len(s) + 1 /\ DOMAIN r = 1..(Len(s) + 1)
           /\ \A k \in 1..(Len(s) - 1) : r[k] = s[k]
           /\ r[Len(s)] = i /\ r[Len(s) + 1] = s[Len(s)]
<1> DEFINE S == {s[k] : k \in 1..Len(s)} \cup {i, Last(s)}
           front == Front(s)
           two == <<i, Last(s)>>
<1>1. front = SubSeq(s, 1, Len(s) - 1)
  BY DEF Front
<1>2. \A k \in 1..(Len(s) - 1) : s[k] \in S
  OBVIOUS
<1>3. two \in Seq(S) /\ Len(two) = 2 /\ two[1] = i /\ two[2] = s[Len(s)]
  BY DEF Last
<1> HIDE DEF front, two, S
<1>4. /\ front \in Seq(S) /\ Len(front) = IF 1 <= Len(s) - 1 THEN Len(s) - 1 - 1 + 1 ELSE 0
      /\ \A k \in 1..(Len(s) - 1 - 1 + 1) : front[k] = s[1 + k - 1]
  BY <1>1, <1>2, SubSeqProperties
<1>5. Len(front) = Len(s) - 1 /\ \A k \in 1..(Len(s) - 1) : front[k] = s[k]
  <2>1. Len(front) = Len(s) - 1
    <3>1. CASE Len(s) = 1 BY <1>4, <3>1
    <3>2. CASE Len(s) # 1
      <4>1. 1 <= Len(s) - 1 /\ Len(s) - 1 - 1 + 1 = Len(s) - 1
        BY <3>2
      <4>2. QED BY <1>4, <4>1
    <3>3. QED BY <3>1, <3>2
  <2>2. ASSUME NEW k \in 1..(Len(s) - 1) PROVE front[k] = s[k]
    <3>1. k \in 1..(Len(s) - 1 - 1 + 1) /\ 1 + k - 1 = k
      OBVIOUS
    <3>2. front[k] = s[1 + k - 1]
      BY <1>4, <3>1
    <3>3. QED BY <3>1, <3>2
  <2>3. QED BY <2>1, <2>2
<1>6. /\ r \in Seq(S) /\ Len(r) = Len(front) + Len(two)
      /\ \A k \in 1..(Len(front) + Len(two)) : r[k] = IF k <= Len(front) THEN front[k] ELSE two[k - Len(front)]
  BY <1>3, <1>4, ConcatProperties DEF front, two, Inserted
<1>7. Len(r) = Len(s) + 1 /\ \A k \in 1..(Len(s) + 1) : r[k] = IF k <= Len(s) - 1 THEN s[k] ELSE two[k - (Len(s) - 1)]
  BY <1>3, <1>5, <1>6
<1>8. DOMAIN r = 1..(Len(s) + 1)
  BY <1>6, <1>7, LenProperties
<1>9. ASSUME NEW k \in 1..(Len(s) - 1) PROVE r[k] = s[k]
  <2>1. k \in 1..(Len(s) + 1) /\ k <= Len(s) - 1
    OBVIOUS
  <2>2. QED BY <1>7, <2>1
<1>10. r[Len(s)] = i
  <2>1. Len(s) \in 1..(Len(s) + 1) /\ ~(Len(s) <= Len(s) - 1) /\ Len(s) - (Len(s) - 1) = 1
    OBVIOUS
  <2>2. r[Len(s)] = two[Len(s) - (Len(s) - 1)]
    BY <1>7, <2>1
  <2>3. QED BY <1>3, <2>1, <2>2
<1>11. r[Len(s) + 1] = s[Len(s)]
  <2>1. Len(s) + 1 \in 1..(Len(s) + 1) /\ ~(Len(s) + 1 <= Len(s) - 1) /\ Len(s) + 1 - (Len(s) - 1) = 2
    OBVIOUS
  <2>2. r[Len(s) + 1] = two[Len(s) + 1 - (Len(s) - 1)]
    BY <1>7, <2>1
  <2>3. QED BY <1>3, <2>1, <2>2
<1>12. QED BY <1>7, <1>8, <1>9, <1>10, <1>11

\* What is written next fits, with a name of its own.
LEMMA InsertInBlock ==
    ASSUME NEW known, NEW blocks, NEW s, IsBlock(known, blocks, s), NEW i, Apt(known, i), NEW r, r = Inserted(s, i)
    PROVE  IsBlock(known, blocks, r) /\ \A k \in DOMAIN r : r[k] = i \/ \E j \in DOMAIN s : r[k] = s[j]
<1>1. PICK n \in Nat \ {0} : n = Len(s)
  BY DEF IsBlock
<1>2. DOMAIN s = 1..n /\ (\A k \in 1..(n - 1) : Apt(known, s[k])) /\ Ends(known, blocks, s[n])
  BY <1>1 DEF IsBlock
<1>3. /\ Len(r) = n + 1 /\ DOMAIN r = 1..(n + 1)
      /\ \A k \in 1..(n - 1) : r[k] = s[k]
      /\ r[n] = i /\ r[n + 1] = s[n]
  <2>1. Len(s) \in Nat \ {0} /\ DOMAIN s = 1..Len(s)
    BY <1>1, <1>2
  <2>2. /\ Len(r) = Len(s) + 1 /\ DOMAIN r = 1..(Len(s) + 1)
        /\ \A k \in 1..(Len(s) - 1) : r[k] = s[k]
        /\ r[Len(s)] = i /\ r[Len(s) + 1] = s[Len(s)]
    BY <2>1, InsertIs
  <2>3. QED BY <1>1, <2>2
<1>4. ASSUME NEW k \in 1..n PROVE Apt(known, r[k])
  <2>1. CASE k = n BY <1>3, <2>1
  <2>2. CASE k # n
    <3>1. k \in 1..(n - 1)
      BY <2>2
    <3>2. QED BY <1>2, <1>3, <3>1
  <2>3. QED BY <2>1, <2>2
<1>5. IsBlock(known, blocks, r)
  <2>1. n + 1 \in Nat \ {0} /\ (n + 1) - 1 = n
    OBVIOUS
  <2>2. QED BY <1>2, <1>3, <1>4, <2>1 DEF IsBlock
<1>6. ASSUME NEW k \in DOMAIN r PROVE r[k] = i \/ \E j \in DOMAIN s : r[k] = s[j]
  <2>1. k = n \/ k = n + 1 \/ k \in 1..(n - 1)
    BY <1>3
  <2>2. n \in DOMAIN s /\ (k \in 1..(n - 1) => k \in DOMAIN s)
    BY <1>2
  <2>3. QED BY <1>3, <2>1, <2>2
<1>7. QED BY <1>5, <1>6

LEMMA InsertTyped ==
    ASSUME NEW f, NEW known, WellTyped(f, known), NEW b \in DOMAIN f.blocks, NEW i, Apt(known, i),
           \A j \in InstsOf(f) : j.res = i.res => i.res = NoName,
           NEW g, DOMAIN g = {"params", "blocks"}, g.params = f.params,
           g.blocks = [f.blocks EXCEPT ![b] = Inserted(@, i)]
    PROVE  WellTyped(g, known)
<1> DEFINE s == f.blocks[b]
           r == Inserted(s, i)
<1>1. IsBlock(known, DOMAIN f.blocks, s)
  BY DEF WellTyped
<1>2. DOMAIN g.blocks = DOMAIN f.blocks /\ g.blocks[b] = r /\ \A c \in DOMAIN f.blocks : c # b => g.blocks[c] = f.blocks[c]
  OBVIOUS
<1>3. r = Inserted(s, i)
  OBVIOUS
<1> HIDE DEF s, r
<1>5. IsBlock(known, DOMAIN f.blocks, r) /\ \A k \in DOMAIN r : r[k] = i \/ \E j \in DOMAIN s : r[k] = s[j]
  BY <1>1, <1>3, InsertInBlock
<1>6. \A c \in DOMAIN g.blocks : IsBlock(known, DOMAIN g.blocks, g.blocks[c])
  BY <1>2, <1>5 DEF WellTyped
<1>7. Len(g.blocks) \in Nat \ {0} /\ DOMAIN g.blocks = 1..Len(g.blocks)
  <2>1. DOMAIN f.blocks = 1..Len(f.blocks) /\ Len(f.blocks) \in Nat \ {0}
    BY DEF WellTyped
  <2>2. DOMAIN g.blocks = 1..Len(f.blocks)
    BY <1>2, <2>1
  <2>3. QED BY <2>1, <2>2, LenIs
<1>8. ASSUME NEW j \in InstsOf(g) PROVE j = i \/ j \in InstsOf(f)
  <2>1. PICK c \in DOMAIN g.blocks : \E k \in DOMAIN g.blocks[c] : j = g.blocks[c][k]
    BY InstsAre
  <2>2. PICK k \in DOMAIN g.blocks[c] : j = g.blocks[c][k]
    BY <2>1
  <2>3. CASE c # b
    BY <1>2, <2>2, <2>3, InstsAre
  <2>4. CASE c = b
    <3>1. k \in DOMAIN r /\ j = r[k]
      BY <1>2, <2>2, <2>4
    <3>2. j = i \/ \E m \in DOMAIN s : j = s[m]
      BY <1>5, <3>1
    <3>3. QED BY <3>2, InstsAre DEF s
  <2>5. QED BY <2>3, <2>4
<1>9. Once(g)
  BY <1>8 DEF Once, WellTyped
<1>10. QED BY <1>2, <1>6, <1>7, <1>9 DEF WellTyped

Writes(f, known, op, new, i, b, g, more) ==
    /\ WellTyped(f, known) /\ new \in Locals /\ new \notin DOMAIN known
    /\ op \in AllOps /\ i \in Fitting(known, op, new)
    /\ DOMAIN g = {"params", "blocks"} /\ g.params = f.params
    /\ g.blocks = [f.blocks EXCEPT ![b] = Inserted(@, i)]
    /\ more = IF i.res = NoName THEN known ELSE Put(known, i.res, Made(known, i))

LEMMA WriteTyped ==
    ASSUME NEW f, NEW known, NEW op, NEW new, NEW i, NEW b, NEW g, NEW more, Writes(f, known, op, new, i, b, g, more)
    PROVE  WellTyped(g, more)
<1>0. /\ WellTyped(f, known) /\ new \in Locals /\ new \notin DOMAIN known
      /\ op \in AllOps /\ i \in Fitting(known, op, new)
      /\ DOMAIN g = {"params", "blocks"} /\ g.params = f.params
      /\ g.blocks = [f.blocks EXCEPT ![b] = Inserted(@, i)]
      /\ more = IF i.res = NoName THEN known ELSE Put(known, i.res, Made(known, i))
  BY DEF Writes
<1>1. Shaped(known, i) /\ i.res \in {new, NoName}
  BY <1>0, FittingIsShaped
<1>2. Apt(more, i) /\ WellTyped(f, more)
  <2>1. CASE i.res = NoName
    BY <1>0, <1>1, <2>1 DEF Apt
  <2>2. CASE i.res # NoName
    <3>1. more = Put(known, new, Made(known, i)) /\ i.res = new
      BY <1>0, <1>1, <2>2
    <3>2. Shaped(more, i) /\ Made(more, i) = Made(known, i)
      BY <1>1, <2>2, <3>1, <1>0, ShapedStays
    <3>3. new \in DOMAIN more /\ more[new] = Made(known, i)
      BY <3>1 DEF Put
    <3>4. WellTyped(f, more)
      BY <1>0, <3>1, TypedStays
    <3>5. QED BY <1>0, <3>1, <3>2, <3>3, <3>4 DEF Apt
  <2>3. QED BY <2>1, <2>2
<1>3. \A j \in InstsOf(f) : j.res = NoName \/ j.res \in DOMAIN known
  <2> SUFFICES ASSUME NEW c \in DOMAIN f.blocks, NEW k \in DOMAIN f.blocks[c]
               PROVE  LET j == f.blocks[c][k] IN j.res = NoName \/ j.res \in DOMAIN known
    BY InstsAre
  <2>1. IsBlock(known, DOMAIN f.blocks, f.blocks[c])
    BY <1>0 DEF WellTyped
  <2>2. CASE k = Len(f.blocks[c])
    BY <2>1, <2>2 DEF IsBlock, Ends
  <2>3. CASE k # Len(f.blocks[c])
    <3>1. k \in 1..(Len(f.blocks[c]) - 1)
      BY <2>1, <2>3 DEF IsBlock
    <3>2. QED BY <2>1, <3>1 DEF IsBlock, Apt
  <2>4. QED BY <2>2, <2>3
<1>4. CASE b \in DOMAIN f.blocks
  <2>1. \A j \in InstsOf(f) : j.res = i.res => i.res = NoName
    BY <1>0, <1>1, <1>3
  <2>2. QED BY <1>2, <1>4, <2>1, <1>0, InsertTyped
<1>5. CASE b \notin DOMAIN f.blocks
  <2>1. DOMAIN g.blocks = DOMAIN f.blocks /\ \A c \in DOMAIN f.blocks : g.blocks[c] = f.blocks[c]
    BY <1>0, <1>5
  <2>2. ASSUME NEW j \in InstsOf(g) PROVE j \in InstsOf(f)
    <3>1. PICK c \in DOMAIN g.blocks : \E k \in DOMAIN g.blocks[c] : j = g.blocks[c][k]
      BY InstsAre
    <3>2. QED BY <2>1, <3>1, InstsAre
  <2>3. Once(g)
    BY <1>0, <1>2, <2>2 DEF WellTyped, Once
  <2>4. \A c \in DOMAIN g.blocks : IsBlock(more, DOMAIN g.blocks, g.blocks[c])
    BY <1>0, <1>2, <2>1 DEF WellTyped
  <2>5. Len(g.blocks) \in Nat \ {0} /\ DOMAIN g.blocks = 1..Len(g.blocks)
    <3>1. DOMAIN f.blocks = 1..Len(f.blocks) /\ Len(f.blocks) \in Nat \ {0}
      BY <1>0 DEF WellTyped
    <3>2. QED BY <2>1, <3>1, LenIs
  <2>6. QED BY <1>0, <1>2, <2>3, <2>4, <2>5 DEF WellTyped
<1>6. QED BY <1>4, <1>5

\* The functions: each is well typed, the one that is written with the names it may
\* use; nothing has run before all are.
IsTyped(f) == \E known : WellTyped(f, known)
TextInv ==
    /\ scenario \in DOMAIN Scenarios
    /\ role = "clear" => Scenarios[scenario].clear # <<>>
    /\ "register" \in DOMAIN text /\ \A r \in DOMAIN text : IsTyped(text[r])
    /\ role # "client" =>
          /\ role \in {"register", "clear"} /\ role \in DOMAIN text /\ WellTyped(text[role], types)
          /\ frame = <<>> /\ memory = AtFirst /\ given = {}
    /\ role = "client" => flows = [r \in DOMAIN text |-> FlowOf(Globals, text[r])]

LEMMA TextInit == ASSUME Init PROVE TextInv
<1>1. PICK n \in DOMAIN Scenarios : \E shape \in Scenarios[n].register.shapes :
          /\ scenario = n /\ role = "register" /\ text = [q \in {"register"} |-> Begun(Scenarios[n].register, shape)]
          /\ types = Scenarios[n].register.types
          /\ frame = <<>> /\ given = {} /\ memory = AtFirst
  BY DEF Init
<1>2. PICK shape \in Scenarios[n].register.shapes :
          text = [q \in {"register"} |-> Begun(Scenarios[n].register, shape)]
  BY <1>1
<1>3. IsPart(Scenarios[n].register)
  BY HandOffAssumption
<1>4. WellTyped(Begun(Scenarios[n].register, shape), Scenarios[n].register.types)
  BY <1>3, BegunIsTyped
<1>5. DOMAIN text = {"register"} /\ text["register"] = Begun(Scenarios[n].register, shape)
  BY <1>2
<1>6. WellTyped(text["register"], types)
  BY <1>1, <1>4, <1>5
<1>7. QED BY <1>1, <1>5, <1>6 DEF TextInv, IsTyped

LEMMA TextNext == ASSUME TextInv, [Next]_vars PROVE TextInv'
<1>0. CASE UNCHANGED vars
  BY <1>0 DEF TextInv, vars, AtFirst
<1>1. CASE Write
  <2>1. role \in {"register", "clear"} /\ role \in DOMAIN text /\ WellTyped(text[role], types)
        /\ frame = <<>> /\ memory = AtFirst /\ given = {}
    BY <1>1 DEF Write, TextInv
  <2>2. UNCHANGED <<scenario, role, frame, memory, given>>
    BY <1>1 DEF Write, client
  <2>3. PICK i \in UNION {Fitting(types, op, NewName) : op \in Part.ops} :
          /\ text' = [text EXCEPT ![role].blocks[Head(todo)] = Front(@) \o <<i, Last(@)>>]
          /\ types' = IF i.res = NoName THEN types ELSE Put(types, i.res, Made(types, i))
    BY <1>1 DEF Write
  <2>4. PICK op \in Part.ops : i \in Fitting(types, op, NewName)
    OBVIOUS
  <2>5. NewName \in Locals /\ NewName \notin DOMAIN types
    BY <1>1 DEF Write, NewName
  <2>6. op \in AllOps
    <3>1. IsPart(Part)
      BY <2>1, HandOffAssumption DEF Part, TextInv
    <3>2. QED BY <3>1 DEF IsPart
  <2>7. text' = [text EXCEPT ![role].blocks[Head(todo)] = Inserted(@, i)]
    BY <2>3 DEF Inserted
  <2> DEFINE g == text'[role]
             f == text[role]
  <2>8. /\ DOMAIN text' = DOMAIN text /\ (\A r \in DOMAIN text : r # role => text'[r] = text[r])
        /\ g = [f EXCEPT !.blocks[Head(todo)] = Inserted(@, i)]
    BY <2>1, <2>7
  <2>9. DOMAIN f = {"params", "blocks"}
    BY <2>1 DEF WellTyped
  <2> HIDE DEF g, f
  <2>10. /\ DOMAIN g = {"params", "blocks"} /\ g.params = f.params
         /\ g.blocks = [f.blocks EXCEPT ![Head(todo)] = Inserted(@, i)]
    BY <2>8, <2>9
  <2>11. WellTyped(g, types')
    <3>1. WellTyped(f, types)
      BY <2>1 DEF f
    <3>2. types' = IF i.res = NoName THEN types ELSE Put(types, i.res, Made(types, i))
      BY <2>3
    <3>3. Writes(f, types, op, NewName, i, Head(todo), g, types')
      BY <2>4, <2>5, <2>6, <2>10, <3>1, <3>2 DEF Writes
    <3>4. QED BY <3>3, WriteTyped
  <2>12. IsTyped(g)
    BY <2>11 DEF IsTyped
  <2>13. \A r \in DOMAIN text' : IsTyped(text'[r])
    BY <2>8, <2>12 DEF TextInv, g
  <2>14. QED BY <2>1, <2>2, <2>8, <2>11, <2>13 DEF TextInv, g, AtFirst
<1>2. CASE NextBlock
  BY <1>2 DEF TextInv, NextBlock, client, AtFirst
<1>3. CASE NextFunction
  <2> DEFINE part == Scenarios[scenario].clear[1]
  <2>1. /\ role = "register" /\ role' = "clear" /\ Scenarios[scenario].clear # <<>>
        /\ UNCHANGED <<scenario, frame, memory, given>> /\ types' = part.types
    BY <1>3 DEF NextFunction, client
  <2>2. PICK shape \in part.shapes : text' = Put(text, "clear", Begun(part, shape))
    BY <1>3 DEF NextFunction
  <2>3. IsPart(part)
    BY <2>1, HandOffAssumption DEF TextInv
  <2> HIDE DEF part
  <2>4. WellTyped(Begun(part, shape), part.types)
    BY <2>3, BegunIsTyped
  <2>5. /\ DOMAIN text' = DOMAIN text \cup {"clear"} /\ text'["clear"] = Begun(part, shape)
        /\ \A x \in DOMAIN text : x # "clear" => text'[x] = text[x]
    BY <2>2 DEF Put
  <2>6. WellTyped(text'["clear"], types') /\ IsTyped(text'["clear"])
    BY <2>1, <2>4, <2>5 DEF IsTyped
  <2>7. \A r \in DOMAIN text' : IsTyped(text'[r])
    BY <2>5, <2>6 DEF TextInv
  <2>8. QED BY <2>1, <2>5, <2>6, <2>7 DEF TextInv, AtFirst
<1>4. CASE Analysed
  <2>1. UNCHANGED <<scenario, text, types>> /\ role' = "client" /\ flows' = [r \in DOMAIN text |-> FlowOf(Globals, text[r])]
    BY <1>4 DEF Analysed
  <2>2. QED BY <2>1 DEF TextInv
<1>5. CASE Register \/ DropGuard \/ LeakGuard \/ Fire \/ Step \/ \E x \in Rust!Subjects : End(x)
  <2>1. UNCHANGED written
    BY <1>5 DEF Register, DropGuard, LeakGuard, Fire, Step, End
  <2>2. role = "client"
    BY <1>5 DEF Register, DropGuard, LeakGuard, Fire, Step, End, TextInv
  <2>3. QED BY <2>1, <2>2 DEF written, TextInv
<1>6. QED BY <1>0, <1>1, <1>2, <1>3, <1>4, <1>5 DEF Next

\* All instructions of a function, in the order of their blocks.
Row(f, b) == [i \in DOMAIN f.blocks[b] |-> [inst |-> f.blocks[b][i], block |-> b]]
Rows(f, n, u) == u = [b \in 0..n |-> IF b = 0 THEN <<>> ELSE u[b - 1] \o Row(f, b)]

LEMMA RowsAre == ASSUME NEW f, NEW n \in Nat PROVE \E u : Rows(f, n, u)
<1> DEFINE T == {m \in Nat : \E u : Rows(f, m, u)}
<1>1. 0 \in T
  <2> DEFINE u == [b \in 0..0 |-> <<>>]
  <2>1. Rows(f, 0, u)
    BY DEF Rows
  <2>2. QED BY <2>1
<1>2. \A m \in Nat : m < n /\ m \in T => m + 1 \in T
  <2> SUFFICES ASSUME NEW m \in Nat, m \in T PROVE m + 1 \in T
    OBVIOUS
  <2>1. PICK u : Rows(f, m, u)
    OBVIOUS
  <2> DEFINE last == u[m] \o Row(f, m + 1)
             v == [b \in 0..(m + 1) |-> IF b = m + 1 THEN last ELSE u[b]]
  <2>2. \A b \in 0..m : u[b] = IF b = 0 THEN <<>> ELSE u[b - 1] \o Row(f, b)
    BY <2>1 DEF Rows
  <2>3. ASSUME NEW b \in 0..(m + 1) PROVE v[b] = IF b = 0 THEN <<>> ELSE v[b - 1] \o Row(f, b)
    <3>1. CASE b = m + 1
      <4>1. v[b] = last /\ b # 0 /\ b - 1 = m /\ v[m] = u[m]
        BY <3>1
      <4>2. QED BY <3>1, <4>1
    <3>2. CASE b # m + 1
      <4>1. b \in 0..m /\ v[b] = u[b]
        BY <3>2
      <4>2. b # 0 => b - 1 \in 0..(m + 1) /\ b - 1 # m + 1
        BY <4>1
      <4>3. b # 0 => v[b - 1] = u[b - 1]
        BY <4>2
      <4>4. QED BY <2>2, <4>1, <4>3
    <3>3. QED BY <3>1, <3>2
  <2>4. v = [b \in 0..(m + 1) |-> v[b]]
    OBVIOUS
  <2> HIDE DEF v
  <2>5. Rows(f, m + 1, v)
    BY <2>3, <2>4 DEF Rows
  <2>6. QED BY <2>5
<1> HIDE DEF T
<1>3. 0..n \subseteq T
  BY <1>1, <1>2, Upwards
<1>4. n \in T
  BY <1>3
<1>5. QED BY <1>4 DEF T

\* a is the sequence of them.
IsPlace(f, e) == e.block \in DOMAIN f.blocks /\ \E j \in DOMAIN f.blocks[e.block] : e.inst = f.blocks[e.block][j]
Lists(a, f) ==
    /\ Len(a) \in Nat /\ DOMAIN a = 1..Len(a)
    /\ \A k \in DOMAIN a : a[k].inst \in InstsOf(f) /\ IsPlace(f, a[k])
    /\ \A i \in InstsOf(f) : \E k \in DOMAIN a : a[k].inst = i

LEMMA AllInstsAre == ASSUME NEW f, IsTyped(f) PROVE Lists(AllInsts(f), f)
<1>1. PICK known : WellTyped(f, known)
  BY DEF IsTyped
<1>2. PICK n \in Nat : n = Len(f.blocks) /\ DOMAIN f.blocks = 1..n
  BY <1>1 DEF WellTyped
<1> DEFINE u == CHOOSE u : Rows(f, n, u)
           S == {e \in [inst : InstsOf(f), block : Nat] : IsPlace(f, e)}
<1>3. AllInsts(f) = u[n]
  BY <1>2 DEF AllInsts, Rows, Row
<1>4. Rows(f, n, u)
  BY RowsAre
<1> HIDE DEF u
<1>a. \A b \in 0..n : u[b] = IF b = 0 THEN <<>> ELSE u[b - 1] \o Row(f, b)
  BY <1>4 DEF Rows
<1>5. u[0] = <<>> /\ \A b \in 1..n : u[b] = u[b - 1] \o Row(f, b)
  <2>1. 0 \in 0..n /\ \A b \in 1..n : b \in 0..n /\ b # 0
    OBVIOUS
  <2>2. QED BY <1>a, <2>1
<1>6. ASSUME NEW b \in 1..n
      PROVE  /\ Row(f, b) \in Seq(S)
             /\ \A k \in DOMAIN f.blocks[b] : k \in 1..Len(Row(f, b)) /\ Row(f, b)[k].inst = f.blocks[b][k]
  <2>1. PICK m \in Nat : DOMAIN f.blocks[b] = 1..m
    BY <1>1, <1>2 DEF WellTyped, IsBlock
  <2>2. \A k \in 1..m : f.blocks[b][k] \in InstsOf(f)
    BY <1>2, <2>1, InstsAre
  <2>3. Row(f, b) = [i \in 1..m |-> [inst |-> f.blocks[b][i], block |-> b]]
    BY <2>1 DEF Row
  <2>4. Row(f, b) \in [1..m -> S]
    <3>1. ASSUME NEW k \in 1..m PROVE Row(f, b)[k] \in S
      <4> DEFINE e == Row(f, b)[k]
      <4>1. e = [inst |-> f.blocks[b][k], block |-> b]
        BY <2>3
      <4>2. e \in [inst : InstsOf(f), block : Nat] /\ e.inst = f.blocks[b][k] /\ e.block = b
        BY <2>2, <4>1
      <4> HIDE DEF e
      <4>3. IsPlace(f, e)
        BY <1>2, <2>1, <4>2 DEF IsPlace
      <4>4. QED BY <4>2, <4>3 DEF e
    <3> HIDE DEF S
    <3>2. QED BY <2>3, <3>1
  <2> HIDE DEF S
  <2>a. Row(f, b) \in Seq(S)
    BY <2>4, SeqDef
  <2>5. Len(Row(f, b)) = m
    <3>1. DOMAIN Row(f, b) = 1..m
      BY <2>4
    <3>2. QED BY <3>1, LenIs
  <2>6. QED BY <2>1, <2>3, <2>a, <2>5
<1> HIDE DEF S
<1> DEFINE T == {b \in Nat : b <= n =>
                    /\ u[b] \in Seq(S)
                    /\ \A c \in 1..b : \A k \in DOMAIN f.blocks[c] : \E j \in 1..Len(u[b]) : u[b][j].inst = f.blocks[c][k]}
<1>7. 0 \in T
  <2>1. u[0] \in Seq(S)
    BY <1>5
  <2>2. 1..0 = {}
    OBVIOUS
  <2>3. QED BY <2>1, <2>2
<1>8. \A b \in Nat : b < n /\ b \in T => b + 1 \in T
  <2> SUFFICES ASSUME NEW b \in Nat, b < n, b \in T PROVE b + 1 \in T
    OBVIOUS
  <2> DEFINE d == b + 1
  <2>1. u[b] \in Seq(S) /\ \A c \in 1..b : \A k \in DOMAIN f.blocks[c] : \E j \in 1..Len(u[b]) : u[b][j].inst = f.blocks[c][k]
    OBVIOUS
  <2>2. d \in 1..n /\ d - 1 = b
    OBVIOUS
  <2> HIDE DEF d, T
  <2>3. u[d] = u[b] \o Row(f, d)
    BY <1>5, <2>2
  <2>4. /\ Row(f, d) \in Seq(S)
        /\ \A k \in DOMAIN f.blocks[d] : k \in 1..Len(Row(f, d)) /\ Row(f, d)[k].inst = f.blocks[d][k]
    BY <1>6, <2>2
  <2> DEFINE p == Len(u[b])
             q == Len(Row(f, d))
  <2>5. p \in Nat /\ q \in Nat
    BY <2>1, <2>4, LenProperties
  <2>6. /\ u[d] \in Seq(S) /\ Len(u[d]) = p + q
        /\ \A j \in 1..(p + q) : u[d][j] = IF j <= p THEN u[b][j] ELSE Row(f, d)[j - p]
    BY <2>1, <2>3, <2>4, ConcatProperties
  <2>7. ASSUME NEW c \in 1..d, NEW k \in DOMAIN f.blocks[c] PROVE \E j \in 1..Len(u[d]) : u[d][j].inst = f.blocks[c][k]
    <3>1. CASE c \in 1..b
      <4>1. PICK j \in 1..p : u[b][j].inst = f.blocks[c][k]
        BY <2>1, <3>1
      <4> HIDE DEF p, q
      <4>2. j \in 1..(p + q) /\ j <= p
        BY <2>5
      <4>3. QED BY <2>6, <4>1, <4>2
    <3>2. CASE c = d
      <4>1. k \in 1..q /\ Row(f, d)[k].inst = f.blocks[d][k]
        BY <2>4, <3>2
      <4> HIDE DEF p, q
      <4>2. p + k \in 1..(p + q) /\ ~(p + k <= p) /\ (p + k) - p = k
        BY <2>5, <4>1
      <4>3. u[d][p + k] = Row(f, d)[k]
        BY <2>6, <4>2
      <4>4. QED BY <2>6, <3>2, <4>1, <4>2, <4>3
    <3>3. QED BY <3>1, <3>2 DEF d
  <2>8. d \in T
    <3>1. d \in Nat
      BY DEF d
    <3>2. QED BY <2>6, <2>7, <3>1 DEF T
  <2>9. QED BY <2>8 DEF d
<1> HIDE DEF T
<1>9. n \in T
  <2>1. 0..n \subseteq T
    BY <1>7, <1>8, Upwards
  <2>2. QED BY <2>1
<1>10. /\ u[n] \in Seq(S)
       /\ \A c \in 1..n : \A k \in DOMAIN f.blocks[c] : \E j \in 1..Len(u[n]) : u[n][j].inst = f.blocks[c][k]
  BY <1>9 DEF T
<1>11. Len(u[n]) \in Nat /\ DOMAIN u[n] = 1..Len(u[n]) /\ \A k \in 1..Len(u[n]) : u[n][k] \in S
  BY <1>10, LenProperties
<1>12. \A k \in DOMAIN u[n] : u[n][k].inst \in InstsOf(f) /\ IsPlace(f, u[n][k])
  BY <1>11 DEF S
<1>13. ASSUME NEW i \in InstsOf(f) PROVE \E k \in DOMAIN u[n] : u[n][k].inst = i
  <2>1. PICK c \in 1..n : \E k \in DOMAIN f.blocks[c] : i = f.blocks[c][k]
    BY <1>2, InstsAre
  <2>2. QED BY <1>10, <1>11, <2>1
<1>14. QED BY <1>3, <1>11, <1>12, <1>13 DEF Lists

\* What is stored in an alloca that is stored to once, if it is only loaded from or
\* handed to an intrinsic otherwise (find_spill_allocas).
Spills(f) == FindSpillAllocas(AllInsts(f))
Mentions(i, a) == \E j \in DOMAIN i.args : i.args[j] = a
IsSpill(f, a) ==
    /\ \E i \in InstsOf(f) : i.op = "alloca" /\ i.res = a
    /\ \A i \in InstsOf(f) : Mentions(i, a) =>
          \/ i.op = "store" /\ i.args[2] = a /\ i.args[1] = Spills(f)[a]
          \/ i.op = "load"
          \/ i.op = "call" /\ IsNonEscapingIntrinsic(i.args[1])
    /\ \E i \in InstsOf(f) : i.op = "store" /\ i.args[1] = Spills(f)[a]

LEMMA SpillsAre == ASSUME NEW f, IsTyped(f), NEW a \in DOMAIN Spills(f) PROVE IsSpill(f, a)
<1> DEFINE insts == AllInsts(f)
           To == {k \in UsesOf(insts, a) : insts[k].inst.op = "store" /\ insts[k].inst.args[2] = a}
<1>1. Lists(insts, f)
  BY AllInstsAre
<1>2. \A k : k \in UsesOf(insts, a) <=> k \in DOMAIN insts /\ Mentions(insts[k].inst, a)
  BY DEF UsesOf, Mentions
<1>3. /\ \E k \in DOMAIN insts : insts[k].inst.op = "alloca" /\ insts[k].inst.res = a
      /\ \E k \in To : To = {k}
      /\ \A k \in UsesOf(insts, a) \ To :
            insts[k].inst.op = "load" \/ (insts[k].inst.op = "call" /\ IsNonEscapingIntrinsic(insts[k].inst.args[1]))
      /\ Spills(f)[a] = insts[Max(To)].inst.args[1]
  <2> DEFINE StoresTo(b) == {k \in UsesOf(insts, b) : insts[k].inst.op = "store" /\ insts[k].inst.args[2] = b}
             names == {insts[k].inst.res : k \in {j \in DOMAIN insts : insts[j].inst.op = "alloca"}}
             spills == {b \in names :
                     /\ \E k \in StoresTo(b) : StoresTo(b) = {k}
                     /\ \A k \in UsesOf(insts, b) \ StoresTo(b) :
                          \/ insts[k].inst.op = "load"
                          \/ insts[k].inst.op = "call" /\ IsNonEscapingIntrinsic(insts[k].inst.args[1])}
             what(b) == insts[Max(StoresTo(b))].inst.args[1]
  <2>1. Spills(f) = [b \in spills |-> what(b)]
    BY DEF Spills, FindSpillAllocas
  <2> HIDE DEF what
  <2>2. a \in spills /\ Spills(f)[a] = what(a)
    BY <2>1
  <2>3. Spills(f)[a] = insts[Max(To)].inst.args[1]
    BY <2>2 DEF what
  <2> HIDE DEF insts
  <2>4. QED BY <2>2, <2>3
<1>4. PICK k \in To : To = {k}
  BY <1>3
<1>5. k \in DOMAIN insts /\ k \in Nat
  BY <1>1, <1>2 DEF Lists
<1>6. Max(To) = k
  BY <1>4, <1>5 DEF Max
<1>7. Spills(f)[a] = insts[k].inst.args[1] /\ insts[k].inst.op = "store" /\ insts[k].inst.args[2] = a
  BY <1>3, <1>6
<1> HIDE DEF To, insts
<1>8. \A j \in DOMAIN insts : insts[j].inst \in InstsOf(f)
  BY <1>1 DEF Lists
<1>9. ASSUME NEW i \in InstsOf(f), Mentions(i, a)
      PROVE  \/ i.op = "store" /\ i.args[2] = a /\ i.args[1] = Spills(f)[a]
             \/ i.op = "load"
             \/ i.op = "call" /\ IsNonEscapingIntrinsic(i.args[1])
  <2>1. PICK j \in DOMAIN insts : insts[j].inst = i
    BY <1>1 DEF Lists
  <2>2. j \in UsesOf(insts, a)
    BY <1>2, <1>9, <2>1
  <2>3. j \notin To \/ j = k
    BY <1>4
  <2>4. QED BY <1>3, <1>7, <2>1, <2>2, <2>3
<1>10. \E i \in InstsOf(f) : i.op = "store" /\ i.args[1] = Spills(f)[a]
  BY <1>5, <1>7, <1>8
<1>11. QED BY <1>3, <1>8, <1>9, <1>10 DEF IsSpill

-----------------------------------------------------------------------------
(* What may be claimed of a name: that it is null, a parameter, points to  *)
(* a slot, to what is the caller's, or was read from a slot.  The claims   *)
(* are the least set that has those of the parameters, the globals and the *)
(* fields, that casts and loads from spills carry on, and that has of what *)
(* is loaded from a slot that it was.                                      *)

Field == <<"S", "f">>
SlotClaims == {<<"@g">>, <<"@h">>, Field}
OriginClaims == {NullOrigin, Param(1), Param(2), Param(3)}
LoadClaims == {SlotLoad(s) : s \in SlotClaims}
Owned == <<"owned">>
Claims == SlotClaims \cup OriginClaims \cup LoadClaims \cup {Owned}
Names == Globals \cup ToSet(Params) \cup Locals \cup {"null"}

Begins(f, x, c) ==
    \/ \E k \in 1..3 : x = Params[k] /\ c = Param(k)
    \/ x = "null" /\ c = NullOrigin
    \/ x \in {"@g", "@h"} /\ c = <<x>>
    \/ x \in {"@g", "@h"} /\ c = Owned
    \/ c = Field /\ \E i \in InstsOf(f) : i.op = "gep" /\ i.type = "S" /\ i.res = x
    \/ c = Owned /\ \E i \in InstsOf(f) : i.op = "gep" /\ i.type = "S" /\ i.args[1] = "conn" /\ i.res = x
Carries(f, x, y) ==
    \E i \in InstsOf(f) :
        /\ i.res = y
        /\ \/ i.op = "cast" /\ x = i.args[1]
           \/ i.op = "load" /\ i.args[1] \in DOMAIN Spills(f) /\ x = Spills(f)[i.args[1]]
Reads(f, x, y) ==
    \E i \in InstsOf(f) : i.res = y /\ i.op = "load" /\ x = i.args[1]
Holding(f, X) ==
    /\ \A x \in Names, c \in Claims : Begins(f, x, c) => <<x, c>> \in X
    /\ \A x \in Names, y \in Names, c \in Claims : Carries(f, x, y) /\ <<x, c>> \in X => <<y, c>> \in X
    /\ \A x \in Names, y \in Names, s \in SlotClaims : Reads(f, x, y) /\ <<x, s>> \in X => <<y, SlotLoad(s)>> \in X
Claimed(f) == {p \in Names \X Claims : \A X \in SUBSET (Names \X Claims) : Holding(f, X) => p \in X}

LEMMA LoadClaimIs == \A s \in SlotClaims : s \in Claims /\ SlotLoad(s) \in Claims /\ SlotLoad(s) \in LoadClaims
BY DEF Claims, LoadClaims

LEMMA ClaimsHold == ASSUME NEW f PROVE Holding(f, Claimed(f))
<1> USE LoadClaimIs
<1> HIDE DEF Names, Claims, SlotClaims
<1>1. ASSUME NEW x \in Names, NEW c \in Claims, Begins(f, x, c) PROVE <<x, c>> \in Claimed(f)
  BY <1>1 DEF Claimed, Holding
<1>2. ASSUME NEW x \in Names, NEW y \in Names, NEW c \in Claims, Carries(f, x, y), <<x, c>> \in Claimed(f)
      PROVE  <<y, c>> \in Claimed(f)
  BY <1>2 DEF Claimed, Holding
<1>3. ASSUME NEW x \in Names, NEW y \in Names, NEW s \in SlotClaims, Reads(f, x, y), <<x, s>> \in Claimed(f)
      PROVE  <<y, SlotLoad(s)>> \in Claimed(f)
  BY <1>3 DEF Claimed, Holding
<1>4. QED BY <1>1, <1>2, <1>3 DEF Holding

\* A claim of a name that others have.
IsCarried(f, x, c) == \E y \in Names : Carries(f, y, x) /\ <<y, c>> \in Claimed(f)
IsRead(f, x, c) == \E y \in Names : \E s \in SlotClaims : Reads(f, y, x) /\ <<y, s>> \in Claimed(f) /\ c = SlotLoad(s)

LEMMA ClaimsComeFrom ==
    ASSUME NEW f, NEW x, NEW c, <<x, c>> \in Claimed(f)
    PROVE  /\ x \in Names /\ c \in Claims
           /\ Begins(f, x, c) \/ IsCarried(f, x, c) \/ IsRead(f, x, c)
<1> HIDE DEF Names, Claims, SlotClaims
<1>1. x \in Names /\ c \in Claims
  BY DEF Claimed
<1>2. SUFFICES ASSUME ~Begins(f, x, c), \A y \in Names : Carries(f, y, x) => <<y, c>> \notin Claimed(f),
                      \A y \in Names : \A s \in SlotClaims : Reads(f, y, x) /\ <<y, s>> \in Claimed(f) => c # SlotLoad(s)
               PROVE  FALSE
  BY <1>1 DEF IsCarried, IsRead
<1> DEFINE X == Claimed(f) \ {<<x, c>>}
<1>3. X \in SUBSET (Names \X Claims)
  BY DEF Claimed
<1>4. \A y, d : <<y, d>> \in X <=> <<y, d>> \in Claimed(f) /\ (y # x \/ d # c)
  OBVIOUS
<1> HIDE DEF X
<1>5. Holding(f, X)
  <2>1. ASSUME NEW y \in Names, NEW d \in Claims, Begins(f, y, d) PROVE <<y, d>> \in X
    BY <1>2, <1>4, <2>1, ClaimsHold DEF Holding
  <2>2. ASSUME NEW y \in Names, NEW z \in Names, NEW d \in Claims, Carries(f, y, z), <<y, d>> \in X PROVE <<z, d>> \in X
    BY <1>2, <1>4, <2>2, ClaimsHold DEF Holding
  <2>3. ASSUME NEW y \in Names, NEW z \in Names, NEW s \in SlotClaims, Reads(f, y, z), <<y, s>> \in X PROVE <<z, SlotLoad(s)>> \in X
    <3>1. <<y, s>> \in Claimed(f)
      BY <1>4, <2>3
    <3>2. <<z, SlotLoad(s)>> \in Claimed(f)
      BY <2>3, <3>1, ClaimsHold DEF Holding
    <3>3. z # x \/ SlotLoad(s) # c
      BY <1>2, <2>3, <3>1
    <3>4. QED BY <1>4, <3>2, <3>3
  <2>4. QED BY <2>1, <2>2, <2>3 DEF Holding
<1>6. <<x, c>> \in X
  BY <1>1, <1>3, <1>5 DEF Claimed
<1>7. QED BY <1>4, <1>6

\* What the maps of a flow say is claimed.
OriginOk(f, x, o) == (o[1] # "param" /\ o # NullOrigin) \/ (o \in OriginClaims /\ <<x, o>> \in Claimed(f))
SlotOk(f, known, x, s) == x \in CellsIn(known) /\ x \in Locals /\ s \in SlotClaims /\ <<x, s>> \in Claimed(f)
OwnOk(f, known, x) == x \in ValuesIn(known) \/ (x \in CellsIn(known) /\ <<x, Owned>> \in Claimed(f))
Within(f, known, flow) ==
    /\ DOMAIN flow = {"origins", "slots", "spills", "owned"}
    /\ flow.spills = Spills(f)
    /\ \A x \in DOMAIN flow.origins : OriginOk(f, x, flow.origins[x])
    /\ \A x \in DOMAIN flow.slots : SlotOk(f, known, x, flow.slots[x])
    /\ \A x \in flow.owned : OwnOk(f, known, x)

LEMMA InstIsApt ==
    ASSUME NEW f, NEW known, WellTyped(f, known), NEW i \in InstsOf(f)
    PROVE  /\ Apt(known, i) \/ (i.op \in Terminators /\ i.res = NoName)
           /\ i.op \notin Terminators => Apt(known, i)
<1>1. PICK b \in DOMAIN f.blocks : \E k \in DOMAIN f.blocks[b] : i = f.blocks[b][k]
  BY InstsAre
<1>2. PICK k \in DOMAIN f.blocks[b] : i = f.blocks[b][k]
  BY <1>1
<1>3. PICK n \in Nat \ {0} : /\ n = Len(f.blocks[b]) /\ DOMAIN f.blocks[b] = 1..n
                             /\ \A j \in 1..(n - 1) : Apt(known, f.blocks[b][j])
                             /\ Ends(known, DOMAIN f.blocks, f.blocks[b][n])
  BY DEF WellTyped, IsBlock
<1>4. CASE k = n
  BY <1>2, <1>3, <1>4 DEF Ends
<1>5. CASE k # n
  <2>1. k \in 1..(n - 1)
    BY <1>3, <1>5
  <2>2. QED BY <1>2, <1>3, <2>1
<1>6. QED BY <1>4, <1>5

\* The names there are, and what is not of their types.
LEMMA NamesAre ==
    ASSUME NEW known, NamesIn(known), NEW x \in DOMAIN known
    PROVE  /\ x \in Names /\ x # "null"
           /\ x \in Globals => (x = "@o" /\ known[x] = "holder") \/ (x \in {"@g", "@h"} /\ known[x] = "cell")
           /\ x \notin Globals => IsLocal(x)
           /\ x \in {"cb", "ud"} => known[x] = "value"
           /\ x = "conn" => known[x] = "object"
<1>1. x \in DOMAIN TypeOfName \cup Locals /\ (x \in DOMAIN TypeOfName => known[x] = TypeOfName[x])
  BY DEF NamesIn
<1>2. ToSet(Params) = {"cb", "ud", "conn"}
  BY DEF ToSet, Params
<1>3. DOMAIN TypeOfName = {"@g", "@h", "@o", "cb", "ud", "conn"}
  BY <1>2 DEF TypeOfName, Globals
<1>4. /\ TypeOfName["@g"] = "cell" /\ TypeOfName["@h"] = "cell" /\ TypeOfName["@o"] = "holder"
      /\ TypeOfName["cb"] = "value" /\ TypeOfName["ud"] = "value" /\ TypeOfName["conn"] = "object"
  BY <1>2 DEF TypeOfName, Globals
<1> HIDE DEF TypeOfName
<1>5. x \in Names /\ x # "null"
  BY <1>1, <1>2, <1>3 DEF Names, Locals, Globals
<1>6. x \in Globals => (x = "@o" /\ known[x] = "holder") \/ (x \in {"@g", "@h"} /\ known[x] = "cell")
  BY <1>1, <1>3, <1>4 DEF Globals
<1>7. x \notin Globals => IsLocal(x)
  BY <1>1, <1>3 DEF Globals, IsLocal, Symbols, Locals
<1>8. (x \in {"cb", "ud"} => known[x] = "value") /\ (x = "conn" => known[x] = "object")
  BY <1>1, <1>3, <1>4
<1>9. QED BY <1>5, <1>6, <1>7, <1>8

LEMMA SpilledIs ==
    ASSUME NEW f, NEW known, WellTyped(f, known), NEW a \in DOMAIN Spills(f)
    PROVE  /\ Spills(f)[a] \in ValuesIn(known) \cup {"null"} /\ Spills(f)[a] \in Names
           /\ a \in CellsIn(known) /\ a \in Locals
<1>1. IsSpill(f, a)
  BY SpillsAre DEF IsTyped
<1>2. PICK i \in InstsOf(f) : i.op = "store" /\ i.args[1] = Spills(f)[a]
  BY <1>1 DEF IsSpill
<1>3. Shaped(known, i)
  BY <1>2, InstIsApt DEF Apt, Terminators
<1>4. Spills(f)[a] \in ValuesIn(known) \cup {"null"}
  BY <1>2, <1>3 DEF Shaped
<1>5. "null" \in Names
  BY DEF Names
<1>6. NamesIn(known)
  BY DEF WellTyped
<1>7. Spills(f)[a] \in Names
  BY <1>4, <1>5, <1>6, NamesAre DEF ValuesIn, Typed
<1>8. PICK j \in InstsOf(f) : j.op = "alloca" /\ j.res = a
  BY <1>1 DEF IsSpill
<1>9. Apt(known, j)
  BY <1>8, InstIsApt DEF Terminators
<1>10. a \in Locals /\ a # NoName
  BY <1>8, <1>9 DEF Apt, Shaped, Locals, NoName
<1>11. a \in DOMAIN known /\ known[a] = "cell"
  BY <1>8, <1>9, <1>10 DEF Apt, Made
<1>12. QED BY <1>4, <1>7, <1>10, <1>11 DEF CellsIn, Typed

LEMMA OriginOfName ==
    ASSUME NEW f, NEW known, NEW flow, Within(f, known, flow), NEW x
    PROVE  OriginOk(f, x, Origin(flow, x))
<1>1. CASE x = "null"
  <2>1. x \in Names /\ NullOrigin \in OriginClaims /\ NullOrigin \in Claims
    BY <1>1 DEF Names, OriginClaims, Claims
  <2>2. Begins(f, x, NullOrigin)
    BY <1>1 DEF Begins
  <2>3. <<x, NullOrigin>> \in Claimed(f)
    BY <2>1, <2>2, ClaimsHold DEF Holding
  <2>4. Origin(flow, x) = NullOrigin
    BY <1>1 DEF Origin
  <2>5. QED BY <2>1, <2>3, <2>4 DEF OriginOk
<1>2. CASE x # "null" /\ x \in DOMAIN flow.origins /\ IsLocal(x)
  <2>1. Origin(flow, x) = flow.origins[x]
    BY <1>2 DEF Origin
  <2>2. QED BY <1>2, <2>1 DEF Within
<1>3. CASE x # "null" /\ ~(x \in DOMAIN flow.origins /\ IsLocal(x))
  <2>1. Origin(flow, x) = Unknown
    BY <1>3 DEF Origin
  <2>2. Unknown[1] # "param" /\ Unknown # NullOrigin
    BY DEF Unknown, NullOrigin
  <2>3. QED BY <2>1, <2>2 DEF OriginOk
<1>4. QED BY <1>1, <1>2, <1>3

LEMMA Carried ==
    ASSUME NEW f, NEW x \in Names, NEW y \in Names, Carries(f, x, y), NEW c, <<x, c>> \in Claimed(f)
    PROVE  <<y, c>> \in Claimed(f)
<1>1. c \in Claims
  BY ClaimsComeFrom
<1>2. QED BY <1>1, ClaimsHold DEF Holding

\* What an entry more has to satisfy.
LEMMA OriginWithin ==
    ASSUME NEW f, NEW known, NEW flow, Within(f, known, flow), NEW x, NEW o, OriginOk(f, x, o)
    PROVE  Within(f, known, WithOrigin(flow, x, o))
<1> DEFINE g == WithOrigin(flow, x, o)
<1>1. DOMAIN flow = {"origins", "slots", "spills", "owned"}
  BY DEF Within
<1>2. DOMAIN g = DOMAIN flow /\ g.spills = flow.spills /\ g.slots = flow.slots /\ g.owned = flow.owned /\ g.origins = Put(flow.origins, x, o)
  BY <1>1 DEF WithOrigin
<1> HIDE DEF g
<1>3. /\ DOMAIN g.origins = DOMAIN flow.origins \cup {x} /\ g.origins[x] = o
      /\ \A y \in DOMAIN flow.origins : y # x => g.origins[y] = flow.origins[y]
  BY <1>2 DEF Put
<1>4. \A y \in DOMAIN g.origins : OriginOk(f, y, g.origins[y])
  BY <1>3 DEF Within
<1>5. QED BY <1>1, <1>2, <1>4 DEF Within, g

LEMMA SlotWithin ==
    ASSUME NEW f, NEW known, NEW flow, Within(f, known, flow), NEW x, NEW s, s = NoSlot \/ SlotOk(f, known, x, s)
    PROVE  Within(f, known, WithSlot(flow, x, s)) /\ WithSlot(flow, x, s).origins = flow.origins
<1> DEFINE g == WithSlot(flow, x, s)
<1>0. CASE s = NoSlot
  BY <1>0 DEF WithSlot
<1>a. CASE s # NoSlot
  <2>1. DOMAIN flow = {"origins", "slots", "spills", "owned"}
    BY DEF Within
  <2>2. DOMAIN g = DOMAIN flow /\ g.spills = flow.spills /\ g.origins = flow.origins /\ g.owned = flow.owned /\ g.slots = Put(flow.slots, x, s)
    BY <1>a, <2>1 DEF WithSlot
  <2> HIDE DEF g
  <2>3. /\ DOMAIN g.slots = DOMAIN flow.slots \cup {x} /\ g.slots[x] = s
        /\ \A y \in DOMAIN flow.slots : y # x => g.slots[y] = flow.slots[y]
    BY <2>2 DEF Put
  <2>4. \A y \in DOMAIN g.slots : SlotOk(f, known, y, g.slots[y])
    BY <1>a, <2>3 DEF Within
  <2>5. QED BY <2>1, <2>2, <2>4 DEF Within, g
<1>b. QED BY <1>0, <1>a

\* What is claimed of an object, and of a cell: an object that is claimed to be a
\* parameter is the connection, no cell is, and what points to a slot is a cell.
LEMMA ClaimsTyped ==
    ASSUME NEW f, NEW known, WellTyped(f, known), NEW x, NEW c, <<x, c>> \in Claimed(f)
    PROVE  IF c \in SlotClaims \cup {Owned} THEN x \in CellsIn(known) \/ x \in {"@g", "@h"} ELSE x \notin CellsIn(known)
<1> DEFINE Fit(y, d) == IF d \in SlotClaims \cup {Owned} THEN y \in CellsIn(known) \/ y \in {"@g", "@h"} ELSE y \notin CellsIn(known)
           X == {q \in Names \X Claims : Fit(q[1], q[2])}
<1>1. NamesIn(known)
  BY DEF WellTyped
<1>2. \A y, d : <<y, d>> \in X <=> y \in Names /\ d \in Claims /\ Fit(y, d)
  OBVIOUS
<1>3. X \in SUBSET (Names \X Claims)
  OBVIOUS
<1>4. /\ \A s \in SlotClaims : SlotLoad(s) \notin SlotClaims \cup {Owned}
      /\ \A k \in 1..3 : Param(k) \notin SlotClaims \cup {Owned}
      /\ NullOrigin \notin SlotClaims \cup {Owned} /\ Field \in SlotClaims
  BY DEF SlotClaims, Owned, SlotLoad, Param, NullOrigin, Field
<1>5. \A k \in 1..3 : Params[k] \notin CellsIn(known)
  <2> SUFFICES ASSUME NEW k \in 1..3, Params[k] \in CellsIn(known) PROVE FALSE
    OBVIOUS
  <2>1. Params[k] \in {"cb", "ud", "conn"}
    BY DEF Params
  <2>2. Params[k] \in DOMAIN known /\ known[Params[k]] = "cell"
    BY DEF CellsIn, Typed
  <2>3. QED BY <1>1, <2>1, <2>2, NamesAre
<1>6. "null" \notin CellsIn(known)
  BY <1>1, NamesAre DEF CellsIn, Typed
<1>7. ASSUME NEW i \in InstsOf(f), i.op = "gep", i.type = "S" PROVE i.res \in CellsIn(known)
  <2>1. Apt(known, i)
    BY <1>7, InstIsApt DEF Terminators
  <2>2. i.res \in Locals /\ i.res # NoName
    BY <1>7, <2>1 DEF Apt, Shaped, Locals, NoName
  <2>3. i.res \in DOMAIN known /\ known[i.res] = "cell"
    BY <1>7, <2>1, <2>2 DEF Apt, Made
  <2>4. QED BY <2>3 DEF CellsIn, Typed
\* A cast makes a cell of a cell only, a load makes none.
<1>8. ASSUME NEW i \in InstsOf(f), i.op \in {"cast", "load"}
      PROVE  /\ i.op = "cast" => (i.res \in CellsIn(known) <=> i.args[1] \in CellsIn(known)) /\ i.args[1] \in DOMAIN known
             /\ i.op = "load" => i.res \notin CellsIn(known)
  <2>1. Apt(known, i)
    BY <1>8, InstIsApt DEF Terminators
  <2>2. i.res \in Locals /\ i.res # NoName
    BY <1>8, <2>1 DEF Apt, Shaped, Locals, NoName
  <2>3. i.res \in DOMAIN known /\ known[i.res] = Made(known, i)
    BY <2>1, <2>2 DEF Apt
  <2>4. CASE i.op = "cast"
    <3>1. known[i.res] = known[i.args[1]] /\ i.args[1] \in DOMAIN known
      BY <2>1, <2>3, <2>4 DEF Made, Apt, Shaped, ValuesIn, CellsIn, Typed
    <3>2. QED BY <2>3, <2>4, <3>1 DEF CellsIn, Typed
  <2>5. CASE i.op = "load"
    <3>1. known[i.args[1]] \in {"cell", "holder"}
      BY <2>1, <2>5 DEF Apt, Shaped, CellsIn, Typed
    <3>2. known[i.res] \in {"value", "object"}
      BY <2>3, <2>5, <3>1 DEF Made
    <3>3. QED BY <2>5, <3>2 DEF CellsIn, Typed
  <2>6. QED BY <1>8, <2>4, <2>5
<1>9. \A y \in {"@g", "@h"} : y \in DOMAIN known => y \in CellsIn(known)
  <2> SUFFICES ASSUME NEW y \in {"@g", "@h"}, y \in DOMAIN known PROVE y \in CellsIn(known)
    OBVIOUS
  <2>1. y \in Globals /\ y # "@o"
    BY DEF Globals
  <2>2. known[y] = "cell"
    BY <1>1, <2>1, NamesAre
  <2>3. QED BY <2>2 DEF CellsIn, Typed
<1> HIDE DEF X
<1>10. Holding(f, X)
  <2>1. ASSUME NEW y \in Names, NEW d \in Claims, Begins(f, y, d) PROVE <<y, d>> \in X
    <3>1. Fit(y, d)
      <4>1. CASE \E k \in 1..3 : y = Params[k] /\ d = Param(k)
        BY <1>4, <1>5, <4>1
      <4>2. CASE y = "null" /\ d = NullOrigin
        BY <1>4, <1>6, <4>2
      <4>3. CASE y \in {"@g", "@h"} /\ (d = <<y>> \/ d = Owned)
        BY <4>3 DEF SlotClaims
      <4>4. CASE d \in {Field, Owned} /\ \E i \in InstsOf(f) : i.op = "gep" /\ i.type = "S" /\ i.res = y
        BY <1>4, <1>7, <4>4
      <4>5. QED BY <2>1, <4>1, <4>2, <4>3, <4>4 DEF Begins
    <3>2. QED BY <1>2, <3>1
  <2>2. ASSUME NEW y \in Names, NEW z \in Names, NEW d \in Claims, Carries(f, y, z), <<y, d>> \in X PROVE <<z, d>> \in X
    <3>1. Fit(y, d)
      BY <1>2, <2>2
    <3>2. PICK i \in InstsOf(f) :
            /\ i.res = z
            /\ \/ i.op = "cast" /\ y = i.args[1]
               \/ i.op = "load" /\ i.args[1] \in DOMAIN Spills(f) /\ y = Spills(f)[i.args[1]]
      BY <2>2 DEF Carries
    <3>3. CASE i.op = "cast" /\ y = i.args[1]
      <4>1. z \in CellsIn(known) <=> y \in CellsIn(known)
        BY <1>8, <3>2, <3>3
      <4>2. y \in DOMAIN known
        BY <1>8, <3>2, <3>3
      <4>3. Fit(z, d)
        BY <1>9, <3>1, <4>1, <4>2
      <4>4. QED BY <1>2, <2>2, <4>3
    <3>4. CASE i.op = "load" /\ i.args[1] \in DOMAIN Spills(f) /\ y = Spills(f)[i.args[1]]
      <4>1. z \notin CellsIn(known)
        BY <1>8, <3>2, <3>4
      <4>2. y \in ValuesIn(known) \cup {"null"}
        BY <3>4, SpilledIs
      <4>3. y \notin CellsIn(known) /\ y \notin {"@g", "@h"}
        <5>1. CASE y = "null"
          BY <1>6, <5>1
        <5>2. CASE y \in ValuesIn(known)
          <6>1. y \in DOMAIN known /\ known[y] = "value"
            BY <5>2 DEF ValuesIn, Typed
          <6>2. y \notin CellsIn(known)
            BY <6>1 DEF CellsIn, Typed
          <6>3. QED BY <1>9, <6>1, <6>2
        <5>3. QED BY <4>2, <5>1, <5>2
      <4>4. Fit(z, d)
        BY <3>1, <4>1, <4>3
      <4>5. QED BY <1>2, <2>2, <4>4
    <3>5. QED BY <3>2, <3>3, <3>4
  <2>3. ASSUME NEW y \in Names, NEW z \in Names, NEW s \in SlotClaims, Reads(f, y, z), <<y, s>> \in X PROVE <<z, SlotLoad(s)>> \in X
    <3>1. z \notin CellsIn(known)
      BY <1>8, <2>3 DEF Reads
    <3>2. Fit(z, SlotLoad(s))
      BY <1>4, <3>1
    <3>3. QED BY <1>2, <3>2, LoadClaimIs
  <2>4. QED BY <2>1, <2>2, <2>3 DEF Holding
<1>11. <<x, c>> \in X
  BY <1>3, <1>10 DEF Claimed
<1>12. QED BY <1>2, <1>11

\* The only object that is claimed to be a parameter is the connection.
LEMMA ObjectIs ==
    ASSUME NEW f, NEW known, WellTyped(f, known), NEW x \in Typed(known, "object"), NEW k \in 1..3, <<x, Param(k)>> \in Claimed(f)
    PROVE  x = "conn"
<1>1. x \in DOMAIN known /\ known[x] = "object" /\ NamesIn(known)
  BY DEF Typed, WellTyped
<1>2. x # "null" /\ x \notin {"cb", "ud"}
  BY <1>1, NamesAre
<1>3. /\ Param(k) # NullOrigin /\ Param(k) # Field /\ Param(k) # Owned /\ (\A z : Param(k) # <<z>>)
      /\ \A s : Param(k) # SlotLoad(s)
  BY DEF Param, NullOrigin, Field, Owned, SlotLoad
<1>4. ASSUME NEW y, Carries(f, y, x) PROVE FALSE
  <2>1. PICK i \in InstsOf(f) : i.res = x /\ (i.op = "cast" \/ (i.op = "load" /\ i.args[1] \in DOMAIN Spills(f)))
    BY <1>4 DEF Carries
  <2>2. Apt(known, i)
    BY <2>1, InstIsApt DEF Terminators
  <2>3. i.res \in Locals /\ i.res # NoName
    BY <2>1, <2>2 DEF Apt, Shaped, Locals, NoName
  <2>4. known[x] = Made(known, i)
    BY <2>1, <2>2, <2>3 DEF Apt
  <2>5. CASE i.op = "cast"
    <3>1. i.args[1] \in ValuesIn(known) \cup CellsIn(known)
      BY <2>2, <2>5 DEF Apt, Shaped
    <3>2. known[i.args[1]] \in {"value", "cell"}
      BY <3>1 DEF ValuesIn, CellsIn, Typed
    <3>3. QED BY <1>1, <2>4, <2>5, <3>2 DEF Made
  <2>6. CASE i.op = "load" /\ i.args[1] \in DOMAIN Spills(f)
    <3>1. i.args[1] \in CellsIn(known)
      BY <2>6, SpilledIs
    <3>2. known[i.args[1]] = "cell"
      BY <3>1 DEF CellsIn, Typed
    <3>3. QED BY <1>1, <2>4, <2>6, <3>2 DEF Made
  <2>7. QED BY <2>1, <2>5, <2>6
<1>5. Begins(f, x, Param(k))
  <2>1. Begins(f, x, Param(k)) \/ IsCarried(f, x, Param(k)) \/ IsRead(f, x, Param(k))
    BY ClaimsComeFrom
  <2>2. QED BY <1>3, <1>4, <2>1 DEF IsCarried, IsRead
<1>6. \E j \in 1..3 : x = Params[j]
  BY <1>2, <1>3, <1>5 DEF Begins
<1>7. QED BY <1>2, <1>6 DEF Params

LEMMA OwnerWithin ==
    ASSUME NEW f, NEW known, NEW flow, Within(f, known, flow), NEW x, NEW y, BaseIsCallerOwned(flow, y) => OwnOk(f, known, x)
    PROVE  Within(f, known, WithOwner(flow, x, y)) /\ WithOwner(flow, x, y).origins = flow.origins
<1> DEFINE g == WithOwner(flow, x, y)
<1>1. DOMAIN flow = {"origins", "slots", "spills", "owned"}
  BY DEF Within
<1>2. /\ DOMAIN g = DOMAIN flow /\ g.spills = flow.spills /\ g.origins = flow.origins /\ g.slots = flow.slots
      /\ g.owned = IF BaseIsCallerOwned(flow, y) THEN flow.owned \cup {x} ELSE flow.owned
  BY <1>1 DEF WithOwner
<1> HIDE DEF g
<1>3. \A z \in g.owned : OwnOk(f, known, z)
  BY <1>2 DEF Within
<1>4. QED BY <1>1, <1>2, <1>3 DEF Within, g

\* The slot a cell points to.
LEMMA PointerWithin ==
    ASSUME NEW f, NEW known, WellTyped(f, known), NEW flow, Within(f, known, flow), NEW x \in CellsIn(known),
           NEW s, s = PointerSlot(Globals, flow, x)
    PROVE  s = NoSlot \/ (s \in SlotClaims /\ <<x, s>> \in Claimed(f))
<1>1. CASE x \in Globals
  <2>1. x \in {"@g", "@h"} /\ x \in Names
    BY <1>1, NamesAre DEF WellTyped, CellsIn, Typed
  <2>a. x \notin DOMAIN flow.slots
    BY <2>1 DEF Within, SlotOk, Locals
  <2>2. s = <<x>>
    BY <1>1, <2>a DEF PointerSlot
  <2>3. s \in SlotClaims /\ s \in Claims
    BY <2>1, <2>2 DEF SlotClaims, Claims
  <2>4. Begins(f, x, s)
    BY <2>1, <2>2 DEF Begins
  <2>5. QED BY <2>1, <2>3, <2>4, ClaimsHold DEF Holding
<1>2. CASE x \notin Globals /\ x \in DOMAIN flow.slots
  <2>1. s = flow.slots[x]
    BY <1>2 DEF PointerSlot
  <2>2. QED BY <1>2, <2>1 DEF Within, SlotOk
<1>3. CASE x \notin Globals /\ x \notin DOMAIN flow.slots
  BY <1>3 DEF PointerSlot
<1>4. QED BY <1>1, <1>2, <1>3

\* A path of one field, after what it begins at.
LEMMA PathIs == ASSUME NEW x, NEW y PROVE <<x>> \o <<y>> = <<x, y>>
<1> DEFINE S == {x, y}
           r == <<x>> \o <<y>>
           t == <<x, y>>
<1>1. <<x>> \in Seq(S) /\ Len(<<x>>) = 1 /\ <<y>> \in Seq(S) /\ Len(<<y>>) = 1
  OBVIOUS
<1>2. t \in Seq(S) /\ Len(t) = 2 /\ t[1] = x /\ t[2] = y
  OBVIOUS
<1> HIDE DEF S, r, t
<1>3. /\ r \in Seq(S) /\ Len(r) = 1 + 1
      /\ \A k \in 1..(1 + 1) : r[k] = IF k <= 1 THEN <<x>>[k] ELSE <<y>>[k - 1]
  BY <1>1, ConcatProperties DEF r
<1>4. r[1] = x /\ r[2] = y /\ Len(r) = 2
  BY <1>3
<1>5. \A k \in 1..2 : r[k] = t[k]
  BY <1>2, <1>4
<1>6. r = t
  BY <1>2, <1>3, <1>4, <1>5, SeqEqual
<1>7. QED BY <1>6 DEF r, t

LEMMA FieldIs == <<"S">> \o <<"f">> = Field
BY PathIs DEF Field

LEMMA TransferGep ==
    ASSUME NEW f, NEW known, WellTyped(f, known), NEW flow, Within(f, known, flow),
           NEW i \in InstsOf(f), i.op = "gep"
    PROVE  Within(f, known, Transfer(Globals, flow, i))
<1> DEFINE base == i.args[1]
           slot == GepSlot(Globals, flow, i)
<1>1. /\ i.res \in Locals /\ i.res # NoName /\ i.res \in DOMAIN known /\ known[i.res] = Made(known, i)
      /\ \/ i.type = "S" /\ i.path = <<"f">> /\ base \in Typed(known, "object")
         \/ i.type = "bytes" /\ base \in ValuesIn(known)
  BY InstIsApt DEF Apt, Shaped, Terminators, Locals, NoName
<1>2. NamesIn(known)
  BY DEF WellTyped
<1>3. base \notin Globals /\ IsLocal(base)
  BY <1>1, <1>2, NamesAre DEF ValuesIn, Typed
<1>4. base \notin DOMAIN flow.slots
  BY <1>1 DEF Within, SlotOk, ValuesIn, CellsIn, Typed
<1>5. slot = IF i.type # "bytes" THEN <<i.type>> \o i.path ELSE NoSlot
  BY <1>3, <1>4 DEF GepSlot
<1>6. slot = NoSlot \/ SlotOk(f, known, i.res, slot)
  <2>1. CASE i.type = "bytes"
    BY <1>5, <2>1
  <2>2. CASE i.type # "bytes"
    <3>1. i.type = "S" /\ i.path = <<"f">>
      BY <1>1, <2>2
    <3>2. slot = Field
      BY <1>5, <3>1, FieldIs
    <3>3. Made(known, i) = "cell"
      BY <3>1 DEF Made
    <3>4. i.res \in CellsIn(known)
      BY <1>1, <3>3 DEF CellsIn, Typed
    <3>5. Begins(f, i.res, Field)
      BY <3>1 DEF Begins
    <3>6. i.res \in Names /\ Field \in Claims /\ Field \in SlotClaims
      BY <1>1 DEF Names, Claims, SlotClaims
    <3>7. <<i.res, Field>> \in Claimed(f)
      BY <3>5, <3>6, ClaimsHold DEF Holding
    <3>8. QED BY <1>1, <3>2, <3>4, <3>6, <3>7 DEF SlotOk
  <2>3. QED BY <2>1, <2>2
<1>7. Transfer(Globals, flow, i) = WithOwner(WithSlot(flow, i.res, slot), i.res, base)
  BY <1>1 DEF Transfer
<1> HIDE DEF slot, base
<1>8. Within(f, known, WithSlot(flow, i.res, slot)) /\ WithSlot(flow, i.res, slot).origins = flow.origins
  BY <1>6, SlotWithin
<1>9. ASSUME NEW one, Within(f, known, one), BaseIsCallerOwned(one, base) PROVE OwnOk(f, known, i.res)
  <2>1. CASE base \in ValuesIn(known)
    <3>1. i.type = "bytes"
      BY <1>1, <2>1 DEF ValuesIn, Typed
    <3>2. known[i.res] = known[base]
      BY <1>1, <3>1 DEF Made, base
    <3>3. QED BY <1>1, <2>1, <3>2 DEF OwnOk, ValuesIn, Typed
  <2>2. CASE base \in Typed(known, "object") /\ i.type = "S"
    <3>1. base \notin ValuesIn(known) /\ base \notin CellsIn(known)
      BY <2>2 DEF ValuesIn, CellsIn, Typed
    <3>2. base \notin one.owned
      BY <1>9, <3>1 DEF Within, OwnOk
    <3>3. base \notin Symbols
      BY <1>3 DEF IsLocal
    <3>4. Origin(one, base)[1] = "param"
      BY <1>9, <3>2, <3>3 DEF BaseIsCallerOwned, IsCallerOwned
    <3>5. Origin(one, base) \in OriginClaims /\ <<base, Origin(one, base)>> \in Claimed(f)
      BY <1>9, <3>4, OriginOfName DEF OriginOk
    <3>6. PICK k \in 1..3 : Origin(one, base) = Param(k)
      BY <3>4, <3>5 DEF OriginClaims, NullOrigin
    <3>7. base = "conn"
      BY <2>2, <3>5, <3>6, ObjectIs
    <3>8. Begins(f, i.res, Owned)
      BY <2>2, <3>7 DEF Begins, base
    <3>9. i.res \in Names /\ Owned \in Claims
      BY <1>1 DEF Names, Claims
    <3>10. <<i.res, Owned>> \in Claimed(f)
      BY <3>8, <3>9, ClaimsHold DEF Holding
    <3>11. i.res \in CellsIn(known)
      BY <1>1, <2>2 DEF CellsIn, Typed, Made
    <3>12. QED BY <3>10, <3>11 DEF OwnOk
  <2>3. QED BY <1>1, <2>1, <2>2
<1>10. QED BY <1>7, <1>8, <1>9, OwnerWithin

LEMMA TransferCast ==
    ASSUME NEW f, NEW known, WellTyped(f, known), NEW flow, Within(f, known, flow),
           NEW i \in InstsOf(f), i.op = "cast"
    PROVE  Within(f, known, Transfer(Globals, flow, i))
<1> DEFINE y == i.args[1]
           x == i.res
           slot == PointerSlot(Globals, flow, y)
           one == WithSlot(flow, x, slot)
           two == WithOwner(one, x, y)
           o == Origin(flow, y)
<1>1. /\ x \in Locals /\ x # NoName /\ x \in DOMAIN known /\ known[x] = known[y]
      /\ y \in ValuesIn(known) \cup CellsIn(known)
  BY InstIsApt DEF Apt, Shaped, Terminators, Locals, NoName, Made
<1>2. x \in Names /\ y \in Names
  BY <1>1, NamesAre DEF WellTyped, ValuesIn, CellsIn, Typed
<1>3. Carries(f, y, x)
  BY DEF Carries
<1>4. slot = NoSlot \/ SlotOk(f, known, x, slot)
  <2>1. CASE y \in CellsIn(known)
    <3>1. x \in CellsIn(known)
      BY <1>1, <2>1 DEF CellsIn, Typed
    <3>2. slot = NoSlot \/ (slot \in SlotClaims /\ <<y, slot>> \in Claimed(f))
      BY <2>1, PointerWithin
    <3> HIDE DEF slot, x, y
    <3>3. QED BY <1>1, <1>2, <1>3, <3>1, <3>2, Carried DEF SlotOk
  <2>2. CASE y \in ValuesIn(known)
    <3>1. y \notin Globals
      BY <2>2, NamesAre DEF WellTyped, ValuesIn, Typed
    <3>2. y \notin DOMAIN flow.slots
      BY <2>2 DEF Within, SlotOk, ValuesIn, CellsIn, Typed
    <3>3. slot = NoSlot
      BY <3>1, <3>2 DEF PointerSlot
    <3>4. QED BY <3>3
  <2>3. QED BY <1>1, <2>1, <2>2
<1>5. OriginOk(f, x, o)
  <2>1. OriginOk(f, y, o)
    BY OriginOfName
  <2> HIDE DEF x, y, o
  <2>2. QED BY <1>2, <1>3, <2>1, Carried DEF OriginOk
<1>6. Transfer(Globals, flow, i) = WithOrigin(two, x, o)
  BY <1>1 DEF Transfer
<1> HIDE DEF x, y, slot, one, two, o
<1>7. Within(f, known, one)
  BY <1>4, SlotWithin DEF one
<1>a. ASSUME BaseIsCallerOwned(one, y) PROVE OwnOk(f, known, x)
  <2>1. CASE y \in ValuesIn(known)
    BY <1>1, <2>1 DEF OwnOk, ValuesIn, Typed
  <2>2. CASE y \in CellsIn(known)
    <3>1. x \in CellsIn(known)
      BY <1>1, <2>2 DEF CellsIn, Typed
    <3>2. y \in DOMAIN known /\ NamesIn(known) /\ known[y] = "cell" /\ y \notin ValuesIn(known)
      BY <2>2 DEF CellsIn, ValuesIn, Typed, WellTyped
    <3>3. <<y, Owned>> \in Claimed(f)
      <4>1. CASE y \in Symbols
        <5>1. y \in {"@g", "@h"}
          BY <3>2, <4>1, NamesAre DEF IsLocal
        <5>2. Begins(f, y, Owned) /\ Owned \in Claims
          BY <5>1 DEF Begins, Claims
        <5>3. QED BY <1>2, <5>2, ClaimsHold DEF Holding
      <4>2. CASE y \in one.owned
        BY <1>7, <3>2, <4>2 DEF Within, OwnOk
      <4>3. CASE Origin(one, y)[1] = "param"
        <5>1. Origin(one, y) \in OriginClaims /\ <<y, Origin(one, y)>> \in Claimed(f)
          BY <1>7, <4>3, OriginOfName DEF OriginOk
        <5>2. PICK k \in 1..3 : Origin(one, y) = Param(k)
          BY <4>3, <5>1 DEF OriginClaims, NullOrigin
        <5>3. Param(k) \notin SlotClaims \cup {Owned}
          BY DEF SlotClaims, Owned, Param, Field
        <5>4. QED BY <2>2, <5>1, <5>2, <5>3, ClaimsTyped
      <4>4. QED BY <1>a, <4>1, <4>2, <4>3 DEF BaseIsCallerOwned, IsCallerOwned
    <3>4. <<x, Owned>> \in Claimed(f)
      BY <1>2, <1>3, <3>3, Carried
    <3>5. QED BY <3>1, <3>4 DEF OwnOk
  <2>3. QED BY <1>1, <2>1, <2>2
<1>8. Within(f, known, two)
  BY <1>7, <1>a, OwnerWithin DEF two
<1>9. QED BY <1>5, <1>6, <1>8, OriginWithin

LEMMA TransferLoad ==
    ASSUME NEW f, NEW known, WellTyped(f, known), NEW flow, Within(f, known, flow),
           NEW i \in InstsOf(f), i.op = "load"
    PROVE  Within(f, known, Transfer(Globals, flow, i))
<1> DEFINE a == i.args[1]
           x == i.res
           o == LoadOrigin(Globals, flow, a)
<1>1. x \in Locals /\ x # NoName /\ x \in Names
  BY InstIsApt DEF Apt, Shaped, Terminators, Locals, NoName, Names
<1>2. flow.spills = Spills(f)
  BY DEF Within
<1>3. OriginOk(f, x, o)
  <2>1. CASE a \in DOMAIN Spills(f)
    <3> DEFINE y == Spills(f)[a]
    <3>1. o = Origin(flow, y)
      BY <1>2, <2>1 DEF LoadOrigin
    <3>2. OriginOk(f, y, o)
      BY <3>1, OriginOfName
    <3>3. y \in Names
      BY <2>1, SpilledIs
    <3>4. Carries(f, y, x)
      BY <2>1 DEF Carries
    <3> HIDE DEF x, y, o
    <3>5. QED BY <1>1, <3>2, <3>3, <3>4, Carried DEF OriginOk
  <2>2. CASE a \notin DOMAIN Spills(f)
    <3>1. o = Unknown \/ \E s : o = SlotLoad(s)
      BY <1>2, <2>2 DEF LoadOrigin
    <3>2. \A s : SlotLoad(s)[1] = "slot" /\ SlotLoad(s) # NullOrigin
      BY DEF SlotLoad, NullOrigin
    <3>3. Unknown[1] # "param" /\ Unknown # NullOrigin
      BY DEF Unknown, NullOrigin
    <3> HIDE DEF o
    <3>4. QED BY <3>1, <3>2, <3>3 DEF OriginOk
  <2>3. QED BY <2>1, <2>2
<1>4. Transfer(Globals, flow, i) = WithOrigin(flow, x, o)
  BY <1>1 DEF Transfer
<1> HIDE DEF x, o
<1>5. QED BY <1>3, <1>4, OriginWithin

LEMMA TransferWithin ==
    ASSUME NEW f, NEW known, WellTyped(f, known), NEW flow, Within(f, known, flow), NEW i \in InstsOf(f)
    PROVE  Within(f, known, Transfer(Globals, flow, i))
<1>1. CASE i.res = NoName \/ i.op = "alloca"
  <2>1. CASE i.op \notin {"gep", "cast", "load"}
    BY <1>1, <2>1 DEF Transfer
  <2>2. CASE i.op \in {"gep", "cast", "load"}
    BY <2>2, TransferGep, TransferCast, TransferLoad
  <2>3. QED BY <2>1, <2>2
<1>2. CASE i.res # NoName /\ i.op \in {"gep", "cast", "load"}
  BY <1>2, TransferGep, TransferCast, TransferLoad
<1>3. CASE i.res # NoName /\ i.op \notin {"alloca", "gep", "cast", "load"}
  <2>1. Transfer(Globals, flow, i) = WithOrigin(flow, i.res, Unknown)
    BY <1>3 DEF Transfer
  <2>2. Unknown[1] # "param" /\ Unknown # NullOrigin
    BY DEF Unknown, NullOrigin
  <2>3. OriginOk(f, i.res, Unknown)
    BY <2>2 DEF OriginOk
  <2>4. QED BY <2>1, <2>3, OriginWithin
<1>4. QED BY <1>1, <1>2, <1>3

\* A round of solve, instruction by instruction, and solve, round by round.
Steps(insts, flow, n, u) ==
    u = [k \in 0..n |-> IF k = 0 THEN flow ELSE Transfer(Globals, u[k - 1], insts[k].inst)]
RoundOn(insts, r) ==
    IF r.done THEN r ELSE [flow |-> Round(Globals, insts, r.flow), done |-> Round(Globals, insts, r.flow) = r.flow]
Rounds(insts, flow, n, u) ==
    u = [k \in 0..n |-> IF k = 0 THEN [flow |-> flow, done |-> FALSE] ELSE RoundOn(insts, u[k - 1])]

LEMMA StepsAre == ASSUME NEW insts, NEW flow, NEW n \in Nat PROVE \E u : Steps(insts, flow, n, u)
<1> DEFINE T == {m \in Nat : \E u : Steps(insts, flow, m, u)}
<1>1. 0 \in T
  <2> DEFINE u == [b \in 0..0 |-> flow]
  <2>1. Steps(insts, flow, 0, u)
    BY DEF Steps
  <2>2. QED BY <2>1
<1>2. \A m \in Nat : m < n /\ m \in T => m + 1 \in T
  <2> SUFFICES ASSUME NEW m \in Nat, m \in T PROVE m + 1 \in T
    OBVIOUS
  <2>1. PICK u : Steps(insts, flow, m, u)
    OBVIOUS
  <2> DEFINE last == Transfer(Globals, u[m], insts[m + 1].inst)
             v == [b \in 0..(m + 1) |-> IF b = m + 1 THEN last ELSE u[b]]
  <2>2. \A b \in 0..m : u[b] = IF b = 0 THEN flow ELSE Transfer(Globals, u[b - 1], insts[b].inst)
    BY <2>1 DEF Steps
  <2>3. ASSUME NEW b \in 0..(m + 1) PROVE v[b] = IF b = 0 THEN flow ELSE Transfer(Globals, v[b - 1], insts[b].inst)
    <3>1. CASE b = m + 1
      <4>1. v[b] = last /\ b # 0 /\ b - 1 = m /\ v[m] = u[m]
        BY <3>1
      <4>2. QED BY <3>1, <4>1
    <3>2. CASE b # m + 1
      <4>1. b \in 0..m /\ v[b] = u[b]
        BY <3>2
      <4>2. b # 0 => b - 1 \in 0..(m + 1) /\ b - 1 # m + 1
        BY <4>1
      <4>3. b # 0 => v[b - 1] = u[b - 1]
        BY <4>2
      <4>4. QED BY <2>2, <4>1, <4>3
    <3>3. QED BY <3>1, <3>2
  <2>4. v = [b \in 0..(m + 1) |-> v[b]]
    OBVIOUS
  <2> HIDE DEF v
  <2>5. Steps(insts, flow, m + 1, v)
    BY <2>3, <2>4 DEF Steps
  <2>6. QED BY <2>5
<1> HIDE DEF T
<1>3. 0..n \subseteq T
  BY <1>1, <1>2, Upwards
<1>4. n \in T
  BY <1>3
<1>5. QED BY <1>4 DEF T

LEMMA RoundsAre == ASSUME NEW insts, NEW flow, NEW n \in Nat PROVE \E u : Rounds(insts, flow, n, u)
<1> DEFINE first == [flow |-> flow, done |-> FALSE]
           T == {m \in Nat : \E u : Rounds(insts, flow, m, u)}
<1>1. 0 \in T
  <2> DEFINE u == [b \in 0..0 |-> first]
  <2>1. Rounds(insts, flow, 0, u)
    BY DEF Rounds
  <2>2. QED BY <2>1
<1>2. \A m \in Nat : m < n /\ m \in T => m + 1 \in T
  <2> SUFFICES ASSUME NEW m \in Nat, m \in T PROVE m + 1 \in T
    OBVIOUS
  <2>1. PICK u : Rounds(insts, flow, m, u)
    OBVIOUS
  <2> DEFINE last == RoundOn(insts, u[m])
             v == [b \in 0..(m + 1) |-> IF b = m + 1 THEN last ELSE u[b]]
  <2>2. \A b \in 0..m : u[b] = IF b = 0 THEN first ELSE RoundOn(insts, u[b - 1])
    BY <2>1 DEF Rounds
  <2> HIDE DEF first
  <2>3. ASSUME NEW b \in 0..(m + 1) PROVE v[b] = IF b = 0 THEN first ELSE RoundOn(insts, v[b - 1])
    <3>1. CASE b = m + 1
      <4>1. v[b] = last /\ b # 0 /\ b - 1 = m /\ v[m] = u[m]
        BY <3>1
      <4>2. QED BY <3>1, <4>1
    <3>2. CASE b # m + 1
      <4>1. b \in 0..m /\ v[b] = u[b]
        BY <3>2
      <4>2. b # 0 => b - 1 \in 0..(m + 1) /\ b - 1 # m + 1
        BY <4>1
      <4>3. b # 0 => v[b - 1] = u[b - 1]
        BY <4>2
      <4>4. QED BY <2>2, <4>1, <4>3
    <3>3. QED BY <3>1, <3>2
  <2>4. v = [b \in 0..(m + 1) |-> v[b]]
    OBVIOUS
  <2> HIDE DEF v
  <2>5. Rounds(insts, flow, m + 1, v)
    BY <2>3, <2>4 DEF Rounds, first
  <2>6. QED BY <2>5
<1> HIDE DEF T
<1>3. 0..n \subseteq T
  BY <1>1, <1>2, Upwards
<1>4. n \in T
  BY <1>3
<1>5. QED BY <1>4 DEF T

LEMMA RoundWithin ==
    ASSUME NEW f, NEW known, WellTyped(f, known), NEW flow, Within(f, known, flow)
    PROVE  Within(f, known, Round(Globals, AllInsts(f), flow))
<1>1. Lists(AllInsts(f), f)
  BY AllInstsAre DEF IsTyped
<1>2. PICK n \in Nat : n = Len(AllInsts(f)) /\ \A k \in 1..n : AllInsts(f)[k].inst \in InstsOf(f)
  BY <1>1 DEF Lists
<1> DEFINE insts == AllInsts(f)
           u == CHOOSE u : Steps(insts, flow, n, u)
<1>3. Round(Globals, insts, flow) = u[n]
  BY <1>2 DEF Round, Steps
<1>4. Steps(insts, flow, n, u)
  BY StepsAre
<1> HIDE DEF u, insts
<1>5. \A k \in 0..n : u[k] = IF k = 0 THEN flow ELSE Transfer(Globals, u[k - 1], insts[k].inst)
  BY <1>4 DEF Steps
<1> DEFINE T == {k \in Nat : k <= n => Within(f, known, u[k])}
<1>6. 0 \in T
  BY <1>5
<1>7. \A k \in Nat : k < n /\ k \in T => k + 1 \in T
  <2> SUFFICES ASSUME NEW k \in Nat, k < n, Within(f, known, u[k]) PROVE Within(f, known, u[k + 1])
    OBVIOUS
  <2>1. k + 1 \in 0..n /\ k + 1 # 0 /\ (k + 1) - 1 = k /\ k + 1 \in 1..n
    OBVIOUS
  <2>2. u[k + 1] = Transfer(Globals, u[k], insts[k + 1].inst)
    BY <1>5, <2>1
  <2>3. insts[k + 1].inst \in InstsOf(f)
    BY <1>2, <2>1 DEF insts
  <2>4. QED BY <2>2, <2>3, TransferWithin
<1> HIDE DEF T
<1>8. n \in T
  <2>1. 0..n \subseteq T
    BY <1>6, <1>7, Upwards
  <2>2. QED BY <2>1
<1>9. QED BY <1>3, <1>8 DEF T, insts

LEMMA SolveWithin ==
    ASSUME NEW f, NEW known, WellTyped(f, known), NEW flow, Within(f, known, flow)
    PROVE  Within(f, known, Solve(Globals, AllInsts(f), flow))
<1>1. Lists(AllInsts(f), f)
  BY AllInstsAre DEF IsTyped
<1>2. PICK n \in Nat : n = Len(AllInsts(f)) + 1
  BY <1>1 DEF Lists
<1> DEFINE insts == AllInsts(f)
           u == CHOOSE u : Rounds(insts, flow, n, u)
<1>3. Solve(Globals, insts, flow) = u[n].flow
  BY <1>2 DEF Solve, Rounds, RoundOn
<1>4. Rounds(insts, flow, n, u)
  BY RoundsAre
<1> HIDE DEF u, insts
<1>5. \A k \in 0..n : u[k] = IF k = 0 THEN [flow |-> flow, done |-> FALSE] ELSE RoundOn(insts, u[k - 1])
  BY <1>4 DEF Rounds
<1> DEFINE T == {k \in Nat : k <= n => Within(f, known, u[k].flow)}
<1>6. 0 \in T
  <2>0. 0 \in 0..n
    OBVIOUS
  <2>1. u[0] = [flow |-> flow, done |-> FALSE]
    BY <1>5, <2>0
  <2>2. u[0].flow = flow
    BY <2>1
  <2>3. QED BY <2>2
<1>7. \A k \in Nat : k < n /\ k \in T => k + 1 \in T
  <2> SUFFICES ASSUME NEW k \in Nat, k < n, Within(f, known, u[k].flow) PROVE Within(f, known, u[k + 1].flow)
    OBVIOUS
  <2>1. k + 1 \in 0..n /\ k + 1 # 0 /\ (k + 1) - 1 = k
    OBVIOUS
  <2>2. u[k + 1] = RoundOn(insts, u[k])
    BY <1>5, <2>1
  <2>3. u[k + 1].flow = u[k].flow \/ u[k + 1].flow = Round(Globals, insts, u[k].flow)
    BY <2>2 DEF RoundOn
  <2>4. QED BY <2>3, RoundWithin DEF insts
<1> HIDE DEF T
<1>8. n \in T
  <2>1. 0..n \subseteq T
    BY <1>6, <1>7, Upwards
  <2>2. QED BY <2>1
<1>9. QED BY <1>3, <1>8 DEF T, insts

LEMMA FlowWithin ==
    ASSUME NEW f, NEW known, WellTyped(f, known)
    PROVE  Within(f, known, FlowOf(Globals, f))
<1> DEFINE which(p) == CHOOSE i \in DOMAIN f.params : f.params[i] = p
           first == [origins |-> [p \in ToSet(f.params) |-> Param(which(p))],
                     slots   |-> [n \in {} |-> NoSlot],
                     spills  |-> Spills(f),
                     owned   |-> {}]
<1>1. FlowOf(Globals, f) = Solve(Globals, AllInsts(f), first)
  BY DEF FlowOf, Spills
<1>2. ASSUME NEW p \in ToSet(f.params) PROVE OriginOk(f, p, Param(which(p)))
  <2>1. f.params = Params
    BY DEF WellTyped
  <2>2. \E k \in 1..3 : Params[k] = p
    BY <2>1 DEF ToSet, Params
  <2>3. DOMAIN Params = 1..3
    BY DEF Params
  <2>4. which(p) \in 1..3 /\ Params[which(p)] = p
    BY <2>1, <2>2, <2>3
  <2> HIDE DEF which
  <2>5. p \in Names
    BY <2>1 DEF Names
  <2>6. Param(which(p)) \in OriginClaims
    BY <2>4 DEF OriginClaims
  <2>7. Begins(f, p, Param(which(p)))
    BY <2>4 DEF Begins
  <2>8. Param(which(p)) \in Claims
    BY <2>6 DEF Claims
  <2>9. QED BY <2>5, <2>6, <2>7, <2>8, ClaimsHold DEF Holding, OriginOk
<1> HIDE DEF which
<1>3. DOMAIN first = {"origins", "slots", "spills", "owned"}
  OBVIOUS
<1>4. first.spills = Spills(f) /\ DOMAIN first.slots = {} /\ first.owned = {} /\ DOMAIN first.origins = ToSet(f.params)
      /\ \A p \in ToSet(f.params) : first.origins[p] = Param(which(p))
  OBVIOUS
<1> HIDE DEF first
<1>5. Within(f, known, first)
  BY <1>2, <1>3, <1>4 DEF Within
<1>6. QED BY <1>1, <1>5, SolveWithin

-----------------------------------------------------------------------------
(* Running a function: what is where.                                      *)

Values == {Null, Undef, Junk, <<"cb">>, <<"ud">>}
Cells(mem) == {Junk} \cup (DOMAIN mem \ {<<"@o">>})
Others == {<<"conn">>, <<"other">>}
OfType(mem, v, t) ==
    /\ t = "value" => v \in Values
    /\ t = "cell" => v \in Cells(mem)
    /\ t = "object" => v \in Others
    /\ t = "holder" => v = <<"@o">>
Spots == {<<n>> : n \in Locals}

MemoryOk(mem, handed) ==
    /\ Lasting \subseteq DOMAIN mem /\ DOMAIN mem \subseteq Lasting \cup Spots
    /\ mem[<<"@o">>] = <<"other">>
    /\ \A a \in DOMAIN mem : a # <<"@o">> => mem[a] \in Values
    /\ handed \subseteq Values \cup Cells(mem)

\* Whether what is claimed is so, of a value that is defined.
Meets(regs, v, c) ==
    \/ v = Undef
    \/ c = NullOrigin /\ v = Null
    \/ \E k \in 1..3 : c = Param(k) /\ v = regs[Params[k]]
    \/ c \in SlotClaims /\ v \in Lasting /\ SlotOf(v) = c
    \/ c = Owned /\ v # <<"other", "f">>
    \/ c \in LoadClaims
MeetsAll(f, regs, x, v) == \A c \in Claims : <<x, c>> \in Claimed(f) => Meets(regs, v, c)

\* The address of a spill is in its own register only, and what is there is what is stored.
RegisterOk(f, known, regs, mem, x, v) ==
    /\ x \in DOMAIN known => OfType(mem, v, known[x])
    /\ x \in DOMAIN Spills(f) => v = <<x>>
    /\ \A a \in DOMAIN Spills(f) : v = <<a>> => x = a
    /\ MeetsAll(f, regs, x, v)
SpillOk(f, regs, mem, handed, a) ==
    /\ <<a>> \notin handed
    /\ <<a>> \in DOMAIN mem => MeetsAll(f, regs, Spills(f)[a], mem[<<a>>])
CallOk(f, known, regs, mem, handed) ==
    /\ ToSet(Params) \subseteq DOMAIN regs /\ DOMAIN regs \subseteq ToSet(Params) \cup Locals
    /\ regs["conn"] = <<"conn">>
    /\ \A x \in DOMAIN regs : RegisterOk(f, known, regs, mem, x, regs[x])
    /\ \A a \in DOMAIN Spills(f) : SpillOk(f, regs, mem, handed, a)

LEMMA ParamsAre == /\ ToSet(Params) = {"cb", "ud", "conn"} /\ DOMAIN Params = 1..3
                   /\ Params[1] = "cb" /\ Params[2] = "ud" /\ Params[3] = "conn"
BY DEF ToSet, Params

LEMMA SpotIs ==
    ASSUME NEW a \in Locals
    PROVE  /\ <<a>> \notin Values /\ <<a>> \notin Others /\ <<a>> \notin Lasting /\ <<a>> # <<"@o">> /\ <<a>> \in Spots
           /\ a \notin Globals /\ a \notin ToSet(Params) /\ a # "null" /\ a # NoName /\ a \in Names /\ IsLocal(a)
<1>1. <<a>> \notin Values
  BY DEF Values, Locals, Null, Undef, Junk
<1>2. <<a>> \notin Others
  BY DEF Others, Locals
<1>3. <<a>> \notin Lasting
  <2>1. <<a>> \notin {<<"@g">>, <<"@h">>, <<"@o">>}
    BY DEF Locals
  <2>2. ASSUME NEW o \in Objects PROVE <<a>> # <<o, "f">>
    OBVIOUS
  <2>3. QED BY <2>1, <2>2 DEF Lasting
<1>4. <<a>> # <<"@o">> /\ <<a>> \in Spots
  BY DEF Locals, Spots
<1>5. a \notin Globals /\ a \notin ToSet(Params) /\ a # "null" /\ a # NoName /\ a \in Names
  BY ParamsAre DEF Locals, Globals, NoName, Names
<1>6. IsLocal(a)
  BY DEF Locals, Globals, IsLocal, Symbols
<1>7. QED BY <1>1, <1>2, <1>3, <1>4, <1>5, <1>6

LEMMA SpotsDiffer == ASSUME NEW a, NEW b, <<a>> = <<b>> PROVE a = b
OBVIOUS

LEMMA LastingAre ==
    /\ <<"@g">> \in Lasting /\ <<"@h">> \in Lasting /\ <<"@o">> \in Lasting /\ <<"conn", "f">> \in Lasting /\ <<"other", "f">> \in Lasting
    /\ SlotOf(<<"@g">>) = <<"@g">> /\ SlotOf(<<"@h">>) = <<"@h">>
    /\ SlotOf(<<"conn", "f">>) = Field /\ SlotOf(<<"other", "f">>) = Field
<1>1. /\ <<"@g">> \in Lasting /\ <<"@h">> \in Lasting /\ <<"@o">> \in Lasting
      /\ <<"conn", "f">> \in Lasting /\ <<"other", "f">> \in Lasting
  BY DEF Lasting, Objects
<1>2. SlotOf(<<"@g">>) = <<"@g">> /\ SlotOf(<<"@h">>) = <<"@h">>
  BY DEF SlotOf, Objects
<1>3. \A o \in Objects : SlotOf(<<o, "f">>) = Field
  <2> SUFFICES ASSUME NEW o \in Objects PROVE SlotOf(<<o, "f">>) = Field
    OBVIOUS
  <2>1. Tail(<<o, "f">>) = <<"f">>
    OBVIOUS
  <2>2. <<o, "f">>[1] = o
    OBVIOUS
  <2>3. SlotOf(<<o, "f">>) = <<"S">> \o <<"f">>
    BY <2>1, <2>2 DEF SlotOf
  <2>4. QED BY <2>3, FieldIs
<1>4. QED BY <1>1, <1>2, <1>3 DEF Objects

LEMMA ResIs ==
    ASSUME NEW f, NEW known, WellTyped(f, known), NEW i \in InstsOf(f)
    PROVE  i.res = NoName \/ i.res \in Locals
BY InstIsApt DEF Apt

\* What is claimed of a name that no instruction makes.
LEMMA ClaimsOfGiven ==
    ASSUME NEW f, NEW known, WellTyped(f, known), NEW x, x \notin Locals, x # NoName, NEW c, <<x, c>> \in Claimed(f)
    PROVE  \/ \E k \in 1..3 : x = Params[k] /\ c = Param(k)
           \/ x = "null" /\ c = NullOrigin
           \/ x \in {"@g", "@h"} /\ (c = <<x>> \/ c = Owned)
<1>1. \A i \in InstsOf(f) : i.res # x
  BY ResIs
<1>2. \A y \in Names : ~Carries(f, y, x) /\ ~Reads(f, y, x)
  BY <1>1 DEF Carries, Reads
<1>3. Begins(f, x, c)
  BY <1>2, ClaimsComeFrom DEF IsCarried, IsRead
<1>4. QED BY <1>1, <1>3 DEF Begins

ValueIn(regs, x) == CASE x = "null" -> Null [] x \in Symbols -> <<x>> [] OTHER -> regs[x]
Defined(regs, x) == IsLocal(x) => x \in DOMAIN regs

LEMMA NullOk ==
    ASSUME NEW f, NEW known, WellTyped(f, known), NEW regs
    PROVE  ValueIn(regs, "null") = Null /\ MeetsAll(f, regs, "null", Null)
<1>1. "null" \notin Locals /\ "null" # NoName /\ "null" \notin {"@g", "@h"} /\ "null" \notin {"cb", "ud", "conn"}
  BY DEF Locals, NoName
<1>2. ASSUME NEW c, <<"null", c>> \in Claimed(f) PROVE c = NullOrigin
  <2>1. \/ \E k \in 1..3 : "null" = Params[k] /\ c = Param(k)
        \/ "null" = "null" /\ c = NullOrigin
        \/ "null" \in {"@g", "@h"} /\ (c = <<"null">> \/ c = Owned)
    BY <1>1, <1>2, ClaimsOfGiven
  <2>2. \A k \in 1..3 : Params[k] # "null"
    BY ParamsAre
  <2>3. QED BY <1>1, <2>1, <2>2
<1>3. MeetsAll(f, regs, "null", Null)
  BY <1>2 DEF MeetsAll, Meets
<1>4. ValueIn(regs, "null") = Null
  BY DEF ValueIn, Symbols
<1>5. QED BY <1>3, <1>4

LEMMA ValueOk ==
    ASSUME NEW f, NEW known, WellTyped(f, known), NEW regs, NEW mem, NEW handed,
           MemoryOk(mem, handed), CallOk(f, known, regs, mem, handed), NEW x \in DOMAIN known, Defined(regs, x)
    PROVE  RegisterOk(f, known, regs, mem, x, ValueIn(regs, x))
<1> DEFINE v == ValueIn(regs, x)
<1>1. /\ x \in Names /\ x # "null"
      /\ x \in Globals => (x = "@o" /\ known[x] = "holder") \/ (x \in {"@g", "@h"} /\ known[x] = "cell")
      /\ x \notin Globals => IsLocal(x)
  BY NamesAre DEF WellTyped
<1>2. CASE IsLocal(x)
  <2>1. x \in DOMAIN regs
    BY <1>2 DEF Defined
  <2>2. v = regs[x]
    BY <1>2 DEF ValueIn, IsLocal
  <2>3. QED BY <2>1, <2>2 DEF CallOk
<1>3. CASE ~IsLocal(x)
  <2>1. v = <<x>>
    BY <1>1, <1>3 DEF ValueIn, IsLocal
  <2>2. x \in {"@o", "@g", "@h"}
    BY <1>1, <1>3
  <2>3. x \notin Locals /\ x # NoName /\ x # "null" /\ \A k \in 1..3 : Params[k] # x
    BY <2>2, ParamsAre DEF Locals, NoName
  <2>4. \A a \in DOMAIN Spills(f) : a \in Locals
    BY SpilledIs
  <2>5. x \notin DOMAIN Spills(f) /\ \A a \in DOMAIN Spills(f) : v # <<a>>
    BY <2>1, <2>3, <2>4
  <2>6. OfType(mem, v, known[x])
    <3>1. CASE x = "@o"
      <4>1. known[x] = "holder"
        BY <1>1, <3>1 DEF Globals
      <4>2. QED BY <2>1, <3>1, <4>1 DEF OfType
    <3>2. CASE x \in {"@g", "@h"}
      <4>1. known[x] = "cell"
        BY <1>1, <3>2 DEF Globals
      <4>2. v \in DOMAIN mem /\ v # <<"@o">>
        BY <2>1, <3>2, LastingAre DEF MemoryOk
      <4>3. v \in Cells(mem)
        BY <4>2 DEF Cells
      <4>4. QED BY <4>1, <4>3 DEF OfType
    <3>3. QED BY <2>2, <3>1, <3>2
  <2>7. MeetsAll(f, regs, x, v)
    <3> SUFFICES ASSUME NEW c \in Claims, <<x, c>> \in Claimed(f) PROVE Meets(regs, v, c)
      BY DEF MeetsAll
    <3>1. x \in {"@g", "@h"} /\ (c = <<x>> \/ c = Owned)
      BY <2>3, ClaimsOfGiven
    <3>2. v \in Lasting /\ SlotOf(v) = <<x>> /\ v # <<"other", "f">>
      BY <2>1, <3>1, LastingAre
    <3>3. c = <<x>> => c \in SlotClaims
      BY <3>1 DEF SlotClaims
    <3>4. QED BY <3>1, <3>2, <3>3 DEF Meets
  <2> HIDE DEF v
  <2>8. QED BY <2>5, <2>6, <2>7 DEF RegisterOk, v
<1>4. QED BY <1>2, <1>3

\* A register is written.
LEMMA RegisterWritten ==
    ASSUME NEW f, NEW known, WellTyped(f, known), NEW regs, NEW mem, NEW handed,
           CallOk(f, known, regs, mem, handed),
           NEW x \in Locals, NEW v, RegisterOk(f, known, regs, mem, x, v)
    PROVE  CallOk(f, known, Put(regs, x, v), mem, handed)
<1> DEFINE more == Put(regs, x, v)
<1>1. /\ DOMAIN more = DOMAIN regs \cup {x} /\ more[x] = v
      /\ \A y \in DOMAIN regs : y # x => more[y] = regs[y]
  BY DEF Put
<1> HIDE DEF more
<1>2. \A k \in 1..3 : more[Params[k]] = regs[Params[k]]
  <2>1. \A k \in 1..3 : Params[k] \in ToSet(Params)
    BY ParamsAre DEF ToSet
  <2>2. \A k \in 1..3 : Params[k] \in DOMAIN regs /\ Params[k] # x
    BY <2>1, SpotIs DEF CallOk
  <2>3. QED BY <1>1, <2>2
<1>3. \A w, c : Meets(regs, w, c) => Meets(more, w, c)
  BY <1>2 DEF Meets
<1>4. \A y, w : MeetsAll(f, regs, y, w) => MeetsAll(f, more, y, w)
  BY <1>3 DEF MeetsAll
<1>5. \A y, w : RegisterOk(f, known, regs, mem, y, w) => RegisterOk(f, known, more, mem, y, w)
  BY <1>4 DEF RegisterOk
<1>6. \A y \in DOMAIN more : RegisterOk(f, known, more, mem, y, more[y])
  BY <1>1, <1>5 DEF CallOk
<1>7. \A a \in DOMAIN Spills(f) : SpillOk(f, more, mem, handed, a)
  BY <1>4 DEF CallOk, SpillOk
<1>8. /\ ToSet(Params) \subseteq DOMAIN more /\ DOMAIN more \subseteq ToSet(Params) \cup Locals
      /\ more["conn"] = <<"conn">>
  BY <1>1, <1>2, ParamsAre DEF CallOk
<1>9. QED BY <1>6, <1>7, <1>8 DEF CallOk, more

\* A name is made by one instruction, and what is claimed of it comes from there.
LEMMA MadeOnce ==
    ASSUME NEW f, NEW known, WellTyped(f, known), NEW i \in InstsOf(f), i.res # NoName
    PROVE  /\ \A j \in InstsOf(f) : j.res = i.res => j = i
           /\ i.res \in DOMAIN Spills(f) => i.op = "alloca"
<1>1. \A j \in InstsOf(f) : j.res = i.res => j = i
  BY DEF WellTyped, Once
<1>2. ASSUME i.res \in DOMAIN Spills(f) PROVE i.op = "alloca"
  <2>1. IsSpill(f, i.res)
    BY <1>2, SpillsAre DEF IsTyped
  <2>2. QED BY <1>1, <2>1 DEF IsSpill
<1>3. QED BY <1>1, <1>2

LEMMA ClaimsOfResult ==
    ASSUME NEW f, NEW known, WellTyped(f, known), NEW i \in InstsOf(f), i.res \in Locals,
           NEW c, <<i.res, c>> \in Claimed(f)
    PROVE  \/ c = Field /\ i.op = "gep" /\ i.type = "S"
           \/ i.op = "cast" /\ <<i.args[1], c>> \in Claimed(f)
           \/ i.op = "load" /\ i.args[1] \in DOMAIN Spills(f) /\ <<Spills(f)[i.args[1]], c>> \in Claimed(f)
           \/ c = Owned /\ i.op = "gep" /\ i.type = "S" /\ i.args[1] = "conn"
           \/ i.op = "load" /\ \E s \in SlotClaims : c = SlotLoad(s) /\ <<i.args[1], s>> \in Claimed(f)
<1> DEFINE x == i.res
<1>1. x \in Locals /\ x # NoName /\ x # "null" /\ x \notin {"@g", "@h"} /\ \A k \in 1..3 : x # Params[k]
  BY ParamsAre DEF Locals, NoName
<1>2. \A j \in InstsOf(f) : j.res = x => j = i
  BY <1>1, MadeOnce
<1>3. <<x, c>> \in Claimed(f)
  OBVIOUS
<1> HIDE DEF x
<1>4. CASE Begins(f, x, c)
  BY <1>1, <1>2, <1>4 DEF Begins
<1>5. CASE IsCarried(f, x, c)
  <2>1. PICK y \in Names : Carries(f, y, x) /\ <<y, c>> \in Claimed(f)
    BY <1>5 DEF IsCarried
  <2>2. PICK j \in InstsOf(f) :
            /\ j.res = x
            /\ \/ j.op = "cast" /\ y = j.args[1]
               \/ j.op = "load" /\ j.args[1] \in DOMAIN Spills(f) /\ y = Spills(f)[j.args[1]]
    BY <2>1 DEF Carries
  <2>3. j = i
    BY <1>2, <2>2
  <2>4. QED BY <2>1, <2>2, <2>3
<1>6. CASE IsRead(f, x, c)
  <2>1. PICK y \in Names, s \in SlotClaims : Reads(f, y, x) /\ <<y, s>> \in Claimed(f) /\ c = SlotLoad(s)
    BY <1>6 DEF IsRead
  <2>2. PICK j \in InstsOf(f) : j.res = x /\ j.op = "load" /\ y = j.args[1]
    BY <2>1 DEF Reads
  <2>3. j = i
    BY <1>2, <2>2
  <2>4. QED BY <2>1, <2>2, <2>3
<1>7. Begins(f, x, c) \/ IsCarried(f, x, c) \/ IsRead(f, x, c)
  BY <1>3, ClaimsComeFrom
<1>8. QED BY <1>4, <1>5, <1>6, <1>7 DEF x

\* More memory, or what is in it, for the registers.
LEMMA CellsStay ==
    ASSUME NEW mem, NEW more, DOMAIN mem \subseteq DOMAIN more
    PROVE  \A v, t : OfType(mem, v, t) => OfType(more, v, t)
BY DEF OfType, Cells

LEMMA MemoryChanges ==
    ASSUME NEW f, NEW known, NEW regs, NEW mem, NEW handed, CallOk(f, known, regs, mem, handed),
           NEW more, DOMAIN mem \subseteq DOMAIN more, NEW wider,
           \A a \in DOMAIN Spills(f) : SpillOk(f, regs, more, wider, a)
    PROVE  CallOk(f, known, regs, more, wider)
<1>1. \A x, v : RegisterOk(f, known, regs, mem, x, v) => RegisterOk(f, known, regs, more, x, v)
  BY CellsStay DEF RegisterOk
<1>2. QED BY <1>1 DEF CallOk

-----------------------------------------------------------------------------
(* One step of a call, for each kind of instruction.                       *)

\* The state of a call of f before an instruction of f whose operands are defined.
Before(f, known, regs, mem, handed, i) ==
    /\ WellTyped(f, known) /\ i \in InstsOf(f)
    /\ MemoryOk(mem, handed) /\ CallOk(f, known, regs, mem, handed)
    /\ \A k \in DOMAIN i.args : Defined(regs, i.args[k])
After(f, known, regs, mem, handed) == MemoryOk(mem, handed) /\ CallOk(f, known, regs, mem, handed)

\* The operand of an instruction of one operand.
LEMMA OperandOk ==
    ASSUME NEW f, NEW known, NEW regs, NEW mem, NEW handed, NEW i, Before(f, known, regs, mem, handed, i),
           NEW k \in DOMAIN i.args, i.args[k] \in DOMAIN known
    PROVE  RegisterOk(f, known, regs, mem, i.args[k], ValueIn(regs, i.args[k]))
<1>1. Defined(regs, i.args[k])
  BY DEF Before
<1>2. QED BY <1>1, ValueOk DEF Before

LEMMA RunAlloca ==
    ASSUME NEW f, NEW known, NEW regs, NEW mem, NEW handed, NEW i, Before(f, known, regs, mem, handed, i), i.op = "alloca"
    PROVE  After(f, known, Put(regs, i.res, <<i.res>>), Put(mem, <<i.res>>, Undef), handed)
<1> DEFINE x == i.res
           more == Put(mem, <<x>>, Undef)
<1>1. WellTyped(f, known) /\ i \in InstsOf(f) /\ MemoryOk(mem, handed) /\ CallOk(f, known, regs, mem, handed)
  BY DEF Before
<1>2. Apt(known, i) /\ x \in Locals /\ x # NoName
  BY <1>1, InstIsApt, SpotIs DEF Terminators, Apt, Shaped
<1>3. x \in DOMAIN known /\ known[x] = "cell"
  BY <1>2 DEF Apt, Made
<1>4. /\ DOMAIN more = DOMAIN mem \cup {<<x>>} /\ more[<<x>>] = Undef
      /\ \A a \in DOMAIN mem : a # <<x>> => more[a] = mem[a]
  BY DEF Put
<1> HIDE DEF more, x
<1>5. <<x>> \in Spots /\ <<x>> # <<"@o">>
  BY <1>2, SpotIs
<1>6. MemoryOk(more, handed)
  <2>1. Undef \in Values /\ <<"@o">> \in DOMAIN mem
    BY <1>1, LastingAre DEF MemoryOk, Values
  <2>2. \A a \in DOMAIN more : a # <<"@o">> => more[a] \in Values
    BY <1>1, <1>4, <2>1 DEF MemoryOk
  <2>3. Cells(mem) \subseteq Cells(more)
    BY <1>4 DEF Cells
  <2>4. QED BY <1>1, <1>4, <1>5, <2>1, <2>2, <2>3 DEF MemoryOk
<1>7. CallOk(f, known, regs, more, handed)
  <2>1. ASSUME NEW a \in DOMAIN Spills(f) PROVE SpillOk(f, regs, more, handed, a)
    <3>1. SpillOk(f, regs, mem, handed, a)
      BY <1>1 DEF CallOk
    <3>2. \A y : MeetsAll(f, regs, y, Undef)
      BY DEF MeetsAll, Meets
    <3>3. QED BY <1>4, <3>1, <3>2 DEF SpillOk
  <2>2. DOMAIN mem \subseteq DOMAIN more
    BY <1>4
  <2>3. QED BY <1>1, <2>1, <2>2, MemoryChanges
<1>8. RegisterOk(f, known, regs, more, x, <<x>>)
  <2>1. OfType(more, <<x>>, "cell")
    BY <1>4, <1>5 DEF OfType, Cells
  <2>2. \A a \in DOMAIN Spills(f) : <<x>> = <<a>> => x = a
    BY SpotsDiffer
  <2>3. \A c : <<x, c>> \notin Claimed(f)
    BY <1>1, <1>2, ClaimsOfResult DEF x
  <2>4. MeetsAll(f, regs, x, <<x>>)
    BY <2>3 DEF MeetsAll
  <2>5. QED BY <1>3, <2>1, <2>2, <2>4 DEF RegisterOk
<1>9. CallOk(f, known, Put(regs, x, <<x>>), more, handed)
  BY <1>1, <1>2, <1>7, <1>8, RegisterWritten
<1>10. QED BY <1>6, <1>9 DEF After, x, more

LEMMA RunStore ==
    ASSUME NEW f, NEW known, NEW regs, NEW mem, NEW handed, NEW i, Before(f, known, regs, mem, handed, i), i.op = "store",
           NEW v, v = ValueIn(regs, i.args[1]), NEW d, d = ValueIn(regs, i.args[2]), d \in DOMAIN mem
    PROVE  After(f, known, regs, [mem EXCEPT ![d] = v], handed)
<1> DEFINE more == [mem EXCEPT ![d] = v]
<1>1. WellTyped(f, known) /\ i \in InstsOf(f) /\ MemoryOk(mem, handed) /\ CallOk(f, known, regs, mem, handed)
  BY DEF Before
<1>2. /\ DOMAIN i.args = 1..2 /\ i.args[1] \in ValuesIn(known) \cup {"null"} /\ i.args[2] \in CellsIn(known)
  BY <1>1, InstIsApt DEF Terminators, Apt, Shaped
<1>3. RegisterOk(f, known, regs, mem, i.args[2], d)
  BY <1>2, OperandOk DEF CellsIn, Typed
<1>4. d \in Cells(mem)
  BY <1>2, <1>3 DEF RegisterOk, OfType, CellsIn, Typed
<1>5. v \in Values /\ MeetsAll(f, regs, i.args[1], v)
  <2>1. CASE i.args[1] = "null"
    BY <1>1, <2>1, NullOk DEF Values
  <2>2. CASE i.args[1] \in ValuesIn(known)
    <3>1. RegisterOk(f, known, regs, mem, i.args[1], v)
      BY <1>2, <2>2, OperandOk DEF ValuesIn, Typed
    <3>2. QED BY <2>2, <3>1 DEF RegisterOk, OfType, ValuesIn, Typed
  <2>3. QED BY <1>2, <2>1, <2>2
<1>6. DOMAIN more = DOMAIN mem /\ more[d] = v /\ \A a \in DOMAIN mem : a # d => more[a] = mem[a]
  OBVIOUS
<1>7. d # <<"@o">>
  <2>1. Junk # <<"@o">>
    BY DEF Junk
  <2>2. QED BY <1>4, <2>1 DEF Cells
<1> HIDE DEF more
<1>8. MemoryOk(more, handed)
  <2>1. Cells(more) = Cells(mem)
    BY <1>6 DEF Cells
  <2>2. <<"@o">> \in DOMAIN mem
    BY <1>1, LastingAre DEF MemoryOk
  <2>3. QED BY <1>1, <1>5, <1>6, <1>7, <2>1, <2>2 DEF MemoryOk
<1>9. ASSUME NEW a \in DOMAIN Spills(f) PROVE SpillOk(f, regs, more, handed, a)
  <2>1. SpillOk(f, regs, mem, handed, a)
    BY <1>1 DEF CallOk
  <2>2. CASE d # <<a>>
    BY <1>6, <2>1, <2>2 DEF SpillOk
  <2>3. CASE d = <<a>>
    <3>1. i.args[2] = a
      BY <1>3, <2>3 DEF RegisterOk
    <3>2. Mentions(i, a)
      BY <1>2, <3>1 DEF Mentions
    <3>3. i.args[1] = Spills(f)[a]
      BY <1>1, <3>2, SpillsAre DEF IsSpill, IsTyped
    <3>4. QED BY <1>5, <1>6, <2>1, <2>3, <3>3 DEF SpillOk
  <2>4. QED BY <2>2, <2>3
<1>10. CallOk(f, known, regs, more, handed)
  BY <1>1, <1>6, <1>9, MemoryChanges
<1>11. QED BY <1>8, <1>10 DEF After, more

\* The registers after an instruction that writes one and leaves the memory alone.
LEMMA RunResult ==
    ASSUME NEW f, NEW known, NEW regs, NEW mem, NEW handed, NEW i, Before(f, known, regs, mem, handed, i),
           i.op \in {"load", "gep", "cast", "other"}, NEW v,
           OfType(mem, v, known[i.res]), \A a \in DOMAIN Spills(f) : v # <<a>>,
           MeetsAll(f, regs, i.res, v)
    PROVE  After(f, known, Put(regs, i.res, v), mem, handed)
<1>1. WellTyped(f, known) /\ i \in InstsOf(f) /\ MemoryOk(mem, handed) /\ CallOk(f, known, regs, mem, handed)
  BY DEF Before
<1>2. i.res \in Locals /\ i.res # NoName
  BY <1>1, InstIsApt, SpotIs DEF Terminators, Apt, Shaped
<1>3. i.res \notin DOMAIN Spills(f)
  BY <1>1, <1>2, MadeOnce
<1>4. RegisterOk(f, known, regs, mem, i.res, v)
  BY <1>3 DEF RegisterOk
<1>5. QED BY <1>1, <1>2, <1>4, RegisterWritten DEF After

LEMMA RunLoad ==
    ASSUME NEW f, NEW known, NEW regs, NEW mem, NEW handed, NEW i, Before(f, known, regs, mem, handed, i), i.op = "load",
           NEW d, d = ValueIn(regs, i.args[1]), d \in DOMAIN mem
    PROVE  After(f, known, Put(regs, i.res, mem[d]), mem, handed)
<1> DEFINE src == i.args[1]
           v == mem[d]
<1>1. WellTyped(f, known) /\ i \in InstsOf(f) /\ MemoryOk(mem, handed) /\ CallOk(f, known, regs, mem, handed)
  BY DEF Before
<1>2. /\ DOMAIN i.args = 1..1 /\ src \in DOMAIN known /\ known[src] \in {"cell", "holder"}
      /\ i.res \in Locals /\ i.res # NoName /\ known[i.res] = Made(known, i)
  BY <1>1, InstIsApt, SpotIs DEF Terminators, Apt, Shaped, CellsIn, Typed
<1>3. RegisterOk(f, known, regs, mem, src, d)
  BY <1>2, OperandOk
<1>4. (known[src] = "cell" => d # <<"@o">>) /\ (known[src] = "holder" => d = <<"@o">>)
  <2>1. Junk # <<"@o">>
    BY DEF Junk
  <2>2. QED BY <1>2, <1>3, <2>1 DEF RegisterOk, OfType, Cells
<1>5. \/ known[src] = "cell" /\ v \in Values /\ known[i.res] = "value"
      \/ known[src] = "holder" /\ v \in Others /\ known[i.res] = "object"
  BY <1>1, <1>2, <1>4 DEF Made, MemoryOk, Others
<1>6. OfType(mem, v, known[i.res])
  BY <1>5 DEF OfType
<1>7. \A a \in DOMAIN Spills(f) : v # <<a>>
  BY <1>1, <1>5, SpotIs, SpilledIs
<1>8. MeetsAll(f, regs, i.res, v)
  <2> SUFFICES ASSUME NEW c \in Claims, <<i.res, c>> \in Claimed(f) PROVE Meets(regs, v, c)
    BY DEF MeetsAll
  <2>1. \/ src \in DOMAIN Spills(f) /\ <<Spills(f)[src], c>> \in Claimed(f)
        \/ \E s \in SlotClaims : c = SlotLoad(s)
    BY <1>1, <1>2, ClaimsOfResult
  <2>2. CASE src \in DOMAIN Spills(f) /\ <<Spills(f)[src], c>> \in Claimed(f)
    <3>1. d = <<src>>
      BY <1>3, <2>2 DEF RegisterOk
    <3>2. SpillOk(f, regs, mem, handed, src)
      BY <1>1, <2>2 DEF CallOk
    <3>3. MeetsAll(f, regs, Spills(f)[src], v)
      BY <3>1, <3>2 DEF SpillOk
    <3>4. QED BY <2>2, <3>3 DEF MeetsAll
  <2>3. CASE \E s \in SlotClaims : c = SlotLoad(s)
    BY <2>3, LoadClaimIs DEF Meets
  <2>4. QED BY <2>1, <2>2, <2>3
<1> HIDE DEF v
<1>9. After(f, known, Put(regs, i.res, v), mem, handed)
  BY <1>6, <1>7, <1>8, RunResult
<1>10. QED BY <1>9 DEF v

\* What a spill is handed to.
LEMMA NotMentioned ==
    ASSUME NEW f, NEW known, WellTyped(f, known), NEW i \in InstsOf(f), NEW k \in DOMAIN i.args,
           i.op \notin {"store", "load", "call"} \/ (i.op = "call" /\ ~IsNonEscapingIntrinsic(i.args[1]))
    PROVE  i.args[k] \notin DOMAIN Spills(f)
<1> SUFFICES ASSUME i.args[k] \in DOMAIN Spills(f) PROVE FALSE
  OBVIOUS
<1>1. IsSpill(f, i.args[k])
  BY SpillsAre DEF IsTyped
<1>2. Mentions(i, i.args[k])
  BY DEF Mentions
<1>3. QED BY <1>1, <1>2 DEF IsSpill

LEMMA RunCast ==
    ASSUME NEW f, NEW known, NEW regs, NEW mem, NEW handed, NEW i, Before(f, known, regs, mem, handed, i),
           i.op \in {"cast", "other"}, NEW v, v = ValueIn(regs, i.args[1]) \/ (i.op = "other" /\ v = Junk)
    PROVE  After(f, known, Put(regs, i.res, v), mem, handed)
<1> DEFINE y == i.args[1]
<1>1. WellTyped(f, known) /\ i \in InstsOf(f)
  BY DEF Before
<1>2. /\ DOMAIN i.args = 1..1 /\ 1 \in DOMAIN i.args /\ y \in DOMAIN known /\ known[y] \in {"value", "cell"}
      /\ i.res \in Locals /\ i.res # NoName /\ known[i.res] = known[y]
  <2>1. Apt(known, i)
    BY <1>1, InstIsApt DEF Terminators
  <2>2. DOMAIN i.args = 1..1 /\ y \in ValuesIn(known) \cup CellsIn(known) /\ i.res \in Locals
    BY <2>1 DEF Apt, Shaped
  <2>3. i.res # NoName /\ known[i.res] = known[y]
    BY <2>1, <2>2, SpotIs DEF Apt, Made
  <2> HIDE DEF y
  <2>4. QED BY <2>2, <2>3 DEF ValuesIn, CellsIn, Typed
<1>3. RegisterOk(f, known, regs, mem, y, ValueIn(regs, y))
  BY <1>2, OperandOk
<1>4. y \notin DOMAIN Spills(f)
  BY <1>1, <1>2, NotMentioned
<1>5. \A a \in DOMAIN Spills(f) : Junk # <<a>>
  BY <1>1, SpotIs, SpilledIs DEF Values
<1>6. OfType(mem, v, known[i.res])
  BY <1>2, <1>3 DEF RegisterOk, OfType, Values, Cells
<1>7. \A a \in DOMAIN Spills(f) : v # <<a>>
  BY <1>3, <1>4, <1>5 DEF RegisterOk
<1>8. MeetsAll(f, regs, i.res, v)
  <2> SUFFICES ASSUME NEW c \in Claims, <<i.res, c>> \in Claimed(f) PROVE Meets(regs, v, c)
    BY DEF MeetsAll
  <2>1. i.op = "cast" /\ <<y, c>> \in Claimed(f)
    BY <1>1, <1>2, ClaimsOfResult
  <2>2. QED BY <1>3, <2>1 DEF RegisterOk, MeetsAll
<1>9. QED BY <1>6, <1>7, <1>8, RunResult

LEMMA RunGep ==
    ASSUME NEW f, NEW known, NEW regs, NEW mem, NEW handed, NEW i, Before(f, known, regs, mem, handed, i), i.op = "gep",
           NEW w, w = ValueIn(regs, i.args[1]), NEW v, v = IF i.type = "S" THEN w \o i.path ELSE w
    PROVE  After(f, known, Put(regs, i.res, v), mem, handed)
<1> DEFINE y == i.args[1]
<1>1. WellTyped(f, known) /\ i \in InstsOf(f) /\ MemoryOk(mem, handed)
  BY DEF Before
<1>2. /\ DOMAIN i.args = 1..1 /\ 1 \in DOMAIN i.args /\ y \in DOMAIN known
      /\ \/ i.type = "S" /\ i.path = <<"f">> /\ known[y] = "object"
         \/ i.type = "bytes" /\ known[y] = "value"
      /\ i.res \in Locals /\ i.res # NoName /\ known[i.res] = Made(known, i)
  <2>1. Apt(known, i)
    BY <1>1, InstIsApt DEF Terminators
  <2>2. /\ DOMAIN i.args = 1..1
        /\ \/ i.type = "S" /\ i.path = <<"f">> /\ y \in Typed(known, "object")
           \/ i.type = "bytes" /\ y \in ValuesIn(known)
        /\ i.res \in Locals
    BY <2>1 DEF Apt, Shaped
  <2>3. i.res # NoName /\ known[i.res] = Made(known, i)
    BY <2>1, <2>2, SpotIs DEF Apt
  <2> HIDE DEF y
  <2>4. QED BY <2>2, <2>3 DEF ValuesIn, Typed
<1>3. RegisterOk(f, known, regs, mem, y, w)
  BY <1>2, OperandOk
<1>4. CASE i.type = "S"
  <2>1. w \in Others /\ v = w \o <<"f">>
    BY <1>2, <1>3, <1>4 DEF RegisterOk, OfType
  <2>2. v \in {<<"conn", "f">>, <<"other", "f">>}
    BY <2>1, PathIs DEF Others
  <2>3. v \in Lasting /\ SlotOf(v) = Field /\ v # <<"@o">>
    <3>1. <<"conn", "f">> # <<"@o">> /\ <<"other", "f">> # <<"@o">>
      OBVIOUS
    <3>2. QED BY <2>2, <3>1, LastingAre
  <2>4. known[i.res] = "cell"
    BY <1>2, <1>4 DEF Made
  <2>5. v \in Cells(mem)
    BY <1>1, <2>3 DEF Cells, MemoryOk
  <2>6. OfType(mem, v, known[i.res])
    BY <2>4, <2>5 DEF OfType
  <2>7. \A a \in DOMAIN Spills(f) : v # <<a>>
    BY <1>1, <2>3, SpotIs, SpilledIs
  <2>8. ASSUME NEW c \in Claims, <<i.res, c>> \in Claimed(f) PROVE Meets(regs, v, c)
    <3>1. c = Field \/ (c = Owned /\ y = "conn")
      BY <1>1, <1>2, <2>8, ClaimsOfResult
    <3>2. Field \in SlotClaims
      BY DEF SlotClaims
    <3>3. ASSUME y = "conn" PROVE v # <<"other", "f">>
      <4>1. w = <<"conn">>
        BY <3>3 DEF ValueIn, Symbols, Before, CallOk
      <4>2. v = <<"conn", "f">>
        BY <2>1, <4>1, PathIs
      <4>3. <<"conn", "f">> # <<"other", "f">>
        OBVIOUS
      <4>4. QED BY <4>2, <4>3
    <3>4. QED BY <2>3, <3>1, <3>2, <3>3 DEF Meets
  <2>9. MeetsAll(f, regs, i.res, v)
    BY <2>8 DEF MeetsAll
  <2>10. QED BY <2>6, <2>7, <2>9, RunResult
<1>5. CASE i.type # "S"
  <2>1. v = w /\ known[y] = "value" /\ known[i.res] = "value"
    BY <1>2, <1>5 DEF Made
  <2>2. v \in Values
    BY <1>2, <1>3, <2>1 DEF RegisterOk, OfType
  <2>3. OfType(mem, v, known[i.res])
    BY <2>1, <2>2 DEF OfType
  <2>4. \A a \in DOMAIN Spills(f) : v # <<a>>
    BY <1>1, <2>2, SpotIs, SpilledIs
  <2>5. \A c : <<i.res, c>> \notin Claimed(f)
    BY <1>1, <1>2, <1>5, ClaimsOfResult
  <2>6. MeetsAll(f, regs, i.res, v)
    BY <2>5 DEF MeetsAll
  <2>7. QED BY <2>3, <2>4, <2>6, RunResult
<1>6. QED BY <1>4, <1>5

\* Unknown code keeps what it is handed and what is under it, and writes there.
Escapes(mem, handed, v, under, wider, over, more) ==
    /\ under = (handed \cup {v}) \cap DOMAIN mem /\ over \subseteq under
    /\ \A u \in wider : u \in handed \cup {v} \/ \E a \in under : u = mem[a]
    /\ DOMAIN more = DOMAIN mem
    /\ \A a \in DOMAIN mem : more[a] = IF a \in over THEN Junk ELSE mem[a]

LEMMA RunEscape ==
    ASSUME NEW f, NEW known, NEW regs, NEW mem, NEW handed, NEW i, Before(f, known, regs, mem, handed, i),
           i.op = "call", i.args[1] = "@ext",
           NEW v, v = ValueIn(regs, i.args[2]),
           NEW under, NEW wider, NEW over, NEW more, Escapes(mem, handed, v, under, wider, over, more)
    PROVE  After(f, known, regs, more, wider)
<1> DEFINE x == i.args[2]
           all == handed \cup {v}
<1>1. WellTyped(f, known) /\ i \in InstsOf(f) /\ MemoryOk(mem, handed) /\ CallOk(f, known, regs, mem, handed)
  BY DEF Before
<1>2. DOMAIN i.args = 1..2 /\ x \in DOMAIN known /\ known[x] \in {"value", "cell"}
  <2>1. Shaped(known, i)
    BY <1>1, InstIsApt DEF Terminators, Apt
  <2>2. DOMAIN i.args = 1..2 /\ x \in ValuesIn(known) \cup CellsIn(known)
    BY <2>1 DEF Shaped
  <2> HIDE DEF x
  <2>3. QED BY <2>2 DEF ValuesIn, CellsIn, Typed
<1>3. RegisterOk(f, known, regs, mem, x, v)
  BY <1>2, OperandOk
<1>4. x \notin DOMAIN Spills(f)
  BY <1>1, <1>2, NotMentioned DEF IsNonEscapingIntrinsic
<1>5. v \in Values \cup Cells(mem)
  BY <1>2, <1>3 DEF RegisterOk, OfType
<1>6. <<"@o">> \notin under
  <2>1. <<"@o">> \notin Values /\ Junk # <<"@o">>
    BY DEF Values, Null, Undef, Junk
  <2>2. <<"@o">> \notin Values \cup Cells(mem)
    BY <2>1 DEF Cells
  <2>3. QED BY <1>1, <1>5, <2>2 DEF MemoryOk, Escapes
<1>7. \A a \in DOMAIN Spills(f) : <<a>> \notin all
  BY <1>1, <1>3, <1>4 DEF CallOk, SpillOk, RegisterOk
<1>8. DOMAIN more = DOMAIN mem /\ (\A a \in over : more[a] = Junk) /\ \A a \in DOMAIN mem \ over : more[a] = mem[a]
  BY DEF Escapes
<1>b. under = all \cap DOMAIN mem /\ over \subseteq under /\ \A u \in wider : u \in all \/ \E a \in under : u = mem[a]
  BY DEF Escapes
<1> HIDE DEF x
<1>9. \A u \in wider : u \in all \/ u \in Values
  BY <1>1, <1>6, <1>b DEF MemoryOk
<1>10. MemoryOk(more, wider)
  <2>1. Cells(more) = Cells(mem)
    BY <1>8 DEF Cells
  <2>2. \A a \in DOMAIN more : a # <<"@o">> => more[a] \in Values
    BY <1>1, <1>8 DEF MemoryOk, Values
  <2>3. more[<<"@o">>] = <<"other">>
    BY <1>1, <1>6, <1>8, <1>b, LastingAre DEF MemoryOk
  <2>4. wider \subseteq Values \cup Cells(more)
    BY <1>1, <1>5, <1>9, <2>1 DEF MemoryOk
  <2>5. QED BY <1>1, <1>8, <2>2, <2>3, <2>4 DEF MemoryOk
<1>11. ASSUME NEW a \in DOMAIN Spills(f) PROVE SpillOk(f, regs, more, wider, a)
  <2>1. <<a>> \notin wider
    BY <1>1, <1>7, <1>9, SpotIs, SpilledIs
  <2>2. <<a>> \notin over
    BY <1>7, <1>b
  <2>3. SpillOk(f, regs, mem, handed, a)
    BY <1>1 DEF CallOk
  <2>4. QED BY <1>8, <2>1, <2>2, <2>3 DEF SpillOk
<1>12. CallOk(f, known, regs, more, wider)
  BY <1>1, <1>8, <1>11, MemoryChanges
<1>13. QED BY <1>10, <1>12 DEF After

LEMMA RunReturn ==
    ASSUME NEW f, NEW known, NEW regs, NEW mem, NEW handed, NEW i, Before(f, known, regs, mem, handed, i),
           ToSet(i.args) \subseteq ValuesIn(known) \cup CellsIn(known),
           NEW kept, kept = {v \in handed \cup {ValueIn(regs, x) : x \in ToSet(i.args)} : v \in DOMAIN mem => v \in Lasting}
    PROVE  MemoryOk(Restrict(mem, Lasting), kept) /\ DOMAIN Restrict(mem, Lasting) = Lasting
<1> DEFINE more == Restrict(mem, Lasting)
<1>1. MemoryOk(mem, handed)
  BY DEF Before
<1>2. DOMAIN more = Lasting /\ \A a \in Lasting : more[a] = mem[a]
  BY <1>1 DEF Restrict, MemoryOk
<1> HIDE DEF more
<1>3. ASSUME NEW x \in ToSet(i.args) PROVE ValueIn(regs, x) \in Values \cup Cells(mem)
  <2>1. PICK k \in DOMAIN i.args : x = i.args[k]
    BY DEF ToSet
  <2>2. x \in DOMAIN known /\ known[x] \in {"value", "cell"}
    BY DEF ValuesIn, CellsIn, Typed
  <2>3. RegisterOk(f, known, regs, mem, x, ValueIn(regs, x))
    BY <2>1, <2>2, OperandOk
  <2>4. QED BY <2>2, <2>3 DEF RegisterOk, OfType
<1>4. \A v \in kept : v \in Values \cup Cells(mem) /\ (v \in DOMAIN mem => v \in Lasting)
  BY <1>1, <1>3 DEF MemoryOk
<1>5. \A v \in kept : v \in Values \cup Cells(more)
  BY <1>2, <1>4 DEF Cells
<1>6. QED BY <1>1, <1>2, <1>5, LastingAre DEF MemoryOk, more

-----------------------------------------------------------------------------
(* The call in progress.                                                   *)

FrameOk(fns, known, h, mem, handed) ==
    /\ DOMAIN h = {"fn", "block", "at", "blocks", "regs"}
    /\ h.fn \in DOMAIN fns /\ WellTyped(fns[h.fn], known)
    /\ h.block \in DOMAIN fns[h.fn].blocks /\ h.at \in DOMAIN fns[h.fn].blocks[h.block]
    /\ CallOk(fns[h.fn], known, h.regs, mem, handed)
RunInv ==
    /\ MemoryOk(memory, given)
    /\ frame = <<>> => DOMAIN memory = Lasting
    /\ frame # <<>> => \E known : FrameOk(text, known, Here, memory, given)

LEMMA FirstIsOk == MemoryOk(AtFirst, {}) /\ DOMAIN AtFirst = Lasting
<1>1. DOMAIN AtFirst = Lasting /\ \A a \in Lasting : AtFirst[a] = IF a = <<"@o">> THEN <<"other">> ELSE Null
  BY DEF AtFirst
<1> HIDE DEF AtFirst
<1>2. Null \in Values
  BY DEF Values
<1>3. QED BY <1>1, <1>2, LastingAre DEF MemoryOk

\* An instruction in the middle of a block, and the end of a block.
LEMMA HereIs ==
    ASSUME NEW fns, NEW known, NEW h, NEW mem, NEW handed, FrameOk(fns, known, h, mem, handed),
           NEW f, f = fns[h.fn], NEW i, i = f.blocks[h.block][h.at]
    PROVE  /\ i \in InstsOf(f)
           /\ i.op \notin Terminators => h.at + 1 \in DOMAIN f.blocks[h.block]
           /\ i.op \in Terminators => Ends(known, DOMAIN f.blocks, i)
           /\ \A b \in DOMAIN f.blocks : 1 \in DOMAIN f.blocks[b]
<1> DEFINE s == f.blocks[h.block]
<1>1. WellTyped(f, known) /\ h.block \in DOMAIN f.blocks /\ h.at \in DOMAIN s /\ i = s[h.at]
  BY DEF FrameOk
<1>2. i \in InstsOf(f)
  BY <1>1, InstsAre
<1>3. \A b \in DOMAIN f.blocks : IsBlock(known, DOMAIN f.blocks, f.blocks[b])
  BY <1>1 DEF WellTyped
<1>4. \A b \in DOMAIN f.blocks : 1 \in DOMAIN f.blocks[b]
  BY <1>3 DEF IsBlock
<1>5. PICK n \in Nat \ {0} : DOMAIN s = 1..n /\ (\A k \in 1..(n - 1) : Apt(known, s[k])) /\ Ends(known, DOMAIN f.blocks, s[n])
  BY <1>1, <1>3 DEF IsBlock
<1> HIDE DEF s
<1>6. CASE h.at = n
  <2>1. Ends(known, DOMAIN f.blocks, i)
    BY <1>1, <1>5, <1>6
  <2>2. i.op \in Terminators
    BY <2>1 DEF Ends
  <2>3. QED BY <1>2, <1>4, <2>1, <2>2
<1>7. CASE h.at # n
  <2>1. h.at \in 1..(n - 1) /\ h.at + 1 \in 1..n
    BY <1>1, <1>5, <1>7
  <2>2. Apt(known, i)
    BY <1>1, <1>5, <2>1
  <2>3. i.op \notin Terminators
    BY <2>2 DEF Apt, Shaped, Terminators
  <2>4. QED BY <1>2, <1>4, <1>5, <2>1, <2>3 DEF s
<1>8. QED BY <1>6, <1>7

LEMMA GoesOn ==
    ASSUME NEW known, FrameOk(text, known, Here, memory, given), Inst1.op \notin Terminators, text' = text,
           NEW regs, frame' = <<[Here EXCEPT !.at = @ + 1, !.regs = regs]>>,
           After(text[Here.fn], known, regs, memory', given')
    PROVE  RunInv'
<1> DEFINE f == text[Here.fn]
           h == frame'[1]
<1>1. /\ DOMAIN Here = {"fn", "block", "at", "blocks", "regs"}
      /\ Here.fn \in DOMAIN text /\ WellTyped(f, known) /\ Here.block \in DOMAIN f.blocks
  BY DEF FrameOk
<1>2. Here.at + 1 \in DOMAIN f.blocks[Here.block]
  BY HereIs DEF Inst1
<1>3. frame' # <<>> /\ h = [Here EXCEPT !.at = @ + 1, !.regs = regs]
  OBVIOUS
<1> HIDE DEF h
<1>4. DOMAIN h = DOMAIN Here /\ h.fn = Here.fn /\ h.block = Here.block /\ h.at = Here.at + 1 /\ h.regs = regs
  BY <1>1, <1>3
<1>5. FrameOk(text', known, h, memory', given')
  BY <1>1, <1>2, <1>4 DEF FrameOk, After
<1>6. (\E k : FrameOk(text, k, Here, memory, given))'
  BY <1>5 DEF Here, h
<1>7. MemoryOk(memory', given')
  BY DEF After
<1>8. QED BY <1>3, <1>6, <1>7 DEF RunInv

LEMMA RunStep == ASSUME RunInv, Step PROVE RunInv'
<1> DEFINE f == text[Here.fn]
           i == Inst1
           regs == Here.regs
<1>1. frame # <<>> /\ MemoryOk(memory, given) /\ text' = text
  BY DEF Step, RunInv, written
<1>2. PICK known : FrameOk(text, known, Here, memory, given)
  BY <1>1 DEF RunInv
<1>3. /\ i \in InstsOf(f)
      /\ i.op \in Terminators => Ends(known, DOMAIN f.blocks, i)
      /\ \A b \in DOMAIN f.blocks : 1 \in DOMAIN f.blocks[b]
  BY <1>2, HereIs DEF Inst1
<1>4. Before(f, known, regs, memory, given, i)
  <2>1. \A k \in DOMAIN i.args : Defined(regs, i.args[k])
    BY DEF Step, Defined, ToSet
  <2>2. QED BY <1>1, <1>2, <1>3, <2>1 DEF Before, FrameOk
<1>5. \A x : Value(x) = ValueIn(regs, x)
  BY DEF Value, ValueIn
<1>6. CASE i.op = "alloca" /\ memory' = Put(memory, <<i.res>>, Undef) /\ Set(i.res, <<i.res>>) /\ given' = given
  <2>1. After(f, known, Put(regs, i.res, <<i.res>>), memory', given')
    BY <1>4, <1>6, RunAlloca
  <2>2. QED BY <1>1, <1>2, <1>6, <2>1, GoesOn DEF Set, On, Terminators
<1>7. CASE i.op = "store" /\ Value(i.args[2]) \in DOMAIN memory
           /\ memory' = [memory EXCEPT ![Value(i.args[2])] = Value(i.args[1])] /\ On(regs) /\ given' = given
  <2>1. After(f, known, regs, memory', given')
    BY <1>4, <1>5, <1>7, RunStore
  <2>2. QED BY <1>1, <1>2, <1>7, <2>1, GoesOn DEF On, Terminators
<1>8. CASE i.op = "load" /\ Value(i.args[1]) \in DOMAIN memory
           /\ Set(i.res, memory[Value(i.args[1])]) /\ memory' = memory /\ given' = given
  <2>1. After(f, known, Put(regs, i.res, memory[Value(i.args[1])]), memory', given')
    BY <1>4, <1>5, <1>8, RunLoad
  <2>2. QED BY <1>1, <1>2, <1>8, <2>1, GoesOn DEF Set, On, Terminators
<1>9. CASE i.op = "gep" /\ Set(i.res, IF i.type = "S" THEN Value(i.args[1]) \o i.path ELSE Value(i.args[1]))
           /\ memory' = memory /\ given' = given
  <2>1. PICK v : v = (IF i.type = "S" THEN Value(i.args[1]) \o i.path ELSE Value(i.args[1]))
    OBVIOUS
  <2>2. After(f, known, Put(regs, i.res, v), memory', given')
    BY <1>4, <1>5, <1>9, <2>1, RunGep
  <2>3. frame' = <<[Here EXCEPT !.at = @ + 1, !.regs = Put(regs, i.res, v)]>>
    BY <1>9, <2>1 DEF Set, On
  <2>4. QED BY <1>1, <1>2, <1>9, <2>2, <2>3, GoesOn DEF Terminators
<1>10. ASSUME i.op \in {"cast", "other"}, NEW v, Set(i.res, v), memory' = memory, given' = given,
              v = Value(i.args[1]) \/ (i.op = "other" /\ v = Junk)
       PROVE  RunInv'
  <2>1. After(f, known, Put(regs, i.res, v), memory', given')
    BY <1>4, <1>5, <1>10, RunCast
  <2>2. QED BY <1>1, <1>2, <1>10, <2>1, GoesOn DEF Set, On, Terminators
<1>11. ASSUME i.op = "call", i.args[1] = "@ext", On(regs),
              NEW all, all = given \cup {Value(i.args[2])},
              given' = all \cup {memory[a] : a \in all \cap DOMAIN memory},
              NEW over \in SUBSET (all \cap DOMAIN memory),
              memory' = [a \in DOMAIN memory |-> IF a \in over THEN Junk ELSE memory[a]]
       PROVE  RunInv'
  <2>0. PICK under : under = all \cap DOMAIN memory
    OBVIOUS
  <2>a. Value(i.args[2]) = ValueIn(regs, i.args[2])
    BY <1>5
  <2>b. Escapes(memory, given, ValueIn(regs, i.args[2]), under, given', over, memory')
    BY <1>11, <2>0, <2>a DEF Escapes
  <2>1. After(f, known, regs, memory', given')
    BY <1>4, <1>11, <2>b, RunEscape
  <2>2. QED BY <1>1, <1>2, <1>11, <2>1, GoesOn DEF On, Terminators
<1>12. CASE i.op = "call" /\ On(regs) /\ memory' = memory /\ given' = given
  <2>1. After(f, known, regs, memory', given')
    BY <1>1, <1>2, <1>12 DEF After, FrameOk
  <2>2. QED BY <1>1, <1>2, <1>12, <2>1, GoesOn DEF On, Terminators
<1>13. CASE /\ i.op \in {"branch", "unsupported"} /\ memory' = memory /\ given' = given
            /\ \E b \in (IF i.op = "branch" THEN ToSet(i.to) ELSE Labels(f)) :
                  frame' = <<[Here EXCEPT !.block = b, !.at = 1, !.blocks = @ + 1]>>
  <2>1. PICK b \in (IF i.op = "branch" THEN ToSet(i.to) ELSE Labels(f)) :
               frame' = <<[Here EXCEPT !.block = b, !.at = 1, !.blocks = @ + 1]>>
    BY <1>13
  <2>2. b \in DOMAIN f.blocks
    <3>1. CASE i.op = "branch"
      BY <1>3, <2>1, <3>1 DEF Ends, Terminators
    <3>2. CASE i.op # "branch"
      <4>1. b \in 2..Len(f.blocks)
        BY <2>1, <3>2 DEF Labels
      <4>2. DOMAIN f.blocks = 1..Len(f.blocks) /\ Len(f.blocks) \in Nat
        BY <1>2 DEF FrameOk, WellTyped
      <4>3. QED BY <4>1, <4>2
    <3>3. QED BY <3>1, <3>2
  <2> DEFINE h == frame'[1]
  <2>3. frame' # <<>> /\ h = [Here EXCEPT !.block = b, !.at = 1, !.blocks = @ + 1]
    BY <2>1
  <2> HIDE DEF h
  <2>4. DOMAIN h = DOMAIN Here /\ h.fn = Here.fn /\ h.block = b /\ h.at = 1 /\ h.regs = Here.regs
    BY <1>2, <2>3 DEF FrameOk
  <2>5. FrameOk(text', known, h, memory', given')
    BY <1>1, <1>2, <1>3, <1>13, <2>2, <2>4 DEF FrameOk
  <2>6. (\E k : FrameOk(text, k, Here, memory, given))'
    BY <2>5 DEF Here, h
  <2>7. QED BY <1>1, <1>13, <2>3, <2>6 DEF RunInv
<1>14. CASE /\ i.op = "return" /\ frame' = <<>> /\ memory' = Restrict(memory, Lasting)
            /\ given' = {v \in given \cup {Value(x) : x \in ToSet(i.args)} : v \in DOMAIN memory => v \in Lasting}
  <2>1. ToSet(i.args) \subseteq ValuesIn(known) \cup CellsIn(known)
    BY <1>3, <1>14 DEF Ends, Terminators, ValuesIn, CellsIn
  <2>2. given' = {v \in given \cup {ValueIn(regs, x) : x \in ToSet(i.args)} : v \in DOMAIN memory => v \in Lasting}
    BY <1>5, <1>14
  <2>3. MemoryOk(memory', given') /\ DOMAIN memory' = Lasting
    BY <1>4, <1>14, <2>1, <2>2, RunReturn
  <2>4. QED BY <1>14, <2>3 DEF RunInv
<1>15. QED
  <2> HIDE DEF i, f
  <2>1. CASE i.op = "other" /\ \E v \in {Value(i.args[1]), Junk} : Set(i.res, v) /\ memory' = memory /\ given' = given
    BY <1>10, <2>1
  <2>2. CASE i.op = "call" /\ i.args[1] = "@ext"
             /\ LET known1 == given \cup {Value(i.args[2])}
                    under == known1 \cap DOMAIN memory
                IN /\ given' = known1 \cup {memory[a] : a \in under}
                   /\ \E over \in SUBSET under :
                         memory' = [a \in DOMAIN memory |-> IF a \in over THEN Junk ELSE memory[a]]
             /\ On(regs)
    <3> DEFINE all == given \cup {Value(i.args[2])}
    <3>1. given' = all \cup {memory[a] : a \in all \cap DOMAIN memory}
      BY <2>2
    <3>2. PICK over \in SUBSET (all \cap DOMAIN memory) : memory' = [a \in DOMAIN memory |-> IF a \in over THEN Junk ELSE memory[a]]
      BY <2>2
    <3>3. QED BY <1>11, <2>2, <3>1, <3>2
  <2>3. CASE i.op = "cast" /\ Set(i.res, Value(i.args[1])) /\ memory' = memory /\ given' = given
    BY <1>10, <2>3
  <2>4. QED BY <1>6, <1>7, <1>8, <1>9, <1>12, <1>13, <1>14, <2>1, <2>2, <2>3 DEF Step, i, f

LEMMA EnterOk ==
    ASSUME NEW f, NEW known, WellTyped(f, known), MemoryOk(memory, given), DOMAIN memory = Lasting,
           NEW regs, DOMAIN regs = ToSet(Params),
           regs["cb"] \in Values, regs["ud"] \in Values, regs["conn"] = <<"conn">>
    PROVE  CallOk(f, known, regs, memory, given)
<1>1. ASSUME NEW x \in DOMAIN regs PROVE RegisterOk(f, known, regs, memory, x, regs[x])
  <2>1. x \in {"cb", "ud", "conn"}
    BY ParamsAre
  <2>2. regs[x] \in Values \cup Others /\ regs["conn"] \in Others
    BY <2>1 DEF Others
  <2>3. x \notin Locals /\ x # NoName /\ x # "null" /\ x \notin {"@g", "@h"}
    BY <2>1 DEF Locals, NoName
  <2>4. \A a \in DOMAIN Spills(f) : a \in Locals /\ regs[x] # <<a>>
    BY <2>2, SpotIs, SpilledIs
  <2>5. x \in DOMAIN known => OfType(memory, regs[x], known[x])
    <3> SUFFICES ASSUME x \in DOMAIN known PROVE OfType(memory, regs[x], known[x])
      OBVIOUS
    <3>1. (x \in {"cb", "ud"} => known[x] = "value") /\ (x = "conn" => known[x] = "object")
      BY NamesAre DEF WellTyped
    <3>2. QED BY <2>1, <2>2, <3>1 DEF OfType
  <2>6. MeetsAll(f, regs, x, regs[x])
    <3> SUFFICES ASSUME NEW c \in Claims, <<x, c>> \in Claimed(f) PROVE Meets(regs, regs[x], c)
      BY DEF MeetsAll
    <3>1. \E k \in 1..3 : x = Params[k] /\ c = Param(k)
      BY <2>3, ClaimsOfGiven
    <3>2. QED BY <3>1 DEF Meets
  <2>7. QED BY <2>3, <2>4, <2>5, <2>6 DEF RegisterOk
<1>2. ASSUME NEW a \in DOMAIN Spills(f) PROVE SpillOk(f, regs, memory, given, a)
  <2>1. <<a>> \notin Values /\ <<a>> \notin Lasting
    BY SpotIs, SpilledIs
  <2>2. <<a>> \notin Cells(memory)
    BY <2>1 DEF Cells, Values
  <2>3. QED BY <2>1, <2>2 DEF SpillOk, MemoryOk
<1>3. QED BY <1>1, <1>2 DEF CallOk

LEMMA EnterKeeps ==
    ASSUME TextInv, RunInv, frame = <<>>, UNCHANGED <<text, memory, given>>,
           NEW r \in DOMAIN text, NEW args, args["cb"] \in Values, args["ud"] \in Values, args["conn"] = <<"conn">>,
           Enter(r, args)
    PROVE  RunInv'
<1>1. PICK known : WellTyped(text[r], known)
  BY DEF TextInv, IsTyped
<1> DEFINE h == frame'[1]
           f == text[r]
           regs == [p \in ToSet(Params) |-> args[p]]
<1>2. frame' # <<>> /\ h = [fn |-> r, block |-> 1, at |-> 1, blocks |-> 1, regs |-> regs]
  BY DEF Enter
<1>3. DOMAIN regs = ToSet(Params) /\ regs["cb"] = args["cb"] /\ regs["ud"] = args["ud"] /\ regs["conn"] = args["conn"]
  BY ParamsAre
<1> HIDE DEF h, regs
<1>4. DOMAIN h = {"fn", "block", "at", "blocks", "regs"} /\ h.fn = r /\ h.block = 1 /\ h.at = 1 /\ h.regs = regs
  BY <1>2
<1>5. CallOk(f, known, regs, memory, given)
  BY <1>1, <1>3, EnterOk DEF RunInv
<1>6. 1 \in DOMAIN f.blocks /\ 1 \in DOMAIN f.blocks[1]
  <2>1. 1 \in DOMAIN f.blocks
    BY <1>1 DEF WellTyped
  <2>2. IsBlock(known, DOMAIN f.blocks, f.blocks[1])
    BY <1>1, <2>1 DEF WellTyped
  <2>3. QED BY <2>1, <2>2 DEF IsBlock
<1>7. FrameOk(text', known, h, memory', given')
  BY <1>1, <1>4, <1>5, <1>6 DEF FrameOk
<1>8. (\E k : FrameOk(text, k, Here, memory, given))'
  BY <1>7 DEF Here, h
<1>9. QED BY <1>2, <1>8 DEF RunInv

LEMMA RunInit == ASSUME Init PROVE RunInv
<1>1. frame = <<>> /\ given = {} /\ memory = AtFirst
  BY DEF Init
<1>2. QED BY <1>1, FirstIsOk DEF RunInv

LEMMA RunNext == ASSUME TextInv, RunInv, [Next]_vars PROVE RunInv'
<1>1. ASSUME UNCHANGED <<text, frame, memory, given>> PROVE RunInv'
  BY <1>1 DEF RunInv, Here
<1>2. ASSUME frame = <<>>, UNCHANGED <<frame, memory, given>> PROVE RunInv'
  BY <1>2 DEF RunInv
<1>3. CASE UNCHANGED vars
  BY <1>1, <1>3 DEF vars
<1>4. CASE Write \/ NextBlock \/ NextFunction \/ Analysed
  <2>1. role # "client"
    BY <1>4 DEF Write, NextBlock, NextFunction, Analysed
  <2>2. UNCHANGED <<frame, memory, given>>
    BY <1>4 DEF Write, NextBlock, NextFunction, Analysed, client
  <2>3. QED BY <1>2, <2>1, <2>2 DEF TextInv
<1>5. CASE Register
  <2> DEFINE args == [cb |-> <<"cb">>, ud |-> <<"ud">>, conn |-> <<"conn">>]
  <2>1. frame = <<>> /\ UNCHANGED <<text, memory, given>> /\ Enter("register", args)
    BY <1>5 DEF Register, written
  <2>2. args["cb"] \in Values /\ args["ud"] \in Values /\ args["conn"] = <<"conn">>
    BY DEF Values
  <2>3. "register" \in DOMAIN text
    BY DEF TextInv
  <2> HIDE DEF args
  <2>4. QED BY <2>1, <2>2, <2>3, EnterKeeps
<1>6. CASE DropGuard
  <2> DEFINE args == [cb |-> Null, ud |-> Null, conn |-> <<"conn">>]
  <2>1. frame = <<>> /\ UNCHANGED <<text, memory, given>>
    BY <1>6 DEF DropGuard, written
  <2>2. args["cb"] \in Values /\ args["ud"] \in Values /\ args["conn"] = <<"conn">>
    BY DEF Values
  <2>3. UNCHANGED frame \/ ("clear" \in DOMAIN text /\ Enter("clear", args))
    BY <1>6 DEF DropGuard
  <2> HIDE DEF args
  <2>4. QED BY <1>2, <2>1, <2>2, <2>3, EnterKeeps
<1>7. CASE LeakGuard \/ Fire \/ \E x \in Rust!Subjects : End(x)
  BY <1>1, <1>7 DEF LeakGuard, Fire, End, written
<1>8. CASE Step
  BY <1>8, RunStep
<1>9. QED BY <1>3, <1>4, <1>5, <1>6, <1>7, <1>8 DEF Next

\* Whatever path a call has taken, and whatever unknown code it has called has done:
\* what the maps of a function say of a register is so (FunctionFlow::solve).
THEOREM OriginsAreSound == Spec => []OriginsAreRight
<1>1. TextInv /\ RunInv => OriginsAreRight
  <2> SUFFICES ASSUME TextInv, RunInv, frame # <<>>,
                      NEW x \in DOMAIN Here.regs, Here.regs[x] # Undef
               PROVE  LET flow == flows[Here.fn]
                          args == [i \in DOMAIN Params |-> Here.regs[Params[i]]]
                      IN /\ x \in DOMAIN flow.origins =>
                               /\ flow.origins[x][1] = "param" => Here.regs[x] = args[flow.origins[x][2]]
                               /\ flow.origins[x] = NullOrigin => Here.regs[x] = Null
                         /\ x \in DOMAIN flow.slots => SlotOf(Here.regs[x]) = flow.slots[x]
                         /\ (x \in flow.owned /\ x \in DOMAIN flow.slots) => Here.regs[x] \in Lasting
    BY DEF OriginsAreRight
  <2> DEFINE f == text[Here.fn]
             flow == flows[Here.fn]
             regs == Here.regs
             v == regs[x]
             args == [i \in DOMAIN Params |-> regs[Params[i]]]
  <2>1. PICK known : FrameOk(text, known, Here, memory, given)
    BY DEF RunInv
  <2>2. role = "client"
    BY DEF TextInv
  <2>3. Within(f, known, flow)
    BY <2>1, <2>2, FlowWithin DEF TextInv, FrameOk
  <2>4. MeetsAll(f, regs, x, v)
    BY <2>1 DEF FrameOk, CallOk, RegisterOk
  <2>5. v # Undef
    OBVIOUS
  <2> HIDE DEF f, flow, regs, v
  <2>6. ASSUME NEW c, <<x, c>> \in Claimed(f)
        PROVE  \/ c = NullOrigin /\ v = Null
               \/ \E k \in 1..3 : c = Param(k) /\ v = regs[Params[k]]
               \/ c \in SlotClaims /\ v \in Lasting /\ SlotOf(v) = c
               \/ c \in LoadClaims \cup {Owned}
    BY <2>4, <2>5, <2>6, ClaimsComeFrom DEF MeetsAll, Meets
  <2>7. /\ \A s \in SlotClaims : s[1] # "param" /\ s # NullOrigin /\ s \notin LoadClaims \cup {Owned} /\ \A k \in 1..3 : s # Param(k)
        /\ \A k \in 1..3 : Param(k) \notin LoadClaims \cup {Owned}
        /\ NullOrigin \notin LoadClaims \cup {Owned}
        /\ \A s \in LoadClaims \cup {Owned} : s[1] # "param"
    BY DEF SlotClaims, Field, NullOrigin, Param, LoadClaims, SlotLoad, Owned
  <2>8. /\ NullOrigin[1] # "param" /\ \A k \in 1..3 : Param(k) # NullOrigin /\ Param(k)[2] = k
        /\ DOMAIN Params = 1..3
    BY ParamsAre DEF NullOrigin, Param
  <2>9. ASSUME x \in DOMAIN flow.origins, flow.origins[x][1] = "param" PROVE v = args[flow.origins[x][2]]
    <3>1. <<x, flow.origins[x]>> \in Claimed(f)
      BY <2>3, <2>8, <2>9 DEF Within, OriginOk
    <3>2. PICK k \in 1..3 : flow.origins[x] = Param(k) /\ v = regs[Params[k]]
      BY <2>6, <2>7, <2>8, <2>9, <3>1
    <3>3. QED BY <2>8, <3>2
  <2>10. ASSUME x \in DOMAIN flow.origins, flow.origins[x] = NullOrigin PROVE v = Null
    <3>1. <<x, NullOrigin>> \in Claimed(f)
      BY <2>3, <2>10 DEF Within, OriginOk
    <3>2. QED BY <2>6, <2>7, <2>8, <3>1
  <2>11. ASSUME x \in DOMAIN flow.slots PROVE SlotOf(v) = flow.slots[x] /\ v \in Lasting
    <3>1. <<x, flow.slots[x]>> \in Claimed(f) /\ flow.slots[x] \in SlotClaims
      BY <2>3, <2>11 DEF Within, SlotOk
    <3>2. QED BY <2>6, <2>7, <3>1
  <2>12. QED BY <2>9, <2>10, <2>11 DEF flow, regs, v
<1>2. QED BY <1>1, TextInit, TextNext, RunInit, RunNext, PTL DEF Spec

-----------------------------------------------------------------------------
(* What is claimed is found: the rounds of solve are enough, whatever the  *)
(* order of the instructions.                                              *)

\* A search begins at a parameter, or at the pointers to a slot, and goes on with what
\* is read from there.
Roots == {Param(1), Param(2)} \cup SlotClaims
Told(r) == IF r \in SlotClaims THEN SlotLoad(r) ELSE r
About(r, c) == c = r \/ c = Told(r)
IsRoot(x, r) == (x \in {"@g", "@h"} /\ r = <<x>>) \/ \E p \in 1..2 : x = Params[p] /\ r = Param(p)

\* Where the value of an instruction comes from, if solve follows it there.
InstAt(f, k) == AllInsts(f)[k].inst
Opens(i, r) == r = Field /\ i.op = "gep" /\ i.type = "S"
Brings(i) == i.op \in {"cast", "load"}
SourceOf(f, i) == IF i.op = "load" /\ i.args[1] \in DOMAIN Spills(f) THEN Spills(f)[i.args[1]] ELSE i.args[1]

\* What it comes from is the root, or the result of one of s.
Sourced(f, r, s, k) ==
    \/ Opens(InstAt(f, k), r)
    \/ /\ Brings(InstAt(f, k))
       /\ IsRoot(SourceOf(f, InstAt(f, k)), r) \/ \E j \in s : SourceOf(f, InstAt(f, k)) = InstAt(f, j).res

\* The root, and the results of s, are known to be what they are.
Shows(flow, known, x, r) ==
    IF x \in CellsIn(known) \cup {"@g", "@h"} THEN PointerSlot(Globals, flow, x) = r
                                           ELSE x \in DOMAIN flow.origins /\ flow.origins[x] = Told(r)
ShowsAll(f, known, r, flow, s) ==
    (\A x : IsRoot(x, r) => Shows(flow, known, x, r)) /\ \A k \in s : Shows(flow, known, InstAt(f, k).res, r)

LEMMA RootsAre ==
    ASSUME NEW r \in Roots
    PROVE  /\ r # NoSlot /\ r # NullOrigin /\ r # Owned /\ r # Unknown
           /\ \A x : IsRoot(x, r) => x \in {"@g", "@h", "cb", "ud"} /\ x \notin Locals /\ x # "null" /\ x # NoName
           /\ \A s \in SlotClaims : s # Param(1) /\ s # Param(2) /\ s # Param(3) /\ SlotLoad(s) # r /\ (SlotLoad(s) = Told(r) => s = r)
<1>1. r # NoSlot /\ r # NullOrigin /\ r # Owned /\ r # Unknown
  BY DEF Roots, SlotClaims, Param, Field, NoSlot, NullOrigin, Owned, Unknown
<1>2. ASSUME NEW x, IsRoot(x, r) PROVE x \in {"@g", "@h", "cb", "ud"} /\ x \notin Locals /\ x # "null" /\ x # NoName
  <2>1. x \in {"@g", "@h", "cb", "ud"}
    BY <1>2, ParamsAre DEF IsRoot
  <2>2. QED BY <2>1 DEF Locals, NoName
<1>3. ASSUME NEW s \in SlotClaims
      PROVE  s # Param(1) /\ s # Param(2) /\ s # Param(3) /\ SlotLoad(s) # r /\ (SlotLoad(s) = Told(r) => s = r)
  <2>1. s # Param(1) /\ s # Param(2) /\ s # Param(3)
    BY DEF SlotClaims, Param, Field
  <2>2. \A t \in SlotClaims : SlotLoad(s) # t
    BY DEF SlotClaims, SlotLoad, Field
  <2>3. SlotLoad(s) # Param(1) /\ SlotLoad(s) # Param(2)
    BY DEF SlotLoad, Param
  <2>4. \A t : SlotLoad(s) = SlotLoad(t) => s = t
    BY DEF SlotLoad
  <2>5. QED BY <2>1, <2>2, <2>3, <2>4 DEF Roots, Told
<1>4. QED BY <1>1, <1>2, <1>3

\* What an instruction brings, and from where.
LEMMA BringsInto ==
    ASSUME NEW f, NEW known, WellTyped(f, known), NEW i \in InstsOf(f), Brings(i)
    PROVE  /\ i.res \in Locals /\ i.res # NoName /\ i.res \in DOMAIN known /\ known[i.res] # "holder" /\ SourceOf(f, i) \in Names
           /\ i.op = "cast" => /\ SourceOf(f, i) = i.args[1] /\ i.args[1] \in DOMAIN known
                               /\ known[i.res] = known[i.args[1]] /\ known[i.res] \in {"value", "cell"}
           /\ i.op = "load" /\ i.args[1] \in DOMAIN Spills(f) =>
                  /\ SourceOf(f, i) = Spills(f)[i.args[1]] /\ SourceOf(f, i) \in ValuesIn(known) \cup {"null"}
                  /\ known[i.res] = "value"
           /\ i.op = "load" /\ i.args[1] \notin DOMAIN Spills(f) =>
                  /\ SourceOf(f, i) = i.args[1] /\ i.args[1] \in DOMAIN known /\ known[i.args[1]] \in {"cell", "holder"}
                  /\ known[i.res] # "cell"
<1>1. NamesIn(known)
  BY DEF WellTyped
<1>2. Apt(known, i)
  BY InstIsApt DEF Brings, Terminators
<1>3. i.res \in Locals /\ i.res # NoName
  BY <1>2 DEF Brings, Apt, Shaped, Locals, NoName
<1>4. i.res \in DOMAIN known /\ known[i.res] = Made(known, i)
  BY <1>2, <1>3 DEF Apt
<1>5. CASE i.op = "cast"
  <2>1. i.args[1] \in ValuesIn(known) \cup CellsIn(known)
    BY <1>2, <1>5 DEF Apt, Shaped
  <2>2. i.args[1] \in DOMAIN known /\ known[i.args[1]] \in {"value", "cell"}
    BY <2>1 DEF ValuesIn, CellsIn, Typed
  <2>3. known[i.res] = known[i.args[1]]
    BY <1>4, <1>5, <2>2 DEF Made
  <2>4. SourceOf(f, i) = i.args[1] /\ i.args[1] \in Names
    BY <1>1, <1>5, <2>2, NamesAre DEF SourceOf
  <2>5. QED BY <1>3, <1>4, <1>5, <2>2, <2>3, <2>4
<1>6. CASE i.op = "load"
  <2>1. i.args[1] \in DOMAIN known /\ known[i.args[1]] \in {"cell", "holder"}
    BY <1>2, <1>6 DEF Apt, Shaped, CellsIn, Typed
  <2>2. known[i.res] = IF known[i.args[1]] = "holder" THEN "object" ELSE "value"
    BY <1>4, <1>6, <2>1 DEF Made
  <2>3. CASE i.args[1] \in DOMAIN Spills(f)
    <3>1. SourceOf(f, i) = Spills(f)[i.args[1]]
      BY <1>6, <2>3 DEF SourceOf
    <3>2. known[i.args[1]] = "cell" /\ SourceOf(f, i) \in ValuesIn(known) \cup {"null"} /\ SourceOf(f, i) \in Names
      BY <2>3, <3>1, SpilledIs DEF CellsIn, Typed
    <3>3. QED BY <1>3, <1>4, <1>6, <2>2, <2>3, <3>1, <3>2
  <2>4. CASE i.args[1] \notin DOMAIN Spills(f)
    <3>1. SourceOf(f, i) = i.args[1] /\ i.args[1] \in Names
      BY <1>1, <2>1, <2>4, NamesAre DEF SourceOf
    <3>2. QED BY <1>3, <1>4, <1>6, <2>1, <2>2, <2>4, <3>1
  <2>5. QED BY <2>3, <2>4
<1>7. QED BY <1>5, <1>6 DEF Brings

LEMMA GepOpens ==
    ASSUME NEW f, NEW known, WellTyped(f, known), NEW flow, Within(f, known, flow), NEW i \in InstsOf(f), i.op = "gep"
    PROVE  /\ i.res \in Locals /\ i.res # NoName /\ i.res \in DOMAIN known /\ known[i.res] # "holder"
           /\ i.type = "S" => known[i.res] = "cell" /\ GepSlot(Globals, flow, i) = Field
<1> DEFINE base == i.args[1]
<1>1. /\ i.res \in Locals /\ i.res # NoName /\ i.res \in DOMAIN known /\ known[i.res] = Made(known, i)
      /\ \/ i.type = "S" /\ i.path = <<"f">> /\ base \in Typed(known, "object")
         \/ i.type = "bytes" /\ base \in ValuesIn(known)
  BY InstIsApt DEF Apt, Shaped, Terminators, Locals, NoName
<1>2. NamesIn(known)
  BY DEF WellTyped
<1>3. base \notin Globals /\ IsLocal(base)
  BY <1>1, <1>2, NamesAre DEF ValuesIn, Typed
<1>4. base \notin DOMAIN flow.slots
  BY <1>1 DEF Within, SlotOk, ValuesIn, CellsIn, Typed
<1>5. GepSlot(Globals, flow, i) = IF i.type # "bytes" THEN <<i.type>> \o i.path ELSE NoSlot
  BY <1>3, <1>4 DEF GepSlot
<1>6. ASSUME i.type = "S" PROVE known[i.res] = "cell" /\ GepSlot(Globals, flow, i) = Field
  BY <1>1, <1>5, <1>6, FieldIs DEF Made
<1>7. ASSUME i.type # "S" PROVE known[i.res] # "holder"
  <2>1. known[base] = "value"
    BY <1>1, <1>7 DEF ValuesIn, Typed
  <2>2. QED BY <1>1, <1>7, <2>1 DEF Made
<1>8. QED BY <1>1, <1>6, <1>7

\* What an instruction leaves of the maps, and what it adds.
LEMMA TransferMaps ==
    ASSUME NEW f, NEW known, WellTyped(f, known), NEW flow, Within(f, known, flow), NEW i \in InstsOf(f),
           NEW g, g = Transfer(Globals, flow, i)
    PROVE  /\ \A x : x \in DOMAIN flow.origins /\ x # i.res => x \in DOMAIN g.origins /\ g.origins[x] = flow.origins[x]
           /\ \A x : x \in DOMAIN flow.slots /\ x # i.res => x \in DOMAIN g.slots /\ g.slots[x] = flow.slots[x]
           /\ i.op = "cast" => /\ i.res \in DOMAIN g.origins /\ g.origins[i.res] = Origin(flow, i.args[1])
                               /\ PointerSlot(Globals, flow, i.args[1]) # NoSlot =>
                                      i.res \in DOMAIN g.slots /\ g.slots[i.res] = PointerSlot(Globals, flow, i.args[1])
           /\ i.op = "load" => i.res \in DOMAIN g.origins /\ g.origins[i.res] = LoadOrigin(Globals, flow, i.args[1])
           /\ i.op = "gep" /\ i.type = "S" => i.res \in DOMAIN g.slots /\ g.slots[i.res] = Field
<1>1. DOMAIN flow = {"origins", "slots", "spills", "owned"} /\ flow.spills = Spills(f)
  BY DEF Within
<1>2. ASSUME NEW h, DOMAIN h = {"origins", "slots", "spills", "owned"}, h.origins = flow.origins, NEW o, g = WithOrigin(h, i.res, o)
      PROVE  /\ \A x : x \in DOMAIN flow.origins /\ x # i.res => x \in DOMAIN g.origins /\ g.origins[x] = flow.origins[x]
             /\ i.res \in DOMAIN g.origins /\ g.origins[i.res] = o /\ g.slots = h.slots
  <2>1. g.origins = Put(flow.origins, i.res, o) /\ g.slots = h.slots
    BY <1>2 DEF WithOrigin
  <2>2. QED BY <2>1 DEF Put
<1>3. ASSUME NEW s, NEW h, h = WithSlot(flow, i.res, s)
      PROVE  /\ DOMAIN h = DOMAIN flow /\ h.origins = flow.origins
             /\ \A x : x \in DOMAIN flow.slots /\ x # i.res => x \in DOMAIN h.slots /\ h.slots[x] = flow.slots[x]
             /\ s # NoSlot => i.res \in DOMAIN h.slots /\ h.slots[i.res] = s
  <2>1. CASE s = NoSlot
    BY <1>3, <2>1 DEF WithSlot
  <2>2. CASE s # NoSlot
    <3>1. DOMAIN h = DOMAIN flow /\ h.origins = flow.origins /\ h.slots = Put(flow.slots, i.res, s)
      BY <1>1, <1>3, <2>2 DEF WithSlot
    <3>2. QED BY <3>1 DEF Put
  <2>3. QED BY <2>1, <2>2
<1>4. \A h, x, y : DOMAIN h = DOMAIN flow =>
          /\ DOMAIN WithOwner(h, x, y) = DOMAIN flow /\ WithOwner(h, x, y).origins = h.origins
          /\ WithOwner(h, x, y).slots = h.slots
  BY <1>1 DEF WithOwner
<1>5. CASE i.res = NoName \/ i.op = "alloca"
  <2>1. i.op \notin {"gep", "cast", "load", "other"}
    <3>1. ASSUME i.op \in {"gep", "cast", "load", "other"} PROVE FALSE
      <4>1. Shaped(known, i)
        BY <3>1, InstIsApt DEF Apt, Terminators
      <4>2. i.res \in Locals
        BY <3>1, <4>1 DEF Shaped
      <4>3. QED BY <1>5, <3>1, <4>2, SpotIs
    <3>2. QED BY <3>1
  <2>2. g = flow
    BY <1>5, <2>1 DEF Transfer
  <2>3. QED BY <2>1, <2>2
<1>6. CASE i.res # NoName /\ i.op = "gep"
  <2> DEFINE h == WithSlot(flow, i.res, GepSlot(Globals, flow, i))
  <2>1. g = WithOwner(h, i.res, i.args[1])
    BY <1>6 DEF Transfer
  <2>2. /\ DOMAIN h = DOMAIN flow /\ h.origins = flow.origins
        /\ \A x : x \in DOMAIN flow.slots /\ x # i.res => x \in DOMAIN h.slots /\ h.slots[x] = flow.slots[x]
        /\ GepSlot(Globals, flow, i) # NoSlot => i.res \in DOMAIN h.slots /\ h.slots[i.res] = GepSlot(Globals, flow, i)
    BY <1>3
  <2> HIDE DEF h
  <2>3. g.origins = flow.origins /\ g.slots = h.slots
    BY <1>4, <2>1, <2>2
  <2>4. i.type = "S" => GepSlot(Globals, flow, i) = Field /\ Field # NoSlot
    BY <1>6, GepOpens DEF Field, NoSlot
  <2>5. QED BY <1>6, <2>2, <2>3, <2>4
<1>7. CASE i.res # NoName /\ i.op = "cast"
  <2> DEFINE slot == PointerSlot(Globals, flow, i.args[1])
             h0 == WithSlot(flow, i.res, slot)
             h == WithOwner(h0, i.res, i.args[1])
  <2>1. g = WithOrigin(h, i.res, Origin(flow, i.args[1]))
    BY <1>7 DEF Transfer
  <2>2. /\ DOMAIN h0 = DOMAIN flow /\ h0.origins = flow.origins
        /\ \A x : x \in DOMAIN flow.slots /\ x # i.res => x \in DOMAIN h0.slots /\ h0.slots[x] = flow.slots[x]
        /\ slot # NoSlot => i.res \in DOMAIN h0.slots /\ h0.slots[i.res] = slot
    BY <1>3
  <2> HIDE DEF h0
  <2>3. DOMAIN h = DOMAIN flow /\ h.origins = flow.origins /\ h.slots = h0.slots
    BY <1>4, <2>2
  <2> HIDE DEF h, slot
  <2>4. /\ \A x : x \in DOMAIN flow.origins /\ x # i.res => x \in DOMAIN g.origins /\ g.origins[x] = flow.origins[x]
        /\ i.res \in DOMAIN g.origins /\ g.origins[i.res] = Origin(flow, i.args[1]) /\ g.slots = h.slots
    BY <1>1, <1>2, <2>1, <2>3
  <2>5. QED BY <1>7, <2>2, <2>3, <2>4 DEF slot
<1>8. CASE i.res # NoName /\ i.op = "load"
  <2>1. g = WithOrigin(flow, i.res, LoadOrigin(Globals, flow, i.args[1]))
    BY <1>8 DEF Transfer
  <2>2. QED BY <1>1, <1>2, <1>8, <2>1
<1>9. CASE i.res # NoName /\ i.op \notin {"alloca", "gep", "cast", "load"}
  <2>1. g = WithOrigin(flow, i.res, Unknown)
    BY <1>9 DEF Transfer
  <2>2. QED BY <1>1, <1>2, <1>9, <2>1
<1>10. QED BY <1>5, <1>6, <1>7, <1>8, <1>9
\* What is shown of another name, an instruction leaves.
LEMMA StaysShown ==
    ASSUME NEW f, NEW known, WellTyped(f, known), NEW flow, Within(f, known, flow), NEW r \in Roots,
           NEW i \in InstsOf(f), NEW x, x # i.res, Shows(flow, known, x, r)
    PROVE  Shows(Transfer(Globals, flow, i), known, x, r)
<1> DEFINE g == Transfer(Globals, flow, i)
<1>1. /\ \A y : y \in DOMAIN flow.origins /\ y # i.res => y \in DOMAIN g.origins /\ g.origins[y] = flow.origins[y]
      /\ \A y : y \in DOMAIN flow.slots /\ y # i.res => y \in DOMAIN g.slots /\ g.slots[y] = flow.slots[y]
  BY TransferMaps
<1> HIDE DEF g
<1>2. CASE x \in CellsIn(known) \cup {"@g", "@h"}
  <2>1. PointerSlot(Globals, flow, x) = r /\ r # NoSlot
    BY <1>2, RootsAre DEF Shows
  <2>2. CASE x \in Globals
    <3>1. x \notin DOMAIN flow.slots /\ x \notin DOMAIN g.slots
      <4>1. Within(f, known, g)
        BY TransferWithin DEF g
      <4>2. x \notin Locals
        BY <2>2 DEF Locals, Globals
      <4>3. QED BY <4>1, <4>2 DEF Within, SlotOk
    <3>2. PointerSlot(Globals, flow, x) = <<x>> /\ PointerSlot(Globals, g, x) = <<x>>
      BY <2>2, <3>1 DEF PointerSlot
    <3>3. Shows(g, known, x, r)
      BY <1>2, <2>1, <3>2 DEF Shows
    <3>4. QED BY <3>3 DEF g
  <2>3. CASE x \notin Globals
    <3>1. x \in DOMAIN flow.slots /\ flow.slots[x] = r
      BY <2>1, <2>3 DEF PointerSlot
    <3>2. PointerSlot(Globals, g, x) = r
      BY <1>1, <2>3, <3>1 DEF PointerSlot
    <3>3. QED BY <1>2, <3>2 DEF Shows, g
  <2>4. QED BY <2>2, <2>3
<1>3. CASE x \notin CellsIn(known) \cup {"@g", "@h"}
  BY <1>1, <1>3 DEF Shows, g
<1>4. QED BY <1>2, <1>3

\* What is brought from what is shown is shown.
LEMMA SourceShows ==
    ASSUME NEW f, NEW known, WellTyped(f, known), NEW flow, Within(f, known, flow), NEW r \in Roots,
           NEW i \in InstsOf(f), Brings(i), Shows(flow, known, SourceOf(f, i), r),
           SourceOf(f, i) # "null", SourceOf(f, i) \in DOMAIN known => known[SourceOf(f, i)] # "holder"
    PROVE  Shows(Transfer(Globals, flow, i), known, i.res, r)
<1> DEFINE g == Transfer(Globals, flow, i)
           y == SourceOf(f, i)
<1>1. /\ i.op = "cast" => /\ i.res \in DOMAIN g.origins /\ g.origins[i.res] = Origin(flow, i.args[1])
                          /\ PointerSlot(Globals, flow, i.args[1]) # NoSlot =>
                                 i.res \in DOMAIN g.slots /\ g.slots[i.res] = PointerSlot(Globals, flow, i.args[1])
      /\ i.op = "load" => i.res \in DOMAIN g.origins /\ g.origins[i.res] = LoadOrigin(Globals, flow, i.args[1])
  BY TransferMaps
<1>2. /\ i.res \in Locals /\ i.res \in DOMAIN known /\ y \in Names
      /\ i.op = "cast" => /\ y = i.args[1] /\ i.args[1] \in DOMAIN known
                          /\ known[i.res] = known[i.args[1]] /\ known[i.res] \in {"value", "cell"}
      /\ i.op = "load" /\ i.args[1] \in DOMAIN Spills(f) =>
             /\ y = Spills(f)[i.args[1]] /\ y \in ValuesIn(known) \cup {"null"}
             /\ known[i.res] = "value"
      /\ i.op = "load" /\ i.args[1] \notin DOMAIN Spills(f) =>
             /\ y = i.args[1] /\ i.args[1] \in DOMAIN known /\ known[i.args[1]] \in {"cell", "holder"}
             /\ known[i.res] # "cell"
  BY BringsInto
<1> HIDE DEF g, y
<1>3. i.res \notin {"@g", "@h"} /\ i.res \notin Globals
  BY <1>2 DEF Locals, Globals
<1>4. NamesIn(known) /\ flow.spills = Spills(f)
  BY DEF WellTyped, Within
<1>5. \A x \in DOMAIN known : x \in {"@g", "@h"} => known[x] = "cell"
  BY <1>4, NamesAre DEF Globals
<1>6. \A x \in DOMAIN known : known[x] # "cell" /\ known[x] # "holder" => IsLocal(x)
  BY <1>4, NamesAre
<1>7. \A x \in DOMAIN known : x \in CellsIn(known) <=> known[x] = "cell"
  BY DEF CellsIn, Typed
\* A value whose origin is shown.
<1>8. ASSUME y \in DOMAIN known, known[y] = "value" PROVE Origin(flow, y) = Told(r)
  <2>1. y \notin CellsIn(known) \cup {"@g", "@h"} /\ IsLocal(y)
    BY <1>5, <1>6, <1>7, <1>8
  <2>2. y \in DOMAIN flow.origins /\ flow.origins[y] = Told(r)
    BY <2>1 DEF Shows, y
  <2>3. y # "null"
    BY DEF y
  <2>4. QED BY <2>1, <2>2, <2>3 DEF Origin
<1>9. CASE i.op = "cast" /\ known[i.res] = "cell"
  <2>1. PointerSlot(Globals, flow, y) = r /\ r # NoSlot
    BY <1>2, <1>7, <1>9, RootsAre DEF Shows, y
  <2>2. i.res \in DOMAIN g.slots /\ g.slots[i.res] = r
    BY <1>1, <1>2, <1>9, <2>1
  <2>3. QED BY <1>2, <1>3, <1>7, <1>9, <2>2 DEF Shows, PointerSlot, g
<1>10. CASE i.op = "cast" /\ known[i.res] = "value"
  <2>1. g.origins[i.res] = Told(r) /\ i.res \in DOMAIN g.origins
    BY <1>1, <1>2, <1>8, <1>10
  <2>2. QED BY <1>2, <1>3, <1>7, <1>10, <2>1 DEF Shows, g
<1>11. CASE i.op = "load" /\ i.args[1] \in DOMAIN Spills(f)
  <2>1. y \in ValuesIn(known)
    BY <1>2, <1>11 DEF y
  <2>2. Origin(flow, y) = Told(r)
    BY <1>8, <2>1 DEF ValuesIn, Typed
  <2>3. LoadOrigin(Globals, flow, i.args[1]) = Told(r)
    BY <1>2, <1>4, <1>11, <2>2 DEF LoadOrigin
  <2>4. QED BY <1>1, <1>2, <1>3, <1>7, <1>11, <2>3 DEF Shows, g
<1>12. CASE i.op = "load" /\ i.args[1] \notin DOMAIN Spills(f)
  <2>1. y = i.args[1] /\ y \in DOMAIN known /\ known[y] = "cell"
    BY <1>2, <1>12 DEF y
  <2>2. PointerSlot(Globals, flow, y) = r /\ r # NoSlot
    BY <1>7, <2>1, RootsAre DEF Shows, y
  <2>3. r \in SlotClaims
    <3>1. y \in CellsIn(known)
      BY <1>7, <2>1
    <3>2. QED BY <2>2, <3>1, PointerWithin
  <2>4. LoadOrigin(Globals, flow, i.args[1]) = Told(r)
    BY <1>4, <1>12, <2>1, <2>2, <2>3 DEF LoadOrigin, Told
  <2>5. QED BY <1>1, <1>2, <1>3, <1>7, <1>12, <2>4 DEF Shows, g
<1>13. QED BY <1>2, <1>9, <1>10, <1>11, <1>12 DEF Brings

\* An instruction keeps what is shown, and shows what it brings.
LEMMA TransferShows ==
    ASSUME NEW f, NEW known, WellTyped(f, known), NEW flow, Within(f, known, flow), NEW r \in Roots,
           NEW s, NEW s1, s \subseteq s1, s1 \subseteq DOMAIN AllInsts(f), ShowsAll(f, known, r, flow, s1),
           \A k \in s1 : Sourced(f, r, s, k),
           NEW m \in DOMAIN AllInsts(f), NEW s2, s2 \subseteq s1 \cup {m}, m \in s2 => Sourced(f, r, s, m)
    PROVE  ShowsAll(f, known, r, Transfer(Globals, flow, InstAt(f, m)), s2)
<1> DEFINE i == InstAt(f, m)
           g == Transfer(Globals, flow, i)
<1>1. Lists(AllInsts(f), f)
  BY AllInstsAre DEF IsTyped
<1>2. \A k \in DOMAIN AllInsts(f) : InstAt(f, k) \in InstsOf(f)
  BY <1>1 DEF Lists, InstAt
<1>3. \A k \in s1 : /\ InstAt(f, k).res \in Locals /\ InstAt(f, k).res # NoName
                    /\ InstAt(f, k).res \in DOMAIN known /\ known[InstAt(f, k).res] # "holder"
  <2> SUFFICES ASSUME NEW k \in s1
               PROVE /\ InstAt(f, k).res \in Locals /\ InstAt(f, k).res # NoName
                     /\ InstAt(f, k).res \in DOMAIN known /\ known[InstAt(f, k).res] # "holder"
    OBVIOUS
  <2>1. InstAt(f, k) \in InstsOf(f) /\ Sourced(f, r, s, k)
    BY <1>2
  <2>2. CASE Opens(InstAt(f, k), r)
    BY <2>1, <2>2, GepOpens DEF Opens
  <2>3. CASE Brings(InstAt(f, k))
    BY <2>1, <2>3, BringsInto
  <2>4. QED BY <2>1, <2>2, <2>3 DEF Sourced
<1>4. NamesIn(known) /\ i \in InstsOf(f)
  BY <1>2 DEF WellTyped
<1>5. ASSUME Sourced(f, r, s, m) PROVE Shows(g, known, i.res, r) /\ i.res # NoName
  <2>1. CASE Opens(i, r)
    <3>1. i.op = "gep" /\ i.type = "S" /\ r = Field
      BY <2>1 DEF Opens
    <3>2. i.res \in Locals /\ i.res # NoName /\ i.res \in DOMAIN known /\ known[i.res] = "cell"
      BY <1>4, <3>1, GepOpens
    <3>3. i.res \in DOMAIN g.slots /\ g.slots[i.res] = Field
      BY <1>4, <3>1, TransferMaps
    <3>4. i.res \in CellsIn(known) /\ i.res \notin Globals
      BY <3>2 DEF CellsIn, Typed, Locals, Globals
    <3> HIDE DEF g, i
    <3>5. QED BY <3>1, <3>2, <3>3, <3>4 DEF Shows, PointerSlot
  <2>2. CASE Brings(i) /\ (IsRoot(SourceOf(f, i), r) \/ \E j \in s : SourceOf(f, i) = InstAt(f, j).res)
    <3> DEFINE y == SourceOf(f, i)
    <3>1. Shows(flow, known, y, r) /\ y # "null" /\ (y \in DOMAIN known => known[y] # "holder")
      <4>1. CASE IsRoot(y, r)
        <5>1. y \in {"@g", "@h", "cb", "ud"} /\ y # "null"
          BY <4>1, RootsAre
        <5>2. y \in DOMAIN known => known[y] # "holder"
          BY <1>4, <5>1, NamesAre DEF Globals
        <5>3. QED BY <4>1, <5>1, <5>2 DEF ShowsAll
      <4>2. CASE \E j \in s : y = InstAt(f, j).res
        <5>1. PICK j \in s : y = InstAt(f, j).res
          BY <4>2
        <5>2. j \in s1 /\ y \in Locals /\ known[y] # "holder"
          BY <1>3, <5>1
        <5>3. y # "null"
          BY <5>2 DEF Locals
        <5>4. QED BY <5>1, <5>2, <5>3 DEF ShowsAll
      <4>3. QED BY <2>2, <4>1, <4>2
    <3>2. QED BY <1>4, <2>2, <3>1, SourceShows, BringsInto
  <2>3. QED BY <1>5, <2>1, <2>2 DEF Sourced
<1> HIDE DEF g
<1>6. ASSUME NEW x, IsRoot(x, r) PROVE Shows(g, known, x, r)
  <2>1. x # i.res
    BY <1>4, <1>6, RootsAre, ResIs
  <2>2. QED BY <1>4, <1>6, <2>1, StaysShown DEF ShowsAll, g
<1>7. ASSUME NEW k \in s2 PROVE Shows(g, known, InstAt(f, k).res, r)
  <2>1. CASE k = m
    BY <1>5, <1>7, <2>1
  <2>2. CASE k # m /\ InstAt(f, k).res # i.res
    <3>1. k \in s1 /\ Shows(flow, known, InstAt(f, k).res, r)
      BY <2>2 DEF ShowsAll
    <3>2. QED BY <1>4, <2>2, <3>1, StaysShown DEF g
  <2>3. CASE k # m /\ InstAt(f, k).res = i.res
    <3>1. k \in s1 /\ Sourced(f, r, s, k) /\ InstAt(f, k) \in InstsOf(f) /\ i \in InstsOf(f)
      BY <1>2, <2>3
    <3>2. InstAt(f, k) = i
      BY <1>3, <2>3, <3>1, MadeOnce
    <3>3. Sourced(f, r, s, m)
      BY <3>1, <3>2 DEF Sourced
    <3>4. QED BY <1>5, <2>3, <3>3
  <2>4. QED BY <2>1, <2>2, <2>3
<1>8. QED BY <1>6, <1>7 DEF ShowsAll, g
\* A round shows all that comes from what was shown before.
LEMMA RoundShows ==
    ASSUME NEW f, NEW known, WellTyped(f, known), NEW flow, Within(f, known, flow), NEW r \in Roots,
           NEW s, NEW t, s \subseteq t, t \subseteq DOMAIN AllInsts(f), ShowsAll(f, known, r, flow, s),
           \A k \in t : Sourced(f, r, s, k)
    PROVE  ShowsAll(f, known, r, Round(Globals, AllInsts(f), flow), t)
<1>1. Lists(AllInsts(f), f)
  BY AllInstsAre DEF IsTyped
<1>2. PICK n \in Nat : /\ n = Len(AllInsts(f)) /\ DOMAIN AllInsts(f) = 1..n
                       /\ \A k \in 1..n : AllInsts(f)[k].inst \in InstsOf(f)
  BY <1>1 DEF Lists
<1> DEFINE insts == AllInsts(f)
           u == CHOOSE u : Steps(insts, flow, n, u)
<1>3. Round(Globals, insts, flow) = u[n]
  BY <1>2 DEF Round, Steps
<1>4. Steps(insts, flow, n, u)
  BY StepsAre
<1> HIDE DEF u, insts
<1>5. \A k \in 0..n : u[k] = IF k = 0 THEN flow ELSE Transfer(Globals, u[k - 1], insts[k].inst)
  BY <1>4 DEF Steps
<1> DEFINE Past(k) == s \cup {j \in t : j <= k}
           T == {k \in Nat : k <= n => Within(f, known, u[k]) /\ ShowsAll(f, known, r, u[k], Past(k))}
<1>a. \A j \in t : j \in Nat /\ 1 <= j /\ j <= n
  BY <1>2
<1>b. \A k, j : j \in Past(k) <=> j \in s \/ (j \in t /\ j <= k)
  OBVIOUS
<1>6. 0 \in T
  <2>1. u[0] = flow
    BY <1>5
  <2> HIDE DEF Past
  <2>2. Past(0) = s
    <3>1. \A j \in t : ~(j <= 0)
      BY <1>a
    <3>2. \A j : j \in Past(0) <=> j \in s
      BY <1>b, <3>1
    <3>3. QED BY <3>2
  <2>3. QED BY <2>1, <2>2
<1>7. \A k \in Nat : k < n /\ k \in T => k + 1 \in T
  <2> SUFFICES ASSUME NEW k \in Nat, k < n, Within(f, known, u[k]), ShowsAll(f, known, r, u[k], Past(k))
               PROVE Within(f, known, u[k + 1]) /\ ShowsAll(f, known, r, u[k + 1], Past(k + 1))
    OBVIOUS
  <2>1. k + 1 \in 0..n /\ k + 1 # 0 /\ (k + 1) - 1 = k /\ k + 1 \in 1..n
    OBVIOUS
  <2>2. u[k + 1] = Transfer(Globals, u[k], InstAt(f, k + 1))
    BY <1>5, <2>1 DEF InstAt, insts
  <2>3. InstAt(f, k + 1) \in InstsOf(f)
    BY <1>2, <2>1 DEF InstAt
  <2>4. Within(f, known, u[k + 1])
    BY <2>2, <2>3, TransferWithin
  <2>5. Past(k + 1) \subseteq Past(k) \cup {k + 1}
    <3> HIDE DEF Past
    <3>1. \A j \in t : j <= k + 1 => j <= k \/ j = k + 1
      BY <1>a
    <3>2. QED BY <1>b, <3>1
  <2>6. k + 1 \in Past(k + 1) => Sourced(f, r, s, k + 1)
    OBVIOUS
  <2>7. s \subseteq Past(k) /\ Past(k) \subseteq DOMAIN AllInsts(f) /\ \A j \in Past(k) : Sourced(f, r, s, j)
    OBVIOUS
  <2>8. k + 1 \in DOMAIN AllInsts(f)
    BY <1>2, <2>1
  <2> HIDE DEF Past
  <2>9. ShowsAll(f, known, r, Transfer(Globals, u[k], InstAt(f, k + 1)), Past(k + 1))
    BY <2>5, <2>6, <2>7, <2>8, TransferShows
  <2>10. QED BY <2>2, <2>4, <2>9
<1> HIDE DEF T
<1>8. n \in T
  <2>1. 0..n \subseteq T
    BY <1>6, <1>7, Upwards
  <2>2. QED BY <2>1
<1> HIDE DEF Past
<1>9. Past(n) = t
  <2>1. \A j \in t : j <= n
    BY <1>a
  <2>2. \A j : j \in Past(n) <=> j \in t
    BY <1>b, <2>1
  <2>3. QED BY <2>2
<1>10. QED BY <1>3, <1>8, <1>9 DEF T, insts

\* An instruction leads to those its result is brought into.
LeadsOn(R, f) ==
    \A j, k \in DOMAIN AllInsts(f) :
        <<j, k>> \in R <=> Brings(InstAt(f, k)) /\ SourceOf(f, InstAt(f, k)) = InstAt(f, j).res
Starts(f, r) ==
    {k \in DOMAIN AllInsts(f) :
        Opens(InstAt(f, k), r) \/ (Brings(InstAt(f, k)) /\ IsRoot(SourceOf(f, InstAt(f, k)), r))}

\* What a search from a root gets to is shown by solve.
LEMMA SolveShows ==
    ASSUME NEW f, NEW known, WellTyped(f, known), NEW flow, Within(f, known, flow), NEW r \in Roots,
           ShowsAll(f, known, r, flow, {}), NEW n \in Nat, n = Len(AllInsts(f)),
           NEW R, LeadsOn(R, f), NEW c, Spreads(c, n, Starts(f, r), R)
    PROVE  ShowsAll(f, known, r, Solve(Globals, AllInsts(f), flow), c[n])
<1>1. DOMAIN AllInsts(f) = 1..n
  BY AllInstsAre DEF IsTyped, Lists
<1>2. Starts(f, r) \subseteq 1..n
  BY <1>1 DEF Starts
<1>3. \A k \in 0..n : c[k] \subseteq 1..n
  BY <1>2, Closes
<1>4. c[0] = Starts(f, r) /\ \A k \in 1..n : c[k] = c[k - 1] \cup {y \in 1..n : \E x \in c[k - 1] : <<x, y>> \in R}
  BY DEF Spreads
<1>5. \A k \in Starts(f, r) : \A s : Sourced(f, r, s, k)
  BY DEF Starts, Sourced
\* Each is brought from a parameter, or from what was got to before.
<1> DEFINE T1 == {k \in Nat : k <= n => \A y \in c[k] : Sourced(f, r, c[k], y)}
<1>6. \A k \in Nat : k < n /\ k \in T1 => c[k] \subseteq c[k + 1] /\ \A y \in c[k + 1] : Sourced(f, r, c[k], y)
  <2> SUFFICES ASSUME NEW k \in Nat, k < n, \A y \in c[k] : Sourced(f, r, c[k], y)
               PROVE  c[k] \subseteq c[k + 1] /\ \A y \in c[k + 1] : Sourced(f, r, c[k], y)
    OBVIOUS
  <2>1. k + 1 \in 1..n /\ (k + 1) - 1 = k /\ k \in 0..n
    OBVIOUS
  <2>2. c[k + 1] = c[k] \cup {y \in 1..n : \E x \in c[k] : <<x, y>> \in R}
    BY <1>4, <2>1
  <2>3. c[k] \subseteq 1..n
    BY <1>3, <2>1
  <2>4. ASSUME NEW y \in c[k + 1], y \notin c[k] PROVE Sourced(f, r, c[k], y)
    <3>1. y \in 1..n /\ \E x \in c[k] : <<x, y>> \in R
      BY <2>2, <2>4
    <3>2. PICK x \in c[k] : <<x, y>> \in R
      BY <3>1
    <3>3. Brings(InstAt(f, y)) /\ SourceOf(f, InstAt(f, y)) = InstAt(f, x).res
      BY <1>1, <2>3, <3>1, <3>2 DEF LeadsOn
    <3>4. QED BY <3>2, <3>3 DEF Sourced
  <2>5. QED BY <2>2, <2>4
<1>7. 0 \in T1
  BY <1>4, <1>5
<1>8. \A k \in Nat : k < n /\ k \in T1 => k + 1 \in T1
  <2> SUFFICES ASSUME NEW k \in Nat, k < n, k \in T1 PROVE \A y \in c[k + 1] : Sourced(f, r, c[k + 1], y)
    OBVIOUS
  <2>1. c[k] \subseteq c[k + 1] /\ \A y \in c[k + 1] : Sourced(f, r, c[k], y)
    BY <1>6
  <2>2. QED BY <2>1 DEF Sourced
<1> HIDE DEF T1
<1>9. 0..n \subseteq T1
  BY <1>7, <1>8, Upwards
\* Round by round, the search is one behind.
<1> DEFINE insts == AllInsts(f)
           u == CHOOSE u : Rounds(insts, flow, n + 1, u)
<1>10. Solve(Globals, insts, flow) = u[n + 1].flow
  BY DEF Solve, Rounds, RoundOn
<1>11. Rounds(insts, flow, n + 1, u)
  <2>1. n + 1 \in Nat
    OBVIOUS
  <2>2. \E v : Rounds(insts, flow, n + 1, v)
    BY <2>1, RoundsAre
  <2>3. QED BY <2>2
<1> HIDE DEF u, insts
<1>12. \A k \in 0..(n + 1) : u[k] = IF k = 0 THEN [flow |-> flow, done |-> FALSE] ELSE RoundOn(insts, u[k - 1])
  BY <1>11 DEF Rounds
<1> DEFINE Right(q) == Within(f, known, q.flow) /\ (q.done => Round(Globals, insts, q.flow) = q.flow)
           T2 == {k \in Nat : k <= n => Right(u[k]) /\ u[k + 1].flow = Round(Globals, insts, u[k].flow) /\ ShowsAll(f, known, r, u[k + 1].flow, c[k])}
<1>13. ASSUME NEW q, Right(q)
       PROVE  /\ RoundOn(insts, q).flow = Round(Globals, insts, q.flow) /\ Right(RoundOn(insts, q))
  <2> DEFINE g == Round(Globals, insts, q.flow)
  <2>1. Within(f, known, g)
    BY <1>13, RoundWithin DEF insts
  <2> HIDE DEF g
  <2>2. CASE q.done
    <3>1. RoundOn(insts, q) = q
      BY <2>2 DEF RoundOn
    <3>2. QED BY <1>13, <2>2, <3>1
  <2>3. CASE ~q.done
    <3>1. PICK b \in BOOLEAN : b <=> g = q.flow
      OBVIOUS
    <3>2. RoundOn(insts, q) = [flow |-> g, done |-> b]
      BY <2>3, <3>1, Zenon DEF RoundOn, g
    <3>3. RoundOn(insts, q).flow = g /\ RoundOn(insts, q).done = b
      BY <3>2
    <3>4. QED BY <2>1, <3>1, <3>3 DEF g
  <2>4. QED BY <2>2, <2>3
<1>14. 0 \in T2
  <2>1. 0 \in 0..(n + 1) /\ 1 \in 0..(n + 1) /\ 1 # 0 /\ 1 - 1 = 0 /\ 0 + 1 = 1
    OBVIOUS
  <2>2. u[0].flow = flow /\ u[0].done = FALSE
    BY <1>12, <2>1
  <2>3. Right(u[0])
    BY <2>2
  <2>4. u[1] = RoundOn(insts, u[0])
    BY <1>12, <2>1
  <2> HIDE DEF Right
  <2>5. u[1].flow = Round(Globals, insts, flow)
    BY <1>13, <2>2, <2>3, <2>4
  <2>6. ShowsAll(f, known, r, u[1].flow, Starts(f, r))
    <3>1. \A k \in Starts(f, r) : Sourced(f, r, {}, k)
      BY <1>5
    <3>2. Starts(f, r) \subseteq DOMAIN AllInsts(f)
      BY DEF Starts
    <3>3. QED BY <2>5, <3>1, <3>2, RoundShows DEF insts
  <2>7. QED BY <1>4, <2>1, <2>2, <2>3, <2>5, <2>6
<1>15. \A k \in Nat : k < n /\ k \in T2 => k + 1 \in T2
  <2> SUFFICES ASSUME NEW k \in Nat, k < n, Right(u[k]), u[k + 1].flow = Round(Globals, insts, u[k].flow),
                      ShowsAll(f, known, r, u[k + 1].flow, c[k])
               PROVE  /\ Right(u[k + 1]) /\ u[(k + 1) + 1].flow = Round(Globals, insts, u[k + 1].flow)
                      /\ ShowsAll(f, known, r, u[(k + 1) + 1].flow, c[k + 1])
    OBVIOUS
  <2>1. /\ k + 1 \in 0..(n + 1) /\ k + 1 # 0 /\ (k + 1) - 1 = k /\ k \in 0..n /\ k + 1 \in 0..n
        /\ (k + 1) + 1 \in 0..(n + 1) /\ (k + 1) + 1 # 0 /\ ((k + 1) + 1) - 1 = k + 1
    OBVIOUS
  <2>2. u[k + 1] = RoundOn(insts, u[k]) /\ u[(k + 1) + 1] = RoundOn(insts, u[k + 1])
    BY <1>12, <2>1
  <2> HIDE DEF Right
  <2>3. Right(u[k + 1])
    BY <1>13, <2>2
  <2>4. u[(k + 1) + 1].flow = Round(Globals, insts, u[k + 1].flow)
    BY <1>13, <2>2, <2>3
  <2>5. k \in T1
    BY <1>9, <2>1
  <2>6. c[k] \subseteq c[k + 1] /\ \A y \in c[k + 1] : Sourced(f, r, c[k], y)
    BY <1>6, <2>5
  <2>7. c[k + 1] \subseteq DOMAIN AllInsts(f)
    BY <1>1, <1>3, <2>1
  <2>8. Within(f, known, u[k + 1].flow)
    BY <2>3 DEF Right
  <2>9. ShowsAll(f, known, r, Round(Globals, AllInsts(f), u[k + 1].flow), c[k + 1])
    BY <2>6, <2>7, <2>8, RoundShows
  <2>10. QED BY <2>3, <2>4, <2>9 DEF insts
<1> HIDE DEF T2
<1>16. n \in T2
  <2>1. 0..n \subseteq T2
    BY <1>14, <1>15, Upwards
  <2>2. QED BY <2>1
<1>17. QED BY <1>10, <1>16 DEF T2, insts

\* What solve begins with is within what is claimed, and shows the roots.
FirstFlow(f) ==
    [origins |-> [p \in ToSet(f.params) |-> Param(CHOOSE i \in DOMAIN f.params : f.params[i] = p)],
     slots   |-> [n \in {} |-> NoSlot],
     spills  |-> Spills(f),
     owned   |-> {}]

LEMMA FirstWithin ==
    ASSUME NEW f, NEW known, WellTyped(f, known)
    PROVE  Within(f, known, FirstFlow(f)) /\ \A r \in Roots : ShowsAll(f, known, r, FirstFlow(f), {})
<1> DEFINE which(p) == CHOOSE i \in DOMAIN f.params : f.params[i] = p
           first == FirstFlow(f)
<1>1. f.params = Params /\ DOMAIN Params = 1..3 /\ \A j, k \in 1..3 : Params[j] = Params[k] => j = k
  BY ParamsAre DEF WellTyped
<1>2. ASSUME NEW k \in 1..3 PROVE Params[k] \in ToSet(f.params) /\ which(Params[k]) = k
  BY <1>1 DEF ToSet
<1>3. \A p \in ToSet(f.params) : \E k \in 1..3 : p = Params[k]
  BY <1>1 DEF ToSet
<1>4. /\ DOMAIN first = {"origins", "slots", "spills", "owned"} /\ first.spills = Spills(f) /\ DOMAIN first.slots = {}
      /\ first.owned = {}
      /\ DOMAIN first.origins = ToSet(f.params) /\ \A p \in ToSet(f.params) : first.origins[p] = Param(which(p))
  BY DEF FirstFlow
<1> HIDE DEF first, which
<1>5. ASSUME NEW k \in 1..3 PROVE Params[k] \in DOMAIN first.origins /\ first.origins[Params[k]] = Param(k)
  BY <1>2, <1>4
<1>6. ASSUME NEW p \in ToSet(f.params) PROVE OriginOk(f, p, first.origins[p])
  <2>1. PICK k \in 1..3 : p = Params[k]
    BY <1>3
  <2>2. first.origins[p] = Param(k)
    BY <1>5, <2>1
  <2>3. p \in Names /\ Param(k) \in OriginClaims /\ Param(k) \in Claims
    BY <1>1 DEF Names, OriginClaims, Claims
  <2>4. Begins(f, p, Param(k))
    BY <2>1 DEF Begins
  <2>5. QED BY <2>2, <2>3, <2>4, ClaimsHold DEF Holding, OriginOk
<1>7. Within(f, known, first)
  BY <1>4, <1>6 DEF Within
<1>8. ASSUME NEW r \in Roots, NEW x, IsRoot(x, r) PROVE Shows(first, known, x, r)
  <2>1. CASE x \in {"@g", "@h"}
    <3>1. r = <<x>>
      BY <1>8, <2>1, ParamsAre DEF IsRoot
    <3>2. PointerSlot(Globals, first, x) = <<x>>
      BY <1>4, <2>1 DEF PointerSlot, Globals
    <3>3. QED BY <2>1, <3>1, <3>2 DEF Shows
  <2>2. CASE x \notin {"@g", "@h"}
    <3>1. PICK p \in 1..2 : x = Params[p] /\ r = Param(p)
      BY <1>8, <2>2 DEF IsRoot
    <3>2. x \notin CellsIn(known)
      <4>1. x \in {"cb", "ud"}
        BY <3>1, ParamsAre
      <4>2. NamesIn(known)
        BY DEF WellTyped
      <4>3. x \in DOMAIN known => known[x] = "value"
        BY <4>1, <4>2, NamesAre
      <4>4. QED BY <4>3 DEF CellsIn, Typed
    <3>3. r \notin SlotClaims
      BY <3>1, RootsAre
    <3>4. p \in 1..3
      OBVIOUS
    <3>5. QED BY <1>5, <2>2, <3>1, <3>2, <3>3, <3>4 DEF Shows, Told
  <2>3. QED BY <2>1, <2>2
<1>9. QED BY <1>7, <1>8 DEF ShowsAll, first
\* Whatever is claimed of a name about a root, solve has found.
LEMMA ClaimsAreFound ==
    ASSUME NEW f, NEW known, WellTyped(f, known), NEW r \in Roots, NEW x, NEW d, About(r, d), <<x, d>> \in Claimed(f)
    PROVE  Shows(FlowOf(Globals, f), known, x, r)
<1>1. PICK n \in Nat : n = Len(AllInsts(f)) /\ DOMAIN AllInsts(f) = 1..n /\ Lists(AllInsts(f), f)
  BY AllInstsAre DEF IsTyped, Lists
<1> DEFINE R == {q \in (1..n) \X (1..n) : Brings(InstAt(f, q[2])) /\ SourceOf(f, InstAt(f, q[2])) = InstAt(f, q[1]).res}
<1>2. LeadsOn(R, f)
  BY <1>1 DEF LeadsOn
<1>3. Starts(f, r) \subseteq 1..n
  BY <1>1 DEF Starts
<1> HIDE DEF R
<1>4. PICK c : Spreads(c, n, Starts(f, r), R)
  BY <1>3, SpreadExists
<1>5. Least(c[n], n, Starts(f, r), R)
  BY <1>3, <1>4, Closes
<1> DEFINE first == FirstFlow(f)
           flow == FlowOf(Globals, f)
<1>6. flow = Solve(Globals, AllInsts(f), first)
  BY DEF FlowOf, Spills, FirstFlow
<1>7. Within(f, known, first) /\ ShowsAll(f, known, r, first, {})
  BY FirstWithin
<1> HIDE DEF first, flow
<1>8. ShowsAll(f, known, r, flow, c[n])
  BY <1>1, <1>2, <1>4, <1>6, <1>7, SolveShows
<1>9. \A k \in c[n] : k \in 1..n /\ (Opens(InstAt(f, k), r) \/ Brings(InstAt(f, k)))
  <2> DEFINE T == {k \in 1..n : Opens(InstAt(f, k), r) \/ Brings(InstAt(f, k))}
  <2>1. Starts(f, r) \subseteq T
    BY <1>3 DEF Starts
  <2>2. ClosedUnder(T, n, R)
    <3>1. ASSUME NEW j \in T, NEW k \in 1..n, <<j, k>> \in R PROVE k \in T
      BY <1>1, <1>2, <3>1 DEF LeadsOn
    <3> HIDE DEF T
    <3>2. QED BY <3>1 DEF ClosedUnder
  <2> HIDE DEF T
  <2>3. c[n] \subseteq T
    BY <1>5, <2>1, <2>2 DEF Least
  <2>4. QED BY <2>3 DEF T
<1>10. \A k \in 1..n : InstAt(f, k) \in InstsOf(f)
  BY <1>1 DEF Lists, InstAt
<1> DEFINE B == {y \in Names : IsRoot(y, r) \/ \E k \in c[n] : y = InstAt(f, k).res}
           X == {q \in Names \X Claims : About(r, q[2]) => q[1] \in B}
<1>11. \A y, e : <<y, e>> \in X <=> y \in Names /\ e \in Claims /\ (About(r, e) => y \in B)
  OBVIOUS
<1>12. X \in SUBSET (Names \X Claims)
  OBVIOUS
<1>13. \A y \in Names : y \in B <=> IsRoot(y, r) \/ \E k \in c[n] : y = InstAt(f, k).res
  OBVIOUS
<1> HIDE DEF X, B
\* What is brought from what was got to is got to.
<1>14. ASSUME NEW i \in InstsOf(f), Opens(i, r) \/ (Brings(i) /\ SourceOf(f, i) \in B), i.res \in Names PROVE i.res \in B
  <2>1. PICK k \in 1..n : InstAt(f, k) = i
    BY <1>1 DEF Lists, InstAt
  <2>2. k \in c[n]
    <3>1. CASE Opens(i, r) \/ (Brings(i) /\ IsRoot(SourceOf(f, i), r))
      BY <1>1, <1>5, <2>1, <3>1 DEF Least, Starts
    <3>2. CASE Brings(i) /\ \E j \in c[n] : SourceOf(f, i) = InstAt(f, j).res
      <4>1. PICK j \in c[n] : SourceOf(f, i) = InstAt(f, j).res
        BY <3>2
      <4>2. j \in 1..n
        BY <1>9
      <4>3. <<j, k>> \in R
        BY <1>1, <1>2, <2>1, <3>2, <4>1, <4>2 DEF LeadsOn
      <4>4. QED BY <1>5, <4>3 DEF Least, ClosedUnder
    <3>3. SourceOf(f, i) \in B => SourceOf(f, i) \in Names
      BY DEF B
    <3>4. QED BY <1>13, <1>14, <3>1, <3>2, <3>3
  <2>3. QED BY <1>13, <1>14, <2>1, <2>2
<1>15. Holding(f, X)
  <2>1. ASSUME NEW y \in Names, NEW e \in Claims, Begins(f, y, e) PROVE <<y, e>> \in X
    <3> SUFFICES ASSUME About(r, e) PROVE y \in B
      BY <1>11
    <3>1. e = r
      <4>1. ASSUME r \in SlotClaims, e = SlotLoad(r) PROVE FALSE
        <5>1. \A k : SlotLoad(r) # Param(k)
          BY DEF SlotLoad, Param
        <5>2. SlotLoad(r) # NullOrigin /\ SlotLoad(r) # Owned /\ \A z : SlotLoad(r) # <<z>>
          BY DEF SlotLoad, NullOrigin, Owned
        <5>3. SlotLoad(r) # Field
          BY DEF SlotLoad, Field
        <5>4. QED BY <2>1, <4>1, <5>1, <5>2, <5>3 DEF Begins
      <4>2. QED BY <4>1 DEF About, Told
    <3>2. r # NullOrigin /\ r # Owned
      BY RootsAre
    <3>3. CASE \E k \in 1..3 : y = Params[k] /\ e = Param(k)
      <4>1. PICK k \in 1..3 : y = Params[k] /\ r = Param(k)
        BY <3>1, <3>3
      <4>2. k \in 1..2
        <5>1. \A j \in 1..3 : Param(j) \notin SlotClaims
          <6>1. Param(1) \notin SlotClaims /\ Param(2) \notin SlotClaims /\ Param(3) \notin SlotClaims
            BY RootsAre
          <6>2. \A j \in 1..3 : j = 1 \/ j = 2 \/ j = 3
            OBVIOUS
          <6>3. QED BY <6>1, <6>2
        <5>2. r = Param(1) \/ r = Param(2)
          BY <4>1, <5>1 DEF Roots
        <5>3. k = 1 \/ k = 2
          BY <4>1, <5>2 DEF Param
        <5>4. QED BY <5>3
      <4>3. IsRoot(y, r)
        BY <4>1, <4>2 DEF IsRoot
      <4>4. QED BY <1>13, <4>3
    <3>4. CASE y \in {"@g", "@h"} /\ e = <<y>>
      BY <1>13, <3>1, <3>4 DEF IsRoot
    <3>5. CASE e = Field /\ \E i \in InstsOf(f) : i.op = "gep" /\ i.type = "S" /\ i.res = y
      <4>1. PICK i \in InstsOf(f) : i.op = "gep" /\ i.type = "S" /\ i.res = y
        BY <3>5
      <4>2. Opens(i, r)
        BY <3>1, <3>5, <4>1 DEF Opens
      <4>3. QED BY <1>14, <4>1, <4>2
    <3>6. QED BY <2>1, <3>1, <3>2, <3>3, <3>4, <3>5 DEF Begins
  <2>2. ASSUME NEW y \in Names, NEW z \in Names, NEW e \in Claims, Carries(f, y, z), <<y, e>> \in X PROVE <<z, e>> \in X
    <3> SUFFICES ASSUME About(r, e) PROVE z \in B
      BY <1>11
    <3>1. y \in B
      BY <1>11, <2>2
    <3>2. PICK i \in InstsOf(f) : i.res = z /\ Brings(i) /\ y = SourceOf(f, i)
      <4>1. PICK i \in InstsOf(f) :
                /\ i.res = z
                /\ \/ i.op = "cast" /\ y = i.args[1]
                   \/ i.op = "load" /\ i.args[1] \in DOMAIN Spills(f) /\ y = Spills(f)[i.args[1]]
        BY <2>2 DEF Carries
      <4>2. Brings(i) /\ y = SourceOf(f, i)
        BY <4>1 DEF Brings, SourceOf
      <4>3. QED BY <4>1, <4>2
    <3>3. QED BY <1>14, <3>1, <3>2
  <2>3. ASSUME NEW y \in Names, NEW z \in Names, NEW s \in SlotClaims, Reads(f, y, z), <<y, s>> \in X
        PROVE  <<z, SlotLoad(s)>> \in X
    <3>1. SlotLoad(s) \in Claims
      BY LoadClaimIs
    <3> SUFFICES ASSUME About(r, SlotLoad(s)) PROVE z \in B
      BY <1>11, <3>1
    <3>2. s = r
      BY RootsAre DEF About
    <3>3. y \in B
      BY <1>11, <2>3, <3>2 DEF About
    <3>4. PICK i \in InstsOf(f) : i.res = z /\ i.op = "load" /\ y = i.args[1]
      BY <2>3 DEF Reads
    <3>5. y \notin DOMAIN Spills(f)
      <4>1. SUFFICES ASSUME y \in DOMAIN Spills(f) PROVE FALSE
        OBVIOUS
      <4>2. y \in Locals /\ y # NoName
        BY <4>1, SpilledIs, SpotIs
      <4>3. ~IsRoot(y, r)
        BY <4>2, RootsAre
      <4>4. PICK k \in c[n] : y = InstAt(f, k).res
        BY <1>13, <3>3, <4>3
      <4>5. InstAt(f, k) \in InstsOf(f) /\ (Opens(InstAt(f, k), r) \/ Brings(InstAt(f, k)))
        BY <1>9, <1>10
      <4>6. InstAt(f, k).op = "alloca"
        BY <4>1, <4>2, <4>4, <4>5, MadeOnce
      <4>7. QED BY <4>5, <4>6 DEF Opens, Brings
    <3>6. Brings(i) /\ SourceOf(f, i) = y
      BY <3>4, <3>5 DEF Brings, SourceOf
    <3>7. QED BY <1>14, <3>3, <3>4, <3>6
  <2>4. QED BY <2>1, <2>2, <2>3 DEF Holding
<1>16. <<x, d>> \in X
  BY <1>12, <1>15 DEF Claimed
<1>17. x \in B /\ x \in Names
  BY <1>11, <1>16
<1>18. QED BY <1>8, <1>13, <1>17 DEF ShowsAll, flow

\* Whatever is claimed to be the callback or its user data is among its aliases
\* (param_aliases), what is claimed to point to a slot has that slot (pointer_slot), and
\* what is claimed to be read from one has that origin.
LEMMA AliasesAreAll ==
    ASSUME NEW f, NEW known, WellTyped(f, known), NEW p \in 1..2, NEW x, <<x, Param(p)>> \in Claimed(f)
    PROVE  x \in ParamAliases(FlowOf(Globals, f), p) /\ x \notin CellsIn(known)
<1>1. Param(p) \in Roots /\ Param(p) \notin SlotClaims /\ Param(p) # Owned
  BY RootsAre DEF Roots, Param, Owned
<1>2. Shows(FlowOf(Globals, f), known, x, Param(p))
  BY <1>1, ClaimsAreFound DEF About
<1>3. x \notin CellsIn(known)
  BY <1>1, ClaimsTyped
<1>4. x \notin {"@g", "@h"}
  <2>1. SUFFICES ASSUME x \in {"@g", "@h"} PROVE FALSE
    OBVIOUS
  <2>2. x \notin Locals /\ x # NoName /\ x # "null" /\ \A k \in 1..3 : x # Params[k]
    BY <2>1, ParamsAre DEF Locals, NoName
  <2>3. Param(p) = <<x>> \/ Param(p) = Owned
    BY <2>2, ClaimsOfGiven
  <2>4. QED BY <1>1, <2>3 DEF Param
<1>5. QED BY <1>1, <1>2, <1>3, <1>4 DEF Shows, Told, ParamAliases

LEMMA SlotFound ==
    ASSUME NEW f, NEW known, WellTyped(f, known), NEW s \in SlotClaims, NEW x, <<x, s>> \in Claimed(f)
    PROVE  PointerSlot(Globals, FlowOf(Globals, f), x) = s
<1>1. Shows(FlowOf(Globals, f), known, x, s)
  BY ClaimsAreFound DEF About, Roots
<1>2. x \in CellsIn(known) \cup {"@g", "@h"}
  BY ClaimsTyped
<1>3. QED BY <1>1, <1>2 DEF Shows

LEMMA LoadFound ==
    ASSUME NEW f, NEW known, WellTyped(f, known), NEW s \in SlotClaims, NEW x, <<x, SlotLoad(s)>> \in Claimed(f)
    PROVE  Origin(FlowOf(Globals, f), x) = SlotLoad(s) /\ x \in Locals
<1>1. Shows(FlowOf(Globals, f), known, x, s)
  BY ClaimsAreFound DEF About, Roots, Told
<1>2. /\ SlotLoad(s) \notin SlotClaims /\ SlotLoad(s) # Owned /\ SlotLoad(s) # NullOrigin
      /\ (\A k : SlotLoad(s) # Param(k)) /\ \A z : SlotLoad(s) # <<z>>
  <2>1. \A t \in SlotClaims : SlotLoad(t) # s /\ SlotLoad(s) # t
    BY DEF SlotClaims, SlotLoad, Field
  <2>2. QED BY <2>1 DEF SlotLoad, Owned, NullOrigin, Param
<1>3. x \notin CellsIn(known)
  BY <1>2, ClaimsTyped
<1>4. x # NoName
  <2>1. x \in Names
    BY ClaimsComeFrom
  <2>2. QED BY <2>1, ParamsAre DEF Names, Globals, Locals, NoName
<1>5. x \in Locals
  BY <1>2, <1>4, ClaimsOfGiven
<1>6. IsLocal(x) /\ x # "null" /\ x \notin {"@g", "@h"}
  BY <1>5, SpotIs DEF IsLocal, Locals
<1>7. QED BY <1>1, <1>3, <1>5, <1>6 DEF Shows, Told, Origin

-----------------------------------------------------------------------------
(* Where the callback and its user data are, as long as the analysis does  *)
(* not lose sight of them: in registers that are taken for them or for     *)
(* what was read from a slot, in spills, and in the slots that it found;   *)
(* and nobody else has them, or a pointer to such a slot.                  *)

InSlot(slots, a) == a \in Lasting /\ SlotOf(a) \in slots /\ a # <<"other", "f">>
Points(slots, v) == v \in Lasting /\ SlotOf(v) \in slots
Apart(slots, v) == v \notin Handed /\ ~Points(slots, v)

\* A value is not a parameter of the registration, or its name is taken for it, or for
\* what was read from a slot; and what points to a slot is taken for a pointer to it.
FromSlot(slots, f, x) == \E s \in slots : <<x, SlotLoad(s)>> \in Claimed(f)
Traced(on, slots, f, x, v) ==
    /\ \A p \in 1..2 : v = <<Params[p]>> => (on /\ <<x, Param(p)>> \in Claimed(f)) \/ FromSlot(slots, f, x)
    /\ Points(slots, v) => <<x, SlotOf(v)>> \in Claimed(f)
TracedCell(on, slots, f, a, v) ==
    \A p \in 1..2 : v = <<Params[p]>> =>
        \/ InSlot(slots, a)
        \/ on /\ \E s \in DOMAIN Spills(f) : a = <<s>> /\ <<Spills(f)[s], Param(p)>> \in Claimed(f)
Tracked(on, slots, f, regs, mem, handed) ==
    /\ \A x \in DOMAIN regs : Traced(on, slots, f, x, regs[x])
    /\ \A a \in DOMAIN mem : TracedCell(on, slots, f, a, mem[a])
    /\ \A v \in handed : Apart(slots, v)
Idle(slots, mem, handed) ==
    /\ \A a \in DOMAIN mem : mem[a] \in Handed => InSlot(slots, a)
    /\ \A v \in handed : Apart(slots, v)

\* Nothing is done with what is taken for a parameter, for a pointer to a slot or for
\* what was read from one but what is seen through.
ToSlot(slots, f, x) == \E s \in slots : <<x, s>> \in Claimed(f)
Passes(i) == i.op \in {"other", "return"} \/ (i.op = "call" /\ i.args[1] = "@ext")
Careful(on, slots, f) ==
    /\ slots \subseteq SlotClaims
    /\ \A i \in InstsOf(f) : \A k \in DOMAIN i.args :
          /\ ToSlot(slots, f, i.args[k]) => ~Passes(i)
          /\ FromSlot(slots, f, i.args[k]) => ~Passes(i) /\ i.op \notin {"store", "gep"}
          /\ \A p \in 1..2 : on /\ <<i.args[k], Param(p)>> \in Claimed(f) =>
                \/ /\ i.op = "store"
                   /\ i.args[k] = i.args[1] =>
                         \/ i.args[2] \in DOMAIN Spills(f)
                         \/ ToSlot(slots, f, i.args[2]) /\ <<i.args[2], Owned>> \in Claimed(f)
                \/ i.op \in {"load", "cast", "compare"}
                \/ i.op = "call" /\ i.args[1] # "@ext"
Watched(on, slots, f, known, regs, mem, handed, i) ==
    /\ Before(f, known, regs, mem, handed, i) /\ Tracked(on, slots, f, regs, mem, handed)
    /\ Careful(on, slots, f)

LEMMA HandedIs ==
    /\ \A v : v \in Handed <=> \E p \in 1..2 : v = <<Params[p]>>
    /\ Handed \subseteq Values /\ Null \notin Handed /\ Undef \notin Handed /\ Junk \notin Handed
    /\ (\A a \in Locals : <<a>> \notin Handed) /\ (\A v \in Others : v \notin Handed) /\ \A v \in Lasting : v \notin Handed
<1>1. \A v : v \in Handed <=> v = <<"cb">> \/ v = <<"ud">>
  BY DEF Handed
<1>2. \A v : v \in Handed <=> \E p \in 1..2 : v = <<Params[p]>>
  <2>1. Params[1] = "cb" /\ Params[2] = "ud" /\ \A p \in 1..2 : p = 1 \/ p = 2
    BY ParamsAre
  <2>2. 1 \in 1..2 /\ 2 \in 1..2
    OBVIOUS
  <2>3. QED BY <1>1, <2>1, <2>2
<1>3. Handed \subseteq Values
  BY <1>1 DEF Values
<1>4. Null \notin Handed /\ Undef \notin Handed /\ Junk \notin Handed
  BY <1>1 DEF Null, Undef, Junk
<1>5. \A a \in Locals : <<a>> \notin Handed
  BY <1>3, SpotIs
<1>6. \A v \in Others : v \notin Handed
  BY <1>1 DEF Others
<1>7. \A v \in Lasting : v \notin Handed
  BY <1>1 DEF Lasting, Objects
<1>8. QED BY <1>2, <1>3, <1>4, <1>5, <1>6, <1>7

\* The addresses of what outlives a call are neither values nor objects, and one other
\* than in the other object is the only one with its slot.
LEMMA PlacesAre ==
    /\ (\A v \in Values : v \notin Lasting) /\ (\A v \in Others : v \notin Lasting) /\ Junk \notin Lasting /\ Undef \notin Lasting
    /\ \A v \in Lasting : v \in {<<"@g">>, <<"@h">>, <<"@o">>, <<"conn", "f">>, <<"other", "f">>}
    /\ SlotOf(<<"@o">>) \notin SlotClaims
    /\ \A a, b \in Lasting : SlotOf(a) = SlotOf(b) /\ SlotOf(a) \in SlotClaims /\ a # <<"other", "f">> /\ b # <<"other", "f">> => a = b
<1>1. \A v \in Lasting : v \in {<<"@g">>, <<"@h">>, <<"@o">>, <<"conn", "f">>, <<"other", "f">>}
  BY DEF Lasting, Objects
<1>2. \A v \in Values : v \notin Lasting
  BY DEF Lasting, Objects, Values, Null, Undef, Junk
<1>3. \A v \in Others : v \notin Lasting
  BY DEF Lasting, Objects, Others
<1>4. Junk \notin Lasting /\ Undef \notin Lasting
  BY <1>2 DEF Values
<1>5. SlotOf(<<"@o">>) = <<"@o">> /\ <<"@o">> \notin SlotClaims
  BY DEF SlotOf, Objects, SlotClaims, Field
<1>6. Field # <<"@g">> /\ Field # <<"@h">> /\ <<"@g">> # <<"@h">>
  BY DEF Field
<1>7. QED BY <1>1, <1>2, <1>3, <1>4, <1>5, <1>6, LastingAre

LEMMA NotHanded ==
    ASSUME NEW on, NEW slots, NEW f, NEW v, v \notin Handed
    PROVE  (\A x : v \notin Lasting => Traced(on, slots, f, x, v)) /\ \A a : TracedCell(on, slots, f, a, v)
BY HandedIs DEF Traced, TracedCell, Points

\* A value that is one of them is in a name that is taken for it.
LEMMA OperandTraced ==
    ASSUME NEW on, NEW slots, NEW f, NEW known, NEW regs, NEW mem, NEW handed, NEW i,
           Watched(on, slots, f, known, regs, mem, handed, i), NEW k \in DOMAIN i.args
    PROVE  Traced(on, slots, f, i.args[k], ValueIn(regs, i.args[k]))
<1> DEFINE x == i.args[k]
<1>1. Defined(regs, x)
  BY DEF Watched, Before
<1> HIDE DEF x
<1>2. CASE x = "null"
  <2>1. ValueIn(regs, x) = Null
    BY <1>2 DEF ValueIn, Symbols
  <2>2. Null \notin Lasting
    BY PlacesAre DEF Values
  <2>3. QED BY <2>1, <2>2, HandedIs, NotHanded DEF x
<1>3. CASE x \in Symbols
  <2>1. ValueIn(regs, x) = <<x>>
    BY <1>3 DEF ValueIn, Symbols
  <2>2. <<x>> \notin Handed
    BY <1>3 DEF Handed, Symbols
  <2>3. ASSUME Points(slots, <<x>>) PROVE <<x, SlotOf(<<x>>)>> \in Claimed(f)
    <3>1. <<x>> \in Lasting /\ SlotOf(<<x>>) \in SlotClaims
      BY <2>3 DEF Points, Watched, Careful
    <3>2. <<x>> \in {<<"@g">>, <<"@h">>}
      <4>1. <<x>> # <<"conn", "f">> /\ <<x>> # <<"other", "f">>
        OBVIOUS
      <4>2. QED BY <3>1, <4>1, PlacesAre
    <3>3. x \in {"@g", "@h"} /\ SlotOf(<<x>>) = <<x>>
      <4>1. x \in {"@g", "@h"}
        BY <3>2, SpotsDiffer
      <4>2. QED BY <4>1, LastingAre
    <3>4. Begins(f, x, <<x>>) /\ x \in Names /\ <<x>> \in Claims
      BY <3>3 DEF Begins, Names, Globals, Claims, SlotClaims
    <3>5. QED BY <3>3, <3>4, ClaimsHold DEF Holding
  <2>4. Traced(on, slots, f, x, <<x>>)
    BY <2>2, <2>3, HandedIs DEF Traced
  <2>5. QED BY <2>1, <2>4 DEF x
<1>4. CASE x # "null" /\ x \notin Symbols
  <2>1. ValueIn(regs, x) = regs[x] /\ x \in DOMAIN regs
    BY <1>1, <1>4 DEF ValueIn, IsLocal, Defined
  <2>2. QED BY <2>1 DEF Watched, Tracked, x
<1>5. QED BY <1>2, <1>3, <1>4

\* An instruction that hands on what it is given gets neither of them, and no pointer to
\* a slot; one that reckons with it gets neither of them.
LEMMA OperandIsOther ==
    ASSUME NEW on, NEW slots, NEW f, NEW known, NEW regs, NEW mem, NEW handed, NEW i,
           Watched(on, slots, f, known, regs, mem, handed, i), NEW k \in DOMAIN i.args
    PROVE  /\ Passes(i) => Apart(slots, ValueIn(regs, i.args[k]))
           /\ i.op = "gep" => ValueIn(regs, i.args[k]) \notin Handed
<1> DEFINE x == i.args[k]
           v == ValueIn(regs, x)
<1>1. Traced(on, slots, f, x, v) /\ i \in InstsOf(f) /\ Careful(on, slots, f)
  BY OperandTraced DEF Watched, Before
<1>2. ASSUME Passes(i) \/ i.op = "gep", v \in Handed PROVE FALSE
  <2>1. PICK p \in 1..2 : v = <<Params[p]>>
    BY <1>2, HandedIs
  <2>2. FromSlot(slots, f, x) \/ (on /\ <<x, Param(p)>> \in Claimed(f))
    BY <1>1, <2>1 DEF Traced
  <2>3. ~FromSlot(slots, f, x)
    BY <1>1, <1>2 DEF Careful
  <2> HIDE DEF v
  <2>4. QED BY <1>1, <1>2, <2>2, <2>3 DEF Careful, Passes
<1>3. ASSUME Passes(i), Points(slots, v) PROVE FALSE
  <2>1. <<x, SlotOf(v)>> \in Claimed(f) /\ SlotOf(v) \in slots
    BY <1>1, <1>3 DEF Traced, Points
  <2>2. QED BY <1>1, <1>3, <2>1 DEF Careful, ToSlot
<1>4. QED BY <1>2, <1>3 DEF Apart

LEMMA TrackResult ==
    ASSUME NEW on, NEW slots, NEW f, NEW regs, NEW mem, NEW handed, Tracked(on, slots, f, regs, mem, handed),
           NEW x, NEW v, Traced(on, slots, f, x, v)
    PROVE  Tracked(on, slots, f, Put(regs, x, v), mem, handed)
<1> DEFINE more == Put(regs, x, v)
<1>1. /\ DOMAIN more = DOMAIN regs \cup {x} /\ more[x] = v
      /\ \A y \in DOMAIN regs : y # x => more[y] = regs[y]
  BY DEF Put
<1> HIDE DEF more
<1>2. \A y \in DOMAIN more : Traced(on, slots, f, y, more[y])
  BY <1>1 DEF Tracked
<1>3. QED BY <1>2 DEF Tracked, more

LEMMA TrackAlloca ==
    ASSUME NEW on, NEW slots, NEW f, NEW known, NEW regs, NEW mem, NEW handed, NEW i,
           Watched(on, slots, f, known, regs, mem, handed, i), i.op = "alloca"
    PROVE  Tracked(on, slots, f, Put(regs, i.res, <<i.res>>), Put(mem, <<i.res>>, Undef), handed)
<1> DEFINE more == Put(mem, <<i.res>>, Undef)
<1>1. i.res \in Locals
  BY InstIsApt DEF Watched, Before, Terminators, Apt, Shaped
<1>2. Traced(on, slots, f, i.res, <<i.res>>)
  BY <1>1, HandedIs, NotHanded, SpotIs
<1>3. /\ DOMAIN more = DOMAIN mem \cup {<<i.res>>} /\ more[<<i.res>>] = Undef
      /\ \A a \in DOMAIN mem : a # <<i.res>> => more[a] = mem[a]
  BY DEF Put
<1> HIDE DEF more
<1>4. \A a : TracedCell(on, slots, f, a, Undef)
  BY HandedIs, NotHanded
<1>5. \A a \in DOMAIN more : TracedCell(on, slots, f, a, more[a])
  BY <1>3, <1>4 DEF Watched, Tracked
<1>6. Tracked(on, slots, f, regs, more, handed)
  BY <1>5 DEF Watched, Tracked
<1>7. QED BY <1>2, <1>6, TrackResult DEF more

\* Where a store goes, of which the slot is claimed, and that it is the caller's.
LEMMA ClearedIs ==
    ASSUME NEW f, NEW known, NEW regs, NEW mem, NEW handed, NEW i, Before(f, known, regs, mem, handed, i), i.op = "store",
           NEW s \in SlotClaims, <<i.args[2], s>> \in Claimed(f), <<i.args[2], Owned>> \in Claimed(f),
           NEW d, d = ValueIn(regs, i.args[2]), d \in DOMAIN mem
    PROVE  d \in Lasting /\ SlotOf(d) = s /\ d # <<"other", "f">>
<1>1. WellTyped(f, known) /\ i \in InstsOf(f)
  BY DEF Before
<1>2. 2 \in DOMAIN i.args /\ i.args[2] \in CellsIn(known)
  BY <1>1, InstIsApt DEF Terminators, Apt, Shaped
<1>3. RegisterOk(f, known, regs, mem, i.args[2], d)
  BY <1>1, <1>2, OperandOk DEF CellsIn, Typed
<1>4. s \in Claims /\ Owned \in Claims
  BY DEF Claims
<1>5. Meets(regs, d, s) /\ Meets(regs, d, Owned)
  BY <1>3, <1>4 DEF RegisterOk, MeetsAll
<1>6. d # Undef
  <2>1. d \in Lasting \cup Spots
    BY <1>1 DEF Before, MemoryOk
  <2>2. \A a \in Spots : a # Undef
    BY SpotIs DEF Spots, Values
  <2>3. QED BY <2>1, <2>2, PlacesAre
<1>7. d \in Lasting /\ SlotOf(d) = s
  <2>1. s # NullOrigin /\ s # Owned /\ s \notin LoadClaims /\ \A k \in 1..3 : s # Param(k)
    BY DEF SlotClaims, NullOrigin, Owned, LoadClaims, SlotLoad, Param, Field
  <2>2. QED BY <1>5, <1>6, <2>1 DEF Meets
<1>8. d # <<"other", "f">>
  <2>1. Owned # NullOrigin /\ Owned \notin SlotClaims /\ Owned \notin LoadClaims /\ \A k \in 1..3 : Owned # Param(k)
    BY DEF SlotClaims, NullOrigin, Owned, LoadClaims, SlotLoad, Param, Field
  <2>2. QED BY <1>5, <1>6, <2>1 DEF Meets
<1>9. QED BY <1>7, <1>8

LEMMA TrackStore ==
    ASSUME NEW on, NEW slots, NEW f, NEW known, NEW regs, NEW mem, NEW handed, NEW i,
           Watched(on, slots, f, known, regs, mem, handed, i), i.op = "store",
           NEW v, v = ValueIn(regs, i.args[1]), NEW d, d = ValueIn(regs, i.args[2]), d \in DOMAIN mem
    PROVE  Tracked(on, slots, f, regs, [mem EXCEPT ![d] = v], handed) /\ (~on => v \notin Handed)
<1> DEFINE more == [mem EXCEPT ![d] = v]
<1>1. WellTyped(f, known) /\ i \in InstsOf(f) /\ Before(f, known, regs, mem, handed, i)
  BY DEF Watched, Before
<1>2. DOMAIN i.args = 1..2 /\ 1 \in DOMAIN i.args /\ 2 \in DOMAIN i.args /\ i.args[2] \in CellsIn(known)
  BY <1>1, InstIsApt DEF Terminators, Apt, Shaped
<1>3. RegisterOk(f, known, regs, mem, i.args[2], d)
  BY <1>1, <1>2, OperandOk DEF CellsIn, Typed
<1>a. Traced(on, slots, f, i.args[1], v) /\ ~FromSlot(slots, f, i.args[1])
  BY <1>1, <1>2, OperandTraced DEF Watched, Careful
<1>4. TracedCell(on, slots, f, d, v)
  <2> SUFFICES ASSUME NEW p \in 1..2, v = <<Params[p]>>
               PROVE  \/ InSlot(slots, d)
                      \/ on /\ \E s \in DOMAIN Spills(f) : d = <<s>> /\ <<Spills(f)[s], Param(p)>> \in Claimed(f)
    BY DEF TracedCell
  <2>1. on /\ <<i.args[1], Param(p)>> \in Claimed(f)
    BY <1>a DEF Traced
  <2>2. i.args[2] \in DOMAIN Spills(f) \/ (ToSlot(slots, f, i.args[2]) /\ <<i.args[2], Owned>> \in Claimed(f))
    BY <1>1, <1>2, <2>1 DEF Watched, Careful
  <2>3. CASE i.args[2] \in DOMAIN Spills(f)
    <3>1. d = <<i.args[2]>>
      BY <1>3, <2>3 DEF RegisterOk
    <3>2. Mentions(i, i.args[2])
      BY <1>2 DEF Mentions
    <3>3. i.args[1] = Spills(f)[i.args[2]]
      BY <1>1, <2>3, <3>2, SpillsAre DEF IsSpill, IsTyped
    <3>4. QED BY <2>1, <2>3, <3>1, <3>3
  <2>4. CASE ToSlot(slots, f, i.args[2]) /\ <<i.args[2], Owned>> \in Claimed(f)
    <3>1. PICK s \in slots : <<i.args[2], s>> \in Claimed(f)
      BY <2>4 DEF ToSlot
    <3>2. s \in SlotClaims
      BY DEF Watched, Careful
    <3>3. d \in Lasting /\ SlotOf(d) = s /\ d # <<"other", "f">>
      BY <1>1, <2>4, <3>1, <3>2, ClearedIs
    <3>4. QED BY <3>3 DEF InSlot
  <2>5. QED BY <2>2, <2>3, <2>4
<1>5. DOMAIN more = DOMAIN mem /\ more[d] = v /\ \A a \in DOMAIN mem : a # d => more[a] = mem[a]
  OBVIOUS
<1> HIDE DEF more
<1>6. \A a \in DOMAIN more : TracedCell(on, slots, f, a, more[a])
  BY <1>4, <1>5 DEF Watched, Tracked
<1>7. Tracked(on, slots, f, regs, more, handed)
  BY <1>6 DEF Watched, Tracked
<1>8. ~on => v \notin Handed
  BY <1>a, HandedIs DEF Traced
<1>9. QED BY <1>7, <1>8 DEF more

LEMMA TrackLoad ==
    ASSUME NEW on, NEW slots, NEW f, NEW known, NEW regs, NEW mem, NEW handed, NEW i,
           Watched(on, slots, f, known, regs, mem, handed, i), i.op = "load",
           NEW d, d = ValueIn(regs, i.args[1]), d \in DOMAIN mem
    PROVE  Tracked(on, slots, f, Put(regs, i.res, mem[d]), mem, handed)
<1> DEFINE src == i.args[1]
<1>1. WellTyped(f, known) /\ i \in InstsOf(f) /\ Before(f, known, regs, mem, handed, i)
  BY DEF Watched, Before
<1>2. 1 \in DOMAIN i.args /\ src \in DOMAIN known /\ i.res \in Locals
  BY <1>1, InstIsApt DEF Terminators, Apt, Shaped, CellsIn, Typed
<1>3. RegisterOk(f, known, regs, mem, src, d)
  BY <1>1, <1>2, OperandOk
<1>4. Traced(on, slots, f, src, d)
  BY <1>2, OperandTraced
<1>5. NamesIn(known)
  BY <1>1 DEF WellTyped
<1>6. src \in Names /\ i.res \in Names
  <2>1. i.res \in Names
    BY <1>2, SpotIs
  <2> HIDE DEF src
  <2>2. QED BY <1>2, <1>5, <2>1, NamesAre
<1> HIDE DEF src
<1>7. ASSUME NEW p \in 1..2, mem[d] = <<Params[p]>>
      PROVE  (on /\ <<i.res, Param(p)>> \in Claimed(f)) \/ FromSlot(slots, f, i.res)
  <2>1. TracedCell(on, slots, f, d, mem[d])
    BY DEF Watched, Tracked
  <2>2. CASE InSlot(slots, d)
    <3>1. <<src, SlotOf(d)>> \in Claimed(f) /\ SlotOf(d) \in slots
      BY <1>4, <2>2 DEF InSlot, Traced, Points
    <3>2. SlotOf(d) \in SlotClaims
      BY <3>1 DEF Watched, Careful
    <3>3. Reads(f, src, i.res)
      BY <1>1 DEF Reads, src
    <3>4. <<i.res, SlotLoad(SlotOf(d))>> \in Claimed(f)
      BY <1>6, <3>1, <3>2, <3>3, ClaimsHold DEF Holding
    <3>5. QED BY <3>1, <3>4 DEF FromSlot
  <2>3. CASE on /\ \E s \in DOMAIN Spills(f) : d = <<s>> /\ <<Spills(f)[s], Param(p)>> \in Claimed(f)
    <3>1. PICK s \in DOMAIN Spills(f) : d = <<s>> /\ <<Spills(f)[s], Param(p)>> \in Claimed(f)
      BY <2>3
    <3>2. src = s
      BY <1>3, <3>1 DEF RegisterOk
    <3>3. Carries(f, Spills(f)[s], i.res)
      BY <1>1, <3>1, <3>2 DEF Carries, src
    <3>4. Spills(f)[s] \in Names
      BY <1>1, <3>1, SpilledIs
    <3>5. QED BY <1>6, <2>3, <3>1, <3>3, <3>4, Carried
  <2>4. QED BY <1>7, <2>1, <2>2, <2>3 DEF TracedCell
<1>8. ~Points(slots, mem[d])
  <2>1. mem[d] \in Values \cup Others
    BY <1>1 DEF Before, MemoryOk, Others
  <2>2. QED BY <2>1, PlacesAre DEF Points
<1>9. Traced(on, slots, f, i.res, mem[d])
  BY <1>7, <1>8 DEF Traced
<1>10. QED BY <1>9, TrackResult DEF Watched

LEMMA TrackCast ==
    ASSUME NEW on, NEW slots, NEW f, NEW known, NEW regs, NEW mem, NEW handed, NEW i,
           Watched(on, slots, f, known, regs, mem, handed, i), i.op \in {"cast", "other"},
           NEW v, v = ValueIn(regs, i.args[1]) \/ (i.op = "other" /\ v = Junk)
    PROVE  Tracked(on, slots, f, Put(regs, i.res, v), mem, handed)
<1>1. WellTyped(f, known) /\ i \in InstsOf(f)
  BY DEF Watched, Before
<1>2. 1 \in DOMAIN i.args /\ i.res \in Locals /\ i.args[1] \in ValuesIn(known) \cup CellsIn(known)
  BY <1>1, InstIsApt DEF Terminators, Apt, Shaped
<1>3. CASE i.op = "other"
  <2>1. Apart(slots, v)
    BY <1>2, <1>3, OperandIsOther, HandedIs, PlacesAre DEF Passes, Apart, Points
  <2>2. Traced(on, slots, f, i.res, v)
    BY <2>1, HandedIs DEF Traced, Apart
  <2>3. QED BY <2>2, TrackResult DEF Watched
<1>4. CASE i.op = "cast"
  <2>1. Traced(on, slots, f, i.args[1], v)
    BY <1>2, <1>4, OperandTraced
  <2>2. i.args[1] \in Names /\ i.res \in Names
    <3>1. NamesIn(known)
      BY <1>1 DEF WellTyped
    <3>2. i.args[1] \in DOMAIN known
      BY <1>2 DEF ValuesIn, CellsIn, Typed
    <3>3. i.args[1] \in Names
      BY <3>1, <3>2, NamesAre
    <3>4. QED BY <1>2, <3>3, SpotIs
  <2>3. Carries(f, i.args[1], i.res)
    BY <1>1, <1>4 DEF Carries
  <2>4. \A c : <<i.args[1], c>> \in Claimed(f) => <<i.res, c>> \in Claimed(f)
    BY <2>2, <2>3, Carried
  <2>5. FromSlot(slots, f, i.args[1]) => FromSlot(slots, f, i.res)
    BY <2>4 DEF FromSlot
  <2>6. Traced(on, slots, f, i.res, v)
    BY <2>1, <2>4, <2>5 DEF Traced
  <2>7. QED BY <2>6, TrackResult DEF Watched
<1>5. QED BY <1>3, <1>4

LEMMA TrackGep ==
    ASSUME NEW on, NEW slots, NEW f, NEW known, NEW regs, NEW mem, NEW handed, NEW i,
           Watched(on, slots, f, known, regs, mem, handed, i), i.op = "gep",
           NEW w, w = ValueIn(regs, i.args[1]), NEW v, v = IF i.type = "S" THEN w \o i.path ELSE w
    PROVE  Tracked(on, slots, f, Put(regs, i.res, v), mem, handed)
<1>1. WellTyped(f, known) /\ i \in InstsOf(f) /\ Before(f, known, regs, mem, handed, i)
  BY DEF Watched, Before
<1>2. /\ 1 \in DOMAIN i.args /\ i.res \in Locals
      /\ \/ i.type = "S" /\ i.path = <<"f">> /\ i.args[1] \in Typed(known, "object")
         \/ i.type # "S" /\ i.args[1] \in ValuesIn(known)
  BY <1>1, InstIsApt DEF Terminators, Apt, Shaped
<1>3. Traced(on, slots, f, i.res, v)
  <2>1. CASE i.type # "S"
    <3>1. v = w /\ v \notin Handed
      BY <1>2, <2>1, OperandIsOther
    <3>2. RegisterOk(f, known, regs, mem, i.args[1], w)
      BY <1>1, <1>2, <2>1, OperandOk DEF ValuesIn, Typed
    <3>3. w \in Values
      BY <1>2, <2>1, <3>2 DEF RegisterOk, OfType, ValuesIn, Typed
    <3>4. QED BY <3>1, <3>3, PlacesAre, NotHanded
  <2>2. CASE i.type = "S"
    <3>1. RegisterOk(f, known, regs, mem, i.args[1], w)
      BY <1>1, <1>2, <2>2, OperandOk DEF Typed
    <3>2. w \in Others /\ v = w \o <<"f">>
      BY <1>2, <2>2, <3>1 DEF RegisterOk, OfType, Typed
    <3>3. v \in {<<"conn", "f">>, <<"other", "f">>}
      BY <3>2, PathIs DEF Others
    <3>4. v \notin Handed /\ SlotOf(v) = Field
      BY <3>3, HandedIs, LastingAre
    <3>5. Begins(f, i.res, Field) /\ i.res \in Names /\ Field \in Claims
      BY <1>1, <1>2, <2>2, SpotIs DEF Begins, Claims, SlotClaims
    <3>6. <<i.res, Field>> \in Claimed(f)
      BY <3>5, ClaimsHold DEF Holding
    <3>7. QED BY <3>4, <3>6, HandedIs DEF Traced
  <2>3. QED BY <2>1, <2>2
<1>4. QED BY <1>3, TrackResult DEF Watched

LEMMA TrackEscape ==
    ASSUME NEW on, NEW slots, NEW f, NEW known, NEW regs, NEW mem, NEW handed, NEW i,
           Watched(on, slots, f, known, regs, mem, handed, i), i.op = "call", i.args[1] = "@ext",
           NEW v, v = ValueIn(regs, i.args[2]),
           NEW under, NEW wider, NEW over, NEW more, Escapes(mem, handed, v, under, wider, over, more)
    PROVE  Tracked(on, slots, f, regs, more, wider)
<1> DEFINE all == handed \cup {v}
<1>1. WellTyped(f, known) /\ i \in InstsOf(f) /\ Before(f, known, regs, mem, handed, i)
  BY DEF Watched, Before
<1>2. 2 \in DOMAIN i.args /\ i.args[2] \in DOMAIN known
  <2>1. Shaped(known, i)
    BY <1>1, InstIsApt DEF Terminators, Apt
  <2>2. 2 \in DOMAIN i.args /\ i.args[2] \in ValuesIn(known) \cup CellsIn(known)
    BY <2>1 DEF Shaped
  <2>3. QED BY <2>2 DEF ValuesIn, CellsIn, Typed
<1>3. RegisterOk(f, known, regs, mem, i.args[2], v)
  BY <1>1, <1>2, OperandOk
<1>4. i.args[2] \notin DOMAIN Spills(f)
  BY <1>1, <1>2, NotMentioned DEF IsNonEscapingIntrinsic
<1>5. Apart(slots, v)
  BY <1>2, OperandIsOther DEF Passes
<1>6. \A s \in DOMAIN Spills(f) : <<s>> \notin all
  BY <1>1, <1>3, <1>4 DEF Before, CallOk, SpillOk, RegisterOk
<1>7. /\ under = all \cap DOMAIN mem /\ \A u \in wider : u \in all \/ \E a \in under : u = mem[a]
      /\ DOMAIN more = DOMAIN mem /\ \A a \in DOMAIN mem : more[a] = IF a \in over THEN Junk ELSE mem[a]
  BY DEF Escapes
<1>a. \A u \in all : Apart(slots, u)
  BY <1>5 DEF Watched, Tracked, all
<1> HIDE DEF all
<1>8. ASSUME NEW a \in under PROVE Apart(slots, mem[a])
  <2>1. ASSUME NEW p \in 1..2, mem[a] = <<Params[p]>> PROVE FALSE
    <3>1. TracedCell(on, slots, f, a, mem[a])
      BY <1>7 DEF Watched, Tracked
    <3>2. InSlot(slots, a) \/ \E s \in DOMAIN Spills(f) : a = <<s>>
      BY <2>1, <3>1 DEF TracedCell
    <3>3. ~InSlot(slots, a)
      BY <1>7, <1>a DEF InSlot, Apart, Points
    <3>4. QED BY <1>6, <1>7, <3>2, <3>3
  <2>2. mem[a] \notin Handed
    BY <2>1, HandedIs
  <2>3. mem[a] \in Values \cup Others
    BY <1>1, <1>7 DEF Before, MemoryOk, Others
  <2>4. QED BY <2>2, <2>3, PlacesAre DEF Apart, Points
<1>9. \A u \in wider : Apart(slots, u)
  BY <1>7, <1>8, <1>a
<1>10. ASSUME NEW a \in DOMAIN more PROVE TracedCell(on, slots, f, a, more[a])
  BY <1>7, HandedIs, NotHanded DEF Watched, Tracked
<1>11. QED BY <1>9, <1>10 DEF Watched, Tracked

LEMMA TrackReturn ==
    ASSUME NEW on, NEW slots, NEW f, NEW known, NEW regs, NEW mem, NEW handed, NEW i,
           Watched(on, slots, f, known, regs, mem, handed, i), i.op = "return",
           NEW kept, kept = {v \in handed \cup {ValueIn(regs, x) : x \in ToSet(i.args)} : v \in DOMAIN mem => v \in Lasting}
    PROVE  Idle(slots, Restrict(mem, Lasting), kept)
<1> DEFINE more == Restrict(mem, Lasting)
<1>1. WellTyped(f, known) /\ Lasting \subseteq DOMAIN mem
  BY DEF Watched, Before, MemoryOk
<1>2. DOMAIN more = Lasting /\ \A a \in Lasting : more[a] = mem[a]
  BY <1>1 DEF Restrict
<1> HIDE DEF more
<1>3. ASSUME NEW a \in Lasting, mem[a] \in Handed PROVE InSlot(slots, a)
  <2>1. PICK p \in 1..2 : mem[a] = <<Params[p]>>
    BY <1>3, HandedIs
  <2>2. TracedCell(on, slots, f, a, mem[a])
    BY <1>1 DEF Watched, Tracked
  <2>3. InSlot(slots, a) \/ \E s \in DOMAIN Spills(f) : a = <<s>>
    BY <2>1, <2>2 DEF TracedCell
  <2>4. QED BY <1>1, <2>3, SpilledIs, SpotIs
<1>4. ASSUME NEW x \in ToSet(i.args) PROVE Apart(slots, ValueIn(regs, x))
  <2>1. PICK k \in DOMAIN i.args : x = i.args[k]
    BY DEF ToSet
  <2>2. QED BY <2>1, OperandIsOther DEF Passes
<1>5. \A v \in kept : Apart(slots, v)
  BY <1>4 DEF Watched, Tracked
<1>6. QED BY <1>2, <1>3, <1>5 DEF Idle, more

\* What the trace says of each use (trace_param): none escapes, and one that is a site
\* is in the answer.
LEMMA TraceSays ==
    ASSUME NEW f, NEW flow, NEW roles, roles.callback = 1, roles.userdata = 2, DOMAIN f.params = 1..3,
           ~TraceParams(Globals, f, flow, roles).escaped,
           NEW p \in 1..2, NEW x \in ParamAliases(flow, p), NEW k \in UsesOf(AllInsts(f), x),
           NEW i, i = AllInsts(f)[k].inst
    PROVE  /\ UseOf(Globals, flow, 1, x, i) # "escape"
           /\ UseOf(Globals, flow, 1, x, i) = "site" =>
                 \E s \in TraceParams(Globals, f, flow, roles).sites : s.slot = PointerSlot(Globals, flow, i.args[2])
<1> DEFINE insts == AllInsts(f)
           subjects == {n \in {roles.callback, roles.userdata} : n # 0}
           missing == {n \in subjects : n \notin DOMAIN f.params}
           found == UNION {Uses(insts, flow, n) : n \in subjects \ missing}
           Is(kind) == {u \in found : UseOf(Globals, flow, roles.callback, u[1], insts[u[2]].inst) = kind}
           SiteOf(u) == [slot |-> PointerSlot(Globals, flow, insts[u[2]].inst.args[2]),
                         every |-> insts[u[2]].block \in OnEveryReturningPath(f)]
           sites == {SiteOf(u) : u \in Is("site")}
<1>1. TraceParams(Globals, f, flow, roles) = [sites |-> sites, escaped |-> missing # {} \/ Is("escape") # {}]
  BY DEF TraceParams
<1>2. p \in subjects \ missing
  OBVIOUS
<1>3. <<x, k>> \in Uses(insts, flow, p)
  BY DEF Uses
<1>4. SiteOf(<<x, k>>).slot = PointerSlot(Globals, flow, i.args[2])
  OBVIOUS
<1> HIDE DEF subjects, missing, insts
<1>5. <<x, k>> \in found
  BY <1>2, <1>3
<1> HIDE DEF SiteOf, found
<1>6. \A kind : UseOf(Globals, flow, 1, x, i) = kind => <<x, k>> \in Is(kind)
  BY <1>5 DEF insts
<1> HIDE DEF Is
<1>7. UseOf(Globals, flow, 1, x, i) = "site" => SiteOf(<<x, k>>) \in sites
  BY <1>6
<1> HIDE DEF sites
<1>8. PICK b \in BOOLEAN : b <=> (missing # {} \/ Is("escape") # {})
  OBVIOUS
<1>9. TraceParams(Globals, f, flow, roles) = [sites |-> sites, escaped |-> b]
  BY <1>1, <1>8, Zenon
<1>10. ~b /\ TraceParams(Globals, f, flow, roles).sites = sites
  BY <1>9
<1>11. Is("escape") = {}
  BY <1>8, <1>10
<1>12. QED BY <1>4, <1>6, <1>7, <1>10, <1>11

\* A site is a store in a slot there is.
LEMMA SitesAre ==
    ASSUME NEW f, NEW known, WellTyped(f, known), NEW flow, flow = FlowOf(Globals, f), NEW roles,
           NEW s \in TraceParams(Globals, f, flow, roles).sites
    PROVE  s.slot \in SlotClaims
<1> DEFINE insts == AllInsts(f)
           subjects == {n \in {roles.callback, roles.userdata} : n # 0}
           missing == {n \in subjects : n \notin DOMAIN f.params}
           found == UNION {Uses(insts, flow, n) : n \in subjects \ missing}
           Is(kind) == {u \in found : UseOf(Globals, flow, roles.callback, u[1], insts[u[2]].inst) = kind}
           SiteOf(u) == [slot |-> PointerSlot(Globals, flow, insts[u[2]].inst.args[2]),
                         every |-> insts[u[2]].block \in OnEveryReturningPath(f)]
           sites == {SiteOf(u) : u \in Is("site")}
<1>1. TraceParams(Globals, f, flow, roles) = [sites |-> sites, escaped |-> missing # {} \/ Is("escape") # {}]
  BY DEF TraceParams
<1>2. TraceParams(Globals, f, flow, roles).sites = sites
  <2> HIDE DEF sites
  <2>1. PICK b \in BOOLEAN : b <=> (missing # {} \/ Is("escape") # {})
    OBVIOUS
  <2>2. TraceParams(Globals, f, flow, roles) = [sites |-> sites, escaped |-> b]
    BY <1>1, <2>1, Zenon
  <2>3. QED BY <2>2
<1>3. PICK u \in Is("site") : s = SiteOf(u)
  BY <1>2
<1>4. u \in found /\ UseOf(Globals, flow, roles.callback, u[1], insts[u[2]].inst) = "site"
  OBVIOUS
<1>5. s.slot = PointerSlot(Globals, flow, insts[u[2]].inst.args[2])
  BY <1>3
<1>6. u[2] \in DOMAIN insts
  <2> HIDE DEF insts, subjects, missing
  <2>1. PICK n : u \in Uses(insts, flow, n)
    BY <1>4
  <2>2. PICK a : u \in {<<a, k>> : k \in UsesOf(insts, a)}
    BY <2>1 DEF Uses
  <2>3. QED BY <2>2 DEF UsesOf
<1>7. PICK i \in InstsOf(f) : i = insts[u[2]].inst
  BY <1>6, AllInstsAre DEF Lists, IsTyped
<1> HIDE DEF Is, found, sites, SiteOf, insts
<1>8. PICK x : UseOf(Globals, flow, roles.callback, x, i) = "site"
  BY <1>4, <1>7
<1>9. i.op = "store" /\ StoredIn(Globals, flow, x, i) = "site"
  BY <1>8 DEF UseOf
<1>10. PointerSlot(Globals, flow, i.args[2]) # NoSlot
  BY <1>9 DEF StoredIn
<1>11. i.args[2] \in CellsIn(known)
  BY <1>9, InstIsApt DEF Terminators, Apt, Shaped
<1>12. PointerSlot(Globals, flow, i.args[2]) \in SlotClaims
  BY <1>10, <1>11, FlowWithin, PointerWithin
<1>13. QED BY <1>5, <1>7, <1>12

\* What the answers are about (analyze).
SitesOf(fns, flow, roles) == TraceParams(Globals, fns["register"], flow["register"], roles).sites
LEMMA AnalysisIs ==
    ASSUME NEW fns, "register" \in DOMAIN fns, NEW flow, NEW roles, roles.register = "register",
           NEW a, a = Analyze(Globals, fns, flow, roles)
    PROVE  /\ \A z : z \in a.slots <=> \E s \in SitesOf(fns, flow, roles) : z = s.slot
           /\ a.retention = "no_retain" =>
                 SitesOf(fns, flow, roles) = {} /\ ~TraceParams(Globals, fns["register"], flow["register"], roles).escaped
           /\ a.clear = AnalyzeClear(Globals, fns, flow, roles, a.slots)
<1> DEFINE q1 == TraceParams(Globals, fns["register"], flow["register"], roles)
           slots == {s.slot : s \in q1.sites}
           retention == CASE q1.sites # {} -> "may_retain"
                          [] q1.sites = {} /\ q1.escaped -> "unresolved"
                          [] OTHER -> "no_retain"
<1>1. a.retention = retention /\ a.slots = slots /\ a.clear = AnalyzeClear(Globals, fns, flow, roles, slots)
  BY DEF Analyze
<1>2. SitesOf(fns, flow, roles) = q1.sites
  BY DEF SitesOf
<1> HIDE DEF q1
<1>3. \A z : z \in slots <=> \E s \in q1.sites : z = s.slot
  OBVIOUS
<1>4. retention = "no_retain" => q1.sites = {} /\ ~q1.escaped
  OBVIOUS
<1> HIDE DEF slots, retention
<1>5. QED BY <1>1, <1>2, <1>3, <1>4 DEF q1

\* What is not lost sight of (LosesSight), and what does not escape, is seen through.
LEMMA SightSays ==
    ASSUME TextInv, role = "client", NEW r \in DOMAIN text, NEW f, f = text[r], NEW known, WellTyped(f, known),
           analysis.slots \subseteq SlotClaims, ~LosesSight(r), NEW i \in InstsOf(f), NEW k \in DOMAIN i.args
    PROVE  /\ ToSlot(analysis.slots, f, i.args[k]) => ~Passes(i)
           /\ FromSlot(analysis.slots, f, i.args[k]) => ~Passes(i) /\ i.op \notin {"store", "gep"}
<1> DEFINE x == i.args[k]
           To(y) == PointerSlot(Globals, flows[r], y) \in analysis.slots
           From(y) == \E s \in analysis.slots : Origin(flows[r], y) = SlotLoad(s)
<1>1. flows[r] = FlowOf(Globals, f)
  BY DEF TextInv
<1>2. ToSlot(analysis.slots, f, x) => To(x)
  BY <1>1, SlotFound DEF ToSlot
<1>3. FromSlot(analysis.slots, f, x) => From(x)
  BY <1>1, LoadFound DEF FromSlot
<1>4. PICK n \in DOMAIN AllInsts(f) : AllInsts(f)[n].inst = i
  BY AllInstsAre DEF Lists, IsTyped
<1> DEFINE e == AllInsts(f)[n]
<1>5. e \in ToSet(AllInsts(text[r])) /\ x \in ToSet(e.inst.args) /\ e.inst = i
  BY <1>4 DEF ToSet
<1> HIDE DEF To, From, x, e
<1>6. ~((Passes(i) /\ (To(x) \/ From(x))) \/ (i.op \in {"store", "gep"} /\ From(x)))
  <2>1. \A b \in ToSet(AllInsts(text[r])) : \A y \in ToSet(b.inst.args) :
            ~((Passes(b.inst) /\ (To(y) \/ From(y))) \/ (b.inst.op \in {"store", "gep"} /\ From(y)))
    BY DEF LosesSight, To, From, Passes
  <2>2. QED BY <1>5, <2>1
<1>7. QED BY <1>2, <1>3, <1>6 DEF x

\* What is taken for the caller's, and for a pointer to a cell, is claimed to be it.
LEMMA OwnedIs ==
    ASSUME NEW f, NEW known, WellTyped(f, known), NEW flow, Within(f, known, flow),
           NEW x \in CellsIn(known), IsCallerOwned(flow, x)
    PROVE  <<x, Owned>> \in Claimed(f)
<1>1. CASE x \in Symbols
  <2>1. NamesIn(known) /\ x \in DOMAIN known /\ known[x] = "cell"
    BY DEF WellTyped, CellsIn, Typed
  <2>2. x \in {"@g", "@h"} /\ x \in Names
    BY <1>1, <2>1, NamesAre DEF IsLocal
  <2>3. Begins(f, x, Owned) /\ Owned \in Claims
    BY <2>2 DEF Begins, Claims
  <2>4. QED BY <2>2, <2>3, ClaimsHold DEF Holding
<1>2. CASE x \in flow.owned
  <2>1. OwnOk(f, known, x)
    BY <1>2 DEF Within
  <2>2. x \notin ValuesIn(known)
    BY DEF ValuesIn, CellsIn, Typed
  <2>3. QED BY <2>1, <2>2 DEF OwnOk
<1>3. QED BY <1>1, <1>2 DEF IsCallerOwned

Escaped == TraceParams(Globals, text["register"], flows["register"], Roles).escaped
LEMMA CarefulIs ==
    ASSUME TextInv, role = "client", analysis = Analyze(Globals, text, flows, Roles), ~Escaped,
           NEW r \in DOMAIN text, ~LosesSight(r)
    PROVE  Careful(r = "register", analysis.slots, text[r])
<1> DEFINE f == text[r]
           S == analysis.slots
<1>0. "register" \in DOMAIN text /\ \A q \in DOMAIN text : IsTyped(text[q]) /\ flows[q] = FlowOf(Globals, text[q])
  BY DEF TextInv
<1>r. Roles.register = "register" /\ Roles.callback = 1 /\ Roles.userdata = 2
  BY DEF Roles
<1>1. \A z : z \in S <=> \E s \in SitesOf(text, flows, Roles) : z = s.slot
  BY <1>0, <1>r, AnalysisIs
<1>2. S \subseteq SlotClaims
  <2> SUFFICES ASSUME NEW z \in S PROVE z \in SlotClaims
    OBVIOUS
  <2>1. PICK s \in TraceParams(Globals, text["register"], flows["register"], Roles).sites : z = s.slot
    BY <1>1 DEF SitesOf
  <2>2. PICK types1 : WellTyped(text["register"], types1)
    BY <1>0 DEF IsTyped
  <2>3. QED BY <1>0, <2>1, <2>2, SitesAre
<1>3. PICK known : WellTyped(f, known)
  BY <1>0 DEF IsTyped
<1> HIDE DEF S
<1>4. ASSUME NEW i \in InstsOf(f), NEW k \in DOMAIN i.args, NEW p \in 1..2, r = "register", <<i.args[k], Param(p)>> \in Claimed(f)
      PROVE  \/ /\ i.op = "store"
                /\ i.args[k] = i.args[1] =>
                      \/ i.args[2] \in DOMAIN Spills(f)
                      \/ ToSlot(S, f, i.args[2]) /\ <<i.args[2], Owned>> \in Claimed(f)
             \/ i.op \in {"load", "cast", "compare"}
             \/ i.op = "call" /\ i.args[1] # "@ext"
  <2> DEFINE x == i.args[k]
             flow == flows["register"]
  <2>0. flow = FlowOf(Globals, f)
    BY <1>0, <1>4
  <2>1. x \in Names /\ x \in ParamAliases(flow, p)
    BY <1>3, <1>4, <2>0, AliasesAreAll, ClaimsComeFrom
  <2>2. PICK n \in DOMAIN AllInsts(f) : AllInsts(f)[n].inst = i
    BY <1>3, AllInstsAre DEF Lists, IsTyped
  <2>3. n \in UsesOf(AllInsts(f), x)
    BY <2>2 DEF UsesOf
  <2>4. DOMAIN f.params = 1..3 /\ Within(f, known, flow) /\ flow.spills = Spills(f)
    BY <1>3, <2>0, ParamsAre, FlowWithin DEF WellTyped, Within
  <2>5. ~TraceParams(Globals, f, flow, Roles).escaped
    BY <1>4 DEF Escaped
  <2> HIDE DEF x, flow
  <2>6. /\ UseOf(Globals, flow, 1, x, i) # "escape"
        /\ UseOf(Globals, flow, 1, x, i) = "site" =>
              \E s \in TraceParams(Globals, f, flow, Roles).sites : s.slot = PointerSlot(Globals, flow, i.args[2])
    BY <1>r, <2>1, <2>2, <2>3, <2>4, <2>5, TraceSays
  <2>7. CASE i.op = "store"
    <3> SUFFICES ASSUME x = i.args[1]
                 PROVE  i.args[2] \in DOMAIN Spills(f) \/ (ToSlot(S, f, i.args[2]) /\ <<i.args[2], Owned>> \in Claimed(f))
      BY <2>7 DEF x
    <3> DEFINE dest == i.args[2]
    <3>1. UseOf(Globals, flow, 1, x, i) = StoredIn(Globals, flow, x, i)
      BY <2>7 DEF UseOf
    <3>2. CASE StoredIn(Globals, flow, x, i) = "site"
      <4>1. PointerSlot(Globals, flow, dest) # NoSlot /\ IsCallerOwned(flow, dest)
        BY <3>2 DEF StoredIn
      <4>2. PointerSlot(Globals, flow, dest) \in S
        BY <1>1, <1>4, <2>6, <3>1, <3>2 DEF SitesOf, flow
      <4>3. dest \in CellsIn(known)
        BY <1>3, <2>7, InstIsApt DEF Terminators, Apt, Shaped
      <4> HIDE DEF dest
      <4>4. <<dest, PointerSlot(Globals, flow, dest)>> \in Claimed(f)
        BY <1>3, <2>4, <4>1, <4>3, PointerWithin
      <4>5. <<dest, Owned>> \in Claimed(f)
        BY <1>3, <2>4, <4>1, <4>3, OwnedIs
      <4>6. QED BY <4>2, <4>4, <4>5 DEF ToSlot, dest
    <3>3. CASE StoredIn(Globals, flow, x, i) # "site"
      <4>1. dest \in DOMAIN flow.spills
        BY <2>6, <3>1, <3>3 DEF StoredIn
      <4>2. QED BY <2>4, <4>1
    <3>4. QED BY <3>2, <3>3
  <2>8. CASE i.op = "call" /\ i.args[1] = "@ext"
    <3>1. "@ext" \notin Names
      BY ParamsAre DEF Names, Globals, Locals
    <3>2. Origin(flow, "@ext") # Param(1)
      BY DEF Origin, IsLocal, Symbols, Unknown, Param
    <3>3. ~IsDbg("@ext")
      BY DEF IsDbg
    <3>4. i.args[1] # x
      BY <2>1, <2>8, <3>1
    <3>5. UseOf(Globals, flow, 1, x, i) = "escape"
      BY <2>8, <3>2, <3>3, <3>4 DEF UseOf
    <3>6. QED BY <2>6, <3>5
  <2>9. CASE i.op \notin {"store", "load", "cast", "compare", "call"}
    BY <2>6, <2>9 DEF UseOf
  <2>10. QED BY <2>7, <2>8, <2>9
<1>5. \A i \in InstsOf(f) : \A k \in DOMAIN i.args :
          /\ ToSlot(S, f, i.args[k]) => ~Passes(i)
          /\ FromSlot(S, f, i.args[k]) => ~Passes(i) /\ i.op \notin {"store", "gep"}
  BY <1>2, <1>3, SightSays DEF S
<1>6. Careful(r = "register", S, f)
  <2> DEFINE on == r = "register"
  <2>1. \A i \in InstsOf(f) : \A k \in DOMAIN i.args : \A p \in 1..2 :
            on /\ <<i.args[k], Param(p)>> \in Claimed(f) =>
                \/ /\ i.op = "store"
                   /\ i.args[k] = i.args[1] =>
                         \/ i.args[2] \in DOMAIN Spills(f)
                         \/ ToSlot(S, f, i.args[2]) /\ <<i.args[2], Owned>> \in Claimed(f)
                \/ i.op \in {"load", "cast", "compare"}
                \/ i.op = "call" /\ i.args[1] # "@ext"
    BY <1>4
  <2> HIDE DEF on, f
  <2>2. Careful(on, S, f)
    BY <1>2, <1>5, <2>1 DEF Careful
  <2>3. QED BY <2>2 DEF on
<1>7. QED BY <1>6 DEF S

\* What is tracked while a call is in progress, and what is kept when none is, as long
\* as the analysis sees what becomes of the parameters and of what is in the slots.
Watchful == role = "client" /\ ~Escaped /\ \A r \in DOMAIN text : ~LosesSight(r)
HereTracked == Tracked(Here.fn = "register", analysis.slots, text[Here.fn], Here.regs, memory, given)
KeepInv ==
    /\ role = "client" => analysis = Analyze(Globals, text, flows, Roles)
    /\ Watchful /\ frame = <<>> => Idle(analysis.slots, memory, given)
    /\ Watchful /\ frame # <<>> => HereTracked

LEMMA WatchfulStays == ASSUME UNCHANGED <<role, analysis, text, flows, scenario>> PROVE Watchful' <=> Watchful
BY DEF Watchful, LosesSight, Escaped, Roles

LEMMA TrackOn ==
    ASSUME NEW known, FrameOk(text, known, Here, memory, given), text' = text, NEW regs, analysis' = analysis,
           frame' = <<[Here EXCEPT !.at = @ + 1, !.regs = regs]>>,
           Tracked(Here.fn = "register", analysis.slots, text[Here.fn], regs, memory', given')
    PROVE  frame' # <<>> /\ HereTracked'
<1> DEFINE h == frame'[1]
<1>1. DOMAIN Here = {"fn", "block", "at", "blocks", "regs"}
  BY DEF FrameOk
<1>2. frame' # <<>> /\ h = [Here EXCEPT !.at = @ + 1, !.regs = regs]
  OBVIOUS
<1> HIDE DEF h
<1>3. h.fn = Here.fn /\ h.regs = regs
  BY <1>1, <1>2
<1>4. Here' = h
  BY DEF Here, h
<1>5. QED BY <1>2, <1>3, <1>4 DEF HereTracked

LEMMA KeepStep == ASSUME TextInv, RunInv, KeepInv, Step PROVE KeepInv'
<1> DEFINE f == text[Here.fn]
           i == Inst1
           regs == Here.regs
           on == Here.fn = "register"
           slots == analysis.slots
<1>1. /\ frame # <<>> /\ MemoryOk(memory, given) /\ role = "client"
      /\ text' = text /\ UNCHANGED <<role, analysis, flows, scenario>>
  BY DEF Step, RunInv, written, TextInv
<1>2. PICK known : FrameOk(text, known, Here, memory, given)
  BY <1>1 DEF RunInv
<1>3. i \in InstsOf(f)
  BY <1>2, HereIs DEF Inst1
<1>4. Before(f, known, regs, memory, given, i)
  <2>1. \A k \in DOMAIN i.args : Defined(regs, i.args[k])
    BY DEF Step, Defined, ToSet
  <2>2. QED BY <1>1, <1>2, <1>3, <2>1 DEF Before, FrameOk
<1>5. \A x : Value(x) = ValueIn(regs, x)
  BY DEF Value, ValueIn
<1>a. analysis = Analyze(Globals, text, flows, Roles)
  BY <1>1 DEF KeepInv
<1>b. (role = "client" => analysis = Analyze(Globals, text, flows, Roles))'
  BY <1>1, <1>a DEF Roles
<1>c. Watchful' <=> Watchful
  BY <1>1, WatchfulStays
<1>d. SUFFICES ASSUME Watchful PROVE (frame' = <<>> => Idle(slots, memory', given')) /\ (frame' # <<>> => HereTracked')
  BY <1>1, <1>b, <1>c DEF KeepInv
<1>e. Careful(on, slots, f)
  <2>1. Here.fn \in DOMAIN text /\ ~LosesSight(Here.fn) /\ ~Escaped
    BY <1>2, <1>d DEF FrameOk, Watchful
  <2>2. QED BY <1>1, <1>a, <2>1, CarefulIs
<1>f. Watched(on, slots, f, known, regs, memory, given, i)
  BY <1>1, <1>4, <1>d, <1>e DEF Watched, KeepInv, HereTracked
<1> HIDE DEF on, slots
<1>g. ASSUME NEW more, On(more), Tracked(on, slots, f, more, memory', given') PROVE frame' # <<>> /\ HereTracked'
  BY <1>1, <1>2, <1>g, TrackOn DEF On, on, slots
<1>6. CASE i.op = "alloca" /\ memory' = Put(memory, <<i.res>>, Undef) /\ Set(i.res, <<i.res>>) /\ given' = given
  <2>1. Tracked(on, slots, f, Put(regs, i.res, <<i.res>>), memory', given')
    BY <1>6, <1>f, TrackAlloca
  <2>2. QED BY <1>6, <1>g, <2>1 DEF Set
<1>7. CASE i.op = "store" /\ Value(i.args[2]) \in DOMAIN memory
           /\ memory' = [memory EXCEPT ![Value(i.args[2])] = Value(i.args[1])] /\ On(regs) /\ given' = given
  <2>1. Tracked(on, slots, f, regs, memory', given')
    BY <1>5, <1>7, <1>f, TrackStore
  <2>2. QED BY <1>7, <1>g, <2>1
<1>8. CASE i.op = "load" /\ Value(i.args[1]) \in DOMAIN memory
           /\ Set(i.res, memory[Value(i.args[1])]) /\ memory' = memory /\ given' = given
  <2>1. Tracked(on, slots, f, Put(regs, i.res, memory[Value(i.args[1])]), memory', given')
    BY <1>5, <1>8, <1>f, TrackLoad
  <2>2. QED BY <1>8, <1>g, <2>1 DEF Set
<1>9. CASE i.op = "gep" /\ Set(i.res, IF i.type = "S" THEN Value(i.args[1]) \o i.path ELSE Value(i.args[1]))
           /\ memory' = memory /\ given' = given
  <2>1. PICK v : v = (IF i.type = "S" THEN Value(i.args[1]) \o i.path ELSE Value(i.args[1]))
    OBVIOUS
  <2>2. Tracked(on, slots, f, Put(regs, i.res, v), memory', given')
    BY <1>5, <1>9, <1>f, <2>1, TrackGep
  <2>3. On(Put(regs, i.res, v))
    BY <1>9, <2>1 DEF Set
  <2>4. QED BY <1>g, <2>2, <2>3
<1>10. ASSUME i.op \in {"cast", "other"}, NEW v, Set(i.res, v), memory' = memory, given' = given,
              v = Value(i.args[1]) \/ (i.op = "other" /\ v = Junk)
       PROVE  frame' # <<>> /\ HereTracked'
  <2>1. Tracked(on, slots, f, Put(regs, i.res, v), memory', given')
    BY <1>5, <1>10, <1>f, TrackCast
  <2>2. QED BY <1>10, <1>g, <2>1 DEF Set
<1>11. ASSUME i.op = "call", i.args[1] = "@ext", On(regs),
              NEW all, all = given \cup {Value(i.args[2])},
              given' = all \cup {memory[a] : a \in all \cap DOMAIN memory},
              NEW over \in SUBSET (all \cap DOMAIN memory),
              memory' = [a \in DOMAIN memory |-> IF a \in over THEN Junk ELSE memory[a]]
       PROVE  frame' # <<>> /\ HereTracked'
  <2>1. PICK under : under = all \cap DOMAIN memory
    OBVIOUS
  <2>2. Value(i.args[2]) = ValueIn(regs, i.args[2])
    BY <1>5
  <2>3. Escapes(memory, given, ValueIn(regs, i.args[2]), under, given', over, memory')
    BY <1>11, <2>1, <2>2 DEF Escapes
  <2>4. Tracked(on, slots, f, regs, memory', given')
    BY <1>11, <1>f, <2>3, TrackEscape
  <2>5. QED BY <1>11, <1>g, <2>4
<1>12. CASE i.op = "call" /\ On(regs) /\ memory' = memory /\ given' = given
  BY <1>12, <1>f, <1>g DEF Watched
<1>13. CASE /\ i.op \in {"branch", "unsupported"} /\ memory' = memory /\ given' = given
            /\ \E b \in (IF i.op = "branch" THEN ToSet(i.to) ELSE Labels(f)) :
                  frame' = <<[Here EXCEPT !.block = b, !.at = 1, !.blocks = @ + 1]>>
  <2>1. PICK b : frame' = <<[Here EXCEPT !.block = b, !.at = 1, !.blocks = @ + 1]>>
    BY <1>13
  <2> DEFINE h == frame'[1]
  <2>2. frame' # <<>> /\ h = [Here EXCEPT !.block = b, !.at = 1, !.blocks = @ + 1]
    BY <2>1
  <2> HIDE DEF h
  <2>3. h.fn = Here.fn /\ h.regs = Here.regs
    BY <1>2, <2>2 DEF FrameOk
  <2>4. Here' = h
    BY DEF Here, h
  <2>5. Tracked(on, slots, f, regs, memory', given')
    BY <1>13, <1>f DEF Watched
  <2>6. QED BY <1>1, <2>2, <2>3, <2>4, <2>5 DEF HereTracked, on, slots
<1>14. CASE /\ i.op = "return" /\ frame' = <<>> /\ memory' = Restrict(memory, Lasting)
            /\ given' = {v \in given \cup {Value(x) : x \in ToSet(i.args)} : v \in DOMAIN memory => v \in Lasting}
  <2>1. given' = {v \in given \cup {ValueIn(regs, x) : x \in ToSet(i.args)} : v \in DOMAIN memory => v \in Lasting}
    BY <1>5, <1>14
  <2>2. Idle(slots, memory', given')
    BY <1>14, <1>f, <2>1, TrackReturn
  <2>3. QED BY <1>14, <2>2
<1>15. QED
  <2> HIDE DEF i, f
  <2>1. CASE i.op = "other" /\ \E v \in {Value(i.args[1]), Junk} : Set(i.res, v) /\ memory' = memory /\ given' = given
    BY <1>10, <2>1
  <2>2. CASE i.op = "call" /\ i.args[1] = "@ext"
             /\ LET known1 == given \cup {Value(i.args[2])}
                    under == known1 \cap DOMAIN memory
                IN /\ given' = known1 \cup {memory[a] : a \in under}
                   /\ \E over \in SUBSET under :
                         memory' = [a \in DOMAIN memory |-> IF a \in over THEN Junk ELSE memory[a]]
             /\ On(regs)
    <3> DEFINE all == given \cup {Value(i.args[2])}
    <3>1. given' = all \cup {memory[a] : a \in all \cap DOMAIN memory}
      BY <2>2
    <3>2. PICK over \in SUBSET (all \cap DOMAIN memory) : memory' = [a \in DOMAIN memory |-> IF a \in over THEN Junk ELSE memory[a]]
      BY <2>2
    <3>3. QED BY <1>11, <2>2, <3>1, <3>2
  <2>3. CASE i.op = "cast" /\ Set(i.res, Value(i.args[1])) /\ memory' = memory /\ given' = given
    BY <1>10, <2>3
  <2>4. QED BY <1>6, <1>7, <1>8, <1>9, <1>12, <1>13, <1>14, <2>1, <2>2, <2>3 DEF Step, i, f

\* When a call begins, only the registration is given the two.
LEMMA KeepEnter ==
    ASSUME TextInv, NEW r \in DOMAIN text, NEW args, Enter(r, args), UNCHANGED <<text, memory, given, analysis>>,
           Idle(analysis.slots, memory, given), args["conn"] \in Others,
           \/ r = "register" /\ args["cb"] = <<"cb">> /\ args["ud"] = <<"ud">>
           \/ args["cb"] = Null /\ args["ud"] = Null
    PROVE  frame' # <<>> /\ HereTracked'
<1> DEFINE h == frame'[1]
           regs == [p \in ToSet(Params) |-> args[p]]
           f == text[r]
           on == r = "register"
           slots == analysis.slots
<1>1. frame' # <<>> /\ h = [fn |-> r, block |-> 1, at |-> 1, blocks |-> 1, regs |-> regs]
  BY DEF Enter
<1>2. DOMAIN regs = {"cb", "ud", "conn"} /\ regs["cb"] = args["cb"] /\ regs["ud"] = args["ud"] /\ regs["conn"] = args["conn"]
  BY ParamsAre
<1> HIDE DEF h, regs
<1>3. h.fn = r /\ h.regs = regs /\ Here' = h
  BY <1>1 DEF Here, h
<1>4. \A p \in 1..2 : <<Params[p], Param(p)>> \in Claimed(f)
  <2> SUFFICES ASSUME NEW p \in 1..2 PROVE <<Params[p], Param(p)>> \in Claimed(f)
    OBVIOUS
  <2>1. Begins(f, Params[p], Param(p))
    BY DEF Begins
  <2>2. Params[p] \in Names /\ Param(p) \in Claims
    BY ParamsAre DEF Names, Claims, OriginClaims
  <2>3. QED BY <2>1, <2>2, ClaimsHold DEF Holding
<1> HIDE DEF f, on, slots
<1>5. ASSUME NEW x \in DOMAIN regs PROVE Traced(on, slots, f, x, regs[x])
  <2>1. CASE regs[x] \notin Handed
    <3>1. regs[x] \in Values \cup Others
      BY <1>2, <2>1, HandedIs DEF Values, Handed
    <3>2. QED BY <2>1, <3>1, PlacesAre, NotHanded
  <2>2. CASE regs[x] \in Handed
    <3>1. x \in {"cb", "ud"} /\ r = "register" /\ regs[x] = <<x>>
      BY <1>2, <1>5, <2>2, HandedIs
    <3>2. \A p \in 1..2 : regs[x] = <<Params[p]>> => x = Params[p]
      BY <3>1
    <3>3. ~Points(slots, regs[x])
      BY <2>2, HandedIs DEF Points
    <3>4. QED BY <1>4, <3>1, <3>2, <3>3 DEF Traced, on
  <2>3. QED BY <2>1, <2>2
<1>6. Tracked(on, slots, f, regs, memory, given)
  <2>1. ASSUME NEW a \in DOMAIN memory PROVE TracedCell(on, slots, f, a, memory[a])
    BY HandedIs DEF Idle, TracedCell, slots
  <2>2. QED BY <1>5, <2>1 DEF Tracked, Idle, slots
<1>7. QED BY <1>1, <1>3, <1>6 DEF HereTracked, f, on, slots

LEMMA FirstIsIdle == \A slots : Idle(slots, AtFirst, {})
<1>1. DOMAIN AtFirst = Lasting /\ \A a \in Lasting : AtFirst[a] = IF a = <<"@o">> THEN <<"other">> ELSE Null
  BY DEF AtFirst
<1> HIDE DEF AtFirst
<1>2. QED BY <1>1, HandedIs DEF Idle, Others

LEMMA KeepInit == ASSUME Init PROVE KeepInv
<1>1. frame = <<>> /\ given = {} /\ memory = AtFirst /\ role # "client"
  BY DEF Init
<1>2. QED BY <1>1 DEF KeepInv, Watchful

LEMMA KeepNext == ASSUME TextInv, RunInv, KeepInv, [Next]_vars PROVE KeepInv'
<1>1. CASE UNCHANGED vars \/ LeakGuard \/ Fire \/ \E x \in Rust!Subjects : End(x)
  <2>1. UNCHANGED <<role, analysis, text, flows, scenario, frame, memory, given>>
    BY <1>1 DEF vars, LeakGuard, Fire, End, written
  <2>2. QED BY <2>1, WatchfulStays DEF KeepInv, HereTracked, Here, Roles
<1>2. CASE Write \/ NextBlock \/ NextFunction
  <2>1. role # "client"
    BY <1>2 DEF Write, NextBlock, NextFunction
  <2>2. role' # "client"
    BY <1>2, <2>1 DEF Write, NextBlock, NextFunction
  <2>3. QED BY <2>2 DEF KeepInv, Watchful
<1>3. CASE Analysed
  <2>1. role # "client" /\ role' = "client" /\ UNCHANGED <<scenario, text, frame, memory, given>>
    BY <1>3 DEF Analysed, client
  <2>2. frame = <<>> /\ memory = AtFirst /\ given = {}
    BY <2>1 DEF TextInv
  <2>3. flows' = [r \in DOMAIN text |-> FlowOf(Globals, text[r])]
        /\ analysis' = Analyze(Globals, text, [r \in DOMAIN text |-> FlowOf(Globals, text[r])], Roles)
    BY <1>3 DEF Analysed
  <2>4. analysis' = Analyze(Globals, text, flows', Roles)
    BY <2>3
  <2>5. Roles' = Roles
    BY <2>1 DEF Roles
  <2>6. Idle(analysis.slots, memory, given)'
    BY <2>1, <2>2, FirstIsIdle
  <2>7. QED BY <2>1, <2>2, <2>4, <2>5, <2>6 DEF KeepInv
<1>4. CASE Register \/ DropGuard
  <2>1. role = "client" /\ frame = <<>> /\ UNCHANGED <<role, analysis, text, flows, scenario, memory, given>>
    BY <1>4 DEF Register, DropGuard, written
  <2>2. (role = "client" => analysis = Analyze(Globals, text, flows, Roles))'
    BY <2>1 DEF KeepInv, Roles
  <2>3. Watchful' <=> Watchful
    BY <2>1, WatchfulStays
  <2> SUFFICES ASSUME Watchful PROVE (frame' = <<>> => Idle(analysis.slots, memory, given)') /\ (frame' # <<>> => HereTracked')
    BY <2>2, <2>3 DEF KeepInv
  <2>4. Idle(analysis.slots, memory, given)
    BY <2>1 DEF KeepInv
  <2>5. "register" \in DOMAIN text /\ <<"conn">> \in Others
    BY DEF TextInv, Others
  <2>6. CASE Register
    <3> DEFINE args == [cb |-> <<"cb">>, ud |-> <<"ud">>, conn |-> <<"conn">>]
    <3>1. Enter("register", args)
      BY <2>6 DEF Register
    <3>2. args["cb"] = <<"cb">> /\ args["ud"] = <<"ud">> /\ args["conn"] = <<"conn">>
      OBVIOUS
    <3> HIDE DEF args
    <3>3. frame' # <<>> /\ HereTracked'
      BY <2>1, <2>4, <2>5, <3>1, <3>2, KeepEnter
    <3>4. QED BY <3>3
  <2>7. CASE DropGuard
    <3> DEFINE args == [cb |-> Null, ud |-> Null, conn |-> <<"conn">>]
    <3>1. UNCHANGED frame \/ ("clear" \in DOMAIN text /\ Enter("clear", args))
      BY <2>7 DEF DropGuard
    <3>2. args["cb"] = Null /\ args["ud"] = Null /\ args["conn"] = <<"conn">>
      OBVIOUS
    <3> HIDE DEF args
    <3>3. CASE UNCHANGED frame
      BY <2>1, <2>4, <3>3
    <3>4. CASE "clear" \in DOMAIN text /\ Enter("clear", args)
      <4>1. frame' # <<>> /\ HereTracked'
        BY <2>1, <2>4, <2>5, <3>2, <3>4, KeepEnter
      <4>2. QED BY <4>1
    <3>5. QED BY <3>1, <3>3, <3>4
  <2>8. QED BY <1>4, <2>6, <2>7
<1>5. CASE Step
  BY <1>5, KeepStep
<1>6. QED BY <1>1, <1>2, <1>3, <1>4, <1>5 DEF Next

LEMMA KeptIsNothing == Kept = {} <=> (\A a \in DOMAIN memory : memory[a] \notin Handed) /\ \A v \in given : v \notin Handed
<1>1. \A v : v \in Kept <=> v \in Handed /\ (v \in given \/ \E a \in DOMAIN memory : v = memory[a])
  BY DEF Kept
<1>2. QED BY <1>1

\* Where nothing is retained, there is no slot to lose sight of.
LEMMA NothingToWatch ==
    ASSUME TextInv, KeepInv, role = "client", analysis.retention = "no_retain"
    PROVE  Watchful /\ analysis.slots = {}
<1>1. "register" \in DOMAIN text /\ Roles.register = "register" /\ analysis = Analyze(Globals, text, flows, Roles)
  BY DEF TextInv, Roles, KeepInv
<1>2. /\ \A z : z \in analysis.slots <=> \E s \in SitesOf(text, flows, Roles) : z = s.slot
      /\ SitesOf(text, flows, Roles) = {} /\ ~TraceParams(Globals, text["register"], flows["register"], Roles).escaped
  BY <1>1, AnalysisIs
<1>3. analysis.slots = {}
  BY <1>2
<1>4. \A r : ~LosesSight(r)
  BY <1>3 DEF LosesSight
<1>5. ~Escaped
  BY <1>2 DEF Escaped
<1>6. QED BY <1>3, <1>4, <1>5 DEF Watchful

\* If a registration is said to retain nothing, then it does: whatever path it has
\* taken, the callback and its user data are nowhere where they outlive the call and
\* no unknown code has been handed them (trace_param, analyze).
THEOREM NothingIsRetained == Spec => []NoRetainIsSound
<1>1. TextInv /\ KeepInv => NoRetainIsSound
  <2> SUFFICES ASSUME TextInv, KeepInv, role = "client", frame = <<>>, analysis.retention = "no_retain"
               PROVE  Kept = {}
    BY DEF NoRetainIsSound
  <2>1. Idle({}, memory, given)
    BY NothingToWatch DEF KeepInv
  <2>2. QED BY <2>1, KeptIsNothing DEF Idle, InSlot, Apart
<1>2. QED BY <1>1, TextInit, TextNext, RunInit, RunNext, KeepInit, KeepNext, PTL DEF Spec

-----------------------------------------------------------------------------
(* What the clear entry does, where it is said to clear all slots on all   *)
(* paths: no call returns that has not passed, for each slot, a store that *)
(* goes there.                                                             *)

\* The j-th instruction of block b, that no exit is reached without, is a store in s.
Clearing(f, s, b, j) ==
    /\ b \in DOMAIN f.blocks /\ j \in DOMAIN f.blocks[b] /\ Without(f, b) \cap Exits(f) = {}
    /\ f.blocks[b][j].op = "store"
    /\ <<f.blocks[b][j].args[2], s>> \in Claimed(f) /\ <<f.blocks[b][j].args[2], Owned>> \in Claimed(f)
IsCleared(f, s) == \E b, j : Clearing(f, s, b, j)
StoresIn(f, flow, s) ==
    {k \in DOMAIN AllInsts(f) : /\ AllInsts(f)[k].inst.op = "store"
                                /\ PointerSlot(Globals, flow, AllInsts(f)[k].inst.args[2]) = s}

\* The strongest evidence there is comes from a store, if it is that a slot is cleared.
LEMMA EvidenceIs ==
    ASSUME NEW f, NEW flow, NEW roles, NEW s, SlotClear(Globals, f, flow, roles, s) \in {4, 5}
    PROVE  \E k \in StoresIn(f, flow, s) : AllInsts(f)[k].block \in OnEveryReturningPath(f)
<1> DEFINE insts == AllInsts(f)
           stores == StoresIn(f, flow, s)
           found == {EvidenceOf(f, flow, roles, insts[k]) : k \in stores}
           all == {1} \cup found
<1>1. SlotClear(Globals, f, flow, roles, s) = Max(all)
  BY DEF SlotClear, StoresIn
<1>2. \A k \in stores : EvidenceOf(f, flow, roles, insts[k]) \in 2..5
  BY DEF EvidenceOf
<1>3. ASSUME NEW k \in stores, EvidenceOf(f, flow, roles, insts[k]) # 2 PROVE insts[k].block \in OnEveryReturningPath(f)
  BY <1>3 DEF EvidenceOf
<1> HIDE DEF stores, insts
<1>4. \A e \in found : e \in 2..5 /\ \E k \in stores : e = EvidenceOf(f, flow, roles, insts[k])
  BY <1>2
<1> HIDE DEF found
<1>5. 1 \in all /\ \A e \in all : e \in 1..5
  BY <1>4
<1>a. \A e \in all : e = 1 \/ e \in found
  OBVIOUS
<1> HIDE DEF all
<1>6. \E e \in all : \A d \in all : e >= d
  <2>1. CASE 5 \in all
    BY <1>5, <2>1
  <2>2. CASE 5 \notin all /\ 4 \in all
    <3>1. \A d \in all : 4 >= d
      BY <1>5, <2>2
    <3>2. QED BY <2>2, <3>1
  <2>3. CASE 5 \notin all /\ 4 \notin all /\ 3 \in all
    <3>1. \A d \in all : 3 >= d
      BY <1>5, <2>3
    <3>2. QED BY <2>3, <3>1
  <2>4. CASE 5 \notin all /\ 4 \notin all /\ 3 \notin all /\ 2 \in all
    <3>1. \A d \in all : 2 >= d
      BY <1>5, <2>4
    <3>2. QED BY <2>4, <3>1
  <2>5. CASE 5 \notin all /\ 4 \notin all /\ 3 \notin all /\ 2 \notin all
    <3>1. \A d \in all : 1 >= d
      BY <1>5, <2>5
    <3>2. QED BY <1>5, <3>1
  <2>6. QED BY <2>1, <2>2, <2>3, <2>4, <2>5
<1>7. Max(all) \in all
  BY <1>6 DEF Max
<1>8. Max(all) \in {4, 5}
  BY <1>1
<1>9. PICK k \in stores : Max(all) = EvidenceOf(f, flow, roles, insts[k])
  BY <1>4, <1>7, <1>8, <1>a
<1>10. EvidenceOf(f, flow, roles, insts[k]) # 2
  BY <1>8, <1>9
<1>11. QED BY <1>3, <1>10 DEF stores, insts

LEMMA ClearFound ==
    ASSUME NEW f, NEW known, WellTyped(f, known), ~CfgIncomplete(f), NEW flow, flow = FlowOf(Globals, f),
           NEW roles, NEW s \in SlotClaims, SlotClear(Globals, f, flow, roles, s) \in {4, 5},
           \A i \in InstsOf(f) : i.op = "store" /\ PointerSlot(Globals, flow, i.args[2]) = s => IsCallerOwned(flow, i.args[2])
    PROVE  IsCleared(f, s)
<1>1. PICK k \in StoresIn(f, flow, s) : AllInsts(f)[k].block \in OnEveryReturningPath(f)
  BY EvidenceIs
<1> DEFINE e == AllInsts(f)[k]
           b == e.block
           i == e.inst
<1>2. /\ i.op = "store" /\ PointerSlot(Globals, flow, i.args[2]) = s
      /\ b \in OnEveryReturningPath(f) /\ k \in DOMAIN AllInsts(f)
  BY <1>1 DEF StoresIn
<1>3. i \in InstsOf(f) /\ IsPlace(f, e)
  BY <1>2, AllInstsAre DEF Lists, IsTyped
<1> HIDE DEF e
<1>4. PICK j \in DOMAIN f.blocks[b] : b \in DOMAIN f.blocks /\ i = f.blocks[b][j]
  BY <1>3 DEF IsPlace
<1>5. BlocksOf(f) /\ Exits(f) # {}
  BY DEF WellTyped, BlocksOf, CfgIncomplete
<1>6. Without(f, b) \cap Exits(f) = {}
  BY <1>2, <1>5, EveryPath
<1>7. Within(f, known, flow) /\ i.args[2] \in CellsIn(known)
  BY <1>2, <1>3, FlowWithin, InstIsApt DEF Terminators, Apt, Shaped
<1> HIDE DEF i, b
<1>8. s # NoSlot
  BY DEF SlotClaims, NoSlot, Field
<1>9. <<i.args[2], s>> \in Claimed(f)
  BY <1>2, <1>7, <1>8, PointerWithin
<1>10. <<i.args[2], Owned>> \in Claimed(f)
  BY <1>2, <1>3, <1>7, OwnedIs
<1>11. Clearing(f, s, b, j)
  BY <1>2, <1>4, <1>6, <1>9, <1>10 DEF Clearing
<1>12. QED BY <1>11 DEF IsCleared

\* What is needed of the analyses, and of the drop of the guard.
Trusted ==
    /\ Watchful /\ analysis.clear = "clears_on_all_paths" /\ ~ClearsAnother
    /\ "clear" \in HandOffFn(crate).guard.calls
\* Nothing is in a slot; a store that clears it is still ahead.
Wiped(s) == \A a \in DOMAIN memory : InSlot({s}, a) => memory[a] \notin Handed
IsAhead(s, block, at) ==
    \E b, j : /\ Clearing(text["clear"], s, b, j)
              /\ IF block = b THEN at <= j ELSE block \in Without(text["clear"], b)
ClearInv ==
    /\ guard \in {"none", "held", "dropped", "leaked"} /\ (Protects(crate) => guard # "none")
    /\ role # "client" => guard # "dropped"
    /\ DOMAIN text \subseteq {"register", "clear"}
    /\ Trusted /\ guard = "dropped" /\ frame = <<>> => Kept = {}
    /\ Trusted /\ guard = "dropped" /\ frame # <<>> =>
          Here.fn = "clear" /\ \A s \in analysis.slots : Wiped(s) \/ IsAhead(s, Here.block, Here.at)

LEMMA TrustedStays == ASSUME UNCHANGED written PROVE Trusted' <=> Trusted
<1>1. Watchful' <=> Watchful
  BY WatchfulStays DEF written
<1>2. ClearsAnother' <=> ClearsAnother
  BY DEF ClearsAnother, written
<1>3. QED BY <1>1, <1>2 DEF Trusted, written

\* What the answer that all slots are cleared says (analyze_clear).
LEMMA ClearSays ==
    ASSUME TextInv, KeepInv, DOMAIN text \subseteq {"register", "clear"}, Trusted
    PROVE  /\ "clear" \in DOMAIN text /\ ~CfgIncomplete(text["clear"]) /\ analysis.slots \subseteq SlotClaims
           /\ \A s \in analysis.slots : IsCleared(text["clear"], s)
<1> DEFINE f == text["clear"]
           S == analysis.slots
           flow == flows["clear"]
<1>0. /\ role = "client" /\ analysis = Analyze(Globals, text, flows, Roles) /\ "register" \in DOMAIN text
      /\ Roles.register = "register" /\ Roles.clear \in {"none", "clear"}
  BY DEF Trusted, Watchful, TextInv, KeepInv, Roles
<1>1. AnalyzeClear(Globals, text, flows, Roles, S) = "clears_on_all_paths"
  BY <1>0, AnalysisIs DEF Trusted
<1>2. Roles.clear \in DOMAIN text /\ ~CfgIncomplete(text[Roles.clear])
  BY <1>1 DEF AnalyzeClear
<1>3. Roles.clear = "clear"
  BY <1>0, <1>2
<1>4. \A s \in S : SlotClear(Globals, f, flow, Roles, s) \in {4, 5}
  <2> DEFINE of == [s \in S |-> SlotClear(Globals, f, flow, Roles, s)]
  <2>1. AnalyzeClear(Globals, text, flows, Roles, S) =
            IF S = {} THEN "unresolved"
            ELSE CASE \E s \in S : of[s] = 1 -> "may_leave_slot_populated"
                   [] \A s \in S : of[s] \in {4, 5} -> "clears_on_all_paths"
                   [] OTHER -> "unresolved"
    BY <1>2, <1>3 DEF AnalyzeClear
  <2>2. \A s \in S : of[s] = SlotClear(Globals, f, flow, Roles, s)
    OBVIOUS
  <2> HIDE DEF of, S
  <2>3. \A s \in S : of[s] \in {4, 5}
    BY <1>1, <2>1
  <2>4. QED BY <2>2, <2>3
<1>5. PICK known : WellTyped(f, known)
  BY <1>2, <1>3 DEF TextInv, IsTyped
<1>6. flow = FlowOf(Globals, f)
  BY <1>0, <1>2, <1>3 DEF TextInv
<1>7. S \subseteq SlotClaims
  <2>1. ~Escaped /\ ~LosesSight("register")
    BY <1>0 DEF Trusted, Watchful
  <2>2. Careful("register" = "register", S, text["register"])
    BY <1>0, <2>1, CarefulIs
  <2>3. QED BY <2>2 DEF Careful
<1>8. ASSUME NEW i \in InstsOf(f), i.op = "store", PointerSlot(Globals, flow, i.args[2]) \in S
      PROVE  IsCallerOwned(flow, i.args[2])
  <2>1. PICK n \in DOMAIN AllInsts(f) : AllInsts(f)[n].inst = i
    BY <1>5, AllInstsAre DEF Lists, IsTyped
  <2> DEFINE e == AllInsts(f)[n]
  <2>2. e \in ToSet(AllInsts(text.clear)) /\ e.inst = i
    BY <2>1 DEF ToSet
  <2> HIDE DEF e
  <2>3. QED BY <1>8, <2>2 DEF Trusted, ClearsAnother
<1> HIDE DEF f, S, flow
<1>9. ASSUME NEW s \in S PROVE IsCleared(f, s)
  <2>1. ~CfgIncomplete(f) /\ s \in SlotClaims /\ SlotClear(Globals, f, flow, Roles, s) \in {4, 5}
    BY <1>2, <1>3, <1>4, <1>7 DEF f
  <2>2. \A i \in InstsOf(f) : i.op = "store" /\ PointerSlot(Globals, flow, i.args[2]) = s => IsCallerOwned(flow, i.args[2])
    BY <1>8
  <2>3. QED BY <1>5, <1>6, <2>1, <2>2, ClearFound
<1>10. QED BY <1>2, <1>3, <1>7, <1>9 DEF f, S

\* Where a call goes in a step.
Moved == frame' # <<>> /\ Here'.fn = Here.fn /\ Here'.block = Here.block /\ Here'.at = Here.at + 1
Jumped ==
    /\ frame' # <<>> /\ Here'.fn = Here.fn /\ Here'.at = 1
    /\ Inst1.op = "unsupported" \/ (Inst1.op = "branch" /\ Here'.block \in ToSet(Inst1.to))
Left == frame' = <<>> /\ Inst1.op = "return"

LEMMA StepMoves ==
    ASSUME NEW known, FrameOk(text, known, Here, memory, given), Step
    PROVE  (Inst1.op \notin Terminators /\ Moved) \/ Jumped \/ Left
<1>1. DOMAIN Here = {"fn", "block", "at", "blocks", "regs"}
  BY DEF FrameOk
<1>2. ASSUME NEW regs, On(regs) PROVE Moved
  <2> DEFINE h == frame'[1]
  <2>1. frame' # <<>> /\ h = [Here EXCEPT !.at = @ + 1, !.regs = regs]
    BY <1>2 DEF On
  <2> HIDE DEF h
  <2>2. h.fn = Here.fn /\ h.block = Here.block /\ h.at = Here.at + 1 /\ Here' = h
    BY <1>1, <2>1 DEF Here, h
  <2>3. QED BY <2>1, <2>2 DEF Moved
<1>3. ASSUME Inst1.op \in {"branch", "unsupported"},
             NEW b \in (IF Inst1.op = "branch" THEN ToSet(Inst1.to) ELSE Labels(text[Here.fn])),
             frame' = <<[Here EXCEPT !.block = b, !.at = 1, !.blocks = @ + 1]>>
      PROVE  Jumped
  <2> DEFINE h == frame'[1]
  <2>1. frame' # <<>> /\ h = [Here EXCEPT !.block = b, !.at = 1, !.blocks = @ + 1]
    BY <1>3
  <2> HIDE DEF h
  <2>2. h.fn = Here.fn /\ h.block = b /\ h.at = 1 /\ Here' = h
    BY <1>1, <2>1 DEF Here, h
  <2>3. QED BY <1>3, <2>1, <2>2 DEF Jumped
<1>4. ASSUME Inst1.op \notin Terminators, \E regs : On(regs) PROVE Inst1.op \notin Terminators /\ Moved
  BY <1>2, <1>4
<1>5. QED
  <2> DEFINE i == Inst1
  <2>1. \/ i.op \in {"alloca", "load", "gep", "cast", "other", "store", "call"} /\ \E regs : On(regs)
        \/ /\ i.op \in {"branch", "unsupported"}
           /\ \E b \in (IF i.op = "branch" THEN ToSet(i.to) ELSE Labels(text[Here.fn])) :
                 frame' = <<[Here EXCEPT !.block = b, !.at = 1, !.blocks = @ + 1]>>
        \/ i.op = "return" /\ frame' = <<>>
    BY DEF Step, Set
  <2>2. QED BY <1>3, <1>4, <2>1 DEF Terminators, Left

\* A step of the clear entry puts neither of the two anywhere.
LEMMA StepClears ==
    ASSUME NEW slots, NEW f, NEW known, Watched(FALSE, slots, f, known, Here.regs, memory, given, Inst1), Step
    PROVE  /\ \A a \in DOMAIN memory' : memory'[a] \in Handed => a \in DOMAIN memory /\ memory[a] \in Handed
           /\ Inst1.op = "store" =>
                 LET d == ValueIn(Here.regs, Inst1.args[2]) IN d \in DOMAIN memory /\ memory'[d] \notin Handed
<1> DEFINE i == Inst1
           regs == Here.regs
           Same == \A a \in DOMAIN memory' : memory'[a] \in Handed => a \in DOMAIN memory /\ memory[a] \in Handed
<1>1. \A x : Value(x) = ValueIn(regs, x)
  BY DEF Value, ValueIn
<1>2. Lasting \subseteq DOMAIN memory
  BY DEF Watched, Before, MemoryOk
<1>3. CASE i.op = "alloca" /\ memory' = Put(memory, <<i.res>>, Undef)
  <2>1. \A a \in DOMAIN memory' : memory'[a] = Undef \/ (a \in DOMAIN memory /\ memory'[a] = memory[a])
    BY <1>3 DEF Put
  <2>2. QED BY <1>3, <2>1, HandedIs
<1>4. CASE i.op = "store" /\ Value(i.args[2]) \in DOMAIN memory /\ memory' = [memory EXCEPT ![Value(i.args[2])] = Value(i.args[1])]
  <2> DEFINE v == ValueIn(regs, i.args[1])
             d == ValueIn(regs, i.args[2])
  <2>1. d \in DOMAIN memory /\ memory' = [memory EXCEPT ![d] = v]
    BY <1>1, <1>4
  <2>2. v \notin Handed
    BY <1>4, <2>1, TrackStore
  <2> HIDE DEF v, d
  <2>3. memory'[d] = v /\ \A a \in DOMAIN memory' : a \in DOMAIN memory /\ (a = d \/ memory'[a] = memory[a])
    BY <2>1
  <2>4. QED BY <2>1, <2>2, <2>3 DEF d
<1>5. CASE i.op # "store" /\ memory' = memory
  BY <1>5
<1>6. ASSUME i.op # "store", NEW over, memory' = [a \in DOMAIN memory |-> IF a \in over THEN Junk ELSE memory[a]] PROVE Same
  BY <1>6, HandedIs
<1>7. CASE i.op = "return" /\ memory' = Restrict(memory, Lasting)
  <2>1. \A a \in DOMAIN memory' : a \in DOMAIN memory /\ memory'[a] = memory[a]
    BY <1>2, <1>7 DEF Restrict
  <2>2. QED BY <1>7, <2>1
<1>8. QED
  <2>1. \/ i.op = "alloca" /\ memory' = Put(memory, <<i.res>>, Undef)
        \/ i.op = "store" /\ Value(i.args[2]) \in DOMAIN memory /\ memory' = [memory EXCEPT ![Value(i.args[2])] = Value(i.args[1])]
        \/ i.op # "store" /\ memory' = memory
        \/ i.op # "store" /\ \E over : memory' = [a \in DOMAIN memory |-> IF a \in over THEN Junk ELSE memory[a]]
        \/ i.op = "return" /\ memory' = Restrict(memory, Lasting)
    BY DEF Step
  <2> HIDE DEF i
  <2>2. QED BY <1>3, <1>4, <1>5, <1>6, <1>7, <2>1 DEF i

\* The end of a block, which no clearing store is.
LEMMA AtTheEnd ==
    ASSUME NEW known, FrameOk(text, known, Here, memory, given), Inst1.op \in Terminators,
           NEW f, f = text[Here.fn], ~CfgIncomplete(f)
    PROVE  /\ Inst1 = Terminator(f.blocks[Here.block]) /\ Inst1.op # "unsupported" /\ ToSet(Inst1.to) \subseteq Labels(f)
           /\ \A j \in DOMAIN f.blocks[Here.block] : Here.at <= j => f.blocks[Here.block][j] = Inst1
<1> DEFINE s == f.blocks[Here.block]
<1>1. WellTyped(f, known) /\ Here.block \in DOMAIN f.blocks /\ Here.at \in DOMAIN s /\ Inst1 = s[Here.at]
  BY DEF FrameOk, Inst1
<1>2. PICK n \in Nat \ {0} : Len(s) = n /\ DOMAIN s = 1..n /\ (\A k \in 1..(n - 1) : Apt(known, s[k]))
  BY <1>1 DEF WellTyped, IsBlock
<1>3. s # <<>>
  BY <1>2
<1> HIDE DEF s
<1>4. Here.at = n
  <2>1. SUFFICES ASSUME Here.at # n PROVE FALSE
    OBVIOUS
  <2>2. Here.at \in 1..(n - 1)
    BY <1>1, <1>2, <2>1
  <2>3. Apt(known, Inst1)
    BY <1>1, <1>2, <2>2
  <2>4. QED BY <2>3 DEF Apt, Shaped, Terminators
<1>5. Inst1 = Terminator(s)
  BY <1>1, <1>2, <1>3, <1>4 DEF Terminator, Last
<1>6. \A j \in DOMAIN s : Here.at <= j => s[j] = Inst1
  BY <1>1, <1>2, <1>4
<1>7. Inst1.op # "unsupported" /\ ToSet(Inst1.to) \subseteq Labels(f)
  BY <1>1, <1>5 DEF CfgIncomplete, s
<1>8. QED BY <1>5, <1>6, <1>7 DEF s

\* A store that clears is reached, or the call does not return.
LEMMA AheadMoves ==
    ASSUME NEW known, FrameOk(text, known, Here, memory, given), Here.fn = "clear", ~CfgIncomplete(text["clear"]),
           NEW s, IsAhead(s, Here.block, Here.at)
    PROVE  /\ Inst1.op \notin Terminators /\ Moved /\ text' = text =>
                 \/ IsAhead(s, Here.block, Here.at)'
                 \/ /\ Inst1.op = "store"
                    /\ <<Inst1.args[2], s>> \in Claimed(text["clear"]) /\ <<Inst1.args[2], Owned>> \in Claimed(text["clear"])
           /\ Jumped /\ text' = text => IsAhead(s, Here.block, Here.at)'
           /\ ~Left
<1> DEFINE f == text["clear"]
<1>1. PICK b, j : Clearing(f, s, b, j) /\ IF Here.block = b THEN Here.at <= j ELSE Here.block \in Without(f, b)
  BY DEF IsAhead
<1>2. WellTyped(f, known) /\ Here.block \in DOMAIN f.blocks /\ Here.at \in DOMAIN f.blocks[Here.block]
  BY DEF FrameOk
<1>3. /\ BlocksOf(f) /\ DOMAIN f.blocks[Here.block] = 1..Len(f.blocks[Here.block])
      /\ Len(f.blocks[Here.block]) \in Nat
  BY <1>2 DEF WellTyped, BlocksOf, IsBlock
<1>4. PICK R : Least(Without(f, b), Len(f.blocks), {1} \ {b}, R) /\ FlowsPast(R, f, b)
  BY <1>3, PastIs
<1>5. b \in DOMAIN f.blocks /\ j \in DOMAIN f.blocks[b] /\ f.blocks[b][j].op = "store" /\ Without(f, b) \cap Exits(f) = {}
  BY <1>1 DEF Clearing
<1>6. ASSUME Inst1.op \in Terminators
      PROVE  Here.block # b /\ Here.block \in Without(f, b) /\ Inst1.op # "unsupported"
             /\ Inst1 = Terminator(f.blocks[Here.block]) /\ ToSet(Inst1.to) \subseteq Labels(f)
  <2>1. /\ Inst1 = Terminator(f.blocks[Here.block]) /\ Inst1.op # "unsupported" /\ ToSet(Inst1.to) \subseteq Labels(f)
        /\ \A k \in DOMAIN f.blocks[Here.block] : Here.at <= k => f.blocks[Here.block][k] = Inst1
    BY <1>6, AtTheEnd
  <2>2. Here.block # b
    BY <1>1, <1>5, <1>6, <2>1 DEF Terminators
  <2>3. QED BY <1>1, <2>1, <2>2
<1>7. ASSUME Inst1.op \notin Terminators, Moved, text' = text
      PROVE  \/ IsAhead(s, Here.block, Here.at)'
             \/ /\ Inst1.op = "store"
                /\ <<Inst1.args[2], s>> \in Claimed(f) /\ <<Inst1.args[2], Owned>> \in Claimed(f)
  <2>1. Here'.block = Here.block /\ Here'.at = Here.at + 1 /\ f' = f
    BY <1>7 DEF Moved
  <2>2. CASE Here.block = b /\ Here.at = j
    <3>1. Inst1 = f.blocks[b][j]
      BY <2>2 DEF Inst1
    <3>2. QED BY <1>1, <3>1 DEF Clearing
  <2>3. CASE Here.block # b \/ Here.at # j
    <3>1. IF Here'.block = b THEN Here'.at <= j ELSE Here'.block \in Without(f, b)
      <4>1. CASE Here.block # b
        BY <1>1, <2>1, <4>1
      <4>2. CASE Here.block = b /\ Here.at # j
        <5>1. Here.at \in Nat /\ j \in Nat /\ Here.at <= j
          BY <1>1, <1>2, <1>3, <1>5, <4>2
        <5>2. QED BY <2>1, <4>2, <5>1
      <4>3. QED BY <2>3, <4>1, <4>2
    <3>2. IsAhead(s, Here.block, Here.at)'
      BY <1>1, <2>1, <3>1 DEF IsAhead
    <3>3. QED BY <3>2
  <2>4. QED BY <2>2, <2>3
<1>8. ASSUME Jumped, text' = text PROVE IsAhead(s, Here.block, Here.at)'
  <2>1. Inst1.op \in Terminators
    BY <1>8 DEF Jumped, Terminators
  <2>2. Here'.block \in ToSet(Inst1.to) /\ Here'.at = 1
    BY <1>6, <1>8, <2>1 DEF Jumped
  <2>3. Here'.block \in Successors(f, Here.block)
    BY <1>6, <2>1, <2>2 DEF Successors
  <2>4. Here'.block \in 1..Len(f.blocks) /\ Here.block \in 1..Len(f.blocks)
    BY <1>2, <1>3, <2>3, ControlFlow DEF BlocksOf
  <2>5. Here'.block = b \/ Here'.block \in Without(f, b)
    <3>1. SUFFICES ASSUME Here'.block # b PROVE Here'.block \in Without(f, b)
      OBVIOUS
    <3>2. <<Here.block, Here'.block>> \in R
      BY <1>4, <2>3, <2>4, <3>1 DEF FlowsPast
    <3>3. QED BY <1>4, <1>6, <2>1, <2>4, <3>2 DEF Least, ClosedUnder
  <2>6. 1 <= j
    <3>1. DOMAIN f.blocks[b] = 1..Len(f.blocks[b])
      BY <1>2, <1>5 DEF WellTyped, IsBlock
    <3>2. QED BY <1>5, <3>1
  <2>7. f' = f
    BY <1>8
  <2>8. QED BY <1>1, <2>2, <2>5, <2>6, <2>7 DEF IsAhead
<1>9. ~Left
  <2> SUFFICES ASSUME Left PROVE FALSE
    OBVIOUS
  <2>1. Inst1.op = "return" /\ Inst1.op \in Terminators
    BY DEF Left, Terminators
  <2>2. Here.block \in Exits(f)
    BY <1>2, <1>6, <2>1 DEF Exits
  <2>3. QED BY <1>5, <1>6, <2>1, <2>2
<1>10. QED BY <1>7, <1>8, <1>9

LEMMA ClearStep == ASSUME TextInv, RunInv, KeepInv, KeepInv', ClearInv, Step PROVE ClearInv'
<1> DEFINE f == text["clear"]
           S == analysis.slots
<1>1. frame # <<>> /\ UNCHANGED written /\ guard' = guard /\ role = "client"
  BY DEF Step, TextInv
<1>2. UNCHANGED <<text, role, crate, analysis>>
  BY <1>1 DEF written
<1>3. /\ (guard \in {"none", "held", "dropped", "leaked"} /\ (Protects(crate) => guard # "none"))'
      /\ (role # "client" => guard # "dropped")' /\ (DOMAIN text \subseteq {"register", "clear"})'
  BY <1>1, <1>2 DEF ClearInv
<1>4. Trusted' <=> Trusted
  BY <1>1, TrustedStays
<1>5. SUFFICES ASSUME Trusted, guard = "dropped"
               PROVE  /\ frame' = <<>> => Kept' = {}
                      /\ frame' # <<>> => Here'.fn = "clear" /\ \A s \in S : Wiped(s)' \/ IsAhead(s, Here.block, Here.at)'
  BY <1>1, <1>2, <1>3, <1>4 DEF ClearInv
<1>6. Here.fn = "clear" /\ \A s \in S : Wiped(s) \/ IsAhead(s, Here.block, Here.at)
  BY <1>1, <1>5 DEF ClearInv
<1>7. "clear" \in DOMAIN text /\ ~CfgIncomplete(f) /\ S \subseteq SlotClaims
  BY <1>5, ClearSays DEF ClearInv
<1>8. PICK known : FrameOk(text, known, Here, memory, given)
  BY <1>1 DEF RunInv
<1>9. Watched(FALSE, S, f, known, Here.regs, memory, given, Inst1)
  <2>1. Inst1 \in InstsOf(f)
    BY <1>6, <1>8, HereIs DEF Inst1
  <2>2. \A k \in DOMAIN Inst1.args : Defined(Here.regs, Inst1.args[k])
    BY DEF Step, Defined, ToSet
  <2>3. Before(f, known, Here.regs, memory, given, Inst1)
    BY <1>1, <1>6, <1>8, <2>1, <2>2 DEF Before, FrameOk, RunInv
  <2>4. Watchful /\ ~Escaped /\ ~LosesSight("clear") /\ analysis = Analyze(Globals, text, flows, Roles)
    BY <1>1, <1>5, <1>7 DEF Trusted, Watchful, KeepInv
  <2> DEFINE on == "clear" = "register"
  <2>5. Careful(on, S, f)
    BY <1>1, <1>7, <2>4, CarefulIs
  <2>6. Tracked(on, S, f, Here.regs, memory, given)
    BY <1>1, <1>6, <2>4 DEF KeepInv, HereTracked
  <2>7. on = FALSE
    OBVIOUS
  <2> HIDE DEF on
  <2>8. QED BY <2>3, <2>5, <2>6, <2>7 DEF Watched
<1>10. /\ \A a \in DOMAIN memory' : memory'[a] \in Handed => a \in DOMAIN memory /\ memory[a] \in Handed
       /\ Inst1.op = "store" =>
             LET d == ValueIn(Here.regs, Inst1.args[2]) IN d \in DOMAIN memory /\ memory'[d] \notin Handed
  BY <1>9, StepClears
<1>11. \A s : Wiped(s) => Wiped(s)'
  BY <1>10 DEF Wiped
<1>12. (Inst1.op \notin Terminators /\ Moved) \/ Jumped \/ Left
  BY <1>8, StepMoves
<1>13. ASSUME NEW s \in S, IsAhead(s, Here.block, Here.at)
       PROVE  ~Left /\ (Wiped(s)' \/ IsAhead(s, Here.block, Here.at)')
  <2>1. /\ Inst1.op \notin Terminators /\ Moved =>
              \/ IsAhead(s, Here.block, Here.at)'
              \/ /\ Inst1.op = "store"
                 /\ <<Inst1.args[2], s>> \in Claimed(f) /\ <<Inst1.args[2], Owned>> \in Claimed(f)
        /\ Jumped => IsAhead(s, Here.block, Here.at)'
        /\ ~Left
    BY <1>2, <1>6, <1>7, <1>8, <1>13, AheadMoves
  <2>2. ASSUME Inst1.op = "store", <<Inst1.args[2], s>> \in Claimed(f), <<Inst1.args[2], Owned>> \in Claimed(f)
        PROVE  Wiped(s)'
    <3> DEFINE d == ValueIn(Here.regs, Inst1.args[2])
    <3>1. d \in DOMAIN memory /\ memory'[d] \notin Handed
      BY <1>10, <2>2
    <3>2. d \in Lasting /\ SlotOf(d) = s /\ d # <<"other", "f">>
      BY <1>7, <1>9, <2>2, <3>1, ClearedIs DEF Watched
    <3> HIDE DEF d
    <3>3. ASSUME NEW a, InSlot({s}, a) PROVE a = d
      <4>1. a \in Lasting /\ SlotOf(a) = s /\ a # <<"other", "f">> /\ s \in SlotClaims
        BY <1>7, <3>3 DEF InSlot
      <4>2. QED BY <3>2, <4>1, PlacesAre
    <3>4. QED BY <3>1, <3>3 DEF Wiped
  <2>3. QED BY <1>12, <2>1, <2>2
<1>14. CASE frame' # <<>>
  <2>1. Here'.fn = "clear"
    BY <1>6, <1>12, <1>14 DEF Moved, Jumped, Left
  <2>2. QED BY <1>6, <1>11, <1>13, <1>14, <2>1
<1>15. CASE frame' = <<>>
  <2>1. Left
    BY <1>12, <1>15 DEF Moved, Jumped
  <2>2. \A s \in S : Wiped(s)'
    BY <1>6, <1>11, <1>13, <2>1
  <2>3. Idle(S, memory', given')
    <3>1. Watchful'
      BY <1>4, <1>5 DEF Trusted
    <3>2. QED BY <1>2, <1>15, <3>1 DEF KeepInv
  <2>4. ASSUME NEW a \in DOMAIN memory', memory'[a] \in Handed PROVE FALSE
    <3>1. InSlot(S, a)
      BY <2>3, <2>4 DEF Idle
    <3>2. SlotOf(a) \in S /\ InSlot({SlotOf(a)}, a)
      BY <3>1 DEF InSlot
    <3>3. QED BY <2>2, <2>4, <3>2 DEF Wiped
  <2>5. \A v \in given' : v \notin Handed
    BY <2>3 DEF Idle, Apart
  <2>6. Kept' = {}
    <3>1. \A v : v \in Kept' <=> v \in Handed /\ (v \in given' \/ \E a \in DOMAIN memory' : v = memory'[a])
      BY DEF Kept, Handed
    <3>2. QED BY <2>4, <2>5, <3>1
  <2>7. QED BY <1>15, <2>6
<1>16. QED BY <1>14, <1>15

\* When the guard is dropped, every store that clears a slot is ahead.
LEMMA ClearEnter ==
    ASSUME TextInv, KeepInv, ClearInv, Trusted, UNCHANGED text, NEW args, Enter("clear", args)
    PROVE  frame' # <<>> /\ Here'.fn = "clear" /\ \A s \in analysis.slots : IsAhead(s, Here.block, Here.at)'
<1> DEFINE h == frame'[1]
           f == text["clear"]
<1>1. frame' # <<>> /\ h.fn = "clear" /\ h.block = 1 /\ h.at = 1
  BY DEF Enter
<1>2. Here' = h
  BY DEF Here
<1> HIDE DEF h
<1>3. "clear" \in DOMAIN text /\ \A s \in analysis.slots : IsCleared(f, s)
  BY ClearSays DEF ClearInv
<1>4. PICK known : WellTyped(f, known)
  BY <1>3 DEF TextInv, IsTyped
<1>5. BlocksOf(f) /\ \A b \in DOMAIN f.blocks : DOMAIN f.blocks[b] = 1..Len(f.blocks[b])
  BY <1>4 DEF WellTyped, BlocksOf, IsBlock
<1>6. ASSUME NEW s \in analysis.slots PROVE IsAhead(s, Here.block, Here.at)'
  <2>1. PICK b, j : Clearing(f, s, b, j)
    BY <1>3 DEF IsCleared
  <2>2. j \in DOMAIN f.blocks[b] /\ b \in DOMAIN f.blocks
    BY <2>1 DEF Clearing
  <2>3. 1 <= j
    BY <1>5, <2>2
  <2>4. 1 = b \/ 1 \in Without(f, b)
    <3>1. PICK R : Least(Without(f, b), Len(f.blocks), {1} \ {b}, R)
      BY <1>5, PastIs
    <3>2. QED BY <3>1 DEF Least
  <2>5. Here'.block = 1 /\ Here'.at = 1 /\ f' = f
    BY <1>1, <1>2
  <2>6. QED BY <2>1, <2>3, <2>4, <2>5 DEF IsAhead
<1>7. QED BY <1>1, <1>2, <1>6

LEMMA ClearInit == ASSUME Init PROVE ClearInv
<1>1. PICK n \in DOMAIN Scenarios : \E c \in Scenarios[n].crates, shape \in Scenarios[n].register.shapes :
          /\ crate = c /\ role = "register" /\ text = [q \in {"register"} |-> Begun(Scenarios[n].register, shape)]
          /\ guard = IF Protects(c) THEN "held" ELSE "none"
  BY DEF Init
<1>2. guard = (IF Protects(crate) THEN "held" ELSE "none") /\ role = "register" /\ DOMAIN text = {"register"}
  BY <1>1
<1>3. guard \in {"none", "held"} /\ (Protects(crate) => guard = "held")
  BY <1>2
<1>4. QED BY <1>2, <1>3 DEF ClearInv

LEMMA ClearNext == ASSUME TextInv, RunInv, KeepInv, KeepInv', ClearInv, [Next]_vars PROVE ClearInv'
<1>1. CASE UNCHANGED vars \/ Fire \/ \E x \in Rust!Subjects : End(x)
  <2>1. UNCHANGED <<written, frame, memory, given, guard>>
    BY <1>1 DEF vars, Fire, End, written
  <2>2. Trusted' <=> Trusted
    BY <2>1, TrustedStays
  <2>3. UNCHANGED <<text, role, crate, analysis>> /\ Kept' = Kept /\ Here' = Here
    BY <2>1 DEF written, Kept, Here
  <2>4. \A s : (Wiped(s)' <=> Wiped(s)) /\ (IsAhead(s, Here.block, Here.at)' <=> IsAhead(s, Here.block, Here.at))
    BY <2>1, <2>3 DEF Wiped, IsAhead
  <2>5. QED BY <2>1, <2>2, <2>3, <2>4 DEF ClearInv
<1>2. CASE Write \/ NextBlock \/ NextFunction
  <2>1. role # "client" /\ role' # "client" /\ UNCHANGED <<crate, guard>>
    BY <1>2 DEF Write, NextBlock, NextFunction, client
  <2>2. DOMAIN text' \subseteq {"register", "clear"}
    <3>1. CASE Write
      <4>1. PICK i : text' = [text EXCEPT ![role].blocks[Head(todo)] = Front(@) \o <<i, Last(@)>>]
        BY <3>1 DEF Write
      <4>2. QED BY <4>1 DEF ClearInv
    <3>2. CASE NextBlock
      BY <3>2 DEF NextBlock, ClearInv
    <3>3. CASE NextFunction
      <4>1. PICK v : text' = Put(text, "clear", v)
        BY <3>3 DEF NextFunction
      <4>2. DOMAIN text' = DOMAIN text \cup {"clear"}
        BY <4>1 DEF Put
      <4>3. QED BY <4>2 DEF ClearInv
    <3>4. QED BY <1>2, <3>1, <3>2, <3>3
  <2>3. ~Trusted'
    BY <2>1 DEF Trusted, Watchful
  <2>4. QED BY <2>1, <2>2, <2>3 DEF ClearInv
<1>3. CASE Analysed
  <2>1. role # "client" /\ UNCHANGED <<text, crate, guard>>
    BY <1>3 DEF Analysed, client
  <2>2. guard' # "dropped"
    BY <2>1 DEF ClearInv
  <2>3. QED BY <2>1, <2>2 DEF ClearInv
<1>4. CASE Register
  <2>1. guard # "dropped" /\ UNCHANGED <<text, crate, guard>>
    BY <1>4 DEF Register, written
  <2>2. QED BY <2>1 DEF ClearInv
<1>5. CASE DropGuard
  <2>1. role = "client" /\ guard' = "dropped" /\ guard = "held" /\ UNCHANGED written
    BY <1>5 DEF DropGuard
  <2>2. UNCHANGED <<text, crate, role, analysis>>
    BY <2>1 DEF written
  <2>3. Trusted' <=> Trusted
    BY <2>1, TrustedStays
  <2>4. ASSUME Trusted
        PROVE  frame' # <<>> /\ Here'.fn = "clear" /\ \A s \in analysis.slots : IsAhead(s, Here.block, Here.at)'
    <3> DEFINE args == [cb |-> Null, ud |-> Null, conn |-> <<"conn">>]
    <3>1. Enter("clear", args)
      BY <1>5, <2>4 DEF DropGuard, Trusted
    <3> HIDE DEF args
    <3>2. QED BY <2>2, <2>4, <3>1, ClearEnter
  <2>5. guard' \in {"none", "held", "dropped", "leaked"} /\ guard' # "none" /\ role' = "client"
    BY <2>1, <2>2
  <2>6. QED BY <2>2, <2>3, <2>4, <2>5 DEF ClearInv
<1>6. CASE LeakGuard
  <2>1. role = "client" /\ guard' = "leaked" /\ UNCHANGED <<role, text, crate>>
    BY <1>6 DEF LeakGuard, written
  <2>2. QED BY <2>1 DEF ClearInv
<1>7. CASE Step
  BY <1>7, ClearStep
<1>8. QED BY <1>1, <1>2, <1>3, <1>4, <1>5, <1>6, <1>7 DEF Next

-----------------------------------------------------------------------------
(* What a verdict that says compatible rests on.                           *)

\* The first position of a sequence there is.
LEMMA FirstIs == ASSUME NEW n \in Nat, NEW S, S \subseteq 1..n, S # {} PROVE Driver!Min(S) \in S
<1>1. S \subseteq Nat
  OBVIOUS
<1>2. PICK x \in S : \A y \in S : ~(<<y, x>> \in OpToRel(<, Nat))
  BY <1>1, NatLessThanWellFounded, WFMin
<1>3. \A y \in S : x <= y
  <2>1. SUFFICES ASSUME NEW y \in S PROVE x <= y
    OBVIOUS
  <2>2. x \in Nat /\ y \in Nat
    BY <1>1
  <2>3. ~(<<y, x>> \in OpToRel(<, Nat))
    BY <1>2
  <2>4. ~(y < x)
    BY <2>2, <2>3 DEF OpToRel
  <2>5. QED BY <2>2, <2>4
<1>4. \E z \in S : \A y \in S : z <= y
  BY <1>3
<1>5. QED BY <1>4 DEF Driver!Min

\* A callback that is said to be bound by 'static borrows nothing that ends
\* (callback_lifetime_bounds).
LEMMA StaticSays ==
    ASSUME NEW f, NEW p, IsFunction(f, DOMAIN crate.fns), f = HandOffFn(crate), p = crate.callback,
           p \in DOMAIN f.generics, Driver!CallbackBound(f, p) = "static"
    PROVE  ~MayBorrow(crate)
<1> DEFINE bounds == f.generics[p].bounds
           declared == {k \in DOMAIN bounds : bounds[k] \in f.declared}
<1>1. p \notin DOMAIN f.objects /\ Len(bounds) \in Nat /\ DOMAIN bounds = 1..Len(bounds)
  BY DEF IsFunction
<1>2. Driver!BoundScope(f, bounds) = "static"
  BY <1>1 DEF Driver!CallbackBound
<1>3. "static" \in ToSet(bounds)
  <2>0. Driver!BoundScope(f, bounds) =
            CASE declared # {} -> Driver!LifetimeScope(f, bounds[Driver!Min(declared)])
              [] declared = {} /\ "static" \in ToSet(bounds) -> "static"
              [] OTHER -> "no_bound"
    BY DEF Driver!BoundScope, Driver!ToSet, ToSet
  <2> HIDE DEF declared, bounds
  <2>1. CASE declared = {}
    BY <1>2, <2>0, <2>1
  <2>2. CASE declared # {}
    <3>1. Driver!Min(declared) \in declared
      <4>1. declared \subseteq 1..Len(bounds)
        BY <1>1 DEF declared
      <4>2. QED BY <1>1, <2>2, <4>1, FirstIs
    <3>2. Driver!LifetimeScope(f, bounds[Driver!Min(declared)]) = "static"
      BY <1>2, <2>0, <2>2
    <3>3. bounds[Driver!Min(declared)] = "static"
      BY <3>2 DEF Driver!LifetimeScope
    <3>4. Driver!Min(declared) \in DOMAIN bounds
      BY <3>1 DEF declared
    <3>5. QED BY <3>3, <3>4 DEF ToSet
  <2>3. QED BY <2>1, <2>2
<1>4. QED BY <1>3 DEF MayBorrow, IsGeneric

\* An allocation that is said to be foreign is not taken back by the hand-off
\* (allocation_ownerships).
LEMMA ForeignSays ==
    ASSUME NEW f, NEW p, NEW callees, IsFunction(f, callees), p \in Driver!GenericCallbacks(f),
           Driver!AllocationOwnership(f, p) = "foreign_owned"
    PROVE  ~Reclaims(f)
<1> DEFINE taken == Driver!Transferred(f, {"from_raw", "from_raw_parts"})
<1>1. taken = {}
  BY DEF Driver!AllocationOwnership
<1>2. SUFFICES ASSUME NEW t \in f.transfers, t.kind # "into_raw" PROVE FALSE
  BY DEF Reclaims
<1>3. t.kind \in {"from_raw", "from_raw_parts"}
  BY <1>2 DEF IsFunction
<1>4. t.of \in taken
  BY <1>3 DEF Driver!Transferred
<1>5. QED BY <1>1, <1>4

\* A guard that is said to tie the slot to the subject protects what is captured
\* (registration_guards).
LEMMA GuardSays ==
    ASSUME NEW f, f = HandOffFn(crate), NEW p, p = crate.callback, NEW says, says = Driver!RegistrationGuard(f, p),
           says \in {"ties_slot_to_subject", "owner_drop_unregisters"}
    PROVE  says = "ties_slot_to_subject" /\ Protects(crate)
<1>1. Driver!GuardOfDrop(f.guard) \in {"unresolved", "none", "ties_slot_to_subject"}
  BY DEF Driver!GuardOfDrop
<1>2. /\ p \in Driver!GenericCallbacks(f) /\ (f.returned \cap f.declared) \cap Driver!BoundLifetimes(f, p) # {}
      /\ says = Driver!GuardOfDrop(f.guard)
  BY <1>1 DEF Driver!RegistrationGuard
<1>3. says = "ties_slot_to_subject" /\ f.guard.drop
  BY <1>1, <1>2 DEF Driver!GuardOfDrop
<1>4. IsGeneric(crate)
  BY <1>2 DEF Driver!GenericCallbacks, IsGeneric
<1>5. Driver!BoundLifetimes(f, p) \cap f.returned # {}
  BY <1>2
<1>6. QED BY <1>3, <1>4, <1>5 DEF Protects

\* Calls that are all made before the registration returns leave nothing behind (analyze).
LEMMA SynchronousSays ==
    ASSUME NEW fns, "register" \in DOMAIN fns, NEW flow, NEW roles, roles.register = "register",
           NEW a, a = Analyze(Globals, fns, flow, roles), a.invocation = "synchronous_only"
    PROVE  a.retention = "no_retain"
<1> DEFINE f == fns["register"]
           q1 == TraceParams(Globals, f, flow["register"], roles)
           slots == {s.slot : s \in q1.sites}
           after == SameSlotInvoke(fns, flow, slots)
           synchronous == CallsThrough(f, flow["register"], {Param(roles.callback)})
<1>1. /\ a.invocation = CASE after -> "may_invoke_after_return"
                           [] ~after /\ synchronous /\ slots = {} /\ ~q1.escaped -> "synchronous_only"
                           [] OTHER -> "unresolved"
      /\ a.retention = CASE q1.sites # {} -> "may_retain"
                         [] q1.sites = {} /\ q1.escaped -> "unresolved"
                         [] OTHER -> "no_retain"
  BY DEF Analyze
<1> HIDE DEF q1, after, synchronous
<1>2. \A s \in q1.sites : s.slot \in slots
  OBVIOUS
<1> HIDE DEF slots
<1>3. slots = {} /\ ~q1.escaped
  BY <1>1
<1>4. q1.sites = {}
  BY <1>2, <1>3
<1>5. QED BY <1>1, <1>3, <1>4

\* What is judged to be compatible is so for one of these reasons (judge): nothing is
\* used after the registration has returned, the types deny it, or the guard does and
\* is as good as the foreign function it calls.
LEMMA JudgeSays ==
    ASSUME NEW rust, NEW facts, Len(facts) = 1, NEW x, Rust!Judge(rust, facts, x).verdict = "compatible"
    PROVE  \/ facts[1].retention = "no_retain" \/ facts[1].invocation = "synchronous_only"
           \/ x = "referent" /\ rust.admission = "requires_static"
           \/ x = "allocation" /\ rust.allocation = "foreign_owned"
           \/ rust.guard \in {"ties_slot_to_subject", "owner_drop_unregisters"}
              /\ facts[1].clear = "clears_on_all_paths"
<1> DEFINE foreign == IF facts # <<>> /\ ~Rust!JoinsWith(rust.key, facts[1].key) THEN <<>> ELSE facts
           separation == Rust!Separation(rust, foreign, x)
           use == Rust!LateUse(foreign)
<1>1. "denied" \in {separation, use}
  <2>1. \E both, candidate, every : Rust!Judge(rust, facts, x).verdict =
            CASE "denied" \in {separation, use} -> "compatible"
              [] both /\ ~candidate /\ every -> "incompatible"
              [] OTHER -> "insufficient"
    BY DEF Rust!Judge
  <2> HIDE DEF separation, use
  <2>2. QED BY <2>1
<1>2. foreign # <<>> => foreign[1] = facts[1]
  OBVIOUS
<1> HIDE DEF foreign
<1>3. CASE use = "denied"
  <2>1. Rust!Says(foreign, "retention", "no_retain") \/ Rust!Says(foreign, "invocation", "synchronous_only")
    BY <1>3 DEF Rust!LateUse
  <2>2. QED BY <1>2, <2>1 DEF Rust!Says
<1>4. CASE separation = "denied"
  <2>1. CASE Rust!ByShape(rust, x) = "denied"
    BY <2>1 DEF Rust!ByShape
  <2>2. CASE Rust!ByShape(rust, x) # "denied"
    <3>1. Rust!IsGuard(rust.guard) /\ Rust!Says(foreign, "clear", "clears_on_all_paths")
      BY <1>4, <2>2 DEF Rust!Separation
    <3>2. QED BY <1>2, <3>1 DEF Rust!Says, Rust!IsGuard
  <2>3. QED BY <2>1, <2>2
<1>5. QED BY <1>1, <1>3, <1>4

-----------------------------------------------------------------------------
(* What a verdict that says compatible rests on, of the component itself.  *)

PromiseMade == Driver!Promise(crate.fns, 1, crate.callback)
Grounds(x) ==
    \/ analysis.retention = "no_retain"
    \/ x = "referent" /\ ~MayBorrow(crate)
    \/ x = "allocation" /\ PromiseMade.allocation = "foreign_owned" /\ ~Reclaims(HandOffFn(crate))
    \/ /\ analysis.clear = "clears_on_all_paths" /\ PromiseMade.guard = "ties_slot_to_subject"
       /\ Protects(crate)
VerdictInv == role = "client" => \A x \in Rust!Subjects : verdict[x] = "compatible" => Grounds(x)

LEMMA Assessed == ASSUME HandOffInv, KeepInv', TextInv, Analysed PROVE VerdictInv'
<1> SUFFICES ASSUME NEW x \in Rust!Subjects, verdict'[x] = "compatible" PROVE Grounds(x)'
  BY DEF VerdictInv
<1> DEFINE promise == PromiseMade
           fact == FactOf(analysis')
           facts == <<fact>>
           f == HandOffFn(crate)
           p == crate.callback
<1>1. crate' = crate /\ text' = text /\ scenario' = scenario /\ role' = "client"
  BY DEF Analysed
<1>2. ContractOf(crate) # <<>> /\ Rust!JudgeHandOff(ContractOf(crate)[1], facts)[x].verdict = "compatible"
  <2>1. \E joined \in BOOLEAN :
          /\ joined => ContractOf(crate) # <<>>
          /\ verdict' = IF joined
                        THEN [y \in Rust!Subjects |-> Rust!JudgeHandOff(ContractOf(crate)[1], facts)[y].verdict]
                        ELSE NoVerdict
    BY DEF Analysed
  <2> HIDE DEF facts
  <2>2. QED BY <2>1 DEF NoVerdict
<1>3. PICK key, sites : ContractOf(crate)[1] = Rust!Contract(promise, key, sites)
  BY <1>2 DEF ContractOf, PromiseMade
<1>4. Rust!Gaps(promise) = {}
  BY <1>2 DEF ContractOf, PromiseMade
<1> DEFINE rust == ContractOf(crate)[1]
<1>5. Rust!Judge(rust, facts, x).verdict = "compatible"
  BY <1>2 DEF Rust!JudgeHandOff
<1>6. Len(facts) = 1 /\ facts[1] = fact
  OBVIOUS
<1>7. /\ fact.retention = analysis'.retention /\ fact.invocation = analysis'.invocation
      /\ fact.clear = analysis'.clear
  BY DEF FactOf
<1> HIDE DEF facts, fact
<1>8. /\ rust.admission = Rust!EffectiveCaptureAdmission(promise.bound)
      /\ rust.guard = promise.guard /\ rust.allocation = promise.allocation
  BY <1>3 DEF Rust!Contract
<1>9. /\ promise.bound = Driver!CallbackBound(f, p) /\ promise.guard = Driver!RegistrationGuard(f, p)
      /\ promise.allocation = Driver!AllocationOwnership(f, p)
  BY DEF PromiseMade, Driver!Promise, HandOffFn
<1>10. promise' = promise /\ f' = f
  BY <1>1 DEF PromiseMade, HandOffFn
<1> HIDE DEF rust, promise
<1>11. promise.guard # "absent"
  BY <1>4 DEF Rust!Gaps
<1>12. p \in Driver!GenericCallbacks(f)
  BY <1>9, <1>11 DEF Driver!RegistrationGuard
<1>13. p \in DOMAIN f.generics
  BY <1>12 DEF Driver!GenericCallbacks
<1>14. IsFunction(f, DOMAIN crate.fns)
  BY HandOffAssumption DEF HandOffInv, HandOffFn
<1>15. \/ analysis'.retention = "no_retain" \/ analysis'.invocation = "synchronous_only"
       \/ x = "referent" /\ rust.admission = "requires_static"
       \/ x = "allocation" /\ rust.allocation = "foreign_owned"
       \/ rust.guard \in {"ties_slot_to_subject", "owner_drop_unregisters"} /\ analysis'.clear = "clears_on_all_paths"
  BY <1>5, <1>6, <1>7, JudgeSays
<1>16. CASE analysis'.retention = "no_retain"
  BY <1>16 DEF Grounds
<1>17. CASE analysis'.invocation = "synchronous_only"
  <2>1. analysis' = Analyze(Globals, text', flows', Roles') /\ "register" \in DOMAIN text'
    BY <1>1 DEF KeepInv, TextInv
  <2>2. Roles'.register = "register"
    BY DEF Roles
  <2>3. analysis'.retention = "no_retain"
    BY <1>17, <2>1, <2>2, SynchronousSays
  <2>4. QED BY <2>3 DEF Grounds
<1>18. CASE x = "referent" /\ rust.admission = "requires_static"
  <2>1. Driver!CallbackBound(f, p) = "static"
    BY <1>8, <1>9, <1>18 DEF Rust!EffectiveCaptureAdmission
  <2>2. ~MayBorrow(crate)
    BY <1>13, <1>14, <2>1, StaticSays
  <2>3. ~MayBorrow(crate')
    BY <1>1, <2>2
  <2>4. QED BY <1>18, <2>3 DEF Grounds
<1>19. CASE x = "allocation" /\ rust.allocation = "foreign_owned"
  <2>1. ~Reclaims(f) /\ promise.allocation = "foreign_owned"
    BY <1>8, <1>9, <1>12, <1>14, <1>19, ForeignSays
  <2>2. QED BY <1>10, <1>19, <2>1 DEF Grounds, promise
<1>20. CASE /\ rust.guard \in {"ties_slot_to_subject", "owner_drop_unregisters"}
            /\ analysis'.clear = "clears_on_all_paths"
  <2>1. promise.guard = "ties_slot_to_subject" /\ Protects(crate)
    BY <1>8, <1>9, <1>20, GuardSays
  <2>2. Protects(crate')
    BY <1>1, <2>1
  <2>3. QED BY <1>10, <1>20, <2>1, <2>2 DEF Grounds, promise
<1>21. QED BY <1>15, <1>16, <1>17, <1>18, <1>19, <1>20

LEMMA VerdictInit == ASSUME Init PROVE VerdictInv
BY DEF Init, VerdictInv

LEMMA VerdictNext == ASSUME HandOffInv, TextInv, KeepInv', VerdictInv, [Next]_vars PROVE VerdictInv'
<1>1. ASSUME UNCHANGED <<crate, role, analysis, verdict>> PROVE VerdictInv'
  BY <1>1 DEF VerdictInv, Grounds, PromiseMade
<1>2. CASE UNCHANGED vars
  BY <1>1, <1>2 DEF vars
<1>3. CASE Write \/ NextBlock \/ NextFunction
  BY <1>3 DEF Write, NextBlock, NextFunction, VerdictInv
<1>4. CASE Analysed
  BY <1>4, Assessed
<1>5. CASE Register \/ DropGuard \/ LeakGuard \/ Fire \/ Step \/ \E x \in Rust!Subjects : End(x)
  <2>1. UNCHANGED written
    BY <1>5 DEF Register, DropGuard, LeakGuard, Fire, Step, End
  <2>2. QED BY <1>1, <2>1 DEF written
<1>6. QED BY <1>2, <1>3, <1>4, <1>5 DEF Next

-----------------------------------------------------------------------------
(* Nothing ends while the foreign side keeps it, but for what is unseen.   *)

Excused(end) ==
    verdict[end.subject] = "compatible" =>
        (analysis.clear = "clears_on_all_paths" /\ Unseen) \/ UnseenInCrate(end)
SafeInv ==
    /\ role # "client" => ended = {} /\ late = {}
    /\ \A end \in ended \cup late : Excused(end)

LEMMA ExcusedStays == ASSUME UNCHANGED written, NEW x PROVE Excused(x)' <=> Excused(x)
BY DEF Excused, Unseen, UnseenInCrate, ClearsAnother, LosesSight, Roles, written

\* Only a subject that the analyses do not see enough of can end while it is kept.
LEMMA EndExcused ==
    ASSUME HandOffInv, TextInv, KeepInv, ClearInv, VerdictInv, NEW x \in Rust!Subjects, End(x),
           NEW end, end = [subject |-> x, guard |-> guard]
    PROVE  Excused(end)
<1>1. /\ role = "client" /\ frame = <<>> /\ Kept # {} /\ verdict[x] = "compatible"
      /\ x = "referent" => MayBorrow(crate)
      /\ x = "allocation" => MayReclaim(crate)
  BY DEF End
<1>e. end.subject = x /\ end.guard = guard
  OBVIOUS
<1>2. Grounds(x)
  BY <1>1 DEF VerdictInv
<1>3. CASE analysis.retention = "no_retain"
  <2>1. Idle({}, memory, given)
    BY <1>1, <1>3, NothingToWatch DEF KeepInv
  <2>2. QED BY <1>1, <2>1, KeptIsNothing DEF Idle, InSlot, Apart
<1>4. CASE x = "referent" /\ ~MayBorrow(crate)
  BY <1>1, <1>4
<1>5. CASE x = "allocation" /\ PromiseMade.allocation = "foreign_owned" /\ ~Reclaims(HandOffFn(crate))
  <2>1. PICK n \in DOMAIN crate.fns : Reclaims(crate.fns[n])
    BY <1>1, <1>5 DEF MayReclaim
  <2>2. n # 1
    BY <1>5, <2>1 DEF HandOffFn
  <2>3. UnseenInCrate(end)
    BY <1>e, <1>5, <2>1, <2>2 DEF UnseenInCrate, PromiseMade
  <2>4. QED BY <2>3 DEF Excused
<1>6. CASE /\ analysis.clear = "clears_on_all_paths" /\ PromiseMade.guard = "ties_slot_to_subject"
           /\ Protects(crate)
  <2>1. CASE "clear" \notin HandOffFn(crate).guard.calls \/ guard \in {"held", "leaked"}
    <3>1. UnseenInCrate(end)
      BY <1>e, <1>6, <2>1 DEF UnseenInCrate, PromiseMade
    <3>2. QED BY <3>1 DEF Excused
  <2>2. CASE Unseen
    BY <1>6, <2>2 DEF Excused
  <2>3. CASE "clear" \in HandOffFn(crate).guard.calls /\ guard \notin {"held", "leaked"} /\ ~Unseen
    <3>1. Trusted
      BY <1>1, <1>6, <2>3 DEF Trusted, Watchful, Unseen, Escaped
    <3>2. guard = "dropped"
      BY <1>6, <2>3 DEF ClearInv
    <3>3. QED BY <1>1, <3>1, <3>2 DEF ClearInv
  <2>4. QED BY <2>1, <2>2, <2>3
<1>7. QED BY <1>2, <1>3, <1>4, <1>5, <1>6 DEF Grounds

LEMMA SafeInit == ASSUME Init PROVE SafeInv
BY DEF Init, SafeInv

LEMMA SafeNext ==
    ASSUME HandOffInv, TextInv, KeepInv, ClearInv, VerdictInv, SafeInv, [Next]_vars
    PROVE  SafeInv'
<1>1. CASE UNCHANGED vars
  <2>1. UNCHANGED written /\ ended' = ended /\ late' = late /\ role' = role
    BY <1>1 DEF vars, written
  <2>2. QED BY <2>1, ExcusedStays DEF SafeInv
<1>2. CASE Write \/ NextBlock \/ NextFunction \/ Analysed
  <2>1. role # "client"
    BY <1>2, HandOffAssumption DEF Write, NextBlock, NextFunction, Analysed
  <2>2. ended' = ended /\ late' = late
    BY <1>2 DEF Write, NextBlock, NextFunction, Analysed, client
  <2>3. QED BY <2>1, <2>2 DEF SafeInv
<1>3. CASE Register \/ DropGuard \/ LeakGuard \/ Step
  <2>1. UNCHANGED written /\ ended' = ended /\ late' = late /\ role' = role
    BY <1>3 DEF Register, DropGuard, LeakGuard, Step, written
  <2>2. QED BY <2>1, ExcusedStays DEF SafeInv
<1>4. CASE Fire
  <2>1. UNCHANGED written /\ ended' = ended /\ late' = late \cup ended /\ role' = "client"
    BY <1>4 DEF Fire, written
  <2>2. QED BY <2>1, ExcusedStays DEF SafeInv
<1>5. ASSUME NEW x \in Rust!Subjects, End(x) PROVE SafeInv'
  <2> DEFINE end == [subject |-> x, guard |-> guard]
  <2>1. UNCHANGED written /\ ended' = ended \cup {end} /\ late' = late /\ role' = "client"
    BY <1>5 DEF End, written
  <2>2. Excused(end)
    BY <1>5, EndExcused
  <2> HIDE DEF end
  <2>3. \A e \in ended' \cup late' : Excused(e)
    BY <2>1, <2>2 DEF SafeInv
  <2>4. \A e \in ended' \cup late' : Excused(e)'
    BY <2>1, <2>3, ExcusedStays
  <2>5. QED BY <2>1, <2>4 DEF SafeInv
<1>6. QED BY <1>1, <1>2, <1>3, <1>4, <1>5 DEF Next

\* A subject whose verdict is compatible is not used by the foreign module after its
\* end, under any client the crate allows, whatever the module does and for every
\* module and crate that may be written, unless the verdict rests on what the analyses
\* do not look at (judge, analyze, analyze_clear, allocation_ownerships,
\* registration_guards).
THEOREM CompatibleMeansSafe == Spec => []CompatibleIsSafe
<1>1. SafeInv => CompatibleIsSafe
  BY DEF SafeInv, Excused, CompatibleIsSafe
<1>2. QED BY <1>1, HandOffInit, HandOffNext, TextInit, TextNext, RunInit, RunNext, KeepInit, KeepNext,
             ClearInit, ClearNext, VerdictInit, VerdictNext, SafeInit, SafeNext, PTL DEF Spec

=============================================================================
