-------------------------- MODULE CfsHierarchyProofs --------------------------
(***************************************************************************)
(* Group scheduling for any finite tree of groups, any tasks and any       *)
(* limits: the throttle counts and the queued group entities are right.    *)
(***************************************************************************)
EXTENDS CfsHierarchy, SumProofs, FiniteSetTheorems, TLAPS

-----------------------------------------------------------------------------
(* Walks *)

\* The step of each of the walks, and what it takes besides where it has got to
StepOf(c, w, l) ==
  CASE c.kind = "down"      -> ThrottleDown(w, l)
    [] c.kind = "up"        -> UnthrottleUp(w, l)
    [] c.kind = "leave"     -> ThrottleLevel(c.n, w, l)
    [] c.kind = "enqueue"   -> EnqueueLevel(c.n, c.poor, w, l)
    [] c.kind = "branch"    -> BranchLevel(w, l)
    [] c.kind = "dequeue"   -> DequeueLevel(w, l)
    [] c.kind = "put"       -> PutLevel(c.poor, w, l)
    [] c.kind = "next"      -> NextLevel(w, l)
    [] c.kind = "propagate" -> PropagateLevel(w, l)
    [] c.kind = "visit"     -> Visit(c.gone, w, l)
    [] c.kind = "idle"      -> SetIdleLevel(w, l)

\* A walk along the sequence q from e, as the function that FoldLeft takes.
FoldBody(c, q, e, g, s) ==
  IF s = {} THEN e ELSE StepOf(c, g[s \ {Max(s)}], q[Max(s)])

IsFold(c, q, e, g) == g = [s \in SUBSET DOMAIN q |-> FoldBody(c, q, e, g, s)]

LEMMA FoldExists ==
  ASSUME NEW c, NEW q, NEW n \in Nat, DOMAIN q = 1 .. n, NEW e
  PROVE  \E g : IsFold(c, q, e, g)
<1> DEFINE S == DOMAIN q
           body(g, s) == FoldBody(c, q, e, g, s)
           UpTo(g, k) == /\ g = [s \in SUBSET S |-> g[s]]
                         /\ \A s \in SUBSET S : Cardinality(s) <= k => g[s] = body(g, s)
           Q == {k \in Nat : \E g : UpTo(g, k)}
<1>1. IsFiniteSet(S)
  <2>1. IsFiniteSet(1 .. n)
    BY FS_Interval
  <2>. QED
    BY <2>1
<1>2. \A s \in SUBSET S : IsFiniteSet(s) /\ Cardinality(s) \in Nat
  BY <1>1, FS_Subset, FS_CardinalityType
<1>3. \A s \in SUBSET S : s # {} => Max(s) \in s
  <2>1. \A s \in SUBSET S : s \subseteq 0 .. n
    OBVIOUS
  <2>. QED
    BY <2>1, MaxIn
<1> HIDE DEF S
<1>4. \A s \in SUBSET S : s # {} => /\ s \ {Max(s)} \in SUBSET S
                                    /\ Cardinality(s \ {Max(s)}) = Cardinality(s) - 1
  BY <1>2, <1>3, FS_RemoveElement
<1>5. ASSUME NEW g, NEW h, NEW s \in SUBSET S, s # {} => g[s \ {Max(s)}] = h[s \ {Max(s)}]
      PROVE  body(g, s) = body(h, s)
  <2>1. CASE s = {}
    BY <2>1, Zenon DEF FoldBody
  <2>2. CASE s # {}
    <3> DEFINE r == s \ {Max(s)}
               step(x) == StepOf(c, x, q[Max(s)])
    <3>1. body(g, s) = step(g[r]) /\ body(h, s) = step(h[r])
      BY <2>2, Zenon DEF FoldBody
    <3>2. g[r] = h[r]
      BY <1>5, <2>2
    <3> HIDE DEF r, step, body
    <3>. QED
      BY <3>1, <3>2, Zenon
  <2>. QED
    BY <2>1, <2>2
<1>6. \A s \in SUBSET S : s = {} => \A g, h : body(g, s) = body(h, s)
  BY <1>5
<1> HIDE DEF body
<1>7. 0 \in Q
  <2> DEFINE o == [s \in SUBSET S |-> e]
             g == [s \in SUBSET S |-> body(o, s)]
  <2>1. \A s \in SUBSET S : Cardinality(s) <= 0 => s = {}
    BY <1>2, FS_EmptySet
  <2>2. \A s \in SUBSET S : Cardinality(s) <= 0 => g[s] = body(g, s)
    <3> SUFFICES ASSUME NEW s \in SUBSET S, Cardinality(s) <= 0
                 PROVE  g[s] = body(g, s)
      OBVIOUS
    <3>1. g[s] = body(o, s)
      OBVIOUS
    <3> HIDE DEF g, o
    <3>2. body(o, s) = body(g, s)
      BY <1>5, <2>1
    <3>. QED
      BY <3>1, <3>2
  <2>3. g = [s \in SUBSET S |-> g[s]]
    OBVIOUS
  <2> HIDE DEF g
  <2>. QED
    BY <2>2, <2>3
<1>8. ASSUME NEW k \in Nat, k \in Q
      PROVE  k + 1 \in Q
  <2>1. PICK g : UpTo(g, k)
    BY <1>8
  <2> DEFINE h == [s \in SUBSET S |-> body(g, s)]
  <2>2. ASSUME NEW s \in SUBSET S, Cardinality(s) <= k + 1
        PROVE  h[s] = body(h, s)
    <3>1. h[s] = body(g, s)
      OBVIOUS
    <3>2. ASSUME s # {}
          PROVE  h[s \ {Max(s)}] = g[s \ {Max(s)}]
      <4> DEFINE r == s \ {Max(s)}
      <4>1. r \in SUBSET S /\ Cardinality(r) <= k
        BY <1>2, <1>4, <2>2, <3>2
      <4> HIDE DEF r
      <4>2. h[r] = body(g, r)
        BY <4>1
      <4>3. g[r] = body(g, r)
        BY <2>1, <4>1
      <4>. QED
        BY <4>2, <4>3 DEF r
    <3> HIDE DEF h
    <3>. QED
      BY <1>5, <3>1, <3>2
  <2>3. h = [s \in SUBSET S |-> h[s]]
    OBVIOUS
  <2> HIDE DEF h
  <2>4. UpTo(h, k + 1)
    BY <2>2, <2>3
  <2> HIDE DEF UpTo
  <2>. QED
    BY <2>4
<1> HIDE DEF Q
<1>9. Nat \subseteq Q
  BY <1>7, <1>8, NatSetInduction
<1>10. Cardinality(S) \in Q
  BY <1>1, <1>9, FS_CardinalityType
<1>11. PICK g : UpTo(g, Cardinality(S))
  BY <1>10 DEF Q
<1>12. \A s \in SUBSET S : Cardinality(s) <= Cardinality(S)
  BY <1>1, FS_Subset
<1>13. \A s \in SUBSET S : g[s] = body(g, s)
  BY <1>11, <1>12
<1>14. g = [s \in SUBSET S |-> body(g, s)]
  BY <1>11, <1>13
<1>15. IsFold(c, q, e, g)
  BY <1>14, Zenon DEF IsFold, S, body
<1>. QED
  BY <1>15

\* The first k steps of a walk
LEMMA Prefix ==
  ASSUME NEW n \in Nat, NEW k \in 1 .. n
  PROVE  /\ 1 .. k \in SUBSET (1 .. n) /\ 1 .. k # {}
         /\ Max(1 .. k) = k /\ 1 .. k \ {Max(1 .. k)} = 1 .. k - 1
<1> DEFINE S == 1 .. k
<1>1. k \in S /\ \A y \in S : k >= y
  OBVIOUS
<1>2. \A x \in S : (\A y \in S : x >= y) => x = k
  OBVIOUS
<1>3. S \ {k} = 1 .. k - 1
  OBVIOUS
<1>4. \A x \in S : x \in 1 .. n
  OBVIOUS
<1> HIDE DEF S
<1>5. Max(S) = k
  BY <1>1, <1>2 DEF Max
<1>6. S \in SUBSET (1 .. n)
  BY <1>4
<1>7. S # {} /\ Max(S) = k /\ S \ {Max(S)} = 1 .. k - 1
  BY <1>1, <1>3, <1>5
<1>. QED
  BY <1>6, <1>7 DEF S

\* What the start of a walk has, each step keeps, so that its end has it.
LEMMA WalkInduction ==
  ASSUME NEW n \in Nat, NEW g, NEW P, << 0, g[{}] >> \in P,
         \A k \in 1 .. n : << k - 1, g[1 .. k - 1] >> \in P => << k, g[1 .. k] >> \in P
  PROVE  << n, g[1 .. n] >> \in P
<1> DEFINE Q == {k \in Nat : k <= n => << k, g[1 .. k] >> \in P}
<1>1. 0 \in Q
  <2>1. 1 .. 0 = {}
    OBVIOUS
  <2>. QED
    BY <2>1
<1>2. ASSUME NEW k \in Nat, k \in Q
      PROVE  k + 1 \in Q
  <2>. SUFFICES ASSUME k + 1 <= n
                PROVE  << k + 1, g[1 .. k + 1] >> \in P
    OBVIOUS
  <2>1. << k, g[1 .. k] >> \in P
    BY <1>2
  <2>2. k + 1 \in 1 .. n /\ (k + 1) - 1 = k
    OBVIOUS
  <2>. QED
    BY <2>1, <2>2
<1> HIDE DEF Q
<1>3. Nat \subseteq Q
  BY <1>1, <1>2, NatSetInduction
<1>. QED
  BY <1>3 DEF Q

LEMMA DownWalk ==
  ASSUME NEW e, NEW q, NEW n \in Nat, DOMAIN q = 1 .. n, NEW P, << 0, e >> \in P,
         \A k \in 1 .. n : \A x : << k - 1, x >> \in P => << k, ThrottleDown(x, q[k]) >> \in P
  PROVE  << n, FoldLeft(ThrottleDown, e, q) >> \in P
<1> DEFINE c == [kind |-> "down"]
           step(w, l) == ThrottleDown(w, l)
           body(g, s) == IF s = {} THEN e ELSE step(g[s \ {Max(s)}], q[Max(s)])
           g == CHOOSE g : g = [s \in SUBSET DOMAIN q |-> body(g, s)]
<1>1. \A w, l : StepOf(c, w, l) = step(w, l)
  BY DEF StepOf
<1>2. PICK h : IsFold(c, q, e, h)
  BY FoldExists
<1>3. FoldLeft(ThrottleDown, e, q) = g[DOMAIN q]
  BY DEF FoldLeft, MapThenFoldSet
<1>4. \A k \in 1 .. n : \A x : << k - 1, x >> \in P => << k, step(x, q[k]) >> \in P
  OBVIOUS
<1> HIDE DEF c, step
<1>5. h = [s \in SUBSET DOMAIN q |-> body(h, s)]
  BY <1>1, <1>2 DEF IsFold, FoldBody
<1>6. g = [s \in SUBSET DOMAIN q |-> body(g, s)]
  <2> HIDE DEF body
  <2>. QED
    BY <1>5, Zenon
<1> HIDE DEF g
<1>7. \A s \in SUBSET (1 .. n) : g[s] = body(g, s)
  BY <1>6
<1>8. g[{}] = e
  BY <1>7
<1>9. ASSUME NEW k \in 1 .. n
      PROVE  g[1 .. k] = step(g[1 .. k - 1], q[k])
  BY <1>7, Prefix
<1> HIDE DEF body
<1>10. << 0, g[{}] >> \in P
  BY <1>8
<1>11. \A k \in 1 .. n : << k - 1, g[1 .. k - 1] >> \in P => << k, g[1 .. k] >> \in P
  BY <1>4, <1>9
<1>12. << n, g[1 .. n] >> \in P
  BY <1>10, <1>11, WalkInduction
<1>. QED
  BY <1>3, <1>12

LEMMA UpWalk ==
  ASSUME NEW e, NEW q, NEW n \in Nat, DOMAIN q = 1 .. n, NEW P, << 0, e >> \in P,
         \A k \in 1 .. n : \A x : << k - 1, x >> \in P => << k, UnthrottleUp(x, q[k]) >> \in P
  PROVE  << n, FoldLeft(UnthrottleUp, e, q) >> \in P
<1> DEFINE c == [kind |-> "up"]
           step(w, l) == UnthrottleUp(w, l)
           body(g, s) == IF s = {} THEN e ELSE step(g[s \ {Max(s)}], q[Max(s)])
           g == CHOOSE g : g = [s \in SUBSET DOMAIN q |-> body(g, s)]
<1>1. \A w, l : StepOf(c, w, l) = step(w, l)
  BY DEF StepOf
<1>2. PICK h : IsFold(c, q, e, h)
  BY FoldExists
<1>3. FoldLeft(UnthrottleUp, e, q) = g[DOMAIN q]
  BY DEF FoldLeft, MapThenFoldSet
<1>4. \A k \in 1 .. n : \A x : << k - 1, x >> \in P => << k, step(x, q[k]) >> \in P
  OBVIOUS
<1> HIDE DEF c, step
<1>5. h = [s \in SUBSET DOMAIN q |-> body(h, s)]
  BY <1>1, <1>2 DEF IsFold, FoldBody
<1>6. g = [s \in SUBSET DOMAIN q |-> body(g, s)]
  <2> HIDE DEF body
  <2>. QED
    BY <1>5, Zenon
<1> HIDE DEF g
<1>7. \A s \in SUBSET (1 .. n) : g[s] = body(g, s)
  BY <1>6
<1>8. g[{}] = e
  BY <1>7
<1>9. ASSUME NEW k \in 1 .. n
      PROVE  g[1 .. k] = step(g[1 .. k - 1], q[k])
  BY <1>7, Prefix
<1> HIDE DEF body
<1>10. << 0, g[{}] >> \in P
  BY <1>8
<1>11. \A k \in 1 .. n : << k - 1, g[1 .. k - 1] >> \in P => << k, g[1 .. k] >> \in P
  BY <1>4, <1>9
<1>12. << n, g[1 .. n] >> \in P
  BY <1>10, <1>11, WalkInduction
<1>. QED
  BY <1>3, <1>12

LeaveFold(m, e, q) == FoldLeft(LAMBDA w, l : ThrottleLevel(m, w, l), e, q)

LEMMA LeaveWalk ==
  ASSUME NEW e, NEW q, NEW n \in Nat, DOMAIN q = 1 .. n, NEW m, NEW P, << 0, e >> \in P,
         \A k \in 1 .. n : \A x : << k - 1, x >> \in P => << k, ThrottleLevel(m, x, q[k]) >> \in P
  PROVE  << n, LeaveFold(m, e, q) >> \in P
<1> DEFINE c == [kind |-> "leave", n |-> m]
           step(w, l) == ThrottleLevel(m, w, l)
           body(g, s) == IF s = {} THEN e ELSE step(g[s \ {Max(s)}], q[Max(s)])
           g == CHOOSE g : g = [s \in SUBSET DOMAIN q |-> body(g, s)]
<1>1. \A w, l : StepOf(c, w, l) = step(w, l)
  BY DEF StepOf
<1>2. PICK h : IsFold(c, q, e, h)
  BY FoldExists
<1>3. LeaveFold(m, e, q) = g[DOMAIN q]
  BY DEF LeaveFold, FoldLeft, MapThenFoldSet
<1>4. \A k \in 1 .. n : \A x : << k - 1, x >> \in P => << k, step(x, q[k]) >> \in P
  OBVIOUS
<1> HIDE DEF c, step
<1>5. h = [s \in SUBSET DOMAIN q |-> body(h, s)]
  BY <1>1, <1>2 DEF IsFold, FoldBody
<1>6. g = [s \in SUBSET DOMAIN q |-> body(g, s)]
  <2> HIDE DEF body
  <2>. QED
    BY <1>5, Zenon
<1> HIDE DEF g
<1>7. \A s \in SUBSET (1 .. n) : g[s] = body(g, s)
  BY <1>6
<1>8. g[{}] = e
  BY <1>7
<1>9. ASSUME NEW k \in 1 .. n
      PROVE  g[1 .. k] = step(g[1 .. k - 1], q[k])
  BY <1>7, Prefix
<1> HIDE DEF body
<1>10. << 0, g[{}] >> \in P
  BY <1>8
<1>11. \A k \in 1 .. n : << k - 1, g[1 .. k - 1] >> \in P => << k, g[1 .. k] >> \in P
  BY <1>4, <1>9
<1>12. << n, g[1 .. n] >> \in P
  BY <1>10, <1>11, WalkInduction
<1>. QED
  BY <1>3, <1>12

EnqueueFold(m, poor, e, q) == FoldLeft(LAMBDA w, l : EnqueueLevel(m, poor, w, l), e, q)

LEMMA EnqueueWalk ==
  ASSUME NEW e, NEW q, NEW n \in Nat, DOMAIN q = 1 .. n, NEW m, NEW poor, NEW P, << 0, e >> \in P,
         \A k \in 1 .. n : \A x : << k - 1, x >> \in P => << k, EnqueueLevel(m, poor, x, q[k]) >> \in P
  PROVE  << n, EnqueueFold(m, poor, e, q) >> \in P
<1> DEFINE c == [kind |-> "enqueue", n |-> m, poor |-> poor]
           step(w, l) == EnqueueLevel(m, poor, w, l)
           body(g, s) == IF s = {} THEN e ELSE step(g[s \ {Max(s)}], q[Max(s)])
           g == CHOOSE g : g = [s \in SUBSET DOMAIN q |-> body(g, s)]
<1>1. \A w, l : StepOf(c, w, l) = step(w, l)
  BY DEF StepOf
<1>2. PICK h : IsFold(c, q, e, h)
  BY FoldExists
<1>3. EnqueueFold(m, poor, e, q) = g[DOMAIN q]
  BY DEF EnqueueFold, FoldLeft, MapThenFoldSet
<1>4. \A k \in 1 .. n : \A x : << k - 1, x >> \in P => << k, step(x, q[k]) >> \in P
  OBVIOUS
<1> HIDE DEF c, step
<1>5. h = [s \in SUBSET DOMAIN q |-> body(h, s)]
  BY <1>1, <1>2 DEF IsFold, FoldBody
<1>6. g = [s \in SUBSET DOMAIN q |-> body(g, s)]
  <2> HIDE DEF body
  <2>. QED
    BY <1>5, Zenon
<1> HIDE DEF g
<1>7. \A s \in SUBSET (1 .. n) : g[s] = body(g, s)
  BY <1>6
<1>8. g[{}] = e
  BY <1>7
<1>9. ASSUME NEW k \in 1 .. n
      PROVE  g[1 .. k] = step(g[1 .. k - 1], q[k])
  BY <1>7, Prefix
<1> HIDE DEF body
<1>10. << 0, g[{}] >> \in P
  BY <1>8
<1>11. \A k \in 1 .. n : << k - 1, g[1 .. k - 1] >> \in P => << k, g[1 .. k] >> \in P
  BY <1>4, <1>9
<1>12. << n, g[1 .. n] >> \in P
  BY <1>10, <1>11, WalkInduction
<1>. QED
  BY <1>3, <1>12

LEMMA BranchWalk ==
  ASSUME NEW e, NEW q, NEW n \in Nat, DOMAIN q = 1 .. n, NEW P, << 0, e >> \in P,
         \A k \in 1 .. n : \A x : << k - 1, x >> \in P => << k, BranchLevel(x, q[k]) >> \in P
  PROVE  << n, FoldLeft(BranchLevel, e, q) >> \in P
<1> DEFINE c == [kind |-> "branch"]
           step(w, l) == BranchLevel(w, l)
           body(g, s) == IF s = {} THEN e ELSE step(g[s \ {Max(s)}], q[Max(s)])
           g == CHOOSE g : g = [s \in SUBSET DOMAIN q |-> body(g, s)]
<1>1. \A w, l : StepOf(c, w, l) = step(w, l)
  BY DEF StepOf
<1>2. PICK h : IsFold(c, q, e, h)
  BY FoldExists
<1>3. FoldLeft(BranchLevel, e, q) = g[DOMAIN q]
  BY DEF FoldLeft, MapThenFoldSet
<1>4. \A k \in 1 .. n : \A x : << k - 1, x >> \in P => << k, step(x, q[k]) >> \in P
  OBVIOUS
<1> HIDE DEF c, step
<1>5. h = [s \in SUBSET DOMAIN q |-> body(h, s)]
  BY <1>1, <1>2 DEF IsFold, FoldBody
<1>6. g = [s \in SUBSET DOMAIN q |-> body(g, s)]
  <2> HIDE DEF body
  <2>. QED
    BY <1>5, Zenon
<1> HIDE DEF g
<1>7. \A s \in SUBSET (1 .. n) : g[s] = body(g, s)
  BY <1>6
<1>8. g[{}] = e
  BY <1>7
<1>9. ASSUME NEW k \in 1 .. n
      PROVE  g[1 .. k] = step(g[1 .. k - 1], q[k])
  BY <1>7, Prefix
<1> HIDE DEF body
<1>10. << 0, g[{}] >> \in P
  BY <1>8
<1>11. \A k \in 1 .. n : << k - 1, g[1 .. k - 1] >> \in P => << k, g[1 .. k] >> \in P
  BY <1>4, <1>9
<1>12. << n, g[1 .. n] >> \in P
  BY <1>10, <1>11, WalkInduction
<1>. QED
  BY <1>3, <1>12

LEMMA DequeueWalk ==
  ASSUME NEW e, NEW q, NEW n \in Nat, DOMAIN q = 1 .. n, NEW P, << 0, e >> \in P,
         \A k \in 1 .. n : \A x : << k - 1, x >> \in P => << k, DequeueLevel(x, q[k]) >> \in P
  PROVE  << n, FoldLeft(DequeueLevel, e, q) >> \in P
<1> DEFINE c == [kind |-> "dequeue"]
           step(w, l) == DequeueLevel(w, l)
           body(g, s) == IF s = {} THEN e ELSE step(g[s \ {Max(s)}], q[Max(s)])
           g == CHOOSE g : g = [s \in SUBSET DOMAIN q |-> body(g, s)]
<1>1. \A w, l : StepOf(c, w, l) = step(w, l)
  BY DEF StepOf
<1>2. PICK h : IsFold(c, q, e, h)
  BY FoldExists
<1>3. FoldLeft(DequeueLevel, e, q) = g[DOMAIN q]
  BY DEF FoldLeft, MapThenFoldSet
<1>4. \A k \in 1 .. n : \A x : << k - 1, x >> \in P => << k, step(x, q[k]) >> \in P
  OBVIOUS
<1> HIDE DEF c, step
<1>5. h = [s \in SUBSET DOMAIN q |-> body(h, s)]
  BY <1>1, <1>2 DEF IsFold, FoldBody
<1>6. g = [s \in SUBSET DOMAIN q |-> body(g, s)]
  <2> HIDE DEF body
  <2>. QED
    BY <1>5, Zenon
<1> HIDE DEF g
<1>7. \A s \in SUBSET (1 .. n) : g[s] = body(g, s)
  BY <1>6
<1>8. g[{}] = e
  BY <1>7
<1>9. ASSUME NEW k \in 1 .. n
      PROVE  g[1 .. k] = step(g[1 .. k - 1], q[k])
  BY <1>7, Prefix
<1> HIDE DEF body
<1>10. << 0, g[{}] >> \in P
  BY <1>8
<1>11. \A k \in 1 .. n : << k - 1, g[1 .. k - 1] >> \in P => << k, g[1 .. k] >> \in P
  BY <1>4, <1>9
<1>12. << n, g[1 .. n] >> \in P
  BY <1>10, <1>11, WalkInduction
<1>. QED
  BY <1>3, <1>12

PutFold(poor, e, q) == FoldLeft(LAMBDA w, l : PutLevel(poor, w, l), e, q)

LEMMA PutWalk ==
  ASSUME NEW e, NEW q, NEW n \in Nat, DOMAIN q = 1 .. n, NEW poor, NEW P, << 0, e >> \in P,
         \A k \in 1 .. n : \A x : << k - 1, x >> \in P => << k, PutLevel(poor, x, q[k]) >> \in P
  PROVE  << n, PutFold(poor, e, q) >> \in P
<1> DEFINE c == [kind |-> "put", poor |-> poor]
           step(w, l) == PutLevel(poor, w, l)
           body(g, s) == IF s = {} THEN e ELSE step(g[s \ {Max(s)}], q[Max(s)])
           g == CHOOSE g : g = [s \in SUBSET DOMAIN q |-> body(g, s)]
<1>1. \A w, l : StepOf(c, w, l) = step(w, l)
  BY DEF StepOf
<1>2. PICK h : IsFold(c, q, e, h)
  BY FoldExists
<1>3. PutFold(poor, e, q) = g[DOMAIN q]
  BY DEF PutFold, FoldLeft, MapThenFoldSet
<1>4. \A k \in 1 .. n : \A x : << k - 1, x >> \in P => << k, step(x, q[k]) >> \in P
  OBVIOUS
<1> HIDE DEF c, step
<1>5. h = [s \in SUBSET DOMAIN q |-> body(h, s)]
  BY <1>1, <1>2 DEF IsFold, FoldBody
<1>6. g = [s \in SUBSET DOMAIN q |-> body(g, s)]
  <2> HIDE DEF body
  <2>. QED
    BY <1>5, Zenon
<1> HIDE DEF g
<1>7. \A s \in SUBSET (1 .. n) : g[s] = body(g, s)
  BY <1>6
<1>8. g[{}] = e
  BY <1>7
<1>9. ASSUME NEW k \in 1 .. n
      PROVE  g[1 .. k] = step(g[1 .. k - 1], q[k])
  BY <1>7, Prefix
<1> HIDE DEF body
<1>10. << 0, g[{}] >> \in P
  BY <1>8
<1>11. \A k \in 1 .. n : << k - 1, g[1 .. k - 1] >> \in P => << k, g[1 .. k] >> \in P
  BY <1>4, <1>9
<1>12. << n, g[1 .. n] >> \in P
  BY <1>10, <1>11, WalkInduction
<1>. QED
  BY <1>3, <1>12

LEMMA NextWalk ==
  ASSUME NEW e, NEW q, NEW n \in Nat, DOMAIN q = 1 .. n, NEW P, << 0, e >> \in P,
         \A k \in 1 .. n : \A x : << k - 1, x >> \in P => << k, NextLevel(x, q[k]) >> \in P
  PROVE  << n, FoldLeft(NextLevel, e, q) >> \in P
<1> DEFINE c == [kind |-> "next"]
           step(w, l) == NextLevel(w, l)
           body(g, s) == IF s = {} THEN e ELSE step(g[s \ {Max(s)}], q[Max(s)])
           g == CHOOSE g : g = [s \in SUBSET DOMAIN q |-> body(g, s)]
<1>1. \A w, l : StepOf(c, w, l) = step(w, l)
  BY DEF StepOf
<1>2. PICK h : IsFold(c, q, e, h)
  BY FoldExists
<1>3. FoldLeft(NextLevel, e, q) = g[DOMAIN q]
  BY DEF FoldLeft, MapThenFoldSet
<1>4. \A k \in 1 .. n : \A x : << k - 1, x >> \in P => << k, step(x, q[k]) >> \in P
  OBVIOUS
<1> HIDE DEF c, step
<1>5. h = [s \in SUBSET DOMAIN q |-> body(h, s)]
  BY <1>1, <1>2 DEF IsFold, FoldBody
<1>6. g = [s \in SUBSET DOMAIN q |-> body(g, s)]
  <2> HIDE DEF body
  <2>. QED
    BY <1>5, Zenon
<1> HIDE DEF g
<1>7. \A s \in SUBSET (1 .. n) : g[s] = body(g, s)
  BY <1>6
<1>8. g[{}] = e
  BY <1>7
<1>9. ASSUME NEW k \in 1 .. n
      PROVE  g[1 .. k] = step(g[1 .. k - 1], q[k])
  BY <1>7, Prefix
<1> HIDE DEF body
<1>10. << 0, g[{}] >> \in P
  BY <1>8
<1>11. \A k \in 1 .. n : << k - 1, g[1 .. k - 1] >> \in P => << k, g[1 .. k] >> \in P
  BY <1>4, <1>9
<1>12. << n, g[1 .. n] >> \in P
  BY <1>10, <1>11, WalkInduction
<1>. QED
  BY <1>3, <1>12

LEMMA PropagateWalk ==
  ASSUME NEW e, NEW q, NEW n \in Nat, DOMAIN q = 1 .. n, NEW P, << 0, e >> \in P,
         \A k \in 1 .. n : \A x : << k - 1, x >> \in P => << k, PropagateLevel(x, q[k]) >> \in P
  PROVE  << n, FoldLeft(PropagateLevel, e, q) >> \in P
<1> DEFINE c == [kind |-> "propagate"]
           step(w, l) == PropagateLevel(w, l)
           body(g, s) == IF s = {} THEN e ELSE step(g[s \ {Max(s)}], q[Max(s)])
           g == CHOOSE g : g = [s \in SUBSET DOMAIN q |-> body(g, s)]
<1>1. \A w, l : StepOf(c, w, l) = step(w, l)
  BY DEF StepOf
<1>2. PICK h : IsFold(c, q, e, h)
  BY FoldExists
<1>3. FoldLeft(PropagateLevel, e, q) = g[DOMAIN q]
  BY DEF FoldLeft, MapThenFoldSet
<1>4. \A k \in 1 .. n : \A x : << k - 1, x >> \in P => << k, step(x, q[k]) >> \in P
  OBVIOUS
<1> HIDE DEF c, step
<1>5. h = [s \in SUBSET DOMAIN q |-> body(h, s)]
  BY <1>1, <1>2 DEF IsFold, FoldBody
<1>6. g = [s \in SUBSET DOMAIN q |-> body(g, s)]
  <2> HIDE DEF body
  <2>. QED
    BY <1>5, Zenon
<1> HIDE DEF g
<1>7. \A s \in SUBSET (1 .. n) : g[s] = body(g, s)
  BY <1>6
<1>8. g[{}] = e
  BY <1>7
<1>9. ASSUME NEW k \in 1 .. n
      PROVE  g[1 .. k] = step(g[1 .. k - 1], q[k])
  BY <1>7, Prefix
<1> HIDE DEF body
<1>10. << 0, g[{}] >> \in P
  BY <1>8
<1>11. \A k \in 1 .. n : << k - 1, g[1 .. k - 1] >> \in P => << k, g[1 .. k] >> \in P
  BY <1>4, <1>9
<1>12. << n, g[1 .. n] >> \in P
  BY <1>10, <1>11, WalkInduction
<1>. QED
  BY <1>3, <1>12

VisitFold(gone, e, q) == FoldLeft(LAMBDA w, l : Visit(gone, w, l), e, q)

LEMMA VisitWalk ==
  ASSUME NEW e, NEW q, NEW n \in Nat, DOMAIN q = 1 .. n, NEW gone, NEW P, << 0, e >> \in P,
         \A k \in 1 .. n : \A x : << k - 1, x >> \in P => << k, Visit(gone, x, q[k]) >> \in P
  PROVE  << n, VisitFold(gone, e, q) >> \in P
<1> DEFINE c == [kind |-> "visit", gone |-> gone]
           step(w, l) == Visit(gone, w, l)
           body(g, s) == IF s = {} THEN e ELSE step(g[s \ {Max(s)}], q[Max(s)])
           g == CHOOSE g : g = [s \in SUBSET DOMAIN q |-> body(g, s)]
<1>1. \A w, l : StepOf(c, w, l) = step(w, l)
  BY DEF StepOf
<1>2. PICK h : IsFold(c, q, e, h)
  BY FoldExists
<1>3. VisitFold(gone, e, q) = g[DOMAIN q]
  BY DEF VisitFold, FoldLeft, MapThenFoldSet
<1>4. \A k \in 1 .. n : \A x : << k - 1, x >> \in P => << k, step(x, q[k]) >> \in P
  OBVIOUS
<1> HIDE DEF c, step
<1>5. h = [s \in SUBSET DOMAIN q |-> body(h, s)]
  BY <1>1, <1>2 DEF IsFold, FoldBody
<1>6. g = [s \in SUBSET DOMAIN q |-> body(g, s)]
  <2> HIDE DEF body
  <2>. QED
    BY <1>5, Zenon
<1> HIDE DEF g
<1>7. \A s \in SUBSET (1 .. n) : g[s] = body(g, s)
  BY <1>6
<1>8. g[{}] = e
  BY <1>7
<1>9. ASSUME NEW k \in 1 .. n
      PROVE  g[1 .. k] = step(g[1 .. k - 1], q[k])
  BY <1>7, Prefix
<1> HIDE DEF body
<1>10. << 0, g[{}] >> \in P
  BY <1>8
<1>11. \A k \in 1 .. n : << k - 1, g[1 .. k - 1] >> \in P => << k, g[1 .. k] >> \in P
  BY <1>4, <1>9
<1>12. << n, g[1 .. n] >> \in P
  BY <1>10, <1>11, WalkInduction
<1>. QED
  BY <1>3, <1>12

LEMMA IdleWalk ==
  ASSUME NEW e, NEW q, NEW n \in Nat, DOMAIN q = 1 .. n, NEW P, << 0, e >> \in P,
         \A k \in 1 .. n : \A x : << k - 1, x >> \in P => << k, SetIdleLevel(x, q[k]) >> \in P
  PROVE  << n, FoldLeft(SetIdleLevel, e, q) >> \in P
<1> DEFINE c == [kind |-> "idle"]
           step(w, l) == SetIdleLevel(w, l)
           body(g, s) == IF s = {} THEN e ELSE step(g[s \ {Max(s)}], q[Max(s)])
           g == CHOOSE g : g = [s \in SUBSET DOMAIN q |-> body(g, s)]
<1>1. \A w, l : StepOf(c, w, l) = step(w, l)
  BY DEF StepOf
<1>2. PICK h : IsFold(c, q, e, h)
  BY FoldExists
<1>3. FoldLeft(SetIdleLevel, e, q) = g[DOMAIN q]
  BY DEF FoldLeft, MapThenFoldSet
<1>4. \A k \in 1 .. n : \A x : << k - 1, x >> \in P => << k, step(x, q[k]) >> \in P
  OBVIOUS
<1> HIDE DEF c, step
<1>5. h = [s \in SUBSET DOMAIN q |-> body(h, s)]
  BY <1>1, <1>2 DEF IsFold, FoldBody
<1>6. g = [s \in SUBSET DOMAIN q |-> body(g, s)]
  <2> HIDE DEF body
  <2>. QED
    BY <1>5, Zenon
<1> HIDE DEF g
<1>7. \A s \in SUBSET (1 .. n) : g[s] = body(g, s)
  BY <1>6
<1>8. g[{}] = e
  BY <1>7
<1>9. ASSUME NEW k \in 1 .. n
      PROVE  g[1 .. k] = step(g[1 .. k - 1], q[k])
  BY <1>7, Prefix
<1> HIDE DEF body
<1>10. << 0, g[{}] >> \in P
  BY <1>8
<1>11. \A k \in 1 .. n : << k - 1, g[1 .. k - 1] >> \in P => << k, g[1 .. k] >> \in P
  BY <1>4, <1>9
<1>12. << n, g[1 .. n] >> \in P
  BY <1>10, <1>11, WalkInduction
<1>. QED
  BY <1>3, <1>12


-----------------------------------------------------------------------------
(* The tree *)

\* A set of groups has all of them if it has each whose parent it has.
LEMMA TreeInduction ==
  ASSUME NEW P, \A g \in Groups : g = Root \/ Parent[g] \in P => g \in P
  PROVE  Groups \subseteq P
<1>. SUFFICES ASSUME Groups \ P # {}
              PROVE  FALSE
  OBVIOUS
<1> DEFINE T == Groups \ P
<1>1. PICK g \in T : g = Root \/ Parent[g] \notin T
  BY HierarchyAssumption
<1>2. g = Root \/ Parent[g] \in Groups
  BY HierarchyAssumption
<1>. QED
  BY <1>1, <1>2

PathBody(f, g) == IF g = Root THEN << Root >> ELSE << g >> \o f[Parent[g]]

\* f has the paths of the groups of S, and of those above them.
PathsOf(f, S) ==
  /\ f \in [S -> Seq(Groups)]
  /\ \A g \in S : (g = Root \/ Parent[g] \in S) /\ f[g] = PathBody(f, g)

LEMMA MorePaths ==
  ASSUME NEW S \in SUBSET Groups, S # Groups, NEW f, PathsOf(f, S)
  PROVE  \E g \in Groups \ S : \E h : PathsOf(h, S \cup {g})
<1> DEFINE T == Groups \ S
<1>1. PICK g \in T : g = Root \/ Parent[g] \notin T
  BY HierarchyAssumption
<1>2. g = Root \/ Parent[g] \in S
  BY <1>1, HierarchyAssumption
<1> DEFINE h == [d \in S \cup {g} |-> IF d = g THEN PathBody(f, g) ELSE f[d]]
<1>3. PathBody(f, g) \in Seq(Groups)
  <2>1. CASE g = Root
    BY <2>1, HierarchyAssumption DEF PathBody
  <2>2. CASE g # Root
    <3>1. f[Parent[g]] \in Seq(Groups)
      BY <1>2, <2>2 DEF PathsOf
    <3>2. << g >> \in Seq(Groups)
      OBVIOUS
    <3>. QED
      BY <2>2, <3>1, <3>2 DEF PathBody
  <2>. QED
    BY <2>1, <2>2
<1>4. h \in [S \cup {g} -> Seq(Groups)]
  BY <1>3 DEF PathsOf
<1>5. \A d \in S : h[d] = f[d]
  OBVIOUS
<1>6. h[g] = PathBody(f, g)
  OBVIOUS
<1> HIDE DEF h
<1>7. ASSUME NEW d \in S \cup {g}
      PROVE  (d = Root \/ Parent[d] \in S) /\ h[d] = PathBody(h, d)
  <2>1. (d = Root \/ Parent[d] \in S) /\ h[d] = PathBody(f, d)
    BY <1>2, <1>5, <1>6 DEF PathsOf
  <2>2. PathBody(h, d) = PathBody(f, d)
    BY <1>5, <2>1 DEF PathBody
  <2>. QED
    BY <2>1, <2>2
<1>8. PathsOf(h, S \cup {g})
  BY <1>4, <1>7 DEF PathsOf
<1>. QED
  BY <1>8

LEMMA PathExists == \E f : PathsOf(f, Groups)
<1> DEFINE N == Cardinality(Groups)
           P == {n \in Nat : n <= N => \E S \in SUBSET Groups : Cardinality(S) = n /\ \E f : PathsOf(f, S)}
<1>1. IsFiniteSet(Groups) /\ N \in Nat
  BY HierarchyAssumption, FS_CardinalityType
<1>2. \A S \in SUBSET Groups : IsFiniteSet(S) /\ Cardinality(S) \in Nat
  BY <1>1, FS_Subset, FS_CardinalityType
<1>3. 0 \in P
  <2>1. Cardinality({}) = 0
    BY FS_EmptySet
  <2>2. PathsOf([g \in {} |-> << >>], {})
    BY DEF PathsOf
  <2>. QED
    BY <2>1, <2>2
<1>4. ASSUME NEW n \in Nat, n \in P
      PROVE  n + 1 \in P
  <2>. SUFFICES ASSUME n + 1 <= N
                PROVE  \E S \in SUBSET Groups : Cardinality(S) = n + 1 /\ \E f : PathsOf(f, S)
    OBVIOUS
  <2>1. PICK S \in SUBSET Groups : Cardinality(S) = n /\ \E f : PathsOf(f, S)
    BY <1>1, <1>4
  <2>2. S # Groups
    BY <2>1
  <2>3. PICK g \in Groups \ S : \E h : PathsOf(h, S \cup {g})
    BY <2>1, <2>2, MorePaths
  <2>4. Cardinality(S \cup {g}) = n + 1
    BY <1>2, <2>1, FS_AddElement
  <2>. QED
    BY <2>3, <2>4
<1> HIDE DEF P
<1>5. N \in P
  BY <1>1, <1>3, <1>4, NatSetInduction
<1>6. PICK S \in SUBSET Groups : Cardinality(S) = N /\ \E f : PathsOf(f, S)
  BY <1>1, <1>5 DEF P
<1>7. S = Groups
  BY <1>1, <1>6, FS_Subset
<1>. QED
  BY <1>6, <1>7

LEMMA PathIs ==
  ASSUME NEW g \in Groups
  PROVE  Path[g] \in Seq(Groups) /\ Path[g] = PathBody(Path, g)
<1> DEFINE Is(f) == f = [d \in Groups |-> PathBody(f, d)]
<1>1. PICK f : PathsOf(f, Groups)
  BY PathExists
<1>2. Is(f)
  BY <1>1 DEF PathsOf
<1>3. Path = CHOOSE h : Is(h)
  BY Zenon DEF Path, PathBody
<1> HIDE DEF Is
<1>4. Is(Path)
  BY <1>2, <1>3, Zenon
<1>5. \A d \in Groups : Path[d] = PathBody(Path, d)
  BY <1>4 DEF Is
<1> DEFINE P == {d \in Groups : Path[d] \in Seq(Groups)}
<1>6. ASSUME NEW d \in Groups, d = Root \/ Parent[d] \in P
      PROVE  d \in P
  <2>1. CASE d = Root
    <3>1. Path[d] = << Root >>
      BY <1>5, <2>1 DEF PathBody
    <3>2. Root \in Groups
      BY HierarchyAssumption
    <3>3. << Root >> \in Seq(Groups)
      BY <3>2
    <3>. QED
      BY <3>1, <3>3
  <2>2. CASE d # Root
    <3>1. Path[Parent[d]] \in Seq(Groups) /\ << d >> \in Seq(Groups)
      BY <1>6, <2>2
    <3>2. Path[d] = << d >> \o Path[Parent[d]]
      BY <1>5, <2>2 DEF PathBody
    <3>3. << d >> \o Path[Parent[d]] \in Seq(Groups)
      BY <3>1
    <3>. QED
      BY <3>2, <3>3
  <2>. QED
    BY <2>1, <2>2
<1> HIDE DEF P
<1>7. Groups \subseteq P
  BY <1>6, TreeInduction
<1>. QED
  BY <1>5, <1>7 DEF P

\* A set of groups that has the root and, of each group, the parent
Rooted(on) == /\ on \subseteq Groups /\ Root \in on
              /\ \A g \in on \ {Root} : Parent[g] \in on

\* p leads from g up to the root, along groups of on.
Climbs(p, g, on) ==
  /\ p \in Seq(Groups) /\ Len(p) \in Nat \ {0}
  /\ p[1] = g /\ p[Len(p)] = Root
  /\ \A i \in 1 .. Len(p) : p[i] \in on
  /\ \A i \in 1 .. Len(p) - 1 : p[i] # Root /\ p[i + 1] = Parent[p[i]]

LEMMA PathClimbs ==
  ASSUME NEW on, Rooted(on), NEW g \in on
  PROVE  Climbs(Path[g], g, on)
<1> DEFINE P == {d \in Groups : d \in on => Climbs(Path[d], d, on)}
<1>1. ASSUME NEW d \in Groups, d = Root \/ Parent[d] \in P, d \in on
      PROVE  Climbs(Path[d], d, on)
  <2>1. Path[d] \in Seq(Groups) /\ Path[d] = PathBody(Path, d)
    BY PathIs
  <2>2. CASE d = Root
    <3>1. Path[d] = << Root >>
      BY <2>1, <2>2 DEF PathBody
    <3>. QED
      BY <1>1, <2>1, <2>2, <3>1 DEF Climbs
  <2>3. CASE d # Root
    <3> DEFINE u == Path[Parent[d]]
    <3>1. Climbs(u, Parent[d], on)
      BY <1>1, <2>3 DEF Rooted
    <3>2. Path[d] = << d >> \o u
      BY <2>1, <2>3 DEF PathBody
    <3> HIDE DEF u
    <3>3. u \in Seq(Groups) /\ Len(u) \in Nat \ {0}
      BY <3>1 DEF Climbs
    <3> DEFINE p == << d >> \o u
    <3>4. /\ Len(p) = Len(u) + 1 /\ p[1] = d
          /\ \A i \in 1 .. Len(u) : p[i + 1] = u[i]
      BY <3>3
    <3>5. p \in Seq(Groups)
      BY <2>1, <3>2
    <3> HIDE DEF p
    <3>6. \A i \in 1 .. Len(p) : i = 1 \/ (i - 1 \in 1 .. Len(u) /\ p[i] = u[i - 1])
      <4>1. ASSUME NEW i \in 1 .. Len(p), i # 1
            PROVE  i - 1 \in 1 .. Len(u) /\ p[i] = u[i - 1]
        <5>1. i - 1 \in 1 .. Len(u) /\ (i - 1) + 1 = i
          BY <3>3, <3>4, <4>1
        <5>. QED
          BY <3>4, <5>1
      <4>. QED
        BY <4>1
    <3>7. \A i \in 1 .. Len(p) : p[i] \in on
      BY <1>1, <3>1, <3>4, <3>6 DEF Climbs
    <3>8. p[Len(p)] = Root
      BY <3>1, <3>3, <3>4 DEF Climbs
    <3>9. ASSUME NEW i \in 1 .. Len(p) - 1
          PROVE  p[i] # Root /\ p[i + 1] = Parent[p[i]]
      <4>1. i \in 1 .. Len(u) /\ i \in 1 .. Len(p) /\ p[i + 1] = u[i]
        BY <3>3, <3>4
      <4>2. CASE i = 1
        BY <2>3, <3>1, <3>4, <4>1, <4>2 DEF Climbs
      <4>3. CASE i # 1
        <5>1. i - 1 \in 1 .. Len(u) - 1 /\ p[i] = u[i - 1] /\ (i - 1) + 1 = i
          BY <3>3, <3>4, <3>6, <4>1, <4>3
        <5>. QED
          BY <3>1, <4>1, <5>1 DEF Climbs
      <4>. QED
        BY <4>2, <4>3
    <3>. QED
      BY <3>2, <3>3, <3>4, <3>5, <3>7, <3>8, <3>9 DEF Climbs, p
  <2>. QED
    BY <2>2, <2>3
<1>2. Groups \subseteq P
  BY <1>1, TreeInduction
<1> HIDE DEF P
<1>3. g \in P
  BY <1>2 DEF Rooted
<1>. QED
  BY <1>3 DEF P

\* The ancestors of a group are itself and those of its parent.
LEMMA AncestorsOf ==
  ASSUME NEW g \in Groups
  PROVE  /\ Ancestors(g) \subseteq Groups /\ IsFiniteSet(Ancestors(g)) /\ g \in Ancestors(g)
         /\ Ancestors(g) = IF g = Root THEN {Root} ELSE {g} \cup Ancestors(Parent[g])
<1>1. Path[g] \in Seq(Groups) /\ Path[g] = PathBody(Path, g)
  BY PathIs
<1>2. Ancestors(g) \subseteq Groups
  BY <1>1 DEF Ancestors, Range
<1>3. Ancestors(g) = IF g = Root THEN {Root} ELSE {g} \cup Ancestors(Parent[g])
  <2>1. CASE g = Root
    <3>1. Path[g] = << Root >>
      BY <1>1, <2>1 DEF PathBody
    <3>. QED
      BY <2>1, <3>1 DEF Ancestors, Range
  <2>2. CASE g # Root
    <3> DEFINE u == Path[Parent[g]]
               p == << g >> \o u
    <3>1. u \in Seq(Groups)
      BY <2>2, PathIs, HierarchyAssumption
    <3>2. Path[g] = p
      BY <1>1, <2>2 DEF PathBody
    <3> HIDE DEF u
    <3>3. /\ Len(p) = Len(u) + 1 /\ p[1] = g /\ Len(u) \in Nat
          /\ \A i \in 1 .. Len(u) : p[i + 1] = u[i]
          /\ DOMAIN p = 1 .. Len(p) /\ DOMAIN u = 1 .. Len(u)
      BY <3>1
    <3> HIDE DEF p
    <3>4. ASSUME NEW x \in Range(p)
          PROVE  x \in {g} \cup Range(u)
      <4>1. PICK i \in 1 .. Len(p) : p[i] = x
        BY <3>3 DEF Range
      <4>2. CASE i = 1
        BY <3>3, <4>1, <4>2
      <4>3. CASE i # 1
        <5>1. i - 1 \in 1 .. Len(u) /\ (i - 1) + 1 = i
          BY <3>3, <4>3
        <5>2. x = u[i - 1]
          BY <3>3, <4>1, <5>1
        <5>. QED
          BY <3>3, <5>1, <5>2 DEF Range
      <4>. QED
        BY <4>2, <4>3
    <3>5. g \in Range(p)
      BY <3>3 DEF Range
    <3>6. ASSUME NEW x \in Range(u)
          PROVE  x \in Range(p)
      <4>1. PICK i \in 1 .. Len(u) : u[i] = x
        BY <3>3 DEF Range
      <4>2. i + 1 \in 1 .. Len(p) /\ p[i + 1] = x
        BY <3>3, <4>1
      <4>. QED
        BY <3>3, <4>2 DEF Range
    <3>7. Range(p) = {g} \cup Range(u)
      BY <3>4, <3>5, <3>6
    <3>. QED
      BY <2>2, <3>2, <3>7 DEF Ancestors, u
  <2>. QED
    BY <2>1, <2>2
<1>4. IsFiniteSet(Ancestors(g))
  BY <1>2, HierarchyAssumption, FS_Subset
<1>. QED
  BY <1>2, <1>3, <1>4

\* l leads from entity e in the cfs_rq of group q up to the root, in n levels.
Ladder(l, n, e, q, on) ==
  /\ n \in Nat \ {0} /\ DOMAIN l = 1 .. n
  /\ l[1].e = e /\ l[1].q = q /\ l[n].q = Root
  /\ \A i \in 1 .. n : l[i].q \in on
  /\ \A i \in 1 .. n : i # 1 => /\ l[i].e = l[i - 1].q /\ l[i].e # Root
                               /\ l[i].q = Parent[l[i].e]

LEMMA LevelsClimb ==
  ASSUME NEW on, Rooted(on), NEW q \in on, NEW e
  PROVE  \E n \in Nat : Ladder(Levels(e, q), n, e, q, on)
<1> DEFINE p == Path[q]
           l == [i \in DOMAIN p |-> [q |-> p[i], e |-> IF i = 1 THEN e ELSE p[i - 1]]]
<1>1. Climbs(p, q, on)
  BY PathClimbs
<1>2. Levels(e, q) = l
  BY DEF Levels
<1> HIDE DEF p
<1>3. DOMAIN p = 1 .. Len(p) /\ Len(p) \in Nat \ {0}
  BY <1>1 DEF Climbs
<1>4. ASSUME NEW i \in 1 .. Len(p)
      PROVE  l[i].q = p[i] /\ l[i].e = IF i = 1 THEN e ELSE p[i - 1]
  BY <1>3
<1>5. DOMAIN l = 1 .. Len(p)
  BY <1>3
<1> HIDE DEF l
<1>6. 1 \in 1 .. Len(p) /\ Len(p) \in 1 .. Len(p)
  BY <1>3
<1>7. ASSUME NEW i \in 1 .. Len(p), i # 1
      PROVE  l[i].e = l[i - 1].q /\ l[i].e # Root /\ l[i].q = Parent[l[i].e]
  <2>1. i - 1 \in 1 .. Len(p) - 1 /\ i - 1 \in 1 .. Len(p) /\ (i - 1) + 1 = i
    BY <1>3, <1>7
  <2>. QED
    BY <1>1, <1>4, <1>7, <2>1 DEF Climbs
<1>8. Ladder(l, Len(p), e, q, on)
  BY <1>1, <1>3, <1>4, <1>5, <1>6, <1>7 DEF Climbs, Ladder
<1>. QED
  BY <1>2, <1>3, <1>8

\* Parents first
Sorted(q) == \A i, j \in DOMAIN q : i < j => Len(Path[q[i]]) <= Len(Path[q[j]])

\* A group that is not below another of the set goes to the front.
LEMMA SortedExists ==
  ASSUME NEW S \in SUBSET Groups
  PROVE  \E q \in SetToSeqs(S) : Sorted(q)
<1> DEFINE P == {T \in SUBSET Groups : \E q \in SetToSeqs(T) : Sorted(q)}
<1>1. IsFiniteSet(Groups)
  BY HierarchyAssumption
<1>2. ASSUME NEW T \in SUBSET Groups, \A x \in T : T \ {x} \in P
      PROVE  T \in P
  <2>1. IsFiniteSet(T) /\ Cardinality(T) \in Nat
    BY <1>1, FS_Subset, FS_CardinalityType
  <2>2. CASE T = {}
    <3> DEFINE q == [i \in 1 .. 0 |-> Root]
    <3>1. Cardinality(T) = 0
      BY <2>2, FS_EmptySet
    <3>2. 1 .. 0 = {}
      OBVIOUS
    <3>3. q \in SetToSeqs(T)
      BY <2>2, <3>1, <3>2 DEF SetToSeqs
    <3>4. Sorted(q)
      BY <3>2 DEF Sorted
    <3>. QED
      BY <3>3, <3>4
  <2>3. CASE T # {}
    <3> DEFINE L == {Len(Path[d]) : d \in T}
    <3>1. \A d \in T : Len(Path[d]) \in Nat
      BY PathIs
    <3>2. L \subseteq Nat /\ L # {}
      BY <2>3, <3>1
    <3>3. PICK m \in L : \A k \in L : m <= k
      <4> HIDE DEF L
      <4>. QED
        BY <3>2, LeastExists
    <3>4. PICK g \in T : \A d \in T : Len(Path[g]) <= Len(Path[d])
      BY <3>3
    <3> DEFINE U == T \ {g}
               n == Cardinality(U)
    <3>5. PICK u \in SetToSeqs(U) : Sorted(u)
      BY <1>2
    <3>6. n \in Nat /\ Cardinality(T) = n + 1
      <4>1. IsFiniteSet(U) /\ Cardinality(U) = Cardinality(T) - 1
        BY <2>1, FS_RemoveElement
      <4>2. Cardinality(U) \in Nat
        BY <4>1, FS_CardinalityType
      <4> HIDE DEF U
      <4>. QED
        BY <2>1, <4>1, <4>2
    <3>7. u \in [1 .. n -> U] /\ \A i, j \in 1 .. n : i # j => u[i] # u[j]
      BY DEF SetToSeqs
    <3> HIDE DEF U, n
    <3> DEFINE q == [i \in 1 .. n + 1 |-> IF i = 1 THEN g ELSE u[i - 1]]
    <3>8. DOMAIN q = 1 .. n + 1 /\ DOMAIN u = 1 .. n
      BY <3>7
    <3>9. \A i \in 1 .. n + 1 : \/ i = 1 /\ q[i] = g
                                \/ i # 1 /\ i - 1 \in 1 .. n /\ q[i] = u[i - 1] /\ q[i] \in U
      BY <3>6, <3>7
    <3>10. q \in [1 .. n + 1 -> T]
      BY <3>9 DEF U
    <3> HIDE DEF q
    <3>11. ASSUME NEW i \in 1 .. n + 1, NEW j \in 1 .. n + 1, i # j
           PROVE  q[i] # q[j]
      <4>1. \A k \in 1 .. n + 1 : k = 1 => k # i \/ k # j
        BY <3>11
      <4>2. CASE i # 1 /\ j # 1
        BY <3>6, <3>7, <3>9, <3>11, <4>2
      <4>3. CASE i = 1
        BY <3>9, <3>11, <4>3 DEF U
      <4>4. CASE j = 1
        BY <3>9, <3>11, <4>4 DEF U
      <4>. QED
        BY <4>2, <4>3, <4>4
    <3>12. q \in SetToSeqs(T)
      BY <3>6, <3>10, <3>11 DEF SetToSeqs
    <3>13. ASSUME NEW i \in 1 .. n + 1, NEW j \in 1 .. n + 1, i < j
           PROVE  Len(Path[q[i]]) <= Len(Path[q[j]])
      <4>1. q[j] \in T
        BY <3>10
      <4>2. CASE i = 1
        BY <3>4, <3>9, <4>1, <4>2
      <4>3. CASE i # 1
        <5>1. /\ i - 1 \in 1 .. n /\ q[i] = u[i - 1]
              /\ j - 1 \in 1 .. n /\ q[j] = u[j - 1] /\ i - 1 < j - 1
          BY <3>6, <3>9, <3>13, <4>3
        <5>. QED
          BY <3>5, <3>8, <5>1 DEF Sorted
      <4>. QED
        BY <4>2, <4>3
    <3>14. Sorted(q)
      BY <3>8, <3>13 DEF Sorted
    <3>. QED
      BY <3>12, <3>14
  <2>. QED
    BY <2>2, <2>3
<1> HIDE DEF P
<1>3. \A T \in SUBSET Groups : T \in P
  BY <1>1, <1>2, SubsetInduction, Zenon
<1>. QED
  BY <1>3 DEF P

\* TopDown has each group of the set, once.
LEMMA TopDownLists ==
  ASSUME NEW S \in SUBSET Groups
  PROVE  /\ TopDown[S] \in Seq(Groups)
         /\ Lists(TopDown[S], S)
<1> DEFINE n == Cardinality(S)
           q == TopDown[S]
<1>1. IsFiniteSet(S) /\ n \in Nat
  BY HierarchyAssumption, FS_Subset, FS_CardinalityType
<1>2. q = CHOOSE u \in SetToSeqs(S) : Sorted(u)
  BY Zenon DEF TopDown, Sorted
<1> HIDE DEF q
<1>3. q \in SetToSeqs(S)
  BY <1>2, SortedExists
<1>4. q \in [1 .. n -> S] /\ \A i, j \in 1 .. n : i # j => q[i] # q[j]
  BY <1>3 DEF SetToSeqs
<1> HIDE DEF n
<1>5. q \in Seq(Groups) /\ Len(q) = n /\ DOMAIN q = 1 .. n
  BY <1>1, <1>4
<1> DEFINE R == {q[i] : i \in 1 .. n}
<1>6. q \in Bijection(1 .. n, R)
  BY <1>4 DEF Bijection, Injection, Surjection, IsInjective
<1>7. R \subseteq S
  BY <1>4
<1>8. Cardinality(R) = n
  <2> HIDE DEF R
  <2>1. ExistsBijection(1 .. n, R)
    BY <1>6 DEF ExistsBijection
  <2>. QED
    BY <1>1, <2>1, FS_CountingElements
<1>9. R = S
  BY <1>1, <1>7, <1>8, FS_Subset DEF n
<1>10. Lists(q, S)
  BY <1>4, <1>5, <1>9 DEF Lists
<1>. QED
  BY <1>5, <1>10 DEF q

-----------------------------------------------------------------------------
(* The state of the CPU, and the list of leaf cfs_rqs *)

Entities == Tasks \cup Groups

CfsRqs == [queue : SUBSET Entities, curr : Entities \cup {None}, h : Int, idle_h : Int,
           idle_nr : Int, idle : BOOLEAN, throttled : BOOLEAN, throttle_count : Int,
           on_list : BOOLEAN, loaded : BOOLEAN]

Rqs == [nr_running : Int, leaf : Seq(Groups), branch : Groups \cup {ListHead}]

OnList(s) == {g \in Groups : s.cfs[g].on_list}

\* The list holds what says so, once each, and the branch that waits ends in one of them.
ListRight(s) == /\ Lists(s.rq.leaf, OnList(s))
                /\ s.rq.branch \in {ListHead} \cup OnList(s)

State == {s \in [cfs : [Groups -> CfsRqs], rq : Rqs] : ListRight(s)}

\* What a step leaves alone that only changes the list, the counts or curr
SameQueues(s, r) == \A d \in Groups : r.cfs[d].queue = s.cfs[d].queue
SameThrottling(s, r) == \A d \in Groups : /\ r.cfs[d].throttled = s.cfs[d].throttled
                                          /\ r.cfs[d].throttle_count = s.cfs[d].throttle_count
Same(s, r) == SameQueues(s, r) /\ SameThrottling(s, r)

\* r is s with another cfs_rq for g.
Changed(s, g, v, r) == r = [s EXCEPT !.cfs[g] = v]

\* A cfs_rq changes, but for its place on the list.
LEMMA CfsChange ==
  ASSUME NEW s \in State, NEW g \in Groups, NEW v \in CfsRqs, v.on_list = s.cfs[g].on_list,
         NEW r, Changed(s, g, v, r)
  PROVE  /\ r \in State /\ r.cfs[g] = v /\ r.rq = s.rq
         /\ \A d \in Groups : d # g => r.cfs[d] = s.cfs[d]
<1>1. s.cfs \in [Groups -> CfsRqs] /\ s.rq \in Rqs
  BY DEF State
<1>2. r = [cfs |-> [s.cfs EXCEPT ![g] = v], rq |-> s.rq]
  BY DEF State, Changed
<1>3. r \in [cfs : [Groups -> CfsRqs], rq : Rqs]
  BY <1>1, <1>2
<1>4. r.cfs[g] = v /\ r.rq = s.rq /\ \A d \in Groups : d # g => r.cfs[d] = s.cfs[d]
  BY <1>1, <1>2
<1>5. OnList(r) = OnList(s)
  BY <1>4 DEF OnList
<1>6. ListRight(r)
  BY <1>4, <1>5 DEF ListRight, State
<1>. QED
  BY <1>3, <1>4, <1>6 DEF State

\* The place of a group that is on the list
LEMMA PlaceOf ==
  ASSUME NEW s \in State, NEW g \in OnList(s)
  PROVE  LET i == CHOOSE k \in DOMAIN s.rq.leaf : s.rq.leaf[k] = g
         IN  i \in 1 .. Len(s.rq.leaf) /\ s.rq.leaf[i] = g
<1>1. s.rq.leaf \in Seq(Groups)
  BY DEF State, Rqs
<1>2. DOMAIN s.rq.leaf = 1 .. Len(s.rq.leaf)
  BY <1>1
<1>3. \E k \in DOMAIN s.rq.leaf : s.rq.leaf[k] = g
  BY <1>2 DEF State, ListRight, Lists
<1> DEFINE i == CHOOSE k \in DOMAIN s.rq.leaf : s.rq.leaf[k] = g
<1>4. i \in DOMAIN s.rq.leaf /\ s.rq.leaf[i] = g
  BY <1>3, Zenon
<1> HIDE DEF i
<1>5. i \in 1 .. Len(s.rq.leaf) /\ s.rq.leaf[i] = g
  BY <1>2, <1>4
<1>. QED
  BY <1>5 DEF i

\* A group enters or leaves the list.
LEMMA ListChange ==
  ASSUME NEW s \in State, NEW g \in Groups, NEW b \in BOOLEAN, NEW L \in Seq(Groups),
         Lists(L, IF b THEN OnList(s) \cup {g} ELSE OnList(s) \ {g}),
         NEW e, e \in {ListHead} \cup (IF b THEN OnList(s) \cup {g} ELSE OnList(s) \ {g}),
         NEW r, r = [[s EXCEPT !.cfs[g].on_list = b] EXCEPT !.rq.leaf = L, !.rq.branch = e]
  PROVE  r \in State /\ Same(s, r)
<1>1. s.cfs \in [Groups -> CfsRqs] /\ s.rq \in Rqs /\ s.cfs[g] \in CfsRqs
  BY DEF State
<1> DEFINE v == [s.cfs[g] EXCEPT !.on_list = b]
           f == [s.cfs EXCEPT ![g] = v]
           q == [s.rq EXCEPT !.leaf = L, !.branch = e]
<1>2. /\ v \in CfsRqs /\ v.on_list = b /\ v.queue = s.cfs[g].queue
      /\ v.throttled = s.cfs[g].throttled /\ v.throttle_count = s.cfs[g].throttle_count
  BY <1>1 DEF CfsRqs
<1>3. r = [cfs |-> f, rq |-> q] /\ r.cfs = f /\ r.rq = q
  BY DEF State
<1>4. e \in Groups \cup {ListHead}
  BY DEF OnList
<1>5. q \in Rqs /\ q.leaf = L /\ q.branch = e
  BY <1>1, <1>4 DEF Rqs
<1> HIDE DEF v, q
<1>6. f \in [Groups -> CfsRqs] /\ f[g] = v /\ \A d \in Groups : d # g => f[d] = s.cfs[d]
  BY <1>1, <1>2
<1> HIDE DEF f
<1>7. r.cfs = f /\ r.rq = q
  BY <1>3, Zenon
<1>8. OnList(r) = IF b THEN OnList(s) \cup {g} ELSE OnList(s) \ {g}
  BY <1>2, <1>6, <1>7 DEF OnList
<1>9. ListRight(r)
  BY <1>5, <1>7, <1>8 DEF ListRight
<1>10. r \in State
  BY <1>3, <1>5, <1>6, <1>9 DEF State
<1>11. Same(s, r)
  BY <1>2, <1>6, <1>7 DEF Same, SameQueues, SameThrottling
<1>. QED
  BY <1>10, <1>11

LEMMA ListAddIs ==
  ASSUME NEW s \in State, NEW g \in Groups
  PROVE  ListAdd(s, g) \in State /\ Same(s, ListAdd(s, g))
<1> DEFINE leaf  == s.rq.leaf
           at(x) == CHOOSE i \in DOMAIN leaf : leaf[i] = x
           to(L, e) == [[s EXCEPT !.cfs[g].on_list = TRUE] EXCEPT !.rq.leaf = L, !.rq.branch = e]
           S == OnList(s) \cup {g}
<1>1. CASE s.cfs[g].on_list
  BY <1>1 DEF ListAdd, Same, SameQueues, SameThrottling
<1>2. CASE ~s.cfs[g].on_list
  <2>1. leaf \in Seq(Groups) /\ Len(leaf) \in Nat /\ Lists(leaf, OnList(s))
    BY DEF State, Rqs, ListRight
  <2>2. g \notin OnList(s) /\ OnList(s) \subseteq Groups
    BY <1>2 DEF OnList
  <2>3. \A x \in OnList(s) : at(x) \in 1 .. Len(leaf)
    BY PlaceOf
  <2>4. \/ ListAdd(s, g) = to(Append(leaf, g), ListHead)
        \/ \E k \in 1 .. Len(leaf) + 1, e \in {ListHead, g} : ListAdd(s, g) = to(InsertAt(leaf, k, g), e)
    <3>1. CASE g = Root
      <4>1. ListAdd(s, g) = to(Append(leaf, g), ListHead)
        BY <1>2, <3>1, Zenon DEF ListAdd
      <4>. QED
        BY <4>1
    <3>2. CASE g # Root /\ s.cfs[Parent[g]].on_list
      <4>1. ListAdd(s, g) = to(InsertAt(leaf, at(Parent[g]), g), ListHead)
        BY <1>2, <3>2, Zenon DEF ListAdd
      <4>2. Parent[g] \in OnList(s)
        BY <3>2, HierarchyAssumption DEF OnList
      <4> DEFINE k == at(Parent[g])
      <4>3. k \in 1 .. Len(leaf)
        BY <2>3, <4>2, Zenon
      <4> HIDE DEF to, k, leaf
      <4>4. k \in 1 .. Len(leaf) + 1
        BY <2>1, <4>3
      <4>5. ListAdd(s, g) = to(InsertAt(leaf, k, g), ListHead)
        BY <4>1 DEF k
      <4>. QED
        BY <4>4, <4>5
    <3>3. CASE g # Root /\ ~s.cfs[Parent[g]].on_list
      <4> DEFINE k == IF s.rq.branch = ListHead THEN 1 ELSE at(s.rq.branch) + 1
      <4>1. ListAdd(s, g) = to(InsertAt(leaf, k, g), g)
        BY <1>2, <3>3, Zenon DEF ListAdd
      <4>2. s.rq.branch = ListHead \/ s.rq.branch \in OnList(s)
        BY DEF State, ListRight
      <4> DEFINE b == at(s.rq.branch)
      <4>3. k \in 1 .. Len(leaf) + 1
        <5>1. s.rq.branch = ListHead \/ b \in 1 .. Len(leaf)
          BY <2>3, <4>2, Zenon
        <5>2. k = IF s.rq.branch = ListHead THEN 1 ELSE b + 1
          OBVIOUS
        <5> HIDE DEF k, b, leaf
        <5>. QED
          BY <2>1, <5>1, <5>2
      <4> HIDE DEF to, k, leaf
      <4>. QED
        BY <4>1, <4>3
    <3> HIDE DEF to, leaf
    <3>. QED
      BY <3>1, <3>2, <3>3
  <2>5. ASSUME NEW L \in Seq(Groups), Lists(L, S), NEW e \in {ListHead, g}
        PROVE  to(L, e) \in State /\ Same(s, to(L, e))
    <3> DEFINE r == to(L, e)
    <3>1. r = [[s EXCEPT !.cfs[g].on_list = TRUE] EXCEPT !.rq.leaf = L, !.rq.branch = e]
      OBVIOUS
    <3>2. Lists(L, IF TRUE THEN OnList(s) \cup {g} ELSE OnList(s) \ {g})
      BY <2>5
    <3>3. e \in {ListHead} \cup (IF TRUE THEN OnList(s) \cup {g} ELSE OnList(s) \ {g})
      OBVIOUS
    <3> HIDE DEF r
    <3>4. r \in State /\ Same(s, r)
      BY <3>1, <3>2, <3>3, ListChange, Zenon
    <3>. QED
      BY <3>4 DEF r
  <2>6. Append(leaf, g) \in Seq(Groups) /\ Lists(Append(leaf, g), S)
    BY <2>1, <2>2, AppendLists
  <2>7. ASSUME NEW k \in 1 .. Len(leaf) + 1
        PROVE  InsertAt(leaf, k, g) \in Seq(Groups) /\ Lists(InsertAt(leaf, k, g), S)
    BY <2>1, <2>2, InsertAtLists
  <2> HIDE DEF to, S, leaf
  <2>. QED
    BY <2>4, <2>5, <2>6, <2>7
<1>. QED
  BY <1>1, <1>2

LEMMA ListDelIs ==
  ASSUME NEW s \in State, NEW g \in Groups
  PROVE  /\ ListDel(s, g) \in State /\ Same(s, ListDel(s, g))
         /\ g \notin OnList(ListDel(s, g))
<1> DEFINE leaf == s.rq.leaf
           i == CHOOSE k \in DOMAIN leaf : leaf[k] = g
           e == IF s.rq.branch # g THEN s.rq.branch ELSE IF i = 1 THEN ListHead ELSE leaf[i - 1]
           L == RemoveAt(leaf, i)
           r == [[s EXCEPT !.cfs[g].on_list = FALSE] EXCEPT !.rq.leaf = L, !.rq.branch = e]
<1>1. CASE ~s.cfs[g].on_list
  BY <1>1 DEF ListDel, Same, SameQueues, SameThrottling, OnList
<1>2. CASE s.cfs[g].on_list
  <2>1. leaf \in Seq(Groups) /\ Len(leaf) \in Nat /\ Lists(leaf, OnList(s))
    BY DEF State, Rqs, ListRight
  <2>2. g \in OnList(s) /\ OnList(s) \subseteq Groups
    BY <1>2 DEF OnList
  <2>3. i \in 1 .. Len(leaf) /\ leaf[i] = g
    BY <2>2, PlaceOf
  <2>4. s.rq.branch \in {ListHead} \cup OnList(s)
    BY DEF State, ListRight
  <2>5. ListDel(s, g) = r
    <3>1. s \in [cfs : [Groups -> CfsRqs], rq : Rqs]
      BY DEF State
    <3>2. ListDel(s, g) = [s EXCEPT !.cfs[g].on_list = FALSE, !.rq.leaf = RemoveAt(@, i),
                             !.rq.branch = IF @ # g THEN @ ELSE IF i = 1 THEN ListHead ELSE leaf[i - 1]]
      BY <1>2, Zenon DEF ListDel
    <3> HIDE DEF i
    <3>. QED
      BY <3>1, <3>2 DEF Rqs
  <2> HIDE DEF i, leaf
  <2>6. L \in Seq(Groups) /\ Lists(L, OnList(s) \ {g})
    BY <2>1, <2>2, <2>3, RemoveAtLists
  <2>7. e \in {ListHead} \cup (OnList(s) \ {g})
    <3>1. CASE s.rq.branch # g
      BY <2>4, <3>1
    <3>2. CASE i # 1
      <4>1. i - 1 \in 1 .. Len(leaf) /\ i - 1 # i
        BY <2>1, <2>3, <3>2
      <4>2. leaf[i - 1] # g /\ leaf[i - 1] \in OnList(s)
        BY <2>1, <2>3, <4>1 DEF Lists
      <4>. QED
        BY <2>4, <3>2, <4>2
    <3>. QED
      BY <3>1, <3>2
  <2> HIDE DEF L, e
  <2>8. Lists(L, IF FALSE THEN OnList(s) \cup {g} ELSE OnList(s) \ {g})
    BY <2>6
  <2>9. e \in {ListHead} \cup (IF FALSE THEN OnList(s) \cup {g} ELSE OnList(s) \ {g})
    BY <2>7
  <2>10. r \in State /\ Same(s, r)
    <3>1. r = [[s EXCEPT !.cfs[g].on_list = FALSE] EXCEPT !.rq.leaf = L, !.rq.branch = e]
      OBVIOUS
    <3> HIDE DEF r
    <3>. QED
      BY <2>6, <2>8, <2>9, <3>1, ListChange, Zenon
  <2>11. ~r.cfs[g].on_list
    BY DEF State, CfsRqs
  <2>. QED
    BY <2>5, <2>10, <2>11 DEF OnList
<1>. QED
  BY <1>1, <1>2

-----------------------------------------------------------------------------
(* What is right *)

\* The throttled groups from g up
ThrottledAbove(s, g) == {a \in Ancestors(g) : s.cfs[a].throttled}

CountsRight(s, on) == \A g \in on : s.cfs[g].throttle_count = Cardinality(ThrottledAbove(s, g))

\* e belongs in the queue of q: a task of the group, or a group below it.
IsChild(e, q, on, hm) == \/ e \in Tasks /\ hm[e] = q
                         \/ e \in on \ {Root} /\ Parent[e] = q

HasWork(s, g) == s.cfs[g].queue # {} /\ ~s.cfs[g].throttled

\* Groups that do not exist have nothing; queues hold only what belongs there, and all
\* the groups that have work, but for those in X.
QueuesRight(s, on, hm, X) ==
  /\ \A g \in Groups \ on : s.cfs[g].queue = {} /\ ~s.cfs[g].throttled
  /\ \A q \in Groups : \A e \in s.cfs[q].queue : IsChild(e, q, on, hm)
  /\ \A g \in on \ {Root} : g \notin X => (g \in s.cfs[Parent[g]].queue <=> HasWork(s, g))

LEMMA SameCounts ==
  ASSUME NEW s, NEW r, NEW on, Rooted(on), SameThrottling(s, r), CountsRight(s, on)
  PROVE  CountsRight(r, on)
<1>1. ASSUME NEW g \in on
      PROVE  r.cfs[g].throttle_count = Cardinality(ThrottledAbove(r, g))
  <2>1. g \in Groups /\ Ancestors(g) \subseteq Groups
    BY AncestorsOf DEF Rooted
  <2>2. ThrottledAbove(r, g) = ThrottledAbove(s, g)
    BY <2>1 DEF ThrottledAbove, SameThrottling
  <2>. QED
    BY <2>1, <2>2 DEF CountsRight, SameThrottling
<1>. QED
  BY <1>1 DEF CountsRight

LEMMA SameRight ==
  ASSUME NEW s, NEW r, NEW on, Rooted(on), NEW hm, NEW X, Same(s, r)
  PROVE  /\ CountsRight(s, on) => CountsRight(r, on)
         /\ QueuesRight(s, on, hm, X) => QueuesRight(r, on, hm, X)
<1>1. CountsRight(s, on) => CountsRight(r, on)
  BY SameCounts DEF Same
<1>2. ASSUME QueuesRight(s, on, hm, X)
      PROVE  QueuesRight(r, on, hm, X)
  <2>1. \A g \in Groups : HasWork(r, g) = HasWork(s, g)
    BY DEF HasWork, Same, SameQueues, SameThrottling
  <2>2. \A g \in on \ {Root} : g \in Groups /\ Parent[g] \in Groups
    BY DEF Rooted
  <2>. QED
    BY <1>2, <2>1, <2>2 DEF QueuesRight, Same, SameQueues, SameThrottling
<1>. QED
  BY <1>1, <1>2

LEMMA SameTwice ==
  ASSUME NEW s, NEW r, NEW u, Same(s, r), Same(r, u)
  PROVE  Same(s, u)
BY DEF Same, SameQueues, SameThrottling

LEMMA SameSelf ==
  ASSUME NEW s
  PROVE  Same(s, s)
BY DEF Same, SameQueues, SameThrottling

-----------------------------------------------------------------------------
(* The counts of a subtree *)

\* The first k entries of q have their count changed by n, the others not.
Counting(s, r, q, k, n) ==
  /\ SameQueues(s, r)
  /\ \A d \in Groups :
       /\ r.cfs[d].throttled = s.cfs[d].throttled
       /\ (\E i \in 1 .. k : q[i] = d) => r.cfs[d].throttle_count = s.cfs[d].throttle_count + n
       /\ (\A i \in 1 .. k : q[i] # d) => r.cfs[d].throttle_count = s.cfs[d].throttle_count

\* A change of one throttle count
Recounted(s, g, n, r) == r = [s EXCEPT !.cfs[g].throttle_count = @ + n]

LEMMA CountChange ==
  ASSUME NEW s \in State, NEW g \in Groups, NEW n \in Int,
         NEW r, Recounted(s, g, n, r)
  PROVE  /\ r \in State /\ SameQueues(s, r)
         /\ \A d \in Groups : r.cfs[d].throttled = s.cfs[d].throttled
         /\ r.cfs[g].throttle_count = s.cfs[g].throttle_count + n
         /\ \A d \in Groups : d # g => r.cfs[d].throttle_count = s.cfs[d].throttle_count
<1> DEFINE v == [s.cfs[g] EXCEPT !.throttle_count = @ + n]
<1>1. s.cfs \in [Groups -> CfsRqs] /\ s.cfs[g] \in CfsRqs
  BY DEF State
<1>2. /\ v \in CfsRqs /\ v.on_list = s.cfs[g].on_list /\ v.queue = s.cfs[g].queue
      /\ v.throttled = s.cfs[g].throttled
      /\ v.throttle_count = s.cfs[g].throttle_count + n
  BY <1>1 DEF CfsRqs
<1>3. Changed(s, g, v, r)
  BY DEF State, Changed, Recounted
<1> HIDE DEF v
<1>4. r \in State /\ r.cfs[g] = v /\ \A d \in Groups : d # g => r.cfs[d] = s.cfs[d]
  BY <1>2, <1>3, CfsChange
<1>. QED
  BY <1>2, <1>4 DEF SameQueues

\* Taking the group off the list, or putting it on, changes nothing else.
LEMMA ThrottleDownIs ==
  ASSUME NEW s \in State, NEW g \in Groups
  PROVE  /\ ThrottleDown(s, g) \in State
         /\ \E u \in State : Same(s, u) /\ Recounted(u, g, 1, ThrottleDown(s, g))
<1> DEFINE u == IF s.cfs[g].throttle_count = 0 THEN ListDel(s, g) ELSE s
<1>1. u \in State /\ Same(s, u)
  BY ListDelIs, SameSelf
<1>2. Recounted(u, g, 1, ThrottleDown(s, g))
  BY Zenon DEF ThrottleDown, Recounted
<1> HIDE DEF u
<1>3. ThrottleDown(s, g) \in State
  BY <1>1, <1>2, 1 \in Int, CountChange
<1>. QED
  BY <1>1, <1>2, <1>3

LEMMA UnthrottleUpIs ==
  ASSUME NEW s \in State, NEW g \in Groups
  PROVE  /\ UnthrottleUp(s, g) \in State
         /\ \E u \in State : Recounted(s, g, -1, u) /\ Same(u, UnthrottleUp(s, g))
<1> DEFINE u == [s EXCEPT !.cfs[g].throttle_count = @ + (-1)]
<1>1. Recounted(s, g, -1, u)
  BY DEF Recounted
<1>2. u = [s EXCEPT !.cfs[g].throttle_count = @ - 1]
  <2>1. s.cfs[g].throttle_count \in Int
    BY DEF State, CfsRqs
  <2>2. s.cfs[g].throttle_count + (-1) = s.cfs[g].throttle_count - 1
    BY <2>1
  <2>. QED
    BY <2>2
<1> HIDE DEF u
<1>3. u \in State
  BY <1>1, -1 \in Int, CountChange
<1>4. UnthrottleUp(s, g) \in {u, ListAdd(u, g)}
  BY <1>2 DEF UnthrottleUp
<1>5. UnthrottleUp(s, g) \in State /\ Same(u, UnthrottleUp(s, g))
  BY <1>3, <1>4, ListAddIs, SameSelf
<1>. QED
  BY <1>1, <1>3, <1>5

\* One more entry of a list has its count changed.
LEMMA CountingOn ==
  ASSUME NEW s \in State, NEW r \in State, NEW u \in State, NEW q, NEW n \in Int,
         NEW k \in Nat \ {0}, Counting(s, r, q, k - 1, n), q[k] \in Groups,
         \A i \in 1 .. k - 1 : q[i] # q[k],
         SameQueues(r, u),
         \A d \in Groups : u.cfs[d].throttled = r.cfs[d].throttled,
         u.cfs[q[k]].throttle_count = r.cfs[q[k]].throttle_count + n,
         \A d \in Groups : d # q[k] => u.cfs[d].throttle_count = r.cfs[d].throttle_count
  PROVE  Counting(s, u, q, k, n)
<1>1. \A i \in 1 .. k : i \in 1 .. k - 1 \/ i = k
  OBVIOUS
<1>2. k \in 1 .. k /\ \A i \in 1 .. k - 1 : i \in 1 .. k
  OBVIOUS
<1>3. SameQueues(s, u)
  BY DEF Counting, SameQueues
<1>4. ASSUME NEW d \in Groups
      PROVE  u.cfs[d].throttled = s.cfs[d].throttled
  BY DEF Counting
<1>5. ASSUME NEW d \in Groups, NEW i \in 1 .. k, q[i] = d
      PROVE  u.cfs[d].throttle_count = s.cfs[d].throttle_count + n
  <2>1. CASE d = q[k]
    <3>1. r.cfs[d].throttle_count = s.cfs[d].throttle_count
      BY <2>1 DEF Counting
    <3>. QED
      BY <2>1, <3>1
  <2>2. CASE d # q[k]
    <3>1. i \in 1 .. k - 1
      BY <1>1, <1>5, <2>2
    <3>2. r.cfs[d].throttle_count = s.cfs[d].throttle_count + n
      BY <1>5, <3>1 DEF Counting
    <3>. QED
      BY <2>2, <3>2
  <2>. QED
    BY <2>1, <2>2
<1>6. ASSUME NEW d \in Groups, \A i \in 1 .. k : q[i] # d
      PROVE  u.cfs[d].throttle_count = s.cfs[d].throttle_count
  <2>1. d # q[k] /\ \A i \in 1 .. k - 1 : q[i] # d
    BY <1>2, <1>6
  <2>2. r.cfs[d].throttle_count = s.cfs[d].throttle_count
    BY <2>1 DEF Counting
  <2>. QED
    BY <2>1, <2>2
<1>. QED
  BY <1>3, <1>4, <1>5, <1>6 DEF Counting

LEMMA CountingNone ==
  ASSUME NEW s, NEW q, NEW n
  PROVE  Counting(s, s, q, 0, n)
<1>1. 1 .. 0 = {}
  OBVIOUS
<1>. QED
  BY <1>1 DEF Counting, SameQueues

\* The counts of the members of S change by n.
CountsMove(s, r, S, n) ==
  /\ SameQueues(s, r)
  /\ \A d \in Groups :
       /\ r.cfs[d].throttled = s.cfs[d].throttled
       /\ r.cfs[d].throttle_count = s.cfs[d].throttle_count + (IF d \in S THEN n ELSE 0)

LEMMA CountingAll ==
  ASSUME NEW s \in State, NEW r, NEW q, NEW S, Lists(q, S), NEW n \in Int,
         Counting(s, r, q, Len(q), n)
  PROVE  CountsMove(s, r, S, n)
<1>1. ASSUME NEW d \in Groups
      PROVE  r.cfs[d].throttle_count = s.cfs[d].throttle_count + (IF d \in S THEN n ELSE 0)
  <2>0. s.cfs[d].throttle_count \in Int
    BY DEF State, CfsRqs
  <2>1. CASE d \in S
    <3>1. \E i \in 1 .. Len(q) : q[i] = d
      BY <2>1 DEF Lists
    <3>. QED
      BY <2>1, <3>1 DEF Counting
  <2>2. CASE d \notin S
    <3>1. \A i \in 1 .. Len(q) : q[i] # d
      BY <2>2 DEF Lists
    <3>2. r.cfs[d].throttle_count = s.cfs[d].throttle_count
      BY <3>1 DEF Counting
    <3>. QED
      BY <2>0, <2>2, <3>2
  <2>. QED
    BY <2>1, <2>2
<1>. QED
  BY <1>1 DEF Counting, CountsMove

LEMMA ThrottleDownAll ==
  ASSUME NEW s \in State, NEW S \in SUBSET Groups, NEW q \in Seq(Groups), Lists(q, S)
  PROVE  /\ FoldLeft(ThrottleDown, s, q) \in State
         /\ CountsMove(s, FoldLeft(ThrottleDown, s, q), S, 1)
<1> DEFINE n == Len(q)
           P == {p \in (0 .. n) \X State : Counting(s, p[2], q, p[1], 1)}
<1>1. n \in Nat /\ DOMAIN q = 1 .. n
  OBVIOUS
<1>2. << 0, s >> \in P
  BY CountingNone
<1>3. ASSUME NEW k \in 1 .. n, NEW x, << k - 1, x >> \in P
      PROVE  << k, ThrottleDown(x, q[k]) >> \in P
  <2>1. x \in State /\ Counting(s, x, q, k - 1, 1)
    BY <1>3
  <2>2. q[k] \in Groups /\ k \in Nat \ {0} /\ k \in 0 .. n
    BY <1>1
  <2>3. \A i \in 1 .. k - 1 : i \in 1 .. n /\ i # k
    OBVIOUS
  <2>4. \A i \in 1 .. k - 1 : q[i] # q[k]
    BY <2>3 DEF Lists
  <2> DEFINE u == ThrottleDown(x, q[k])
  <2>5. u \in State
    BY <2>1, <2>2, ThrottleDownIs
  <2>6. PICK y \in State : Same(x, y) /\ Recounted(y, q[k], 1, u)
    BY <2>1, <2>2, ThrottleDownIs
  <2> HIDE DEF u
  <2>7. /\ SameQueues(y, u) /\ \A d \in Groups : u.cfs[d].throttled = y.cfs[d].throttled
        /\ u.cfs[q[k]].throttle_count = y.cfs[q[k]].throttle_count + 1
        /\ \A d \in Groups : d # q[k] => u.cfs[d].throttle_count = y.cfs[d].throttle_count
    BY <2>2, <2>6, 1 \in Int, CountChange
  <2>8. /\ SameQueues(x, u) /\ \A d \in Groups : u.cfs[d].throttled = x.cfs[d].throttled
        /\ u.cfs[q[k]].throttle_count = x.cfs[q[k]].throttle_count + 1
        /\ \A d \in Groups : d # q[k] => u.cfs[d].throttle_count = x.cfs[d].throttle_count
    BY <2>2, <2>6, <2>7 DEF Same, SameQueues, SameThrottling
  <2>9. Counting(s, u, q, k, 1)
    BY <2>1, <2>2, <2>4, <2>5, <2>8, CountingOn
  <2>. QED
    BY <2>2, <2>5, <2>9 DEF u
<1> HIDE DEF P
<1>4. << n, FoldLeft(ThrottleDown, s, q) >> \in P
  BY <1>1, <1>2, <1>3, DownWalk
<1>. QED
  BY <1>4, CountingAll DEF P

LEMMA UnthrottleUpAll ==
  ASSUME NEW s \in State, NEW S \in SUBSET Groups, NEW q \in Seq(Groups), Lists(q, S)
  PROVE  /\ FoldLeft(UnthrottleUp, s, q) \in State
         /\ CountsMove(s, FoldLeft(UnthrottleUp, s, q), S, -1)
<1> DEFINE n == Len(q)
           P == {p \in (0 .. n) \X State : Counting(s, p[2], q, p[1], -1)}
<1>1. n \in Nat /\ DOMAIN q = 1 .. n
  OBVIOUS
<1>2. << 0, s >> \in P
  BY CountingNone
<1>3. ASSUME NEW k \in 1 .. n, NEW x, << k - 1, x >> \in P
      PROVE  << k, UnthrottleUp(x, q[k]) >> \in P
  <2>1. x \in State /\ Counting(s, x, q, k - 1, -1)
    BY <1>3
  <2>2. q[k] \in Groups /\ k \in Nat \ {0} /\ k \in 0 .. n
    BY <1>1
  <2>3. \A i \in 1 .. k - 1 : i \in 1 .. n /\ i # k
    OBVIOUS
  <2>4. \A i \in 1 .. k - 1 : q[i] # q[k]
    BY <2>3 DEF Lists
  <2> DEFINE u == UnthrottleUp(x, q[k])
  <2>5. u \in State
    BY <2>1, <2>2, UnthrottleUpIs
  <2>6. PICK y \in State : Recounted(x, q[k], -1, y) /\ Same(y, u)
    BY <2>1, <2>2, UnthrottleUpIs
  <2> HIDE DEF u
  <2>7. /\ SameQueues(x, y) /\ \A d \in Groups : y.cfs[d].throttled = x.cfs[d].throttled
        /\ y.cfs[q[k]].throttle_count = x.cfs[q[k]].throttle_count + (-1)
        /\ \A d \in Groups : d # q[k] => y.cfs[d].throttle_count = x.cfs[d].throttle_count
    BY <2>1, <2>2, <2>6, -1 \in Int, CountChange
  <2>8. /\ SameQueues(x, u) /\ \A d \in Groups : u.cfs[d].throttled = x.cfs[d].throttled
        /\ u.cfs[q[k]].throttle_count = x.cfs[q[k]].throttle_count + (-1)
        /\ \A d \in Groups : d # q[k] => u.cfs[d].throttle_count = x.cfs[d].throttle_count
    BY <2>2, <2>6, <2>7 DEF Same, SameQueues, SameThrottling
  <2>9. Counting(s, u, q, k, -1)
    BY <2>1, <2>2, <2>4, <2>5, <2>8, CountingOn
  <2>. QED
    BY <2>2, <2>5, <2>9 DEF u
<1> HIDE DEF P
<1>4. << n, FoldLeft(UnthrottleUp, s, q) >> \in P
  BY <1>1, <1>2, <1>3, UpWalk
<1>. QED
  BY <1>4, CountingAll DEF P

LEMMA ReverseLists ==
  ASSUME NEW T, NEW q \in Seq(T), NEW S, Lists(q, S)
  PROVE  Reverse(q) \in Seq(T) /\ Lists(Reverse(q), S)
<1> DEFINE n == Len(q)
           r == [i \in 1 .. n |-> q[(n - i) + 1]]
<1>1. Reverse(q) = r
  BY DEF Reverse
<1>2. n \in Nat /\ \A i \in 1 .. n : (n - i) + 1 \in 1 .. n /\ (n - ((n - i) + 1)) + 1 = i
  OBVIOUS
<1>3. r \in Seq(T) /\ Len(r) = n
  BY <1>2
<1>4. \A i \in 1 .. n : r[i] = q[(n - i) + 1]
  OBVIOUS
<1> HIDE DEF r
<1>5. ASSUME NEW i \in 1 .. n, NEW j \in 1 .. n, r[i] = r[j] PROVE i = j
  <2> DEFINE a == (n - i) + 1
             b == (n - j) + 1
  <2>1. a \in 1 .. n /\ b \in 1 .. n /\ q[a] = q[b]
    BY <1>2, <1>4, <1>5
  <2>2. (n - a) + 1 = i /\ (n - b) + 1 = j
    BY <1>2
  <2> HIDE DEF a, b
  <2>3. a = b
    BY <2>1 DEF Lists
  <2>. QED
    BY <2>2, <2>3
<1>6. \A i \in 1 .. n : r[i] \in S
  BY <1>2, <1>4 DEF Lists
<1>7. ASSUME NEW x \in S PROVE \E i \in 1 .. n : r[i] = x
  <2>1. PICK i \in 1 .. n : q[i] = x
    BY DEF Lists
  <2>2. (n - i) + 1 \in 1 .. n /\ r[(n - i) + 1] = q[i]
    BY <1>2, <1>4
  <2>. QED
    BY <2>1, <2>2
<1>. QED
  BY <1>1, <1>3, <1>5, <1>6, <1>7 DEF Lists

-----------------------------------------------------------------------------
(* The levels of a walk *)

Walks == [s : State, delta : Int, at : {"entity", "counts", "stop"}]

\* No queue gains an entity.
Shrinks(s, r) == \A d \in Groups : r.cfs[d].queue \subseteq s.cfs[d].queue

\* A cfs_rq changes in what the properties do not speak of.
LEMMA QuietChange ==
  ASSUME NEW s \in State, NEW g \in Groups, NEW v \in CfsRqs,
         v.on_list = s.cfs[g].on_list, v.queue = s.cfs[g].queue,
         v.throttled = s.cfs[g].throttled, v.throttle_count = s.cfs[g].throttle_count,
         NEW r, Changed(s, g, v, r)
  PROVE  r \in State /\ Same(s, r)
<1>1. r \in State /\ r.cfs[g] = v /\ \A d \in Groups : d # g => r.cfs[d] = s.cfs[d]
  BY CfsChange
<1>. QED
  BY <1>1 DEF Same, SameQueues, SameThrottling

LEMMA TallyIs ==
  ASSUME NEW w \in Walks, NEW l, l.q \in Groups, NEW n \in Int
  PROVE  /\ Tally(w, l, n) \in Walks /\ Tally(w, l, n).at = w.at
         /\ Same(w.s, Tally(w, l, n).s)
<1> DEFINE q == l.q
           c == w.s.cfs[q]
           delta == IF l.e \notin Tasks /\ w.s.cfs[l.e].idle THEN n ELSE w.delta
           v == [c EXCEPT !.h = @ + n, !.idle_h = @ + delta]
           s == w.s
           u == [s EXCEPT !.cfs[q] = v]
           r == Tally(w, l, n)
<1>1. s \in State /\ w.delta \in Int /\ delta \in Int
  BY DEF Walks
<1>2. s.cfs \in [Groups -> CfsRqs] /\ c \in CfsRqs /\ s \in [cfs : [Groups -> CfsRqs], rq : Rqs]
  BY <1>1 DEF State
<1>3. r = [w EXCEPT !.s.cfs[q] = v, !.delta = delta]
  BY Zenon DEF Tally
<1> HIDE DEF delta
<1>4. r = [s |-> u, delta |-> delta, at |-> w.at]
  <2> HIDE DEF r, q, v
  <2>. QED
    BY <1>2, <1>3 DEF Walks
<1>5. /\ v \in CfsRqs /\ v.on_list = c.on_list /\ v.queue = c.queue
      /\ v.throttled = c.throttled /\ v.throttle_count = c.throttle_count
  <2>1. c.h + n \in Int /\ c.idle_h + delta \in Int
    <3> HIDE DEF c
    <3>. QED
      BY <1>1, <1>2 DEF CfsRqs
  <2>2. v = [c EXCEPT !.h = c.h + n, !.idle_h = c.idle_h + delta]
    <3> HIDE DEF c
    <3>. QED
      BY <1>2 DEF CfsRqs
  <2> HIDE DEF c, v
  <2>. QED
    BY <1>2, <2>1, <2>2 DEF CfsRqs
<1>6. Changed(s, q, v, u)
  BY DEF Changed
<1> HIDE DEF v, u, r
<1>7. u \in State /\ Same(s, u)
  <2> HIDE DEF s, c
  <2>1. s \in State /\ v \in CfsRqs /\ q \in Groups
    BY <1>1, <1>5
  <2>2. v.on_list = s.cfs[q].on_list /\ v.queue = s.cfs[q].queue
        /\ v.throttled = s.cfs[q].throttled /\ v.throttle_count = s.cfs[q].throttle_count
    BY <1>5 DEF c, s
  <2> HIDE DEF q
  <2>. QED
    BY <1>6, <2>1, <2>2, QuietChange
<1>8. w.at \in {"entity", "counts", "stop"}
  BY DEF Walks
<1>. QED
  BY <1>1, <1>4, <1>7, <1>8 DEF Walks, r

\* Entity e is taken out of the queue of q.
TakesOut(s, r, q, e) == /\ SameThrottling(s, r)
                        /\ r.cfs[q].queue = s.cfs[q].queue \ {e}
                        /\ \A d \in Groups : d # q => r.cfs[d].queue = s.cfs[d].queue

LEMMA DequeueEntityIs ==
  ASSUME NEW s \in State, NEW l, l.q \in Groups
  PROVE  /\ DequeueEntity(s, l) \in State
         /\ TakesOut(s, DequeueEntity(s, l), l.q, l.e)
<1> DEFINE q == l.q
           c == s.cfs[q]
           k == IF IsIdleEntity(s, l.e) THEN 1 ELSE 0
           v == [c EXCEPT !.queue = @ \ {l.e}, !.idle_nr = @ - k]
           r == DequeueEntity(s, l)
<1>1. s.cfs \in [Groups -> CfsRqs] /\ c \in CfsRqs /\ s \in [cfs : [Groups -> CfsRqs], rq : Rqs]
  BY DEF State
<1>2. r = [s EXCEPT !.cfs[q].queue = @ \ {l.e}, !.cfs[q].idle_nr = @ - k]
  BY Zenon DEF DequeueEntity
<1>3. k \in Int
  OBVIOUS
<1> HIDE DEF k
<1>4. Changed(s, q, v, r)
  <2> HIDE DEF r
  <2>. QED
    BY <1>1, <1>2 DEF Changed
<1>5. /\ v \in CfsRqs /\ v.on_list = c.on_list /\ v.queue = c.queue \ {l.e}
      /\ v.throttled = c.throttled /\ v.throttle_count = c.throttle_count
  <2> HIDE DEF c
  <2>1. c.idle_nr - k \in Int /\ c.queue \ {l.e} \in SUBSET Entities
    BY <1>1, <1>3 DEF CfsRqs
  <2>. QED
    BY <1>1, <2>1 DEF CfsRqs
<1>6. q \in Groups
  OBVIOUS
<1> HIDE DEF v, r, q
<1>7. r \in State /\ r.cfs[q] = v /\ \A d \in Groups : d # q => r.cfs[d] = s.cfs[d]
  BY <1>4, <1>5, <1>6, CfsChange
<1>8. r \in State /\ TakesOut(s, r, q, l.e)
  BY <1>5, <1>7 DEF SameThrottling, TakesOut
<1>. QED
  BY <1>8 DEF r, q

\* No group is its own parent.
LEMMA ParentIsOther ==
  ASSUME NEW g \in Groups, g # Root
  PROVE  Parent[g] # g
<1>1. {g} \in (SUBSET Groups) \ {{}}
  OBVIOUS
<1>. QED
  BY <1>1, HierarchyAssumption

\* An entity leaves that has no work, or is excepted.
Leaves(on, hm, X, s, r, q, e) ==
  /\ q \in on /\ e # Root
  /\ e \in Groups => /\ Parent[e] = q
                     /\ e \in X \/ s.cfs[e].queue = {}
  /\ QueuesRight(s, on, hm, X \cup {e})
  /\ TakesOut(s, r, q, e)

\* Then the one that may be wrong is the one whose queue is left empty.
LEMMA TakenOut ==
  ASSUME NEW on, Rooted(on), NEW hm, NEW X, NEW s, NEW r, NEW q, NEW e,
         Leaves(on, hm, X, s, r, q, e)
  PROVE  /\ Shrinks(s, r) /\ e \notin r.cfs[q].queue
         /\ QueuesRight(r, on, hm, X \cup {q})
         /\ r.cfs[q].queue # {} => QueuesRight(r, on, hm, X)
<1>0. /\ q \in on /\ e # Root
      /\ e \in Groups => /\ Parent[e] = q
                         /\ e \in X \/ s.cfs[e].queue = {}
      /\ QueuesRight(s, on, hm, X \cup {e})
      /\ TakesOut(s, r, q, e)
  BY DEF Leaves
<1>1. q \in Groups /\ on \subseteq Groups
  BY <1>0 DEF Rooted
<1>2. Shrinks(s, r) /\ e \notin r.cfs[q].queue
  BY <1>0 DEF Shrinks, TakesOut
<1>3. /\ \A g \in Groups : r.cfs[g].throttled = s.cfs[g].throttled
      /\ r.cfs[q].queue = s.cfs[q].queue \ {e}
      /\ \A d \in Groups : d # q => r.cfs[d].queue = s.cfs[d].queue
  BY <1>0 DEF SameThrottling, TakesOut
<1>4. \A g \in Groups \ on : r.cfs[g].queue = {} /\ ~r.cfs[g].throttled
  BY <1>0, <1>2, <1>3 DEF QueuesRight, Shrinks
<1>5. \A d \in Groups : \A x \in r.cfs[d].queue : IsChild(x, d, on, hm)
  BY <1>0, <1>2 DEF QueuesRight, Shrinks
<1>6. ASSUME NEW g \in on \ {Root}, g \notin X, g # q \/ r.cfs[q].queue # {}
      PROVE  g \in r.cfs[Parent[g]].queue <=> HasWork(r, g)
  <2>1. g \in Groups /\ Parent[g] \in Groups
    BY DEF Rooted
  <2>2. CASE g = e
    <3>1. Parent[g] = q /\ g # q
      BY <1>0, <2>1, <2>2, ParentIsOther
    <3>2. s.cfs[g].queue = {}
      BY <1>0, <1>6, <2>1, <2>2
    <3>3. ~HasWork(r, g)
      BY <1>3, <2>1, <3>1, <3>2 DEF HasWork
    <3>. QED
      BY <1>2, <2>2, <3>1, <3>3
  <2>3. CASE g # e
    <3>1. g \in s.cfs[Parent[g]].queue <=> HasWork(s, g)
      BY <1>0, <1>6, <2>3 DEF QueuesRight
    <3>2. g \in r.cfs[Parent[g]].queue <=> g \in s.cfs[Parent[g]].queue
      BY <1>3, <2>1, <2>3
    <3>3. r.cfs[g].queue # {} <=> s.cfs[g].queue # {}
      BY <1>3, <1>6, <2>1
    <3>. QED
      BY <1>3, <2>1, <3>1, <3>2, <3>3 DEF HasWork
  <2>. QED
    BY <2>2, <2>3
<1>. QED
  BY <1>2, <1>4, <1>5, <1>6 DEF QueuesRight

LEMMA TakeOutIs ==
  ASSUME NEW w \in Walks, NEW l, l.q \in Groups, w.at = "entity"
  PROVE  LET r == TakeOut(w, l)
         IN  /\ r \in Walks /\ r.s = DequeueEntity(w.s, l)
             /\ r.at = IF r.s.cfs[l.q].queue = {} THEN "entity" ELSE "counts"
<1> DEFINE x == [w EXCEPT !.s = DequeueEntity(@, l)]
<1>1. DequeueEntity(w.s, l) \in State
  BY DequeueEntityIs DEF Walks
<1>2. x \in Walks /\ x.s = DequeueEntity(w.s, l) /\ x.at = "entity"
  BY <1>1 DEF Walks
<1>3. TakeOut(w, l) = IF x.s.cfs[l.q].queue = {} THEN x ELSE [x EXCEPT !.at = "counts"]
  BY Zenon DEF TakeOut
<1> HIDE DEF x
<1>. QED
  BY <1>2, <1>3 DEF Walks

LEMMA StopIs ==
  ASSUME NEW w \in Walks, NEW b
  PROVE  /\ StopIf(w, b) \in Walks /\ StopIf(w, b).s = w.s
         /\ StopIf(w, b).at = IF b THEN "stop" ELSE w.at
BY DEF StopIf, Walks

\* An entity that is as it should be need not be excepted.
LEMMA NotPending ==
  ASSUME NEW s, NEW on, NEW hm, NEW X, NEW q, QueuesRight(s, on, hm, X \cup {q}),
         q \in on \ {Root} => (q \in s.cfs[Parent[q]].queue <=> HasWork(s, q))
  PROVE  QueuesRight(s, on, hm, X)
BY DEF QueuesRight

LEMMA ShrinksTwice ==
  ASSUME NEW s, NEW r, NEW u, Shrinks(s, r), Shrinks(r, u)
  PROVE  Shrinks(s, u)
BY DEF Shrinks

LEMMA ThrottlingTwice ==
  ASSUME NEW s, NEW r, NEW u, SameThrottling(s, r), SameThrottling(r, u)
  PROVE  SameThrottling(s, u)
BY DEF SameThrottling

LEMMA SameShrinks ==
  ASSUME NEW s, NEW r, Same(s, r)
  PROVE  Shrinks(s, r) /\ SameThrottling(s, r)
BY DEF Same, SameQueues, Shrinks

\* What a walk that started with entity e and has come k levels up has yet to look at
Pending(l, k, e) == IF k = 0 THEN e ELSE l[k].q

-----------------------------------------------------------------------------
(* Throttling *)

\* The walk of throttle_cfs_rq(): group g has left its parent's queue, and the entity
\* that is pending has nothing in its own.
Leaving(s0, g, on, hm, l, k, w) ==
  LET E == Pending(l, k, g)
  IN  /\ w \in Walks /\ SameThrottling(s0, w.s) /\ Shrinks(s0, w.s)
      /\ k = 0 => w.at = "entity"
      /\ k > 0 => g \notin w.s.cfs[Parent[g]].queue
      /\ w.at # "entity" => QueuesRight(w.s, on, hm, {g})
      /\ w.at = "entity" => /\ QueuesRight(w.s, on, hm, {g} \cup {E})
                            /\ k > 0 => w.s.cfs[E].queue = {}

\* The entity of a level is what is pending, and a group below that of the level.
LEMMA LevelOf ==
  ASSUME NEW on, Rooted(on), NEW g, NEW q, NEW l, NEW n \in Nat, Ladder(l, n, g, q, on),
         g \in Groups => g \in on \ {Root} /\ Parent[g] = q,
         g \in Groups \cup Tasks, NEW k \in 1 .. n
  PROVE  /\ l[k].e = Pending(l, k - 1, g) /\ l[k].q \in on /\ l[k].q \in Groups
         /\ l[k].e # Root
         /\ l[k].e \in Groups => l[k].e \in on \ {Root} /\ Parent[l[k].e] = l[k].q
         /\ k > 1 => l[k].e \in Groups
         /\ k = 1 => l[k].e = g /\ l[k].q = q
         /\ Pending(l, k, g) = l[k].q
<1>1. CASE k = 1
  <2>1. l[k].e = g /\ l[k].q = q /\ l[k].q \in on
    BY <1>1 DEF Ladder
  <2>2. g # Root
    BY HierarchyAssumption
  <2>. QED
    BY <1>1, <2>1, <2>2 DEF Pending, Rooted
<1>2. CASE k # 1
  <2>1. k - 1 \in 1 .. n /\ k - 1 # 0 /\ k > 1 /\ k # 0
    BY <1>2
  <2>2. /\ l[k].e = l[k - 1].q /\ l[k].e # Root /\ l[k].q = Parent[l[k].e]
        /\ l[k - 1].q \in on /\ l[k].q \in on
    BY <1>2, <2>1 DEF Ladder
  <2>. QED
    BY <2>1, <2>2 DEF Pending, Rooted
<1>. QED
  BY <1>1, <1>2

LEMMA LeavingOn ==
  ASSUME NEW on, Rooted(on), NEW hm, NEW g \in on \ {Root}, NEW l, NEW n \in Nat,
         Ladder(l, n, g, Parent[g], on), NEW m \in Int, NEW s0,
         NEW k \in 1 .. n, NEW w, Leaving(s0, g, on, hm, l, k - 1, w)
  PROVE  Leaving(s0, g, on, hm, l, k, ThrottleLevel(m, w, l[k]))
<1> DEFINE q == l[k].q
           e == l[k].e
           u == ThrottleLevel(m, w, l[k])
<1>1. /\ e = Pending(l, k - 1, g) /\ q \in on /\ q \in Groups /\ e \in on \ {Root}
      /\ e \in Groups /\ Parent[e] = q /\ e # Root
      /\ k = 1 => e = g /\ q = Parent[g]
      /\ Pending(l, k, g) = q
  <2>1. g \in Groups
    BY DEF Rooted
  <2>2. k = 1 \/ k > 1
    OBVIOUS
  <2>. QED
    BY <2>1, <2>2, LevelOf
<1>2. /\ w \in Walks /\ SameThrottling(s0, w.s) /\ Shrinks(s0, w.s)
      /\ k = 1 => w.at = "entity"
      /\ k > 1 => g \notin w.s.cfs[Parent[g]].queue
      /\ w.at # "entity" => QueuesRight(w.s, on, hm, {g})
      /\ w.at = "entity" => /\ QueuesRight(w.s, on, hm, {g} \cup {e})
                            /\ k > 1 => w.s.cfs[e].queue = {}
  BY <1>1 DEF Leaving
<1>3. k > 0 /\ (k = 1 \/ k > 1) /\ k # 0
  OBVIOUS
<1> HIDE DEF q, e
<1>4. CASE w.at = "stop" \/ e \notin w.s.cfs[q].queue
  <2>1. u = StopIf(w, TRUE)
    BY <1>4, Zenon DEF ThrottleLevel, q, e
  <2>2. u \in Walks /\ u.s = w.s /\ u.at = "stop"
    BY <1>2, <2>1, StopIs
  <2>3. g \notin w.s.cfs[Parent[g]].queue
    BY <1>1, <1>2, <1>3, <1>4
  <2>4. QueuesRight(w.s, on, hm, {g})
    <3>1. CASE w.at = "entity"
      <4>1. e # g => ~HasWork(w.s, e)
        BY <1>1, <1>2, <1>3, <3>1 DEF HasWork
      <4>2. CASE e = g
        <5>1. {g} \cup {e} = {g}
          BY <4>2
        <5>. QED
          BY <1>2, <3>1, <5>1
      <4>3. CASE e # g
        BY <1>1, <1>2, <1>4, <3>1, <4>1, <4>3, NotPending
      <4>. QED
        BY <4>2, <4>3
    <3>. QED
      BY <1>2, <3>1
  <2>. QED
    BY <1>2, <1>3, <2>2, <2>3, <2>4 DEF Leaving
<1>5. CASE w.at # "stop" /\ e \in w.s.cfs[q].queue
  <2> DEFINE x == TakeOut(w, l[k])
  <2>1. u = Tally(x, l[k], -m)
    BY <1>5, Zenon DEF ThrottleLevel, q, e
  <2>2. /\ x \in Walks /\ SameThrottling(s0, x.s) /\ Shrinks(s0, x.s)
        /\ g \notin x.s.cfs[Parent[g]].queue
        /\ x.at # "entity" => QueuesRight(x.s, on, hm, {g})
        /\ x.at = "entity" => QueuesRight(x.s, on, hm, {g} \cup {q}) /\ x.s.cfs[q].queue = {}
    <3>1. CASE w.at # "entity"
      <4>1. x = w
        BY <3>1 DEF TakeOut
      <4>. QED
        BY <1>2, <1>3, <3>1, <4>1
    <3>2. CASE w.at = "entity"
      <4> DEFINE r == DequeueEntity(w.s, l[k])
      <4>1. /\ x \in Walks /\ x.s = r
            /\ x.at = IF r.cfs[q].queue = {} THEN "entity" ELSE "counts"
        BY <1>1, <1>2, <3>2, TakeOutIs DEF q
      <4>2. TakesOut(w.s, r, q, e) /\ SameThrottling(w.s, r)
        <5>1. w.s \in State
          BY <1>2 DEF Walks
        <5>. QED
          BY <1>1, <5>1, DequeueEntityIs DEF q, e, TakesOut
      <4> HIDE DEF r, x
      <4>3. e \in {g} \/ w.s.cfs[e].queue = {}
        BY <1>1, <1>2, <1>3, <3>2
      <4>4. /\ Shrinks(w.s, r) /\ e \notin r.cfs[q].queue
            /\ QueuesRight(r, on, hm, {g} \cup {q})
            /\ r.cfs[q].queue # {} => QueuesRight(r, on, hm, {g})
        <5> DEFINE X == {g}
                   s == w.s
        <5>1. Leaves(on, hm, X, s, r, q, e)
          BY <1>1, <1>2, <3>2, <4>2, <4>3 DEF Leaves
        <5> HIDE DEF X, s
        <5>4. /\ Shrinks(s, r) /\ e \notin r.cfs[q].queue
              /\ QueuesRight(r, on, hm, X \cup {q})
              /\ r.cfs[q].queue # {} => QueuesRight(r, on, hm, X)
          BY <5>1, TakenOut
        <5>. QED
          BY <5>4 DEF X, s
      <4>5. Parent[g] \in Groups
        BY DEF Rooted
      <4>6. g \notin r.cfs[Parent[g]].queue
        BY <1>1, <1>2, <1>3, <4>4, <4>5 DEF Shrinks
      <4>. QED
        BY <1>2, <4>1, <4>2, <4>4, <4>6, ThrottlingTwice, ShrinksTwice
    <3>. QED
      BY <3>1, <3>2
  <2> HIDE DEF x
  <2>3. -m \in Int
    OBVIOUS
  <2>4. u \in Walks /\ u.at = x.at /\ Same(x.s, u.s)
    BY <1>1, <2>1, <2>2, <2>3, TallyIs DEF q
  <2>5. /\ SameThrottling(s0, u.s) /\ Shrinks(s0, u.s)
    BY <2>2, <2>4, SameShrinks, ThrottlingTwice, ShrinksTwice
  <2>6. \A X : QueuesRight(x.s, on, hm, X) => QueuesRight(u.s, on, hm, X)
    BY <2>4, SameRight
  <2>7. g \notin u.s.cfs[Parent[g]].queue /\ u.s.cfs[q].queue = x.s.cfs[q].queue
    <3>1. Parent[g] \in Groups
      BY DEF Rooted
    <3>. QED
      BY <1>1, <2>2, <2>4, <3>1 DEF Same, SameQueues
  <2> HIDE DEF u
  <2>. QED
    BY <1>1, <1>3, <2>2, <2>4, <2>5, <2>6, <2>7 DEF Leaving, u
<1>. QED
  BY <1>4, <1>5


\* What the walks below keep, but for the groups of X
Sound(s, on, hm, X) == s \in State /\ CountsRight(s, on) /\ QueuesRight(s, on, hm, X)

LEMMA MoreExcepted ==
  ASSUME NEW s, NEW on, NEW hm, NEW X, NEW Y, X \subseteq Y, QueuesRight(s, on, hm, X)
  PROVE  QueuesRight(s, on, hm, Y)
BY DEF QueuesRight

\* The end of a walk changes the number of the CPU's tasks at most.
LEMMA DoneIs ==
  ASSUME NEW w \in Walks, NEW n \in Int
  PROVE  Done(w, n) \in State /\ Same(w.s, Done(w, n))
<1>1. w.s \in State
  BY DEF Walks
<1>2. CASE w.at = "stop"
  BY <1>1, <1>2, SameSelf DEF Done
<1>3. CASE w.at # "stop"
  <2> DEFINE s == w.s
             r == [s EXCEPT !.rq.nr_running = @ + n]
  <2>1. Done(w, n) = r
    BY <1>3 DEF Done
  <2>2. s \in State
    BY <1>1
  <2> HIDE DEF s
  <2>3. s \in [cfs : [Groups -> CfsRqs], rq : Rqs] /\ s.rq.nr_running + n \in Int
    BY <2>2 DEF State, Rqs
  <2>4. r.cfs = s.cfs /\ r.rq \in Rqs /\ r.rq.leaf = s.rq.leaf /\ r.rq.branch = s.rq.branch
        /\ r \in [cfs : [Groups -> CfsRqs], rq : Rqs]
    BY <2>3 DEF Rqs
  <2> HIDE DEF r
  <2>5. r \in State
    BY <2>2, <2>4 DEF State, ListRight, OnList
  <2>6. Same(s, r)
    BY <2>4 DEF Same, SameQueues, SameThrottling
  <2>. QED
    BY <2>1, <2>5, <2>6 DEF s
<1>. QED
  BY <1>2, <1>3

LEMMA WalkIs ==
  ASSUME NEW s \in State, NEW d \in Int
  PROVE  Walk(s, d) \in Walks /\ Walk(s, d).s = s /\ Walk(s, d).at = "entity"
BY DEF Walk, Walks

LEMMA LeaveAll ==
  ASSUME NEW on, Rooted(on), NEW hm, NEW g \in on \ {Root}, NEW s \in State,
         QueuesRight(s, on, hm, {g}), NEW m \in Int, NEW d \in Int
  PROVE  LET w == LeaveFold(m, Walk(s, d), GroupLevels(g))
         IN  /\ w \in Walks /\ SameThrottling(s, w.s) /\ Shrinks(s, w.s)
             /\ g \notin w.s.cfs[Parent[g]].queue
             /\ QueuesRight(w.s, on, hm, {g})
<1> DEFINE l == GroupLevels(g)
           e == Walk(s, d)
           w == LeaveFold(m, e, l)
<1>1. Parent[g] \in on /\ l = Levels(g, Parent[g])
  BY DEF Rooted, GroupLevels
<1> HIDE DEF l
<1>2. PICK n \in Nat : Ladder(l, n, g, Parent[g], on)
  BY <1>1, LevelsClimb
<1>3. n # 0 /\ DOMAIN l = 1 .. n /\ l[n].q = Root
  BY <1>2 DEF Ladder
<1> DEFINE P == {p \in (0 .. n) \X Walks : Leaving(s, g, on, hm, l, p[1], p[2])}
<1>4. << 0, e >> \in P
  <2>1. e \in Walks /\ e.s = s /\ e.at = "entity"
    BY WalkIs
  <2> HIDE DEF e
  <2>2. {g} \cup {Pending(l, 0, g)} = {g}
    BY DEF Pending
  <2>3. SameThrottling(s, s) /\ Shrinks(s, s)
    BY DEF SameThrottling, Shrinks
  <2>4. Leaving(s, g, on, hm, l, 0, e)
    BY <2>1, <2>2, <2>3 DEF Leaving
  <2>. QED
    BY <2>1, <2>4
<1>5. ASSUME NEW k \in 1 .. n, NEW x, << k - 1, x >> \in P
      PROVE  << k, ThrottleLevel(m, x, l[k]) >> \in P
  <2>1. Leaving(s, g, on, hm, l, k - 1, x)
    BY <1>5
  <2> DEFINE u == ThrottleLevel(m, x, l[k])
  <2>2. Leaving(s, g, on, hm, l, k, u)
    BY <1>2, <2>1, LeavingOn
  <2> HIDE DEF u
  <2>3. u \in Walks
    BY <2>2 DEF Leaving
  <2>. QED
    BY <2>2, <2>3 DEF u
<1> HIDE DEF P, e
<1>6. << n, w >> \in P
  BY <1>3, <1>4, <1>5, LeaveWalk
<1> HIDE DEF w
<1>7. Leaving(s, g, on, hm, l, n, w)
  BY <1>6 DEF P
<1>8. Pending(l, n, g) = Root
  BY <1>3 DEF Pending
<1>9. QueuesRight(w.s, on, hm, {g})
  <2>1. CASE w.at = "entity"
    <3>1. QueuesRight(w.s, on, hm, {g} \cup {Root})
      BY <1>7, <1>8, <2>1 DEF Leaving
    <3>. QED
      BY <3>1, NotPending
  <2>2. CASE w.at # "entity"
    BY <1>7, <2>2 DEF Leaving
  <2>. QED
    BY <2>1, <2>2
<1>. QED
  BY <1>3, <1>7, <1>9 DEF Leaving, w, e, l


\* A change of whether a group is throttled
Marked(s, g, b, r) == r = [s EXCEPT !.cfs[g].throttled = b]

LEMMA MarkIs ==
  ASSUME NEW s \in State, NEW g \in Groups, NEW b \in BOOLEAN, NEW r, Marked(s, g, b, r)
  PROVE  /\ r \in State /\ SameQueues(s, r) /\ r.cfs[g].throttled = b
         /\ \A d \in Groups : r.cfs[d].throttle_count = s.cfs[d].throttle_count
         /\ \A d \in Groups : d # g => r.cfs[d].throttled = s.cfs[d].throttled
<1> DEFINE v == [s.cfs[g] EXCEPT !.throttled = b]
<1>1. s.cfs \in [Groups -> CfsRqs] /\ s.cfs[g] \in CfsRqs
  BY DEF State
<1>2. /\ v \in CfsRqs /\ v.on_list = s.cfs[g].on_list /\ v.queue = s.cfs[g].queue
      /\ v.throttled = b /\ v.throttle_count = s.cfs[g].throttle_count
  BY <1>1 DEF CfsRqs
<1>3. Changed(s, g, v, r)
  BY DEF State, Changed, Marked
<1> HIDE DEF v
<1>4. r \in State /\ r.cfs[g] = v /\ \A d \in Groups : d # g => r.cfs[d] = s.cfs[d]
  BY <1>2, <1>3, CfsChange
<1>. QED
  BY <1>2, <1>4 DEF SameQueues

\* The groups that have g above them, or are g
Below(g, on) == {d \in on : g \in Ancestors(d)}

LEMMA SubtreeLists ==
  ASSUME NEW g \in Groups, online \subseteq Groups
  PROVE  /\ Below(g, online) \in SUBSET Groups
         /\ Subtree(g) \in Seq(Groups) /\ Lists(Subtree(g), Below(g, online))
<1>1. Below(g, online) \in SUBSET Groups /\ Subtree(g) = TopDown[Below(g, online)]
  BY DEF Below, Subtree
<1>. QED
  BY <1>1, TopDownLists

\* Group g is throttled in r and not in s, and the count of each group below is one more.
LEMMA CountsMarked ==
  ASSUME NEW s \in State, NEW r \in State, NEW on, Rooted(on), NEW g \in Groups,
         ~s.cfs[g].throttled, r.cfs[g].throttled,
         \A d \in Groups : d # g => r.cfs[d].throttled = s.cfs[d].throttled,
         \A d \in Groups : r.cfs[d].throttle_count
                             = s.cfs[d].throttle_count + (IF d \in Below(g, on) THEN 1 ELSE 0)
  PROVE  CountsRight(s, on) <=> CountsRight(r, on)
<1>1. ASSUME NEW d \in on
      PROVE  s.cfs[d].throttle_count = Cardinality(ThrottledAbove(s, d))
               <=> r.cfs[d].throttle_count = Cardinality(ThrottledAbove(r, d))
  <2> DEFINE A == ThrottledAbove(s, d)
  <2>1. d \in Groups /\ Ancestors(d) \subseteq Groups /\ IsFiniteSet(Ancestors(d))
    BY AncestorsOf DEF Rooted
  <2>2. IsFiniteSet(A) /\ g \notin A /\ Cardinality(A) \in Nat
    BY <2>1, FS_Subset, FS_CardinalityType DEF ThrottledAbove
  <2>3. s.cfs[d].throttle_count \in Int
    BY <2>1 DEF State, CfsRqs
  <2>4. CASE g \in Ancestors(d)
    <3>1. ThrottledAbove(r, d) = A \cup {g}
      BY <2>1, <2>4 DEF ThrottledAbove
    <3> HIDE DEF A
    <3>2. Cardinality(A \cup {g}) = Cardinality(A) + 1
      BY <2>2, FS_AddElement
    <3>3. r.cfs[d].throttle_count = s.cfs[d].throttle_count + 1
      BY <2>1, <2>4 DEF Below
    <3>. QED
      BY <2>2, <2>3, <3>1, <3>2, <3>3 DEF A
  <2>5. CASE g \notin Ancestors(d)
    <3>1. ThrottledAbove(r, d) = A
      BY <2>1, <2>5 DEF ThrottledAbove
    <3>2. r.cfs[d].throttle_count = s.cfs[d].throttle_count
      BY <2>1, <2>3, <2>5 DEF Below
    <3>. QED
      BY <3>1, <3>2
  <2>. QED
    BY <2>4, <2>5
<1>. QED
  BY <1>1 DEF CountsRight

\* Throttling a group makes right what may be wrong about its entity.
LEMMA ThrottleIs ==
  ASSUME Rooted(online), NEW hm, NEW g \in online \ {Root}, NEW s,
         Sound(s, online, hm, {g}), ~s.cfs[g].throttled
  PROVE  /\ Sound(Throttle(s, g), online, hm, {})
         /\ Throttle(s, g).cfs[g].throttled /\ Shrinks(s, Throttle(s, g))
<1> DEFINE on == online
           x == FoldLeft(ThrottleDown, s, Subtree(g))
           w == LeaveFold(x.cfs[g].h, Walk(x, -x.cfs[g].idle_h), GroupLevels(g))
           u == Done(w, -x.cfs[g].h)
           r == Throttle(s, g)
<1>1. Marked(u, g, TRUE, r)
  BY Zenon DEF Throttle, LeaveFold, Marked
<1>2. s \in State /\ CountsRight(s, on) /\ QueuesRight(s, on, hm, {g})
  BY DEF Sound
<1>3. g \in Groups /\ on \subseteq Groups /\ Parent[g] \in Groups /\ Parent[g] \in on
  BY DEF Rooted
<1>4. x \in State /\ CountsMove(s, x, Below(g, on), 1)
  BY <1>2, <1>3, SubtreeLists, ThrottleDownAll
<1> HIDE DEF x, r
<1>5. QueuesRight(x, on, hm, {g})
  <2>1. SameQueues(s, x) /\ \A d \in Groups : x.cfs[d].throttled = s.cfs[d].throttled
    BY <1>4 DEF CountsMove
  <2>2. \A d \in Groups : HasWork(x, d) = HasWork(s, d)
    BY <2>1 DEF HasWork, SameQueues
  <2>3. \A d \in on \ {Root} : d \in Groups /\ Parent[d] \in Groups
    BY DEF Rooted
  <2>. QED
    BY <1>2, <2>1, <2>2, <2>3 DEF QueuesRight, SameQueues
<1>6. x.cfs[g].h \in Int /\ -x.cfs[g].h \in Int /\ -x.cfs[g].idle_h \in Int
  <2>1. x.cfs[g].h \in Int /\ x.cfs[g].idle_h \in Int
    BY <1>3, <1>4 DEF State, CfsRqs
  <2>. QED
    BY <2>1
<1>7. /\ w \in Walks /\ SameThrottling(x, w.s) /\ Shrinks(x, w.s)
      /\ g \notin w.s.cfs[Parent[g]].queue
      /\ QueuesRight(w.s, on, hm, {g})
  <2> DEFINE m == x.cfs[g].h
             d == -x.cfs[g].idle_h
  <2>1. m \in Int /\ d \in Int
    BY <1>6
  <2> HIDE DEF m, d
  <2> DEFINE v == LeaveFold(m, Walk(x, d), GroupLevels(g))
  <2>2. /\ v \in Walks /\ SameThrottling(x, v.s) /\ Shrinks(x, v.s)
        /\ g \notin v.s.cfs[Parent[g]].queue
        /\ QueuesRight(v.s, on, hm, {g})
    BY <1>4, <1>5, <2>1, LeaveAll
  <2>. QED
    BY <2>2, Zenon DEF v, m, d
<1> HIDE DEF w
<1>8. u \in State /\ Same(w.s, u)
  BY <1>6, <1>7, DoneIs
<1> HIDE DEF u
<1>9. /\ SameThrottling(x, u) /\ Shrinks(x, u) /\ g \notin u.cfs[Parent[g]].queue
      /\ QueuesRight(u, on, hm, {g})
  BY <1>3, <1>7, <1>8, SameRight, SameShrinks, ThrottlingTwice, ShrinksTwice
     DEF Same, SameQueues
<1>10. /\ r \in State /\ SameQueues(u, r) /\ r.cfs[g].throttled
       /\ \A d \in Groups : r.cfs[d].throttle_count = u.cfs[d].throttle_count
       /\ \A d \in Groups : d # g => r.cfs[d].throttled = u.cfs[d].throttled
  <2> DEFINE b == TRUE
  <2>1. b \in BOOLEAN /\ Marked(u, g, b, r)
    BY <1>1
  <2> HIDE DEF b
  <2>2. /\ r \in State /\ SameQueues(u, r) /\ r.cfs[g].throttled = b
        /\ \A d \in Groups : r.cfs[d].throttle_count = u.cfs[d].throttle_count
        /\ \A d \in Groups : d # g => r.cfs[d].throttled = u.cfs[d].throttled
    BY <1>3, <1>8, <2>1, MarkIs
  <2>. QED
    BY <2>2, Zenon DEF b
<1>11. Shrinks(s, r)
  BY <1>4, <1>9, <1>10 DEF CountsMove, SameQueues, Shrinks
<1>12. CountsRight(r, on)
  <2>1. \A d \in Groups : d # g => r.cfs[d].throttled = s.cfs[d].throttled
    BY <1>4, <1>9, <1>10 DEF CountsMove, SameThrottling
  <2>2. \A d \in Groups : r.cfs[d].throttle_count
                             = s.cfs[d].throttle_count + (IF d \in Below(g, on) THEN 1 ELSE 0)
    BY <1>4, <1>9, <1>10 DEF CountsMove, SameThrottling
  <2>. QED
    BY <1>2, <1>3, <1>10, <2>1, <2>2, CountsMarked
<1>13. QueuesRight(r, on, hm, {})
  <2>1. \A d \in Groups \ on : r.cfs[d].queue = {} /\ ~r.cfs[d].throttled
    BY <1>3, <1>9, <1>10 DEF QueuesRight, SameQueues
  <2>2. \A d \in Groups : \A e \in r.cfs[d].queue : IsChild(e, d, on, hm)
    BY <1>9, <1>10 DEF QueuesRight, SameQueues
  <2>3. ASSUME NEW d \in on \ {Root}
        PROVE  d \in r.cfs[Parent[d]].queue <=> HasWork(r, d)
    <3>1. d \in Groups /\ Parent[d] \in Groups
      BY DEF Rooted
    <3>2. CASE d = g
      BY <1>3, <1>9, <1>10, <3>2 DEF HasWork, SameQueues
    <3>3. CASE d # g
      BY <1>9, <1>10, <3>1, <3>3 DEF HasWork, SameQueues, QueuesRight
    <3>. QED
      BY <3>2, <3>3
  <2>. QED
    BY <2>1, <2>2, <2>3 DEF QueuesRight
<1>. QED
  BY <1>10, <1>11, <1>12, <1>13 DEF Sound, r


-----------------------------------------------------------------------------
(* A task leaves *)

Away(s, t) == \A d \in Groups : t \notin s.cfs[d].queue

\* The walk of dequeue_task_fair()
Dequeuing(s0, t, on, hm, l, k, w) ==
  LET E == Pending(l, k, t)
  IN  /\ w \in Walks /\ SameThrottling(s0, w.s) /\ Shrinks(s0, w.s)
      /\ k = 0 => w.at = "entity"
      /\ k > 0 => t \notin w.s.cfs[hm[t]].queue
      /\ w.at # "entity" => QueuesRight(w.s, on, hm, {})
      /\ w.at = "entity" => /\ QueuesRight(w.s, on, hm, {E})
                            /\ k > 0 => w.s.cfs[E].queue = {}

\* A throttled group is not queued, so a walk that stops there leaves nothing pending.
LEMMA FrozenIs ==
  ASSUME NEW on, Rooted(on), NEW hm, NEW q \in Groups, NEW e, e # q,
         NEW s, QueuesRight(s, on, hm, {e}), NEW r, SameThrottling(s, r),
         q # Root => (q \in r.cfs[Parent[q]].queue => q \in s.cfs[Parent[q]].queue),
         QueuesRight(r, on, hm, {q}), r.cfs[q].throttled
  PROVE  QueuesRight(r, on, hm, {})
<1>1. s.cfs[q].throttled
  BY DEF SameThrottling
<1>2. ~HasWork(s, q) /\ ~HasWork(r, q)
  BY <1>1 DEF HasWork
<1>3. q \in on \ {Root} => (q \in r.cfs[Parent[q]].queue <=> HasWork(r, q))
  BY <1>2 DEF QueuesRight
<1>4. {} \cup {q} = {q}
  OBVIOUS
<1>. QED
  BY <1>3, <1>4, NotPending

LEMMA DequeuingOn ==
  ASSUME NEW on, Rooted(on), NEW hm \in [Tasks -> on], NEW t \in Tasks, NEW l, NEW n \in Nat,
         Ladder(l, n, t, hm[t], on), NEW s0,
         NEW k \in 1 .. n, NEW w, Dequeuing(s0, t, on, hm, l, k - 1, w)
  PROVE  Dequeuing(s0, t, on, hm, l, k, DequeueLevel(w, l[k]))
<1> DEFINE q == l[k].q
           e == l[k].e
           u == DequeueLevel(w, l[k])
<1>0. t \notin Groups /\ k > 0 /\ (k = 1 \/ k > 1) /\ k # 0
  BY HierarchyAssumption
<1>1. /\ e = Pending(l, k - 1, t) /\ q \in on /\ q \in Groups /\ e # Root
      /\ e \in Groups => e \in on \ {Root} /\ Parent[e] = q
      /\ k > 1 => e \in Groups
      /\ k = 1 => e = t /\ q = hm[t]
      /\ Pending(l, k, t) = q
  BY <1>0, LevelOf
<1>2. /\ w \in Walks /\ SameThrottling(s0, w.s) /\ Shrinks(s0, w.s)
      /\ k = 1 => w.at = "entity"
      /\ k > 1 => t \notin w.s.cfs[hm[t]].queue
      /\ w.at # "entity" => QueuesRight(w.s, on, hm, {})
      /\ w.at = "entity" => /\ QueuesRight(w.s, on, hm, {e})
                            /\ k > 1 => w.s.cfs[e].queue = {}
  BY <1>1 DEF Dequeuing
<1>3. e # q
  BY <1>0, <1>1, ParentIsOther
<1>4. hm[t] \in Groups
  BY DEF Rooted
<1> HIDE DEF q, e
<1>5. CASE w.at = "stop"
  <2>1. u = w
    BY <1>5 DEF DequeueLevel
  <2>. QED
    BY <1>0, <1>2, <1>5, <2>1 DEF Dequeuing
<1>6. CASE w.at # "stop"
  <2> DEFINE x == TakeOut(w, l[k])
             y == Tally(x, l[k], -1)
  <2>1. u = StopAtThrottled(y, l[k])
    BY <1>6, Zenon DEF DequeueLevel
  <2>2. /\ x \in Walks /\ SameThrottling(w.s, x.s) /\ Shrinks(w.s, x.s)
        /\ t \notin x.s.cfs[hm[t]].queue
        /\ x.at # "entity" => QueuesRight(x.s, on, hm, {})
        /\ x.at = "entity" => /\ QueuesRight(x.s, on, hm, {q}) /\ x.s.cfs[q].queue = {}
                              /\ w.at = "entity"
    <3>1. CASE w.at # "entity"
      <4>1. x = w
        BY <3>1 DEF TakeOut
      <4>2. SameThrottling(w.s, w.s) /\ Shrinks(w.s, w.s)
        BY DEF SameThrottling, Shrinks
      <4>. QED
        BY <1>0, <1>2, <3>1, <4>1, <4>2
    <3>2. CASE w.at = "entity"
      <4> DEFINE r == DequeueEntity(w.s, l[k])
      <4>1. /\ x \in Walks /\ x.s = r
            /\ x.at = IF r.cfs[q].queue = {} THEN "entity" ELSE "counts"
        BY <1>1, <1>2, <3>2, TakeOutIs DEF q
      <4>2. TakesOut(w.s, r, q, e) /\ SameThrottling(w.s, r)
        <5>. w.s \in State
          BY <1>2 DEF Walks
        <5>. QED
          BY <1>1, DequeueEntityIs DEF q, e, TakesOut
      <4> HIDE DEF r, x
      <4> DEFINE X == {}
                 s == w.s
      <4>3. Leaves(on, hm, X, s, r, q, e)
        <5>1. e \in Groups => w.s.cfs[e].queue = {}
          BY <1>0, <1>1, <1>2, <3>2
        <5>2. QueuesRight(s, on, hm, X \cup {e})
          <6>1. X \cup {e} = {e}
            OBVIOUS
          <6>. QED
            BY <1>2, <3>2, <6>1
        <5>. QED
          BY <1>1, <4>2, <5>1, <5>2 DEF Leaves
      <4> HIDE DEF X, s
      <4>4. /\ Shrinks(s, r) /\ e \notin r.cfs[q].queue
            /\ QueuesRight(r, on, hm, X \cup {q})
            /\ r.cfs[q].queue # {} => QueuesRight(r, on, hm, X)
        BY <4>3, TakenOut
      <4>5. X \cup {q} = {q}
        BY DEF X
      <4>6. t \notin r.cfs[hm[t]].queue
        <5>1. Shrinks(w.s, r)
          BY <4>4 DEF s
        <5>. QED
          BY <1>0, <1>1, <1>2, <1>4, <4>4, <5>1 DEF Shrinks
      <4>. QED
        BY <3>2, <4>1, <4>2, <4>4, <4>5, <4>6 DEF X, s
    <3>. QED
      BY <3>1, <3>2
  <2> HIDE DEF x
  <2>3. y \in Walks /\ y.at = x.at /\ Same(x.s, y.s)
    BY <1>1, <2>2, -1 \in Int, TallyIs DEF q
  <2> HIDE DEF y
  <2>4. SameThrottling(w.s, y.s) /\ Shrinks(w.s, y.s)
    BY <2>2, <2>3, SameShrinks, ThrottlingTwice, ShrinksTwice
  <2>5. /\ t \notin y.s.cfs[hm[t]].queue
        /\ y.at # "entity" => QueuesRight(y.s, on, hm, {})
        /\ y.at = "entity" => /\ QueuesRight(y.s, on, hm, {q}) /\ y.s.cfs[q].queue = {}
                              /\ w.at = "entity"
    <3>1. \A X : QueuesRight(x.s, on, hm, X) => QueuesRight(y.s, on, hm, X)
      BY <2>3, SameRight
    <3>. QED
      BY <1>1, <1>4, <2>2, <2>3, <3>1 DEF Same, SameQueues
  <2>6. u \in Walks /\ u.s = y.s /\ u.at = IF y.s.cfs[q].throttled THEN "stop" ELSE y.at
    <3> DEFINE b == y.s.cfs[q].throttled
    <3>1. u = StopIf(y, b)
      BY <2>1, Zenon DEF StopAtThrottled, q
    <3> HIDE DEF b, u
    <3>2. u \in Walks /\ u.s = y.s /\ u.at = IF b THEN "stop" ELSE y.at
      BY <2>3, <3>1, StopIs
    <3>. QED
      BY <3>2 DEF b
  <2>7. y.s.cfs[q].throttled => QueuesRight(y.s, on, hm, {})
    <3>1. CASE y.at # "entity"
      BY <2>5, <3>1
    <3>2. CASE y.at = "entity" /\ y.s.cfs[q].throttled
      <4>1. QueuesRight(w.s, on, hm, {e}) /\ QueuesRight(y.s, on, hm, {q})
        BY <1>2, <2>5, <3>2
      <4>2. q # Root => (q \in y.s.cfs[Parent[q]].queue => q \in w.s.cfs[Parent[q]].queue)
        <5>1. q # Root => Parent[q] \in Groups
          BY <1>1, HierarchyAssumption
        <5>. QED
          BY <2>4, <5>1 DEF Shrinks
      <4> DEFINE s == w.s
                 r == y.s
      <4>3. /\ QueuesRight(s, on, hm, {e}) /\ QueuesRight(r, on, hm, {q})
            /\ SameThrottling(s, r) /\ r.cfs[q].throttled
            /\ q # Root => (q \in r.cfs[Parent[q]].queue => q \in s.cfs[Parent[q]].queue)
        BY <2>4, <3>2, <4>1, <4>2
      <4> HIDE DEF s, r
      <4>4. QueuesRight(r, on, hm, {})
        BY <1>1, <1>3, <4>3, FrozenIs
      <4>. QED
        BY <4>4 DEF r
    <3>. QED
      BY <3>1, <3>2
  <2>8. SameThrottling(s0, y.s) /\ Shrinks(s0, y.s)
    BY <1>2, <2>4, ThrottlingTwice, ShrinksTwice
  <2> HIDE DEF u
  <2>. QED
    BY <1>0, <1>1, <2>5, <2>6, <2>7, <2>8 DEF Dequeuing, u
<1>. QED
  BY <1>5, <1>6


LEMMA IdleCountIs ==
  ASSUME NEW t
  PROVE  IdleCount(t) \in Int /\ -IdleCount(t) \in Int
BY DEF IdleCount

\* dequeue_task_fair() leaves everything right, and the task in no queue.
LEMMA DequeueTaskIs ==
  ASSUME NEW on, Rooted(on), NEW hm \in [Tasks -> on], NEW t \in Tasks, NEW s,
         Sound(s, on, hm, {})
  PROVE  Sound(DequeueTask(s, t, hm[t]), on, hm, {}) /\ Away(DequeueTask(s, t, hm[t]), t)
<1> DEFINE l == Levels(t, hm[t])
           e == Walk(s, -IdleCount(t))
           w == FoldLeft(DequeueLevel, e, l)
           r == Done(w, -1)
<1>0. DequeueTask(s, t, hm[t]) = r
  BY Zenon DEF DequeueTask
<1>1. s \in State /\ CountsRight(s, on) /\ QueuesRight(s, on, hm, {})
  BY DEF Sound
<1>2. PICK n \in Nat : Ladder(l, n, t, hm[t], on)
  BY LevelsClimb
<1> HIDE DEF l
<1>3. n # 0 /\ DOMAIN l = 1 .. n /\ l[n].q = Root
  BY <1>2 DEF Ladder
<1> DEFINE P == {p \in (0 .. n) \X Walks : Dequeuing(s, t, on, hm, l, p[1], p[2])}
<1>4. << 0, e >> \in P
  <2>1. e \in Walks /\ e.s = s /\ e.at = "entity"
    BY <1>1, IdleCountIs, WalkIs
  <2> HIDE DEF e
  <2>2. SameThrottling(s, s) /\ Shrinks(s, s)
    BY DEF SameThrottling, Shrinks
  <2>3. QueuesRight(s, on, hm, {t}) /\ Pending(l, 0, t) = t
    BY <1>1, MoreExcepted DEF Pending
  <2>4. Dequeuing(s, t, on, hm, l, 0, e)
    BY <2>1, <2>2, <2>3 DEF Dequeuing
  <2>. QED
    BY <2>1, <2>4
<1>5. ASSUME NEW k \in 1 .. n, NEW x, << k - 1, x >> \in P
      PROVE  << k, DequeueLevel(x, l[k]) >> \in P
  <2>1. Dequeuing(s, t, on, hm, l, k - 1, x)
    BY <1>5
  <2> DEFINE u == DequeueLevel(x, l[k])
  <2>2. Dequeuing(s, t, on, hm, l, k, u)
    BY <1>2, <2>1, DequeuingOn
  <2> HIDE DEF u
  <2>3. u \in Walks
    BY <2>2 DEF Dequeuing
  <2>. QED
    BY <2>2, <2>3 DEF u
<1> HIDE DEF P, e
<1>6. << n, w >> \in P
  BY <1>3, <1>4, <1>5, DequeueWalk
<1> HIDE DEF w
<1>7. Dequeuing(s, t, on, hm, l, n, w)
  BY <1>6 DEF P
<1>8. Pending(l, n, t) = Root
  BY <1>3 DEF Pending
<1>9. QueuesRight(w.s, on, hm, {})
  <2>1. CASE w.at = "entity"
    <3> DEFINE X == {}
    <3>1. X \cup {Root} = {Root}
      OBVIOUS
    <3>2. QueuesRight(w.s, on, hm, X \cup {Root})
      BY <1>7, <1>8, <2>1, <3>1 DEF Dequeuing
    <3> HIDE DEF X
    <3>3. QueuesRight(w.s, on, hm, X)
      BY <3>2, NotPending
    <3>. QED
      BY <3>3 DEF X
  <2>2. CASE w.at # "entity"
    BY <1>7, <2>2 DEF Dequeuing
  <2>. QED
    BY <2>1, <2>2
<1>10. /\ w \in Walks /\ SameThrottling(s, w.s) /\ t \notin w.s.cfs[hm[t]].queue
  BY <1>3, <1>7 DEF Dequeuing
<1>11. r \in State /\ Same(w.s, r)
  BY <1>10, -1 \in Int, DoneIs
<1> HIDE DEF r
<1>12. QueuesRight(r, on, hm, {})
  BY <1>9, <1>11, SameRight
<1>13. CountsRight(r, on)
  <2>1. SameThrottling(s, r)
    BY <1>10, <1>11, SameShrinks, ThrottlingTwice
  <2>. QED
    BY <1>1, <2>1, SameCounts
<1>14. Away(r, t)
  <2>1. t \notin r.cfs[hm[t]].queue
    <3>1. hm[t] \in Groups
      BY DEF Rooted
    <3>. QED
      BY <1>10, <1>11, <3>1 DEF Same, SameQueues
  <2>2. t \notin Groups
    BY HierarchyAssumption
  <2>3. \A d \in Groups : t \in r.cfs[d].queue => d = hm[t]
    BY <1>12, <2>2 DEF QueuesRight, IsChild, Rooted
  <2>. QED
    BY <2>1, <2>3 DEF Away
<1>. QED
  BY <1>0, <1>11, <1>12, <1>13, <1>14 DEF Sound


-----------------------------------------------------------------------------
(* A task enters *)

\* Entity e is put into the queue of q.
PutsIn(s, r, q, e) == /\ SameThrottling(s, r)
                      /\ r.cfs[q].queue = s.cfs[q].queue \cup {e}
                      /\ \A d \in Groups : d # q => r.cfs[d].queue = s.cfs[d].queue

\* enqueue_entity() before the check of the runtime
Joined(s, l) ==
  [s EXCEPT !.cfs[l.q].queue = @ \cup {l.e}, !.cfs[l.q].loaded = TRUE,
            !.cfs[l.q].idle_nr = @ + (IF IsIdleEntity(s, l.e) THEN 1 ELSE 0)]

LEMMA JoinedIs ==
  ASSUME NEW s \in State, NEW l, l.q \in Groups, l.e \in Entities
  PROVE  Joined(s, l) \in State /\ PutsIn(s, Joined(s, l), l.q, l.e)
<1> DEFINE q == l.q
           c == s.cfs[q]
           k == IF IsIdleEntity(s, l.e) THEN 1 ELSE 0
           v == [c EXCEPT !.queue = @ \cup {l.e}, !.loaded = TRUE, !.idle_nr = @ + k]
           r == Joined(s, l)
<1>1. s.cfs \in [Groups -> CfsRqs] /\ c \in CfsRqs /\ s \in [cfs : [Groups -> CfsRqs], rq : Rqs]
  BY DEF State
<1>2. r = [s EXCEPT !.cfs[q].queue = @ \cup {l.e}, !.cfs[q].loaded = TRUE,
                    !.cfs[q].idle_nr = @ + k]
  BY Zenon DEF Joined
<1>3. k \in Int
  OBVIOUS
<1> HIDE DEF k
<1>4. Changed(s, q, v, r)
  <2> HIDE DEF r
  <2>. QED
    BY <1>1, <1>2 DEF Changed
<1>5. /\ v \in CfsRqs /\ v.on_list = c.on_list /\ v.queue = c.queue \cup {l.e}
      /\ v.throttled = c.throttled /\ v.throttle_count = c.throttle_count
  <2> HIDE DEF c
  <2>1. c.idle_nr + k \in Int /\ c.queue \cup {l.e} \in SUBSET Entities
    BY <1>1, <1>3 DEF CfsRqs
  <2>. QED
    BY <1>1, <2>1 DEF CfsRqs
<1>6. q \in Groups
  OBVIOUS
<1> HIDE DEF v, r, q
<1>7. r \in State /\ r.cfs[q] = v /\ \A d \in Groups : d # q => r.cfs[d] = s.cfs[d]
  BY <1>4, <1>5, <1>6, CfsChange
<1>8. r \in State /\ PutsIn(s, r, q, l.e)
  BY <1>5, <1>7 DEF SameThrottling, PutsIn
<1>. QED
  BY <1>8 DEF r, q

\* An entity enters that belongs there and has work.
Enters(on, hm, s, r, q, e) ==
  /\ q \in on /\ e # Root /\ e # q /\ IsChild(e, q, on, hm)
  /\ e \in Groups => HasWork(s, e)
  /\ QueuesRight(s, on, hm, {e})
  /\ PutsIn(s, r, q, e)

LEMMA EnteredIs ==
  ASSUME NEW on, Rooted(on), NEW hm, NEW s, NEW r, NEW q, NEW e, Enters(on, hm, s, r, q, e)
  PROVE  /\ QueuesRight(r, on, hm, {q})
         /\ r.cfs[q].throttled => QueuesRight(r, on, hm, {})
         /\ e \in r.cfs[q].queue
<1>0. /\ q \in on /\ e # Root /\ e # q /\ IsChild(e, q, on, hm)
      /\ e \in Groups => HasWork(s, e)
      /\ QueuesRight(s, on, hm, {e})
      /\ PutsIn(s, r, q, e)
  BY DEF Enters
<1>1. q \in Groups /\ on \subseteq Groups
  BY <1>0 DEF Rooted
<1>3. /\ \A g \in Groups : r.cfs[g].throttled = s.cfs[g].throttled
      /\ r.cfs[q].queue = s.cfs[q].queue \cup {e}
      /\ \A d \in Groups : d # q => r.cfs[d].queue = s.cfs[d].queue
  BY <1>0 DEF SameThrottling, PutsIn
<1>4. \A g \in Groups \ on : r.cfs[g].queue = {} /\ ~r.cfs[g].throttled
  BY <1>0, <1>3 DEF QueuesRight
<1>5. \A d \in Groups : \A x \in r.cfs[d].queue : IsChild(x, d, on, hm)
  BY <1>0, <1>3 DEF QueuesRight
<1>6. ASSUME NEW g \in on \ {Root}, g # q \/ r.cfs[q].throttled
      PROVE  g \in r.cfs[Parent[g]].queue <=> HasWork(r, g)
  <2>1. g \in Groups /\ Parent[g] \in Groups /\ Parent[g] # g
    BY ParentIsOther DEF Rooted
  <2>2. CASE g = e
    <3>1. Parent[g] = q
      BY <1>0, <2>1, <2>2, HierarchyAssumption DEF IsChild
    <3>2. HasWork(s, g) /\ g # q
      BY <1>0, <2>1, <2>2
    <3>3. HasWork(r, g)
      BY <1>3, <2>1, <3>2 DEF HasWork
    <3>. QED
      BY <1>3, <2>2, <3>1, <3>3
  <2>3. CASE g # e
    <3>1. g \in s.cfs[Parent[g]].queue <=> HasWork(s, g)
      BY <1>0, <2>3 DEF QueuesRight
    <3>2. g \in r.cfs[Parent[g]].queue <=> g \in s.cfs[Parent[g]].queue
      BY <1>3, <2>1, <2>3
    <3>3. HasWork(r, g) <=> HasWork(s, g)
      <4>1. CASE g # q
        BY <1>3, <2>1, <4>1 DEF HasWork
      <4>2. CASE r.cfs[q].throttled /\ g = q
        BY <1>3, <2>1, <4>2 DEF HasWork
      <4>. QED
        BY <1>6, <4>1, <4>2
    <3>. QED
      BY <3>1, <3>2, <3>3
  <2>. QED
    BY <2>2, <2>3
<1>. QED
  BY <1>3, <1>4, <1>5, <1>6 DEF QueuesRight

\* What enqueue_entity() leaves at its level: the group has work, or is throttled and
\* everything is right.
Entered(s, on, hm, q) == /\ Sound(s, on, hm, {q})
                         /\ IF s.cfs[q].throttled THEN Sound(s, on, hm, {})
                                                  ELSE s.cfs[q].queue # {}

LEMMA SameEntered ==
  ASSUME NEW on, Rooted(on), NEW hm, NEW q \in Groups, NEW s, Entered(s, on, hm, q),
         NEW r \in State, Same(s, r)
  PROVE  Entered(r, on, hm, q)
<1>1. CountsRight(s, on) => CountsRight(r, on)
  BY SameRight
<1>2. \A X : QueuesRight(s, on, hm, X) => QueuesRight(r, on, hm, X)
  BY SameRight
<1>3. r.cfs[q].throttled = s.cfs[q].throttled /\ r.cfs[q].queue = s.cfs[q].queue
  BY DEF Same, SameThrottling, SameQueues
<1>. QED
  BY <1>1, <1>2, <1>3 DEF Entered, Sound

LEMMA EnqueueEntityIs ==
  ASSUME Rooted(online), NEW hm, NEW l, l.q \in online, l.e \in Entities, l.e # Root, l.e # l.q,
         IsChild(l.e, l.q, online, hm), NEW s, Sound(s, online, hm, {l.e}),
         l.e \in Groups => HasWork(s, l.e),
         NEW poor \in SUBSET (online \ {Root})
  PROVE  Entered(EnqueueEntity(s, l, poor), online, hm, l.q)
<1> DEFINE q == l.q
           e == l.e
           first(x) == Cardinality(x.cfs[q].queue) = 1
           check(x) == IF first(x) /\ x.cfs[q].curr = None /\ Throttles(x, q, poor)
                       THEN Throttle(x, q) ELSE x
           list(x)  == IF first(x) /\ x.cfs[q].throttle_count = 0 THEN ListAdd(x, q) ELSE x
           x == Joined(s, l)
           y == check(x)
           r == EnqueueEntity(s, l, poor)
<1>1. r = list(y)
  BY Zenon DEF EnqueueEntity, Joined
<1>2. s \in State /\ CountsRight(s, online) /\ QueuesRight(s, online, hm, {e})
  BY DEF Sound
<1>3. q \in online /\ q \in Groups /\ e \in Entities
  BY DEF Rooted
<1>4. x \in State /\ PutsIn(s, x, q, e)
  BY <1>2, <1>3, JoinedIs
<1>5. Enters(online, hm, s, x, q, e)
  BY <1>2, <1>4, Zenon DEF Enters
<1> HIDE DEF x, q, e, r
<1>6. /\ QueuesRight(x, online, hm, {q})
      /\ x.cfs[q].throttled => QueuesRight(x, online, hm, {})
      /\ e \in x.cfs[q].queue
  BY <1>5, EnteredIs
<1>7. CountsRight(x, online)
  BY <1>2, <1>4, SameCounts DEF PutsIn
<1>8. Entered(x, online, hm, q)
  BY <1>4, <1>6, <1>7 DEF Entered, Sound
<1>9. Entered(y, online, hm, q)
  <2>1. CASE first(x) /\ x.cfs[q].curr = None /\ Throttles(x, q, poor)
    <3>1. y = Throttle(x, q)
      BY <2>1
    <3>2. q \in online \ {Root} /\ ~x.cfs[q].throttled
      BY <2>1 DEF Throttles
    <3>3. Sound(x, online, hm, {q})
      BY <1>8 DEF Entered
    <3>4. Sound(y, online, hm, {}) /\ y.cfs[q].throttled
      BY <3>1, <3>2, <3>3, ThrottleIs
    <3> HIDE DEF y
    <3>5. Sound(y, online, hm, {q})
      BY <3>4, MoreExcepted DEF Sound
    <3>. QED
      BY <3>4, <3>5 DEF Entered
  <2>2. CASE ~(first(x) /\ x.cfs[q].curr = None /\ Throttles(x, q, poor))
    BY <1>8, <2>2
  <2>. QED
    BY <2>1, <2>2
<1> HIDE DEF y
<1>10. y \in State
  BY <1>9 DEF Entered, Sound
<1>11. r \in State /\ Same(y, r)
  BY <1>1, <1>3, <1>10, ListAddIs, SameSelf
<1>12. Entered(r, online, hm, q)
  BY <1>3, <1>9, <1>11, SameEntered
<1>. QED
  BY <1>12 DEF r, q


\* The walk of enqueue_task_fair() and unthrottle_cfs_rq(): the entity that is pending,
\* if a group, has work.
Entering(on, hm, l, k, e, w) ==
  LET E == Pending(l, k, e)
  IN  /\ w \in Walks /\ CountsRight(w.s, on)
      /\ w.at # "entity" => QueuesRight(w.s, on, hm, {})
      /\ w.at = "entity" => /\ QueuesRight(w.s, on, hm, {E})
                            /\ E \in Groups => HasWork(w.s, E)

LEMMA PutInIs ==
  ASSUME Rooted(online), NEW hm, NEW l, l.q \in online, l.e \in Entities, l.e # Root, l.e # l.q,
         IsChild(l.e, l.q, online, hm), l.e \in Groups => Parent[l.e] = l.q,
         NEW poor \in SUBSET (online \ {Root}),
         NEW w \in Walks, w.at # "stop", CountsRight(w.s, online),
         w.at # "entity" => QueuesRight(w.s, online, hm, {}),
         w.at = "entity" => /\ QueuesRight(w.s, online, hm, {l.e})
                            /\ l.e \in Groups => HasWork(w.s, l.e)
  PROVE  LET x == PutIn(w, l, poor)
         IN  /\ x \in Walks /\ x.at \in {"entity", "counts"}
             /\ x.at = "entity" => Entered(x.s, online, hm, l.q)
             /\ x.at = "counts" => Sound(x.s, online, hm, {})
<1> DEFINE q == l.q
           e == l.e
           x == PutIn(w, l, poor)
<1>0. w.s \in State /\ w.at \in {"entity", "counts", "stop"} /\ w.delta \in Int
      /\ w \in [s : State, delta : Int, at : {"entity", "counts", "stop"}]
  BY DEF Walks
<1>1. CASE w.at = "entity" /\ e \notin w.s.cfs[q].queue
  <2> DEFINE r == EnqueueEntity(w.s, l, poor)
  <2>1. x = [w EXCEPT !.s = r]
    BY <1>1, Zenon DEF PutIn
  <2>2. Sound(w.s, online, hm, {e})
    BY <1>0, <1>1 DEF Sound
  <2>3. Entered(r, online, hm, q)
    <3> DEFINE s == w.s
    <3>1. Sound(s, online, hm, {l.e}) /\ (l.e \in Groups => HasWork(s, l.e))
      BY <1>1, <2>2
    <3> HIDE DEF s, q, e
    <3>2. Entered(EnqueueEntity(s, l, poor), online, hm, l.q)
      BY <3>1, EnqueueEntityIs
    <3>. QED
      BY <3>2 DEF s, q
  <2> HIDE DEF r, x
  <2>4. r \in State
    BY <2>3 DEF Entered, Sound
  <2>5. x \in Walks /\ x.s = r /\ x.at = "entity"
    BY <1>0, <1>1, <2>1, <2>4 DEF Walks
  <2>. QED
    BY <2>3, <2>5 DEF x
<1>2. CASE ~(w.at = "entity" /\ e \notin w.s.cfs[q].queue)
  <2>1. x = [w EXCEPT !.at = "counts"]
    BY <1>2, Zenon DEF PutIn
  <2> HIDE DEF x
  <2>2. x \in Walks /\ x.s = w.s /\ x.at = "counts"
    BY <1>0, <2>1 DEF Walks
  <2>3. QueuesRight(w.s, online, hm, {})
    <3>1. CASE w.at # "entity"
      BY <3>1
    <3>2. CASE w.at = "entity"
      <4> DEFINE X == {}
      <4>1. QueuesRight(w.s, online, hm, X \cup {e})
        <5>1. X \cup {e} = {e}
          OBVIOUS
        <5>. QED
          BY <3>2, <5>1
      <4>2. e \in online \ {Root} => (e \in w.s.cfs[Parent[e]].queue <=> HasWork(w.s, e))
        BY <1>2, <3>2 DEF Rooted
      <4> HIDE DEF X, e
      <4>3. QueuesRight(w.s, online, hm, X)
        BY <4>1, <4>2, NotPending
      <4>. QED
        BY <4>3 DEF X
    <3>. QED
      BY <3>1, <3>2
  <2>. QED
    BY <1>0, <2>2, <2>3 DEF Sound, x
<1>. QED
  BY <1>1, <1>2

\* The entity a walk starts with belongs to the group it starts in.
Starts(e, q, on, hm) == /\ q \in on /\ e \in Entities
                        /\ e \in Tasks => hm[e] = q
                        /\ e \in Groups => e \in on \ {Root} /\ Parent[e] = q

LEMMA EnteringOn ==
  ASSUME Rooted(online), NEW hm, NEW a, NEW q, Starts(a, q, online, hm),
         NEW l, NEW n \in Nat, Ladder(l, n, a, q, online),
         NEW poor \in SUBSET (online \ {Root}), NEW m \in Int,
         NEW k \in 1 .. n, NEW w, Entering(online, hm, l, k - 1, a, w)
  PROVE  Entering(online, hm, l, k, a, EnqueueLevel(m, poor, w, l[k]))
<1> DEFINE p == l[k].q
           e == l[k].e
           u == EnqueueLevel(m, poor, w, l[k])
<1>1. /\ e = Pending(l, k - 1, a) /\ p \in online /\ p \in Groups /\ e # Root
      /\ e \in Groups => e \in online \ {Root} /\ Parent[e] = p
      /\ k > 1 => e \in Groups
      /\ k = 1 => e = a /\ p = q
      /\ Pending(l, k, a) = p
  BY LevelOf DEF Starts, Entities
<1>2. /\ w \in Walks /\ CountsRight(w.s, online)
      /\ w.at # "entity" => QueuesRight(w.s, online, hm, {})
      /\ w.at = "entity" => /\ QueuesRight(w.s, online, hm, {e})
                            /\ e \in Groups => HasWork(w.s, e)
  BY <1>1 DEF Entering
<1>3. /\ e \in Entities /\ e # p /\ IsChild(e, p, online, hm)
  <2>1. CASE k = 1
    BY <1>1, <2>1, HierarchyAssumption, ParentIsOther DEF Starts, Entities, IsChild
  <2>2. CASE k > 1
    BY <1>1, <2>2, ParentIsOther DEF Entities, IsChild
  <2>. QED
    BY <2>1, <2>2
<1> HIDE DEF p, e
<1>4. CASE w.at = "stop"
  <2>1. u = w
    BY <1>4 DEF EnqueueLevel
  <2>. QED
    BY <1>2, <1>4, <2>1 DEF Entering
<1>5. CASE w.at # "stop"
  <2> DEFINE x == PutIn(w, l[k], poor)
             y == Tally(x, l[k], m)
  <2>1. u = StopAtThrottled(y, l[k])
    BY <1>5, Zenon DEF EnqueueLevel
  <2>2. /\ x \in Walks /\ x.at \in {"entity", "counts"}
        /\ x.at = "entity" => Entered(x.s, online, hm, p)
        /\ x.at = "counts" => Sound(x.s, online, hm, {})
    <3> DEFINE j == l[k]
    <3>1. j.q = p /\ j.e = e
      BY DEF p, e
    <3> HIDE DEF j
    <3> DEFINE v == PutIn(w, j, poor)
    <3>2. /\ v \in Walks /\ v.at \in {"entity", "counts"}
          /\ v.at = "entity" => Entered(v.s, online, hm, j.q)
          /\ v.at = "counts" => Sound(v.s, online, hm, {})
      <4> HIDE DEF v
      <4>1. j.q \in online /\ j.e \in Entities /\ j.e # Root /\ j.e # j.q
            /\ IsChild(j.e, j.q, online, hm) /\ (j.e \in Groups => Parent[j.e] = j.q)
        BY <1>1, <1>3, <3>1
      <4>2. w.at = "entity" => /\ QueuesRight(w.s, online, hm, {j.e})
                               /\ j.e \in Groups => HasWork(w.s, j.e)
        BY <1>2, <3>1
      <4>. QED
        BY <1>2, <1>5, <4>1, <4>2, PutInIs DEF v
    <3>. QED
      BY <3>1, <3>2 DEF j
  <2> HIDE DEF x
  <2>3. y \in Walks /\ y.at = x.at /\ Same(x.s, y.s)
    BY <1>1, <2>2, TallyIs DEF p
  <2> HIDE DEF y
  <2>4. y.at = "entity" => Entered(y.s, online, hm, p)
    <3>1. y.s \in State
      BY <2>3 DEF Walks
    <3>. QED
      BY <1>1, <2>2, <2>3, <3>1, SameEntered
  <2>5. y.at = "counts" => Sound(y.s, online, hm, {})
    <3>1. y.s \in State
      BY <2>3 DEF Walks
    <3>2. CountsRight(x.s, online) => CountsRight(y.s, online)
      BY <2>3, SameRight
    <3>3. \A X : QueuesRight(x.s, online, hm, X) => QueuesRight(y.s, online, hm, X)
      BY <2>3, SameRight
    <3>. QED
      BY <2>2, <2>3, <3>1, <3>2, <3>3 DEF Sound
  <2>6. u \in Walks /\ u.s = y.s /\ u.at = IF y.s.cfs[p].throttled THEN "stop" ELSE y.at
    <3> DEFINE b == y.s.cfs[p].throttled
    <3>1. u = StopIf(y, b)
      BY <2>1, Zenon DEF StopAtThrottled, p
    <3> HIDE DEF b, u
    <3>2. u \in Walks /\ u.s = y.s /\ u.at = IF b THEN "stop" ELSE y.at
      BY <2>3, <3>1, StopIs
    <3>. QED
      BY <3>2 DEF b
  <2> HIDE DEF u
  <2>7. CASE y.at = "entity"
    <3>1. CASE y.s.cfs[p].throttled
      BY <1>1, <2>4, <2>6, <2>7, <3>1 DEF Entering, Entered, Sound, u
    <3>2. CASE ~y.s.cfs[p].throttled
      <4>1. HasWork(y.s, p)
        BY <2>4, <2>7, <3>2 DEF HasWork, Entered
      <4>. QED
        BY <1>1, <2>4, <2>6, <2>7, <3>2, <4>1 DEF Entering, Entered, Sound, u
    <3>. QED
      BY <3>1, <3>2
  <2>8. CASE y.at = "counts"
    BY <2>5, <2>6, <2>8 DEF Entering, Sound, u
  <2>. QED
    BY <2>2, <2>3, <2>7, <2>8
<1>. QED
  BY <1>4, <1>5


\* The whole walk, from an entity that has work
LEMMA EnterAll ==
  ASSUME Rooted(online), NEW hm, NEW a, NEW q, Starts(a, q, online, hm),
         NEW poor \in SUBSET (online \ {Root}), NEW m \in Int, NEW d \in Int,
         NEW s, Sound(s, online, hm, {a}), a \in Groups => HasWork(s, a)
  PROVE  Sound(Done(EnqueueFold(m, poor, Walk(s, d), Levels(a, q)), m), online, hm, {})
<1> DEFINE l == Levels(a, q)
           e == Walk(s, d)
           w == EnqueueFold(m, poor, e, l)
           r == Done(w, m)
<1>1. s \in State /\ CountsRight(s, online) /\ QueuesRight(s, online, hm, {a})
  BY DEF Sound
<1>2. PICK n \in Nat : Ladder(l, n, a, q, online)
  BY LevelsClimb DEF Starts
<1> HIDE DEF l
<1>3. n # 0 /\ DOMAIN l = 1 .. n /\ l[n].q = Root
  BY <1>2 DEF Ladder
<1> DEFINE P == {p \in (0 .. n) \X Walks : Entering(online, hm, l, p[1], a, p[2])}
<1>4. << 0, e >> \in P
  <2>1. e \in Walks /\ e.s = s /\ e.at = "entity"
    BY <1>1, WalkIs
  <2> HIDE DEF e
  <2>2. Pending(l, 0, a) = a
    BY DEF Pending
  <2>3. Entering(online, hm, l, 0, a, e)
    BY <1>1, <2>1, <2>2 DEF Entering
  <2>. QED
    BY <2>1, <2>3
<1>5. ASSUME NEW k \in 1 .. n, NEW x, << k - 1, x >> \in P
      PROVE  << k, EnqueueLevel(m, poor, x, l[k]) >> \in P
  <2>1. Entering(online, hm, l, k - 1, a, x)
    BY <1>5
  <2> DEFINE u == EnqueueLevel(m, poor, x, l[k])
  <2>2. Entering(online, hm, l, k, a, u)
    BY <1>2, <2>1, EnteringOn
  <2> HIDE DEF u
  <2>3. u \in Walks
    BY <2>2 DEF Entering
  <2>. QED
    BY <2>2, <2>3 DEF u
<1> HIDE DEF P, e
<1>6. << n, w >> \in P
  BY <1>3, <1>4, <1>5, EnqueueWalk
<1> HIDE DEF w
<1>7. Entering(online, hm, l, n, a, w)
  BY <1>6 DEF P
<1>8. Pending(l, n, a) = Root
  BY <1>3 DEF Pending
<1>9. QueuesRight(w.s, online, hm, {})
  <2>1. CASE w.at = "entity"
    <3> DEFINE X == {}
    <3>1. X \cup {Root} = {Root}
      OBVIOUS
    <3>2. QueuesRight(w.s, online, hm, X \cup {Root})
      BY <1>7, <1>8, <2>1, <3>1 DEF Entering
    <3> HIDE DEF X
    <3>3. QueuesRight(w.s, online, hm, X)
      BY <3>2, NotPending
    <3>. QED
      BY <3>3 DEF X
  <2>2. CASE w.at # "entity"
    BY <1>7, <2>2 DEF Entering
  <2>. QED
    BY <2>1, <2>2
<1>10. w \in Walks /\ CountsRight(w.s, online)
  BY <1>7 DEF Entering
<1>11. r \in State /\ Same(w.s, r)
  BY <1>10, DoneIs
<1> HIDE DEF r
<1>12. QueuesRight(r, online, hm, {}) /\ CountsRight(r, online)
  BY <1>9, <1>10, <1>11, SameRight
<1>13. Sound(r, online, hm, {})
  BY <1>11, <1>12 DEF Sound
<1>. QED
  BY <1>13 DEF r, w, e, l

LEMMA EnqueueTaskIs ==
  ASSUME Rooted(online), NEW hm \in [Tasks -> online], NEW t \in Tasks, NEW s,
         Sound(s, online, hm, {}), NEW poor \in SUBSET (online \ {Root})
  PROVE  Sound(EnqueueTask(s, t, hm[t], poor), online, hm, {})
<1> DEFINE q == hm[t]
           d == IdleCount(t)
           m == 1
<1>1. Starts(t, q, online, hm) /\ t \notin Groups /\ d \in Int /\ m \in Int
  BY HierarchyAssumption, IdleCountIs DEF Starts, Entities
<1>2. Sound(s, online, hm, {t})
  BY MoreExcepted DEF Sound
<1>3. EnqueueTask(s, t, q, poor) = Done(EnqueueFold(m, poor, Walk(s, d), Levels(t, q)), m)
  BY Zenon DEF EnqueueTask, EnqueueFold
<1> HIDE DEF q, d, m
<1>4. Sound(Done(EnqueueFold(m, poor, Walk(s, d), Levels(t, q)), m), online, hm, {})
  BY <1>1, <1>2, EnterAll
<1>. QED
  BY <1>3, <1>4 DEF q


-----------------------------------------------------------------------------
(* The walks that change neither the queues nor the throttling *)

Stairs(l, n) == n \in Nat /\ DOMAIN l = 1 .. n
                /\ \A k \in 1 .. n : l[k].q \in Groups /\ l[k].e \in Entities

LEMMA LevelsStairs ==
  ASSUME NEW a \in Entities, NEW q \in Groups
  PROVE  \E n : Stairs(Levels(a, q), n)
<1> DEFINE l == Levels(a, q)
<1>1. Rooted(Groups)
  BY HierarchyAssumption DEF Rooted
<1>2. PICK n \in Nat : Ladder(l, n, a, q, Groups)
  BY <1>1, LevelsClimb
<1> HIDE DEF l
<1>3. ASSUME NEW k \in 1 .. n PROVE l[k].q \in Groups /\ l[k].e \in Entities
  <2>1. CASE k = 1
    BY <1>2, <2>1 DEF Ladder
  <2>2. CASE k # 1
    <3>1. k - 1 \in 1 .. n
      BY <2>2
    <3>. QED
      BY <1>2, <2>2, <3>1 DEF Ladder, Entities
  <2>. QED
    BY <2>1, <2>2
<1>4. Stairs(l, n)
  BY <1>2, <1>3 DEF Ladder, Stairs
<1>. QED
  BY <1>4 DEF l

LEMMA GroupStairs ==
  ASSUME NEW g \in Groups
  PROVE  \E n : Stairs(GroupLevels(g), n)
<1>1. CASE g = Root
  <2>1. GroupLevels(g) = << >> /\ 1 .. 0 = {}
    BY <1>1 DEF GroupLevels
  <2>2. Stairs(<< >>, 0)
    BY <2>1 DEF Stairs
  <2>. QED
    BY <2>1, <2>2
<1>2. CASE g # Root
  <2>1. GroupLevels(g) = Levels(g, Parent[g]) /\ Parent[g] \in Groups /\ g \in Entities
    BY <1>2, HierarchyAssumption DEF GroupLevels, Entities
  <2>. QED
    BY <2>1, LevelsStairs
<1>. QED
  BY <1>1, <1>2

\* A step of a walk that changes nothing that matters
Quiet(w, u) == u \in Walks /\ Same(w.s, u.s)

LEMMA BranchLevelIs ==
  ASSUME NEW w \in Walks, NEW l, l.q \in Groups
  PROVE  Quiet(w, BranchLevel(w, l))
<1>1. CASE w.at = "stop"
  BY <1>1, SameSelf DEF BranchLevel, Quiet
<1>2. CASE w.at # "stop"
  <2> DEFINE r == ListAdd(w.s, l.q)
             x == [w EXCEPT !.s = r]
             b == Connected(x.s)
  <2>1. BranchLevel(w, l) = StopIf(x, b)
    BY <1>2, Zenon DEF BranchLevel
  <2>2. r \in State /\ Same(w.s, r)
    BY ListAddIs DEF Walks
  <2> HIDE DEF r
  <2>3. x \in Walks /\ x.s = r
    BY <2>2 DEF Walks
  <2> HIDE DEF x, b
  <2>. QED
    BY <2>1, <2>2, <2>3, StopIs DEF Quiet
<1>. QED
  BY <1>1, <1>2

LEMMA PropagateLevelIs ==
  ASSUME NEW w \in Walks, NEW l, l.q \in Groups
  PROVE  Quiet(w, PropagateLevel(w, l))
<1>1. CASE w.at = "stop" \/ w.s.cfs[l.q].throttled
  <2> DEFINE x == [w EXCEPT !.at = "stop"]
  <2>1. PropagateLevel(w, l) = x
    BY <1>1, Zenon DEF PropagateLevel
  <2>2. x \in Walks /\ x.s = w.s
    BY DEF Walks
  <2> HIDE DEF x
  <2>. QED
    BY <2>1, <2>2, SameSelf DEF Quiet
<1>2. CASE ~(w.at = "stop" \/ w.s.cfs[l.q].throttled)
  <2> DEFINE r == ListAdd(w.s, l.q)
             x == [w EXCEPT !.s = r]
  <2>1. PropagateLevel(w, l) = IF w.s.cfs[l.q].throttle_count = 0 THEN x ELSE w
    BY <1>2, Zenon DEF PropagateLevel
  <2>2. r \in State /\ Same(w.s, r)
    BY ListAddIs DEF Walks
  <2> HIDE DEF r
  <2>3. x \in Walks /\ x.s = r
    BY <2>2 DEF Walks
  <2> HIDE DEF x
  <2>. QED
    BY <2>1, <2>2, <2>3, SameSelf DEF Quiet
<1>. QED
  BY <1>1, <1>2

LEMMA SetIdleLevelIs ==
  ASSUME NEW w \in Walks, NEW l, l.q \in Groups
  PROVE  Quiet(w, SetIdleLevel(w, l))
<1> DEFINE q == l.q
           s == w.s
           c == s.cfs[q]
<1>0. s \in State /\ w.delta \in Int /\ w.at \in {"entity", "counts", "stop"}
      /\ w \in [s : State, delta : Int, at : {"entity", "counts", "stop"}]
  BY DEF Walks
<1>1. CASE w.at = "stop" \/ l.e \notin c.queue
  <2> DEFINE x == [w EXCEPT !.at = "stop"]
  <2>1. SetIdleLevel(w, l) = x
    BY <1>1, Zenon DEF SetIdleLevel
  <2>2. x \in Walks /\ x.s = w.s
    BY DEF Walks
  <2> HIDE DEF x
  <2>. QED
    BY <2>1, <2>2, SameSelf DEF Quiet
<1>2. CASE ~(w.at = "stop" \/ l.e \notin c.queue)
  <2> DEFINE v == [c EXCEPT !.idle_h = @ + w.delta]
             r == [s EXCEPT !.cfs[q] = v]
             at == IF c.idle THEN "stop" ELSE w.at
             x == [w EXCEPT !.s.cfs[l.q].idle_h = @ + w.delta,
                            !.at = IF w.s.cfs[l.q].idle THEN "stop" ELSE @]
  <2>1. SetIdleLevel(w, l) = x
    BY <1>2, Zenon DEF SetIdleLevel
  <2>2. s \in [cfs : [Groups -> CfsRqs], rq : Rqs] /\ c \in CfsRqs
    BY <1>0 DEF State
  <2>3. x = [s |-> r, delta |-> w.delta, at |-> at]
    <3> HIDE DEF at
    <3>1. x = [w EXCEPT !.s.cfs[q].idle_h = @ + w.delta, !.at = at]
      BY Zenon DEF at
    <3>2. x = [w EXCEPT !.s = r, !.at = at]
      <4>1. [c EXCEPT !.idle_h = c.idle_h + w.delta] = v
        OBVIOUS
      <4> HIDE DEF x
      <4>. QED
        BY <1>0, <2>2, <3>1
    <3> HIDE DEF x, r
    <3>. QED
      BY <1>0, <3>2
  <2>4. /\ v \in CfsRqs /\ v.on_list = c.on_list /\ v.queue = c.queue
        /\ v.throttled = c.throttled /\ v.throttle_count = c.throttle_count
    <3> HIDE DEF c
    <3>1. c.idle_h + w.delta \in Int
      BY <1>0, <2>2 DEF CfsRqs
    <3>. QED
      BY <2>2, <3>1 DEF CfsRqs
  <2>5. Changed(s, q, v, r) /\ q \in Groups
    BY DEF Changed
  <2> HIDE DEF v, r, x
  <2>6. r \in State /\ Same(s, r)
    <3>1. v.on_list = s.cfs[q].on_list /\ v.queue = s.cfs[q].queue
          /\ v.throttled = s.cfs[q].throttled /\ v.throttle_count = s.cfs[q].throttle_count
      BY <2>4
    <3> HIDE DEF s, q, c
    <3>. QED
      BY <1>0, <2>4, <2>5, <3>1, QuietChange
  <2>7. at \in {"entity", "counts", "stop"}
    BY <1>0
  <2> HIDE DEF at
  <2>. QED
    BY <1>0, <2>1, <2>3, <2>6, <2>7 DEF Quiet, Walks
<1>. QED
  BY <1>1, <1>2


LEMMA BranchAll ==
  ASSUME NEW e \in Walks, NEW l, NEW n, Stairs(l, n)
  PROVE  Quiet(e, FoldLeft(BranchLevel, e, l))
<1> DEFINE P == {p \in (0 .. n) \X Walks : Same(e.s, p[2].s)}
<1>1. n \in Nat /\ DOMAIN l = 1 .. n /\ \A k \in 1 .. n : l[k].q \in Groups
  BY DEF Stairs
<1>2. << 0, e >> \in P
  BY <1>1, SameSelf
<1>3. ASSUME NEW k \in 1 .. n, NEW x, << k - 1, x >> \in P
      PROVE  << k, BranchLevel(x, l[k]) >> \in P
  <2>1. x \in Walks /\ Same(e.s, x.s)
    BY <1>3
  <2> DEFINE u == BranchLevel(x, l[k])
  <2>2. Quiet(x, u)
    BY <1>1, <2>1, BranchLevelIs
  <2> HIDE DEF u
  <2>3. u \in Walks /\ Same(e.s, u.s)
    BY <2>1, <2>2, SameTwice DEF Quiet
  <2>. QED
    BY <1>1, <2>3 DEF u
<1> HIDE DEF P
<1>4. << n, FoldLeft(BranchLevel, e, l) >> \in P
  BY <1>1, <1>2, <1>3, BranchWalk
<1>. QED
  BY <1>4 DEF P, Quiet

LEMMA PropagateAll ==
  ASSUME NEW e \in Walks, NEW l, NEW n, Stairs(l, n)
  PROVE  Quiet(e, FoldLeft(PropagateLevel, e, l))
<1> DEFINE P == {p \in (0 .. n) \X Walks : Same(e.s, p[2].s)}
<1>1. n \in Nat /\ DOMAIN l = 1 .. n /\ \A k \in 1 .. n : l[k].q \in Groups
  BY DEF Stairs
<1>2. << 0, e >> \in P
  BY <1>1, SameSelf
<1>3. ASSUME NEW k \in 1 .. n, NEW x, << k - 1, x >> \in P
      PROVE  << k, PropagateLevel(x, l[k]) >> \in P
  <2>1. x \in Walks /\ Same(e.s, x.s)
    BY <1>3
  <2> DEFINE u == PropagateLevel(x, l[k])
  <2>2. Quiet(x, u)
    BY <1>1, <2>1, PropagateLevelIs
  <2> HIDE DEF u
  <2>3. u \in Walks /\ Same(e.s, u.s)
    BY <2>1, <2>2, SameTwice DEF Quiet
  <2>. QED
    BY <1>1, <2>3 DEF u
<1> HIDE DEF P
<1>4. << n, FoldLeft(PropagateLevel, e, l) >> \in P
  BY <1>1, <1>2, <1>3, PropagateWalk
<1>. QED
  BY <1>4 DEF P, Quiet

LEMMA SetIdleAll ==
  ASSUME NEW e \in Walks, NEW l, NEW n, Stairs(l, n)
  PROVE  Quiet(e, FoldLeft(SetIdleLevel, e, l))
<1> DEFINE P == {p \in (0 .. n) \X Walks : Same(e.s, p[2].s)}
<1>1. n \in Nat /\ DOMAIN l = 1 .. n /\ \A k \in 1 .. n : l[k].q \in Groups
  BY DEF Stairs
<1>2. << 0, e >> \in P
  BY <1>1, SameSelf
<1>3. ASSUME NEW k \in 1 .. n, NEW x, << k - 1, x >> \in P
      PROVE  << k, SetIdleLevel(x, l[k]) >> \in P
  <2>1. x \in Walks /\ Same(e.s, x.s)
    BY <1>3
  <2> DEFINE u == SetIdleLevel(x, l[k])
  <2>2. Quiet(x, u)
    BY <1>1, <2>1, SetIdleLevelIs
  <2> HIDE DEF u
  <2>3. u \in Walks /\ Same(e.s, u.s)
    BY <2>1, <2>2, SameTwice DEF Quiet
  <2>. QED
    BY <1>1, <2>3 DEF u
<1> HIDE DEF P
<1>4. << n, FoldLeft(SetIdleLevel, e, l) >> \in P
  BY <1>1, <1>2, <1>3, IdleWalk
<1>. QED
  BY <1>4 DEF P, Quiet

LEMMA PropagateIs ==
  ASSUME NEW s \in State, NEW l, NEW n, Stairs(l, n)
  PROVE  Propagate(s, l) \in State /\ Same(s, Propagate(s, l))
<1> DEFINE e == Walk(s, 0)
           w == FoldLeft(PropagateLevel, e, l)
<1>1. Propagate(s, l) = w.s
  BY DEF Propagate
<1>2. e \in Walks /\ e.s = s
  BY 0 \in Int, WalkIs
<1> HIDE DEF e
<1>3. Quiet(e, w)
  BY <1>2, PropagateAll
<1> HIDE DEF w
<1>. QED
  BY <1>1, <1>2, <1>3 DEF Quiet, Walks

LEMMA CompleteBranchIs ==
  ASSUME NEW s \in State, NEW g \in Groups
  PROVE  CompleteBranch(s, g) \in State /\ Same(s, CompleteBranch(s, g))
<1> DEFINE e == Walk(s, 0)
           l == GroupLevels(g)
           w == FoldLeft(BranchLevel, e, l)
<1>1. CompleteBranch(s, g) = w.s
  BY DEF CompleteBranch
<1>2. e \in Walks /\ e.s = s
  BY 0 \in Int, WalkIs
<1>3. PICK n : Stairs(l, n)
  BY GroupStairs
<1> HIDE DEF e, l
<1>4. Quiet(e, w)
  BY <1>2, <1>3, BranchAll
<1> HIDE DEF w
<1>. QED
  BY <1>1, <1>2, <1>4 DEF Quiet, Walks

\* A change of which entity runs
Ran(s, g, e, r) == r = [s EXCEPT !.cfs[g].curr = e]

LEMMA RanIs ==
  ASSUME NEW s \in State, NEW g \in Groups, NEW e \in Entities \cup {None}, NEW r, Ran(s, g, e, r)
  PROVE  r \in State /\ Same(s, r)
<1> DEFINE v == [s.cfs[g] EXCEPT !.curr = e]
<1>1. s.cfs \in [Groups -> CfsRqs] /\ s.cfs[g] \in CfsRqs
  BY DEF State
<1>2. /\ v \in CfsRqs /\ v.on_list = s.cfs[g].on_list /\ v.queue = s.cfs[g].queue
      /\ v.throttled = s.cfs[g].throttled /\ v.throttle_count = s.cfs[g].throttle_count
  BY <1>1 DEF CfsRqs
<1>3. Changed(s, g, v, r)
  BY DEF State, Changed, Ran
<1> HIDE DEF v
<1>. QED
  BY <1>2, <1>3, QuietChange

LEMMA SetNextTaskIs ==
  ASSUME NEW s \in State, NEW t \in Tasks, NEW g \in Groups
  PROVE  SetNextTask(s, t, g) \in State /\ Same(s, SetNextTask(s, t, g))
<1> DEFINE l == Levels(t, g)
<1>0. SetNextTask(s, t, g) = FoldLeft(NextLevel, s, l)
  BY DEF SetNextTask
<1>1. PICK n : Stairs(l, n)
  <2>1. t \in Entities
    BY DEF Entities
  <2>. QED
    BY <2>1, LevelsStairs
<1> HIDE DEF l
<1> DEFINE P == {p \in (0 .. n) \X State : Same(s, p[2])}
<1>2. n \in Nat /\ DOMAIN l = 1 .. n /\ \A k \in 1 .. n : l[k].q \in Groups /\ l[k].e \in Entities
  BY <1>1 DEF Stairs
<1>3. << 0, s >> \in P
  BY <1>2, SameSelf
<1>4. ASSUME NEW k \in 1 .. n, NEW x, << k - 1, x >> \in P
      PROVE  << k, NextLevel(x, l[k]) >> \in P
  <2>1. x \in State /\ Same(s, x)
    BY <1>4
  <2> DEFINE u == NextLevel(x, l[k])
             a == l[k].e
  <2>2. Ran(x, l[k].q, a, u) /\ a \in Entities
    BY <1>2, Zenon DEF NextLevel, Ran
  <2> HIDE DEF u, a
  <2>3. u \in State /\ Same(x, u)
    BY <1>2, <2>1, <2>2, RanIs
  <2>. QED
    BY <1>2, <2>1, <2>3, SameTwice DEF u
<1> HIDE DEF P
<1>5. << n, FoldLeft(NextLevel, s, l) >> \in P
  BY <1>2, <1>3, <1>4, NextWalk
<1>. QED
  BY <1>0, <1>5 DEF P

\* A change of whether a cfs_rq has load
Loads(s, g, b, r) == r = [s EXCEPT !.cfs[g].loaded = b]

LEMMA LoadsIs ==
  ASSUME NEW s \in State, NEW g \in Groups, NEW b \in BOOLEAN, NEW r, Loads(s, g, b, r)
  PROVE  r \in State /\ Same(s, r)
<1> DEFINE v == [s.cfs[g] EXCEPT !.loaded = b]
<1>1. s.cfs \in [Groups -> CfsRqs] /\ s.cfs[g] \in CfsRqs
  BY DEF State
<1>2. /\ v \in CfsRqs /\ v.on_list = s.cfs[g].on_list /\ v.queue = s.cfs[g].queue
      /\ v.throttled = s.cfs[g].throttled /\ v.throttle_count = s.cfs[g].throttle_count
  BY <1>1 DEF CfsRqs
<1>3. Changed(s, g, v, r)
  BY DEF State, Changed, Loads
<1> HIDE DEF v
<1>. QED
  BY <1>2, <1>3, QuietChange

LEMMA VisitIs ==
  ASSUME NEW s \in State, NEW g \in Groups, NEW gone
  PROVE  Visit(gone, s, g) \in State /\ Same(s, Visit(gone, s, g))
<1> DEFINE b == s.cfs[g].loaded /\ g \notin gone
           t == [s EXCEPT !.cfs[g].loaded = @ /\ g \notin gone]
<1>1. Visit(gone, s, g) = IF IsDecayed(t, g) THEN ListDel(t, g) ELSE t
  BY DEF Visit
<1>2. Loads(s, g, b, t) /\ b \in BOOLEAN
  BY Zenon DEF Loads
<1> HIDE DEF b, t
<1>3. t \in State /\ Same(s, t)
  BY <1>2, LoadsIs
<1>. QED
  BY <1>1, <1>3, ListDelIs, SameTwice

LEMMA VisitAll ==
  ASSUME NEW s \in State, NEW gone, NEW q \in Seq(Groups)
  PROVE  VisitFold(gone, s, q) \in State /\ Same(s, VisitFold(gone, s, q))
<1> DEFINE n == Len(q)
           P == {p \in (0 .. n) \X State : Same(s, p[2])}
<1>1. n \in Nat /\ DOMAIN q = 1 .. n /\ \A k \in 1 .. n : q[k] \in Groups
  OBVIOUS
<1> HIDE DEF n
<1>2. << 0, s >> \in P
  BY <1>1, SameSelf
<1>3. ASSUME NEW k \in 1 .. n, NEW x, << k - 1, x >> \in P
      PROVE  << k, Visit(gone, x, q[k]) >> \in P
  <2>1. x \in State /\ Same(s, x)
    BY <1>3
  <2> DEFINE u == Visit(gone, x, q[k])
  <2>2. u \in State /\ Same(x, u)
    BY <1>1, <2>1, VisitIs
  <2> HIDE DEF u
  <2>3. u \in State /\ Same(s, u)
    BY <2>1, <2>2, SameTwice
  <2>. QED
    BY <1>1, <2>3 DEF u
<1> HIDE DEF P
<1>4. << n, VisitFold(gone, s, q) >> \in P
  BY <1>1, <1>2, <1>3, VisitWalk
<1>. QED
  BY <1>4 DEF P


LEMMA ChangeGroupIs ==
  ASSUME NEW s \in State, NEW t \in Tasks, NEW a \in Groups, NEW b \in Groups, NEW empty \in BOOLEAN
  PROVE  ChangeGroup(s, t, a, b, empty) \in State /\ Same(s, ChangeGroup(s, t, a, b, empty))
<1> DEFINE p == s.cfs[a].loaded /\ ~empty
           u == [s EXCEPT !.cfs[a].loaded = @ /\ ~empty]
           l == Levels(t, a)
           v == Propagate(u, l)
           w == [v EXCEPT !.cfs[b].loaded = TRUE]
           m == Levels(t, b)
           r == Propagate(w, m)
           y == TRUE
<1>1. ChangeGroup(s, t, a, b, empty) = r
  BY Zenon DEF ChangeGroup
<1>2. Loads(s, a, p, u) /\ p \in BOOLEAN /\ Loads(v, b, y, w) /\ y \in BOOLEAN
  BY Zenon DEF Loads
<1>3. t \in Entities
  BY DEF Entities
<1>4. (\E n : Stairs(l, n)) /\ (\E n : Stairs(m, n))
  BY <1>3, LevelsStairs
<1> HIDE DEF p, u, l, v, w, m, r, y
<1>5. u \in State /\ Same(s, u)
  BY <1>2, LoadsIs
<1>6. v \in State /\ Same(u, v)
  BY <1>4, <1>5, PropagateIs DEF v
<1>7. w \in State /\ Same(v, w)
  BY <1>2, <1>6, LoadsIs
<1>8. r \in State /\ Same(w, r)
  BY <1>4, <1>7, PropagateIs DEF r
<1>9. Same(s, v) /\ Same(v, r)
  BY <1>5, <1>6, <1>7, <1>8, SameTwice
<1>10. Same(s, r)
  BY <1>9, SameTwice
<1>. QED
  BY <1>1, <1>8, <1>10

-----------------------------------------------------------------------------
(* Putting the running task, and unthrottling *)

LEMMA SameSound ==
  ASSUME NEW on, Rooted(on), NEW hm, NEW X, NEW s, NEW r \in State, Same(s, r), Sound(s, on, hm, X)
  PROVE  Sound(r, on, hm, X)
BY SameRight DEF Sound

LEMMA PutLevelIs ==
  ASSUME Rooted(online), NEW hm, NEW poor \in SUBSET (online \ {Root}), NEW s,
         Sound(s, online, hm, {}), NEW l, l.q \in Groups
  PROVE  /\ Sound(PutLevel(poor, s, l), online, hm, {})
         /\ Shrinks(s, PutLevel(poor, s, l))
<1> DEFINE q == l.q
           x == IF Throttles(s, l.q, poor) THEN Throttle(s, l.q) ELSE s
           r == PutLevel(poor, s, l)
           e == None
<1>1. Ran(x, q, e, r) /\ e \in Entities \cup {None}
  BY Zenon DEF PutLevel, Ran
<1>2. Sound(x, online, hm, {}) /\ Shrinks(s, x)
  <2>1. CASE Throttles(s, l.q, poor)
    <3>1. q \in online \ {Root} /\ ~s.cfs[q].throttled
      BY <2>1 DEF Throttles
    <3>2. Sound(s, online, hm, {q})
      BY MoreExcepted DEF Sound
    <3> HIDE DEF q
    <3>3. Sound(Throttle(s, q), online, hm, {}) /\ Shrinks(s, Throttle(s, q))
      BY <3>1, <3>2, ThrottleIs
    <3>. QED
      BY <2>1, <3>3 DEF q
  <2>2. CASE ~Throttles(s, l.q, poor)
    BY <2>2 DEF Shrinks
  <2>. QED
    BY <2>1, <2>2
<1> HIDE DEF x, r, e
<1>3. x \in State
  BY <1>2 DEF Sound
<1>4. r \in State /\ Same(x, r)
  BY <1>1, <1>3, RanIs
<1>5. Sound(r, online, hm, {}) /\ Shrinks(x, r)
  BY <1>2, <1>4, SameSound, SameShrinks
<1>. QED
  BY <1>2, <1>5, ShrinksTwice DEF r

\* put_prev_task_fair() leaves everything right, and no queue with an entity it had not.
LEMMA PutPrevTaskIs ==
  ASSUME Rooted(online), NEW hm, NEW poor \in SUBSET (online \ {Root}), NEW s,
         Sound(s, online, hm, {}), NEW t \in Tasks, NEW g \in Groups
  PROVE  /\ Sound(PutPrevTask(s, t, g, poor), online, hm, {})
         /\ Shrinks(s, PutPrevTask(s, t, g, poor))
<1> DEFINE l == Levels(t, g)
<1>0. PutPrevTask(s, t, g, poor) = PutFold(poor, s, l)
  BY Zenon DEF PutPrevTask, PutFold
<1>1. PICK n : Stairs(l, n)
  <2>1. t \in Entities
    BY DEF Entities
  <2>. QED
    BY <2>1, LevelsStairs
<1> HIDE DEF l
<1> DEFINE P == {p \in (0 .. n) \X State : Sound(p[2], online, hm, {}) /\ Shrinks(s, p[2])}
<1>2. n \in Nat /\ DOMAIN l = 1 .. n /\ \A k \in 1 .. n : l[k].q \in Groups
  BY <1>1 DEF Stairs
<1>3. << 0, s >> \in P
  BY <1>2 DEF Sound, Shrinks
<1>4. ASSUME NEW k \in 1 .. n, NEW x, << k - 1, x >> \in P
      PROVE  << k, PutLevel(poor, x, l[k]) >> \in P
  <2>1. Sound(x, online, hm, {}) /\ Shrinks(s, x)
    BY <1>4
  <2> DEFINE u == PutLevel(poor, x, l[k])
  <2>2. Sound(u, online, hm, {}) /\ Shrinks(x, u)
    BY <1>2, <2>1, PutLevelIs
  <2> HIDE DEF u
  <2>3. u \in State /\ Shrinks(s, u)
    BY <2>1, <2>2, ShrinksTwice DEF Sound
  <2>. QED
    BY <1>2, <2>2, <2>3 DEF u
<1> HIDE DEF P
<1>5. << n, PutFold(poor, s, l) >> \in P
  BY <1>2, <1>3, <1>4, PutWalk
<1>. QED
  BY <1>0, <1>5 DEF P

\* unthrottle_cfs_rq() of a group that is throttled
LEMMA UnthrottleIs ==
  ASSUME Rooted(online), NEW hm, NEW poor \in SUBSET (online \ {Root}), NEW s,
         Sound(s, online, hm, {}), NEW g \in online \ {Root}, s.cfs[g].throttled
  PROVE  Sound(UnthrottleCfsRq(s, g, poor), online, hm, {})
<1> DEFINE b == FALSE
           o == [s EXCEPT !.cfs[g].throttled = FALSE]
           R == Reverse(Subtree(g))
           x == FoldLeft(UnthrottleUp, o, R)
           m == x.cfs[g].h
           d == x.cfs[g].idle_h
           y == Done(EnqueueFold(m, poor, Walk(x, d), GroupLevels(g)), m)
           r == UnthrottleCfsRq(s, g, poor)
<1>1. r = IF x.cfs[g].queue = {} THEN IF x.cfs[g].on_list THEN CompleteBranch(x, g) ELSE x ELSE y
  BY Zenon DEF UnthrottleCfsRq, EnqueueFold
<1>2. Marked(s, g, b, o) /\ b \in BOOLEAN
  BY DEF Marked
<1>3. s \in State /\ CountsRight(s, online) /\ QueuesRight(s, online, hm, {})
  BY DEF Sound
<1>4. g \in Groups /\ online \subseteq Groups /\ Parent[g] \in Groups /\ Parent[g] \in online
      /\ Parent[g] # g /\ g \notin Tasks
  BY ParentIsOther, HierarchyAssumption DEF Rooted
<1>5. R \in Seq(Groups) /\ Lists(R, Below(g, online)) /\ Below(g, online) \in SUBSET Groups
  BY <1>4, SubtreeLists, ReverseLists
<1> HIDE DEF b, o, R, r
<1>6. /\ o \in State /\ SameQueues(s, o) /\ o.cfs[g].throttled = b
      /\ \A d_1 \in Groups : o.cfs[d_1].throttle_count = s.cfs[d_1].throttle_count
      /\ \A d_1 \in Groups : d_1 # g => o.cfs[d_1].throttled = s.cfs[d_1].throttled
  BY <1>2, <1>3, <1>4, MarkIs
<1>7. x \in State /\ CountsMove(o, x, Below(g, online), -1)
  BY <1>5, <1>6, UnthrottleUpAll
<1> HIDE DEF x
<1>8. ~x.cfs[g].throttled /\ \A c \in Groups : c # g => x.cfs[c].throttled = s.cfs[c].throttled
  <2>1. \A c \in Groups : x.cfs[c].throttled = o.cfs[c].throttled
    BY <1>7 DEF CountsMove
  <2>2. ~o.cfs[g].throttled
    BY <1>6, Zenon DEF b
  <2>. QED
    BY <1>4, <1>6, <2>1, <2>2
<1>9. CountsRight(x, online)
  <2>1. ASSUME NEW c \in Groups
        PROVE  s.cfs[c].throttle_count
                 = x.cfs[c].throttle_count + (IF c \in Below(g, online) THEN 1 ELSE 0)
    <3>1. s.cfs[c].throttle_count \in Int
      BY <1>3 DEF State, CfsRqs
    <3>2. x.cfs[c].throttle_count
            = s.cfs[c].throttle_count + (IF c \in Below(g, online) THEN -1 ELSE 0)
      BY <1>6, <1>7 DEF CountsMove
    <3>. QED
      BY <3>1, <3>2
  <2>2. \A c \in Groups : c # g => s.cfs[c].throttled = x.cfs[c].throttled
    BY <1>8
  <2>. QED
    BY <1>3, <1>4, <1>7, <1>8, <2>1, <2>2, CountsMarked
<1>10. SameQueues(s, x)
  BY <1>6, <1>7 DEF CountsMove, SameQueues
<1>11. g \notin x.cfs[Parent[g]].queue
  <2>1. ~HasWork(s, g)
    BY DEF HasWork
  <2>. QED
    BY <1>3, <1>4, <1>10, <2>1 DEF QueuesRight, SameQueues
<1>12. QueuesRight(x, online, hm, {g})
  <2>1. \A c \in Groups \ online : x.cfs[c].queue = {} /\ ~x.cfs[c].throttled
    BY <1>3, <1>4, <1>8, <1>10 DEF QueuesRight, SameQueues
  <2>2. \A c \in Groups : \A e \in x.cfs[c].queue : IsChild(e, c, online, hm)
    BY <1>3, <1>10 DEF QueuesRight, SameQueues
  <2>3. ASSUME NEW c \in online \ {Root}, c \notin {g}
        PROVE  c \in x.cfs[Parent[c]].queue <=> HasWork(x, c)
    <3>1. c \in Groups /\ Parent[c] \in Groups /\ c # g
      BY <2>3 DEF Rooted
    <3>2. c \in s.cfs[Parent[c]].queue <=> HasWork(s, c)
      BY <1>3 DEF QueuesRight
    <3>. QED
      BY <1>8, <1>10, <3>1, <3>2 DEF HasWork, SameQueues
  <2>. QED
    BY <2>1, <2>2, <2>3 DEF QueuesRight
<1>13. CASE x.cfs[g].queue = {}
  <2>1. QueuesRight(x, online, hm, {})
    <3> DEFINE X == {}
    <3>1. QueuesRight(x, online, hm, X \cup {g})
      <4>1. X \cup {g} = {g}
        OBVIOUS
      <4>. QED
        BY <1>12, <4>1
    <3>2. ~HasWork(x, g)
      BY <1>13 DEF HasWork
    <3> HIDE DEF X
    <3>3. QueuesRight(x, online, hm, X)
      BY <1>11, <3>1, <3>2, NotPending
    <3>. QED
      BY <3>3 DEF X
  <2>2. Sound(x, online, hm, {})
    BY <1>7, <1>9, <2>1 DEF Sound
  <2>3. CASE x.cfs[g].on_list
    <3> DEFINE v == CompleteBranch(x, g)
    <3>1. v \in State /\ Same(x, v)
      BY <1>4, <1>7, CompleteBranchIs
    <3> HIDE DEF v
    <3>2. Sound(v, online, hm, {})
      BY <2>2, <3>1, SameSound
    <3>. QED
      BY <1>1, <1>13, <2>3, <3>2 DEF v, r
  <2>4. CASE ~x.cfs[g].on_list
    BY <1>1, <1>13, <2>2, <2>4 DEF r
  <2>. QED
    BY <2>3, <2>4
<1>14. CASE x.cfs[g].queue # {}
  <2>1. HasWork(x, g) /\ Sound(x, online, hm, {g})
    BY <1>7, <1>8, <1>9, <1>12, <1>14 DEF HasWork, Sound
  <2>2. m \in Int /\ d \in Int
    BY <1>4, <1>7 DEF State, CfsRqs
  <2>3. Starts(g, Parent[g], online, hm) /\ GroupLevels(g) = Levels(g, Parent[g])
    BY <1>4 DEF Starts, Entities, GroupLevels
  <2> HIDE DEF m, d
  <2>4. Sound(y, online, hm, {})
    BY <2>1, <2>2, <2>3, EnterAll
  <2>. QED
    BY <1>1, <1>14, <2>4 DEF r
<1>. QED
  BY <1>13, <1>14


-----------------------------------------------------------------------------
(* The invariant *)

\* The online groups are a tree from the root, every task's group is online, and the counts,
\* the list and all the queues are right.
HierarchyInv == /\ Rooted(online) /\ home \in [Tasks -> online]
                /\ Sound(Here, online, home, {})

LEMMA BecomesIs ==
  ASSUME NEW s \in State, Becomes(s)
  PROVE  Here' = s
BY DEF State, Becomes, Here

LEMMA InvKept ==
  ASSUME HierarchyInv, UNCHANGED << home, online >>,
         NEW s, Becomes(s), Sound(s, online, home, {})
  PROVE  HierarchyInv'
<1>1. Here' = s /\ home' = home /\ online' = online
  BY BecomesIs DEF Sound
<1>. QED
  BY <1>1 DEF HierarchyInv

LEMMA SameKept ==
  ASSUME HierarchyInv, UNCHANGED << home, online >>,
         NEW s \in State, Becomes(s), Same(Here, s)
  PROVE  HierarchyInv'
<1>1. Sound(s, online, home, {})
  BY SameSound DEF HierarchyInv
<1>. QED
  BY <1>1, InvKept

LEMMA InitInv == Init => HierarchyInv
<1>. SUFFICES ASSUME Init PROVE HierarchyInv
  OBVIOUS
<1>1. Root \in Groups
  BY HierarchyAssumption
<1>2. Rooted(online) /\ home \in [Tasks -> online]
  BY <1>1 DEF Init, Rooted
<1>3. NewCfsRq \in CfsRqs /\ NewCfsRq.queue = {} /\ ~NewCfsRq.throttled
      /\ NewCfsRq.throttle_count = 0 /\ ~NewCfsRq.on_list
  BY DEF NewCfsRq, CfsRqs
<1>4. Here = [cfs |-> [g \in Groups |-> NewCfsRq], rq |-> rq] /\ rq \in Rqs
      /\ rq.leaf = << >> /\ rq.branch = ListHead
  BY DEF Init, Here, Rqs
<1> HIDE DEF NewCfsRq
<1>5. \A g \in Groups : Here.cfs[g] = NewCfsRq
  BY <1>4
<1>6. Here \in State
  <2>1. OnList(Here) = {}
    BY <1>3, <1>5 DEF OnList
  <2>2. Lists(<< >>, {})
    BY DEF Lists
  <2>3. ListRight(Here)
    BY <1>4, <2>1, <2>2 DEF ListRight
  <2>. QED
    BY <1>3, <1>4, <2>3 DEF State
<1>7. CountsRight(Here, online)
  <2>1. \A g \in online : g \in Groups /\ Ancestors(g) \subseteq Groups
    BY <1>2, AncestorsOf DEF Rooted
  <2>2. \A g \in online : ThrottledAbove(Here, g) = {}
    BY <1>3, <1>5, <2>1 DEF ThrottledAbove
  <2>. QED
    BY <1>3, <1>5, <2>1, <2>2, FS_EmptySet DEF CountsRight
<1>8. QueuesRight(Here, online, home, {})
  <2>1. \A g \in online \ {Root} : g \in Groups /\ Parent[g] \in Groups
    BY <1>2 DEF Rooted
  <2>. QED
    BY <1>3, <1>5, <2>1 DEF QueuesRight, HasWork
<1>. QED
  BY <1>2, <1>6, <1>7, <1>8 DEF HierarchyInv, Sound

LEMMA PoorIs ==
  ASSUME NEW poor \in SUBSET Throttleable
  PROVE  poor \in SUBSET (online \ {Root})
BY HierarchyAssumption DEF Throttleable

LEMMA PutPrevIs ==
  ASSUME HierarchyInv, NEW poor \in SUBSET (online \ {Root}), NEW s, Sound(s, online, home, {})
  PROVE  Sound(PutPrev(s, poor), online, home, {})
<1> DEFINE t == CHOOSE t \in Running : TRUE
<1>1. PutPrev(s, poor) = IF Running = {} THEN s ELSE PutPrevTask(s, t, home[t], poor)
  BY DEF PutPrev
<1>2. CASE Running = {}
  BY <1>1, <1>2
<1>3. CASE Running # {}
  <2>1. t \in Running
    BY <1>3
  <2>2. Running \subseteq Tasks
    BY DEF Running
  <2> HIDE DEF t
  <2>3. t \in Tasks
    BY <2>1, <2>2
  <2>4. home[t] \in Groups
    BY <2>3 DEF HierarchyInv, Rooted
  <2>5. Sound(PutPrevTask(s, t, home[t], poor), online, home, {})
    BY <2>3, <2>4, PutPrevTaskIs DEF HierarchyInv
  <2>. QED
    BY <1>1, <1>3, <2>5
<1>. QED
  BY <1>2, <1>3

LEMMA PickIs ==
  ASSUME HierarchyInv, NEW poor \in SUBSET (online \ {Root}), NEW s, Sound(s, online, home, {}),
         Pick(s, poor)
  PROVE  \E r : Becomes(r) /\ Sound(r, online, home, {})
<1>1. PICK r \in {s} \cup {Throttle(s, g) : g \in FirstPoor(s, poor)} :
        \/ Becomes(r)
        \/ \E put \in {PutPrev(r, poor)} :
             \E t \in Pickable(put) : Becomes(SetNextTask(put, t, home[t]))
  BY DEF Pick
<1>2. Sound(r, online, home, {})
  <2>1. CASE r = s
    BY <2>1
  <2>2. CASE r # s
    <3>1. PICK g \in FirstPoor(s, poor) : r = Throttle(s, g)
      BY <1>1, <2>2
    <3>2. g \in online \ {Root} /\ ~s.cfs[g].throttled
      BY <3>1 DEF FirstPoor, Throttles
    <3>3. Sound(s, online, home, {g})
      BY MoreExcepted DEF Sound
    <3>4. Sound(Throttle(s, g), online, home, {})
      BY <3>2, <3>3, ThrottleIs DEF HierarchyInv
    <3>. QED
      BY <3>1, <3>4
  <2>. QED
    BY <2>1, <2>2
<1>3. CASE Becomes(r)
  BY <1>2, <1>3
<1>4. CASE \E put \in {PutPrev(r, poor)} :
             \E t \in Pickable(put) : Becomes(SetNextTask(put, t, home[t]))
  <2> DEFINE put == PutPrev(r, poor)
  <2>1. Sound(put, online, home, {})
    BY <1>2, PutPrevIs
  <2> HIDE DEF put
  <2>2. PICK t \in Pickable(put) : Becomes(SetNextTask(put, t, home[t]))
    BY <1>4 DEF put
  <2>3. t \in Tasks /\ home[t] \in Groups
    BY <2>2 DEF Pickable, HierarchyInv, Rooted
  <2> DEFINE u == SetNextTask(put, t, home[t])
  <2>4. u \in State /\ Same(put, u)
    BY <2>1, <2>3, SetNextTaskIs DEF Sound
  <2> HIDE DEF u
  <2>5. Sound(u, online, home, {})
    BY <2>1, <2>4, SameSound DEF HierarchyInv
  <2>. QED
    BY <2>2, <2>5 DEF u
<1>. QED
  BY <1>1, <1>3, <1>4

LEMMA ScheduleInv ==
  ASSUME HierarchyInv, NEW poor \in SUBSET Throttleable, Schedule(poor)
  PROVE  HierarchyInv'
<1>1. Pick(Here, poor) /\ UNCHANGED << home, online >> /\ Sound(Here, online, home, {})
  BY DEF Schedule, HierarchyInv
<1>2. \E r : Becomes(r) /\ Sound(r, online, home, {})
  BY <1>1, PoorIs, PickIs
<1>. QED
  BY <1>1, <1>2, InvKept

LEMMA BlockInv ==
  ASSUME HierarchyInv, NEW poor \in SUBSET Throttleable, Block(poor)
  PROVE  HierarchyInv'
<1>1. PICK t \in Running : Pick(DequeueTask(Here, t, home[t]), poor)
  BY DEF Block
<1>2. UNCHANGED << home, online >> /\ t \in Tasks
  BY DEF Block, Running
<1>3. Sound(DequeueTask(Here, t, home[t]), online, home, {})
  BY <1>2, DequeueTaskIs DEF HierarchyInv
<1>4. \E r : Becomes(r) /\ Sound(r, online, home, {})
  BY <1>1, <1>3, PoorIs, PickIs
<1>. QED
  BY <1>2, <1>4, InvKept

LEMMA NewidleDoneInv ==
  ASSUME HierarchyInv, NEW poor \in SUBSET Throttleable, NewidleDone(poor)
  PROVE  HierarchyInv'
<1>1. UNCHANGED << home, online >> /\ Sound(Here, online, home, {})
  BY DEF NewidleDone, HierarchyInv
<1>2. CASE Pick(Here, poor)
  <2>1. \E r : Becomes(r) /\ Sound(r, online, home, {})
    BY <1>1, <1>2, PoorIs, PickIs
  <2>. QED
    BY <1>1, <2>1, InvKept
<1>3. CASE Becomes(PutPrev(Here, poor))
  <2>1. Sound(PutPrev(Here, poor), online, home, {})
    BY <1>1, PoorIs, PutPrevIs
  <2>. QED
    BY <1>1, <1>3, <2>1, InvKept
<1>. QED
  BY <1>2, <1>3 DEF NewidleDone

LEMMA WakeInv ==
  ASSUME HierarchyInv, NEW poor \in SUBSET Throttleable, NEW t \in Tasks, Wake(t, poor)
  PROVE  HierarchyInv'
<1>1. UNCHANGED << home, online >> /\ Becomes(EnqueueTask(Here, t, home[t], poor))
  BY DEF Wake
<1>2. Sound(EnqueueTask(Here, t, home[t], poor), online, home, {})
  BY PoorIs, EnqueueTaskIs DEF HierarchyInv
<1>. QED
  BY <1>1, <1>2, InvKept

LEMMA LeaveInv ==
  ASSUME HierarchyInv, NEW t \in Tasks, Leave(t)
  PROVE  HierarchyInv'
<1>1. UNCHANGED << home, online >> /\ Becomes(DequeueTask(Here, t, home[t]))
  BY DEF Leave
<1>2. Sound(DequeueTask(Here, t, home[t]), online, home, {})
  BY DequeueTaskIs DEF HierarchyInv
<1>. QED
  BY <1>1, <1>2, InvKept

LEMMA UnthrottleInv ==
  ASSUME HierarchyInv, NEW poor \in SUBSET Throttleable, NEW g \in Limited, Unthrottle(g, poor)
  PROVE  HierarchyInv'
<1>1. UNCHANGED << home, online >> /\ Becomes(UnthrottleCfsRq(Here, g, poor))
      /\ g \in online \ {Root} /\ Here.cfs[g].throttled
  BY HierarchyAssumption DEF Unthrottle, Here
<1>2. Sound(UnthrottleCfsRq(Here, g, poor), online, home, {})
  BY <1>1, PoorIs, UnthrottleIs DEF HierarchyInv
<1>. QED
  BY <1>1, <1>2, InvKept

LEMMA UpdateBlockedInv ==
  ASSUME HierarchyInv, NEW gone, UpdateBlocked(gone)
  PROVE  HierarchyInv'
<1>1. UNCHANGED << home, online >> /\ Becomes(VisitFold(gone, Here, rq.leaf))
  BY Zenon DEF UpdateBlocked, VisitFold
<1>2. Here \in State /\ rq.leaf \in Seq(Groups)
  BY DEF HierarchyInv, Sound, State, Rqs, Here
<1> DEFINE s == VisitFold(gone, Here, rq.leaf)
<1>3. s \in State /\ Same(Here, s)
  BY <1>2, VisitAll
<1> HIDE DEF s
<1>4. Becomes(s)
  BY <1>1 DEF s
<1>. QED
  BY <1>1, <1>3, <1>4, SameKept


LEMMA SetIdleInv ==
  ASSUME HierarchyInv, NEW g \in Groups, SetIdle(g)
  PROVE  HierarchyInv'
<1> DEFINE f == Parent[g]
           set == [Here EXCEPT !.cfs[g].idle = ~@]
           sign == IF set.cfs[g].idle THEN 1 ELSE -1
           own == IF g \in cfs[f].queue THEN [set EXCEPT !.cfs[f].idle_nr = @ + sign] ELSE set
           d == sign * (cfs[g].h - cfs[g].idle_h)
           w == Walk(own, d)
           r == FoldLeft(SetIdleLevel, w, GroupLevels(g))
<1>1. /\ Becomes(r.s) /\ UNCHANGED << home, online >> /\ g # Root /\ f \in Groups
  BY Zenon, HierarchyAssumption DEF SetIdle
<1>2. Here \in State /\ cfs = Here.cfs
  BY DEF HierarchyInv, Sound, Here
<1>3. cfs[g].h \in Int /\ cfs[g].idle_h \in Int /\ sign \in {1, -1}
  BY <1>2 DEF State, CfsRqs
<1>4. set \in State /\ Same(Here, set)
  <2> DEFINE s == Here
             v == [s.cfs[g] EXCEPT !.idle = ~@]
  <2>1. set = [s EXCEPT !.cfs[g] = v]
    BY <1>2 DEF State
  <2>2. s \in State /\ s.cfs[g] \in CfsRqs
    BY <1>2 DEF State
  <2> HIDE DEF s, set
  <2>3. /\ v \in CfsRqs /\ v.on_list = s.cfs[g].on_list /\ v.queue = s.cfs[g].queue
        /\ v.throttled = s.cfs[g].throttled /\ v.throttle_count = s.cfs[g].throttle_count
    BY <2>2 DEF CfsRqs
  <2>4. Changed(s, g, v, set)
    BY <2>1 DEF Changed
  <2> HIDE DEF v
  <2>5. set \in State /\ Same(s, set)
    BY <2>2, <2>3, <2>4, QuietChange
  <2>. QED
    BY <2>5 DEF s
<1> HIDE DEF set, sign
<1>5. own \in State /\ Same(set, own)
  <2>1. CASE g \in cfs[f].queue
    <3> DEFINE v == [set.cfs[f] EXCEPT !.idle_nr = @ + sign]
    <3>1. own = [set EXCEPT !.cfs[f] = v]
      BY <1>4, <2>1 DEF State
    <3>2. set.cfs[f] \in CfsRqs
      BY <1>1, <1>4 DEF State
    <3> HIDE DEF own
    <3>3. /\ v \in CfsRqs /\ v.on_list = set.cfs[f].on_list /\ v.queue = set.cfs[f].queue
          /\ v.throttled = set.cfs[f].throttled
          /\ v.throttle_count = set.cfs[f].throttle_count
      BY <1>3, <3>2 DEF CfsRqs
    <3>4. Changed(set, f, v, own)
      BY <3>1 DEF Changed
    <3> HIDE DEF v, f
    <3>. QED
      BY <1>1, <1>4, <3>3, <3>4, QuietChange
  <2>2. CASE g \notin cfs[f].queue
    BY <1>4, <2>2, SameSelf
  <2>. QED
    BY <2>1, <2>2
<1>6. d \in Int
  <2>1. sign * (cfs[g].h - cfs[g].idle_h) \in Int
    BY <1>3
  <2>. QED
    BY <2>1
<1> HIDE DEF own, d
<1>7. w \in Walks /\ w.s = own
  BY <1>5, <1>6, WalkIs
<1>8. PICK n : Stairs(GroupLevels(g), n)
  BY GroupStairs
<1> HIDE DEF w
<1>9. Quiet(w, r)
  BY <1>7, <1>8, SetIdleAll
<1> HIDE DEF r
<1>10. r.s \in State /\ Same(own, r.s)
  BY <1>7, <1>9 DEF Quiet, Walks
<1>11. Same(Here, own)
  BY <1>4, <1>5, SameTwice
<1>12. Same(Here, r.s)
  BY <1>10, <1>11, SameTwice
<1>. QED
  BY <1>1, <1>10, <1>12, SameKept

LEMMA MoveTaskInv ==
  ASSUME HierarchyInv, NEW poor \in SUBSET Throttleable, NEW t \in Tasks, NEW g \in Groups,
         NEW empty \in BOOLEAN, MoveTask(t, g, poor, empty)
  PROVE  HierarchyInv'
<1> DEFINE a == home[t]
           hm == [home EXCEPT ![t] = g]
           off == IF Queued(t) THEN DequeueTask(Here, t, a) ELSE Here
           put == IF t \in Running THEN PutPrevTask(off, t, a, poor) ELSE off
           moved == ChangeGroup(put, t, a, g, empty)
           on == IF Queued(t) THEN EnqueueTask(moved, t, g, poor) ELSE moved
           r == IF t \in Running THEN SetNextTask(on, t, g) ELSE on
<1>1. g \in online /\ Becomes(r) /\ home' = hm /\ online' = online
  BY Zenon DEF MoveTask
<1>2. Rooted(online) /\ home \in [Tasks -> online] /\ Sound(Here, online, home, {})
  BY DEF HierarchyInv
<1>3. a \in Groups /\ hm \in [Tasks -> online] /\ hm[t] = g
      /\ poor \in SUBSET (online \ {Root})
  BY <1>1, <1>2, PoorIs DEF Rooted
<1>4. Sound(off, online, home, {}) /\ Away(off, t)
  <2>1. CASE Queued(t)
    BY <1>2, <2>1, DequeueTaskIs
  <2>2. CASE ~Queued(t)
    <3>1. t \notin Here.cfs[home[t]].queue
      BY <2>2 DEF Queued, Here
    <3>2. QueuesRight(Here, online, home, {}) /\ t \notin Groups
      BY <1>2, HierarchyAssumption DEF Sound
    <3>3. \A d \in Groups : t \in Here.cfs[d].queue => d = home[t]
      BY <1>2, <3>2 DEF QueuesRight, IsChild, Rooted
    <3>4. Away(Here, t)
      BY <3>1, <3>3 DEF Away
    <3>. QED
      BY <1>2, <2>2, <3>4
  <2>. QED
    BY <2>1, <2>2
<1> HIDE DEF off
<1>5. Sound(put, online, home, {}) /\ Away(put, t)
  <2>1. CASE t \in Running
    <3> DEFINE u == PutPrevTask(off, t, a, poor)
    <3> HIDE DEF a
    <3>1. Sound(u, online, home, {}) /\ Shrinks(off, u)
      BY <1>2, <1>3, <1>4, PutPrevTaskIs
    <3> HIDE DEF u
    <3>2. Away(u, t)
      BY <1>4, <3>1 DEF Away, Shrinks
    <3>. QED
      BY <2>1, <3>1, <3>2 DEF u
  <2>2. CASE t \notin Running
    BY <1>4, <2>2
  <2>. QED
    BY <2>1, <2>2
<1> HIDE DEF put, a
<1>6. moved \in State /\ Same(put, moved)
  BY <1>3, <1>5, ChangeGroupIs DEF Sound
<1> HIDE DEF moved
<1>7. Sound(moved, online, home, {}) /\ Away(moved, t)
  BY <1>2, <1>5, <1>6, SameSound DEF Away, Same, SameQueues
<1>8. Sound(moved, online, hm, {})
  <2>1. \A d \in Tasks : d # t => hm[d] = home[d]
    BY <1>2
  <2> HIDE DEF hm
  <2>2. \A q \in Groups : \A e \in moved.cfs[q].queue : IsChild(e, q, online, hm)
    BY <1>7, <2>1 DEF Sound, QueuesRight, Away, IsChild
  <2>. QED
    BY <1>7, <2>2 DEF Sound, QueuesRight
<1> HIDE DEF hm
<1>9. Sound(on, online, hm, {})
  <2>1. CASE Queued(t)
    <3>1. Sound(EnqueueTask(moved, t, hm[t], poor), online, hm, {})
      BY <1>2, <1>3, <1>8, EnqueueTaskIs
    <3>. QED
      BY <1>3, <2>1, <3>1
  <2>2. CASE ~Queued(t)
    BY <1>8, <2>2
  <2>. QED
    BY <2>1, <2>2
<1> HIDE DEF on
<1>10. Sound(r, online, hm, {})
  <2>1. CASE t \in Running
    <3> DEFINE u == SetNextTask(on, t, g)
    <3>1. u \in State /\ Same(on, u)
      BY <1>9, SetNextTaskIs DEF Sound
    <3> HIDE DEF u
    <3>2. Sound(u, online, hm, {})
      BY <1>2, <1>9, <3>1, SameSound
    <3>. QED
      BY <2>1, <3>2 DEF u
  <2>2. CASE t \notin Running
    BY <1>9, <2>2
  <2>. QED
    BY <2>1, <2>2
<1> HIDE DEF r
<1>11. Here' = r
  BY <1>1, <1>10, BecomesIs DEF Sound
<1>. QED
  BY <1>1, <1>2, <1>3, <1>10, <1>11 DEF HierarchyInv


LEMMA OnlineGroupInv ==
  ASSUME HierarchyInv, NEW g \in Groups, OnlineGroup(g)
  PROVE  HierarchyInv'
<1> DEFINE f == Parent[g]
           s == Propagate(Here, GroupLevels(g))
           on == online \cup {g}
           r == [s EXCEPT !.cfs[g].throttle_count = s.cfs[f].throttle_count]
<1>1. /\ Becomes(r) /\ home' = home /\ online' = on /\ g \notin online /\ f \in online
  BY Zenon DEF OnlineGroup
<1>2. /\ Rooted(online) /\ home \in [Tasks -> online] /\ Here \in State
      /\ Sound(Here, online, home, {})
  BY DEF HierarchyInv, Sound
<1>3. g # Root /\ f \in Groups /\ g # f /\ online \subseteq Groups
  BY <1>1, <1>2 DEF Rooted
<1>4. Rooted(on) /\ home \in [Tasks -> on]
  BY <1>1, <1>2 DEF Rooted
<1>5. PICK n : Stairs(GroupLevels(g), n)
  BY GroupStairs
<1>6. s \in State /\ Same(Here, s)
  BY <1>2, <1>5, PropagateIs
<1> HIDE DEF s
<1>7. Sound(s, online, home, {})
  BY <1>2, <1>6, SameSound
<1>8. /\ r \in State /\ r.cfs[g].throttle_count = s.cfs[f].throttle_count
      /\ r.cfs[g].queue = s.cfs[g].queue /\ r.cfs[g].throttled = s.cfs[g].throttled
      /\ \A d \in Groups : d # g => r.cfs[d] = s.cfs[d]
  <2> DEFINE c == s.cfs[f].throttle_count
             v == [s.cfs[g] EXCEPT !.throttle_count = c]
  <2>1. c \in Int /\ s.cfs[g] \in CfsRqs
    BY <1>3, <1>6 DEF State, CfsRqs
  <2>2. r = [s EXCEPT !.cfs[g] = v]
    BY <1>6 DEF State
  <2> HIDE DEF r, c
  <2>3. /\ v \in CfsRqs /\ v.on_list = s.cfs[g].on_list /\ v.queue = s.cfs[g].queue
        /\ v.throttled = s.cfs[g].throttled /\ v.throttle_count = c
    BY <2>1 DEF CfsRqs
  <2>4. Changed(s, g, v, r)
    BY <2>2 DEF Changed
  <2> HIDE DEF v
  <2>5. r \in State /\ r.cfs[g] = v /\ \A d \in Groups : d # g => r.cfs[d] = s.cfs[d]
    BY <1>6, <2>3, <2>4, CfsChange
  <2>. QED
    BY <2>3, <2>5 DEF c
<1> HIDE DEF r
<1>9. s.cfs[g].queue = {} /\ ~s.cfs[g].throttled
  BY <1>1, <1>7 DEF Sound, QueuesRight
<1>10. /\ \A d \in Groups : r.cfs[d].throttled = s.cfs[d].throttled
       /\ SameQueues(s, r)
  BY <1>8 DEF SameQueues
<1>11. CountsRight(r, on)
  <2>1. ASSUME NEW d \in Groups
        PROVE  ThrottledAbove(r, d) = ThrottledAbove(s, d)
    BY <1>10, AncestorsOf DEF ThrottledAbove
  <2>2. ASSUME NEW d \in online
        PROVE  r.cfs[d].throttle_count = Cardinality(ThrottledAbove(r, d))
    <3>1. d \in Groups /\ d # g
      BY <1>1, <1>3
    <3>. QED
      BY <1>7, <1>8, <2>1, <3>1 DEF Sound, CountsRight
  <2>3. r.cfs[g].throttle_count = Cardinality(ThrottledAbove(r, g))
    <3>1. ThrottledAbove(s, g) = ThrottledAbove(s, f)
      BY <1>3, <1>9, AncestorsOf DEF ThrottledAbove
    <3>2. s.cfs[f].throttle_count = Cardinality(ThrottledAbove(s, f))
      BY <1>1, <1>7 DEF Sound, CountsRight
    <3>. QED
      BY <1>8, <2>1, <3>1, <3>2
  <2>. QED
    BY <2>2, <2>3 DEF CountsRight
<1>12. QueuesRight(r, on, home, {})
  <2>1. \A d \in Groups \ on : r.cfs[d].queue = {} /\ ~r.cfs[d].throttled
    BY <1>7, <1>10 DEF Sound, QueuesRight, SameQueues
  <2>2. \A d \in Groups : \A e \in r.cfs[d].queue : IsChild(e, d, on, home)
    BY <1>7, <1>10 DEF Sound, QueuesRight, SameQueues, IsChild
  <2>3. ASSUME NEW d \in on \ {Root}
        PROVE  d \in r.cfs[Parent[d]].queue <=> HasWork(r, d)
    <3>1. d \in Groups /\ Parent[d] \in Groups
      BY <1>4 DEF Rooted
    <3>2. r.cfs[Parent[d]].queue = s.cfs[Parent[d]].queue /\ HasWork(r, d) = HasWork(s, d)
      BY <1>10, <3>1 DEF HasWork, SameQueues
    <3>3. CASE d = g
      <4>1. g \notin Tasks
        BY HierarchyAssumption
      <4>2. g \notin s.cfs[f].queue
        BY <1>1, <1>3, <1>7, <4>1 DEF Sound, QueuesRight, IsChild
      <4>. QED
        BY <1>9, <3>2, <3>3, <4>2 DEF HasWork
    <3>4. CASE d # g
      BY <1>7, <3>2, <3>4 DEF Sound, QueuesRight
    <3>. QED
      BY <3>3, <3>4
  <2>. QED
    BY <2>1, <2>2, <2>3 DEF QueuesRight
<1>13. Here' = r
  BY <1>1, <1>8, BecomesIs
<1>. QED
  BY <1>1, <1>4, <1>8, <1>11, <1>12, <1>13 DEF HierarchyInv, Sound

\* A group that is nobody's parent is above no other.
LEMMA LeafIsAlone ==
  ASSUME NEW on, Rooted(on), NEW g \in on \ {Root}, \A c \in on \ {Root} : Parent[c] # g,
         NEW d \in on, d # g
  PROVE  g \notin Ancestors(d)
<1> DEFINE P == {c \in Groups : c \in on => c = g \/ g \notin Ancestors(c)}
<1>1. ASSUME NEW c \in Groups, c = Root \/ Parent[c] \in P
      PROVE  c \in P
  <2>1. CASE c = Root
    <3>1. Ancestors(c) = {Root}
      BY <2>1, AncestorsOf
    <3>. QED
      BY <3>1
  <2>2. CASE c # Root
    <3>1. Ancestors(c) = {c} \cup Ancestors(Parent[c])
      BY <2>2, AncestorsOf
    <3>. QED
      BY <1>1, <2>2, <3>1 DEF Rooted
  <2>. QED
    BY <2>1, <2>2
<1> HIDE DEF P
<1>2. Groups \subseteq P
  BY <1>1, TreeInduction
<1>3. d \in P
  BY <1>2 DEF Rooted
<1>. QED
  BY <1>3 DEF P

LEMMA UnregisterGroupInv ==
  ASSUME HierarchyInv, NEW g \in Groups, UnregisterGroup(g)
  PROVE  HierarchyInv'
<1> DEFINE s == ListDel(Here, g)
           on == online \ {g}
           v == NewCfsRq
           r == [s EXCEPT !.cfs[g] = NewCfsRq]
<1>1. /\ Becomes(r) /\ home' = home /\ online' = on /\ g \in online \ {Root}
      /\ \A t \in Tasks : home[t] # g
      /\ \A c \in online \ {Root} : Parent[c] # g
  BY Zenon DEF UnregisterGroup
<1>2. /\ Rooted(online) /\ home \in [Tasks -> online] /\ Here \in State
      /\ Sound(Here, online, home, {})
  BY DEF HierarchyInv, Sound
<1>3. Parent[g] \in Groups /\ online \subseteq Groups /\ Parent[g] \in online /\ Parent[g] # g
  BY <1>1, <1>2, ParentIsOther DEF Rooted
<1>4. Rooted(on) /\ home \in [Tasks -> on]
  BY <1>1, <1>2 DEF Rooted
<1>6. s \in State /\ Same(Here, s) /\ g \notin OnList(s)
  BY <1>2, ListDelIs
<1> HIDE DEF s
<1>7. Sound(s, online, home, {})
  BY <1>2, <1>6, SameSound
<1>8. v \in CfsRqs /\ v.queue = {} /\ ~v.throttled /\ v.on_list = s.cfs[g].on_list
  <2>1. s.cfs[g].on_list = FALSE
    BY <1>6 DEF OnList, State, CfsRqs
  <2>2. v \in CfsRqs /\ v.queue = {} /\ ~v.throttled /\ v.on_list = FALSE
    BY DEF NewCfsRq, CfsRqs
  <2> HIDE DEF v
  <2>. QED
    BY <2>1, <2>2, Zenon
<1>9. r \in State /\ r.cfs[g] = v /\ \A d \in Groups : d # g => r.cfs[d] = s.cfs[d]
  <2>1. Changed(s, g, v, r)
    BY DEF Changed
  <2> HIDE DEF v, r
  <2>. QED
    BY <1>6, <1>8, <2>1, CfsChange
<1> HIDE DEF r, v
<1>10. s.cfs[g].queue = {}
  <2>1. \A e \in s.cfs[g].queue : IsChild(e, g, online, home)
    BY <1>7 DEF Sound, QueuesRight
  <2>. QED
    BY <1>1, <2>1 DEF IsChild
<1>11. g \notin s.cfs[Parent[g]].queue
  <2>1. ~HasWork(s, g)
    BY <1>10 DEF HasWork
  <2>. QED
    BY <1>1, <1>7, <2>1 DEF Sound, QueuesRight
<1>12. CountsRight(r, on)
  <2>1. ASSUME NEW d \in on
        PROVE  r.cfs[d].throttle_count = Cardinality(ThrottledAbove(r, d))
    <3>1. d \in online /\ d \in Groups /\ d # g
      BY <1>3
    <3>2. g \notin Ancestors(d) /\ Ancestors(d) \subseteq Groups
      BY <1>1, <1>2, <3>1, LeafIsAlone, AncestorsOf
    <3>3. ThrottledAbove(r, d) = ThrottledAbove(s, d)
      BY <1>9, <3>2 DEF ThrottledAbove
    <3>. QED
      BY <1>7, <1>9, <3>1, <3>3 DEF Sound, CountsRight
  <2>. QED
    BY <2>1 DEF CountsRight
<1>13. QueuesRight(r, on, home, {})
  <2>1. \A d \in Groups \ on : r.cfs[d].queue = {} /\ ~r.cfs[d].throttled
    <3>1. ASSUME NEW d \in Groups \ on
          PROVE  r.cfs[d].queue = {} /\ ~r.cfs[d].throttled
      <4>1. CASE d = g
        BY <1>8, <1>9, <4>1
      <4>2. CASE d # g
        BY <1>7, <1>9, <4>2 DEF Sound, QueuesRight
      <4>. QED
        BY <4>1, <4>2
    <3>. QED
      BY <3>1
  <2>2. ASSUME NEW d \in Groups, NEW e \in r.cfs[d].queue
        PROVE  IsChild(e, d, on, home)
    <3>1. d # g /\ e \in s.cfs[d].queue
      BY <1>8, <1>9, <2>2
    <3>2. IsChild(e, d, online, home)
      BY <1>7, <3>1 DEF Sound, QueuesRight
    <3>3. e # g
      <4>1. g \notin Tasks
        BY HierarchyAssumption
      <4>. QED
        BY <1>11, <3>1, <3>2, <4>1 DEF IsChild
    <3>. QED
      BY <3>2, <3>3 DEF IsChild
  <2>3. ASSUME NEW d \in on \ {Root}
        PROVE  d \in r.cfs[Parent[d]].queue <=> HasWork(r, d)
    <3>1. d \in Groups /\ Parent[d] \in Groups /\ d # g /\ Parent[d] # g /\ d \in online \ {Root}
      BY <1>1, <1>4 DEF Rooted
    <3>2. d \in s.cfs[Parent[d]].queue <=> HasWork(s, d)
      BY <1>7, <3>1 DEF Sound, QueuesRight
    <3>. QED
      BY <1>9, <3>1, <3>2 DEF HasWork
  <2>. QED
    BY <2>1, <2>2, <2>3 DEF QueuesRight
<1>14. Here' = r
  BY <1>1, <1>9, BecomesIs
<1>. QED
  BY <1>1, <1>4, <1>9, <1>12, <1>13, <1>14 DEF HierarchyInv, Sound

LEMMA StepInv ==
  ASSUME HierarchyInv, [Next]_hVars
  PROVE  HierarchyInv'
<1>1. CASE UNCHANGED hVars
  BY <1>1 DEF hVars, HierarchyInv, Here
<1>2. CASE Next
  <2>1. CASE \E poor \in SUBSET Throttleable : Schedule(poor)
    BY <2>1, ScheduleInv
  <2>2. CASE \E poor \in SUBSET Throttleable : Block(poor)
    BY <2>2, BlockInv
  <2>3. CASE \E poor \in SUBSET Throttleable : NewidleDone(poor)
    BY <2>3, NewidleDoneInv
  <2>4. CASE \E poor \in SUBSET Throttleable : \E t \in Tasks : Wake(t, poor)
    BY <2>4, WakeInv
  <2>5. CASE \E poor \in SUBSET Throttleable : \E t \in Tasks :
               \E g \in Groups, empty \in BOOLEAN : MoveTask(t, g, poor, empty)
    BY <2>5, MoveTaskInv
  <2>6. CASE \E poor \in SUBSET Throttleable : \E g \in Limited : Unthrottle(g, poor)
    BY <2>6, UnthrottleInv
  <2>7. CASE \E t \in Tasks : Leave(t)
    BY <2>7, LeaveInv
  <2>8. CASE \E gone \in SUBSET Groups : UpdateBlocked(gone)
    BY <2>8, UpdateBlockedInv
  <2>9. CASE \E g \in Groups : OnlineGroup(g)
    BY <2>9, OnlineGroupInv
  <2>10. CASE \E g \in Groups : UnregisterGroup(g)
    BY <2>10, UnregisterGroupInv
  <2>11. CASE \E g \in Groups : SetIdle(g)
    BY <2>11, SetIdleInv
  <2>. QED
    BY <1>2, <2>1, <2>2, <2>3, <2>4, <2>5, <2>6, <2>7, <2>8, <2>9, <2>10, <2>11, Zenon DEF Next
<1>. QED
  BY <1>1, <1>2

LEMMA HierarchyInvHolds == Spec => []HierarchyInv
BY InitInv, StepInv, PTL DEF Spec

-----------------------------------------------------------------------------
(* The theorems *)

\* A group's throttle count is the number of throttled groups from it up to the root, in
\* any tree and through any order of throttling, unthrottling, creating and destroying
\* groups (tg_throttle_down(), tg_unthrottle_up(), sync_throttle()).
THEOREM ThrottleCountsAreRight == Spec => []ThrottleCountsAncestors
<1>1. HierarchyInv => ThrottleCountsAncestors
  BY DEF HierarchyInv, Sound, CountsRight, ThrottledAbove, ThrottleCountsAncestors, Here
<1>. QED
  BY <1>1, HierarchyInvHolds, PTL

\* A group's entity is queued in its parent exactly when the group has something queued and
\* is not throttled, so a pick that descends into it finds something to run: whatever the
\* tree, and whatever moments the runtime checks throttle a group at.
THEOREM QueuedGroupsHaveWork == Spec => []GroupEntitiesHaveWork
<1>1. HierarchyInv => GroupEntitiesHaveWork
  BY DEF HierarchyInv, Sound, QueuesRight, HasWork, GroupEntitiesHaveWork, Here
<1>. QED
  BY <1>1, HierarchyInvHolds, PTL


ListHasEachOnce == /\ Range(rq.leaf) = {g \in Groups : cfs[g].on_list}
                   /\ Len(rq.leaf) = Cardinality(Range(rq.leaf))

\* The list of leaf cfs_rqs has exactly the groups that say they are on it, each once:
\* list_add_leaf_cfs_rq() and list_del_leaf_cfs_rq() never lose one or link one twice.
THEOREM LeafListIsConsistent == Spec => []ListHasEachOnce
<1>1. ASSUME HierarchyInv PROVE ListHasEachOnce
  <2> DEFINE leaf == rq.leaf
             S == {g \in Groups : cfs[g].on_list}
  <2>1. leaf \in Seq(Groups) /\ Lists(leaf, S) /\ S \subseteq Groups
    BY <1>1 DEF HierarchyInv, Sound, State, Rqs, ListRight, OnList, Here
  <2>2. IsFiniteSet(S)
    BY <2>1, HierarchyAssumption, FS_Subset
  <2> HIDE DEF leaf, S
  <2>3. Range(leaf) = S /\ Len(leaf) = Cardinality(S)
    BY <2>1, <2>2, ListsRange
  <2>. QED
    BY <2>3 DEF ListHasEachOnce, leaf, S
<1>. QED
  BY <1>1, HierarchyInvHolds, PTL
=============================================================================
