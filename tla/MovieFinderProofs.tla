-------------------------- MODULE MovieFinderProofs --------------------------
(***************************************************************************)
(* Proofs about MovieFinder, for any configurations, any site of well      *)
(* formed pages, any number of workers and any number of failures.         *)
(***************************************************************************)
EXTENDS MovieFinder, FiniteSetTheorems, SequenceTheorems, WellFoundedInduction, TLAPS

----------------------------------------------------------------------------
(* Folds.  FoldLeft is a recursive function on the sets of positions; it    *)
(* exists, and its value is in every set that each turn keeps.              *)

LEMMA LeastElement ==
  ASSUME NEW T, T \subseteq Nat, T # {}
  PROVE  \E m \in T : \A k \in T : m <= k
<1>1. PICK R : IsWellFoundedOn(R, Nat) /\ \A m, k \in Nat : k < m => <<k, m>> \in R
  <2>1. IsWellFoundedOn(OpToRel(<, Nat), Nat)
    BY NatLessThanWellFounded
  <2>2. \A m, k \in Nat : k < m => <<k, m>> \in OpToRel(<, Nat)
    BY DEF OpToRel
  <2> QED BY <2>1, <2>2
<1>2. PICK m \in T : \A k \in T : ~ (<<k, m>> \in R)
  BY <1>1, WFMin
<1>3. ASSUME NEW k \in T PROVE m <= k
  <2>1. m \in Nat /\ k \in Nat
    OBVIOUS
  <2>2. ~ (k < m)
    BY <1>1, <1>2, <2>1
  <2> QED BY <2>1, <2>2
<1> QED BY <1>2, <1>3

LEMMA Induction ==
  ASSUME NEW T, 0 \in T, \A n \in Nat : n \in T => n + 1 \in T
  PROVE  \A n \in Nat : n \in T
<1> SUFFICES ASSUME NEW n \in Nat, n \notin T PROVE FALSE
  OBVIOUS
<1> DEFINE U == {k \in Nat : k \notin T}
<1>1. U \subseteq Nat /\ U # {}
  OBVIOUS
<1> HIDE DEF U
<1>2. PICK m \in U : \A k \in U : m <= k
  BY <1>1, LeastElement
<1> USE DEF U
<1>3. m # 0 /\ m - 1 \in Nat
  BY <1>2
<1>4. m - 1 \in T
  BY <1>2, <1>3
<1> QED BY <1>2, <1>3, <1>4

LEMMA MaxIs ==
  ASSUME NEW n \in Nat, NEW s \in SUBSET (1..n), s # {}
  PROVE  Max(s) \in s /\ \A y \in s : y <= Max(s)
<1> DEFINE U == {n - x : x \in s}
<1>1. U \subseteq Nat /\ U # {}
  <2>1. \A x \in s : n - x \in Nat
    OBVIOUS
  <2> QED BY <2>1
<1> HIDE DEF U
<1>2. PICK m \in U : \A k \in U : m <= k
  BY <1>1, LeastElement
<1>3. PICK x \in s : m = n - x
  BY <1>2 DEF U
<1>4. \A y \in s : x >= y
  <2> TAKE y \in s
  <2>1. n - y \in U
    BY DEF U
  <2> QED BY <1>2, <1>3, <2>1
<1>5. \A y \in s : Max(s) >= y /\ Max(s) \in s
  BY <1>4 DEF Max
<1> QED BY <1>5

LEMMA MaxOfPrefix ==
  ASSUME NEW k \in Nat, k # 0
  PROVE  Max(1..k) = k /\ (1..k) \ {k} = 1..(k - 1) /\ 1..k # {}
<1>1. 1..k # {} /\ k \in 1..k
  OBVIOUS
<1>2. Max(1..k) \in 1..k /\ k <= Max(1..k)
  BY <1>1, MaxIs
<1> QED BY <1>1, <1>2

\* h is what a turn makes of the value so far, and g the fold of it.
Turn(h, n, T) == h \in [(1..n) \X T -> T]
IsFold(g, n, T, base, h) ==
  /\ g \in [SUBSET (1..n) -> T]
  /\ \A s \in SUBSET (1..n) : g[s] = IF s = {} THEN base ELSE h[<<Max(s), g[s \ {Max(s)}]>>]

\* f takes the same turns as long as it stays in T.
Follows(f, n, T, base, h) ==
  /\ f[{}] = base
  /\ \A s \in SUBSET (1..n) :
       s # {} /\ f[s \ {Max(s)}] \in T => f[s] = h[<<Max(s), f[s \ {Max(s)}]>>]

LEMMA FoldExists ==
  ASSUME NEW n \in Nat, NEW T, NEW base \in T, NEW h, Turn(h, n, T)
  PROVE  \E g : IsFold(g, n, T, base, h)
<1> USE DEF Turn
<1> DEFINE Is(g, m) == \A s \in SUBSET (1..m) : g[s] = IF s = {} THEN base ELSE h[<<Max(s), g[s \ {Max(s)}]>>]
           Has(m) == \E g \in [SUBSET (1..m) -> T] : Is(g, m)
           U == {m \in Nat : m <= n => Has(m)}
<1>1. 0 \in U
  <2>1. SUBSET (1..0) = {{}}
    OBVIOUS
  <2>2. [s \in SUBSET (1..0) |-> base] \in [SUBSET (1..0) -> T] /\ Is([s \in SUBSET (1..0) |-> base], 0)
    BY <2>1
  <2> QED BY <2>2
<1>2. ASSUME NEW m \in Nat, m \in U PROVE m + 1 \in U
  <2> SUFFICES ASSUME m + 1 <= n PROVE Has(m + 1)
    <3> HIDE DEF Has
    <3> QED OBVIOUS
  <2>1. Has(m)
    <3> HIDE DEF Has
    <3> QED BY <1>2
  <2>2. PICK g \in [SUBSET (1..m) -> T] : Is(g, m)
    BY <2>1
  <2> DEFINE last(s) == h[<<m + 1, g[s \ {m + 1}]>>]
             f == [s \in SUBSET (1..(m + 1)) |-> IF m + 1 \in s THEN last(s) ELSE g[s]]
  <2>3. ASSUME NEW s \in SUBSET (1..(m + 1)), m + 1 \in s
        PROVE  /\ s \ {m + 1} \in SUBSET (1..m) /\ Max(s) = m + 1 /\ s # {}
               /\ f[s] = last(s) /\ f[s \ {m + 1}] = g[s \ {m + 1}] /\ last(s) \in T
    <3>1. s \ {m + 1} \in SUBSET (1..m) /\ s \ {m + 1} \in SUBSET (1..(m + 1)) /\ s # {}
      BY <2>3
    <3>2. PICK x : x = Max(s)
      OBVIOUS
    <3>3. x \in s /\ m + 1 <= x
      <4>1. m + 1 \in Nat
        OBVIOUS
      <4>2. Max(s) \in s /\ m + 1 <= Max(s)
        BY <2>3, <3>1, <4>1, MaxIs
      <4> QED BY <3>2, <4>2
    <3>4. x \in 1..(m + 1)
      BY <3>3
    <3>5. Max(s) = m + 1
      BY <3>2, <3>3, <3>4
    <3>6. g[s \ {m + 1}] \in T /\ m + 1 \in 1..n
      BY <3>1
    <3> QED BY <2>3, <3>1, <3>5, <3>6
  <2>4. ASSUME NEW s \in SUBSET (1..(m + 1)), m + 1 \notin s
        PROVE  /\ s \in SUBSET (1..m) /\ f[s] = g[s] /\ g[s] \in T
               /\ s # {} => f[s \ {Max(s)}] = g[s \ {Max(s)}]
    <3>1. s \in SUBSET (1..m)
      BY <2>4
    <3>2. s \ {Max(s)} \in SUBSET (1..(m + 1)) /\ m + 1 \notin s \ {Max(s)}
      BY <2>4
    <3> QED BY <2>4, <3>1, <3>2
  <2>5. f \in [SUBSET (1..(m + 1)) -> T]
    <3>1. ASSUME NEW s \in SUBSET (1..(m + 1))
          PROVE  (IF m + 1 \in s THEN last(s) ELSE g[s]) \in T
      BY <2>3, <2>4
    <3> QED BY <3>1
  <2>6. Is(f, m + 1)
    <3> SUFFICES ASSUME NEW s \in SUBSET (1..(m + 1))
                 PROVE  f[s] = IF s = {} THEN base ELSE h[<<Max(s), f[s \ {Max(s)}]>>]
      OBVIOUS
    <3> HIDE DEF f
    <3>1. CASE m + 1 \in s
      BY <2>3, <3>1
    <3>2. CASE m + 1 \notin s
      BY <2>2, <2>4, <3>2
    <3> QED BY <3>1, <3>2
  <2> HIDE DEF f, Is
  <2> QED BY <2>5, <2>6
<1> HIDE DEF U
<1>3. n \in U
  BY <1>1, <1>2, Induction
<1>4. Has(n)
  <2> HIDE DEF Has
  <2> QED BY <1>3 DEF U
<1>5. PICK g \in [SUBSET (1..n) -> T] : Is(g, n)
  BY <1>4
<1> QED BY <1>5 DEF IsFold

LEMMA FoldTurns ==
  ASSUME NEW n \in Nat, NEW T, NEW base \in T, NEW h, Turn(h, n, T),
         NEW f, Follows(f, n, T, base, h)
  PROVE  \E g \in [0..n -> T] : /\ g[0] = base /\ g[n] = f[1..n]
                                /\ \A k \in 1..n : g[k] = h[<<k, g[k - 1]>>]
<1> USE DEF Turn, Follows
<1> DEFINE U == {m \in Nat : m <= n => f[1..m] \in T}
<1>1. 1..0 = {} /\ f[1..0] = base
  <2>1. 1..0 = {}
    OBVIOUS
  <2> QED BY <2>1
<1>2. ASSUME NEW m \in Nat, m + 1 <= n, f[1..m] \in T
      PROVE  f[1..(m + 1)] = h[<<m + 1, f[1..m]>>] /\ f[1..(m + 1)] \in T
  <2>1. (m + 1) - 1 = m /\ m + 1 \in 1..n /\ 1..(m + 1) \in SUBSET (1..n)
    BY <1>2
  <2>2. Max(1..(m + 1)) = m + 1 /\ (1..(m + 1)) \ {m + 1} = 1..m /\ 1..(m + 1) # {}
    BY <2>1, MaxOfPrefix
  <2>3. f[1..(m + 1)] = h[<<m + 1, f[1..m]>>]
    BY <1>2, <2>1, <2>2
  <2> QED BY <1>2, <2>1, <2>3
<1>3. 0 \in U /\ \A m \in Nat : m \in U => m + 1 \in U
  <2>1. 0 \in U
    BY <1>1
  <2>2. ASSUME NEW m \in Nat, m \in U PROVE m + 1 \in U
    <3> SUFFICES ASSUME m + 1 <= n PROVE f[1..(m + 1)] \in T
      OBVIOUS
    <3>1. f[1..m] \in T
      BY <2>2
    <3> QED BY <1>2, <3>1
  <2> QED BY <2>1, <2>2
<1> HIDE DEF U
<1>4. \A m \in Nat : m \in U
  BY <1>3, Induction
<1>5. \A m \in 0..n : f[1..m] \in T
  BY <1>4 DEF U
<1>6. PICK g : g = [k \in 0..n |-> f[1..k]]
  OBVIOUS
<1>7. g \in [0..n -> T] /\ g[0] = base /\ g[n] = f[1..n]
  BY <1>1, <1>5, <1>6
<1>8. ASSUME NEW k \in 1..n PROVE g[k] = h[<<k, g[k - 1]>>]
  <2>1. k - 1 \in Nat /\ (k - 1) + 1 = k /\ k - 1 \in 0..n /\ k \in 0..n /\ k <= n
    OBVIOUS
  <2>2. f[1..(k - 1)] \in T
    BY <1>5, <2>1
  <2>3. f[1..k] = h[<<k, f[1..(k - 1)]>>]
    BY <1>2, <2>1, <2>2
  <2> QED BY <1>6, <2>1, <2>3
<1> QED BY <1>7, <1>8

LEMMA FoldStays ==
  ASSUME NEW n \in Nat, NEW T, NEW base \in T, NEW h, Turn(h, n, T),
         NEW f, Follows(f, n, T, base, h)
  PROVE  f[1..n] \in T
<1>1. PICK g \in [0..n -> T] : g[n] = f[1..n]
  BY FoldTurns
<1> QED BY <1>1

(* Only takes the elements one by one.                                      *)
OnlyOf(g, n, s, A, T) ==
  /\ g \in [0..n -> T] /\ g[0] = <<>> /\ g[n] = Only(s, A)
  /\ \A k \in 1..n : g[k] = IF s[k] \in A THEN Append(g[k - 1], s[k]) ELSE g[k - 1]
LEMMA OnlyTurns ==
  ASSUME NEW S, NEW s \in Seq(S), NEW A
  PROVE  \E g : OnlyOf(g, Len(s), s, A, Seq(S \cap A))
<1> DEFINE n == Len(s)
           T == Seq(S \cap A)
           Op(out, x) == IF x \in A THEN Append(out, x) ELSE out
           Body(f) == [p \in SUBSET (1..n) |-> IF p = {} THEN <<>> ELSE Op(f[p \ {Max(p)}], s[Max(p)])]
           h == [p \in (1..n) \X T |-> Op(p[2], s[p[1]])]
<1>1. n \in Nat /\ DOMAIN s = 1..n /\ (\A k \in 1..n : s[k] \in S) /\ <<>> \in T
  BY LenProperties, EmptySeq
<1>2. \A out \in T, x \in S : Op(out, x) \in T
  BY AppendProperties
<1>3. Turn(h, n, T)
  BY <1>1, <1>2 DEF Turn
<1>4. \A k \in 1..n, t \in T : h[<<k, t>>] = Op(t, s[k])
  OBVIOUS
<1>5. PICK f : f = CHOOSE F : F = Body(F)
  OBVIOUS
<1>6. Only(s, A) = f[1..n]
  BY <1>1, <1>5 DEF Only, FoldLeft, MapThenFoldSet
<1> HIDE DEF h, T, n, Op
<1>7. ASSUME NEW g, NEW p \in SUBSET (1..n), p # {}, g[p \ {Max(p)}] \in T
      PROVE  Op(g[p \ {Max(p)}], s[Max(p)]) = h[<<Max(p), g[p \ {Max(p)}]>>]
  BY <1>1, <1>4, <1>7, MaxIs
<1>8. n \in Nat /\ <<>> \in T
  BY <1>1
<1>9. PICK g : IsFold(g, n, T, <<>>, h)
  BY <1>8, <1>3, FoldExists
<1>10. g = Body(g)
  BY <1>7, <1>9 DEF IsFold
<1>11. f = Body(f)
  BY <1>5, <1>10
<1>12. Follows(f, n, T, <<>>, h)
  BY <1>7, <1>11 DEF Follows
<1>13. PICK e \in [0..n -> T] : /\ e[0] = <<>> /\ e[n] = f[1..n]
                                /\ \A k \in 1..n : e[k] = h[<<k, e[k - 1]>>]
  BY <1>8, <1>3, <1>12, FoldTurns
<1>14. ASSUME NEW k \in 1..n PROVE e[k] = Op(e[k - 1], s[k])
  <2>1. k - 1 \in 0..n
    BY <1>1
  <2>2. e[k - 1] \in T
    BY <2>1
  <2> QED BY <1>4, <1>13, <2>2
<1> QED BY <1>6, <1>13, <1>14 DEF T, Op, n, OnlyOf

(* The elements that Only keeps are in the set, and it keeps one if there   *)
(* is any.                                                                  *)
LEMMA OnlyIs ==
  ASSUME NEW S, NEW s \in Seq(S), NEW A
  PROVE  Only(s, A) \in Seq(S \cap A) /\ (Only(s, A) = <<>> => \A k \in 1..Len(s) : s[k] \notin A)
<1> DEFINE n == Len(s)
<1>1. PICK g : OnlyOf(g, n, s, A, Seq(S \cap A))
  BY OnlyTurns
<1>2. n \in Nat /\ \A k \in 1..n : s[k] \in S
  BY LenProperties
<1> HIDE DEF n
<1> DEFINE U == {m \in Nat : m <= n /\ g[m] = <<>> => \A k \in 1..m : s[k] \notin A}
<1>3. 0 \in U
  OBVIOUS
<1>4. ASSUME NEW m \in Nat, m \in U PROVE m + 1 \in U
  <2> SUFFICES ASSUME m + 1 <= n, g[m + 1] = <<>> PROVE \A k \in 1..(m + 1) : s[k] \notin A
    OBVIOUS
  <2>1. m + 1 \in 1..n /\ (m + 1) - 1 = m /\ m \in 0..n
    BY <1>2
  <2>2. g[m] \in Seq(S \cap A)
    BY <1>1, <2>1 DEF OnlyOf
  <2>3. g[m + 1] = IF s[m + 1] \in A THEN Append(g[m], s[m + 1]) ELSE g[m]
    BY <1>1, <2>1 DEF OnlyOf
  <2>4. s[m + 1] \notin A
    <3> SUFFICES ASSUME s[m + 1] \in A PROVE FALSE
      OBVIOUS
    <3>1. s[m + 1] \in S \cap A
      BY <1>2, <2>1
    <3>2. Append(g[m], s[m + 1]) # <<>>
      BY <2>2, <3>1, AppendProperties
    <3> QED BY <2>3, <3>2
  <2>5. \A k \in 1..m : s[k] \notin A
    BY <1>4, <2>1, <2>3, <2>4
  <2> QED BY <2>4, <2>5
<1> HIDE DEF U
<1>5. n \in U
  BY <1>2, <1>3, <1>4, Induction
<1>6. Only(s, A) = <<>> => \A k \in 1..n : s[k] \notin A
  BY <1>1, <1>2, <1>5 DEF U, OnlyOf
<1>7. Only(s, A) \in Seq(S \cap A)
  BY <1>1, <1>2 DEF OnlyOf
<1> QED BY <1>6, <1>7 DEF n

(* A list of distinct movies takes the movies one by one.                   *)
Distinct(S, L) == {out \in Seq(S) : Len(out) <= L /\ KeysDiffer(out)}
DistinctOf(g, n, ms, L, S) ==
  /\ g \in [0..n -> Distinct(S, L)] /\ g[0] = <<>> /\ g[n] = DistinctMovies(ms, L)
  /\ \A k \in 1..n : g[k] = IF Len(g[k - 1]) >= L \/ KeyOf(ms[k]) \in Keys(g[k - 1]) THEN g[k - 1]
                            ELSE Append(g[k - 1], ms[k])
LEMMA DistinctTurns ==
  ASSUME NEW S, NEW ms \in Seq(S), NEW L \in Nat
  PROVE  \E g : DistinctOf(g, Len(ms), ms, L, S)
<1> DEFINE n == Len(ms)
           T == Distinct(S, L)
           Op(out, m) == IF Len(out) >= L \/ KeyOf(m) \in Keys(out) THEN out ELSE Append(out, m)
           Body(f) == [p \in SUBSET (1..n) |-> IF p = {} THEN <<>> ELSE Op(f[p \ {Max(p)}], ms[Max(p)])]
           h == [p \in (1..n) \X T |-> Op(p[2], ms[p[1]])]
<1>1. n \in Nat /\ <<>> \in T
  BY LenProperties, EmptySeq DEF KeysDiffer, Distinct
<1>2. DOMAIN ms = 1..n /\ \A k \in 1..n : ms[k] \in S
  BY LenProperties
<1>3. ASSUME NEW out \in T, NEW x \in S PROVE Op(out, x) \in T
  <2> SUFFICES ASSUME Len(out) < L, KeyOf(x) \notin Keys(out) PROVE Append(out, x) \in T
    BY <1>3, LenProperties DEF Distinct
  <2>1. /\ out \in Seq(S) /\ Len(out) \in Nat /\ DOMAIN out = 1..Len(out) /\ KeysDiffer(out)
    BY LenProperties DEF Distinct
  <2>2. PICK q : q = Append(out, x)
    OBVIOUS
  <2>3. /\ q \in Seq(S) /\ Len(q) = Len(out) + 1 /\ DOMAIN q = 1..(Len(out) + 1)
        /\ \A k \in 1..Len(out) : q[k] = out[k]
        /\ q[Len(out) + 1] = x
    BY <2>1, <2>2, AppendProperties, LenProperties
  <2>4. \A k \in 1..Len(out) : KeyOf(out[k]) # KeyOf(x)
    BY <2>1 DEF Keys
  <2>5. KeysDiffer(q)
    BY <2>1, <2>3, <2>4 DEF KeysDiffer
  <2> QED BY <2>1, <2>2, <2>3, <2>5 DEF Distinct
<1>4. Turn(h, n, T)
  <2> HIDE DEF T, n, Op
  <2> QED BY <1>2, <1>3 DEF Turn
<1>5. \A k \in 1..n, t \in T : h[<<k, t>>] = Op(t, ms[k])
  <2> HIDE DEF T, n, Op
  <2> QED OBVIOUS
<1>6. PICK f : f = CHOOSE F : F = Body(F)
  OBVIOUS
<1>7. DistinctMovies(ms, L) = f[1..n]
  BY <1>2, <1>6 DEF DistinctMovies, FoldLeft, MapThenFoldSet
<1> HIDE DEF h, T, n, Op
<1>8. ASSUME NEW g, NEW p \in SUBSET (1..n), p # {}, g[p \ {Max(p)}] \in T
      PROVE  Op(g[p \ {Max(p)}], ms[Max(p)]) = h[<<Max(p), g[p \ {Max(p)}]>>]
  BY <1>1, <1>5, <1>8, MaxIs
<1>9. PICK g : IsFold(g, n, T, <<>>, h)
  BY <1>1, <1>4, FoldExists
<1>10. g = Body(g)
  BY <1>8, <1>9 DEF IsFold
<1>11. f = Body(f)
  BY <1>6, <1>10
<1>12. Follows(f, n, T, <<>>, h)
  BY <1>8, <1>11 DEF Follows
<1>13. PICK e \in [0..n -> T] : /\ e[0] = <<>> /\ e[n] = f[1..n]
                                /\ \A k \in 1..n : e[k] = h[<<k, e[k - 1]>>]
  BY <1>1, <1>4, <1>12, FoldTurns
<1>14. ASSUME NEW k \in 1..n PROVE e[k] = Op(e[k - 1], ms[k])
  <2>1. k - 1 \in 0..n
    BY <1>1
  <2>2. e[k - 1] \in T
    BY <2>1
  <2> QED BY <1>5, <1>13, <2>2
<1> QED BY <1>7, <1>13, <1>14 DEF T, Op, n, DistinctOf, Distinct


LEMMA KeysOfAppend ==
  ASSUME NEW S, NEW out \in Seq(S), NEW x \in S
  PROVE  Keys(Append(out, x)) = Keys(out) \cup {KeyOf(x)}
<1>1. PICK q : q = Append(out, x)
  OBVIOUS
<1>2. /\ Len(out) \in Nat /\ DOMAIN out = 1..Len(out) /\ DOMAIN q = 1..(Len(out) + 1)
      /\ (\A k \in 1..Len(out) : q[k] = out[k]) /\ q[Len(out) + 1] = x
  BY <1>1, AppendProperties, LenProperties
<1>3. Keys(q) = Keys(out) \cup {KeyOf(x)}
  <2>1. \A k \in DOMAIN q : k \in DOMAIN out \/ k = Len(out) + 1
    BY <1>2
  <2>2. DOMAIN out \subseteq DOMAIN q /\ Len(out) + 1 \in DOMAIN q
    BY <1>2
  <2> QED BY <1>2, <2>1, <2>2 DEF Keys
<1> QED BY <1>1, <1>3

(* A list of distinct movies is as long as asked for at most, names no      *)
(* movie twice, and leaves none out while it is shorter.                    *)
LEMMA DistinctIs ==
  ASSUME NEW S, NEW ms \in Seq(S), NEW L \in Nat
  PROVE  /\ DistinctMovies(ms, L) \in Seq(S) /\ Len(DistinctMovies(ms, L)) <= L
         /\ KeysDiffer(DistinctMovies(ms, L))
         /\ Len(DistinctMovies(ms, L)) < L => Keys(ms) \subseteq Keys(DistinctMovies(ms, L))
<1> DEFINE n == Len(ms)
<1>1. PICK g : DistinctOf(g, n, ms, L, S)
  BY DistinctTurns
<1>2. n \in Nat /\ DOMAIN ms = 1..n /\ \A k \in 1..n : ms[k] \in S
  BY LenProperties
<1> HIDE DEF n
<1> DEFINE U == {m \in Nat : m <= n /\ Len(g[m]) < L => \A k \in 1..m : KeyOf(ms[k]) \in Keys(g[m])}
<1>3. 0 \in U
  OBVIOUS
<1>4. ASSUME NEW m \in Nat, m \in U PROVE m + 1 \in U
  <2> SUFFICES ASSUME m + 1 <= n, Len(g[m + 1]) < L PROVE \A k \in 1..(m + 1) : KeyOf(ms[k]) \in Keys(g[m + 1])
    OBVIOUS
  <2>1. m + 1 \in 1..n /\ (m + 1) - 1 = m /\ m \in 0..n
    BY <1>2
  <2>2. PICK out, x, new : out = g[m] /\ x = ms[m + 1] /\ new = g[m + 1]
    OBVIOUS
  <2>3. out \in Seq(S) /\ Len(out) \in Nat /\ x \in S
    BY <1>1, <1>2, <2>1, <2>2, LenProperties DEF DistinctOf, Distinct
  <2>4. new = IF Len(out) >= L \/ KeyOf(x) \in Keys(out) THEN out ELSE Append(out, x)
    BY <1>1, <2>1, <2>2 DEF DistinctOf
  <2>5. Len(out) < L /\ ((KeyOf(x) \in Keys(out) /\ new = out) \/ new = Append(out, x))
    BY <2>2, <2>3, <2>4
  <2>6. Keys(new) = Keys(out) \cup {KeyOf(x)}
    BY <2>3, <2>5, KeysOfAppend
  <2>7. \A k \in 1..m : KeyOf(ms[k]) \in Keys(out)
    BY <1>4, <2>1, <2>2, <2>5
  <2> QED BY <2>2, <2>6, <2>7
<1> HIDE DEF U
<1>5. n \in U
  BY <1>2, <1>3, <1>4, Induction
<1>6. PICK d : d = DistinctMovies(ms, L)
  OBVIOUS
<1>7. d = g[n] /\ d \in Distinct(S, L)
  BY <1>1, <1>2, <1>6 DEF DistinctOf
<1>8. Len(d) < L => Keys(ms) \subseteq Keys(d)
  <2>1. Len(d) < L => \A k \in 1..n : KeyOf(ms[k]) \in Keys(d)
    BY <1>2, <1>5, <1>7 DEF U
  <2> QED BY <1>2, <2>1 DEF Keys
<1> QED BY <1>6, <1>7, <1>8 DEF Distinct

----------------------------------------------------------------------------
(* What the pages give.                                                     *)

LEMMA NormalizedIsName ==
  ASSUME NEW name \in Text
  PROVE  NormalizeSub(name) \in Text
<1>1. CASE name \in DOMAIN Canonical
  BY <1>1, CanonicalAssumption DEF CanonicalAssumption, NormalizeSub, Text
<1>2. CASE name \notin DOMAIN Canonical
  BY <1>2 DEF NormalizeSub, Text
<1> QED BY <1>1, <1>2

(* A listing gives threads.                                                 *)
LEMMA ThreadsAreTyped ==
  ASSUME NEW listing \in Seq(RedditThread)
  PROVE  ParseThreads(listing) \in Seq(RedditThread)
<1> DEFINE titles == {t \in Range(listing) : t.title # ""}
           xs == IF Only(listing, titles) # <<>> THEN Only(listing, titles) ELSE listing
           n == Len(xs)
           T == Seq(RedditThread)
           Op(out, t) == IF t.id \in {u.id : u \in Range(out)} THEN out ELSE Append(out, [t EXCEPT !.sub = NormalizeSub(@)])
           Body(f) == [p \in SUBSET (1..n) |-> IF p = {} THEN <<>> ELSE Op(f[p \ {Max(p)}], xs[Max(p)])]
           h == [p \in (1..n) \X T |-> Op(p[2], xs[p[1]])]
<1>1. xs \in Seq(RedditThread)
  <2>1. Only(listing, titles) \in Seq(RedditThread \cap titles)
    BY OnlyIs
  <2>2. Only(listing, titles) \in Seq(RedditThread)
    <3>1. RedditThread \cap titles \subseteq RedditThread
      OBVIOUS
    <3> HIDE DEF titles
    <3> QED BY <2>1, <3>1, SeqMonotonic
  <2> QED BY <2>2
<1>2. n \in Nat /\ <<>> \in T
  BY <1>1, LenProperties, EmptySeq
<1>3. DOMAIN xs = 1..n /\ \A k \in 1..n : xs[k] \in RedditThread
  BY <1>1, LenProperties
<1>4. ASSUME NEW out \in T, NEW x \in RedditThread PROVE Op(out, x) \in T
  <2>1. [x EXCEPT !.sub = NormalizeSub(@)] \in RedditThread
    BY <1>4, NormalizedIsName DEF RedditThread
  <2> QED BY <1>4, <2>1, AppendProperties
<1>5. Turn(h, n, T)
  <2> HIDE DEF T, n, Op
  <2> QED BY <1>3, <1>4 DEF Turn
<1>6. \A k \in 1..n, t \in T : h[<<k, t>>] = Op(t, xs[k])
  <2> HIDE DEF T, n, Op
  <2> QED OBVIOUS
<1>7. PICK f : f = CHOOSE F : F = Body(F)
  OBVIOUS
<1>8. ParseThreads(listing) = f[1..n]
  BY <1>3, <1>7 DEF ParseThreads, FoldLeft, MapThenFoldSet
<1> HIDE DEF h, T, n, Op
<1>9. ASSUME NEW g, NEW p \in SUBSET (1..n), p # {}, g[p \ {Max(p)}] \in T
      PROVE  Op(g[p \ {Max(p)}], xs[Max(p)]) = h[<<Max(p), g[p \ {Max(p)}]>>]
  BY <1>2, <1>6, <1>9, MaxIs
<1>10. PICK g : IsFold(g, n, T, <<>>, h)
  BY <1>2, <1>5, FoldExists
<1>11. g = Body(g)
  BY <1>9, <1>10 DEF IsFold
<1>12. f = Body(f)
  BY <1>7, <1>11
<1>13. Follows(f, n, T, <<>>, h)
  BY <1>9, <1>12 DEF Follows
<1>14. f[1..n] \in T
  BY <1>2, <1>5, <1>13, FoldStays
<1> QED BY <1>8, <1>14 DEF T

(* Names of subreddits.                                                     *)
LEMMA SubredditsAreNames ==
  ASSUME NEW names \in Seq(Text)
  PROVE  ParseSubreddits(names) \in Seq(Text)
<1> DEFINE n == Len(names)
           T == Seq(Text)
           Op(out, m) == IF NormalizeSub(m) \in Range(out) \cup {""} THEN out ELSE Append(out, NormalizeSub(m))
           Body(f) == [p \in SUBSET (1..n) |-> IF p = {} THEN <<>> ELSE Op(f[p \ {Max(p)}], names[Max(p)])]
           h == [p \in (1..n) \X T |-> Op(p[2], names[p[1]])]
<1>1. n \in Nat /\ <<>> \in T
  BY LenProperties, EmptySeq
<1>2. DOMAIN names = 1..n /\ \A k \in 1..n : names[k] \in Text
  BY LenProperties
<1>3. ASSUME NEW out \in T, NEW x \in Text PROVE Op(out, x) \in T
  BY <1>3, AppendProperties, NormalizedIsName
<1>4. Turn(h, n, T)
  <2> HIDE DEF T, n, Op
  <2> QED BY <1>2, <1>3 DEF Turn
<1>5. \A k \in 1..n, t \in T : h[<<k, t>>] = Op(t, names[k])
  <2> HIDE DEF T, n, Op
  <2> QED OBVIOUS
<1>6. PICK f : f = CHOOSE F : F = Body(F)
  OBVIOUS
<1>7. ParseSubreddits(names) = f[1..n]
  BY <1>2, <1>6 DEF ParseSubreddits, FoldLeft, MapThenFoldSet
<1> HIDE DEF h, T, n, Op
<1>8. ASSUME NEW g, NEW p \in SUBSET (1..n), p # {}, g[p \ {Max(p)}] \in T
      PROVE  Op(g[p \ {Max(p)}], names[Max(p)]) = h[<<Max(p), g[p \ {Max(p)}]>>]
  BY <1>1, <1>5, <1>8, MaxIs
<1>9. PICK g : IsFold(g, n, T, <<>>, h)
  BY <1>1, <1>4, FoldExists
<1>10. g = Body(g)
  BY <1>8, <1>9 DEF IsFold
<1>11. f = Body(f)
  BY <1>6, <1>10
<1>12. Follows(f, n, T, <<>>, h)
  BY <1>8, <1>11 DEF Follows
<1>13. f[1..n] \in T
  BY <1>1, <1>4, <1>12, FoldStays
<1> QED BY <1>7, <1>13 DEF T

LEMMA DiscoveredAreNames ==
  ASSUME NEW out0 \in Seq(Text), NEW names \in Seq(Text), NEW term, NEW limit
  PROVE  DiscoverSubs(out0, names, term, limit) \in Seq(Text)
<1> DEFINE xs == ParseSubreddits(names)
           n == Len(xs)
           T == Seq(Text)
           Op(acc, sub) == IF Len(acc) >= limit \/ sub \in Range(acc) \/ ~LooksLikeMovieSub(sub, term) THEN acc ELSE Append(acc, sub)
           Body(f) == [p \in SUBSET (1..n) |-> IF p = {} THEN out0 ELSE Op(f[p \ {Max(p)}], xs[Max(p)])]
           h == [p \in (1..n) \X T |-> Op(p[2], xs[p[1]])]
<1>1. xs \in Seq(Text)
  BY SubredditsAreNames
<1>2. n \in Nat /\ out0 \in T
  BY <1>1, LenProperties
<1>3. DOMAIN xs = 1..n /\ \A k \in 1..n : xs[k] \in Text
  BY <1>1, LenProperties
<1>4. ASSUME NEW out \in T, NEW x \in Text PROVE Op(out, x) \in T
  BY <1>4, AppendProperties
<1>5. Turn(h, n, T)
  <2> HIDE DEF T, n, Op
  <2> QED BY <1>3, <1>4 DEF Turn
<1>6. \A k \in 1..n, t \in T : h[<<k, t>>] = Op(t, xs[k])
  <2> HIDE DEF T, n, Op
  <2> QED OBVIOUS
<1>7. PICK f : f = CHOOSE F : F = Body(F)
  OBVIOUS
<1>8. DiscoverSubs(out0, names, term, limit) = f[1..n]
  BY <1>3, <1>7 DEF DiscoverSubs, FoldLeft, MapThenFoldSet
<1> HIDE DEF h, T, n, Op
<1>9. ASSUME NEW g, NEW p \in SUBSET (1..n), p # {}, g[p \ {Max(p)}] \in T
      PROVE  Op(g[p \ {Max(p)}], xs[Max(p)]) = h[<<Max(p), g[p \ {Max(p)}]>>]
  BY <1>2, <1>6, <1>9, MaxIs
<1>10. PICK g : IsFold(g, n, T, out0, h)
  BY <1>2, <1>5, FoldExists
<1>11. g = Body(g)
  BY <1>9, <1>10 DEF IsFold
<1>12. f = Body(f)
  BY <1>7, <1>11
<1>13. Follows(f, n, T, out0, h)
  BY <1>9, <1>12 DEF Follows
<1>14. f[1..n] \in T
  BY <1>2, <1>5, <1>13, FoldStays
<1> QED BY <1>8, <1>14 DEF T

(* The movies of a comment.                                                 *)
LEMMA CommentsMention ==
  ASSUME NEW c \in Comment
  PROVE  ParseMoviesFromComment(c) \in Seq(Mention)
<1> DEFINE bold == [k \in DOMAIN c.bold |-> [title |-> c.bold[k], year |-> 0]]
           all == c.dated \o bold \o c.line
<1>1. c.dated \in Seq(Mention) /\ c.line \in Seq(Mention) /\ c.bold \in Seq(Text)
  BY DEF Comment
<1>2. bold \in Seq(Mention)
  <2>1. Len(c.bold) \in Nat /\ DOMAIN c.bold = 1..Len(c.bold) /\ \A k \in 1..Len(c.bold) : c.bold[k] \in Text
    BY <1>1, LenProperties
  <2>2. \A k \in 1..Len(c.bold) : [title |-> c.bold[k], year |-> 0] \in Mention
    BY <2>1 DEF Mention
  <2> QED BY <2>1, <2>2
<1>3. all \in Seq(Mention) /\ Len(all) \in Nat
  <2> HIDE DEF bold
  <2>1. c.dated \o bold \in Seq(Mention)
    BY <1>1, <1>2, ConcatProperties
  <2>2. (c.dated \o bold) \o c.line \in Seq(Mention)
    BY <1>1, <2>1, ConcatProperties
  <2> QED BY <2>2, LenProperties
<1>4. ParseMoviesFromComment(c) = DistinctMovies(all, Len(all))
  BY DEF ParseMoviesFromComment
<1> HIDE DEF all
<1> QED BY <1>3, <1>4, DistinctIs

Learned == [learned : Seq(Text), movies : Seq(Mention)]

(* What a thread page teaches.                                              *)
LEMMA LearnedIsTyped ==
  ASSUME NEW comments \in Seq(Comment), NEW limit \in Nat
  PROVE  ThreadLearn(comments, limit) \in Learned
<1> DEFINE n == Len(comments)
           T == Learned
           Op(acc, c) == IF c.gone \/ Len(acc.movies) >= limit THEN acc
              ELSE [learned |-> ParseSubreddits(acc.learned \o c.subs),
                    movies |-> IF c.score < 3 THEN acc.movies
                               ELSE DistinctMovies(acc.movies \o ParseMoviesFromComment(c), limit)]
           Body(f) == [p \in SUBSET (1..n) |-> IF p = {} THEN [learned |-> <<>>, movies |-> <<>>] ELSE Op(f[p \ {Max(p)}], comments[Max(p)])]
           h == [p \in (1..n) \X T |-> Op(p[2], comments[p[1]])]
<1>1. n \in Nat /\ [learned |-> <<>>, movies |-> <<>>] \in T
  BY LenProperties, EmptySeq DEF Learned
<1>2. DOMAIN comments = 1..n /\ \A k \in 1..n : comments[k] \in Comment
  BY LenProperties
<1>3. ASSUME NEW out \in T, NEW x \in Comment PROVE Op(out, x) \in T
  <2>1. out.learned \in Seq(Text) /\ out.movies \in Seq(Mention) /\ x.subs \in Seq(Text)
    BY <1>3 DEF Learned, Comment
  <2>2. ParseSubreddits(out.learned \o x.subs) \in Seq(Text)
    BY <2>1, ConcatProperties, SubredditsAreNames
  <2>3. out.movies \o ParseMoviesFromComment(x) \in Seq(Mention)
    BY <1>3, <2>1, ConcatProperties, CommentsMention
  <2>4. DistinctMovies(out.movies \o ParseMoviesFromComment(x), limit) \in Seq(Mention)
    BY <2>3, DistinctIs
  <2> QED BY <1>3, <2>1, <2>2, <2>4 DEF Learned
<1>4. Turn(h, n, T)
  <2> HIDE DEF T, n, Op
  <2> QED BY <1>2, <1>3 DEF Turn
<1>5. \A k \in 1..n, t \in T : h[<<k, t>>] = Op(t, comments[k])
  <2> HIDE DEF T, n, Op
  <2> QED OBVIOUS
<1>6. PICK f : f = CHOOSE F : F = Body(F)
  OBVIOUS
<1>7. ThreadLearn(comments, limit) = f[1..n]
  BY <1>2, <1>6 DEF ThreadLearn, FoldLeft, MapThenFoldSet
<1> HIDE DEF h, T, n, Op
<1>8. ASSUME NEW g, NEW p \in SUBSET (1..n), p # {}, g[p \ {Max(p)}] \in T
      PROVE  Op(g[p \ {Max(p)}], comments[Max(p)]) = h[<<Max(p), g[p \ {Max(p)}]>>]
  BY <1>1, <1>5, <1>8, MaxIs
<1>9. PICK g : IsFold(g, n, T, [learned |-> <<>>, movies |-> <<>>], h)
  BY <1>1, <1>4, FoldExists
<1>10. g = Body(g)
  BY <1>8, <1>9 DEF IsFold
<1>11. f = Body(f)
  BY <1>6, <1>10
<1>12. Follows(f, n, T, [learned |-> <<>>, movies |-> <<>>], h)
  BY <1>8, <1>11 DEF Follows
<1>13. f[1..n] \in T
  BY <1>1, <1>4, <1>12, FoldStays
<1> QED BY <1>7, <1>13 DEF T

----------------------------------------------------------------------------
(* The configuration of a run: its limits are positive.                     *)

LoadedAgent == {c \in Agent : c.limit \in Nat \ {0} /\ c.maxSubs \in Nat \ {0} /\ c.maxThreads \in Nat \ {0}}
Numbered == \E n \in Nat : Agents = 1..n
Configured == Numbered /\ IsFiniteSet(Agents) /\ \A a \in Agents : Ag(a) \in LoadedAgent

(* A record with the nine fields of an agent, each of its set.              *)
LEMMA AgentFields ==
  ASSUME NEW Ids, NEW Qs, NEW Ss, NEW Ways, NEW Ps, NEW Us, NEW id \in Ids, NEW q \in Qs, NEW s \in Ss, NEW on \in Ways,
         NEW l \in Int, NEW m \in Int, NEW t \in Int, NEW p \in Ps, NEW u \in Us
  PROVE  [id |-> id, queries |-> q, subs |-> s, discover |-> on, limit |-> l, maxSubs |-> m, maxThreads |-> t,
          picks |-> p, proxy |-> u]
           \in [id : Ids, queries : Qs, subs : Ss, discover : Ways, limit : Int, maxSubs : Int, maxThreads : Int,
                picks : Ps, proxy : Us]
OBVIOUS

LEMMA LoadAgentSetsLimits ==
  ASSUME NEW c \in Agent
  PROVE  LoadAgent(c) \in LoadedAgent
<1>1. Default(c.limit, 3) \in Nat \ {0} /\ Default(c.maxSubs, 20) \in Nat \ {0} /\ Default(c.maxThreads, 25) \in Nat \ {0}
  <2>1. c.limit \in Int /\ c.maxSubs \in Int /\ c.maxThreads \in Int
    BY DEF Agent
  <2>2. \A n \in Int : Default(n, 3) \in Nat \ {0} /\ Default(n, 20) \in Nat \ {0} /\ Default(n, 25) \in Nat \ {0}
    BY DEF Default
  <2> QED BY <2>1, <2>2
<1>2. PICK subs : subs = IF c.subs = <<>> THEN <<"MovieSuggestions", "movies">> ELSE c.subs
  OBVIOUS
<1>3. subs \in Seq(Text)
  <2>1. c.subs \in Seq(Text) /\ "MovieSuggestions" \in Text /\ "movies" \in Text
    BY DEF Agent, Text
  <2>2. <<"MovieSuggestions", "movies">> \in Seq(Text)
    BY <2>1
  <2> QED BY <1>2, <2>1, <2>2
<1>4. PICK l, m, t, on : /\ l = Default(c.limit, 3) /\ m = Default(c.maxSubs, 20) /\ t = Default(c.maxThreads, 25)
                         /\ on = IF c.discover = "" THEN "on" ELSE c.discover
  OBVIOUS
<1>5. LoadAgent(c) = [c EXCEPT !.limit = l, !.maxSubs = m, !.maxThreads = t, !.discover = on, !.subs = subs]
  BY <1>2, <1>4 DEF LoadAgent
<1>6. l \in Nat \ {0} /\ m \in Nat \ {0} /\ t \in Nat \ {0}
  BY <1>1, <1>4
<1>7. LoadAgent(c) \in Agent
  <2>1. LoadAgent(c) = [id |-> c.id, queries |-> c.queries, subs |-> subs, discover |-> on, limit |-> l,
                        maxSubs |-> m, maxThreads |-> t, picks |-> c.picks, proxy |-> c.proxy]
    BY <1>5 DEF Agent
  <2>2. /\ c.id \in Text /\ c.queries \in Seq(Query) /\ on \in {"", "on", "off"} /\ c.picks \in Seq(Pick)
        /\ c.proxy \in ProxyUrl
    BY <1>4 DEF Agent
  <2>3. l \in Int /\ m \in Int /\ t \in Int
    BY <1>6
  <2>4. PICK id, q, p, u : id = c.id /\ q = c.queries /\ p = c.picks /\ u = c.proxy
    OBVIOUS
  <2>5. id \in Text /\ q \in Seq(Query) /\ subs \in Seq(Text) /\ on \in {"", "on", "off"} /\ p \in Seq(Pick) /\ u \in ProxyUrl
    BY <1>3, <2>2, <2>4
  <2>6. [id |-> id, queries |-> q, subs |-> subs, discover |-> on, limit |-> l, maxSubs |-> m, maxThreads |-> t,
         picks |-> p, proxy |-> u] \in Agent
    BY ONLY <2>3, <2>5, AgentFields DEF Agent
  <2> QED BY <2>1, <2>4, <2>6
<1>8. LoadAgent(c).limit = l /\ LoadAgent(c).maxSubs = m /\ LoadAgent(c).maxThreads = t
  BY <1>5 DEF Agent
<1> QED BY <1>6, <1>7, <1>8 DEF LoadedAgent

LEMMA MinIs ==
  ASSUME NEW s \in SUBSET Nat, s # {}
  PROVE  Min(s) \in s
<1>1. PICK m \in s : \A y \in s : m <= y
  BY LeastElement
<1>2. \E x \in s : \A y \in s : x <= y
  BY <1>1
<1> QED BY <1>2 DEF Min

LEMMA ConfiguredInit == Init => Configured
<1> SUFFICES ASSUME Init PROVE Configured
  OBVIOUS
<1>1. PICK in \in Inputs : input = [in EXCEPT !.cfg = SelectAgents(in)]
  BY DEF Init
<1>2. in \in Input /\ in.cfg \in Config /\ in.cfg.agents \in Seq(Agent)
  BY InputAssumption DEF InputAssumption, Input, Config
<1>3. Cfg = SelectAgents(in)
  BY <1>1, <1>2 DEF Cfg, Input
<1> DEFINE L == Loaded(in).agents
<1>4. DOMAIN L = 1..Len(in.cfg.agents) /\ Len(in.cfg.agents) \in Nat
      /\ (\A k \in DOMAIN L : L[k] \in LoadedAgent) /\ "agents" \in DOMAIN Loaded(in)
  <2>1. \A k \in 1..Len(in.cfg.agents) : in.cfg.agents[k] \in Agent
    BY <1>2, LenProperties
  <2>2. L = [k \in DOMAIN in.cfg.agents |-> LoadAgent(in.cfg.agents[k])] /\ "agents" \in DOMAIN Loaded(in)
    BY <1>2 DEF Loaded, LoadConfig, ApplyEnv, Config
  <2>3. DOMAIN in.cfg.agents = 1..Len(in.cfg.agents) /\ Len(in.cfg.agents) \in Nat
    BY <1>2, LenProperties
  <2> QED BY <2>1, <2>2, <2>3, LoadAgentSetsLimits
<1> HIDE DEF L
<1>5. Len(L) = Len(in.cfg.agents)
  BY <1>4
<1>6. Cfg.agents = L \/ Cfg.agents = <<>> \/ \E k \in DOMAIN L : Cfg.agents = <<L[k]>>
  <2>1. CASE in.id # ""
    <3> DEFINE same == {n \in DOMAIN L : L[n].id = in.id}
    <3>1. Cfg.agents = IF same = {} THEN <<>> ELSE <<L[Min(same)]>>
      BY <1>3, <1>4, <2>1 DEF SelectAgents, FilterById, L
    <3>2. same \subseteq Nat
      BY <1>4
    <3>3. same # {} => Min(same) \in same
      BY <3>2, MinIs
    <3> QED BY <3>1, <3>3
  <2>2. CASE in.id = "" /\ in.index >= 0
    <3>1. Cfg.agents = IF in.index < Len(L) THEN <<L[in.index + 1]>> ELSE <<>>
      BY <1>3, <1>4, <2>2 DEF SelectAgents, FilterByIndex, L
    <3>2. in.index \in Nat
      <4>1. in.index \in Int
        BY <1>2 DEF Input
      <4>2. in.index >= 0
        BY <2>2
      <4> QED BY <4>1, <4>2
    <3> QED BY <1>4, <1>5, <3>1, <3>2
  <2>3. CASE in.id = "" /\ ~(in.index >= 0)
    BY <1>3, <2>3 DEF SelectAgents, L
  <2> QED BY <2>1, <2>2, <2>3
<1>7. \A k \in DOMAIN Cfg.agents : Cfg.agents[k] \in LoadedAgent
  BY <1>4, <1>6
<1>8. IsFiniteSet(Agents) /\ Numbered
  <2>1. \E n \in Nat : Agents = 1..n
    <3>1. Agents = DOMAIN L \/ Agents = 1..0 \/ Agents = 1..1
      BY <1>6 DEF Agents
    <3> QED BY <1>4, <3>1
  <2>2. IsFiniteSet(Agents)
    BY <2>1, FS_Interval
  <2>3. Numbered
    BY <2>1 DEF Numbered
  <2> QED BY <2>2, <2>3
<1>9. Agents = DOMAIN Cfg.agents /\ \A a \in Agents : Ag(a) = Cfg.agents[a]
  BY DEF Agents, Ag
<1> QED BY <1>7, <1>8, <1>9 DEF Configured

----------------------------------------------------------------------------
(* The state of an agent, and what the bookkeeping of a crawl keeps of it.  *)

Source == {"curated", "curated fallback"} \cup (Text \X Text)
Movie == [title : Text, year : Int, source : Source, plot : Text]
NoPlot == {m \in Movie : m.plot = ""}
Pcs == {"idle", "subs", "all", "drain", "loop", "sub", "searching", "reading", "gather", "picks", "ready"}
AgentState ==
  [pc : Pcs, i : Nat \ {0}, then : {"", "gather", "loop"}, found : Seq(Movie), out : Seq(Text), frontier : Seq(Text),
   visited : SUBSET Text, threads : Seq(RedditThread), pending : Seq(RedditThread),
   cur : Text \cup RedditThread \cup {<<>>}, movies : Seq(Movie), error : BOOLEAN]

\* The limits of a crawl.
Within(s, a) ==
  /\ IsFiniteSet(s.visited) /\ Cardinality(s.visited) + Len(s.frontier) <= Ag(a).maxSubs
  /\ Len(s.threads) <= Ag(a).maxThreads
  /\ \A m, n \in DOMAIN s.threads : m # n => s.threads[m].id # s.threads[n].id

\* t has more subreddits to visit, and more threads, none of which was read.
Grown(t, s) ==
  /\ t.pc = s.pc /\ t.i = s.i /\ t.then = s.then /\ t.found = s.found /\ t.out = s.out
  /\ t.visited = s.visited /\ t.cur = s.cur /\ t.movies = s.movies /\ t.error = s.error
  /\ Len(t.threads) - Len(t.pending) = Len(s.threads) - Len(s.pending)

LEMMA EnqueueSubKeeps ==
  ASSUME NEW a \in Agents, Ag(a) \in LoadedAgent, NEW s \in AgentState, Within(s, a), NEW name \in Text,
         NEW t, t = EnqueueSub(s, name, a)
  PROVE  /\ t \in AgentState /\ Grown(t, s) /\ Within(t, a)
         /\ t.threads = s.threads /\ t.pending = s.pending
<1>1. PICK sub \in Text : sub = NormalizeSub(name)
  BY NormalizedIsName
<1>2. CASE t = s
  BY <1>2 DEF Grown
<1>3. CASE t # s
  <2>1. /\ t = [s EXCEPT !.frontier = Append(s.frontier, sub)]
        /\ ~(Cardinality(s.visited) + Len(s.frontier) >= Ag(a).maxSubs)
    BY <1>1, <1>3 DEF EnqueueSub
  <2>2. PICK q : q = Append(s.frontier, sub)
    OBVIOUS
  <2>3. s.frontier \in Seq(Text)
    BY DEF AgentState
  <2>4. q \in Seq(Text) /\ Len(q) = Len(s.frontier) + 1 /\ Len(s.frontier) \in Nat
    BY <2>2, <2>3, AppendProperties, LenProperties
  <2>5. t = [s EXCEPT !.frontier = q]
    BY <2>1, <2>2
  <2>6. t \in AgentState
    BY <2>4, <2>5 DEF AgentState
  <2>7. t.frontier = q /\ Grown(t, s) /\ t.threads = s.threads /\ t.pending = s.pending
    BY <2>5 DEF AgentState, Grown
  <2>8. Cardinality(s.visited) \in Nat /\ Ag(a).maxSubs \in Nat
    BY FS_CardinalityType DEF Within, LoadedAgent
  <2>9. Within(t, a)
    <3>1. Cardinality(s.visited) + Len(q) <= Ag(a).maxSubs
      BY <2>1, <2>4, <2>8
    <3>2. t.visited = s.visited
      BY <2>7 DEF Grown
    <3> QED BY <2>7, <3>1, <3>2 DEF Within
  <2> QED BY <2>6, <2>7, <2>9
<1> QED BY <1>2, <1>3

LEMMA AddThreadKeeps ==
  ASSUME NEW a \in Agents, Ag(a) \in LoadedAgent, NEW s \in AgentState, Within(s, a), NEW th \in RedditThread,
         NEW t, t = AddThread(s, th, a)
  PROVE  t \in AgentState /\ Grown(t, s) /\ Within(t, a)
<1>1. CASE t = s
  BY <1>1 DEF Grown
<1>2. CASE t # s
  <2>1. PICK q : q = Append(s.threads, th)
    OBVIOUS
  <2>2. PICK u : u = [s EXCEPT !.threads = q]
    OBVIOUS
  <2>3. PICK v : v = EnqueueSub(u, th.sub, a)
    OBVIOUS
  <2>4. /\ t = [v EXCEPT !.pending = Append(@, th)]
        /\ \A x \in Range(s.threads) : x.id # th.id
        /\ ~(Len(s.threads) >= Ag(a).maxThreads)
    BY <1>2, <2>1, <2>2, <2>3 DEF AddThread
  <2>5. s.threads \in Seq(RedditThread) /\ s.pending \in Seq(RedditThread)
    BY DEF AgentState
  <2>6. /\ q \in Seq(RedditThread) /\ Len(q) = Len(s.threads) + 1 /\ Len(s.threads) \in Nat
        /\ DOMAIN q = 1..(Len(s.threads) + 1) /\ DOMAIN s.threads = 1..Len(s.threads)
        /\ (\A k \in 1..Len(s.threads) : q[k] = s.threads[k]) /\ q[Len(s.threads) + 1] = th
    BY <2>1, <2>5, AppendProperties, LenProperties
  <2>7. u \in AgentState /\ u.threads = q /\ u.visited = s.visited /\ u.frontier = s.frontier /\ u.pending = s.pending
    BY <2>2, <2>6 DEF AgentState
  <2>8. Ag(a).maxThreads \in Nat
    BY DEF LoadedAgent
  <2>9. \A k \in 1..Len(s.threads) : s.threads[k].id # th.id
    BY <2>4, <2>6 DEF Range
  <2>10. Within(u, a)
    <3>1. Len(q) <= Ag(a).maxThreads
      BY <2>4, <2>6, <2>8
    <3>2. \A m, n \in DOMAIN q : m # n => q[m].id # q[n].id
      BY <2>6, <2>9 DEF Within
    <3> QED BY <2>7, <3>1, <3>2 DEF Within
  <2>11. th.sub \in Text
    BY DEF RedditThread
  <2>12. /\ v \in AgentState /\ Grown(v, u) /\ Within(v, a)
         /\ v.threads = q /\ v.pending = s.pending
    BY <2>3, <2>7, <2>10, <2>11, EnqueueSubKeeps
  <2>13. PICK w : w = Append(s.pending, th)
    OBVIOUS
  <2>14. w \in Seq(RedditThread) /\ Len(w) = Len(s.pending) + 1 /\ Len(s.pending) \in Nat
    BY <2>5, <2>13, AppendProperties, LenProperties
  <2>15. t = [v EXCEPT !.pending = w]
    BY <2>4, <2>12, <2>13
  <2>16. t \in AgentState
    BY <2>12, <2>14, <2>15 DEF AgentState
  <2>17. /\ t.pending = w /\ t.threads = v.threads /\ t.frontier = v.frontier /\ t.visited = v.visited
         /\ t.pc = v.pc /\ t.i = v.i /\ t.then = v.then /\ t.found = v.found /\ t.out = v.out
         /\ t.cur = v.cur /\ t.movies = v.movies /\ t.error = v.error
    BY <2>12, <2>15 DEF AgentState
  <2>18. /\ u.pc = s.pc /\ u.i = s.i /\ u.then = s.then /\ u.found = s.found /\ u.out = s.out
         /\ u.cur = s.cur /\ u.movies = s.movies /\ u.error = s.error
    BY <2>2 DEF AgentState
  <2>19. Within(t, a)
    BY <2>12, <2>17 DEF Within
  <2>20. Len(t.threads) - Len(t.pending) = Len(s.threads) - Len(s.pending)
    <3>1. Len(t.threads) = Len(s.threads) + 1 /\ Len(s.threads) \in Nat
      BY <2>6, <2>12, <2>17
    <3>2. Len(t.pending) = Len(s.pending) + 1 /\ Len(s.pending) \in Nat
      BY <2>14, <2>17
    <3> QED BY <3>1, <3>2
  <2>21. Grown(t, s)
    BY <2>7, <2>12, <2>17, <2>18, <2>20 DEF Grown
  <2> QED BY <2>16, <2>19, <2>21
<1> QED BY <1>1, <1>2

LEMMA EnqueueAllKeeps ==
  ASSUME NEW a \in Agents, Ag(a) \in LoadedAgent, NEW s \in AgentState, Within(s, a), NEW names \in Seq(Text)
  PROVE  /\ EnqueueAll(s, names, a) \in AgentState /\ Grown(EnqueueAll(s, names, a), s)
         /\ Within(EnqueueAll(s, names, a), a)
<1> DEFINE n == Len(names)
           T == {t \in AgentState : Grown(t, s) /\ Within(t, a)}
           Op(t, m) == EnqueueSub(t, m, a)
           Body(f) == [p \in SUBSET (1..n) |-> IF p = {} THEN s ELSE Op(f[p \ {Max(p)}], names[Max(p)])]
           h == [p \in (1..n) \X T |-> Op(p[2], names[p[1]])]
<1>1. n \in Nat /\ s \in T
  BY LenProperties DEF Grown
<1>2. DOMAIN names = 1..n /\ \A k \in 1..n : names[k] \in Text
  BY LenProperties
<1>3. ASSUME NEW out \in T, NEW x \in Text PROVE Op(out, x) \in T
  <2>1. PICK t : t = Op(out, x)
    OBVIOUS
  <2>2. t \in AgentState /\ Grown(t, out) /\ Within(t, a)
    BY <1>3, <2>1, EnqueueSubKeeps
  <2>3. Grown(t, s)
    BY <1>3, <2>2 DEF Grown
  <2> QED BY <2>1, <2>2, <2>3
<1>4. Turn(h, n, T)
  <2> HIDE DEF T, n, Op
  <2> QED BY <1>2, <1>3 DEF Turn
<1>5. \A k \in 1..n, t \in T : h[<<k, t>>] = Op(t, names[k])
  <2> HIDE DEF T, n, Op
  <2> QED OBVIOUS
<1>6. PICK f : f = CHOOSE F : F = Body(F)
  OBVIOUS
<1>7. EnqueueAll(s, names, a) = f[1..n]
  BY <1>2, <1>6 DEF EnqueueAll, FoldLeft, MapThenFoldSet
<1> HIDE DEF h, T, n, Op
<1>8. ASSUME NEW g, NEW p \in SUBSET (1..n), p # {}, g[p \ {Max(p)}] \in T
      PROVE  Op(g[p \ {Max(p)}], names[Max(p)]) = h[<<Max(p), g[p \ {Max(p)}]>>]
  BY <1>1, <1>5, <1>8, MaxIs
<1>9. PICK g : IsFold(g, n, T, s, h)
  BY <1>1, <1>4, FoldExists
<1>10. g = Body(g)
  BY <1>8, <1>9 DEF IsFold
<1>11. f = Body(f)
  BY <1>6, <1>10
<1>12. Follows(f, n, T, s, h)
  BY <1>8, <1>11 DEF Follows
<1>13. f[1..n] \in T
  BY <1>1, <1>4, <1>12, FoldStays
<1> QED BY <1>7, <1>13 DEF T

LEMMA AddThreadsKeeps ==
  ASSUME NEW a \in Agents, Ag(a) \in LoadedAgent, NEW s \in AgentState, Within(s, a), NEW ths \in Seq(RedditThread)
  PROVE  /\ AddThreads(s, ths, a) \in AgentState /\ Grown(AddThreads(s, ths, a), s)
         /\ Within(AddThreads(s, ths, a), a)
<1> DEFINE n == Len(ths)
           T == {t \in AgentState : Grown(t, s) /\ Within(t, a)}
           Op(t, th) == AddThread(t, th, a)
           Body(f) == [p \in SUBSET (1..n) |-> IF p = {} THEN s ELSE Op(f[p \ {Max(p)}], ths[Max(p)])]
           h == [p \in (1..n) \X T |-> Op(p[2], ths[p[1]])]
<1>1. n \in Nat /\ s \in T
  BY LenProperties DEF Grown
<1>2. DOMAIN ths = 1..n /\ \A k \in 1..n : ths[k] \in RedditThread
  BY LenProperties
<1>3. ASSUME NEW out \in T, NEW x \in RedditThread PROVE Op(out, x) \in T
  <2>1. PICK t : t = Op(out, x)
    OBVIOUS
  <2>2. t \in AgentState /\ Grown(t, out) /\ Within(t, a)
    BY <1>3, <2>1, AddThreadKeeps
  <2>3. Grown(t, s)
    BY <1>3, <2>2 DEF Grown
  <2> QED BY <2>1, <2>2, <2>3
<1>4. Turn(h, n, T)
  <2> HIDE DEF T, n, Op
  <2> QED BY <1>2, <1>3 DEF Turn
<1>5. \A k \in 1..n, t \in T : h[<<k, t>>] = Op(t, ths[k])
  <2> HIDE DEF T, n, Op
  <2> QED OBVIOUS
<1>6. PICK f : f = CHOOSE F : F = Body(F)
  OBVIOUS
<1>7. AddThreads(s, ths, a) = f[1..n]
  BY <1>2, <1>6 DEF AddThreads, FoldLeft, MapThenFoldSet
<1> HIDE DEF h, T, n, Op
<1>8. ASSUME NEW g, NEW p \in SUBSET (1..n), p # {}, g[p \ {Max(p)}] \in T
      PROVE  Op(g[p \ {Max(p)}], ths[Max(p)]) = h[<<Max(p), g[p \ {Max(p)}]>>]
  BY <1>1, <1>5, <1>8, MaxIs
<1>9. PICK g : IsFold(g, n, T, s, h)
  BY <1>1, <1>4, FoldExists
<1>10. g = Body(g)
  BY <1>8, <1>9 DEF IsFold
<1>11. f = Body(f)
  BY <1>6, <1>10
<1>12. Follows(f, n, T, s, h)
  BY <1>8, <1>11 DEF Follows
<1>13. f[1..n] \in T
  BY <1>1, <1>4, <1>12, FoldStays
<1> QED BY <1>7, <1>13 DEF T
----------------------------------------------------------------------------
(* The inductive invariant.                                                 *)

Reqs(a) == {r \in requests : r.who = a /\ Reddit(r.job)}
Unsent(a) == {r \in Reqs(a) : r.at # "fly"}
Made(a) == sent[a] + Cardinality(Unsent(a))
Busy(a) == IF Reqs(a) = {} THEN 0 ELSE 1

\* The shape of a request, and the step of its agent it belongs to: a crawling
\* agent waits for its page where it asked for it.
CrawlJob(s, r) ==
  /\ r.at # "new"
  /\ \/ r.job[1] = "subs" /\ s.pc = "subs"
     \/ r.job[1] = "all" /\ s.pc = "all"
     \/ r.job[1] = "hot" /\ s.pc = "loop" /\ s.cur \in Text
     \/ r.job[1] = "sub" /\ s.pc = "sub" /\ r.job[2] \in Text
     \/ r.job[1] = "thread" /\ s.pc = "drain" /\ s.cur \in RedditThread
FixedJob(s, r) ==
  \/ r.job[1] = "search" /\ r.job[2] \in Text /\ s.pc = "searching"
  \/ r.job[1] = "thread" /\ r.job[3] \in RedditThread /\ s.pc \notin {"idle", "searching"}
PlotJob(r) == r.job[3] \in {"cand", "term", "check", "again"}
Fits(s, r, a) == IF ~Reddit(r.job) THEN PlotJob(r) ELSE IF Crawls(a) THEN CrawlJob(s, r) ELSE FixedJob(s, r)
Request(r) ==
  /\ r = [who |-> r.who, job |-> r.job, at |-> r.at]
  /\ r.who \in Agents /\ r.at \in {"new", "wait", "fly"}
OneRequest(a) == Crawls(a) => \A r1, r2 \in Reqs(a) : r1 = r2

\* What an agent holds.
Sound(s, a) ==
  /\ s \in AgentState
  /\ s.pc = "idle" => s = Idle
  /\ s.pc = "drain" => s.then # ""
  /\ s.pc = "sub" => s.cur \in Text
  /\ Len(s.pending) <= Len(s.threads)
  /\ Crawls(a) => Within(s, a) /\ s.pc \notin {"searching", "reading"}
  /\ ~Crawls(a) => s.visited = {} /\ s.frontier = <<>>
Listed(s, a) ==
  /\ Len(s.movies) <= Ag(a).limit
  /\ (input.offline => KeysDiffer(Ag(a).picks)) => KeysDiffer(s.movies)

\* What the requests of an agent may amount to, at each step of its search.
Queries(a) == Len(Ag(a).queries)
Hops(s, a) == Cardinality(s.visited) * (1 + Queries(a))
Spent(s, a) == 3 * Queries(a) + (Len(s.threads) - Len(s.pending)) + Hops(s, a)
CrawlCount(s, a, made, busy) ==
  /\ s.pc = "idle" => made = 0
  /\ s.pc = "subs" => made <= s.i - 1 + busy /\ s.i + busy <= 2 * Queries(a) + 1
  /\ s.pc = "all" => made <= 2 * Queries(a) + s.i - 1 + busy /\ s.i + busy <= Queries(a) + 1
  /\ s.pc = "sub" => made <= Spent(s, a) - Queries(a) + s.i - 1 + busy /\ s.i + busy <= Queries(a) + 1
  /\ s.pc = "loop" /\ busy = 1 => made <= Spent(s, a) - Queries(a)
  /\ s.pc \notin {"idle", "subs", "all", "sub"} => made <= Spent(s, a)
Pairs(a) == Queries(a) * Len(Ag(a).subs)
FixedCount(s, a, made, open) ==
  /\ s.pc = "idle" => made = 0
  /\ s.pc = "searching" => made <= Pairs(a) /\ Len(s.threads) + open <= Pairs(a)
  /\ made <= 2 * Pairs(a)
Counted(a) == IF Crawls(a) THEN CrawlCount(agent[a], a, Made(a), Busy(a))
              ELSE FixedCount(agent[a], a, Made(a), Cardinality(Reqs(a)))

Inv ==
  /\ Configured
  /\ agent \in [Agents -> AgentState] /\ (\A a \in Agents : Sound(agent[a], a) /\ Listed(agent[a], a))
  /\ IsFiniteSet(requests) /\ (\A r \in requests : Request(r) /\ Fits(agent[r.who], r, r.who))
  /\ sent \in [Agents -> Nat]
  /\ \A a \in Agents : OneRequest(a) /\ Counted(a)

LEMMA SameSettings ==
  ASSUME input' = input
  PROVE  /\ Agents' = Agents /\ (Configured' <=> Configured) /\ \A a : (Crawls(a)' <=> Crawls(a))
         /\ \A s, a : (Sound(s, a)' <=> Sound(s, a)) /\ (Listed(s, a)' <=> Listed(s, a))
         /\ \A r : (Request(r)' <=> Request(r))
         /\ \A s, r, a : (Fits(s, r, a)' <=> Fits(s, r, a))
         /\ \A s, a, m, b : (CrawlCount(s, a, m, b)' <=> CrawlCount(s, a, m, b))
         /\ \A s, a, m, b : (FixedCount(s, a, m, b)' <=> FixedCount(s, a, m, b))
<1>1. Agents' = Agents /\ \A a : Ag(a)' = Ag(a)
  BY DEF Agents, Ag, Cfg
<1>2. \A a : (Crawls(a)' <=> Crawls(a))
  BY <1>1 DEF Crawls
<1>3. \A s, a : Within(s, a)' <=> Within(s, a)
  BY <1>1 DEF Within
<1>4. \A a : Queries(a)' = Queries(a) /\ Pairs(a)' = Pairs(a)
  BY <1>1 DEF Queries, Pairs
<1>5. \A s, a : Spent(s, a)' = Spent(s, a)
  BY <1>4 DEF Spent, Hops
<1>6. Configured' <=> Configured
  BY <1>1 DEF Configured, Numbered
<1>7. \A s, a : (Sound(s, a)' <=> Sound(s, a))
  BY <1>2, <1>3 DEF Sound
<1>8. \A s, a : (Listed(s, a)' <=> Listed(s, a))
  BY <1>1 DEF Listed
<1>9. \A r : (Request(r)' <=> Request(r))
  BY <1>1 DEF Request
<1>10. \A s, r, a : (Fits(s, r, a)' <=> Fits(s, r, a))
  BY <1>2 DEF Fits
<1>11. \A s, a, m, b : (CrawlCount(s, a, m, b)' <=> CrawlCount(s, a, m, b))
  BY <1>4, <1>5 DEF CrawlCount
<1>12. \A s, a, m, b : (FixedCount(s, a, m, b)' <=> FixedCount(s, a, m, b))
  BY <1>4 DEF FixedCount
<1> QED BY <1>1, <1>2, <1>6, <1>7, <1>8, <1>9, <1>10, <1>11, <1>12

(* A step of one agent, or of one of its requests, leaves the others alone. *)
LEMMA StepKeeps ==
  ASSUME Inv, input' = input, NEW a \in Agents, NEW t, agent' = [agent EXCEPT ![a] = t],
         Sound(t, a), Listed(t, a),
         \A r \in requests' : IF r.who = a THEN Request(r) /\ Fits(t, r, a) ELSE r \in requests,
         \A r \in requests : r.who # a => r \in requests',
         IsFiniteSet(requests'), sent' \in [Agents -> Nat], \A b \in Agents : b # a => sent'[b] = sent[b],
         OneRequest(a)', Counted(a)'
  PROVE  Inv'
<1>1. DOMAIN agent = Agents /\ agent'[a] = t /\ DOMAIN agent' = Agents /\ \A b \in Agents : b # a => agent'[b] = agent[b]
  BY DEF Inv
<1>2. Configured' /\ Agents' = Agents /\ agent' \in [Agents -> AgentState]
  <2>1. t \in AgentState
    BY DEF Sound
  <2> QED BY <2>1, SameSettings DEF Inv
<1>3. ASSUME NEW b \in Agents PROVE Sound(agent[b], b)' /\ Listed(agent[b], b)'
  <2>1. PICK u : u = agent'[b]
    OBVIOUS
  <2>2. Sound(u, b) /\ Listed(u, b)
    BY <1>1, <2>1 DEF Inv
  <2>3. Sound(u, b)' /\ Listed(u, b)'
    BY <2>2, SameSettings
  <2> QED BY <2>1, <2>3
<1>4. ASSUME NEW r \in requests' PROVE Request(r)' /\ Fits(agent[r.who], r, r.who)'
  <2>1. PICK u : u = agent'[r.who]
    OBVIOUS
  <2>2. CASE r.who = a
    <3>1. Request(r) /\ Fits(u, r, a)
      BY <1>1, <2>1, <2>2
    <3>2. Request(r)' /\ Fits(u, r, a)'
      BY <3>1, SameSettings
    <3> QED BY <2>1, <2>2, <3>2
  <2>3. CASE r.who # a
    <3>1. r \in requests /\ Request(r) /\ Fits(agent[r.who], r, r.who)
      BY <2>3 DEF Inv
    <3>2. r.who \in Agents
      BY <3>1 DEF Request
    <3>3. Fits(u, r, r.who)
      BY <1>1, <2>1, <2>3, <3>1, <3>2
    <3>4. Request(r)' /\ Fits(u, r, r.who)'
      BY <3>1, <3>3, SameSettings
    <3> QED BY <2>1, <3>4
  <2> QED BY <2>2, <2>3
<1>5. ASSUME NEW b \in Agents PROVE OneRequest(b)' /\ Counted(b)'
  <2>1. CASE b # a
    <3>1. OneRequest(b) /\ Counted(b) /\ agent'[b] = agent[b] /\ sent'[b] = sent[b]
      BY <1>1, <2>1 DEF Inv
    <3>2. Reqs(b)' = Reqs(b)
      BY <2>1 DEF Reqs
    <3>3. Made(b)' = Made(b) /\ Busy(b)' = Busy(b)
      BY <3>1, <3>2 DEF Made, Busy, Unsent
    <3>4. OneRequest(b)'
      BY <3>1, <3>2, SameSettings DEF OneRequest
    <3>5. Counted(b)'
      BY <3>1, <3>2, <3>3, SameSettings DEF Counted
    <3> QED BY <3>4, <3>5
  <2>2. CASE b = a
    BY <2>2
  <2> QED BY <2>1, <2>2
<1> QED BY <1>1, <1>2, <1>3, <1>4, <1>5 DEF Inv

LEMMA InitSound ==
  ASSUME NEW a \in Agents, Ag(a) \in LoadedAgent
  PROVE  Sound(Idle, a) /\ Listed(Idle, a)
<1>1. Idle \in AgentState
  BY EmptySeq DEF Idle, AgentState, Pcs
<1>2. /\ Idle.visited = {} /\ Idle.frontier = <<>> /\ Idle.threads = <<>> /\ Idle.pending = <<>> /\ Idle.movies = <<>>
      /\ Idle.pc = "idle"
  BY DEF Idle
<1>3. Ag(a).maxSubs \in Nat /\ Ag(a).maxThreads \in Nat /\ Ag(a).limit \in Nat
  BY DEF LoadedAgent
<1>4. Within(Idle, a)
  BY <1>2, <1>3, FS_EmptySet DEF Within
<1>5. Listed(Idle, a)
  BY <1>2, <1>3 DEF Listed, KeysDiffer
<1> QED BY <1>1, <1>2, <1>4, <1>5 DEF Sound

LEMMA QueriesIsNat ==
  ASSUME NEW a \in Agents, Ag(a) \in LoadedAgent
  PROVE  Queries(a) \in Nat /\ Pairs(a) \in Nat
<1>1. Ag(a).queries \in Seq(Query) /\ Ag(a).subs \in Seq(Text)
  BY DEF LoadedAgent, Agent
<1>2. PICK m, n : m = Len(Ag(a).queries) /\ n = Len(Ag(a).subs)
  OBVIOUS
<1>3. m \in Nat /\ n \in Nat
  BY <1>1, <1>2, LenProperties
<1>4. m * n \in Nat
  BY <1>3
<1> QED BY <1>2, <1>3, <1>4 DEF Queries, Pairs

LEMMA InvInit == Init => Inv
<1> SUFFICES ASSUME Init PROVE Inv
  OBVIOUS
<1>1. Configured
  BY ConfiguredInit
<1>2. agent = [a \in Agents |-> Idle] /\ requests = {} /\ sent = [a \in Agents |-> 0]
  BY DEF Init
<1>3. ASSUME NEW a \in Agents PROVE Sound(agent[a], a) /\ Listed(agent[a], a)
  BY <1>1, <1>2, InitSound DEF Configured
<1>4. ASSUME NEW a \in Agents PROVE OneRequest(a) /\ Counted(a)
  <2>1. Reqs(a) = {} /\ Unsent(a) = {} /\ sent[a] = 0 /\ agent[a].pc = "idle"
    BY <1>2 DEF Reqs, Unsent, Idle
  <2>2. Made(a) = 0
    BY <2>1, FS_EmptySet DEF Made
  <2>3. Queries(a) \in Nat /\ Pairs(a) \in Nat
    BY <1>1, QueriesIsNat DEF Configured
  <2>4. CrawlCount(agent[a], a, Made(a), Busy(a)) /\ FixedCount(agent[a], a, Made(a), Cardinality(Reqs(a)))
    BY <2>1, <2>2, <2>3 DEF CrawlCount, FixedCount
  <2> QED BY <2>1, <2>4 DEF Counted, OneRequest
<1>5. IsFiniteSet(requests)
  BY <1>2, FS_EmptySet
<1>6. \A a \in Agents : agent[a] \in AgentState
  BY <1>3 DEF Sound
<1>7. agent \in [Agents -> AgentState]
  BY <1>2, <1>6
<1> QED BY <1>1, <1>2, <1>3, <1>4, <1>5, <1>7 DEF Inv

(* An agent whose search requests stay what they are.                       *)
LEMMA SearchUnchanged ==
  ASSUME Inv, input' = input, NEW a \in Agents, NEW t, agent' = [agent EXCEPT ![a] = t],
         Sound(t, a), Listed(t, a),
         \A r \in requests' : IF r.who = a THEN Request(r) /\ Fits(t, r, a) ELSE r \in requests,
         \A r \in requests : r.who # a => r \in requests',
         IsFiniteSet(requests'), sent' = sent, Reqs(a)' = Reqs(a),
         Crawls(a) => CrawlCount(t, a, Made(a), Busy(a)),
         ~Crawls(a) => FixedCount(t, a, Made(a), Cardinality(Reqs(a)))
  PROVE  Inv'
<1>1. Made(a)' = Made(a) /\ Busy(a)' = Busy(a) /\ agent'[a] = t /\ sent' \in [Agents -> Nat]
  BY DEF Made, Busy, Unsent, Inv
<1>2. Counted(a)'
  BY <1>1, SameSettings DEF Counted
<1>3. OneRequest(a)'
  BY SameSettings DEF Inv, OneRequest
<1> QED BY <1>1, <1>2, <1>3, StepKeeps

(* The end of an agent's run.                                               *)
LEMMA WrapsUp ==
  ASSUME Inv, input' = input, requests' = requests, sent' = sent,
         NEW a \in Agents, NEW t, agent' = [agent EXCEPT ![a] = t],
         agent[a].pc \in {"reading", "gather", "picks"}, t.pc \in {"gather", "picks", "ready"},
         t \in AgentState, Listed(t, a),
         t.threads = agent[a].threads, t.pending = agent[a].pending,
         t.visited = agent[a].visited, t.frontier = agent[a].frontier
  PROVE  Inv'
<1>1. Sound(agent[a], a) /\ Counted(a) /\ IsFiniteSet(requests)
  BY DEF Inv
<1>2. Sound(t, a)
  BY <1>1 DEF Sound, Within
<1>3. ASSUME NEW r \in requests, r.who = a PROVE Request(r) /\ Fits(t, r, a)
  <2>1. Request(r) /\ Fits(agent[a], r, a)
    BY <1>3 DEF Inv
  <2> QED BY <2>1 DEF Fits, CrawlJob, FixedJob
<1>4. Spent(t, a) = Spent(agent[a], a)
  BY DEF Spent, Hops
<1>5. Crawls(a) => CrawlCount(t, a, Made(a), Busy(a))
  BY <1>1, <1>4 DEF Counted, CrawlCount
<1>6. ~Crawls(a) => FixedCount(t, a, Made(a), Cardinality(Reqs(a)))
  BY <1>1 DEF Counted, FixedCount
<1>7. Reqs(a)' = Reqs(a)
  BY DEF Reqs
<1> QED BY <1>1, <1>2, <1>3, <1>5, <1>6, <1>7, SearchUnchanged

LEMMA CutIsTyped ==
  ASSUME NEW S, NEW s \in Seq(S), NEW n \in 0..Len(s)
  PROVE  SubSeq(s, 1, n) \in Seq(S) /\ Len(SubSeq(s, 1, n)) = n /\ \A k \in 1..n : SubSeq(s, 1, n)[k] = s[k]
<1>1. Len(s) \in Nat /\ n \in Nat /\ n <= Len(s)
  BY LenProperties
<1>2. CASE n = 0
  BY <1>1, <1>2, SubSeqProperties, EmptySeq
<1>3. CASE n # 0
  BY <1>1, <1>3, SubSeqProperties
<1> QED BY <1>2, <1>3

LEMMA CutsAre ==
  ASSUME NEW S, NEW s \in Seq(S), NEW n \in Cuts(s)
  PROVE  n \in 0..Len(s)
<1>1. Len(s) \in Nat
  BY LenProperties
<1> QED BY <1>1 DEF Cuts

LEMMA AllReadKeeps == ASSUME Inv, NEW a \in Agents, AllRead(a) PROVE Inv'
<1>1. Sound(agent[a], a) /\ Listed(agent[a], a)
  BY DEF Inv
<1>2. PICK t : t = [agent[a] EXCEPT !.pc = "gather"]
  OBVIOUS
<1>3. agent' = [agent EXCEPT ![a] = t] /\ agent[a].pc = "reading"
  BY <1>2 DEF AllRead
<1>4. t \in AgentState
  BY <1>1, <1>2 DEF Sound, AgentState, Pcs
<1>5. /\ t.pc = "gather" /\ t.threads = agent[a].threads /\ t.pending = agent[a].pending
      /\ t.visited = agent[a].visited /\ t.frontier = agent[a].frontier /\ t.movies = agent[a].movies
  BY <1>1, <1>2 DEF Sound, AgentState
<1>6. Listed(t, a)
  BY <1>1, <1>5 DEF Listed
<1> QED BY <1>3, <1>4, <1>5, <1>6, WrapsUp DEF AllRead

LEMMA GatherKeeps == ASSUME Inv, NEW a \in Agents, Gather(a) PROVE Inv'
<1>1. Sound(agent[a], a) /\ agent[a].found \in Seq(Movie) /\ Ag(a).limit \in Nat
  BY DEF Inv, Sound, AgentState, Configured, LoadedAgent
<1>2. PICK n \in Cuts(agent[a].found) :
        agent' = [agent EXCEPT ![a] = [@ EXCEPT !.pc = "picks", !.movies = DistinctMovies(SubSeq(agent[a].found, 1, n), Ag(a).limit)]]
  BY DEF Gather
<1>3. PICK ms : ms = DistinctMovies(SubSeq(agent[a].found, 1, n), Ag(a).limit)
  OBVIOUS
<1>4. ms \in Seq(Movie) /\ Len(ms) <= Ag(a).limit /\ KeysDiffer(ms)
  <2>1. PICK f : f = SubSeq(agent[a].found, 1, n)
    OBVIOUS
  <2>2. f \in Seq(Movie)
    BY <1>1, <1>2, <2>1, CutsAre, CutIsTyped
  <2> QED BY <1>1, <1>3, <2>1, <2>2, DistinctIs
<1>5. PICK t : t = [agent[a] EXCEPT !.pc = "picks", !.movies = ms]
  OBVIOUS
<1>6. agent' = [agent EXCEPT ![a] = t]
  BY <1>2, <1>3, <1>5
<1>7. t \in AgentState
  BY <1>1, <1>4, <1>5 DEF Sound, AgentState, Pcs
<1>8. /\ t.pc = "picks" /\ t.threads = agent[a].threads /\ t.pending = agent[a].pending
      /\ t.visited = agent[a].visited /\ t.frontier = agent[a].frontier /\ t.movies = ms
  BY <1>1, <1>5 DEF Sound, AgentState
<1>9. Listed(t, a)
  BY <1>4, <1>8 DEF Listed
<1> QED BY <1>6, <1>7, <1>8, <1>9, WrapsUp DEF Gather

(* What a pick is as a movie.                                               *)
LEMMA PicksAreMovies ==
  ASSUME NEW source \in Source, NEW ps \in Seq(Pick), NEW n \in 0..Len(ps)
  PROVE  [k \in 1..n |-> FromPick(ps[k], source)] \in Seq(Movie)
<1>1. Len(ps) \in Nat /\ n \in Nat
  BY LenProperties
<1>2. ASSUME NEW p \in Pick PROVE FromPick(p, source) \in Movie
  <2>1. p.title \in Text /\ p.year \in Int /\ p.plot \in Text
    BY DEF Pick
  <2>2. [title |-> p.title, year |-> p.year, source |-> source, plot |-> p.plot] \in Movie
    BY <2>1 DEF Movie
  <2> QED BY <2>2 DEF FromPick
<1>3. \A k \in 1..n : FromPick(ps[k], source) \in Movie
  BY <1>1, <1>2, ElementOfSeq
<1> QED BY <1>1, <1>3

LEMMA FallbackKeeps == ASSUME Inv, NEW a \in Agents, Fallback(a) PROVE Inv'
<1>1. Sound(agent[a], a) /\ agent[a].movies \in Seq(Movie) /\ Ag(a).limit \in Nat /\ Ag(a) \in LoadedAgent
  BY DEF Inv, Sound, AgentState, Configured, LoadedAgent
<1>2. PICK picks : picks = [k \in DOMAIN Ag(a).picks |-> FromPick(Ag(a).picks[k], "curated fallback")]
  OBVIOUS
<1>3. PICK n \in Cuts(picks) :
        agent' = [agent EXCEPT ![a] = [@ EXCEPT !.pc = "ready", !.movies = DistinctMovies(agent[a].movies \o SubSeq(picks, 1, n), Ag(a).limit)]]
  BY <1>2 DEF Fallback
<1>4. picks \in Seq(Movie)
  <2>1. PICK ps : ps = Ag(a).picks
    OBVIOUS
  <2>2. ps \in Seq(Pick)
    BY <1>1, <2>1 DEF LoadedAgent, Agent
  <2>3. DOMAIN ps = 1..Len(ps) /\ Len(ps) \in Nat
    BY <2>2, LenProperties
  <2>4. [k \in 1..Len(ps) |-> FromPick(ps[k], "curated fallback")] \in Seq(Movie)
    <3>1. "curated fallback" \in Source /\ Len(ps) \in 0..Len(ps)
      BY <2>3 DEF Source
    <3> QED BY <2>2, <3>1, PicksAreMovies
  <2> QED BY <1>2, <2>1, <2>3, <2>4
<1>5. PICK ms : ms = DistinctMovies(agent[a].movies \o SubSeq(picks, 1, n), Ag(a).limit)
  OBVIOUS
<1>6. ms \in Seq(Movie) /\ Len(ms) <= Ag(a).limit /\ KeysDiffer(ms)
  <2>1. PICK f : f = SubSeq(picks, 1, n)
    OBVIOUS
  <2>2. f \in Seq(Movie)
    BY <1>3, <1>4, <2>1, CutsAre, CutIsTyped
  <2>3. agent[a].movies \o f \in Seq(Movie)
    BY <1>1, <2>2, ConcatProperties
  <2> QED BY <1>1, <1>5, <2>1, <2>3, DistinctIs
<1>7. PICK t : t = [agent[a] EXCEPT !.pc = "ready", !.movies = ms]
  OBVIOUS
<1>8. agent' = [agent EXCEPT ![a] = t]
  BY <1>3, <1>5, <1>7
<1>9. t \in AgentState
  BY <1>1, <1>6, <1>7 DEF Sound, AgentState, Pcs
<1>10. /\ t.pc = "ready" /\ t.threads = agent[a].threads /\ t.pending = agent[a].pending
       /\ t.visited = agent[a].visited /\ t.frontier = agent[a].frontier /\ t.movies = ms
  BY <1>1, <1>7 DEF Sound, AgentState
<1>11. Listed(t, a)
  BY <1>6, <1>10 DEF Listed
<1> QED BY <1>8, <1>9, <1>10, <1>11, WrapsUp DEF Fallback

----------------------------------------------------------------------------
(* A crawl.  It asks for a page when it waits for none.                     *)
LEMMA AskKeeps ==
  ASSUME Inv, input' = input, sent' = sent, NEW a \in Agents, Crawls(a), \A r \in requests : r.who # a,
         NEW job, Reddit(job), requests' = requests \cup {Ask(a, job, "wait")},
         NEW t, agent' = [agent EXCEPT ![a] = t], Sound(t, a), Listed(t, a),
         CrawlJob(t, Ask(a, job, "wait")), CrawlCount(t, a, Made(a) + 1, 1)
  PROVE  Inv'
<1>1. PICK q : q = Ask(a, job, "wait")
  OBVIOUS
<1>2. q.who = a /\ q.job = job /\ q.at = "wait" /\ Request(q)
  BY <1>1 DEF Ask, Request
<1>3. Reqs(a) = {} /\ Reqs(a)' = {q} /\ requests' = requests \cup {q}
  BY <1>1, <1>2 DEF Reqs
<1>4. Unsent(a) = {} /\ Unsent(a)' = {q}
  BY <1>2, <1>3 DEF Unsent
<1>5. sent[a] \in Nat /\ sent' \in [Agents -> Nat]
  BY DEF Inv
<1>6. Made(a) = sent[a] /\ Made(a)' = sent[a] + 1 /\ Busy(a)' = 1
  <2>1. Cardinality(Unsent(a)) = 0 /\ Cardinality(Unsent(a)') = 1
    BY <1>4, FS_EmptySet, FS_Singleton
  <2> QED BY <1>3, <1>5, <2>1 DEF Made, Busy
<1>7. agent'[a] = t
  BY DEF Inv
<1>8. Counted(a)'
  BY <1>6, <1>7, SameSettings DEF Counted
<1>9. OneRequest(a)'
  BY <1>3 DEF OneRequest
<1>10. IsFiniteSet(requests')
  BY <1>3, FS_AddElement DEF Inv
<1>11. ASSUME NEW r \in requests' PROVE IF r.who = a THEN Request(r) /\ Fits(t, r, a) ELSE r \in requests
  <2>1. CASE r = q
    BY <1>1, <1>2, <2>1 DEF Fits
  <2>2. CASE r # q
    BY <1>3, <2>2
  <2> QED BY <2>1, <2>2
<1> QED BY <1>3, <1>5, <1>8, <1>9, <1>10, <1>11, StepKeeps

(* It waits for one page at a time, and waits for none once it has it.      *)
LEMMA CrawlAnswerKeeps ==
  ASSUME Inv, input' = input, sent' = sent, NEW r \in requests, NEW a \in Agents, a = r.who, Crawls(a),
         Reddit(r.job), r.at = "fly", requests' = requests \ {r},
         NEW t, agent' = [agent EXCEPT ![a] = t], Sound(t, a), Listed(t, a), CrawlCount(t, a, Made(a), 0)
  PROVE  Inv'
<1>1. Reqs(a) = {r}
  BY DEF Inv, OneRequest, Reqs
<1>2. Reqs(a)' = {}
  BY <1>1 DEF Reqs
<1>3. Unsent(a) = {} /\ Unsent(a)' = {}
  BY <1>1, <1>2 DEF Unsent
<1>4. Made(a)' = Made(a) /\ Busy(a)' = 0
  BY <1>2, <1>3 DEF Made, Busy
<1>5. agent'[a] = t /\ sent' \in [Agents -> Nat]
  BY DEF Inv
<1>6. Counted(a)'
  BY <1>4, <1>5, SameSettings DEF Counted
<1>7. OneRequest(a)'
  BY <1>2 DEF OneRequest
<1>8. IsFiniteSet(requests')
  BY FS_RemoveElement DEF Inv
<1>9. ASSUME NEW q \in requests' PROVE IF q.who = a THEN Request(q) /\ Fits(t, q, a) ELSE q \in requests
  <2>1. CASE q.who = a
    <3>1. q \in requests /\ q # r
      OBVIOUS
    <3>2. Request(q) /\ Fits(agent[a], q, a)
      BY <2>1, <3>1 DEF Inv
    <3>3. ~Reddit(q.job)
      BY <1>1, <2>1, <3>1 DEF Reqs
    <3> QED BY <2>1, <3>2, <3>3 DEF Fits
  <2>2. CASE q.who # a
    BY <2>2
  <2> QED BY <2>1, <2>2
<1>10. \A q \in requests : q.who # a => q \in requests'
  OBVIOUS
<1> QED BY <1>5, <1>6, <1>7, <1>8, <1>9, <1>10, StepKeeps

LEMMA GotoKeeps ==
  ASSUME Inv, input' = input, sent' = sent, requests' = requests, NEW a \in Agents, Crawls(a),
         \A r \in requests : r.who # a,
         NEW t, agent' = [agent EXCEPT ![a] = t], Sound(t, a), Listed(t, a), CrawlCount(t, a, Made(a), 0)
  PROVE  Inv'
<1>1. Reqs(a) = {} /\ Reqs(a)' = Reqs(a) /\ Busy(a) = 0
  BY DEF Reqs, Busy
<1>2. IsFiniteSet(requests)
  BY DEF Inv
<1>3. \A r \in requests' : IF r.who = a THEN Request(r) /\ Fits(t, r, a) ELSE r \in requests
  OBVIOUS
<1>4. \A r \in requests : r.who # a => r \in requests'
  OBVIOUS
<1> QED BY <1>1, <1>2, <1>3, <1>4, SearchUnchanged

LEMMA CrawlStart ==
  ASSUME Inv, NEW a \in Agents, Crawl(a), NEW s, s = agent[a]
  PROVE  /\ input' = input /\ sent' = sent /\ Crawls(a) /\ (\A r \in requests : r.who # a)
         /\ s \in AgentState /\ Sound(s, a) /\ Listed(s, a) /\ Within(s, a) /\ CrawlCount(s, a, Made(a), 0)
         /\ Made(a) \in Nat /\ Queries(a) \in Nat /\ Ag(a) \in LoadedAgent
<1>1. input' = input /\ sent' = sent /\ Crawls(a) /\ \A r \in requests : r.who # a
  BY DEF Crawl, Crawls
<1>2. Reqs(a) = {} /\ Busy(a) = 0 /\ Unsent(a) = {}
  BY <1>1 DEF Reqs, Busy, Unsent
<1>3. Sound(s, a) /\ Listed(s, a) /\ CrawlCount(s, a, Made(a), 0)
  BY <1>1, <1>2 DEF Inv, Counted
<1>4. s \in AgentState /\ Within(s, a)
  BY <1>1, <1>3 DEF Sound
<1>5. Ag(a) \in LoadedAgent /\ Queries(a) \in Nat
  BY QueriesIsNat DEF Inv, Configured
<1>6. Made(a) \in Nat
  <2>1. sent[a] \in Nat /\ Cardinality(Unsent(a)) = 0
    BY <1>2, FS_EmptySet DEF Inv
  <2> QED BY <2>1 DEF Made
<1> QED BY <1>1, <1>3, <1>4, <1>5, <1>6

LEMMA TermsLength ==
  ASSUME NEW a \in Agents, Ag(a) \in LoadedAgent
  PROVE  Len(Terms(a)) = 2 * Queries(a)
<1>1. PICK q : q = Ag(a).queries
  OBVIOUS
<1>2. q \in Seq(Query)
  BY <1>1 DEF LoadedAgent, Agent
<1>3. Len(q) \in Nat /\ DOMAIN q = 1..Len(q)
  BY <1>2, LenProperties
<1>4. PICK u : u = [k \in DOMAIN q |-> Append(q[k], "movies")]
  OBVIOUS
<1>5. u \in Seq(Query)
  <2>1. \A k \in 1..Len(q) : q[k] \in Query
    BY <1>2, ElementOfSeq
  <2>2. \A x \in Query : Append(x, "movies") \in Query
    <3>1. "movies" \in Text
      BY DEF Text
    <3> QED BY <3>1, AppendProperties DEF Query
  <2> QED BY <1>3, <1>4, <2>1, <2>2
<1>6. Len(u) = Len(q)
  BY <1>3, <1>4, <1>5, LenProperties
<1>7. Len(q \o u) = Len(q) + Len(u)
  BY <1>2, <1>5, ConcatProperties
<1>8. Terms(a) = q \o u
  BY <1>1, <1>4 DEF Terms
<1> QED BY <1>1, <1>3, <1>6, <1>7, <1>8 DEF Queries

\* The requests that the pages read so far account for.
LEMMA SpentIs ==
  ASSUME NEW a \in Agents, Ag(a) \in LoadedAgent, NEW s, Sound(s, a), Crawls(a)
  PROVE  Spent(s, a) \in Nat /\ 3 * Queries(a) <= Spent(s, a)
<1>1. s.threads \in Seq(RedditThread) /\ s.pending \in Seq(RedditThread) /\ Len(s.pending) <= Len(s.threads)
  BY DEF Sound, AgentState
<1>2. PICK m, n, c, q : m = Len(s.threads) /\ n = Len(s.pending) /\ c = Cardinality(s.visited) /\ q = Queries(a)
  OBVIOUS
<1>3. m \in Nat /\ n \in Nat /\ n <= m
  BY <1>1, <1>2, LenProperties
<1>4. c \in Nat /\ q \in Nat
  BY <1>2, FS_CardinalityType, QueriesIsNat DEF Sound, Within
<1>5. \A x, y \in Nat : x * (1 + y) \in Nat
  OBVIOUS
<1>6. Hops(s, a) \in Nat
  BY <1>2, <1>4, <1>5 DEF Hops
<1>7. PICK p \in Nat : p = Hops(s, a)
  BY <1>6
<1>8. Spent(s, a) = 3 * q + (m - n) + p
  BY <1>2, <1>3, <1>4, <1>6, <1>7 DEF Spent
<1>9. 3 * q + (m - n) + p \in Nat /\ 3 * q <= 3 * q + (m - n) + p
  BY <1>3, <1>4
<1> QED BY <1>2, <1>8, <1>9

LEMMA GrownIsSound ==
  ASSUME NEW a \in Agents, Ag(a) \in LoadedAgent, Crawls(a), NEW s, Sound(s, a), s.pc # "idle",
         NEW t \in AgentState, Grown(t, s), Within(t, a)
  PROVE  Sound(t, a) /\ Spent(t, a) = Spent(s, a)
<1>1. /\ s.pending \in Seq(RedditThread) /\ s.threads \in Seq(RedditThread)
      /\ t.pending \in Seq(RedditThread) /\ t.threads \in Seq(RedditThread)
  BY DEF Sound, AgentState
<1>2. PICK k, l, m, n : k = Len(s.pending) /\ l = Len(s.threads) /\ m = Len(t.pending) /\ n = Len(t.threads)
  OBVIOUS
<1>3. k \in Nat /\ l \in Nat /\ m \in Nat /\ n \in Nat
  BY <1>1, <1>2, LenProperties
<1>4. k <= l /\ n - m = l - k
  BY <1>2 DEF Sound, Grown
<1>5. m <= n
  BY <1>3, <1>4
<1>6. t.pc = s.pc /\ t.then = s.then /\ t.cur = s.cur /\ t.visited = s.visited
  BY DEF Grown
<1>7. Sound(t, a)
  BY <1>2, <1>5, <1>6 DEF Sound
<1> QED BY <1>2, <1>4, <1>6, <1>7 DEF Spent, Hops

LEMMA CrawlSubsKeeps == ASSUME Inv, NEW a \in Agents, Crawl(a), agent[a].pc = "subs" PROVE Inv'
<1>1. PICK s : s = agent[a]
  OBVIOUS
<1>2. /\ input' = input /\ sent' = sent /\ Crawls(a) /\ (\A r \in requests : r.who # a)
      /\ s \in AgentState /\ Sound(s, a) /\ Listed(s, a) /\ Within(s, a) /\ CrawlCount(s, a, Made(a), 0)
      /\ Made(a) \in Nat /\ Queries(a) \in Nat /\ Ag(a) \in LoadedAgent
  BY <1>1, CrawlStart
<1>3. s.i \in Nat /\ s.out \in Seq(Text) /\ s.pc = "subs"
  BY <1>1, <1>2 DEF AgentState
<1>4. \/ /\ agent' = [agent EXCEPT ![a] = [EnqueueAll(s, s.out, a) EXCEPT !.pc = "all", !.i = 1]]
         /\ requests' = requests
      \/ /\ agent' = [agent EXCEPT ![a] = s] /\ ~(s.i > Len(Terms(a)))
         /\ requests' = requests \cup {Ask(a, <<"subs", Terms(a)[s.i]>>, "wait")}
  BY <1>1, <1>3 DEF Crawl
<1>5. CASE requests' = requests /\ agent' = [agent EXCEPT ![a] = [EnqueueAll(s, s.out, a) EXCEPT !.pc = "all", !.i = 1]]
  <2>1. PICK u : u = EnqueueAll(s, s.out, a)
    OBVIOUS
  <2>2. u \in AgentState /\ Grown(u, s) /\ Within(u, a)
    BY <1>2, <1>3, <2>1, EnqueueAllKeeps
  <2>3. Sound(u, a)
    BY <1>2, <1>3, <2>2, GrownIsSound
  <2>4. PICK t : t = [u EXCEPT !.pc = "all", !.i = 1]
    OBVIOUS
  <2>5. PICK pc \in Pcs, i \in Nat \ {0} : pc = "all" /\ i = 1
    BY DEF Pcs
  <2>6. t = [u EXCEPT !.pc = pc, !.i = i]
    BY <2>4, <2>5
  <2>7. /\ t \in AgentState /\ t.pc = "all" /\ t.i = 1 /\ t.threads = u.threads /\ t.pending = u.pending
        /\ t.visited = u.visited /\ t.frontier = u.frontier /\ t.movies = u.movies
    <3>1. /\ t \in AgentState /\ t.pc = pc /\ t.i = i /\ t.threads = u.threads
          /\ t.pending = u.pending /\ t.visited = u.visited /\ t.frontier = u.frontier /\ t.movies = u.movies
      BY <2>2, <2>6 DEF AgentState
    <3> QED BY <2>5, <3>1
  <2>8. Sound(t, a)
    BY <1>2, <2>3, <2>7 DEF Sound, Within
  <2>9. Listed(t, a)
    BY <1>2, <2>2, <2>7 DEF Listed, Grown
  <2>10. CrawlCount(t, a, Made(a), 0)
    BY <1>2, <1>3, <2>7 DEF CrawlCount
  <2> QED BY <1>2, <1>5, <2>1, <2>4, <2>8, <2>9, <2>10, GotoKeeps
<1>6. CASE /\ agent' = [agent EXCEPT ![a] = s] /\ ~(s.i > Len(Terms(a)))
           /\ requests' = requests \cup {Ask(a, <<"subs", Terms(a)[s.i]>>, "wait")}
  <2>1. PICK job : job = <<"subs", Terms(a)[s.i]>>
    OBVIOUS
  <2>2. job[1] = "subs" /\ Reddit(job)
    BY <2>1 DEF Reddit
  <2>3. CrawlJob(s, Ask(a, job, "wait"))
    BY <1>3, <2>2 DEF CrawlJob, Ask
  <2>4. s.i <= 2 * Queries(a)
    BY <1>2, <1>3, <1>6, TermsLength
  <2>5. CrawlCount(s, a, Made(a) + 1, 1)
    BY <1>2, <1>3, <2>4 DEF CrawlCount
  <2> QED BY <1>2, <1>6, <2>1, <2>2, <2>3, <2>5, AskKeeps
<1> QED BY <1>4, <1>5, <1>6

LEMMA DrainIsSound ==
  ASSUME NEW a \in Agents, Crawls(a), NEW s, Sound(s, a), Listed(s, a), s.pc # "idle",
         NEW t, t = Drain(s, "loop") \/ t = Drain(s, "gather")
  PROVE  Sound(t, a) /\ Listed(t, a) /\ t.pc = "drain" /\ Spent(t, a) = Spent(s, a)
<1>1. s \in AgentState
  BY DEF Sound
<1>2. /\ t \in AgentState /\ t.pc = "drain" /\ t.then # "" /\ t.threads = s.threads /\ t.pending = s.pending
      /\ t.visited = s.visited /\ t.frontier = s.frontier /\ t.movies = s.movies
  <2>1. PICK pc \in Pcs, then \in {x \in {"", "gather", "loop"} : x # ""} : pc = "drain" /\ t = Drain(s, then)
    BY DEF Pcs
  <2>2. t = [s EXCEPT !.pc = pc, !.then = then] /\ then # ""
    BY <2>1 DEF Drain
  <2>3. /\ t.pc = pc /\ t.then = then /\ t.threads = s.threads /\ t.pending = s.pending
        /\ t.visited = s.visited /\ t.frontier = s.frontier /\ t.movies = s.movies
    BY <1>1, <2>2 DEF AgentState
  <2>4. t \in AgentState
    BY <1>1, <2>2 DEF AgentState
  <2> QED BY <2>1, <2>2, <2>3, <2>4
<1>3. Sound(t, a)
  BY <1>2 DEF Sound, Within
<1>4. Listed(t, a) /\ Spent(t, a) = Spent(s, a)
  BY <1>2 DEF Listed, Spent, Hops
<1> QED BY <1>2, <1>3, <1>4

LEMMA CrawlAllKeeps == ASSUME Inv, NEW a \in Agents, Crawl(a), agent[a].pc = "all" PROVE Inv'
<1>1. PICK s : s = agent[a]
  OBVIOUS
<1>2. /\ input' = input /\ sent' = sent /\ Crawls(a) /\ (\A r \in requests : r.who # a)
      /\ s \in AgentState /\ Sound(s, a) /\ Listed(s, a) /\ Within(s, a) /\ CrawlCount(s, a, Made(a), 0)
      /\ Made(a) \in Nat /\ Queries(a) \in Nat /\ Ag(a) \in LoadedAgent
  BY <1>1, CrawlStart
<1>3. s.i \in Nat /\ s.pc = "all"
  BY <1>1, <1>2 DEF AgentState
<1>4. \/ agent' = [agent EXCEPT ![a] = Drain(s, "loop")] /\ requests' = requests
      \/ /\ agent' = [agent EXCEPT ![a] = s] /\ ~(s.i > Queries(a))
         /\ requests' = requests \cup {Ask(a, <<"all", Ag(a).queries[s.i]>>, "wait")}
  BY <1>1, <1>3 DEF Crawl, Queries
<1>5. CASE agent' = [agent EXCEPT ![a] = Drain(s, "loop")] /\ requests' = requests
  <2>1. PICK t : t = Drain(s, "loop")
    OBVIOUS
  <2>2. Sound(t, a) /\ Listed(t, a) /\ t.pc = "drain" /\ Spent(t, a) = Spent(s, a)
    BY <1>2, <1>3, <2>1, DrainIsSound
  <2>3. Spent(s, a) \in Nat /\ 3 * Queries(a) <= Spent(s, a)
    BY <1>2, SpentIs
  <2>4. Made(a) <= 2 * Queries(a) + s.i - 1 /\ s.i <= Queries(a) + 1
    BY <1>2, <1>3 DEF CrawlCount
  <2>5. Made(a) <= Spent(s, a)
    BY <1>2, <1>3, <2>3, <2>4
  <2>6. CrawlCount(t, a, Made(a), 0)
    BY <2>2, <2>5 DEF CrawlCount
  <2> QED BY <1>2, <1>5, <2>1, <2>2, <2>6, GotoKeeps
<1>6. CASE /\ agent' = [agent EXCEPT ![a] = s] /\ ~(s.i > Queries(a))
           /\ requests' = requests \cup {Ask(a, <<"all", Ag(a).queries[s.i]>>, "wait")}
  <2>1. PICK job : job = <<"all", Ag(a).queries[s.i]>>
    OBVIOUS
  <2>2. job[1] = "all" /\ Reddit(job)
    BY <2>1 DEF Reddit
  <2>3. CrawlJob(s, Ask(a, job, "wait"))
    BY <1>3, <2>2 DEF CrawlJob, Ask
  <2>4. s.i <= Queries(a)
    BY <1>2, <1>3, <1>6
  <2>5. CrawlCount(s, a, Made(a) + 1, 1)
    BY <1>2, <1>3, <2>4 DEF CrawlCount
  <2> QED BY <1>2, <1>6, <2>1, <2>2, <2>3, <2>5, AskKeeps
<1> QED BY <1>4, <1>5, <1>6

LEMMA CrawlSubKeeps == ASSUME Inv, NEW a \in Agents, Crawl(a), agent[a].pc = "sub" PROVE Inv'
<1>1. PICK s : s = agent[a]
  OBVIOUS
<1>2. /\ input' = input /\ sent' = sent /\ Crawls(a) /\ (\A r \in requests : r.who # a)
      /\ s \in AgentState /\ Sound(s, a) /\ Listed(s, a) /\ Within(s, a) /\ CrawlCount(s, a, Made(a), 0)
      /\ Made(a) \in Nat /\ Queries(a) \in Nat /\ Ag(a) \in LoadedAgent
  BY <1>1, CrawlStart
<1>3. s.i \in Nat /\ s.pc = "sub" /\ s.cur \in Text
  BY <1>1, <1>2 DEF AgentState, Sound
<1>4. \/ agent' = [agent EXCEPT ![a] = Drain(s, "loop")] /\ requests' = requests
      \/ /\ agent' = [agent EXCEPT ![a] = s] /\ ~(s.i > Queries(a))
         /\ requests' = requests \cup {Ask(a, <<"sub", s.cur, Ag(a).queries[s.i]>>, "wait")}
  BY <1>1, <1>3 DEF Crawl, Queries
<1>5. Spent(s, a) \in Nat
  BY <1>2, SpentIs
<1>6. Made(a) <= Spent(s, a) - Queries(a) + s.i - 1 /\ s.i <= Queries(a) + 1
  BY <1>2, <1>3, <1>5 DEF CrawlCount
<1>7. CASE agent' = [agent EXCEPT ![a] = Drain(s, "loop")] /\ requests' = requests
  <2>1. PICK t : t = Drain(s, "loop")
    OBVIOUS
  <2>2. Sound(t, a) /\ Listed(t, a) /\ t.pc = "drain" /\ Spent(t, a) = Spent(s, a)
    BY <1>2, <1>3, <2>1, DrainIsSound
  <2>3. Made(a) <= Spent(s, a)
    BY <1>2, <1>3, <1>5, <1>6
  <2>4. CrawlCount(t, a, Made(a), 0)
    BY <2>2, <2>3 DEF CrawlCount
  <2> QED BY <1>2, <1>7, <2>1, <2>2, <2>4, GotoKeeps
<1>8. CASE /\ agent' = [agent EXCEPT ![a] = s] /\ ~(s.i > Queries(a))
           /\ requests' = requests \cup {Ask(a, <<"sub", s.cur, Ag(a).queries[s.i]>>, "wait")}
  <2>1. PICK job : job = <<"sub", s.cur, Ag(a).queries[s.i]>>
    OBVIOUS
  <2>2. job[1] = "sub" /\ job[2] = s.cur /\ Reddit(job)
    BY <2>1 DEF Reddit
  <2>3. CrawlJob(s, Ask(a, job, "wait"))
    BY <1>3, <2>2 DEF CrawlJob, Ask
  <2>4. s.i <= Queries(a)
    BY <1>2, <1>3, <1>8
  <2>5. CrawlCount(s, a, Made(a) + 1, 1)
    BY <1>2, <1>3, <1>5, <1>6, <2>4 DEF CrawlCount
  <2> QED BY <1>2, <1>8, <2>1, <2>2, <2>3, <2>5, AskKeeps
<1> QED BY <1>4, <1>7, <1>8

LEMMA CrawlDrainKeeps == ASSUME Inv, NEW a \in Agents, Crawl(a), agent[a].pc = "drain" PROVE Inv'
<1>1. PICK s : s = agent[a]
  OBVIOUS
<1>2. /\ input' = input /\ sent' = sent /\ Crawls(a) /\ (\A r \in requests : r.who # a)
      /\ s \in AgentState /\ Sound(s, a) /\ Listed(s, a) /\ Within(s, a) /\ CrawlCount(s, a, Made(a), 0)
      /\ Made(a) \in Nat /\ Queries(a) \in Nat /\ Ag(a) \in LoadedAgent
  BY <1>1, CrawlStart
<1>3. s.pc = "drain" /\ s.pending \in Seq(RedditThread) /\ s.threads \in Seq(RedditThread)
      /\ s.then \in {"gather", "loop"}
  BY <1>1, <1>2 DEF AgentState, Sound
<1>4. \/ agent' = [agent EXCEPT ![a] = [s EXCEPT !.pc = s.then]] /\ requests' = requests
      \/ /\ s.pending # <<>>
         /\ agent' = [agent EXCEPT ![a] = [s EXCEPT !.cur = Head(s.pending), !.pending = Tail(s.pending)]]
         /\ requests' = requests \cup {Ask(a, <<"thread", Head(s.pending).id>>, "wait")}
  <2>1. [s EXCEPT !.cur = Head(s.pending), !.pending = Tail(@)] = [s EXCEPT !.cur = Head(s.pending), !.pending = Tail(s.pending)]
    BY <1>2 DEF AgentState
  <2> QED BY <1>1, <1>3, <2>1 DEF Crawl
<1>5. Spent(s, a) \in Nat
  BY <1>2, SpentIs
<1>6. Made(a) <= Spent(s, a)
  BY <1>2, <1>3 DEF CrawlCount
<1>7. CASE agent' = [agent EXCEPT ![a] = [s EXCEPT !.pc = s.then]] /\ requests' = requests
  <2>1. PICK t : t = [s EXCEPT !.pc = s.then]
    OBVIOUS
  <2>2. /\ t \in AgentState /\ t.pc \in {"gather", "loop"} /\ t.threads = s.threads /\ t.pending = s.pending
        /\ t.visited = s.visited /\ t.frontier = s.frontier /\ t.movies = s.movies
    BY <1>2, <1>3, <2>1 DEF AgentState, Pcs
  <2>3. Sound(t, a)
    BY <1>2, <2>2 DEF Sound, Within
  <2>4. Listed(t, a) /\ Spent(t, a) = Spent(s, a)
    BY <1>2, <2>2 DEF Listed, Spent, Hops
  <2>5. CrawlCount(t, a, Made(a), 0)
    BY <1>6, <2>2, <2>4 DEF CrawlCount
  <2> QED BY <1>2, <1>7, <2>1, <2>3, <2>4, <2>5, GotoKeeps
<1>8. CASE /\ s.pending # <<>>
           /\ agent' = [agent EXCEPT ![a] = [s EXCEPT !.cur = Head(s.pending), !.pending = Tail(s.pending)]]
           /\ requests' = requests \cup {Ask(a, <<"thread", Head(s.pending).id>>, "wait")}
  <2>1. PICK hd, tl : hd = Head(s.pending) /\ tl = Tail(s.pending)
    OBVIOUS
  <2>2. hd \in RedditThread /\ tl \in Seq(RedditThread) /\ Len(tl) = Len(s.pending) - 1
    BY <1>3, <1>8, <2>1, HeadTailProperties
  <2>3. PICK t : t = [s EXCEPT !.cur = hd, !.pending = tl]
    OBVIOUS
  <2>4. /\ t \in AgentState /\ t.pc = "drain" /\ t.then = s.then /\ t.threads = s.threads /\ t.pending = tl
        /\ t.cur = hd /\ t.visited = s.visited /\ t.frontier = s.frontier /\ t.movies = s.movies
    BY <1>2, <1>3, <2>2, <2>3 DEF AgentState
  <2>5. PICK m, n : m = Len(s.threads) /\ n = Len(s.pending)
    OBVIOUS
  <2>6. m \in Nat /\ n \in Nat /\ n <= m /\ Len(tl) = n - 1
    BY <1>2, <1>3, <2>2, <2>5, LenProperties DEF Sound
  <2>7. Sound(t, a)
    <3>1. Len(tl) <= m
      BY <2>6
    <3> QED BY <1>2, <1>3, <2>4, <2>5, <3>1 DEF Sound, Within
  <2>8. Listed(t, a)
    BY <1>2, <2>4 DEF Listed
  <2>9. Spent(t, a) = Spent(s, a) + 1
    <3>1. PICK p : p = Hops(s, a)
      OBVIOUS
    <3>2. Hops(t, a) = p /\ p \in Nat
      <4>1. Hops(t, a) = p
        BY <2>4, <3>1 DEF Hops
      <4>2. Cardinality(s.visited) \in Nat
        BY <1>2, FS_CardinalityType DEF Within
      <4>3. \A x, y \in Nat : x * (1 + y) \in Nat
        OBVIOUS
      <4> QED BY <1>2, <3>1, <4>1, <4>2, <4>3 DEF Hops
    <3>3. PICK q : q = Queries(a)
      OBVIOUS
    <3>4. Spent(s, a) = 3 * q + (m - n) + p /\ Spent(t, a) = 3 * q + (m - (n - 1)) + p
      BY <2>4, <2>5, <2>6, <3>1, <3>2, <3>3 DEF Spent
    <3>5. q \in Nat
      BY <1>2, <3>3
    <3> QED BY <2>6, <3>2, <3>4, <3>5
  <2>10. CrawlCount(t, a, Made(a) + 1, 1)
    BY <1>2, <1>5, <1>6, <2>4, <2>9 DEF CrawlCount
  <2>11. PICK job : job = <<"thread", hd.id>>
    OBVIOUS
  <2>12. job[1] = "thread" /\ Reddit(job)
    BY <2>11 DEF Reddit
  <2>13. CrawlJob(t, Ask(a, job, "wait"))
    BY <2>2, <2>4, <2>12 DEF CrawlJob, Ask
  <2>14. agent' = [agent EXCEPT ![a] = t] /\ requests' = requests \cup {Ask(a, job, "wait")}
    BY <1>8, <2>1, <2>3, <2>11
  <2> QED BY <1>2, <2>7, <2>8, <2>10, <2>12, <2>13, <2>14, AskKeeps
<1> QED BY <1>4, <1>7, <1>8

LEMMA CrawlLoopKeeps == ASSUME Inv, NEW a \in Agents, Crawl(a), agent[a].pc = "loop" PROVE Inv'
<1>1. PICK s : s = agent[a]
  OBVIOUS
<1>2. /\ input' = input /\ sent' = sent /\ Crawls(a) /\ (\A r \in requests : r.who # a)
      /\ s \in AgentState /\ Sound(s, a) /\ Listed(s, a) /\ Within(s, a) /\ CrawlCount(s, a, Made(a), 0)
      /\ Made(a) \in Nat /\ Queries(a) \in Nat /\ Ag(a) \in LoadedAgent
  BY <1>1, CrawlStart
<1>3. s.pc = "loop" /\ s.frontier \in Seq(Text) /\ s.visited \in SUBSET Text
  BY <1>1, <1>2 DEF AgentState
<1>4. PICK hd, tl : hd = Head(s.frontier) /\ tl = Tail(s.frontier)
  OBVIOUS
<1>5. \/ agent' = [agent EXCEPT ![a] = Drain(s, "gather")] /\ requests' = requests
      \/ /\ s.frontier # <<>>
         /\ agent' = [agent EXCEPT ![a] = [s EXCEPT !.frontier = tl, !.cur = hd]] /\ requests' = requests
      \/ /\ s.frontier # <<>> /\ hd \notin s.visited
         /\ agent' = [agent EXCEPT ![a] = [s EXCEPT !.frontier = tl, !.cur = hd, !.visited = s.visited \cup {hd}]]
         /\ requests' = requests \cup {Ask(a, <<"hot", hd>>, "wait")}
  <2>1. PICK u : u = [s EXCEPT !.frontier = Tail(s.frontier), !.cur = Head(s.frontier)]
    OBVIOUS
  <2>2. [s EXCEPT !.frontier = Tail(@), !.cur = Head(s.frontier)] = u
    BY <1>2, <2>1 DEF AgentState
  <2>3. [u EXCEPT !.visited = @ \cup {hd}] = [s EXCEPT !.frontier = tl, !.cur = hd, !.visited = s.visited \cup {hd}]
    BY <1>2, <1>4, <2>1 DEF AgentState
  <2>4. \/ agent' = [agent EXCEPT ![a] = Drain(s, "gather")] /\ requests' = requests
        \/ /\ s.frontier # <<>> /\ agent' = [agent EXCEPT ![a] = u] /\ requests' = requests
        \/ /\ s.frontier # <<>> /\ hd \notin s.visited /\ agent' = [agent EXCEPT ![a] = [u EXCEPT !.visited = @ \cup {hd}]]
           /\ requests' = requests \cup {Ask(a, <<"hot", hd>>, "wait")}
    BY <1>1, <1>3, <1>4, <2>2 DEF Crawl
  <2> QED BY <1>4, <2>1, <2>3, <2>4
<1>6. Spent(s, a) \in Nat /\ Made(a) <= Spent(s, a)
  BY <1>2, <1>3, SpentIs DEF CrawlCount
<1>7. ASSUME s.frontier # <<>>
      PROVE  /\ hd \in Text /\ tl \in Seq(Text) /\ Len(tl) \in Nat /\ Len(s.frontier) = Len(tl) + 1
  <2>1. hd \in Text /\ tl \in Seq(Text) /\ Len(tl) = Len(s.frontier) - 1
    BY <1>3, <1>4, <1>7, HeadTailProperties
  <2>2. Len(tl) \in Nat /\ Len(s.frontier) \in Nat
    BY <1>3, <2>1, LenProperties
  <2> QED BY <2>1, <2>2
<1>8. CASE agent' = [agent EXCEPT ![a] = Drain(s, "gather")] /\ requests' = requests
  <2>1. PICK t : t = Drain(s, "gather")
    OBVIOUS
  <2>2. Sound(t, a) /\ Listed(t, a) /\ t.pc = "drain" /\ Spent(t, a) = Spent(s, a)
    BY <1>2, <1>3, <2>1, DrainIsSound
  <2>3. CrawlCount(t, a, Made(a), 0)
    BY <1>6, <2>2 DEF CrawlCount
  <2> QED BY <1>2, <1>8, <2>1, <2>2, <2>3, GotoKeeps
<1>9. CASE /\ s.frontier # <<>>
           /\ agent' = [agent EXCEPT ![a] = [s EXCEPT !.frontier = tl, !.cur = hd]] /\ requests' = requests
  <2>1. PICK t : t = [s EXCEPT !.frontier = tl, !.cur = hd]
    OBVIOUS
  <2>2. hd \in Text /\ tl \in Seq(Text) /\ Len(tl) \in Nat /\ Len(s.frontier) = Len(tl) + 1
    BY <1>7, <1>9
  <2>3. /\ t \in AgentState /\ t.pc = "loop" /\ t.threads = s.threads /\ t.pending = s.pending
        /\ t.visited = s.visited /\ t.frontier = tl /\ t.movies = s.movies
    BY <1>2, <1>3, <2>1, <2>2 DEF AgentState
  <2>4. Within(t, a)
    <3>1. Cardinality(s.visited) \in Nat /\ Ag(a).maxSubs \in Nat
      BY <1>2, FS_CardinalityType DEF Within, LoadedAgent
    <3>2. Cardinality(s.visited) + Len(tl) <= Ag(a).maxSubs
      BY <1>2, <2>2, <3>1 DEF Within
    <3> QED BY <1>2, <2>3, <3>2 DEF Within
  <2>5. Sound(t, a)
    BY <1>2, <2>3, <2>4 DEF Sound
  <2>6. Listed(t, a) /\ Spent(t, a) = Spent(s, a)
    BY <1>2, <2>3 DEF Listed, Spent, Hops
  <2>7. CrawlCount(t, a, Made(a), 0)
    BY <1>6, <2>3, <2>6 DEF CrawlCount
  <2> QED BY <1>2, <1>9, <2>1, <2>5, <2>6, <2>7, GotoKeeps
<1>10. CASE /\ s.frontier # <<>> /\ hd \notin s.visited
            /\ agent' = [agent EXCEPT ![a] = [s EXCEPT !.frontier = tl, !.cur = hd, !.visited = s.visited \cup {hd}]]
            /\ requests' = requests \cup {Ask(a, <<"hot", hd>>, "wait")}
  <2>1. PICK v : v = s.visited \cup {hd}
    OBVIOUS
  <2>2. PICK t : t = [s EXCEPT !.frontier = tl, !.cur = hd, !.visited = v]
    OBVIOUS
  <2>3. hd \in Text /\ tl \in Seq(Text) /\ Len(tl) \in Nat /\ Len(s.frontier) = Len(tl) + 1
    BY <1>7, <1>10
  <2>4. v \in SUBSET Text
    BY <1>3, <2>1, <2>3
  <2>5. /\ t \in AgentState /\ t.pc = "loop" /\ t.threads = s.threads /\ t.pending = s.pending /\ t.cur = hd
        /\ t.visited = v /\ t.frontier = tl /\ t.movies = s.movies
    BY <1>2, <1>3, <2>2, <2>3, <2>4 DEF AgentState
  <2>6. PICK c : c = Cardinality(s.visited)
    OBVIOUS
  <2>7. IsFiniteSet(v) /\ Cardinality(v) = c + 1 /\ c \in Nat
    BY <1>2, <1>10, <2>1, <2>6, FS_AddElement, FS_CardinalityType DEF Within
  <2>8. Within(t, a)
    <3>1. Ag(a).maxSubs \in Nat /\ c + Len(s.frontier) <= Ag(a).maxSubs
      BY <1>2, <2>6 DEF Within, LoadedAgent
    <3>2. Cardinality(v) + Len(tl) <= Ag(a).maxSubs
      BY <2>3, <2>7, <3>1
    <3> QED BY <1>2, <2>5, <2>7, <3>2 DEF Within
  <2>9. Sound(t, a)
    BY <1>2, <2>5, <2>8 DEF Sound
  <2>10. Listed(t, a)
    BY <1>2, <2>5 DEF Listed
  <2>11. Spent(t, a) = Spent(s, a) + 1 + Queries(a)
    <3>1. PICK q : q = Queries(a)
      OBVIOUS
    <3>2. q \in Nat
      BY <1>2, <3>1
    <3>3. \A x, y \in Nat : (x + 1) * (1 + y) = x * (1 + y) + 1 + y /\ x * (1 + y) \in Nat
      OBVIOUS
    <3>4. Hops(s, a) = c * (1 + q) /\ Hops(t, a) = (c + 1) * (1 + q)
      BY <2>5, <2>6, <2>7, <3>1 DEF Hops
    <3>5. Hops(t, a) = Hops(s, a) + 1 + q /\ Hops(s, a) \in Nat
      BY <2>7, <3>2, <3>3, <3>4
    <3>6. PICK d : d = Len(s.threads) - Len(s.pending)
      OBVIOUS
    <3>7. d \in Int
      <4>1. s.threads \in Seq(RedditThread) /\ s.pending \in Seq(RedditThread)
        BY <1>2 DEF AgentState
      <4>2. Len(s.threads) \in Nat /\ Len(s.pending) \in Nat
        BY <4>1, LenProperties
      <4> QED BY <3>6, <4>2
    <3>8. PICK h : h = Hops(s, a)
      OBVIOUS
    <3>9. Spent(s, a) = 3 * q + d + h /\ Spent(t, a) = 3 * q + d + (h + 1 + q)
      BY <2>5, <3>1, <3>5, <3>6, <3>8 DEF Spent
    <3> QED BY <3>1, <3>2, <3>5, <3>7, <3>8, <3>9
  <2>12. CrawlCount(t, a, Made(a) + 1, 1)
    <3>1. Made(a) + 1 <= Spent(t, a) - Queries(a) /\ Made(a) + 1 <= Spent(t, a)
      BY <1>2, <1>6, <2>11
    <3> QED BY <2>5, <3>1 DEF CrawlCount
  <2>13. PICK job : job = <<"hot", hd>>
    OBVIOUS
  <2>14. job[1] = "hot" /\ Reddit(job)
    BY <2>13 DEF Reddit
  <2>15. CrawlJob(t, Ask(a, job, "wait"))
    BY <2>3, <2>5, <2>14 DEF CrawlJob, Ask
  <2>16. agent' = [agent EXCEPT ![a] = t] /\ requests' = requests \cup {Ask(a, job, "wait")}
    BY <1>10, <2>1, <2>2, <2>13
  <2> QED BY <1>2, <2>9, <2>10, <2>12, <2>14, <2>15, <2>16, AskKeeps
<1> QED BY <1>5, <1>8, <1>9, <1>10

LEMMA CrawlKeeps == ASSUME Inv, NEW a \in Agents, Crawl(a) PROVE Inv'
<1>1. agent[a].pc \in {"subs", "all", "drain", "loop", "sub"}
  BY DEF Crawl
<1> QED BY <1>1, CrawlSubsKeeps, CrawlAllKeeps, CrawlDrainKeeps, CrawlLoopKeeps, CrawlSubKeeps

----------------------------------------------------------------------------
(* Counting.                                                                *)
LEMMA SwapCounts ==
  ASSUME NEW S, IsFiniteSet(S), NEW r \in S, NEW q
  PROVE  /\ IsFiniteSet((S \ {r}) \cup {q}) /\ Cardinality((S \ {r}) \cup {q}) <= Cardinality(S)
         /\ Cardinality((S \ {r}) \cup {q}) \in Nat /\ Cardinality(S) \in Nat
<1>1. PICK U : U = S \ {r}
  OBVIOUS
<1>2. IsFiniteSet(U) /\ Cardinality(U) = Cardinality(S) - 1
  BY <1>1, FS_RemoveElement
<1>3. /\ IsFiniteSet(U \cup {q})
      /\ (Cardinality(U \cup {q}) = Cardinality(U) \/ Cardinality(U \cup {q}) = Cardinality(U) + 1)
  BY <1>2, FS_AddElement
<1>4. Cardinality(U) \in Nat /\ Cardinality(U \cup {q}) \in Nat /\ Cardinality(S) \in Nat
  BY <1>2, <1>3, FS_CardinalityType
<1> QED BY <1>1, <1>2, <1>3, <1>4

LEMMA AtMostAsMany ==
  ASSUME NEW S, IsFiniteSet(S), NEW T, NEW f \in [S -> T], \A y \in T : \E x \in S : f[x] = y
  PROVE  IsFiniteSet(T) /\ Cardinality(T) <= Cardinality(S)
<1>1. f \in Surjection(S, T)
  BY DEF Surjection
<1> QED BY <1>1, FS_Surjection

----------------------------------------------------------------------------
(* The goroutine of a request: it waits for a slot, and takes it.           *)
LEMMA BeginKeeps == ASSUME Inv, NEW r \in requests, Begin(r) PROVE Inv'
<1>1. PICK a, q : a = r.who /\ q = [r EXCEPT !.at = "wait"]
  OBVIOUS
<1>2. /\ input' = input /\ agent' = agent /\ sent' = sent /\ r.at = "new"
      /\ requests' = (requests \ {r}) \cup {q}
  BY <1>1 DEF Begin
<1>3. Request(r) /\ Fits(agent[a], r, a) /\ a \in Agents /\ IsFiniteSet(requests)
  BY <1>1 DEF Inv, Request
<1>4. q.who = a /\ q.job = r.job /\ q.at = "wait" /\ Request(q)
  BY <1>1, <1>3 DEF Request
<1>5. PICK t : t = agent[a]
  OBVIOUS
<1>6. agent' = [agent EXCEPT ![a] = t] /\ Sound(t, a) /\ Listed(t, a) /\ agent'[a] = t
  BY <1>2, <1>3, <1>5 DEF Inv
<1>7. ~Reddit(r.job) \/ ~Crawls(a)
  BY <1>2, <1>3 DEF Fits, CrawlJob
<1>8. ASSUME NEW p \in requests' PROVE IF p.who = a THEN Request(p) /\ Fits(t, p, a) ELSE p \in requests
  <2>1. CASE p = q
    BY <1>3, <1>4, <1>5, <1>7, <2>1 DEF Fits, FixedJob, PlotJob
  <2>2. CASE p # q
    BY <1>2, <1>5, <2>2 DEF Inv
  <2> QED BY <2>1, <2>2
<1>9. IsFiniteSet(requests')
  BY <1>2, <1>3, FS_RemoveElement, FS_AddElement
<1>10. \A p \in requests : p.who # a => p \in requests'
  BY <1>1, <1>2
<1>11. sent' \in [Agents -> Nat]
  BY <1>2 DEF Inv
<1>12. Counted(a)'
  <2>1. CASE ~Reddit(r.job)
    <3>1. Reqs(a)' = Reqs(a)
      BY <1>1, <1>2, <1>4, <2>1 DEF Reqs
    <3>2. Made(a)' = Made(a) /\ Busy(a)' = Busy(a)
      BY <1>2, <3>1 DEF Made, Busy, Unsent
    <3>3. Counted(a)
      BY <1>3 DEF Inv
    <3> QED BY <1>2, <3>1, <3>2, <3>3, SameSettings DEF Counted
  <2>2. CASE Reddit(r.job)
    <3>1. Reqs(a)' = (Reqs(a) \ {r}) \cup {q} /\ r \in Reqs(a)
      BY <1>1, <1>2, <1>4, <2>2 DEF Reqs
    <3>2. Unsent(a)' = (Unsent(a) \ {r}) \cup {q} /\ r \in Unsent(a)
      BY <1>2, <1>4, <3>1 DEF Unsent
    <3>3. IsFiniteSet(Reqs(a)) /\ IsFiniteSet(Unsent(a))
      BY <1>3, FS_Subset DEF Reqs, Unsent
    <3>4. PICK m, n, k, l : /\ m = Cardinality(Reqs(a)) /\ n = Cardinality(Reqs(a))'
                            /\ k = Made(a) /\ l = Made(a)'
      OBVIOUS
    <3>5. n <= m /\ l <= k /\ m \in Nat /\ n \in Nat /\ k \in Nat /\ l \in Nat
      <4>1. n <= m /\ m \in Nat /\ n \in Nat
        BY <3>1, <3>3, <3>4, SwapCounts
      <4>2. Cardinality(Unsent(a))' <= Cardinality(Unsent(a)) /\ Cardinality(Unsent(a)) \in Nat /\ Cardinality(Unsent(a))' \in Nat
        BY <3>2, <3>3, SwapCounts
      <4>3. sent[a] \in Nat /\ sent'[a] = sent[a]
        BY <1>2, <1>3 DEF Inv
      <4> QED BY <3>4, <4>1, <4>2, <4>3 DEF Made
    <3>6. ~Crawls(a)
      BY <1>7, <2>2
    <3>7. FixedCount(t, a, k, m)
      BY <1>3, <1>5, <3>4, <3>6 DEF Inv, Counted
    <3>8. FixedCount(t, a, l, n)
      <4>1. Pairs(a) \in Nat
        BY <1>3, QueriesIsNat DEF Inv, Configured
      <4>2. Len(t.threads) \in Nat
        BY <1>6, LenProperties DEF Sound, AgentState
      <4> QED BY <3>5, <3>7, <4>1, <4>2 DEF FixedCount
    <3> QED BY <1>2, <1>6, <3>4, <3>6, <3>8, SameSettings DEF Counted
  <2> QED BY <2>1, <2>2
<1>13. OneRequest(a)'
  <2>1. CASE Crawls(a)
    <3>1. Reqs(a)' = Reqs(a)
      BY <1>1, <1>2, <1>4, <1>7, <2>1 DEF Reqs
    <3> QED BY <1>2, <1>3, <3>1, SameSettings DEF Inv, OneRequest
  <2>2. CASE ~Crawls(a)
    BY <1>2, <2>2, SameSettings DEF OneRequest
  <2> QED BY <2>1, <2>2
<1> QED BY <1>2, <1>3, <1>6, <1>8, <1>9, <1>10, <1>11, <1>12, <1>13, StepKeeps

LEMMA TakeSlotKeeps == ASSUME Inv, NEW r \in requests, TakeSlot(r) PROVE Inv'
<1>1. PICK a, q : a = r.who /\ q = [r EXCEPT !.at = "fly"]
  OBVIOUS
<1>2. /\ input' = input /\ agent' = agent /\ r.at = "wait" /\ requests' = (requests \ {r}) \cup {q}
      /\ sent' = IF Reddit(r.job) THEN [sent EXCEPT ![a] = @ + 1] ELSE sent
  BY <1>1 DEF TakeSlot
<1>3. Request(r) /\ Fits(agent[a], r, a) /\ a \in Agents /\ IsFiniteSet(requests)
  BY <1>1 DEF Inv, Request
<1>4. q.who = a /\ q.job = r.job /\ q.at = "fly" /\ Request(q)
  BY <1>1, <1>3 DEF Request
<1>5. PICK t : t = agent[a]
  OBVIOUS
<1>6. agent' = [agent EXCEPT ![a] = t] /\ Sound(t, a) /\ Listed(t, a) /\ agent'[a] = t
  BY <1>2, <1>3, <1>5 DEF Inv
<1>7. ASSUME NEW p \in requests' PROVE IF p.who = a THEN Request(p) /\ Fits(t, p, a) ELSE p \in requests
  <2>1. CASE p = q
    BY <1>3, <1>4, <1>5, <2>1 DEF Fits, FixedJob, PlotJob, CrawlJob
  <2>2. CASE p # q
    BY <1>2, <1>5, <2>2 DEF Inv
  <2> QED BY <2>1, <2>2
<1>8. IsFiniteSet(requests')
  BY <1>2, <1>3, FS_RemoveElement, FS_AddElement
<1>9. \A p \in requests : p.who # a => p \in requests'
  BY <1>1, <1>2
<1>10. sent' \in [Agents -> Nat] /\ \A b \in Agents : b # a => sent'[b] = sent[b]
  BY <1>2, <1>3 DEF Inv
<1>11. OneRequest(a) /\ Counted(a)
  BY <1>3 DEF Inv
<1>12. CASE ~Reddit(r.job)
  <2>1. Reqs(a)' = Reqs(a) /\ sent' = sent
    BY <1>1, <1>2, <1>4, <1>12 DEF Reqs
  <2>2. Crawls(a) => CrawlCount(t, a, Made(a), Busy(a))
    BY <1>5, <1>11 DEF Counted
  <2>3. ~Crawls(a) => FixedCount(t, a, Made(a), Cardinality(Reqs(a)))
    BY <1>5, <1>11 DEF Counted
  <2> QED BY <1>2, <1>3, <1>6, <1>7, <1>8, <1>9, <2>1, <2>2, <2>3, SearchUnchanged
<1>13. CASE Reddit(r.job)
  <2>1. Reqs(a)' = (Reqs(a) \ {r}) \cup {q} /\ r \in Reqs(a)
    BY <1>1, <1>2, <1>4, <1>13 DEF Reqs
  <2>2. Unsent(a)' = Unsent(a) \ {r} /\ r \in Unsent(a)
    BY <1>2, <1>4, <2>1 DEF Unsent
  <2>3. IsFiniteSet(Reqs(a)) /\ IsFiniteSet(Unsent(a))
    BY <1>3, FS_Subset DEF Reqs, Unsent
  <2>4. Made(a)' = Made(a)
    <3>1. sent[a] \in Nat /\ sent'[a] = sent[a] + 1
      BY <1>2, <1>3, <1>13 DEF Inv
    <3>2. Cardinality(Unsent(a))' = Cardinality(Unsent(a)) - 1 /\ Cardinality(Unsent(a)) \in Nat
      BY <2>2, <2>3, FS_RemoveElement, FS_CardinalityType
    <3> QED BY <3>1, <3>2 DEF Made
  <2>5. Busy(a)' = Busy(a)
    BY <2>1 DEF Busy
  <2>6. OneRequest(a)'
    BY <1>2, <1>11, <2>1, SameSettings DEF OneRequest
  <2>7. CASE Crawls(a)
    <3>1. Counted(a)'
      BY <1>2, <1>5, <1>6, <1>11, <2>4, <2>5, <2>7, SameSettings DEF Counted
    <3> QED BY <1>2, <1>3, <1>6, <1>7, <1>8, <1>9, <1>10, <2>6, <3>1, StepKeeps
  <2>8. CASE ~Crawls(a)
    <3>1. PICK m, n, k : m = Cardinality(Reqs(a)) /\ n = Cardinality(Reqs(a))' /\ k = Made(a)
      OBVIOUS
    <3>2. n <= m /\ m \in Nat /\ n \in Nat
      BY <2>1, <2>3, <3>1, SwapCounts
    <3>3. FixedCount(t, a, k, m)
      BY <1>5, <1>11, <2>8, <3>1 DEF Counted
    <3>4. FixedCount(t, a, k, n)
      <4>1. Pairs(a) \in Nat
        BY <1>3, QueriesIsNat DEF Inv, Configured
      <4>2. Len(t.threads) \in Nat
        BY <1>6, LenProperties DEF Sound, AgentState
      <4> QED BY <3>2, <3>3, <4>1, <4>2 DEF FixedCount
    <3>5. Counted(a)'
      BY <1>2, <1>6, <2>4, <2>8, <3>1, <3>4, SameSettings DEF Counted
    <3> QED BY <1>2, <1>3, <1>6, <1>7, <1>8, <1>9, <1>10, <2>6, <3>5, StepKeeps
  <2> QED BY <2>7, <2>8
<1> QED BY <1>12, <1>13

----------------------------------------------------------------------------
(* The fixed search: its requests are started together.                     *)
LEMMA LaunchKeeps ==
  ASSUME Inv, input' = input, sent' = sent, NEW a \in Agents, ~Crawls(a), Reqs(a) = {},
         NEW Q, IsFiniteSet(Q), requests' = requests \cup Q,
         NEW t, agent' = [agent EXCEPT ![a] = t], Sound(t, a), Listed(t, a),
         \A q \in Q : q.who = a /\ Reddit(q.job) /\ Request(q) /\ FixedJob(t, q),
         FixedCount(t, a, Made(a) + Cardinality(Q), Cardinality(Q))
  PROVE  Inv'
<1>1. Reqs(a)' = Q
  BY DEF Reqs
<1>2. PICK U : U = {q \in Q : q.at # "fly"}
  OBVIOUS
<1>3. Unsent(a) = {} /\ Unsent(a)' = U
  BY <1>1, <1>2 DEF Unsent
<1>4. PICK m, n, k : m = Cardinality(Q) /\ n = Cardinality(U) /\ k = sent[a]
  OBVIOUS
<1>5. m \in Nat /\ n \in Nat /\ n <= m /\ k \in Nat
  <2>1. IsFiniteSet(U) /\ Cardinality(U) <= Cardinality(Q)
    BY <1>2, FS_Subset
  <2> QED BY <1>4, <2>1, FS_CardinalityType DEF Inv
<1>6. Made(a) = k /\ Made(a)' = k + n
  <2>1. Cardinality(Unsent(a)) = 0
    BY <1>3, FS_EmptySet
  <2> QED BY <1>3, <1>4, <1>5, <2>1 DEF Made
<1>7. FixedCount(t, a, k + m, m)
  BY <1>4, <1>6
<1>8. FixedCount(t, a, k + n, m)
  <2>1. Pairs(a) \in Nat
    BY QueriesIsNat DEF Inv, Configured
  <2> QED BY <1>5, <1>7, <2>1 DEF FixedCount
<1>9. agent'[a] = t /\ sent' \in [Agents -> Nat] /\ \A b \in Agents : b # a => sent'[b] = sent[b]
  BY DEF Inv
<1>10. Counted(a)'
  BY <1>1, <1>4, <1>6, <1>8, <1>9, SameSettings DEF Counted
<1>11. OneRequest(a)'
  BY SameSettings DEF OneRequest
<1>12. IsFiniteSet(requests')
  BY FS_Union DEF Inv
<1>13. ASSUME NEW r \in requests' PROVE IF r.who = a THEN Request(r) /\ Fits(t, r, a) ELSE r \in requests
  <2>1. CASE r \in Q
    BY <2>1 DEF Fits
  <2>2. CASE r \notin Q
    <3>1. r \in requests
      BY <2>2
    <3>2. CASE r.who = a
      <4>1. ~Reddit(r.job) /\ Request(r) /\ Fits(agent[a], r, a)
        BY <3>1, <3>2 DEF Reqs, Inv
      <4> QED BY <3>2, <4>1 DEF Fits
    <3> QED BY <3>1, <3>2
  <2> QED BY <2>1, <2>2
<1>14. \A r \in requests : r.who # a => r \in requests'
  OBVIOUS
<1> QED BY <1>9, <1>10, <1>11, <1>12, <1>13, <1>14, StepKeeps

LEMMA ReadThreadsKeeps == ASSUME Inv, NEW a \in Agents, ReadThreads(a) PROVE Inv'
<1>1. PICK s : s = agent[a]
  OBVIOUS
<1>2. /\ input' = input /\ sent' = sent /\ s.pc = "searching" /\ (\A r \in requests : r.who # a)
  BY <1>1 DEF ReadThreads
<1>3. Sound(s, a) /\ Listed(s, a) /\ Counted(a) /\ s \in AgentState /\ s.threads \in Seq(RedditThread)
  BY <1>1 DEF Inv, Sound, AgentState
<1>4. ~Crawls(a) /\ Reqs(a) = {} /\ Pairs(a) \in Nat
  BY <1>2, <1>3, QueriesIsNat DEF Sound, Reqs, Inv, Configured
<1>5. PICK th, n, k : th = s.threads /\ n = Len(s.threads) /\ k = Made(a)
  OBVIOUS
<1>6. n \in Nat /\ k \in Nat /\ k <= Pairs(a) /\ n <= Pairs(a) /\ DOMAIN th = 1..n /\ \A j \in 1..n : th[j] \in RedditThread
  <2>1. n \in Nat /\ DOMAIN th = 1..n /\ \A j \in 1..n : th[j] \in RedditThread
    BY <1>3, <1>5, LenProperties, ElementOfSeq
  <2>2. Cardinality(Reqs(a)) = 0 /\ Cardinality(Unsent(a)) = 0
    <3>1. Unsent(a) = {}
      BY <1>4 DEF Unsent
    <3> QED BY <1>4, <3>1, FS_EmptySet
  <2>3. sent[a] \in Nat
    BY DEF Inv
  <2>4. k \in Nat
    BY <1>5, <2>2, <2>3 DEF Made
  <2>5. FixedCount(s, a, k, 0)
    BY <1>1, <1>3, <1>4, <1>5, <2>2 DEF Counted
  <2>6. k <= Pairs(a) /\ n + 0 <= Pairs(a)
    BY <1>2, <1>5, <2>5 DEF FixedCount
  <2> QED BY <1>4, <2>1, <2>4, <2>6
<1>7. PICK Q : Q = {Ask(a, <<"thread", th[j].id, th[j]>>, "new") : j \in 1..n}
  OBVIOUS
<1>8. \/ agent' = [agent EXCEPT ![a] = [s EXCEPT !.pc = "reading"]] /\ requests' = requests \cup Q
      \/ agent' = [agent EXCEPT ![a] = [s EXCEPT !.pc = "gather"]] /\ requests' = requests \cup {}
  BY <1>1, <1>5, <1>6, <1>7 DEF ReadThreads
<1>9. IsFiniteSet(Q) /\ Cardinality(Q) \in Nat /\ Cardinality(Q) <= n
  <2>1. PICK f : f = [j \in 1..n |-> Ask(a, <<"thread", th[j].id, th[j]>>, "new")]
    OBVIOUS
  <2>2. f \in [1..n -> Q] /\ \A y \in Q : \E x \in 1..n : f[x] = y
    BY <1>7, <2>1
  <2>3. IsFiniteSet(1..n) /\ Cardinality(1..n) = n
    BY <1>6, FS_Interval
  <2> QED BY <2>2, <2>3, AtMostAsMany, FS_CardinalityType
<1>10. CASE agent' = [agent EXCEPT ![a] = [s EXCEPT !.pc = "reading"]] /\ requests' = requests \cup Q
  <2>1. PICK t : t = [s EXCEPT !.pc = "reading"]
    OBVIOUS
  <2>2. /\ t \in AgentState /\ t.pc = "reading" /\ t.threads = s.threads /\ t.pending = s.pending
        /\ t.visited = s.visited /\ t.frontier = s.frontier /\ t.movies = s.movies
    BY <1>3, <2>1 DEF AgentState, Pcs
  <2>3. Sound(t, a) /\ Listed(t, a)
    BY <1>3, <1>4, <2>2 DEF Sound, Listed
  <2>4. ASSUME NEW q \in Q PROVE q.who = a /\ Reddit(q.job) /\ Request(q) /\ FixedJob(t, q)
    <3>1. PICK j \in 1..n : q = Ask(a, <<"thread", th[j].id, th[j]>>, "new")
      BY <1>7
    <3>2. PICK job : job = <<"thread", th[j].id, th[j]>>
      OBVIOUS
    <3>3. job[1] = "thread" /\ job[3] = th[j] /\ job[3] \in RedditThread
      BY <1>6, <3>2
    <3>4. q = [who |-> a, job |-> job, at |-> "new"]
      BY <3>1, <3>2 DEF Ask
    <3> QED BY <2>2, <3>3, <3>4 DEF Reddit, Request, FixedJob
  <2>5. FixedCount(t, a, k + Cardinality(Q), Cardinality(Q))
    BY <1>4, <1>6, <1>9, <2>2 DEF FixedCount
  <2> QED BY <1>2, <1>4, <1>5, <1>9, <1>10, <2>1, <2>3, <2>4, <2>5, LaunchKeeps
<1>11. CASE agent' = [agent EXCEPT ![a] = [s EXCEPT !.pc = "gather"]] /\ requests' = requests \cup {}
  <2>1. PICK t : t = [s EXCEPT !.pc = "gather"]
    OBVIOUS
  <2>2. /\ t \in AgentState /\ t.pc = "gather" /\ t.threads = s.threads /\ t.pending = s.pending
        /\ t.visited = s.visited /\ t.frontier = s.frontier /\ t.movies = s.movies
    BY <1>3, <2>1 DEF AgentState, Pcs
  <2>3. Sound(t, a) /\ Listed(t, a)
    BY <1>3, <1>4, <2>2 DEF Sound, Listed
  <2>4. IsFiniteSet({}) /\ Cardinality({}) = 0
    BY FS_EmptySet
  <2>5. FixedCount(t, a, k + Cardinality({}), Cardinality({}))
    BY <1>4, <1>6, <2>2, <2>4 DEF FixedCount
  <2> QED BY <1>2, <1>4, <1>5, <1>11, <2>1, <2>3, <2>4, <2>5, LaunchKeeps
<1> QED BY <1>8, <1>10, <1>11

----------------------------------------------------------------------------
(* The start of an agent.                                                   *)
LEMMA IdleHasNone ==
  ASSUME Inv, NEW a \in Agents, agent[a].pc = "idle"
  PROVE  /\ agent[a] = Idle /\ Reqs(a) = {} /\ Made(a) = 0 /\ Busy(a) = 0 /\ Cardinality(Reqs(a)) = 0
         /\ Ag(a) \in LoadedAgent /\ Queries(a) \in Nat /\ Pairs(a) \in Nat
<1>1. agent[a] = Idle /\ Counted(a)
  BY DEF Inv, Sound
<1>2. Reqs(a) = {}
  BY DEF Inv, Reqs, Fits, CrawlJob, FixedJob
<1>3. Made(a) = 0
  BY <1>1 DEF Counted, CrawlCount, FixedCount
<1>4. Ag(a) \in LoadedAgent /\ Queries(a) \in Nat /\ Pairs(a) \in Nat
  BY QueriesIsNat DEF Inv, Configured
<1> QED BY <1>1, <1>2, <1>3, <1>4, FS_EmptySet DEF Busy

LEMMA LeavesIdle ==
  ASSUME Inv, input' = input, sent' = sent, requests' = requests, NEW a \in Agents, agent[a].pc = "idle",
         NEW t, agent' = [agent EXCEPT ![a] = t], Sound(t, a), Listed(t, a),
         Crawls(a) => CrawlCount(t, a, 0, 0), ~Crawls(a) => FixedCount(t, a, 0, 0)
  PROVE  Inv'
<1>1. Reqs(a) = {} /\ Made(a) = 0 /\ Busy(a) = 0 /\ Cardinality(Reqs(a)) = 0
  BY IdleHasNone
<1>2. Reqs(a)' = Reqs(a) /\ IsFiniteSet(requests)
  BY DEF Reqs, Inv
<1>3. ASSUME NEW r \in requests', r.who = a PROVE Request(r) /\ Fits(t, r, a)
  <2>1. Request(r) /\ Fits(agent[a], r, a) /\ ~Reddit(r.job)
    BY <1>1, <1>3 DEF Inv, Reqs
  <2> QED BY <2>1 DEF Fits
<1>4. \A r \in requests' : IF r.who = a THEN Request(r) /\ Fits(t, r, a) ELSE r \in requests
  BY <1>3
<1>5. \A r \in requests : r.who # a => r \in requests'
  OBVIOUS
<1> QED BY <1>1, <1>2, <1>4, <1>5, SearchUnchanged

\* Offline, an agent reports its first picks.
LEMMA OfflineIsListed ==
  ASSUME NEW a \in Agents, Ag(a) \in LoadedAgent,
         NEW ms, ms = [k \in DOMAIN Offline(a) |-> FromPick(Offline(a)[k], "curated")]
  PROVE  ms \in Seq(Movie) /\ Len(ms) <= Ag(a).limit /\ (KeysDiffer(Ag(a).picks) => KeysDiffer(ms))
<1>1. PICK ps, l : ps = Ag(a).picks /\ l = Ag(a).limit
  OBVIOUS
<1>2. ps \in Seq(Pick) /\ l \in Nat
  BY <1>1 DEF LoadedAgent, Agent
<1>3. PICK n : n = IF Len(ps) < l THEN Len(ps) ELSE l
  OBVIOUS
<1>4. n \in Nat /\ n \in 0..Len(ps) /\ n <= l /\ DOMAIN ps = 1..Len(ps) /\ Len(ps) \in Nat
  BY <1>2, <1>3, LenProperties
<1>5. PICK f : f = SubSeq(ps, 1, n)
  OBVIOUS
<1>6. f \in Seq(Pick) /\ Len(f) = n /\ \A k \in 1..n : f[k] = ps[k]
  BY <1>2, <1>4, <1>5, CutIsTyped
<1>7. DOMAIN f = 1..n
  BY <1>6, LenProperties
<1>8. Offline(a) = f
  BY <1>1, <1>3, <1>5 DEF Offline
<1>9. ms = [k \in 1..n |-> FromPick(ps[k], "curated")]
  BY <1>6, <1>7, <1>8
<1>10. ms \in Seq(Movie)
  <2>1. "curated" \in Source
    BY DEF Source
  <2> QED BY <1>2, <1>4, <1>9, <2>1, PicksAreMovies
<1>11. Len(ms) = n /\ DOMAIN ms = 1..n
  BY <1>4, <1>9, <1>10, LenProperties
<1>12. ASSUME KeysDiffer(ps) PROVE KeysDiffer(ms)
  <2>1. ASSUME NEW k \in 1..n PROVE KeyOf(ms[k]) = KeyOf(ps[k]) /\ k \in DOMAIN ps
    BY <1>4, <1>9 DEF KeyOf, FromPick
  <2> QED BY <1>11, <1>12, <2>1 DEF KeysDiffer
<1> QED BY <1>1, <1>4, <1>10, <1>11, <1>12

\* An agent that makes no request at all.
LEMMA SkipsSearch ==
  ASSUME Inv, input' = input, sent' = sent, requests' = requests, NEW a \in Agents, agent[a].pc = "idle",
         NEW t \in AgentState, agent' = [agent EXCEPT ![a] = t], Listed(t, a), t.pc \in {"gather", "ready"},
         t.threads = <<>>, t.pending = <<>>, t.visited = {}, t.frontier = <<>>
  PROVE  Inv'
<1>1. /\ agent[a] = Idle /\ Ag(a) \in LoadedAgent /\ Queries(a) \in Nat /\ Pairs(a) \in Nat
      /\ Idle.visited = {} /\ Idle.frontier = <<>> /\ Idle.threads = <<>> /\ Idle.pending = <<>>
  BY IdleHasNone DEF Idle
<1>2. Sound(Idle, a)
  BY <1>1, InitSound
<1>3. Sound(t, a)
  BY <1>1, <1>2 DEF Sound, Within
<1>4. Crawls(a) => CrawlCount(t, a, 0, 0)
  <2>1. Crawls(a) => Spent(t, a) \in Nat
    BY <1>1, <1>3, SpentIs
  <2> QED BY <2>1 DEF CrawlCount
<1>5. ~Crawls(a) => FixedCount(t, a, 0, 0)
  BY <1>1 DEF FixedCount
<1> QED BY <1>3, <1>4, <1>5, LeavesIdle

\* The pairs of a subreddit and a query are no more than there are of both.
LEMMA TasksAreFew ==
  ASSUME NEW a \in Agents, Ag(a) \in LoadedAgent,
         NEW Q, Q = {Ask(a, <<"search", p[1], p[2]>>, "new") : p \in Range(Ag(a).subs) \X Range(Ag(a).queries)}
  PROVE  /\ IsFiniteSet(Q) /\ Cardinality(Q) \in Nat /\ Cardinality(Q) <= Pairs(a)
         /\ \A r \in Q : \E sub \in Text, q \in Query : r = Ask(a, <<"search", sub, q>>, "new")
<1>1. PICK u, v : u = Ag(a).subs /\ v = Ag(a).queries
  OBVIOUS
<1>2. u \in Seq(Text) /\ v \in Seq(Query)
  BY <1>1 DEF LoadedAgent, Agent
<1>3. PICK m, n : m = Len(v) /\ n = Len(u)
  OBVIOUS
<1>4. /\ m \in Nat /\ n \in Nat /\ DOMAIN u = 1..n /\ DOMAIN v = 1..m
      /\ (\A k \in 1..n : u[k] \in Text) /\ (\A k \in 1..m : v[k] \in Query)
  BY <1>2, <1>3, LenProperties, ElementOfSeq
<1>5. PICK X : X = Range(Ag(a).subs) \X Range(Ag(a).queries)
  OBVIOUS
<1>6. /\ Q = {Ask(a, <<"search", p[1], p[2]>>, "new") : p \in X}
      /\ \A j \in 1..m, k \in 1..n : <<u[k], v[j]>> \in X
      /\ \A p \in X : \E j \in 1..m, k \in 1..n : p = <<u[k], v[j]>>
  <2>1. Range(u) = {u[k] : k \in 1..n} /\ Range(v) = {v[k] : k \in 1..m}
    BY <1>4 DEF Range
  <2>2. X = {u[k] : k \in 1..n} \X {v[k] : k \in 1..m}
    BY <1>1, <1>5, <2>1
  <2>3. \A p \in X : \E j \in 1..m, k \in 1..n : p = <<u[k], v[j]>>
    BY <2>2
  <2> QED BY <1>5, <2>2, <2>3
<1>7. PICK S : S = (1..m) \X (1..n)
  OBVIOUS
<1>8. IsFiniteSet(S) /\ Cardinality(S) = m * n
  <2>1. PICK A, B : A = 1..m /\ B = 1..n
    OBVIOUS
  <2>2. IsFiniteSet(A) /\ Cardinality(A) = m
    BY <1>4, <2>1, FS_Interval
  <2>3. IsFiniteSet(B) /\ Cardinality(B) = n
    BY <1>4, <2>1, FS_Interval
  <2>4. IsFiniteSet(A \X B) /\ Cardinality(A \X B) = Cardinality(A) * Cardinality(B)
    BY <2>2, <2>3, FS_Product
  <2> QED BY <1>7, <2>1, <2>2, <2>3, <2>4
<1>9. PICK f : f = [p \in S |-> Ask(a, <<"search", u[p[2]], v[p[1]]>>, "new")]
  OBVIOUS
<1>10. f \in [S -> Q]
  <2>1. ASSUME NEW p \in S PROVE Ask(a, <<"search", u[p[2]], v[p[1]]>>, "new") \in Q
    <3>1. p[1] \in 1..m /\ p[2] \in 1..n
      BY <1>7
    <3>2. PICK x : x = <<u[p[2]], v[p[1]]>>
      OBVIOUS
    <3>3. x \in X /\ x[1] = u[p[2]] /\ x[2] = v[p[1]]
      BY <1>6, <3>1, <3>2
    <3> QED BY <1>6, <3>3
  <2> QED BY <1>9, <2>1
<1>11. ASSUME NEW y \in Q PROVE \E x \in S : f[x] = y
  <2>1. PICK p \in X : y = Ask(a, <<"search", p[1], p[2]>>, "new")
    BY <1>6
  <2>2. PICK j \in 1..m, k \in 1..n : p = <<u[k], v[j]>>
    BY <1>6
  <2>3. p[1] = u[k] /\ p[2] = v[j]
    BY <2>2
  <2>4. y = Ask(a, <<"search", u[k], v[j]>>, "new")
    BY <2>1, <2>3
  <2>5. <<j, k>> \in S
    BY <1>7
  <2>6. f[<<j, k>>] = y
    BY <1>9, <2>4, <2>5
  <2> QED BY <2>5, <2>6
<1>12. IsFiniteSet(Q) /\ Cardinality(Q) <= m * n
  <2>1. IsFiniteSet(S)
    BY <1>8
  <2>2. f \in Surjection(S, Q)
    BY <1>10, <1>11 DEF Surjection
  <2>3. IsFiniteSet(Q) /\ Cardinality(Q) <= Cardinality(S)
    BY <2>1, <2>2, FS_Surjection
  <2> QED BY <1>8, <2>3
<1>13. ASSUME NEW r \in Q PROVE \E sub \in Text, q \in Query : r = Ask(a, <<"search", sub, q>>, "new")
  <2>1. PICK p \in X : r = Ask(a, <<"search", p[1], p[2]>>, "new")
    BY <1>6
  <2>2. PICK j \in 1..m, k \in 1..n : p = <<u[k], v[j]>>
    BY <1>6
  <2>3. p[1] = u[k] /\ p[2] = v[j]
    BY <2>2
  <2>4. r = Ask(a, <<"search", u[k], v[j]>>, "new")
    BY <2>1, <2>3
  <2> QED BY <1>4, <2>4
<1>14. Pairs(a) = m * n
  BY <1>1, <1>3 DEF Pairs, Queries
<1> QED BY <1>12, <1>13, <1>14, FS_CardinalityType

LEMMA StartKeeps == ASSUME Inv, NEW a \in Agents, Start(a) PROVE Inv'
<1>1. input' = input /\ sent' = sent /\ agent[a].pc = "idle"
  BY DEF Start
<1>2. /\ agent[a] = Idle /\ Ag(a) \in LoadedAgent /\ Queries(a) \in Nat /\ Pairs(a) \in Nat
      /\ Reqs(a) = {} /\ Made(a) = 0
  BY <1>1, IdleHasNone
<1>3. Sound(Idle, a) /\ Listed(Idle, a) /\ Idle \in AgentState
  BY <1>2, InitSound DEF Sound
<1>4. PICK Q : Q = {Ask(a, <<"search", p[1], p[2]>>, "new") : p \in Range(Ag(a).subs) \X Range(Ag(a).queries)}
  OBVIOUS
<1>5. PICK ms : ms = [k \in DOMAIN Offline(a) |-> FromPick(Offline(a)[k], "curated")]
  OBVIOUS
<1>6. \/ agent' = [agent EXCEPT ![a] = [Idle EXCEPT !.pc = "ready", !.error = TRUE]] /\ requests' = requests
      \/ input.offline /\ agent' = [agent EXCEPT ![a] = [Idle EXCEPT !.pc = "ready", !.movies = ms]] /\ requests' = requests
      \/ agent' = [agent EXCEPT ![a] = [Idle EXCEPT !.pc = "gather"]] /\ requests' = requests
      \/ Crawls(a) /\ agent' = [agent EXCEPT ![a] = EnqueueAll([Idle EXCEPT !.pc = "subs"], Ag(a).subs, a)] /\ requests' = requests
      \/ ~Crawls(a) /\ agent' = [agent EXCEPT ![a] = [Idle EXCEPT !.pc = "searching"]] /\ requests' = requests \cup Q
  <2>1. requests \cup {} = requests
    OBVIOUS
  <2> QED BY <1>2, <1>4, <1>5, <2>1 DEF Start, Crawls
<1>7. /\ Idle.visited = {} /\ Idle.frontier = <<>> /\ Idle.threads = <<>> /\ Idle.pending = <<>> /\ Idle.movies = <<>>
      /\ Idle.i = 1
  BY DEF Idle
<1>8. CASE agent' = [agent EXCEPT ![a] = [Idle EXCEPT !.pc = "ready", !.error = TRUE]] /\ requests' = requests
  <2>1. PICK t : t = [Idle EXCEPT !.pc = "ready", !.error = TRUE]
    OBVIOUS
  <2>2. /\ t \in AgentState /\ t.pc = "ready" /\ t.threads = <<>> /\ t.pending = <<>>
        /\ t.visited = {} /\ t.frontier = <<>> /\ t.movies = Idle.movies
    BY <1>3, <1>7, <2>1 DEF AgentState, Pcs
  <2>3. Listed(t, a)
    BY <1>3, <2>2 DEF Listed
  <2> QED BY <1>1, <1>8, <2>1, <2>2, <2>3, SkipsSearch
<1>9. CASE input.offline /\ agent' = [agent EXCEPT ![a] = [Idle EXCEPT !.pc = "ready", !.movies = ms]] /\ requests' = requests
  <2>1. PICK t : t = [Idle EXCEPT !.pc = "ready", !.movies = ms]
    OBVIOUS
  <2>2. ms \in Seq(Movie) /\ Len(ms) <= Ag(a).limit /\ (KeysDiffer(Ag(a).picks) => KeysDiffer(ms))
    BY <1>2, <1>5, OfflineIsListed
  <2>3. /\ t \in AgentState /\ t.pc = "ready" /\ t.threads = <<>> /\ t.pending = <<>>
        /\ t.visited = {} /\ t.frontier = <<>> /\ t.movies = ms
    BY <1>3, <1>7, <2>1, <2>2 DEF AgentState, Pcs
  <2>4. Listed(t, a)
    BY <1>9, <2>2, <2>3 DEF Listed
  <2> QED BY <1>1, <1>9, <2>1, <2>3, <2>4, SkipsSearch
<1>10. CASE agent' = [agent EXCEPT ![a] = [Idle EXCEPT !.pc = "gather"]] /\ requests' = requests
  <2>1. PICK t : t = [Idle EXCEPT !.pc = "gather"]
    OBVIOUS
  <2>2. /\ t \in AgentState /\ t.pc = "gather" /\ t.threads = <<>> /\ t.pending = <<>>
        /\ t.visited = {} /\ t.frontier = <<>> /\ t.movies = Idle.movies
    BY <1>3, <1>7, <2>1 DEF AgentState, Pcs
  <2>3. Listed(t, a)
    BY <1>3, <2>2 DEF Listed
  <2> QED BY <1>1, <1>10, <2>1, <2>2, <2>3, SkipsSearch
<1>11. CASE Crawls(a) /\ agent' = [agent EXCEPT ![a] = EnqueueAll([Idle EXCEPT !.pc = "subs"], Ag(a).subs, a)] /\ requests' = requests
  <2>1. PICK s : s = [Idle EXCEPT !.pc = "subs"]
    OBVIOUS
  <2>2. /\ s \in AgentState /\ s.pc = "subs" /\ s.i = 1 /\ s.threads = <<>> /\ s.pending = <<>>
        /\ s.visited = {} /\ s.frontier = <<>> /\ s.movies = Idle.movies
    BY <1>3, <1>7, <2>1 DEF AgentState, Pcs
  <2>3. Sound(s, a) /\ Within(s, a)
    BY <1>3, <1>7, <1>11, <2>2 DEF Sound, Within
  <2>4. Ag(a).subs \in Seq(Text)
    BY <1>2 DEF LoadedAgent, Agent
  <2>5. PICK t : t = EnqueueAll(s, Ag(a).subs, a)
    OBVIOUS
  <2>6. t \in AgentState /\ Grown(t, s) /\ Within(t, a)
    BY <1>2, <2>2, <2>3, <2>4, <2>5, EnqueueAllKeeps
  <2>7. t.pc = "subs" /\ t.i = 1 /\ t.movies = Idle.movies
    BY <2>2, <2>6 DEF Grown
  <2>8. Sound(t, a)
    BY <1>2, <1>11, <2>2, <2>3, <2>6, GrownIsSound
  <2>9. Listed(t, a)
    BY <1>3, <2>7 DEF Listed
  <2>10. CrawlCount(t, a, 0, 0)
    BY <1>2, <2>7 DEF CrawlCount
  <2> QED BY <1>1, <1>11, <2>1, <2>5, <2>8, <2>9, <2>10, LeavesIdle
<1>12. CASE ~Crawls(a) /\ agent' = [agent EXCEPT ![a] = [Idle EXCEPT !.pc = "searching"]] /\ requests' = requests \cup Q
  <2>1. PICK t : t = [Idle EXCEPT !.pc = "searching"]
    OBVIOUS
  <2>2. /\ t \in AgentState /\ t.pc = "searching" /\ t.threads = <<>> /\ t.pending = <<>>
        /\ t.visited = {} /\ t.frontier = <<>> /\ t.movies = Idle.movies
    BY <1>3, <1>7, <2>1 DEF AgentState, Pcs
  <2>3. Sound(t, a) /\ Listed(t, a)
    BY <1>3, <1>7, <1>12, <2>2 DEF Sound, Listed
  <2>4. /\ IsFiniteSet(Q) /\ Cardinality(Q) \in Nat /\ Cardinality(Q) <= Pairs(a)
        /\ \A r \in Q : \E sub \in Text, q \in Query : r = Ask(a, <<"search", sub, q>>, "new")
    BY <1>2, <1>4, TasksAreFew
  <2>5. ASSUME NEW r \in Q PROVE r.who = a /\ Reddit(r.job) /\ Request(r) /\ FixedJob(t, r)
    <3>1. PICK sub \in Text, q \in Query : r = Ask(a, <<"search", sub, q>>, "new")
      BY <2>4
    <3>2. PICK job : job = <<"search", sub, q>>
      OBVIOUS
    <3>3. job[1] = "search" /\ job[2] \in Text
      BY <3>2
    <3>4. r = [who |-> a, job |-> job, at |-> "new"]
      BY <3>1, <3>2 DEF Ask
    <3> QED BY <2>2, <3>3, <3>4 DEF Reddit, Request, FixedJob
  <2>6. FixedCount(t, a, 0 + Cardinality(Q), Cardinality(Q))
    <3>1. Len(t.threads) = 0
      BY <2>2, EmptySeq
    <3> QED BY <1>2, <2>2, <2>4, <3>1 DEF FixedCount
  <2> QED BY <1>1, <1>2, <1>12, <2>1, <2>3, <2>4, <2>5, <2>6, LaunchKeeps
<1> QED BY <1>6, <1>8, <1>9, <1>10, <1>11, <1>12

----------------------------------------------------------------------------
(* What a page holds, and what is made of it.                               *)
LEMMA PagesAreTyped ==
  ASSUME NEW at
  PROVE  /\ at[1] = "subs" => PageAt(at) \in Seq(Text)
         /\ at[1] \in {"all", "hot", "sub"} => PageAt(at) \in Seq(RedditThread)
         /\ at[1] = "thread" => PageAt(at) \in Seq(Comment)
         /\ at[1] = "article" => PageAt(at) \in Seq(Paragraph)
<1>1. CASE at \in DOMAIN Site
  BY <1>1, SiteAssumption DEF PageAt, SiteAssumption
<1>2. CASE at \notin DOMAIN Site /\ at[1] # "find"
  BY <1>2, EmptySeq DEF PageAt
<1> QED BY <1>1, <1>2

LEMMA ListingsAreTyped ==
  ASSUME NEW listing \in Seq(RedditThread)
  PROVE  SearchGlobal(listing) \in Seq(RedditThread) /\ HotThreads(listing) \in Seq(RedditThread)
<1>1. PICK all, A, B : /\ all = ParseThreads(listing) /\ A = {t \in Range(all) : ~Series(t)}
                       /\ B = {t \in Range(all) : ~Series(t) /\ RecommendationTitle(t)}
  OBVIOUS
<1>2. all \in Seq(RedditThread)
  BY <1>1, ThreadsAreTyped
<1>3. Only(all, A) \in Seq(RedditThread \cap A) /\ Only(all, B) \in Seq(RedditThread \cap B)
  BY <1>2, OnlyIs
<1>4. Only(all, A) \in Seq(RedditThread) /\ Only(all, B) \in Seq(RedditThread)
  BY <1>3
<1> QED BY <1>1, <1>4 DEF SearchGlobal, HotThreads

LEMMA SearchSubIs ==
  ASSUME NEW sub \in Text, NEW listing \in Seq(RedditThread), NEW ths, ths = SearchSub(sub, listing)
  PROVE  ths = <<>> \/ \E th \in RedditThread : ths = <<th>>
<1>1. PICK all : all = ParseThreads(listing)
  OBVIOUS
<1>2. PICK A : A = {t \in Range(all) : ~Series(t) /\ t.title # ""}
  OBVIOUS
<1>3. PICK ok : ok = Only(all, A)
  OBVIOUS
<1>4. ths = IF ok = <<>> THEN <<>> ELSE <<[Head(ok) EXCEPT !.sub = IF @ = "" THEN NormalizeSub(sub) ELSE @]>>
  BY <1>1, <1>2, <1>3 DEF SearchSub
<1>5. ok \in Seq(RedditThread)
  <2>1. all \in Seq(RedditThread)
    BY <1>1, ThreadsAreTyped
  <2>2. ok \in Seq(RedditThread \cap A)
    BY <1>3, <2>1, OnlyIs
  <2> QED BY <2>2
<1>6. CASE ok # <<>>
  <2>1. PICK hd \in RedditThread : hd = Head(ok)
    BY <1>5, <1>6, HeadTailProperties
  <2>2. PICK n \in Text : n = IF hd.sub = "" THEN NormalizeSub(sub) ELSE hd.sub
    BY NormalizedIsName DEF RedditThread
  <2>3. [hd EXCEPT !.sub = n] \in RedditThread
    BY <2>2 DEF RedditThread
  <2>4. [hd EXCEPT !.sub = IF @ = "" THEN NormalizeSub(sub) ELSE @] = [hd EXCEPT !.sub = n]
    BY <2>2 DEF RedditThread
  <2> QED BY <1>4, <1>6, <2>1, <2>3, <2>4
<1> QED BY <1>4, <1>6

LEMMA PlotIs ==
  ASSUME NEW paras \in Seq(Paragraph), NEW year
  PROVE  WikiPagePlot(paras, year) \in Text
<1>1. PICK A : A = {p \in Range(paras) : p.text # "" /\ LooksLikeFilmPlot(p, year)}
  OBVIOUS
<1>2. PICK ok : ok = Only(paras, A)
  OBVIOUS
<1>3. ok \in Seq(Paragraph)
  <2>1. ok \in Seq(Paragraph \cap A)
    BY <1>2, OnlyIs
  <2> QED BY <2>1
<1>4. WikiPagePlot(paras, year) = IF ok = <<>> THEN "" ELSE Head(ok).text
  BY <1>1, <1>2 DEF WikiPagePlot
<1>5. "" \in Text
  BY DEF Text
<1>6. ASSUME ok # <<>> PROVE Head(ok).text \in Text
  <2>1. PICK hd \in Paragraph : hd = Head(ok)
    BY <1>3, <1>6, HeadTailProperties
  <2> QED BY <2>1 DEF Paragraph
<1> QED BY <1>4, <1>5, <1>6

LEMMA PickPlotIs ==
  ASSUME NEW a \in Agents, Ag(a) \in LoadedAgent, NEW m
  PROVE  PickOf(a, m).plot \in Text
<1>1. PICK ps, A : /\ ps = Ag(a).picks
                   /\ A = {p \in {p \in Range(Ag(a).picks) : KeyOf(p) = KeyOf(m)} : p.plot # ""}
  OBVIOUS
<1>2. PICK plots : plots = Only(ps, A)
  OBVIOUS
<1>3. plots \in Seq(Pick)
  <2>1. ps \in Seq(Pick)
    BY <1>1 DEF LoadedAgent, Agent
  <2>2. plots \in Seq(Pick \cap A)
    BY <1>2, <2>1, OnlyIs
  <2> QED BY <2>2
<1>4. PickOf(a, m).plot = IF plots = <<>> THEN "" ELSE plots[Len(plots)].plot
  BY <1>1, <1>2 DEF PickOf
<1>5. "" \in Text
  BY DEF Text
<1>6. ASSUME plots # <<>> PROVE plots[Len(plots)].plot \in Text
  <2>1. Len(plots) \in Nat /\ Len(plots) # 0
    BY <1>3, <1>6, LenProperties, EmptySeq
  <2>2. Len(plots) \in 1..Len(plots)
    BY <2>1
  <2>3. PICK p \in Pick : p = plots[Len(plots)]
    BY <1>3, <2>2, ElementOfSeq
  <2> QED BY <2>3 DEF Pick
<1> QED BY <1>4, <1>5, <1>6

\* The movies of a thread are added to what was found.
SameSearch(t, s) ==
  /\ t.pc = s.pc /\ t.i = s.i /\ t.then = s.then /\ t.out = s.out /\ t.frontier = s.frontier /\ t.visited = s.visited
  /\ t.threads = s.threads /\ t.pending = s.pending /\ t.cur = s.cur /\ t.movies = s.movies /\ t.error = s.error
LEMMA AddFoundKeeps ==
  ASSUME NEW a \in Agents, Ag(a) \in LoadedAgent, NEW s \in AgentState, NEW movies \in Seq(Mention),
         NEW th \in RedditThread, NEW t, t = AddFound(s, movies, th, a)
  PROVE  t \in AgentState /\ SameSearch(t, s) /\ (s.found \in Seq(NoPlot) => t.found \in Seq(NoPlot))
<1>1. PICK src : src = <<th.sub, th.title>>
  OBVIOUS
<1>2. src \in Source
  BY <1>1 DEF Source, RedditThread
<1>3. PICK ms : ms = [k \in DOMAIN movies |-> [title |-> movies[k].title, year |-> movies[k].year, source |-> src, plot |-> ""]]
  OBVIOUS
<1>4. Len(movies) \in Nat /\ DOMAIN movies = 1..Len(movies) /\ \A k \in 1..Len(movies) : movies[k] \in Mention
  BY LenProperties, ElementOfSeq
<1>5. ASSUME NEW m \in Mention PROVE [title |-> m.title, year |-> m.year, source |-> src, plot |-> ""] \in NoPlot
  <2>1. m.title \in Text /\ m.year \in Int /\ "" \in Text
    BY DEF Mention, Text
  <2> QED BY <1>2, <2>1 DEF Movie, NoPlot
<1>6. ms \in Seq(NoPlot) /\ ms \in Seq(Movie)
  <2>1. PICK n \in Nat : n = Len(movies)
    BY <1>4
  <2>2. \A k \in 1..n : [title |-> movies[k].title, year |-> movies[k].year, source |-> src, plot |-> ""] \in NoPlot
    BY <1>4, <1>5, <2>1
  <2>3. ms = [k \in 1..n |-> [title |-> movies[k].title, year |-> movies[k].year, source |-> src, plot |-> ""]]
    BY <1>3, <1>4, <2>1
  <2>4. [k \in 1..n |-> [title |-> movies[k].title, year |-> movies[k].year, source |-> src, plot |-> ""]] \in [1..n -> NoPlot]
    BY <2>2
  <2>5. ms \in [1..n -> NoPlot]
    BY <2>3, <2>4
  <2>6. NoPlot \subseteq Movie
    BY DEF NoPlot
  <2> QED BY <2>5, <2>6
<1>7. PICK f : f = DistinctMovies(s.found \o ms, Ag(a).limit)
  OBVIOUS
<1>8. f \in Seq(Movie) /\ (s.found \in Seq(NoPlot) => f \in Seq(NoPlot))
  <2>1. s.found \in Seq(Movie) /\ Ag(a).limit \in Nat
    BY DEF AgentState, LoadedAgent
  <2>2. s.found \o ms \in Seq(Movie)
    BY <1>6, <2>1, ConcatProperties
  <2>3. s.found \in Seq(NoPlot) => s.found \o ms \in Seq(NoPlot)
    BY <1>6, ConcatProperties
  <2> QED BY <1>7, <2>1, <2>2, <2>3, DistinctIs
<1>9. t = [s EXCEPT !.found = f]
  BY <1>1, <1>3, <1>7 DEF AddFound
<1> QED BY <1>8, <1>9 DEF AgentState, SameSearch

----------------------------------------------------------------------------
(* The answer of a crawl's request.                                         *)
Like(u, s, a) ==
  /\ u \in AgentState /\ Sound(u, a) /\ Listed(u, a) /\ Spent(u, a) = Spent(s, a)
  /\ u.pc = s.pc /\ u.i = s.i /\ u.cur = s.cur

LEMMA GrownIsLike ==
  ASSUME NEW a \in Agents, Ag(a) \in LoadedAgent, Crawls(a), NEW s, Sound(s, a), Listed(s, a), s.pc # "idle",
         NEW t \in AgentState, Grown(t, s), Within(t, a)
  PROVE  Like(t, s, a)
<1>1. Sound(t, a) /\ Spent(t, a) = Spent(s, a)
  BY GrownIsSound
<1>2. t.pc = s.pc /\ t.i = s.i /\ t.cur = s.cur /\ t.movies = s.movies
  BY DEF Grown
<1>3. Listed(t, a)
  BY <1>2 DEF Listed
<1> QED BY <1>1, <1>2, <1>3 DEF Like

LEMMA PageIsLike ==
  ASSUME NEW a \in Agents, Ag(a) \in LoadedAgent, Crawls(a), NEW s, Sound(s, a), Listed(s, a), s.pc # "idle",
         NEW ths \in Seq(RedditThread)
  PROVE  Like(AddThreads(s, ths, a), s, a)
<1>1. s \in AgentState /\ Within(s, a)
  BY DEF Sound
<1>2. PICK t : t = AddThreads(s, ths, a)
  OBVIOUS
<1>3. t \in AgentState /\ Grown(t, s) /\ Within(t, a)
  BY <1>1, <1>2, AddThreadsKeeps
<1> QED BY <1>2, <1>3, GrownIsLike

\* A step that changes neither the lists nor the limits of a crawl.
LEMMA StaysSound ==
  ASSUME NEW a \in Agents, Crawls(a), NEW u, Sound(u, a), Listed(u, a), NEW t \in AgentState,
         t.pc \notin {"idle", "searching", "reading"}, t.pc = "drain" => t.then # "", t.pc = "sub" => t.cur \in Text,
         t.threads = u.threads, t.pending = u.pending, t.visited = u.visited, t.frontier = u.frontier, t.movies = u.movies
  PROVE  Sound(t, a) /\ Listed(t, a) /\ Spent(t, a) = Spent(u, a)
<1>1. Within(t, a)
  BY DEF Sound, Within
<1>2. Sound(t, a)
  BY <1>1 DEF Sound
<1>3. Listed(t, a)
  BY DEF Listed
<1> QED BY <1>2, <1>3 DEF Spent, Hops

LEMMA NextIs ==
  ASSUME NEW a \in Agents, Crawls(a), NEW s, NEW u, Like(u, s, a), s.pc # "idle", s.pc # "drain", NEW t, t = Next1(u)
  PROVE  /\ Sound(t, a) /\ Listed(t, a) /\ Spent(t, a) = Spent(s, a) /\ t.pc = s.pc /\ t.i = s.i + 1 /\ s.i \in Nat
<1>1. u \in AgentState
  BY DEF Like
<1>2. u.i \in Nat /\ u.i + 1 \in Nat \ {0}
  <2>1. u.i \in Nat \ {0}
    BY <1>1 DEF AgentState
  <2> QED BY <2>1
<1>3. PICK i \in Nat \ {0} : i = u.i + 1
  BY <1>2
<1>4. t = [u EXCEPT !.i = i]
  BY <1>3 DEF Next1
<1>5. /\ t \in AgentState /\ t.pc = u.pc /\ t.i = i /\ t.threads = u.threads /\ t.pending = u.pending /\ t.cur = u.cur
      /\ t.visited = u.visited /\ t.frontier = u.frontier /\ t.movies = u.movies
  BY <1>1, <1>4 DEF AgentState
<1>6. Sound(t, a) /\ Listed(t, a) /\ Spent(t, a) = Spent(u, a)
  <2>1. Sound(u, a) /\ Listed(u, a) /\ u.pc = s.pc
    BY DEF Like
  <2>2. t.pc \notin {"idle", "searching", "reading"} /\ (t.pc = "sub" => t.cur \in Text)
    BY <1>5, <2>1 DEF Sound
  <2> QED BY <1>5, <2>1, <2>2, StaysSound
<1> QED BY <1>2, <1>3, <1>5, <1>6 DEF Like

LEMMA DiscoveredIsLike ==
  ASSUME NEW a \in Agents, Crawls(a), NEW s, Sound(s, a), Listed(s, a), NEW out \in Seq(Text), s.pc # "idle",
         NEW u, u = [s EXCEPT !.out = out]
  PROVE  Like(u, s, a)
<1>1. s \in AgentState
  BY DEF Sound
<1>2. /\ u \in AgentState /\ u.pc = s.pc /\ u.i = s.i /\ u.threads = s.threads /\ u.pending = s.pending /\ u.cur = s.cur
      /\ u.visited = s.visited /\ u.frontier = s.frontier /\ u.movies = s.movies /\ u.then = s.then
  BY <1>1 DEF AgentState
<1>3. u.pc \notin {"idle", "searching", "reading"} /\ (u.pc = "drain" => u.then # "") /\ (u.pc = "sub" => u.cur \in Text)
  BY <1>2 DEF Sound
<1>4. Sound(u, a) /\ Listed(u, a) /\ Spent(u, a) = Spent(s, a)
  BY <1>2, <1>3, StaysSound
<1> QED BY <1>2, <1>4 DEF Like

\* What a crawl does with a page, a refusal or a failure stays within its bounds.
LEMMA AfterDiscoverKeeps ==
  ASSUME NEW a \in Agents, Ag(a) \in LoadedAgent, Crawls(a), Queries(a) \in Nat, NEW s, Sound(s, a), Listed(s, a),
         NEW r, CrawlJob(s, r), NEW made \in Nat, CrawlCount(s, a, made, 1), NEW o, NEW page,
         r.job[1] = "subs" => page \in Seq(Text),
         r.job[1] \in {"all", "hot", "sub"} => page \in Seq(RedditThread),
         r.job[1] = "thread" => page \in Seq(Comment),
         NEW t, t = AfterDiscover(s, r.job, o, page, a)
  PROVE  Sound(t, a) /\ Listed(t, a) /\ CrawlCount(t, a, made, 0)
<1>1. s \in AgentState /\ s.i \in Nat /\ s.pc # "idle" /\ Within(s, a)
  BY DEF Sound, AgentState, CrawlJob
<1>2. Like(s, s, a)
  BY <1>1 DEF Like
<1>3. Spent(s, a) \in Nat /\ 3 * Queries(a) <= Spent(s, a)
  BY SpentIs
<1>4. CASE r.job[1] = "subs"
  <2>1. s.pc = "subs" /\ page \in Seq(Text)
    BY <1>4 DEF CrawlJob
  <2>2. PICK out : out = DiscoverSubs(s.out, page, r.job[2], Ag(a).maxSubs)
    OBVIOUS
  <2>3. out \in Seq(Text)
    <3>1. s.out \in Seq(Text)
      BY <1>1 DEF AgentState
    <3> QED BY <2>1, <2>2, <3>1, DiscoveredAreNames
  <2>4. PICK u : u = [s EXCEPT !.out = out]
    OBVIOUS
  <2>5. Like(u, s, a)
    BY <1>1, <2>3, <2>4, DiscoveredIsLike
  <2>6. t = Next1(s) \/ t = Next1(u)
    <3>1. [s EXCEPT !.out = DiscoverSubs(@, page, r.job[2], Ag(a).maxSubs)] = u
      BY <1>1, <2>2, <2>4 DEF AgentState
    <3> QED BY <1>4, <3>1 DEF AfterDiscover
  <2>7. Sound(t, a) /\ Listed(t, a) /\ t.pc = "subs" /\ t.i = s.i + 1
    BY <1>1, <1>2, <2>1, <2>5, <2>6, NextIs
  <2>8. CrawlCount(t, a, made, 0)
    BY <1>1, <2>1, <2>7 DEF CrawlCount
  <2> QED BY <2>7, <2>8
<1>5. CASE r.job[1] = "all"
  <2>1. s.pc = "all" /\ page \in Seq(RedditThread)
    BY <1>5 DEF CrawlJob
  <2>2. SearchGlobal(page) \in Seq(RedditThread)
    BY <2>1, ListingsAreTyped
  <2>3. PICK u : u = IF o = "page" THEN AddThreads(s, SearchGlobal(page), a) ELSE s
    OBVIOUS
  <2>4. Like(u, s, a)
    BY <1>1, <1>2, <2>2, <2>3, PageIsLike
  <2>5. t = Drain(s, "gather") \/ t = Next1(u)
    BY <1>5, <2>3 DEF AfterDiscover
  <2>6. made <= 2 * Queries(a) + s.i - 1 + 1 /\ s.i + 1 <= Queries(a) + 1
    BY <1>1, <2>1 DEF CrawlCount
  <2>7. CASE t = Drain(s, "gather")
    <3>1. Sound(t, a) /\ Listed(t, a) /\ t.pc = "drain" /\ Spent(t, a) = Spent(s, a)
      BY <1>1, <2>7, DrainIsSound
    <3>2. made <= Spent(s, a)
      BY <1>1, <1>3, <2>6
    <3> QED BY <3>1, <3>2 DEF CrawlCount
  <2>8. CASE t = Next1(u)
    <3>1. Sound(t, a) /\ Listed(t, a) /\ t.pc = "all" /\ t.i = s.i + 1
      BY <2>1, <2>4, <2>8, NextIs
    <3> QED BY <1>1, <2>6, <3>1 DEF CrawlCount
  <2> QED BY <2>5, <2>7, <2>8
<1>6. CASE r.job[1] = "hot"
  <2>1. s.pc = "loop" /\ s.cur \in Text /\ page \in Seq(RedditThread)
    BY <1>6 DEF CrawlJob
  <2>2. HotThreads(page) \in Seq(RedditThread)
    BY <2>1, ListingsAreTyped
  <2>3. PICK u : u = IF o = "page" THEN AddThreads(s, HotThreads(page), a) ELSE s
    OBVIOUS
  <2>4. Like(u, s, a)
    BY <1>1, <1>2, <2>2, <2>3, PageIsLike
  <2>5. t = Drain(s, "gather") \/ t = [u EXCEPT !.pc = "sub", !.i = 1]
    BY <1>6, <2>3 DEF AfterDiscover
  <2>6. made <= Spent(s, a) - Queries(a) /\ made <= Spent(s, a)
    BY <2>1 DEF CrawlCount
  <2>7. CASE t = Drain(s, "gather")
    <3>1. Sound(t, a) /\ Listed(t, a) /\ t.pc = "drain" /\ Spent(t, a) = Spent(s, a)
      BY <1>1, <2>7, DrainIsSound
    <3> QED BY <2>6, <3>1 DEF CrawlCount
  <2>8. CASE t = [u EXCEPT !.pc = "sub", !.i = 1]
    <3>1. PICK pc \in Pcs, i \in Nat \ {0} : pc = "sub" /\ i = 1
      BY DEF Pcs
    <3>2. t = [u EXCEPT !.pc = pc, !.i = i]
      BY <2>8, <3>1
    <3>3. /\ t \in AgentState /\ t.pc = pc /\ t.i = i /\ t.threads = u.threads /\ t.pending = u.pending /\ t.cur = u.cur
          /\ t.visited = u.visited /\ t.frontier = u.frontier /\ t.movies = u.movies
      BY <2>4, <3>2 DEF Like, AgentState
    <3>4. t.pc = "sub" /\ t.i = 1 /\ t.cur \in Text
      BY <2>1, <2>4, <3>1, <3>3 DEF Like
    <3>5. Sound(t, a) /\ Listed(t, a) /\ Spent(t, a) = Spent(s, a)
      <4>1. Sound(u, a) /\ Listed(u, a) /\ Spent(u, a) = Spent(s, a)
        BY <2>4 DEF Like
      <4> QED BY <3>3, <3>4, <4>1, StaysSound
    <3> QED BY <1>1, <1>3, <2>6, <3>4, <3>5 DEF CrawlCount
  <2> QED BY <2>5, <2>7, <2>8
<1>7. CASE r.job[1] = "sub"
  <2>1. s.pc = "sub" /\ r.job[2] \in Text /\ page \in Seq(RedditThread)
    BY <1>7 DEF CrawlJob
  <2>2. SearchSub(r.job[2], page) \in Seq(RedditThread)
    <3>1. PICK ths : ths = SearchSub(r.job[2], page)
      OBVIOUS
    <3>2. ths = <<>> \/ \E th \in RedditThread : ths = <<th>>
      BY <2>1, <3>1, SearchSubIs
    <3>3. \A th \in RedditThread : <<th>> \in Seq(RedditThread)
      OBVIOUS
    <3> QED BY <3>1, <3>2, <3>3, EmptySeq
  <2>3. PICK u : u = IF o = "page" THEN AddThreads(s, SearchSub(r.job[2], page), a) ELSE s
    OBVIOUS
  <2>4. Like(u, s, a)
    BY <1>1, <1>2, <2>2, <2>3, PageIsLike
  <2>5. t = Drain(s, "loop") \/ t = Next1(u)
    BY <1>7, <2>3 DEF AfterDiscover
  <2>6. made <= Spent(s, a) - Queries(a) + s.i - 1 + 1 /\ s.i + 1 <= Queries(a) + 1
    BY <1>1, <1>3, <2>1 DEF CrawlCount
  <2>7. CASE t = Drain(s, "loop")
    <3>1. Sound(t, a) /\ Listed(t, a) /\ t.pc = "drain" /\ Spent(t, a) = Spent(s, a)
      BY <1>1, <2>7, DrainIsSound
    <3>2. made <= Spent(s, a)
      BY <1>1, <1>3, <2>6
    <3> QED BY <3>1, <3>2 DEF CrawlCount
  <2>8. CASE t = Next1(u)
    <3>1. Sound(t, a) /\ Listed(t, a) /\ t.pc = "sub" /\ t.i = s.i + 1 /\ Spent(t, a) = Spent(s, a)
      BY <2>1, <2>4, <2>8, NextIs
    <3>2. made <= Spent(t, a) - Queries(a) + t.i - 1 + 0 /\ t.i + 0 <= Queries(a) + 1
      BY <1>1, <1>3, <2>6, <3>1
    <3> QED BY <3>1, <3>2 DEF CrawlCount
  <2> QED BY <2>5, <2>7, <2>8
<1>8. CASE r.job[1] = "thread"
  <2>1. s.pc = "drain" /\ s.cur \in RedditThread /\ page \in Seq(Comment)
    BY <1>8 DEF CrawlJob
  <2>2. made <= Spent(s, a)
    BY <2>1 DEF CrawlCount
  <2>3. PICK got : got = ThreadLearn(page, Ag(a).limit * 2)
    OBVIOUS
  <2>4. got.learned \in Seq(Text) /\ got.movies \in Seq(Mention)
    <3>1. Ag(a).limit * 2 \in Nat
      BY DEF LoadedAgent
    <3>2. got \in Learned
      BY <2>1, <2>3, <3>1, LearnedIsTyped
    <3> QED BY <3>2 DEF Learned
  <2>5. PICK u : u = EnqueueAll(s, got.learned, a)
    OBVIOUS
  <2>6. u \in AgentState /\ Grown(u, s) /\ Within(u, a)
    BY <1>1, <2>4, <2>5, EnqueueAllKeeps
  <2>7. Like(u, s, a)
    BY <1>1, <2>6, GrownIsLike
  <2>8. t = s \/ t = AddFound(u, got.movies, s.cur, a)
    BY <1>8, <2>3, <2>5 DEF AfterDiscover
  <2>9. CASE t = s
    BY <2>1, <2>2, <2>9 DEF CrawlCount
  <2>10. CASE t = AddFound(u, got.movies, s.cur, a)
    <3>1. t \in AgentState /\ SameSearch(t, u)
      BY <2>1, <2>4, <2>6, <2>10, AddFoundKeeps
    <3>2. t.pc = "drain" /\ Sound(t, a) /\ Listed(t, a) /\ Spent(t, a) = Spent(s, a)
      <4>1. /\ t.pc = u.pc /\ t.then = u.then /\ t.threads = u.threads /\ t.pending = u.pending /\ t.cur = u.cur
            /\ t.visited = u.visited /\ t.frontier = u.frontier /\ t.movies = u.movies
        BY <3>1 DEF SameSearch
      <4>2. t.pc = "drain"
        BY <2>1, <2>7, <4>1 DEF Like
      <4>3. Sound(u, a) /\ Listed(u, a) /\ Spent(u, a) = Spent(s, a)
        BY <2>7 DEF Like
      <4>4. t.then # ""
        BY <4>1, <4>2, <4>3 DEF Sound
      <4> QED BY <3>1, <4>1, <4>2, <4>3, <4>4, StaysSound
    <3> QED BY <2>2, <3>2 DEF CrawlCount
  <2> QED BY <2>8, <2>9, <2>10
<1> QED BY <1>4, <1>5, <1>6, <1>7, <1>8 DEF CrawlJob

LEMMA MadeIsNat ==
  ASSUME Inv, NEW a \in Agents
  PROVE  /\ sent[a] \in Nat /\ Made(a) \in Nat /\ IsFiniteSet(Reqs(a)) /\ Cardinality(Reqs(a)) \in Nat
         /\ Ag(a) \in LoadedAgent /\ Queries(a) \in Nat /\ Pairs(a) \in Nat
<1>1. IsFiniteSet(Reqs(a)) /\ IsFiniteSet(Unsent(a))
  BY FS_Subset DEF Inv, Reqs, Unsent
<1>2. Cardinality(Reqs(a)) \in Nat /\ Cardinality(Unsent(a)) \in Nat
  BY <1>1, FS_CardinalityType
<1>3. sent[a] \in Nat
  BY DEF Inv
<1>4. Ag(a) \in LoadedAgent
  BY DEF Inv, Configured
<1> QED BY <1>1, <1>2, <1>3, <1>4, QueriesIsNat DEF Made

(* The answer to a request of a search.                                     *)
LEMMA RedditAnswer ==
  ASSUME Inv, NEW r \in requests, NEW o, Answer(r, o), Reddit(r.job), NEW a, a = r.who, NEW s, s = agent[a],
         NEW page, page = PageAt(Address(r))
  PROVE  /\ a \in Agents /\ Request(r) /\ Fits(s, r, a) /\ r \in Reqs(a) /\ input' = input /\ sent' = sent
         /\ requests' = requests \ {r} /\ (r.at = "fly" \/ r.at = "new")
         /\ agent' = [agent EXCEPT ![a] = IF Crawls(a) THEN AfterDiscover(s, r.job, o, page, a)
                                          ELSE AfterFixed(s, r.job, o, page, a)]
         /\ Sound(s, a) /\ Listed(s, a) /\ s \in AgentState
         /\ r.job[1] = "subs" => page \in Seq(Text)
         /\ r.job[1] \in {"all", "hot", "sub", "search"} => page \in Seq(RedditThread)
         /\ r.job[1] = "thread" => page \in Seq(Comment)
<1>1. Request(r) /\ Fits(s, r, a) /\ a \in Agents /\ r \in Reqs(a)
  BY DEF Inv, Request, Reqs
<1>2. Sound(s, a) /\ Listed(s, a) /\ s \in AgentState
  BY <1>1 DEF Inv
<1>3. /\ input' = input /\ sent' = sent /\ requests' = requests \ {r} /\ (r.at = "fly" \/ r.at = "new")
      /\ agent' = [agent EXCEPT ![a] = IF Crawls(a) THEN AfterDiscover(s, r.job, o, page, a)
                                       ELSE AfterFixed(s, r.job, o, page, a)]
  BY DEF Answer, Crawls
<1>4. PICK at : at = Address(r)
  OBVIOUS
<1>5. /\ r.job[1] = "subs" => page \in Seq(Text)
      /\ r.job[1] \in {"all", "hot", "sub", "search"} => page \in Seq(RedditThread)
      /\ r.job[1] = "thread" => page \in Seq(Comment)
  <2>1. /\ r.job[1] = "search" => at[1] = "sub"
        /\ r.job[1] = "thread" => at[1] = "thread"
        /\ r.job[1] \in {"subs", "all", "hot", "sub"} => at = r.job
    BY <1>4 DEF Address
  <2>2. /\ at[1] = "subs" => page \in Seq(Text)
        /\ at[1] \in {"all", "hot", "sub"} => page \in Seq(RedditThread)
        /\ at[1] = "thread" => page \in Seq(Comment)
    BY <1>4, PagesAreTyped
  <2> QED BY <2>1, <2>2
<1> QED BY <1>1, <1>2, <1>3, <1>5

LEMMA AnswerCrawlKeeps ==
  ASSUME Inv, NEW r \in requests, NEW o, Answer(r, o), Reddit(r.job), Crawls(r.who)
  PROVE  Inv'
<1>1. PICK a, s, page : a = r.who /\ s = agent[a] /\ page = PageAt(Address(r))
  OBVIOUS
<1>2. PICK t : t = AfterDiscover(s, r.job, o, page, a)
  OBVIOUS
<1>3. /\ a \in Agents /\ CrawlJob(s, r) /\ r \in Reqs(a) /\ input' = input /\ sent' = sent /\ requests' = requests \ {r}
      /\ r.at = "fly" /\ agent' = [agent EXCEPT ![a] = t] /\ Sound(s, a) /\ Listed(s, a) /\ Crawls(a)
      /\ r.job[1] = "subs" => page \in Seq(Text)
      /\ r.job[1] \in {"all", "hot", "sub"} => page \in Seq(RedditThread)
      /\ r.job[1] = "thread" => page \in Seq(Comment)
  <2>1. CrawlJob(s, r) /\ r.at # "new"
    BY <1>1, RedditAnswer DEF Fits, CrawlJob
  <2> QED BY <1>1, <1>2, <2>1, RedditAnswer
<1>4. PICK made \in Nat : made = Made(a)
  BY <1>3, MadeIsNat
<1>5. CrawlCount(s, a, made, 1)
  <2>1. Counted(a) /\ Busy(a) = 1
    BY <1>3 DEF Inv, Busy
  <2> QED BY <1>1, <1>3, <1>4, <2>1 DEF Counted
<1>6. Ag(a) \in LoadedAgent /\ Queries(a) \in Nat
  BY <1>3, MadeIsNat
<1>7. Sound(t, a) /\ Listed(t, a) /\ CrawlCount(t, a, made, 0)
  BY <1>2, <1>3, <1>5, <1>6, AfterDiscoverKeeps
<1> QED BY <1>1, <1>3, <1>4, <1>7, CrawlAnswerKeeps

\* One answer less to a fixed search: a thread more at most.
LEMMA FixedAnswerKeeps ==
  ASSUME Inv, input' = input, sent' = sent, NEW r \in requests, NEW a \in Agents, a = r.who, ~Crawls(a),
         Reddit(r.job), requests' = requests \ {r}, NEW s, s = agent[a],
         NEW t, agent' = [agent EXCEPT ![a] = t], Sound(t, a), Listed(t, a),
         t.pc = s.pc \/ (s.pc = "reading" /\ t.pc = "gather"), Len(t.threads) <= Len(s.threads) + 1
  PROVE  Inv'
<1>1. Reqs(a)' = Reqs(a) \ {r} /\ r \in Reqs(a) /\ Unsent(a)' = Unsent(a) \ {r}
  BY DEF Reqs, Unsent
<1>2. IsFiniteSet(Reqs(a)) /\ IsFiniteSet(Unsent(a)) /\ Pairs(a) \in Nat /\ sent[a] \in Nat
  <2>1. IsFiniteSet(Reqs(a)) /\ Pairs(a) \in Nat /\ sent[a] \in Nat
    BY MadeIsNat
  <2> QED BY <2>1, FS_Subset DEF Unsent
<1>3. PICK m, n, k, l : /\ m = Cardinality(Reqs(a)) /\ n = Cardinality(Reqs(a))' /\ k = Made(a) /\ l = Made(a)'
  OBVIOUS
<1>4. m \in Nat /\ n \in Nat /\ n + 1 = m
  <2>1. n = m - 1 /\ IsFiniteSet(Reqs(a)')
    BY <1>1, <1>2, <1>3, FS_RemoveElement
  <2>2. m \in Nat /\ n \in Nat
    BY <1>2, <1>3, <2>1, FS_CardinalityType
  <2> QED BY <2>1, <2>2
<1>5. k \in Nat /\ l \in Nat /\ l <= k
  <2>1. PICK c, d : c = Cardinality(Unsent(a)) /\ d = Cardinality(Unsent(a))'
    OBVIOUS
  <2>2. d <= c /\ c \in Nat /\ d \in Nat
    <3>1. Unsent(a)' \subseteq Unsent(a)
      BY <1>1
    <3> QED BY <1>2, <2>1, <3>1, FS_Subset, FS_CardinalityType
  <2>3. k = sent[a] + c /\ l = sent[a] + d
    BY <1>3, <2>1 DEF Made
  <2> QED BY <1>2, <2>2, <2>3
<1>6. FixedCount(s, a, k, m) /\ Sound(s, a)
  BY <1>3 DEF Inv, Counted
<1>7. FixedCount(t, a, l, n)
  <2>1. PICK x, y : x = Len(s.threads) /\ y = Len(t.threads)
    OBVIOUS
  <2>2. x \in Nat /\ y \in Nat
    BY <1>6, <2>1, LenProperties DEF Sound, AgentState
  <2>3. s.pc # "idle"
    <3>1. Fits(s, r, a)
      BY DEF Inv
    <3> QED BY <3>1 DEF Fits, FixedJob
  <2>4. t.pc # "idle"
    BY <2>3
  <2>5. l <= 2 * Pairs(a)
    <3>1. k <= 2 * Pairs(a)
      BY <1>6 DEF FixedCount
    <3> QED BY <1>2, <1>5, <3>1
  <2>6. ASSUME t.pc = "searching" PROVE l <= Pairs(a) /\ y + n <= Pairs(a)
    <3>1. k <= Pairs(a) /\ x + m <= Pairs(a)
      BY <1>6, <2>1, <2>6 DEF FixedCount
    <3>2. y <= x + 1
      BY <2>1
    <3> QED BY <1>2, <1>4, <1>5, <2>2, <3>1, <3>2
  <2> QED BY <2>1, <2>4, <2>5, <2>6 DEF FixedCount
<1>8. agent'[a] = t /\ sent' \in [Agents -> Nat] /\ \A b \in Agents : b # a => sent'[b] = sent[b]
  BY DEF Inv
<1>9. Counted(a)'
  BY <1>3, <1>7, <1>8, SameSettings DEF Counted
<1>10. OneRequest(a)'
  BY SameSettings DEF OneRequest
<1>11. IsFiniteSet(requests')
  BY FS_RemoveElement DEF Inv
<1>12. ASSUME NEW q \in requests' PROVE IF q.who = a THEN Request(q) /\ Fits(t, q, a) ELSE q \in requests
  <2>1. CASE q.who = a
    <3>1. Request(q) /\ Fits(s, q, a)
      BY <2>1 DEF Inv
    <3>2. Fits(t, q, a)
      BY <3>1 DEF Fits, FixedJob
    <3> QED BY <2>1, <3>1, <3>2
  <2>2. CASE q.who # a
    BY <2>2
  <2> QED BY <2>1, <2>2
<1>13. \A q \in requests : q.who # a => q \in requests'
  OBVIOUS
<1> QED BY <1>8, <1>9, <1>10, <1>11, <1>12, <1>13, StepKeeps

LEMMA AnswerFixedKeeps ==
  ASSUME Inv, NEW r \in requests, NEW o, Answer(r, o), Reddit(r.job), ~Crawls(r.who)
  PROVE  Inv'
<1>1. PICK a, s, page : a = r.who /\ s = agent[a] /\ page = PageAt(Address(r))
  OBVIOUS
<1>2. PICK t : t = AfterFixed(s, r.job, o, page, a)
  OBVIOUS
<1>3. /\ a \in Agents /\ FixedJob(s, r) /\ input' = input /\ sent' = sent /\ requests' = requests \ {r}
      /\ agent' = [agent EXCEPT ![a] = t] /\ Sound(s, a) /\ Listed(s, a) /\ ~Crawls(a) /\ s \in AgentState
      /\ r.job[1] = "search" => page \in Seq(RedditThread)
      /\ r.job[1] = "thread" => page \in Seq(Comment)
  <2>1. FixedJob(s, r)
    BY <1>1, RedditAnswer DEF Fits
  <2> QED BY <1>1, <1>2, <2>1, RedditAnswer
<1>4. Ag(a) \in LoadedAgent
  BY <1>3, MadeIsNat
<1>5. s.threads \in Seq(RedditThread) /\ s.visited = {} /\ s.frontier = <<>> /\ Len(s.threads) \in Nat
  BY <1>3, LenProperties DEF Sound, AgentState
<1>6. CASE t = s
  <2>1. Len(t.threads) <= Len(s.threads) + 1 /\ t.pc = s.pc /\ Sound(t, a) /\ Listed(t, a)
    BY <1>3, <1>5, <1>6
  <2>2. Reddit(r.job)
    OBVIOUS
  <2> QED BY <1>1, <1>3, <2>1, <2>2, FixedAnswerKeeps
<1>7. CASE s.pc = "searching" /\ t # s
  <2>1. r.job[2] \in Text /\ page \in Seq(RedditThread)
    BY <1>3, <1>7 DEF FixedJob
  <2>2. PICK ths : ths = SearchSub(r.job[2], page)
    OBVIOUS
  <2>3. t = [s EXCEPT !.threads = @ \o ths] /\ ths # <<>>
    BY <1>2, <1>7, <2>2 DEF AfterFixed
  <2>4. PICK th \in RedditThread : ths = <<th>>
    BY <2>1, <2>2, <2>3, SearchSubIs
  <2>5. PICK u : u = s.threads \o ths
    OBVIOUS
  <2>6. u \in Seq(RedditThread) /\ Len(u) = Len(s.threads) + 1
    BY <1>5, <2>4, <2>5, ConcatProperties
  <2>7. /\ t \in AgentState /\ t.pc = s.pc /\ t.threads = u /\ t.pending = s.pending
        /\ t.visited = s.visited /\ t.frontier = s.frontier /\ t.movies = s.movies
    BY <1>3, <2>3, <2>5, <2>6 DEF AgentState
  <2>8. Len(t.pending) <= Len(t.threads)
    <3>1. s.pending \in Seq(RedditThread) /\ Len(s.pending) <= Len(s.threads)
      BY <1>3 DEF Sound, AgentState
    <3>2. Len(s.pending) \in Nat
      BY <3>1, LenProperties
    <3> QED BY <1>5, <2>6, <2>7, <3>1, <3>2
  <2>9. Sound(t, a) /\ Listed(t, a)
    BY <1>3, <1>5, <1>7, <2>7, <2>8 DEF Sound, Listed
  <2>10. Len(t.threads) <= Len(s.threads) + 1
    BY <1>5, <2>6, <2>7
  <2> QED BY <1>1, <1>3, <2>7, <2>9, <2>10, FixedAnswerKeeps
<1>8. CASE s.pc = "reading" /\ t # s
  <2>1. r.job[3] \in RedditThread /\ page \in Seq(Comment)
    BY <1>3, <1>8 DEF FixedJob
  <2>2. PICK ms : ms = ThreadLearn(page, Ag(a).limit * 2).movies
    OBVIOUS
  <2>3. ms \in Seq(Mention)
    <3>1. Ag(a).limit * 2 \in Nat
      BY <1>4 DEF LoadedAgent
    <3>2. ThreadLearn(page, Ag(a).limit * 2) \in Learned
      BY <2>1, <3>1, LearnedIsTyped
    <3> QED BY <2>2, <3>2 DEF Learned
  <2>4. PICK u : u = IF o # "page" THEN s ELSE AddFound(s, ms, r.job[3], a)
    OBVIOUS
  <2>5. u \in AgentState /\ SameSearch(u, s)
    <3>1. SameSearch(s, s)
      BY DEF SameSearch
    <3> QED BY <1>3, <1>4, <2>1, <2>3, <2>4, <3>1, AddFoundKeeps
  <2>6. t = u \/ t = [u EXCEPT !.pc = "gather"]
    BY <1>2, <1>8, <2>2, <2>4 DEF AfterFixed
  <2>7. /\ t \in AgentState /\ t.pc \in {"reading", "gather"} /\ t.threads = s.threads /\ t.pending = s.pending
        /\ t.visited = s.visited /\ t.frontier = s.frontier /\ t.movies = s.movies
    <3>1. "gather" \in Pcs
      BY DEF Pcs
    <3>2. /\ u.pc = "reading" /\ u.threads = s.threads /\ u.pending = s.pending
          /\ u.visited = s.visited /\ u.frontier = s.frontier /\ u.movies = s.movies
      BY <1>8, <2>5 DEF SameSearch
    <3> QED BY <2>5, <2>6, <3>1, <3>2 DEF AgentState
  <2>8. Sound(t, a) /\ Listed(t, a)
    BY <1>3, <1>5, <2>7 DEF Sound, Listed
  <2>9. Len(t.threads) <= Len(s.threads) + 1
    BY <1>5, <2>7
  <2> QED BY <1>1, <1>3, <1>8, <2>7, <2>8, <2>9, FixedAnswerKeeps
<1>9. CASE s.pc \notin {"searching", "reading"}
  <2>1. t = s
    BY <1>2, <1>9 DEF AfterFixed
  <2> QED BY <2>1, <1>6
<1> QED BY <1>6, <1>7, <1>8, <1>9

----------------------------------------------------------------------------
(* The plots.                                                               *)
\* A plot, or the next request for the same movie.
PlotText == Text \ {""}
PlotFound(p) == \E v \in PlotText : p = [plot |-> v]
PlotGoesOn(p, k) == \E st, i, x : st \in {"cand", "term", "check", "again"} /\ p = [job |-> <<"wiki", k, st, i, x>>]
PlotResult(p, r) == PlotFound(p) \/ PlotGoesOn(p, r.job[2])
LEMMA PlotStepIs ==
  ASSUME NEW r, NEW o, NEW page, PlotJob(r), r.job[3] # "term" => page \in Seq(Paragraph), NEW p, p = PlotStep(r, o, page)
  PROVE  PlotResult(p, r)
<1>1. PICK step, i, n, year, cands, terms, found :
        /\ step = r.job[3] /\ i = r.job[4] /\ n = r.job[2] /\ year = Film(r).year
        /\ cands = Len(WikiCandidates(Film(r).title, Film(r).year, PickOf(r.who, Film(r)).wiki))
        /\ terms = Len(WikiTerms(Film(r).title, Film(r).year)) /\ found = SearchFound(page)
  OBVIOUS
<1>2. PICK plot : plot = IF o = "page" /\ step # "term" THEN WikiPagePlot(page, year) ELSE ""
  OBVIOUS
<1>3. plot \in Text /\ "unavailable" \in Text
  <2>1. "" \in Text /\ "unavailable" \in Text
    BY DEF Text
  <2> QED BY <1>1, <1>2, <2>1, PlotIs
<1>4. \/ (plot # "" /\ p = [plot |-> plot]) \/ p = [plot |-> "unavailable"]
      \/ p = [job |-> <<"wiki", n, "cand", i + 1, <<>>>>]
      \/ p = [job |-> <<"wiki", n, "term", 1, <<>>>>] \/ p = [job |-> <<"wiki", n, "term", i + 1, <<>>>>]
      \/ p = [job |-> <<"wiki", n, "check", i, found>>] \/ p = [job |-> <<"wiki", n, "again", i, r.job[5]>>]
  <2>1. CASE step = "cand"
    BY <1>1, <1>2, <2>1 DEF PlotStep
  <2>2. CASE step = "term"
    BY <1>1, <1>2, <2>2 DEF PlotStep
  <2>3. CASE step = "check"
    BY <1>1, <1>2, <2>3 DEF PlotStep
  <2>4. CASE step = "again"
    BY <1>1, <1>2, <2>4 DEF PlotStep
  <2> QED BY <1>1, <2>1, <2>2, <2>3, <2>4 DEF PlotJob
<1>5. "unavailable" \in PlotText /\ (plot # "" => plot \in PlotText)
  BY <1>3 DEF PlotText
<1>6. PlotFound(p) \/ PlotGoesOn(p, n)
  <2>1. \/ \E v \in PlotText : p = [plot |-> v]
        \/ p = [job |-> <<"wiki", n, "cand", i + 1, <<>>>>]
        \/ p = [job |-> <<"wiki", n, "term", 1, <<>>>>] \/ p = [job |-> <<"wiki", n, "term", i + 1, <<>>>>]
        \/ p = [job |-> <<"wiki", n, "check", i, found>>] \/ p = [job |-> <<"wiki", n, "again", i, r.job[5]>>]
    BY <1>4, <1>5
  <2> QED BY <2>1 DEF PlotFound, PlotGoesOn
<1> QED BY <1>1, <1>6 DEF PlotResult

\* A movie is the same movie with another plot.
LEMMA PlotChanges ==
  ASSUME NEW m \in Movie, NEW v \in Text
  PROVE  [m EXCEPT !.plot = v] \in Movie /\ KeyOf([m EXCEPT !.plot = v]) = KeyOf(m)
<1>1. PICK n : n = [m EXCEPT !.plot = v]
  OBVIOUS
<1>2. n \in Movie /\ n.title = m.title /\ n.year = m.year
  BY <1>1 DEF Movie
<1> QED BY <1>1, <1>2 DEF KeyOf

\* An agent whose movies are the same but for their plots.
Retold(t, s, a) ==
  /\ t \in AgentState /\ t.pc = s.pc /\ t.i = s.i /\ t.then = s.then /\ t.frontier = s.frontier /\ t.visited = s.visited
  /\ t.threads = s.threads /\ t.pending = s.pending /\ t.cur = s.cur
  /\ Sound(t, a) /\ Listed(t, a)

LEMMA RetoldKeeps ==
  ASSUME NEW a \in Agents, NEW s, Sound(s, a), Listed(s, a), s.pc # "idle", NEW ms \in Seq(Movie),
         DOMAIN ms = DOMAIN s.movies, \A k \in DOMAIN ms : KeyOf(ms[k]) = KeyOf(s.movies[k]),
         NEW t, t = [s EXCEPT !.movies = ms]
  PROVE  Retold(t, s, a)
<1>1. s \in AgentState
  BY DEF Sound
<1>2. /\ t \in AgentState /\ t.pc = s.pc /\ t.i = s.i /\ t.then = s.then /\ t.frontier = s.frontier
      /\ t.visited = s.visited /\ t.threads = s.threads /\ t.pending = s.pending /\ t.cur = s.cur /\ t.movies = ms
  BY <1>1 DEF AgentState
<1>3. Sound(t, a)
  <2>1. Within(s, a) => Within(t, a)
    BY <1>2 DEF Within
  <2>2. Len(t.pending) <= Len(t.threads)
    BY <1>2 DEF Sound
  <2> QED BY <1>2, <2>1, <2>2 DEF Sound
<1>4. Len(ms) = Len(s.movies)
  <2>1. s.movies \in Seq(Movie)
    BY <1>1 DEF AgentState
  <2>2. Len(ms) \in Nat /\ Len(s.movies) \in Nat /\ 1..Len(ms) = 1..Len(s.movies)
    BY <2>1, LenProperties
  <2> QED BY <2>2
<1>5. KeysDiffer(s.movies) => KeysDiffer(ms)
  BY DEF KeysDiffer
<1>6. Listed(t, a)
  BY <1>2, <1>4, <1>5 DEF Listed
<1> QED BY <1>2, <1>3, <1>6 DEF Retold

LEMMA RetoldFits ==
  ASSUME NEW a, NEW s, NEW t, Retold(t, s, a)
  PROVE  /\ \A r : Fits(s, r, a) => Fits(t, r, a)
         /\ \A made, busy : CrawlCount(s, a, made, busy) => CrawlCount(t, a, made, busy)
         /\ \A made, open : FixedCount(s, a, made, open) => FixedCount(t, a, made, open)
<1>1. Spent(t, a) = Spent(s, a)
  BY DEF Spent, Hops, Retold
<1> QED BY <1>1 DEF Retold, Fits, CrawlJob, FixedJob, CrawlCount, FixedCount

\* All that the invariant says of an agent holds of the same agent with other plots.
SameBut(t, s, a) ==
  /\ Sound(t, a) /\ Listed(t, a) /\ \A q : Fits(s, q, a) => Fits(t, q, a)
  /\ \A made, busy : CrawlCount(s, a, made, busy) => CrawlCount(t, a, made, busy)
  /\ \A made, open : FixedCount(s, a, made, open) => FixedCount(t, a, made, open)
LEMMA RetoldIsSame ==
  ASSUME NEW a \in Agents, NEW s, Sound(s, a), Listed(s, a), NEW ms \in Seq(Movie),
         DOMAIN ms = DOMAIN s.movies, \A k \in DOMAIN ms : KeyOf(ms[k]) = KeyOf(s.movies[k]),
         NEW t, t = [s EXCEPT !.movies = ms]
  PROVE  SameBut(t, s, a)
<1>1. CASE s.pc # "idle"
  <2>1. Retold(t, s, a)
    BY <1>1, RetoldKeeps
  <2> QED BY <2>1, RetoldFits DEF Retold, SameBut
<1>2. CASE s.pc = "idle"
  <2>1. s = Idle /\ s \in AgentState
    BY <1>2 DEF Sound
  <2>2. s.movies = <<>>
    BY <2>1 DEF Idle
  <2>3. ms = s.movies
    BY <2>2, EmptySeq
  <2>4. t = s
    BY <2>1, <2>3 DEF AgentState
  <2> QED BY <2>4 DEF SameBut
<1> QED BY <1>1, <1>2

LEMMA PlotAnswerIs ==
  ASSUME Inv, NEW r \in requests, ~Reddit(r.job), NEW o, NEW page, page = PageAt(Address(r)), NEW p, p = PlotStep(r, o, page)
  PROVE  PlotResult(p, r)
<1>1. PICK at : at = Address(r)
  OBVIOUS
<1>2. r.job[3] # "term" => at[1] = "article"
  <2>1. r.job[1] = "wiki"
    BY DEF Reddit
  <2>2. CASE r.job[3] = "cand"
    BY <1>1, <2>1, <2>2 DEF Address
  <2>3. CASE r.job[3] # "cand" /\ r.job[3] # "term"
    BY <1>1, <2>1, <2>3 DEF Address
  <2> QED BY <2>2, <2>3
<1>3. r.job[3] # "term" => page \in Seq(Paragraph)
  BY <1>1, <1>2, PagesAreTyped
<1>4. PlotJob(r)
  BY DEF Inv, Fits
<1> QED BY <1>3, <1>4, PlotStepIs

LEMMA AnswerPlotKeeps ==
  ASSUME Inv, NEW r \in requests, NEW o, Answer(r, o), ~Reddit(r.job)
  PROVE  Inv'
<1>1. PICK a, s, k, page, p : /\ a = r.who /\ s = agent[a] /\ k = r.job[2] /\ page = PageAt(Address(r))
                              /\ p = PlotStep(r, o, page)
  OBVIOUS
<1>2. /\ a \in Agents /\ Request(r) /\ PlotJob(r) /\ Sound(s, a) /\ Listed(s, a) /\ s \in AgentState /\ IsFiniteSet(requests)
      /\ Counted(a)
  BY <1>1 DEF Inv, Request, Fits
<1>3. PlotResult(p, r)
  BY <1>1, PlotAnswerIs
<1>4. input' = input /\ sent' = sent
  BY DEF Answer
<1>5. PlotFound(p) \/ PlotGoesOn(p, k)
  BY <1>1, <1>3 DEF PlotResult
<1>6. CASE Cancelled(r) \/ o = "late" \/ "plot" \in DOMAIN p
  <2>1. PICK v : v = IF Cancelled(r) \/ o = "late" THEN "unavailable" ELSE p.plot
    OBVIOUS
  <2>2. v \in Text
    <3>1. "unavailable" \in Text
      BY DEF Text
    <3>2. "plot" \in DOMAIN p => p.plot \in Text
      <4>1. PlotText \subseteq Text
        BY DEF PlotText
      <4> QED BY <1>5, <4>1 DEF PlotFound, PlotGoesOn
    <3> QED BY <1>6, <2>1, <3>1, <3>2
  <2>3. requests' = requests \ {r} /\ agent' = [agent EXCEPT ![a].movies[k].plot = v]
    BY <1>1, <1>6, <2>1 DEF Answer
  <2>4. PICK ms : ms = [s.movies EXCEPT ![k].plot = v]
    OBVIOUS
  <2>5. PICK t : t = [s EXCEPT !.movies = ms]
    OBVIOUS
  <2>6. agent' = [agent EXCEPT ![a] = t]
    BY <1>1, <2>3, <2>4, <2>5
  <2>7. s.movies \in Seq(Movie) /\ DOMAIN s.movies = 1..Len(s.movies) /\ Len(s.movies) \in Nat
    BY <1>2, LenProperties DEF AgentState
  <2>8. DOMAIN ms = DOMAIN s.movies /\ ms \in Seq(Movie) /\ \A j \in DOMAIN ms : KeyOf(ms[j]) = KeyOf(s.movies[j])
    <3>1. PICK n \in Nat : n = Len(s.movies)
      BY <2>7
    <3>2. ASSUME NEW j \in 1..n PROVE ms[j] \in Movie /\ KeyOf(ms[j]) = KeyOf(s.movies[j])
      <4>1. s.movies[j] \in Movie
        BY <2>7, <3>1, ElementOfSeq
      <4>2. ms[j] = s.movies[j] \/ ms[j] = [s.movies[j] EXCEPT !.plot = v]
        BY <2>4, <2>7, <3>1
      <4> QED BY <2>2, <4>1, <4>2, PlotChanges
    <3>3. DOMAIN ms = 1..n /\ ms = [j \in 1..n |-> ms[j]]
      BY <2>4, <2>7, <3>1
    <3>4. ms \in [1..n -> Movie]
      BY <3>2, <3>3
    <3>5. ms \in Seq(Movie)
      BY <3>4
    <3> QED BY <2>7, <3>1, <3>2, <3>3, <3>5
  <2>9. SameBut(t, s, a)
    BY <1>1, <1>2, <2>5, <2>8, RetoldIsSame
  <2>10. Reqs(a)' = Reqs(a)
    BY <2>3 DEF Reqs
  <2>11. ASSUME NEW q \in requests' PROVE IF q.who = a THEN Request(q) /\ Fits(t, q, a) ELSE q \in requests
    BY <1>1, <2>3, <2>9 DEF Inv, SameBut
  <2>12. IsFiniteSet(requests') /\ \A q \in requests : q.who # a => q \in requests'
    BY <1>1, <1>2, <2>3, FS_RemoveElement
  <2>13. Crawls(a) => CrawlCount(t, a, Made(a), Busy(a))
    BY <1>1, <1>2, <2>9 DEF Counted, SameBut
  <2>14. ~Crawls(a) => FixedCount(t, a, Made(a), Cardinality(Reqs(a)))
    BY <1>1, <1>2, <2>9 DEF Counted, SameBut
  <2>15. Sound(t, a) /\ Listed(t, a)
    BY <2>9 DEF SameBut
  <2> QED BY <1>2, <1>4, <2>6, <2>15, <2>10, <2>11, <2>12, <2>13, <2>14, SearchUnchanged
<1>7. CASE ~(Cancelled(r) \/ o = "late" \/ "plot" \in DOMAIN p)
  <2>1. PICK st, i, x : st \in {"cand", "term", "check", "again"} /\ p = [job |-> <<"wiki", k, st, i, x>>]
    BY <1>7, <1>5 DEF PlotFound, PlotGoesOn
  <2>2. PICK q : q = Ask(a, p.job, "wait")
    OBVIOUS
  <2>3. requests' = (requests \ {r}) \cup {q} /\ agent' = agent
    BY <1>1, <1>7, <2>2 DEF Answer
  <2>4. PICK job : job = <<"wiki", k, st, i, x>>
    OBVIOUS
  <2>5. job[1] = "wiki" /\ job[3] = st /\ q = [who |-> a, job |-> job, at |-> "wait"]
    BY <2>1, <2>2, <2>4 DEF Ask
  <2>6. Request(q) /\ q.who = a /\ ~Reddit(q.job) /\ PlotJob(q)
    BY <1>2, <2>1, <2>5 DEF Request, Reddit, PlotJob
  <2>7. agent' = [agent EXCEPT ![a] = s]
    BY <1>1, <1>2, <2>3 DEF Inv
  <2>8. Reqs(a)' = Reqs(a)
    BY <2>3, <2>6 DEF Reqs
  <2>9. ASSUME NEW z \in requests' PROVE IF z.who = a THEN Request(z) /\ Fits(s, z, a) ELSE z \in requests
    <3>1. CASE z = q
      BY <2>6, <3>1 DEF Fits
    <3>2. CASE z # q
      BY <1>1, <2>3, <3>2 DEF Inv
    <3> QED BY <3>1, <3>2
  <2>10. IsFiniteSet(requests') /\ \A z \in requests : z.who # a => z \in requests'
    BY <1>1, <1>2, <2>3, FS_RemoveElement, FS_AddElement
  <2>11. Crawls(a) => CrawlCount(s, a, Made(a), Busy(a))
    BY <1>1, <1>2 DEF Counted
  <2>12. ~Crawls(a) => FixedCount(s, a, Made(a), Cardinality(Reqs(a)))
    BY <1>1, <1>2 DEF Counted
  <2> QED BY <1>2, <1>4, <2>7, <2>8, <2>9, <2>10, <2>11, <2>12, SearchUnchanged
<1> QED BY <1>6, <1>7

LEMMA AnswerKeeps == ASSUME Inv, NEW r \in requests, NEW o, Answer(r, o) PROVE Inv'
BY AnswerCrawlKeeps, AnswerFixedKeeps, AnswerPlotKeeps

LEMMA EnrichedIs ==
  ASSUME Inv, NEW a \in Agents, NEW s, s = agent[a], NEW ms, ms = Enriched(a)
  PROVE  /\ ms \in Seq(Movie) /\ DOMAIN ms = DOMAIN s.movies
         /\ \A k \in DOMAIN ms : KeyOf(ms[k]) = KeyOf(s.movies[k])
<1>1. s.movies \in Seq(Movie) /\ Ag(a) \in LoadedAgent
  BY DEF Inv, Configured, AgentState
<1>2. PICK n \in Nat : n = Len(s.movies)
  BY <1>1, LenProperties
<1>3. DOMAIN s.movies = 1..n
  BY <1>1, <1>2, LenProperties
<1>4. DOMAIN ms = 1..n /\ ms = [k \in 1..n |-> ms[k]]
  BY <1>3 DEF Enriched
<1>5. ASSUME NEW k \in 1..n PROVE ms[k] \in Movie /\ KeyOf(ms[k]) = KeyOf(s.movies[k])
  <2>1. PICK m \in Movie : m = s.movies[k]
    BY <1>1, <1>2, ElementOfSeq
  <2>2. PICK v \in Text : v = PickOf(a, m).plot
    BY <1>1, PickPlotIs
  <2>3. ms[k] = m \/ ms[k] = [m EXCEPT !.plot = v]
    BY <1>3, <2>1, <2>2 DEF Enriched
  <2> QED BY <2>1, <2>3, PlotChanges
<1>6. ms \in [1..n -> Movie]
  BY <1>4, <1>5
<1>7. ms \in Seq(Movie)
  BY <1>6
<1> QED BY <1>3, <1>4, <1>5, <1>7

LEMMA PlotJobsAre ==
  ASSUME Inv
  PROVE  IsFiniteSet(PlotJobs) /\ \A q \in PlotJobs : Request(q) /\ ~Reddit(q.job) /\ PlotJob(q)
<1>1. PICK D : D = [b \in Agents |-> {n \in DOMAIN agent[b].movies : Enriched(b)[n].plot = ""}]
  OBVIOUS
<1>2. PICK F : F = [b \in Agents |-> {Ask(b, <<"wiki", k, "cand", 1, <<>>>>, "new") : k \in D[b]}]
  OBVIOUS
<1>3. PICK S : S = {F[b] : b \in Agents}
  OBVIOUS
<1>4. PlotJobs = UNION S
  <2>1. \A b \in Agents : F[b] = {Ask(b, <<"wiki", k, "cand", 1, <<>>>>, "new") :
                                   k \in {n \in DOMAIN agent[b].movies : Enriched(b)[n].plot = ""}}
    BY <1>1, <1>2
  <2>2. S = {{Ask(b, <<"wiki", k, "cand", 1, <<>>>>, "new") :
                k \in {n \in DOMAIN agent[b].movies : Enriched(b)[n].plot = ""}} : b \in Agents}
    BY <1>3, <2>1
  <2> QED BY <2>2 DEF PlotJobs
<1>5. ASSUME NEW b \in Agents PROVE IsFiniteSet(F[b]) /\ \A q \in F[b] : Request(q) /\ ~Reddit(q.job) /\ PlotJob(q)
  <2>1. IsFiniteSet(D[b])
    <3>1. agent[b].movies \in Seq(Movie)
      BY DEF Inv, AgentState
    <3>2. PICK n \in Nat : DOMAIN agent[b].movies = 1..n
      BY <3>1, LenProperties
    <3>3. D[b] \subseteq 1..n
      BY <1>1, <3>2
    <3>4. IsFiniteSet(1..n)
      BY FS_Interval
    <3> QED BY <3>3, <3>4, FS_Subset
  <2>2. PICK f : f = [k \in D[b] |-> Ask(b, <<"wiki", k, "cand", 1, <<>>>>, "new")]
    OBVIOUS
  <2>3. f \in [D[b] -> F[b]] /\ \A y \in F[b] : \E x \in D[b] : f[x] = y
    BY <1>2, <2>2
  <2>4. IsFiniteSet(F[b])
    BY <2>1, <2>3, AtMostAsMany
  <2>5. ASSUME NEW q \in F[b] PROVE Request(q) /\ ~Reddit(q.job) /\ PlotJob(q)
    <3>1. PICK k : q = Ask(b, <<"wiki", k, "cand", 1, <<>>>>, "new")
      BY <1>2
    <3>2. PICK job : job = <<"wiki", k, "cand", 1, <<>>>>
      OBVIOUS
    <3>3. job[1] = "wiki" /\ job[3] = "cand" /\ q = [who |-> b, job |-> job, at |-> "new"]
      BY <3>1, <3>2 DEF Ask
    <3> QED BY <3>3 DEF Request, Reddit, PlotJob
  <2> QED BY <2>4, <2>5
<1>6. IsFiniteSet(S)
  <2>1. PICK f : f = [b \in Agents |-> F[b]]
    OBVIOUS
  <2>2. f \in [Agents -> S] /\ \A y \in S : \E x \in Agents : f[x] = y
    BY <1>3, <2>1
  <2>3. IsFiniteSet(Agents)
    BY DEF Inv, Configured
  <2> QED BY <2>2, <2>3, AtMostAsMany
<1>7. IsFiniteSet(PlotJobs)
  BY <1>3, <1>4, <1>5, <1>6, FS_UNION
<1> QED BY <1>3, <1>4, <1>5, <1>7

(* A step that leaves the agents and their requests alone.                  *)
LEMMA StutterKeeps ==
  ASSUME Inv, input' = input, agent' = agent, requests' = requests, sent' = sent
  PROVE  Inv'
<1>1. Configured' /\ Agents' = Agents
  BY SameSettings DEF Inv
<1>2. ASSUME NEW a \in Agents PROVE Sound(agent[a], a)' /\ Listed(agent[a], a)' /\ OneRequest(a)' /\ Counted(a)'
  <2>1. Sound(agent[a], a)' /\ Listed(agent[a], a)'
    BY SameSettings DEF Inv
  <2>2. Reqs(a)' = Reqs(a)
    BY DEF Reqs
  <2>3. Made(a)' = Made(a) /\ Busy(a)' = Busy(a)
    BY <2>2 DEF Made, Unsent, Busy
  <2>4. OneRequest(a)'
    BY <2>2, SameSettings DEF Inv, OneRequest
  <2>5. Counted(a)'
    BY <2>2, <2>3, SameSettings DEF Inv, Counted
  <2> QED BY <2>1, <2>4, <2>5
<1>3. ASSUME NEW r \in requests PROVE Request(r)' /\ Fits(agent[r.who], r, r.who)'
  BY SameSettings DEF Inv
<1> QED BY <1>1, <1>2, <1>3 DEF Inv

LEMMA AgentsDoneKeeps == ASSUME Inv, AgentsDone PROVE Inv'
<1>1. input' = input /\ sent' = sent
  BY DEF AgentsDone
<1>2. CASE UNCHANGED <<agent, requests>>
  BY <1>1, <1>2, StutterKeeps
<1>3. CASE /\ agent' = [a \in Agents |-> [agent[a] EXCEPT !.movies = Enriched(a)]]
           /\ \E js \in SUBSET PlotJobs : requests' = requests \cup js
  <2>1. PICK js \in SUBSET PlotJobs : requests' = requests \cup js
    BY <1>3
  <2>2. Configured' /\ Agents' = Agents
    BY <1>1, SameSettings DEF Inv
  <2>3. IsFiniteSet(requests')
    <3>1. IsFiniteSet(js)
      BY PlotJobsAre, FS_Subset
    <3> QED BY <2>1, <3>1, FS_Union DEF Inv
  <2>4. ASSUME NEW a \in Agents PROVE SameBut(agent'[a], agent[a], a)
    <3>1. PICK s, ms, t : s = agent[a] /\ ms = Enriched(a) /\ t = [s EXCEPT !.movies = ms]
      OBVIOUS
    <3>2. Sound(s, a) /\ Listed(s, a)
      BY <3>1 DEF Inv
    <3>3. SameBut(t, s, a)
      BY <3>1, <3>2, EnrichedIs, RetoldIsSame
    <3>4. agent'[a] = t
      BY <1>3, <3>1
    <3> QED BY <3>1, <3>3, <3>4
  <2>5. ASSUME NEW a \in Agents
        PROVE  /\ agent'[a] \in AgentState /\ Sound(agent[a], a)' /\ Listed(agent[a], a)' /\ OneRequest(a)' /\ Counted(a)'
    <3>1. PICK s, t : s = agent[a] /\ t = agent'[a]
      OBVIOUS
    <3>2. SameBut(t, s, a)
      BY <2>4, <3>1
    <3>3. Sound(t, a)' /\ Listed(t, a)' /\ t \in AgentState
      BY <1>1, <3>2, SameSettings DEF SameBut, Sound
    <3>4. Reqs(a)' = Reqs(a)
      BY <2>1, PlotJobsAre DEF Reqs
    <3>5. Made(a)' = Made(a) /\ Busy(a)' = Busy(a)
      BY <1>1, <3>4 DEF Made, Unsent, Busy
    <3>6. OneRequest(a)'
      BY <1>1, <3>4, SameSettings DEF Inv, OneRequest
    <3>7. Counted(a)
      BY DEF Inv
    <3>8. Counted(a)'
      BY <1>1, <3>1, <3>2, <3>4, <3>5, <3>7, SameSettings DEF SameBut, Counted
    <3> QED BY <3>1, <3>3, <3>6, <3>8
  <2>6. agent' \in [Agents -> AgentState]'
    BY <1>3, <2>2, <2>5
  <2>7. ASSUME NEW r \in requests' PROVE Request(r)' /\ Fits(agent[r.who], r, r.who)'
    <3>1. PICK t : t = agent'[r.who]
      OBVIOUS
    <3>2. CASE r \in requests
      <4>1. Request(r) /\ Fits(agent[r.who], r, r.who) /\ r.who \in Agents
        BY <3>2 DEF Inv, Request
      <4>2. Fits(t, r, r.who)
        BY <2>4, <3>1, <4>1 DEF SameBut
      <4>3. Request(r)' /\ Fits(t, r, r.who)'
        BY <1>1, <4>1, <4>2, SameSettings
      <4> QED BY <3>1, <4>3
    <3>3. CASE r \notin requests
      <4>1. Request(r) /\ ~Reddit(r.job) /\ PlotJob(r)
        BY <2>1, <3>3, PlotJobsAre
      <4>2. Fits(t, r, r.who)
        BY <4>1 DEF Fits
      <4>3. Request(r)' /\ Fits(t, r, r.who)'
        BY <1>1, <4>1, <4>2, SameSettings
      <4> QED BY <3>1, <4>3
    <3> QED BY <3>2, <3>3
  <2>8. sent' \in [Agents -> Nat]
    BY <1>1 DEF Inv
  <2> QED BY <2>2, <2>3, <2>5, <2>6, <2>7, <2>8 DEF Inv
<1>4. \/ UNCHANGED <<agent, requests>>
      \/ /\ agent' = [a \in Agents |-> [agent[a] EXCEPT !.movies = Enriched(a)]]
         /\ \E js \in SUBSET PlotJobs : requests' = requests \cup js
  BY DEF AgentsDone
<1> QED BY <1>2, <1>3, <1>4

LEMMA InvStep == Inv /\ [Next]_vars => Inv'
<1> SUFFICES ASSUME Inv, [Next]_vars PROVE Inv'
  OBVIOUS
<1>1. CASE TestProxies
  BY <1>1, StutterKeeps DEF TestProxies
<1>2. CASE AgentsDone
  BY <1>2, AgentsDoneKeeps
<1>3. CASE PlotsDone
  BY <1>3, StutterKeeps DEF PlotsDone
<1>4. CASE Expire
  BY <1>4, StutterKeeps DEF Expire
<1>5. CASE AgentStep
  BY <1>5, StartKeeps, CrawlKeeps, ReadThreadsKeeps, AllReadKeeps, GatherKeeps, FallbackKeeps DEF AgentStep
<1>6. CASE RequestStep
  BY <1>6, BeginKeeps, TakeSlotKeeps, AnswerKeeps DEF RequestStep
<1>7. CASE UNCHANGED vars
  BY <1>7, StutterKeeps DEF vars
<1> QED BY <1>1, <1>2, <1>3, <1>4, <1>5, <1>6, <1>7 DEF Next

(* An agent reports no movie twice and no more than its limit, whatever the *)
(* threads repeat, whichever order the goroutines answered in, and whatever *)
(* its picks repeat of what was found (agent.Run, scrapeReddit).            *)
THEOREM NoRepeats == Spec => []NoMovieTwice
<1>1. Inv => NoMovieTwice
  BY DEF Inv, Listed, NoMovieTwice
<1> QED BY <1>1, InvInit, InvStep, PTL DEF Spec

LEMMA Sums ==
  /\ \A made, i, q \in Nat : \A b \in 0..1 :
       \/ made <= i - 1 + b /\ i + b <= 2 * q + 1
       \/ made <= 2 * q + i - 1 + b /\ i + b <= q + 1
       => made <= 3 * q
  /\ \A q, m, n, h, g, t \in Nat : m <= t /\ h <= g => 3 * q + (m - n) + h <= 3 * q + t + g
OBVIOUS

(* However the pages link to each other, a crawl asks for each subreddit    *)
(* once, reads each thread once, stays within its limits, and sends no more *)
(* requests than these allow, nor does a fixed search (scrapeReddit,        *)
(* scrapeRedditDiscover).                                                   *)
THEOREM CrawlStaysBounded == Spec => []CrawlIsBounded
<1>1. Inv => CrawlIsBounded
  <2> SUFFICES ASSUME Inv, NEW a \in Agents
               PROVE  LET s == agent[a] q == Len(Ag(a).queries) IN
                      /\ Cardinality(s.visited) + Len(s.frontier) <= Ag(a).maxSubs
                      /\ \A m, n \in DOMAIN s.threads : Crawls(a) /\ m # n => s.threads[m].id # s.threads[n].id
                      /\ Crawls(a) => sent[a] <= 3 * q + Ag(a).maxThreads + Ag(a).maxSubs * (1 + q)
                      /\ ~Crawls(a) => sent[a] <= 2 * q * Len(Ag(a).subs)
    BY DEF CrawlIsBounded
  <2>1. PICK s : s = agent[a]
    OBVIOUS
  <2>2. Sound(s, a) /\ s \in AgentState /\ Counted(a) /\ Ag(a) \in LoadedAgent
    BY <2>1 DEF Inv, Configured
  <2>3. PICK q \in Nat : q = Queries(a) /\ q = Len(Ag(a).queries)
    BY <2>2, QueriesIsNat DEF Queries
  <2>4. PICK x \in Nat, l \in Nat, subs \in Nat, ths \in Nat :
          x = Len(Ag(a).subs) /\ l = Ag(a).limit /\ subs = Ag(a).maxSubs /\ ths = Ag(a).maxThreads
    BY <2>2, LenProperties DEF LoadedAgent, Agent
  <2>5. PICK made \in Nat, k \in Nat : made = Made(a) /\ k = sent[a] /\ k <= made
    <3>1. IsFiniteSet(Unsent(a))
      BY MadeIsNat, FS_Subset DEF Unsent
    <3>2. PICK c \in Nat : c = Cardinality(Unsent(a))
      BY <3>1, FS_CardinalityType
    <3>3. PICK k \in Nat : k = sent[a]
      BY DEF Inv
    <3> QED BY <3>2, <3>3 DEF Made
  <2>6. CASE Crawls(a)
    <3>1. Within(s, a) /\ CrawlCount(s, a, made, Busy(a)) /\ Busy(a) \in 0..1
      <4>1. Busy(a) \in 0..1
        BY DEF Busy
      <4>2. Within(s, a) /\ CrawlCount(s, a, made, Busy(a))
        BY <2>1, <2>2, <2>5, <2>6 DEF Sound, Counted
      <4> QED BY <4>1, <4>2
    <3>2. PICK c \in Nat, f \in Nat, m \in Nat, n \in Nat :
            c = Cardinality(s.visited) /\ f = Len(s.frontier) /\ m = Len(s.threads) /\ n = Len(s.pending)
      BY <2>2, <3>1, LenProperties, FS_CardinalityType DEF Within, AgentState
    <3>3. c <= subs /\ m <= ths
      BY <2>4, <3>1, <3>2 DEF Within
    <3>4. made <= Spent(s, a)
      <4>1. Spent(s, a) \in Nat /\ 3 * q <= Spent(s, a) /\ s.i \in Nat /\ s.i # 0
        BY <2>2, <2>3, <2>6, SpentIs DEF AgentState
      <4>2. PICK sp \in Nat, i \in Nat, b \in 0..1 : sp = Spent(s, a) /\ i = s.i /\ b = Busy(a)
        BY <3>1, <4>1
      <4>3. CrawlCount(s, a, made, b) /\ 3 * q <= sp
        BY <3>1, <4>1, <4>2
      <4>4. CASE s.pc \in {"subs", "all"}
        <5>1. \/ made <= i - 1 + b /\ i + b <= 2 * q + 1
              \/ made <= 2 * q + i - 1 + b /\ i + b <= q + 1
          BY <2>3, <4>2, <4>3, <4>4 DEF CrawlCount
        <5>2. made <= 3 * q
          BY <5>1, Sums
        <5> QED BY <2>3, <2>5, <4>2, <4>3, <5>2
      <4>5. CASE s.pc = "sub"
        <5>1. made <= sp - q + i - 1 + b /\ i + b <= q + 1
          BY <2>3, <4>2, <4>3, <4>5 DEF CrawlCount
        <5>2. made <= sp
          BY <4>2, <5>1
        <5> QED BY <4>2, <5>2
      <4>6. CASE s.pc = "idle"
        <5>1. made = 0
          BY <4>3, <4>6 DEF CrawlCount
        <5> QED BY <4>2, <5>1
      <4>7. CASE s.pc \notin {"idle", "subs", "all", "sub"}
        BY <4>3, <4>7 DEF CrawlCount
      <4> QED BY <4>4, <4>5, <4>6, <4>7
    <3>5. Spent(s, a) <= 3 * q + ths + subs * (1 + q)
      <4>1. PICK h \in Nat, g \in Nat : h = c * (1 + q) /\ g = subs * (1 + q)
        OBVIOUS
      <4>2. h <= g
        <5>1. \A u, v, w \in Nat : u <= v => u * w <= v * w
          OBVIOUS
        <5> QED BY <3>3, <4>1, <5>1
      <4>3. Spent(s, a) = 3 * q + (m - n) + h
        BY <2>3, <3>2, <4>1 DEF Spent, Hops
      <4>4. 3 * q + (m - n) + h <= 3 * q + ths + g
        <5>1. h \in Nat /\ g \in Nat
          BY <4>1
        <5> QED BY <3>3, <4>2, <5>1, Sums
      <4> QED BY <4>1, <4>3, <4>4
    <3>6. sent[a] <= 3 * q + ths + subs * (1 + q)
      <4>1. PICK sp \in Nat, g \in Nat : sp = Spent(s, a) /\ g = subs * (1 + q)
        BY <2>2, <2>6, SpentIs
      <4> QED BY <2>5, <3>4, <3>5, <4>1
    <3> QED BY <2>1, <2>3, <2>4, <2>6, <3>1, <3>6 DEF Within, Crawls
  <2>7. CASE ~Crawls(a)
    <3>1. s.visited = {} /\ s.frontier = <<>>
      BY <2>2, <2>7 DEF Sound
    <3>2. Cardinality(s.visited) + Len(s.frontier) <= Ag(a).maxSubs
      BY <2>4, <3>1, FS_EmptySet
    <3>3. made <= 2 * Pairs(a)
      BY <2>2, <2>5, <2>7 DEF Counted, FixedCount
    <3>4. Pairs(a) = q * x /\ 2 * (q * x) = 2 * q * x
      <4>1. \A u, v \in Nat : 2 * (u * v) = 2 * u * v
        OBVIOUS
      <4> QED BY <2>3, <2>4, <4>1 DEF Pairs
    <3>5. sent[a] <= 2 * q * x
      BY <2>5, <3>3, <3>4
    <3> QED BY <2>1, <2>3, <2>4, <2>7, <3>2, <3>5 DEF Crawls
  <2> QED BY <2>6, <2>7
<1> QED BY <1>1, InvInit, InvStep, PTL DEF Spec

----------------------------------------------------------------------------
(* The report.  What is found has no plot yet, and a movie has none or one  *)
(* its picks give until the plots are looked for.                           *)
Told(a) == {m \in Movie : m.plot = "" \/ m.plot \in Given(a, m)}
Filled(s, a) == Len(s.movies) < Ag(a).limit => Keys(Ag(a).picks) \subseteq Keys(s.movies)
Kept(s, a) ==
  /\ s.found \in Seq(NoPlot)
  /\ phase = "agents" => s.movies \in Seq(Told(a))
  /\ s.pc = "ready" /\ ~s.error /\ ~expired => Filled(s, a)
  /\ input.offline => /\ s.pc \in {"idle", "ready"}
                      /\ \A k \in DOMAIN s.movies : s.movies[k].plot = Ag(a).picks[k].plot

\* A request for a plot is for a movie whose picks give none; a movie has its
\* plot, or such a request.
Wiki(r) == ~Reddit(r.job)
Wanted(s, r, a) == Wiki(r) => r.job[2] \in DOMAIN s.movies /\ Given(a, s.movies[r.job[2]]) = {}
HasPlot(m, a) == Given(a, m) # {} => m.plot \in Given(a, m)
Asked(a, k) == \E r \in requests : r.who = a /\ Wiki(r) /\ r.job[2] = k
Plotted(s, a) == \A k \in DOMAIN s.movies : HasPlot(s.movies[k], a) /\ (s.movies[k].plot = "" => Asked(a, k))

\* A run that its deadline has not cut off so far.
InTime == ~expired /\ ~input.test
Report ==
  /\ \A a \in Agents : Kept(agent[a], a)
  /\ \A r \in requests : Wanted(agent[r.who], r, r.who) /\ (Wiki(r) => phase = "plots")
  /\ phase = "plots" => ~input.offline /\ \A a \in Agents : agent[a].pc \in {"idle", "ready"}
  /\ phase \in {"plots", "done"} /\ InTime =>
       \A a \in Agents : agent[a].pc = "ready" /\ ~agent[a].error /\ (~input.offline => Plotted(agent[a], a))

LEMMA SameReport ==
  ASSUME input' = input
  PROVE  /\ Agents' = Agents /\ \A s, a : Filled(s, a)' <=> Filled(s, a)
         /\ \A a, m : Given(a, m)' = Given(a, m) /\ (HasPlot(m, a)' <=> HasPlot(m, a))
         /\ \A s, r, a : Wanted(s, r, a)' <=> Wanted(s, r, a)
         /\ \A r : Wiki(r)' <=> Wiki(r)
<1>1. Agents' = Agents /\ \A a : Ag(a)' = Ag(a)
  BY DEF Agents, Ag, Cfg
<1>2. \A a, m : Given(a, m)' = Given(a, m)
  BY <1>1 DEF Given
<1>3. \A r : Wiki(r)' <=> Wiki(r)
  BY DEF Wiki
<1> QED BY <1>1, <1>2, <1>3 DEF Filled, HasPlot, Wanted

\* What an agent holds is all right as long as the run goes on.
LEMMA StillKept ==
  ASSUME input' = input, phase' = "agents" => phase = "agents", expired => expired', NEW s, NEW a, Kept(s, a)
  PROVE  Kept(s, a)'
<1>1. Ag(a)' = Ag(a) /\ Told(a)' = Told(a)
  <2>1. Ag(a)' = Ag(a)
    BY DEF Ag, Cfg
  <2> QED BY <2>1, SameReport DEF Told
<1> QED BY <1>1, SameReport DEF Kept

LEMMA GivenByKey ==
  ASSUME NEW a, NEW m, NEW n, KeyOf(m) = KeyOf(n)
  PROVE  Given(a, m) = Given(a, n)
BY DEF Given

LEMMA NoneIsGiven ==
  ASSUME NEW a, NEW m
  PROVE  "" \notin Given(a, m)
BY DEF Given

LEMMA ReportInit == Init => Report
<1> SUFFICES ASSUME Init PROVE Report
  OBVIOUS
<1>1. agent = [a \in Agents |-> Idle] /\ requests = {} /\ phase \in {"agents", "failed"}
  BY DEF Init
<1>2. ASSUME NEW a \in Agents PROVE Kept(agent[a], a)
  <2>1. Idle.found = <<>> /\ Idle.movies = <<>> /\ Idle.pc = "idle"
    BY DEF Idle
  <2>2. <<>> \in Seq(NoPlot) /\ <<>> \in Seq(Told(a)) /\ DOMAIN <<>> = {}
    BY EmptySeq
  <2> QED BY <1>1, <2>1, <2>2 DEF Kept
<1> QED BY <1>1, <1>2 DEF Report

(* A step of one agent while the agents run.                                *)
LEMMA AgentReports ==
  ASSUME Inv, Report, phase = "agents", input' = input, phase' = phase, expired' = expired,
         NEW a \in Agents, NEW t, agent' = [agent EXCEPT ![a] = t], Kept(t, a), \A r \in requests' : ~Wiki(r)
  PROVE  Report'
<1>1. Agents' = Agents /\ agent'[a] = t /\ \A b \in Agents : b # a => agent'[b] = agent[b]
  BY SameReport DEF Inv
<1>2. ASSUME NEW b \in Agents PROVE Kept(agent[b], b)'
  <2>1. PICK u : u = agent'[b]
    OBVIOUS
  <2>2. Kept(u, b)
    BY <1>1, <2>1 DEF Report
  <2>3. Kept(u, b)'
    BY <2>2, StillKept
  <2> QED BY <2>1, <2>3
<1>3. ASSUME NEW r \in requests' PROVE Wanted(agent[r.who], r, r.who)' /\ ~Wiki(r)'
  BY SameReport DEF Wanted
<1> QED BY <1>1, <1>2, <1>3 DEF Report

\* The requests that are made while the agents run are not for plots.
LEMMA NoneForPlots ==
  ASSUME Report, phase = "agents"
  PROVE  \A r \in requests : ~Wiki(r)
BY DEF Report

\* An agent that goes on with its search.
LEMMA SearchIsKept ==
  ASSUME NEW s, NEW a, Kept(s, a), s.pc \notin {"idle", "ready"},
         NEW t, t.found \in Seq(NoPlot), t.movies = s.movies, t.pc # "ready"
  PROVE  Kept(t, a) /\ ~input.offline
BY DEF Kept

LEMMA StillSearching ==
  ASSUME Report, Working, NEW a \in Agents, agent[a].pc \notin {"idle", "ready"}
  PROVE  phase = "agents"
BY DEF Report, Working

LEMMA StartReports == ASSUME Inv, Report, NEW a \in Agents, Start(a) PROVE Report'
<1>1. input' = input /\ phase' = phase /\ expired' = expired /\ phase = "agents" /\ agent[a].pc = "idle"
  BY DEF Start
<1>2. agent[a] = Idle /\ Ag(a) \in LoadedAgent /\ Idle \in AgentState
  BY <1>1, IdleHasNone, InitSound DEF Sound
<1>3. PICK Q : Q = {Ask(a, <<"search", p[1], p[2]>>, "new") : p \in Range(Ag(a).subs) \X Range(Ag(a).queries)}
  OBVIOUS
<1>4. PICK ms : ms = [k \in DOMAIN Offline(a) |-> FromPick(Offline(a)[k], "curated")]
  OBVIOUS
<1>5. \/ agent' = [agent EXCEPT ![a] = [Idle EXCEPT !.pc = "ready", !.error = TRUE]]
      \/ input.offline /\ agent' = [agent EXCEPT ![a] = [Idle EXCEPT !.pc = "ready", !.movies = ms]]
      \/ ~input.offline /\ agent' = [agent EXCEPT ![a] = [Idle EXCEPT !.pc = "gather"]]
      \/ ~input.offline /\ agent' = [agent EXCEPT ![a] = EnqueueAll([Idle EXCEPT !.pc = "subs"], Ag(a).subs, a)] /\ Crawls(a)
      \/ ~input.offline /\ agent' = [agent EXCEPT ![a] = [Idle EXCEPT !.pc = "searching"]]
  BY <1>2, <1>4 DEF Start, Crawls
<1>6. \A r \in requests' : ~Wiki(r)
  <2>1. requests' \subseteq requests \cup Q
    BY <1>3 DEF Start
  <2>2. ASSUME NEW r \in Q PROVE ~Wiki(r)
    <3>1. PICK sub, q : r = Ask(a, <<"search", sub, q>>, "new")
      BY <1>3
    <3>2. PICK job : job = <<"search", sub, q>>
      OBVIOUS
    <3>3. r.job = job /\ job[1] = "search"
      BY <3>1, <3>2 DEF Ask
    <3> QED BY <3>3 DEF Wiki, Reddit
  <2> QED BY <1>1, <2>1, <2>2, NoneForPlots
<1>7. Idle.found = <<>> /\ Idle.movies = <<>> /\ Idle.found \in Seq(NoPlot) /\ Idle.movies \in Seq(Told(a)) /\ DOMAIN Idle.movies = {}
  BY EmptySeq DEF Idle
<1>8. ASSUME NEW t, t.found = Idle.found, t.movies = Idle.movies, input.offline => t.pc \in {"idle", "ready"}, t.pc = "ready" => t.error
      PROVE  Kept(t, a)
  BY <1>7, <1>8 DEF Kept
<1>9. CASE agent' = [agent EXCEPT ![a] = [Idle EXCEPT !.pc = "ready", !.error = TRUE]]
  <2>1. PICK t : t = [Idle EXCEPT !.pc = "ready", !.error = TRUE]
    OBVIOUS
  <2>2. t.found = Idle.found /\ t.movies = Idle.movies /\ t.pc = "ready" /\ t.error
    BY <1>2, <2>1 DEF AgentState
  <2>3. Kept(t, a)
    BY <1>8, <2>2
  <2> QED BY <1>1, <1>6, <1>9, <2>1, <2>3, AgentReports
<1>10. CASE input.offline /\ agent' = [agent EXCEPT ![a] = [Idle EXCEPT !.pc = "ready", !.movies = ms]]
  <2>1. PICK t : t = [Idle EXCEPT !.pc = "ready", !.movies = ms]
    OBVIOUS
  <2>2. t.found = Idle.found /\ t.movies = ms /\ t.pc = "ready"
    BY <1>2, <2>1 DEF AgentState
  <2>3. PICK ps, l : ps = Ag(a).picks /\ l = Ag(a).limit
    OBVIOUS
  <2>4. ps \in Seq(Pick) /\ l \in Nat
    BY <1>2, <2>3 DEF LoadedAgent, Agent
  <2>5. PICK n : n = IF Len(ps) < l THEN Len(ps) ELSE l
    OBVIOUS
  <2>6. n \in Nat /\ n \in 0..Len(ps) /\ (n < l => n = Len(ps)) /\ DOMAIN ps = 1..Len(ps) /\ Len(ps) \in Nat
    BY <2>4, <2>5, LenProperties
  <2>7. PICK f : f = SubSeq(ps, 1, n)
    OBVIOUS
  <2>8. f \in Seq(Pick) /\ Len(f) = n /\ DOMAIN f = 1..n /\ \A k \in 1..n : f[k] = ps[k]
    BY <2>4, <2>6, <2>7, CutIsTyped, LenProperties
  <2>9. Offline(a) = f
    BY <2>3, <2>5, <2>7 DEF Offline
  <2>10. ms = [k \in 1..n |-> FromPick(ps[k], "curated")]
    BY <1>4, <2>8, <2>9
  <2>11. ms \in Seq(Movie) /\ DOMAIN ms = 1..n /\ Len(ms) = n
    <3>1. "curated" \in Source
      BY DEF Source
    <3>2. ms \in Seq(Movie)
      BY <2>4, <2>6, <2>10, <3>1, PicksAreMovies
    <3>3. DOMAIN ms = 1..n /\ n \in Nat
      BY <2>6, <2>10
    <3>4. DOMAIN ms = 1..Len(ms) /\ Len(ms) \in Nat
      BY <3>2, LenProperties
    <3>5. \A i, j \in Nat : 1..i = 1..j => i = j
      OBVIOUS
    <3>6. Len(ms) = n
      BY <3>3, <3>4, <3>5
    <3> QED BY <3>2, <3>3, <3>6
  <2>12. ASSUME NEW k \in 1..n PROVE ms[k].plot = ps[k].plot /\ KeyOf(ms[k]) = KeyOf(ps[k]) /\ ms[k] \in Told(a)
    <3>1. ms[k].plot = ps[k].plot /\ KeyOf(ms[k]) = KeyOf(ps[k]) /\ ms[k] \in Movie /\ k \in DOMAIN ps
      <4>1. ms[k] = FromPick(ps[k], "curated") /\ k \in DOMAIN ps
        <5>1. k \in 1..Len(ps) /\ DOMAIN ps = 1..Len(ps)
          <6>1. \A x, y \in Nat : x \in 0..y => \A i \in 1..x : i \in 1..y
            OBVIOUS
          <6>2. n \in Nat /\ Len(ps) \in Nat /\ n \in 0..Len(ps) /\ DOMAIN ps = 1..Len(ps)
            BY <2>6
          <6> QED BY <6>1, <6>2
        <5>2. ms[k] = FromPick(ps[k], "curated")
          BY <2>10
        <5> QED BY <5>1, <5>2
      <4>2. ms[k].plot = ps[k].plot /\ KeyOf(ms[k]) = KeyOf(ps[k])
        BY <4>1 DEF FromPick, KeyOf
      <4>3. ms[k] \in Movie
        BY <2>11, ElementOfSeq
      <4> QED BY <4>1, <4>2, <4>3
    <3>2. ps[k] \in Range(ps)
      BY <3>1 DEF Range
    <3>3. ps[k].plot # "" => ps[k].plot \in Given(a, ms[k])
      BY <2>3, <3>1, <3>2 DEF Given
    <3> QED BY <3>1, <3>3 DEF Told
  <2>13. ms \in Seq(Told(a))
    <3>1. ms \in [1..n -> Told(a)]
      BY <2>10, <2>12
    <3>2. n \in Nat
      BY <2>6
    <3> QED BY <3>1, <3>2
  <2>14. Filled(t, a)
    <3> SUFFICES ASSUME n < l PROVE Keys(ps) \subseteq Keys(ms)
      BY <2>2, <2>3, <2>11 DEF Filled
    <3>1. DOMAIN ps = DOMAIN ms
      BY <2>6, <2>11
    <3> QED BY <2>11, <2>12, <3>1 DEF Keys
  <2>15. Kept(t, a)
    BY <1>7, <2>2, <2>3, <2>11, <2>12, <2>13, <2>14 DEF Kept
  <2> QED BY <1>1, <1>6, <1>10, <2>1, <2>15, AgentReports
<1>11. CASE ~input.offline /\ agent' = [agent EXCEPT ![a] = [Idle EXCEPT !.pc = "gather"]]
  <2>1. PICK t : t = [Idle EXCEPT !.pc = "gather"]
    OBVIOUS
  <2>2. t.found = Idle.found /\ t.movies = Idle.movies /\ t.pc = "gather"
    BY <1>2, <2>1 DEF AgentState
  <2>3. Kept(t, a)
    BY <1>8, <1>11, <2>2
  <2> QED BY <1>1, <1>6, <1>11, <2>1, <2>3, AgentReports
<1>12. CASE ~input.offline /\ agent' = [agent EXCEPT ![a] = EnqueueAll([Idle EXCEPT !.pc = "subs"], Ag(a).subs, a)] /\ Crawls(a)
  <2>1. PICK s : s = [Idle EXCEPT !.pc = "subs"]
    OBVIOUS
  <2>2. /\ s \in AgentState /\ s.pc = "subs" /\ s.found = Idle.found /\ s.movies = Idle.movies /\ s.visited = Idle.visited
        /\ s.frontier = Idle.frontier /\ s.threads = Idle.threads /\ s.pending = Idle.pending
    BY <1>2, <2>1 DEF AgentState, Pcs
  <2>3. Within(s, a)
    <3>1. Within(Idle, a)
      BY <1>2, <1>12, InitSound DEF Sound
    <3> QED BY <2>2, <3>1 DEF Within
  <2>4. Ag(a).subs \in Seq(Text)
    BY <1>2 DEF LoadedAgent, Agent
  <2>5. PICK t : t = EnqueueAll(s, Ag(a).subs, a)
    OBVIOUS
  <2>6. Grown(t, s)
    BY <1>2, <2>2, <2>3, <2>4, <2>5, EnqueueAllKeeps
  <2>7. Kept(t, a)
    BY <1>8, <1>12, <2>2, <2>6 DEF Grown
  <2> QED BY <1>1, <1>6, <1>12, <2>1, <2>5, <2>7, AgentReports
<1>13. CASE ~input.offline /\ agent' = [agent EXCEPT ![a] = [Idle EXCEPT !.pc = "searching"]]
  <2>1. PICK t : t = [Idle EXCEPT !.pc = "searching"]
    OBVIOUS
  <2>2. t.found = Idle.found /\ t.movies = Idle.movies /\ t.pc = "searching"
    BY <1>2, <2>1 DEF AgentState
  <2>3. Kept(t, a)
    BY <1>8, <1>13, <2>2
  <2> QED BY <1>1, <1>6, <1>13, <2>1, <2>3, AgentReports
<1> QED BY <1>5, <1>9, <1>10, <1>11, <1>12, <1>13

\* The step of a search leaves the report alone.
LEMMA CrawlReports == ASSUME Inv, Report, Working, NEW a \in Agents, Crawl(a) PROVE Report'
<1>1. PICK s : s = agent[a]
  OBVIOUS
<1>2. /\ s \in AgentState /\ Sound(s, a) /\ Kept(s, a) /\ Within(s, a) /\ Ag(a) \in LoadedAgent /\ agent = [agent EXCEPT ![a] = s]
      /\ s.found \in Seq(NoPlot)
  <2>1. Crawls(a) /\ s \in AgentState /\ Sound(s, a) /\ Kept(s, a) /\ Ag(a) \in LoadedAgent
    BY <1>1 DEF Inv, Report, Crawl, Crawls, Configured
  <2>2. agent = [agent EXCEPT ![a] = s]
    BY <1>1 DEF Inv
  <2> QED BY <2>1, <2>2 DEF Sound, Kept
<1>3. input' = input /\ phase' = phase /\ expired' = expired /\ s.pc \in {"subs", "all", "drain", "loop", "sub"}
  BY <1>1 DEF Crawl
<1>4. phase = "agents"
  BY <1>1, <1>3, StillSearching
<1>5. ASSUME NEW t, t.found = s.found, t.movies = s.movies, t.pc # "ready" PROVE Kept(t, a)
  BY <1>2, <1>3, <1>5, SearchIsKept
<1>6. \A r \in requests' : ~Wiki(r)
  <2>1. ASSUME NEW job, job[1] \in {"subs", "all", "thread", "hot", "sub"} PROVE ~Wiki(Ask(a, job, "wait"))
    BY <2>1 DEF Wiki, Reddit, Ask
  <2>2. \/ requests' = requests
        \/ \E job : job[1] \in {"subs", "all", "thread", "hot", "sub"} /\ requests' = requests \cup {Ask(a, job, "wait")}
    <3>1. \A x : <<"subs", x>>[1] = "subs" /\ <<"all", x>>[1] = "all" /\ <<"thread", x>>[1] = "thread" /\ <<"hot", x>>[1] = "hot"
      OBVIOUS
    <3>2. \A x, y : <<"sub", x, y>>[1] = "sub"
      OBVIOUS
    <3>3. CASE s.pc = "subs"
      BY <1>1, <3>1, <3>3 DEF Crawl
    <3>4. CASE s.pc = "all"
      BY <1>1, <3>1, <3>4 DEF Crawl
    <3>5. CASE s.pc = "drain"
      BY <1>1, <3>1, <3>5 DEF Crawl
    <3>6. CASE s.pc = "loop"
      BY <1>1, <3>1, <3>6 DEF Crawl
    <3>7. CASE s.pc = "sub"
      BY <1>1, <3>2, <3>7 DEF Crawl
    <3> QED BY <1>3, <3>3, <3>4, <3>5, <3>6, <3>7
  <2> QED BY <1>4, <2>1, <2>2, NoneForPlots
<1>7. \E t : agent' = [agent EXCEPT ![a] = t] /\ t.found = s.found /\ t.movies = s.movies /\ t.pc # "ready"
  <2>1. CASE s.pc = "subs"
    <3>1. \/ agent' = [agent EXCEPT ![a] = [EnqueueAll(s, s.out, a) EXCEPT !.pc = "all", !.i = 1]]
          \/ agent' = [agent EXCEPT ![a] = s]
      BY <1>1, <2>1 DEF Crawl
    <3>2. PICK u : u = EnqueueAll(s, s.out, a)
      OBVIOUS
    <3>3. u \in AgentState /\ Grown(u, s)
      BY <1>2, <3>2, EnqueueAllKeeps DEF AgentState
    <3>4. PICK t : t = [u EXCEPT !.pc = "all", !.i = 1]
      OBVIOUS
    <3>5. t.found = s.found /\ t.movies = s.movies /\ t.pc = "all"
      BY <3>3, <3>4 DEF AgentState, Grown
    <3> QED BY <2>1, <3>1, <3>2, <3>4, <3>5
  <2>2. CASE s.pc = "all"
    <3>1. agent' = [agent EXCEPT ![a] = Drain(s, "loop")] \/ agent' = [agent EXCEPT ![a] = s]
      BY <1>1, <2>2 DEF Crawl
    <3>2. PICK t : t = Drain(s, "loop")
      OBVIOUS
    <3>3. t.found = s.found /\ t.movies = s.movies /\ t.pc = "drain"
      BY <1>2, <3>2 DEF AgentState, Drain
    <3> QED BY <2>2, <3>1, <3>2, <3>3
  <2>3. CASE s.pc = "drain"
    <3>1. \/ agent' = [agent EXCEPT ![a] = [s EXCEPT !.pc = s.then]]
          \/ agent' = [agent EXCEPT ![a] = [s EXCEPT !.cur = Head(s.pending), !.pending = Tail(@)]]
      BY <1>1, <2>3 DEF Crawl
    <3>2. PICK t, u : t = [s EXCEPT !.pc = s.then] /\ u = [s EXCEPT !.cur = Head(s.pending), !.pending = Tail(@)]
      OBVIOUS
    <3>3. t.found = s.found /\ t.movies = s.movies /\ t.pc = s.then /\ s.then # "ready"
      BY <1>2, <3>2 DEF AgentState
    <3>4. u.found = s.found /\ u.movies = s.movies /\ u.pc = s.pc
      BY <1>2, <3>2 DEF AgentState
    <3> QED BY <2>3, <3>1, <3>2, <3>3, <3>4
  <2>4. CASE s.pc = "loop"
    <3>1. PICK sub, t, u, v : /\ sub = Head(s.frontier) /\ t = [s EXCEPT !.frontier = Tail(@), !.cur = sub]
                              /\ u = [t EXCEPT !.visited = @ \cup {sub}] /\ v = Drain(s, "gather")
      OBVIOUS
    <3>2. \E x \in {t, u, v} : agent' = [agent EXCEPT ![a] = x]
      BY <1>1, <2>4, <3>1 DEF Crawl
    <3>3. v.found = s.found /\ v.movies = s.movies /\ v.pc = "drain"
      BY <1>2, <3>1 DEF AgentState, Drain
    <3>4. t.found = s.found /\ t.movies = s.movies /\ t.pc = s.pc
      BY <1>2, <3>1 DEF AgentState
    <3>5. u.found = s.found /\ u.movies = s.movies /\ u.pc = s.pc
      BY <1>2, <3>1 DEF AgentState
    <3> QED BY <2>4, <3>2, <3>3, <3>4, <3>5
  <2>5. CASE s.pc = "sub"
    <3>1. agent' = [agent EXCEPT ![a] = Drain(s, "loop")] \/ agent' = [agent EXCEPT ![a] = s]
      BY <1>1, <2>5 DEF Crawl
    <3>2. PICK t : t = Drain(s, "loop")
      OBVIOUS
    <3>3. t.found = s.found /\ t.movies = s.movies /\ t.pc = "drain"
      BY <1>2, <3>2 DEF AgentState, Drain
    <3> QED BY <2>5, <3>1, <3>2, <3>3
  <2> QED BY <1>3, <2>1, <2>2, <2>3, <2>4, <2>5
<1> QED BY <1>3, <1>4, <1>5, <1>6, <1>7, AgentReports

LEMMA ReadThreadsReports == ASSUME Inv, Report, Working, NEW a \in Agents, ReadThreads(a) PROVE Report'
<1>1. PICK s, pc : s = agent[a] /\ pc = IF s.threads # <<>> /\ ~expired THEN "reading" ELSE "gather"
  OBVIOUS
<1>2. /\ s \in AgentState /\ Kept(s, a) /\ s.pc = "searching" /\ input' = input /\ phase' = phase /\ expired' = expired
  BY <1>1 DEF Inv, Report, ReadThreads
<1>3. phase = "agents"
  BY <1>1, <1>2, StillSearching
<1>4. PICK t : t = [s EXCEPT !.pc = pc]
  OBVIOUS
<1>5. agent' = [agent EXCEPT ![a] = t]
  BY <1>1, <1>4 DEF ReadThreads
<1>6. t.found = s.found /\ t.movies = s.movies /\ t.pc # "ready"
  BY <1>1, <1>2, <1>4 DEF AgentState
<1>7. Kept(t, a)
  BY <1>2, <1>6, SearchIsKept DEF Kept
<1>8. \A r \in requests' : ~Wiki(r)
  <2>1. PICK Q : Q = {Ask(a, <<"thread", s.threads[k].id, s.threads[k]>>, "new") : k \in DOMAIN s.threads}
    OBVIOUS
  <2>2. requests' = requests \/ requests' = requests \cup Q
    BY <1>1, <2>1 DEF ReadThreads
  <2>3. ASSUME NEW r \in Q PROVE ~Wiki(r)
    <3>1. PICK x, y : r = Ask(a, <<"thread", x, y>>, "new")
      BY <2>1
    <3>2. PICK job : job = <<"thread", x, y>>
      OBVIOUS
    <3>3. r.job = job /\ job[1] = "thread"
      BY <3>1, <3>2 DEF Ask
    <3> QED BY <3>3 DEF Wiki, Reddit
  <2> QED BY <1>3, <2>2, <2>3, NoneForPlots
<1> QED BY <1>2, <1>3, <1>5, <1>7, <1>8, AgentReports

LEMMA AllReadReports == ASSUME Inv, Report, Working, NEW a \in Agents, AllRead(a) PROVE Report'
<1>1. PICK s : s = agent[a]
  OBVIOUS
<1>2. /\ s \in AgentState /\ Kept(s, a) /\ s.pc = "reading" /\ input' = input /\ phase' = phase /\ expired' = expired
      /\ requests' = requests
  BY <1>1 DEF Inv, Report, AllRead
<1>3. phase = "agents"
  BY <1>1, <1>2, StillSearching
<1>4. PICK t : t = [s EXCEPT !.pc = "gather"]
  OBVIOUS
<1>5. agent' = [agent EXCEPT ![a] = t]
  BY <1>1, <1>4 DEF AllRead
<1>6. t.found = s.found /\ t.movies = s.movies /\ t.pc # "ready"
  BY <1>2, <1>4 DEF AgentState
<1>7. Kept(t, a)
  BY <1>2, <1>6, SearchIsKept DEF Kept
<1> QED BY <1>2, <1>3, <1>5, <1>7, NoneForPlots, AgentReports

LEMMA GatherReports == ASSUME Inv, Report, Working, NEW a \in Agents, Gather(a) PROVE Report'
<1>1. PICK s : s = agent[a]
  OBVIOUS
<1>2. /\ s \in AgentState /\ Kept(s, a) /\ s.pc = "gather" /\ input' = input /\ phase' = phase /\ expired' = expired
      /\ requests' = requests /\ Ag(a).limit \in Nat
  BY <1>1 DEF Inv, Report, Gather, Configured, LoadedAgent
<1>3. phase = "agents" /\ s.found \in Seq(NoPlot) /\ ~input.offline
  BY <1>1, <1>2, StillSearching DEF Kept
<1>4. PICK n \in Cuts(s.found) :
        agent' = [agent EXCEPT ![a] = [@ EXCEPT !.pc = "picks", !.movies = DistinctMovies(SubSeq(s.found, 1, n), Ag(a).limit)]]
  BY <1>1 DEF Gather
<1>5. PICK f, ms : f = SubSeq(s.found, 1, n) /\ ms = DistinctMovies(f, Ag(a).limit)
  OBVIOUS
<1>6. ms \in Seq(NoPlot)
  <2>1. f \in Seq(NoPlot)
    BY <1>3, <1>4, <1>5, CutsAre, CutIsTyped
  <2> QED BY <1>2, <1>5, <2>1, DistinctIs
<1>7. PICK t : t = [s EXCEPT !.pc = "picks", !.movies = ms]
  OBVIOUS
<1>8. agent' = [agent EXCEPT ![a] = t]
  BY <1>1, <1>4, <1>5, <1>7
<1>9. t.found = s.found /\ t.movies = ms /\ t.pc = "picks"
  BY <1>2, <1>7 DEF AgentState
<1>10. ms \in Seq(Told(a))
  <2>1. NoPlot \subseteq Told(a)
    BY DEF NoPlot, Told
  <2> QED BY <1>6, <2>1
<1>11. Kept(t, a)
  BY <1>3, <1>9, <1>10 DEF Kept
<1> QED BY <1>2, <1>3, <1>8, <1>11, NoneForPlots, AgentReports

\* A pick as a movie has its key and its plot.
LEMMA PickIsTold ==
  ASSUME NEW a \in Agents, NEW ps, ps = Ag(a).picks, NEW k \in DOMAIN ps, NEW m \in Movie,
         NEW source, m = FromPick(ps[k], source)
  PROVE  m \in Told(a) /\ KeyOf(m) = KeyOf(ps[k])
<1>1. m.plot = ps[k].plot /\ KeyOf(m) = KeyOf(ps[k])
  BY DEF FromPick, KeyOf
<1>2. ps[k] \in Range(ps)
  BY DEF Range
<1>3. ps[k].plot # "" => ps[k].plot \in Given(a, m)
  BY <1>1, <1>2 DEF Given
<1> QED BY <1>1, <1>3 DEF Told

LEMMA FallbackReports == ASSUME Inv, Report, Working, NEW a \in Agents, Fallback(a) PROVE Report'
<1>1. PICK s, ps, l : s = agent[a] /\ ps = Ag(a).picks /\ l = Ag(a).limit
  OBVIOUS
<1>2. /\ s \in AgentState /\ Kept(s, a) /\ s.pc = "picks" /\ input' = input /\ phase' = phase /\ expired' = expired
      /\ requests' = requests /\ l \in Nat /\ ps \in Seq(Pick)
  BY <1>1 DEF Inv, Report, Fallback, Configured, LoadedAgent, Agent
<1>3. phase = "agents" /\ s.movies \in Seq(Told(a)) /\ ~input.offline /\ s.found \in Seq(NoPlot)
  <2>1. phase = "agents"
    BY <1>1, <1>2, StillSearching
  <2> QED BY <1>2, <2>1 DEF Kept
<1>4. PICK picks : picks = [k \in DOMAIN ps |-> FromPick(ps[k], "curated fallback")]
  OBVIOUS
<1>5. PICK n \in Cuts(picks) :
        agent' = [agent EXCEPT ![a] = [@ EXCEPT !.pc = "ready", !.movies = DistinctMovies(s.movies \o SubSeq(picks, 1, n), l)]]
  BY <1>1, <1>4 DEF Fallback
<1>6. PICK N \in Nat : N = Len(ps) /\ DOMAIN ps = 1..N
  BY <1>2, LenProperties
<1>7. picks \in Seq(Movie) /\ picks = [k \in 1..N |-> FromPick(ps[k], "curated fallback")]
  <2>1. picks = [k \in 1..N |-> FromPick(ps[k], "curated fallback")]
    BY <1>4, <1>6
  <2>2. "curated fallback" \in Source /\ N \in 0..Len(ps)
    BY <1>6 DEF Source
  <2> QED BY <1>2, <2>1, <2>2, PicksAreMovies
<1>8. ASSUME NEW k \in 1..N PROVE picks[k] \in Told(a) /\ KeyOf(picks[k]) = KeyOf(ps[k])
  <2>1. PICK m : m = picks[k]
    OBVIOUS
  <2>2. m = FromPick(ps[k], "curated fallback") /\ k \in DOMAIN ps /\ k \in DOMAIN picks
    BY <1>6, <1>7, <2>1
  <2>3. m \in Movie
    <3>1. k \in 1..Len(picks)
      BY <1>7, <2>2, LenProperties
    <3> QED BY <1>7, <2>1, <3>1, ElementOfSeq
  <2>4. m \in Told(a) /\ KeyOf(m) = KeyOf(ps[k])
    <3>1. ps = Ag(a).picks /\ k \in DOMAIN ps /\ m = FromPick(ps[k], "curated fallback")
      BY <1>1, <2>2
    <3> QED BY <2>3, <3>1, PickIsTold
  <2> QED BY <2>1, <2>4
<1>9. picks \in Seq(Told(a))
  <2>1. picks \in [1..N -> Told(a)]
    BY <1>7, <1>8
  <2> QED BY <2>1
<1>10. PICK f, g, ms : f = SubSeq(picks, 1, n) /\ g = s.movies \o f /\ ms = DistinctMovies(g, l)
  OBVIOUS
<1>11. f \in Seq(Told(a)) /\ g \in Seq(Told(a))
  <2>1. f \in Seq(Told(a))
    BY <1>5, <1>9, <1>10, CutsAre, CutIsTyped
  <2> QED BY <1>3, <1>10, <2>1, ConcatProperties
<1>12. ms \in Seq(Told(a)) /\ (Len(ms) < l => Keys(g) \subseteq Keys(ms))
  BY <1>2, <1>10, <1>11, DistinctIs
<1>13. PICK t : t = [s EXCEPT !.pc = "ready", !.movies = ms]
  OBVIOUS
<1>14. agent' = [agent EXCEPT ![a] = t]
  BY <1>1, <1>5, <1>10, <1>13
<1>15. t.found = s.found /\ t.movies = ms /\ t.pc = "ready"
  BY <1>2, <1>13 DEF AgentState
<1>16. ASSUME ~expired PROVE Keys(ps) \subseteq Keys(g)
  <2>1. n = Len(picks) /\ Len(picks) \in Nat
    BY <1>5, <1>7, <1>16, LenProperties DEF Cuts
  <2>2. DOMAIN picks = 1..N /\ DOMAIN picks = 1..n
    BY <1>7, <2>1, LenProperties
  <2>3. n \in 0..Len(picks)
    BY <2>1
  <2>4. Len(f) = n /\ \A k \in 1..n : f[k] = picks[k]
    BY <1>9, <1>10, <2>3, CutIsTyped
  <2>5. PICK M \in Nat : M = Len(s.movies)
    BY <1>3, LenProperties
  <2>6. Len(g) = M + n /\ DOMAIN g = 1..(M + n) /\ \A k \in 1..n : g[M + k] = f[k]
    <3>1. f \in Seq(Told(a)) /\ g \in Seq(Told(a)) /\ s.movies \in Seq(Told(a))
      BY <1>3, <1>11
    <3>2. Len(g) = M + n
      BY <1>10, <2>4, <2>5, <3>1, ConcatProperties
    <3>3. ASSUME NEW k \in 1..n PROVE g[M + k] = f[k]
      <4>1. M + k \in 1..(M + n) /\ M + k > M /\ (M + k) - M = k
        BY <2>1, <2>5
      <4> QED BY <1>10, <2>4, <2>5, <3>1, <4>1, ConcatProperties
    <3> QED BY <3>1, <3>2, <3>3, LenProperties
  <2>7. ASSUME NEW k \in DOMAIN ps PROVE KeyOf(ps[k]) \in Keys(g)
    <3>1. k \in 1..n
      BY <1>6, <2>2, <2>7
    <3>2. M + k \in 1..(M + n)
      BY <2>1, <2>5, <3>1
    <3>3. KeyOf(g[M + k]) = KeyOf(ps[k])
      BY <1>6, <1>8, <2>4, <2>6, <2>7, <3>1
    <3> QED BY <2>6, <3>2, <3>3 DEF Keys
  <2> QED BY <2>7 DEF Keys
<1>17. ~expired => Filled(t, a)
  BY <1>1, <1>12, <1>15, <1>16 DEF Filled
<1>18. Kept(t, a)
  BY <1>3, <1>12, <1>15, <1>17 DEF Kept
<1> QED BY <1>2, <1>3, <1>14, <1>18, NoneForPlots, AgentReports

\* Every request for a plot is among others, with the same movie.
Covers(R, Q) == \A x \in R : Wiki(x) => \E y \in Q : y.who = x.who /\ Wiki(y) /\ y.job[2] = x.job[2]
Reported == \A a \in Agents : agent[a].pc = "ready" /\ ~agent[a].error /\ (~input.offline => Plotted(agent[a], a))

LEMMA CoveredStays ==
  ASSUME input' = input, Covers(requests, requests')
  PROVE  \A s, a : Plotted(s, a) => Plotted(s, a)'
<1>1. ASSUME NEW a, NEW k, Asked(a, k) PROVE Asked(a, k)'
  <2>1. PICK x \in requests : x.who = a /\ Wiki(x) /\ x.job[2] = k
    BY <1>1 DEF Asked
  <2>2. PICK y \in requests' : y.who = x.who /\ Wiki(y) /\ y.job[2] = x.job[2]
    BY <2>1 DEF Covers
  <2>3. Wiki(y)'
    BY <2>2, SameReport
  <2> QED BY <2>1, <2>2, <2>3 DEF Asked
<1> QED BY <1>1, SameReport DEF Plotted

(* A step that leaves the agents alone, and the requests for plots too.     *)
LEMMA SameAgentsReport ==
  ASSUME Report, input' = input, agent' = agent, expired => expired',
         Covers(requests, requests'), Covers(requests', requests),
         \/ phase' = phase
         \/ phase' \in {"done", "failed"} /\ (\A r \in requests : ~Wiki(r)) /\ (phase' = "done" /\ InTime => Reported)
  PROVE  Report'
<1>1. Agents' = Agents /\ (phase' = "agents" => phase = "agents") /\ (phase' = "plots" => phase = "plots") /\ (InTime' => InTime)
  BY SameReport DEF InTime
<1>2. ASSUME NEW a \in Agents PROVE Kept(agent[a], a)'
  <2>1. PICK s : s = agent[a]
    OBVIOUS
  <2>2. Kept(s, a)'
    BY <1>1, <2>1, StillKept DEF Report
  <2> QED BY <2>1, <2>2
<1>3. ASSUME NEW x \in requests' PROVE Wanted(agent[x.who], x, x.who)' /\ (Wiki(x)' => phase' = "plots")
  <2>1. PICK s, a : s = agent[x.who] /\ a = x.who
    OBVIOUS
  <2>2. ASSUME Wiki(x) PROVE Wanted(s, x, a) /\ phase' = "plots"
    <3>1. PICK y \in requests : y.who = x.who /\ Wiki(y) /\ y.job[2] = x.job[2]
      BY <2>2 DEF Covers
    <3>2. Wanted(s, y, a) /\ phase = "plots"
      BY <2>1, <3>1 DEF Report
    <3> QED BY <3>1, <3>2 DEF Wanted
  <2>3. Wanted(s, x, a)
    BY <2>2 DEF Wanted
  <2>4. Wanted(s, x, a)' /\ (Wiki(x)' <=> Wiki(x))
    BY <2>3, SameReport
  <2> QED BY <2>1, <2>2, <2>4
<1>4. ASSUME phase' \in {"plots", "done"}, InTime PROVE Reported'
  <2>1. Reported
    BY <1>4 DEF Report, Reported
  <2> QED BY <1>1, <2>1, CoveredStays DEF Reported
<1>5. phase' = "plots" => ~input.offline /\ \A a \in Agents : agent[a].pc \in {"idle", "ready"}
  BY <1>1 DEF Report
<1> QED BY <1>1, <1>2, <1>3, <1>4, <1>5 DEF Report, Reported

\* A request takes the place of another.
LEMMA SwapCovers ==
  ASSUME NEW r \in requests, NEW q, requests' = (requests \ {r}) \cup {q}, q.who = r.who, Wiki(q) <=> Wiki(r),
         Wiki(q) => q.job[2] = r.job[2]
  PROVE  Covers(requests, requests') /\ Covers(requests', requests)
<1>1. Covers(requests, requests')
  <2> SUFFICES ASSUME NEW x \in requests, Wiki(x)
               PROVE  \E y \in requests' : y.who = x.who /\ Wiki(y) /\ y.job[2] = x.job[2]
    BY DEF Covers
  <2>1. CASE x = r
    BY <2>1
  <2>2. CASE x # r
    BY <2>2
  <2> QED BY <2>1, <2>2
<1>2. Covers(requests', requests)
  <2> SUFFICES ASSUME NEW x \in requests', Wiki(x)
               PROVE  \E y \in requests : y.who = x.who /\ Wiki(y) /\ y.job[2] = x.job[2]
    BY DEF Covers
  <2>1. CASE x = q
    BY <2>1
  <2>2. CASE x # q
    BY <2>2
  <2> QED BY <2>1, <2>2
<1> QED BY <1>1, <1>2

LEMMA SameCovers ==
  /\ requests' = requests => Covers(requests, requests') /\ Covers(requests', requests)
  /\ \A r \in requests : requests' = requests \ {r} /\ ~Wiki(r) => Covers(requests, requests') /\ Covers(requests', requests)
BY DEF Covers

LEMMA BeginReports == ASSUME Inv, Report, NEW r \in requests, Begin(r) PROVE Report'
<1>1. PICK q : q = [r EXCEPT !.at = "wait"]
  OBVIOUS
<1>2. requests' = (requests \ {r}) \cup {q} /\ input' = input /\ agent' = agent /\ expired' = expired /\ phase' = phase
  BY <1>1 DEF Begin
<1>3. q.who = r.who /\ q.job = r.job
  BY <1>1 DEF Inv, Request
<1>4. Covers(requests, requests') /\ Covers(requests', requests)
  BY <1>2, <1>3, SwapCovers DEF Wiki
<1> QED BY <1>2, <1>4, SameAgentsReport

LEMMA TakeSlotReports == ASSUME Inv, Report, NEW r \in requests, TakeSlot(r) PROVE Report'
<1>1. PICK q : q = [r EXCEPT !.at = "fly"]
  OBVIOUS
<1>2. requests' = (requests \ {r}) \cup {q} /\ input' = input /\ agent' = agent /\ expired' = expired /\ phase' = phase
  BY <1>1 DEF TakeSlot
<1>3. q.who = r.who /\ q.job = r.job
  BY <1>1 DEF Inv, Request
<1>4. Covers(requests, requests') /\ Covers(requests', requests)
  BY <1>2, <1>3, SwapCovers DEF Wiki
<1> QED BY <1>2, <1>4, SameAgentsReport

(* The answer to a request of a search.                                     *)
LEMMA AfterDiscoverIsKept ==
  ASSUME NEW a \in Agents, Ag(a) \in LoadedAgent, Crawls(a), NEW s, Sound(s, a), Kept(s, a),
         NEW r, CrawlJob(s, r), NEW o, NEW page,
         r.job[1] = "subs" => page \in Seq(Text),
         r.job[1] \in {"all", "hot", "sub"} => page \in Seq(RedditThread),
         r.job[1] = "thread" => page \in Seq(Comment),
         NEW t, t = AfterDiscover(s, r.job, o, page, a)
  PROVE  Kept(t, a)
<1>1. s \in AgentState /\ Within(s, a) /\ s.found \in Seq(NoPlot) /\ s.pc \in {"subs", "all", "loop", "sub", "drain"}
  BY DEF Sound, Kept, CrawlJob
<1>2. ASSUME NEW u, u.found = s.found, u.movies = s.movies, u.pc # "ready" PROVE Kept(u, a)
  BY <1>1, <1>2, SearchIsKept
<1>3. ASSUME NEW ths \in Seq(RedditThread), NEW u, u = AddThreads(s, ths, a)
      PROVE  u \in AgentState /\ u.found = s.found /\ u.movies = s.movies /\ u.pc = s.pc
  BY <1>1, <1>3, AddThreadsKeeps DEF Grown
<1>4. ASSUME NEW u \in AgentState, u.found = s.found, u.movies = s.movies, u.pc = s.pc PROVE Kept(Next1(u), a)
  <2>1. PICK v : v = Next1(u)
    OBVIOUS
  <2>2. v.found = s.found /\ v.movies = s.movies /\ v.pc = s.pc
    BY <1>4, <2>1 DEF AgentState, Next1
  <2> QED BY <1>1, <1>2, <2>1, <2>2
<1>5. ASSUME NEW then PROVE Kept(Drain(s, then), a)
  <2>1. PICK v : v = Drain(s, then)
    OBVIOUS
  <2>2. v.found = s.found /\ v.movies = s.movies /\ v.pc = "drain"
    BY <1>1, <2>1 DEF AgentState, Drain
  <2> QED BY <1>2, <2>1, <2>2
<1>6. CASE r.job[1] = "subs"
  <2>1. PICK out : out = DiscoverSubs(s.out, page, r.job[2], Ag(a).maxSubs)
    OBVIOUS
  <2>2. out \in Seq(Text)
    <3>1. s.out \in Seq(Text)
      BY <1>1 DEF AgentState
    <3> QED BY <1>6, <2>1, <3>1, DiscoveredAreNames
  <2>3. PICK u : u = [s EXCEPT !.out = out]
    OBVIOUS
  <2>4. u \in AgentState /\ u.found = s.found /\ u.movies = s.movies /\ u.pc = s.pc
    BY <1>1, <2>2, <2>3 DEF AgentState
  <2>5. t = Next1(s) \/ t = Next1(u)
    <3>1. [s EXCEPT !.out = DiscoverSubs(@, page, r.job[2], Ag(a).maxSubs)] = u
      BY <1>1, <2>1, <2>3 DEF AgentState
    <3> QED BY <1>6, <3>1 DEF AfterDiscover
  <2> QED BY <1>1, <1>4, <2>4, <2>5
<1>7. CASE r.job[1] = "all"
  <2>1. PICK ths : ths = SearchGlobal(page)
    OBVIOUS
  <2>2. ths \in Seq(RedditThread)
    BY <1>7, <2>1, ListingsAreTyped
  <2>3. PICK u : u = AddThreads(s, ths, a)
    OBVIOUS
  <2>4. t = Drain(s, "gather") \/ t = Next1(s) \/ t = Next1(u)
    BY <1>7, <2>1, <2>3 DEF AfterDiscover
  <2>5. Kept(Drain(s, "gather"), a) /\ Kept(Next1(s), a) /\ Kept(Next1(u), a)
    BY <1>1, <1>3, <1>4, <1>5, <2>2, <2>3
  <2> QED BY <2>4, <2>5
<1>8. CASE r.job[1] = "hot"
  <2>1. PICK ths : ths = HotThreads(page)
    OBVIOUS
  <2>2. ths \in Seq(RedditThread)
    BY <1>8, <2>1, ListingsAreTyped
  <2>3. PICK u : u = IF o = "page" THEN AddThreads(s, ths, a) ELSE s
    OBVIOUS
  <2>4. u \in AgentState /\ u.found = s.found /\ u.movies = s.movies
    BY <1>1, <1>3, <2>2, <2>3
  <2>5. PICK v : v = [u EXCEPT !.pc = "sub", !.i = 1]
    OBVIOUS
  <2>6. v.found = s.found /\ v.movies = s.movies /\ v.pc = "sub"
    BY <2>4, <2>5 DEF AgentState
  <2>7. t = Drain(s, "gather") \/ t = v
    BY <1>8, <2>1, <2>3, <2>5 DEF AfterDiscover
  <2> QED BY <1>2, <1>5, <2>6, <2>7
<1>9. CASE r.job[1] = "sub"
  <2>1. PICK ths : ths = SearchSub(r.job[2], page)
    OBVIOUS
  <2>2. ths \in Seq(RedditThread)
    <3>1. r.job[2] \in Text
      BY <1>9 DEF CrawlJob
    <3>2. ths = <<>> \/ \E th \in RedditThread : ths = <<th>>
      BY <1>9, <2>1, <3>1, SearchSubIs
    <3>3. \A th \in RedditThread : <<th>> \in Seq(RedditThread)
      OBVIOUS
    <3> QED BY <3>2, <3>3, EmptySeq
  <2>3. PICK u : u = AddThreads(s, ths, a)
    OBVIOUS
  <2>4. t = Drain(s, "loop") \/ t = Next1(s) \/ t = Next1(u)
    BY <1>9, <2>1, <2>3 DEF AfterDiscover
  <2>5. Kept(Drain(s, "loop"), a) /\ Kept(Next1(s), a) /\ Kept(Next1(u), a)
    BY <1>1, <1>3, <1>4, <1>5, <2>2, <2>3
  <2> QED BY <2>4, <2>5
<1>10. CASE r.job[1] = "thread"
  <2>1. PICK got : got = ThreadLearn(page, Ag(a).limit * 2)
    OBVIOUS
  <2>2. got \in Learned
    <3>1. Ag(a).limit * 2 \in Nat
      BY DEF LoadedAgent
    <3> QED BY <1>10, <2>1, <3>1, LearnedIsTyped
  <2>3. got.learned \in Seq(Text) /\ got.movies \in Seq(Mention) /\ s.cur \in RedditThread /\ s.pc = "drain"
    BY <1>10, <2>2 DEF Learned, CrawlJob
  <2>4. PICK u : u = EnqueueAll(s, got.learned, a)
    OBVIOUS
  <2>5. u \in AgentState /\ u.found = s.found /\ u.movies = s.movies /\ u.pc = s.pc
    BY <1>1, <2>3, <2>4, EnqueueAllKeeps DEF Grown
  <2>6. PICK v : v = AddFound(u, got.movies, s.cur, a)
    OBVIOUS
  <2>7. v.found \in Seq(NoPlot) /\ v.movies = s.movies /\ v.pc = s.pc
    BY <1>1, <2>3, <2>5, <2>6, AddFoundKeeps DEF SameSearch
  <2>8. t = s \/ t = v
    BY <1>10, <2>1, <2>4, <2>6 DEF AfterDiscover
  <2> QED BY <1>1, <2>3, <2>7, <2>8, SearchIsKept
<1> QED BY <1>6, <1>7, <1>8, <1>9, <1>10 DEF CrawlJob

LEMMA AfterFixedIsKept ==
  ASSUME NEW a \in Agents, Ag(a) \in LoadedAgent, NEW s \in AgentState, Kept(s, a),
         NEW r, FixedJob(s, r), NEW o, NEW page, r.job[1] = "thread" => page \in Seq(Comment),
         NEW t, t = AfterFixed(s, r.job, o, page, a)
  PROVE  Kept(t, a)
<1>1. s.found \in Seq(NoPlot)
  BY DEF Kept
<1>2. CASE s.pc = "searching"
  <2>1. PICK ths : ths = SearchSub(r.job[2], page)
    OBVIOUS
  <2>2. t = s \/ t = [s EXCEPT !.threads = @ \o ths]
    BY <1>2, <2>1 DEF AfterFixed
  <2>3. t.found = s.found /\ t.movies = s.movies /\ t.pc = s.pc
    BY <2>2 DEF AgentState
  <2> QED BY <1>1, <1>2, <2>3, SearchIsKept
<1>3. CASE s.pc = "reading"
  <2>1. PICK ms : ms = ThreadLearn(page, Ag(a).limit * 2).movies
    OBVIOUS
  <2>2. ms \in Seq(Mention) /\ r.job[3] \in RedditThread
    <3>1. r.job[1] = "thread" /\ r.job[3] \in RedditThread
      BY <1>3 DEF FixedJob
    <3>2. Ag(a).limit * 2 \in Nat
      BY DEF LoadedAgent
    <3>3. ThreadLearn(page, Ag(a).limit * 2) \in Learned
      BY <3>1, <3>2, LearnedIsTyped
    <3> QED BY <2>1, <3>1, <3>3 DEF Learned
  <2>3. PICK u : u = IF o # "page" THEN s ELSE AddFound(s, ms, r.job[3], a)
    OBVIOUS
  <2>4. u \in AgentState /\ u.found \in Seq(NoPlot) /\ u.movies = s.movies /\ u.pc = s.pc
    <3>1. CASE o # "page"
      BY <1>1, <2>3, <3>1
    <3>2. CASE o = "page"
      BY <1>1, <2>2, <2>3, <3>2, AddFoundKeeps DEF SameSearch
    <3> QED BY <3>1, <3>2
  <2>5. t = u \/ t = [u EXCEPT !.pc = "gather"]
    BY <1>3, <2>1, <2>3 DEF AfterFixed
  <2>6. t.found \in Seq(NoPlot) /\ t.movies = s.movies /\ t.pc \in {"reading", "gather"}
    BY <1>3, <2>4, <2>5 DEF AgentState
  <2> QED BY <1>3, <2>6, SearchIsKept
<1>4. CASE s.pc \notin {"searching", "reading"}
  <2>1. t = s
    BY <1>4 DEF AfterFixed
  <2> QED BY <2>1
<1> QED BY <1>2, <1>3, <1>4

LEMMA RedditReports ==
  ASSUME Inv, Report, Working, NEW r \in requests, NEW o, Answer(r, o), Reddit(r.job)
  PROVE  Report'
<1>1. PICK a, s, page : a = r.who /\ s = agent[a] /\ page = PageAt(Address(r))
  OBVIOUS
<1>2. PICK t : t = IF Crawls(a) THEN AfterDiscover(s, r.job, o, page, a) ELSE AfterFixed(s, r.job, o, page, a)
  OBVIOUS
<1>3. /\ a \in Agents /\ Fits(s, r, a) /\ input' = input /\ requests' = requests \ {r} /\ agent' = [agent EXCEPT ![a] = t]
      /\ Sound(s, a) /\ s \in AgentState
      /\ r.job[1] = "subs" => page \in Seq(Text)
      /\ r.job[1] \in {"all", "hot", "sub", "search"} => page \in Seq(RedditThread)
      /\ r.job[1] = "thread" => page \in Seq(Comment)
  BY <1>1, <1>2, RedditAnswer
<1>4. phase' = phase /\ expired' = expired
  BY DEF Answer
<1>5. Ag(a) \in LoadedAgent /\ Kept(s, a)
  BY <1>1, <1>3 DEF Inv, Configured, Report
<1>6. ~Wiki(r)
  BY DEF Wiki
<1>7. CASE phase = "agents"
  <2>1. Kept(t, a)
    <3>1. CASE Crawls(a)
      <4>1. CrawlJob(s, r) /\ t = AfterDiscover(s, r.job, o, page, a)
        BY <1>2, <1>3, <3>1 DEF Fits
      <4> QED BY <1>3, <1>5, <3>1, <4>1, AfterDiscoverIsKept
    <3>2. CASE ~Crawls(a)
      <4>1. FixedJob(s, r) /\ t = AfterFixed(s, r.job, o, page, a)
        BY <1>2, <1>3, <3>2 DEF Fits
      <4> QED BY <1>3, <1>5, <4>1, AfterFixedIsKept
    <3> QED BY <3>1, <3>2
  <2> QED BY <1>3, <1>4, <1>7, <2>1, NoneForPlots, AgentReports
<1>8. CASE phase = "plots"
  <2>1. s.pc \in {"idle", "ready"}
    BY <1>1, <1>3, <1>8 DEF Report
  <2>2. ~Crawls(a)
    BY <1>3, <2>1 DEF Fits, CrawlJob
  <2>3. t = s
    BY <1>2, <2>1, <2>2 DEF AfterFixed
  <2>4. agent' = agent
    BY <1>1, <1>3, <2>3 DEF Inv
  <2>5. Covers(requests, requests') /\ Covers(requests', requests)
    BY <1>3, <1>6, SameCovers
  <2> QED BY <1>3, <1>4, <2>4, <2>5, SameAgentsReport
<1> QED BY <1>7, <1>8 DEF Working

(* The answer to a request for a plot.  A movie whose picks give a plot has *)
(* it, and no request is made for it; the others take what they are given.  *)
LEMMA PlotIsKept ==
  ASSUME NEW a, NEW s \in AgentState, Kept(s, a), phase = "plots", ~input.offline,
         NEW ms \in Seq(Movie), DOMAIN ms = DOMAIN s.movies, \A j \in DOMAIN ms : KeyOf(ms[j]) = KeyOf(s.movies[j]),
         NEW t, t = [s EXCEPT !.movies = ms]
  PROVE  Kept(t, a) /\ t.movies = ms /\ t.pc = s.pc /\ t.error = s.error
<1>1. t.found = s.found /\ t.movies = ms /\ t.pc = s.pc /\ t.error = s.error
  BY DEF AgentState
<1>2. Len(ms) = Len(s.movies)
  <2>1. s.movies \in Seq(Movie)
    BY DEF AgentState
  <2>2. Len(ms) \in Nat /\ Len(s.movies) \in Nat /\ 1..Len(ms) = 1..Len(s.movies)
    BY <2>1, LenProperties
  <2> QED BY <2>2
<1>3. Keys(ms) = Keys(s.movies)
  BY DEF Keys
<1>4. Filled(s, a) => Filled(t, a)
  BY <1>1, <1>2, <1>3 DEF Filled
<1> QED BY <1>1, <1>4 DEF Kept

LEMMA PlotReports ==
  ASSUME Inv, Report, Working, NEW r \in requests, NEW o, Answer(r, o), Wiki(r)
  PROVE  Report'
<1>1. PICK a, s, k, page, p : /\ a = r.who /\ s = agent[a] /\ k = r.job[2] /\ page = PageAt(Address(r))
                              /\ p = PlotStep(r, o, page)
  OBVIOUS
<1>2. a \in Agents /\ s \in AgentState /\ Kept(s, a) /\ Wanted(s, r, a) /\ phase = "plots" /\ ~input.offline
  BY <1>1 DEF Inv, Request, Report
<1>3. PlotFound(p) \/ PlotGoesOn(p, k)
  <2>1. PlotResult(p, r)
    BY <1>1, PlotAnswerIs DEF Wiki
  <2> QED BY <1>1, <2>1 DEF PlotResult
<1>4. input' = input /\ phase' = phase /\ expired' = expired /\ Agents' = Agents
  BY SameReport DEF Answer
<1>5. CASE Cancelled(r) \/ o = "late" \/ "plot" \in DOMAIN p
  <2>1. PICK v : v = IF Cancelled(r) \/ o = "late" THEN "unavailable" ELSE p.plot
    OBVIOUS
  <2>2. v \in PlotText /\ v \in Text
    <3>1. "unavailable" \in PlotText /\ PlotText \subseteq Text
      BY DEF Text, PlotText
    <3>2. "plot" \in DOMAIN p => p.plot \in PlotText
      BY <1>3 DEF PlotFound, PlotGoesOn
    <3> QED BY <1>5, <2>1, <3>1, <3>2
  <2>3. requests' = requests \ {r} /\ agent' = [agent EXCEPT ![a].movies[k].plot = v]
    BY <1>1, <1>5, <2>1 DEF Answer, Wiki
  <2>4. PICK ms : ms = [s.movies EXCEPT ![k].plot = v]
    OBVIOUS
  <2>5. PICK t : t = [s EXCEPT !.movies = ms]
    OBVIOUS
  <2>6. agent' = [agent EXCEPT ![a] = t]
    BY <1>1, <2>3, <2>4, <2>5
  <2>7. s.movies \in Seq(Movie) /\ DOMAIN s.movies = 1..Len(s.movies) /\ Len(s.movies) \in Nat
    BY <1>2, LenProperties DEF AgentState
  <2>8. k \in DOMAIN s.movies /\ Given(a, s.movies[k]) = {}
    BY <1>1, <1>2 DEF Wanted
  <2>9. ASSUME NEW j \in DOMAIN s.movies
        PROVE  /\ ms[j] \in Movie /\ KeyOf(ms[j]) = KeyOf(s.movies[j])
               /\ IF j = k THEN ms[j].plot = v ELSE ms[j] = s.movies[j]
    <3>1. s.movies[j] \in Movie
      BY <2>7, ElementOfSeq
    <3>2. IF j = k THEN ms[j] = [s.movies[j] EXCEPT !.plot = v] ELSE ms[j] = s.movies[j]
      BY <2>4
    <3>3. [s.movies[j] EXCEPT !.plot = v].plot = v
      BY <3>1 DEF Movie
    <3> QED BY <2>2, <3>1, <3>2, <3>3, PlotChanges
  <2>10. DOMAIN ms = DOMAIN s.movies /\ ms \in Seq(Movie)
    <3>1. PICK n \in Nat : n = Len(s.movies)
      BY <2>7
    <3>2. DOMAIN ms = DOMAIN s.movies /\ ms = [j \in DOMAIN s.movies |-> ms[j]]
      BY <2>4
    <3>3. ms \in [DOMAIN s.movies -> Movie]
      BY <2>9, <3>2
    <3>4. ms \in [1..n -> Movie]
      BY <2>7, <3>1, <3>3
    <3>5. ms \in Seq(Movie)
      BY <3>4
    <3> QED BY <3>2, <3>5
  <2>11. Kept(t, a) /\ t.movies = ms /\ t.pc = s.pc /\ t.error = s.error
    BY <1>2, <2>5, <2>9, <2>10, PlotIsKept
  <2>12. agent'[a] = t /\ \A b \in Agents : b # a => agent'[b] = agent[b]
    BY <1>2, <2>6 DEF Inv
  <2>13. ASSUME NEW b \in Agents PROVE Kept(agent[b], b)'
    <3>1. PICK u : u = agent'[b]
      OBVIOUS
    <3>2. Kept(u, b)
      BY <2>11, <2>12, <3>1 DEF Report
    <3>3. Kept(u, b)'
      BY <1>4, <3>2, StillKept
    <3> QED BY <3>1, <3>3
  <2>14. ASSUME NEW x \in requests' PROVE Wanted(agent[x.who], x, x.who)'
    <3>1. x \in requests /\ x.who \in Agents /\ Wanted(agent[x.who], x, x.who)
      BY <2>3 DEF Inv, Request, Report
    <3>2. PICK u, b : u = agent'[b] /\ b = x.who
      OBVIOUS
    <3>3. Wanted(u, x, b)
      <4>1. CASE b = a
        <5>1. ASSUME Wiki(x) PROVE x.job[2] \in DOMAIN ms /\ Given(a, ms[x.job[2]]) = {}
          <6>1. PICK j : j = x.job[2]
            OBVIOUS
          <6>2. j \in DOMAIN s.movies /\ Given(a, s.movies[j]) = {}
            BY <1>1, <3>1, <3>2, <4>1, <5>1, <6>1 DEF Wanted
          <6>3. KeyOf(ms[j]) = KeyOf(s.movies[j])
            BY <2>9, <6>2
          <6>4. Given(a, ms[j]) = Given(a, s.movies[j])
            BY <6>3, GivenByKey
          <6> QED BY <2>10, <6>1, <6>2, <6>4
        <5> QED BY <2>11, <2>12, <3>2, <4>1, <5>1 DEF Wanted
      <4>2. CASE b # a
        BY <2>12, <3>1, <3>2, <4>2
      <4> QED BY <4>1, <4>2
    <3>4. Wanted(u, x, b)'
      BY <1>4, <3>3, SameReport
    <3> QED BY <3>2, <3>4
  <2>15. ASSUME NEW b \in Agents PROVE agent'[b].pc = agent[b].pc /\ agent'[b].error = agent[b].error
    BY <1>1, <2>11, <2>12
  <2>16. ASSUME InTime, NEW b \in Agents PROVE Plotted(agent[b], b)'
    <3>1. Plotted(agent[b], b)
      BY <1>2, <2>16 DEF Report
    <3>2. PICK u : u = agent'[b]
      OBVIOUS
    <3>3. ASSUME NEW j \in DOMAIN u.movies PROVE HasPlot(u.movies[j], b) /\ (u.movies[j].plot = "" => Asked(b, j)')
      <4>1. CASE b = a /\ j = k
        <5>1. u.movies = ms /\ k \in DOMAIN ms /\ ms[k].plot = v /\ KeyOf(ms[k]) = KeyOf(s.movies[k])
          BY <2>8, <2>9, <2>10, <2>11, <2>12, <3>2, <4>1
        <5>2. Given(a, ms[k]) = {}
          BY <2>8, <5>1, GivenByKey
        <5>3. v # ""
          BY <2>2 DEF PlotText
        <5> QED BY <4>1, <5>1, <5>2, <5>3 DEF HasPlot
      <4>2. CASE ~(b = a /\ j = k)
        <5>1. j \in DOMAIN agent[b].movies /\ u.movies[j] = agent[b].movies[j]
          BY <1>1, <2>9, <2>10, <2>11, <2>12, <3>2, <4>2
        <5>2. HasPlot(u.movies[j], b) /\ (u.movies[j].plot = "" => Asked(b, j))
          BY <3>1, <5>1 DEF Plotted
        <5>3. ASSUME Asked(b, j) PROVE Asked(b, j)'
          <6>1. PICK x \in requests : x.who = b /\ Wiki(x) /\ x.job[2] = j
            BY <5>3 DEF Asked
          <6>2. x \in requests'
            BY <1>1, <2>3, <4>2, <6>1
          <6>3. Wiki(x)'
            BY <1>4, <6>1, SameReport
          <6> QED BY <6>1, <6>2, <6>3 DEF Asked
        <5> QED BY <5>2, <5>3
      <4> QED BY <4>1, <4>2
    <3>4. \A j \in DOMAIN u.movies : HasPlot(u.movies[j], b)' /\ (u.movies[j].plot = "" => Asked(b, j)')
      BY <1>4, <3>3, SameReport
    <3> QED BY <3>2, <3>4 DEF Plotted
  <2>17. InTime' => InTime
    BY <1>4 DEF InTime
  <2>18. \A b \in Agents : agent'[b].pc \in {"idle", "ready"}
    BY <1>2, <2>15 DEF Report
  <2>19. ASSUME InTime' PROVE \A b \in Agents : agent'[b].pc = "ready" /\ ~agent'[b].error /\ Plotted(agent[b], b)'
    BY <1>2, <2>15, <2>16, <2>17, <2>19 DEF Report
  <2> QED BY <1>2, <1>4, <2>13, <2>14, <2>18, <2>19 DEF Report
<1>6. CASE ~(Cancelled(r) \/ o = "late" \/ "plot" \in DOMAIN p)
  <2>1. PICK st, i, x : st \in {"cand", "term", "check", "again"} /\ p = [job |-> <<"wiki", k, st, i, x>>]
    BY <1>6, <1>3 DEF PlotFound, PlotGoesOn
  <2>2. PICK q : q = Ask(a, p.job, "wait")
    OBVIOUS
  <2>3. requests' = (requests \ {r}) \cup {q} /\ agent' = agent
    BY <1>1, <1>6, <2>2 DEF Answer, Wiki
  <2>4. PICK job : job = <<"wiki", k, st, i, x>>
    OBVIOUS
  <2>5. job[1] = "wiki" /\ job[2] = k /\ q = [who |-> a, job |-> job, at |-> "wait"]
    BY <2>1, <2>2, <2>4 DEF Ask
  <2>6. q.who = r.who /\ Wiki(q) /\ q.job[2] = r.job[2]
    BY <1>1, <2>5 DEF Wiki, Reddit
  <2>7. Covers(requests, requests') /\ Covers(requests', requests)
    BY <2>3, <2>6, SwapCovers
  <2> QED BY <1>4, <2>3, <2>7, SameAgentsReport
<1> QED BY <1>5, <1>6

LEMMA AnswerReports == ASSUME Inv, Report, Working, NEW r \in requests, NEW o, Answer(r, o) PROVE Report'
BY RedditReports, PlotReports DEF Wiki

----------------------------------------------------------------------------
(* The agents are over: all of them are ready, unless the run was cut off.  *)
LEMMA AllOver ==
  ASSUME Inv, AgentsDone, ~expired, \A a \in Agents : ~agent[a].error
  PROVE  \A a \in Agents : agent[a].pc = "ready"
<1>1. PICK n \in Nat : Agents = 1..n
  BY DEF Inv, Configured, Numbered
<1>2. PICK B : B = {a \in Agents : agent[a].pc # "ready"}
  OBVIOUS
<1>3. CASE B # {}
  <2>1. PICK m \in B : \A b \in B : m <= b
    <3>1. B \subseteq Nat
      BY <1>1, <1>2
    <3> QED BY <1>3, <3>1, LeastElement
  <2>2. ~MayStart(m) /\ m \in Agents
    BY <1>2, <2>1 DEF AgentsDone
  <2>3. ASSUME NEW b \in 1..(m - 1) PROVE agent[b].pc = "ready" /\ ~agent[b].error
    <3>1. b \in Agents /\ ~(m <= b)
      BY <1>1, <2>2
    <3> QED BY <1>2, <2>1, <3>1
  <2> QED BY <2>2, <2>3 DEF MayStart
<1> QED BY <1>2, <1>3

\* A movie takes the plot of a pick with its key, if any of them has one.
LEMMA PickGives ==
  ASSUME NEW a \in Agents, Ag(a) \in LoadedAgent, NEW m
  PROVE  IF PickOf(a, m).plot = "" THEN Given(a, m) = {} ELSE PickOf(a, m).plot \in Given(a, m)
<1>1. PICK ps, A : /\ ps = Ag(a).picks
                   /\ A = {p \in {p \in Range(Ag(a).picks) : KeyOf(p) = KeyOf(m)} : p.plot # ""}
  OBVIOUS
<1>2. PICK plots : plots = Only(ps, A)
  OBVIOUS
<1>3. PickOf(a, m).plot = IF plots = <<>> THEN "" ELSE plots[Len(plots)].plot
  BY <1>1, <1>2 DEF PickOf
<1>4. Given(a, m) = {p.plot : p \in A}
  <2>1. A = {p \in Range(Ag(a).picks) : KeyOf(p) = KeyOf(m) /\ p.plot # ""}
    BY <1>1
  <2> QED BY <2>1 DEF Given
<1>5. ps \in Seq(Pick)
  BY <1>1 DEF LoadedAgent, Agent
<1>6. plots \in Seq(Pick \cap A) /\ (plots = <<>> => \A k \in 1..Len(ps) : ps[k] \notin A)
  BY <1>2, <1>5, OnlyIs
<1>7. CASE plots = <<>>
  <2>1. ASSUME NEW p \in A PROVE FALSE
    <3>1. PICK k \in DOMAIN ps : p = ps[k]
      BY <1>1 DEF Range
    <3>2. k \in 1..Len(ps)
      BY <1>5, <3>1, LenProperties
    <3> QED BY <1>6, <1>7, <3>1, <3>2
  <2> QED BY <1>3, <1>4, <1>7, <2>1
<1>8. CASE plots # <<>>
  <2>1. Len(plots) \in Nat /\ Len(plots) # 0
    BY <1>6, <1>8, LenProperties, EmptySeq
  <2>2. Len(plots) \in 1..Len(plots)
    BY <2>1
  <2>3. PICK p \in Pick \cap A : p = plots[Len(plots)]
    BY <1>6, <2>2, ElementOfSeq
  <2>4. PickOf(a, m).plot = p.plot /\ p.plot \in Given(a, m) /\ p.plot # ""
    BY <1>1, <1>3, <1>4, <1>8, <2>3
  <2> QED BY <2>4
<1> QED BY <1>7, <1>8

\* What enriching makes of the movies of an agent.
LEMMA EnrichedHasPlot ==
  ASSUME Inv, NEW a \in Agents, NEW s, s = agent[a], s.movies \in Seq(Told(a)), NEW ms, ms = Enriched(a), NEW k \in DOMAIN ms
  PROVE  HasPlot(ms[k], a) /\ (ms[k].plot = "" => Given(a, ms[k]) = {})
<1>1. s.movies \in Seq(Movie) /\ Ag(a) \in LoadedAgent /\ DOMAIN ms = DOMAIN s.movies
  BY EnrichedIs DEF Inv, Configured, AgentState
<1>2. PICK m \in Told(a) : m = s.movies[k]
  <2>1. k \in 1..Len(s.movies)
    BY <1>1, LenProperties
  <2> QED BY <2>1, ElementOfSeq
<1>3. PICK v : v = PickOf(a, m).plot
  OBVIOUS
<1>4. IF v = "" THEN Given(a, m) = {} ELSE v \in Given(a, m)
  BY <1>1, <1>3, PickGives
<1>5. ms[k] = IF m.plot = "" THEN [m EXCEPT !.plot = v] ELSE m
  BY <1>1, <1>2, <1>3 DEF Enriched
<1>6. m \in Movie /\ (m.plot = "" \/ m.plot \in Given(a, m))
  BY DEF Told
<1>7. CASE m.plot = ""
  <2>1. v \in Text
    BY <1>1, <1>3, PickPlotIs
  <2>2. KeyOf(ms[k]) = KeyOf(m) /\ ms[k].plot = v
    BY <1>5, <1>6, <1>7, <2>1, PlotChanges DEF Movie
  <2>3. Given(a, ms[k]) = Given(a, m)
    BY <2>2, GivenByKey
  <2> QED BY <1>4, <2>2, <2>3 DEF HasPlot
<1>8. CASE m.plot # ""
  BY <1>5, <1>6, <1>8 DEF HasPlot
<1> QED BY <1>7, <1>8

LEMMA PlotJobsAsk ==
  /\ \A q \in PlotJobs : /\ Wiki(q) /\ q.who \in Agents /\ q.job[2] \in DOMAIN agent[q.who].movies
                         /\ Enriched(q.who)[q.job[2]].plot = ""
  /\ \A a \in Agents : \A k \in DOMAIN agent[a].movies :
       Enriched(a)[k].plot = "" => \E q \in PlotJobs : q.who = a /\ Wiki(q) /\ q.job[2] = k
<1>1. ASSUME NEW a, NEW k, NEW q, q = Ask(a, <<"wiki", k, "cand", 1, <<>>>>, "new")
      PROVE  q.who = a /\ Wiki(q) /\ q.job[2] = k
  <2>1. PICK job : job = <<"wiki", k, "cand", 1, <<>>>>
    OBVIOUS
  <2>2. job[1] = "wiki" /\ job[2] = k /\ q = [who |-> a, job |-> job, at |-> "new"]
    BY <1>1, <2>1 DEF Ask
  <2> QED BY <2>2 DEF Wiki, Reddit
<1>2. PICK D : D = [b \in Agents |-> {n \in DOMAIN agent[b].movies : Enriched(b)[n].plot = ""}]
  OBVIOUS
<1>3. PICK F : F = [b \in Agents |-> {Ask(b, <<"wiki", k, "cand", 1, <<>>>>, "new") : k \in D[b]}]
  OBVIOUS
<1>4. PlotJobs = UNION {F[b] : b \in Agents}
  <2>1. \A b \in Agents : F[b] = {Ask(b, <<"wiki", k, "cand", 1, <<>>>>, "new") :
                                   k \in {n \in DOMAIN agent[b].movies : Enriched(b)[n].plot = ""}}
    BY <1>2, <1>3
  <2>2. {F[b] : b \in Agents} = {{Ask(b, <<"wiki", k, "cand", 1, <<>>>>, "new") :
                k \in {n \in DOMAIN agent[b].movies : Enriched(b)[n].plot = ""}} : b \in Agents}
    BY <2>1
  <2> QED BY <2>2 DEF PlotJobs
<1>5. ASSUME NEW q \in PlotJobs
      PROVE  Wiki(q) /\ q.who \in Agents /\ q.job[2] \in DOMAIN agent[q.who].movies /\ Enriched(q.who)[q.job[2]].plot = ""
  <2>1. PICK b \in Agents : q \in F[b]
    BY <1>4
  <2>2. PICK k \in D[b] : q = Ask(b, <<"wiki", k, "cand", 1, <<>>>>, "new")
    BY <1>3, <2>1
  <2>3. q.who = b /\ Wiki(q) /\ q.job[2] = k
    BY <1>1, <2>2
  <2>4. k \in DOMAIN agent[b].movies /\ Enriched(b)[k].plot = ""
    BY <1>2
  <2> QED BY <2>3, <2>4
<1>6. ASSUME NEW a \in Agents, NEW k \in DOMAIN agent[a].movies, Enriched(a)[k].plot = ""
      PROVE  \E q \in PlotJobs : q.who = a /\ Wiki(q) /\ q.job[2] = k
  <2>1. PICK q : q = Ask(a, <<"wiki", k, "cand", 1, <<>>>>, "new")
    OBVIOUS
  <2>2. k \in D[a]
    BY <1>2, <1>6
  <2>3. q \in PlotJobs
    BY <1>3, <1>4, <2>1, <2>2
  <2> QED BY <1>1, <2>1, <2>3
<1> QED BY <1>5, <1>6

LEMMA AgentsDoneReports == ASSUME Inv, Report, AgentsDone PROVE Report'
<1>1. input' = input /\ expired' = expired /\ phase = "agents" /\ ~input.test /\ Agents' = Agents
  BY SameReport DEF AgentsDone
<1>2. \A r \in requests : ~Wiki(r)
  BY <1>1, NoneForPlots
<1>3. CASE phase' = "failed" /\ UNCHANGED <<agent, requests>>
  BY <1>1, <1>2, <1>3, SameCovers, SameAgentsReport
<1>4. CASE phase' = "done" /\ UNCHANGED <<agent, requests>> /\ input.offline /\ \A a \in Agents : ~agent[a].error
  <2>1. InTime => Reported
    BY <1>4, AllOver DEF InTime, Reported
  <2> QED BY <1>1, <1>2, <1>4, <2>1, SameCovers, SameAgentsReport
<1>5. CASE /\ phase' = "plots" /\ ~input.offline /\ \A a \in Agents : ~agent[a].error
           /\ agent' = [a \in Agents |-> [agent[a] EXCEPT !.movies = Enriched(a)]]
           /\ \E js \in IF expired THEN SUBSET PlotJobs ELSE {PlotJobs} : requests' = requests \cup js
  <2>1. PICK js : js \subseteq PlotJobs /\ (~expired => js = PlotJobs) /\ requests' = requests \cup js
    BY <1>5
  <2>2. ASSUME NEW a \in Agents
        PROVE  /\ Kept(agent[a], a)' /\ agent'[a].pc = agent[a].pc /\ agent'[a].error = agent[a].error
               /\ agent'[a].movies = Enriched(a) /\ DOMAIN Enriched(a) = DOMAIN agent[a].movies
               /\ \A k \in DOMAIN Enriched(a) :
                    /\ HasPlot(Enriched(a)[k], a)
                    /\ Enriched(a)[k].plot = "" => Given(a, Enriched(a)[k]) = {}
    <3>1. PICK s, ms, t : s = agent[a] /\ ms = Enriched(a) /\ t = [s EXCEPT !.movies = ms]
      OBVIOUS
    <3>2. s \in AgentState /\ Kept(s, a) /\ s.movies \in Seq(Told(a)) /\ agent'[a] = t
      BY <1>1, <1>5, <3>1 DEF Inv, Report, Kept
    <3>3. ms \in Seq(Movie) /\ DOMAIN ms = DOMAIN s.movies /\ \A k \in DOMAIN ms : KeyOf(ms[k]) = KeyOf(s.movies[k])
      BY <3>1, EnrichedIs
    <3>4. /\ t.movies = ms /\ t.pc = s.pc /\ t.error = s.error /\ t.found = s.found
      BY <3>1, <3>2 DEF AgentState
    <3>5. Kept(t, a)'
      <4>1. s.pc = "ready" /\ ~s.error /\ ~expired => Filled(t, a)
        <5>1. Len(ms) = Len(s.movies)
          <6>1. s.movies \in Seq(Movie)
            BY <3>2 DEF AgentState
          <6>2. Len(ms) \in Nat /\ Len(s.movies) \in Nat /\ 1..Len(ms) = 1..Len(s.movies)
            BY <3>3, <6>1, LenProperties
          <6> QED BY <6>2
        <5>2. Keys(ms) = Keys(s.movies)
          BY <3>3 DEF Keys
        <5> QED BY <3>2, <3>4, <5>1, <5>2 DEF Filled, Kept
      <4>2. Filled(t, a) => Filled(t, a)'
        BY <1>1, SameReport
      <4> QED BY <1>1, <1>5, <3>2, <3>4, <4>1, <4>2 DEF Kept
    <3>6. \A k \in DOMAIN ms : HasPlot(ms[k], a) /\ (ms[k].plot = "" => Given(a, ms[k]) = {})
      BY <3>1, <3>2, EnrichedHasPlot
    <3> QED BY <3>1, <3>2, <3>3, <3>4, <3>5, <3>6
  <2>3. ASSUME NEW r \in requests' PROVE Wanted(agent[r.who], r, r.who)'
    <3>1. PICK u, b : u = agent'[r.who] /\ b = r.who
      OBVIOUS
    <3>2. ASSUME Wiki(r) PROVE r.job[2] \in DOMAIN u.movies /\ Given(b, u.movies[r.job[2]]) = {}
      <4>1. r \in PlotJobs
        BY <1>2, <2>1, <3>2
      <4>2. b \in Agents /\ r.job[2] \in DOMAIN agent[b].movies /\ Enriched(b)[r.job[2]].plot = ""
        BY <3>1, <4>1, PlotJobsAsk
      <4> QED BY <2>2, <3>1, <4>2
    <3>3. Wanted(u, r, b)
      BY <3>2 DEF Wanted
    <3>4. Wanted(u, r, b)'
      BY <1>1, <3>3, SameReport
    <3> QED BY <3>1, <3>4
  <2>4. \A a \in Agents : agent'[a].pc \in {"idle", "ready"}
    BY <2>2 DEF AgentsDone
  <2>5. ASSUME InTime', NEW a \in Agents PROVE agent'[a].pc = "ready" /\ ~agent'[a].error /\ Plotted(agent[a], a)'
    <3>1. ~expired
      BY <1>1, <2>5 DEF InTime
    <3>2. agent'[a].pc = "ready" /\ ~agent'[a].error
      BY <1>5, <2>2, <3>1, AllOver
    <3>3. PICK u : u = agent'[a]
      OBVIOUS
    <3>4. ASSUME NEW k \in DOMAIN u.movies PROVE HasPlot(u.movies[k], a)' /\ (u.movies[k].plot = "" => Asked(a, k)')
      <4>1. u.movies = Enriched(a) /\ k \in DOMAIN agent[a].movies /\ HasPlot(u.movies[k], a)
        BY <2>2, <3>3
      <4>2. ASSUME u.movies[k].plot = "" PROVE Asked(a, k)'
        <5>1. PICK q \in PlotJobs : q.who = a /\ Wiki(q) /\ q.job[2] = k
          BY <4>1, <4>2, PlotJobsAsk
        <5>2. q \in requests' /\ Wiki(q)'
          BY <1>1, <2>1, <3>1, <5>1, SameReport
        <5> QED BY <5>1, <5>2 DEF Asked
      <4> QED BY <1>1, <4>1, <4>2, SameReport
    <3> QED BY <3>2, <3>3, <3>4 DEF Plotted
  <2> QED BY <1>1, <1>5, <2>2, <2>3, <2>4, <2>5 DEF Report
<1>6. \/ phase' = "failed" /\ UNCHANGED <<agent, requests>>
      \/ phase' = "done" /\ UNCHANGED <<agent, requests>> /\ input.offline /\ \A a \in Agents : ~agent[a].error
      \/ /\ phase' = "plots" /\ ~input.offline /\ \A a \in Agents : ~agent[a].error
         /\ agent' = [a \in Agents |-> [agent[a] EXCEPT !.movies = Enriched(a)]]
         /\ \E js \in IF expired THEN SUBSET PlotJobs ELSE {PlotJobs} : requests' = requests \cup js
  BY DEF AgentsDone
<1> QED BY <1>3, <1>4, <1>5, <1>6

(* The other steps leave the agents alone.                                  *)
LEMMA OtherReports ==
  ASSUME Inv, Report, TestProxies \/ PlotsDone \/ Expire \/ UNCHANGED vars
  PROVE  Report'
<1>1. input' = input /\ agent' = agent /\ requests' = requests /\ (expired => expired')
  BY DEF TestProxies, PlotsDone, Expire, vars
<1>2. CASE TestProxies
  <2>1. phase = "agents" /\ input.test /\ phase' \in {"done", "failed"}
    BY <1>2 DEF TestProxies
  <2>2. \A r \in requests : ~Wiki(r)
    BY <2>1, NoneForPlots
  <2> QED BY <1>1, <2>1, <2>2, SameCovers, SameAgentsReport DEF InTime
<1>3. CASE PlotsDone
  <2>1. phase = "plots" /\ phase' = "done" /\ \A r \in requests : ~Wiki(r)
    BY <1>3 DEF PlotsDone, Wiki
  <2>2. InTime => Reported
    BY <2>1 DEF Report, Reported
  <2> QED BY <1>1, <2>1, <2>2, SameCovers, SameAgentsReport
<1>4. CASE Expire \/ UNCHANGED vars
  <2>1. phase' = phase
    BY <1>4 DEF Expire, vars
  <2> QED BY <1>1, <2>1, SameCovers, SameAgentsReport
<1> QED BY <1>2, <1>3, <1>4

LEMMA ReportStep == Inv /\ Report /\ [Next]_vars => Report'
<1> SUFFICES ASSUME Inv, Report, [Next]_vars PROVE Report'
  OBVIOUS
<1>1. CASE TestProxies \/ PlotsDone \/ Expire \/ UNCHANGED vars
  BY <1>1, OtherReports
<1>2. CASE AgentsDone
  BY <1>2, AgentsDoneReports
<1>3. CASE Working /\ AgentStep
  BY <1>3, StartReports, CrawlReports, ReadThreadsReports, AllReadReports, GatherReports, FallbackReports DEF AgentStep
<1>4. CASE Working /\ RequestStep
  BY <1>4, BeginReports, TakeSlotReports, AnswerReports DEF RequestStep
<1> QED BY <1>1, <1>2, <1>3, <1>4 DEF Next

(* A run that its deadline did not cut off ends with every agent ready; an  *)
(* agent reports a full list wherever its picks can fill it, and a plot for *)
(* every movie: one that its picks give, when any of them with its key has  *)
(* one.  Offline these are the plots of its picks, as they are listed       *)
(* (runAllAgents, agent.Run, enrichPlots).                                  *)
THEOREM ReportIsFull == Spec => []FullReport
<1>1. Report => FullReport
  <2> SUFFICES ASSUME Report, phase = "done", ~expired, ~input.test, NEW a \in Agents
               PROVE  LET got == agent[a].movies IN
                      /\ agent[a].pc = "ready"
                      /\ Len(got) < Ag(a).limit => Keys(Ag(a).picks) \subseteq Keys(got)
                      /\ \A k \in DOMAIN got :
                           IF input.offline THEN got[k].plot = Ag(a).picks[k].plot
                           ELSE got[k].plot # "" /\ (Given(a, got[k]) # {} => got[k].plot \in Given(a, got[k]))
    BY DEF FullReport
  <2>1. PICK s : s = agent[a]
    OBVIOUS
  <2>2. Kept(s, a) /\ s.pc = "ready" /\ ~s.error /\ (~input.offline => Plotted(s, a))
    BY <2>1 DEF Report, InTime
  <2>3. Filled(s, a)
    BY <2>2 DEF Kept
  <2>4. \A k : ~Asked(a, k)
    BY DEF Report, Asked
  <2>5. ASSUME NEW k \in DOMAIN s.movies, input.offline PROVE s.movies[k].plot = Ag(a).picks[k].plot
    BY <2>2, <2>5 DEF Kept
  <2>6. ASSUME NEW k \in DOMAIN s.movies, ~input.offline
        PROVE  s.movies[k].plot # "" /\ HasPlot(s.movies[k], a)
    BY <2>2, <2>4, <2>6 DEF Plotted
  <2> QED BY <2>1, <2>2, <2>3, <2>5, <2>6 DEF Filled, HasPlot
<1> QED BY <1>1, InvInit, InvStep, ReportInit, ReportStep, PTL DEF Spec
=============================================================================
