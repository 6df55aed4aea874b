---------------------------- MODULE FoldLemmas -----------------------------
(***************************************************************************)
(* What the sums and the sorted lists of CardJobs and Reports are, for any *)
(* finite set.  They are folds: recursive functions on the subsets of the  *)
(* set, which are shown to exist, to be unique and to compute what they    *)
(* should by looking at a smallest subset for which it is not so.          *)
(***************************************************************************)
EXTENDS CardJobs, FiniteSetTheorems, TLAPS

-----------------------------------------------------------------------------
(* Sets of which some have a property have smallest ones that have it:     *)
(* this is how the lemmas below go from smaller sets to larger ones.       *)

LEMMA SmallestSet ==
    ASSUME NEW S, IsFiniteSet(S), NEW F, F \subseteq SUBSET S, F # {}
    PROVE  \E s \in F : \A t \in F : t \subseteq s => t = s
<1>1. IsWellFoundedOn(StrictSubsetOrdering(S), FiniteSubsetsOf(S))
  BY FS_StrictSubsetOrderingWellFounded
<1>2. F \subseteq FiniteSubsetsOf(S)
  BY FS_FiniteSubsetsOfFinite
<1>3. PICK s \in F : \A t \in F : <<t, s>> \notin StrictSubsetOrdering(S)
  BY <1>1, <1>2, WFMin
<1>4. ASSUME NEW t \in F, t \subseteq s
      PROVE  t = s
  <2>1. t \in SUBSET S /\ s \in SUBSET S
    OBVIOUS
  <2> QED
    BY <1>3, <1>4, <2>1 DEF StrictSubsetOrdering
<1> QED
  BY <1>4

LEMMA SmallestNat ==
    ASSUME NEW F, F \subseteq Nat, F # {}
    PROVE  \E n \in F : \A m \in F : n <= m
<1>1. PICK n \in F : \A m \in F : <<m, n>> \notin OpToRel(<, Nat)
  BY NatLessThanWellFounded, WFMin
<1>2. ASSUME NEW m \in F
      PROVE  n <= m
  <2>1. m \in Nat /\ n \in Nat
    OBVIOUS
  <2>2. ~(m < n)
    BY <1>1, <2>1 DEF OpToRel
  <2> QED
    BY <2>1, <2>2
<1> QED
  BY <1>2

-----------------------------------------------------------------------------
(* Sums *)

(* SumOf takes away an element that it chooses, as long as there is one:   *)
(* g[s] is the sum over s.                                                 *)
One(s) == CHOOSE x \in s : TRUE
Sums(g, f, S) == g = [s \in SUBSET S |-> IF s = {} THEN 0 ELSE f[One(s)] + g[s \ {One(s)}]]

LEMMA OneIs == ASSUME NEW s, s # {} PROVE One(s) \in s
BY DEF One

(* Sums over a set do not depend on where else the functions are defined.  *)
LEMMA SumsAgree ==
    ASSUME NEW S, IsFiniteSet(S), NEW A \in SUBSET S, NEW B \in SUBSET S, NEW f, NEW e,
           NEW g, Sums(g, f, A), NEW h, Sums(h, e, B), NEW u \in SUBSET (A \cap B),
           \A x \in u : f[x] = e[x]
    PROVE  g[u] = h[u]
<1> DEFINE F == {s \in SUBSET u : g[s] # h[s]}
<1>1. CASE F # {}
  <2>1. F \subseteq SUBSET S
    OBVIOUS
  <2>2. PICK s \in F : \A t \in F : t \subseteq s => t = s
    <3> HIDE DEF F
    <3> QED
      BY <1>1, <2>1, SmallestSet
  <2>3. s \in SUBSET A /\ s \in SUBSET B /\ g[s] # h[s] /\ s \subseteq u
    BY <2>2
  <2>4. /\ g[s] = IF s = {} THEN 0 ELSE f[One(s)] + g[s \ {One(s)}]
        /\ h[s] = IF s = {} THEN 0 ELSE e[One(s)] + h[s \ {One(s)}]
    BY <2>3 DEF Sums
  <2>5. s # {}
    BY <2>3, <2>4
  <2>6. One(s) \in s
    BY <2>5, OneIs
  <2>7. s \ {One(s)} \notin F
    BY <2>2, <2>6
  <2>8. g[s \ {One(s)}] = h[s \ {One(s)}]
    BY <2>3, <2>7
  <2>9. f[One(s)] = e[One(s)]
    BY <2>3, <2>6
  <2> QED
    BY <2>3, <2>4, <2>5, <2>8, <2>9
<1>2. CASE F = {}
  BY <1>2
<1> QED
  BY <1>1, <1>2

LEMMA SumsSame ==
    ASSUME NEW S, IsFiniteSet(S), NEW f, NEW e, NEW g, Sums(g, f, S),
           NEW u \in SUBSET S, NEW h, Sums(h, e, u), \A x \in u : f[x] = e[x]
    PROVE  g[u] = h[u]
<1>1. S \in SUBSET S /\ u \in SUBSET S /\ u \in SUBSET (S \cap u)
  OBVIOUS
<1> QED
  BY <1>1, SumsAgree

LEMMA SumsExist ==
    ASSUME NEW S, IsFiniteSet(S), NEW f
    PROVE  \E g : Sums(g, f, S)
<1> DEFINE F == {s \in SUBSET S : \A g : ~Sums(g, f, s)}
<1>1. ASSUME F # {} PROVE FALSE
  <2>1. PICK s \in F : \A t \in F : t \subseteq s => t = s
    <3>1. F \subseteq SUBSET S
      OBVIOUS
    <3> HIDE DEF F
    <3> QED
      BY <1>1, <3>1, SmallestSet
  <2> DEFINE part(t) == CHOOSE g : Sums(g, f, t)
             g == [t \in SUBSET s |->
                     IF t = {} THEN 0 ELSE f[One(t)] + part(t \ {One(t)})[t \ {One(t)}]]
  <2>2. ASSUME NEW t \in SUBSET s, t # s
        PROVE  Sums(part(t), f, t)
    <3>1. t \notin F /\ t \in SUBSET S
      BY <2>1, <2>2
    <3>2. \E e : Sums(e, f, t)
      BY <3>1
    <3> QED
      BY <3>2
  <2>3. ASSUME NEW t \in SUBSET s, t # {}
        PROVE  g[t \ {One(t)}] = part(t \ {One(t)})[t \ {One(t)}]
    <3> DEFINE v == t \ {One(t)}
               w == v \ {One(v)}
    <3>1. v \in SUBSET s /\ v # s /\ s \in SUBSET S
      BY <2>1, <2>3, OneIs
    <3>2. Sums(part(v), f, v)
      BY <2>2, <3>1
    <3>3. part(v)[v] = IF v = {} THEN 0 ELSE f[One(v)] + part(v)[w]
      <4> HIDE DEF v, part
      <4> QED BY <3>2 DEF Sums
    <3>4. g[v] = IF v = {} THEN 0 ELSE f[One(v)] + part(w)[w]
      BY <3>1
    <3>5. v # {} => part(v)[w] = part(w)[w]
      <4>1. w \in SUBSET s /\ w \in SUBSET v
        BY <3>1
      <4>2. v # {} => w # s
        BY <3>1, OneIs
      <4>3. v # {} => Sums(part(w), f, w)
        BY <2>2, <4>1, <4>2
      <4>4. IsFiniteSet(v)
        BY <3>1, FS_Subset
      <4>5. \A x \in w : f[x] = f[x]
        OBVIOUS
      <4> HIDE DEF part, v, w
      <4> QED
        BY <3>2, <4>1, <4>3, <4>4, <4>5, SumsSame
    <3> HIDE DEF g, part, w
    <3> QED
      BY <3>3, <3>4, <3>5
  <2>4. g = [t \in SUBSET s |-> IF t = {} THEN 0 ELSE f[One(t)] + g[t \ {One(t)}]]
    <3> DEFINE e == [t \in SUBSET s |-> IF t = {} THEN 0 ELSE f[One(t)] + g[t \ {One(t)}]]
    <3>1. ASSUME NEW t \in SUBSET s
          PROVE  g[t] = e[t]
      <4>1. g[t] = IF t = {} THEN 0 ELSE f[One(t)] + part(t \ {One(t)})[t \ {One(t)}]
        OBVIOUS
      <4> HIDE DEF g, part
      <4> QED
        BY <2>3, <4>1
    <3> QED
      BY <3>1
  <2>5. Sums(g, f, s)
    <3> HIDE DEF g
    <3> QED
      BY <2>4 DEF Sums
  <2> QED
    BY <2>1, <2>5
<1>2. S \notin F
  BY <1>1
<1> QED
  BY <1>2

Sum(f, S) == MapThenSumSet(LAMBDA x : f[x], S)

LEMMA SumIs ==
    ASSUME NEW S, IsFiniteSet(S), NEW f
    PROVE  \E g : Sums(g, f, S) /\ \A u \in SUBSET S : Sum(f, u) = g[u]
<1>1. PICK g : Sums(g, f, S)
  BY SumsExist
<1>2. ASSUME NEW u \in SUBSET S
      PROVE  Sum(f, u) = g[u]
  <2> DEFINE h == CHOOSE e : Sums(e, f, u)
  <2>1. IsFiniteSet(u)
    BY <1>2, FS_Subset
  <2>2. \E e : Sums(e, f, u)
    BY <2>1, SumsExist
  <2>3. Sums(h, f, u)
    BY <2>2
  <2>4. Sum(f, u) = h[u]
    BY DEF Sum, MapThenSumSet, MapThenFoldSet, Sums, One
  <2>5. \A x \in u : f[x] = f[x]
    OBVIOUS
  <2> HIDE DEF h
  <2>6. g[u] = h[u]
    BY <1>1, <2>3, <2>5, SumsSame
  <2> QED
    BY <2>4, <2>6
<1> QED
  BY <1>1, <1>2

LEMMA SumSame ==
    ASSUME NEW S, IsFiniteSet(S), NEW f, NEW e, \A x \in S : f[x] = e[x]
    PROVE  Sum(f, S) = Sum(e, S)
<1>1. PICK g : Sums(g, f, S) /\ \A u \in SUBSET S : Sum(f, u) = g[u]
  BY SumIs
<1>2. PICK h : Sums(h, e, S) /\ \A u \in SUBSET S : Sum(e, u) = h[u]
  BY SumIs
<1>3. S \in SUBSET S
  OBVIOUS
<1>4. g[S] = h[S]
  BY <1>1, <1>2, <1>3, SumsSame
<1> QED
  BY <1>1, <1>2, <1>3, <1>4

LEMMA SumEmpty == ASSUME NEW f PROVE Sum(f, {}) = 0
<1>1. IsFiniteSet({})
  BY FS_EmptySet
<1>2. PICK g : Sums(g, f, {}) /\ \A u \in SUBSET {} : Sum(f, u) = g[u]
  BY <1>1, SumIs
<1>3. {} \in SUBSET {}
  OBVIOUS
<1> QED
  BY <1>2, <1>3 DEF Sums

(* The sum is made up from the element that is taken away first.           *)
LEMMA SumStep ==
    ASSUME NEW S, IsFiniteSet(S), NEW f, S # {}
    PROVE  Sum(f, S) = f[One(S)] + Sum(f, S \ {One(S)})
<1>1. PICK g : Sums(g, f, S) /\ \A u \in SUBSET S : Sum(f, u) = g[u]
  BY SumIs
<1>2. S \in SUBSET S /\ S \ {One(S)} \in SUBSET S
  OBVIOUS
<1>3. g[S] = f[One(S)] + g[S \ {One(S)}]
  BY <1>1, <1>2 DEF Sums
<1> QED
  BY <1>1, <1>2, <1>3

LEMMA SumType ==
    ASSUME NEW S, IsFiniteSet(S), NEW T \in {Int, Nat, {0}}, NEW f, \A x \in S : f[x] \in T
    PROVE  Sum(f, S) \in T
<1> DEFINE F == {s \in SUBSET S : Sum(f, s) \notin T}
<1>1. ASSUME F # {} PROVE FALSE
  <2>1. PICK s \in F : \A t \in F : t \subseteq s => t = s
    <3>1. F \subseteq SUBSET S
      OBVIOUS
    <3> HIDE DEF F
    <3> QED
      BY <1>1, <3>1, SmallestSet
  <2>2. s \in SUBSET S /\ IsFiniteSet(s) /\ Sum(f, s) \notin T
    BY <2>1, FS_Subset
  <2>3. s # {}
    BY <2>2, SumEmpty
  <2>4. Sum(f, s) = f[One(s)] + Sum(f, s \ {One(s)})
    BY <2>2, <2>3, SumStep
  <2>5. One(s) \in s /\ f[One(s)] \in T
    BY <2>2, <2>3, OneIs
  <2>6. Sum(f, s \ {One(s)}) \in T
    BY <2>1, <2>2, <2>5
  <2> QED
    BY <2>2, <2>4, <2>5, <2>6
<1>2. S \notin F
  BY <1>1
<1> QED
  BY <1>2

(* ... or from any other.                                                  *)
LEMMA SumRemove ==
    ASSUME NEW S, IsFiniteSet(S), NEW f, \A y \in S : f[y] \in Int, NEW x \in S
    PROVE  Sum(f, S) = f[x] + Sum(f, S \ {x}) /\ Sum(f, S \ {x}) \in Int
<1> DEFINE F == {s \in SUBSET S : \E z \in s : Sum(f, s) # f[z] + Sum(f, s \ {z})}
<1>1. ASSUME F # {} PROVE FALSE
  <2>1. PICK s \in F : \A t \in F : t \subseteq s => t = s
    <3>1. F \subseteq SUBSET S
      OBVIOUS
    <3> HIDE DEF F
    <3> QED
      BY <1>1, <3>1, SmallestSet
  <2>2. s \in SUBSET S /\ IsFiniteSet(s)
    BY <2>1, FS_Subset
  <2>3. PICK z \in s : Sum(f, s) # f[z] + Sum(f, s \ {z})
    BY <2>1
  <2>4. PICK c : c = One(s) /\ c \in s
    BY <2>3, OneIs
  <2>5. Sum(f, s) = f[c] + Sum(f, s \ {c})
    BY <2>2, <2>4, SumStep
  <2>6. c # z
    BY <2>3, <2>5
  <2>7. Sum(f, s \ {c}) = f[z] + Sum(f, (s \ {c}) \ {z})
    <3>1. s \ {c} \notin F /\ s \ {c} \in SUBSET S /\ z \in s \ {c}
      BY <2>1, <2>2, <2>4, <2>6
    <3> QED
      BY <3>1
  <2>8. Sum(f, s \ {z}) = f[c] + Sum(f, (s \ {c}) \ {z})
    <3>1. s \ {z} \notin F /\ s \ {z} \in SUBSET S /\ c \in s \ {z}
      BY <2>1, <2>2, <2>4, <2>6
    <3>2. (s \ {z}) \ {c} = (s \ {c}) \ {z}
      OBVIOUS
    <3> QED
      BY <3>1, <3>2
  <2>9. Sum(f, (s \ {c}) \ {z}) \in Int
    <3>1. IsFiniteSet((s \ {c}) \ {z}) /\ \A y \in (s \ {c}) \ {z} : f[y] \in Int
      BY <2>2, FS_RemoveElement
    <3> QED
      BY <3>1, SumType
  <2>10. f[c] \in Int /\ f[z] \in Int
    BY <2>2, <2>4
  <2> QED
    BY <2>3, <2>5, <2>7, <2>8, <2>9, <2>10
<1>2. S \notin F
  BY <1>1
<1>3. IsFiniteSet(S \ {x}) /\ \A y \in S \ {x} : f[y] \in Int
  BY FS_RemoveElement
<1>4. Sum(f, S \ {x}) \in Int
  BY <1>3, SumType
<1> QED
  BY <1>2, <1>4

(* The groups of a set add up to the set.                                  *)
LEMMA SumGroups ==
    ASSUME NEW S, IsFiniteSet(S), NEW f, \A x \in S : f[x] \in Int,
           NEW K, IsFiniteSet(K), NEW key, \A x \in S : key[x] \in K,
           NEW t, \A k \in K : t[k] = Sum(f, {x \in S : key[x] = k})
    PROVE  Sum(t, K) = Sum(f, S)
<1> DEFINE group(s, k) == {x \in s : key[x] = k}
           part(s) == [k \in K |-> Sum(f, group(s, k))]
           F == {s \in SUBSET S : Sum(part(s), K) # Sum(f, s)}
<1>0. ASSUME NEW s \in SUBSET S
      PROVE  IsFiniteSet(s) /\ \A k \in K : part(s)[k] = Sum(f, group(s, k)) /\ part(s)[k] \in Int
  <2>1. IsFiniteSet(s)
    BY FS_Subset
  <2>2. ASSUME NEW k \in K
        PROVE  part(s)[k] = Sum(f, group(s, k)) /\ part(s)[k] \in Int
    <3>1. IsFiniteSet(group(s, k)) /\ \A x \in group(s, k) : f[x] \in Int
      BY <2>1, FS_Subset
    <3>2. Sum(f, group(s, k)) \in Int
      <4> HIDE DEF group
      <4> QED
        BY <3>1, SumType
    <3> QED
      BY <3>2
  <2> QED
    BY <2>1, <2>2
<1>1. ASSUME F # {} PROVE FALSE
  <2>1. PICK s \in F : \A u \in F : u \subseteq s => u = s
    <3>1. F \subseteq SUBSET S
      OBVIOUS
    <3> HIDE DEF F
    <3> QED
      BY <1>1, <3>1, SmallestSet
  <2>2. s \in SUBSET S /\ Sum(part(s), K) # Sum(f, s)
    BY <2>1
  <2>3. s # {}
    <3>1. ASSUME s = {} PROVE FALSE
      <4>1. \A k \in K : part(s)[k] \in {0}
        <5>1. \A k \in K : group(s, k) = {}
          BY <3>1
        <5> HIDE DEF part, group
        <5> QED
          BY <1>0, <2>2, <5>1, SumEmpty
      <4>2. Sum(part(s), K) \in {0}
        <5> HIDE DEF part
        <5> QED
          BY <4>1, SumType
      <4> QED
        BY <2>2, <3>1, <4>2, SumEmpty
    <3> QED
      BY <3>1
  <2>4. PICK x \in s : TRUE
    BY <2>3
  <2> DEFINE v == s \ {x}
             k0 == key[x]
  <2>5. k0 \in K /\ v \in SUBSET S /\ v \notin F /\ IsFiniteSet(v)
    BY <1>0, <2>1, <2>2, <2>4
  <2>6. Sum(part(v), K) = Sum(f, v)
    BY <2>5
  <2>7. Sum(f, s) = f[x] + Sum(f, v) /\ f[x] \in Int /\ Sum(f, v) \in Int
    <3>1. IsFiniteSet(s) /\ \A y \in s : f[y] \in Int
      BY <1>0, <2>2
    <3> QED
      BY <3>1, SumRemove
  <2>8. part(s)[k0] = f[x] + part(v)[k0]
    <3>1. IsFiniteSet(group(s, k0)) /\ x \in group(s, k0)
          /\ group(v, k0) = group(s, k0) \ {x} /\ \A y \in group(s, k0) : f[y] \in Int
      BY <1>0, <2>2, FS_Subset
    <3>2. Sum(f, group(s, k0)) = f[x] + Sum(f, group(v, k0))
      <4>1. PICK all : all = group(s, k0)
        OBVIOUS
      <4>2. Sum(f, all) = f[x] + Sum(f, all \ {x})
        <5> HIDE DEF group, k0, v
        <5> QED
          BY <3>1, <4>1, SumRemove
      <4> HIDE DEF group, k0, v
      <4> QED
        BY <3>1, <4>1, <4>2
    <3> HIDE DEF part, group, k0, v
    <3> QED
      BY <1>0, <2>2, <2>5, <3>2
  <2>9. \A k \in K \ {k0} : part(s)[k] = part(v)[k]
    <3>1. \A k \in K \ {k0} : group(s, k) = group(v, k)
      OBVIOUS
    <3> HIDE DEF group, v, k0
    <3> QED
      BY <3>1
  <2>10. /\ Sum(part(s), K) = part(s)[k0] + Sum(part(s), K \ {k0})
         /\ Sum(part(v), K) = part(v)[k0] + Sum(part(v), K \ {k0})
         /\ Sum(part(v), K \ {k0}) \in Int /\ part(v)[k0] \in Int
    <3>1. (\A k \in K : part(s)[k] \in Int) /\ (\A k \in K : part(v)[k] \in Int)
      <4> HIDE DEF part, v
      <4> QED
        BY <1>0, <2>2, <2>5
    <3>2. PICK new, old : new = part(s) /\ old = part(v)
      OBVIOUS
    <3> HIDE DEF part, k0, v
    <3>3. Sum(new, K) = new[k0] + Sum(new, K \ {k0})
      BY <2>5, <3>1, <3>2, SumRemove
    <3>4. Sum(old, K) = old[k0] + Sum(old, K \ {k0}) /\ Sum(old, K \ {k0}) \in Int
      BY <2>5, <3>1, <3>2, SumRemove
    <3> QED
      BY <2>5, <3>1, <3>2, <3>3, <3>4
  <2>11. Sum(part(s), K \ {k0}) = Sum(part(v), K \ {k0})
    <3>1. IsFiniteSet(K \ {k0})
      BY FS_RemoveElement
    <3> HIDE DEF part, k0, v
    <3> QED
      BY <2>9, <3>1, SumSame
  <2> HIDE DEF part, k0, v
  <2> QED
    BY <2>2, <2>6, <2>7, <2>8, <2>10, <2>11
<1>2. Sum(part(S), K) = Sum(f, S)
  BY <1>1
<1>3. \A k \in K : part(S)[k] = t[k]
  OBVIOUS
<1> HIDE DEF part
<1> QED
  BY <1>2, <1>3, SumSame

(* A sum over 1..n, by its beginnings.                                     *)
LEMMA SumTo ==
    ASSUME NEW n \in Nat, NEW f, \A k \in 1..n : f[k] \in Int,
           NEW h, h[0] = 0, \A k \in 1..n : h[k] = h[k - 1] + f[k]
    PROVE  Sum(f, 1..n) = h[n]
<1> DEFINE F == {k \in 0..n : Sum(f, 1..k) # h[k]}
<1>1. ASSUME F # {} PROVE FALSE
  <2>1. PICK k \in F : \A m \in F : k <= m
    <3>1. F \subseteq Nat
      OBVIOUS
    <3> HIDE DEF F
    <3> QED
      BY <1>1, <3>1, SmallestNat
  <2>2. k \in 0..n /\ Sum(f, 1..k) # h[k]
    BY <2>1
  <2>3. k # 0
    <3>1. 1..0 = {}
      OBVIOUS
    <3> QED
      BY <2>2, <3>1, SumEmpty
  <2>4. Sum(f, 1..(k - 1)) = h[k - 1]
    <3>1. k - 1 \in 0..n /\ k - 1 \notin F
      BY <2>1, <2>2, <2>3
    <3> QED
      BY <3>1
  <2>5. Sum(f, 1..k) = f[k] + Sum(f, (1..k) \ {k}) /\ Sum(f, (1..k) \ {k}) \in Int
    <3>1. IsFiniteSet(1..k) /\ k \in 1..k /\ \A y \in 1..k : f[y] \in Int
      BY <2>2, <2>3, FS_Interval
    <3> QED
      BY <3>1, SumRemove
  <2>6. (1..k) \ {k} = 1..(k - 1)
    BY <2>2, <2>3
  <2>7. h[k] = h[k - 1] + f[k] /\ f[k] \in Int
    BY <2>2, <2>3
  <2>8. Sum(f, (1..k) \ {k}) = Sum(f, 1..(k - 1))
    BY <2>6
  <2> QED
    BY <2>2, <2>4, <2>5, <2>7, <2>8
<1>2. n \notin F
  BY <1>1
<1> QED
  BY <1>2

(* Shares that are rounded add up to the whole but for the roundings.      *)
Rounds(share, amount, whole, n) ==
    /\ 2 * (whole * share) <= 2000 * amount + whole * n
    /\ 2 * (whole * share) >= 2000 * amount - whole * n

LEMMA SumShares ==
    ASSUME NEW K, IsFiniteSet(K), NEW w \in Nat, NEW a, NEW p,
           \A k \in K : a[k] \in Nat /\ p[k] \in Nat /\ Rounds(p[k], a[k], w, 1)
    PROVE  Rounds(Sum(p, K), Sum(a, K), w, Cardinality(K))
<1> DEFINE fits(s) == Rounds(Sum(p, s), Sum(a, s), w, Cardinality(s))
           F == {s \in SUBSET K : ~fits(s)}
<1>1. ASSUME F # {} PROVE FALSE
  <2>1. PICK s \in F : \A u \in F : u \subseteq s => u = s
    <3>1. F \subseteq SUBSET K
      OBVIOUS
    <3> HIDE DEF F
    <3> QED
      BY <1>1, <3>1, SmallestSet
  <2>2. s \in SUBSET K /\ IsFiniteSet(s) /\ ~fits(s)
    BY <2>1, FS_Subset
  <2>3. s # {}
    <3>1. Sum(p, {}) = 0 /\ Sum(a, {}) = 0 /\ Cardinality({}) = 0
      BY SumEmpty, FS_EmptySet
    <3>2. Rounds(0, 0, w, 0)
      BY DEF Rounds
    <3> QED
      BY <2>2, <3>1, <3>2
  <2>4. PICK x \in s : TRUE
    BY <2>3
  <2> DEFINE v == s \ {x}
  <2>5. v \in SUBSET K /\ IsFiniteSet(v) /\ fits(v)
    <3>1. v \notin F /\ v \in SUBSET K
      BY <2>1, <2>2, <2>4
    <3> QED
      BY <2>2, <3>1, FS_RemoveElement
  <2>6. /\ Sum(p, s) = p[x] + Sum(p, v) /\ Sum(p, v) \in Int /\ p[x] \in Nat
        /\ Sum(a, s) = a[x] + Sum(a, v) /\ Sum(a, v) \in Int /\ a[x] \in Nat
    <3>1. (\A k \in s : p[k] \in Int) /\ (\A k \in s : a[k] \in Int)
      BY <2>2
    <3>2. Sum(p, s) = p[x] + Sum(p, v) /\ Sum(p, v) \in Int
      BY <2>2, <3>1, SumRemove
    <3>3. Sum(a, s) = a[x] + Sum(a, v) /\ Sum(a, v) \in Int
      BY <2>2, <3>1, SumRemove
    <3> QED
      BY <2>2, <3>2, <3>3
  <2>7. Cardinality(s) = Cardinality(v) + 1 /\ Cardinality(v) \in Nat
    <3>1. Cardinality(s) \in Nat /\ Cardinality(v) \in Nat
      BY <2>2, <2>5, FS_CardinalityType
    <3>2. Cardinality(v) = Cardinality(s) - 1
      BY <2>2, FS_RemoveElement
    <3> QED
      BY <3>1, <3>2
  <2>8. /\ 2 * (w * p[x]) <= 2000 * a[x] + w
        /\ 2 * (w * p[x]) >= 2000 * a[x] - w
    BY <2>2 DEF Rounds
  <2>9. w * (p[x] + Sum(p, v)) = w * p[x] + w * Sum(p, v)
    BY <2>6
  <2>10. w * (Cardinality(v) + 1) = w * Cardinality(v) + w
    BY <2>7
  <2>11. w * p[x] \in Int /\ w * Sum(p, v) \in Int /\ w * Cardinality(v) \in Int
    BY <2>6, <2>7
  <2>12. fits(s)
    <3>1. PICK i \in Int, j \in Int, l \in Int :
            i = w * p[x] /\ j = w * Sum(p, v) /\ l = w * Cardinality(v)
      BY <2>11
    <3>2. /\ 2 * j <= 2000 * Sum(a, v) + l /\ 2 * j >= 2000 * Sum(a, v) - l
      BY <2>5, <3>1 DEF Rounds
    <3>3. /\ 2 * i <= 2000 * a[x] + w /\ 2 * i >= 2000 * a[x] - w
      BY <2>8, <3>1
    <3>4. w * Sum(p, s) = i + j /\ w * Cardinality(s) = l + w
      BY <2>6, <2>7, <2>9, <2>10, <3>1
    <3>5. /\ 2 * (i + j) <= 2000 * (a[x] + Sum(a, v)) + (l + w)
          /\ 2 * (i + j) >= 2000 * (a[x] + Sum(a, v)) - (l + w)
      BY <2>6, <3>2, <3>3
    <3> QED
      BY <2>6, <3>4, <3>5 DEF Rounds
  <2> HIDE DEF fits
  <2> QED
    BY <2>2, <2>12
<1>2. K \notin F
  BY <1>1
<1> QED
  BY <1>2

-----------------------------------------------------------------------------
(* Sorted lists *)

(* R may order the elements of S, with ties: what is not before something  *)
(* that is not before a third is not before the third either.              *)
Order(R, S) ==
    \A x, y, z \in S :
       /\ <<x, y>> \in R => <<y, x>> \notin R
       /\ <<x, y>> \notin R /\ <<y, z>> \notin R => <<x, z>> \notin R

LEMMA FirstExists ==
    ASSUME NEW S, IsFiniteSet(S), S # {}, NEW R, Order(R, S)
    PROVE  \E x \in S : \A y \in S : <<y, x>> \notin R
<1> DEFINE F == {s \in SUBSET S : s # {} /\ \A x \in s : \E y \in s : <<y, x>> \in R}
<1>1. ASSUME F # {} PROVE FALSE
  <2>1. PICK s \in F : \A u \in F : u \subseteq s => u = s
    <3>1. F \subseteq SUBSET S
      OBVIOUS
    <3> HIDE DEF F
    <3> QED
      BY <1>1, <3>1, SmallestSet
  <2>2. s \in SUBSET S /\ s # {} /\ \A x \in s : \E y \in s : <<y, x>> \in R
    BY <2>1
  <2>3. PICK x \in s : TRUE
    BY <2>2
  <2>4. PICK y \in s : <<y, x>> \in R
    BY <2>2
  <2>5. y # x
    BY <2>2, <2>4 DEF Order
  <2>6. s \ {x} \notin F /\ s \ {x} \in SUBSET S /\ y \in s \ {x}
    BY <2>1, <2>2, <2>4, <2>5
  <2>7. PICK z \in s \ {x} : \A v \in s \ {x} : <<v, z>> \notin R
    BY <2>6
  <2>8. PICK v \in s : <<v, z>> \in R
    BY <2>2, <2>7
  <2>9. v = x
    BY <2>7, <2>8
  <2>10. <<y, z>> \notin R
    BY <2>6, <2>7
  <2>11. <<z, x>> \notin R
    BY <2>2, <2>7, <2>8, <2>9 DEF Order
  <2> QED
    BY <2>2, <2>4, <2>7, <2>10, <2>11 DEF Order
<1>2. S \notin F
  BY <1>1
<1> QED
  BY <1>2

(* InOrder takes the first of what is left, as long as there is one.       *)
Lists(g, R, S) ==
    g = [s \in SUBSET S |->
            IF s = {} THEN <<>> ELSE <<First(s, R)>> \o g[s \ {First(s, R)}]]

LEMMA FirstIs ==
    ASSUME NEW S, IsFiniteSet(S), NEW R, Order(R, S), NEW s \in SUBSET S, s # {}
    PROVE  First(s, R) \in s /\ \A y \in s : <<y, First(s, R)>> \notin R
<1>1. IsFiniteSet(s) /\ Order(R, s)
  BY FS_Subset DEF Order
<1>2. \E x \in s : \A y \in s : <<y, x>> \notin R
  BY <1>1, FirstExists
<1> QED
  BY <1>2 DEF First

(* A list of the elements of S, each of them once, in the order of R.      *)
Sorts(list, S, R) ==
    /\ list \in [1..Cardinality(S) -> S]
    /\ \A x \in S : \E i \in 1..Cardinality(S) : list[i] = x
    /\ \A i, j \in 1..Cardinality(S) :
          i < j => list[i] # list[j] /\ <<list[j], list[i]>> \notin R

LEMMA ConsSorts ==
    ASSUME NEW S, IsFiniteSet(S), NEW R, NEW x \in S, \A y \in S : <<y, x>> \notin R,
           NEW rest, Sorts(rest, S \ {x}, R)
    PROVE  Sorts(<<x>> \o rest, S, R)
<1> DEFINE n == Cardinality(S)
           list == <<x>> \o rest
<1>1. n \in Nat \ {0} /\ Cardinality(S \ {x}) = n - 1
  <2>1. n \in Nat /\ n # 0
    BY FS_CardinalityType, FS_EmptySet
  <2> QED
    BY <2>1, FS_RemoveElement
<1>2. rest \in [1..(n - 1) -> S \ {x}]
  BY <1>1 DEF Sorts
<1>3. /\ list \in [1..n -> S]
      /\ list[1] = x /\ \A i \in 1..(n - 1) : list[i + 1] = rest[i]
  <2> HIDE DEF n
  <2>1. rest \in Seq(S) /\ Len(rest) = n - 1
    <3>1. rest \in [1..(n - 1) -> S] /\ n - 1 \in Nat
      BY <1>1, <1>2
    <3> QED
      BY <3>1
  <2>2. list \in Seq(S) /\ Len(list) = n /\ list[1] = x /\ \A i \in 1..(n - 1) : list[i + 1] = rest[i]
    BY <1>1, <2>1
  <2> HIDE DEF list
  <2> QED
    BY <1>1, <2>2
<1>4. ASSUME NEW y \in S
      PROVE  \E i \in 1..n : list[i] = y
  <2>1. CASE y = x
    <3> HIDE DEF n, list
    <3> QED
      BY <1>1, <1>3, <2>1
  <2>2. CASE y # x
    <3>1. PICK i \in 1..(n - 1) : rest[i] = y
      BY <1>1, <2>2 DEF Sorts
    <3> HIDE DEF n, list
    <3> QED
      BY <1>1, <1>3, <3>1
  <2> QED
    BY <2>1, <2>2
<1>5. ASSUME NEW i \in 1..n, NEW j \in 1..n, i < j
      PROVE  list[i] # list[j] /\ <<list[j], list[i]>> \notin R
  <2>1. j - 1 \in 1..(n - 1) /\ list[j] = rest[j - 1] /\ rest[j - 1] \in S \ {x}
    <3> HIDE DEF n, list
    <3>1. j - 1 \in 1..(n - 1) /\ (j - 1) + 1 = j
      BY <1>1, <1>5
    <3> QED
      BY <1>2, <1>3, <3>1
  <2>2. CASE i = 1
    <3> HIDE DEF n, list
    <3> QED
      BY <1>3, <2>1, <2>2
  <2>3. CASE i # 1
    <3>1. i - 1 \in 1..(n - 1) /\ (i - 1) + 1 = i /\ i - 1 < j - 1
      <4> HIDE DEF n, list
      <4> QED
        BY <1>1, <1>5, <2>1, <2>3
    <3>2. rest[i - 1] # rest[j - 1] /\ <<rest[j - 1], rest[i - 1]>> \notin R
      BY <1>1, <2>1, <3>1 DEF Sorts
    <3>3. list[i] = rest[i - 1]
      <4> HIDE DEF n, list
      <4> QED
        BY <1>3, <3>1
    <3> HIDE DEF n, list
    <3> QED
      BY <2>1, <3>2, <3>3
  <2> QED
    BY <2>2, <2>3
<1>6. Sorts(list, S, R)
  <2> HIDE DEF list
  <2> QED
    BY <1>3, <1>4, <1>5 DEF Sorts
<1> QED
  BY <1>6

LEMMA ListsSame ==
    ASSUME NEW S, IsFiniteSet(S), NEW R, Order(R, S), NEW g, Lists(g, R, S),
           NEW u \in SUBSET S, NEW h, Lists(h, R, u)
    PROVE  g[u] = h[u]
<1> DEFINE F == {s \in SUBSET u : g[s] # h[s]}
<1>1. CASE F # {}
  <2>1. F \subseteq SUBSET S
    OBVIOUS
  <2>2. PICK s \in F : \A t \in F : t \subseteq s => t = s
    <3> HIDE DEF F
    <3> QED
      BY <1>1, <2>1, SmallestSet
  <2>3. s \in SUBSET S /\ s \in SUBSET u /\ g[s] # h[s]
    BY <2>2
  <2>4. /\ g[s] = IF s = {} THEN <<>> ELSE <<First(s, R)>> \o g[s \ {First(s, R)}]
        /\ h[s] = IF s = {} THEN <<>> ELSE <<First(s, R)>> \o h[s \ {First(s, R)}]
    BY <2>3 DEF Lists
  <2>5. s # {}
    BY <2>3, <2>4
  <2>6. First(s, R) \in s
    BY <2>3, <2>5, FirstIs
  <2>7. s \ {First(s, R)} \notin F
    BY <2>2, <2>6
  <2>8. g[s \ {First(s, R)}] = h[s \ {First(s, R)}]
    BY <2>3, <2>7
  <2> QED
    BY <2>3, <2>4, <2>5, <2>8
<1>2. CASE F = {}
  BY <1>2
<1> QED
  BY <1>1, <1>2

LEMMA ListsExist ==
    ASSUME NEW S, IsFiniteSet(S), NEW R, Order(R, S)
    PROVE  \E g : Lists(g, R, S)
<1> DEFINE F == {s \in SUBSET S : \A g : ~Lists(g, R, s)}
<1>1. ASSUME F # {} PROVE FALSE
  <2>1. PICK s \in F : \A t \in F : t \subseteq s => t = s
    <3>1. F \subseteq SUBSET S
      OBVIOUS
    <3> HIDE DEF F
    <3> QED
      BY <1>1, <3>1, SmallestSet
  <2> DEFINE part(t) == CHOOSE g : Lists(g, R, t)
             g == [t \in SUBSET s |->
                     IF t = {} THEN <<>>
                     ELSE <<First(t, R)>> \o part(t \ {First(t, R)})[t \ {First(t, R)}]]
  <2>2. ASSUME NEW t \in SUBSET s, t # s
        PROVE  Lists(part(t), R, t)
    <3>1. t \notin F /\ t \in SUBSET S
      BY <2>1, <2>2
    <3>2. \E e : Lists(e, R, t)
      BY <3>1
    <3> QED
      BY <3>2
  <2>3. ASSUME NEW t \in SUBSET s, t # {}
        PROVE  g[t \ {First(t, R)}] = part(t \ {First(t, R)})[t \ {First(t, R)}]
    <3> DEFINE v == t \ {First(t, R)}
               w == v \ {First(v, R)}
    <3>1. v \in SUBSET s /\ v # s /\ s \in SUBSET S /\ v \in SUBSET S
      <4>1. t \in SUBSET S
        BY <2>1
      <4>2. First(t, R) \in t
        BY <2>3, <4>1, FirstIs
      <4> QED
        BY <2>1, <4>1, <4>2
    <3>2. Lists(part(v), R, v)
      BY <2>2, <3>1
    <3>3. part(v)[v] = IF v = {} THEN <<>> ELSE <<First(v, R)>> \o part(v)[w]
      <4> HIDE DEF v, part
      <4> QED BY <3>2 DEF Lists
    <3>4. g[v] = IF v = {} THEN <<>> ELSE <<First(v, R)>> \o part(w)[w]
      BY <3>1
    <3>5. v # {} => part(v)[w] = part(w)[w]
      <4>1. w \in SUBSET s /\ w \in SUBSET v
        BY <3>1
      <4>2. v # {} => w # s
        BY <3>1, FirstIs
      <4>3. v # {} => Lists(part(w), R, w)
        BY <2>2, <4>1, <4>2
      <4>4. IsFiniteSet(v) /\ Order(R, v)
        BY <3>1, FS_Subset DEF Order
      <4> HIDE DEF part, v, w
      <4> QED
        BY <3>2, <4>1, <4>3, <4>4, ListsSame
    <3> HIDE DEF g, part, w
    <3> QED
      BY <3>3, <3>4, <3>5
  <2>4. g = [t \in SUBSET s |->
               IF t = {} THEN <<>> ELSE <<First(t, R)>> \o g[t \ {First(t, R)}]]
    <3> DEFINE e == [t \in SUBSET s |->
                       IF t = {} THEN <<>> ELSE <<First(t, R)>> \o g[t \ {First(t, R)}]]
    <3>1. ASSUME NEW t \in SUBSET s
          PROVE  g[t] = e[t]
      <4>1. g[t] = IF t = {} THEN <<>>
                   ELSE <<First(t, R)>> \o part(t \ {First(t, R)})[t \ {First(t, R)}]
        OBVIOUS
      <4> HIDE DEF g, part
      <4> QED
        BY <2>3, <4>1
    <3> QED
      BY <3>1
  <2>5. Lists(g, R, s)
    <3> HIDE DEF g
    <3> QED
      BY <2>4 DEF Lists
  <2> QED
    BY <2>1, <2>5
<1>2. S \notin F
  BY <1>1
<1> QED
  BY <1>2

(* A list is sorted because what remains of it is.                         *)
LEMMA ListsSort ==
    ASSUME NEW S, IsFiniteSet(S), NEW R, Order(R, S), NEW g, Lists(g, R, S)
    PROVE  Sorts(g[S], S, R)
<1> DEFINE F == {s \in SUBSET S : ~Sorts(g[s], s, R)}
<1>1. ASSUME F # {} PROVE FALSE
  <2>1. PICK s \in F : \A t \in F : t \subseteq s => t = s
    <3>1. F \subseteq SUBSET S
      OBVIOUS
    <3> HIDE DEF F
    <3> QED
      BY <1>1, <3>1, SmallestSet
  <2>2. s \in SUBSET S /\ ~Sorts(g[s], s, R) /\ IsFiniteSet(s)
    BY <2>1, FS_Subset
  <2>3. g[s] = IF s = {} THEN <<>> ELSE <<First(s, R)>> \o g[s \ {First(s, R)}]
    BY <2>2 DEF Lists
  <2>4. CASE s = {}
    <3>1. 1..Cardinality({}) = {} /\ <<>> \in [{} -> {}]
      BY FS_EmptySet
    <3>2. Sorts(<<>>, {}, R)
      BY <3>1 DEF Sorts
    <3> QED
      BY <2>2, <2>3, <2>4, <3>2
  <2>5. CASE s # {}
    <3>1. First(s, R) \in s /\ \A y \in s : <<y, First(s, R)>> \notin R
      BY <2>2, <2>5, FirstIs
    <3>2. Sorts(g[s \ {First(s, R)}], s \ {First(s, R)}, R)
      BY <2>1, <2>2, <3>1
    <3>3. Sorts(g[s], s, R)
      BY <2>2, <2>3, <2>5, <3>1, <3>2, ConsSorts
    <3> QED
      BY <2>2, <3>3
  <2> QED
    BY <2>4, <2>5
<1>2. S \notin F
  BY <1>1
<1> QED
  BY <1>2

LEMMA InOrderSorts ==
    ASSUME NEW S, IsFiniteSet(S), NEW R, Order(R, S)
    PROVE  Sorts(InOrder(S, R), S, R)
<1> DEFINE g == CHOOSE h : Lists(h, R, S)
<1>1. Lists(g, R, S)
  BY ListsExist
<1>2. InOrder(S, R) = g[S]
  BY DEF InOrder, MapThenFoldSet, Lists
<1> HIDE DEF g
<1> QED
  BY <1>1, <1>2, ListsSort
=============================================================================
