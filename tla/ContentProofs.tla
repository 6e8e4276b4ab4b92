----------------------------- MODULE ContentProofs -----------------------------
(***************************************************************************)
(* Proofs about what users keep: the documents of PageDocument for any     *)
(* nodes, page, selections and number of commands, and the artifacts of    *)
(* Backup for any objects and bounds.                                      *)
(***************************************************************************)
EXTENDS Backup, PageDocument, SequenceTheorems, NaturalsInduction, WellFoundedInduction,
        FiniteSetTheorems, TLAPS

-----------------------------------------------------------------------------
(* Lists of ids.                                                           *)

\* A set of natural numbers that is not empty has a smallest member.
LEMMA LeastMember ==
  ASSUME NEW U \in SUBSET Nat, U # {}
  PROVE  \E m \in U : \A u \in U : m <= u
<1>1. IsWellFoundedOn(OpToRel(<, Nat), Nat)
  BY NatLessThanWellFounded
<1>2. PICK m \in U : \A u \in U : <<u, m>> \notin OpToRel(<, Nat)
  BY <1>1, WFMin
<1>3. \A u \in U : ~ (u < m)
  BY <1>2 DEF OpToRel
<1> QED BY <1>3

\* One number more.
LEMMA UpTo == \A k \in Nat \ {0} : 1..k = (1..(k - 1)) \cup {k}
OBVIOUS

\* A list with one more member at its end.
LEMMA AppendFits ==
  ASSUME NEW T, NEW s \in Seq(T), NEW e \in T
  PROVE  /\ Append(s, e) \in Seq(T) /\ Len(Append(s, e)) = Len(s) + 1
         /\ ToSet(Append(s, e)) = ToSet(s) \cup {e}
         /\ IsInjective(s) /\ e \notin ToSet(s) => IsInjective(Append(s, e))
<1> DEFINE t == Append(s, e)
<1>1. /\ t \in Seq(T) /\ Len(t) = Len(s) + 1 /\ Len(s) \in Nat
      /\ \A i \in 1..Len(s) : t[i] = s[i]
      /\ t[Len(s) + 1] = e
  OBVIOUS
<1>2. DOMAIN t = 1..(Len(s) + 1) /\ DOMAIN s = 1..Len(s)
  BY <1>1
<1> HIDE DEF t
<1>3. 1..(Len(s) + 1) = (1..Len(s)) \cup {Len(s) + 1}
  BY <1>1
<1>4. ToSet(t) = ToSet(s) \cup {e}
  <2>1. ASSUME NEW x \in ToSet(t) PROVE x \in ToSet(s) \cup {e}
    BY <1>1, <1>2, <1>3, <2>1 DEF ToSet
  <2>2. ASSUME NEW x \in ToSet(s) PROVE x \in ToSet(t)
    BY <1>1, <1>2, <1>3, <2>2 DEF ToSet
  <2>3. e \in ToSet(t)
    BY <1>1, <1>2, <1>3 DEF ToSet
  <2> QED BY <2>1, <2>2, <2>3
<1>5. IsInjective(s) /\ e \notin ToSet(s) => IsInjective(t)
  BY <1>1, <1>2, <1>3 DEF IsInjective, ToSet
<1> QED BY <1>1, <1>4, <1>5 DEF t

\* Of integers at some places of a list one is the least.
LEMMA LeastOfSome ==
  ASSUME NEW n \in Nat, NEW J \in SUBSET (1..n), J # {}, NEW g \in [J -> Int]
  PROVE  \E i \in J : \A j \in J : g[i] <= g[j]
<1> DEFINE Least(k) == \E i \in J \cap (1..k) : \A j \in J \cap (1..k) : g[i] <= g[j]
           U == {k \in 1..n : J \cap (1..k) # {} /\ ~Least(k)}
<1>1. J \cap (1..n) = J
  OBVIOUS
<1>2. U = {}
  <2> SUFFICES ASSUME U # {} PROVE FALSE
    OBVIOUS
  <2>1. PICK k \in U : \A u \in U : k <= u
    <3>1. U \in SUBSET Nat
      OBVIOUS
    <3> HIDE DEF U
    <3> QED BY <3>1, LeastMember
  <2>2. k \in 1..n /\ J \cap (1..k) # {} /\ ~Least(k)
    BY <2>1
  <2>3. k - 1 \in 1..n /\ J \cap (1..(k - 1)) # {} => Least(k - 1)
    BY <2>1
  <2>4. 1..k = (1..(k - 1)) \cup {k}
    <3>1. k \in Nat \ {0}
      BY <2>2
    <3> HIDE DEF U
    <3> QED BY <3>1, UpTo
  <2>5. CASE k \notin J
    <3>1. J \cap (1..k) = J \cap (1..(k - 1))
      BY <2>4, <2>5
    <3>2. k - 1 \in 1..n
      BY <2>2, <3>1
    <3> QED BY <2>2, <2>3, <3>1, <3>2
  <2>6. CASE k \in J /\ J \cap (1..(k - 1)) = {}
    <3>1. J \cap (1..k) = {k}
      BY <2>4, <2>6
    <3> QED BY <2>2, <2>6, <3>1
  <2>7. CASE k \in J /\ J \cap (1..(k - 1)) # {}
    <3>1. k - 1 \in 1..n
      BY <2>2, <2>7
    <3>2. PICK i \in J \cap (1..(k - 1)) : \A j \in J \cap (1..(k - 1)) : g[i] <= g[j]
      BY <2>3, <2>7, <3>1
    <3>3. g[i] \in Int /\ g[k] \in Int /\ \A j \in J : g[j] \in Int
      BY <2>7
    <3>4. CASE g[i] <= g[k]
      <4>1. i \in J \cap (1..k) /\ \A j \in J \cap (1..k) : g[i] <= g[j]
        BY <2>4, <3>2, <3>4
      <4> QED BY <2>2, <4>1
    <3>5. CASE g[k] < g[i]
      <4>1. k \in J \cap (1..k)
        BY <2>4, <2>7
      <4>2. \A j \in J \cap (1..k) : g[k] <= g[j]
        <5> TAKE j \in J \cap (1..k)
        <5>1. j = k \/ g[i] <= g[j]
          BY <2>4, <3>2
        <5> QED BY <3>3, <3>5, <5>1
      <4> QED BY <2>2, <4>1, <4>2
    <3> QED BY <3>3, <3>4, <3>5
  <2> QED BY <2>5, <2>6, <2>7
<1>3. n \in 1..n
  BY <1>1
<1> QED BY <1>1, <1>2, <1>3

\* The recursion of RemoveIds: what is kept of the first i ids.
Kept(ids, S, kept) ==
  /\ kept[0] = <<>>
  /\ \A i \in 1..Len(ids) :
       kept[i] = IF ids[i] \in S THEN kept[i - 1] ELSE Append(kept[i - 1], ids[i])

\* RemoveIds is the last step of its recursion.
LEMMA RemoveIdsRecursion ==
  ASSUME NEW ids \in Seq(PageIds), NEW S
  PROVE  \E kept : Kept(ids, S, kept) /\ RemoveIds(ids, S) = kept[Len(ids)]
<1> DEFINE n == Len(ids)
           Step(f, i) == IF i = 0 THEN <<>>
                         ELSE IF ids[i] \in S THEN f[i - 1] ELSE Append(f[i - 1], ids[i])
           Part(f, k) == \A i \in 0..k : f[i] = Step(f, i)
           U == {k \in 0..n : ~ \E f : f = [i \in 0..k |-> f[i]] /\ Part(f, k)}
<1>1. n \in Nat
  OBVIOUS
<1>2. U = {}
  <2> SUFFICES ASSUME U # {} PROVE FALSE
    OBVIOUS
  <2>1. PICK k \in U : \A u \in U : k <= u
    <3>1. U \in SUBSET Nat
      OBVIOUS
    <3> HIDE DEF U
    <3> QED BY <3>1, LeastMember
  <2>2. k \in 0..n /\ ~ \E f : f = [i \in 0..k |-> f[i]] /\ Part(f, k)
    BY <2>1
  <2>3. CASE k = 0
    <3> DEFINE f == [i \in 0..0 |-> <<>>]
    <3>1. f = [i \in 0..k |-> f[i]] /\ Part(f, k)
      BY <2>3
    <3> QED BY <2>2, <3>1
  <2>4. CASE k # 0
    <3>1. k - 1 \in 0..n /\ k - 1 \notin U
      <4>1. k \in Nat \ {0} /\ k - 1 \in 0..n
        BY <2>2, <2>4
      <4> HIDE DEF U
      <4> QED BY <2>1, <4>1
    <3>2. PICK f : f = [i \in 0..(k - 1) |-> f[i]] /\ Part(f, k - 1)
      BY <3>1
    <3> DEFINE h == [i \in 0..k |-> IF i = k THEN Step(f, k) ELSE f[i]]
    <3>3. \A i \in 0..(k - 1) : h[i] = f[i]
      BY <1>1, <2>2
    <3>4. h[k] = Step(f, k) /\ Step(h, k) = Step(f, k)
      BY <1>1, <2>2, <2>4, <3>3
    <3>5. Part(h, k)
      <4> SUFFICES ASSUME NEW i \in 0..k PROVE h[i] = Step(h, i)
        OBVIOUS
      <4>1. CASE i = k
        BY <3>4, <4>1
      <4>2. CASE i # k
        <5>1. i \in 0..(k - 1) /\ (i # 0 => i - 1 \in 0..(k - 1))
          BY <2>2, <4>2
        <5>2. f[i] = Step(f, i) /\ h[i] = f[i] /\ (i # 0 => h[i - 1] = f[i - 1])
          BY <3>2, <3>3, <5>1
        <5> QED BY <5>2
      <4> QED BY <4>1, <4>2
    <3>6. h = [i \in 0..k |-> h[i]]
      OBVIOUS
    <3> HIDE DEF h
    <3> QED BY <2>2, <3>5, <3>6
  <2> QED BY <2>3, <2>4
<1>3. PICK f : f = [i \in 0..n |-> f[i]] /\ Part(f, n)
  <2>1. n \in 0..n /\ n \notin U
    BY <1>1, <1>2
  <2> QED BY <2>1
<1>4. f = [i \in 0..n |-> Step(f, i)]
  BY <1>3
<1> DEFINE kept == CHOOSE h : h = [i \in 0..n |-> Step(h, i)]
<1>5. kept = [i \in 0..n |-> Step(kept, i)]
  BY <1>4
<1>6. RemoveIds(ids, S) = kept[n]
  BY DEF RemoveIds
<1> HIDE DEF kept
<1>7. Kept(ids, S, kept)
  <2>1. kept[0] = <<>>
    BY <1>1, <1>5
  <2>2. ASSUME NEW i \in 1..n
        PROVE  kept[i] = IF ids[i] \in S THEN kept[i - 1] ELSE Append(kept[i - 1], ids[i])
    <3>1. i \in 0..n /\ i # 0
      BY <1>1
    <3> QED BY <1>5, <3>1
  <2> QED BY <2>1, <2>2 DEF Kept
<1> QED BY <1>6, <1>7

\* removeIds keeps the other ids, each as often as before.
LEMMA RemoveIdsFits ==
  ASSUME NEW ids \in Seq(PageIds), NEW S
  PROVE  /\ RemoveIds(ids, S) \in Seq(PageIds)
         /\ ToSet(RemoveIds(ids, S)) = ToSet(ids) \ S
         /\ IsInjective(ids) => IsInjective(RemoveIds(ids, S))
         /\ IsInjective(ids) => \A n \in ToSet(ids) :
              S = {n} => Len(RemoveIds(ids, S)) = Len(ids) - 1
<1>1. PICK kept : Kept(ids, S, kept) /\ RemoveIds(ids, S) = kept[Len(ids)]
  BY RemoveIdsRecursion
<1> DEFINE n == Len(ids)
           First(k) == {ids[j] : j \in 1..k}
           Fits(k) == /\ kept[k] \in Seq(PageIds)
                      /\ ToSet(kept[k]) = First(k) \ S
                      /\ IsInjective(ids) => IsInjective(kept[k])
                      /\ IsInjective(ids) => \A m :
                           S = {m} => Len(kept[k]) = IF m \in First(k) THEN k - 1 ELSE k
           U == {k \in 0..n : ~Fits(k)}
<1>2. n \in Nat /\ \A i \in 1..n : ids[i] \in PageIds
  OBVIOUS
<1>3. U = {}
  <2> SUFFICES ASSUME U # {} PROVE FALSE
    OBVIOUS
  <2>1. PICK k \in U : \A u \in U : k <= u
    <3>1. U \in SUBSET Nat
      OBVIOUS
    <3> HIDE DEF U
    <3> QED BY <3>1, LeastMember
  <2>2. k \in 0..n /\ ~Fits(k)
    BY <2>1
  <2>3. CASE k = 0
    <3>1. kept[0] = <<>> /\ First(0) = {}
      BY <1>1 DEF Kept
    <3> QED BY <2>2, <2>3, <3>1 DEF ToSet, IsInjective
  <2>4. CASE k # 0
    <3>1. k - 1 \in 0..n /\ k \in 1..n /\ Fits(k - 1)
      <4>1. k \in Nat \ {0} /\ k - 1 \in 0..n /\ k \in 1..n
        BY <2>2, <2>4
      <4>2. k - 1 \notin U
        <5> HIDE DEF U
        <5> QED BY <2>1, <4>1
      <4> HIDE DEF Fits
      <4> QED BY <4>1, <4>2
    <3>2. kept[k] = IF ids[k] \in S THEN kept[k - 1] ELSE Append(kept[k - 1], ids[k])
      BY <1>1, <3>1 DEF Kept
    <3>3. First(k) = First(k - 1) \cup {ids[k]}
      <4>1. 1..k = (1..(k - 1)) \cup {k}
        BY <3>1
      <4> QED BY <4>1
    <3>4. IsInjective(ids) => ids[k] \notin First(k - 1)
      BY <1>2, <3>1 DEF IsInjective
    <3> HIDE DEF First
    <3>5. CASE ids[k] \in S
      <4>1. kept[k] = kept[k - 1]
        BY <3>2, <3>5
      <4>2. ToSet(kept[k]) = First(k) \ S
        BY <3>1, <3>3, <3>5, <4>1
      <4>3. ASSUME IsInjective(ids), NEW m, S = {m}
            PROVE  Len(kept[k]) = IF m \in First(k) THEN k - 1 ELSE k
        BY <3>1, <3>3, <3>4, <3>5, <4>1, <4>3
      <4> QED BY <2>2, <3>1, <4>1, <4>2, <4>3
    <3>6. CASE ids[k] \notin S
      <4> DEFINE s == kept[k - 1]
      <4>1. kept[k] = Append(s, ids[k]) /\ s \in Seq(PageIds) /\ ids[k] \in PageIds
        BY <1>2, <3>1, <3>2, <3>6
      <4>2. kept[k] \in Seq(PageIds) /\ Len(kept[k]) = Len(s) + 1
        BY <4>1, AppendFits
      <4>3. ToSet(kept[k]) = ToSet(s) \cup {ids[k]}
        BY <4>1, AppendFits
      <4>4. ToSet(kept[k]) = First(k) \ S
        BY <3>1, <3>3, <3>6, <4>3
      <4>5. ASSUME IsInjective(ids) PROVE IsInjective(kept[k])
        <5>1. IsInjective(s) /\ ids[k] \notin ToSet(s)
          BY <3>1, <3>4, <4>5
        <5> QED BY <4>1, <5>1, AppendFits
      <4>6. ASSUME IsInjective(ids), NEW m, S = {m}
            PROVE  Len(kept[k]) = IF m \in First(k) THEN k - 1 ELSE k
        <5>1. Len(s) = IF m \in First(k - 1) THEN k - 2 ELSE k - 1
          BY <3>1, <4>6
        <5>2. m \in First(k) <=> m \in First(k - 1)
          BY <3>3, <3>6, <4>6
        <5> QED BY <3>1, <4>2, <5>1, <5>2
      <4> QED BY <2>2, <4>2, <4>4, <4>5, <4>6
    <3> QED BY <3>5, <3>6
  <2> QED BY <2>3, <2>4
<1>4. Fits(n)
  <2>1. n \in 0..n /\ n \notin U
    <3> HIDE DEF U
    <3> QED BY <1>2, <1>3
  <2> HIDE DEF Fits
  <2> QED BY <2>1
<1>5. First(n) = ToSet(ids)
  BY DEF ToSet
<1> QED BY <1>1, <1>4, <1>5

\* Where an id is in a list without repetitions.
LEMMA PlaceFits ==
  ASSUME NEW ids \in Seq(PageIds), IsInjective(ids), NEW n \in ToSet(ids)
  PROVE  /\ PlaceOf(ids, n) \in 1..Len(ids) /\ ids[PlaceOf(ids, n)] = n
         /\ \A i \in 1..Len(ids) : ids[i] = n => PlaceOf(ids, n) = i
<1> DEFINE I == {i \in 1..Len(ids) : ids[i] = n}
<1>1. PICK i \in 1..Len(ids) : ids[i] = n
  BY DEF ToSet
<1>2. I = {i}
  BY <1>1 DEF IsInjective
<1>3. PlaceOf(ids, n) = IF I # {} THEN Min(I) ELSE 0
  BY DEF PlaceOf, SelectInSeq
<1>4. Min({i}) = i
  BY <1>1 DEF Min
<1>5. PlaceOf(ids, n) = i
  BY <1>2, <1>3, <1>4
<1> QED BY <1>1, <1>5 DEF IsInjective

\* Two lists without a common member, one after the other.
LEMMA ConcatFits ==
  ASSUME NEW T, NEW s \in Seq(T), NEW t \in Seq(T)
  PROVE  /\ s \o t \in Seq(T)
         /\ ToSet(s \o t) = ToSet(s) \cup ToSet(t)
         /\ IsInjective(s) /\ IsInjective(t) /\ ToSet(s) \cap ToSet(t) = {}
              => IsInjective(s \o t)
<1> DEFINE r == s \o t
           m == Len(s)
           n == Len(t)
<1>1. /\ r \in Seq(T) /\ Len(r) = m + n
      /\ \A i \in 1..(m + n) : r[i] = IF i <= m THEN s[i] ELSE t[i - m]
  BY ConcatProperties
<1>2. m \in Nat /\ n \in Nat /\ DOMAIN s = 1..m /\ DOMAIN t = 1..n /\ DOMAIN r = 1..(m + n)
  BY <1>1
<1> HIDE DEF r, m, n
<1>3. ASSUME NEW x \in ToSet(r) PROVE x \in ToSet(s) \cup ToSet(t)
  <2>1. PICK i \in 1..(m + n) : x = r[i]
    BY <1>2, <1>3 DEF ToSet
  <2>2. CASE i <= m
    <3>1. i \in 1..m /\ x = s[i]
      BY <1>1, <1>2, <2>1, <2>2
    <3> QED BY <1>2, <3>1 DEF ToSet
  <2>3. CASE i > m
    <3>1. i - m \in 1..n /\ x = t[i - m]
      BY <1>1, <1>2, <2>1, <2>3
    <3> QED BY <1>2, <3>1 DEF ToSet
  <2> QED BY <1>2, <2>1, <2>2, <2>3
<1>4. ASSUME NEW x \in ToSet(s) PROVE x \in ToSet(r)
  <2>1. PICK i \in 1..m : x = s[i]
    BY <1>2, <1>4 DEF ToSet
  <2>2. i \in 1..(m + n) /\ x = r[i]
    BY <1>1, <1>2, <2>1
  <2> QED BY <1>2, <2>2 DEF ToSet
<1>5. ASSUME NEW x \in ToSet(t) PROVE x \in ToSet(r)
  <2>1. PICK i \in 1..n : x = t[i]
    BY <1>2, <1>5 DEF ToSet
  <2>2. m + i \in 1..(m + n) /\ x = r[m + i]
    BY <1>1, <1>2, <2>1
  <2> QED BY <1>2, <2>2 DEF ToSet
<1>6. ASSUME IsInjective(s), IsInjective(t), ToSet(s) \cap ToSet(t) = {},
             NEW i \in 1..(m + n), NEW j \in 1..(m + n), r[i] = r[j]
      PROVE  i = j
  <2>1. \A k \in 1..m : s[k] \notin ToSet(t)
    BY <1>2, <1>6 DEF ToSet
  <2>2. \A k \in 1..n : t[k] \in ToSet(t)
    BY <1>2 DEF ToSet
  <2>3. CASE i <= m /\ j <= m
    <3>1. i \in 1..m /\ j \in 1..m /\ s[i] = s[j]
      BY <1>1, <1>2, <1>6, <2>3
    <3> QED BY <1>2, <1>6, <3>1 DEF IsInjective
  <2>4. CASE i > m /\ j > m
    <3>1. i - m \in 1..n /\ j - m \in 1..n /\ t[i - m] = t[j - m]
      BY <1>1, <1>2, <1>6, <2>4
    <3> QED BY <1>2, <1>6, <3>1 DEF IsInjective
  <2>5. CASE i <= m /\ j > m
    BY <1>1, <1>2, <1>6, <2>1, <2>2, <2>5
  <2>6. CASE i > m /\ j <= m
    BY <1>1, <1>2, <1>6, <2>1, <2>2, <2>6
  <2> QED BY <1>2, <2>3, <2>4, <2>5, <2>6
<1> QED BY <1>1, <1>2, <1>3, <1>4, <1>5, <1>6 DEF IsInjective, r

\* A part of a list without repetitions.
LEMMA PartFits ==
  ASSUME NEW T, NEW s \in Seq(T), NEW a \in Nat \ {0}, NEW b \in Nat, b <= Len(s)
  PROVE  /\ SubSeq(s, a, b) \in Seq(T)
         /\ ToSet(SubSeq(s, a, b)) = {s[i] : i \in a..b}
         /\ IsInjective(s) => IsInjective(SubSeq(s, a, b))
<1> DEFINE r == SubSeq(s, a, b)
<1>1. \A i \in a..b : i \in 1..Len(s) /\ s[i] \in T
  OBVIOUS
<1>2. /\ r \in Seq(T) /\ Len(r) = IF a <= b THEN b - a + 1 ELSE 0
      /\ \A i \in 1..(b - a + 1) : r[i] = s[a + i - 1]
  BY <1>1, SubSeqProperties
<1> HIDE DEF r
<1>3. DOMAIN r = 1..(b - a + 1)
  BY <1>2
<1>4. ASSUME NEW x \in ToSet(r) PROVE x \in {s[i] : i \in a..b}
  <2>1. PICK i \in 1..(b - a + 1) : x = r[i]
    BY <1>3, <1>4 DEF ToSet
  <2>2. a + i - 1 \in a..b /\ x = s[a + i - 1]
    BY <1>2, <2>1
  <2> QED BY <2>2
<1>5. ASSUME NEW i \in a..b PROVE s[i] \in ToSet(r)
  <2>1. i - a + 1 \in 1..(b - a + 1) /\ a + (i - a + 1) - 1 = i
    BY <1>5
  <2>2. r[i - a + 1] = s[i]
    BY <1>2, <2>1
  <2> QED BY <1>3, <2>1, <2>2 DEF ToSet
<1>6. ASSUME IsInjective(s) PROVE IsInjective(r)
  <2> SUFFICES ASSUME NEW i \in 1..(b - a + 1), NEW j \in 1..(b - a + 1), r[i] = r[j]
               PROVE  i = j
    BY <1>3 DEF IsInjective
  <2>1. /\ a + i - 1 \in a..b /\ a + j - 1 \in a..b
        /\ s[a + i - 1] = s[a + j - 1]
    BY <1>2
  <2>2. a + i - 1 = a + j - 1
    BY <1>1, <1>6, <2>1 DEF IsInjective
  <2> QED BY <2>2
<1> QED BY <1>2, <1>4, <1>5, <1>6 DEF r

\* A list put in the place of a part of another: before i and from j on is kept.
Spliced(s, i, t, j) == SubSeq(s, 1, i - 1) \o t \o SubSeq(s, j, Len(s))

LEMMA SpliceFits ==
  ASSUME NEW T, NEW s \in Seq(T), NEW t \in Seq(T), IsInjective(s), IsInjective(t),
         NEW i \in 1..(Len(s) + 1), NEW j \in i..(Len(s) + 1),
         \A k \in 1..Len(s) : k < i \/ k >= j => s[k] \notin ToSet(t)
  PROVE  /\ Spliced(s, i, t, j) \in Seq(T) /\ IsInjective(Spliced(s, i, t, j))
         /\ \A x : x \in ToSet(Spliced(s, i, t, j)) <=>
                    \/ x \in ToSet(t)
                    \/ \E k \in 1..Len(s) : (k < i \/ k >= j) /\ x = s[k]
<1> DEFINE a == SubSeq(s, 1, i - 1)
           b == SubSeq(s, j, Len(s))
           c == a \o t
<1>1. Len(s) \in Nat /\ DOMAIN s = 1..Len(s)
  OBVIOUS
<1>2. a \in Seq(T) /\ ToSet(a) = {s[k] : k \in 1..(i - 1)} /\ IsInjective(a)
  BY <1>1, PartFits
<1>3. b \in Seq(T) /\ ToSet(b) = {s[k] : k \in j..Len(s)} /\ IsInjective(b)
  <2>1. j \in Nat \ {0} /\ Len(s) <= Len(s)
    BY <1>1
  <2> QED BY <1>1, <2>1, PartFits
<1> HIDE DEF a, b
<1>4. /\ \A k \in 1..(i - 1) : k \in 1..Len(s) /\ k < i
      /\ \A k \in j..Len(s) : k \in 1..Len(s) /\ k >= j
  BY <1>1
<1>5. ToSet(a) \cap ToSet(t) = {} /\ ToSet(b) \cap ToSet(t) = {}
  BY <1>2, <1>3, <1>4
<1>6. ToSet(a) \cap ToSet(b) = {}
  <2>1. ASSUME NEW k \in 1..(i - 1), NEW l \in j..Len(s), s[k] = s[l] PROVE FALSE
    <3>1. k \in 1..Len(s) /\ l \in 1..Len(s) /\ k < l
      BY <1>1
    <3> QED BY <1>1, <2>1, <3>1 DEF IsInjective
  <2> QED BY <1>2, <1>3, <2>1
<1>7. c \in Seq(T) /\ ToSet(c) = ToSet(a) \cup ToSet(t) /\ IsInjective(c)
  BY <1>2, <1>5, ConcatFits
<1> HIDE DEF c
<1>8. /\ c \o b \in Seq(T) /\ IsInjective(c \o b)
      /\ ToSet(c \o b) = ToSet(a) \cup ToSet(t) \cup ToSet(b)
  <2>1. ToSet(c) \cap ToSet(b) = {}
    BY <1>5, <1>6, <1>7
  <2>2. ToSet(c \o b) = ToSet(c) \cup ToSet(b)
    BY <1>3, <1>7, ConcatFits
  <2> QED BY <1>3, <1>7, <2>1, <2>2, ConcatFits
<1>9. \A x : x \in ToSet(a) \cup ToSet(b) <=>
               \E k \in 1..Len(s) : (k < i \/ k >= j) /\ x = s[k]
  <2>1. \A k \in 1..Len(s) : (k < i => k \in 1..(i - 1)) /\ (k >= j => k \in j..Len(s))
    OBVIOUS
  <2> QED BY <1>2, <1>3, <1>4, <2>1
<1>10. Spliced(s, i, t, j) = c \o b
  BY DEF Spliced, a, b, c
<1> QED BY <1>8, <1>9, <1>10

\* An id inserted into a list that does not have it.
LEMMA InsertFits ==
  ASSUME NEW T, NEW s \in Seq(T), IsInjective(s), NEW e \in T, e \notin ToSet(s),
         NEW i \in 1..(Len(s) + 1)
  PROVE  /\ InsertAt(s, i, e) \in Seq(T) /\ IsInjective(InsertAt(s, i, e))
         /\ ToSet(InsertAt(s, i, e)) = ToSet(s) \cup {e}
<1> DEFINE t == <<e>>
<1>1. t \in Seq(T) /\ ToSet(t) = {e} /\ IsInjective(t)
  BY DEF ToSet, IsInjective
<1>2. Len(s) \in Nat /\ DOMAIN s = 1..Len(s) /\ i \in i..(Len(s) + 1)
  OBVIOUS
<1>3. ToSet(s) = {s[k] : k \in 1..Len(s)}
  BY <1>2 DEF ToSet
<1>4. InsertAt(s, i, e) = Spliced(s, i, t, i)
  BY DEF InsertAt, Spliced
<1> HIDE DEF t
<1>5. \A k \in 1..Len(s) : s[k] \notin ToSet(t)
  BY <1>1, <1>3
<1>6. /\ Spliced(s, i, t, i) \in Seq(T) /\ IsInjective(Spliced(s, i, t, i))
      /\ \A x : x \in ToSet(Spliced(s, i, t, i)) <=>
                 x \in ToSet(t) \/ \E k \in 1..Len(s) : (k < i \/ k >= i) /\ x = s[k]
  BY <1>1, <1>2, <1>5, SpliceFits
<1>7. \A k \in 1..Len(s) : k < i \/ k >= i
  BY <1>2
<1> QED BY <1>1, <1>3, <1>4, <1>6, <1>7

\* A member of a list replaced by others.
LEMMA ReplaceFits ==
  ASSUME NEW T, NEW s \in Seq(T), NEW t \in Seq(T), IsInjective(s), IsInjective(t),
         NEW i \in 1..Len(s), ToSet(s) \cap ToSet(t) = {}
  PROVE  /\ Spliced(s, i, t, i + 1) \in Seq(T) /\ IsInjective(Spliced(s, i, t, i + 1))
         /\ ToSet(Spliced(s, i, t, i + 1)) = (ToSet(s) \ {s[i]}) \cup ToSet(t)
<1> DEFINE j == i + 1
<1>1. /\ Len(s) \in Nat /\ DOMAIN s = 1..Len(s)
      /\ i \in 1..(Len(s) + 1) /\ j \in i..(Len(s) + 1)
      /\ \A k \in 1..Len(s) : k < i \/ k >= j <=> k # i
  OBVIOUS
<1>2. \A k \in 1..Len(s) : s[k] \notin ToSet(t)
  BY <1>1 DEF ToSet
<1> HIDE DEF j
<1>3. /\ Spliced(s, i, t, j) \in Seq(T) /\ IsInjective(Spliced(s, i, t, j))
      /\ \A x : x \in ToSet(Spliced(s, i, t, j)) <=>
                 \/ x \in ToSet(t)
                 \/ \E k \in 1..Len(s) : (k < i \/ k >= j) /\ x = s[k]
  BY <1>1, <1>2, SpliceFits
<1>4. \A x : x \in ToSet(s) \ {s[i]} <=> \E k \in 1..Len(s) : k # i /\ x = s[k]
  BY <1>1 DEF ToSet, IsInjective
<1> QED BY <1>1, <1>3, <1>4 DEF j

-----------------------------------------------------------------------------
(* Recursions over the nodes of a page.                                    *)

(* A recursion over the nodes ends when no set of nodes goes round in      *)
(* circles: below is what a node's value is computed from, step how.       *)
IsRecursion(Ids, V, below, step) ==
  /\ below \in [Ids -> SUBSET Ids]
  /\ \A S \in SUBSET Ids : S # {} => \E n \in S : below[n] \cap S = {}
  /\ step \in [Ids -> [SUBSET V -> V]]

IsSolution(Ids, V, below, step, f) ==
  /\ f \in [Ids -> V]
  /\ \A n \in Ids : \E vs \in SUBSET V :
       f[n] = step[n][vs] /\ \A v : v \in vs <=> \E c \in below[n] : v = f[c]

LEMMA RecursionEnds ==
  \A Ids, V, below, step :
    IsRecursion(Ids, V, below, step) => \E f : IsSolution(Ids, V, below, step, f)
<1> TAKE Ids, V, below, step
<1> HAVE IsRecursion(Ids, V, below, step)
<1> USE DEF IsRecursion
<1> DEFINE From(f, n) == {f[c] : c \in below[n]}
           Solves(A, f) == /\ A \in SUBSET Ids /\ \A n \in A : below[n] \subseteq A
                           /\ f \in [A -> V]
                           /\ \A n \in A : f[n] = step[n][From(f, n)]
<1>1. ASSUME NEW A, NEW f, NEW B, NEW g, Solves(A, f), Solves(B, g)
      PROVE  \A n \in A \cap B : f[n] = g[n]
  <2> DEFINE D == {n \in A \cap B : f[n] # g[n]}
  <2> SUFFICES ASSUME D # {} PROVE FALSE
    OBVIOUS
  <2>1. PICK n \in D : below[n] \cap D = {}
    <3>1. D \in SUBSET Ids
      BY <1>1
    <3> HIDE DEF D
    <3> QED BY <3>1
  <2>2. n \in A \cap B /\ f[n] # g[n] /\ below[n] \subseteq A \cap B
    BY <1>1, <2>1
  <2>3. \A c \in below[n] : f[c] = g[c]
    BY <2>1, <2>2
  <2>4. From(f, n) = From(g, n)
    BY <2>3
  <2>5. f[n] = step[n][From(f, n)] /\ g[n] = step[n][From(g, n)]
    BY <1>1, <2>2
  <2> QED BY <2>2, <2>4, <2>5
<1> DEFINE G == {n \in Ids : \E A, f : Solves(A, f) /\ n \in A}
           F == [n \in G |-> CHOOSE v : \E A, f : Solves(A, f) /\ n \in A /\ v = f[n]]
<1>2. ASSUME NEW A, NEW f, Solves(A, f), NEW n \in A
      PROVE  n \in G /\ F[n] = f[n]
  <2>1. n \in G
    BY <1>2
  <2>2. \E v : \E B, g : Solves(B, g) /\ n \in B /\ v = g[n]
    BY <1>2
  <2>3. PICK B, g : Solves(B, g) /\ n \in B /\ F[n] = g[n]
    <3> HIDE DEF Solves
    <3> QED BY <2>1, <2>2
  <2>4. f[n] = g[n]
    <3> HIDE DEF Solves
    <3> QED BY <1>1, <1>2, <2>3
  <2> QED BY <2>1, <2>3, <2>4
<1>3. ASSUME NEW n \in G
      PROVE  /\ below[n] \subseteq G /\ F[n] \in V /\ F[n] = step[n][From(F, n)]
  <2>1. PICK A, f : Solves(A, f) /\ n \in A
    <3> HIDE DEF Solves, F
    <3> QED BY <1>3
  <2>2. /\ below[n] \subseteq A /\ f[n] \in V /\ f[n] = step[n][From(f, n)]
    BY <2>1
  <2>3. \A c \in A : c \in G /\ F[c] = f[c]
    <3> HIDE DEF Solves, G, F
    <3> QED BY <1>2, <2>1
  <2> HIDE DEF Solves, G, F
  <2>4. From(F, n) = From(f, n)
    BY <2>2, <2>3
  <2> QED BY <2>1, <2>2, <2>3, <2>4
<1>4. G \in SUBSET Ids /\ F = [n \in G |-> F[n]]
  <2>1. G \in SUBSET Ids
    BY DEF G
  <2>2. F = [n \in G |-> F[n]]
    <3> HIDE DEF G, Solves
    <3> QED BY DEF F
  <2> QED BY <2>1, <2>2
<1>5. G = Ids
  <2> SUFFICES ASSUME Ids \ G # {} PROVE FALSE
    BY <1>4
  <2>1. PICK n \in Ids \ G : below[n] \cap (Ids \ G) = {}
    <3> HIDE DEF G
    <3> QED OBVIOUS
  <2>2. below[n] \subseteq G
    <3> HIDE DEF G
    <3> QED BY <2>1
  <2> DEFINE A == G \cup {n}
             H == [m \in A |-> IF m = n THEN step[n][From(F, n)] ELSE F[m]]
  <2> HIDE DEF G, F
  <2>3. \A m \in G : H[m] = F[m]
    BY <2>1
  <2>4. H[n] = step[n][From(F, n)]
    OBVIOUS
  <2>5. A \in SUBSET Ids /\ \A m \in A : below[m] \subseteq G
    BY <1>3, <1>4, <2>1, <2>2
  <2>6. ASSUME NEW m \in A PROVE From(H, m) = From(F, m)
    <3>1. \A c \in below[m] : H[c] = F[c]
      BY <2>3, <2>5
    <3> HIDE DEF H, A
    <3>2. \A v : v \in From(H, m) => v \in From(F, m)
      BY <3>1
    <3>3. \A v : v \in From(F, m) => v \in From(H, m)
      BY <3>1
    <3> HIDE DEF From
    <3> QED BY <3>2, <3>3
  <2>7. From(F, n) \in SUBSET V
    <3>1. \A c \in below[n] : F[c] \in V
      BY <1>3, <2>2
    <3> HIDE DEF H, A
    <3> QED BY <3>1
  <2>8. H[n] \in V
    <3> HIDE DEF H
    <3> QED BY <2>1, <2>4, <2>7
  <2>9. H \in [A -> V]
    <3>1. \A m \in A : H[m] \in V
      <4> HIDE DEF H
      <4> QED BY <1>3, <2>3, <2>8
    <3> QED BY <3>1
  <2>10. \A m \in A : H[m] = step[m][From(H, m)]
    <3> HIDE DEF H, From
    <3> QED BY <1>3, <2>3, <2>4, <2>6
  <2>11. Solves(A, H)
    <3> HIDE DEF H, From
    <3> QED BY <2>5, <2>9, <2>10
  <2>12. n \in G
    <3> HIDE DEF H, Solves
    <3> QED BY <1>2, <2>11
  <2> QED BY <2>1, <2>12
<1>6. F \in [Ids -> V]
  <2> HIDE DEF G, F
  <2> QED BY <1>3, <1>4, <1>5
<1>7. ASSUME NEW n \in Ids
      PROVE  \E vs \in SUBSET V :
               F[n] = step[n][vs] /\ \A v : v \in vs <=> \E c \in below[n] : v = F[c]
  <2> HIDE DEF G, F
  <2>1. F[n] = step[n][From(F, n)]
    BY <1>3, <1>5
  <2>2. \A v : v \in From(F, n) <=> \E c \in below[n] : v = F[c]
    OBVIOUS
  <2>3. From(F, n) \in SUBSET V
    <3>1. \A c \in below[n] : F[c] \in V
      BY <1>6
    <3> QED BY <2>2, <3>1
  <2> HIDE DEF From
  <2> QED BY <2>1, <2>2, <2>3
<1> HIDE DEF F
<1>8. IsSolution(Ids, V, below, step, F)
  BY <1>6, <1>7 DEF IsSolution
<1> QED BY <1>8

-----------------------------------------------------------------------------
(* Documents whose links are right.                                        *)

Documents == [rootNodeIds : Seq(PageIds), nodes : UNION {[I -> Node] : I \in SUBSET PageIds}]

ParentsAreThere(d) ==
  \A n \in NodeIds(d) : d.nodes[n].parentId \in (NodeIds(d) \cap Containers) \cup {Null}

ListsAreOfChildren(d) ==
  \A p \in NodeIds(d) \cup {Null} :
    /\ IsInjective(SiblingIds(d, p))
    /\ ToSet(SiblingIds(d, p)) = {n \in NodeIds(d) : d.nodes[n].parentId = p}

\* No nodes hold one another: of any of them one is in none of the others, and
\* one holds none of the others.
NoCircles(d) ==
  \A S \in SUBSET NodeIds(d) : S # {} =>
    /\ \E n \in S : d.nodes[n].parentId \notin S
    /\ \E n \in S : \A c \in S : d.nodes[c].parentId # n

Linked(d) == ParentsAreThere(d) /\ ListsAreOfChildren(d) /\ NoCircles(d)

\* The fields of a document.
LEMMA DocumentFields ==
  ASSUME NEW d \in Documents
  PROVE  /\ d.rootNodeIds \in Seq(PageIds) /\ NodeIds(d) \in SUBSET PageIds
         /\ d.nodes \in [NodeIds(d) -> Node]
         /\ d = [rootNodeIds |-> d.rootNodeIds, nodes |-> d.nodes]
BY DEF Documents, NodeIds

\* Positions of the nodes exist and are what getNodeAbsolutePosition adds up.
LEMMA PositionsFit ==
  ASSUME NEW d \in Documents, Linked(d)
  PROVE  /\ Positions(d) \in [NodeIds(d) -> Int]
         /\ \A n \in NodeIds(d) :
              Positions(d)[n] = d.nodes[n].x + (IF d.nodes[n].parentId = Null THEN 0
                                                ELSE Positions(d)[d.nodes[n].parentId])
<1> DEFINE Ids == NodeIds(d)
           P(n) == d.nodes[n].parentId
           below == [n \in Ids |-> {P(n)} \ {Null}]
           Step(n, vs) == d.nodes[n].x + (IF P(n) = Null \/ vs = {} THEN 0
                                          ELSE CHOOSE v \in vs : TRUE)
           step == [n \in Ids |-> [vs \in SUBSET Int |-> Step(n, vs)]]
           Sums(f) == f = [n \in Ids |-> d.nodes[n].x + (IF P(n) = Null THEN 0 ELSE f[P(n)])]
<1>1. /\ \A n \in Ids : d.nodes[n].x \in Int /\ P(n) \in Ids \cup {Null}
      /\ Null \notin Ids
  BY DocumentFields, NullIsNoId DEF Node, Linked, ParentsAreThere
<1>2. \A S \in SUBSET Ids : S # {} => \E n \in S : P(n) \notin S
  BY DEF Linked, NoCircles
<1> HIDE DEF Ids, P
<1>3. below \in [Ids -> SUBSET Ids] /\ \A n \in Ids : below[n] = {P(n)} \ {Null}
  BY <1>1
<1>4. ASSUME NEW n \in Ids, NEW vs \in SUBSET Int PROVE Step(n, vs) \in Int
  <2>1. vs # {} => (CHOOSE v \in vs : TRUE) \in Int
    OBVIOUS
  <2> QED BY <1>1, <2>1
<1>5. /\ step \in [Ids -> [SUBSET Int -> Int]]
      /\ \A n \in Ids, vs \in SUBSET Int : step[n][vs] = Step(n, vs)
  <2> HIDE DEF Step
  <2> QED BY <1>4
<1> HIDE DEF below, step, Step
<1>6. PICK f : IsSolution(Ids, Int, below, step, f)
  <2>1. \A S \in SUBSET Ids : S # {} => \E n \in S : below[n] \cap S = {}
    BY <1>2, <1>3
  <2>2. IsRecursion(Ids, Int, below, step)
    BY <1>3, <1>5, <2>1 DEF IsRecursion
  <2> QED BY <2>2, RecursionEnds
<1>7. ASSUME NEW n \in Ids
      PROVE  f[n] = d.nodes[n].x + (IF P(n) = Null THEN 0 ELSE f[P(n)])
  <2>1. PICK vs \in SUBSET Int :
          f[n] = step[n][vs] /\ \A v : v \in vs <=> \E c \in below[n] : v = f[c]
    BY <1>6 DEF IsSolution
  <2>4. step[n][vs] = Step(n, vs)
    BY <1>5
  <2>2. CASE P(n) = Null
    BY <2>1, <2>2, <2>4 DEF Step
  <2>3. CASE P(n) # Null
    <3>1. vs = {f[P(n)]}
      BY <1>3, <2>1, <2>3
    <3>2. (CHOOSE v \in {f[P(n)]} : TRUE) = f[P(n)]
      OBVIOUS
    <3> QED BY <2>1, <2>3, <2>4, <3>1, <3>2 DEF Step
  <2> QED BY <2>2, <2>3
<1>8. Sums(f)
  BY <1>6, <1>7 DEF IsSolution
<1>9. Sums(Positions(d))
  BY <1>8 DEF Positions, Ids, P
<1>10. /\ DOMAIN Positions(d) = Ids
       /\ \A n \in Ids : Positions(d)[n] =
            d.nodes[n].x + (IF P(n) = Null THEN 0 ELSE Positions(d)[P(n)])
       /\ Positions(d) = [n \in Ids |-> Positions(d)[n]]
  BY <1>9
<1>11. \A n \in Ids : Positions(d)[n] \in Int
  <2> DEFINE D == {n \in Ids : Positions(d)[n] \notin Int}
  <2> SUFFICES ASSUME D # {} PROVE FALSE
    OBVIOUS
  <2>1. PICK n \in D : P(n) \notin D
    <3>1. D \in SUBSET Ids
      OBVIOUS
    <3> HIDE DEF D
    <3> QED BY <1>2, <3>1
  <2>2. n \in Ids /\ (P(n) # Null => Positions(d)[P(n)] \in Int)
    BY <1>1, <2>1
  <2>3. Positions(d)[n] \in Int
    BY <1>1, <1>10, <2>2
  <2> QED BY <2>1, <2>3
<1> QED BY <1>10, <1>11 DEF Ids, P

-----------------------------------------------------------------------------
(* Walking a document.                                                     *)

Children(d, n) == ToSet(d.nodes[n].childIds)

\* What the links of a document say of a node.
LEMMA NodeFields ==
  ASSUME NEW d \in Documents, Linked(d), NEW n \in NodeIds(d)
  PROVE  /\ n \in PageIds /\ n # Null /\ SiblingIds(d, n) = d.nodes[n].childIds
         /\ d.nodes[n].parentId \in NodeIds(d) \cup {Null}
         /\ d.nodes[n].parentId # n
         /\ d.nodes[n].childIds \in Seq(PageIds)
         /\ IsInjective(d.nodes[n].childIds)
         /\ Children(d, n) = {m \in NodeIds(d) : d.nodes[m].parentId = n}
         /\ d.nodes[n].childIds = <<>> <=> Children(d, n) = {}
         /\ d.nodes[n].x \in Int /\ d.nodes[n].width \in Nat \ {0} /\ d.nodes[n].x2 \in Int
         /\ d.nodes[n].zIndex \in Nat /\ d.nodes[n].locked \in BOOLEAN
<1>1. n \in PageIds /\ n # Null /\ d.nodes[n] \in Node
  BY DocumentFields, NullIsNoId
<1>2. d.nodes[n].parentId \in NodeIds(d) \cup {Null}
  BY DEF Linked, ParentsAreThere
<1>3. d.nodes[n].parentId # n
  <2>1. {n} \in SUBSET NodeIds(d) /\ {n} # {}
    OBVIOUS
  <2>2. \E m \in {n} : d.nodes[m].parentId \notin {n}
    BY <2>1, Zenon DEF Linked, NoCircles
  <2> QED BY <2>2
<1>4. SiblingIds(d, n) = d.nodes[n].childIds
  BY <1>1 DEF SiblingIds
<1>5. /\ IsInjective(d.nodes[n].childIds)
      /\ Children(d, n) = {m \in NodeIds(d) : d.nodes[m].parentId = n}
  BY <1>4 DEF Linked, ListsAreOfChildren, Children
<1>6. d.nodes[n].childIds \in Seq(PageIds)
  BY <1>1 DEF Node
<1>7. d.nodes[n].childIds = <<>> <=> Children(d, n) = {}
  <2> DEFINE s == d.nodes[n].childIds
  <2>1. s \in Seq(PageIds) /\ Children(d, n) = ToSet(s)
    BY <1>6 DEF Children
  <2> HIDE DEF s
  <2>2. s = <<>> <=> ToSet(s) = {}
    <3>1. Len(s) \in Nat /\ ToSet(s) = {s[i] : i \in 1..Len(s)} /\ (s = <<>> <=> Len(s) = 0)
      BY <2>1 DEF ToSet
    <3>2. ASSUME Len(s) # 0 PROVE ToSet(s) # {}
      <4>1. 1 \in 1..Len(s)
        BY <3>1, <3>2
      <4>2. s[1] \in ToSet(s)
        BY <3>1, <4>1
      <4> QED BY <4>2
    <3>3. ASSUME Len(s) = 0 PROVE ToSet(s) = {}
      BY <3>1, <3>3
    <3> QED BY <3>1, <3>2, <3>3
  <2> QED BY <2>1, <2>2 DEF s
<1> QED BY <1>1, <1>2, <1>3, <1>4, <1>5, <1>6, <1>7 DEF Node

\* Of any nodes one has none of the others as a child, and one none as its parent.
LEMMA Ends ==
  ASSUME NEW d \in Documents, Linked(d), NEW S \in SUBSET NodeIds(d), S # {}
  PROVE  /\ \E n \in S : Children(d, n) \cap S = {}
         /\ \E n \in S : d.nodes[n].parentId \notin S
<1>1. PICK n \in S : \A c \in S : d.nodes[c].parentId # n
  BY DEF Linked, NoCircles
<1>2. Children(d, n) = {m \in NodeIds(d) : d.nodes[m].parentId = n}
  BY NodeFields
<1> QED BY <1>1, <1>2 DEF Linked, NoCircles

\* Numbers that add up along the parents are the positions.
AddsUp(d, f) ==
  \A n \in NodeIds(d) : f[n] = d.nodes[n].x + (IF d.nodes[n].parentId = Null THEN 0
                                              ELSE f[d.nodes[n].parentId])

LEMMA PositionsAre ==
  ASSUME NEW d \in Documents, Linked(d), NEW f, AddsUp(d, f)
  PROVE  \A n \in NodeIds(d) : Positions(d)[n] = f[n]
<1> DEFINE S == {n \in NodeIds(d) : Positions(d)[n] # f[n]}
<1> SUFFICES ASSUME S # {} PROVE FALSE
  OBVIOUS
<1>1. PICK n \in S : d.nodes[n].parentId \notin S
  <2>1. S \in SUBSET NodeIds(d)
    OBVIOUS
  <2> HIDE DEF S
  <2> QED BY <2>1, Ends
<1> DEFINE p == d.nodes[n].parentId
<1>2. n \in NodeIds(d) /\ p \in NodeIds(d) \cup {Null}
  BY <1>1, NodeFields
<1>3. p # Null => Positions(d)[p] = f[p]
  BY <1>1, <1>2
<1>4. Positions(d)[n] = d.nodes[n].x + (IF p = Null THEN 0 ELSE Positions(d)[p])
  BY <1>2, PositionsFit
<1>5. f[n] = d.nodes[n].x + (IF p = Null THEN 0 ELSE f[p])
  BY <1>2 DEF AddsUp
<1> HIDE DEF p, S
<1>6. Positions(d)[n] = f[n]
  BY <1>2, <1>3, <1>4, <1>5
<1> QED BY <1>1, <1>6 DEF S

\* The nodes below a node: itself and those below its children.
LEMMA DescendantsFit ==
  ASSUME NEW d \in Documents, Linked(d), NEW n \in NodeIds(d)
  PROVE  \A m : m \in Descendants(d)[n] <=>
                  m = n \/ \E c \in Children(d, n) : m \in Descendants(d)[c]
<1> DEFINE Ids == NodeIds(d)
           below == [k \in Ids |-> Children(d, k)]
           Step(k, vs) == {k} \cup UNION vs
           step == [k \in Ids |-> [vs \in SUBSET SUBSET Ids |-> Step(k, vs)]]
           Gathers(f) == f = [k \in Ids |-> {k} \cup UNION {f[c] : c \in Children(d, k)}]
<1>1. \A S \in SUBSET Ids : S # {} => \E k \in S : Children(d, k) \cap S = {}
  BY Ends
<1>2. \A k \in Ids : Children(d, k) \in SUBSET Ids
  BY NodeFields
<1> HIDE DEF Ids
<1>3. below \in [Ids -> SUBSET Ids] /\ \A k \in Ids : below[k] = Children(d, k)
  BY <1>2
<1>4. \A k \in Ids, vs \in SUBSET SUBSET Ids : Step(k, vs) \in SUBSET Ids
  OBVIOUS
<1>5. /\ step \in [Ids -> [SUBSET SUBSET Ids -> SUBSET Ids]]
      /\ \A k \in Ids, vs \in SUBSET SUBSET Ids : step[k][vs] = Step(k, vs)
  <2> HIDE DEF Step
  <2> QED BY <1>4
<1> HIDE DEF below, step
<1>6. PICK f : IsSolution(Ids, SUBSET Ids, below, step, f)
  <2>1. \A S \in SUBSET Ids : S # {} => \E k \in S : below[k] \cap S = {}
    BY <1>1, <1>3
  <2>2. IsRecursion(Ids, SUBSET Ids, below, step)
    BY <1>3, <1>5, <2>1 DEF IsRecursion
  <2> QED BY <2>2, RecursionEnds
<1>7. ASSUME NEW k \in Ids
      PROVE  f[k] = {k} \cup UNION {f[c] : c \in Children(d, k)}
  <2>1. PICK vs \in SUBSET SUBSET Ids :
          f[k] = step[k][vs] /\ \A v : v \in vs <=> \E c \in below[k] : v = f[c]
    BY <1>6 DEF IsSolution
  <2>2. f[k] = {k} \cup UNION vs
    BY <1>5, <2>1
  <2>3. vs = {f[c] : c \in Children(d, k)}
    BY <1>3, <2>1
  <2> QED BY <2>2, <2>3
<1>8. Gathers(f)
  BY <1>6, <1>7 DEF IsSolution
<1>9. Gathers(Descendants(d))
  BY <1>8 DEF Descendants, Children, Ids
<1>10. n \in Ids
  BY DEF Ids
<1>11. Descendants(d)[n] = {n} \cup UNION {Descendants(d)[c] : c \in Children(d, n)}
  BY <1>9, <1>10
<1> QED BY <1>11

\* They are nodes of the page, and with a node its children and, but for the
\* topmost, its parent are below.
LEMMA DescendantsAreClosed ==
  ASSUME NEW d \in Documents, Linked(d), NEW n \in NodeIds(d)
  PROVE  /\ n \in Descendants(d)[n] /\ Descendants(d)[n] \subseteq NodeIds(d)
         /\ \A m \in Descendants(d)[n] : Children(d, m) \subseteq Descendants(d)[n]
         /\ \A m \in Descendants(d)[n] : m # n => d.nodes[m].parentId \in Descendants(d)[n]
<1> DEFINE D == Descendants(d)
           Closed(k) == /\ D[k] \subseteq NodeIds(d)
                        /\ \A m \in D[k] : Children(d, m) \subseteq D[k]
                        /\ \A m \in D[k] : m # k => d.nodes[m].parentId \in D[k]
           S == {k \in NodeIds(d) : ~Closed(k)}
<1>1. \A k \in NodeIds(d) : \A m : m \in D[k] <=> m = k \/ \E c \in Children(d, k) : m \in D[c]
  BY DescendantsFit
<1>2. \A k \in NodeIds(d) : Children(d, k) = {m \in NodeIds(d) : d.nodes[m].parentId = k}
  BY NodeFields
<1> HIDE DEF D
<1>3. S = {}
  <2> SUFFICES ASSUME S # {} PROVE FALSE
    OBVIOUS
  <2>1. PICK k \in S : Children(d, k) \cap S = {}
    <3>1. S \in SUBSET NodeIds(d)
      OBVIOUS
    <3> HIDE DEF S
    <3> QED BY <3>1, Ends
  <2>2. k \in NodeIds(d) /\ ~Closed(k)
    BY <2>1
  <2>3. \A c \in Children(d, k) : c \in NodeIds(d) /\ Closed(c) /\ d.nodes[c].parentId = k
    <3> HIDE DEF Closed
    <3> QED BY <1>2, <2>1, <2>2
  <2>4. D[k] \subseteq NodeIds(d)
    BY <1>1, <2>2, <2>3
  <2>5. ASSUME NEW m \in D[k], NEW c \in Children(d, m) PROVE c \in D[k]
    <3>1. CASE m = k
      <4>1. c \in NodeIds(d) /\ c \in D[c]
        BY <1>1, <2>3, <2>5, <3>1
      <4> QED BY <1>1, <2>2, <2>5, <3>1, <4>1
    <3>2. CASE m # k
      <4>1. PICK e \in Children(d, k) : m \in D[e]
        BY <1>1, <2>2, <3>2
      <4>2. c \in D[e]
        BY <2>3, <2>5, <4>1
      <4> QED BY <1>1, <2>2, <4>2
    <3> QED BY <3>1, <3>2
  <2>6. ASSUME NEW m \in D[k], m # k PROVE d.nodes[m].parentId \in D[k]
    <3>1. PICK e \in Children(d, k) : m \in D[e]
      BY <1>1, <2>2, <2>6
    <3>2. CASE m = e
      BY <1>1, <2>2, <2>3, <3>1, <3>2
    <3>3. CASE m # e
      <4>1. d.nodes[m].parentId \in D[e]
        BY <2>3, <3>1, <3>3
      <4> QED BY <1>1, <2>2, <3>1, <4>1
    <3> QED BY <3>2, <3>3
  <2> QED BY <2>2, <2>4, <2>5, <2>6
<1>4. Closed(n)
  BY <1>3
<1> QED BY <1>1, <1>4 DEF D

-----------------------------------------------------------------------------
(* Boxes.                                                                  *)

\* The bounds of a node on the page.
Box == [x : Int, width : Nat \ {0}]

\* The box that is the hull of boxes in a list.
IsHull(J, b, h) ==
  /\ h \in Box
  /\ \A j \in J : h.x <= b[j].x /\ b[j].x + b[j].width <= h.x + h.width
  /\ \E j \in J : h.x = b[j].x
  /\ \E j \in J : h.x + h.width = b[j].x + b[j].width

\* Some boxes in a list have a hull.
LEMMA HullFits ==
  ASSUME NEW n \in Nat, NEW J \in SUBSET (1..n), J # {}, NEW g \in [J -> Box], NEW vs,
         \A v : v \in vs <=> \E j \in J : v = g[j]
  PROVE  Hull(vs) \in Box /\ IsHull(J, g, Hull(vs))
<1> DEFINE L == {b.x : b \in vs}
           R == {b.x + b.width : b \in vs}
           x == [j \in J |-> g[j].x]
           e == [j \in J |-> -(g[j].x + g[j].width)]
<1>1. \A j \in J : g[j].x \in Int /\ g[j].width \in Nat \ {0} /\ g[j] \in vs
  BY DEF Box
<1>2. x \in [J -> Int] /\ e \in [J -> Int]
  BY <1>1
<1>3. /\ \A j \in J : x[j] = g[j].x /\ e[j] = -(g[j].x + g[j].width)
      /\ \A j \in J : g[j].x \in L /\ g[j].x + g[j].width \in R
      /\ \A y \in L : \E j \in J : y = g[j].x
      /\ \A y \in R : \E j \in J : y = g[j].x + g[j].width
  <2>1. \A j \in J : x[j] = g[j].x /\ e[j] = -(g[j].x + g[j].width)
    OBVIOUS
  <2>2. \A j \in J : g[j].x \in L /\ g[j].x + g[j].width \in R
    BY <1>1
  <2>3. \A y \in L : \E j \in J : y = g[j].x
    OBVIOUS
  <2>4. \A y \in R : \E j \in J : y = g[j].x + g[j].width
    OBVIOUS
  <2> QED BY <2>1, <2>2, <2>3, <2>4
<1> HIDE DEF L, R, x, e
<1>4. PICK i \in J : \A j \in J : x[i] <= x[j]
  BY <1>2, LeastOfSome
<1>5. PICK k \in J : \A j \in J : e[k] <= e[j]
  BY <1>2, LeastOfSome
<1>6. g[i].x \in L /\ \A y \in L : g[i].x <= y
  BY <1>3, <1>4
<1>7. g[k].x + g[k].width \in R /\ \A y \in R : g[k].x + g[k].width >= y
  <2>1. \A j \in J : g[k].x + g[k].width >= g[j].x + g[j].width
    BY <1>1, <1>3, <1>5
  <2> QED BY <1>3, <2>1
<1>8. Min(L) \in L /\ \A y \in L : Min(L) <= y
  BY <1>6 DEF Min
<1>9. Max(R) \in R /\ \A y \in R : Max(R) >= y
  BY <1>7 DEF Max
<1>10. Min(L) \in Int /\ Max(R) \in Int
  BY <1>1, <1>3, <1>8, <1>9
<1>11. Max(R) - Min(L) \in Nat \ {0}
  <2>1. Min(L) <= g[i].x /\ Max(R) >= g[i].x + g[i].width
    BY <1>3, <1>8, <1>9
  <2> QED BY <1>1, <1>10, <2>1
<1>12. Hull(vs) = [x |-> Min(L), width |-> Max(R) - Min(L)]
  BY DEF Hull, L, R
<1>13. Hull(vs) \in Box /\ Hull(vs).x = Min(L) /\ Hull(vs).x + Hull(vs).width = Max(R)
  BY <1>10, <1>11, <1>12 DEF Box
<1>14. IsHull(J, g, Hull(vs))
  BY <1>3, <1>8, <1>9, <1>13 DEF IsHull
<1> QED BY <1>13, <1>14

\* What getNodeBounds says of one node, the boxes of the others known.
BoxOf(d, B, n) ==
  LET node == d.nodes[n]
      at == Positions(d)[n]
      end == at - node.x + node.x2
  IN CASE n \in Lines ->
            [x |-> Min({at, end}), width |-> Larger(1, Larger(end - at, at - end))]
       [] n \in Groups /\ node.childIds # <<>> -> Hull({B[c] : c \in Children(d, n)})
       [] OTHER -> [x |-> at, width |-> node.width]

\* The lesser of two integers is one.
LEMMA MinOfTwo == \A a, b \in Int : Min({a, b}) \in Int
<1> TAKE a, b \in Int
<1>1. Min({a, b}) \in {a, b}
  <2>1. \E m \in {a, b} : \A y \in {a, b} : m <= y
    OBVIOUS
  <2> QED BY <2>1 DEF Min
<1> QED BY <1>1

\* A line is at least one wide.
LEMMA LineWidth == \A a \in Int : Larger(1, Larger(a, -a)) \in Nat \ {0}
BY DEF Larger

\* Every node has a box, the one getNodeBounds computes from the others'.
LEMMA BoxesFit ==
  ASSUME NEW d \in Documents, Linked(d)
  PROVE  /\ Boxes(d) \in [NodeIds(d) -> Box]
         /\ \A n \in NodeIds(d) : Boxes(d)[n] = BoxOf(d, Boxes(d), n)
<1> DEFINE Ids == NodeIds(d)
           at == Positions(d)
           node(n) == d.nodes[n]
           End(n) == at[n] - node(n).x + node(n).x2
           Hugs(n) == n \in Groups /\ node(n).childIds # <<>>
           Line(n) == [x |-> Min({at[n], End(n)}),
                       width |-> Larger(1, Larger(End(n) - at[n], at[n] - End(n)))]
           Plain(n) == [x |-> at[n], width |-> node(n).width]
           below == [n \in Ids |-> IF Hugs(n) THEN Children(d, n) ELSE {}]
           Step(n, vs) == IF n \in Lines THEN Line(n)
                          ELSE IF Hugs(n) /\ Hull(vs) \in Box THEN Hull(vs) ELSE Plain(n)
           step == [n \in Ids |-> [vs \in SUBSET Box |-> Step(n, vs)]]
<1>1. \A n \in Ids : /\ at[n] \in Int /\ node(n).x \in Int /\ node(n).x2 \in Int
                     /\ node(n).width \in Nat \ {0} /\ Children(d, n) \in SUBSET Ids
  BY NodeFields, PositionsFit
<1>2. \A S \in SUBSET Ids : S # {} => \E n \in S : Children(d, n) \cap S = {}
  BY Ends
<1>3. \A n \in Ids : Line(n) \in Box /\ Plain(n) \in Box
  <2> TAKE n \in Ids
  <2> HIDE DEF at, node, Ids
  <2>1. End(n) \in Int
    BY <1>1
  <2>2. Min({at[n], End(n)}) \in Int
    BY <1>1, <2>1, MinOfTwo
  <2>3. End(n) - at[n] \in Int /\ -(End(n) - at[n]) = at[n] - End(n)
    BY <1>1, <2>1
  <2>4. Larger(1, Larger(End(n) - at[n], at[n] - End(n))) \in Nat \ {0}
    BY <2>3, LineWidth
  <2> HIDE DEF End
  <2> QED BY <1>1, <2>2, <2>4 DEF Box
<1> HIDE DEF Ids, node, at, Line, Plain
<1>4. below \in [Ids -> SUBSET Ids]
      /\ \A n \in Ids : below[n] = IF Hugs(n) THEN Children(d, n) ELSE {}
  BY <1>1
<1>5. \A n \in Ids, vs \in SUBSET Box : Step(n, vs) \in Box
  BY <1>3
<1>6. /\ step \in [Ids -> [SUBSET Box -> Box]]
      /\ \A n \in Ids, vs \in SUBSET Box : step[n][vs] = Step(n, vs)
  <2> HIDE DEF Step
  <2> QED BY <1>5
<1> HIDE DEF below, step, Hugs
<1>7. PICK f : IsSolution(Ids, Box, below, step, f)
  <2>1. \A S \in SUBSET Ids : S # {} => \E n \in S : below[n] \cap S = {}
    BY <1>2, <1>4
  <2>2. IsRecursion(Ids, Box, below, step)
    BY <1>4, <1>6, <2>1 DEF IsRecursion
  <2> QED BY <2>2, RecursionEnds
<1> DEFINE Bounds(b, n) == CASE n \in Lines -> Line(n)
                             [] Hugs(n) -> Hull({b[c] : c \in Children(d, n)})
                             [] OTHER -> Plain(n)
           BoundsIf(b, n) == IF n \in Lines THEN Line(n)
                             ELSE IF Hugs(n) THEN Hull({b[c] : c \in Children(d, n)})
                             ELSE Plain(n)
\* The hull of a group's children, whatever boxes they have.
<1>8. ASSUME NEW b, NEW n \in Ids, Hugs(n), \A c \in Children(d, n) : b[c] \in Box
      PROVE  Hull({b[c] : c \in Children(d, n)}) \in Box
  <2> DEFINE s == node(n).childIds
             J == 1..Len(s)
             g == [j \in J |-> b[s[j]]]
             vs == {b[c] : c \in Children(d, n)}
  <2>1. s \in Seq(PageIds) /\ s # <<>> /\ Children(d, n) = ToSet(s)
    BY <1>8, NodeFields DEF Ids, node, Hugs, Children
  <2> HIDE DEF s
  <2>2. Len(s) \in Nat /\ J # {} /\ Children(d, n) = {s[j] : j \in J}
    BY <2>1 DEF ToSet
  <2>3. g \in [J -> Box]
    BY <1>8, <2>2
  <2>4. \A v : v \in vs <=> \E j \in J : v = g[j]
    BY <2>2
  <2> HIDE DEF g, vs, J
  <2>5. J \in SUBSET (1..Len(s))
    BY DEF J
  <2>6. Hull(vs) \in Box
    BY <2>2, <2>3, <2>4, <2>5, HullFits
  <2> QED BY <2>6 DEF vs
<1> HIDE DEF Hugs
<1>16. \A b, n : Bounds(b, n) = BoundsIf(b, n)
  <2> TAKE b, n
  <2>1. Hugs(n) => n \notin Lines
    BY KindsAreDisjoint DEF Hugs, Containers
  <2> DEFINE h == Hull({b[c] : c \in Children(d, n)})
  <2> HIDE DEF h
  <2> QED BY <2>1
<1> HIDE DEF Bounds
<1>9. ASSUME NEW n \in Ids PROVE f[n] = Bounds(f, n)
  <2> SUFFICES f[n] = BoundsIf(f, n)
    BY <1>16
  <2>1. PICK vs \in SUBSET Box :
          f[n] = step[n][vs] /\ \A v : v \in vs <=> \E c \in below[n] : v = f[c]
    BY <1>7 DEF IsSolution
  <2>2. f[n] = Step(n, vs)
    BY <1>6, <2>1
  <2>3. CASE Hugs(n)
    <3>1. vs = {f[c] : c \in Children(d, n)}
      BY <1>4, <2>1, <2>3
    <3>2. \A c \in Children(d, n) : f[c] \in Box
      BY <1>1, <1>7 DEF IsSolution
    <3>3. Hull(vs) \in Box
      BY <1>8, <2>3, <3>1, <3>2
    <3> QED BY <2>2, <2>3, <3>1, <3>3
  <2>4. CASE ~Hugs(n)
    BY <2>2, <2>4
  <2> QED BY <2>3, <2>4
<1>10. f = [n \in Ids |-> Bounds(f, n)]
  <2> HIDE DEF Bounds
  <2> QED BY <1>7, <1>9 DEF IsSolution
<1> DEFINE B == Boxes(d)
<1>11. B = [n \in Ids |-> Bounds(B, n)]
  BY <1>10 DEF Boxes, Bounds, Hugs, Line, Plain, End, node, at, Ids, Children
<1> HIDE DEF B
<1>17. \A n \in Ids : B[n] = Bounds(B, n)
  BY <1>11
<1>13. \A n \in Ids : B[n] = BoundsIf(B, n)
  BY <1>16, <1>17
<1>14. \A n \in Ids : B[n] \in Box
  <2> DEFINE S == {n \in Ids : B[n] \notin Box}
  <2> SUFFICES ASSUME S # {} PROVE FALSE
    OBVIOUS
  <2>1. PICK n \in S : Children(d, n) \cap S = {}
    <3>1. S \in SUBSET Ids
      OBVIOUS
    <3> HIDE DEF S
    <3> QED BY <1>2, <3>1
  <2>2. n \in Ids /\ B[n] \notin Box /\ \A c \in Children(d, n) : B[c] \in Box
    BY <1>1, <2>1
  <2>3. CASE Hugs(n)
    <3>1. Hull({B[c] : c \in Children(d, n)}) \in Box
      BY <1>8, <2>2, <2>3
    <3> QED BY <1>3, <1>13, <2>2, <2>3, <3>1
  <2>4. CASE ~Hugs(n)
    BY <1>3, <1>13, <2>2, <2>4
  <2> QED BY <2>3, <2>4
<1>15. \A n \in Ids : Bounds(B, n) = BoxOf(d, B, n)
  BY Zenon DEF BoxOf, Bounds, Hugs, Line, Plain, End, node, at
<1> QED BY <1>11, <1>14, <1>15, <1>17 DEF B, Ids

\* What is neither a line nor a group is where its position says.
LEMMA PlainBox ==
  ASSUME NEW d \in Documents, Linked(d), NEW n \in NodeIds(d), n \notin Groups \cup Lines
  PROVE  Boxes(d)[n] = [x |-> Positions(d)[n], width |-> d.nodes[n].width]
<1>1. Boxes(d)[n] = BoxOf(d, Boxes(d), n)
  BY BoxesFit
<1> QED BY <1>1 DEF BoxOf

-----------------------------------------------------------------------------
(* What every command does at its end.                                     *)

\* Documents are made of a list and nodes.
LEMMA Assembled ==
  \A r \in Seq(PageIds), I \in SUBSET PageIds : \A F \in [I -> Node] :
    /\ [rootNodeIds |-> r, nodes |-> F] \in Documents
    /\ NodeIds([rootNodeIds |-> r, nodes |-> F]) = I
<1> TAKE r \in Seq(PageIds), I \in SUBSET PageIds
<1> TAKE F \in [I -> Node]
<1>1. F \in UNION {[J -> Node] : J \in SUBSET PageIds}
  OBVIOUS
<1> QED BY <1>1 DEF Documents, NodeIds

\* What EXCEPT makes of a document.
LEMMA Replaced ==
  \A d \in Documents : \A r, F :
    /\ [d EXCEPT !.nodes = F] = [rootNodeIds |-> d.rootNodeIds, nodes |-> F]
    /\ [d EXCEPT !.rootNodeIds = r] = [rootNodeIds |-> r, nodes |-> d.nodes]
BY DocumentFields

\* What setting fields of a node makes of it.
LEMMA NodeWithPlace ==
  ASSUME NEW o \in Node, NEW z \in Nat
  PROVE  LET m == [o EXCEPT !.zIndex = z] IN
         /\ m \in Node /\ m.x = o.x /\ m.width = o.width /\ m.parentId = o.parentId
         /\ m.childIds = o.childIds /\ m.x2 = o.x2 /\ m.zIndex = z /\ m.locked = o.locked
BY DEF Node

\* Links are right in documents with the same links.
LEMMA SameLinks ==
  ASSUME NEW d \in Documents, Linked(d), NEW e \in Documents, NodeIds(e) = NodeIds(d),
         e.rootNodeIds = d.rootNodeIds,
         \A n \in NodeIds(d) : /\ e.nodes[n].parentId = d.nodes[n].parentId
                               /\ e.nodes[n].childIds = d.nodes[n].childIds
  PROVE  Linked(e) /\ \A p \in NodeIds(d) \cup {Null} : SiblingIds(e, p) = SiblingIds(d, p)
<1>1. \A p \in NodeIds(d) \cup {Null} : SiblingIds(e, p) = SiblingIds(d, p)
  BY DEF SiblingIds
<1>2. ParentsAreThere(e)
  BY DEF Linked, ParentsAreThere
<1>3. ListsAreOfChildren(e)
  <2> SUFFICES ASSUME NEW p \in NodeIds(d) \cup {Null}
               PROVE  /\ IsInjective(SiblingIds(d, p))
                      /\ ToSet(SiblingIds(d, p)) = {n \in NodeIds(d) : e.nodes[n].parentId = p}
    BY <1>1 DEF ListsAreOfChildren
  <2>1. {n \in NodeIds(d) : e.nodes[n].parentId = p} = {n \in NodeIds(d) : d.nodes[n].parentId = p}
    OBVIOUS
  <2> QED BY <2>1 DEF Linked, ListsAreOfChildren
<1>4. NoCircles(e)
  <2> SUFFICES ASSUME NEW S \in SUBSET NodeIds(d), S # {}
               PROVE  /\ \E n \in S : e.nodes[n].parentId \notin S
                      /\ \E n \in S : \A c \in S : e.nodes[c].parentId # n
    BY DEF NoCircles
  <2>1. PICK n \in S : d.nodes[n].parentId \notin S
    BY DEF Linked, NoCircles
  <2>2. PICK m \in S : \A c \in S : d.nodes[c].parentId # m
    BY DEF Linked, NoCircles
  <2>3. e.nodes[n].parentId \notin S
    BY <2>1
  <2>4. \A c \in S : e.nodes[c].parentId # m
    BY <2>2
  <2> QED BY <2>3, <2>4
<1> QED BY <1>1, <1>2, <1>3, <1>4 DEF Linked

\* normalizeGroups: where a node's left edge is on the page.
Hugging(d, n) == n \in Groups /\ d.nodes[n].childIds # <<>>
LeftOf(d, n) == IF n = Null THEN 0
                ELSE IF Hugging(d, n) THEN Boxes(d)[n].x ELSE Positions(d)[n]

\* What normalizeGroups writes, and that it keeps the links.
LEMMA GroupsNormalized ==
  ASSUME NEW d \in Documents, Linked(d)
  PROVE  LET e == NormalizeGroups(d) IN
         /\ e \in Documents /\ Linked(e)
         /\ NodeIds(e) = NodeIds(d) /\ e.rootNodeIds = d.rootNodeIds
         /\ \A n \in NodeIds(d) :
              /\ e.nodes[n].parentId = d.nodes[n].parentId
              /\ e.nodes[n].childIds = d.nodes[n].childIds
              /\ e.nodes[n].x2 = d.nodes[n].x2 /\ e.nodes[n].locked = d.nodes[n].locked
              /\ e.nodes[n].x = LeftOf(d, n) - LeftOf(d, d.nodes[n].parentId)
              /\ e.nodes[n].width = IF Hugging(d, n) \/ n \in Lines THEN Boxes(d)[n].width
                                    ELSE d.nodes[n].width
         /\ \A n \in NodeIds(d) \cup {Null} : LeftOf(d, n) \in Int
<1> DEFINE Ids == NodeIds(d)
           X(n) == LeftOf(d, n) - LeftOf(d, d.nodes[n].parentId)
           W(n) == IF Hugging(d, n) \/ n \in Lines THEN Boxes(d)[n].width ELSE d.nodes[n].width
           F == [n \in Ids |-> [d.nodes[n] EXCEPT !.x = X(n), !.width = W(n)]]
           e == [rootNodeIds |-> d.rootNodeIds, nodes |-> F]
<1>1. \A n \in Ids : /\ Positions(d)[n] \in Int /\ Boxes(d)[n].x \in Int
                     /\ Boxes(d)[n].width \in Nat \ {0} /\ n # Null
                     /\ d.nodes[n].width \in Nat \ {0}
                     /\ d.nodes[n].parentId \in Ids \cup {Null}
  BY PositionsFit, BoxesFit, NodeFields DEF Box
<1>2. \A n \in Ids \cup {Null} : LeftOf(d, n) \in Int
  BY <1>1 DEF LeftOf
<1>3. /\ d.rootNodeIds \in Seq(PageIds) /\ Ids \in SUBSET PageIds
      /\ \A n \in Ids : d.nodes[n] \in Node
  BY DocumentFields
<1> HIDE DEF Ids
<1>4. \A n \in Ids : X(n) \in Int /\ W(n) \in Nat \ {0}
  BY <1>1, <1>2
<1> HIDE DEF X, W
<1>5. ASSUME NEW n \in Ids
      PROVE  /\ F[n] \in Node /\ F[n].x = X(n) /\ F[n].width = W(n)
             /\ F[n].parentId = d.nodes[n].parentId /\ F[n].childIds = d.nodes[n].childIds
             /\ F[n].x2 = d.nodes[n].x2 /\ F[n].locked = d.nodes[n].locked
  <2>1. F[n] = [d.nodes[n] EXCEPT !.x = X(n), !.width = W(n)]
    OBVIOUS
  <2> HIDE DEF F
  <2>2. d.nodes[n] \in Node /\ X(n) \in Int /\ W(n) \in Nat \ {0}
    BY <1>3, <1>4
  <2> QED BY <2>1, <2>2 DEF Node
<1>6. F = [n \in Ids |-> F[n]]
  OBVIOUS
<1> HIDE DEF F
<1>7. F \in [Ids -> Node]
  BY <1>5, <1>6
<1>8. /\ e \in Documents /\ NodeIds(e) = Ids
      /\ [d EXCEPT !.nodes = F] = e
  BY <1>3, <1>7, Assembled, Replaced
<1>9. NormalizeGroups(d) = [d EXCEPT !.nodes = F]
  BY DEF NormalizeGroups, F, X, W, Ids, LeftOf, Hugging
<1>10. e.rootNodeIds = d.rootNodeIds /\ e.nodes = F
  OBVIOUS
<1> HIDE DEF e
<1>11. Linked(e)
  BY <1>5, <1>8, <1>10, SameLinks DEF Ids
<1>12. NormalizeGroups(d) = e
  BY <1>8, <1>9
<1> QED BY <1>2, <1>5, <1>8, <1>10, <1>11, <1>12 DEF Ids, X, W

\* zIndex is the place among the siblings.
Placed(d) ==
  \A p \in NodeIds(d) \cup {Null} : \A i \in 1..Len(SiblingIds(d, p)) :
    d.nodes[SiblingIds(d, p)[i]].zIndex = i - 1

\* What normalizeDocumentZIndices writes, and that it keeps the links.
LEMMA ZIndicesNormalized ==
  ASSUME NEW d \in Documents, Linked(d)
  PROVE  LET e == NormalizeZIndices(d) IN
         /\ e \in Documents /\ Linked(e) /\ Placed(e)
         /\ NodeIds(e) = NodeIds(d) /\ e.rootNodeIds = d.rootNodeIds
         /\ \A n \in NodeIds(d) :
              /\ e.nodes[n].parentId = d.nodes[n].parentId
              /\ e.nodes[n].childIds = d.nodes[n].childIds
              /\ e.nodes[n].x2 = d.nodes[n].x2 /\ e.nodes[n].x = d.nodes[n].x
              /\ e.nodes[n].width = d.nodes[n].width /\ e.nodes[n].locked = d.nodes[n].locked
<1> DEFINE Ids == NodeIds(d)
           Z(n) == PlaceOf(SiblingIds(d, d.nodes[n].parentId), n) - 1
           F == [n \in Ids |-> [d.nodes[n] EXCEPT !.zIndex = Z(n)]]
           e == [rootNodeIds |-> d.rootNodeIds, nodes |-> F]
<1>1. /\ d.rootNodeIds \in Seq(PageIds) /\ Ids \in SUBSET PageIds
      /\ \A n \in Ids : d.nodes[n] \in Node
  BY DocumentFields
<1>2. \A p \in Ids \cup {Null} :
        /\ SiblingIds(d, p) \in Seq(PageIds) /\ IsInjective(SiblingIds(d, p))
        /\ ToSet(SiblingIds(d, p)) = {n \in Ids : d.nodes[n].parentId = p}
  <2> TAKE p \in Ids \cup {Null}
  <2>1. SiblingIds(d, p) \in Seq(PageIds)
    BY <1>1, NodeFields DEF SiblingIds
  <2> QED BY <2>1 DEF Linked, ListsAreOfChildren
<1>3. \A n \in Ids : d.nodes[n].parentId \in Ids \cup {Null}
  BY NodeFields
<1> HIDE DEF Ids
<1>4. ASSUME NEW n \in Ids PROVE Z(n) \in Nat
  <2> DEFINE s == SiblingIds(d, d.nodes[n].parentId)
  <2>1. s \in Seq(PageIds) /\ IsInjective(s) /\ n \in ToSet(s)
    BY <1>2, <1>3
  <2>2. PlaceOf(s, n) \in 1..Len(s)
    BY <2>1, PlaceFits
  <2> HIDE DEF s
  <2>3. PlaceOf(s, n) - 1 \in Nat
    BY <2>1, <2>2
  <2> QED BY <2>3 DEF s
<1> HIDE DEF Z
<1>5. ASSUME NEW n \in Ids
      PROVE  /\ F[n] \in Node /\ F[n].zIndex = Z(n) /\ F[n].width = d.nodes[n].width
             /\ F[n].parentId = d.nodes[n].parentId /\ F[n].childIds = d.nodes[n].childIds
             /\ F[n].x2 = d.nodes[n].x2 /\ F[n].x = d.nodes[n].x
             /\ F[n].locked = d.nodes[n].locked
  <2>1. F[n] = [d.nodes[n] EXCEPT !.zIndex = Z(n)]
    OBVIOUS
  <2> HIDE DEF F
  <2>2. d.nodes[n] \in Node /\ Z(n) \in Nat
    BY <1>1, <1>4
  <2> QED BY <2>1, <2>2, NodeWithPlace
<1>6. F = [n \in Ids |-> F[n]]
  OBVIOUS
<1> HIDE DEF F
<1>7. F \in [Ids -> Node]
  BY <1>5, <1>6
<1>8. /\ e \in Documents /\ NodeIds(e) = Ids
      /\ [d EXCEPT !.nodes = F] = e
  BY <1>1, <1>7, Assembled, Replaced
<1>9. NormalizeZIndices(d) = [d EXCEPT !.nodes = F]
  BY DEF NormalizeZIndices, F, Z, Ids
<1>10. e.rootNodeIds = d.rootNodeIds /\ e.nodes = F
  OBVIOUS
<1> HIDE DEF e
<1>11. Linked(e) /\ \A p \in Ids \cup {Null} : SiblingIds(e, p) = SiblingIds(d, p)
  BY <1>5, <1>8, <1>10, SameLinks DEF Ids
<1>12. NormalizeZIndices(d) = e
  BY <1>8, <1>9
<1>13. ASSUME NEW p \in Ids \cup {Null}, NEW i \in 1..Len(SiblingIds(d, p))
       PROVE  e.nodes[SiblingIds(d, p)[i]].zIndex = i - 1
  <2> DEFINE s == SiblingIds(d, p)
             n == s[i]
  <2>1. s \in Seq(PageIds) /\ IsInjective(s) /\ n \in ToSet(s)
    BY <1>2 DEF ToSet
  <2>2. n \in Ids /\ d.nodes[n].parentId = p
    BY <1>2, <2>1
  <2>3. PlaceOf(s, n) = i
    BY <2>1, PlaceFits
  <2>4. Z(n) = i - 1
    BY <2>2, <2>3 DEF Z
  <2> QED BY <1>5, <1>10, <2>2, <2>4
<1>14. Placed(e)
  BY <1>8, <1>11, <1>13 DEF Placed
<1> QED BY <1>5, <1>8, <1>10, <1>11, <1>12, <1>14 DEF Ids

-----------------------------------------------------------------------------
(* Groups hug.                                                             *)

\* Groups that hold no line are the hulls of what they hold.
Hugs(d) ==
  \A g \in NodeIds(d) \cap Groups :
    Descendants(d)[g] \cap Lines = {} =>
      Boxes(d)[g] = [x |-> Positions(d)[g], width |-> d.nodes[g].width]

\* What is below a node depends on the parents only.
LEMMA SameDescendants ==
  ASSUME NEW d \in Documents, Linked(d), NEW e \in Documents, Linked(e), NodeIds(e) = NodeIds(d),
         \A n \in NodeIds(d) : e.nodes[n].parentId = d.nodes[n].parentId
  PROVE  \A n \in NodeIds(d) : Descendants(e)[n] = Descendants(d)[n]
<1> DEFINE Ids == NodeIds(d)
<1>1. \A n \in Ids : Children(e, n) = Children(d, n)
  <2> TAKE n \in Ids
  <2>1. Children(d, n) = {m \in Ids : d.nodes[m].parentId = n}
    BY NodeFields
  <2>2. Children(e, n) = {m \in Ids : e.nodes[m].parentId = n}
    BY NodeFields
  <2> QED BY <2>1, <2>2
<1>2. \A n \in Ids : Descendants(e)[n] = Descendants(d)[n]
  <2> DEFINE S == {n \in Ids : Descendants(e)[n] # Descendants(d)[n]}
  <2> SUFFICES ASSUME S # {} PROVE FALSE
    OBVIOUS
  <2>1. PICK n \in S : Children(d, n) \cap S = {}
    <3>1. S \in SUBSET NodeIds(d)
      OBVIOUS
    <3> HIDE DEF S
    <3> QED BY <3>1, Ends
  <2>2. n \in Ids /\ Children(d, n) \subseteq Ids
    BY <2>1, NodeFields
  <2>3. \A c \in Children(d, n) : Descendants(e)[c] = Descendants(d)[c]
    BY <2>1, <2>2
  <2>4. /\ \A m : m \in Descendants(e)[n] <=>
                    m = n \/ \E c \in Children(e, n) : m \in Descendants(e)[c]
        /\ \A m : m \in Descendants(d)[n] <=>
                    m = n \/ \E c \in Children(d, n) : m \in Descendants(d)[c]
    BY <2>2, DescendantsFit
  <2>5. /\ Descendants(e)[n] \subseteq Ids /\ Descendants(d)[n] \subseteq Ids
    BY <2>2, DescendantsAreClosed
  <2>6. \A m : m \in Descendants(e)[n] <=> m \in Descendants(d)[n]
    <3>1. \A m : (\E c \in Children(e, n) : m \in Descendants(e)[c])
                   <=> (\E c \in Children(d, n) : m \in Descendants(d)[c])
      BY <1>1, <2>2, <2>3
    <3> QED BY <2>4, <3>1
  <2>7. Descendants(e)[n] = Descendants(d)[n]
    BY <2>5, <2>6
  <2> QED BY <2>1, <2>7
<1> QED BY <1>2

\* What is hugged depends on the geometry only, whatever the order of siblings.
LEMMA SameGeometry ==
  ASSUME NEW d \in Documents, Linked(d), NEW e \in Documents, Linked(e), NodeIds(e) = NodeIds(d),
         \A n \in NodeIds(d) :
           /\ e.nodes[n].parentId = d.nodes[n].parentId /\ e.nodes[n].x = d.nodes[n].x
           /\ e.nodes[n].width = d.nodes[n].width /\ e.nodes[n].x2 = d.nodes[n].x2
  PROVE  \A n \in NodeIds(d) : /\ Positions(e)[n] = Positions(d)[n]
                               /\ Boxes(e)[n] = Boxes(d)[n]
                               /\ Descendants(e)[n] = Descendants(d)[n]
<1> DEFINE Ids == NodeIds(d)
<1>1. \A n \in Ids : Children(e, n) = Children(d, n)
  <2> TAKE n \in Ids
  <2>1. Children(d, n) = {m \in Ids : d.nodes[m].parentId = n}
    BY NodeFields
  <2>2. Children(e, n) = {m \in Ids : e.nodes[m].parentId = n}
    BY NodeFields
  <2> QED BY <2>1, <2>2
<1>2. \A n \in Ids : Positions(e)[n] = Positions(d)[n]
  <2> DEFINE S == {n \in Ids : Positions(e)[n] # Positions(d)[n]}
  <2> SUFFICES ASSUME S # {} PROVE FALSE
    OBVIOUS
  <2>1. PICK n \in S : d.nodes[n].parentId \notin S
    <3>1. S \in SUBSET NodeIds(d)
      OBVIOUS
    <3> HIDE DEF S
    <3> QED BY <3>1, Ends
  <2>2. n \in Ids /\ d.nodes[n].parentId \in Ids \cup {Null}
    BY <2>1, NodeFields
  <2>3. d.nodes[n].parentId # Null =>
          Positions(e)[d.nodes[n].parentId] = Positions(d)[d.nodes[n].parentId]
    BY <2>1, <2>2
  <2>4. /\ Positions(e)[n] = e.nodes[n].x + (IF e.nodes[n].parentId = Null THEN 0
                                             ELSE Positions(e)[e.nodes[n].parentId])
        /\ Positions(d)[n] = d.nodes[n].x + (IF d.nodes[n].parentId = Null THEN 0
                                             ELSE Positions(d)[d.nodes[n].parentId])
    BY <2>2, PositionsFit
  <2>5. Positions(e)[n] = Positions(d)[n]
    BY <2>2, <2>3, <2>4
  <2> QED BY <2>1, <2>5
<1>3. \A n \in Ids : Boxes(e)[n] = Boxes(d)[n]
  <2> DEFINE S == {n \in Ids : Boxes(e)[n] # Boxes(d)[n]}
  <2> SUFFICES ASSUME S # {} PROVE FALSE
    OBVIOUS
  <2>1. PICK n \in S : Children(d, n) \cap S = {}
    <3>1. S \in SUBSET NodeIds(d)
      OBVIOUS
    <3> HIDE DEF S
    <3> QED BY <3>1, Ends
  <2>2. n \in Ids /\ Children(d, n) \subseteq Ids
    BY <2>1, NodeFields
  <2>3. \A c \in Children(d, n) : Boxes(e)[c] = Boxes(d)[c]
    BY <2>1, <2>2
  <2>4. {Boxes(e)[c] : c \in Children(e, n)} = {Boxes(d)[c] : c \in Children(d, n)}
    BY <1>1, <2>2, <2>3
  <2>5. e.nodes[n].childIds = <<>> <=> d.nodes[n].childIds = <<>>
    BY <1>1, <2>2, NodeFields
  <2>6. BoxOf(e, Boxes(e), n) = BoxOf(d, Boxes(d), n)
    BY <1>2, <2>2, <2>4, <2>5 DEF BoxOf
  <2>7. Boxes(e)[n] = Boxes(d)[n]
    BY <2>2, <2>6, BoxesFit
  <2> QED BY <2>1, <2>7
<1> QED BY <1>2, <1>3, SameDescendants

\* So are groups that hug.
LEMMA SameHugs ==
  ASSUME NEW d \in Documents, Linked(d), NEW e \in Documents, Linked(e), NodeIds(e) = NodeIds(d),
         \A n \in NodeIds(d) :
           /\ e.nodes[n].parentId = d.nodes[n].parentId /\ e.nodes[n].x = d.nodes[n].x
           /\ e.nodes[n].width = d.nodes[n].width /\ e.nodes[n].x2 = d.nodes[n].x2,
         Hugs(d)
  PROVE  Hugs(e)
BY SameGeometry DEF Hugs

\* normalizeGroups puts every node where it is to be, at any depth.
LEMMA NormalizedPositions ==
  ASSUME NEW d \in Documents, Linked(d), NEW n \in NodeIds(d)
  PROVE  Positions(NormalizeGroups(d))[n] = LeftOf(d, n)
<1> DEFINE e == NormalizeGroups(d)
           S == {m \in NodeIds(d) : Positions(e)[m] # LeftOf(d, m)}
<1>1. /\ e \in Documents /\ Linked(e) /\ NodeIds(e) = NodeIds(d)
      /\ \A m \in NodeIds(d) :
           /\ e.nodes[m].parentId = d.nodes[m].parentId
           /\ e.nodes[m].x = LeftOf(d, m) - LeftOf(d, d.nodes[m].parentId)
      /\ \A m \in NodeIds(d) \cup {Null} : LeftOf(d, m) \in Int
  BY GroupsNormalized
<1> HIDE DEF e
<1>2. S = {}
  <2> SUFFICES ASSUME S # {} PROVE FALSE
    OBVIOUS
  <2>1. PICK m \in S : d.nodes[m].parentId \notin S
    <3>1. S \in SUBSET NodeIds(d)
      OBVIOUS
    <3> HIDE DEF S
    <3> QED BY <3>1, Ends
  <2> DEFINE p == d.nodes[m].parentId
  <2>2. m \in NodeIds(d) /\ p \in NodeIds(d) \cup {Null}
    BY <2>1, NodeFields
  <2>3. p # Null => Positions(e)[p] = LeftOf(d, p)
    BY <2>1, <2>2
  <2>4. p = Null => LeftOf(d, p) = 0
    BY DEF LeftOf
  <2>5. Positions(e)[m] = e.nodes[m].x + (IF e.nodes[m].parentId = Null THEN 0
                                          ELSE Positions(e)[e.nodes[m].parentId])
    BY <1>1, <2>2, PositionsFit
  <2>6. /\ e.nodes[m].parentId = p /\ e.nodes[m].x = LeftOf(d, m) - LeftOf(d, p)
        /\ LeftOf(d, m) \in Int /\ LeftOf(d, p) \in Int
    BY <1>1, <2>2
  <2> HIDE DEF p, S
  <2>7. Positions(e)[m] = LeftOf(d, m)
    BY <2>3, <2>4, <2>5, <2>6
  <2> QED BY <2>1, <2>7 DEF S
<1> QED BY <1>2 DEF e

\* It keeps the box of every node that is no line and holds none.
LEMMA NormalizedBoxes ==
  ASSUME NEW d \in Documents, Linked(d), NEW n \in NodeIds(d),
         Descendants(NormalizeGroups(d))[n] \cap Lines = {}
  PROVE  Boxes(NormalizeGroups(d))[n] = Boxes(d)[n]
<1> DEFINE e == NormalizeGroups(d)
           S == {m \in NodeIds(d) : /\ Descendants(e)[m] \cap Lines = {}
                                    /\ Boxes(e)[m] # Boxes(d)[m]}
<1>1. /\ e \in Documents /\ Linked(e) /\ NodeIds(e) = NodeIds(d)
      /\ \A m \in NodeIds(d) :
           /\ e.nodes[m].childIds = d.nodes[m].childIds
           /\ e.nodes[m].width = IF Hugging(d, m) \/ m \in Lines THEN Boxes(d)[m].width
                                 ELSE d.nodes[m].width
  BY GroupsNormalized
<1>2. \A m \in NodeIds(d) : Positions(e)[m] = LeftOf(d, m)
  BY NormalizedPositions
<1> HIDE DEF e
<1>3. S = {}
  <2> SUFFICES ASSUME S # {} PROVE FALSE
    OBVIOUS
  <2>1. PICK m \in S : Children(d, m) \cap S = {}
    <3>1. S \in SUBSET NodeIds(d)
      OBVIOUS
    <3> HIDE DEF S
    <3> QED BY <3>1, Ends
  <2>2. /\ m \in NodeIds(d) /\ m # Null /\ Children(d, m) \subseteq NodeIds(d)
        /\ Children(e, m) = Children(d, m)
    BY <1>1, <2>1, NodeFields DEF Children
  <2>3. m \notin Lines /\ \A c \in Children(d, m) : Descendants(e)[c] \cap Lines = {}
    <3>1. \A k : k \in Descendants(e)[m] <=>
                   k = m \/ \E c \in Children(e, m) : k \in Descendants(e)[c]
      BY <1>1, <2>2, DescendantsFit
    <3> QED BY <2>1, <2>2, <3>1
  <2>4. \A c \in Children(d, m) : Boxes(e)[c] = Boxes(d)[c]
    BY <2>1, <2>2, <2>3
  <2>5. {Boxes(e)[c] : c \in Children(e, m)} = {Boxes(d)[c] : c \in Children(d, m)}
    BY <2>2, <2>4
  <2>6. /\ Boxes(e)[m] = BoxOf(e, Boxes(e), m) /\ Boxes(d)[m] = BoxOf(d, Boxes(d), m)
        /\ e.nodes[m].childIds = d.nodes[m].childIds
    BY <1>1, <2>2, BoxesFit
  <2>7. CASE Hugging(d, m)
    BY <2>3, <2>5, <2>6, <2>7 DEF Hugging, BoxOf
  <2>8. CASE ~Hugging(d, m)
    <3>1. Positions(e)[m] = Positions(d)[m] /\ e.nodes[m].width = d.nodes[m].width
      BY <1>1, <1>2, <2>2, <2>3, <2>8 DEF LeftOf
    <3>2. Boxes(e)[m] = [x |-> Positions(e)[m], width |-> e.nodes[m].width]
      BY <2>3, <2>6, <2>8 DEF Hugging, BoxOf
    <3>3. Boxes(d)[m] = [x |-> Positions(d)[m], width |-> d.nodes[m].width]
      BY <2>3, <2>6, <2>8 DEF Hugging, BoxOf
    <3>4. Boxes(e)[m] = Boxes(d)[m]
      BY <3>1, <3>2, <3>3
    <3> QED BY <2>1, <3>4
  <2>9. Boxes(e)[m] # Boxes(d)[m]
    BY <2>1
  <2> QED BY <2>7, <2>8, <2>9
<1> QED BY <1>3 DEF e

\* After normalizeGroups every group without lines is the hull of its children.
LEMMA NormalizedGroupsHug ==
  ASSUME NEW d \in Documents, Linked(d) PROVE Hugs(NormalizeGroups(d))
<1> DEFINE e == NormalizeGroups(d)
<1>1. /\ e \in Documents /\ Linked(e) /\ NodeIds(e) = NodeIds(d)
      /\ \A m \in NodeIds(d) :
           /\ e.nodes[m].childIds = d.nodes[m].childIds
           /\ e.nodes[m].width = IF Hugging(d, m) \/ m \in Lines THEN Boxes(d)[m].width
                                 ELSE d.nodes[m].width
  BY GroupsNormalized
<1> SUFFICES ASSUME NEW g \in NodeIds(d) \cap Groups, Descendants(e)[g] \cap Lines = {}
             PROVE  Boxes(e)[g] = [x |-> Positions(e)[g], width |-> e.nodes[g].width]
  BY <1>1 DEF Hugs
<1>2. g # Null /\ g \notin Lines
  BY NodeFields, KindsAreDisjoint DEF Containers
<1>3. CASE Hugging(d, g)
  <2>1. Boxes(e)[g] = Boxes(d)[g] /\ Boxes(d)[g] \in Box
    BY NormalizedBoxes, BoxesFit
  <2>2. Positions(e)[g] = Boxes(d)[g].x
    BY <1>2, <1>3, NormalizedPositions DEF LeftOf
  <2>3. e.nodes[g].width = Boxes(d)[g].width
    BY <1>1, <1>3
  <2> HIDE DEF e
  <2> QED BY <2>1, <2>2, <2>3 DEF Box
<1>4. CASE ~Hugging(d, g)
  <2>1. Boxes(e)[g] = BoxOf(e, Boxes(e), g) /\ e.nodes[g].childIds = <<>>
    BY <1>1, <1>4, BoxesFit DEF Hugging
  <2> HIDE DEF e
  <2> QED BY <1>2, <2>1 DEF BoxOf
<1> QED BY <1>3, <1>4

-----------------------------------------------------------------------------
(* One list, one node.                                                     *)

WellFormed(d) == d \in Documents /\ Linked(d) /\ Placed(d) /\ Hugs(d)

\* New zIndices keep what is right, and are right.
LEMMA ZIndicesFit ==
  ASSUME NEW d \in Documents, Linked(d), Hugs(d) PROVE WellFormed(NormalizeZIndices(d))
<1> DEFINE e == NormalizeZIndices(d)
<1>1. /\ e \in Documents /\ Linked(e) /\ Placed(e) /\ NodeIds(e) = NodeIds(d)
      /\ \A n \in NodeIds(d) :
           /\ e.nodes[n].parentId = d.nodes[n].parentId /\ e.nodes[n].x = d.nodes[n].x
           /\ e.nodes[n].width = d.nodes[n].width /\ e.nodes[n].x2 = d.nodes[n].x2
  BY ZIndicesNormalized
<1> HIDE DEF e
<1>2. Hugs(e)
  BY <1>1, SameHugs
<1> QED BY <1>1, <1>2 DEF WellFormed, e

\* What commands do at their end makes a document well-formed whose links are right.
LEMMA NormalizedFits ==
  ASSUME NEW d \in Documents, Linked(d) PROVE WellFormed(Normalized(d))
<1> DEFINE e == NormalizeGroups(d)
<1>1. e \in Documents /\ Linked(e) /\ Hugs(e)
  BY GroupsNormalized, NormalizedGroupsHug
<1> HIDE DEF e
<1>2. WellFormed(NormalizeZIndices(e))
  BY <1>1, ZIndicesFit
<1> QED BY <1>2 DEF Normalized, e

\* It keeps the links, and the place of whatever is painted.
LEMMA NormalizedKeeps ==
  ASSUME NEW d \in Documents, Linked(d)
  PROVE  LET e == Normalized(d) IN
         /\ e \in Documents /\ Linked(e) /\ Placed(e)
         /\ NodeIds(e) = NodeIds(d) /\ e.rootNodeIds = d.rootNodeIds
         /\ \A n \in NodeIds(d) :
              /\ e.nodes[n].parentId = d.nodes[n].parentId
              /\ e.nodes[n].childIds = d.nodes[n].childIds
              /\ e.nodes[n].locked = d.nodes[n].locked
              /\ Positions(e)[n] = LeftOf(d, n)
              /\ n \notin Groups \cup Lines => Boxes(e)[n] = Boxes(d)[n]
              /\ Descendants(d)[n] \cap Lines = {} => Boxes(e)[n] = Boxes(d)[n]
<1> DEFINE e == NormalizeGroups(d)
           z == NormalizeZIndices(e)
<1>1. /\ e \in Documents /\ Linked(e) /\ NodeIds(e) = NodeIds(d) /\ e.rootNodeIds = d.rootNodeIds
      /\ \A n \in NodeIds(d) :
           /\ e.nodes[n].parentId = d.nodes[n].parentId
           /\ e.nodes[n].childIds = d.nodes[n].childIds
           /\ e.nodes[n].locked = d.nodes[n].locked
           /\ e.nodes[n].width = IF Hugging(d, n) \/ n \in Lines THEN Boxes(d)[n].width
                                 ELSE d.nodes[n].width
  BY GroupsNormalized
<1>2. \A n \in NodeIds(d) : Positions(e)[n] = LeftOf(d, n)
  BY NormalizedPositions
<1>3. \A n \in NodeIds(d) : Descendants(e)[n] = Descendants(d)[n]
  <2> HIDE DEF e
  <2> QED BY <1>1, SameDescendants
<1>4. \A n \in NodeIds(d) : Descendants(d)[n] \cap Lines = {} => Boxes(e)[n] = Boxes(d)[n]
  BY <1>3, NormalizedBoxes
<1> HIDE DEF e
<1>5. ASSUME NEW n \in NodeIds(d), n \notin Groups \cup Lines PROVE Boxes(e)[n] = Boxes(d)[n]
  <2>1. /\ Boxes(d)[n] = [x |-> Positions(d)[n], width |-> d.nodes[n].width]
        /\ Boxes(e)[n] = [x |-> Positions(e)[n], width |-> e.nodes[n].width]
    BY <1>1, <1>5, PlainBox
  <2>2. Positions(e)[n] = Positions(d)[n] /\ e.nodes[n].width = d.nodes[n].width
    BY <1>1, <1>2, <1>5, NodeFields DEF LeftOf, Hugging
  <2> QED BY <2>1, <2>2
<1>6. /\ z \in Documents /\ Linked(z) /\ Placed(z) /\ NodeIds(z) = NodeIds(e)
      /\ z.rootNodeIds = e.rootNodeIds
      /\ \A n \in NodeIds(e) :
           /\ z.nodes[n].parentId = e.nodes[n].parentId /\ z.nodes[n].childIds = e.nodes[n].childIds
           /\ z.nodes[n].x2 = e.nodes[n].x2 /\ z.nodes[n].x = e.nodes[n].x
           /\ z.nodes[n].width = e.nodes[n].width /\ z.nodes[n].locked = e.nodes[n].locked
  BY <1>1, ZIndicesNormalized
<1> HIDE DEF z
<1>7. \A n \in NodeIds(d) : Positions(z)[n] = Positions(e)[n] /\ Boxes(z)[n] = Boxes(e)[n]
  BY <1>1, <1>6, SameGeometry
<1>8. z = Normalized(d)
  BY DEF z, e, Normalized
<1> QED BY <1>1, <1>2, <1>4, <1>5, <1>6, <1>7, <1>8

\* What is painted in both documents is where it was.
KeepsPlaces(d, e) ==
  \A n \in (NodeIds(d) \cap NodeIds(e)) \ (Groups \cup Lines) : Boxes(e)[n] = Boxes(d)[n]

\* It is when the x of its ancestors add up to what they did.
LEMMA PlacesKept ==
  ASSUME NEW d \in Documents, Linked(d), NEW e \in Documents, Linked(e), NEW f, AddsUp(e, f),
         \A n \in (NodeIds(d) \cap NodeIds(e)) \ (Groups \cup Lines) :
           f[n] = Positions(d)[n] /\ e.nodes[n].width = d.nodes[n].width
  PROVE  KeepsPlaces(d, Normalized(e))
<1> SUFFICES ASSUME NEW n \in (NodeIds(d) \cap NodeIds(e)) \ (Groups \cup Lines)
             PROVE  Boxes(Normalized(e))[n] = Boxes(d)[n]
  BY NormalizedKeeps DEF KeepsPlaces
<1>1. Boxes(Normalized(e))[n] = Boxes(e)[n]
  BY NormalizedKeeps
<1>2. Positions(e)[n] = f[n]
  BY PositionsAre
<1>3. /\ Boxes(d)[n] = [x |-> Positions(d)[n], width |-> d.nodes[n].width]
      /\ Boxes(e)[n] = [x |-> Positions(e)[n], width |-> e.nodes[n].width]
  BY PlainBox
<1> QED BY <1>1, <1>2, <1>3

\* The lists of a document.
LEMMA SiblingsFit ==
  ASSUME NEW d \in Documents, Linked(d), NEW p \in NodeIds(d) \cup {Null}
  PROVE  /\ SiblingIds(d, p) \in Seq(PageIds) /\ IsInjective(SiblingIds(d, p))
         /\ ToSet(SiblingIds(d, p)) = {n \in NodeIds(d) : d.nodes[n].parentId = p}
<1>1. SiblingIds(d, p) \in Seq(PageIds)
  BY DocumentFields, NodeFields DEF SiblingIds
<1> QED BY <1>1 DEF Linked, ListsAreOfChildren

\* What another list of children, or another node, makes of a document.
HasSiblings(d, p, ids, e) ==
  /\ e \in Documents /\ NodeIds(e) = NodeIds(d) /\ SiblingIds(e, p) = ids
  /\ \A q \in NodeIds(d) \cup {Null} : q # p => SiblingIds(e, q) = SiblingIds(d, q)
  /\ \A n \in NodeIds(d) :
       /\ e.nodes[n].parentId = d.nodes[n].parentId /\ e.nodes[n].x = d.nodes[n].x
       /\ e.nodes[n].width = d.nodes[n].width /\ e.nodes[n].x2 = d.nodes[n].x2

LEMMA WithSiblingsFits ==
  ASSUME NEW d \in Documents, NEW p \in NodeIds(d) \cup {Null}, NEW ids \in Seq(PageIds)
  PROVE  HasSiblings(d, p, ids, WithSiblings(d, p, ids))
<1>1. /\ d.rootNodeIds \in Seq(PageIds) /\ NodeIds(d) \in SUBSET PageIds
      /\ d.nodes \in [NodeIds(d) -> Node] /\ Null \notin NodeIds(d)
      /\ d = [rootNodeIds |-> d.rootNodeIds, nodes |-> d.nodes]
  BY DocumentFields, NullIsNoId
<1>2. CASE p = Null
  <2> DEFINE e == [rootNodeIds |-> ids, nodes |-> d.nodes]
  <2>1. /\ e \in Documents /\ NodeIds(e) = NodeIds(d) /\ [d EXCEPT !.rootNodeIds = ids] = e
    <3>1. e \in Documents /\ NodeIds(e) = NodeIds(d)
      BY <1>1, Assembled
    <3> QED BY <3>1, Replaced
  <2>2. e.rootNodeIds = ids /\ e.nodes = d.nodes
    OBVIOUS
  <2> HIDE DEF e
  <2>3. WithSiblings(d, p, ids) = e
    BY <1>2, <2>1 DEF WithSiblings
  <2> QED BY <1>1, <1>2, <2>1, <2>2, <2>3 DEF SiblingIds, HasSiblings
<1>3. CASE p # Null
  <2> DEFINE o == [d.nodes[p] EXCEPT !.childIds = ids]
             F == [d.nodes EXCEPT ![p] = o]
             e == [rootNodeIds |-> d.rootNodeIds, nodes |-> F]
  <2>1. p \in NodeIds(d) /\ d.nodes[p] \in Node
    BY <1>1, <1>3
  <2>2. /\ o \in Node /\ o.childIds = ids /\ o.parentId = d.nodes[p].parentId
        /\ o.x = d.nodes[p].x /\ o.width = d.nodes[p].width /\ o.x2 = d.nodes[p].x2
    BY <2>1 DEF Node
  <2> HIDE DEF o
  <2>3. F \in [NodeIds(d) -> Node] /\ F[p] = o /\ \A n \in NodeIds(d) : n # p => F[n] = d.nodes[n]
    BY <1>1, <2>1, <2>2
  <2> HIDE DEF F
  <2>4. /\ e \in Documents /\ NodeIds(e) = NodeIds(d) /\ [d EXCEPT !.nodes = F] = e
    <3>1. e \in Documents /\ NodeIds(e) = NodeIds(d)
      BY <1>1, <2>3, Assembled
    <3> QED BY <3>1, Replaced
  <2>5. e.rootNodeIds = d.rootNodeIds /\ e.nodes = F
    OBVIOUS
  <2> HIDE DEF e
  <2>6. WithSiblings(d, p, ids) = [d EXCEPT !.nodes = F]
    <3>1. WithSiblings(d, p, ids) = [d EXCEPT !.nodes[p].childIds = ids]
      BY <1>3 DEF WithSiblings
    <3> QED BY <1>1, <3>1 DEF F, o
  <2>7. WithSiblings(d, p, ids) = e
    BY <2>4, <2>6
  <2>8. SiblingIds(e, p) = ids
    BY <1>3, <2>2, <2>3, <2>5 DEF SiblingIds
  <2>9. \A q \in NodeIds(d) \cup {Null} : q # p => SiblingIds(e, q) = SiblingIds(d, q)
    BY <2>3, <2>5 DEF SiblingIds
  <2>10. ASSUME NEW n \in NodeIds(d)
         PROVE  /\ e.nodes[n].parentId = d.nodes[n].parentId /\ e.nodes[n].x = d.nodes[n].x
                /\ e.nodes[n].width = d.nodes[n].width /\ e.nodes[n].x2 = d.nodes[n].x2
    BY <2>2, <2>3, <2>5
  <2> QED BY <2>4, <2>7, <2>8, <2>9, <2>10 DEF HasSiblings
<1> QED BY <1>2, <1>3

\* A node that is put into a document is in no list yet.
LEMMA WithNodeFits ==
  ASSUME NEW d \in Documents, NEW n \in PageIds, NEW node \in Node
  PROVE  LET e == WithNode(d, n, node) IN
         /\ e \in Documents /\ NodeIds(e) = NodeIds(d) \cup {n}
         /\ e.rootNodeIds = d.rootNodeIds /\ e.nodes[n] = node
         /\ \A m \in NodeIds(d) : m # n => e.nodes[m] = d.nodes[m]
<1> DEFINE I == NodeIds(d) \cup {n}
           F == [m \in I |-> IF m = n THEN node ELSE d.nodes[m]]
           e == [rootNodeIds |-> d.rootNodeIds, nodes |-> F]
<1>1. /\ d.rootNodeIds \in Seq(PageIds) /\ I \in SUBSET PageIds
      /\ d.nodes \in [NodeIds(d) -> Node]
  BY DocumentFields
<1>2. F \in [I -> Node] /\ F[n] = node /\ \A m \in NodeIds(d) : m # n => F[m] = d.nodes[m]
  BY <1>1
<1>3. WithNode(d, n, node) = [d EXCEPT !.nodes = F]
  BY DEF WithNode
<1> HIDE DEF F, I
<1>4. /\ e \in Documents /\ NodeIds(e) = I /\ [d EXCEPT !.nodes = F] = e
  BY <1>1, <1>2, Assembled, Replaced
<1> QED BY <1>2, <1>3, <1>4 DEF I

\* Links stay right when the parents stay and the lists are of the children.
LEMMA SameParents ==
  ASSUME NEW d \in Documents, Linked(d), NEW e \in Documents, NodeIds(e) = NodeIds(d),
         \A n \in NodeIds(d) : e.nodes[n].parentId = d.nodes[n].parentId,
         NEW p \in NodeIds(d) \cup {Null}, IsInjective(SiblingIds(e, p)),
         ToSet(SiblingIds(e, p)) = ToSet(SiblingIds(d, p)),
         \A q \in NodeIds(d) \cup {Null} : q # p => SiblingIds(e, q) = SiblingIds(d, q)
  PROVE  Linked(e)
<1>1. ParentsAreThere(e)
  BY DEF Linked, ParentsAreThere
<1>2. ListsAreOfChildren(e)
  <2> SUFFICES ASSUME NEW q \in NodeIds(d) \cup {Null}
               PROVE  /\ IsInjective(SiblingIds(e, q))
                      /\ ToSet(SiblingIds(e, q)) = {n \in NodeIds(d) : e.nodes[n].parentId = q}
    BY DEF ListsAreOfChildren
  <2>1. {n \in NodeIds(d) : e.nodes[n].parentId = q} = {n \in NodeIds(d) : d.nodes[n].parentId = q}
    OBVIOUS
  <2>2. /\ IsInjective(SiblingIds(d, q))
        /\ ToSet(SiblingIds(d, q)) = {n \in NodeIds(d) : d.nodes[n].parentId = q}
    BY SiblingsFit
  <2>3. IsInjective(SiblingIds(e, q)) /\ ToSet(SiblingIds(e, q)) = ToSet(SiblingIds(d, q))
    BY <2>2
  <2> QED BY <2>1, <2>2, <2>3
<1>3. NoCircles(e)
  <2> SUFFICES ASSUME NEW S \in SUBSET NodeIds(d), S # {}
               PROVE  /\ \E n \in S : e.nodes[n].parentId \notin S
                      /\ \E n \in S : \A c \in S : e.nodes[c].parentId # n
    BY DEF NoCircles
  <2>1. PICK n \in S : d.nodes[n].parentId \notin S
    BY DEF Linked, NoCircles
  <2>2. PICK m \in S : \A c \in S : d.nodes[c].parentId # m
    BY DEF Linked, NoCircles
  <2>3. e.nodes[n].parentId \notin S
    BY <2>1
  <2>4. \A c \in S : e.nodes[c].parentId # m
    BY <2>2
  <2> QED BY <2>3, <2>4
<1> QED BY <1>1, <1>2, <1>3 DEF Linked

-----------------------------------------------------------------------------
(* The commands.                                                           *)

\* A created node is the last of the children of its container.
LEMMA CreatedFits ==
  ASSUME NEW d \in Documents, Linked(d), NEW n, NEW p \in NodeIds(d) \cup {Null},
         CanCreate(d, n, p), NEW at \in Int, NEW width \in Nat \ {0}
  PROVE  WellFormed(Created(d, n, p, at, width)) /\ KeepsPlaces(d, Created(d, n, p, at, width))
<1> DEFINE x == at - ParentPosition(d, p)
           node == IF n \in Lines THEN NewNode(p, x, width, x + width) ELSE NewNode(p, x, width, 0)
           a == WithNode(d, n, node)
           ids == Append(SiblingIds(d, p), n)
           e == WithSiblings(a, p, ids)
           Ids == NodeIds(d)
<1>1. n \in PageIds /\ n \notin Ids /\ n # Null /\ n # p /\ (p # Null => p \in Containers)
  BY NullIsNoId DEF CanCreate, CanMutateParent
<1>2. /\ node \in Node /\ node.parentId = p /\ node.childIds = <<>>
      /\ node.x = at - ParentPosition(d, p)
  <2>1. x \in Int
    BY PositionsFit DEF ParentPosition
  <2>2. p \in PageIds \cup {Null} /\ <<>> \in Seq(PageIds)
    BY DocumentFields
  <2>3. node \in Node /\ node.parentId = p /\ node.childIds = <<>> /\ node.x = x
    <3> HIDE DEF x
    <3> QED BY <2>1, <2>2 DEF Node, NewNode
  <2> QED BY <2>3
<1> HIDE DEF node
<1>3. /\ a \in Documents /\ NodeIds(a) = Ids \cup {n} /\ a.rootNodeIds = d.rootNodeIds
      /\ a.nodes[n] = node /\ \A m \in Ids : a.nodes[m] = d.nodes[m]
  BY <1>1, <1>2, WithNodeFits
<1> HIDE DEF a
<1>4. /\ SiblingIds(d, p) \in Seq(PageIds) /\ IsInjective(SiblingIds(d, p))
      /\ ToSet(SiblingIds(d, p)) = {m \in Ids : d.nodes[m].parentId = p}
  BY SiblingsFit
<1>5. /\ ids \in Seq(PageIds) /\ IsInjective(ids)
      /\ ToSet(ids) = {m \in Ids : d.nodes[m].parentId = p} \cup {n}
  BY <1>1, <1>4, AppendFits
<1>6. /\ e \in Documents /\ NodeIds(e) = Ids \cup {n} /\ SiblingIds(e, p) = ids
      /\ \A q \in Ids \cup {n, Null} : q # p => SiblingIds(e, q) = SiblingIds(a, q)
      /\ e.nodes[n].parentId = p /\ \A m \in Ids : e.nodes[m].parentId = d.nodes[m].parentId
      /\ e.nodes[n].x = at - ParentPosition(d, p)
      /\ \A m \in Ids : e.nodes[m].x = d.nodes[m].x /\ e.nodes[m].width = d.nodes[m].width
  <2>1. p \in NodeIds(a) \cup {Null}
    BY <1>3
  <2> HIDE DEF ids, Ids
  <2>2. /\ e \in Documents /\ NodeIds(e) = NodeIds(a) /\ SiblingIds(e, p) = ids
        /\ \A q \in NodeIds(a) \cup {Null} : q # p => SiblingIds(e, q) = SiblingIds(a, q)
        /\ \A m \in NodeIds(a) :
             /\ e.nodes[m].parentId = a.nodes[m].parentId /\ e.nodes[m].x = a.nodes[m].x
             /\ e.nodes[m].width = a.nodes[m].width
    <3>1. HasSiblings(a, p, ids, e)
      BY <1>3, <1>5, <2>1, WithSiblingsFits
    <3> HIDE DEF e
    <3> QED BY <3>1 DEF HasSiblings
  <2> HIDE DEF e
  <2> QED BY <1>2, <1>3, <2>2
<1> HIDE DEF e, ids
<1>7. /\ SiblingIds(a, n) = <<>> /\ \A q \in Ids \cup {Null} : SiblingIds(a, q) = SiblingIds(d, q)
  BY <1>1, <1>2, <1>3 DEF SiblingIds
<1>8. \A m \in Ids : d.nodes[m].parentId \in (Ids \cap Containers) \cup {Null}
  BY DEF Linked, ParentsAreThere
<1>9. ParentsAreThere(e)
  BY <1>1, <1>6, <1>8 DEF ParentsAreThere
<1>10. ListsAreOfChildren(e)
  <2> SUFFICES ASSUME NEW q \in Ids \cup {n, Null}
               PROVE  /\ IsInjective(SiblingIds(e, q))
                      /\ ToSet(SiblingIds(e, q)) = {m \in Ids \cup {n} : e.nodes[m].parentId = q}
    BY <1>6 DEF ListsAreOfChildren
  <2>1. CASE q = p
    BY <1>1, <1>5, <1>6, <2>1
  <2>2. CASE q = n
    <3>1. SiblingIds(e, q) = <<>>
      BY <1>1, <1>6, <1>7, <2>2
    <3>2. IsInjective(<<>>) /\ ToSet(<<>>) = {}
      BY DEF IsInjective, ToSet
    <3>3. \A m \in Ids \cup {n} : e.nodes[m].parentId # n
      BY <1>1, <1>6, <1>8
    <3> QED BY <2>2, <3>1, <3>2, <3>3
  <2>3. CASE q # p /\ q # n
    <3>1. SiblingIds(e, q) = SiblingIds(d, q) /\ q \in Ids \cup {Null}
      BY <1>6, <1>7, <2>3
    <3>2. /\ IsInjective(SiblingIds(d, q))
          /\ ToSet(SiblingIds(d, q)) = {m \in Ids : d.nodes[m].parentId = q}
      BY <3>1, SiblingsFit
    <3>3. {m \in Ids \cup {n} : e.nodes[m].parentId = q} = {m \in Ids : d.nodes[m].parentId = q}
      BY <1>6, <2>3
    <3> QED BY <3>1, <3>2, <3>3
  <2> QED BY <2>1, <2>2, <2>3
<1>11. NoCircles(e)
  <2> SUFFICES ASSUME NEW S \in SUBSET (Ids \cup {n}), S # {}
               PROVE  /\ \E m \in S : e.nodes[m].parentId \notin S
                      /\ \E m \in S : \A c \in S : e.nodes[c].parentId # m
    BY <1>6 DEF NoCircles
  <2> DEFINE T == S \ {n}
  <2>1. n \in S => \A c \in S : e.nodes[c].parentId # n
    BY <1>1, <1>6, <1>8
  <2>2. CASE T = {}
    <3>1. n \in S /\ e.nodes[n].parentId \notin S
      BY <1>1, <1>6, <2>2
    <3> QED BY <2>1, <3>1
  <2>3. CASE T # {}
    <3>1. T \in SUBSET Ids
      OBVIOUS
    <3> HIDE DEF T
    <3>2. PICK m \in T : d.nodes[m].parentId \notin T
      BY <2>3, <3>1 DEF Linked, NoCircles
    <3>3. PICK k \in T : \A c \in T : d.nodes[c].parentId # k
      BY <2>3, <3>1 DEF Linked, NoCircles
    <3>4. m \in Ids /\ m \in S /\ e.nodes[m].parentId \notin S
      BY <1>1, <1>6, <1>8, <3>1, <3>2 DEF T
    <3>5. n \notin S => \A c \in S : e.nodes[c].parentId # k
      BY <1>6, <3>1, <3>3 DEF T
    <3>6. k \in S
      BY DEF T
    <3> QED BY <2>1, <3>4, <3>5, <3>6
  <2> QED BY <2>2, <2>3
<1>12. Linked(e)
  BY <1>9, <1>10, <1>11 DEF Linked
<1>13. Created(d, n, p, at, width) = Normalized(e)
  BY DEF Created, e, a, ids, node
<1> DEFINE f == [m \in Ids \cup {n} |-> IF m = n THEN at ELSE Positions(d)[m]]
<1>14. f[n] = at /\ \A m \in Ids : f[m] = Positions(d)[m] /\ Positions(d)[m] \in Int
  BY <1>1, PositionsFit
<1> HIDE DEF f
<1>15. AddsUp(e, f)
  <2> SUFFICES ASSUME NEW m \in Ids \cup {n}
               PROVE  f[m] = e.nodes[m].x + (IF e.nodes[m].parentId = Null THEN 0
                                             ELSE f[e.nodes[m].parentId])
    BY <1>6 DEF AddsUp
  <2>1. CASE m = n
    BY <1>1, <1>6, <1>14, <2>1 DEF ParentPosition
  <2>2. CASE m # n
    <3>1. Positions(d)[m] = d.nodes[m].x + (IF d.nodes[m].parentId = Null THEN 0
                                            ELSE Positions(d)[d.nodes[m].parentId])
      BY <2>2, PositionsFit
    <3> QED BY <1>6, <1>8, <1>14, <2>2, <3>1
  <2> QED BY <2>1, <2>2
<1>16. KeepsPlaces(d, Normalized(e))
  BY <1>6, <1>12, <1>14, <1>15, PlacesKept
<1> QED BY <1>6, <1>12, <1>13, <1>16, NormalizedFits

\* What an update of places and sizes makes, before the normalization: the
\* links are as they were.
IsUpdate(d, updates, e) ==
  /\ e \in Documents /\ Linked(e) /\ NodeIds(e) = NodeIds(d) /\ e.rootNodeIds = d.rootNodeIds
  /\ \A n \in NodeIds(d) :
       /\ e.nodes[n].parentId = d.nodes[n].parentId /\ e.nodes[n].childIds = d.nodes[n].childIds
       /\ e.nodes[n].locked = d.nodes[n].locked
       /\ e.nodes[n].x = IF n \in DOMAIN updates THEN updates[n].x ELSE d.nodes[n].x
       /\ e.nodes[n].width = IF n \in DOMAIN updates THEN updates[n].width ELSE d.nodes[n].width
  /\ Updated(d, updates) = Normalized(e)

LEMMA UpdatesFit ==
  ASSUME NEW d \in Documents, Linked(d), NEW updates,
         \A n \in DOMAIN updates : /\ updates[n].x \in Int /\ updates[n].width \in Nat \ {0}
                                   /\ updates[n].x2 \in Int
  PROVE  \E e : IsUpdate(d, updates, e)
<1> DEFINE Ids == NodeIds(d)
           o(n) == [d.nodes[n] EXCEPT !.x = updates[n].x, !.width = updates[n].width,
                                      !.x2 = updates[n].x2]
           F == [n \in Ids |-> IF n \in DOMAIN updates THEN o(n) ELSE d.nodes[n]]
           e == [rootNodeIds |-> d.rootNodeIds, nodes |-> F]
<1>1. /\ d.rootNodeIds \in Seq(PageIds) /\ Ids \in SUBSET PageIds
      /\ \A n \in Ids : d.nodes[n] \in Node
  BY DocumentFields
<1> HIDE DEF Ids
<1>2. ASSUME NEW n \in Ids
      PROVE  /\ F[n] \in Node /\ F[n].parentId = d.nodes[n].parentId
             /\ F[n].childIds = d.nodes[n].childIds /\ F[n].locked = d.nodes[n].locked
             /\ F[n].x = IF n \in DOMAIN updates THEN updates[n].x ELSE d.nodes[n].x
             /\ F[n].width = IF n \in DOMAIN updates THEN updates[n].width ELSE d.nodes[n].width
  <2>1. F[n] = IF n \in DOMAIN updates THEN o(n) ELSE d.nodes[n]
    OBVIOUS
  <2> HIDE DEF F
  <2>2. CASE n \notin DOMAIN updates
    BY <1>1, <2>1, <2>2
  <2>3. CASE n \in DOMAIN updates
    <3>1. d.nodes[n] \in Node
      BY <1>1
    <3>2. /\ o(n) \in Node /\ o(n).parentId = d.nodes[n].parentId
          /\ o(n).childIds = d.nodes[n].childIds /\ o(n).locked = d.nodes[n].locked
          /\ o(n).x = updates[n].x /\ o(n).width = updates[n].width
      BY <2>3, <3>1 DEF Node
    <3> HIDE DEF o
    <3> QED BY <2>1, <2>3, <3>2
  <2> QED BY <2>2, <2>3
<1>3. F = [n \in Ids |-> F[n]]
  OBVIOUS
<1>4. Updated(d, updates) = Normalized([d EXCEPT !.nodes = F])
  BY DEF Updated, F, o, Ids
<1> HIDE DEF F
<1>5. F \in [Ids -> Node]
  BY <1>2, <1>3
<1>6. e \in Documents /\ NodeIds(e) = Ids
  BY <1>1, <1>5, Assembled
<1>7. [d EXCEPT !.nodes = F] = e /\ e.rootNodeIds = d.rootNodeIds /\ e.nodes = F
  BY Replaced
<1> HIDE DEF e
<1>8. Linked(e)
  BY <1>2, <1>6, <1>7, SameLinks DEF Ids
<1>9. IsUpdate(d, updates, e)
  BY <1>2, <1>4, <1>6, <1>7, <1>8 DEF IsUpdate, Ids
<1> QED BY <1>9

\* So what it makes is well-formed.
LEMMA UpdatedFits ==
  ASSUME NEW d \in Documents, Linked(d), NEW updates,
         \A n \in DOMAIN updates : /\ updates[n].x \in Int /\ updates[n].width \in Nat \ {0}
                                   /\ updates[n].x2 \in Int
  PROVE  WellFormed(Updated(d, updates))
<1>1. PICK e : IsUpdate(d, updates, e)
  BY UpdatesFit
<1> QED BY <1>1, NormalizedFits DEF IsUpdate

\* An update changes no parent, no lock and no place in a list.
LEMMA UpdatesKeepStructure ==
  ASSUME NEW d \in Documents, Linked(d), Placed(d), NEW updates,
         \A n \in DOMAIN updates : /\ updates[n].x \in Int /\ updates[n].width \in Nat \ {0}
                                   /\ updates[n].x2 \in Int
  PROVE  Structure(Updated(d, updates)) = Structure(d)
<1>1. PICK e : IsUpdate(d, updates, e)
  BY UpdatesFit
<1> DEFINE z == Normalized(e)
<1>2. /\ z \in Documents /\ Placed(z) /\ NodeIds(z) = NodeIds(d)
      /\ z.rootNodeIds = d.rootNodeIds
      /\ \A n \in NodeIds(d) :
           /\ z.nodes[n].parentId = d.nodes[n].parentId
           /\ z.nodes[n].childIds = d.nodes[n].childIds
           /\ z.nodes[n].locked = d.nodes[n].locked
  BY <1>1, NormalizedKeeps DEF IsUpdate
<1>3. z = Updated(d, updates)
  BY <1>1 DEF IsUpdate
<1> HIDE DEF z
<1>4. ASSUME NEW n \in NodeIds(d) PROVE z.nodes[n].zIndex = d.nodes[n].zIndex
  <2> DEFINE p == d.nodes[n].parentId
             s == SiblingIds(d, p)
  <2>1. p \in NodeIds(d) \cup {Null}
    BY NodeFields
  <2>2. n \in ToSet(s)
    BY <2>1, SiblingsFit
  <2>3. PICK i \in 1..Len(s) : s[i] = n
    BY <2>2 DEF ToSet
  <2>4. SiblingIds(z, p) = s
    BY <1>2, <2>1 DEF SiblingIds
  <2> HIDE DEF p, s
  <2>5. d.nodes[s[i]].zIndex = i - 1
    BY <2>1, <2>3 DEF Placed, s
  <2>6. z.nodes[s[i]].zIndex = i - 1
    BY <1>2, <2>1, <2>3, <2>4 DEF Placed
  <2> QED BY <2>3, <2>5, <2>6
<1> QED BY <1>2, <1>3, <1>4 DEF Structure


\* A lock is no link.
LEMMA LockToggledFits ==
  ASSUME NEW d \in Documents, Linked(d), NEW n \in NodeIds(d)
  PROVE  WellFormed(LockToggled(d, n)) /\ KeepsPlaces(d, LockToggled(d, n))
<1> DEFINE o == [d.nodes[n] EXCEPT !.locked = ~d.nodes[n].locked]
           F == [d.nodes EXCEPT ![n] = o]
           e == [rootNodeIds |-> d.rootNodeIds, nodes |-> F]
<1>1. /\ d.rootNodeIds \in Seq(PageIds) /\ NodeIds(d) \in SUBSET PageIds
      /\ d.nodes \in [NodeIds(d) -> Node]
      /\ d = [rootNodeIds |-> d.rootNodeIds, nodes |-> d.nodes]
  BY DocumentFields
<1>2. d.nodes[n] \in Node
  BY <1>1
<1>3. /\ o \in Node /\ o.parentId = d.nodes[n].parentId /\ o.childIds = d.nodes[n].childIds
      /\ o.x = d.nodes[n].x /\ o.width = d.nodes[n].width
  BY <1>2 DEF Node
<1>4. [d EXCEPT !.nodes[n].locked = ~@] = [d EXCEPT !.nodes = F]
  BY <1>1
<1> HIDE DEF o
<1>5. F \in [NodeIds(d) -> Node] /\ F[n] = o /\ \A m \in NodeIds(d) : m # n => F[m] = d.nodes[m]
  BY <1>1, <1>3
<1> HIDE DEF F
<1>6. e \in Documents /\ NodeIds(e) = NodeIds(d)
  BY <1>1, <1>5, Assembled
<1>7. [d EXCEPT !.nodes = F] = e /\ e.rootNodeIds = d.rootNodeIds /\ e.nodes = F
  BY Replaced
<1> HIDE DEF e
<1>8. Linked(e)
  <2>1. \A m \in NodeIds(d) : /\ e.nodes[m].parentId = d.nodes[m].parentId
                              /\ e.nodes[m].childIds = d.nodes[m].childIds
    BY <1>3, <1>5, <1>7
  <2> QED BY <1>6, <1>7, <2>1, SameLinks
<1>9. KeepsPlaces(d, Normalized(e))
  <2>1. \A m \in NodeIds(d) : /\ e.nodes[m].parentId = d.nodes[m].parentId
                              /\ e.nodes[m].x = d.nodes[m].x /\ e.nodes[m].width = d.nodes[m].width
    BY <1>3, <1>5, <1>7
  <2>2. AddsUp(e, Positions(d))
    BY <1>6, <2>1, PositionsFit DEF AddsUp
  <2> QED BY <1>6, <1>8, <2>1, <2>2, PlacesKept
<1> QED BY <1>4, <1>6, <1>7, <1>8, <1>9, NormalizedFits DEF LockToggled

\* A reorder permutes one list.
LEMMA ReorderedFits ==
  ASSUME NEW d \in Documents, Linked(d), Hugs(d), NEW n, NEW delta \in Int, CanReorder(d, n, delta)
  PROVE  WellFormed(Reordered(d, n, delta)) /\ KeepsPlaces(d, Reordered(d, n, delta))
<1> DEFINE p == d.nodes[n].parentId
           ids == SiblingIds(d, p)
           others == RemoveIds(ids, {n})
           i == PlaceOf(ids, n) + delta
           moved == InsertAt(others, i, n)
           e == WithSiblings(d, p, moved)
<1>1. n \in NodeIds(d) /\ n \in PageIds /\ i \in 1..Len(ids) /\ p \in NodeIds(d) \cup {Null}
  <2>1. n \in NodeIds(d) /\ i \in 1..Len(ids)
    BY DEF CanReorder
  <2> QED BY <2>1, NodeFields
<1>2. ids \in Seq(PageIds) /\ IsInjective(ids) /\ n \in ToSet(ids)
  BY <1>1, SiblingsFit
<1>3. Reordered(d, n, delta) = NormalizeZIndices(e)
  BY DEF Reordered
<1> HIDE DEF ids, p
<1>4. /\ others \in Seq(PageIds) /\ ToSet(others) = ToSet(ids) \ {n} /\ IsInjective(others)
      /\ Len(others) = Len(ids) - 1
  BY <1>2, RemoveIdsFits
<1> HIDE DEF others, i
<1>5. i \in 1..(Len(others) + 1) /\ n \notin ToSet(others)
  BY <1>1, <1>2, <1>4
<1>6. moved \in Seq(PageIds) /\ IsInjective(moved) /\ ToSet(moved) = ToSet(ids)
  <2>1. /\ moved \in Seq(PageIds) /\ IsInjective(moved)
        /\ ToSet(moved) = ToSet(others) \cup {n}
    BY <1>1, <1>4, <1>5, InsertFits
  <2> QED BY <1>2, <1>4, <2>1
<1> HIDE DEF moved
<1>7. /\ e \in Documents /\ NodeIds(e) = NodeIds(d) /\ SiblingIds(e, p) = moved
      /\ \A q \in NodeIds(d) \cup {Null} : q # p => SiblingIds(e, q) = SiblingIds(d, q)
      /\ \A m \in NodeIds(d) :
           /\ e.nodes[m].parentId = d.nodes[m].parentId /\ e.nodes[m].x = d.nodes[m].x
           /\ e.nodes[m].width = d.nodes[m].width /\ e.nodes[m].x2 = d.nodes[m].x2
  <2>1. HasSiblings(d, p, moved, e)
    BY <1>1, <1>6, WithSiblingsFits
  <2> HIDE DEF e
  <2> QED BY <2>1 DEF HasSiblings
<1> HIDE DEF e
<1>8. Linked(e)
  BY <1>1, <1>6, <1>7, SameParents DEF ids
<1>9. Hugs(e)
  BY <1>7, <1>8, SameHugs
<1>10. KeepsPlaces(d, NormalizeZIndices(e))
  <2> DEFINE z == NormalizeZIndices(e)
  <2>1. /\ z \in Documents /\ Linked(z) /\ NodeIds(z) = NodeIds(d)
        /\ \A m \in NodeIds(d) :
             /\ z.nodes[m].parentId = d.nodes[m].parentId /\ z.nodes[m].x = d.nodes[m].x
             /\ z.nodes[m].width = d.nodes[m].width /\ z.nodes[m].x2 = d.nodes[m].x2
    BY <1>7, <1>8, ZIndicesNormalized
  <2> HIDE DEF z
  <2>2. KeepsPlaces(d, z)
    BY <2>1, SameGeometry DEF KeepsPlaces
  <2> QED BY <2>2 DEF z
<1> QED BY <1>3, <1>7, <1>8, <1>9, <1>10, ZIndicesFit

\* With a node all below it is deleted, so that no parent is missing.
LEMMA DeletedFits ==
  ASSUME NEW d \in Documents, Linked(d), NEW S
  PROVE  WellFormed(Deleted(d, S)) /\ KeepsPlaces(d, Deleted(d, S))
<1> DEFINE Ids == NodeIds(d)
           gone == UNION {Descendants(d)[n] : n \in Deletable(d, S)}
           left == Ids \ gone
           root == RemoveIds(d.rootNodeIds, gone)
           kids(n) == RemoveIds(d.nodes[n].childIds, gone)
           F == [n \in left |-> [d.nodes[n] EXCEPT !.childIds = kids(n)]]
           e == [rootNodeIds |-> root, nodes |-> F]
<1>1. /\ d.rootNodeIds \in Seq(PageIds) /\ Ids \in SUBSET PageIds
      /\ \A n \in Ids : d.nodes[n] \in Node /\ d.nodes[n].childIds \in Seq(PageIds)
      /\ \A n \in Ids : n # Null
  BY DocumentFields, NodeFields
<1>2. \A n \in Ids : d.nodes[n].parentId \in gone => n \in gone
  <2> SUFFICES ASSUME NEW n \in Ids, d.nodes[n].parentId \in gone PROVE n \in gone
    OBVIOUS
  <2>1. PICK m \in Deletable(d, S) : d.nodes[n].parentId \in Descendants(d)[m]
    OBVIOUS
  <2>2. m \in Ids
    BY DEF Deletable
  <2>3. d.nodes[n].parentId \in Ids /\ Children(d, d.nodes[n].parentId) \subseteq Descendants(d)[m]
    BY <2>1, <2>2, DescendantsAreClosed
  <2>4. n \in Children(d, d.nodes[n].parentId)
    BY <2>3, NodeFields
  <2> QED BY <2>3, <2>4
<1>3. Deleted(d, S) = Normalized(e)
  BY DEF Deleted
<1> HIDE DEF gone, Ids
<1>4. /\ root \in Seq(PageIds) /\ ToSet(root) = ToSet(d.rootNodeIds) \ gone
      /\ IsInjective(d.rootNodeIds) => IsInjective(root)
  BY <1>1, RemoveIdsFits
<1>5. \A n \in Ids : /\ kids(n) \in Seq(PageIds)
                     /\ ToSet(kids(n)) = ToSet(d.nodes[n].childIds) \ gone
                     /\ IsInjective(d.nodes[n].childIds) => IsInjective(kids(n))
  BY <1>1, RemoveIdsFits
<1> HIDE DEF root, kids
<1>6. ASSUME NEW n \in left
      PROVE  /\ F[n] \in Node /\ F[n].parentId = d.nodes[n].parentId /\ F[n].childIds = kids(n)
             /\ F[n].x = d.nodes[n].x /\ F[n].width = d.nodes[n].width
  <2>1. F[n] = [d.nodes[n] EXCEPT !.childIds = kids(n)]
    OBVIOUS
  <2> HIDE DEF F
  <2>2. d.nodes[n] \in Node /\ kids(n) \in Seq(PageIds)
    BY <1>1, <1>5
  <2> QED BY <2>1, <2>2 DEF Node
<1>7. F = [n \in left |-> F[n]]
  OBVIOUS
<1> HIDE DEF F
<1>8. F \in [left -> Node] /\ left \in SUBSET PageIds
  BY <1>1, <1>6, <1>7
<1> HIDE DEF left
<1>9. e \in Documents /\ NodeIds(e) = left
  BY <1>4, <1>8, Assembled
<1>10. e.rootNodeIds = root /\ e.nodes = F
  OBVIOUS
<1> HIDE DEF e
<1>11. ASSUME NEW n \in left
       PROVE  d.nodes[n].parentId \in (left \cap Containers) \cup {Null}
  <2>1. n \in Ids /\ n \notin gone
    BY DEF left
  <2>2. d.nodes[n].parentId \in (Ids \cap Containers) \cup {Null}
    BY <2>1 DEF Linked, ParentsAreThere, Ids
  <2> QED BY <1>2, <2>1, <2>2 DEF left
<1>12. ParentsAreThere(e)
  BY <1>6, <1>9, <1>10, <1>11 DEF ParentsAreThere
<1>13. ListsAreOfChildren(e)
  <2> SUFFICES ASSUME NEW q \in left \cup {Null}
               PROVE  /\ IsInjective(SiblingIds(e, q))
                      /\ ToSet(SiblingIds(e, q)) = {m \in left : e.nodes[m].parentId = q}
    BY <1>9 DEF ListsAreOfChildren
  <2>1. /\ q \in Ids \cup {Null} /\ IsInjective(SiblingIds(d, q))
        /\ ToSet(SiblingIds(d, q)) = {m \in Ids : d.nodes[m].parentId = q}
    <3>1. q \in Ids \cup {Null}
      BY DEF left
    <3> QED BY <3>1, SiblingsFit DEF Ids
  <2>2. /\ IsInjective(SiblingIds(d, q)) => IsInjective(SiblingIds(e, q))
        /\ ToSet(SiblingIds(e, q)) = ToSet(SiblingIds(d, q)) \ gone
    <3>1. CASE q = Null
      BY <1>4, <1>10, <3>1 DEF SiblingIds
    <3>2. CASE q # Null
      <4>1. q \in left /\ q \in Ids
        BY <3>2 DEF left
      <4>2. SiblingIds(e, q) = kids(q) /\ SiblingIds(d, q) = d.nodes[q].childIds
        BY <1>6, <1>10, <3>2, <4>1 DEF SiblingIds
      <4> QED BY <1>5, <4>1, <4>2
    <3> QED BY <3>1, <3>2
  <2>3. {m \in left : e.nodes[m].parentId = q} = {m \in Ids : d.nodes[m].parentId = q} \ gone
    BY <1>6, <1>10 DEF left
  <2> QED BY <2>1, <2>2, <2>3
<1>14. NoCircles(e)
  <2> SUFFICES ASSUME NEW T \in SUBSET left, T # {}
               PROVE  /\ \E n \in T : e.nodes[n].parentId \notin T
                      /\ \E n \in T : \A c \in T : e.nodes[c].parentId # n
    BY <1>9 DEF NoCircles
  <2>1. T \in SUBSET NodeIds(d)
    BY DEF left, Ids
  <2>2. PICK n \in T : d.nodes[n].parentId \notin T
    BY <2>1 DEF Linked, NoCircles
  <2>3. PICK m \in T : \A c \in T : d.nodes[c].parentId # m
    BY <2>1 DEF Linked, NoCircles
  <2>4. \A c \in T : e.nodes[c].parentId = d.nodes[c].parentId
    BY <1>6, <1>10
  <2>5. e.nodes[n].parentId \notin T
    BY <2>2, <2>4
  <2>6. \A c \in T : e.nodes[c].parentId # m
    BY <2>3, <2>4
  <2> QED BY <2>5, <2>6
<1>15. Linked(e)
  BY <1>12, <1>13, <1>14 DEF Linked
<1>16. KeepsPlaces(d, Normalized(e))
  <2>1. \A n \in left : n \in NodeIds(d)
    BY DEF left, Ids
  <2>2. AddsUp(e, Positions(d))
    BY <1>6, <1>9, <1>10, <2>1, PositionsFit DEF AddsUp
  <2> QED BY <1>6, <1>9, <1>10, <1>15, <2>2, PlacesKept
<1> QED BY <1>3, <1>9, <1>15, <1>16, NormalizedFits

\* The nodes to be grouped, and the container they are in.
LEMMA GroupedNodes ==
  ASSUME NEW d \in Documents, Linked(d), NEW S, NEW g, CanGroup(d, S, g)
  PROVE  LET tops == TopLevel(d, S)
             p == d.nodes[CHOOSE n \in tops : TRUE].parentId
         IN /\ tops \in SUBSET NodeIds(d) /\ tops # {} /\ p \notin tops
            /\ g \in PageIds /\ g \in Groups /\ g \notin NodeIds(d) /\ g # Null /\ g # p
            /\ p \in (NodeIds(d) \cap Containers) \cup {Null}
            /\ \A n \in tops : d.nodes[n].parentId = p
<1> DEFINE tops == TopLevel(d, S)
           p == d.nodes[CHOOSE n \in tops : TRUE].parentId
<1>1. Cardinality(tops) >= 2 /\ tops \subseteq NodeIds(d) /\ g \in Groups \ NodeIds(d)
  BY DEF CanGroup
<1>2. PICK q \in NodeIds(d) \cup {Null} :
        (\A n \in tops : d.nodes[n].parentId = q) /\ CanMutateParent(d, q)
  BY DEF CanGroup
<1> HIDE DEF tops
<1>3. tops # {}
  <2>1. Cardinality({}) = 0
    BY FS_EmptySet
  <2> QED BY <1>1, <2>1
<1>4. (CHOOSE n \in tops : TRUE) \in tops
  BY <1>3
<1>5. p = q
  BY <1>2, <1>4
<1>6. p \notin tops
  <2>1. \A n \in tops : d.nodes[n].parentId # n
    BY <1>1, NodeFields
  <2> QED BY <1>2, <1>5, <2>1
<1>7. p \in (NodeIds(d) \cap Containers) \cup {Null}
  BY <1>2, <1>5 DEF CanMutateParent
<1>8. g \in PageIds /\ g # Null
  BY <1>1, NullIsNoId DEF PageIds
<1> QED BY <1>1, <1>2, <1>3, <1>5, <1>6, <1>7, <1>8 DEF tops

\* Where the group goes among its siblings.
LEMMA GroupPlace ==
  ASSUME NEW ids \in Seq(PageIds), NEW tops, ToSet(ids) \cap tops # {}, NEW k \in Nat
  PROVE  Min({Max({i \in 1..Len(ids) : ids[i] \in tops}), k + 1}) \in 1..(k + 1)
<1> DEFINE J == {i \in 1..Len(ids) : ids[i] \in tops}
           m == [j \in J |-> -j]
<1>1. Len(ids) \in Nat /\ J \in SUBSET (1..Len(ids)) /\ J # {}
  BY DEF ToSet
<1> HIDE DEF J
<1>2. m \in [J -> Int] /\ \A j \in J : m[j] = -j
  BY <1>1
<1> HIDE DEF m
<1>3. PICK i \in J : \A j \in J : m[i] <= m[j]
  BY <1>1, <1>2, LeastOfSome
<1>4. i \in J /\ \A j \in J : i >= j
  <2> SUFFICES ASSUME NEW j \in J PROVE i >= j
    BY <1>3
  <2>1. m[i] <= m[j] /\ m[i] = -i /\ m[j] = -j /\ i \in Int /\ j \in Int
    BY <1>1, <1>2, <1>3
  <2> QED BY <2>1
<1>5. Max(J) \in J
  BY <1>4 DEF Max
<1>6. Max(J) \in 1..Len(ids)
  BY <1>1, <1>5
<1> DEFINE a == Max(J)
<1> HIDE DEF a
<1>7. a \in Nat \ {0}
  BY <1>1, <1>6 DEF a
<1>8. \E x \in {a, k + 1} : \A y \in {a, k + 1} : x <= y
  BY <1>7
<1>9. Min({a, k + 1}) \in {a, k + 1} /\ \A y \in {a, k + 1} : Min({a, k + 1}) <= y
  BY <1>8 DEF Min
<1>10. Min({a, k + 1}) \in 1..(k + 1)
  BY <1>7, <1>9
<1> QED BY <1>10 DEF a, J

\* A new group takes the nodes it holds out of their list and its place in it;
\* no circle arises, because the container of the nodes is none of them.
LEMMA GroupedFits ==
  ASSUME NEW d \in Documents, Linked(d), NEW S, NEW g, CanGroup(d, S, g)
  PROVE  WellFormed(Grouped(d, S, g)) /\ KeepsPlaces(d, Grouped(d, S, g))
<1> DEFINE Ids == NodeIds(d)
           tops == TopLevel(d, S)
           p == d.nodes[CHOOSE n \in tops : TRUE].parentId
           siblings == SiblingIds(d, p)
           others == RemoveIds(siblings, tops)
           index == Max({i \in 1..Len(siblings) : siblings[i] \in tops})
           hull == Hull({Boxes(d)[n] : n \in tops})
           kids == RemoveIds(siblings, ToSet(siblings) \ tops)
           group == [NewNode(p, hull.x - ParentPosition(d, p), hull.width, 0)
                       EXCEPT !.childIds = kids]
           o(n) == [d.nodes[n] EXCEPT !.parentId = g, !.x = Positions(d)[n] - hull.x]
           F == [n \in Ids |-> IF n \in tops THEN o(n) ELSE d.nodes[n]]
           inside == [rootNodeIds |-> d.rootNodeIds, nodes |-> F]
           a == WithNode(inside, g, group)
           i == Min({index, Len(others) + 1})
           ids == InsertAt(others, i, g)
           e == WithSiblings(a, p, ids)
<1>1. /\ tops \in SUBSET Ids /\ tops # {} /\ p \notin tops
      /\ g \in PageIds /\ g \in Containers /\ g \notin Ids /\ g # Null /\ g # p
      /\ p \in (Ids \cap Containers) \cup {Null}
      /\ \A n \in tops : d.nodes[n].parentId = p
  BY GroupedNodes DEF Containers
<1>2. Grouped(d, S, g) = Normalized(e)
  <2>1. [d EXCEPT !.nodes = F] = inside
    BY Replaced
  <2> HIDE DEF inside
  <2> QED BY <2>1 DEF Grouped
<1> HIDE DEF tops, p
<1>3. /\ siblings \in Seq(PageIds) /\ IsInjective(siblings)
      /\ ToSet(siblings) = {m \in Ids : d.nodes[m].parentId = p}
  BY <1>1, SiblingsFit
<1> HIDE DEF siblings
<1>4. tops \subseteq ToSet(siblings)
  BY <1>1, <1>3
<1>5. hull \in Box
  <2> DEFINE J == {j \in 1..Len(siblings) : siblings[j] \in tops}
             b == [j \in J |-> Boxes(d)[siblings[j]]]
             vs == {Boxes(d)[n] : n \in tops}
  <2>1. Len(siblings) \in Nat /\ J \in SUBSET (1..Len(siblings)) /\ tops = {siblings[j] : j \in J}
    BY <1>3, <1>4 DEF ToSet
  <2> HIDE DEF J
  <2>2. J # {}
    BY <1>1, <2>1
  <2>3. b \in [J -> Box]
    BY <1>1, <2>1, BoxesFit
  <2>4. \A v : v \in vs <=> \E j \in J : v = b[j]
    BY <2>1
  <2> HIDE DEF b, vs
  <2>5. Hull(vs) \in Box
    BY <2>1, <2>2, <2>3, <2>4, HullFits
  <2> QED BY <2>5 DEF vs
<1> HIDE DEF hull
<1>6. /\ kids \in Seq(PageIds) /\ ToSet(kids) = tops /\ IsInjective(kids)
  <2>1. ToSet(siblings) \ (ToSet(siblings) \ tops) = tops
    BY <1>4
  <2> QED BY <1>3, <2>1, RemoveIdsFits
<1>7. /\ others \in Seq(PageIds) /\ ToSet(others) = ToSet(siblings) \ tops /\ IsInjective(others)
  BY <1>3, RemoveIdsFits
<1>8. i \in 1..(Len(others) + 1)
  <2>1. Len(others) \in Nat /\ ToSet(siblings) \cap tops # {}
    BY <1>1, <1>4, <1>7
  <2> HIDE DEF others
  <2> QED BY <1>3, <2>1, GroupPlace
<1> HIDE DEF kids, others, i, index
<1>9. /\ ids \in Seq(PageIds) /\ IsInjective(ids)
      /\ ToSet(ids) = ({m \in Ids : d.nodes[m].parentId = p} \ tops) \cup {g}
  <2>1. g \notin ToSet(others)
    BY <1>1, <1>3, <1>7
  <2>2. /\ ids \in Seq(PageIds) /\ IsInjective(ids) /\ ToSet(ids) = ToSet(others) \cup {g}
    BY <1>1, <1>7, <1>8, <2>1, InsertFits
  <2> QED BY <1>3, <1>7, <2>2
<1> HIDE DEF ids
<1>10. /\ d.rootNodeIds \in Seq(PageIds) /\ Ids \in SUBSET PageIds
       /\ \A n \in Ids : d.nodes[n] \in Node /\ Positions(d)[n] \in Int
  BY DocumentFields, PositionsFit
<1>11. /\ group \in Node /\ group.parentId = p /\ group.childIds = kids
       /\ group.x = hull.x - ParentPosition(d, p)
  <2> DEFINE x == hull.x - ParentPosition(d, p)
  <2>1. x \in Int
    <3>1. ParentPosition(d, p) \in Int
      BY <1>1, <1>10 DEF ParentPosition
    <3> QED BY <1>5, <3>1 DEF Box
  <2>2. p \in PageIds \cup {Null} /\ hull.width \in Nat \ {0}
    BY <1>1, <1>5, <1>10 DEF Box
  <2> HIDE DEF x
  <2>3. group = [NewNode(p, x, hull.width, 0) EXCEPT !.childIds = kids]
    BY DEF x
  <2> HIDE DEF group
  <2>4. group = [parentId |-> p, childIds |-> kids, x |-> x, width |-> hull.width, x2 |-> 0,
                 locked |-> FALSE, zIndex |-> 0]
    BY <2>3 DEF NewNode
  <2>5. 0 \in Int /\ 0 \in Nat /\ FALSE \in BOOLEAN
    OBVIOUS
  <2> QED BY <1>6, <2>1, <2>2, <2>4, <2>5 DEF Node, x
<1> HIDE DEF group, Ids
<1>12. ASSUME NEW n \in Ids
       PROVE  /\ F[n] \in Node /\ F[n].childIds = d.nodes[n].childIds
              /\ F[n].parentId = IF n \in tops THEN g ELSE d.nodes[n].parentId
              /\ F[n].x = IF n \in tops THEN Positions(d)[n] - hull.x ELSE d.nodes[n].x
              /\ F[n].width = d.nodes[n].width
  <2>1. F[n] = IF n \in tops THEN o(n) ELSE d.nodes[n]
    OBVIOUS
  <2>2. d.nodes[n] \in Node /\ hull.x \in Int /\ Positions(d)[n] \in Int
    BY <1>5, <1>10 DEF Box
  <2> HIDE DEF F
  <2>3. /\ o(n) \in Node /\ o(n).childIds = d.nodes[n].childIds /\ o(n).parentId = g
        /\ o(n).x = Positions(d)[n] - hull.x /\ o(n).width = d.nodes[n].width
    <3> DEFINE x == Positions(d)[n] - hull.x
    <3>1. x \in Int /\ g \in PageIds \cup {Null}
      BY <1>1, <2>2
    <3> HIDE DEF x
    <3>2. o(n) = [d.nodes[n] EXCEPT !.parentId = g, !.x = x]
      BY DEF x
    <3> HIDE DEF o
    <3>3. /\ o(n) \in Node /\ o(n).childIds = d.nodes[n].childIds /\ o(n).parentId = g
          /\ o(n).x = x /\ o(n).width = d.nodes[n].width
      BY <2>2, <3>1, <3>2 DEF Node
    <3> QED BY <3>3 DEF x
  <2> HIDE DEF o
  <2> QED BY <2>1, <2>2, <2>3
<1>13. F = [n \in Ids |-> F[n]]
  OBVIOUS
<1> HIDE DEF F
<1>14. F \in [Ids -> Node]
  BY <1>12, <1>13
<1>15. inside \in Documents /\ NodeIds(inside) = Ids
  BY <1>10, <1>14, Assembled
<1>16. inside.rootNodeIds = d.rootNodeIds /\ inside.nodes = F
  OBVIOUS
<1> HIDE DEF inside
<1>17. /\ a \in Documents /\ NodeIds(a) = Ids \cup {g} /\ a.rootNodeIds = d.rootNodeIds
       /\ a.nodes[g] = group /\ \A m \in Ids : a.nodes[m] = F[m]
  BY <1>1, <1>11, <1>15, <1>16, WithNodeFits
<1> HIDE DEF a
<1>18. /\ e \in Documents /\ NodeIds(e) = Ids \cup {g} /\ SiblingIds(e, p) = ids
       /\ \A q \in Ids \cup {g, Null} : q # p => SiblingIds(e, q) = SiblingIds(a, q)
       /\ e.nodes[g].parentId = p
       /\ \A m \in Ids : e.nodes[m].parentId = IF m \in tops THEN g ELSE d.nodes[m].parentId
       /\ e.nodes[g].x = hull.x - ParentPosition(d, p)
       /\ \A m \in Ids :
            /\ e.nodes[m].x = IF m \in tops THEN Positions(d)[m] - hull.x ELSE d.nodes[m].x
            /\ e.nodes[m].width = d.nodes[m].width
  <2>1. p \in NodeIds(a) \cup {Null}
    BY <1>1, <1>17
  <2>2. /\ e \in Documents /\ NodeIds(e) = NodeIds(a) /\ SiblingIds(e, p) = ids
        /\ \A q \in NodeIds(a) \cup {Null} : q # p => SiblingIds(e, q) = SiblingIds(a, q)
        /\ \A m \in NodeIds(a) :
             /\ e.nodes[m].parentId = a.nodes[m].parentId /\ e.nodes[m].x = a.nodes[m].x
             /\ e.nodes[m].width = a.nodes[m].width
    <3>1. HasSiblings(a, p, ids, e)
      BY <1>9, <1>17, <2>1, WithSiblingsFits
    <3> HIDE DEF e
    <3> QED BY <3>1 DEF HasSiblings
  <2> HIDE DEF e
  <2> QED BY <1>11, <1>12, <1>17, <2>2
<1> HIDE DEF e
<1>19. /\ SiblingIds(a, g) = kids /\ \A q \in Ids \cup {Null} : SiblingIds(a, q) = SiblingIds(d, q)
  BY <1>1, <1>11, <1>12, <1>17 DEF SiblingIds
<1>20. \A m \in Ids : d.nodes[m].parentId \in (Ids \cap Containers) \cup {Null}
  BY DEF Linked, ParentsAreThere, Ids
<1>21. ParentsAreThere(e)
  BY <1>1, <1>18, <1>20 DEF ParentsAreThere
<1>22. ListsAreOfChildren(e)
  <2> SUFFICES ASSUME NEW q \in Ids \cup {g, Null}
               PROVE  /\ IsInjective(SiblingIds(e, q))
                      /\ ToSet(SiblingIds(e, q)) = {m \in Ids \cup {g} : e.nodes[m].parentId = q}
    BY <1>18 DEF ListsAreOfChildren
  <2>1. CASE q = p
    <3>1. {m \in Ids \cup {g} : e.nodes[m].parentId = p}
            = ({m \in Ids : d.nodes[m].parentId = p} \ tops) \cup {g}
      BY <1>1, <1>18
    <3> QED BY <1>9, <1>18, <2>1, <3>1
  <2>2. CASE q = g
    <3>1. SiblingIds(e, q) = kids
      BY <1>1, <1>18, <1>19, <2>2
    <3>2. {m \in Ids \cup {g} : e.nodes[m].parentId = g} = tops
      BY <1>1, <1>18, <1>20
    <3> QED BY <1>6, <2>2, <3>1, <3>2
  <2>3. CASE q # p /\ q # g
    <3>1. SiblingIds(e, q) = SiblingIds(d, q) /\ q \in Ids \cup {Null}
      BY <1>18, <1>19, <2>3
    <3>2. /\ IsInjective(SiblingIds(d, q))
          /\ ToSet(SiblingIds(d, q)) = {m \in Ids : d.nodes[m].parentId = q}
      BY <3>1, SiblingsFit DEF Ids
    <3>3. {m \in Ids \cup {g} : e.nodes[m].parentId = q} = {m \in Ids : d.nodes[m].parentId = q}
      BY <1>1, <1>18, <2>3
    <3> QED BY <3>1, <3>2, <3>3
  <2> QED BY <2>1, <2>2, <2>3
<1>23. NoCircles(e)
  <2> SUFFICES ASSUME NEW T \in SUBSET (Ids \cup {g}), T # {}
               PROVE  /\ \E n \in T : e.nodes[n].parentId \notin T
                      /\ \E n \in T : \A c \in T : e.nodes[c].parentId # n
    BY <1>18 DEF NoCircles
  <2> DEFINE U == T \ {g}
  <2>1. U \in SUBSET NodeIds(d) /\ U \in SUBSET Ids /\ \A n \in T : n = g \/ n \in U
    BY DEF Ids
  <2>2. CASE U = {}
    <3>1. T = {g}
      BY <2>1, <2>2
    <3>2. e.nodes[g].parentId \notin T /\ \A c \in T : e.nodes[c].parentId # g
      BY <1>1, <1>18, <3>1
    <3> QED BY <3>1, <3>2
  <2>3. CASE U # {}
    <3> HIDE DEF U
    <3>1. PICK n \in U : d.nodes[n].parentId \notin U
      BY <2>1, <2>3 DEF Linked, NoCircles
    <3>2. PICK k \in U : \A c \in U : d.nodes[c].parentId # k
      BY <2>1, <2>3 DEF Linked, NoCircles
    <3>3. \E m \in T : e.nodes[m].parentId \notin T
      <4>1. CASE g \in T /\ p \notin T
        BY <1>18, <4>1
      <4>2. CASE g \in T /\ p \in T
        <5>1. p \in U /\ n \notin tops
          BY <1>1, <2>1, <3>1, <4>2
        <5>2. e.nodes[n].parentId = d.nodes[n].parentId /\ d.nodes[n].parentId # g
          BY <1>1, <1>18, <1>20, <2>1, <5>1
        <5> QED BY <2>1, <3>1, <5>2 DEF U
      <4>3. CASE g \notin T
        <5>1. e.nodes[n].parentId \notin T
          BY <1>18, <2>1, <3>1, <4>3
        <5> QED BY <5>1 DEF U
      <4> QED BY <4>1, <4>2, <4>3
    <3>4. \E m \in T : \A c \in T : e.nodes[c].parentId # m
      <4>1. CASE g \in T /\ U \cap tops = {}
        <5>1. \A c \in T : e.nodes[c].parentId # g
          BY <1>1, <1>18, <1>20, <2>1, <4>1
        <5> QED BY <4>1, <5>1
      <4>2. CASE g \notin T \/ U \cap tops # {}
        <5>1. k \in Ids /\ k # g /\ k \in T
          BY <1>1, <2>1, <3>2 DEF U
        <5>2. U \cap tops # {} => k # p
          BY <1>1, <3>2
        <5>3. \A c \in T : e.nodes[c].parentId # k
          BY <1>18, <2>1, <3>2, <4>2, <5>1, <5>2
        <5> QED BY <5>1, <5>3
      <4> QED BY <4>1, <4>2
    <3> QED BY <3>3, <3>4
  <2> QED BY <2>2, <2>3
<1>24. Linked(e)
  BY <1>21, <1>22, <1>23 DEF Linked
<1> DEFINE f == [m \in Ids \cup {g} |-> IF m = g THEN hull.x ELSE Positions(d)[m]]
<1>25. f[g] = hull.x /\ \A m \in Ids : f[m] = Positions(d)[m] /\ Positions(d)[m] \in Int
  BY <1>1, <1>10
<1> HIDE DEF f
<1>26. AddsUp(e, f)
  <2> SUFFICES ASSUME NEW m \in Ids \cup {g}
               PROVE  f[m] = e.nodes[m].x + (IF e.nodes[m].parentId = Null THEN 0
                                             ELSE f[e.nodes[m].parentId])
    BY <1>18 DEF AddsUp
  <2>1. hull.x \in Int
    BY <1>5 DEF Box
  <2>2. CASE m = g
    BY <1>1, <1>18, <1>25, <2>1, <2>2 DEF ParentPosition
  <2>3. CASE m \in tops
    BY <1>1, <1>18, <1>25, <2>1, <2>3
  <2>4. CASE m # g /\ m \notin tops
    <3>1. Positions(d)[m] = d.nodes[m].x + (IF d.nodes[m].parentId = Null THEN 0
                                            ELSE Positions(d)[d.nodes[m].parentId])
      BY <2>4, PositionsFit DEF Ids
    <3> QED BY <1>18, <1>20, <1>25, <2>4, <3>1
  <2> QED BY <2>2, <2>3, <2>4
<1>27. KeepsPlaces(d, Normalized(e))
  <2>1. \A m \in NodeIds(d) : f[m] = Positions(d)[m] /\ e.nodes[m].width = d.nodes[m].width
    BY <1>18, <1>25 DEF Ids
  <2> QED BY <1>18, <1>24, <1>26, <2>1, PlacesKept
<1> QED BY <1>2, <1>18, <1>24, <1>27, NormalizedFits

\* An ungrouped group gives its place to its children: a circle without it would
\* be a circle with it.
LEMMA UngroupedFits ==
  ASSUME NEW d \in Documents, Linked(d), NEW g, CanUngroup(d, g)
  PROVE  WellFormed(Ungrouped(d, g)) /\ KeepsPlaces(d, Ungrouped(d, g))
<1> DEFINE Ids == NodeIds(d)
           left == Ids \ {g}
           p == d.nodes[g].parentId
           siblings == SiblingIds(d, p)
           promoted == d.nodes[g].childIds
           kids == ToSet(promoted)
           i == PlaceOf(siblings, g)
           ids == SubSeq(siblings, 1, i - 1) \o promoted
                    \o SubSeq(siblings, i + 1, Len(siblings))
           placed == WithSiblings(d, p, ids)
           o(n) == [placed.nodes[n] EXCEPT !.parentId = p,
                                           !.x = Positions(d)[n] - ParentPosition(d, p)]
           F == [n \in left |-> IF n \in kids THEN o(n) ELSE placed.nodes[n]]
           e == [rootNodeIds |-> placed.rootNodeIds, nodes |-> F]
<1>1. g \in Ids /\ g # Null
  BY NodeFields DEF CanUngroup
<1>2. /\ p \in (Ids \cap Containers) \cup {Null} /\ p # g /\ p \in Ids \cup {Null}
      /\ promoted \in Seq(PageIds) /\ IsInjective(promoted)
      /\ kids = {m \in Ids : d.nodes[m].parentId = g}
  <2>1. p \in (Ids \cap Containers) \cup {Null}
    BY <1>1 DEF Linked, ParentsAreThere
  <2> QED BY <1>1, <2>1, NodeFields DEF Children
<1>3. /\ siblings \in Seq(PageIds) /\ IsInjective(siblings)
      /\ ToSet(siblings) = {m \in Ids : d.nodes[m].parentId = p}
  BY <1>2, SiblingsFit
<1>4. /\ d.rootNodeIds \in Seq(PageIds) /\ Ids \in SUBSET PageIds
      /\ \A n \in Ids : d.nodes[n] \in Node /\ Positions(d)[n] \in Int
      /\ \A n \in Ids : d.nodes[n].parentId \in (Ids \cap Containers) \cup {Null}
  BY DocumentFields, PositionsFit DEF Linked, ParentsAreThere
<1>6. Ungrouped(d, g) = Normalized([placed EXCEPT !.nodes = F])
  BY DEF Ungrouped
<1>7. ids = Spliced(siblings, i, promoted, i + 1)
  BY DEF Spliced
<1> HIDE DEF siblings, promoted, p, ids
<1>8. i \in 1..Len(siblings) /\ siblings[i] = g
  <2>1. g \in ToSet(siblings)
    BY <1>1, <1>3 DEF p
  <2> QED BY <1>3, <2>1, PlaceFits
<1> HIDE DEF i
<1>9. /\ ids \in Seq(PageIds) /\ IsInjective(ids)
      /\ ToSet(ids) = ({m \in Ids : d.nodes[m].parentId = p} \ {g}) \cup kids
  <2>1. ToSet(siblings) \cap kids = {}
    BY <1>2, <1>3
  <2> QED BY <1>2, <1>3, <1>7, <1>8, <2>1, ReplaceFits
<1> HIDE DEF kids
<1>10. /\ placed \in Documents /\ NodeIds(placed) = Ids /\ SiblingIds(placed, p) = ids
       /\ \A q \in Ids \cup {Null} : q # p => SiblingIds(placed, q) = SiblingIds(d, q)
       /\ \A n \in Ids :
            /\ placed.nodes[n].parentId = d.nodes[n].parentId
            /\ placed.nodes[n].x = d.nodes[n].x /\ placed.nodes[n].width = d.nodes[n].width
  <2>1. HasSiblings(d, p, ids, placed)
    BY <1>2, <1>9, WithSiblingsFits
  <2> HIDE DEF placed
  <2> QED BY <2>1 DEF HasSiblings
<1> HIDE DEF placed
<1>11. /\ placed.rootNodeIds \in Seq(PageIds) /\ \A n \in Ids : placed.nodes[n] \in Node
  BY <1>10, DocumentFields
<1> HIDE DEF Ids
<1>12. ASSUME NEW n \in left
       PROVE  /\ F[n] \in Node /\ F[n].childIds = placed.nodes[n].childIds
              /\ F[n].parentId = IF n \in kids THEN p ELSE d.nodes[n].parentId
              /\ F[n].x = IF n \in kids THEN Positions(d)[n] - ParentPosition(d, p)
                          ELSE d.nodes[n].x
              /\ F[n].width = d.nodes[n].width
  <2>1. F[n] = IF n \in kids THEN o(n) ELSE placed.nodes[n]
    OBVIOUS
  <2>2. /\ n \in Ids /\ placed.nodes[n] \in Node /\ placed.nodes[n].parentId = d.nodes[n].parentId
        /\ placed.nodes[n].x = d.nodes[n].x /\ placed.nodes[n].width = d.nodes[n].width
    BY <1>10, <1>11
  <2> HIDE DEF F, left
  <2>3. /\ o(n) \in Node /\ o(n).childIds = placed.nodes[n].childIds /\ o(n).parentId = p
        /\ o(n).x = Positions(d)[n] - ParentPosition(d, p) /\ o(n).width = placed.nodes[n].width
    <3> DEFINE x == Positions(d)[n] - ParentPosition(d, p)
    <3>1. x \in Int /\ p \in PageIds \cup {Null}
      BY <1>2, <1>4, <2>2 DEF ParentPosition
    <3> HIDE DEF x
    <3>2. o(n) = [placed.nodes[n] EXCEPT !.parentId = p, !.x = x]
      BY DEF x
    <3> HIDE DEF o
    <3>3. /\ o(n) \in Node /\ o(n).childIds = placed.nodes[n].childIds /\ o(n).parentId = p
          /\ o(n).x = x /\ o(n).width = placed.nodes[n].width
      BY <2>2, <3>1, <3>2 DEF Node
    <3> QED BY <3>3 DEF x
  <2> HIDE DEF o
  <2> QED BY <2>1, <2>2, <2>3
<1>13. F = [n \in left |-> F[n]]
  OBVIOUS
<1> HIDE DEF F
<1>14. F \in [left -> Node] /\ left \in SUBSET PageIds
  BY <1>4, <1>12, <1>13
<1> HIDE DEF left
<1>15. e \in Documents /\ NodeIds(e) = left
  BY <1>11, <1>14, Assembled
<1>16. e.rootNodeIds = placed.rootNodeIds /\ e.nodes = F /\ [placed EXCEPT !.nodes = F] = e
  BY <1>10, Replaced
<1> HIDE DEF e
<1>17. \A q \in left \cup {Null} : SiblingIds(e, q) = SiblingIds(placed, q)
  BY <1>12, <1>16 DEF SiblingIds
<1>18. \A m \in left :
         /\ m \in Ids /\ m # g
         /\ e.nodes[m].parentId = IF m \in kids THEN p ELSE d.nodes[m].parentId
         /\ e.nodes[m].x = IF m \in kids THEN Positions(d)[m] - ParentPosition(d, p)
                           ELSE d.nodes[m].x
         /\ e.nodes[m].width = d.nodes[m].width
  <2> TAKE m \in left
  <2>1. m \in Ids /\ m # g
    BY DEF left
  <2> QED BY <1>12, <1>16, <2>1
<1>19. p \in (left \cap Containers) \cup {Null}
  BY <1>2 DEF left
<1>20. ParentsAreThere(e)
  <2> SUFFICES ASSUME NEW m \in left
               PROVE  e.nodes[m].parentId \in (left \cap Containers) \cup {Null}
    BY <1>15 DEF ParentsAreThere
  <2>1. CASE m \in kids
    BY <1>18, <1>19, <2>1
  <2>2. CASE m \notin kids
    <3>1. d.nodes[m].parentId # g
      BY <1>2, <1>18, <2>2
    <3> QED BY <1>4, <1>18, <2>2, <3>1 DEF left
  <2> QED BY <2>1, <2>2
<1>21. ListsAreOfChildren(e)
  <2> SUFFICES ASSUME NEW q \in left \cup {Null}
               PROVE  /\ IsInjective(SiblingIds(e, q))
                      /\ ToSet(SiblingIds(e, q)) = {m \in left : e.nodes[m].parentId = q}
    BY <1>15 DEF ListsAreOfChildren
  <2>1. q \in Ids \cup {Null} /\ q # g
    BY <1>1 DEF left
  <2>2. CASE q = p
    <3>1. SiblingIds(e, q) = ids
      BY <1>10, <1>17, <2>2
    <3>2. {m \in left : e.nodes[m].parentId = p}
            = ({m \in Ids : d.nodes[m].parentId = p} \ {g}) \cup kids
      <4>1. \A m \in kids : m \in left
        BY <1>2 DEF left, p
      <4>2. \A m \in left : e.nodes[m].parentId = p <=> m \in kids \/ d.nodes[m].parentId = p
        BY <1>18
      <4>3. \A m \in Ids : m \in left <=> m # g
        BY DEF left
      <4> QED BY <1>18, <4>1, <4>2, <4>3
    <3> QED BY <1>9, <2>2, <3>1, <3>2
  <2>3. CASE q # p
    <3>1. SiblingIds(e, q) = SiblingIds(d, q)
      BY <1>10, <1>17, <2>1, <2>3
    <3>2. /\ IsInjective(SiblingIds(d, q))
          /\ ToSet(SiblingIds(d, q)) = {m \in Ids : d.nodes[m].parentId = q}
      BY <2>1, SiblingsFit DEF Ids
    <3>3. {m \in left : e.nodes[m].parentId = q} = {m \in Ids : d.nodes[m].parentId = q}
      <4>1. \A m \in left : e.nodes[m].parentId = q <=> d.nodes[m].parentId = q
        BY <1>2, <1>18, <2>1, <2>3
      <4>2. \A m \in Ids : d.nodes[m].parentId = q => m \in left
        BY <2>3 DEF left, p
      <4> QED BY <1>18, <4>1, <4>2
    <3> QED BY <3>1, <3>2, <3>3
  <2> QED BY <2>2, <2>3
<1>22. NoCircles(e)
  <2> SUFFICES ASSUME NEW T \in SUBSET left, T # {}
               PROVE  /\ \E n \in T : e.nodes[n].parentId \notin T
                      /\ \E n \in T : \A c \in T : e.nodes[c].parentId # n
    BY <1>15 DEF NoCircles
  <2>1. CASE T \cap kids = {}
    <3>1. T \in SUBSET NodeIds(d) /\ \A m \in T : e.nodes[m].parentId = d.nodes[m].parentId
      BY <1>18, <2>1 DEF left, Ids
    <3>2. PICK n \in T : d.nodes[n].parentId \notin T
      BY <3>1 DEF Linked, NoCircles
    <3>3. PICK k \in T : \A c \in T : d.nodes[c].parentId # k
      BY <3>1 DEF Linked, NoCircles
    <3>4. e.nodes[n].parentId \notin T
      BY <3>1, <3>2
    <3>5. \A c \in T : e.nodes[c].parentId # k
      BY <3>1, <3>3
    <3> QED BY <3>4, <3>5
  <2>2. CASE T \cap kids # {}
    <3> DEFINE U == T \cup {g}
    <3>1. U \in SUBSET NodeIds(d) /\ U # {} /\ g \in U /\ g \notin T
      BY <1>1 DEF left, Ids
    <3>2. \A m \in U : m = g \/ m \in T
      OBVIOUS
    <3>3. T \subseteq U
      OBVIOUS
    <3> HIDE DEF U
    <3>4. PICK n \in U : d.nodes[n].parentId \notin U
      BY <3>1 DEF Linked, NoCircles
    <3>5. PICK k \in U : \A c \in U : d.nodes[c].parentId # k
      BY <3>1 DEF Linked, NoCircles
    <3>6. \E m \in T : e.nodes[m].parentId \notin T
      <4>1. CASE n = g
        <5>1. p \notin T
          BY <3>3, <3>4, <4>1 DEF p
        <5> QED BY <1>18, <2>2, <5>1
      <4>2. CASE n # g
        <5>1. n \in T /\ n \notin kids
          BY <1>2, <3>1, <3>2, <3>4, <4>2
        <5> QED BY <1>18, <3>3, <3>4, <5>1
      <4> QED BY <4>1, <4>2
    <3>7. \E m \in T : \A c \in T : e.nodes[c].parentId # m
      <4>1. k # g
        BY <1>2, <2>2, <3>3, <3>5
      <4>2. k \in T /\ k # p
        BY <3>1, <3>2, <3>5, <4>1 DEF p
      <4>3. \A c \in T : e.nodes[c].parentId # k
        BY <1>18, <3>3, <3>5, <4>2
      <4> QED BY <4>2, <4>3
    <3> QED BY <3>6, <3>7
  <2> QED BY <2>1, <2>2
<1>23. Linked(e)
  BY <1>20, <1>21, <1>22 DEF Linked
<1>24. AddsUp(e, Positions(d))
  <2> SUFFICES ASSUME NEW m \in left
               PROVE  Positions(d)[m] = e.nodes[m].x + (IF e.nodes[m].parentId = Null THEN 0
                                                   ELSE Positions(d)[e.nodes[m].parentId])
    BY <1>15 DEF AddsUp
  <2>1. CASE m \in kids
    <3>1. Positions(d)[m] \in Int /\ (p # Null => Positions(d)[p] \in Int)
      BY <1>2, <1>4, <1>18
    <3> QED BY <1>18, <2>1, <3>1 DEF ParentPosition
  <2>2. CASE m \notin kids
    <3>1. Positions(d)[m] = d.nodes[m].x + (IF d.nodes[m].parentId = Null THEN 0
                                            ELSE Positions(d)[d.nodes[m].parentId])
      BY <1>18, PositionsFit DEF Ids
    <3> QED BY <1>18, <2>2, <3>1
  <2> QED BY <2>1, <2>2
<1>25. KeepsPlaces(d, Normalized(e))
  BY <1>15, <1>18, <1>23, <1>24, PlacesKept
<1> QED BY <1>6, <1>15, <1>16, <1>23, <1>25, NormalizedFits

-----------------------------------------------------------------------------
(* The editor.                                                             *)

\* The updates of a drag, of a line's handles and of a resize are numbers.
LEMMA MoveUpdatesFit ==
  ASSUME NEW d \in Documents, Linked(d), NEW S, NEW delta \in Int
  PROVE  LET updates == MoveUpdates(d, S, delta) IN
         \A n \in DOMAIN updates : /\ updates[n].x \in Int /\ updates[n].width \in Nat \ {0}
                                   /\ updates[n].x2 \in Int
<1> DEFINE I == TopLevel(d, S) \cap NodeIds(d)
<1>1. \A n \in I : /\ d.nodes[n].x \in Int /\ d.nodes[n].width \in Nat \ {0}
                   /\ d.nodes[n].x2 \in Int
  BY NodeFields
<1> HIDE DEF I
<1>2. MoveUpdates(d, S, delta) =
        [n \in I |-> [x |-> d.nodes[n].x + delta, width |-> d.nodes[n].width,
                      x2 |-> IF n \in Lines THEN d.nodes[n].x2 + delta ELSE 0]]
  BY DEF MoveUpdates, I
<1> QED BY <1>1, <1>2

\* Those of a line.
LEMMA LineUpdatesFit ==
  ASSUME NEW d \in Documents, Linked(d), NEW n \in NodeIds(d), NEW start \in Int, NEW end \in Int
  PROVE  LET updates == LineUpdates(d, n, start, end) IN
         \A m \in DOMAIN updates : /\ updates[m].x \in Int /\ updates[m].width \in Nat \ {0}
                                   /\ updates[m].x2 \in Int
<1> DEFINE origin == ParentPosition(d, d.nodes[n].parentId)
           w == Larger(1, Larger(end - start, start - end))
<1>1. origin \in Int
  BY NodeFields, PositionsFit DEF ParentPosition
<1>2. w \in Nat \ {0}
  BY DEF Larger
<1>3. LineUpdates(d, n, start, end) =
        [m \in {n} |-> [x |-> start - origin, width |-> w, x2 |-> end - origin]]
  BY DEF LineUpdates
<1> HIDE DEF origin, w
<1> QED BY <1>1, <1>2, <1>3

\* A group is scaled by a positive factor.
LEMMA Quotient == \A k, w \in Nat \ {0} : (k * w) \div w \in Nat \ {0}
<1> TAKE k, w \in Nat \ {0}
<1> DEFINE q == (k * w) \div w
<1>1. k * w \in Nat /\ k * w >= w
  OBVIOUS
<1>2. q \in Int /\ w * q <= k * w /\ k * w < w * (q + 1)
  BY <1>1
<1> HIDE DEF q
<1>3. q > 0
  BY <1>1, <1>2
<1> QED BY <1>2, <1>3 DEF q

\* Those of a resize, through groups and frames.
LEMMA ResizeUpdatesFit ==
  ASSUME NEW d \in Documents, Linked(d), NEW n \in NodeIds(d) \ Lines, NEW left \in Int,
         NEW width \in Nat \ {0},
         n \in Groups => \E k \in 1..MaxScale : width = k * Boxes(d)[n].width
  PROVE  LET updates == ResizeUpdates(d, n, left, width) IN
         \A m \in DOMAIN updates : /\ updates[m].x \in Int /\ updates[m].width \in Nat \ {0}
                                   /\ updates[m].x2 \in Int
<1> DEFINE at == Positions(d)
           box == Boxes(d)
           scale == IF n \in Groups THEN width \div box[n].width ELSE 1
           Below == IF n \in Groups THEN Descendants(d)[n] \ {n} ELSE {}
           NewLeft(m) == left + (box[m].x - box[n].x) * scale
           NewEnd(m) == left + (at[m] - d.nodes[m].x + d.nodes[m].x2 - box[n].x) * scale
           ParentLeft(m) == NewLeft(d.nodes[m].parentId)
           Top == [x |-> left - ParentPosition(d, d.nodes[n].parentId), width |-> width, x2 |-> 0]
           Inner(m) == [x |-> NewLeft(m) - ParentLeft(m), width |-> box[m].width * scale,
                        x2 |-> IF m \in Lines THEN NewEnd(m) - ParentLeft(m) ELSE 0]
<1>1. ResizeUpdates(d, n, left, width) =
        [m \in Below \cup {n} |-> IF m = n THEN Top ELSE Inner(m)]
  BY DEF ResizeUpdates
<1>2. ParentPosition(d, d.nodes[n].parentId) \in Int
  BY NodeFields, PositionsFit DEF ParentPosition
<1>3. Top.x \in Int /\ Top.width \in Nat \ {0} /\ Top.x2 \in Int
  BY <1>2
<1>4. \A m \in NodeIds(d) : /\ at[m] \in Int /\ box[m].x \in Int /\ box[m].width \in Nat \ {0}
                            /\ d.nodes[m].x \in Int /\ d.nodes[m].x2 \in Int
  BY NodeFields, PositionsFit, BoxesFit DEF Box
<1>5. \A m \in Below : m \in NodeIds(d) /\ d.nodes[m].parentId \in NodeIds(d)
  BY DescendantsAreClosed
<1> HIDE DEF at, box, Below
<1>6. scale \in Nat \ {0}
  <2>1. CASE n \in Groups
    <3>1. PICK k \in 1..MaxScale : width = k * box[n].width
      BY <2>1 DEF box
    <3>2. k \in Nat \ {0} /\ box[n].width \in Nat \ {0}
      BY <1>4, <3>1, PageBounds
    <3> QED BY <2>1, <3>1, <3>2, Quotient
  <2>2. CASE n \notin Groups
    BY <2>2
  <2> QED BY <2>1, <2>2
<1> HIDE DEF scale
<1>7. \A m \in NodeIds(d) : NewLeft(m) \in Int /\ NewEnd(m) \in Int
  BY <1>4, <1>6
<1>8. \A m \in NodeIds(d) : box[m].width * scale \in Nat \ {0}
  BY <1>4, <1>6
<1> HIDE DEF NewLeft, NewEnd
<1>9. \A m \in Below : Inner(m).x \in Int /\ Inner(m).width \in Nat \ {0} /\ Inner(m).x2 \in Int
  BY <1>5, <1>7, <1>8
<1> HIDE DEF Inner, Top
<1> QED BY <1>1, <1>3, <1>9

-----------------------------------------------------------------------------
\* The inductive invariant.
PageInv == WellFormed(page) /\ commits \in 0..MaxCommits

\* The empty page is well-formed.
LEMMA PageInvInit == PageInit => PageInv
<1> SUFFICES ASSUME PageInit PROVE PageInv
  OBVIOUS
<1> DEFINE F == [n \in {} |-> 0]
<1>1. <<>> \in Seq(PageIds) /\ {} \in SUBSET PageIds /\ F \in [{} -> Node]
  OBVIOUS
<1>2. page = [rootNodeIds |-> <<>>, nodes |-> F]
  BY DEF PageInit
<1> HIDE DEF F
<1>3. page \in Documents /\ NodeIds(page) = {}
  BY <1>1, <1>2, Assembled
<1>4. SiblingIds(page, Null) = <<>>
  BY <1>2 DEF SiblingIds
<1>5. IsInjective(<<>>) /\ ToSet(<<>>) = {} /\ Len(<<>>) = 0
  BY DEF IsInjective, ToSet
<1>6. Linked(page)
  BY <1>3, <1>4, <1>5 DEF Linked, ParentsAreThere, ListsAreOfChildren, NoCircles
<1>7. Placed(page)
  BY <1>3, <1>4, <1>5 DEF Placed
<1>8. Hugs(page)
  BY <1>3 DEF Hugs
<1> QED BY <1>3, <1>6, <1>7, <1>8, PageBounds DEF PageInv, WellFormed, PageInit

\* A page that is a well-formed document.
LEMMA Unmoved ==
  ASSUME NEW d, WellFormed(d), page' = d, commits' \in 0..MaxCommits
  PROVE  PageInv'
BY DEF PageInv

\* Only what a command made is written.
LEMMA Committed ==
  ASSUME commits \in 0..MaxCommits, NEW d, WellFormed(d), CommitPage(d)
  PROVE  PageInv'
<1>1. page' = d /\ commits' \in 0..MaxCommits
  BY PageBounds DEF CommitPage
<1> QED BY <1>1, Unmoved

\* Every command keeps the page well-formed.
LEMMA PageInvStep == PageInv /\ [PageNext]_pageVars => PageInv'
<1> SUFFICES ASSUME PageInv, [PageNext]_pageVars PROVE PageInv'
  OBVIOUS
<1>1. page \in Documents /\ Linked(page) /\ Hugs(page) /\ commits \in 0..MaxCommits
  BY DEF PageInv, WellFormed
<1>2. ASSUME NEW n \in PageIds, NEW p \in NodeIds(page) \cup {Null}, NEW at \in 0..PageWidth - 1,
             CreateNode(n, p, at)
      PROVE  PageInv'
  <2>1. WellFormed(Created(page, n, p, at, 1))
    BY <1>1, <1>2, CreatedFits DEF CreateNode
  <2> QED BY <1>1, <1>2, <2>1, Committed DEF CreateNode
<1>3. ASSUME NEW S \in SUBSET NodeIds(page), NEW delta \in {-1, 1}, MoveNodes(S, delta)
      PROVE  PageInv'
  <2> DEFINE updates == MoveUpdates(page, S, delta)
  <2>1. \A n \in DOMAIN updates : /\ updates[n].x \in Int /\ updates[n].width \in Nat \ {0}
                                  /\ updates[n].x2 \in Int
    BY <1>1, MoveUpdatesFit
  <2>2. CommitPage(Updated(page, updates))
    BY <1>3 DEF MoveNodes
  <2> HIDE DEF updates
  <2>3. WellFormed(Updated(page, updates))
    BY <1>1, <2>1, UpdatedFits
  <2> QED BY <1>1, <2>2, <2>3, Committed
<1>4. ASSUME NEW n \in PageIds, NEW left \in 0..PageWidth, NEW width \in 1..PageWidth,
             ResizeNode(n, left, width)
      PROVE  PageInv'
  <2> DEFINE updates == ResizeUpdates(page, n, left, width)
  <2>1. \A m \in DOMAIN updates : /\ updates[m].x \in Int /\ updates[m].width \in Nat \ {0}
                                  /\ updates[m].x2 \in Int
    <3>1. /\ n \in NodeIds(page) \ Lines /\ left \in Int /\ width \in Nat \ {0}
          /\ n \in Groups => \E k \in 1..MaxScale : width = k * Boxes(page)[n].width
      BY <1>4 DEF ResizeNode
    <3> QED BY <1>1, <3>1, ResizeUpdatesFit
  <2>2. CommitPage(Updated(page, updates))
    BY <1>4 DEF ResizeNode
  <2> HIDE DEF updates
  <2>3. WellFormed(Updated(page, updates))
    BY <1>1, <2>1, UpdatedFits
  <2> QED BY <1>1, <2>2, <2>3, Committed
<1>5. ASSUME NEW n \in Lines, NEW start \in 0..PageWidth, NEW end \in 0..PageWidth,
             ResizeLine(n, start, end)
      PROVE  PageInv'
  <2> DEFINE updates == LineUpdates(page, n, start, end)
  <2>1. \A m \in DOMAIN updates : /\ updates[m].x \in Int /\ updates[m].width \in Nat \ {0}
                                  /\ updates[m].x2 \in Int
    <3>1. n \in NodeIds(page) /\ start \in Int /\ end \in Int
      BY <1>5 DEF ResizeLine
    <3> QED BY <1>1, <3>1, LineUpdatesFit
  <2>2. CommitPage(Updated(page, updates))
    BY <1>5 DEF ResizeLine
  <2> HIDE DEF updates
  <2>3. WellFormed(Updated(page, updates))
    BY <1>1, <2>1, UpdatedFits
  <2> QED BY <1>1, <2>2, <2>3, Committed
<1>6. ASSUME NEW n \in PageIds, ToggleLock(n) PROVE PageInv'
  <2>1. WellFormed(LockToggled(page, n))
    BY <1>1, <1>6, LockToggledFits DEF ToggleLock
  <2> QED BY <1>1, <1>6, <2>1, Committed DEF ToggleLock
<1>7. ASSUME NEW n \in PageIds, NEW delta \in {-1, 1}, ReorderNode(n, delta) PROVE PageInv'
  <2>1. WellFormed(Reordered(page, n, delta))
    BY <1>1, <1>7, ReorderedFits DEF ReorderNode
  <2> QED BY <1>1, <1>7, <2>1, Committed DEF ReorderNode
<1>8. ASSUME NEW S \in SUBSET NodeIds(page), DeleteNodes(S) PROVE PageInv'
  <2>1. WellFormed(Deleted(page, S))
    BY <1>1, DeletedFits
  <2> QED BY <1>1, <1>8, <2>1, Committed DEF DeleteNodes
<1>9. ASSUME NEW S \in SUBSET NodeIds(page), NEW g \in Groups, GroupNodes(S, g) PROVE PageInv'
  <2>1. WellFormed(Grouped(page, S, g))
    BY <1>1, <1>9, GroupedFits DEF GroupNodes
  <2> QED BY <1>1, <1>9, <2>1, Committed DEF GroupNodes
<1>10. ASSUME NEW g \in Groups, UngroupNode(g) PROVE PageInv'
  <2>1. WellFormed(Ungrouped(page, g))
    BY <1>1, <1>10, UngroupedFits DEF UngroupNode
  <2> QED BY <1>1, <1>10, <2>1, Committed DEF UngroupNode
<1>11. CASE UNCHANGED pageVars
  <2>1. page' = page /\ commits' = commits /\ WellFormed(page) /\ commits \in 0..MaxCommits
    BY <1>11 DEF pageVars, PageInv
  <2> QED BY <2>1, Unmoved
<1> QED BY <1>2, <1>3, <1>4, <1>5, <1>6, <1>7, <1>8, <1>9, <1>10, <1>11 DEF PageNext

\* A well-formed page is a tree.
LEMMA WellFormedTree == PageInv => TreeIsWellFormed
<1> SUFFICES ASSUME PageInv PROVE TreeIsWellFormed
  OBVIOUS
<1>1. page \in Documents /\ Linked(page) /\ Placed(page) /\ commits \in 0..MaxCommits
  BY DEF PageInv, WellFormed
<1>2. PageTypeOK
  <2>1. /\ page.rootNodeIds \in Seq(PageIds) /\ NodeIds(page) \in SUBSET PageIds
        /\ page.nodes \in [NodeIds(page) -> Node]
        /\ page = [rootNodeIds |-> page.rootNodeIds, nodes |-> page.nodes]
    BY <1>1, DocumentFields
  <2>2. DOMAIN page = {"rootNodeIds", "nodes"}
    BY <2>1
  <2>3. \A n \in NodeIds(page) : page.nodes[n] \in Node
    BY <2>1
  <2> QED BY <1>1, <2>1, <2>2, <2>3 DEF PageTypeOK
<1> QED BY <1>1, <1>2 DEF TreeIsWellFormed, Linked, ParentsAreThere, ListsAreOfChildren,
     NoCircles, Placed

\* Its groups hug.
LEMMA HuggingGroups == PageInv => GroupsHugTheirChildren
BY DEF PageInv, WellFormed, Hugs, GroupsHugTheirChildren

\* Commands that change more than places and sizes leave what is painted in place.
LEMMA StructureStep ==
  PageInv /\ [PageNext]_pageVars =>
    (Structure(page') # Structure(page) => KeepsPlaces(page, page'))
<1> SUFFICES ASSUME PageInv, [PageNext]_pageVars, Structure(page') # Structure(page)
             PROVE  KeepsPlaces(page, page')
  OBVIOUS
<1>1. /\ page \in Documents /\ Linked(page) /\ Placed(page) /\ Hugs(page)
  BY DEF PageInv, WellFormed
<1>2. ASSUME NEW n \in PageIds, NEW p \in NodeIds(page) \cup {Null}, NEW at \in 0..PageWidth - 1,
             CreateNode(n, p, at)
      PROVE  KeepsPlaces(page, page')
  <2>1. KeepsPlaces(page, Created(page, n, p, at, 1))
    BY <1>1, <1>2, CreatedFits DEF CreateNode
  <2> QED BY <1>2, <2>1 DEF CreateNode, CommitPage
<1>3. ASSUME NEW updates, CommitPage(Updated(page, updates)),
             \A n \in DOMAIN updates : /\ updates[n].x \in Int /\ updates[n].width \in Nat \ {0}
                                       /\ updates[n].x2 \in Int
      PROVE  FALSE
  <2>1. Structure(Updated(page, updates)) = Structure(page)
    BY <1>1, <1>3, UpdatesKeepStructure
  <2> QED BY <1>3, <2>1 DEF CommitPage
<1>4. ASSUME NEW S \in SUBSET NodeIds(page), NEW delta \in {-1, 1}, MoveNodes(S, delta)
      PROVE  FALSE
  <2> DEFINE updates == MoveUpdates(page, S, delta)
  <2>1. \A n \in DOMAIN updates : /\ updates[n].x \in Int /\ updates[n].width \in Nat \ {0}
                                  /\ updates[n].x2 \in Int
    BY <1>1, MoveUpdatesFit
  <2>2. CommitPage(Updated(page, updates))
    BY <1>4 DEF MoveNodes
  <2> HIDE DEF updates
  <2> QED BY <1>3, <2>1, <2>2
<1>5. ASSUME NEW n \in PageIds, NEW left \in 0..PageWidth, NEW width \in 1..PageWidth,
             ResizeNode(n, left, width)
      PROVE  FALSE
  <2> DEFINE updates == ResizeUpdates(page, n, left, width)
  <2>1. \A m \in DOMAIN updates : /\ updates[m].x \in Int /\ updates[m].width \in Nat \ {0}
                                  /\ updates[m].x2 \in Int
    <3>1. /\ n \in NodeIds(page) \ Lines /\ left \in Int /\ width \in Nat \ {0}
          /\ n \in Groups => \E k \in 1..MaxScale : width = k * Boxes(page)[n].width
      BY <1>5 DEF ResizeNode
    <3> QED BY <1>1, <3>1, ResizeUpdatesFit
  <2>2. CommitPage(Updated(page, updates))
    BY <1>5 DEF ResizeNode
  <2> HIDE DEF updates
  <2> QED BY <1>3, <2>1, <2>2
<1>6. ASSUME NEW n \in Lines, NEW start \in 0..PageWidth, NEW end \in 0..PageWidth,
             ResizeLine(n, start, end)
      PROVE  FALSE
  <2> DEFINE updates == LineUpdates(page, n, start, end)
  <2>1. \A m \in DOMAIN updates : /\ updates[m].x \in Int /\ updates[m].width \in Nat \ {0}
                                  /\ updates[m].x2 \in Int
    <3>1. n \in NodeIds(page) /\ start \in Int /\ end \in Int
      BY <1>6 DEF ResizeLine
    <3> QED BY <1>1, <3>1, LineUpdatesFit
  <2>2. CommitPage(Updated(page, updates))
    BY <1>6 DEF ResizeLine
  <2> HIDE DEF updates
  <2> QED BY <1>3, <2>1, <2>2
<1>7. ASSUME NEW n \in PageIds, ToggleLock(n) PROVE KeepsPlaces(page, page')
  <2>1. KeepsPlaces(page, LockToggled(page, n))
    BY <1>1, <1>7, LockToggledFits DEF ToggleLock
  <2> QED BY <1>7, <2>1 DEF ToggleLock, CommitPage
<1>8. ASSUME NEW n \in PageIds, NEW delta \in {-1, 1}, ReorderNode(n, delta)
      PROVE  KeepsPlaces(page, page')
  <2>1. KeepsPlaces(page, Reordered(page, n, delta))
    BY <1>1, <1>8, ReorderedFits DEF ReorderNode
  <2> QED BY <1>8, <2>1 DEF ReorderNode, CommitPage
<1>9. ASSUME NEW S \in SUBSET NodeIds(page), DeleteNodes(S) PROVE KeepsPlaces(page, page')
  <2>1. KeepsPlaces(page, Deleted(page, S))
    BY <1>1, DeletedFits
  <2> QED BY <1>9, <2>1 DEF DeleteNodes, CommitPage
<1>10. ASSUME NEW S \in SUBSET NodeIds(page), NEW g \in Groups, GroupNodes(S, g)
       PROVE  KeepsPlaces(page, page')
  <2>1. KeepsPlaces(page, Grouped(page, S, g))
    BY <1>1, <1>10, GroupedFits DEF GroupNodes
  <2> QED BY <1>10, <2>1 DEF GroupNodes, CommitPage
<1>11. ASSUME NEW g \in Groups, UngroupNode(g) PROVE KeepsPlaces(page, page')
  <2>1. KeepsPlaces(page, Ungrouped(page, g))
    BY <1>1, <1>11, UngroupedFits DEF UngroupNode
  <2> QED BY <1>11, <2>1 DEF UngroupNode, CommitPage
<1>12. ~UNCHANGED pageVars
  BY DEF pageVars
<1> QED BY <1>2, <1>4, <1>5, <1>6, <1>7, <1>8, <1>9, <1>10, <1>11, <1>12 DEF PageNext

-----------------------------------------------------------------------------
(* Gestures.                                                               *)

\* The nodes above a node: its parent and those above that.
LEMMA AncestorsFit ==
  ASSUME NEW d \in Documents, Linked(d), NEW n \in NodeIds(d)
  PROVE  Ancestors(d)[n] = IF d.nodes[n].parentId = Null THEN {}
                           ELSE {d.nodes[n].parentId} \cup Ancestors(d)[d.nodes[n].parentId]
<1> DEFINE Ids == NodeIds(d)
           P(k) == d.nodes[k].parentId
           below == [k \in Ids |-> {P(k)} \ {Null}]
           Step(k, vs) == IF P(k) = Null THEN {} ELSE {P(k)} \cup UNION vs
           step == [k \in Ids |-> [vs \in SUBSET SUBSET Ids |-> Step(k, vs)]]
           Gathers(f) == f = [k \in Ids |-> IF P(k) = Null THEN {} ELSE {P(k)} \cup f[P(k)]]
<1>1. \A S \in SUBSET Ids : S # {} => \E k \in S : P(k) \notin S
  BY Ends
<1>2. \A k \in Ids : P(k) \in Ids \cup {Null} /\ k # Null
  BY NodeFields
<1> HIDE DEF Ids, P
<1>3. below \in [Ids -> SUBSET Ids] /\ \A k \in Ids : below[k] = {P(k)} \ {Null}
  BY <1>2
<1>4. \A k \in Ids, vs \in SUBSET SUBSET Ids : Step(k, vs) \in SUBSET Ids
  BY <1>2
<1>5. /\ step \in [Ids -> [SUBSET SUBSET Ids -> SUBSET Ids]]
      /\ \A k \in Ids, vs \in SUBSET SUBSET Ids : step[k][vs] = Step(k, vs)
  <2> HIDE DEF Step
  <2> QED BY <1>4
<1> HIDE DEF below, step
<1>6. PICK f : IsSolution(Ids, SUBSET Ids, below, step, f)
  <2>1. \A S \in SUBSET Ids : S # {} => \E k \in S : below[k] \cap S = {}
    BY <1>1, <1>3
  <2>2. IsRecursion(Ids, SUBSET Ids, below, step)
    BY <1>3, <1>5, <2>1 DEF IsRecursion
  <2> QED BY <2>2, RecursionEnds
<1>7. ASSUME NEW k \in Ids
      PROVE  f[k] = IF P(k) = Null THEN {} ELSE {P(k)} \cup f[P(k)]
  <2>1. PICK vs \in SUBSET SUBSET Ids :
          f[k] = step[k][vs] /\ \A v : v \in vs <=> \E c \in below[k] : v = f[c]
    BY <1>6 DEF IsSolution
  <2>2. f[k] = IF P(k) = Null THEN {} ELSE {P(k)} \cup UNION vs
    BY <1>5, <2>1
  <2>3. P(k) # Null => vs = {f[P(k)]}
    BY <1>3, <2>1
  <2> QED BY <2>2, <2>3
<1>8. Gathers(f)
  <2>1. f = [k \in Ids |-> f[k]]
    BY <1>6 DEF IsSolution
  <2>2. \A k \in Ids : f[k] = IF P(k) = Null THEN {} ELSE {P(k)} \cup f[P(k)]
    BY <1>7
  <2> QED BY <2>1, <2>2
<1>9. Gathers(Ancestors(d))
  BY <1>8 DEF Ancestors, P, Ids
<1>10. n \in Ids
  BY DEF Ids
<1>11. Ancestors(d)[n] = IF P(n) = Null THEN {} ELSE {P(n)} \cup Ancestors(d)[P(n)]
  BY <1>9, <1>10
<1> QED BY <1>11 DEF P

\* A drag takes along what is selected or in something that is.
Carried(d, S, n) == (Ancestors(d)[n] \cup {n}) \cap S # {}

\* What is taken along is in one that is, but for the topmost.
LEMMA CarriedFits ==
  ASSUME NEW d \in Documents, Linked(d), NEW S \in SUBSET NodeIds(d), NEW n \in NodeIds(d)
  PROVE  LET p == d.nodes[n].parentId IN
         /\ n \in TopLevel(d, S) => Carried(d, S, n) /\ (p # Null => ~Carried(d, S, p))
         /\ n \notin TopLevel(d, S) => (Carried(d, S, n) <=> p # Null /\ Carried(d, S, p))
<1> DEFINE p == d.nodes[n].parentId
           A == Ancestors(d)[n]
<1>1. A = IF p = Null THEN {} ELSE {p} \cup Ancestors(d)[p]
  BY AncestorsFit
<1>2. n \in TopLevel(d, S) <=> n \in S /\ A \cap S = {}
  BY DEF TopLevel
<1> HIDE DEF p, A
<1>3. Carried(d, S, n) <=> n \in S \/ A \cap S # {}
  BY DEF Carried, A
<1>4. p # Null => (Carried(d, S, p) <=> A \cap S # {})
  BY <1>1 DEF Carried
<1>5. p = Null => A = {}
  BY <1>1
<1> QED BY <1>2, <1>3, <1>4, <1>5 DEF p

\* A drag adds its distance to the positions of what it takes along.
LEMMA MovedPositions ==
  ASSUME NEW d \in Documents, Linked(d), NEW S \in SUBSET NodeIds(d), NEW delta \in Int,
         NEW e, IsUpdate(d, MoveUpdates(d, S, delta), e), NEW n \in NodeIds(d)
  PROVE  /\ Positions(e)[n] = Positions(d)[n] + (IF Carried(d, S, n) THEN delta ELSE 0)
         /\ e.nodes[n].width = d.nodes[n].width
<1> DEFINE Ids == NodeIds(d)
           tops == TopLevel(d, S)
           M(m) == IF Carried(d, S, m) THEN delta ELSE 0
           f == [m \in Ids |-> Positions(d)[m] + M(m)]
           updates == MoveUpdates(d, S, delta)
<1>1. tops \subseteq Ids
  BY DEF TopLevel
<1>2. /\ DOMAIN updates = tops
      /\ \A m \in tops : /\ updates[m].x = d.nodes[m].x + delta
                         /\ updates[m].width = d.nodes[m].width
  BY <1>1 DEF MoveUpdates
<1> HIDE DEF updates, tops
<1>3. /\ e \in Documents /\ Linked(e) /\ NodeIds(e) = Ids
      /\ \A m \in Ids :
           /\ e.nodes[m].parentId = d.nodes[m].parentId
           /\ e.nodes[m].x = d.nodes[m].x + (IF m \in tops THEN delta ELSE 0)
           /\ e.nodes[m].width = d.nodes[m].width
  <2>1. /\ e \in Documents /\ Linked(e) /\ NodeIds(e) = Ids
        /\ \A m \in Ids :
             /\ e.nodes[m].parentId = d.nodes[m].parentId
             /\ e.nodes[m].x = IF m \in tops THEN updates[m].x ELSE d.nodes[m].x
             /\ e.nodes[m].width = IF m \in tops THEN updates[m].width ELSE d.nodes[m].width
    BY <1>2 DEF IsUpdate, updates
  <2>2. \A m \in Ids : d.nodes[m].x \in Int
    BY NodeFields
  <2> QED BY <1>2, <2>1, <2>2
<1>4. \A m \in Ids : M(m) \in Int
  OBVIOUS
<1>5. ASSUME NEW m \in Ids
      PROVE  M(m) = (IF m \in tops THEN delta ELSE 0)
                      + (IF d.nodes[m].parentId = Null THEN 0 ELSE M(d.nodes[m].parentId))
  BY <1>5, CarriedFits DEF tops
<1> HIDE DEF M
<1>6. \A m \in Ids : f[m] = Positions(d)[m] + M(m)
  OBVIOUS
<1> HIDE DEF f
<1>7. AddsUp(e, f)
  <2> SUFFICES ASSUME NEW m \in Ids
               PROVE  f[m] = e.nodes[m].x + (IF e.nodes[m].parentId = Null THEN 0
                                             ELSE f[e.nodes[m].parentId])
    BY <1>3 DEF AddsUp
  <2> DEFINE p == d.nodes[m].parentId
  <2>1. Positions(d)[m] = d.nodes[m].x + (IF p = Null THEN 0 ELSE Positions(d)[p])
    BY PositionsFit
  <2>2. p \in Ids \cup {Null} /\ d.nodes[m].x \in Int
    BY NodeFields
  <2>3. p # Null => f[p] = Positions(d)[p] + M(p) /\ Positions(d)[p] \in Int /\ M(p) \in Int
    BY <1>4, <1>6, <2>2, PositionsFit
  <2>4. /\ f[m] = Positions(d)[m] + M(m) /\ e.nodes[m].parentId = p
        /\ e.nodes[m].x = d.nodes[m].x + (IF m \in tops THEN delta ELSE 0)
        /\ M(m) = (IF m \in tops THEN delta ELSE 0) + (IF p = Null THEN 0 ELSE M(p))
    BY <1>3, <1>5, <1>6
  <2> HIDE DEF p
  <2> QED BY <2>1, <2>2, <2>3, <2>4
<1>8. Positions(e)[n] = f[n]
  BY <1>3, <1>7, PositionsAre
<1> QED BY <1>3, <1>6, <1>8 DEF M

\* Documents of the same nodes are drawn alike.
LEMMA SameNodes ==
  ASSUME NEW d \in Documents, Linked(d), NEW e \in Documents, Linked(e), e.nodes = d.nodes,
         NEW n \in NodeIds(d)
  PROVE  Positions(e)[n] = Positions(d)[n] /\ Boxes(e)[n] = Boxes(d)[n]
<1>1. NodeIds(e) = NodeIds(d)
  BY DEF NodeIds
<1> QED BY <1>1, SameGeometry

\* In every selection that moves something, something shows it: a node of the
\* selection that holds nothing.
LEMMA MovesAreExact == PageInv => MovesExactlyTheSelection
<1> SUFFICES ASSUME PageInv, NEW k \in NodeIds(page), NEW m \in NodeIds(page),
                    CanUpdate(page, MoveUpdates(page, {k, m}, 1))
             PROVE  LET moved == Updated(page, MoveUpdates(page, {k, m}, 1)) IN
                    /\ moved.nodes # page.nodes
                    /\ \A n \in NodeIds(page) \ (Groups \cup Lines) :
                         Boxes(moved)[n].x = Boxes(page)[n].x +
                           (IF (Ancestors(page)[n] \cup {n}) \cap {k, m} # {} THEN 1 ELSE 0)
  BY DEF MovesExactlyTheSelection
<1> DEFINE d == page
           S == {k, m}
           updates == MoveUpdates(d, S, 1)
           moved == Updated(d, updates)
<1>1. d \in Documents /\ Linked(d) /\ S \in SUBSET NodeIds(d)
  BY DEF PageInv, WellFormed
<1>2. \E n \in NodeIds(d) : n \in TopLevel(d, S)
  BY DEF CanUpdate, MoveUpdates
<1> HIDE DEF d, S
<1>3. PICK e : IsUpdate(d, updates, e)
  <2>1. \A n \in DOMAIN updates : /\ updates[n].x \in Int /\ updates[n].width \in Nat \ {0}
                                  /\ updates[n].x2 \in Int
    BY <1>1, MoveUpdatesFit
  <2> HIDE DEF updates
  <2> QED BY <1>1, <2>1, UpdatesFit
<1>4. \A n \in NodeIds(d) :
        /\ Positions(e)[n] = Positions(d)[n] + (IF Carried(d, S, n) THEN 1 ELSE 0)
        /\ e.nodes[n].width = d.nodes[n].width
  BY <1>1, <1>3, MovedPositions
<1>5. /\ e \in Documents /\ Linked(e) /\ NodeIds(e) = NodeIds(d) /\ moved = Normalized(e)
      /\ \A n \in NodeIds(d) : e.nodes[n].childIds = d.nodes[n].childIds
  BY <1>3 DEF IsUpdate
<1> HIDE DEF updates
<1>6. /\ moved \in Documents /\ Linked(moved)
      /\ \A n \in NodeIds(d) :
           /\ Positions(moved)[n] = LeftOf(e, n)
           /\ n \notin Groups \cup Lines => Boxes(moved)[n] = Boxes(e)[n]
  BY <1>5, NormalizedKeeps
<1> HIDE DEF moved
<1>7. moved.nodes # d.nodes
  <2> SUFFICES ASSUME moved.nodes = d.nodes PROVE FALSE
    OBVIOUS
  <2> DEFINE T == {n \in NodeIds(d) : Carried(d, S, n)}
  <2>1. T # {}
    BY <1>1, <1>2, CarriedFits
  <2>2. PICK n \in T : Children(d, n) \cap T = {}
    <3>1. T \in SUBSET NodeIds(d)
      OBVIOUS
    <3> HIDE DEF T
    <3> QED BY <1>1, <2>1, <3>1, Ends
  <2>3. n \in NodeIds(d) /\ Carried(d, S, n) /\ n # Null
    BY <1>1, <2>2, NodeFields
  <2>4. \A c \in Children(d, n) : c \in T
    <3> SUFFICES ASSUME NEW c \in Children(d, n) PROVE c \in NodeIds(d) /\ Carried(d, S, c)
      OBVIOUS
    <3>1. c \in NodeIds(d) /\ d.nodes[c].parentId = n
      BY <1>1, <2>3, NodeFields
    <3> QED BY <1>1, <2>3, <3>1, CarriedFits
  <2>5. d.nodes[n].childIds = <<>>
    BY <1>1, <2>2, <2>3, <2>4, NodeFields
  <2>6. LeftOf(e, n) = Positions(e)[n]
    BY <1>5, <2>3, <2>5 DEF LeftOf, Hugging
  <2>7. Positions(moved)[n] = Positions(d)[n] /\ Positions(d)[n] \in Int
    BY <1>1, <1>6, <2>3, SameNodes, PositionsFit
  <2> QED BY <1>4, <1>6, <2>3, <2>6, <2>7
<1>8. ASSUME NEW n \in NodeIds(d) \ (Groups \cup Lines)
      PROVE  Boxes(moved)[n].x = Boxes(d)[n].x + (IF Carried(d, S, n) THEN 1 ELSE 0)
  <2>1. /\ Boxes(d)[n] = [x |-> Positions(d)[n], width |-> d.nodes[n].width]
        /\ Boxes(e)[n] = [x |-> Positions(e)[n], width |-> e.nodes[n].width]
    BY <1>1, <1>5, PlainBox
  <2> QED BY <1>4, <1>6, <2>1
<1> QED BY <1>7, <1>8 DEF d, S, moved, updates, Carried

\* What is below a node that is below another one is below that.
LEMMA DescendantsNest ==
  ASSUME NEW d \in Documents, Linked(d), NEW g \in NodeIds(d), NEW n \in Descendants(d)[g]
  PROVE  Descendants(d)[n] \subseteq Descendants(d)[g]
<1> DEFINE D == Descendants(d)
           S == {m \in D[g] : ~(D[m] \subseteq D[g])}
<1>1. D[g] \subseteq NodeIds(d) /\ \A m \in D[g] : Children(d, m) \subseteq D[g]
  BY DescendantsAreClosed
<1>2. \A m \in NodeIds(d) : \A k : k \in D[m] <=> k = m \/ \E c \in Children(d, m) : k \in D[c]
  BY DescendantsFit
<1> HIDE DEF D
<1>3. S = {}
  <2> SUFFICES ASSUME S # {} PROVE FALSE
    OBVIOUS
  <2>1. PICK m \in S : Children(d, m) \cap S = {}
    <3>1. S \in SUBSET NodeIds(d)
      BY <1>1
    <3> HIDE DEF S
    <3> QED BY <3>1, Ends
  <2>2. m \in D[g] /\ ~(D[m] \subseteq D[g])
    BY <2>1
  <2>3. \A c \in Children(d, m) : D[c] \subseteq D[g]
    BY <1>1, <2>1, <2>2
  <2> QED BY <1>1, <1>2, <2>2, <2>3
<1> QED BY <1>3 DEF D

\* Boxes have one hull.
LEMMA OneHull ==
  ASSUME NEW J, NEW b \in [J -> Box], NEW h, NEW k, IsHull(J, b, h), IsHull(J, b, k)
  PROVE  h = k
<1>1. \A j \in J : b[j].x \in Int /\ b[j].width \in Int
  BY DEF Box
<1>2. /\ h.x \in Int /\ h.width \in Int /\ h = [x |-> h.x, width |-> h.width]
      /\ k.x \in Int /\ k.width \in Int /\ k = [x |-> k.x, width |-> k.width]
  BY DEF IsHull, Box
<1>3. h.x <= k.x /\ k.x <= h.x
  <2>1. PICK i \in J : h.x = b[i].x
    BY DEF IsHull
  <2>2. PICK j \in J : k.x = b[j].x
    BY DEF IsHull
  <2> QED BY <2>1, <2>2 DEF IsHull
<1>4. h.x + h.width <= k.x + k.width /\ k.x + k.width <= h.x + h.width
  <2>1. PICK i \in J : h.x + h.width = b[i].x + b[i].width
    BY DEF IsHull
  <2>2. PICK j \in J : k.x + k.width = b[j].x + b[j].width
    BY DEF IsHull
  <2> QED BY <2>1, <2>2 DEF IsHull
<1>5. h.x = k.x /\ h.width = k.width
  BY <1>2, <1>3, <1>4
<1> QED BY <1>2, <1>5

\* A point k times as far to the right of left as it was of origin, and a box
\* k times as large there.
ScaledX(x, origin, left, k) == left + (x - origin) * k
Scaled(b, origin, left, k) == [x |-> ScaledX(b.x, origin, left, k), width |-> b.width * k]

\* Products keep the order.
LEMMA Products ==
  ASSUME NEW k \in Nat \ {0}, NEW a \in Int, NEW b \in Int
  PROVE  /\ a * k \in Int /\ a <= b => a * k <= b * k
         /\ (a + b) * k = a * k + b * k
         /\ a \in Nat \ {0} => a * k \in Nat \ {0}
OBVIOUS

\* Scaled points keep their order.
LEMMA ScaledOrder ==
  ASSUME NEW x \in Int, NEW y \in Int, NEW origin \in Int, NEW left \in Int, NEW k \in Nat \ {0}
  PROVE  /\ ScaledX(x, origin, left, k) \in Int
         /\ x <= y => ScaledX(x, origin, left, k) <= ScaledX(y, origin, left, k)
<1> DEFINE u == x - origin
           v == y - origin
<1>1. u \in Int /\ v \in Int /\ (x <= y => u <= v)
  OBVIOUS
<1> HIDE DEF u, v
<1>2. u * k \in Int /\ v * k \in Int /\ (u <= v => u * k <= v * k)
  BY <1>1, Products
<1>3. ScaledX(x, origin, left, k) = left + u * k /\ ScaledX(y, origin, left, k) = left + v * k
  BY DEF ScaledX, u, v
<1> QED BY <1>1, <1>2, <1>3

\* The edges of a scaled box are the scaled edges.
LEMMA ScaledBox ==
  ASSUME NEW b \in Box, NEW origin \in Int, NEW left \in Int, NEW k \in Nat \ {0}
  PROVE  LET s == Scaled(b, origin, left, k) IN
         /\ s \in Box /\ s.x = ScaledX(b.x, origin, left, k) /\ s.width = b.width * k
         /\ s.x + s.width = ScaledX(b.x + b.width, origin, left, k)
<1> DEFINE u == b.x - origin
           s == Scaled(b, origin, left, k)
<1>1. b.x \in Int /\ b.width \in Nat \ {0} /\ u \in Int
  BY DEF Box
<1>2. u * k \in Int /\ b.width * k \in Nat \ {0} /\ (u + b.width) * k = u * k + b.width * k
  BY <1>1, Products
<1>3. (b.x + b.width) - origin = u + b.width
  BY <1>1
<1>4. s = [x |-> left + u * k, width |-> b.width * k]
  BY DEF Scaled, ScaledX
<1>5. ScaledX(b.x, origin, left, k) = left + u * k
  BY DEF ScaledX
<1>6. ScaledX(b.x + b.width, origin, left, k) = left + (u + b.width) * k
  BY <1>3 DEF ScaledX
<1> HIDE DEF s, u
<1>7. s.x = left + u * k /\ s.width = b.width * k
  BY <1>4
<1>8. s \in Box
  BY <1>2, <1>4 DEF Box
<1>9. s.x + s.width = left + (u + b.width) * k
  BY <1>2, <1>7
<1> QED BY <1>5, <1>6, <1>7, <1>8, <1>9 DEF s

\* The hull of scaled boxes is the scaled hull.
LEMMA ScaledHull ==
  ASSUME NEW J, NEW b \in [J -> Box], NEW h, IsHull(J, b, h),
         NEW origin \in Int, NEW left \in Int, NEW k \in Nat \ {0}, NEW c \in [J -> Box],
         \A j \in J : c[j] = Scaled(b[j], origin, left, k)
  PROVE  IsHull(J, c, Scaled(h, origin, left, k))
<1> DEFINE s == Scaled(h, origin, left, k)
           L(x) == ScaledX(x, origin, left, k)
<1>1. \A x, y \in Int : x <= y => L(x) <= L(y)
  BY ScaledOrder
<1>2. /\ h \in Box /\ h.x \in Int /\ h.x + h.width \in Int
      /\ s \in Box /\ s.x = L(h.x) /\ s.x + s.width = L(h.x + h.width)
  <2>1. h \in Box
    BY DEF IsHull
  <2>2. h.x \in Int /\ h.x + h.width \in Int
    BY <2>1 DEF Box
  <2> QED BY <2>1, <2>2, ScaledBox
<1>3. \A j \in J : /\ b[j].x \in Int /\ b[j].x + b[j].width \in Int
                   /\ c[j].x = L(b[j].x) /\ c[j].x + c[j].width = L(b[j].x + b[j].width)
  <2> TAKE j \in J
  <2>1. b[j] \in Box
    OBVIOUS
  <2>2. b[j].x \in Int /\ b[j].x + b[j].width \in Int
    BY <2>1 DEF Box
  <2> QED BY <2>1, <2>2, ScaledBox
<1> HIDE DEF L, s
<1>4. \A j \in J : s.x <= c[j].x /\ c[j].x + c[j].width <= s.x + s.width
  BY <1>1, <1>2, <1>3 DEF IsHull
<1>5. \E j \in J : s.x = c[j].x
  BY <1>2, <1>3 DEF IsHull
<1>6. \E j \in J : s.x + s.width = c[j].x + c[j].width
  BY <1>2, <1>3 DEF IsHull
<1> QED BY <1>2, <1>4, <1>5, <1>6 DEF IsHull, s

\* A quotient of a product.
LEMMA ExactQuotient == \A k, w \in Nat \ {0} : (k * w) \div w = k
<1> TAKE k, w \in Nat \ {0}
<1> DEFINE q == (k * w) \div w
           a == k * w
<1>1. a \in Nat /\ q \in Int /\ w * q <= a /\ a < w * (q + 1)
  OBVIOUS
<1> HIDE DEF q
<1>2. ~(q < k)
  <2> SUFFICES ASSUME q < k PROVE FALSE
    OBVIOUS
  <2>1. (q + 1) * w <= k * w
    BY <1>1, Products
  <2> QED BY <1>1, <2>1
<1>3. ~(q > k)
  <2> SUFFICES ASSUME q > k PROVE FALSE
    OBVIOUS
  <2>1. (k + 1) * w <= q * w
    BY <1>1, Products
  <2>2. (k + 1) * w = k * w + w
    OBVIOUS
  <2> QED BY <1>1, <2>1, <2>2
<1>4. q = k
  BY <1>1, <1>2, <1>3
<1> QED BY <1>4 DEF q

\* What a resize by k makes of the numbers of the nodes below a group.
LEMMA ResizedNodes ==
  ASSUME NEW d \in Documents, Linked(d), NEW g \in NodeIds(d) \cap Groups, NEW left \in Int,
         NEW k \in Nat \ {0}
  PROVE  LET D == Descendants(d)[g]
             updates == ResizeUpdates(d, g, left, k * Boxes(d)[g].width)
             X(m) == ScaledX(Boxes(d)[m].x, Boxes(d)[g].x, left, k)
         IN /\ DOMAIN updates = D
            /\ updates[g].x = left - ParentPosition(d, d.nodes[g].parentId)
            /\ \A m \in D : m # g => updates[m].x = X(m) - X(d.nodes[m].parentId)
            /\ \A m \in D : updates[m].width = Boxes(d)[m].width * k
<1> DEFINE D == Descendants(d)[g]
           box == Boxes(d)
           at == Positions(d)
           width == k * box[g].width
           updates == ResizeUpdates(d, g, left, width)
           scale == width \div box[g].width
           NewLeft(m) == left + (box[m].x - box[g].x) * scale
           NewEnd(m) == left + (at[m] - d.nodes[m].x + d.nodes[m].x2 - box[g].x) * scale
           ParentLeft(m) == NewLeft(d.nodes[m].parentId)
           Top == [x |-> left - ParentPosition(d, d.nodes[g].parentId), width |-> width, x2 |-> 0]
           Inner(m) == [x |-> NewLeft(m) - ParentLeft(m), width |-> box[m].width * scale,
                        x2 |-> IF m \in Lines THEN NewEnd(m) - ParentLeft(m) ELSE 0]
<1>1. g \in D
  BY DescendantsAreClosed
<1>2. updates = [m \in D |-> IF m = g THEN Top ELSE Inner(m)]
  <2>1. (D \ {g}) \cup {g} = D
    BY <1>1
  <2>2. updates = [m \in (D \ {g}) \cup {g} |-> IF m = g THEN Top ELSE Inner(m)]
    BY DEF ResizeUpdates
  <2> HIDE DEF Top, Inner, updates, D
  <2> QED BY <2>1, <2>2
<1>3. box[g].width \in Nat \ {0}
  BY BoxesFit DEF Box
<1>4. scale = k
  BY <1>3, ExactQuotient
<1>5. width = box[g].width * k
  BY <1>3
<1> HIDE DEF scale, width, updates, D, box
<1>6. \A m : NewLeft(m) = ScaledX(box[m].x, box[g].x, left, k)
  BY <1>4 DEF ScaledX
<1> HIDE DEF NewLeft
<1>7. \A m : Inner(m).x = NewLeft(m) - ParentLeft(m) /\ Inner(m).width = box[m].width * k
  BY <1>4
<1>8. Top.x = left - ParentPosition(d, d.nodes[g].parentId) /\ Top.width = box[g].width * k
  BY <1>5
<1> HIDE DEF Inner, Top
<1>9. DOMAIN updates = D /\ updates[g] = Top /\ \A m \in D : m # g => updates[m] = Inner(m)
  BY <1>1, <1>2
<1>10. \A m \in D : m # g => updates[m].x = ScaledX(box[m].x, box[g].x, left, k)
                             - ScaledX(box[d.nodes[m].parentId].x, box[g].x, left, k)
  BY <1>6, <1>7, <1>9
<1>11. \A m \in D : updates[m].width = box[m].width * k
  BY <1>7, <1>8, <1>9
<1> QED BY <1>8, <1>9, <1>10, <1>11 DEF updates, D, box, width

\* What a resize makes of the positions on the page, and of the sizes, before the
\* normalization: what is below the group is scaled with it, and the rest stays.
LEMMA ResizedPositions ==
  ASSUME NEW d \in Documents, Linked(d), NEW g \in NodeIds(d) \cap Groups, NEW left \in Int,
         NEW k \in Nat \ {0}, NEW e,
         IsUpdate(d, ResizeUpdates(d, g, left, k * Boxes(d)[g].width), e), NEW n \in NodeIds(d)
  PROVE  /\ n \in Descendants(d)[g] =>
              /\ Positions(e)[n] = ScaledX(Boxes(d)[n].x, Boxes(d)[g].x, left, k)
              /\ e.nodes[n].width = Boxes(d)[n].width * k
         /\ n \notin Descendants(d)[g] =>
              Positions(e)[n] = Positions(d)[n] /\ e.nodes[n].width = d.nodes[n].width
<1> DEFINE Ids == NodeIds(d)
           D == Descendants(d)[g]
           updates == ResizeUpdates(d, g, left, k * Boxes(d)[g].width)
           X(m) == ScaledX(Boxes(d)[m].x, Boxes(d)[g].x, left, k)
           f == [m \in Ids |-> IF m \in D THEN X(m) ELSE Positions(d)[m]]
<1>1. /\ DOMAIN updates = D
      /\ updates[g].x = left - ParentPosition(d, d.nodes[g].parentId)
      /\ \A m \in D : m # g => updates[m].x = X(m) - X(d.nodes[m].parentId)
      /\ \A m \in D : updates[m].width = Boxes(d)[m].width * k
  BY ResizedNodes
<1>2. /\ g \in D /\ D \subseteq Ids
      /\ \A m \in Ids : d.nodes[m].parentId \in D => m \in D
      /\ \A m \in D : m # g => d.nodes[m].parentId \in D
  <2>1. /\ g \in D /\ D \subseteq Ids /\ \A m \in D : Children(d, m) \subseteq D
        /\ \A m \in D : m # g => d.nodes[m].parentId \in D
    BY DescendantsAreClosed
  <2>2. \A m \in Ids : d.nodes[m].parentId \in D => m \in Children(d, d.nodes[m].parentId)
    BY <2>1, NodeFields
  <2> QED BY <2>1, <2>2
<1>3. d.nodes[g].parentId \notin D
  <2>1. D \in SUBSET NodeIds(d) /\ D # {}
    BY <1>2
  <2> HIDE DEF D
  <2>2. \E m \in D : d.nodes[m].parentId \notin D
    BY <2>1, Ends
  <2> QED BY <1>2, <2>2
<1>4. \A m \in Ids : /\ X(m) \in Int /\ Positions(d)[m] \in Int
                     /\ d.nodes[m].parentId \in Ids \cup {Null} /\ m # Null
  <2> TAKE m \in Ids
  <2>1. Boxes(d)[m].x \in Int /\ Boxes(d)[g].x \in Int
    BY BoxesFit DEF Box
  <2>2. X(m) \in Int
    BY <2>1, ScaledOrder
  <2> HIDE DEF X
  <2> QED BY <2>2, PositionsFit, NodeFields
<1>5. X(g) = left
  <2>1. Boxes(d)[g].x \in Int
    BY BoxesFit DEF Box
  <2> QED BY <2>1 DEF ScaledX
<1> HIDE DEF D, X, updates
<1>6. /\ e \in Documents /\ Linked(e) /\ NodeIds(e) = Ids
      /\ \A m \in Ids :
           /\ e.nodes[m].parentId = d.nodes[m].parentId
           /\ e.nodes[m].x = IF m \in D THEN updates[m].x ELSE d.nodes[m].x
           /\ e.nodes[m].width = IF m \in D THEN updates[m].width ELSE d.nodes[m].width
  BY <1>1 DEF IsUpdate, updates
<1>7. /\ \A m \in D : f[m] = X(m)
      /\ \A m \in Ids : m \notin D => f[m] = Positions(d)[m]
  BY <1>2
<1> HIDE DEF f
<1>8. AddsUp(e, f)
  <2> SUFFICES ASSUME NEW m \in Ids
               PROVE  f[m] = e.nodes[m].x + (IF d.nodes[m].parentId = Null THEN 0
                                             ELSE f[d.nodes[m].parentId])
    BY <1>6 DEF AddsUp
  <2> DEFINE p == d.nodes[m].parentId
  <2>1. p \in Ids \cup {Null} /\ Null \notin Ids
    BY <1>4
  <2>2. CASE m = g
    <3>1. f[m] = left /\ e.nodes[m].x = left - ParentPosition(d, p)
      BY <1>1, <1>2, <1>5, <1>6, <1>7, <2>2
    <3>2. p # Null => f[p] = Positions(d)[p] /\ Positions(d)[p] \in Int
      BY <1>3, <1>4, <1>7, <2>1, <2>2
    <3> HIDE DEF p
    <3> QED BY <3>1, <3>2 DEF ParentPosition, p
  <2>3. CASE m \in D /\ m # g
    <3>1. p \in D /\ p # Null /\ e.nodes[m].x = X(m) - X(p) /\ X(m) \in Int /\ X(p) \in Int
      BY <1>1, <1>2, <1>4, <1>6, <2>1, <2>3
    <3> HIDE DEF p
    <3> QED BY <1>7, <2>3, <3>1 DEF p
  <2>4. CASE m \notin D
    <3>1. p \notin D /\ e.nodes[m].x = d.nodes[m].x
      BY <1>2, <1>6, <2>4
    <3>2. Positions(d)[m] = d.nodes[m].x + (IF p = Null THEN 0 ELSE Positions(d)[p])
      BY PositionsFit
    <3> HIDE DEF p
    <3> QED BY <1>7, <2>1, <2>4, <3>1, <3>2 DEF p
  <2> QED BY <1>2, <2>2, <2>3, <2>4
<1>9. Positions(e)[n] = f[n]
  BY <1>6, <1>8, PositionsAre
<1>10. n \in D => e.nodes[n].width = Boxes(d)[n].width * k
  BY <1>1, <1>6
<1> QED BY <1>6, <1>7, <1>9, <1>10 DEF D, X

\* The boxes of a node's children are those of a list.
LEMMA ChildBoxes ==
  ASSUME NEW d \in Documents, Linked(d), NEW n \in NodeIds(d), d.nodes[n].childIds # <<>>
  PROVE  LET s == d.nodes[n].childIds
             J == 1..Len(s)
             b == [j \in J |-> Boxes(d)[s[j]]]
         IN b \in [J -> Box] /\ IsHull(J, b, Hull({Boxes(d)[c] : c \in Children(d, n)}))
<1> DEFINE s == d.nodes[n].childIds
           J == 1..Len(s)
           b == [j \in J |-> Boxes(d)[s[j]]]
           vs == {Boxes(d)[c] : c \in Children(d, n)}
<1>1. /\ s \in Seq(PageIds) /\ s # <<>> /\ Children(d, n) = ToSet(s)
      /\ Children(d, n) \subseteq NodeIds(d)
  BY NodeFields DEF Children
<1> HIDE DEF s
<1>2. /\ Len(s) \in Nat /\ J # {} /\ Children(d, n) = {s[j] : j \in J}
      /\ J \in SUBSET (1..Len(s))
  <2>1. Len(s) \in Nat /\ Len(s) # 0 /\ ToSet(s) = {s[j] : j \in J}
    BY <1>1 DEF ToSet
  <2>2. 1 \in J
    BY <2>1
  <2> QED BY <1>1, <2>1, <2>2
<1>3. b \in [J -> Box]
  BY <1>1, <1>2, BoxesFit
<1>4. \A v : v \in vs <=> \E j \in J : v = b[j]
  BY <1>2
<1> HIDE DEF b, vs, J
<1>5. IsHull(J, b, Hull(vs))
  BY <1>2, <1>3, <1>4, HullFits
<1> QED BY <1>3, <1>5 DEF s, J, b, vs

\* A resize scales the box of everything below a group without lines, the
\* group's own and those of groups within included.
LEMMA ResizedBoxes ==
  ASSUME NEW d \in Documents, Linked(d), NEW g \in NodeIds(d) \cap Groups, NEW left \in Int,
         NEW k \in Nat \ {0}, NEW e,
         IsUpdate(d, ResizeUpdates(d, g, left, k * Boxes(d)[g].width), e),
         Descendants(d)[g] \cap Lines = {}, NEW n \in Descendants(d)[g]
  PROVE  Boxes(e)[n] = Scaled(Boxes(d)[n], Boxes(d)[g].x, left, k)
<1> DEFINE D == Descendants(d)[g]
           origin == Boxes(d)[g].x
           S == {m \in D : Boxes(e)[m] # Scaled(Boxes(d)[m], origin, left, k)}
<1>1. D \subseteq NodeIds(d) /\ \A m \in D : Children(d, m) \subseteq D
  BY DescendantsAreClosed
<1>2. /\ e \in Documents /\ Linked(e) /\ NodeIds(e) = NodeIds(d)
      /\ \A m \in NodeIds(d) : e.nodes[m].childIds = d.nodes[m].childIds
  BY DEF IsUpdate
<1>3. \A m \in D : /\ Positions(e)[m] = ScaledX(Boxes(d)[m].x, origin, left, k)
                   /\ e.nodes[m].width = Boxes(d)[m].width * k
  BY <1>1, ResizedPositions
<1>4. origin \in Int
  BY BoxesFit DEF Box
<1> HIDE DEF D, origin
<1>5. S = {}
  <2> SUFFICES ASSUME S # {} PROVE FALSE
    OBVIOUS
  <2>1. PICK m \in S : Children(d, m) \cap S = {}
    <3>1. S \in SUBSET NodeIds(d)
      BY <1>1
    <3> HIDE DEF S
    <3> QED BY <3>1, Ends
  <2>2. /\ m \in D /\ m \in NodeIds(d) /\ m \notin Lines
        /\ Boxes(e)[m] # Scaled(Boxes(d)[m], origin, left, k)
    BY <1>1, <2>1 DEF D
  <2>3. \A c \in Children(d, m) : Boxes(e)[c] = Scaled(Boxes(d)[c], origin, left, k)
    BY <1>1, <2>1, <2>2
  <2>4. Boxes(e)[m] = BoxOf(e, Boxes(e), m) /\ Boxes(d)[m] = BoxOf(d, Boxes(d), m)
    BY <1>2, <2>2, BoxesFit
  <2>5. CASE ~(m \in Groups /\ d.nodes[m].childIds # <<>>)
    <3>1. Boxes(e)[m] = [x |-> Positions(e)[m], width |-> e.nodes[m].width]
      BY <1>2, <2>2, <2>4, <2>5 DEF BoxOf
    <3>2. Boxes(e)[m] = Scaled(Boxes(d)[m], origin, left, k)
      BY <1>3, <2>2, <3>1 DEF Scaled
    <3> QED BY <2>2, <3>2
  <2>6. CASE m \in Groups /\ d.nodes[m].childIds # <<>>
    <3> DEFINE s == d.nodes[m].childIds
               J == 1..Len(s)
               b == [j \in J |-> Boxes(d)[s[j]]]
               c == [j \in J |-> Boxes(e)[s[j]]]
    <3>1. e.nodes[m].childIds = s /\ Children(e, m) = Children(d, m)
      BY <1>2, <2>2 DEF Children
    <3>2. /\ Boxes(e)[m] = Hull({Boxes(e)[x] : x \in Children(e, m)})
          /\ Boxes(d)[m] = Hull({Boxes(d)[x] : x \in Children(d, m)})
      BY <2>2, <2>4, <2>6, <3>1 DEF BoxOf
    <3>3. b \in [J -> Box] /\ IsHull(J, b, Boxes(d)[m])
      <4>1. b \in [J -> Box] /\ IsHull(J, b, Hull({Boxes(d)[x] : x \in Children(d, m)}))
        BY <2>2, <2>6, ChildBoxes
      <4> HIDE DEF b, J
      <4> QED BY <3>2, <4>1
    <3>4. c \in [J -> Box] /\ IsHull(J, c, Boxes(e)[m])
      <4>1. c \in [J -> Box] /\ IsHull(J, c, Hull({Boxes(e)[x] : x \in Children(e, m)}))
        BY <1>2, <2>2, <2>6, <3>1, ChildBoxes
      <4> HIDE DEF c, J
      <4> QED BY <3>2, <4>1
    <3>5. \A j \in J : s[j] \in Children(d, m)
      BY DEF Children, ToSet
    <3>6. \A j \in J : c[j] = Scaled(b[j], origin, left, k)
      BY <2>3, <3>5
    <3> HIDE DEF J, b, c
    <3>7. IsHull(J, c, Scaled(Boxes(d)[m], origin, left, k))
      BY <1>4, <3>3, <3>4, <3>6, ScaledHull
    <3>8. Boxes(e)[m] = Scaled(Boxes(d)[m], origin, left, k)
      BY <3>4, <3>7, OneHull
    <3> QED BY <2>2, <3>8
  <2> QED BY <2>5, <2>6
<1> QED BY <1>5 DEF D, origin

\* A resize of a group draws every node in it at the group's scale.
LEMMA ResizesAreExact == PageInv => ResizeScalesThePicture
<1> SUFFICES ASSUME PageInv, NEW g \in NodeIds(page) \cap Groups, NEW k \in 1..MaxScale,
                    Descendants(page)[g] \cap Lines = {}
             PROVE  LET box == Boxes(page)
                        resized == Updated(page, ResizeUpdates(page, g, box[g].x + 1,
                                                               k * box[g].width))
                        now == Boxes(resized)
                    IN /\ resized.nodes # page.nodes
                       /\ \A n \in NodeIds(page) \ Lines :
                            IF n \in Descendants(page)[g]
                            THEN /\ now[n].x = box[g].x + 1 + k * (box[n].x - box[g].x)
                                 /\ now[n].width = k * box[n].width
                            ELSE n \in Groups \/ now[n] = box[n]
  BY DEF ResizeScalesThePicture
<1> DEFINE d == page
           box == Boxes(d)
           left == box[g].x + 1
           updates == ResizeUpdates(d, g, left, k * box[g].width)
           resized == Updated(d, updates)
           D == Descendants(d)[g]
<1>1. d \in Documents /\ Linked(d) /\ g \in NodeIds(d) \cap Groups
  BY DEF PageInv, WellFormed
<1>2. k \in Nat \ {0}
  BY PageBounds
<1>3. D \cap Lines = {}
  OBVIOUS
<1> HIDE DEF d
<1>4. \A n \in NodeIds(d) : box[n] \in Box /\ box[n].x \in Int /\ box[n].width \in Nat \ {0}
  BY <1>1, BoxesFit DEF Box
<1>5. left \in Int
  BY <1>1, <1>4
<1>6. PICK e : IsUpdate(d, updates, e)
  <2> DEFINE width == k * box[g].width
  <2>1. width \in Nat \ {0} /\ \E j \in 1..MaxScale : width = j * box[g].width
    BY <1>1, <1>2, <1>4
  <2>2. g \in NodeIds(d) \ Lines
    BY <1>1, KindsAreDisjoint DEF Containers
  <2>3. updates = ResizeUpdates(d, g, left, width)
    OBVIOUS
  <2> HIDE DEF width, left, updates, box
  <2>4. \A m \in DOMAIN updates : /\ updates[m].x \in Int /\ updates[m].width \in Nat \ {0}
                                  /\ updates[m].x2 \in Int
    BY <1>1, <1>5, <2>1, <2>2, <2>3, ResizeUpdatesFit DEF box
  <2> QED BY <1>1, <2>4, UpdatesFit
<1>7. \A n \in NodeIds(d) : n \notin D =>
        Positions(e)[n] = Positions(d)[n] /\ e.nodes[n].width = d.nodes[n].width
  BY <1>1, <1>2, <1>5, <1>6, ResizedPositions
<1>8. \A n \in D : Boxes(e)[n] = Scaled(box[n], box[g].x, left, k)
  BY <1>1, <1>2, <1>3, <1>5, <1>6, ResizedBoxes
<1>9. /\ g \in D /\ D \subseteq NodeIds(d)
      /\ \A n \in D : Descendants(d)[n] \cap Lines = {}
  <2>1. g \in D /\ D \subseteq NodeIds(d)
    BY <1>1, DescendantsAreClosed
  <2>2. \A n \in D : Descendants(d)[n] \subseteq D
    BY <1>1, DescendantsNest
  <2> QED BY <1>3, <2>1, <2>2
<1>10. /\ e \in Documents /\ Linked(e) /\ NodeIds(e) = NodeIds(d) /\ resized = Normalized(e)
       /\ \A n \in NodeIds(d) : e.nodes[n].parentId = d.nodes[n].parentId
  BY <1>6 DEF IsUpdate
<1>11. \A n \in NodeIds(d) : Descendants(e)[n] = Descendants(d)[n]
  BY <1>1, <1>10, SameDescendants
<1> HIDE DEF updates, D, resized
<1>12. /\ resized \in Documents /\ Linked(resized)
       /\ \A n \in NodeIds(d) :
            /\ n \notin Groups \cup Lines => Boxes(resized)[n] = Boxes(e)[n]
            /\ Descendants(e)[n] \cap Lines = {} => Boxes(resized)[n] = Boxes(e)[n]
  BY <1>10, NormalizedKeeps
<1>13. \A n \in D : Boxes(resized)[n] = Scaled(box[n], box[g].x, left, k)
  BY <1>8, <1>9, <1>11, <1>12
<1>14. ASSUME NEW n \in D
       PROVE  /\ Boxes(resized)[n].x = left + k * (box[n].x - box[g].x)
              /\ Boxes(resized)[n].width = k * box[n].width
  <2> DEFINE u == box[n].x - box[g].x
  <2>1. u \in Int /\ box[n].width \in Int /\ left \in Int
    BY <1>4, <1>5, <1>9
  <2>2. Boxes(resized)[n] = [x |-> left + u * k, width |-> box[n].width * k]
    BY <1>13 DEF Scaled, ScaledX
  <2> HIDE DEF u, left, box
  <2>3. u * k = k * u /\ box[n].width * k = k * box[n].width
    BY <1>2, <2>1
  <2> QED BY <2>2, <2>3 DEF u
<1>15. ASSUME NEW n \in NodeIds(d), n \notin Lines, n \notin D, n \notin Groups
       PROVE  Boxes(resized)[n] = box[n]
  <2>1. /\ Boxes(d)[n] = [x |-> Positions(d)[n], width |-> d.nodes[n].width]
        /\ Boxes(e)[n] = [x |-> Positions(e)[n], width |-> e.nodes[n].width]
    BY <1>1, <1>10, <1>15, PlainBox
  <2> QED BY <1>7, <1>12, <1>15, <2>1
<1>16. resized.nodes # d.nodes
  <2> SUFFICES ASSUME resized.nodes = d.nodes PROVE FALSE
    OBVIOUS
  <2>1. Boxes(resized)[g] = box[g]
    BY <1>1, <1>12, SameNodes
  <2>2. Boxes(resized)[g].x = left + k * (box[g].x - box[g].x)
    BY <1>9, <1>14
  <2>3. Boxes(resized)[g].x = box[g].x + 1
    BY <1>1, <1>2, <1>4, <2>2
  <2> QED BY <1>1, <1>4, <2>1, <2>3
<1>17. \A n \in NodeIds(d) \ Lines :
         IF n \in D
         THEN /\ Boxes(resized)[n].x = left + k * (box[n].x - box[g].x)
              /\ Boxes(resized)[n].width = k * box[n].width
         ELSE n \in Groups \/ Boxes(resized)[n] = box[n]
  BY <1>14, <1>15
<1> QED BY <1>16, <1>17 DEF d, D, resized, updates

-----------------------------------------------------------------------------
(* What the commands promise.                                              *)

(* The page is a tree whatever commands are given, and parentId, the lists *)
(* of children and zIndex agree: for any nodes, nesting, selections and    *)
(* number of commands.                                                     *)
THEOREM TreesAreWellFormed == PageSpec => []TreeIsWellFormed
BY PageInvInit, PageInvStep, WellFormedTree, PTL DEF PageSpec

(* After any commands a group that holds no line, at any depth, is exactly *)
(* the hull of its children.                                               *)
THEOREM GroupsAlwaysHug == PageSpec => []GroupsHugTheirChildren
BY PageInvInit, PageInvStep, HuggingGroups, PTL DEF PageSpec

(* No regrouping, reordering, deletion, creation or lock moves what is     *)
(* painted, however deep the tree and whatever was given before.           *)
THEOREM PlacesAreKept == PageSpec => StructureKeepsPlaces
<1>1. PageInv /\ [PageNext]_pageVars =>
        [Structure(page') # Structure(page) =>
           LET box == Boxes(page)
               now == Boxes(page') IN
           \A n \in (NodeIds(page) \cap NodeIds(page')) \ (Groups \cup Lines) : now[n] = box[n]
        ]_pageVars
  BY StructureStep DEF KeepsPlaces
<1> QED BY <1>1, PageInvInit, PageInvStep, PTL DEF PageSpec, StructureKeepsPlaces

(* Whatever the page and whatever is selected, a drag moves the selection  *)
(* and nothing else, and a group's handle scales what the group holds.     *)
THEOREM GesturesStayExact == PageSpec => []GesturesAreExact
<1>1. PageInv => GesturesAreExact
  BY MovesAreExact, ResizesAreExact DEF GesturesAreExact
<1> QED BY <1>1, PageInvInit, PageInvStep, PTL DEF PageSpec

-----------------------------------------------------------------------------
(* Backups.                                                                *)

RowStates == {"none", "live", "marked", "deleted"}
Making == {"dumped", "archiving"}
Restoring == {"drill", "drop", "create", "load", "clear"}
ScriptType == [at : {"idle", "archived", "manifested", "summing"} \cup Making \cup Restoring,
               seen : SUBSET Objects]
ArtifactType == [files : SUBSET Files, damaged : SUBSET Files, sums : {{}, Covered},
                 rows : [Objects -> RowStates], objects : SUBSET Objects, whole : BOOLEAN]

BackupTypeOK ==
  /\ row \in [Objects -> RowStates] /\ blobs \subseteq Objects /\ aged \subseteq Objects
  /\ db \in {"there", "dropped", "empty"} /\ up \in BOOLEAN /\ whole \in BOOLEAN
  /\ script \in ScriptType /\ artifact \in ArtifactType
  /\ backups \in Nat /\ interrupts \in Nat /\ damages \in Nat

\* Only a marked row has a mark that ages.
AgedAreMarked == \A k \in aged : row[k] = "marked"

\* While the archive is made, an asset of the dump is not yet deleted, and its
\* object is in the archive or still to be found.
ArchiveFollowsDump ==
  script.at \in Making =>
    /\ artifact.whole => whole
    /\ \A k \in Objects : artifact.rows[k] = "live" =>
         /\ row[k] = "live" \/ (row[k] = "marked" /\ k \notin aged)
         /\ artifact.whole => k \in IF k \in script.seen THEN artifact.objects ELSE blobs

\* An archive that is there has an object for every asset of its dump.
ArchiveIsComplete ==
  "archive" \in artifact.files /\ artifact.whole =>
    \A k \in Objects : artifact.rows[k] = "live" => k \in artifact.objects

\* A restore goes on with the stack down, from the artifact it began with.
RestoreFits ==
  script.at \in Restoring =>
    /\ ~up /\ ~whole
    /\ artifact.sums # {} => \A f \in Covered : Intact(f)
    /\ script.at \in {"load", "clear"} => row = artifact.rows
    /\ script.at = "clear" => blobs = {}

BackupInv ==
  /\ BackupTypeOK
  /\ AgedAreMarked
  /\ AssetsHaveObjects
  /\ ArchiveFollowsDump
  /\ ArchiveIsComplete
  /\ RestoreFits

-----------------------------------------------------------------------------
(* The fields of the script and of an artifact keep their types.           *)
LEMMA ScriptFields ==
  ASSUME NEW s \in ScriptType
  PROVE  /\ \A x \in {"idle", "archived", "manifested", "summing"} \cup Making \cup Restoring :
              [s EXCEPT !.at = x] \in ScriptType /\ [s EXCEPT !.at = x].at = x
         /\ \A q \in SUBSET Objects : [s EXCEPT !.seen = q] \in ScriptType
BY DEF ScriptType

LEMMA ArtifactFields ==
  ASSUME NEW a \in ArtifactType
  PROVE  /\ \A f \in SUBSET Files :
              /\ [a EXCEPT !.files = f] \in ArtifactType
              /\ [a EXCEPT !.damaged = f] \in ArtifactType
         /\ \A s \in {{}, Covered} : [a EXCEPT !.sums = s] \in ArtifactType
         /\ \A q \in SUBSET Objects : [a EXCEPT !.objects = q] \in ArtifactType
BY DEF ArtifactType

(* The application moves objects and rows only while the stack is up.      *)
LEMMA ApplicationInv ==
  ASSUME BackupInv, NEW k \in Objects,
         \/ PutObject(k) \/ InsertRow(k) \/ MarkRow(k) \/ Age(k) \/ PurgeObject(k)
         \/ DeleteRow(k)
  PROVE  BackupInv'
<1> USE DEF BackupInv, LeavesBackups, backupBounds, Works
<1>1. /\ UNCHANGED <<db, up, script, artifact, whole, backups, interrupts, damages>> /\ up
  BY DEF PutObject, InsertRow, MarkRow, Age, PurgeObject, DeleteRow
<1>2. script.at \notin Restoring
  BY <1>1 DEF RestoreFits
<1>3. BackupTypeOK'
  BY <1>1 DEF BackupTypeOK, RowStates, PutObject, InsertRow, MarkRow, Age, PurgeObject, DeleteRow
<1>4. AssetsHaveObjects'
  BY <1>1 DEF BackupTypeOK, AssetsHaveObjects, PutObject, InsertRow, MarkRow, Age,
     PurgeObject, DeleteRow
<1>5. ArchiveFollowsDump'
  <2> SUFFICES ASSUME script.at \in Making, NEW j \in Objects, artifact.rows[j] = "live"
               PROVE  /\ row'[j] = "live" \/ (row'[j] = "marked" /\ j \notin aged')
                      /\ artifact.whole =>
                           j \in IF j \in script.seen THEN artifact.objects ELSE blobs'
    BY <1>1 DEF ArchiveFollowsDump
  <2>1. /\ row[j] = "live" \/ (row[j] = "marked" /\ j \notin aged)
        /\ artifact.whole => j \in IF j \in script.seen THEN artifact.objects ELSE blobs
    BY DEF ArchiveFollowsDump
  <2>2. row'[j] = "live" \/ (row'[j] = "marked" /\ j \notin aged')
    <3>1. CASE Age(k)
      <4>1. row' = row /\ aged' = aged \cup {k} /\ artifact.rows[k] # "live"
        BY <3>1 DEF Age, Making
      <4> QED BY <2>1, <4>1
    <3>2. CASE MarkRow(k)
      <4>1. row' = [row EXCEPT ![k] = "marked"] /\ aged' = aged /\ row[k] = "live"
        BY <3>2 DEF MarkRow
      <4>2. k \notin aged
        BY <4>1 DEF AgedAreMarked
      <4> QED BY <2>1, <4>1, <4>2 DEF BackupTypeOK
    <3>3. CASE PutObject(k) \/ InsertRow(k) \/ PurgeObject(k) \/ DeleteRow(k)
      BY <2>1, <3>3 DEF BackupTypeOK, PutObject, InsertRow, PurgeObject, DeleteRow
    <3> QED BY <3>1, <3>2, <3>3
  <2>3. j \in blobs => j \in blobs'
    BY <2>1 DEF PutObject, InsertRow, MarkRow, Age, PurgeObject, DeleteRow
  <2> QED BY <2>1, <2>2, <2>3
<1>6. ArchiveIsComplete'
  BY <1>1 DEF ArchiveIsComplete
<1>7. RestoreFits'
  BY <1>1, <1>2 DEF RestoreFits
<1>8. AgedAreMarked'
  BY <1>1 DEF BackupTypeOK, AgedAreMarked, PutObject, InsertRow, MarkRow, Age, PurgeObject,
     DeleteRow
<1> QED BY <1>3, <1>4, <1>5, <1>6, <1>7, <1>8

(* The stack is stopped and started while the script rests.                *)
LEMMA StackInv ==
  ASSUME BackupInv, StopStack \/ StartStack
  PROVE  BackupInv'
<1> USE DEF BackupInv
<1>1. /\ UNCHANGED <<row, blobs, aged, db, script, artifact, whole, backups, interrupts, damages>>
      /\ up' \in BOOLEAN /\ script.at = "idle"
  BY DEF StopStack, StartStack, appVars, backupBounds
<1>2. BackupTypeOK'
  BY <1>1 DEF BackupTypeOK
<1>3. AgedAreMarked' /\ AssetsHaveObjects' /\ ArchiveFollowsDump' /\ ArchiveIsComplete'
  BY <1>1 DEF AgedAreMarked, AssetsHaveObjects, ArchiveFollowsDump, ArchiveIsComplete
<1>4. RestoreFits'
  BY <1>1 DEF RestoreFits, Restoring
<1> QED BY <1>2, <1>3, <1>4

LEMMA DumpInv ==
  ASSUME BackupInv, createPostgresDump
  PROVE  BackupInv'
<1> USE DEF BackupInv
<1> DEFINE a == [files |-> {"dump"}, damaged |-> {}, sums |-> {}, rows |-> row, objects |-> {},
                 whole |-> whole]
           s == [at |-> "dumped", seen |-> {}]
<1>1. /\ artifact' = a /\ script' = s /\ backups' = backups + 1
      /\ UNCHANGED <<row, blobs, aged, db, up, whole, interrupts, damages>>
  BY DEF createPostgresDump, NoArtifact, appVars
<1>2. a \in ArtifactType /\ s \in ScriptType
  BY DEF BackupTypeOK, ArtifactType, ScriptType, Files, Making, Covered
<1>3. BackupTypeOK'
  BY <1>1, <1>2 DEF BackupTypeOK
<1>4. AgedAreMarked' /\ AssetsHaveObjects' /\ ArchiveIsComplete' /\ RestoreFits'
  BY <1>1 DEF AgedAreMarked, AssetsHaveObjects, ArchiveIsComplete, RestoreFits, Restoring
<1>5. ArchiveFollowsDump'
  BY <1>1 DEF AgedAreMarked, AssetsHaveObjects, ArchiveFollowsDump
<1> QED BY <1>3, <1>4, <1>5

LEMMA ArchiveObjectInv ==
  ASSUME BackupInv, NEW k \in Objects, ArchiveObject(k)
  PROVE  BackupInv'
<1> USE DEF BackupInv
<1>0. script \in ScriptType /\ artifact \in ArtifactType /\ script.at \in Making
  BY DEF BackupTypeOK, ArchiveObject, Making
<1>1. PICK s \in ScriptType, a \in ArtifactType :
        /\ script' = s /\ artifact' = a
        /\ s.at = "archiving" /\ s.seen = script.seen \cup {k}
        /\ a.objects = IF k \in blobs THEN artifact.objects \cup {k} ELSE artifact.objects
        /\ a.files = artifact.files /\ a.rows = artifact.rows /\ a.whole = artifact.whole
  <2> DEFINE s0 == [script EXCEPT !.at = "archiving"]
             s1 == [s0 EXCEPT !.seen = script.seen \cup {k}]
             q == IF k \in blobs THEN artifact.objects \cup {k} ELSE artifact.objects
             a1 == [artifact EXCEPT !.objects = q]
  <2>1. s0 \in ScriptType
    BY <1>0, ScriptFields DEF Making
  <2>2. script.seen \cup {k} \in SUBSET Objects /\ q \in SUBSET Objects
    BY <1>0 DEF ScriptType, ArtifactType
  <2>3. s1 \in ScriptType /\ a1 \in ArtifactType
    BY <1>0, <2>1, <2>2, ScriptFields, ArtifactFields
  <2>4. script' = s1 /\ artifact' = a1
    BY <1>0 DEF ArchiveObject, ScriptType
  <2>5. s1.at = "archiving" /\ s1.seen = script.seen \cup {k}
    BY <1>0 DEF ScriptType
  <2>6. /\ a1.objects = q /\ a1.files = artifact.files /\ a1.rows = artifact.rows
        /\ a1.whole = artifact.whole
    BY <1>0 DEF ArtifactType
  <2> HIDE DEF s1, a1
  <2> QED BY <2>3, <2>4, <2>5, <2>6
<1>2. UNCHANGED <<row, blobs, aged, db, up, whole, backups, interrupts, damages>>
  BY DEF ArchiveObject, appVars, backupBounds
<1>3. BackupTypeOK'
  BY <1>1, <1>2 DEF BackupTypeOK
<1>4. AgedAreMarked' /\ AssetsHaveObjects' /\ ArchiveIsComplete' /\ RestoreFits'
  BY <1>1, <1>2 DEF AgedAreMarked, AssetsHaveObjects, ArchiveIsComplete, RestoreFits, Restoring
<1>5. ArchiveFollowsDump'
  BY <1>0, <1>1, <1>2 DEF ArchiveFollowsDump
<1> QED BY <1>3, <1>4, <1>5

(* Archive, manifest and sums are files the artifact has when they are done. *)
LEMMA FilesInv ==
  ASSUME BackupInv, ArchiveDone \/ WriteManifest \/ OpenChecksums \/ WriteChecksums
  PROVE  BackupInv'
<1> USE DEF BackupInv
<1>0. script \in ScriptType /\ artifact \in ArtifactType
  BY DEF BackupTypeOK
<1>f. UNCHANGED <<row, blobs, aged, db, up, whole, backups, interrupts, damages>>
  BY DEF ArchiveDone, WriteManifest, OpenChecksums, WriteChecksums, appVars, backupBounds
<1>1. PICK s \in ScriptType : script' = s /\ s.at \notin Making \cup Restoring
  <2>1. CASE script' = Idle
    <3>1. Idle \in ScriptType /\ Idle.at = "idle"
      BY DEF Idle, ScriptType
    <3> QED BY <2>1, <3>1 DEF Making, Restoring
  <2>2. CASE \E x \in {"archived", "manifested", "summing"} : Steps(x)
    <3>1. PICK x \in {"archived", "manifested", "summing"} : Steps(x)
      BY <2>2
    <3>2. [script EXCEPT !.at = x] \in ScriptType /\ [script EXCEPT !.at = x].at = x
      BY <1>0, ScriptFields
    <3> QED BY <3>1, <3>2 DEF Steps, Making, Restoring
  <2> QED BY <2>1, <2>2 DEF ArchiveDone, WriteManifest, OpenChecksums, WriteChecksums
<1>2. PICK a \in ArtifactType :
        /\ artifact' = a /\ a.rows = artifact.rows /\ a.objects = artifact.objects
        /\ a.whole = artifact.whole
        /\ "archive" \in a.files => "archive" \in artifact.files \/ ArchiveDone
  <2>1. CASE artifact' = [artifact EXCEPT !.sums = Covered]
    <3>1. [artifact EXCEPT !.sums = Covered] \in ArtifactType
      BY <1>0, ArtifactFields
    <3> QED BY <1>0, <2>1, <3>1 DEF ArtifactType
  <2>2. ASSUME NEW file \in Files, artifact' = [artifact EXCEPT !.files = Adds(file)],
               file = "archive" => ArchiveDone
        PROVE  \E a \in ArtifactType :
                 /\ artifact' = a /\ a.rows = artifact.rows /\ a.objects = artifact.objects
                 /\ a.whole = artifact.whole
                 /\ "archive" \in a.files => "archive" \in artifact.files \/ ArchiveDone
    <3> DEFINE a1 == [artifact EXCEPT !.files = Adds(file)]
    <3>1. Adds(file) \in SUBSET Files
      BY <1>0 DEF Adds, ArtifactType
    <3>2. a1 \in ArtifactType
      BY <1>0, <3>1, ArtifactFields
    <3>3. /\ a1.rows = artifact.rows /\ a1.objects = artifact.objects /\ a1.whole = artifact.whole
          /\ a1.files = artifact.files \cup {file}
      BY <1>0 DEF ArtifactType, Adds
    <3> HIDE DEF a1
    <3>4. artifact' = a1
      BY <2>2 DEF a1
    <3> QED BY <2>2, <3>2, <3>3, <3>4
  <2>3. {"archive", "manifest", "SHA256SUMS"} \subseteq Files
    BY DEF Files, Covered
  <2>4. \/ WriteChecksums
        \/ ArchiveDone \/ WriteManifest \/ OpenChecksums
    OBVIOUS
  <2>5. CASE WriteChecksums
    BY <2>1, <2>5 DEF WriteChecksums
  <2>6. CASE ArchiveDone
    BY <2>2, <2>3, <2>6 DEF ArchiveDone
  <2>7. CASE WriteManifest
    BY <2>2, <2>3, <2>7 DEF WriteManifest
  <2>8. CASE OpenChecksums
    BY <2>2, <2>3, <2>8 DEF OpenChecksums
  <2> QED BY <2>4, <2>5, <2>6, <2>7, <2>8
<1>3. BackupTypeOK'
  BY <1>1, <1>2, <1>f DEF BackupTypeOK
<1>4. AgedAreMarked' /\ AssetsHaveObjects' /\ ArchiveFollowsDump' /\ RestoreFits'
  BY <1>1, <1>f DEF AgedAreMarked, AssetsHaveObjects, ArchiveFollowsDump, RestoreFits
<1>5. ArchiveIsComplete'
  <2>1. ArchiveDone /\ artifact.whole =>
          \A k \in Objects : artifact.rows[k] = "live" => k \in artifact.objects
    BY DEF ArchiveDone, ArchiveFollowsDump, Making
  <2> QED BY <1>2, <2>1 DEF ArchiveIsComplete
<1> QED BY <1>3, <1>4, <1>5

(* A verified artifact is intact, unless its sums are empty.               *)
LEMMA VerifiedIsIntact ==
  ASSUME BackupTypeOK, Verified, artifact.sums # {}
  PROVE  \A f \in Covered : Intact(f)
BY DEF BackupTypeOK, ArtifactType, Verified

(* A restore begins, with the target cleared first or not.                 *)
LEMMA BeginInv ==
  ASSUME BackupInv, runRestoreDrill \/ DropDatabase
  PROVE  BackupInv'
<1> USE DEF BackupInv
<1>1. PICK x \in {"drill", "drop"} :
        /\ script' = [at |-> x, seen |-> {}] /\ ~whole' /\ ~up'
        /\ UNCHANGED <<artifact, backups, interrupts, damages>>
  BY DEF runRestoreDrill, DropDatabase, RestoreFits, Restoring, backupBounds
<1>2. /\ artifact.sums # {} => \A f \in Covered : Intact(f)
  BY VerifiedIsIntact DEF runRestoreDrill, DropDatabase, RestoreFits, Restoring
<1>3. BackupTypeOK'
  <2>1. [at |-> x, seen |-> {}] \in ScriptType
    BY DEF ScriptType, Restoring
  <2>2. /\ row' \in [Objects -> RowStates] /\ blobs' \subseteq Objects /\ aged' \subseteq Objects
        /\ db' \in {"there", "dropped", "empty"} /\ up' \in BOOLEAN /\ whole' \in BOOLEAN
    BY DEF runRestoreDrill, DropDatabase, BackupTypeOK, RowStates
  <2> QED BY <1>1, <2>1, <2>2 DEF BackupTypeOK
<1>4. AgedAreMarked'
  BY DEF AgedAreMarked, runRestoreDrill, DropDatabase
<1>5. AssetsHaveObjects' /\ ArchiveFollowsDump' /\ ArchiveIsComplete'
  BY <1>1 DEF AssetsHaveObjects, ArchiveFollowsDump, ArchiveIsComplete, Making
<1>6. RestoreFits'
  BY <1>1, <1>2 DEF RestoreFits, Intact
<1> QED BY <1>3, <1>4, <1>5, <1>6

(* The database is made anew and filled, the storage is cleared.           *)
LEMMA RefillInv ==
  ASSUME BackupInv, CreateDatabase \/ LoadDump \/ ClearStorage
  PROVE  BackupInv'
<1> USE DEF BackupInv
<1>0. script \in ScriptType /\ artifact \in ArtifactType /\ script.at \in Restoring
  BY DEF BackupTypeOK, CreateDatabase, LoadDump, ClearStorage, Restoring
<1>1. PICK x \in {"create", "load", "clear"} :
        /\ script' = [script EXCEPT !.at = x]
        /\ x \in {"load", "clear"} => row' = artifact.rows
        /\ x = "clear" => blobs' = {}
  BY DEF CreateDatabase, LoadDump, ClearStorage, Steps, RestoreFits, Restoring
<1>2. script' \in ScriptType /\ script'.at = x
  BY <1>0, <1>1, ScriptFields DEF Restoring
<1>3. ~whole /\ ~up /\ UNCHANGED <<up, artifact, whole, backups, interrupts, damages>>
  BY <1>0 DEF RestoreFits, CreateDatabase, LoadDump, ClearStorage, backupBounds
<1>4. BackupTypeOK' /\ AgedAreMarked'
  <2>1. /\ row' \in [Objects -> RowStates] /\ blobs' \subseteq Objects /\ aged' \subseteq Objects
        /\ db' \in {"there", "dropped", "empty"}
    BY <1>0 DEF BackupTypeOK, ArtifactType, CreateDatabase, LoadDump, ClearStorage
  <2>2. AgedAreMarked'
    BY DEF AgedAreMarked, CreateDatabase, LoadDump, ClearStorage
  <2> QED BY <1>2, <1>3, <2>1, <2>2 DEF BackupTypeOK
<1>5. AssetsHaveObjects' /\ ArchiveFollowsDump' /\ ArchiveIsComplete'
  BY <1>2, <1>3 DEF AssetsHaveObjects, ArchiveFollowsDump, ArchiveIsComplete, Making
<1>6. RestoreFits'
  BY <1>0, <1>1, <1>2, <1>3 DEF RestoreFits, Intact
<1> QED BY <1>4, <1>5, <1>6

(* What the archive has is brought back to an empty storage.               *)
LEMMA ExtractInv ==
  ASSUME BackupInv, ExtractArchive
  PROVE  BackupInv'
<1> USE DEF BackupInv
<1>0. script.at = "clear" /\ artifact \in ArtifactType /\ "archive" \in artifact.files
  BY DEF BackupTypeOK, ExtractArchive, Intact
<1>1. /\ script' = Idle /\ Idle \in ScriptType /\ Idle.at = "idle"
      /\ whole' = artifact.whole /\ blobs' = artifact.objects /\ row = artifact.rows
      /\ UNCHANGED <<row, aged, db, up, artifact, backups, interrupts, damages>>
  BY <1>0 DEF ExtractArchive, RestoreFits, Restoring, Idle, ScriptType, backupBounds
<1>2. BackupTypeOK'
  BY <1>0, <1>1 DEF BackupTypeOK, ArtifactType
<1>3. AgedAreMarked' /\ ArchiveFollowsDump' /\ ArchiveIsComplete' /\ RestoreFits'
  BY <1>1 DEF AgedAreMarked, ArchiveFollowsDump, ArchiveIsComplete, RestoreFits, Making, Restoring
<1>4. AssetsHaveObjects'
  BY <1>0, <1>1 DEF AssetsHaveObjects, ArchiveIsComplete
<1> QED BY <1>2, <1>3, <1>4

(* A step that was interrupted leaves nothing that is taken for whole.     *)
LEMMA InterruptInv ==
  ASSUME BackupInv, Interrupt
  PROVE  BackupInv'
<1> USE DEF BackupInv
<1>0. artifact \in ArtifactType
  BY DEF BackupTypeOK
<1>1. /\ script' = Idle /\ Idle \in ScriptType /\ Idle.at = "idle" /\ interrupts' = interrupts + 1
      /\ UNCHANGED <<row, aged, db, up, artifact, whole, backups, damages>>
  BY DEF Interrupt, Idle, ScriptType
<1>2. blobs \subseteq blobs' /\ blobs' \subseteq Objects
  BY <1>0 DEF Interrupt, BackupTypeOK, ArtifactType
<1>3. BackupTypeOK'
  BY <1>1, <1>2 DEF BackupTypeOK
<1>4. AgedAreMarked' /\ ArchiveFollowsDump' /\ ArchiveIsComplete' /\ RestoreFits'
  BY <1>1 DEF AgedAreMarked, ArchiveFollowsDump, ArchiveIsComplete, RestoreFits, Making, Restoring
<1>5. AssetsHaveObjects'
  BY <1>1, <1>2 DEF AssetsHaveObjects
<1> QED BY <1>3, <1>4, <1>5

LEMMA DamageInv ==
  ASSUME BackupInv, NEW f \in Files, Damage(f)
  PROVE  BackupInv'
<1> USE DEF BackupInv
<1>0. artifact \in ArtifactType /\ script.at = "idle"
  BY DEF BackupTypeOK, Damage
<1>1. PICK a \in ArtifactType :
        /\ artifact' = a /\ a.rows = artifact.rows /\ a.objects = artifact.objects
        /\ a.whole = artifact.whole /\ a.files \subseteq artifact.files
  <2> DEFINE a1 == [artifact EXCEPT !.files = @ \ {f}]
             a2 == [artifact EXCEPT !.damaged = @ \cup {f}]
             a3 == [a2 EXCEPT !.sums = IF f = "SHA256SUMS" THEN {} ELSE @]
  <2>1. a1 \in ArtifactType /\ a2 \in ArtifactType
    BY <1>0, ArtifactFields DEF ArtifactType
  <2>2. a3 \in ArtifactType
    BY <2>1, ArtifactFields DEF ArtifactType
  <2>3. /\ a1.rows = artifact.rows /\ a1.objects = artifact.objects
        /\ a1.whole = artifact.whole /\ a1.files \subseteq artifact.files
        /\ a3.rows = artifact.rows /\ a3.objects = artifact.objects
        /\ a3.whole = artifact.whole /\ a3.files = artifact.files
    BY <1>0 DEF ArtifactType
  <2>4. artifact' = a1 \/ artifact' = a3
    BY DEF Damage
  <2> HIDE DEF a1, a3
  <2> QED BY <2>1, <2>2, <2>3, <2>4
<1>2. /\ UNCHANGED <<row, blobs, aged, db, up, script, whole, backups, interrupts>>
      /\ damages' = damages + 1
  BY DEF Damage, appVars
<1>3. BackupTypeOK'
  BY <1>1, <1>2 DEF BackupTypeOK
<1>4. AgedAreMarked' /\ AssetsHaveObjects' /\ ArchiveIsComplete'
  BY <1>1, <1>2 DEF AgedAreMarked, AssetsHaveObjects, ArchiveIsComplete
<1>5. ArchiveFollowsDump' /\ RestoreFits'
  BY <1>0, <1>2 DEF ArchiveFollowsDump, RestoreFits, Making, Restoring
<1> QED BY <1>3, <1>4, <1>5

-----------------------------------------------------------------------------
LEMMA BackupStarts ==
  BackupInit => BackupInv
<1> SUFFICES ASSUME BackupInit PROVE BackupInv
  OBVIOUS
<1>1. BackupTypeOK
  BY DEF BackupInit, BackupTypeOK, RowStates, Idle, ScriptType, NoArtifact, ArtifactType
<1>2. script.at = "idle" /\ artifact.files = {} /\ aged = {} /\ \A k \in Objects : row[k] = "none"
  BY DEF BackupInit, Idle, NoArtifact
<1> QED BY <1>1, <1>2 DEF BackupInv, AgedAreMarked, AssetsHaveObjects, ArchiveFollowsDump,
       ArchiveIsComplete, RestoreFits, Making, Restoring

LEMMA BackupKept ==
  BackupInv /\ [BackupNext]_backupVars => BackupInv'
<1> SUFFICES ASSUME BackupInv, [BackupNext]_backupVars PROVE BackupInv'
  OBVIOUS
<1>1. CASE BackupNext
  BY <1>1, ApplicationInv, StackInv, DumpInv, ArchiveObjectInv, FilesInv, BeginInv, RefillInv,
     ExtractInv, InterruptInv, DamageInv DEF BackupNext
<1>2. CASE UNCHANGED backupVars
  <2> USE <1>2 DEF backupVars, BackupInv
  <2>1. BackupTypeOK' /\ AgedAreMarked' /\ AssetsHaveObjects'
    BY DEF BackupTypeOK, AgedAreMarked, AssetsHaveObjects
  <2>2. ArchiveFollowsDump' /\ ArchiveIsComplete'
    BY DEF ArchiveFollowsDump, ArchiveIsComplete
  <2>3. RestoreFits'
    BY DEF RestoreFits, Intact
  <2> QED BY <2>1, <2>2, <2>3
<1> QED BY <1>1, <1>2

(* The inductive invariant: how far the archive is with the dump's assets,
   and which artifact a restore brings back.                               *)
THEOREM BackupsFit == BackupSpec => []BackupInv
BY BackupStarts, BackupKept, PTL DEF BackupSpec

(* Live assets have their objects, before a backup and after its restore, and
   nothing is cleared for a backup that is not all there, unless its sums are
   empty: wherever backup-recovery.mjs ended and whatever was damaged.      *)
THEOREM RestoredAreThere == BackupSpec => []RestoredAssetsAreThere
<1>1. BackupInv => RestoredAssetsAreThere
  BY DEF BackupInv, RestoreFits, Restoring, RestoredAssetsAreThere, OnlyIntactIsRestored
<1> QED BY <1>1, BackupsFit, PTL

(* A restore that ends well leaves the rows and the objects of its backup and
   nothing of what was there before.                                       *)
THEOREM NothingElseIsLeft == BackupSpec => NothingOldIsLeft
<1>1. BackupInv /\ [BackupNext]_backupVars => [RestoresTheBackup]_backupVars
  <2> SUFFICES ASSUME BackupInv, BackupNext, script.at = "clear", script'.at = "idle", whole'
               PROVE  row' = artifact.rows /\ blobs' = artifact.objects
    BY DEF RestoresTheBackup
  <2>1. ~up /\ ~whole /\ row = artifact.rows /\ blobs = {}
    BY DEF BackupInv, RestoreFits, Restoring
  <2>2. ASSUME NEW k \in Objects,
               \/ PutObject(k) \/ InsertRow(k) \/ MarkRow(k) \/ Age(k)
               \/ PurgeObject(k) \/ DeleteRow(k) \/ ArchiveObject(k)
        PROVE  FALSE
    BY <2>1, <2>2 DEF PutObject, InsertRow, MarkRow, Age, PurgeObject, DeleteRow, Works,
       ArchiveObject
  <2>3. ~(StopStack \/ StartStack \/ createPostgresDump \/ ArchiveDone \/ WriteManifest)
    BY DEF StopStack, StartStack, createPostgresDump, ArchiveDone, WriteManifest
  <2>4. ~(OpenChecksums \/ WriteChecksums \/ runRestoreDrill \/ DropDatabase)
    BY DEF OpenChecksums, WriteChecksums, runRestoreDrill, DropDatabase
  <2>5. ~(CreateDatabase \/ LoadDump \/ ClearStorage \/ Interrupt)
    BY <2>1 DEF CreateDatabase, LoadDump, ClearStorage, Interrupt
  <2>6. ~\E f \in Files : Damage(f)
    BY DEF Damage
  <2>7. ExtractArchive
    BY <2>2, <2>3, <2>4, <2>5, <2>6 DEF BackupNext
  <2> QED BY <2>1, <2>7 DEF ExtractArchive
<1> QED BY <1>1, BackupsFit, PTL DEF BackupSpec, NothingOldIsLeft
=============================================================================
