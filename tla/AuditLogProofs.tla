---------------------------- MODULE AuditLogProofs ----------------------------
(***************************************************************************)
(* Lemmas about AuditLog, for every set of experiments, calls and batch    *)
(* requests: the log stays an unbroken chain because a transaction that    *)
(* holds the lock of its experiment has built the one event that chain     *)
(* still waits for, and batches stay what createBatch builds from the log  *)
(* because the log only grows.                                             *)
(***************************************************************************)
EXTENDS AuditLog, SumTheorems, SequenceTheorems, TLAPS

-----------------------------------------------------------------------------
(* One level *)

(* A level of the tree: a list of at least one hash. *)
IsLevel(L) == IsSequence(L) /\ Len(L) \in Nat \ {0} /\ DOMAIN L = 1 .. Len(L)

LEMMA Halves ==
  ASSUME NEW n \in Nat \ {0}
  PROVE  /\ (n + 1) \div 2 \in Nat \ {0}
         /\ n > 1 => (n + 1) \div 2 < n
         /\ n = 1 => (n + 1) \div 2 = 1
OBVIOUS

LEMMA HalfShrinks ==
  ASSUME NEW n \in Nat, NEW k \in Nat, k + 1 <= n, NEW m \in Nat \ {0}, m = 1 \/ m <= n - k
  PROVE  (m + 1) \div 2 = 1 \/ (m + 1) \div 2 <= n - (k + 1)
OBVIOUS

LEMMA HalfFacts ==
  ASSUME NEW a \in Nat
  PROVE  /\ a \div 2 \in Nat
         /\ a % 2 = 0 => a = 2 * (a \div 2)
         /\ a % 2 # 0 => a = 2 * (a \div 2) + 1
OBVIOUS

LEMMA HalfPlace ==
  ASSUME NEW n \in Nat \ {0}, NEW a \in 0 .. n - 1
  PROVE  a \div 2 \in 0 .. ((n + 1) \div 2) - 1
OBVIOUS

LEMMA NextLevelFacts ==
  ASSUME NEW L, IsLevel(L)
  PROVE  /\ IsLevel(NextLevel(L))
         /\ Len(NextLevel(L)) = (Len(L) + 1) \div 2
         /\ \A i \in 1 .. (Len(L) + 1) \div 2 :
              NextLevel(L)[i] = NodeHash(L[2 * i - 1], OrSelf(L, 2 * i, 2 * i - 1))
<1> DEFINE n == (Len(L) + 1) \div 2
           M == NextLevel(L)
<1>1. n \in Nat \ {0}
  BY Halves DEF IsLevel
<1>2. M = [i \in 1 .. n |-> NodeHash(L[2 * i - 1], OrSelf(L, 2 * i, 2 * i - 1))]
  BY DEF NextLevel
<1> HIDE DEF n, M
<1>3. /\ DOMAIN M = 1 .. n /\ M = [i \in 1 .. n |-> M[i]]
      /\ \A i \in 1 .. n : M[i] = NodeHash(L[2 * i - 1], OrSelf(L, 2 * i, 2 * i - 1))
  BY <1>2
<1>4. IsSequence(M) /\ Len(M) = n
  BY <1>1, <1>3, ListIsSequence
<1> QED BY <1>1, <1>3, <1>4 DEF IsLevel, n, M

(* What VerifyProof does with one sibling. *)
Join(s, x) == IF s.side = "LEFT" THEN NodeHash(s.hash, x) ELSE NodeHash(x, s.hash)

LEMMA JoinInjective ==
  ASSUME NEW s, NEW x, NEW y, Join(s, x) = Join(s, y)
  PROVE  x = y
<1>1. \A l, r, m, o : <<"node", <<l, r>> >> = <<"node", <<m, o>> >> => l = m /\ r = o
  OBVIOUS
<1>2. \A l, r, m, o : NodeHash(l, r) = NodeHash(m, o) => l = m /\ r = o
  BY <1>1 DEF NodeHash
<1> QED BY <1>2 DEF Join

(* A hash joined with its sibling is its parent. *)
LEMMA JoinSibling ==
  ASSUME NEW L, IsLevel(L), NEW a \in 0 .. Len(L) - 1
  PROVE  Join(Sibling(L, a), L[a + 1]) = NextLevel(L)[a \div 2 + 1]
<1> DEFINE i == a \div 2 + 1
<1>1. Len(L) \in Nat \ {0} /\ DOMAIN L = 1 .. Len(L) /\ a \in Nat
  BY DEF IsLevel
<1>2. i \in 1 .. (Len(L) + 1) \div 2
  BY <1>1, HalfPlace, Halves
<1>3. NextLevel(L)[i] = NodeHash(L[2 * i - 1], OrSelf(L, 2 * i, 2 * i - 1))
  BY <1>2, NextLevelFacts
<1>4. CASE a % 2 = 0
  <2>1. 2 * i - 1 = a + 1 /\ 2 * i = a + 2
    BY <1>1, <1>4, HalfFacts
  <2>2. Sibling(L, a) = [side |-> "RIGHT", hash |-> OrSelf(L, a + 2, a + 1)]
    BY <1>4 DEF Sibling
  <2>3. Sibling(L, a).side = "RIGHT" /\ Sibling(L, a).hash = OrSelf(L, a + 2, a + 1)
    BY <2>2
  <2>4. Join(Sibling(L, a), L[a + 1]) = NodeHash(L[a + 1], OrSelf(L, a + 2, a + 1))
    BY <2>3 DEF Join
  <2> QED BY <1>3, <2>1, <2>4
<1>5. CASE a % 2 # 0
  <2>1. 2 * i - 1 = a /\ 2 * i = a + 1
    BY <1>1, <1>5, HalfFacts
  <2>2. Sibling(L, a) = [side |-> "LEFT", hash |-> L[a]]
    BY <1>5 DEF Sibling
  <2>3. Sibling(L, a).side = "LEFT" /\ Sibling(L, a).hash = L[a]
    BY <2>2
  <2>4. Join(Sibling(L, a), L[a + 1]) = NodeHash(L[a], L[a + 1])
    BY <2>3 DEF Join
  <2>5. OrSelf(L, a + 1, a) = L[a + 1]
    BY <1>1 DEF OrSelf
  <2> QED BY <1>3, <2>1, <2>4, <2>5
<1> QED BY <1>4, <1>5

-----------------------------------------------------------------------------
(* The tree *)

(* The levels that Levels computes, more than it keeps. *)
AllLevels(hashes) ==
  LET level[k \in 0 .. Len(hashes)] ==
          IF k = 0 THEN hashes ELSE NextLevel(level[k - 1])
  IN  level

RootLevel(hashes) ==
  CHOOSE k \in 0 .. Len(hashes) :
    /\ Len(AllLevels(hashes)[k]) = 1
    /\ \A j \in 0 .. k - 1 : Len(AllLevels(hashes)[j]) > 1

LEMMA LevelsUnfold ==
  ASSUME NEW hashes
  PROVE  Levels(hashes) = [k \in 1 .. RootLevel(hashes) + 1 |-> AllLevels(hashes)[k - 1]]
BY DEF Levels, RootLevel, AllLevels

(* A recursive definition over 0 .. n has the function it describes. *)
LEMMA LevelsExist ==
  ASSUME NEW b, NEW n \in Nat
  PROVE  \E f : f = [k \in 0 .. n |-> IF k = 0 THEN b ELSE NextLevel(f[k - 1])]
<1> DEFINE N == {m \in Nat : \E f : f = [k \in 0 .. m |-> IF k = 0 THEN b ELSE NextLevel(f[k - 1])]}
<1>1. 0 \in N
  <2> DEFINE f == [k \in 0 .. 0 |-> b]
  <2>1. f = [k \in 0 .. 0 |-> IF k = 0 THEN b ELSE NextLevel(f[k - 1])]
    OBVIOUS
  <2> QED BY <2>1
<1>2. \A m \in N : m + 1 \in N
  <2> SUFFICES ASSUME NEW m \in N PROVE m + 1 \in N
    OBVIOUS
  <2>1. PICK f : f = [k \in 0 .. m |-> IF k = 0 THEN b ELSE NextLevel(f[k - 1])]
    OBVIOUS
  <2> DEFINE g == [k \in 0 .. m + 1 |-> IF k = m + 1 THEN NextLevel(f[m]) ELSE f[k]]
             h == [k \in 0 .. m + 1 |-> IF k = 0 THEN b ELSE NextLevel(g[k - 1])]
  <2>2. m \in Nat
    OBVIOUS
  <2>3. ASSUME NEW k \in 0 .. m + 1 PROVE g[k] = h[k]
    <3>1. CASE k = m + 1
      <4>1. k # 0 /\ k - 1 = m /\ m \in 0 .. m + 1 /\ m # m + 1
        BY <2>2, <3>1
      <4>2. g[k] = NextLevel(f[m]) /\ g[m] = f[m]
        BY <3>1, <4>1
      <4>3. h[k] = NextLevel(g[m])
        BY <4>1
      <4> QED BY <4>2, <4>3
    <3>2. CASE k # m + 1
      <4>1. k \in 0 .. m
        BY <2>2, <3>2
      <4>2. g[k] = f[k] /\ (k # 0 => k - 1 \in 0 .. m + 1 /\ k - 1 # m + 1 /\ g[k - 1] = f[k - 1])
        BY <2>2, <3>2, <4>1
      <4>3. f[k] = IF k = 0 THEN b ELSE NextLevel(f[k - 1])
        BY <2>1, <4>1
      <4>4. h[k] = IF k = 0 THEN b ELSE NextLevel(g[k - 1])
        OBVIOUS
      <4> HIDE DEF g, h
      <4> QED BY <4>2, <4>3, <4>4
    <3> QED BY <3>1, <3>2
  <2>4. g = h
    <3>1. /\ g = [k \in 0 .. m + 1 |-> g[k]] /\ h = [k \in 0 .. m + 1 |-> h[k]]
      OBVIOUS
    <3> HIDE DEF g, h
    <3> QED BY <2>3, <3>1
  <2>5. g = [k \in 0 .. m + 1 |-> IF k = 0 THEN b ELSE NextLevel(g[k - 1])]
    BY <2>4
  <2> HIDE DEF g
  <2>6. \E e : e = [k \in 0 .. m + 1 |-> IF k = 0 THEN b ELSE NextLevel(e[k - 1])]
    BY <2>5
  <2> QED BY <2>2, <2>6
<1>3. N \subseteq Nat
  OBVIOUS
<1> HIDE DEF N
<1>4. N = Nat
  BY <1>1, <1>2, <1>3, Induction
<1> QED BY <1>4 DEF N

LEMMA AllLevelsFacts ==
  ASSUME NEW hashes, Len(hashes) \in Nat
  PROVE  /\ DOMAIN AllLevels(hashes) = 0 .. Len(hashes)
         /\ AllLevels(hashes)[0] = hashes
         /\ \A k \in 1 .. Len(hashes) :
              AllLevels(hashes)[k] = NextLevel(AllLevels(hashes)[k - 1])
<1> DEFINE n == Len(hashes)
           f == AllLevels(hashes)
<1>1. \E g : g = [k \in 0 .. n |-> IF k = 0 THEN hashes ELSE NextLevel(g[k - 1])]
  BY LevelsExist
<1>2. f = CHOOSE g : g = [k \in 0 .. n |-> IF k = 0 THEN hashes ELSE NextLevel(g[k - 1])]
  BY DEF AllLevels
<1> HIDE DEF f
<1>3. f = [k \in 0 .. n |-> IF k = 0 THEN hashes ELSE NextLevel(f[k - 1])]
  BY <1>1, <1>2
<1>4. /\ DOMAIN f = 0 .. n
      /\ \A k \in 0 .. n : f[k] = IF k = 0 THEN hashes ELSE NextLevel(f[k - 1])
  BY <1>3
<1> QED BY <1>4 DEF f

LEMMA LevelsFacts ==
  ASSUME NEW hashes, IsLevel(hashes)
  PROVE  LET levels == Levels(hashes)
         IN  /\ IsSequence(levels) /\ Len(levels) \in Nat \ {0}
             /\ levels[1] = hashes
             /\ \A k \in 1 .. Len(levels) : IsLevel(levels[k])
             /\ \A k \in 1 .. Len(levels) - 1 : levels[k + 1] = NextLevel(levels[k])
             /\ Len(levels[Len(levels)]) = 1
<1> DEFINE n == Len(hashes)
           f == AllLevels(hashes)
           levels == Levels(hashes)
<1>1. n \in Nat \ {0}
  BY DEF IsLevel
<1>2. f[0] = hashes /\ \A k \in 1 .. n : f[k] = NextLevel(f[k - 1])
  BY <1>1, AllLevelsFacts
<1> HIDE DEF f
<1>3. \A k \in 0 .. n : IsLevel(f[k]) /\ (Len(f[k]) = 1 \/ Len(f[k]) <= n - k)
  <2> DEFINE N == {k \in Nat : k <= n => IsLevel(f[k]) /\ (Len(f[k]) = 1 \/ Len(f[k]) <= n - k)}
  <2>1. 0 \in N
    BY <1>1, <1>2
  <2>2. \A k \in N : k + 1 \in N
    <3> SUFFICES ASSUME NEW k \in N, k + 1 <= n
                 PROVE  /\ IsLevel(f[k + 1])
                        /\ Len(f[k + 1]) = 1 \/ Len(f[k + 1]) <= n - (k + 1)
      OBVIOUS
    <3>1. /\ k \in Nat /\ k <= n /\ k + 1 \in 1 .. n /\ (k + 1) - 1 = k
          /\ IsLevel(f[k]) /\ (Len(f[k]) = 1 \/ Len(f[k]) <= n - k)
      BY <1>1
    <3>2. f[k + 1] = NextLevel(f[k])
      BY <1>2, <3>1
    <3>3. IsLevel(f[k + 1]) /\ Len(f[k + 1]) = (Len(f[k]) + 1) \div 2
      BY <3>1, <3>2, NextLevelFacts
    <3>4. Len(f[k]) \in Nat \ {0}
      BY <3>1 DEF IsLevel
    <3>5. (Len(f[k]) + 1) \div 2 = 1 \/ (Len(f[k]) + 1) \div 2 <= n - (k + 1)
      BY <1>1, <3>1, <3>4, HalfShrinks
    <3> QED BY <3>3, <3>5
  <2>3. N \subseteq Nat
    OBVIOUS
  <2> HIDE DEF N
  <2>4. N = Nat
    BY <2>1, <2>2, <2>3, Induction
  <2> QED BY <1>1, <2>4 DEF N
<1>4. \E k \in 0 .. n : Len(f[k]) = 1 /\ \A j \in 0 .. k - 1 : Len(f[j]) > 1
  <2> DEFINE T == {k \in 0 .. n : Len(f[k]) = 1}
  <2>1. n \in 0 .. n /\ Len(f[n]) \in Nat \ {0} /\ (Len(f[n]) = 1 \/ Len(f[n]) <= n - n)
    BY <1>1, <1>3 DEF IsLevel
  <2>2. n \in T
    BY <1>1, <2>1
  <2>3. T \subseteq Nat /\ \A k : k \in T <=> k \in 0 .. n /\ Len(f[k]) = 1
    BY <1>1
  <2> HIDE DEF T
  <2>4. PICK k \in T : \A j \in T : k <= j
    BY <2>2, <2>3, NatMinimum
  <2>5. ASSUME NEW j \in 0 .. k - 1 PROVE Len(f[j]) > 1
    <3>1. j \in 0 .. n /\ ~ (k <= j)
      BY <1>1, <2>3, <2>4
    <3>2. Len(f[j]) # 1 /\ Len(f[j]) \in Nat \ {0}
      BY <1>3, <2>3, <2>4, <3>1 DEF IsLevel
    <3>3. \A m \in Nat \ {0} : m # 1 => m > 1
      OBVIOUS
    <3> QED BY <3>2, <3>3
  <2> QED BY <2>3, <2>4, <2>5
<1> DEFINE root == RootLevel(hashes)
<1>5. root \in 0 .. n /\ Len(f[root]) = 1
  BY <1>4 DEF RootLevel, f
<1>6. levels = [k \in 1 .. root + 1 |-> f[k - 1]]
  BY LevelsUnfold DEF f
<1> HIDE DEF root, levels
<1>7. root + 1 \in Nat /\ DOMAIN levels = 1 .. root + 1 /\ levels = [k \in 1 .. root + 1 |-> levels[k]]
  BY <1>1, <1>5, <1>6
<1>8. IsSequence(levels) /\ Len(levels) = root + 1
  BY <1>7, ListIsSequence
<1>9. \A k \in 1 .. root + 1 : k - 1 \in 0 .. n /\ levels[k] = f[k - 1]
  BY <1>1, <1>5, <1>6
<1>10. levels[1] = hashes
  BY <1>1, <1>2, <1>5, <1>9
<1>11. \A k \in 1 .. root : levels[k + 1] = NextLevel(levels[k])
  <2> SUFFICES ASSUME NEW k \in 1 .. root PROVE levels[k + 1] = NextLevel(levels[k])
    OBVIOUS
  <2>1. k \in 1 .. n /\ k \in 1 .. root + 1 /\ k + 1 \in 1 .. root + 1 /\ (k + 1) - 1 = k
    BY <1>1, <1>5
  <2> QED BY <1>2, <1>9, <2>1
<1>12. Len(levels[root + 1]) = 1
  <2>1. root + 1 \in 1 .. root + 1 /\ (root + 1) - 1 = root
    BY <1>1, <1>5
  <2> QED BY <1>5, <1>9, <2>1
<1>13. /\ root + 1 \in Nat \ {0} /\ (root + 1) - 1 = root
  BY <1>1, <1>5
<1>14. \A k \in 1 .. root + 1 : IsLevel(levels[k])
  BY <1>3, <1>9
<1> QED BY <1>8, <1>10, <1>11, <1>12, <1>13, <1>14 DEF levels

-----------------------------------------------------------------------------
(* The places of a leaf's ancestors *)

Places(index, k) ==
  LET position[j \in 0 .. k] == IF j = 0 THEN index ELSE position[j - 1] \div 2
  IN  position

LEMMA PlacesExist ==
  ASSUME NEW index, NEW n \in Nat
  PROVE  \E f : f = [k \in 0 .. n |-> IF k = 0 THEN index ELSE f[k - 1] \div 2]
<1> DEFINE N == {m \in Nat : \E f : f = [k \in 0 .. m |-> IF k = 0 THEN index ELSE f[k - 1] \div 2]}
<1>1. 0 \in N
  <2> DEFINE f == [k \in 0 .. 0 |-> index]
  <2>1. f = [k \in 0 .. 0 |-> IF k = 0 THEN index ELSE f[k - 1] \div 2]
    OBVIOUS
  <2> QED BY <2>1
<1>2. \A m \in N : m + 1 \in N
  <2> SUFFICES ASSUME NEW m \in N PROVE m + 1 \in N
    OBVIOUS
  <2>1. PICK f : f = [k \in 0 .. m |-> IF k = 0 THEN index ELSE f[k - 1] \div 2]
    OBVIOUS
  <2> DEFINE g == [k \in 0 .. m + 1 |-> IF k = m + 1 THEN f[m] \div 2 ELSE f[k]]
             h == [k \in 0 .. m + 1 |-> IF k = 0 THEN index ELSE g[k - 1] \div 2]
  <2>2. m \in Nat
    OBVIOUS
  <2>3. ASSUME NEW k \in 0 .. m + 1 PROVE g[k] = h[k]
    <3>1. CASE k = m + 1
      <4>1. k # 0 /\ k - 1 = m /\ m \in 0 .. m + 1 /\ m # m + 1
        BY <2>2, <3>1
      <4>2. g[k] = f[m] \div 2 /\ g[m] = f[m]
        BY <3>1, <4>1
      <4>3. h[k] = g[m] \div 2
        BY <4>1
      <4> QED BY <4>2, <4>3
    <3>2. CASE k # m + 1
      <4>1. k \in 0 .. m
        BY <2>2, <3>2
      <4>2. g[k] = f[k] /\ (k # 0 => k - 1 \in 0 .. m + 1 /\ k - 1 # m + 1 /\ g[k - 1] = f[k - 1])
        BY <2>2, <3>2, <4>1
      <4>3. f[k] = IF k = 0 THEN index ELSE f[k - 1] \div 2
        BY <2>1, <4>1
      <4>4. h[k] = IF k = 0 THEN index ELSE g[k - 1] \div 2
        OBVIOUS
      <4> HIDE DEF g, h
      <4> QED BY <4>2, <4>3, <4>4
    <3> QED BY <3>1, <3>2
  <2>4. g = h
    <3>1. /\ g = [k \in 0 .. m + 1 |-> g[k]] /\ h = [k \in 0 .. m + 1 |-> h[k]]
      OBVIOUS
    <3> HIDE DEF g, h
    <3> QED BY <2>3, <3>1
  <2>5. g = [k \in 0 .. m + 1 |-> IF k = 0 THEN index ELSE g[k - 1] \div 2]
    BY <2>4
  <2> HIDE DEF g
  <2>6. \E e : e = [k \in 0 .. m + 1 |-> IF k = 0 THEN index ELSE e[k - 1] \div 2]
    BY <2>5
  <2> QED BY <2>2, <2>6
<1>3. N \subseteq Nat
  OBVIOUS
<1> HIDE DEF N
<1>4. N = Nat
  BY <1>1, <1>2, <1>3, Induction
<1> QED BY <1>4 DEF N


LEMMA PlacesFacts ==
  ASSUME NEW index, NEW n \in Nat
  PROVE  /\ Ancestor(index, n) = Places(index, n)[n]
         /\ \A k \in 0 .. n : Places(index, n)[k]
              = IF k = 0 THEN index ELSE Places(index, n)[k - 1] \div 2
<1> DEFINE f == Places(index, n)
<1>1. \E g : g = [k \in 0 .. n |-> IF k = 0 THEN index ELSE g[k - 1] \div 2]
  BY PlacesExist
<1>2. f = CHOOSE g : g = [k \in 0 .. n |-> IF k = 0 THEN index ELSE g[k - 1] \div 2]
  BY DEF Places
<1>3. Ancestor(index, n) = f[n]
  BY DEF Ancestor, Places
<1> HIDE DEF f
<1>4. f = [k \in 0 .. n |-> IF k = 0 THEN index ELSE f[k - 1] \div 2]
  BY <1>1, <1>2
<1>5. \A k \in 0 .. n : f[k] = IF k = 0 THEN index ELSE f[k - 1] \div 2
  BY <1>4
<1> QED BY <1>3, <1>5 DEF f

LEMMA AncestorFacts ==
  ASSUME NEW index, NEW n \in Nat
  PROVE  /\ Ancestor(index, 0) = index
         /\ Ancestor(index, n + 1) = Ancestor(index, n) \div 2
<1> DEFINE f == Places(index, n)
           g == Places(index, n + 1)
<1>1. Ancestor(index, 0) = index
  BY PlacesFacts
<1>2. /\ Ancestor(index, n) = f[n]
      /\ \A k \in 0 .. n : f[k] = IF k = 0 THEN index ELSE f[k - 1] \div 2
  BY PlacesFacts
<1>3. /\ Ancestor(index, n + 1) = g[n + 1]
      /\ \A k \in 0 .. n + 1 : g[k] = IF k = 0 THEN index ELSE g[k - 1] \div 2
  BY PlacesFacts
<1> HIDE DEF f, g
<1> DEFINE N == {k \in Nat : k <= n => f[k] = g[k]}
<1>4. 0 \in N
  BY <1>2, <1>3
<1>5. \A k \in N : k + 1 \in N
  <2> SUFFICES ASSUME NEW k \in N, k + 1 <= n PROVE f[k + 1] = g[k + 1]
    OBVIOUS
  <2>1. /\ k \in Nat /\ f[k] = g[k] /\ k + 1 \in 0 .. n /\ k + 1 \in 0 .. n + 1
        /\ k + 1 # 0 /\ (k + 1) - 1 = k
    OBVIOUS
  <2>2. f[k + 1] = f[k] \div 2
    BY <1>2, <2>1
  <2>3. g[k + 1] = g[k] \div 2
    BY <1>3, <2>1
  <2> QED BY <2>1, <2>2, <2>3
<1>6. N \subseteq Nat
  OBVIOUS
<1> HIDE DEF N
<1>7. N = Nat
  BY <1>4, <1>5, <1>6, Induction
<1>8. f[n] = g[n]
  BY <1>7 DEF N
<1>9. g[n + 1] = g[n] \div 2
  <2>1. n + 1 \in 0 .. n + 1 /\ n + 1 # 0 /\ (n + 1) - 1 = n
    OBVIOUS
  <2> QED BY <1>3, <2>1
<1> QED BY <1>1, <1>2, <1>3, <1>8, <1>9

-----------------------------------------------------------------------------
(* Proofs *)

Climb(leaf, siblings) ==
  LET value[k \in 0 .. Len(siblings)] ==
          IF k = 0 THEN leaf ELSE Join(siblings[k], value[k - 1])
  IN  value

IsClimb(f, n, leaf, siblings) ==
  f = [k \in 0 .. n |-> IF k = 0 THEN leaf ELSE Join(siblings[k], f[k - 1])]

LEMMA ClimbExists ==
  ASSUME NEW leaf, NEW siblings, NEW n \in Nat
  PROVE  \E f : IsClimb(f, n, leaf, siblings)
<1> DEFINE N == {m \in Nat : \E f : f = [k \in 0 .. m |-> IF k = 0 THEN leaf ELSE Join(siblings[k], f[k - 1])]}
<1>1. 0 \in N
  <2> DEFINE f == [k \in 0 .. 0 |-> leaf]
  <2>1. f = [k \in 0 .. 0 |-> IF k = 0 THEN leaf ELSE Join(siblings[k], f[k - 1])]
    OBVIOUS
  <2> QED BY <2>1
<1>2. \A m \in N : m + 1 \in N
  <2> SUFFICES ASSUME NEW m \in N PROVE m + 1 \in N
    OBVIOUS
  <2>1. PICK f : f = [k \in 0 .. m |-> IF k = 0 THEN leaf ELSE Join(siblings[k], f[k - 1])]
    OBVIOUS
  <2> DEFINE g == [k \in 0 .. m + 1 |-> IF k = m + 1 THEN Join(siblings[m + 1], f[m]) ELSE f[k]]
             h == [k \in 0 .. m + 1 |-> IF k = 0 THEN leaf ELSE Join(siblings[k], g[k - 1])]
  <2>2. m \in Nat
    OBVIOUS
  <2>3. ASSUME NEW k \in 0 .. m + 1 PROVE g[k] = h[k]
    <3>1. CASE k = m + 1
      <4>1. k # 0 /\ k - 1 = m /\ m \in 0 .. m + 1 /\ m # m + 1
        BY <2>2, <3>1
      <4>2. g[k] = Join(siblings[m + 1], f[m]) /\ g[m] = f[m]
        BY <3>1, <4>1
      <4>3. h[k] = Join(siblings[m + 1], g[m])
        BY <4>1
      <4> QED BY <4>2, <4>3
    <3>2. CASE k # m + 1
      <4>1. k \in 0 .. m
        BY <2>2, <3>2
      <4>2. g[k] = f[k] /\ (k # 0 => k - 1 \in 0 .. m + 1 /\ k - 1 # m + 1 /\ g[k - 1] = f[k - 1])
        BY <2>2, <3>2, <4>1
      <4>3. f[k] = IF k = 0 THEN leaf ELSE Join(siblings[k], f[k - 1])
        BY <2>1, <4>1
      <4>4. h[k] = IF k = 0 THEN leaf ELSE Join(siblings[k], g[k - 1])
        OBVIOUS
      <4> HIDE DEF g, h
      <4> QED BY <4>2, <4>3, <4>4
    <3> QED BY <3>1, <3>2
  <2>4. g = h
    <3>1. /\ g = [k \in 0 .. m + 1 |-> g[k]] /\ h = [k \in 0 .. m + 1 |-> h[k]]
      OBVIOUS
    <3> HIDE DEF g, h
    <3> QED BY <2>3, <3>1
  <2>5. g = [k \in 0 .. m + 1 |-> IF k = 0 THEN leaf ELSE Join(siblings[k], g[k - 1])]
    BY <2>4
  <2> HIDE DEF g
  <2>6. \E e : e = [k \in 0 .. m + 1 |-> IF k = 0 THEN leaf ELSE Join(siblings[k], e[k - 1])]
    BY <2>5
  <2> QED BY <2>2, <2>6
<1>3. N \subseteq Nat
  OBVIOUS
<1> HIDE DEF N
<1>4. N = Nat
  BY <1>1, <1>2, <1>3, Induction
<1> QED BY <1>4 DEF N, IsClimb


LEMMA ClimbFacts ==
  ASSUME NEW leaf, NEW siblings, Len(siblings) \in Nat
  PROVE  /\ Climb(leaf, siblings)[0] = leaf
         /\ \A k \in 1 .. Len(siblings) :
              Climb(leaf, siblings)[k] = Join(siblings[k], Climb(leaf, siblings)[k - 1])
<1> DEFINE n == Len(siblings)
           f == Climb(leaf, siblings)
<1>1. \E g : IsClimb(g, n, leaf, siblings)
  BY ClimbExists
<1>2. f = CHOOSE g : IsClimb(g, n, leaf, siblings)
  BY DEF Climb, IsClimb
<1> HIDE DEF f
<1>3. IsClimb(f, n, leaf, siblings)
  BY <1>1, <1>2
<1>4. \A k \in 0 .. n : f[k] = IF k = 0 THEN leaf ELSE Join(siblings[k], f[k - 1])
  BY <1>3 DEF IsClimb
<1> QED BY <1>4 DEF f

LEMMA VerifyUnfold ==
  ASSUME NEW proof
  PROVE  VerifyProof(proof)
           <=> Climb(proof.leafHash, proof.siblings)[Len(proof.siblings)] = proof.root
BY DEF VerifyProof, Climb, Join

(* Two leaves never climb to the same hash. *)
LEMMA ClimbInjective ==
  ASSUME NEW x, NEW y, x # y, NEW siblings, Len(siblings) \in Nat
  PROVE  Climb(x, siblings)[Len(siblings)] # Climb(y, siblings)[Len(siblings)]
<1> DEFINE n == Len(siblings)
           f == Climb(x, siblings)
           g == Climb(y, siblings)
<1>1. f[0] = x /\ \A k \in 1 .. n : f[k] = Join(siblings[k], f[k - 1])
  BY ClimbFacts
<1>2. g[0] = y /\ \A k \in 1 .. n : g[k] = Join(siblings[k], g[k - 1])
  BY ClimbFacts
<1> HIDE DEF f, g
<1> DEFINE N == {k \in Nat : k <= n => f[k] # g[k]}
<1>3. 0 \in N
  BY <1>1, <1>2
<1>4. \A k \in N : k + 1 \in N
  <2> SUFFICES ASSUME NEW k \in N PROVE k + 1 \in N
    OBVIOUS
  <2>1. ASSUME k + 1 <= n, f[k + 1] = g[k + 1] PROVE FALSE
    <3>1. k \in Nat /\ k + 1 \in 1 .. n /\ (k + 1) - 1 = k /\ f[k] # g[k]
      BY <2>1
    <3>2. Join(siblings[k + 1], f[k]) = Join(siblings[k + 1], g[k])
      BY <1>1, <1>2, <2>1, <3>1
    <3> QED BY <3>1, <3>2, JoinInjective
  <2> QED BY <2>1
<1>5. N \subseteq Nat
  OBVIOUS
<1> HIDE DEF N
<1>6. N = Nat
  BY <1>3, <1>4, <1>5, Induction
<1> QED BY <1>6 DEF N, f, g

(* For a list of hashes of any length, the inclusion proof that createProof
   builds for a leaf verifies with the hash of that leaf, and with no other
   value in its place (createProof, verifyProof). *)
THEOREM ProofBindsLeaf ==
  ASSUME NEW id, NEW hashes, IsLevel(hashes), NEW index \in 0 .. Len(hashes) - 1, NEW x
  PROVE  LET proof == CreateProof(id, Levels(hashes), index)
         IN  /\ proof.leafHash = hashes[index + 1]
             /\ VerifyProof([proof EXCEPT !.leafHash = x]) <=> x = hashes[index + 1]
<1> DEFINE levels == Levels(hashes)
           n == Len(levels) - 1
           siblings == [k \in 1 .. n |-> Sibling(levels[k], Ancestor(index, k - 1))]
           leaf == hashes[index + 1]
           proof == CreateProof(id, levels, index)
           root == levels[Len(levels)][1]
<1>1. /\ Len(levels) \in Nat \ {0} /\ levels[1] = hashes
      /\ \A k \in 1 .. Len(levels) : IsLevel(levels[k])
      /\ \A k \in 1 .. Len(levels) - 1 : levels[k + 1] = NextLevel(levels[k])
      /\ Len(levels[Len(levels)]) = 1
  BY LevelsFacts
<1>2. proof = [batchId |-> id, leafHash |-> levels[1][index + 1], leafIndex |-> index,
               leafCount |-> Len(levels[1]), siblings |-> siblings, root |-> RootOf(levels)]
  BY DEF CreateProof
<1> HIDE DEF levels
<1>3. n \in Nat /\ Len(levels) = n + 1
  BY <1>1
<1>4. IsSequence(siblings) /\ Len(siblings) = n
  BY <1>3, ListIsSequence
<1>5. \A k \in 1 .. n : siblings[k] = Sibling(levels[k], Ancestor(index, k - 1))
  OBVIOUS
<1> HIDE DEF n, siblings, proof
<1>6. /\ [proof EXCEPT !.leafHash = x].leafHash = x
      /\ [proof EXCEPT !.leafHash = x].siblings = siblings
      /\ [proof EXCEPT !.leafHash = x].root = root
      /\ proof.leafHash = leaf
  BY <1>1, <1>2 DEF RootOf
<1>7. \A k \in 0 .. n : Ancestor(index, k) \in 0 .. Len(levels[k + 1]) - 1
  <2> DEFINE N == {k \in Nat : k <= n => Ancestor(index, k) \in 0 .. Len(levels[k + 1]) - 1}
  <2>1. 0 \in N
    <3>1. Ancestor(index, 0) = index /\ levels[0 + 1] = hashes
      BY <1>1, AncestorFacts
    <3> QED BY <3>1
  <2>2. \A k \in N : k + 1 \in N
    <3> SUFFICES ASSUME NEW k \in N, k + 1 <= n
                 PROVE  Ancestor(index, k + 1) \in 0 .. Len(levels[(k + 1) + 1]) - 1
      OBVIOUS
    <3>1. /\ k \in Nat /\ k + 1 \in 1 .. Len(levels) /\ k + 1 \in 1 .. Len(levels) - 1
          /\ Ancestor(index, k) \in 0 .. Len(levels[k + 1]) - 1
      BY <1>3
    <3>2. IsLevel(levels[k + 1]) /\ levels[(k + 1) + 1] = NextLevel(levels[k + 1])
      BY <1>1, <3>1
    <3>3. Len(levels[(k + 1) + 1]) = (Len(levels[k + 1]) + 1) \div 2
      BY <3>2, NextLevelFacts
    <3>4. Len(levels[k + 1]) \in Nat \ {0}
      BY <3>2 DEF IsLevel
    <3>5. Ancestor(index, k) \div 2 \in 0 .. ((Len(levels[k + 1]) + 1) \div 2) - 1
      BY <3>1, <3>4, HalfPlace
    <3> QED BY <3>1, <3>3, <3>5, AncestorFacts
  <2>3. N \subseteq Nat
    OBVIOUS
  <2> HIDE DEF N
  <2>4. N = Nat
    BY <2>1, <2>2, <2>3, Induction
  <2> QED BY <1>3, <2>4 DEF N
<1> DEFINE f == Climb(leaf, siblings)
<1>8. f[0] = leaf /\ \A k \in 1 .. n : f[k] = Join(siblings[k], f[k - 1])
  BY <1>3, <1>4, ClimbFacts
<1> HIDE DEF f
<1>9. \A k \in 0 .. n : f[k] = levels[k + 1][Ancestor(index, k) + 1]
  <2> DEFINE N == {k \in Nat : k <= n => f[k] = levels[k + 1][Ancestor(index, k) + 1]}
  <2>1. 0 \in N
    BY <1>1, <1>8, AncestorFacts
  <2>2. \A k \in N : k + 1 \in N
    <3> SUFFICES ASSUME NEW k \in N, k + 1 <= n
                 PROVE  f[k + 1] = levels[(k + 1) + 1][Ancestor(index, k + 1) + 1]
      OBVIOUS
    <3> DEFINE L == levels[k + 1]
               a == Ancestor(index, k)
    <3>1. /\ k \in Nat /\ k \in 0 .. n /\ k + 1 \in 1 .. n
          /\ (k + 1) - 1 = k
          /\ k + 1 \in 1 .. Len(levels) /\ k + 1 \in 1 .. Len(levels) - 1
          /\ f[k] = L[a + 1]
      BY <1>3
    <3>2. IsLevel(L) /\ levels[(k + 1) + 1] = NextLevel(L)
      BY <1>1, <3>1
    <3>3. a \in 0 .. Len(L) - 1
      BY <1>7, <3>1
    <3>4. f[k + 1] = Join(Sibling(L, a), L[a + 1])
      BY <1>5, <1>8, <3>1
    <3>5. f[k + 1] = NextLevel(L)[a \div 2 + 1]
      BY <3>2, <3>3, <3>4, JoinSibling
    <3> QED BY <3>1, <3>2, <3>5, AncestorFacts
  <2>3. N \subseteq Nat
    OBVIOUS
  <2> HIDE DEF N
  <2>4. N = Nat
    BY <2>1, <2>2, <2>3, Induction
  <2> QED BY <1>3, <2>4 DEF N
<1>10. f[n] = root
  <2>1. n \in 0 .. n /\ Len(levels[n + 1]) = 1
    BY <1>1, <1>3
  <2>2. Ancestor(index, n) \in 0 .. Len(levels[n + 1]) - 1
    BY <1>7, <2>1
  <2>3. Ancestor(index, n) = 0
    BY <2>1, <2>2
  <2> QED BY <1>3, <1>9, <2>1, <2>3
<1>11. Climb(leaf, siblings)[Len(siblings)] = root
  BY <1>4, <1>10 DEF f
<1>12. VerifyProof([proof EXCEPT !.leafHash = x]) <=> Climb(x, siblings)[Len(siblings)] = root
  BY <1>6, VerifyUnfold
<1>13. x # leaf => Climb(x, siblings)[Len(siblings)] # root
  BY <1>3, <1>4, <1>11, ClimbInjective
<1>14. VerifyProof([proof EXCEPT !.leafHash = x]) <=> x = leaf
  BY <1>11, <1>12, <1>13
<1> QED BY <1>6, <1>14 DEF proof, levels

(* The proofs of a batch whose events have different hashes. *)
LEMMA BatchBinds ==
  ASSUME NEW experiment, NEW id, NEW previous,
         NEW events, IsSequence(events), Len(events) \in Nat \ {0},
         \A p, q \in 1 .. Len(events) : EventHash(events[p]) = EventHash(events[q]) => p = q
  PROVE  LET proofs == BuildBatch(experiment, id, events, previous).proofs
         IN  \A p, q \in DOMAIN proofs :
               VerifyProof([proofs[p] EXCEPT !.leafHash = proofs[q].leafHash]) <=> p = q
<1> DEFINE n == Len(events)
           leaves == [i \in DOMAIN events |-> CreateLeaf(events[i])]
           hashes == LeafHashes(leaves)
           proofs == BuildBatch(experiment, id, events, previous).proofs
<1>1. DOMAIN events = 1 .. n
  BY SequenceFacts
<1>2. \A i \in 1 .. n : leaves[i].leafHash = LeafHash(events[i])
  BY <1>1 DEF CreateLeaf
<1>3. DOMAIN leaves = 1 .. n
  BY <1>1
<1>4. proofs = [i \in DOMAIN events |-> CreateProof(id, Levels(hashes), i - 1)]
  BY DEF BuildBatch
<1> HIDE DEF leaves, proofs
<1>5. hashes = [i \in 1 .. n |-> leaves[i].leafHash]
  BY <1>3 DEF LeafHashes
<1> HIDE DEF hashes
<1>6. /\ DOMAIN hashes = 1 .. n /\ hashes = [i \in 1 .. n |-> hashes[i]]
      /\ \A i \in 1 .. n : hashes[i] = LeafHash(events[i])
  BY <1>2, <1>5
<1>7. IsLevel(hashes) /\ Len(hashes) = n
  <2>1. IsSequence(hashes) /\ Len(hashes) = n
    BY <1>6, ListIsSequence
  <2> QED BY <1>6, <2>1 DEF IsLevel
<1>8. \A a, b : LeafHash(a) = LeafHash(b) => EventHash(a) = EventHash(b)
  <2>1. \A x, y : <<"leaf", x>> = <<"leaf", y>> => x = y
    OBVIOUS
  <2> QED BY <2>1 DEF LeafHash
<1>9. \A p, q \in 1 .. n : hashes[p] = hashes[q] => p = q
  BY <1>6, <1>8
<1>10. DOMAIN proofs = 1 .. n /\ \A i \in 1 .. n : proofs[i] = CreateProof(id, Levels(hashes), i - 1)
  BY <1>1, <1>4
<1>11. ASSUME NEW i \in 1 .. n, NEW x
       PROVE  /\ proofs[i].leafHash = hashes[i]
              /\ VerifyProof([proofs[i] EXCEPT !.leafHash = x]) <=> x = hashes[i]
  <2> DEFINE index == i - 1
             proof == CreateProof(id, Levels(hashes), index)
  <2>1. index \in 0 .. Len(hashes) - 1 /\ index + 1 = i /\ proofs[i] = proof
    BY <1>7, <1>10
  <2> HIDE DEF index
  <2>2. /\ proof.leafHash = hashes[index + 1]
        /\ VerifyProof([proof EXCEPT !.leafHash = x]) <=> x = hashes[index + 1]
    BY <1>7, <2>1, ProofBindsLeaf
  <2> HIDE DEF proof
  <2> QED BY <2>1, <2>2
<1>12. \A p, q \in 1 .. n :
         VerifyProof([proofs[p] EXCEPT !.leafHash = proofs[q].leafHash]) <=> p = q
  BY <1>9, <1>11
<1> QED BY <1>10, <1>12 DEF proofs

-----------------------------------------------------------------------------
(* The log *)
LEMMA PrefixFacts ==
  ASSUME NEW s, IsSequence(s), NEW n \in 0 .. Len(s)
  PROVE  /\ IsSequence(SubSeq(s, 1, n))
         /\ Len(SubSeq(s, 1, n)) = n
         /\ DOMAIN SubSeq(s, 1, n) = 1 .. n
         /\ \A i \in 1 .. n : SubSeq(s, 1, n)[i] = s[i]
<1>1. PICK S : s \in Seq(S)
  BY DEF IsSequence
<1>2. SubSeq(s, 1, n) \in Seq(S)
  BY <1>1
<1> QED
  BY <1>1, <1>2 DEF IsSequence

-----------------------------------------------------------------------------
(* The log *)

Fresh(log, object) == \A i \in 1 .. Len(log) : log[i].object # object

(* An unbroken chain in which no object is twice. *)
Unbroken(e, log) ==
  /\ IsSequence(log)
  /\ \A i \in 1 .. Len(log) :
       /\ log[i].sequence = i
       /\ log[i].experiment = e
       /\ log[i].previous = IF i = 1 THEN NoHash ELSE EventHash(log[i - 1])
       /\ \A j \in 1 .. Len(log) : log[i].object = log[j].object => i = j

LEMMA EmptyUnbroken == \A e : Unbroken(e, << >>)
<1>1. << >> \in Seq({})
  OBVIOUS
<1> QED
  BY <1>1 DEF Unbroken, IsSequence

LEMMA NextEvent ==
  ASSUME NEW e, NEW log, Unbroken(e, log), NEW object, NEW parent
  PROVE  LET event == CreateAuditEvent(e, object, parent, log)
         IN  /\ event.sequence = Len(log) + 1
             /\ event.experiment = e
             /\ event.object = object
             /\ event.previous = IF Len(log) = 0 THEN NoHash
                                 ELSE EventHash(log[Len(log)])
<1>1. Len(log) \in Nat /\ (log = << >> <=> Len(log) = 0)
  BY SequenceFacts DEF Unbroken
<1>2. HeadSequence(log) = Len(log)
  BY <1>1 DEF Unbroken, HeadSequence
<1>3. HeadHash(log) = IF Len(log) = 0 THEN NoHash ELSE EventHash(log[Len(log)])
  BY <1>1 DEF HeadHash
<1> QED
  BY <1>2, <1>3 DEF CreateAuditEvent

LEMMA AppendUnbroken ==
  ASSUME NEW e, NEW log, Unbroken(e, log), NEW object, NEW parent,
         Fresh(log, object)
  PROVE  Unbroken(e, Append(log, CreateAuditEvent(e, object, parent, log)))
<1> DEFINE event == CreateAuditEvent(e, object, parent, log)
           longer == Append(log, event)
<1>1. /\ event.sequence = Len(log) + 1 /\ event.experiment = e
      /\ event.object = object
      /\ event.previous = IF Len(log) = 0 THEN NoHash
                          ELSE EventHash(log[Len(log)])
  BY NextEvent
<1>2. IsSequence(log) /\ Len(log) \in Nat
  BY SequenceFacts DEF Unbroken
<1> HIDE DEF event
<1>3. /\ IsSequence(longer) /\ Len(longer) = Len(log) + 1
      /\ longer[Len(log) + 1] = event
      /\ \A i \in 1 .. Len(log) : longer[i] = log[i]
  BY <1>2, AppendFacts
<1> HIDE DEF longer
<1>4. ASSUME NEW i \in 1 .. Len(longer)
      PROVE  /\ longer[i].sequence = i
             /\ longer[i].experiment = e
             /\ longer[i].previous = IF i = 1 THEN NoHash ELSE EventHash(longer[i - 1])
             /\ \A j \in 1 .. Len(longer) : longer[i].object = longer[j].object => i = j
  <2>1. CASE i = Len(log) + 1
    BY <1>1, <1>2, <1>3, <2>1 DEF Fresh
  <2>2. CASE i \in 1 .. Len(log)
    <3>1. i = 1 \/ i - 1 \in 1 .. Len(log)
      BY <1>2, <2>2
    <3>2. longer[i] = log[i]
      BY <1>3, <2>2
    <3>3. longer[i].previous = IF i = 1 THEN NoHash ELSE EventHash(longer[i - 1])
      BY <1>3, <2>2, <3>1, <3>2 DEF Unbroken
    <3>4. ASSUME NEW j \in 1 .. Len(longer), longer[i].object = longer[j].object
          PROVE  i = j
      <4>1. j # Len(log) + 1
        BY <1>1, <1>3, <2>2, <3>2, <3>4 DEF Fresh
      <4>2. j \in 1 .. Len(log) /\ longer[j] = log[j]
        BY <1>2, <1>3, <4>1
      <4> QED
        BY <2>2, <3>2, <3>4, <4>2 DEF Unbroken
    <3> QED
      BY <2>2, <3>2, <3>3, <3>4 DEF Unbroken
  <2> QED
    BY <1>2, <1>3, <2>1, <2>2
<1> QED
  BY <1>3, <1>4 DEF Unbroken, longer, event

LEMMA UnbrokenVerifies ==
  ASSUME NEW e, NEW log, Unbroken(e, log)
  PROVE  /\ AuditContinuous(log)
         /\ IsInjective([i \in DOMAIN log |-> log[i].object])
         /\ \A i \in DOMAIN log : log[i].experiment = e
<1>1. IsSequence(log) /\ Len(log) \in Nat /\ DOMAIN log = 1 .. Len(log)
  BY SequenceFacts DEF Unbroken
<1>2. ASSUME NEW i \in 1 .. Len(log)
      PROVE  log[i].previous = HeadHash(SubSeq(log, 1, i - 1))
  <2> DEFINE before == SubSeq(log, 1, i - 1)
  <2>1. i - 1 \in 0 .. Len(log)
    BY <1>1
  <2>2. /\ IsSequence(before) /\ Len(before) = i - 1
        /\ \A j \in 1 .. i - 1 : before[j] = log[j]
    BY <1>1, <2>1, PrefixFacts
  <2> HIDE DEF before
  <2>3. before = << >> <=> i = 1
    BY <1>1, <2>2, SequenceFacts
  <2>4. i # 1 => before[Len(before)] = log[i - 1]
    BY <1>1, <2>2
  <2>5. log[i].previous = HeadHash(before)
    BY <2>3, <2>4 DEF Unbroken, HeadHash
  <2> QED
    BY <2>5 DEF before
<1>3. AuditContinuous(log)
  BY <1>1, <1>2 DEF AuditContinuous, Unbroken
<1>4. IsInjective([i \in DOMAIN log |-> log[i].object])
  BY <1>1 DEF IsInjective, Unbroken
<1> QED
  BY <1>1, <1>3, <1>4 DEF Unbroken

-----------------------------------------------------------------------------
(* The calls *)

CallPhase == {"unmade", "idle", "inserted", "chained", "done", "refused", "conflict"}

LogShape ==
  /\ pc \in [Calls -> CallPhase \ {"conflict"}]
  /\ draft = [c \in Calls |-> draft[c]]
  /\ audit = [e \in Experiments |-> audit[e]]
  /\ batches = [e \in Experiments |-> batches[e]]
  /\ \A e \in Experiments : Unbroken(e, audit[e]) /\ IsSequence(batches[e])

(* A transaction that holds the lock of an experiment has built the event the
   chain still waits for, and there is one such transaction. *)
DraftFits(c) ==
  /\ draft[c] = CreateAuditEvent(c.experiment, c.object, c.parent, audit[c.experiment])
  /\ Fresh(audit[c.experiment], c.object)

DraftsFit ==
  /\ \A c \in Calls : pc[c] = "chained" => DraftFits(c)
  /\ \A c, d \in Calls :
       pc[c] = "chained" /\ pc[d] = "chained" /\ c.experiment = d.experiment => c = d

RowAudited(r) == ~Fresh(audit[r.experiment], r.object)

RowsAudited == \A r \in rows : r.experiment \in Experiments /\ RowAudited(r)

(* Only the first batch of an experiment has no predecessor. *)
BatchesLinked ==
  \A e \in Experiments : \A i \in 1 .. Len(batches[e]) :
    i > 1 => batches[e][i].batch.previous # NoHash

LogInv == LogShape /\ DraftsFit /\ RowsAudited /\ BatchesLinked

LEMMA LogInvInit ==
  ASSUME NEW made, LogInit(made)
  PROVE  LogInv
<1>1. /\ pc \in [Calls -> {"unmade", "idle"}]
      /\ draft = [c \in Calls |-> NoEvent]
      /\ rows = {}
      /\ audit = [e \in Experiments |-> << >>]
      /\ batches = [e \in Experiments |-> << >>]
  BY DEF LogInit
<1>2. IsSequence(<< >>)
  BY EmptyUnbroken DEF Unbroken
<1>3. LogShape
  BY <1>1, <1>2, EmptyUnbroken DEF LogShape, CallPhase
<1>4. DraftsFit /\ RowsAudited
  BY <1>1 DEF DraftsFit, RowsAudited
<1>5. BatchesLinked
  BY <1>1 DEF BatchesLinked
<1> QED
  BY <1>3, <1>4, <1>5 DEF LogInv

LEMMA LogStutter ==
  ASSUME LogInv, UNCHANGED logVars
  PROVE  LogInv'
BY DEF logVars, LogInv, LogShape, DraftsFit, DraftFits, RowsAudited, RowAudited,
       BatchesLinked

(* A step that leaves chain, batches and rows alone, and the drafts of all but
   a call that is not on the chain after it. *)
LEMMA QuietStep ==
  ASSUME LogInv, NEW c \in Calls, NEW phase \in CallPhase \ {"chained", "conflict"},
         pc' = [pc EXCEPT ![c] = phase],
         draft' = draft \/ draft' = [draft EXCEPT ![c] = NoEvent],
         UNCHANGED <<audit, batches, rows>>
  PROVE  LogInv'
<1>1. LogShape'
  BY DEF LogInv, LogShape
<1>2. RowsAudited'
  BY DEF LogInv, RowsAudited, RowAudited
<1>3. BatchesLinked'
  BY DEF LogInv, BatchesLinked
<1>4. \A d \in Calls : pc'[d] = "chained" => pc[d] = "chained" /\ draft'[d] = draft[d]
  BY DEF LogInv, LogShape
<1>5. \A d \in Calls : pc'[d] = "chained" => DraftFits(d)'
  BY <1>4 DEF LogInv, DraftsFit, DraftFits
<1>6. DraftsFit'
  BY <1>4, <1>5 DEF LogInv, DraftsFit
<1> QED
  BY <1>1, <1>2, <1>3, <1>6 DEF LogInv

LEMMA AppendEventStep ==
  ASSUME LogInv, NEW c \in Calls, AppendEvent(c)
  PROVE  LogInv'
<1> DEFINE event == CreateAuditEvent(c.experiment, c.object, c.parent,
                                     audit[c.experiment])
<1>1. /\ pc' = [pc EXCEPT ![c] = "chained"]
      /\ draft' = [draft EXCEPT ![c] = event]
      /\ UNCHANGED <<rows, audit, batches>>
  BY DEF AppendEvent, Goto
<1> HIDE DEF event
<1>2. c.experiment \in Experiments
  BY CallsAreContentAddressed DEF CallsAssumption
<1>3. LogShape'
  BY <1>1 DEF LogInv, LogShape, CallPhase
<1>4. RowsAudited'
  BY <1>1 DEF LogInv, RowsAudited, RowAudited
<1>5. BatchesLinked'
  BY <1>1 DEF LogInv, BatchesLinked
<1>6. Fresh(audit[c.experiment], c.object)
  <2>1. DOMAIN audit[c.experiment] = 1 .. Len(audit[c.experiment])
    BY <1>2, SequenceFacts DEF LogInv, LogShape, Unbroken
  <2> QED
    BY <2>1 DEF AppendEvent, Audited, Fresh
<1>7. DraftFits(c)'
  BY <1>1, <1>6 DEF LogInv, LogShape, DraftFits, event
<1>8. \A d \in Calls : d # c /\ pc'[d] = "chained" =>
        pc[d] = "chained" /\ draft'[d] = draft[d] /\ d.experiment # c.experiment
  BY <1>1 DEF LogInv, LogShape, AppendEvent, ChainLocked
<1>9. \A d \in Calls : pc'[d] = "chained" => DraftFits(d)'
  BY <1>1, <1>7, <1>8 DEF LogInv, DraftsFit, DraftFits
<1>10. DraftsFit'
  BY <1>8, <1>9 DEF LogInv, DraftsFit
<1> QED
  BY <1>3, <1>4, <1>5, <1>10 DEF LogInv

LEMMA CommitCallStep ==
  ASSUME LogInv, NEW c \in Calls, CommitCall(c)
  PROVE  LogInv'
<1> DEFINE x == c.experiment
           log == audit[x]
           longer == Append(log, draft[c])
<1>1. x \in Experiments
  BY CallsAreContentAddressed DEF CallsAssumption
<1>2. Unbroken(x, log) /\ DraftFits(c)
  BY <1>1 DEF LogInv, LogShape, DraftsFit, CommitCall
<1>3. ~PlaceTaken(c)
  BY <1>2, NextEvent DEF PlaceTaken, DraftFits
<1>4. /\ pc' = [pc EXCEPT ![c] = "done"]
      /\ audit' = [audit EXCEPT ![x] = longer]
      /\ rows' = rows \/ rows' = rows \cup {RowOf(c)}
      /\ draft' = [draft EXCEPT ![c] = NoEvent]
      /\ batches' = batches
  BY <1>3 DEF CommitCall, Goto, LogInv, LogShape
<1>5. Unbroken(x, longer)
  BY <1>2, AppendUnbroken DEF DraftFits
<1>6. /\ Len(log) \in Nat /\ Len(longer) = Len(log) + 1
      /\ longer[Len(log) + 1].object = c.object
      /\ \A i \in 1 .. Len(log) : longer[i] = log[i]
  <2>1. draft[c].object = c.object
    BY <1>2, NextEvent DEF DraftFits
  <2>2. IsSequence(log)
    BY <1>2 DEF Unbroken
  <2> QED
    BY <2>1, <2>2, SequenceFacts, AppendFacts
<1>7. /\ audit'[x] = longer
      /\ \A e \in Experiments : e # x => audit'[e] = audit[e]
  BY <1>1, <1>4 DEF LogInv, LogShape
<1> HIDE DEF longer
<1>8. LogShape'
  <2>1. \A e \in Experiments : Unbroken(e, audit'[e]) /\ IsSequence(batches'[e])
    BY <1>4, <1>5, <1>7 DEF LogInv, LogShape
  <2> QED
    BY <1>4, <2>1 DEF LogInv, LogShape, CallPhase
<1>9. RowsAudited'
  <2>1. ~Fresh(longer, c.object)
    BY <1>6 DEF Fresh
  <2>2. \A object : ~Fresh(log, object) => ~Fresh(longer, object)
    BY <1>6 DEF Fresh
  <2>3. ASSUME NEW r \in rows
        PROVE  r.experiment \in Experiments /\ RowAudited(r)'
    BY <1>7, <2>2 DEF LogInv, RowsAudited, RowAudited
  <2>4. RowOf(c).experiment = x /\ RowOf(c).object = c.object
    BY DEF RowOf
  <2>5. RowAudited(RowOf(c))'
    BY <1>7, <2>1, <2>4 DEF RowAudited
  <2> QED
    BY <1>1, <1>4, <2>3, <2>4, <2>5 DEF RowsAudited
<1>10. BatchesLinked'
  BY <1>4 DEF LogInv, BatchesLinked
<1>11. \A d \in Calls : pc'[d] = "chained" =>
         pc[d] = "chained" /\ draft'[d] = draft[d] /\ d.experiment # x
  BY <1>4 DEF LogInv, LogShape, DraftsFit, CommitCall
<1>12. \A d \in Calls : pc'[d] = "chained" => DraftFits(d)'
  <2> SUFFICES ASSUME NEW d \in Calls, pc'[d] = "chained"
               PROVE  DraftFits(d)'
    OBVIOUS
  <2>1. d.experiment \in Experiments
    BY CallsAreContentAddressed DEF CallsAssumption
  <2>2. audit'[d.experiment] = audit[d.experiment] /\ draft'[d] = draft[d] /\ DraftFits(d)
    BY <1>7, <1>11, <2>1 DEF LogInv, DraftsFit
  <2> QED
    BY <2>2 DEF DraftFits
<1>13. DraftsFit'
  BY <1>11, <1>12 DEF LogInv, DraftsFit
<1> QED
  BY <1>8, <1>9, <1>10, <1>13 DEF LogInv

(* The batch createBatch appends, whatever the request. *)
LEMMA CreateBatchStep ==
  ASSUME LogInv, NEW q, CreateBatch(q)
  PROVE  /\ LogInv'
         /\ \E built :
              /\ built.batch.id = q.id
              /\ batches' = [batches EXCEPT ![q.experiment] = Append(@, built)]
<1> DEFINE x == q.experiment
           events == SubSeq(audit[x], NextFirst(x), q.last)
           built == BuildBatch(x, q.id, events, BatchHead(x))
           longer == Append(batches[x], built)
<1>1. /\ batches' = [batches EXCEPT ![x] = longer]
      /\ UNCHANGED <<pc, draft, insertion, rows, audit>>
  BY DEF CreateBatch
<1>2. built.batch.id = q.id /\ built.batch.previous = BatchHead(x)
  BY DEF BuildBatch
<1> HIDE DEF built
<1>3. \A e \in Experiments :
        batches'[e] = IF e = x THEN Append(batches[e], built) ELSE batches[e]
  BY <1>1 DEF LogInv, LogShape
<1>4. \A e \in Experiments : IsSequence(batches'[e])
  BY <1>3, AppendFacts DEF LogInv, LogShape
<1>5. batches' = [e \in Experiments |-> batches'[e]]
  BY <1>1 DEF LogInv, LogShape
<1>6. LogShape'
  BY <1>1, <1>4, <1>5 DEF LogInv, LogShape
<1>7. DraftsFit' /\ RowsAudited'
  BY <1>1 DEF LogInv, DraftsFit, DraftFits, RowsAudited, RowAudited
<1>8. BatchesLinked'
  <2> SUFFICES ASSUME NEW e \in Experiments, NEW i \in 1 .. Len(batches'[e]), i > 1
               PROVE  batches'[e][i].batch.previous # NoHash
    BY DEF BatchesLinked
  <2>1. IsSequence(batches[e]) /\ Len(batches[e]) \in Nat
    BY SequenceFacts DEF LogInv, LogShape
  <2> DEFINE grown == Append(batches[e], built)
  <2>2. /\ grown[Len(batches[e]) + 1] = built
        /\ Len(grown) = Len(batches[e]) + 1
        /\ \A j \in 1 .. Len(batches[e]) : grown[j] = batches[e][j]
    BY <2>1, AppendFacts
  <2>3. batches'[e] = IF e = x THEN grown ELSE batches[e]
    BY <1>3
  <2> HIDE DEF grown
  <2>4. CASE i \in 1 .. Len(batches[e])
    <3>1. batches'[e][i] = batches[e][i]
      BY <2>2, <2>3, <2>4
    <3> QED
      BY <2>4, <3>1 DEF LogInv, BatchesLinked
  <2>5. CASE i \notin 1 .. Len(batches[e])
    <3>1. e = x /\ i = Len(batches[e]) + 1
      BY <2>1, <2>2, <2>3, <2>5
    <3>2. BatchHead(x) # NoHash
      BY <2>1, <3>1, SequenceFacts DEF BatchHead, BatchHash, NoHash
    <3> QED
      BY <1>2, <2>2, <2>3, <3>1, <3>2
  <2> QED
    BY <2>4, <2>5
<1> QED
  BY <1>1, <1>2, <1>6, <1>7, <1>8 DEF LogInv

LEMMA LogStep ==
  ASSUME LogInv, LogNext
  PROVE  LogInv'
<1>1. ASSUME NEW c \in Calls, ReturnStored(c) \/ RefuseParent(c) \/ InsertRow(c)
      PROVE  LogInv'
  BY <1>1, QuietStep DEF ReturnStored, RefuseParent, InsertRow, Goto, CallPhase
<1>2. ASSUME NEW c \in Calls, AbortCall(c)
      PROVE  LogInv'
  BY <1>2, QuietStep DEF AbortCall, Goto, CallPhase
<1> QED
  BY <1>1, <1>2, AppendEventStep, CommitCallStep, CreateBatchStep DEF LogNext

LEMMA LogInvVerifies == LogInv => ChainVerifies
<1> SUFFICES ASSUME LogInv PROVE ChainVerifies
  OBVIOUS
<1>1. ASSUME NEW e \in Experiments
      PROVE  /\ AuditContinuous(audit[e])
             /\ IsInjective([i \in DOMAIN audit[e] |-> audit[e][i].object])
             /\ \A i \in DOMAIN audit[e] : audit[e][i].experiment = e
  BY UnbrokenVerifies DEF LogInv, LogShape
<1>2. ASSUME NEW e \in Experiments, NEW r \in rows, r.experiment = e
      PROVE  \E i \in DOMAIN audit[e] : audit[e][i].object = r.object
  <2>1. DOMAIN audit[e] = 1 .. Len(audit[e])
    BY SequenceFacts DEF LogInv, LogShape, Unbroken
  <2> QED
    BY <1>2, <2>1 DEF LogInv, RowsAudited, RowAudited, Fresh
<1>3. \A c \in Calls : pc[c] # "conflict"
  BY DEF LogInv, LogShape
<1> QED
  BY <1>1, <1>2, <1>3 DEF ChainVerifies

LEMMA LogGrows ==
  ASSUME LogInv, NEW e \in Experiments,
         LogNext \/ \E q : CreateBatch(q)
  PROVE  /\ Len(audit[e]) \in Nat /\ Len(audit'[e]) \in Nat
         /\ Len(audit[e]) <= Len(audit'[e])
         /\ Len(batches[e]) \in Nat /\ Len(batches'[e]) \in Nat
         /\ Len(batches[e]) <= Len(batches'[e])
         /\ \A i \in 1 .. Len(batches[e]) : batches'[e][i] = batches[e][i]
<1>1. LogInv'
  BY LogStep, CreateBatchStep
<1>2. /\ IsSequence(audit[e]) /\ IsSequence(audit'[e])
      /\ IsSequence(batches[e]) /\ IsSequence(batches'[e])
  BY <1>1 DEF LogInv, LogShape, Unbroken
<1>3. /\ Len(audit[e]) \in Nat /\ Len(audit'[e]) \in Nat
      /\ Len(batches[e]) \in Nat /\ Len(batches'[e]) \in Nat
  BY <1>2, SequenceFacts
<1>4. audit'[e] = audit[e] \/ \E event : audit'[e] = Append(audit[e], event)
  <2>1. ASSUME NEW c \in Calls, CommitCall(c)
        PROVE  audit'[e] = audit[e] \/ \E event : audit'[e] = Append(audit[e], event)
    BY <2>1 DEF CommitCall, LogInv, LogShape
  <2> QED
    BY <2>1 DEF LogNext, ReturnStored, RefuseParent, InsertRow, AppendEvent,
                AbortCall, CreateBatch
<1>5. batches'[e] = batches[e] \/ \E built : batches'[e] = Append(batches[e], built)
  <2>1. ASSUME NEW q, CreateBatch(q)
        PROVE  batches'[e] = batches[e] \/ \E built : batches'[e] = Append(batches[e], built)
    <3>1. PICK built : batches' = [batches EXCEPT ![q.experiment] = Append(@, built)]
      BY <2>1, CreateBatchStep
    <3>2. batches'[e] = batches[e] \/ batches'[e] = Append(batches[e], built)
      BY <3>1 DEF LogInv, LogShape
    <3> QED
      BY <3>2
  <2> QED
    BY <2>1 DEF LogNext, ReturnStored, RefuseParent, InsertRow, AppendEvent,
                AbortCall, CommitCall
<1>6. Len(audit[e]) <= Len(audit'[e])
  BY <1>2, <1>3, <1>4, AppendFacts
<1>7. /\ Len(batches[e]) <= Len(batches'[e])
      /\ \A i \in 1 .. Len(batches[e]) : batches'[e][i] = batches[e][i]
  BY <1>2, <1>3, <1>5, AppendFacts
<1> QED
  BY <1>3, <1>6, <1>7

-----------------------------------------------------------------------------
(* The batches *)

(* The batches bs are what createBatch builds from the log, one after the other. *)
Rebuilds(e, log, bs) ==
  \A i \in 1 .. Len(bs) :
    LET b == bs[i].batch
    IN  /\ b.experiment = e
        /\ b.first = IF i = 1 THEN 1 ELSE bs[i - 1].batch.last + 1
        /\ b.first \in 1 .. Len(log) /\ b.last \in b.first .. Len(log)
        /\ b.previous = IF i = 1 THEN NoHash ELSE BatchHash(bs[i - 1].batch)
        /\ bs[i] = BuildBatch(e, b.id, SubSeq(log, b.first, b.last), b.previous)

BatchInv == \A e \in Experiments : Rebuilds(e, audit[e], batches[e])

LEMMA RangeFacts ==
  ASSUME NEW s, IsSequence(s), NEW a \in 1 .. Len(s), NEW b \in a .. Len(s)
  PROVE  LET t == SubSeq(s, a, b)
         IN  /\ Len(t) = b - a + 1 /\ Len(t) \in 1 .. Len(s)
             /\ t[1] = s[a] /\ t[Len(t)] = s[b]
<1>1. PICK S : s \in Seq(S)
  BY DEF IsSequence
<1>2. Len(s) \in Nat /\ a \in Nat /\ b \in Nat /\ a <= b /\ 1 <= a /\ b <= Len(s)
  BY <1>1
<1> QED
  BY <1>1, <1>2

LEMMA RangeOfLonger ==
  ASSUME NEW s, IsSequence(s), NEW x, NEW a \in 1 .. Len(s), NEW b \in a .. Len(s)
  PROVE  SubSeq(Append(s, x), a, b) = SubSeq(s, a, b)
<1>1. PICK S : s \in Seq(S)
  BY DEF IsSequence
<1>2. Len(s) \in Nat /\ a \in Nat /\ b \in Nat /\ a <= b /\ 1 <= a /\ b <= Len(s)
  BY <1>1
<1>3. \A i \in 1 .. b - a + 1 : Append(s, x)[i + a - 1] = s[i + a - 1]
  BY <1>1, <1>2
<1> QED
  BY <1>1, <1>2, <1>3

LEMMA LongerLog ==
  ASSUME NEW e, NEW log, IsSequence(log), NEW bs, NEW event, Rebuilds(e, log, bs)
  PROVE  Rebuilds(e, Append(log, event), bs)
<1> SUFFICES ASSUME NEW i \in 1 .. Len(bs)
             PROVE  LET b == bs[i].batch
                        longer == Append(log, event)
                    IN  /\ b.experiment = e
                        /\ b.first = IF i = 1 THEN 1 ELSE bs[i - 1].batch.last + 1
                        /\ b.first \in 1 .. Len(longer) /\ b.last \in b.first .. Len(longer)
                        /\ b.previous = IF i = 1 THEN NoHash ELSE BatchHash(bs[i - 1].batch)
                        /\ bs[i] = BuildBatch(e, b.id, SubSeq(longer, b.first, b.last), b.previous)
  BY DEF Rebuilds
<1> DEFINE b == bs[i].batch
           longer == Append(log, event)
<1>1. /\ b.experiment = e
      /\ b.first = IF i = 1 THEN 1 ELSE bs[i - 1].batch.last + 1
      /\ b.first \in 1 .. Len(log) /\ b.last \in b.first .. Len(log)
      /\ b.previous = IF i = 1 THEN NoHash ELSE BatchHash(bs[i - 1].batch)
      /\ bs[i] = BuildBatch(e, b.id, SubSeq(log, b.first, b.last), b.previous)
  BY DEF Rebuilds
<1>2. Len(log) \in Nat /\ Len(longer) = Len(log) + 1
  BY SequenceFacts, AppendFacts
<1>3. SubSeq(longer, b.first, b.last) = SubSeq(log, b.first, b.last)
  BY <1>1, RangeOfLonger
<1> HIDE DEF longer
<1>4. b.first \in 1 .. Len(longer) /\ b.last \in b.first .. Len(longer)
  BY <1>1, <1>2
<1>5. bs[i] = BuildBatch(e, b.id, SubSeq(longer, b.first, b.last), b.previous)
  BY <1>1, <1>3
<1> QED
  BY <1>1, <1>4, <1>5 DEF longer

LEMMA NextBatch ==
  ASSUME NEW e, NEW log, Unbroken(e, log), NEW bs, IsSequence(bs), Rebuilds(e, log, bs),
         NEW id, NEW last \in Nat, NEW first, NEW previous,
         first = IF Len(bs) = 0 THEN 1 ELSE bs[Len(bs)].batch.last + 1,
         first <= last, last <= Len(log),
         previous = IF Len(bs) = 0 THEN NoHash ELSE BatchHash(bs[Len(bs)].batch)
  PROVE  Rebuilds(e, log, Append(bs, BuildBatch(e, id, SubSeq(log, first, last), previous)))
<1> DEFINE events == SubSeq(log, first, last)
           built == BuildBatch(e, id, events, previous)
           more == Append(bs, built)
<1>1. IsSequence(log) /\ Len(log) \in Nat /\ Len(bs) \in Nat
  BY SequenceFacts DEF Unbroken
<1>2. first \in 1 .. Len(log) /\ last \in first .. Len(log)
  <2>1. CASE Len(bs) = 0
    BY <1>1, <2>1
  <2>2. CASE Len(bs) # 0
    <3>1. Len(bs) \in 1 .. Len(bs)
      BY <1>1, <2>2
    <3>2. bs[Len(bs)].batch.last \in bs[Len(bs)].batch.first .. Len(log)
          /\ bs[Len(bs)].batch.first \in 1 .. Len(log)
      BY <3>1 DEF Rebuilds
    <3> QED
      BY <1>1, <2>2, <3>2
  <2> QED
    BY <2>1, <2>2
<1>3. events[1].sequence = first /\ events[Len(events)].sequence = last
  <2>1. events[1] = log[first] /\ events[Len(events)] = log[last]
    BY <1>1, <1>2, RangeFacts
  <2>2. first \in 1 .. Len(log) /\ last \in 1 .. Len(log)
    BY <1>1, <1>2
  <2>3. log[first].sequence = first /\ log[last].sequence = last
    BY <2>2 DEF Unbroken
  <2> QED
    BY <2>1, <2>3
<1>4. /\ built.batch.experiment = e /\ built.batch.id = id
      /\ built.batch.first = first /\ built.batch.last = last
      /\ built.batch.previous = previous
  BY <1>3 DEF BuildBatch
<1>5. built = BuildBatch(e, built.batch.id, SubSeq(log, built.batch.first, built.batch.last),
                         built.batch.previous)
  BY <1>4
<1> HIDE DEF built
<1>6. /\ Len(more) = Len(bs) + 1 /\ more[Len(bs) + 1] = built
      /\ \A i \in 1 .. Len(bs) : more[i] = bs[i]
  BY AppendFacts
<1> HIDE DEF more, events
<1>7. ASSUME NEW i \in 1 .. Len(more)
      PROVE  LET b == more[i].batch
             IN  /\ b.experiment = e
                 /\ b.first = IF i = 1 THEN 1 ELSE more[i - 1].batch.last + 1
                 /\ b.first \in 1 .. Len(log) /\ b.last \in b.first .. Len(log)
                 /\ b.previous = IF i = 1 THEN NoHash ELSE BatchHash(more[i - 1].batch)
                 /\ more[i] = BuildBatch(e, b.id, SubSeq(log, b.first, b.last), b.previous)
  <2>1. CASE i \in 1 .. Len(bs)
    <3>1. more[i] = bs[i] /\ (i # 1 => more[i - 1] = bs[i - 1])
      BY <1>1, <1>6, <2>1
    <3> QED
      BY <2>1, <3>1 DEF Rebuilds
  <2>2. CASE i = Len(bs) + 1
    <3>1. more[i] = built /\ (i = 1 <=> Len(bs) = 0)
          /\ (i # 1 => i - 1 = Len(bs) /\ more[i - 1] = bs[Len(bs)])
      BY <1>1, <1>6, <2>2
    <3> QED
      BY <1>2, <1>4, <1>5, <3>1
  <2> QED
    BY <1>1, <1>6, <2>1, <2>2
<1>8. Rebuilds(e, log, more)
  BY <1>7 DEF Rebuilds
<1> QED
  BY <1>8 DEF more, built, events

LEMMA BatchInvInit ==
  ASSUME NEW made, LogInit(made)
  PROVE  BatchInv
<1>1. batches = [e \in Experiments |-> << >>]
  BY DEF LogInit
<1> QED
  BY <1>1 DEF BatchInv, Rebuilds

LEMMA BatchesOfRequest ==
  ASSUME LogInv, BatchInv, NEW q, q.last \in Nat, CreateBatch(q)
  PROVE  BatchInv'
<1> DEFINE x == q.experiment
           bs == batches[x]
           events == SubSeq(audit[x], NextFirst(x), q.last)
           built == BuildBatch(x, q.id, events, BatchHead(x))
           more == Append(bs, built)
<1>1. /\ batches' = [batches EXCEPT ![x] = more]
      /\ audit' = audit
  BY DEF CreateBatch
<1>2. ASSUME x \in Experiments PROVE Rebuilds(x, audit[x], more)
  <2>1. Unbroken(x, audit[x]) /\ IsSequence(bs) /\ Rebuilds(x, audit[x], bs)
    BY <1>2 DEF LogInv, LogShape, BatchInv
  <2>2. Len(bs) \in Nat /\ (bs = << >> <=> Len(bs) = 0)
    BY <2>1, SequenceFacts
  <2>3. NextFirst(x) = IF Len(bs) = 0 THEN 1 ELSE bs[Len(bs)].batch.last + 1
    BY <2>2 DEF NextFirst, LastBatched
  <2>4. BatchHead(x) = IF Len(bs) = 0 THEN NoHash ELSE BatchHash(bs[Len(bs)].batch)
    BY <2>2 DEF BatchHead
  <2>5. NextFirst(x) <= q.last /\ q.last <= Len(audit[x])
    BY DEF CreateBatch
  <2> QED
    BY <2>1, <2>3, <2>4, <2>5, NextBatch
<1> HIDE DEF more
<1>3. \A e \in Experiments : batches'[e] = IF e = x THEN more ELSE batches[e]
  BY <1>1 DEF LogInv, LogShape
<1> QED
  BY <1>1, <1>2, <1>3 DEF BatchInv

LEMMA BatchInvStutter ==
  ASSUME BatchInv, UNCHANGED <<audit, batches>>
  PROVE  BatchInv'
BY DEF BatchInv

LEMMA BatchesOfLog ==
  ASSUME LogInv, BatchInv, LogNext
  PROVE  BatchInv'
<1>1. ASSUME NEW c \in Calls, CommitCall(c)
      PROVE  BatchInv'
  <2> SUFFICES ASSUME NEW e \in Experiments PROVE Rebuilds(e, audit'[e], batches'[e])
    BY DEF BatchInv
  <2>1. batches'[e] = batches[e] /\ Rebuilds(e, audit[e], batches[e])
        /\ IsSequence(audit[e])
    BY <1>1 DEF CommitCall, BatchInv, LogInv, LogShape, Unbroken
  <2>2. audit'[e] = audit[e] \/ audit'[e] = Append(audit[e], draft[c])
    BY <1>1 DEF CommitCall, LogInv, LogShape
  <2> QED
    BY <2>1, <2>2, LongerLog
<1>2. ASSUME NEW q \in BatchRequests, CreateBatch(q)
      PROVE  BatchInv'
  BY <1>2, RequestsAssumption, BatchesOfRequest
<1> QED
  BY <1>1, <1>2, BatchInvStutter DEF LogNext, ReturnStored, RefuseParent, InsertRow,
     AppendEvent, AbortCall

LEMMA BatchInvRebuilds == LogInv /\ BatchInv => BatchesRebuild
<1> SUFFICES ASSUME LogInv, BatchInv, NEW e \in Experiments
             PROVE  /\ BatchesContinuous([i \in DOMAIN batches[e] |-> batches[e][i].batch])
                    /\ LastBatched(e) <= Len(audit[e])
                    /\ \A i \in DOMAIN batches[e] :
                         Rebuilt(e, batches[e][i]) = batches[e][i]
  BY DEF BatchesRebuild
<1> DEFINE bs == batches[e]
<1>1. /\ Len(bs) \in Nat /\ DOMAIN bs = 1 .. Len(bs) /\ (bs = << >> <=> Len(bs) = 0)
      /\ Len(audit[e]) \in Nat
  BY SequenceFacts DEF LogInv, LogShape, Unbroken
<1>2. \A i \in 1 .. Len(bs) :
        /\ bs[i].batch.experiment = e
        /\ bs[i].batch.first = IF i = 1 THEN 1 ELSE bs[i - 1].batch.last + 1
        /\ bs[i].batch.last \in bs[i].batch.first .. Len(audit[e])
        /\ bs[i].batch.previous = IF i = 1 THEN NoHash ELSE BatchHash(bs[i - 1].batch)
        /\ bs[i] = BuildBatch(e, bs[i].batch.id,
                     SubSeq(audit[e], bs[i].batch.first, bs[i].batch.last),
                     bs[i].batch.previous)
  BY DEF BatchInv, Rebuilds
<1>3. \A i \in 1 .. Len(bs) : Rebuilt(e, bs[i]) = bs[i]
  BY <1>2 DEF Rebuilt
<1>4. LastBatched(e) <= Len(audit[e])
  <2>1. CASE Len(bs) = 0
    BY <1>1, <2>1 DEF LastBatched
  <2>2. CASE Len(bs) # 0
    <3>1. Len(bs) \in 1 .. Len(bs)
      BY <1>1, <2>2
    <3>2. bs[Len(bs)].batch.last <= Len(audit[e])
      BY <1>1, <1>2, <3>1
    <3> QED
      BY <1>1, <2>2, <3>2 DEF LastBatched
  <2> QED
    BY <2>1, <2>2
<1>5. BatchesContinuous([i \in DOMAIN bs |-> bs[i].batch])
  <2> DEFINE list == [i \in DOMAIN bs |-> bs[i].batch]
  <2>1. DOMAIN list = 1 .. Len(bs) /\ \A i \in 1 .. Len(bs) : list[i] = bs[i].batch
    BY <1>1
  <2> HIDE DEF list
  <2>2. ASSUME NEW i \in 1 .. Len(bs)
        PROVE  /\ list[i].experiment = list[1].experiment
               /\ list[i].first = IF i = 1 THEN 1 ELSE list[i - 1].last + 1
               /\ list[i].previous = IF i = 1 THEN NoHash ELSE BatchHash(list[i - 1])
    <3>1. 1 \in 1 .. Len(bs) /\ (i # 1 => i - 1 \in 1 .. Len(bs))
      BY <1>1
    <3>2. /\ list[i] = bs[i].batch /\ list[1] = bs[1].batch
          /\ (i # 1 => list[i - 1] = bs[i - 1].batch)
      BY <2>1, <3>1
    <3>3. bs[i].batch.experiment = e /\ bs[1].batch.experiment = e
      BY <1>2, <3>1
    <3>4. /\ bs[i].batch.first = IF i = 1 THEN 1 ELSE bs[i - 1].batch.last + 1
          /\ bs[i].batch.previous = IF i = 1 THEN NoHash ELSE BatchHash(bs[i - 1].batch)
      BY <1>2
    <3> HIDE DEF bs
    <3>5. CASE i = 1
      BY <3>2, <3>3, <3>4, <3>5
    <3>6. CASE i # 1
      BY <3>2, <3>3, <3>4, <3>6
    <3> QED
      BY <3>5, <3>6
  <2>3. BatchesContinuous(list)
    BY <2>1, <2>2 DEF BatchesContinuous
  <2> QED
    BY <2>3 DEF list
<1> QED
  BY <1>1, <1>3, <1>4, <1>5

-----------------------------------------------------------------------------
(* The rows in the order of their insertion *)

(* The sequence s without its element at i. *)
Without(s, i) == [k \in 1 .. Len(s) - 1 |-> IF k < i THEN s[k] ELSE s[k + 1]]

LEMMA RemovedAt ==
  ASSUME NEW S, NEW s \in Seq(S), NEW i \in 1 .. Len(s)
  PROVE  /\ RemoveAt(s, i) \in Seq(S)
         /\ Len(RemoveAt(s, i)) = Len(s) - 1
         /\ \A k \in 1 .. Len(s) - 1 :
              RemoveAt(s, i)[k] = IF k < i THEN s[k] ELSE s[k + 1]
<1> DEFINE a == SubSeq(s, 1, i - 1)
           b == SubSeq(s, i + 1, Len(s))
<1>1. Len(s) \in Nat /\ i \in Nat /\ 1 <= i /\ i <= Len(s)
  OBVIOUS
<1>2. a \in Seq(S) /\ Len(a) = i - 1 /\ \A k \in 1 .. i - 1 : a[k] = s[k]
  BY <1>1
<1>3. b \in Seq(S) /\ Len(b) = Len(s) - i /\ \A k \in 1 .. Len(s) - i : b[k] = s[k + i]
  BY <1>1
<1> HIDE DEF a, b
<1>4. RemoveAt(s, i) = a \o b
  BY DEF RemoveAt, a, b
<1>5. /\ a \o b \in Seq(S) /\ Len(a \o b) = Len(s) - 1
      /\ \A k \in 1 .. Len(s) - 1 : (a \o b)[k] = IF k <= i - 1 THEN a[k] ELSE b[k - (i - 1)]
  <2>1. /\ a \o b \in Seq(S) /\ Len(a \o b) = Len(a) + Len(b)
        /\ \A k \in 1 .. Len(a) + Len(b) :
             (a \o b)[k] = IF k <= Len(a) THEN a[k] ELSE b[k - Len(a)]
    BY <1>2, <1>3, ConcatProperties
  <2>2. Len(a) = i - 1 /\ Len(a) + Len(b) = Len(s) - 1
    BY <1>1, <1>2, <1>3
  <2> QED BY <2>1, <2>2
<1>6. ASSUME NEW k \in 1 .. Len(s) - 1
      PROVE  (a \o b)[k] = IF k < i THEN s[k] ELSE s[k + 1]
  <2>1. CASE k < i
    <3>1. k \in 1 .. i - 1 /\ k <= i - 1
      BY <1>1, <2>1
    <3> QED BY <1>2, <1>5, <2>1, <3>1
  <2>2. CASE ~ (k < i)
    <3>1. k - (i - 1) \in 1 .. Len(s) - i /\ (k - (i - 1)) + i = k + 1 /\ ~ (k <= i - 1)
      BY <1>1, <2>2
    <3>2. (a \o b)[k] = b[k - (i - 1)]
      BY <1>5, <3>1
    <3>3. b[k - (i - 1)] = s[(k - (i - 1)) + i]
      BY <1>3, <3>1
    <3> QED BY <2>2, <3>1, <3>2, <3>3
  <2> QED BY <2>1, <2>2
<1> QED BY <1>4, <1>5, <1>6

(* RemoveFirst takes the only occurrence of x away, or leaves s alone. *)
LEMMA RemovedFirst ==
  ASSUME NEW s, NEW x, NEW i \in 1 .. Len(s), s[i] = x,
         \A k \in 1 .. Len(s) : s[k] = x => k = i
  PROVE  RemoveFirst(s, x) = RemoveAt(s, i)
<1> DEFINE I == {k \in 1 .. Len(s) : s[k] = x}
<1>1. I = {i}
  OBVIOUS
<1>2. SelectInSeq(s, LAMBDA v : v = x) = IF I # {} THEN Min(I) ELSE 0
  BY DEF SelectInSeq
<1>3. Min(I) = i
  BY <1>1 DEF Min
<1>4. SelectInSeq(s, LAMBDA v : v = x) = i
  BY <1>1, <1>2, <1>3
<1> QED BY <1>4 DEF RemoveFirst

LEMMA NothingRemoved ==
  ASSUME NEW s, NEW x, \A i \in 1 .. Len(s) : s[i] # x
  PROVE  RemoveFirst(s, x) = s
BY DEF RemoveFirst

(* Transactions that have inserted a row and not yet ended. *)
Waiting == {c \in Calls : pc[c] \in {"inserted", "chained"} /\ c.kind # "OBJECT"}

(* c may name p: the committed row of p is what ParentFits looks for. *)
ParentOf(p, c) ==
  /\ p.object = c.parent /\ p.kind = c.kind /\ p.experiment = c.experiment
  /\ c.kind = "EVALUATION" => p.scenario = c.scenario

(* The rows R and the open transactions W account for the insertions s, each
   object inserted once and after the row it names, which was committed. *)
Ordered(s, R, W) ==
  /\ s \in Seq(Calls)
  /\ \A i, j \in 1 .. Len(s) : s[i].object = s[j].object => i = j
  /\ \A c \in W : \E i \in 1 .. Len(s) : s[i] = c
  /\ \A c \in W : \A r \in R : r.object # c.object
  /\ \A r \in R : \E i \in 1 .. Len(s) : r = RowOf(s[i])
  /\ \A i \in 1 .. Len(s) :
       /\ s[i].kind # "OBJECT"
       /\ s[i] \in W \/ RowOf(s[i]) \in R
       /\ s[i].parent # NoParent =>
            \E j \in 1 .. Len(s) : j < i /\ RowOf(s[j]) \in R /\ ParentOf(s[j], s[i])

LEMMA RowFacts ==
  ASSUME NEW c
  PROVE  /\ RowOf(c).object = c.object /\ RowOf(c).kind = c.kind
         /\ RowOf(c).experiment = c.experiment /\ RowOf(c).scenario = c.scenario
         /\ RowOf(c).parent = c.parent
BY DEF RowOf

LEMMA InsertedOrdered ==
  ASSUME NEW s, NEW R, NEW W, Ordered(s, R, W), NEW c \in Calls, c.kind # "OBJECT",
         \A d \in W : d.object # c.object, \A r \in R : r.object # c.object,
         c.parent # NoParent =>
           \E r \in R : /\ r.object = c.parent /\ r.kind = c.kind
                        /\ r.experiment = c.experiment
                        /\ c.kind = "EVALUATION" => r.scenario = c.scenario
  PROVE  Ordered(Append(s, c), R, W \cup {c})
<1> DEFINE t == Append(s, c)
           n == Len(s) + 1
<1>1. /\ s \in Seq(Calls) /\ Len(s) \in Nat
      /\ \A i \in 1 .. Len(s) : s[i] \in Calls
  BY DEF Ordered
<1>2. /\ t \in Seq(Calls) /\ Len(t) = n /\ t[n] = c
      /\ \A i \in 1 .. Len(s) : t[i] = s[i]
  BY <1>1
<1> HIDE DEF t
<1>3. \A i \in 1 .. Len(s) : s[i].object # c.object
  BY RowFacts DEF Ordered
<1>4. \A i \in 1 .. Len(t) : i \in 1 .. Len(s) \/ i = n
  BY <1>1, <1>2
<1>5. 1 .. Len(s) \subseteq 1 .. Len(t) /\ n \in 1 .. Len(t) /\ \A i \in 1 .. Len(s) : i < n
  BY <1>1, <1>2
<1> HIDE DEF n
<1>6. \A i, j \in 1 .. Len(t) : t[i].object = t[j].object => i = j
  BY <1>2, <1>3, <1>4 DEF Ordered
<1>7. \A d \in W \cup {c} : \E i \in 1 .. Len(t) : t[i] = d
  BY <1>2, <1>5 DEF Ordered
<1>8. \A d \in W \cup {c} : \A r \in R : r.object # d.object
  BY DEF Ordered
<1>9. \A r \in R : \E i \in 1 .. Len(t) : r = RowOf(t[i])
  BY <1>2, <1>5 DEF Ordered
<1>10. ASSUME NEW i \in 1 .. Len(t)
       PROVE  /\ t[i].kind # "OBJECT"
              /\ t[i] \in W \cup {c} \/ RowOf(t[i]) \in R
  BY <1>2, <1>4 DEF Ordered
<1>11. ASSUME NEW i \in 1 .. Len(t), t[i].parent # NoParent
       PROVE  \E j \in 1 .. Len(t) : j < i /\ RowOf(t[j]) \in R /\ ParentOf(t[j], t[i])
  <2>1. CASE i \in 1 .. Len(s)
    <3>1. PICK j \in 1 .. Len(s) : j < i /\ RowOf(s[j]) \in R /\ ParentOf(s[j], s[i])
      BY <1>2, <1>11, <2>1 DEF Ordered
    <3> QED BY <1>2, <1>5, <2>1, <3>1
  <2>2. CASE i = n
    <3>1. PICK r \in R : /\ r.object = c.parent /\ r.kind = c.kind
                         /\ r.experiment = c.experiment
                         /\ c.kind = "EVALUATION" => r.scenario = c.scenario
      BY <1>2, <1>11, <2>2
    <3>2. PICK j \in 1 .. Len(s) : r = RowOf(s[j])
      BY DEF Ordered
    <3>3. ParentOf(s[j], c)
      BY <3>1, <3>2, RowFacts DEF ParentOf
    <3> QED BY <1>2, <1>5, <2>2, <3>2, <3>3
  <2> QED BY <1>4, <2>1, <2>2
<1>12. Ordered(t, R, W \cup {c})
  BY <1>2, <1>6, <1>7, <1>8, <1>9, <1>10, <1>11 DEF Ordered
<1> QED BY <1>12 DEF t

LEMMA CommittedOrdered ==
  ASSUME NEW s, NEW R, NEW W, Ordered(s, R, W), NEW c \in W
  PROVE  Ordered(s, R \cup {RowOf(c)}, W \ {c})
<1>1. PICK m \in 1 .. Len(s) : s[m] = c
  BY DEF Ordered
<1>2. \A d \in W \ {c} : d.object # c.object
  BY <1>1 DEF Ordered
<1>3. \A d \in W \ {c} : \A r \in R \cup {RowOf(c)} : r.object # d.object
  BY <1>2, RowFacts DEF Ordered
<1>4. \A r \in R \cup {RowOf(c)} : \E i \in 1 .. Len(s) : r = RowOf(s[i])
  BY <1>1 DEF Ordered
<1> QED BY <1>3, <1>4 DEF Ordered

LEMMA RemovedOrdered ==
  ASSUME NEW s, NEW R, NEW W, Ordered(s, R, W), NEW c \in W
  PROVE  Ordered(RemoveFirst(s, c), R, W \ {c})
<1>1. s \in Seq(Calls) /\ Len(s) \in Nat
  BY DEF Ordered
<1>2. PICK m \in 1 .. Len(s) : s[m] = c
  BY DEF Ordered
<1>3. \A i \in 1 .. Len(s) : s[i].object = c.object => i = m
  BY <1>2 DEF Ordered
<1>4. RowOf(c) \notin R
  BY RowFacts DEF Ordered
<1> DEFINE t == RemoveFirst(s, c)
           from(k) == IF k < m THEN k ELSE k + 1
           to(i) == IF i < m THEN i ELSE i - 1
<1>5. /\ t \in Seq(Calls) /\ Len(t) = Len(s) - 1
      /\ \A k \in 1 .. Len(s) - 1 : t[k] = IF k < m THEN s[k] ELSE s[k + 1]
  <2>1. t = RemoveAt(s, m)
    BY <1>2, <1>3, RemovedFirst
  <2> HIDE DEF t
  <2> QED BY <1>1, <2>1, RemovedAt
<1> HIDE DEF t
<1>6. \A k \in 1 .. Len(t) : from(k) \in 1 .. Len(s) /\ from(k) # m /\ t[k] = s[from(k)]
  BY <1>1, <1>5
<1>7. \A i \in 1 .. Len(s) : i # m => to(i) \in 1 .. Len(t) /\ from(to(i)) = i
  BY <1>1, <1>5
<1>8. \A i \in 1 .. Len(s) : i # m => to(i) \in 1 .. Len(t) /\ t[to(i)] = s[i]
  BY <1>6, <1>7
<1>9. \A k, l \in 1 .. Len(t) : from(k) = from(l) => k = l
  BY <1>1, <1>5
<1>10. \A i, k \in 1 .. Len(s) : i # m /\ i < from(k) => to(i) < k
  BY <1>1, <1>5
<1>11. \A k \in 1 .. Len(t) : k \in 1 .. Len(s)
  BY <1>1, <1>5
<1> HIDE DEF from, to
<1>12. \A k, l \in 1 .. Len(t) : t[k].object = t[l].object => k = l
  BY <1>6, <1>9 DEF Ordered
<1>13. \A d \in W \ {c} : \E k \in 1 .. Len(t) : t[k] = d
  <2> SUFFICES ASSUME NEW d \in W \ {c} PROVE \E k \in 1 .. Len(t) : t[k] = d
    OBVIOUS
  <2>1. PICK i \in 1 .. Len(s) : s[i] = d
    BY DEF Ordered
  <2>2. i # m
    BY <1>2, <2>1
  <2> QED BY <1>8, <2>1, <2>2
<1>14. \A r \in R : \E k \in 1 .. Len(t) : r = RowOf(t[k])
  <2> SUFFICES ASSUME NEW r \in R PROVE \E k \in 1 .. Len(t) : r = RowOf(t[k])
    OBVIOUS
  <2>1. PICK i \in 1 .. Len(s) : r = RowOf(s[i])
    BY DEF Ordered
  <2>2. i # m
    BY <1>2, <1>4, <2>1
  <2> QED BY <1>8, <2>1, <2>2
<1>15. ASSUME NEW k \in 1 .. Len(t)
       PROVE  /\ t[k].kind # "OBJECT"
              /\ t[k] \in W \ {c} \/ RowOf(t[k]) \in R
  <2>1. s[from(k)] # c
    BY <1>3, <1>6
  <2> QED BY <1>6, <2>1 DEF Ordered
<1>16. ASSUME NEW k \in 1 .. Len(t), t[k].parent # NoParent
       PROVE  \E j \in 1 .. Len(t) : j < k /\ RowOf(t[j]) \in R /\ ParentOf(t[j], t[k])
  <2>1. PICK i \in 1 .. Len(s) : /\ i < from(k) /\ RowOf(s[i]) \in R
                                 /\ ParentOf(s[i], s[from(k)])
    BY <1>6, <1>16 DEF Ordered
  <2>2. i # m
    BY <1>2, <1>4, <2>1
  <2>3. to(i) < k /\ to(i) \in 1 .. Len(t) /\ t[to(i)] = s[i]
    BY <1>8, <1>10, <1>11, <2>1, <2>2
  <2> QED BY <1>6, <2>1, <2>3
<1>17. \A d \in W \ {c} : \A r \in R : r.object # d.object
  BY DEF Ordered
<1>18. Ordered(t, R, W \ {c})
  BY <1>5, <1>12, <1>13, <1>14, <1>15, <1>16, <1>17 DEF Ordered
<1> QED BY <1>18 DEF t


RowsOrdered == Ordered(insertion, rows, Waiting)

(* The chain holds a committed row after the row it names. *)
CorrectionsAudited ==
  \A r \in rows : r.parent # NoParent =>
    \E i, j \in 1 .. Len(audit[r.experiment]) :
      /\ i < j
      /\ audit[r.experiment][i].object = r.parent
      /\ audit[r.experiment][j].object = r.object

OrderInv == RowsOrdered /\ CorrectionsAudited

LEMMA OrderInvInit ==
  ASSUME NEW made, LogInit(made)
  PROVE  OrderInv
<1>1. Waiting = {}
  BY DEF LogInit, Waiting
<1>2. insertion = << >> /\ rows = {}
  BY DEF LogInit
<1> QED
  BY <1>1, <1>2 DEF OrderInv, RowsOrdered, Ordered, CorrectionsAudited

LEMMA OrderInvStutter ==
  ASSUME OrderInv, UNCHANGED <<insertion, rows, audit>>, Waiting' = Waiting
  PROVE  OrderInv'
BY DEF OrderInv, RowsOrdered, CorrectionsAudited

(* One call changes its phase. *)
LEMMA WaitingNext ==
  ASSUME LogInv, NEW c \in Calls, NEW phase, pc' = [pc EXCEPT ![c] = phase]
  PROVE  /\ c.kind = "OBJECT" => Waiting' = Waiting
         /\ pc[c] \notin {"inserted", "chained"} /\ phase \notin {"inserted", "chained"}
              => Waiting' = Waiting
         /\ pc[c] \in {"inserted", "chained"} /\ phase \in {"inserted", "chained"}
              => Waiting' = Waiting
         /\ c.kind # "OBJECT" /\ phase \in {"inserted", "chained"}
              => Waiting' = Waiting \cup {c}
         /\ c.kind # "OBJECT" /\ phase \notin {"inserted", "chained"}
              => Waiting' = Waiting \ {c}
<1>1. \A d \in Calls : pc'[d] = IF d = c THEN phase ELSE pc[d]
  BY DEF LogInv, LogShape
<1> QED
  BY <1>1 DEF Waiting

LEMMA InsertRowOrdered ==
  ASSUME LogInv, OrderInv, NEW c \in Calls, InsertRow(c)
  PROVE  OrderInv'
<1>1. /\ pc' = [pc EXCEPT ![c] = "inserted"] /\ c.kind # "OBJECT"
      /\ insertion' = Append(insertion, c)
      /\ UNCHANGED <<rows, audit>>
      /\ ~IdentityLocked(c.object) /\ ParentFits(c)
      /\ \A r \in rows : r.object # c.object
  BY DEF InsertRow, Goto
<1>2. Waiting' = Waiting \cup {c}
  BY <1>1, WaitingNext
<1>3. \A d \in Waiting : d.object # c.object
  BY <1>1 DEF Waiting, IdentityLocked
<1>4. c.parent # NoParent =>
        \E r \in rows : /\ r.object = c.parent /\ r.kind = c.kind
                        /\ r.experiment = c.experiment
                        /\ c.kind = "EVALUATION" => r.scenario = c.scenario
  BY <1>1 DEF ParentFits
<1>5. Ordered(Append(insertion, c), rows, Waiting \cup {c})
  BY <1>1, <1>3, <1>4, InsertedOrdered DEF OrderInv, RowsOrdered
<1>6. RowsOrdered'
  BY <1>1, <1>2, <1>5 DEF RowsOrdered
<1>7. CorrectionsAudited'
  BY <1>1 DEF OrderInv, CorrectionsAudited
<1> QED
  BY <1>6, <1>7 DEF OrderInv

LEMMA AbortCallOrdered ==
  ASSUME LogInv, OrderInv, NEW c \in Calls, AbortCall(c)
  PROVE  OrderInv'
<1>1. /\ pc' = [pc EXCEPT ![c] = "idle"] /\ pc[c] \in {"inserted", "chained"}
      /\ insertion' = RemoveFirst(insertion, c)
      /\ UNCHANGED <<rows, audit>>
  BY DEF AbortCall, Goto, Unwound
<1>2. RowsOrdered'
  <2>1. CASE c.kind = "OBJECT"
    <3>1. Waiting' = Waiting
      BY <1>1, <2>1, WaitingNext
    <3>2. insertion' = insertion
      BY <1>1, <2>1, NothingRemoved DEF OrderInv, RowsOrdered, Ordered
    <3> QED
      BY <1>1, <3>1, <3>2 DEF OrderInv, RowsOrdered
  <2>2. CASE c.kind # "OBJECT"
    <3>1. Waiting' = Waiting \ {c} /\ c \in Waiting
      BY <1>1, <2>2, WaitingNext DEF Waiting
    <3>2. Ordered(RemoveFirst(insertion, c), rows, Waiting \ {c})
      BY <3>1, RemovedOrdered DEF OrderInv, RowsOrdered
    <3> QED
      BY <1>1, <3>1, <3>2 DEF RowsOrdered
  <2> QED
    BY <2>1, <2>2
<1>3. CorrectionsAudited'
  BY <1>1 DEF OrderInv, CorrectionsAudited
<1> QED
  BY <1>2, <1>3 DEF OrderInv

LEMMA CommitCallOrdered ==
  ASSUME LogInv, OrderInv, NEW c \in Calls, CommitCall(c)
  PROVE  OrderInv'
<1> DEFINE x == c.experiment
           log == audit[x]
           longer == Append(log, draft[c])
<1>1. x \in Experiments
  BY CallsAreContentAddressed DEF CallsAssumption
<1>2. Unbroken(x, log) /\ DraftFits(c)
  BY <1>1 DEF LogInv, LogShape, DraftsFit, CommitCall
<1>3. ~PlaceTaken(c)
  BY <1>2, NextEvent DEF PlaceTaken, DraftFits
<1>4. /\ pc' = [pc EXCEPT ![c] = "done"] /\ pc[c] = "chained"
      /\ audit' = [audit EXCEPT ![x] = longer]
      /\ rows' = IF c.kind = "OBJECT" THEN rows ELSE rows \cup {RowOf(c)}
      /\ insertion' = insertion
  BY <1>3 DEF CommitCall, Goto, LogInv, LogShape
<1>5. /\ Len(log) \in Nat /\ Len(longer) = Len(log) + 1
      /\ longer[Len(log) + 1].object = c.object
      /\ \A i \in 1 .. Len(log) : longer[i] = log[i]
  <2>1. draft[c].object = c.object
    BY <1>2, NextEvent DEF DraftFits
  <2>2. IsSequence(log)
    BY <1>2 DEF Unbroken
  <2> QED
    BY <2>1, <2>2, SequenceFacts, AppendFacts
<1>6. /\ audit'[x] = longer
      /\ \A e \in Experiments : e # x => audit'[e] = audit[e]
  BY <1>1, <1>4 DEF LogInv, LogShape
<1> HIDE DEF longer
<1>7. RowsOrdered'
  <2>1. CASE c.kind = "OBJECT"
    <3>1. Waiting' = Waiting
      BY <1>4, <2>1, WaitingNext
    <3>2. insertion' = insertion /\ rows' = rows
      BY <1>4, <2>1
    <3> QED BY <3>1, <3>2 DEF OrderInv, RowsOrdered
  <2>2. CASE c.kind # "OBJECT"
    <3>1. Waiting' = Waiting \ {c}
      <4>1. "done" \notin {"inserted", "chained"}
        OBVIOUS
      <4>2. pc' = [pc EXCEPT ![c] = "done"]
        BY <1>4
      <4> QED BY <2>2, <4>1, <4>2, WaitingNext
    <3>2. c \in Waiting
      BY <1>4, <2>2 DEF Waiting
    <3>3. Ordered(insertion, rows \cup {RowOf(c)}, Waiting \ {c})
      BY <3>2, CommittedOrdered DEF OrderInv, RowsOrdered
    <3> QED
      BY <1>4, <2>2, <3>1, <3>3 DEF RowsOrdered
  <2> QED
    BY <2>1, <2>2
<1>8. CorrectionsAudited'
  <2> SUFFICES ASSUME NEW r \in rows', r.parent # NoParent
               PROVE  \E i, j \in 1 .. Len(audit'[r.experiment]) :
                        /\ i < j
                        /\ audit'[r.experiment][i].object = r.parent
                        /\ audit'[r.experiment][j].object = r.object
    BY DEF CorrectionsAudited
  <2>1. CASE r \in rows
    <3>1. PICK i, j \in 1 .. Len(audit[r.experiment]) :
            /\ i < j
            /\ audit[r.experiment][i].object = r.parent
            /\ audit[r.experiment][j].object = r.object
      BY <2>1 DEF OrderInv, CorrectionsAudited
    <3>2. r.experiment \in Experiments
      BY <2>1 DEF LogInv, RowsAudited
    <3>3. CASE r.experiment = x
      <4>1. i \in 1 .. Len(longer) /\ j \in 1 .. Len(longer)
        BY <1>5, <3>1, <3>3
      <4>2. longer[i].object = r.parent /\ longer[j].object = r.object
        BY <1>5, <3>1, <3>3
      <4> QED BY <1>6, <3>1, <3>3, <4>1, <4>2
    <3>4. CASE r.experiment # x
      <4>1. audit'[r.experiment] = audit[r.experiment]
        BY <1>6, <3>2, <3>4
      <4> QED BY <3>1, <4>1
    <3> QED BY <3>3, <3>4
  <2>2. CASE r \notin rows
    <3>1. r = RowOf(c) /\ c.kind # "OBJECT"
      BY <1>4, <2>2
    <3>2. r.experiment = x /\ r.parent = c.parent /\ r.object = c.object
      BY <3>1, RowFacts
    <3>3. PICK m \in 1 .. Len(insertion) : insertion[m] = c
      BY <1>4, <3>1 DEF OrderInv, RowsOrdered, Ordered, Waiting
    <3>4. PICK j \in 1 .. Len(insertion) :
            RowOf(insertion[j]) \in rows /\ ParentOf(insertion[j], c)
      BY <2>2, <3>2, <3>3 DEF OrderInv, RowsOrdered, Ordered
    <3>5. /\ RowOf(insertion[j]).experiment = x
          /\ RowOf(insertion[j]).object = c.parent
      BY <3>4, RowFacts DEF ParentOf
    <3>6. PICK i \in 1 .. Len(log) : log[i].object = c.parent
      BY <3>4, <3>5 DEF LogInv, RowsAudited, RowAudited, Fresh
    <3>7. /\ i \in 1 .. Len(longer) /\ Len(log) + 1 \in 1 .. Len(longer)
          /\ i < Len(log) + 1 /\ longer[i] = log[i]
      BY <1>5
    <3>8. /\ longer[i].object = r.parent /\ longer[Len(log) + 1].object = r.object
          /\ audit'[r.experiment] = longer
      BY <1>5, <1>6, <3>2, <3>6, <3>7
    <3> HIDE DEF log
    <3> QED BY <3>7, <3>8
  <2> QED BY <2>1, <2>2
<1> QED
  BY <1>7, <1>8 DEF OrderInv

LEMMA OrderStep ==
  ASSUME LogInv, OrderInv, LogNext
  PROVE  OrderInv'
<1>1. ASSUME NEW c \in Calls, ReturnStored(c) \/ RefuseParent(c)
      PROVE  OrderInv'
  <2>1. /\ pc[c] = "idle"
        /\ pc' = [pc EXCEPT ![c] = "done"] \/ pc' = [pc EXCEPT ![c] = "refused"]
        /\ UNCHANGED <<insertion, rows, audit>>
    BY <1>1 DEF ReturnStored, RefuseParent, Goto
  <2>2. Waiting' = Waiting
    BY <2>1, WaitingNext
  <2> QED BY <2>1, <2>2, OrderInvStutter
<1>2. ASSUME NEW c \in Calls, AppendEvent(c)
      PROVE  OrderInv'
  <2>1. /\ c.kind = "OBJECT" \/ pc[c] = "inserted"
        /\ pc' = [pc EXCEPT ![c] = "chained"]
        /\ UNCHANGED <<insertion, rows, audit>>
    BY <1>2 DEF AppendEvent, ReadyToAppend, Goto
  <2>2. Waiting' = Waiting
    BY <2>1, WaitingNext
  <2> QED BY <2>1, <2>2, OrderInvStutter
<1>3. ASSUME NEW q \in BatchRequests, CreateBatch(q)
      PROVE  OrderInv'
  <2>1. UNCHANGED <<pc, insertion, rows, audit>>
    BY <1>3 DEF CreateBatch
  <2>2. Waiting' = Waiting
    BY <2>1 DEF Waiting
  <2> QED BY <2>1, <2>2, OrderInvStutter
<1> QED
  BY <1>1, <1>2, <1>3, InsertRowOrdered, AbortCallOrdered, CommitCallOrdered DEF LogNext

(* The greatest of finitely many positions. *)
LEMMA MaxFacts ==
  ASSUME NEW n \in Nat, NEW T, T \subseteq 1 .. n, T # {}
  PROVE  Max(T) \in T /\ \A k \in T : k <= Max(T)
<1> DEFINE U == {m \in Nat : n - m \in T}
<1>1. \A k \in T : k \in Nat /\ n - k \in U
  BY DEF U
<1>2. U \subseteq Nat /\ U # {}
  BY <1>1
<1>3. PICK m \in U : \A l \in U : m <= l
  BY <1>2, NatMinimum
<1>4. n - m \in T /\ m \in Nat
  BY <1>3
<1>5. \A k \in T : n - m >= k
  <2> SUFFICES ASSUME NEW k \in T PROVE n - m >= k
    OBVIOUS
  <2>1. k \in Nat /\ n - k \in U
    BY <1>1
  <2>2. m <= n - k
    BY <1>3, <2>1
  <2>3. n - k \in Int
    BY <2>1
  <2> QED BY <1>4, <2>1, <2>2
<1>6. \E x \in T : \A k \in T : x >= k
  BY <1>4, <1>5
<1>7. Max(T) \in T /\ \A k \in T : Max(T) >= k
  BY <1>6 DEF Max
<1>8. \A k \in T : k \in Nat
  BY <1>1
<1> QED BY <1>7, <1>8

(* The dashboard shows no superseded evaluation. *)
LEMMA ShownIsCurrent ==
  ASSUME OrderInv, NEW e \in Experiments, NEW s \in Scenarios, EvaluationsOf(e, s) # {},
         NEW r \in rows, r.kind = "EVALUATION", r.parent = ShownEvaluation(e, s)
  PROVE  FALSE
<1> DEFINE T == EvaluationsOf(e, s)
           m == Max(T)
           c == insertion[m]
<1>1. insertion \in Seq(Calls) /\ Len(insertion) \in Nat /\ DOMAIN insertion = 1 .. Len(insertion)
  BY DEF OrderInv, RowsOrdered, Ordered
<1>2. T \subseteq 1 .. Len(insertion)
  BY <1>1 DEF EvaluationsOf
<1>3. \A k : k \in T <=> /\ k \in 1 .. Len(insertion)
                         /\ insertion[k].kind = "EVALUATION" /\ RowOf(insertion[k]) \in rows
                         /\ insertion[k].experiment = e /\ insertion[k].scenario = s
  BY <1>1 DEF EvaluationsOf
<1> HIDE DEF T
<1>4. m \in T /\ \A k \in T : k <= m
  BY <1>1, <1>2, MaxFacts DEF T
<1> HIDE DEF m
<1>5. r.parent = c.object
  BY DEF ShownEvaluation, m, T
<1>6. PICK k \in 1 .. Len(insertion) : r = RowOf(insertion[k])
  BY DEF OrderInv, RowsOrdered, Ordered
<1>7. insertion[k].kind = "EVALUATION" /\ insertion[k].parent = c.object
  BY <1>5, <1>6, RowFacts
<1>8. c \in Calls /\ c.object # NoParent
  BY <1>1, <1>2, <1>4, CallsAreContentAddressed DEF CallsAssumption
<1>9. PICK j \in 1 .. Len(insertion) : j < k /\ ParentOf(insertion[j], insertion[k])
  BY <1>7, <1>8 DEF OrderInv, RowsOrdered, Ordered
<1>10. j = m
  BY <1>2, <1>4, <1>7, <1>9 DEF OrderInv, RowsOrdered, Ordered, ParentOf
<1>11. insertion[k].experiment = e /\ insertion[k].scenario = s
  BY <1>3, <1>4, <1>7, <1>9, <1>10 DEF ParentOf
<1>12. k \in T
  BY <1>3, <1>6, <1>7, <1>11
<1>13. k <= m /\ m < k /\ k \in Nat /\ m \in Nat
  BY <1>1, <1>2, <1>4, <1>9, <1>10, <1>12
<1> QED BY <1>13

LEMMA OrderInvCorrections == LogInv /\ OrderInv => CorrectionsAreOrdered
<1> SUFFICES ASSUME LogInv, OrderInv PROVE CorrectionsAreOrdered
  OBVIOUS
<1>1. ASSUME NEW r \in rows, r.parent # NoParent
      PROVE  \E p \in rows :
               /\ p.object = r.parent /\ p.experiment = r.experiment
               /\ r.kind = "EVALUATION" => p.scenario = r.scenario
               /\ \E i, j \in DOMAIN audit[r.experiment] :
                    /\ i < j
                    /\ audit[r.experiment][i].object = p.object
                    /\ audit[r.experiment][j].object = r.object
  <2>1. PICK k \in 1 .. Len(insertion) : r = RowOf(insertion[k])
    BY DEF OrderInv, RowsOrdered, Ordered
  <2>2. insertion[k].parent # NoParent
    BY <1>1, <2>1, RowFacts
  <2>3. PICK j \in 1 .. Len(insertion) :
          RowOf(insertion[j]) \in rows /\ ParentOf(insertion[j], insertion[k])
    BY <2>2 DEF OrderInv, RowsOrdered, Ordered
  <2> DEFINE p == RowOf(insertion[j])
  <2>4. /\ p \in rows /\ p.object = r.parent /\ p.experiment = r.experiment
        /\ r.kind = "EVALUATION" => p.scenario = r.scenario
    BY <2>1, <2>3, RowFacts DEF ParentOf
  <2> HIDE DEF p
  <2>5. DOMAIN audit[r.experiment] = 1 .. Len(audit[r.experiment])
    BY SequenceFacts DEF LogInv, LogShape, RowsAudited, Unbroken
  <2>6. \E i, l \in 1 .. Len(audit[r.experiment]) :
          /\ i < l
          /\ audit[r.experiment][i].object = r.parent
          /\ audit[r.experiment][l].object = r.object
    BY <1>1 DEF OrderInv, CorrectionsAudited
  <2> QED BY <2>4, <2>5, <2>6
<1>2. ASSUME NEW e \in Experiments, NEW s \in Scenarios, EvaluationsOf(e, s) # {}
      PROVE  ~ \E r \in rows : r.kind = "EVALUATION" /\ r.parent = ShownEvaluation(e, s)
  BY <1>2, ShownIsCurrent
<1> QED
  BY <1>1, <1>2 DEF CorrectionsAreOrdered

(* A transaction has an event in hand exactly while it is on the chain. *)
DraftsHeld == \A c \in Calls : pc[c] # "chained" => draft[c] = NoEvent

LEMMA DraftsHeldInit ==
  ASSUME NEW made, LogInit(made)
  PROVE  DraftsHeld
BY DEF LogInit, DraftsHeld

LEMMA DraftsHeldStep ==
  ASSUME LogInv, DraftsHeld, LogNext
  PROVE  DraftsHeld'
<1>1. ASSUME NEW c \in Calls, NEW phase \in CallPhase \ {"chained"},
             pc' = [pc EXCEPT ![c] = phase],
             draft' = [draft EXCEPT ![c] = NoEvent] \/ (pc[c] # "chained" /\ draft' = draft)
      PROVE  DraftsHeld'
  <2>1. \A d \in Calls : /\ pc'[d] = IF d = c THEN phase ELSE pc[d]
                         /\ d # c => draft'[d] = draft[d]
    BY <1>1 DEF LogInv, LogShape
  <2>2. draft'[c] = NoEvent
    BY <1>1 DEF LogInv, LogShape, DraftsHeld
  <2> QED BY <2>1, <2>2 DEF DraftsHeld
<1>2. ASSUME NEW c \in Calls, ReturnStored(c) \/ RefuseParent(c) \/ InsertRow(c)
      PROVE  DraftsHeld'
  BY <1>1, <1>2 DEF ReturnStored, RefuseParent, InsertRow, Goto, CallPhase
<1>3. ASSUME NEW c \in Calls, CommitCall(c) \/ AbortCall(c)
      PROVE  DraftsHeld'
  <2>1. \/ pc' = [pc EXCEPT ![c] = "done"] \/ pc' = [pc EXCEPT ![c] = "conflict"]
        \/ pc' = [pc EXCEPT ![c] = "idle"]
    BY <1>3 DEF CommitCall, AbortCall, Goto
  <2>2. draft' = [draft EXCEPT ![c] = NoEvent]
    BY <1>3 DEF CommitCall, AbortCall
  <2> QED BY <1>1, <2>1, <2>2 DEF CallPhase
<1>4. ASSUME NEW c \in Calls, AppendEvent(c)
      PROVE  DraftsHeld'
  <2>1. /\ pc' = [pc EXCEPT ![c] = "chained"]
        /\ \E x : draft' = [draft EXCEPT ![c] = x]
    BY <1>4 DEF AppendEvent, Goto
  <2>2. \A d \in Calls : /\ pc'[d] = IF d = c THEN "chained" ELSE pc[d]
                         /\ d # c => draft'[d] = draft[d]
    BY <2>1 DEF LogInv, LogShape
  <2> QED BY <2>2 DEF DraftsHeld
<1>5. ASSUME NEW q \in BatchRequests, CreateBatch(q)
      PROVE  DraftsHeld'
  BY <1>5 DEF CreateBatch, DraftsHeld
<1> QED
  BY <1>2, <1>3, <1>4, <1>5 DEF LogNext

(* Batches and the publication leave rows, drafts and chain alone. *)
LEMMA RowsFrame ==
  ASSUME OrderInv, DraftsHeld, UNCHANGED <<pc, draft, insertion, rows, audit>>
  PROVE  OrderInv' /\ DraftsHeld'
<1>1. Waiting' = Waiting
  BY DEF Waiting
<1> QED
  BY <1>1, OrderInvStutter DEF DraftsHeld

LEMMA DraftIsEvent == \A e, object, parent, log : CreateAuditEvent(e, object, parent, log) # NoEvent
<1> SUFFICES ASSUME NEW e, NEW object, NEW parent, NEW log,
                    CreateAuditEvent(e, object, parent, log) = NoEvent
             PROVE  FALSE
  OBVIOUS
<1>1. "object" \in DOMAIN CreateAuditEvent(e, object, parent, log)
  BY DEF CreateAuditEvent
<1>2. DOMAIN NoEvent = {}
  BY DEF NoEvent
<1> QED BY <1>1, <1>2

LEMMA LogTypes == LogInv /\ OrderInv /\ DraftsHeld => LogTypeOK
<1> SUFFICES ASSUME LogInv, OrderInv, DraftsHeld PROVE LogTypeOK
  OBVIOUS
<1>1. pc \in [Calls -> {"unmade", "idle", "inserted", "chained", "done", "refused", "conflict"}]
  BY DEF LogInv, LogShape, CallPhase
<1>2. ASSUME NEW c \in Calls PROVE draft[c] # NoEvent <=> pc[c] = "chained"
  BY DraftIsEvent DEF LogInv, DraftsFit, DraftFits, DraftsHeld
<1>3. insertion \in Seq(Calls) /\ DOMAIN insertion = 1 .. Len(insertion)
  BY DEF OrderInv, RowsOrdered, Ordered
<1>4. IsInjective(insertion)
  BY <1>3 DEF IsInjective, OrderInv, RowsOrdered, Ordered
<1>5. rows \subseteq {RowOf(c) : c \in Calls}
  BY <1>3 DEF OrderInv, RowsOrdered, Ordered
<1> QED
  BY <1>1, <1>2, <1>3, <1>4, <1>5 DEF LogTypeOK

-----------------------------------------------------------------------------
(* The proofs of stored batches *)

LEMMA RangeElements ==
  ASSUME NEW s, IsSequence(s), NEW a \in 1 .. Len(s), NEW b \in a .. Len(s)
  PROVE  /\ IsSequence(SubSeq(s, a, b))
         /\ \A k \in 1 .. b - a + 1 : SubSeq(s, a, b)[k] = s[k + a - 1]
<1>1. PICK S : s \in Seq(S)
  BY DEF IsSequence
<1>2. Len(s) \in Nat /\ a \in Nat /\ b \in Nat /\ a <= b /\ 1 <= a /\ b <= Len(s)
  BY <1>1
<1>3. SubSeq(s, a, b) \in Seq(S)
  BY <1>1, <1>2
<1>4. \A k \in 1 .. b - a + 1 : SubSeq(s, a, b)[k] = s[k + a - 1]
  BY <1>1, <1>2
<1> QED
  BY <1>3, <1>4 DEF IsSequence

(* No two events of a chain have the same hash: their sequences differ. *)
LEMMA LogBinds == LogInv /\ BatchInv => ProofsBindLeaves
<1> SUFFICES ASSUME LogInv, BatchInv, NEW e \in Experiments, NEW i \in DOMAIN batches[e]
             PROVE  LET proofs == batches[e][i].proofs
                    IN  \A p, q \in DOMAIN proofs :
                          VerifyProof([proofs[p] EXCEPT !.leafHash = proofs[q].leafHash])
                            <=> p = q
  BY DEF ProofsBindLeaves
<1> DEFINE log == audit[e]
           b == batches[e][i].batch
           first == b.first
           last == b.last
           events == SubSeq(log, first, last)
           n == last - first + 1
<1>1. Unbroken(e, log) /\ IsSequence(log) /\ Len(log) \in Nat
      /\ i \in 1 .. Len(batches[e])
  BY SequenceFacts DEF LogInv, LogShape, Unbroken
<1>2. /\ first \in 1 .. Len(log) /\ last \in first .. Len(log)
      /\ batches[e][i] = BuildBatch(e, b.id, events, b.previous)
  BY <1>1 DEF BatchInv, Rebuilds
<1> HIDE DEF log, first, last
<1>3. n \in Nat \ {0} /\ first \in Nat /\ last \in Nat /\ first >= 1 /\ last <= Len(log)
  BY <1>1, <1>2
<1>4. Len(events) = n
  BY <1>1, <1>2, RangeFacts
<1>5. IsSequence(events) /\ \A k \in 1 .. n : events[k] = log[k + first - 1]
  BY <1>1, <1>2, RangeElements
<1> HIDE DEF events
<1>6. ASSUME NEW k \in 1 .. n PROVE events[k].sequence = k + first - 1
  <2>1. k + first - 1 \in 1 .. Len(log)
    BY <1>1, <1>3
  <2>2. log[k + first - 1].sequence = k + first - 1
    BY <1>1, <2>1 DEF Unbroken
  <2> QED
    BY <1>5, <2>2
<1>7. \A x, y : EventHash(x) = EventHash(y) => x.sequence = y.sequence
  <2>1. \A a1, a2, a3, a4, a5, b1, b2, b3, b4, b5 :
          <<"event", <<a1, a2, a3, a4, a5>> >> = <<"event", <<b1, b2, b3, b4, b5>> >>
            => a2 = b2
    OBVIOUS
  <2> QED
    BY <2>1 DEF EventHash
<1> HIDE DEF n
<1>8. \A p, q \in 1 .. n : EventHash(events[p]) = EventHash(events[q]) => p = q
  <2> SUFFICES ASSUME NEW p \in 1 .. n, NEW q \in 1 .. n,
                      EventHash(events[p]) = EventHash(events[q])
               PROVE  p = q
    OBVIOUS
  <2>1. p + first - 1 = q + first - 1
    BY <1>6, <1>7
  <2>2. p \in Int /\ q \in Int /\ first \in Int
    BY <1>3
  <2> QED
    BY <2>1, <2>2
<1>9. LET proofs == BuildBatch(e, b.id, events, b.previous).proofs
      IN  \A p, q \in DOMAIN proofs :
            VerifyProof([proofs[p] EXCEPT !.leafHash = proofs[q].leafHash]) <=> p = q
  <2> HIDE DEF b
  <2>1. Len(events) \in Nat \ {0}
    BY <1>3, <1>4
  <2>2. \A p, q \in 1 .. Len(events) : EventHash(events[p]) = EventHash(events[q]) => p = q
    BY <1>4, <1>8
  <2> QED
    BY <1>5, <2>1, <2>2, BatchBinds
<1> QED
  BY <1>2, <1>9
=============================================================================
