-------------------------- MODULE SubsequenceProofs --------------------------
(***************************************************************************)
(* What Subsequence, Retain and the sequence operators of the library do,  *)
(* for every sequence.                                                     *)
(***************************************************************************)
EXTENDS Subsequences, FiniteSetsExt, Functions, SequencesExt, FiniteSetTheorems, TLAPS

-----------------------------------------------------------------------------
(* Least elements and ranks *)

\* A non-empty set of naturals has a least element, and Min finds it.
LEMMA MinOfNaturals ==
    ASSUME NEW T, \A y \in T : y \in Nat, T # {}
    PROVE  Min(T) \in T /\ \A y \in T : Min(T) <= y
PROOF
<1> DEFINE R == OpToRel(<, Nat)
<1>1. ASSUME NEW x \in Nat, NEW y \in Nat, ~(<<y, x>> \in R)
      PROVE  x <= y
    <2>1. ~(y < x)
        BY <1>1 DEF OpToRel
    <2> QED
        BY <2>1
<1>2. IsWellFoundedOn(R, Nat)
    BY NatLessThanWellFounded
<1> HIDE DEF R
<1>3. T \subseteq Nat
    OBVIOUS
<1>4. PICK x \in T : \A y \in T : ~(<<y, x>> \in R)
    BY <1>2, <1>3, WFMin, Zenon
<1>5. \A y \in T : x <= y
    BY <1>1, <1>3, <1>4, Zenon
<1> QED
    BY <1>5 DEF Min

\* The number of members of I up to m grows by one exactly at the members of I.
LEMMA CountStep ==
    ASSUME NEW I, \A j \in I : j \in Nat, IsFiniteSet(I), NEW m \in Nat
    PROVE  /\ Rank(I, m) \in Nat
           /\ Rank(I, m + 1) = IF m + 1 \in I THEN Rank(I, m) + 1 ELSE Rank(I, m)
PROOF
<1> DEFINE U == {j \in I : j <= m}
<1>1. IsFiniteSet(U) /\ Cardinality(U) \in Nat
    BY FS_Subset, FS_CardinalityType
<1>2. CASE m + 1 \in I
    <2>1. {j \in I : j <= m + 1} = U \cup {m + 1}
        BY <1>2
    <2>2. m + 1 \notin U
        OBVIOUS
    <2> QED
        BY <1>1, <1>2, <2>1, <2>2, FS_AddElement DEF Rank
<1>3. CASE m + 1 \notin I
    <2>1. {j \in I : j <= m + 1} = U
        BY <1>3
    <2> QED
        BY <1>1, <1>3, <2>1 DEF Rank
<1> QED
    BY <1>2, <1>3

\* Indices of a sequence: finitely many.
LEMMA IndexSet ==
    ASSUME NEW n \in Nat, NEW I, \A j \in I : j \in 1 .. n
    PROVE  IsFiniteSet(I) /\ Cardinality(I) \in Nat
PROOF
<1>1. IsFiniteSet(1 .. n)
    BY FS_Interval
<1>2. I \in SUBSET (1 .. n)
    OBVIOUS
<1> QED
    BY <1>1, <1>2, FS_Subset, FS_CardinalityType

\* Every rank up to the size of I is the rank of a member.
LEMMA RankOnto ==
    ASSUME NEW n \in Nat, NEW I, \A j \in I : j \in 1 .. n, NEW k \in 1 .. Cardinality(I)
    PROVE  \E i \in I : Rank(I, i) = k
PROOF
<1>1. IsFiniteSet(I) /\ Cardinality(I) \in Nat /\ \A j \in I : j \in Nat
    BY IndexSet
<1>2. \A m \in Nat : /\ Rank(I, m) \in Nat
                     /\ Rank(I, m + 1) = IF m + 1 \in I THEN Rank(I, m) + 1 ELSE Rank(I, m)
    BY <1>1, CountStep
<1>3. Rank(I, 0) = 0
    <2>1. {j \in I : j <= 0} = {}
        OBVIOUS
    <2> QED
        BY <2>1, FS_EmptySet DEF Rank
<1>4. Rank(I, n) = Cardinality(I)
    <2>1. {j \in I : j <= n} = I
        OBVIOUS
    <2> QED
        BY <2>1 DEF Rank
<1> DEFINE T == {m \in Nat : Rank(I, m) >= k}
<1>5. T # {} /\ \A y \in T : y \in Nat
    BY <1>1, <1>4
<1> DEFINE m == Min(T)
<1>6. m \in T /\ \A y \in T : m <= y
    BY <1>5, MinOfNaturals
<1> HIDE DEF m
<1>7. m # 0
    BY <1>1, <1>3, <1>6
<1>8. m - 1 \in Nat /\ m - 1 \notin T
    BY <1>6, <1>7
<1>9. Rank(I, m - 1) \in Nat /\ Rank(I, m - 1) < k
    BY <1>2, <1>8
<1>10. Rank(I, (m - 1) + 1) = IF (m - 1) + 1 \in I THEN Rank(I, m - 1) + 1 ELSE Rank(I, m - 1)
    BY <1>2, <1>8
<1>11. (m - 1) + 1 = m
    BY <1>6
<1>12. m \in I /\ Rank(I, m) = k
    BY <1>1, <1>6, <1>9, <1>10, <1>11
<1> QED
    BY <1>12

\* Ranks of members are positions, and a later member has a higher rank.
LEMMA RankOf ==
    ASSUME NEW n \in Nat, NEW I, \A j \in I : j \in 1 .. n, NEW i \in I
    PROVE  /\ Rank(I, i) \in 1 .. Cardinality(I)
           /\ \A h \in I : h < i => Rank(I, h) < Rank(I, i)
PROOF
<1>1. IsFiniteSet(I) /\ Cardinality(I) \in Nat /\ \A j \in I : j \in Nat
    BY IndexSet
<1> DEFINE U(m) == {j \in I : j <= m}
<1>2. \A m : IsFiniteSet(U(m)) /\ Cardinality(U(m)) \in Nat /\ Cardinality(U(m)) <= Cardinality(I)
    BY <1>1, FS_Subset, FS_CardinalityType
<1>3. i \in U(i)
    BY <1>1
<1>4. Cardinality(U(i)) # 0
    BY <1>2, <1>3, FS_EmptySet
<1>5. ASSUME NEW h \in I, h < i
      PROVE  Cardinality(U(h)) < Cardinality(U(i))
    <2>1. U(h) \in SUBSET U(i) /\ U(h) # U(i)
        BY <1>1, <1>3, <1>5
    <2> HIDE DEF U
    <2> QED
        BY <1>2, <2>1, FS_Subset
<1> QED
    BY <1>1, <1>2, <1>4, <1>5 DEF Rank

-----------------------------------------------------------------------------
(* Subsequence and Retain *)

\* The element of Subsequence(q, I) at position k is the one at the index of rank k.
LEMMA SubsequenceAt ==
    ASSUME NEW S, NEW q \in Seq(S), NEW I, \A j \in I : j \in 1 .. Len(q),
           NEW k \in 1 .. Cardinality(I)
    PROVE  \E i \in I : Rank(I, i) = k /\ Subsequence(q, I)[k] = q[i]
PROOF
<1>1. Len(q) \in Nat
    OBVIOUS
<1>2. \E i \in I : Rank(I, i) = k
    BY <1>1, RankOnto
<1>3. Subsequence(q, I)[k] = q[CHOOSE i \in I : Rank(I, i) = k]
    BY DEF Subsequence
<1> QED
    BY <1>2, <1>3

\* A subsequence is a sequence of exactly the chosen elements, in their order.
LEMMA SubsequenceType ==
    ASSUME NEW S, NEW q \in Seq(S), NEW I, \A j \in I : j \in 1 .. Len(q)
    PROVE  LET r == Subsequence(q, I) IN
           /\ r \in Seq(S) /\ Len(r) = Cardinality(I)
           /\ \A k \in DOMAIN r : \E i \in I : Rank(I, i) = k /\ r[k] = q[i]
           /\ \A i \in I : \E k \in DOMAIN r : r[k] = q[i]
           /\ \A k, l \in DOMAIN r : k < l =>
                 \E i, j \in I : i < j /\ r[k] = q[i] /\ r[l] = q[j]
PROOF
<1> DEFINE c == Cardinality(I)  r == Subsequence(q, I)
<1>1. Len(q) \in Nat /\ \A i \in I : i \in Nat /\ q[i] \in S
    OBVIOUS
<1>2. c \in Nat
    BY <1>1, IndexSet
<1>3. r = [k \in 1 .. c |-> r[k]]
    BY DEF Subsequence
<1>4. \A k \in 1 .. c : \E i \in I : Rank(I, i) = k /\ r[k] = q[i]
    BY SubsequenceAt
<1>5. \A i \in I : /\ Rank(I, i) \in 1 .. c
                   /\ \A h \in I : h < i => Rank(I, h) < Rank(I, i)
    BY <1>1, RankOf
<1> HIDE DEF r, c
<1>6. r \in Seq(S) /\ Len(r) = c /\ DOMAIN r = 1 .. c
    BY <1>1, <1>2, <1>3, <1>4, SMTT(20)
<1>7. ASSUME NEW i \in I
      PROVE  \E k \in DOMAIN r : r[k] = q[i]
    <2>1. Rank(I, i) \in 1 .. c
        BY <1>5
    <2>2. PICK j \in I : Rank(I, j) = Rank(I, i) /\ r[Rank(I, i)] = q[j]
        BY <1>4, <2>1
    <2>3. ~(j < i) /\ ~(i < j)
        BY <1>2, <1>5, <2>1, <2>2
    <2>4. j = i
        BY <1>1, <2>3
    <2> QED
        BY <1>6, <2>1, <2>2, <2>4
<1>8. ASSUME NEW k \in DOMAIN r, NEW l \in DOMAIN r, k < l
      PROVE  \E i, j \in I : i < j /\ r[k] = q[i] /\ r[l] = q[j]
    <2>1. PICK i \in I : Rank(I, i) = k /\ r[k] = q[i]
        BY <1>4, <1>6
    <2>2. PICK j \in I : Rank(I, j) = l /\ r[l] = q[j]
        BY <1>4, <1>6
    <2>3. i # j /\ ~(j < i)
        BY <1>2, <1>5, <1>6, <1>8, <2>1, <2>2
    <2> QED
        BY <1>1, <2>1, <2>2, <2>3
<1> QED
    BY <1>4, <1>6, <1>7, <1>8 DEF r, c

\* The element of Retain(q, K) at position k is the member of K of rank k in q.
LEMMA RetainAt ==
    ASSUME NEW S, NEW q \in Seq(S), NEW K, NEW k \in 1 .. Cardinality(Kept(q, K))
    PROVE  \E i \in Kept(q, K) : Rank(Kept(q, K), i) = k /\ Retain(q, K)[k] = q[i]
PROOF
<1>1. \A j \in Kept(q, K) : j \in 1 .. Len(q)
    BY DEF Kept
<1> QED
    BY <1>1, SubsequenceAt DEF Retain

\* Retain yields a sequence, of exactly the members of K in q.
LEMMA RetainType ==
    ASSUME NEW S, NEW q \in Seq(S), NEW K
    PROVE  /\ Retain(q, K) \in Seq(S)
           /\ Len(Retain(q, K)) = Cardinality(Kept(q, K))
           /\ Range(Retain(q, K)) = Range(q) \cap K
PROOF
<1> DEFINE I == Kept(q, K)  r == Subsequence(q, I)
<1>1. \A j \in I : j \in 1 .. Len(q)
    BY DEF Kept
<1>2. /\ r \in Seq(S) /\ Len(r) = Cardinality(I)
      /\ \A k \in DOMAIN r : \E i \in I : r[k] = q[i]
      /\ \A i \in I : \E k \in DOMAIN r : r[k] = q[i]
    <2> HIDE DEF I
    <2> QED BY <1>1, SubsequenceType
<1>3. Retain(q, K) = r
    BY DEF Retain
<1>4. \A i : i \in I <=> i \in DOMAIN q /\ q[i] \in K
    BY DEF Kept
<1> HIDE DEF r, I
<1>5. Range(r) = Range(q) \cap K
    BY <1>2, <1>4 DEF Range
<1> QED
    BY <1>2, <1>3, <1>5 DEF I

\* A front that is retained stays in front.
LEMMA RetainHead ==
    ASSUME NEW S, NEW q \in Seq(S), NEW K, q # <<>>, Head(q) \in K
    PROVE  Retain(q, K) # <<>> /\ Head(Retain(q, K)) = Head(q)
PROOF
<1> DEFINE I == Kept(q, K)  r == Retain(q, K)
<1>1. Len(q) \in Nat /\ \A j \in I : j \in 1 .. Len(q)
    BY DEF Kept
<1>2. 1 \in I /\ q[1] = Head(q)
    BY DEF Kept
<1>3. Cardinality(I) \in Nat
    BY <1>1, IndexSet
<1>4. Rank(I, 1) \in 1 .. Cardinality(I)
    BY <1>1, <1>2, RankOf
<1>5. PICK i \in I : Rank(I, i) = 1 /\ r[1] = q[i]
    BY <1>3, <1>4, RetainAt
<1>6. i = 1
    <2>1. \A h \in I : h < i => Rank(I, h) < Rank(I, i)
        BY <1>1, RankOf
    <2>2. ~(1 < i)
        BY <1>2, <1>3, <1>4, <1>5, <2>1
    <2> QED
        BY <1>1, <2>2
<1>7. r \in Seq(S) /\ Len(r) = Cardinality(I)
    BY RetainType
<1> HIDE DEF r, I
<1>8. Len(r) >= 1
    BY <1>3, <1>4, <1>7
<1>9. r # <<>> /\ Head(r) = r[1]
    BY <1>7, <1>8
<1> QED
    BY <1>2, <1>5, <1>6, <1>9 DEF r

-----------------------------------------------------------------------------
(* Insertions *)

\* A non-empty sequence keeps its front when something is put behind it.
LEMMA ConcatHead ==
    ASSUME NEW S, NEW s \in Seq(S), NEW t \in Seq(S)
    PROVE  /\ s \o t \in Seq(S)
           /\ s # <<>> => s \o t # <<>> /\ Head(s \o t) = Head(s)
PROOF
<1>1. s \o t \in Seq(S) /\ Len(s \o t) = Len(s) + Len(t)
    OBVIOUS
<1>2. ASSUME s # <<>>
      PROVE  s \o t # <<>> /\ Head(s \o t) = Head(s)
    <2>1. Len(s) \in Nat /\ Len(s) > 0 /\ Len(t) \in Nat
        BY <1>2
    <2>2. (s \o t)[1] = s[1]
        BY <2>1
    <2> QED
        BY <1>1, <1>2, <2>1, <2>2
<1> QED
    BY <1>1, <1>2

\* An insertion behind the first position keeps the front.
LEMMA InsertAtType ==
    ASSUME NEW S, NEW q \in Seq(S), NEW i \in 1 .. Len(q) + 1, NEW e \in S
    PROVE  /\ InsertAt(q, i, e) \in Seq(S)
           /\ i > 1 => InsertAt(q, i, e) # <<>> /\ Head(InsertAt(q, i, e)) = Head(q)
PROOF
<1>1. SubSeq(q, 1, i - 1) \in Seq(S) /\ Len(SubSeq(q, 1, i - 1)) = i - 1
    OBVIOUS
<1>2. SubSeq(q, i, Len(q)) \in Seq(S)
    OBVIOUS
<1>3. InsertAt(q, i, e) \in Seq(S)
    BY <1>1, <1>2 DEF InsertAt
<1>4. ASSUME i > 1
      PROVE  InsertAt(q, i, e) # <<>> /\ Head(InsertAt(q, i, e)) = Head(q)
    <2> DEFINE a == SubSeq(q, 1, i - 1)  c == SubSeq(q, i, Len(q))
    <2>1. q # <<>> /\ a # <<>> /\ Head(a) = Head(q)
        BY <1>4
    <2>2. a \in Seq(S) /\ c \in Seq(S) /\ <<e>> \in Seq(S)
        BY <1>1, <1>2
    <2>3. InsertAt(q, i, e) = (a \o <<e>>) \o c
        BY DEF InsertAt
    <2> HIDE DEF a, c
    <2>4. a \o <<e>> \in Seq(S) /\ a \o <<e>> # <<>> /\ Head(a \o <<e>>) = Head(q)
        BY <2>1, <2>2, ConcatHead
    <2> QED
        BY <2>2, <2>3, <2>4, ConcatHead
<1> QED
    BY <1>3, <1>4

-----------------------------------------------------------------------------
(* Which elements a sequence lists *)

\* The sequence s holds the members of P, each of them once.
Lists(s, P) == IsInjective(s) /\ Range(s) = P

\* Two sequences without a common member, one behind the other
LEMMA ConcatLists ==
    ASSUME NEW S, NEW s \in Seq(S), NEW t \in Seq(S), NEW P, NEW Q,
           Lists(s, P), Lists(t, Q), P \cap Q = {}
    PROVE  Lists(s \o t, P \cup Q)
PROOF
<1> DEFINE u == s \o t
<1>1. /\ u \in Seq(S) /\ Len(u) = Len(s) + Len(t) /\ Len(s) \in Nat /\ Len(t) \in Nat
      /\ DOMAIN u = 1 .. Len(u) /\ DOMAIN s = 1 .. Len(s) /\ DOMAIN t = 1 .. Len(t)
    OBVIOUS
<1>2. \A i \in 1 .. Len(s) : u[i] = s[i]
    BY <1>1
<1>3. \A i \in 1 .. Len(t) : Len(s) + i \in DOMAIN u /\ u[Len(s) + i] = t[i]
    BY <1>1
<1>4. ASSUME NEW i \in DOMAIN u
      PROVE  \/ i \in DOMAIN s /\ u[i] = s[i]
             \/ i - Len(s) \in DOMAIN t /\ u[i] = t[i - Len(s)]
    BY <1>1
<1> HIDE DEF u
<1>5. Range(u) = P \cup Q
    <2>1. ASSUME NEW x \in Range(u) PROVE x \in P \cup Q
        BY <1>4 DEF Range, Lists
    <2>2. ASSUME NEW x \in P \cup Q PROVE x \in Range(u)
        <3>1. CASE x \in P
            <4>1. PICK i \in DOMAIN s : x = s[i]
                BY <3>1 DEF Lists, Range
            <4>2. i \in DOMAIN u
                BY <1>1
            <4> QED
                BY <1>1, <1>2, <4>1, <4>2 DEF Range
        <3>2. CASE x \in Q
            <4>1. PICK i \in DOMAIN t : x = t[i]
                BY <3>2 DEF Lists, Range
            <4> QED
                BY <1>1, <1>3, <4>1 DEF Range
        <3> QED
            BY <3>1, <3>2
    <2> QED
        BY <2>1, <2>2
<1>6. ASSUME NEW i \in DOMAIN u, NEW j \in DOMAIN u, u[i] = u[j]
      PROVE  i = j
    <2>1. i \in Nat /\ j \in Nat
        BY <1>1
    <2>2. \A k \in DOMAIN s : s[k] \in P
        BY DEF Lists, Range
    <2>3. \A k \in DOMAIN t : t[k] \in Q
        BY DEF Lists, Range
    <2>4. CASE i \in DOMAIN s /\ u[i] = s[i] /\ j \in DOMAIN s /\ u[j] = s[j]
        BY <1>6, <2>4 DEF Lists, IsInjective
    <2>5. CASE /\ i - Len(s) \in DOMAIN t /\ u[i] = t[i - Len(s)]
               /\ j - Len(s) \in DOMAIN t /\ u[j] = t[j - Len(s)]
        <3>1. i - Len(s) = j - Len(s)
            BY <1>6, <2>5 DEF Lists, IsInjective
        <3> QED
            BY <1>1, <2>1, <3>1
    <2> QED
        BY <1>4, <1>6, <2>2, <2>3, <2>4, <2>5
<1> QED
    BY <1>5, <1>6 DEF Lists, IsInjective, u

\* The two parts of a queue
LEMMA SplitLists ==
    ASSUME NEW S, NEW s \in Seq(S), NEW i \in 1 .. Len(s) + 1, IsInjective(s)
    PROVE  /\ SubSeq(s, 1, i - 1) \in Seq(S) /\ SubSeq(s, i, Len(s)) \in Seq(S)
           /\ Lists(SubSeq(s, 1, i - 1), {s[k] : k \in 1 .. i - 1})
           /\ Lists(SubSeq(s, i, Len(s)), {s[k] : k \in i .. Len(s)})
           /\ {s[k] : k \in 1 .. i - 1} \cap {s[k] : k \in i .. Len(s)} = {}
           /\ {s[k] : k \in 1 .. i - 1} \cup {s[k] : k \in i .. Len(s)} = Range(s)
PROOF
<1> DEFINE a == SubSeq(s, 1, i - 1)  c == SubSeq(s, i, Len(s))
           A == {s[k] : k \in 1 .. i - 1}  C == {s[k] : k \in i .. Len(s)}
<1>1. DOMAIN s = 1 .. Len(s) /\ Len(s) \in Nat /\ i \in Nat
    OBVIOUS
<1>2. /\ a \in Seq(S) /\ DOMAIN a = 1 .. i - 1
      /\ \A k \in 1 .. i - 1 : a[k] = s[k]
    BY <1>1
<1>3. /\ c \in Seq(S) /\ DOMAIN c = 1 .. Len(s) - i + 1
      /\ \A k \in 1 .. Len(s) - i + 1 : c[k] = s[k + i - 1] /\ k + i - 1 \in i .. Len(s)
    BY <1>1
<1>4. \A k \in i .. Len(s) : k - i + 1 \in 1 .. Len(s) - i + 1 /\ s[k] = s[(k - i + 1) + i - 1]
    BY <1>1
<1>5. /\ 1 .. i - 1 \in SUBSET DOMAIN s /\ i .. Len(s) \in SUBSET DOMAIN s
      /\ \A k \in DOMAIN s : k \in 1 .. i - 1 \/ k \in i .. Len(s)
      /\ \A k \in 1 .. i - 1 : k \notin i .. Len(s)
    BY <1>1
<1> HIDE DEF a, c
<1>6. Lists(a, A)
    BY <1>2, <1>5 DEF Lists, IsInjective, Range
<1>7. Lists(c, C)
    <2>1. Range(c) = C
        <3>1. ASSUME NEW x \in Range(c) PROVE x \in C
            BY <1>3 DEF Range
        <3>2. ASSUME NEW x \in C PROVE x \in Range(c)
            <4>1. PICK k \in i .. Len(s) : x = s[k]
                OBVIOUS
            <4>2. k - i + 1 \in DOMAIN c /\ c[k - i + 1] = x
                BY <1>3, <1>4, <4>1
            <4> QED
                BY <4>2 DEF Range
        <3> QED
            BY <3>1, <3>2
    <2>2. ASSUME NEW k \in DOMAIN c, NEW l \in DOMAIN c, c[k] = c[l] PROVE k = l
        <3>1. k + i - 1 = l + i - 1
            BY <1>3, <1>5, <2>2 DEF IsInjective
        <3> QED
            BY <1>1, <1>3, <3>1
    <2> QED
        BY <2>1, <2>2 DEF Lists, IsInjective
<1>8. A \cap C = {}
    BY <1>5 DEF IsInjective
<1>9. A \cup C = Range(s)
    BY <1>5 DEF Range
<1> QED
    BY <1>2, <1>3, <1>6, <1>7, <1>8, <1>9 DEF a, c

\* One prompt
LEMMA SingletonLists == \A e : Lists(<<e>>, {e})
PROOF
    BY DEF Lists, IsInjective, Range

\* Nothing
LEMMA EmptyLists == Lists(<<>>, {})
PROOF
    BY DEF Lists, IsInjective, Range

\* The front and the rest of a queue
LEMMA TailLists ==
    ASSUME NEW S, NEW s \in Seq(S), NEW P, Lists(s, P), s # <<>>
    PROVE  Head(s) \in P /\ Lists(Tail(s), P \ {Head(s)})
PROOF
<1>1. /\ DOMAIN s = 1 .. Len(s) /\ Len(s) \in Nat /\ Len(s) > 0
      /\ Head(s) = s[1] /\ DOMAIN Tail(s) = 1 .. Len(s) - 1
      /\ \A k \in 1 .. Len(s) - 1 : Tail(s)[k] = s[k + 1] /\ k + 1 \in DOMAIN s /\ k + 1 # 1
    OBVIOUS
<1>2. \A k \in DOMAIN s : k = 1 \/ (k - 1 \in 1 .. Len(s) - 1 /\ (k - 1) + 1 = k)
    BY <1>1
<1>3. Range(Tail(s)) = P \ {Head(s)}
    <2>1. ASSUME NEW x \in Range(Tail(s)) PROVE x \in P \ {Head(s)}
        <3>1. PICK k \in 1 .. Len(s) - 1 : x = s[k + 1] /\ k + 1 \in DOMAIN s /\ k + 1 # 1
            BY <1>1 DEF Range
        <3>2. 1 \in DOMAIN s
            BY <1>1
        <3> QED
            BY <1>1, <3>1, <3>2 DEF Lists, IsInjective, Range
    <2>2. ASSUME NEW x \in P \ {Head(s)} PROVE x \in Range(Tail(s))
        <3>0. x \in Range(s) /\ x # s[1]
            BY <1>1 DEF Lists
        <3>1. PICK k \in DOMAIN s : x = s[k] /\ k # 1
            BY <3>0 DEF Range
        <3>2. k - 1 \in 1 .. Len(s) - 1 /\ Tail(s)[k - 1] = s[(k - 1) + 1] /\ (k - 1) + 1 = k
            BY <1>1, <1>2, <3>1
        <3> QED
            BY <1>1, <3>1, <3>2 DEF Range
    <2> QED
        BY <2>1, <2>2
<1>4. ASSUME NEW k \in DOMAIN Tail(s), NEW l \in DOMAIN Tail(s), Tail(s)[k] = Tail(s)[l]
      PROVE  k = l
    <2>1. k + 1 = l + 1
        BY <1>1, <1>4 DEF Lists, IsInjective
    <2> QED
        BY <1>1, <2>1
<1>5. Head(s) \in P
    BY <1>1 DEF Lists, Range
<1> QED
    BY <1>3, <1>4, <1>5 DEF Lists, IsInjective

\* A list of n elements has n members.
LEMMA ListsCardinality ==
    ASSUME NEW S, NEW s \in Seq(S), NEW P, Lists(s, P)
    PROVE  IsFiniteSet(P) /\ Cardinality(P) = Len(s)
PROOF
<1>1. Len(s) \in Nat /\ s \in [1 .. Len(s) -> P] /\ DOMAIN s = 1 .. Len(s)
    BY DEF Lists, Range
<1>2. s \in Surjection(1 .. Len(s), P)
    BY <1>1 DEF Lists, Range, Surjection
<1>3. s \in Injection(1 .. Len(s), P)
    BY <1>1 DEF Lists, Injection, IsInjective
<1>4. IsFiniteSet(1 .. Len(s)) /\ Cardinality(1 .. Len(s)) = Len(s)
    BY <1>1, FS_Interval
<1> QED
    BY <1>2, <1>3, <1>4, FS_Surjection

\* What is retained of a list
LEMMA RetainLists ==
    ASSUME NEW S, NEW q \in Seq(S), NEW K, NEW P, Lists(q, P)
    PROVE  Lists(Retain(q, K), P \cap K)
PROOF
<1> DEFINE I == Kept(q, K)  r == Retain(q, K)
<1>1. Range(r) = P \cap K
    BY RetainType DEF Lists
<1>2. r \in Seq(S) /\ DOMAIN r = 1 .. Cardinality(I)
    BY RetainType
<1>3. ASSUME NEW k \in DOMAIN r, NEW l \in DOMAIN r, r[k] = r[l]
      PROVE  k = l
    <2>0. k \in 1 .. Cardinality(Kept(q, K)) /\ l \in 1 .. Cardinality(Kept(q, K))
        BY <1>2
    <2>1. PICK i \in I : Rank(I, i) = k /\ r[k] = q[i]
        BY <2>0, RetainAt
    <2>2. PICK j \in I : Rank(I, j) = l /\ r[l] = q[j]
        BY <2>0, RetainAt
    <2>3. i \in DOMAIN q /\ j \in DOMAIN q
        BY DEF Kept
    <2>4. i = j
        BY <1>3, <2>1, <2>2, <2>3 DEF Lists, IsInjective
    <2> QED
        BY <2>1, <2>2, <2>4
<1> QED
    BY <1>1, <1>3 DEF Lists, IsInjective

\* An element that is new to the list, inserted or appended
LEMMA InsertAtLists ==
    ASSUME NEW S, NEW q \in Seq(S), NEW i \in 1 .. Len(q) + 1, NEW e \in S, NEW P,
           Lists(q, P), e \notin P
    PROVE  Lists(InsertAt(q, i, e), P \cup {e})
PROOF
<1> DEFINE a == SubSeq(q, 1, i - 1)  c == SubSeq(q, i, Len(q))
           A == {q[k] : k \in 1 .. i - 1}  C == {q[k] : k \in i .. Len(q)}
<1>1. /\ a \in Seq(S) /\ c \in Seq(S) /\ Lists(a, A) /\ Lists(c, C)
      /\ A \cap C = {} /\ A \cup C = P
    BY SplitLists, ZenonT(30) DEF Lists
<1>2. InsertAt(q, i, e) = (a \o <<e>>) \o c
    BY DEF InsertAt
<1> HIDE DEF a, c, A, C
<1>3. <<e>> \in Seq(S) /\ Lists(<<e>>, {e}) /\ A \cap {e} = {}
    BY <1>1, SingletonLists
<1>4. a \o <<e>> \in Seq(S)
    BY <1>1, <1>3
<1>5. Lists(a \o <<e>>, A \cup {e})
    BY <1>1, <1>3, ConcatLists, Zenon
<1>6. (A \cup {e}) \cap C = {} /\ (A \cup {e}) \cup C = P \cup {e}
    BY <1>1
<1>7. Lists((a \o <<e>>) \o c, (A \cup {e}) \cup C)
    BY <1>1, <1>4, <1>5, <1>6, ConcatLists, Zenon
<1> QED
    BY <1>2, <1>6, <1>7

LEMMA AppendLists ==
    ASSUME NEW S, NEW q \in Seq(S), NEW e \in S, NEW P, Lists(q, P), e \notin P
    PROVE  Lists(Append(q, e), P \cup {e})
PROOF
<1>1. Append(q, e) = q \o <<e>> /\ <<e>> \in Seq(S)
    OBVIOUS
<1>2. Lists(<<e>>, {e}) /\ P \cap {e} = {}
    BY SingletonLists
<1>3. Lists(q \o <<e>>, P \cup {e})
    BY <1>1, <1>2, ConcatLists, Zenon
<1> QED
    BY <1>1, <1>3

-----------------------------------------------------------------------------
(* Where an element goes *)

\* The element at a chosen index is found at the rank of the index.
LEMMA SubsequenceIndex ==
    ASSUME NEW S, NEW q \in Seq(S), NEW I, \A j \in I : j \in 1 .. Len(q), NEW i \in I
    PROVE  /\ Rank(I, i) \in 1 .. Cardinality(I)
           /\ Subsequence(q, I)[Rank(I, i)] = q[i]
PROOF
<1>1. Len(q) \in Nat /\ Cardinality(I) \in Nat
    BY IndexSet
<1>2. \A h \in I : Rank(I, h) \in 1 .. Cardinality(I)
                       /\ \A l \in I : l < h => Rank(I, l) < Rank(I, h)
    BY <1>1, RankOf
<1>3. PICK j \in I : Rank(I, j) = Rank(I, i) /\ Subsequence(q, I)[Rank(I, i)] = q[j]
    BY <1>2, SubsequenceAt
<1>4. ~(j < i) /\ ~(i < j)
    BY <1>1, <1>2, <1>3
<1>5. j = i
    BY <1>4
<1> QED
    BY <1>2, <1>3, <1>5

\* The same for a filter
LEMMA RetainIndex ==
    ASSUME NEW S, NEW q \in Seq(S), NEW K, NEW i \in Kept(q, K)
    PROVE  /\ Rank(Kept(q, K), i) \in DOMAIN Retain(q, K)
           /\ Retain(q, K)[Rank(Kept(q, K), i)] = q[i]
           /\ \A h \in Kept(q, K) : h < i => Rank(Kept(q, K), h) < Rank(Kept(q, K), i)
PROOF
<1> DEFINE I == Kept(q, K)  r == Retain(q, K)
<1>1. Len(q) \in Nat /\ \A j \in I : j \in 1 .. Len(q)
    BY DEF Kept
<1>2. r \in Seq(S) /\ Len(r) = Cardinality(I) /\ r = Subsequence(q, I)
    BY RetainType DEF Retain
<1>3. DOMAIN r = 1 .. Cardinality(I)
    BY <1>2
<1> HIDE DEF I, r
<1>4. i \in I
    BY DEF I
<1>5. Rank(I, i) \in 1 .. Cardinality(I) /\ Subsequence(q, I)[Rank(I, i)] = q[i]
    BY <1>1, <1>4, SubsequenceIndex
<1>6. \A h \in I : h < i => Rank(I, h) < Rank(I, i)
    BY <1>1, <1>4, RankOf
<1> QED
    BY <1>2, <1>3, <1>5, <1>6 DEF I, r

\* The map g takes I onto J and keeps the order.
Aligns(g, I, J) ==
    /\ g \in [I -> J]
    /\ \A j \in J : \E i \in I : g[i] = j
    /\ \A h, i \in I : h < i => g[h] < g[i]

\* Ranks depend on the order of the indices alone.
LEMMA RankSame ==
    ASSUME NEW n \in Nat, NEW I \in SUBSET (1 .. n), NEW J \in SUBSET Nat, NEW g,
           Aligns(g, I, J)
    PROVE  /\ Cardinality(J) = Cardinality(I)
           /\ \A i \in I : Rank(J, g[i]) = Rank(I, i)
PROOF
<1>0. /\ g \in [I -> J] /\ \A j \in J : \E i \in I : g[i] = j
      /\ \A h, i \in I : h < i => g[h] < g[i]
    BY DEF Aligns
<1>1. IsFiniteSet(I) /\ \A i \in I : i \in Nat /\ g[i] \in J /\ g[i] \in Nat
    <2>1. \A i \in I : i \in 1 .. n
        OBVIOUS
    <2>2. IsFiniteSet(I)
        BY <2>1, IndexSet
    <2>3. \A i \in I : g[i] \in J
        BY <1>0
    <2>4. \A i \in I : i \in Nat
        BY <2>1
    <2>5. \A j \in J : j \in Nat
        OBVIOUS
    <2> QED
        BY <2>2, <2>3, <2>4, <2>5, Zenon
<1>2. \A h, i \in I : g[h] = g[i] => h = i
    <2>1. SUFFICES ASSUME NEW h \in I, NEW i \in I, g[h] = g[i] PROVE h = i
        OBVIOUS
    <2>2. ~(h < i) /\ ~(i < h)
        BY <1>0, <1>1, <2>1
    <2> QED
        BY <1>1, <2>2
<1>3. ASSUME NEW A, A \subseteq I, NEW B, B \subseteq J, \A i \in I : i \in A <=> g[i] \in B
      PROVE  Cardinality(B) = Cardinality(A)
    <2> DEFINE f == [i \in A |-> g[i]]
    <2>1. f \in [A -> B]
        BY <1>3
    <2>2. f \in Injection(A, B)
        BY <1>2, <1>3, <2>1 DEF Injection, IsInjective
    <2>3. f \in Surjection(A, B)
        BY <1>0, <1>3, <2>1 DEF Surjection
    <2>4. ExistsBijection(A, B)
        BY <2>2, <2>3 DEF ExistsBijection, Bijection
    <2>5. IsFiniteSet(A)
        BY <1>1, <1>3, FS_Subset
    <2> QED
        BY <2>4, <2>5, FS_Bijection
<1>4. Cardinality(J) = Cardinality(I)
    BY <1>1, <1>3
<1>5. ASSUME NEW i \in I
      PROVE  Rank(J, g[i]) = Rank(I, i)
    <2> DEFINE A == {h \in I : h <= i}  B == {j \in J : j <= g[i]}
    <2>1. \A h \in I : h \in A <=> g[h] \in B
        <3>1. SUFFICES ASSUME NEW h \in I PROVE h <= i <=> g[h] <= g[i]
            BY <1>1
        <3>2. (h < i => g[h] < g[i]) /\ (i < h => g[i] < g[h])
            BY <1>0
        <3> QED
            BY <1>1, <3>2
    <2>2. A \subseteq I /\ B \subseteq J
        OBVIOUS
    <2> HIDE DEF A, B
    <2>3. Cardinality(B) = Cardinality(A)
        BY <1>3, <2>1, <2>2
    <2> QED
        BY <2>3 DEF Rank, A, B
<1> QED
    BY <1>4, <1>5

\* The sequence r lists its members of L as q lists its members of K.
Matches(g, q, K, r, L) ==
    Aligns(g, Kept(q, K), Kept(r, L)) /\ \A i \in Kept(q, K) : r[g[i]] = q[i]

LEMMA RetainSame ==
    ASSUME NEW S, NEW q \in Seq(S), NEW r \in Seq(S), NEW K, NEW L,
           NEW g, Matches(g, q, K, r, L)
    PROVE  Retain(r, L) = Retain(q, K)
PROOF
<1> DEFINE I == Kept(q, K)  J == Kept(r, L)  a == Retain(q, K)  b == Retain(r, L)
<1>1. Len(q) \in Nat /\ I \in SUBSET (1 .. Len(q))
    BY DEF Kept
<1>2. J \in SUBSET Nat
    BY DEF Kept
<1>3. /\ a \in Seq(S) /\ Len(a) = Cardinality(I)
      /\ b \in Seq(S) /\ Len(b) = Cardinality(J)
    BY RetainType
<1>4. Cardinality(I) = Cardinality(J) /\ \A i \in I : Rank(J, g[i]) = Rank(I, i)
    <2> HIDE DEF I, J
    <2>1. Aligns(g, I, J)
        BY DEF I, J, Matches
    <2> QED
        BY <1>1, <1>2, <2>1, RankSame, Zenon
<1>5. ASSUME NEW k \in 1 .. Cardinality(I)
      PROVE  b[k] = a[k]
    <2>1. PICK i \in I : Rank(I, i) = k /\ a[k] = q[i]
        BY RetainAt
    <2>2. g[i] \in J /\ r[g[i]] = q[i]
        BY DEF Matches, Aligns
    <2>3. b[Rank(J, g[i])] = r[g[i]]
        BY <2>2, RetainIndex
    <2> QED
        BY <1>4, <2>1, <2>2, <2>3
<1> HIDE DEF I, J, a, b
<1>6. DOMAIN a = 1 .. Cardinality(I) /\ DOMAIN b = 1 .. Cardinality(I)
    BY <1>3, <1>4
<1>7. a = b
    BY <1>3, <1>5, <1>6
<1> QED
    BY <1>7 DEF a, b

\* Predicates that agree on the elements
LEMMA RetainAgrees ==
    ASSUME NEW S, NEW q \in Seq(S), NEW K, NEW L, \A x \in Range(q) : x \in K <=> x \in L
    PROVE  Retain(q, K) = Retain(q, L)
PROOF
<1>1. Kept(q, K) = Kept(q, L)
    BY DEF Kept, Range
<1> QED
    BY <1>1 DEF Retain

\* A front, or a new last element, that is filtered out
LEMMA RetainTail ==
    ASSUME NEW S, NEW q \in Seq(S), NEW K, q # <<>>, Head(q) \notin K
    PROVE  Retain(Tail(q), K) = Retain(q, K)
PROOF
<1> DEFINE r == Tail(q)  I == Kept(r, K)  J == Kept(q, K)  g == [i \in I |-> i + 1]
<1>1. /\ r \in Seq(S) /\ Len(q) \in Nat /\ DOMAIN q = 1 .. Len(q) /\ Head(q) = q[1]
      /\ DOMAIN r = 1 .. Len(q) - 1 /\ \A k \in 1 .. Len(q) - 1 : r[k] = q[k + 1]
    OBVIOUS
<1> HIDE DEF r
<1>2. \A i : i \in I <=> i \in 1 .. Len(q) - 1 /\ q[i + 1] \in K
    BY <1>1 DEF Kept
<1>3. \A j : j \in J <=> j \in 1 .. Len(q) /\ q[j] \in K
    BY <1>1 DEF Kept
<1> HIDE DEF I, J
<1>4. \A i \in I : i \in Nat /\ i + 1 \in J
    BY <1>1, <1>2, <1>3
<1>5. ASSUME NEW j \in J PROVE j - 1 \in I /\ (j - 1) + 1 = j
    <2>1. j \in 1 .. Len(q) /\ q[j] \in K /\ j # 1
        BY <1>1, <1>3
    <2>2. j - 1 \in 1 .. Len(q) - 1 /\ (j - 1) + 1 = j
        BY <1>1, <2>1
    <2> QED
        BY <1>2, <2>1, <2>2
<1>6. g \in [I -> J] /\ \A i \in I : g[i] = i + 1
    BY <1>4
<1> HIDE DEF g
<1>7. \A j \in J : \E i \in I : g[i] = j
    BY <1>5, <1>6
<1>8. \A h, i \in I : h < i => g[h] < g[i]
    BY <1>4, <1>6
<1>9. \A i \in I : q[g[i]] = r[i]
    BY <1>1, <1>2, <1>6
<1>10. Aligns(g, I, J)
    BY <1>6, <1>7, <1>8 DEF Aligns
<1>11. Matches(g, r, K, q, K)
    BY <1>9, <1>10 DEF Matches, I, J
<1>12. Retain(q, K) = Retain(r, K)
    BY <1>1, <1>11, RetainSame
<1> QED
    BY <1>12 DEF r

LEMMA RetainAppend ==
    ASSUME NEW S, NEW q \in Seq(S), NEW e \in S, NEW K, e \notin K
    PROVE  Retain(Append(q, e), K) = Retain(q, K)
PROOF
<1> DEFINE r == Append(q, e)  I == Kept(q, K)  g == [i \in I |-> i]
<1>1. /\ r \in Seq(S) /\ Len(q) \in Nat /\ DOMAIN q = 1 .. Len(q) /\ DOMAIN r = 1 .. Len(q) + 1
      /\ r[Len(q) + 1] = e /\ \A i \in 1 .. Len(q) : r[i] = q[i]
    OBVIOUS
<1> HIDE DEF r
<1>2. Kept(r, K) = I
    BY <1>1 DEF Kept
<1>3. \A i \in I : i \in 1 .. Len(q) /\ r[i] = q[i]
    BY <1>1 DEF Kept
<1> HIDE DEF I
<1>4. g \in [I -> Kept(r, K)] /\ \A i \in I : g[i] = i
    BY <1>2
<1> HIDE DEF g
<1>5. Aligns(g, I, Kept(r, K)) /\ \A i \in I : r[g[i]] = q[i]
    BY <1>2, <1>3, <1>4 DEF Aligns
<1>6. Matches(g, q, K, r, K)
    BY <1>5 DEF Matches, I
<1>7. Retain(r, K) = Retain(q, K)
    BY <1>1, <1>6, RetainSame
<1> QED
    BY <1>7 DEF r

\* A filter before a narrower one
LEMMA RetainTwice ==
    ASSUME NEW S, NEW q \in Seq(S), NEW K, NEW L, \A x \in Range(q) : x \in K => x \in L
    PROVE  Retain(Retain(q, L), K) = Retain(q, K)
PROOF
<1> DEFINE r == Retain(q, L)  I == Kept(q, K)  P == Kept(q, L)  J == Kept(r, K)
           g == [i \in I |-> Rank(P, i)]
<1>1. I \subseteq P
    BY DEF Kept, Range
<1>2. \A i \in P : /\ Rank(P, i) \in DOMAIN r /\ r[Rank(P, i)] = q[i]
                   /\ \A h \in P : h < i => Rank(P, h) < Rank(P, i)
    BY RetainIndex
<1>3. r \in Seq(S) /\ DOMAIN r = 1 .. Cardinality(P)
    BY RetainType
<1>4. \A k \in DOMAIN r : \E i \in P : Rank(P, i) = k /\ r[k] = q[i]
    <2>1. SUFFICES ASSUME NEW k \in 1 .. Cardinality(P)
                   PROVE  \E i \in P : Rank(P, i) = k /\ r[k] = q[i]
        BY <1>3
    <2> QED
        BY RetainAt DEF r, P
<1> HIDE DEF r, P
<1>5. \A j : j \in J <=> j \in DOMAIN r /\ r[j] \in K
    BY DEF Kept
<1>6. \A i \in P : i \in I <=> q[i] \in K
    BY DEF Kept, P
<1> HIDE DEF I, J
<1>7. g \in [I -> J] /\ \A i \in I : g[i] = Rank(P, i)
    BY <1>1, <1>2, <1>5, <1>6
<1> HIDE DEF g
<1>8. \A j \in J : \E i \in I : g[i] = j
    BY <1>4, <1>5, <1>6, <1>7
<1>9. \A h, i \in I : h < i => g[h] < g[i]
    BY <1>1, <1>2, <1>7
<1>10. \A i \in I : r[g[i]] = q[i]
    BY <1>1, <1>2, <1>7
<1>11. Aligns(g, I, J)
    BY <1>7, <1>8, <1>9 DEF Aligns
<1>12. Matches(g, q, K, r, K)
    BY <1>10, <1>11 DEF Matches, I, J
<1>13. Retain(r, K) = Retain(q, K)
    BY <1>3, <1>12, RetainSame
<1> QED
    BY <1>13 DEF r

-----------------------------------------------------------------------------
(* A segment inserted into a sequence *)

\* The sequence q with the segment s put in front of its element i.
Splice(q, i, s) == SubSeq(q, 1, i - 1) \o s \o SubSeq(q, i, Len(q))

\* Where the index k of q is after a segment of n elements was inserted at i.
ShiftedBy(i, n, k) == IF k < i THEN k ELSE k + n

\* The elements of u are those of q and, in front of element i, those of s.
Spliced(u, q, i, s) ==
    /\ DOMAIN u = 1 .. Len(q) + Len(s)
    /\ \A k \in DOMAIN q : ShiftedBy(i, Len(s), k) \in DOMAIN u /\ u[ShiftedBy(i, Len(s), k)] = q[k]
    /\ \A k \in 1 .. Len(s) : (i - 1) + k \in DOMAIN u /\ u[(i - 1) + k] = s[k]
    /\ \A m \in DOMAIN u :
           \/ \E k \in DOMAIN q : m = ShiftedBy(i, Len(s), k)
           \/ \E k \in 1 .. Len(s) : m = (i - 1) + k

\* The elements of u are those of s and then those of t.
Joined(u, s, t) ==
    /\ Len(u) = Len(s) + Len(t) /\ DOMAIN u = 1 .. Len(u)
    /\ \A k \in 1 .. Len(s) : u[k] = s[k]
    /\ \A k \in 1 .. Len(t) : u[Len(s) + k] = t[k]

\* Two sequences joined, and a segment spliced in, index by index
LEMMA ConcatAt ==
    ASSUME NEW S, NEW s \in Seq(S), NEW t \in Seq(S)
    PROVE  s \o t \in Seq(S) /\ Joined(s \o t, s, t)
PROOF
    BY DEF Joined

LEMMA SpliceAt ==
    ASSUME NEW S, NEW q \in Seq(S), NEW s \in Seq(S), NEW i \in 1 .. Len(q) + 1
    PROVE  Splice(q, i, s) \in Seq(S) /\ Spliced(Splice(q, i, s), q, i, s)
PROOF
<1> DEFINE a == SubSeq(q, 1, i - 1)  c == SubSeq(q, i, Len(q))  n == Len(s)  N == Len(q)
           ab == a \o s
           u == ab \o c
<1>1. N \in Nat /\ n \in Nat /\ i \in Nat /\ i >= 1 /\ i <= N + 1 /\ DOMAIN q = 1 .. N
    OBVIOUS
<1>2. a \in Seq(S) /\ Len(a) = i - 1 /\ \A k \in 1 .. i - 1 : a[k] = q[k]
    BY <1>1
<1>3. c \in Seq(S) /\ Len(c) = N - i + 1 /\ \A k \in 1 .. N - i + 1 : c[k] = q[k + i - 1]
    BY <1>1
<1> HIDE DEF a, c
<1>4. /\ ab \in Seq(S) /\ Len(ab) = (i - 1) + n
      /\ \A k \in 1 .. i - 1 : ab[k] = a[k]
      /\ \A k \in 1 .. n : ab[(i - 1) + k] = s[k]
    <2>1. ab \in Seq(S) /\ Joined(ab, a, s)
        BY <1>2, ConcatAt, Zenon
    <2> HIDE DEF ab
    <2> QED
        BY <1>2, <2>1 DEF Joined
<1> HIDE DEF ab
<1>5. /\ u \in Seq(S) /\ Len(u) = ((i - 1) + n) + (N - i + 1) /\ DOMAIN u = 1 .. Len(u)
      /\ \A k \in 1 .. (i - 1) + n : u[k] = ab[k]
      /\ \A k \in 1 .. N - i + 1 : u[((i - 1) + n) + k] = c[k]
    <2>1. u \in Seq(S) /\ Joined(u, ab, c)
        BY <1>3, <1>4, ConcatAt, Zenon
    <2> HIDE DEF u
    <2> QED
        BY <1>3, <1>4, <2>1 DEF Joined
<1> HIDE DEF u
<1>6. u \in Seq(S) /\ DOMAIN u = 1 .. N + n
    BY <1>1, <1>5
<1>7. ASSUME NEW k \in DOMAIN q
      PROVE  ShiftedBy(i, n, k) \in DOMAIN u /\ u[ShiftedBy(i, n, k)] = q[k]
    <2>1. CASE k < i
        <3>1. k \in 1 .. i - 1 /\ k \in 1 .. (i - 1) + n /\ k \in 1 .. N + n
            BY <1>1, <2>1
        <3>2. u[k] = q[k]
            BY <1>2, <1>4, <1>5, <3>1
        <3> QED
            BY <1>6, <2>1, <3>1, <3>2 DEF ShiftedBy
    <2>2. CASE ~(k < i)
        <3> DEFINE l == k - i + 1
        <3>1. l \in 1 .. N - i + 1 /\ ((i - 1) + n) + l = k + n /\ l + i - 1 = k
            BY <1>1, <2>2
        <3> HIDE DEF l
        <3>2. u[k + n] = q[k]
            BY <1>3, <1>5, <3>1
        <3> QED
            BY <1>1, <1>6, <2>2, <3>2 DEF ShiftedBy
    <2> QED
        BY <2>1, <2>2
<1>8. ASSUME NEW k \in 1 .. n
      PROVE  (i - 1) + k \in DOMAIN u /\ u[(i - 1) + k] = s[k]
    <2>1. (i - 1) + k \in 1 .. (i - 1) + n /\ (i - 1) + k \in 1 .. N + n
        BY <1>1
    <2> QED
        BY <1>4, <1>5, <1>6, <2>1
<1>9. ASSUME NEW m \in DOMAIN u
      PROVE  \/ \E k \in DOMAIN q : m = ShiftedBy(i, n, k)
             \/ \E k \in 1 .. n : m = (i - 1) + k
    <2>1. CASE m < i
        <3>1. m \in DOMAIN q /\ m = ShiftedBy(i, n, m)
            BY <1>1, <1>6, <2>1 DEF ShiftedBy
        <3> QED
            BY <3>1
    <2>2. CASE m >= i /\ m < i + n
        <3>1. m - i + 1 \in 1 .. n /\ m = (i - 1) + (m - i + 1)
            BY <1>1, <1>6, <2>2
        <3> QED
            BY <3>1
    <2>3. CASE m >= i + n
        <3>1. m - n \in DOMAIN q /\ m = ShiftedBy(i, n, m - n)
            BY <1>1, <1>6, <2>3 DEF ShiftedBy
        <3> QED
            BY <3>1
    <2> QED
        BY <1>1, <1>6, <2>1, <2>2, <2>3
<1>10. u = Splice(q, i, s)
    BY DEF Splice, u, ab, a, c
<1>11. Spliced(u, q, i, s)
    BY <1>6, <1>7, <1>8, <1>9 DEF Spliced
<1> QED
    BY <1>6, <1>10, <1>11

\* A segment that is filtered out
LEMMA RetainSplice ==
    ASSUME NEW S, NEW q \in Seq(S), NEW s \in Seq(S), NEW i \in 1 .. Len(q) + 1, NEW K,
           Range(s) \cap K = {}
    PROVE  Retain(Splice(q, i, s), K) = Retain(q, K)
PROOF
<1> DEFINE u == Splice(q, i, s)  n == Len(s)  I == Kept(q, K)  J == Kept(u, K)
           g == [k \in I |-> ShiftedBy(i, n, k)]
<1>1. /\ u \in Seq(S)
      /\ \A k \in DOMAIN q : ShiftedBy(i, n, k) \in DOMAIN u /\ u[ShiftedBy(i, n, k)] = q[k]
      /\ \A k \in 1 .. n : u[(i - 1) + k] = s[k]
      /\ \A m \in DOMAIN u :
             \/ \E k \in DOMAIN q : m = ShiftedBy(i, n, k)
             \/ \E k \in 1 .. n : m = (i - 1) + k
    <2>1. u \in Seq(S) /\ Spliced(u, q, i, s)
        BY SpliceAt
    <2> HIDE DEF u
    <2> QED
        BY <2>1 DEF Spliced
<1>2. n \in Nat /\ i \in Nat /\ (\A k \in DOMAIN q : k \in Nat) /\ \A k \in 1 .. n : s[k] \notin K
    BY DEF Range
<1> HIDE DEF u, n
<1>3. \A k : k \in I <=> k \in DOMAIN q /\ q[k] \in K
    BY DEF Kept
<1>4. \A k : k \in J <=> k \in DOMAIN u /\ u[k] \in K
    BY DEF Kept
<1> HIDE DEF I, J
<1>5. g \in [I -> J] /\ \A k \in I : g[k] = ShiftedBy(i, n, k)
    BY <1>1, <1>3, <1>4
<1> HIDE DEF g
<1>6. ASSUME NEW j \in J PROVE \E k \in I : g[k] = j
    <2>1. j \in DOMAIN u /\ u[j] \in K
        BY <1>4
    <2>2. ASSUME NEW k \in 1 .. n, j = (i - 1) + k PROVE FALSE
        BY <1>1, <1>2, <2>1, <2>2
    <2>3. PICK k \in DOMAIN q : j = ShiftedBy(i, n, k)
        BY <1>1, <2>1, <2>2
    <2>4. k \in I
        BY <1>1, <1>3, <2>1, <2>3
    <2> QED
        BY <1>5, <2>3, <2>4
<1>7. \A h, k \in I : h < k => g[h] < g[k]
    <2>1. \A k \in I : k \in Nat
        BY <1>2, <1>3
    <2>2. \A h, k \in Nat : h < k => ShiftedBy(i, n, h) < ShiftedBy(i, n, k)
        BY <1>2 DEF ShiftedBy
    <2> QED
        BY <1>5, <2>1, <2>2
<1>8. \A k \in I : u[g[k]] = q[k]
    BY <1>1, <1>3, <1>5
<1>9. Aligns(g, I, J)
    BY <1>5, <1>6, <1>7 DEF Aligns
<1>10. Matches(g, q, K, u, K)
    BY <1>8, <1>9 DEF Matches, I, J
<1>11. Retain(u, K) = Retain(q, K)
    BY <1>1, <1>10, RetainSame
<1> QED
    BY <1>11 DEF u
=============================================================================
