------------------------- MODULE ConsentFloorProofs -------------------------
(***************************************************************************)
(* Proofs about ConsentFloor, for any number of callers, dispatch passes   *)
(* and decisions, any capacity of the trail and any number of failing      *)
(* writes, crashes and damaged files.                                      *)
(***************************************************************************)
EXTENDS ConsentFloorInvariants, FiniteSetTheorems, WellFoundedInduction, TLAPS

-----------------------------------------------------------------------------
(* Sequences of receipts.                                                  *)

\* A set of numbers has a least one.
LEMMA LeastNumber ==
    ASSUME NEW T \in SUBSET Nat, T # {}
    PROVE  \E n \in T : \A m \in T : n <= m
<1>1. PICK n \in T : \A m \in T : <<m, n>> \notin OpToRel(<, Nat)
  BY NatLessThanWellFounded, WFMin
<1>2. \A m \in T : ~(m < n)
  BY <1>1 DEF OpToRel
<1> QED
  BY <1>2

\* One that is bounded has a largest one.
LEMMA LargestNumber ==
    ASSUME NEW T \in SUBSET Nat, T # {}, NEW b \in Nat, \A m \in T : m <= b
    PROVE  \E n \in T : \A m \in T : m <= n
<1> DEFINE U == {u \in Nat : \A m \in T : m <= u}
<1>1. PICK u \in U : \A v \in U : u <= v
  BY LeastNumber
<1>2. CASE u \in T
  BY <1>2
<1>3. CASE u \notin T
  <2>1. \A m \in T : m <= u - 1 /\ u >= 1
    BY <1>3
  <2>2. u - 1 \in Nat
    <3>1. PICK m \in T : TRUE
      OBVIOUS
    <3> QED
      BY <2>1, <3>1
  <2>3. u - 1 \in U
    BY <2>1, <2>2
  <2> QED
    BY <1>1, <2>3
<1> QED
  BY <1>2, <1>3

\* The number of members of a finite set of places before a place.
Before(K, i) == Cardinality({j \in K : j < i})

LEMMA BeforeGrows ==
    ASSUME NEW n \in Nat, NEW K \in SUBSET (1..n), NEW i \in K, NEW k \in K, i < k
    PROVE  Before(K, i) \in Nat /\ Before(K, k) \in Nat /\ Before(K, i) < Before(K, k)
<1> DEFINE A == {j \in K : j < i}
           B == {j \in K : j < k}
<1>1. IsFiniteSet(1..n)
  BY FS_Interval
<1>2. IsFiniteSet(A) /\ IsFiniteSet(B)
  BY <1>1, FS_Subset
<1>3. A \subseteq B /\ A # B
  <2>1. i \in B /\ i \notin A
    OBVIOUS
  <2>2. \A j \in K : j \in Nat /\ (j < i => j < k)
    OBVIOUS
  <2> QED
    BY <2>1, <2>2
<1>4. Cardinality(A) < Cardinality(B) /\ Cardinality(A) \in Nat /\ Cardinality(B) \in Nat
  BY <1>2, <1>3, FS_Subset, FS_CardinalityType
<1> QED
  BY <1>4 DEF Before

LEMMA BeforeBounded ==
    ASSUME NEW n \in Nat, NEW K \in SUBSET (1..n), NEW i \in K
    PROVE  Before(K, i) \in Nat /\ Cardinality(K) \in Nat /\ Before(K, i) < Cardinality(K)
<1> DEFINE A == {j \in K : j < i}
<1>1. IsFiniteSet(1..n)
  BY FS_Interval
<1>2. IsFiniteSet(A) /\ IsFiniteSet(K)
  BY <1>1, FS_Subset
<1>3. A \subseteq K /\ A # K
  OBVIOUS
<1>4. Cardinality(A) < Cardinality(K) /\ Cardinality(A) \in Nat /\ Cardinality(K) \in Nat
  BY <1>2, <1>3, FS_Subset, FS_CardinalityType
<1> QED
  BY <1>4 DEF Before

\* Every number below the cardinality is the number before some member.
LEMMA BeforeOnto ==
    ASSUME NEW n \in Nat, NEW K \in SUBSET (1..n), NEW m \in Nat, m < Cardinality(K)
    PROVE  \E i \in K : Before(K, i) = m
<1>a. K \in SUBSET Nat /\ \A j \in K : j \in Nat /\ j <= n
  OBVIOUS
<1>0. IsFiniteSet(K) /\ Cardinality(K) \in Nat
  <2>1. IsFiniteSet(1..n)
    BY FS_Interval
  <2> QED
    BY <2>1, FS_Subset, FS_CardinalityType
<1> DEFINE T == {i \in K : Before(K, i) >= m}
<1>1. T # {}
  <2>1. K # {}
    BY <1>0, FS_EmptySet
  <2>2. PICK z \in K : \A i \in K : i <= z
    BY <1>a, <2>1, LargestNumber
  <2>3. {j \in K : j < z} = K \ {z}
    <3>1. \A j \in K : j < z <=> j # z
      BY <1>a, <2>2
    <3> QED
      BY <3>1
  <2>4. Cardinality(K \ {z}) = Cardinality(K) - 1
    BY <1>0, FS_RemoveElement
  <2>5. Before(K, z) = Cardinality(K) - 1
    BY <2>3, <2>4 DEF Before
  <2> QED
    BY <1>0, <2>5
<1>2. PICK i \in T : \A k \in T : i <= k
  BY <1>a, <1>1, LeastNumber
<1>3. Before(K, i) \in Nat
  BY BeforeBounded
<1>4. CASE Before(K, i) = m
  BY <1>4
<1>5. CASE Before(K, i) > m
  <2> DEFINE A == {j \in K : j < i}
  <2>1. A # {}
    BY <1>0, <1>5, FS_EmptySet DEF Before
  <2>2. PICK p \in A : \A k \in A : k <= p
    BY <1>a, <2>1, LargestNumber
  <2>3. {j \in K : j < p} = A \ {p}
    <3>1. \A j \in K : j < p <=> (j < i /\ j # p)
      BY <1>a, <2>2
    <3> QED
      BY <3>1
  <2>4. IsFiniteSet(A)
    BY <1>0, FS_Subset
  <2>5. Cardinality(A \ {p}) = Cardinality(A) - 1
    BY <2>2, <2>4, FS_RemoveElement
  <2>6. Before(K, p) = Before(K, i) - 1
    BY <2>3, <2>5 DEF Before
  <2>7. p \in T /\ p < i
    BY <1>3, <1>5, <2>2, <2>6
  <2> QED
    BY <1>2, <2>7
<1> QED
  BY <1>2, <1>3, <1>4, <1>5

\* What a filtered trail holds, and that it keeps the order.
LEMMA WithoutKeeps ==
    ASSUME NEW s \in Seq(Rcpt), NEW ks
    PROVE  /\ Without(s, ks) \in Seq(Rcpt)
           /\ Receipts(Without(s, ks)) = {r \in Receipts(s) : r.key \notin ks}
           /\ Ordered(s) => Ordered(Without(s, ks))
<1> DEFINE K == {i \in 1..Len(s) : s[i].key \notin ks}
           p(n) == CHOOSE i \in K : Cardinality({j \in K : j < i}) = n - 1
           t == Without(s, ks)
<1>1. Len(s) \in Nat /\ K \in SUBSET (1..Len(s)) /\ DOMAIN s = 1..Len(s)
  OBVIOUS
<1>a. \A i \in K : i \in Int /\ i \in 1..Len(s)
  OBVIOUS
<1>2. Cardinality(K) \in Nat
  <2>1. IsFiniteSet(1..Len(s))
    BY <1>1, FS_Interval
  <2>2. IsFiniteSet(K)
    BY <1>1, <2>1, FS_Subset
  <2> QED
    BY <2>2, FS_CardinalityType
<1>3. t = [n \in 1..Cardinality(K) |-> s[p(n)]]
  BY DEF Without
<1> HIDE DEF t, K
<1>4. ASSUME NEW n \in 1..Cardinality(K) PROVE p(n) \in K /\ Before(K, p(n)) = n - 1
  <2>1. n - 1 \in Nat /\ n - 1 < Cardinality(K)
    BY <1>2
  <2>2. \E i \in K : Before(K, i) = n - 1
    BY <1>1, <2>1, BeforeOnto
  <2> QED
    BY <2>2 DEF Before
<1> HIDE DEF p
<1>5. ASSUME NEW i \in K PROVE \E n \in 1..Cardinality(K) : p(n) = i
  <2>1. Before(K, i) \in Nat /\ Before(K, i) < Cardinality(K)
    BY <1>1, BeforeBounded
  <2> DEFINE n == Before(K, i) + 1
  <2>2. n \in 1..Cardinality(K) /\ n - 1 = Before(K, i)
    BY <1>2, <2>1
  <2> HIDE DEF n
  <2>3. p(n) \in K /\ Before(K, p(n)) = Before(K, i)
    BY <1>4, <2>2
  <2>4. ~(p(n) < i) /\ ~(i < p(n))
    <3>1. ASSUME p(n) < i PROVE FALSE
      <4>1. Before(K, p(n)) < Before(K, i)
        BY <1>1, <2>3, <3>1, BeforeGrows
      <4> QED
        BY <2>1, <2>3, <4>1
    <3>2. ASSUME i < p(n) PROVE FALSE
      <4>1. Before(K, i) < Before(K, p(n))
        BY <1>1, <2>3, <3>2, BeforeGrows
      <4> QED
        BY <2>1, <2>3, <4>1
    <3> QED
      BY <3>1, <3>2
  <2>5. p(n) \in Int /\ i \in Int
    BY <1>a, <2>3
  <2>6. p(n) = i
    BY <2>4, <2>5
  <2> QED
    BY <2>2, <2>6
<1>6. ASSUME NEW n \in 1..Cardinality(K), NEW m \in 1..Cardinality(K), n < m PROVE p(n) < p(m)
  <2>1. p(n) \in K /\ p(m) \in K /\ Before(K, p(n)) = n - 1 /\ Before(K, p(m)) = m - 1
    BY <1>4
  <2>2. p(n) # p(m)
    BY <1>2, <1>6, <2>1
  <2>3. ~(p(m) < p(n))
    <3>1. ASSUME p(m) < p(n) PROVE FALSE
      <4>1. Before(K, p(m)) < Before(K, p(n))
        BY <1>1, <2>1, <3>1, BeforeGrows
      <4> QED
        BY <1>2, <1>6, <2>1, <4>1
    <3> QED
      BY <3>1
  <2>4. p(n) \in Int /\ p(m) \in Int
    BY <1>a, <2>1
  <2> QED
    BY <2>2, <2>3, <2>4
<1>7. \A n \in 1..Cardinality(K) : p(n) \in 1..Len(s) /\ s[p(n)] \in Rcpt
  <2>1. \A i \in 1..Len(s) : s[i] \in Rcpt
    OBVIOUS
  <2>2. ASSUME NEW n \in 1..Cardinality(K) PROVE p(n) \in 1..Len(s)
    BY <1>4, <1>a
  <2> QED
    BY <2>1, <2>2
<1>8. t \in Seq(Rcpt) /\ Len(t) = Cardinality(K) /\ \A n \in 1..Len(t) : t[n] = s[p(n)]
  BY <1>2, <1>3, <1>7
<1>9. Receipts(t) = {r \in Receipts(s) : r.key \notin ks}
  <2>1. ASSUME NEW r \in Receipts(t) PROVE r \in Receipts(s) /\ r.key \notin ks
    BY <1>8, <1>4 DEF Receipts, K
  <2>2. ASSUME NEW r \in Receipts(s), r.key \notin ks PROVE r \in Receipts(t)
    <3>1. PICK i \in 1..Len(s) : r = s[i]
      BY DEF Receipts
    <3>2. i \in K
      BY <2>2, <3>1 DEF K
    <3>3. PICK n \in 1..Cardinality(K) : p(n) = i
      BY <1>5, <3>2
    <3>4. n \in 1..Len(t) /\ t[n] = r
      BY <1>8, <3>1, <3>3
    <3> QED
      BY <3>4 DEF Receipts
  <2> QED
    BY <2>1, <2>2
<1>10. Ordered(s) => Ordered(t)
  <2>1. ASSUME Ordered(s), NEW i \in 1..Len(t), NEW j \in 1..Len(t), i < j
        PROVE  t[i].key < t[j].key /\ t[i].at < t[j].at
    BY <1>6, <1>7, <1>8, <2>1 DEF Ordered
  <2> QED
    BY <2>1 DEF Ordered
<1> QED
  BY <1>8, <1>9, <1>10 DEF t
\* The keys of a trail are those of its receipts.
LEMMA KeysOf ==
    ASSUME NEW s \in Seq(Rcpt)
    PROVE  /\ Keys(s) = {r.key : r \in Receipts(s)}
           /\ Receipts(s) \in SUBSET Rcpt
           /\ Keys(s) \in SUBSET Nat
           /\ \A k : k \in Keys(s) <=> \E r \in Receipts(s) : r.key = k
<1>1. \A i \in 1..Len(s) : s[i] \in Rcpt
  OBVIOUS
<1> QED
  BY <1>1 DEF Keys, Receipts, Rcpt

\* Order, said of the receipts.
LEMMA OrderedReceipts ==
    ASSUME NEW s \in Seq(Rcpt), Ordered(s), NEW r \in Receipts(s), NEW t \in Receipts(s)
    PROVE  /\ r.key < t.key => r.at < t.at
           /\ r.key = t.key => r = t
           /\ r.at < t.at => r.key < t.key
           /\ r.at = t.at => r = t
<1>1. PICK i \in 1..Len(s) : r = s[i]
  BY DEF Receipts
<1>2. PICK j \in 1..Len(s) : t = s[j]
  BY DEF Receipts
<1>3. r \in Rcpt /\ t \in Rcpt
  BY <1>1, <1>2
<1>4. r.key \in Nat /\ t.key \in Nat /\ r.at \in Nat /\ t.at \in Nat
  BY <1>3 DEF Rcpt
<1>5. CASE i < j
  BY <1>1, <1>2, <1>4, <1>5 DEF Ordered
<1>6. CASE j < i
  BY <1>1, <1>2, <1>4, <1>6 DEF Ordered
<1>7. CASE i = j
  BY <1>1, <1>2, <1>4, <1>7
<1> QED
  BY <1>5, <1>6, <1>7

\* The last receipt of an ordered trail is its newest.
LEMMA LastIsNewest ==
    ASSUME NEW s \in Seq(Rcpt), Ordered(s), s # <<>>
    PROVE  /\ Last(s) \in Receipts(s) /\ Last(s) \in Rcpt
           /\ \A r \in Receipts(s) : r.key <= Last(s).key /\ r.at <= Last(s).at
<1>1. Len(s) \in 1..Len(s) /\ \A i \in 1..Len(s) : s[i] \in Rcpt
  OBVIOUS
<1>2. Last(s) \in Receipts(s) /\ Last(s) \in Rcpt
  BY <1>1 DEF Last, Receipts
<1>3. ASSUME NEW r \in Receipts(s) PROVE r.key <= Last(s).key /\ r.at <= Last(s).at
  <2>1. PICK i \in 1..Len(s) : r = s[i]
    BY DEF Receipts
  <2>2. r.key \in Nat /\ r.at \in Nat /\ Last(s).key \in Nat /\ Last(s).at \in Nat
    BY <1>1, <1>2, <2>1 DEF Rcpt
  <2>3. CASE i = Len(s)
    BY <2>1, <2>2, <2>3 DEF Last
  <2>4. CASE i < Len(s)
    BY <1>1, <2>1, <2>2, <2>4 DEF Last, Ordered
  <2> QED
    BY <2>3, <2>4
<1> QED
  BY <1>2, <1>3

LEMMA EmptyTrail ==
    /\ <<>> \in Seq(Rcpt) /\ Receipts(<<>>) = {} /\ Keys(<<>>) = {} /\ Ordered(<<>>)
    /\ \A s \in Seq(Rcpt) : s # <<>> <=> Receipts(s) # {}
<1>1. <<>> \in Seq(Rcpt) /\ Receipts(<<>>) = {} /\ Keys(<<>>) = {} /\ Ordered(<<>>)
  BY DEF Receipts, Keys, Ordered
<1>2. ASSUME NEW s \in Seq(Rcpt), s # <<>> PROVE Receipts(s) # {}
  BY <1>2 DEF Receipts
<1> QED
  BY <1>1, <1>2

\* Appending a receipt that is newer than all.
LEMMA AppendOrdered ==
    ASSUME NEW s \in Seq(Rcpt), NEW r \in Rcpt
    PROVE  /\ Append(s, r) \in Seq(Rcpt)
           /\ Receipts(Append(s, r)) = Receipts(s) \cup {r}
           /\ Append(s, r) # <<>> /\ Last(Append(s, r)) = r
           /\ Ordered(s) /\ (\A t \in Receipts(s) : t.key < r.key /\ t.at < r.at) => Ordered(Append(s, r))
<1> DEFINE q == Append(s, r)
<1>1. q \in Seq(Rcpt) /\ Len(q) = Len(s) + 1 /\ q[Len(s) + 1] = r /\ \A i \in 1..Len(s) : q[i] = s[i]
  OBVIOUS
<1>2. Len(s) \in Nat
  OBVIOUS
<1> HIDE DEF q
<1>3. \A i \in 1..Len(q) : i \in 1..Len(s) \/ i = Len(s) + 1
  BY <1>1, <1>2
<1>4. Receipts(q) = Receipts(s) \cup {r}
  BY <1>1, <1>2, <1>3 DEF Receipts
<1>5. q # <<>> /\ Last(q) = r
  BY <1>1, <1>2 DEF Last
<1>6. ASSUME Ordered(s), \A t \in Receipts(s) : t.key < r.key /\ t.at < r.at
      PROVE  Ordered(q)
  <2>1. ASSUME NEW i \in 1..Len(q), NEW j \in 1..Len(q), i < j
        PROVE  q[i].key < q[j].key /\ q[i].at < q[j].at
    <3>1. i \in 1..Len(s)
      BY <1>1, <1>2, <1>3, <2>1
    <3>2. q[i] = s[i] /\ s[i] \in Receipts(s)
      BY <1>1, <3>1 DEF Receipts
    <3>3. CASE j = Len(s) + 1
      BY <1>1, <1>6, <3>2, <3>3
    <3>4. CASE j \in 1..Len(s)
      BY <1>1, <1>6, <2>1, <3>1, <3>4 DEF Ordered
    <3> QED
      BY <1>3, <3>3, <3>4
  <2> QED
    BY <2>1 DEF Ordered
<1> QED
  BY <1>1, <1>4, <1>5, <1>6 DEF q

LEMMA JoinOrdered ==
    ASSUME NEW s \in Seq(Rcpt), NEW t \in Seq(Rcpt)
    PROVE  /\ s \o t \in Seq(Rcpt)
           /\ Receipts(s \o t) = Receipts(s) \cup Receipts(t)
           /\ /\ Ordered(s) /\ Ordered(t)
              /\ \A a \in Receipts(s), b \in Receipts(t) : a.key < b.key /\ a.at < b.at
              => Ordered(s \o t)
<1> DEFINE q == s \o t
<1>1. /\ q \in Seq(Rcpt) /\ Len(q) = Len(s) + Len(t) /\ Len(s) \in Nat /\ Len(t) \in Nat
      /\ \A i \in 1..Len(s) : q[i] = s[i]
      /\ \A i \in 1..Len(t) : q[Len(s) + i] = t[i]
  OBVIOUS
<1> HIDE DEF q
<1>2. ASSUME NEW i \in 1..Len(q) PROVE i \in 1..Len(s) \/ (i - Len(s) \in 1..Len(t) /\ q[i] = t[i - Len(s)])
  <2>1. CASE i <= Len(s)
    BY <1>1, <2>1
  <2>2. CASE i > Len(s)
    <3>1. i - Len(s) \in 1..Len(t) /\ Len(s) + (i - Len(s)) = i
      BY <1>1, <2>2
    <3> QED
      BY <1>1, <3>1
  <2> QED
    BY <1>1, <2>1, <2>2
<1>3. Receipts(q) = Receipts(s) \cup Receipts(t)
  <2>1. ASSUME NEW r \in Receipts(q) PROVE r \in Receipts(s) \cup Receipts(t)
    BY <1>1, <1>2, SMTT(30) DEF Receipts
  <2>2. ASSUME NEW i \in 1..Len(s) PROVE s[i] \in Receipts(q)
    BY <1>1 DEF Receipts
  <2>3. ASSUME NEW i \in 1..Len(t) PROVE t[i] \in Receipts(q)
    BY <1>1 DEF Receipts
  <2> QED
    BY <2>1, <2>2, <2>3 DEF Receipts
<1>4. ASSUME Ordered(s), Ordered(t), \A a \in Receipts(s), b \in Receipts(t) : a.key < b.key /\ a.at < b.at
      PROVE  Ordered(q)
  <2>1. ASSUME NEW i \in 1..Len(q), NEW j \in 1..Len(q), i < j
        PROVE  q[i].key < q[j].key /\ q[i].at < q[j].at
    <3>1. CASE i \in 1..Len(s) /\ j \in 1..Len(s)
      BY <1>1, <1>4, <2>1, <3>1 DEF Ordered
    <3>2. CASE i \in 1..Len(s) /\ j \notin 1..Len(s)
      BY <1>1, <1>2, <3>2, <1>4 DEF Receipts
    <3>3. CASE i \notin 1..Len(s)
      <4>1. j \notin 1..Len(s)
        BY <1>1, <2>1, <3>3
      <4>2. /\ q[i] = t[i - Len(s)] /\ i - Len(s) \in 1..Len(t)
            /\ q[j] = t[j - Len(s)] /\ j - Len(s) \in 1..Len(t)
            /\ i - Len(s) < j - Len(s)
        BY <1>1, <1>2, <2>1, <3>3, <4>1
      <4> QED
        BY <1>4, <4>2 DEF Ordered
    <3> QED
      BY <3>1, <3>2, <3>3
  <2> QED
    BY <2>1 DEF Ordered
<1> QED
  BY <1>1, <1>3, <1>4 DEF q

\* The newest Cap receipts.
LEMMA CappedKeeps ==
    ASSUME NEW s \in Seq(Rcpt), Ordered(s)
    PROVE  /\ Capped(s) \in Seq(Rcpt) /\ Ordered(Capped(s))
           /\ Receipts(Capped(s)) \subseteq Receipts(s)
           /\ s # <<>> => Capped(s) # <<>> /\ Last(Capped(s)) = Last(s)
<1>1. CASE Len(s) <= Cap
  BY <1>1, FloorAssumption DEF Capped
<1>2. CASE Len(s) > Cap
  <2> DEFINE o == Len(s) - Cap
             q == SubSeq(s, o + 1, Len(s))
  <2>1. Cap \in Nat /\ Cap >= 1 /\ Len(s) \in Nat
    BY FloorAssumption
  <2>2. Capped(s) = q
    BY <1>2 DEF Capped
  <2>3. o \in Nat /\ o + Cap = Len(s)
    BY <1>2, <2>1
  <2> HIDE DEF o
  <2>4. q \in Seq(Rcpt) /\ Len(q) = Cap /\ \A i \in 1..Cap : q[i] = s[o + i] /\ o + i \in 1..Len(s)
    BY <2>1, <2>3
  <2> HIDE DEF q
  <2>5. Receipts(q) \subseteq Receipts(s)
    BY <2>4 DEF Receipts
  <2>6. Ordered(q)
    <3>1. ASSUME NEW i \in 1..Len(q), NEW j \in 1..Len(q), i < j
          PROVE  q[i].key < q[j].key /\ q[i].at < q[j].at
      BY <2>4, <2>1, <2>3, <3>1 DEF Ordered
    <3> QED
      BY <3>1 DEF Ordered
  <2>7. q # <<>> /\ Last(q) = Last(s)
    BY <2>1, <2>3, <2>4 DEF Last
  <2> QED
    BY <2>2, <2>4, <2>5, <2>6, <2>7
<1> QED
  BY FloorAssumption, <1>1, <1>2
-----------------------------------------------------------------------------
(* Types, unfolded.                                                        *)

LEMMA Names == None \notin Rcpt /\ None \notin Dispatchers /\ Kinds \subseteq Decisions
BY FloorAssumption DEF Rcpt, Decisions

LEMMA RcptFields ==
    ASSUME NEW r \in Rcpt
    PROVE  r.key \in Nat /\ r.at \in Nat /\ r.dec \in Kinds /\ r # None
BY Names DEF Rcpt

LEMMA NewRcpt ==
    ASSUME NEW k \in Nat, NEW at \in Nat, NEW dec \in Kinds
    PROVE  /\ Owed(dec, at, k) \in Rcpt /\ [key |-> k, at |-> at, dec |-> dec] \in Rcpt
           /\ Owed(dec, at, k).key = k /\ Owed(dec, at, k).at = at /\ Owed(dec, at, k).dec = dec
           /\ Owed(dec, at, k) # None
BY Names DEF Rcpt, Owed

LEMMA AllTypes ==
    ASSUME OutboxTypes
    PROVE  /\ Onhand \in SUBSET Rcpt /\ Filed \in SUBSET Rcpt /\ All \in SUBSET Rcpt
           /\ \A r \in All : r.key \in Nat /\ r.at \in Nat /\ r.dec \in Kinds
           /\ \A k : k \in Keys(trail) <=> \E r \in Onhand : r.key = k
           /\ \A k : k \in Keys(outFile.rs) <=> \E r \in Filed : r.key = k
           /\ outFile.rs \in Seq(Rcpt)
<1>1. trail \in Seq(Rcpt) /\ outFile.rs \in Seq(Rcpt)
  BY DEF OutboxTypes
<1>2. Onhand \in SUBSET Rcpt /\ Filed \in SUBSET Rcpt
  BY <1>1, KeysOf DEF Onhand, Filed
<1>3. \A r \in All : r \in Rcpt
  BY <1>2 DEF All
<1> QED
  BY <1>1, <1>2, <1>3, KeysOf, RcptFields DEF Onhand, Filed, All

LEMMA CallFields ==
    ASSUME TypeInv, NEW c \in Callers
    PROVE  /\ call[c] \in Call
           /\ call[c].pc \in {"idle", "turn"} \cup Middle /\ call[c].dec \in Decisions
           /\ call[c].key \in Nat /\ call[c].at \in Nat /\ call[c].snap \in Nat
           /\ call[c].minted \in BOOLEAN /\ call[c].safe \in BOOLEAN
BY DEF TypeInv, CoreTypes, Call

LEMMA RecFields ==
    ASSUME TypeInv
    PROVE  /\ recFile.st \in {"absent", "ok", "bad"} /\ recFile.dec \in Decisions
           /\ recFile.at \in Nat /\ recFile.key \in Nat /\ recFile.unwAt \in Nat /\ recFile.unw \in BOOLEAN
BY DEF TypeInv, CoreTypes, Rec

-----------------------------------------------------------------------------
(* Writing the trail.                                                      *)

\* The merge with the file is the mirror.
LEMMA MergedIsMirror ==
    ASSUME OutboxTypes, KeptInv, NEW mirror, NEW done, Fits(mirror, done), NEW fresh \in BOOLEAN
    PROVE  /\ Merged(fresh, mirror, done) \in Seq(Rcpt)
           /\ Ordered(Merged(fresh, mirror, done))
           /\ Receipts(Merged(fresh, mirror, done)) = Receipts(mirror)
<1> DEFINE disk == IF fresh /\ outFile.st = "bad" THEN <<>> ELSE outFile.rs
           kept == Without(disk, done)
           rest == Without(mirror, Keys(disk) \ done)
<1>1. outFile.rs \in Seq(Rcpt) /\ Ordered(outFile.rs) /\ mirror \in Seq(Rcpt) /\ Ordered(mirror)
  BY AllTypes DEF KeptInv, TrailOrdered, Fits
<1>2. disk \in Seq(Rcpt) /\ Ordered(disk) /\ (Receipts(disk) = Filed \/ Receipts(disk) = {})
  BY <1>1, EmptyTrail DEF Filed
<1>3. Merged(fresh, mirror, done) = kept \o rest
  BY DEF Merged
<1>4. /\ kept \in Seq(Rcpt) /\ Ordered(kept)
      /\ Receipts(kept) = {r \in Receipts(disk) : r.key \notin done}
  <2> HIDE DEF disk
  <2> QED
    BY <1>2, WithoutKeeps
<1>k. Keys(kept) = Keys(disk) \ done
  <2> HIDE DEF disk, kept
  <2>1. \A k : k \in Keys(kept) <=> \E r \in Receipts(kept) : r.key = k
    BY <1>4, KeysOf
  <2>2. \A k : k \in Keys(disk) <=> \E r \in Receipts(disk) : r.key = k
    BY <1>2, KeysOf
  <2> QED
    BY <1>4, <2>1, <2>2
<1> HIDE DEF disk, kept
<1>5. /\ rest \in Seq(Rcpt) /\ Ordered(rest)
      /\ Receipts(rest) = {r \in Receipts(mirror) : r.key \notin Keys(kept)}
  BY <1>1, <1>k, WithoutKeeps
<1> HIDE DEF rest
<1>6. \A k : k \in Keys(kept) <=> \E r \in Receipts(kept) : r.key = k
  BY <1>4, KeysOf
<1>7. \A r \in Receipts(kept) : r \in Receipts(mirror) /\ r \in Filed /\ r.key \notin done
  BY <1>2, <1>4 DEF Fits
<1>8. Receipts(kept) \cup Receipts(rest) = Receipts(mirror)
  <2>1. ASSUME NEW r \in Receipts(mirror), r.key \in Keys(kept) PROVE r \in Receipts(kept)
    BY <1>6, <2>1, <1>1, <1>7, OrderedReceipts
  <2> QED
    BY <1>5, <1>7, <2>1
<1>9. ASSUME NEW a \in Receipts(kept), NEW b \in Receipts(rest) PROVE a.key < b.key /\ a.at < b.at
  <2>1. b \in Receipts(mirror) /\ b.key \notin Keys(kept) /\ b.key \notin done
    BY <1>5 DEF Fits
  <2>2. b \notin Filed
    <3>1. ASSUME b \in Filed PROVE FALSE
      BY <1>2, <1>4, <2>1, <3>1, <1>6
    <3> QED
      BY <3>1
  <2>3. a.key < b.key
    BY <1>7, <2>1, <2>2 DEF Fits
  <2>4. a.at < b.at
    BY <1>1, <1>7, <2>1, <2>3, OrderedReceipts
  <2> QED
    BY <2>3, <2>4
<1> QED
  BY <1>3, <1>4, <1>5, <1>8, <1>9, JoinOrdered

LEMMA SaveEffect ==
    ASSUME OutboxTypes, KeptInv, NEW mirror, NEW done, Fits(mirror, done), NEW fresh \in BOOLEAN,
           NEW ms \in SUBSET Nat, NEW ok \in BOOLEAN, saveLocked(fresh, mirror, done, ms, ok)
    PROVE  /\ unusable' = (unusable /\ ~fresh) /\ unprovable' = (unprovable /\ ~fresh)
           /\ preserve' = (preserve /\ ~fresh)
           /\ \/ Unwritten(mirror, done, ms) /\ (ok => ~fresh /\ preserve /\ outFile.st = "bad")
              \/ Written(mirror, done, ms) /\ ok /\ ~(~fresh /\ preserve /\ outFile.st = "bad")
<1> DEFINE all == Merged(fresh, mirror, done)
           hold == ~fresh /\ preserve /\ outFile.st = "bad"
<1>1. all \in Seq(Rcpt) /\ Ordered(all) /\ Receipts(all) = Receipts(mirror)
  BY MergedIsMirror
<1>2. mirror \in Seq(Rcpt) /\ Ordered(mirror)
  BY DEF Fits
<1>3. Keys(all) = Keys(mirror)
  BY <1>1, <1>2, KeysOf
<1>4. mirror # <<>> => all # <<>> /\ Last(all) = Last(mirror)
  <2>1. ASSUME mirror # <<>> PROVE all # <<>> /\ Last(all) = Last(mirror)
    <3>1. all # <<>>
      BY <1>1, <1>2, <2>1, EmptyTrail
    <3>2. /\ Last(all) \in Receipts(mirror) /\ Last(mirror) \in Receipts(mirror)
          /\ Last(all).key <= Last(mirror).key /\ Last(mirror).key <= Last(all).key
      BY <1>1, <1>2, <2>1, <3>1, LastIsNewest
    <3>3. Last(all) \in Rcpt /\ Last(mirror) \in Rcpt
      BY <1>1, <1>2, <2>1, <3>1, LastIsNewest
    <3>4. Last(all).key = Last(mirror).key
      BY <3>2, <3>3, RcptFields
    <3>5. Last(all) = Last(mirror)
      BY <1>2, <3>2, <3>4, OrderedReceipts
    <3> QED
      BY <3>1, <3>5
  <2> QED
    BY <2>1
<1> HIDE DEF all
<1>5. /\ Capped(all) \in Seq(Rcpt) /\ Ordered(Capped(all)) /\ Receipts(Capped(all)) \subseteq Receipts(mirror)
      /\ mirror # <<>> => Capped(all) # <<>> /\ Last(Capped(all)) = Last(mirror)
  BY <1>1, <1>4, CappedKeeps
<1>6. /\ unusable' = (unusable /\ ~fresh) /\ unprovable' = (unprovable /\ ~fresh)
      /\ preserve' = (preserve /\ ~fresh) /\ (hold => ok)
  BY DEF saveLocked
<1>7. CASE hold \/ ~ok
  BY <1>7, <1>6 DEF saveLocked, Unwritten
<1>8. CASE ~(hold \/ ~ok)
  BY <1>8, <1>3, <1>5, <1>6 DEF saveLocked, all, Written
<1> QED
  BY <1>7, <1>8
\* What a save leaves of the outbox.
LEMMA SavedOutbox ==
    ASSUME OutboxTypes, KeptInv, \A r \in Filed : r.key \in wit,
           NEW mirror, NEW done, Fits(mirror, done), NEW ms \in SUBSET Nat,
           Unwritten(mirror, done, ms) \/ Written(mirror, done, ms),
           unusable' \in BOOLEAN, unprovable' \in BOOLEAN, preserve' \in BOOLEAN
    PROVE  /\ OutboxTypes' /\ KeptInv'
           /\ Onhand' \subseteq Receipts(mirror) /\ All' \subseteq Receipts(mirror) \cup Filed
           /\ \A r \in Filed' : r.key \in wit'
           /\ wit \subseteq wit' /\ \A k \in wit' : k \in wit \/ \E r \in Onhand' : r.key = k
           /\ \A k \in settled' : k \in done \/ \E r \in Receipts(mirror) : r.key = k
           /\ mirror # <<>> => trail' # <<>> /\ Last(trail') = Last(mirror)
<1>0. /\ mirror \in Seq(Rcpt) /\ Ordered(mirror) /\ done \in SUBSET Nat /\ Keys(mirror) \in SUBSET Nat
      /\ \A k : k \in Keys(mirror) <=> \E r \in Receipts(mirror) : r.key = k
  BY KeysOf DEF Fits
<1>1. CASE Unwritten(mirror, done, ms)
  <2>1. /\ trail' = mirror /\ settled' = done /\ marks' = ms /\ dirty' = TRUE /\ outFile' = outFile
        /\ wit' = wit
    BY <1>1 DEF Unwritten
  <2>2. Onhand' = Receipts(mirror) /\ Filed' = Filed /\ All' = Receipts(mirror) \cup Filed
    BY <2>1 DEF Onhand, Filed, All
  <2>3. OutboxTypes'
    BY <1>0, <2>1 DEF OutboxTypes
  <2>4. KeptInv'
    BY <1>0, <2>1, <2>2 DEF KeptInv, TrailOrdered, Fits
  <2> QED
    BY <2>1, <2>2, <2>3, <2>4
<1>2. CASE Written(mirror, done, ms)
  <2>1. /\ trail' \in Seq(Rcpt) /\ Ordered(trail') /\ Receipts(trail') \subseteq Receipts(mirror)
        /\ outFile' = [st |-> "ok", rs |-> trail'] /\ dirty' = FALSE
        /\ settled' = done \cup (Keys(mirror) \ Keys(trail'))
        /\ marks' = ms \ (Keys(mirror) \ Keys(trail')) /\ wit' = wit \cup Keys(trail')
        /\ mirror # <<>> => trail' # <<>> /\ Last(trail') = Last(mirror)
    BY <1>2 DEF Written
  <2>2. outFile'.rs = trail' /\ Onhand' = Receipts(trail') /\ Filed' = Receipts(trail') /\ All' = Receipts(trail')
    BY <2>1 DEF Onhand, Filed, All
  <2>3. Keys(trail') \in SUBSET Nat /\ \A k : k \in Keys(trail') <=> \E r \in Onhand' : r.key = k
    BY <2>1, <2>2, KeysOf
  <2>4. OutboxTypes'
    BY <1>0, <2>1, <2>3 DEF OutboxTypes
  <2>5. KeptInv'
    BY <1>0, <2>1, <2>2, <2>3 DEF KeptInv, TrailOrdered, Fits
  <2> QED
    BY <1>0, <2>1, <2>2, <2>3, <2>4, <2>5
<1> QED
  BY <1>1, <1>2

\* The mirror itself fits the file, and so does the mirror without a receipt
\* that is settled, and with one that is newer than all.
LEMMA MirrorFits ==
    ASSUME OutboxTypes, KeptInv, up
    PROVE  Fits(trail, settled)
BY DEF OutboxTypes, KeptInv, TrailOrdered, Fits, Onhand

LEMMA PrunedFits ==
    ASSUME OutboxTypes, KeptInv, up, NEW k \in Nat
    PROVE  Fits(Without(trail, {k}), settled \cup {k}) /\ Receipts(Without(trail, {k})) = {r \in Onhand : r.key # k}
<1>1. trail \in Seq(Rcpt) /\ Ordered(trail) /\ settled \in SUBSET Nat
  BY DEF OutboxTypes, KeptInv, TrailOrdered
<1>2. /\ Without(trail, {k}) \in Seq(Rcpt) /\ Ordered(Without(trail, {k}))
      /\ Receipts(Without(trail, {k})) = {r \in Onhand : r.key # k}
  BY <1>1, WithoutKeeps DEF Onhand
<1> QED
  BY <1>1, <1>2 DEF KeptInv, Fits

LEMMA AppendedFits ==
    ASSUME OutboxTypes, KeptInv, up, NEW r \in Rcpt, r.key \notin settled,
           \A t \in All : t.key < r.key /\ t.at < r.at
    PROVE  /\ Fits(Append(trail, r), settled) /\ Receipts(Append(trail, r)) = Onhand \cup {r}
           /\ Append(trail, r) # <<>> /\ Last(Append(trail, r)) = r
<1>1. trail \in Seq(Rcpt) /\ Ordered(trail) /\ settled \in SUBSET Nat
  BY DEF OutboxTypes, KeptInv, TrailOrdered
<1>2. /\ Append(trail, r) \in Seq(Rcpt) /\ Ordered(Append(trail, r))
      /\ Receipts(Append(trail, r)) = Onhand \cup {r}
      /\ Append(trail, r) # <<>> /\ Last(Append(trail, r)) = r
  BY <1>1, AppendOrdered DEF Onhand, All
<1> QED
  BY <1>1, <1>2 DEF KeptInv, Fits, All

-----------------------------------------------------------------------------
(* Steps of a dispatch pass that touch no file and no decision.            *)

LEMMA PassOnlyBase ==
    ASSUME Base, CoreUnchanged, PassTypes', up
    PROVE  Base'
<1>1. TypeInv'
  BY DEF Base, TypeInv, CoreUnchanged, OutboxTypes, CoreTypes
<1>2. Onhand' = Onhand /\ Filed' = Filed /\ All' = All
  BY DEF CoreUnchanged, Onhand, Filed, All
<1>3. KnownInv'
  BY <1>2 DEF Base, KnownInv, CoreUnchanged, Taken, Is
<1>4. CallInv'
  BY <1>2 DEF Base, CallInv, CoreUnchanged, TurnOK, MintOK, MintedOK, Agrees
<1>5. OwedInv'
  BY <1>2 DEF Base, OwedInv, CoreUnchanged, Deciding, Agrees
<1>6. StampInv'
  BY <1>2 DEF Base, StampInv, CoreUnchanged
<1>7. KeptInv'
  BY <1>2 DEF Base, KeptInv, CoreUnchanged, TrailOrdered, Ordered
<1>8. DownInv'
  BY DEF DownInv, CoreUnchanged
<1> QED
  BY <1>1, <1>3, <1>4, <1>5, <1>6, <1>7, <1>8 DEF Base

\* A pass that changes only where it is.
LEMMA PassStepTypes ==
    ASSUME PassTypes, NEW d \in Dispatchers, NEW q \in Pass,
           q.pc \in {"recheck", "post", "reply"} => q.r \in Rcpt,
           pass' = [pass EXCEPT ![d] = q], claim' \in {claim, d, None},
           server' \in Seq(Rcpt), refused' \in SUBSET Nat, answered' \in SUBSET Nat
    PROVE  PassTypes'
<1>1. pass' \in [Dispatchers -> Pass]
  BY DEF PassTypes
<1>2. pass'[d] = q /\ \A o \in Dispatchers : o # d => pass'[o] = pass[o]
  BY DEF PassTypes
<1>3. \A o \in Dispatchers : InHand(o)' => pass'[o].r \in Rcpt
  BY <1>2 DEF InHand, PassTypes
<1> QED
  BY <1>1, <1>3 DEF PassTypes

LEMMA PassFields ==
    ASSUME TypeInv, NEW d \in Dispatchers
    PROVE  /\ pass[d] \in Pass /\ pass[d].handed \in SUBSET Nat
           /\ pass[d].r \in Rcpt \cup {None} /\ (InHand(d) => pass[d].r \in Rcpt)
           /\ pass[d].verdict \in {"none", "recorded", "refused"}
           /\ [pass EXCEPT ![d] = pass[d]] = pass
BY DEF TypeInv, PassTypes, Pass

\* A pass that is under way belongs to a running process.
LEMMA PassUp ==
    ASSUME Base, NEW d \in Dispatchers, pass[d].pc # "idle"
    PROVE  up
BY DEF Base, DownInv, TypeInv, CoreTypes

LEMMA PassToTypes ==
    ASSUME TypeInv, NEW d \in Dispatchers, NEW pc \in {"retryMint", "retryPersist", "retryRecord", "claim", "next",
                                                     "gate", "events"},
           PassTo(d, pc), claim' \in {claim, d, None},
           server' = server, refused' = refused, answered' = answered
    PROVE  PassTypes'
<1> DEFINE q == [pass[d] EXCEPT !.pc = pc]
<1>1. pass[d] \in Pass
  BY PassFields
<1>2. q \in Pass /\ q.pc = pc
  BY <1>1 DEF Pass
<1>3. pass' = [pass EXCEPT ![d] = q]
  BY DEF PassTo
<1> HIDE DEF q
<1> QED
  BY <1>2, <1>3, PassStepTypes DEF TypeInv, PassTypes
\* The receipt that nextDispatchable returns.
LEMMA OldestDispatchable ==
    ASSUME trail \in Seq(Rcpt), Ordered(trail), Dispatchable # {}
    PROVE  /\ Oldest \in Onhand /\ Oldest \in Rcpt
           /\ Granted(Oldest) => ~unusable /\ ~unprovable
           /\ \A t \in Onhand : t.key >= Oldest.key \/ (Granted(t) /\ (unusable \/ unprovable))
<1> DEFINE i == CHOOSE n \in Dispatchable : \A j \in Dispatchable : n <= j
<1>1. Dispatchable \in SUBSET Nat /\ \A n \in Dispatchable : n \in 1..Len(trail)
  BY DEF Dispatchable
<1>2. i \in Dispatchable /\ \A j \in Dispatchable : i <= j
  BY <1>1, LeastNumber
<1>3. Oldest = trail[i]
  BY DEF Oldest
<1> HIDE DEF i
<1>4. i \in 1..Len(trail) /\ trail[i] \in Rcpt
  BY <1>1, <1>2
<1>5. Oldest \in Onhand /\ Oldest \in Rcpt
  BY <1>3, <1>4 DEF Onhand, Receipts
<1>6. Granted(Oldest) => ~unusable /\ ~unprovable
  BY <1>2, <1>3 DEF Dispatchable
<1>7. ASSUME NEW t \in Onhand, ~(Granted(t) /\ (unusable \/ unprovable)) PROVE t.key >= Oldest.key
  <2>1. PICK j \in 1..Len(trail) : t = trail[j]
    BY DEF Onhand, Receipts
  <2>2. j \in Dispatchable
    BY <1>7, <2>1 DEF Dispatchable
  <2>3. i = j \/ i < j
    BY <1>2, <1>4, <2>2
  <2>4. t.key \in Nat /\ Oldest.key \in Nat
    BY <1>5, <2>1, RcptFields
  <2> QED
    BY <1>3, <1>4, <2>1, <2>3, <2>4 DEF Ordered
<1> QED
  BY <1>5, <1>6, <1>7

LEMMA QuietPassCore ==
    ASSUME Base, NEW d \in Dispatchers, QuietPass(d)
    PROVE  CoreUnchanged /\ up /\ faults' = faults
<1>1. CoreUnchanged /\ faults' = faults
  BY DEF QuietPass, StartPass, ClaimDispatch, NextReceipt, RecheckGrant, ServiceRecords, ServiceRefuses,
         ServiceUnavailable, Verdict, ReceiptRetryable, ReceiptUnanswered, EventLeg, EventsSent,
         CoreUnchanged, diskVars, outboxVars, owedVars, histVars, boundVars
<1>2. up
  <2>1. CASE StartPass(d)
    BY <2>1 DEF StartPass
  <2>2. CASE ~StartPass(d)
    <3>1. pass[d].pc # "idle"
      BY <2>2 DEF QuietPass, ClaimDispatch, NextReceipt, RecheckGrant, ServiceRecords, ServiceRefuses,
         ServiceUnavailable, Verdict, ReceiptRetryable, ReceiptUnanswered, EventLeg, EventsSent
    <3> QED
      BY <3>1, PassUp
  <2> QED
    BY <2>1, <2>2
<1> QED
  BY <1>1, <1>2

LEMMA EndPassTypes ==
    ASSUME TypeInv, NEW d \in Dispatchers, EndPass(d),
           server' = server, refused' = refused, answered' = answered
    PROVE  PassTypes'
<1> DEFINE q == [pass[d] EXCEPT !.pc = "gate", !.r = None, !.verdict = "none"]
<1>1. q \in Pass /\ q.pc = "gate"
  BY PassFields DEF Pass
<1>2. pass' = [pass EXCEPT ![d] = q] /\ claim' = None
  BY DEF EndPass
<1> HIDE DEF q
<1> QED
  BY <1>1, <1>2, PassStepTypes DEF TypeInv, PassTypes

LEMMA IdlePassTypes ==
    ASSUME TypeInv, NEW d \in Dispatchers, pass' = [pass EXCEPT ![d] = IdlePass], claim' = claim,
           server' = server, refused' = refused, answered' = answered
    PROVE  PassTypes'
<1>1. IdlePass \in Pass /\ IdlePass.pc = "idle"
  BY DEF IdlePass, Pass
<1> QED
  BY <1>1, PassStepTypes DEF TypeInv, PassTypes

LEMMA QuietPassTypes ==
    ASSUME Base, NEW d \in Dispatchers, QuietPass(d)
    PROVE  PassTypes'
<1>0. TypeInv /\ PassTypes /\ pass[d] \in Pass
  BY PassFields DEF Base, TypeInv
<1>1. CASE StartPass(d)
  BY <1>0, <1>1, PassToTypes DEF StartPass
<1>2. CASE ClaimDispatch(d)
  BY <1>0, <1>2, PassToTypes DEF ClaimDispatch
<1>3. CASE NextReceipt(d)
  <2>1. server' = server /\ refused' = refused /\ answered' = answered
    BY <1>3 DEF NextReceipt
  <2>2. CASE parked \/ Dispatchable = {} \/ Held(Oldest)
    BY <1>0, <1>3, <2>1, <2>2, EndPassTypes DEF NextReceipt
  <2>3. CASE ~(parked \/ Dispatchable = {} \/ Held(Oldest))
    <3> DEFINE q == [pass[d] EXCEPT !.r = Oldest, !.pc = IF Granted(Oldest) THEN "recheck" ELSE "post"]
    <3>1. Oldest \in Rcpt
      BY <2>3, OldestDispatchable DEF Base, TypeInv, OutboxTypes, KeptInv, TrailOrdered
    <3>2. q \in Pass /\ q.r \in Rcpt
      BY <1>0, <3>1 DEF Pass
    <3>3. pass' = [pass EXCEPT ![d] = q] /\ claim' = claim
      BY <1>3, <2>3 DEF NextReceipt
    <3> HIDE DEF q
    <3> QED
      BY <1>0, <2>1, <3>2, <3>3, PassStepTypes DEF PassTypes
  <2> QED
    BY <2>2, <2>3
<1>4. CASE RecheckGrant(d)
  <2>1. server' = server /\ refused' = refused /\ answered' = answered
    BY <1>4 DEF RecheckGrant
  <2>2. CASE Deciding \/ HeldBehindDenial(pass[d].r)
    BY <1>0, <1>4, <2>1, <2>2, EndPassTypes DEF RecheckGrant
  <2>3. CASE ~(Deciding \/ HeldBehindDenial(pass[d].r))
    <3> DEFINE q == [pass[d] EXCEPT !.pc = "post"]
    <3>1. pass[d].r \in Rcpt
      BY <1>0, <1>4, PassFields DEF RecheckGrant, InHand
    <3>2. q \in Pass /\ q.r \in Rcpt
      BY <1>0, <3>1 DEF Pass
    <3>3. pass' = [pass EXCEPT ![d] = q] /\ claim' = claim
      BY <1>4, <2>3 DEF RecheckGrant, PassTo
    <3> HIDE DEF q
    <3> QED
      BY <1>0, <2>1, <3>2, <3>3, PassStepTypes DEF PassTypes
  <2> QED
    BY <2>2, <2>3
<1>5. CASE ServiceRecords(d) \/ ServiceRefuses(d) \/ ServiceUnavailable(d)
  <2>1. PICK v \in {"none", "recorded", "refused"} : Verdict(d, v)
    BY <1>5 DEF ServiceRecords, ServiceRefuses, ServiceUnavailable
  <2> DEFINE q == [pass[d] EXCEPT !.pc = "reply", !.verdict = v]
  <2>2. pass[d].r \in Rcpt
    BY <1>0, <2>1, PassFields DEF Verdict, InHand
  <2>3. q \in Pass /\ q.r \in Rcpt
    BY <1>0, <2>2 DEF Pass
  <2>4. pass' = [pass EXCEPT ![d] = q] /\ claim' = claim /\ answered' = answered
    BY <2>1 DEF Verdict
  <2>5. server' \in Seq(Rcpt) /\ refused' \in SUBSET Nat
    <3>1. Append(server, pass[d].r) \in Seq(Rcpt) /\ pass[d].r.key \in Nat
      BY <1>0, <2>2, RcptFields DEF PassTypes
    <3> QED
      BY <1>0, <1>5, <3>1 DEF ServiceRecords, ServiceRefuses, ServiceUnavailable, PassTypes
  <2> HIDE DEF q
  <2> QED
    BY <1>0, <2>3, <2>4, <2>5, PassStepTypes DEF PassTypes
<1>6. CASE ReceiptRetryable(d)
  <2> DEFINE q == [pass[d] EXCEPT !.handed = @ \cup {pass[d].r.key}, !.pc = "gate"]
  <2>1. pass[d].r.key \in Nat
    BY <1>0, <1>6, PassFields, RcptFields DEF ReceiptRetryable, InHand
  <2>2. q \in Pass /\ q.pc = "gate"
    BY <1>0, <2>1 DEF Pass
  <2>3. pass' = [pass EXCEPT ![d] = q] /\ answered' = answered \cup {pass[d].r.key}
    BY <1>6 DEF ReceiptRetryable, HandOver
  <2>4. claim' = None /\ server' = server /\ refused' = refused
    BY <1>6 DEF ReceiptRetryable
  <2> HIDE DEF q
  <2> QED
    BY <1>0, <2>1, <2>2, <2>3, <2>4, PassStepTypes DEF PassTypes
<1>7. CASE ReceiptUnanswered(d)
  BY <1>0, <1>7, EndPassTypes DEF ReceiptUnanswered
<1>8. CASE EventLeg(d)
  BY <1>8, <1>0, IdlePassTypes, PassToTypes DEF EventLeg
<1>9. CASE EventsSent(d)
  BY <1>0, <1>9, IdlePassTypes DEF EventsSent
<1> QED
  BY <1>1, <1>2, <1>3, <1>4, <1>5, <1>6, <1>7, <1>8, <1>9 DEF QuietPass

LEMMA QuietPassBase ==
    ASSUME Base, NEW d \in Dispatchers, QuietPass(d)
    PROVE  Base'
BY QuietPassCore, QuietPassTypes, PassOnlyBase

LEMMA DeferralBase ==
    ASSUME Base, DeferralElapses
    PROVE  Base'
<1>1. CoreUnchanged /\ up
  BY DEF DeferralElapses, CoreUnchanged, diskVars, outboxVars, owedVars, histVars, boundVars
<1>2. PassTypes'
  BY DEF Base, TypeInv, PassTypes, DeferralElapses, InHand
<1> QED
  BY <1>1, <1>2, PassOnlyBase

-----------------------------------------------------------------------------
(* Steps that write the trail and add no receipt.                          *)

LEMMA ShrinkBase ==
    ASSUME Base, Shrinks, PassTypes', up
    PROVE  Base'
<1>0. /\ TypeInv /\ \A r \in All : r.key \in Nat /\ r.at \in Nat
      /\ All' \subseteq All /\ Onhand' \subseteq Onhand /\ Filed' \subseteq All
  BY AllTypes DEF Base, TypeInv, Shrinks, All
<1>u. /\ recFile' = recFile /\ up' = up /\ lastStamp' = lastStamp /\ recOwed' = recOwed
      /\ mintOwed' = mintOwed /\ call' = call /\ kind' = kind /\ mine' = mine
      /\ live' = live /\ epoch' = epoch /\ damage' = damage
  BY DEF Shrinks, DecisionsUnchanged
<1>1. TypeInv'
  BY <1>0, <1>u DEF TypeInv, Shrinks, CoreTypes
<1>w. /\ \A k \in wit' : k \in wit \/ \E r \in All : r.key = k
      /\ \A k \in settled' : k \in settled \/ \E r \in All : r.key = k
  BY DEF Shrinks
<1>2. KnownInv'
  BY <1>u, <1>w, <1>0 DEF Base, KnownInv, Taken, Is, Shrinks
<1>3. CallInv'
  <2>1. ASSUME NEW c \in Callers PROVE TurnOK(call[c])' /\ MintOK(call[c])' /\ MintedOK(call[c])'
    <3>1. call[c].key \in Nat /\ call[c].at \in Nat
      BY <1>0, CallFields
    <3>2. TurnOK(call[c]) /\ MintOK(call[c]) /\ MintedOK(call[c])
      BY DEF Base, CallInv
    <3>3. TurnOK(call[c])'
      BY <1>0, <1>u, <1>w, <3>1, <3>2 DEF TurnOK
    <3>4. MintOK(call[c])'
      BY <1>0, <1>u, <1>w, <3>1, <3>2 DEF MintOK, Agrees
    <3>5. MintedOK(call[c])'
      BY <1>0, <1>u, <1>w, <3>1, <3>2 DEF MintedOK, Agrees
    <3> QED
      BY <3>3, <3>4, <3>5
  <2> QED
    BY <1>u, <2>1 DEF Base, CallInv
<1>4. OwedInv'
  BY <1>0, RcptFields, <1>u, <1>w DEF TypeInv, CoreTypes, Base, OwedInv, Deciding, Agrees
<1>5. StampInv'
  BY <1>0, <1>u DEF Base, StampInv
<1>6. DownInv'
  BY <1>u DEF DownInv
<1> QED
  BY <1>1, <1>2, <1>3, <1>4, <1>5, <1>6 DEF Base, Shrinks

\* A save of a mirror that holds nothing new.
LEMMA SaveShrinks ==
    ASSUME Base, up, NEW mirror, NEW done, Fits(mirror, done), Receipts(mirror) \subseteq Onhand,
           \A k \in done : k \in settled \/ \E r \in All : r.key = k,
           NEW ms \in SUBSET Nat, NEW ok \in BOOLEAN, saveLocked(FALSE, mirror, done, ms, ok),
           DecisionsUnchanged
    PROVE  Shrinks
<1>0. OutboxTypes /\ KeptInv /\ \A r \in Filed : r.key \in wit
  BY DEF Base, TypeInv, KnownInv
<1>1. /\ Unwritten(mirror, done, ms) \/ Written(mirror, done, ms)
      /\ unusable' \in BOOLEAN /\ unprovable' \in BOOLEAN /\ preserve' \in BOOLEAN
  BY <1>0, SaveEffect
<1>2. /\ OutboxTypes' /\ KeptInv'
      /\ Onhand' \subseteq Receipts(mirror) /\ All' \subseteq Receipts(mirror) \cup Filed
      /\ \A r \in Filed' : r.key \in wit'
      /\ wit \subseteq wit' /\ \A k \in wit' : k \in wit \/ \E r \in Onhand' : r.key = k
      /\ \A k \in settled' : k \in done \/ \E r \in Receipts(mirror) : r.key = k
  BY <1>0, <1>1, SavedOutbox
<1>3. Onhand \subseteq All /\ Filed \subseteq All /\ Filed' \subseteq All'
  BY DEF All
<1> QED
  BY <1>2, <1>3 DEF Shrinks

LEMMA SameShrinks ==
    ASSUME Base, UNCHANGED <<outFile, outboxVars, wit>>, DecisionsUnchanged
    PROVE  Shrinks
<1>1. OutboxTypes /\ KeptInv /\ \A r \in Filed : r.key \in wit
  BY DEF Base, TypeInv, KnownInv
<1>2. Onhand' = Onhand /\ Filed' = Filed
  BY DEF Onhand, Filed, outboxVars
<1>3. OutboxTypes' /\ KeptInv'
  BY <1>1, <1>2 DEF OutboxTypes, KeptInv, TrailOrdered, Ordered, outboxVars, DecisionsUnchanged
<1> QED
  BY <1>1, <1>2, <1>3 DEF Shrinks, outboxVars, All

LEMMA RetryPersistShrinks ==
    ASSUME Base, NEW d \in Dispatchers, RetryPersist(d)
    PROVE  Shrinks /\ PassTypes' /\ up
<1>0. up /\ TypeInv
  BY PassUp DEF RetryPersist, Base
<1>1. DecisionsUnchanged
  BY DEF RetryPersist, DecisionsUnchanged, owedVars, histVars, boundVars
<1>2. PassTypes'
  BY <1>0, PassToTypes DEF RetryPersist
<1>3. CASE dirty
  BY <1>3, <1>0, MirrorFits, <1>1, <1>2, SaveShrinks DEF RetryPersist, Base, TypeInv, OutboxTypes, Onhand
<1>4. CASE ~dirty
  BY <1>0, <1>1, <1>2, <1>4, SameShrinks DEF RetryPersist
<1> QED
  BY <1>3, <1>4 DEF Base, TypeInv, OutboxTypes

LEMMA ReceiptSettledTypes ==
    ASSUME TypeInv, NEW d \in Dispatchers, ReceiptSettled(d)
    PROVE  PassTypes' /\ pass[d].r \in Rcpt
<1> DEFINE q == [pass[d] EXCEPT !.handed = @ \cup {pass[d].r.key}, !.pc = "next"]
<1>0. pass[d] \in Pass /\ pass[d].r \in Rcpt
  BY PassFields DEF ReceiptSettled, InHand
<1>1. pass[d].r.key \in Nat
  BY <1>0, RcptFields
<1>2. q \in Pass /\ q.pc = "next"
  BY <1>0, <1>1 DEF Pass
<1>3. pass' = [pass EXCEPT ![d] = q] /\ answered' = answered \cup {pass[d].r.key}
  BY DEF ReceiptSettled, HandOver
<1>4. claim' = claim /\ server' = server /\ refused' = refused
  BY DEF ReceiptSettled
<1> HIDE DEF q
<1> QED
  BY <1>0, <1>1, <1>2, <1>3, <1>4, PassStepTypes DEF TypeInv, PassTypes

LEMMA ReceiptSettledShrinks ==
    ASSUME Base, NEW d \in Dispatchers, ReceiptSettled(d)
    PROVE  Shrinks /\ PassTypes' /\ up
<1>0. up /\ TypeInv
  BY PassUp DEF ReceiptSettled, Base
<1>1. DecisionsUnchanged
  BY DEF ReceiptSettled, DecisionsUnchanged, owedVars, histVars, boundVars
<1>2. PassTypes' /\ pass[d].r \in Rcpt
  BY <1>0, ReceiptSettledTypes
<1> DEFINE k == pass[d].r.key
<1>3. PICK ok \in BOOLEAN : prune(k, ok)
  BY DEF ReceiptSettled
<1>4. k \in Nat
  BY <1>2, RcptFields
<1> HIDE DEF k
<1>5. CASE k \in Keys(trail)
  <2>1. saveLocked(FALSE, Without(trail, {k}), settled \cup {k}, marks \ {k}, ok)
    BY <1>3, <1>5 DEF prune
  <2>2. /\ Fits(Without(trail, {k}), settled \cup {k})
        /\ Receipts(Without(trail, {k})) = {r \in Onhand : r.key # k}
    BY <1>0, <1>4, PrunedFits DEF Base, TypeInv
  <2>3. Receipts(Without(trail, {k})) \subseteq Onhand /\ marks \ {k} \in SUBSET Nat
    BY <1>0, <2>2 DEF TypeInv, OutboxTypes
  <2>4. \E r \in All : r.key = k
    BY <1>0, <1>5, AllTypes DEF TypeInv, All
  <2>5. \A j \in settled \cup {k} : j \in settled \/ \E r \in All : r.key = j
    BY <2>4
  <2> QED
    BY <1>0, <1>1, <1>2, <2>1, <2>2, <2>3, <2>5, SaveShrinks
<1>6. CASE k \notin Keys(trail)
  BY <1>0, <1>1, <1>2, <1>3, <1>6, SameShrinks DEF prune
<1> QED
  BY <1>5, <1>6

-----------------------------------------------------------------------------
(* Steps that append a receipt.                                            *)

LEMMA SaveAppends ==
    ASSUME Base, up, NEW r \in Rcpt, r.key \notin settled, \A t \in All : t.key < r.key /\ t.at < r.at,
           NEW ms \in SUBSET Nat, NEW ok \in BOOLEAN,
           saveLocked(TRUE, Append(trail, r), settled, ms, ok)
    PROVE  /\ Appends(r)
           /\ \/ Unwritten(Append(trail, r), settled, ms) /\ ~ok
              \/ Written(Append(trail, r), settled, ms) /\ ok
<1> DEFINE mirror == Append(trail, r)
<1>0. OutboxTypes /\ KeptInv /\ \A t \in Filed : t.key \in wit
  BY DEF Base, TypeInv, KnownInv
<1>a. Fits(mirror, settled) /\ Receipts(mirror) = Onhand \cup {r} /\ mirror # <<>> /\ Last(mirror) = r
  BY <1>0, AppendedFits
<1> HIDE DEF mirror
<1>s. saveLocked(TRUE, mirror, settled, ms, ok)
  BY DEF mirror
<1>1. /\ \/ Unwritten(mirror, settled, ms) /\ ~ok
         \/ Written(mirror, settled, ms) /\ ok
      /\ ~unusable' /\ ~unprovable' /\ ~preserve'
      /\ unusable' \in BOOLEAN /\ unprovable' \in BOOLEAN /\ preserve' \in BOOLEAN
  BY <1>0, <1>a, <1>s, SaveEffect
<1>2. /\ OutboxTypes' /\ KeptInv'
      /\ Onhand' \subseteq Receipts(mirror) /\ All' \subseteq Receipts(mirror) \cup Filed
      /\ \A t \in Filed' : t.key \in wit'
      /\ wit \subseteq wit' /\ \A k \in wit' : k \in wit \/ \E t \in Onhand' : t.key = k
      /\ \A k \in settled' : k \in settled \/ \E t \in Receipts(mirror) : t.key = k
      /\ trail' # <<>> /\ Last(trail') = Last(mirror)
  BY <1>0, <1>1, <1>a, SavedOutbox
<1>3. Onhand \subseteq All /\ Filed \subseteq All /\ Filed' \subseteq All'
  BY DEF All
<1>4. Filed' \subseteq All \cup {r}
  BY <1>2, <1>3, <1>a
<1>5. Appends(r)
  BY <1>1, <1>2, <1>3, <1>4, <1>a DEF Appends
<1> QED
  BY <1>1, <1>5 DEF mirror

LEMMA RetryMintPlain ==
    ASSUME Base, NEW d \in Dispatchers, RetryMint(d)
    PROVE  /\ PassTypes' /\ up
           /\ \/ CoreUnchanged
              \/ /\ ~Deciding /\ mintOwed # None /\ mintOwed \in Rcpt /\ mintOwed' = None
                 /\ UNCHANGED <<recFile, up, live, epoch, lastStamp, recOwed, call, kind, mine, damage>>
                 /\ Appends(mintOwed)
                 /\ \E ms \in SUBSET Nat :
                      /\ ms = IF recOwed # None /\ recOwed.at = mintOwed.at THEN marks \cup {mintOwed.key} ELSE marks
                      /\ \/ Unwritten(Append(trail, mintOwed), settled, ms)
                         \/ Written(Append(trail, mintOwed), settled, ms)
<1>0. up /\ TypeInv
  BY PassUp DEF RetryMint, Base
<1>1. PassTypes'
  BY <1>0, PassToTypes DEF RetryMint
<1>2. UNCHANGED <<recFile, up, live, epoch, lastStamp, recOwed, call, kind, mine, damage>>
  BY DEF RetryMint, histVars, boundVars
<1>3. CASE UNCHANGED <<outFile, outboxVars, mintOwed, wit>>
  BY <1>0, <1>1, <1>2, <1>3 DEF CoreUnchanged, outboxVars
<1>4. CASE ~UNCHANGED <<outFile, outboxVars, mintOwed, wit>>
  <2> DEFINE m == [key |-> mintOwed.key, at |-> mintOwed.at, dec |-> mintOwed.dec]
             ms == IF recOwed # None /\ recOwed.at = mintOwed.at THEN marks \cup {mintOwed.key} ELSE marks
  <2>1. PICK ok \in BOOLEAN : /\ mintOwed # None /\ ~Deciding /\ mintOwed' = None
                              /\ saveLocked(TRUE, Append(trail, m), settled, ms, ok)
    BY <1>4 DEF RetryMint
  <2>2. mintOwed \in Rcpt
    BY <1>0, <2>1 DEF TypeInv, CoreTypes
  <2>3. m = mintOwed
    BY <2>2 DEF Rcpt
  <2>4. ms \in SUBSET Nat
    BY <1>0, <2>2, RcptFields DEF TypeInv, OutboxTypes
  <2> HIDE DEF m, ms
  <2>5. mintOwed.key \notin settled /\ \A t \in All : t.key < mintOwed.key /\ t.at < mintOwed.at
    BY <2>1, <2>2, RcptFields DEF Base, OwedInv
  <2>6. /\ Appends(mintOwed)
        /\ Unwritten(Append(trail, mintOwed), settled, ms) \/ Written(Append(trail, mintOwed), settled, ms)
    BY <1>0, <2>1, <2>2, <2>3, <2>4, <2>5, SaveAppends
  <2> QED
    BY <1>0, <1>1, <1>2, <2>1, <2>2, <2>4, <2>6 DEF ms
<1> QED
  BY <1>3, <1>4

LEMMA RetryMintBase ==
    ASSUME Base, NEW d \in Dispatchers, RetryMint(d)
    PROVE  Base'
<1>0. PassTypes' /\ up /\ TypeInv
  BY RetryMintPlain DEF Base
<1>1. CASE CoreUnchanged
  BY <1>0, <1>1, PassOnlyBase
<1>2. CASE ~CoreUnchanged
  <2> DEFINE r == mintOwed
  <2>1. /\ ~Deciding /\ r # None /\ r \in Rcpt /\ mintOwed' = None /\ Appends(r)
        /\ UNCHANGED <<recFile, up, live, epoch, lastStamp, recOwed, call, kind, mine, damage>>
    BY <1>2, RetryMintPlain
  <2>2. /\ r.key \in Nat /\ r.at \in Nat /\ r.key \in mine /\ Is(r.key, r.dec) /\ r.at <= lastStamp
        /\ Agrees(r.key, r.at) /\ (recOwed # None => recOwed = r)
        /\ \A c \in Callers : call[c].pc = "turn" => r.key < call[c].key
    BY <2>1, RcptFields DEF Base, KnownInv, OwedInv, CallInv, TurnOK
  <2>3. \A t \in All : t.key \in Nat /\ t.at \in Nat /\ t.key < r.key /\ t.at < r.at
    BY <1>0, <2>1, AllTypes DEF Base, OwedInv, TypeInv
  <2>n. \A c \in Callers : call[c].pc \notin Middle
    BY <2>1 DEF Deciding, Middle
  <2>a. /\ Onhand' \subseteq Onhand \cup {r} /\ Filed' \subseteq All \cup {r} /\ All' \subseteq All \cup {r}
        /\ wit \subseteq wit' /\ \A k \in wit' : k \in wit \/ k = r.key \/ \E t \in All : t.key = k
        /\ \A k \in settled' : k \in settled \/ k = r.key \/ \E t \in All : t.key = k
        /\ OutboxTypes' /\ KeptInv' /\ \A t \in Filed' : t.key \in wit'
    BY <2>1 DEF Appends, All
  <2> HIDE DEF r
  <2>4. TypeInv'
    BY <1>0, <2>1, <2>a DEF TypeInv, CoreTypes
  <2>5. KnownInv'
    BY <2>1, <2>2, <2>a DEF Base, KnownInv, Taken, Is
  <2>6. CallInv'
    <3>1. ASSUME NEW c \in Callers PROVE TurnOK(call[c])' /\ MintOK(call[c])' /\ MintedOK(call[c])'
      <4>1. call[c].key \in Nat /\ TurnOK(call[c]) /\ call[c].pc \notin Middle
        BY <1>0, <2>n, CallFields DEF Base, CallInv
      <4>2. TurnOK(call[c])'
        BY <2>1, <2>2, <2>3, <2>a, <4>1 DEF TurnOK
      <4> QED
        BY <2>1, <4>1, <4>2 DEF MintOK, MintedOK, Middle
    <3> QED
      BY <2>1, <3>1 DEF Base, CallInv
  <2>7. OwedInv'
    BY <2>1, <2>2, <2>3, <2>a DEF Base, OwedInv
  <2>8. StampInv'
    BY <1>0, RecFields, <2>1, <2>2, <2>3, <2>a DEF Base, StampInv, Agrees
  <2>9. DownInv'
    BY <1>0, <2>1 DEF DownInv
  <2> QED
    BY <2>4, <2>5, <2>6, <2>7, <2>8, <2>9, <2>a DEF Base
<1> QED
  BY <1>1, <1>2

LEMMA StampLater ==
    ASSUME TypeInv, NEW now \in Clocks
    PROVE  Stamp(now) \in Nat /\ Stamp(now) > lastStamp
BY FloorAssumption DEF Stamp, TypeInv, CoreTypes

\* A decision that is in its slow half runs in a process that is up.
LEMMA CallUp ==
    ASSUME Base, NEW c \in Callers, call[c].pc # "idle"
    PROVE  up
BY DEF Base, DownInv, TypeInv, CoreTypes

\* A change of one caller's place.
LEMMA CallStep ==
    ASSUME TypeInv, NEW c \in Callers, NEW q, q \in Call, call' = [call EXCEPT ![c] = q]
    PROVE  /\ call' \in [Callers -> Call] /\ call'[c] = q
           /\ \A o \in Callers : o # c => call'[o] = call[o]
BY DEF TypeInv, CoreTypes

LEMMA MintPlain ==
    ASSUME Base, NEW c \in Callers, MintReceipt(c)
    PROVE  \E r \in Rcpt, minted, ok \in BOOLEAN : Mints(c, r, minted, ok)
<1> DEFINE me == call[c]
<1>0. /\ TypeInv /\ up /\ me \in Call /\ me.key \in Nat /\ me.at \in Nat /\ me.pc = "mint"
      /\ MintOK(me) /\ Is(me.key, me.dec) /\ lastStamp \in Nat
  BY CallUp, CallFields DEF MintReceipt, Base, CallInv, KnownInv, TypeInv, CoreTypes
<1>k. me.dec \in Kinds
  BY <1>0 DEF Is, Taken, TypeInv, CoreTypes
<1>1. PICK now \in Clocks, minted \in BOOLEAN, ok \in BOOLEAN :
        LET at == IF me.dec = "granted" THEN Stamp(now) ELSE me.at
        IN  /\ lastStamp' = IF me.dec = "granted" THEN at ELSE lastStamp
            /\ IF minted
                 THEN appendMinted([key |-> me.key, at |-> at, dec |-> me.dec], ok)
                 ELSE /\ ok
                      /\ mintOwed' = Owed(me.dec, at, me.key)
                      /\ UNCHANGED <<outboxVars, outFile, wit>>
            /\ call' = [call EXCEPT
                  ![c].pc = IF me.dec = "granted" THEN "record" ELSE "mark",
                  ![c].at = at, ![c].minted = minted, ![c].safe = minted /\ ok]
  BY ZenonT(120) DEF MintReceipt
<1> DEFINE at == IF me.dec = "granted" THEN Stamp(now) ELSE me.at
           r == [key |-> me.key, at |-> at, dec |-> me.dec]
           q == [me EXCEPT !.pc = IF me.dec = "granted" THEN "record" ELSE "mark",
                           !.at = at, !.minted = minted, !.safe = minted /\ ok]
<1>2. Stamp(now) \in Nat /\ Stamp(now) > lastStamp
  BY <1>0, StampLater
<1>3. at \in Nat /\ r \in Rcpt /\ Owed(me.dec, at, me.key) = r
  BY <1>0, <1>k, <1>2, NewRcpt DEF Owed
<1>4. /\ r.key = me.key /\ r.dec = me.dec /\ r.at = at
      /\ (me.dec = "granted" => r.at > lastStamp) /\ (me.dec # "granted" => r.at = me.at)
  BY <1>2
<1>5. \A t \in All : t.key < r.key /\ t.at < r.at
  BY <1>0, AllTypes, <1>3, <1>4, RcptFields DEF MintOK, Base, StampInv, TypeInv
<1>6. q \in Call
  BY <1>0, <1>3 DEF Call, Middle
<1>7. call' = [call EXCEPT ![c] = q]
  BY <1>1
<1>8. lastStamp' = IF me.dec = "granted" THEN r.at ELSE lastStamp
  BY <1>1, <1>4
<1> HIDE DEF r, q, at
<1>9. call'[c] = q /\ call' \in [Callers -> Call] /\ \A o \in Callers : o # c => call'[o] = call[o]
  BY <1>0, <1>6, <1>7, CallStep
<1>10. UNCHANGED <<recFile, up, live, epoch, recOwed, wipe, passVars, kind, mine, damage>>
  BY DEF MintReceipt, histVars, boundVars
<1>11. \/ ~minted /\ ok /\ mintOwed' = r /\ UNCHANGED <<outFile, outboxVars, wit>>
       \/ /\ minted /\ mintOwed' = None /\ Appends(r)
          /\ \/ Unwritten(Append(trail, r), settled, marks) /\ ~ok
             \/ Written(Append(trail, r), settled, marks) /\ ok
  <2>1. CASE ~minted
    BY <1>1, <1>3, <2>1 DEF at
  <2>2. CASE minted
    <3>1. mintOwed' = None /\ saveLocked(TRUE, Append(trail, r), settled, marks, ok)
      BY <1>1, <2>2 DEF appendMinted, appendReceipt, r, at
    <3>2. r.key \notin settled
      BY <1>0, <1>4 DEF MintOK
    <3>3. marks \in SUBSET Nat
      BY <1>0 DEF TypeInv, OutboxTypes
    <3> QED
      BY <1>0, <1>3, <1>5, <2>2, <3>1, <3>2, <3>3, SaveAppends
  <2> QED
    BY <2>1, <2>2
<1>12. q = [call[c] EXCEPT !.pc = IF call[c].dec = "granted" THEN "record" ELSE "mark",
                           !.at = r.at, !.minted = minted, !.safe = minted /\ ok]
  BY <1>4 DEF q
<1> QED
  BY <1>0, <1>3, <1>4, <1>5, <1>6, <1>8, <1>9, <1>10, <1>11, <1>12 DEF Mints

\* One call moves, of the newest decision in its slow half; the others wait.
LEMMA OneMoves ==
    ASSUME Base, NEW c \in Callers, NEW n \in Nat,
           \A o \in Callers : o # c =>
               call'[o] = call[o] /\ call[o].pc \notin Middle /\ (call[o].pc = "turn" => n < call[o].key),
           call'[c].pc # "turn", call'[c].pc \in Middle => call'[c].key = n, MintOK(call[c])', MintedOK(call[c])',
           \A k \in wit' \cup settled' : k \in wit \cup settled \/ k = n \/ \E t \in All : t.key = k,
           \A t \in All' : t \in All \/ t.key = n,
           mintOwed' # None => mintOwed' = mintOwed \/ mintOwed'.key = n,
           recOwed' # None => recOwed' = recOwed \/ recOwed'.key = n
    PROVE  CallInv'
<1>1. ASSUME NEW o \in Callers, o # c PROVE TurnOK(call[o])' /\ MintOK(call[o])' /\ MintedOK(call[o])'
  BY <1>1 DEF Base, CallInv, TurnOK, MintOK, MintedOK, Middle
<1>2. TurnOK(call[c])'
  BY DEF TurnOK
<1>3. \A x \in Callers : call'[x].pc = "turn" => x # c /\ call'[x] = call[x]
  OBVIOUS
<1>4. \A x, o \in Callers : x # o /\ call'[x].pc = "turn" /\ call'[o].pc = "turn" => call'[x].key # call'[o].key
  BY <1>3 DEF Base, CallInv
<1> QED
  BY <1>1, <1>2, <1>4 DEF CallInv

LEMMA MintBase ==
    ASSUME Base, NEW c \in Callers, MintReceipt(c)
    PROVE  Base'
<1> DEFINE me == call[c]
<1>m. PICK r \in Rcpt, minted \in BOOLEAN, ok \in BOOLEAN : Mints(c, r, minted, ok)
  BY MintPlain
<1>1. /\ up /\ r.key = me.key /\ r.dec = me.dec
      /\ IF me.dec = "granted"
           THEN r.at > lastStamp /\ lastStamp' = r.at ELSE r.at = me.at /\ lastStamp' = lastStamp
      /\ call'[c] \in Call
      /\ call'[c] = [me EXCEPT !.pc = IF me.dec = "granted" THEN "record" ELSE "mark",
                               !.at = r.at, !.minted = minted, !.safe = minted /\ ok]
      /\ call' \in [Callers -> Call] /\ \A o \in Callers : o # c => call'[o] = call[o]
      /\ UNCHANGED <<recFile, up, live, epoch, recOwed, wipe, passVars, kind, mine, damage>>
      /\ \A t \in All : t.key < r.key /\ t.at < r.at
      /\ \/ ~minted /\ mintOwed' = r /\ UNCHANGED <<outFile, outboxVars, wit>>
         \/ minted /\ mintOwed' = None /\ Appends(r)
  BY <1>m DEF Mints
<1>2. /\ TypeInv /\ me \in Call /\ me.pc = "mint" /\ MintOK(me) /\ me.key \in mine /\ Is(me.key, me.dec)
      /\ recFile.key \in Nat /\ recFile.at \in Nat /\ lastStamp \in Nat
      /\ r.key \in Nat /\ r.at \in Nat /\ r # None
      /\ \A t \in All : t.key \in Nat /\ t.at \in Nat
  BY CallFields, RecFields, AllTypes, RcptFields DEF MintReceipt, Base, CallInv, KnownInv, TypeInv, CoreTypes
<1>q. LET q == call'[c] IN
      /\ q.pc = IF me.dec = "granted" THEN "record" ELSE "mark"
      /\ q.key = r.key /\ q.at = r.at /\ q.dec = r.dec
  BY <1>1, <1>2 DEF Call
<1>r. r = Owed(r.dec, r.at, r.key)
  BY DEF Rcpt, Owed
<1>n. \A o \in Callers : o # c => call[o].pc \notin Middle /\ call'[o].pc \notin Middle
  BY <1>1, <1>2 DEF Base, CallInv, Middle
<1>a. /\ Onhand' \subseteq Onhand \cup {r} /\ Filed' \subseteq All \cup {r} /\ All' \subseteq All \cup {r}
      /\ wit \subseteq wit' /\ \A k \in wit' : k \in wit \/ k = r.key \/ \E t \in All : t.key = k
      /\ \A k \in settled' : k \in settled \/ k = r.key \/ \E t \in All : t.key = k
      /\ OutboxTypes' /\ KeptInv' /\ \A t \in Filed' : t.key \in wit'
      /\ mintOwed' # None => mintOwed' = r /\ settled' = settled /\ All' = All
      /\ mintOwed' \in Rcpt \cup {None}
  <2>1. CASE minted
    BY <1>1, <2>1 DEF Appends, All
  <2>2. CASE ~minted
    <3>1. mintOwed' = r /\ UNCHANGED <<outFile, outboxVars, wit>> /\ up' = up
      BY <1>1, <2>2
    <3>2. Onhand' = Onhand /\ Filed' = Filed /\ All' = All /\ settled' = settled /\ wit' = wit
      BY <3>1 DEF Onhand, Filed, All, outboxVars
    <3>3. OutboxTypes' /\ KeptInv'
      BY <3>1, <3>2 DEF OutboxTypes, KeptInv, TrailOrdered, Ordered, outboxVars, Base, TypeInv
    <3> QED
      BY <3>1, <3>2, <3>3 DEF Base, KnownInv, All
  <2> QED
    BY <2>1, <2>2
<1>s. lastStamp' >= lastStamp /\ r.at <= lastStamp' /\ lastStamp' \in Nat
  BY <1>1, <1>2 DEF MintOK
<1>g. Agrees(r.key, r.at)
  <2>1. CASE me.dec = "granted"
    BY <1>1, <1>2, <2>1 DEF MintOK, Base, StampInv, KnownInv, Agrees
  <2>2. CASE me.dec # "granted"
    BY <1>1, <1>2, <2>2 DEF MintOK
  <2> QED
    BY <2>1, <2>2
<1>4. TypeInv'
  BY <1>1, <1>2, <1>a, <1>s DEF TypeInv, CoreTypes, PassTypes, InHand, passVars
<1>5. KnownInv'
  <2>1. \A k \in wit' \cup mine' \cup settled' : Taken(k)'
    BY <1>1, <1>2, <1>a DEF Base, KnownInv, Taken, Is
  <2>2. \A t \in All' : Is(t.key, t.dec)'
    BY <1>1, <1>2, <1>a DEF Base, KnownInv, Taken, Is
  <2>3. \A t \in Onhand' : t.key \in wit' \cup mine'
    BY <1>1, <1>2, <1>a DEF Base, KnownInv
  <2>4. \A o \in Callers : call'[o].pc # "idle" => call'[o].key \in mine' /\ Is(call[o].key, call[o].dec)'
    BY <1>1, <1>2, <1>q, ZenonT(60) DEF Base, KnownInv, Taken, Is
  <2>5. mintOwed' # None => mintOwed'.key \in mine' /\ Is(mintOwed.key, mintOwed.dec)'
    BY <1>1, <1>2, <1>a DEF Taken, Is
  <2>6. /\ recFile'.st = "ok" => recFile'.key \in wit' /\ Is(recFile.key, recFile.dec)'
        /\ recOwed' # None => recOwed'.key \in wit' \cup mine' /\ Is(recOwed.key, recOwed.dec)'
    BY <1>1, <1>a DEF Base, KnownInv, Taken, Is
  <2> QED
    BY <1>a, <2>1, <2>2, <2>3, <2>4, <2>5, <2>6 DEF KnownInv
<1>6. CallInv'
  <2>1. \A o \in Callers : o # c /\ call[o].pc = "turn" => r.key < call[o].key
    BY <1>1, <1>2 DEF Base, CallInv, TurnOK, Middle
  <2>2. MintedOK(call[c])'
    <3>1. \A k \in wit' : k <= r.key
      BY <1>1, <1>2, <1>a DEF MintOK
    <3>2. \A t \in All' : t.key <= r.key /\ t.at <= r.at
      BY <1>1, <1>2, <1>a
    <3>3. Agrees(r.key, r.at)'
      BY <1>1, <1>g DEF Agrees
    <3>4. mintOwed' # None => mintOwed' = Owed(r.dec, r.at, r.key)
      BY <1>a, <1>r
    <3>5. CASE me.dec = "granted"
      <4>1. (recOwed # None => recOwed.key < r.key) /\ (recFile.st = "ok" => recFile.key < r.key)
        BY <1>1, <1>2, <3>5 DEF MintOK, Base, KnownInv
      <4>2. call'[c].pc = "record" /\ call'[c].dec = "granted"
        BY <1>1, <1>q, <3>5
      <4> QED
        BY <1>1, <1>q, <1>s, <3>1, <3>2, <3>3, <3>4, <4>1, <4>2 DEF MintedOK
    <3>6. CASE me.dec # "granted"
      <4>1. recOwed # None => recOwed = Owed(r.dec, r.at, r.key)
        BY <1>1, <1>2, <3>6 DEF MintOK
      <4>2. call'[c].pc = "mark"
        BY <1>1, <1>q, <3>6
      <4> QED
        BY <1>1, <1>q, <1>s, <3>1, <3>2, <3>3, <3>4, <4>1, <4>2 DEF MintedOK
    <3> QED
      BY <3>5, <3>6
  <2>3. MintOK(call[c])' /\ call'[c].pc # "turn"
    BY <1>q DEF MintOK
  <2> QED
    <3>1. \A o \in Callers : o # c => call'[o] = call[o] /\ call[o].pc \notin Middle
      BY <1>1, <1>n
    <3>2. r.key \in Nat /\ recOwed' = recOwed /\ (call'[c].pc \in Middle => call'[c].key = r.key)
      BY <1>1, <1>2, <1>q
    <3>3. \A k \in wit' \cup settled' : k \in wit \cup settled \/ k = r.key \/ \E t \in All : t.key = k
      BY <1>a
    <3>4. (\A t \in All' : t \in All \/ t.key = r.key) /\ (mintOwed' # None => mintOwed' = mintOwed \/ mintOwed'.key = r.key)
      BY <1>a
    <3> QED
      BY <2>1, <2>2, <2>3, <3>1, <3>2, <3>3, <3>4, OneMoves
<1>7. OwedInv'
  <2>1. Deciding'
    BY <1>q DEF Deciding
  <2>2. mintOwed' # None => /\ mintOwed'.at <= lastStamp' /\ \A k \in settled' : k < mintOwed'.key
                            /\ \A t \in All' : t.key < mintOwed'.key /\ t.at < mintOwed'.at
    BY <1>1, <1>2, <1>a, <1>s DEF MintOK
  <2>3. recOwed' # None => recOwed'.at <= lastStamp'
    BY <1>2, RcptFields, <1>1, <1>s DEF Base, OwedInv, TypeInv, CoreTypes
  <2> QED
    BY <2>1, <2>2, <2>3 DEF OwedInv
<1>8. StampInv'
  BY <1>1, <1>2, <1>a, <1>s, <1>g DEF Base, StampInv, Agrees
<1>9. DownInv'
  BY <1>1 DEF DownInv
<1> QED
  BY <1>4, <1>5, <1>6, <1>7, <1>8, <1>9, <1>a DEF Base

-----------------------------------------------------------------------------
(* Steps that write the decision record.                                   *)

LEMMA ApplyRecords ==
    ASSUME NEW dec, NEW at, NEW key, NEW ok \in BOOLEAN, NEW wiped \in BOOLEAN,
           applyRecord(dec, at, key, ok, wiped)
    PROVE  \E persisted \in BOOLEAN : Records(Owed(dec, at, key), persisted)
<1> DEFINE p == ok /\ (dec = "granted" => wiped)
           r == Owed(dec, at, key)
<1>1. r.dec = dec /\ r.at = at /\ r.key = key
  BY DEF Owed
<1>2. p \in BOOLEAN
  OBVIOUS
<1>3. /\ recFile' = IF p THEN Record(dec, at, key) ELSE recFile
      /\ recOwed' = IF p THEN None ELSE r
      /\ marks' = IF p THEN {} ELSE marks
      /\ wit' = IF p THEN wit \cup {key} ELSE wit
      /\ UNCHANGED <<outFile, mintOwed, trail, dirty, settled, unusable, unprovable, preserve>>
  BY DEF applyRecord
<1> HIDE DEF p, r
<1>4. Records(r, p)
  BY <1>1, <1>3 DEF Records
<1> QED
  BY <1>2, <1>4 DEF r

LEMMA RecordsKeeps ==
    ASSUME Base, up, PassTypes', NEW r \in Rcpt, NEW persisted \in BOOLEAN, Records(r, persisted),
           Is(r.key, r.dec), r.key \in wit \cup mine, \A t \in All : t.key <= r.key /\ t.at <= r.at,
           call' \in [Callers -> Call], lastStamp' \in Nat, lastStamp' >= lastStamp, r.at <= lastStamp',
           UNCHANGED <<up, live, epoch, kind, mine, damage>>,
           \A c \in Callers : call'[c].pc # "idle" => call[c].pc # "idle" /\ call'[c].key = call[c].key /\ call'[c].dec = call[c].dec
    PROVE  /\ TypeInv' /\ KnownInv' /\ StampInv' /\ KeptInv' /\ DownInv'
           /\ Onhand' = Onhand /\ Filed' = Filed /\ All' = All
           /\ \A k \in wit' : k \in wit \/ k = r.key
<1>0. TypeInv /\ r.key \in Nat /\ r.at \in Nat /\ r.dec \in Decisions /\ lastStamp \in Nat
  BY RcptFields, Names DEF Base, TypeInv, CoreTypes
<1>u. outFile' = outFile /\ trail' = trail /\ mintOwed' = mintOwed /\ dirty' = dirty /\ settled' = settled
  BY DEF Records
<1>1. Onhand' = Onhand /\ Filed' = Filed /\ All' = All
  BY <1>u DEF Onhand, Filed, All
<1>2. TypeInv'
  <2>1. OutboxTypes'
    BY <1>0 DEF TypeInv, OutboxTypes, Records
  <2>2. Record(r.dec, r.at, r.key) \in Rec
    BY <1>0 DEF Record, Rec
  <2>3. CoreTypes'
    BY <1>0, <1>u, <2>2 DEF TypeInv, CoreTypes, Records
  <2> QED
    BY <2>1, <2>3 DEF TypeInv
<1>3. wit \subseteq wit' /\ \A k \in wit' : k \in wit \/ k = r.key
  BY DEF Records
<1>f. recFile' = recFile \/ (recFile' = Record(r.dec, r.at, r.key) /\ r.key \in wit')
  BY DEF Records
<1>c. LET q == Record(r.dec, r.at, r.key) IN q.st = "ok" /\ q.dec = r.dec /\ q.at = r.at /\ q.key = r.key /\ q.unw = FALSE
  BY DEF Record
<1>4. KnownInv'
  <2>1. \A k \in wit' \cup mine' \cup settled' : Taken(k)'
    BY <1>3, <1>u DEF Base, KnownInv, Taken, Is
  <2>2. \A t \in All' : Is(t.key, t.dec)'
    BY <1>1 DEF Base, KnownInv, Taken, Is
  <2>3. /\ \A t \in Onhand' : t.key \in wit' \cup mine'
        /\ \A t \in Filed' : t.key \in wit'
    BY <1>1, <1>3 DEF Base, KnownInv
  <2>4. recFile'.st = "ok" => recFile'.key \in wit' /\ Is(recFile.key, recFile.dec)'
    BY <1>3, <1>f, <1>c DEF Base, KnownInv, Taken, Is
  <2>5. recOwed' # None => recOwed'.key \in wit' \cup mine' /\ Is(recOwed.key, recOwed.dec)'
    BY <1>3 DEF Base, KnownInv, Taken, Is, Records
  <2>6. mintOwed' # None => mintOwed'.key \in mine' /\ Is(mintOwed.key, mintOwed.dec)'
    BY <1>u DEF Base, KnownInv, Taken, Is
  <2>7. \A c \in Callers : call'[c].pc # "idle" => call'[c].key \in mine' /\ Is(call[c].key, call[c].dec)'
    BY DEF Base, KnownInv, Taken, Is
  <2> QED
    BY <2>1, <2>2, <2>3, <2>4, <2>5, <2>6, <2>7 DEF KnownInv
<1>5. StampInv'
  BY <1>0, RecFields, AllTypes, <1>1, <1>f, <1>c DEF TypeInv, Base, StampInv
<1>6. KeptInv'
  BY <1>1, <1>u DEF Base, KeptInv, TrailOrdered, Ordered
<1>7. DownInv'
  BY DEF DownInv
<1> QED
  BY <1>1, <1>2, <1>3, <1>4, <1>5, <1>6, <1>7

LEMMA RetryRecordPlain ==
    ASSUME Base, NEW d \in Dispatchers, RetryRecord(d)
    PROVE  /\ PassTypes' /\ up /\ pass' = [pass EXCEPT ![d].pc = "claim"]
           /\ UNCHANGED <<up, live, epoch, lastStamp, call, claim, server, refused, answered, kind, mine, damage>>
           /\ \/ CoreUnchanged
              \/ /\ recOwed # None /\ ~Deciding /\ recOwed \in Rcpt
                 /\ recOwed.dec = "granted" => ~dirty /\ (mintOwed # None => mintOwed.at # recOwed.at)
                 /\ \E persisted \in BOOLEAN : Records(recOwed, persisted)
<1>0. up /\ TypeInv
  BY PassUp DEF RetryRecord, Base
<1>1. PassTypes' /\ pass' = [pass EXCEPT ![d].pc = "claim"]
  BY <1>0, PassToTypes DEF RetryRecord, PassTo
<1>2. UNCHANGED <<up, live, epoch, lastStamp, call, claim, server, refused, answered, kind, mine, damage>>
  BY DEF RetryRecord, histVars, boundVars
<1>3. CASE UNCHANGED <<diskVars, outboxVars, owedVars, wit, faults>>
  BY <1>0, <1>1, <1>2, <1>3 DEF CoreUnchanged, outboxVars, diskVars, owedVars
<1>4. CASE ~UNCHANGED <<diskVars, outboxVars, owedVars, wit, faults>>
  <2>1. /\ recOwed # None /\ ~Deciding
        /\ recOwed.dec = "granted" => ~dirty /\ ~(mintOwed # None /\ mintOwed.at = recOwed.at)
        /\ \E ok, wiped \in BOOLEAN : applyRecord(recOwed.dec, recOwed.at, recOwed.key, ok, wiped)
    BY <1>4 DEF RetryRecord
  <2>2. recOwed \in Rcpt
    BY <1>0, <2>1 DEF TypeInv, CoreTypes
  <2>3. Owed(recOwed.dec, recOwed.at, recOwed.key) = recOwed
    BY <2>2 DEF Rcpt, Owed
  <2>4. \E persisted \in BOOLEAN : Records(recOwed, persisted)
    BY <2>1, <2>3, ApplyRecords
  <2> QED
    BY <1>0, <1>1, <1>2, <2>1, <2>2, <2>4
<1> QED
  BY <1>3, <1>4

LEMMA RetryRecordBase ==
    ASSUME Base, NEW d \in Dispatchers, RetryRecord(d)
    PROVE  Base'
<1>0. PassTypes' /\ up /\ TypeInv /\ UNCHANGED <<up, live, epoch, lastStamp, call, kind, mine, damage>>
  BY RetryRecordPlain DEF Base
<1>1. CASE CoreUnchanged
  BY <1>0, <1>1, PassOnlyBase
<1>2. CASE ~CoreUnchanged
  <2> DEFINE r == recOwed
  <2>1. r # None /\ ~Deciding /\ r \in Rcpt
    BY <1>2, RetryRecordPlain
  <2>2. PICK persisted \in BOOLEAN : Records(r, persisted)
    BY <1>2, RetryRecordPlain
  <2>3. /\ Is(r.key, r.dec) /\ r.key \in wit \cup mine /\ r.at <= lastStamp /\ lastStamp \in Nat
        /\ \A t \in All : t.key <= r.key /\ t.at <= r.at
        /\ mintOwed # None => mintOwed = r /\ \A k \in wit : k <= mintOwed.key
        /\ r.key \in Nat /\ r.at \in Nat
        /\ \A c \in Callers : call[c].pc = "turn" => r.key < call[c].key
    BY <1>0, <2>1, RcptFields DEF Base, KnownInv, OwedInv, TypeInv, CoreTypes, CallInv, TurnOK
  <2>n. \A c \in Callers : call[c].pc \notin Middle /\ call[c].pc # "mint" /\ call[c].pc \notin {"record", "mark"}
    BY <2>1 DEF Deciding, Middle
  <2>c. /\ call' \in [Callers -> Call] /\ lastStamp' \in Nat /\ lastStamp' >= lastStamp /\ r.at <= lastStamp'
        /\ \A c \in Callers : call'[c].pc # "idle" => call[c].pc # "idle" /\ call'[c].key = call[c].key /\ call'[c].dec = call[c].dec
    BY <1>0, <2>3 DEF TypeInv, CoreTypes
  <2> HIDE DEF r
  <2>4. /\ TypeInv' /\ KnownInv' /\ StampInv' /\ KeptInv' /\ DownInv'
        /\ Onhand' = Onhand /\ Filed' = Filed /\ All' = All
        /\ \A k \in wit' : k \in wit \/ k = r.key
    BY <1>0, <2>1, <2>2, <2>3, <2>c, RecordsKeeps
  <2>5. mintOwed' = mintOwed /\ settled' = settled /\ (recOwed' = None \/ recOwed' = r)
    BY <2>2 DEF Records
  <2>6. CallInv'
    <3>1. ASSUME NEW c \in Callers PROVE TurnOK(call[c])' /\ MintOK(call[c])' /\ MintedOK(call[c])'
      BY <1>0, CallFields, <2>3, <2>4, <2>5, <2>n DEF Base, CallInv, TurnOK, MintOK, MintedOK
    <3> QED
      BY <1>0, <3>1 DEF Base, CallInv
  <2>7. OwedInv'
    <3>1. mintOwed' # None => Agrees(mintOwed.key, mintOwed.at)' /\ \A k \in wit' : k <= mintOwed'.key
      BY <2>1, <2>3, <2>4, <2>5, <2>2 DEF Base, OwedInv, Agrees, Record, Records
    <3>2. recOwed' # None => recOwed'.at <= lastStamp' /\ \A t \in All' : t.key <= recOwed'.key /\ t.at <= recOwed'.at
      BY <1>0, <2>3, <2>4, <2>5
    <3>3. recOwed' # None /\ mintOwed' # None => mintOwed' = recOwed'
      BY <2>3, <2>5
    <3>4. mintOwed' # None => /\ mintOwed'.at <= lastStamp' /\ \A k \in settled' : k < mintOwed'.key
                              /\ \A t \in All' : t.key < mintOwed'.key /\ t.at < mintOwed'.at
      BY <1>0, <2>4, <2>5 DEF Base, OwedInv
    <3> QED
      BY <3>1, <3>2, <3>3, <3>4 DEF OwedInv
  <2> QED
    BY <2>4, <2>6, <2>7 DEF Base
<1> QED
  BY <1>1, <1>2

LEMMA CallKinds ==
    ASSUME Base, NEW c \in Callers, call[c].pc # "idle"
    PROVE  call[c].dec \in Kinds /\ Is(call[c].key, call[c].dec) /\ call[c].key \in mine
<1>1. Is(call[c].key, call[c].dec) /\ call[c].key \in mine /\ kind \in Seq(Kinds)
  BY DEF Base, KnownInv, TypeInv, CoreTypes
<1> QED
  BY <1>1 DEF Is, Taken

LEMMA GrantRecordPlain ==
    ASSUME Base, NEW c \in Callers, GrantRecord(c)
    PROVE  \E r \in Rcpt, persisted \in BOOLEAN : GrantRecords(c, r, persisted)
<1> DEFINE r == Owed("granted", call[c].at, call[c].key)
           q == [call[c] EXCEPT !.pc = "mark"]
<1>0. /\ up /\ TypeInv /\ call[c].pc = "record" /\ call[c].dec = "granted" /\ call[c] \in Call
      /\ call[c].key \in Nat /\ call[c].at \in Nat /\ call[c].dec \in Kinds
  BY CallUp, CallFields, CallKinds DEF GrantRecord, Base, CallInv, MintedOK
<1>1. r \in Rcpt
  <2>1. "granted" \in Kinds
    BY <1>0
  <2> QED
    BY <1>0, <2>1, NewRcpt
<1>2. q \in Call
  BY <1>0 DEF Call, Middle
<1>3. call' = [call EXCEPT ![c] = q]
  BY DEF GrantRecord
<1>4. UNCHANGED <<up, live, epoch, lastStamp, passVars, kind, mine, damage>>
  BY DEF GrantRecord, histVars, boundVars
<1>5. \E persisted \in BOOLEAN : Records(r, persisted) /\ (persisted => call[c].safe)
  <2>1. CASE call[c].safe
    BY <2>1, ApplyRecords DEF GrantRecord
  <2>2. CASE ~call[c].safe
    BY <2>2 DEF GrantRecord, Records, diskVars, outboxVars
  <2> QED
    BY <2>1, <2>2
<1> HIDE DEF q, r
<1>6. call' \in [Callers -> Call] /\ call'[c] = q /\ \A o \in Callers : o # c => call'[o] = call[o]
  BY <1>0, <1>2, <1>3, CallStep
<1> QED
  BY <1>0, <1>1, <1>4, <1>5, <1>6 DEF GrantRecords, r, q

LEMMA GrantRecordBase ==
    ASSUME Base, NEW c \in Callers, GrantRecord(c)
    PROVE  Base'
<1> DEFINE me == call[c]
<1>m. PICK r \in Rcpt, persisted \in BOOLEAN : GrantRecords(c, r, persisted)
  BY GrantRecordPlain
<1>1. /\ up /\ me.pc = "record" /\ me.dec = "granted" /\ r = Owed("granted", me.at, me.key)
      /\ Records(r, persisted)
      /\ call' \in [Callers -> Call] /\ call'[c] = [me EXCEPT !.pc = "mark"]
      /\ \A o \in Callers : o # c => call'[o] = call[o]
      /\ UNCHANGED <<up, live, epoch, lastStamp, passVars, kind, mine, damage>>
  BY <1>m DEF GrantRecords
<1>2. /\ TypeInv /\ MintedOK(me) /\ me.key \in mine /\ Is(me.key, me.dec) /\ me \in Call
      /\ me.key \in Nat /\ me.at \in Nat /\ lastStamp \in Nat
  BY <1>1, CallFields DEF Base, CallInv, KnownInv, TypeInv, CoreTypes
<1>r. r.key = me.key /\ r.at = me.at /\ r.dec = "granted" /\ me.dec = "granted"
  BY <1>1 DEF Owed
<1>q. call'[c].pc = "mark" /\ call'[c].key = me.key /\ call'[c].at = me.at /\ call'[c].dec = me.dec
  BY <1>1, <1>2 DEF Call
<1>n. \A o \in Callers : o # c => call[o].pc \notin Middle /\ call'[o].pc \notin Middle
  BY <1>1, <1>2 DEF Base, CallInv, Middle
<1>p. PassTypes'
  BY <1>1, <1>2 DEF TypeInv, PassTypes, InHand, passVars
<1>3. /\ Is(r.key, r.dec) /\ r.key \in wit \cup mine /\ r.at <= lastStamp
      /\ \A t \in All : t.key <= r.key /\ t.at <= r.at
      /\ lastStamp' \in Nat /\ lastStamp' >= lastStamp /\ r.at <= lastStamp'
      /\ \A o \in Callers : call'[o].pc # "idle" => call[o].pc # "idle" /\ call'[o].key = call[o].key /\ call'[o].dec = call[o].dec
  <2>1. me.at <= lastStamp /\ \A t \in All : t.key <= me.key /\ t.at <= me.at
    BY <1>1, <1>2 DEF MintedOK
  <2>2. \A o \in Callers : call'[o].pc # "idle" => call[o].pc # "idle" /\ call'[o].key = call[o].key /\ call'[o].dec = call[o].dec
    BY <1>1, <1>q
  <2>3. lastStamp' \in Nat /\ lastStamp' >= lastStamp /\ me.at <= lastStamp'
    BY <1>1, <1>2, <2>1
  <2> QED
    BY <1>2, <1>r, <2>1, <2>2, <2>3
<1>4. /\ TypeInv' /\ KnownInv' /\ StampInv' /\ KeptInv' /\ DownInv'
      /\ Onhand' = Onhand /\ Filed' = Filed /\ All' = All
      /\ \A k \in wit' : k \in wit \/ k = r.key
  BY <1>1, <1>3, <1>p, RecordsKeeps
<1>5. mintOwed' = mintOwed /\ settled' = settled /\ (recOwed' = None \/ recOwed' = r)
  BY <1>1 DEF Records
<1>6. CallInv'
  <2>1. \A o \in Callers : o # c /\ call[o].pc = "turn" => r.key < call[o].key
    BY <1>1, <1>2, <1>r DEF Base, CallInv, TurnOK, Middle
  <2>2. MintedOK(call[c])'
    <3>1. \A k \in wit' : k <= r.key
      BY <1>1, <1>2, <1>4, <1>r DEF MintedOK
    <3>2. Agrees(me.key, me.at)'
      BY <1>1, <1>2, <1>q, <1>r DEF MintedOK, Agrees, Record, Records
    <3>3. mintOwed' # None => mintOwed' = Owed(me.dec, me.at, me.key)
      BY <1>1, <1>2, <1>5 DEF MintedOK
    <3>4. recOwed' # None => recOwed' = Owed(me.dec, me.at, me.key)
      BY <1>1, <1>5
    <3> QED
      BY <1>1, <1>3, <1>4, <1>q, <1>r, <3>1, <3>2, <3>3, <3>4 DEF MintedOK, Agrees
  <2>3. MintOK(call[c])' /\ call'[c].pc # "turn" /\ r.key \in Nat
    BY <1>2, <1>r, <1>q DEF MintOK
  <2> QED
    <3>1. \A o \in Callers : o # c => call'[o] = call[o] /\ call[o].pc \notin Middle
      BY <1>1, <1>n
    <3>2. call'[c].pc \in Middle => call'[c].key = r.key
      BY <1>q, <1>r
    <3>3. \A k \in wit' \cup settled' : k \in wit \cup settled \/ k = r.key
      BY <1>4, <1>5
    <3>4. \A t \in All' : t \in All
      BY <1>4
    <3> QED
      BY <1>5, <2>1, <2>2, <2>3, <3>1, <3>2, <3>3, <3>4, OneMoves
<1>7. OwedInv'
  BY <1>q, <1>1, <1>3, <1>4, <1>5 DEF Deciding, Base, OwedInv
<1> QED
  BY <1>4, <1>6, <1>7 DEF Base

\* A decision whose turn it is meets no other in its slow half.
LEMMA TurnAlone ==
    ASSUME Base, NEW c \in Callers, MyTurn(c)
    PROVE  /\ up /\ call[c].pc = "turn" /\ TurnOK(call[c]) /\ ~Deciding
           /\ \A o \in Callers : call[o].pc \notin Middle
           /\ \A o \in Callers : o # c /\ call[o].pc # "idle" => call[o].pc = "turn" /\ call[c].key < call[o].key
<1>1. up /\ call[c].pc = "turn" /\ TurnOK(call[c]) /\ TypeInv /\ call[c].key \in Nat
  BY CallUp, CallFields DEF MyTurn, Base, CallInv
<1>2. ASSUME NEW o \in Callers, call[o].pc \in Middle PROVE FALSE
  BY <1>1, <1>2, CallFields DEF TurnOK, Middle, MyTurn
<1>3. \A o \in Callers : call[o].pc \in {"idle", "turn"} \cup Middle
  BY <1>1, CallFields
<1> QED
  BY <1>1, <1>2, <1>3 DEF MyTurn, Deciding, Middle

LEMMA BeginDenialPlain ==
    ASSUME Base, NEW c \in Callers, BeginDenial(c)
    PROVE  \E r \in Rcpt, persisted \in BOOLEAN : DenialBegins(c, r, persisted)
<1>0. /\ up /\ TypeInv /\ call[c].pc = "turn" /\ call[c].dec # "granted" /\ call[c] \in Call
      /\ call[c].key \in Nat /\ call[c].dec \in Kinds
  BY TurnAlone, CallFields, CallKinds DEF BeginDenial, Base
<1>1. PICK now \in Clocks, ok \in BOOLEAN, wiped \in BOOLEAN :
        /\ lastStamp' = Stamp(now)
        /\ applyRecord(call[c].dec, Stamp(now), call[c].key, ok, wiped)
        /\ call' = [call EXCEPT ![c].pc = "mint", ![c].at = Stamp(now)]
  BY DEF BeginDenial
<1> DEFINE at == Stamp(now)
           r == Owed(call[c].dec, at, call[c].key)
           q == [call[c] EXCEPT !.pc = "mint", !.at = at]
<1>2. at \in Nat /\ at > lastStamp
  BY <1>0, StampLater
<1> HIDE DEF at
<1>3. r \in Rcpt /\ r.key = call[c].key /\ r.at = at /\ r.dec = call[c].dec
  BY NewRcpt, <1>0, <1>2 DEF Owed
<1>4. q \in Call
  BY <1>0, <1>2 DEF Call, Middle
<1>5. call' = [call EXCEPT ![c] = q]
  BY <1>1 DEF at
<1>6. \E persisted \in BOOLEAN : Records(r, persisted)
  BY <1>1, ApplyRecords DEF at
<1> HIDE DEF q, r
<1>7. call' \in [Callers -> Call] /\ call'[c] = q /\ \A o \in Callers : o # c => call'[o] = call[o]
  BY <1>0, <1>4, <1>5, CallStep
<1>8. UNCHANGED <<up, live, epoch, passVars, kind, mine, damage>>
  BY DEF BeginDenial, histVars, boundVars
<1>9. lastStamp' = r.at /\ q = [call[c] EXCEPT !.pc = "mint", !.at = r.at]
  BY <1>1, <1>3 DEF at, q
<1> QED
  BY <1>0, <1>2, <1>3, <1>6, <1>7, <1>8, <1>9 DEF DenialBegins

LEMMA BeginDenialBase ==
    ASSUME Base, NEW c \in Callers, BeginDenial(c)
    PROVE  Base'
<1> DEFINE me == call[c]
<1>m. PICK r \in Rcpt, persisted \in BOOLEAN : DenialBegins(c, r, persisted)
  BY BeginDenialPlain
<1>1. /\ up /\ me.pc = "turn" /\ me.dec # "granted"
      /\ r.key = me.key /\ r.dec = me.dec /\ r.at > lastStamp /\ lastStamp' = r.at
      /\ Records(r, persisted)
      /\ call' \in [Callers -> Call] /\ call'[c] = [me EXCEPT !.pc = "mint", !.at = r.at]
      /\ \A o \in Callers : o # c => call'[o] = call[o]
      /\ UNCHANGED <<up, live, epoch, passVars, kind, mine, damage>>
  BY <1>m DEF DenialBegins
<1>2. /\ TypeInv /\ TurnOK(me) /\ me.key \in mine /\ Is(me.key, me.dec) /\ me \in Call
      /\ r.key \in Nat /\ r.at \in Nat /\ lastStamp \in Nat /\ recFile.key \in Nat /\ recFile.at \in Nat
      /\ \A o \in Callers : call[o].pc \notin Middle
      /\ \A o \in Callers : o # c /\ call[o].pc # "idle" => call[o].pc = "turn" /\ me.key < call[o].key
  BY <1>1, CallFields, TurnAlone, RcptFields, RecFields DEF BeginDenial, Base, CallInv, KnownInv, TypeInv, CoreTypes
<1>a. \A t \in All : t.key < r.key /\ t.at < r.at /\ t.key \in Nat /\ t.at \in Nat
  BY <1>1, <1>2, AllTypes DEF TurnOK, Base, StampInv, TypeInv
<1>q. call'[c].pc = "mint" /\ call'[c].key = r.key /\ call'[c].at = r.at /\ call'[c].dec = r.dec /\ call'[c].dec # "granted"
  BY <1>1, <1>2 DEF Call
<1>n. \A o \in Callers : o # c => call'[o].pc \notin Middle
  BY <1>1, <1>2
<1>p. PassTypes'
  BY <1>1, <1>2 DEF TypeInv, PassTypes, InHand, passVars
<1>3. /\ Is(r.key, r.dec) /\ r.key \in wit \cup mine
      /\ \A t \in All : t.key <= r.key /\ t.at <= r.at
      /\ lastStamp' \in Nat /\ lastStamp' >= lastStamp /\ r.at <= lastStamp'
      /\ \A o \in Callers : call'[o].pc # "idle" => call[o].pc # "idle" /\ call'[o].key = call[o].key /\ call'[o].dec = call[o].dec
  <2>1. \A o \in Callers : call'[o].pc # "idle" => call[o].pc # "idle" /\ call'[o].key = call[o].key /\ call'[o].dec = call[o].dec
    BY <1>1, <1>q
  <2>2. lastStamp' \in Nat /\ lastStamp' >= lastStamp /\ r.at <= lastStamp'
    BY <1>1, <1>2
  <2>3. \A t \in All : t.key <= r.key /\ t.at <= r.at
    BY <1>2, <1>a
  <2> QED
    BY <1>1, <1>2, <2>1, <2>2, <2>3
<1>4. /\ TypeInv' /\ KnownInv' /\ StampInv' /\ KeptInv' /\ DownInv'
      /\ Onhand' = Onhand /\ Filed' = Filed /\ All' = All
      /\ \A k \in wit' : k \in wit \/ k = r.key
  BY <1>1, <1>3, <1>p, RecordsKeeps
<1>5. mintOwed' = mintOwed /\ settled' = settled /\ (recOwed' = None \/ recOwed' = r)
  BY <1>1 DEF Records
<1>6. CallInv'
  <2>2. MintOK(call[c])'
    <3>1. \A k \in wit' : k <= r.key
      BY <1>1, <1>2, <1>4 DEF TurnOK, TypeInv, OutboxTypes
    <3>2. Agrees(r.key, r.at)'
      <4>1. CASE recFile' = recFile
        BY <1>1, <1>2, <4>1 DEF Base, StampInv, KnownInv, TurnOK, Agrees
      <4>2. CASE recFile' = Record(r.dec, r.at, r.key)
        BY <4>2 DEF Agrees, Record
      <4> QED
        BY <1>1, <4>1, <4>2 DEF Records
    <3>3. mintOwed' # None => mintOwed'.key < r.key
      BY <1>1, <1>2, <1>5 DEF TurnOK
    <3>4. recOwed' # None => recOwed' = Owed(r.dec, r.at, r.key)
      BY <1>5 DEF Rcpt, Owed
    <3>5. \A k \in settled' : k < r.key
      BY <1>1, <1>2, <1>5 DEF TurnOK
    <3> QED
      BY <1>3, <1>4, <1>a, <1>q, <3>1, <3>2, <3>3, <3>4, <3>5 DEF MintOK, Agrees
  <2>3. MintedOK(call[c])' /\ call'[c].pc # "turn"
    BY <1>q DEF MintedOK
  <2> QED
    <3>1. \A o \in Callers : o # c => call'[o] = call[o] /\ call[o].pc \notin Middle /\ (call[o].pc = "turn" => r.key < call[o].key)
      BY <1>1, <1>2
    <3>2. r.key \in Nat /\ (call'[c].pc \in Middle => call'[c].key = r.key)
      BY <1>2, <1>q
    <3>3. \A k \in wit' \cup settled' : k \in wit \cup settled \/ k = r.key
      BY <1>4, <1>5
    <3>4. \A t \in All' : t \in All
      BY <1>4
    <3> QED
      BY <1>5, <2>2, <2>3, <3>1, <3>2, <3>3, <3>4, OneMoves
<1>7. OwedInv'
  <2>1. Deciding'
    BY <1>q DEF Deciding
  <2>2. mintOwed # None => mintOwed.at \in Nat /\ mintOwed.at <= lastStamp
    BY <1>2, RcptFields DEF Base, OwedInv, TypeInv, CoreTypes
  <2>3. mintOwed' # None => mintOwed'.at <= lastStamp'
    BY <1>2, <1>3, <1>5, <2>2
  <2> QED
    BY <1>1, <1>3, <1>4, <1>5, <2>1, <2>3 DEF Base, OwedInv
<1> QED
  BY <1>4, <1>6, <1>7 DEF Base

-----------------------------------------------------------------------------
(* Steps that move a caller and touch no file.                             *)

LEMMA FilesUnchangedKeeps ==
    ASSUME Base, up, FilesUnchanged, marks' \in SUBSET Nat
    PROVE  /\ OutboxTypes' /\ PassTypes' /\ StampInv' /\ KeptInv' /\ DownInv'
           /\ Onhand' = Onhand /\ Filed' = Filed /\ All' = All
<1>1. Onhand' = Onhand /\ Filed' = Filed /\ All' = All
  BY DEF FilesUnchanged, Onhand, Filed, All
<1>2. OutboxTypes'
  BY DEF Base, TypeInv, OutboxTypes, FilesUnchanged
<1>3. PassTypes'
  BY DEF Base, TypeInv, PassTypes, FilesUnchanged, passVars, InHand
<1>4. StampInv'
  BY <1>1 DEF Base, StampInv, FilesUnchanged
<1>5. KeptInv'
  BY <1>1 DEF Base, KeptInv, TrailOrdered, Ordered, FilesUnchanged
<1>6. DownInv'
  BY DEF DownInv, FilesUnchanged
<1> QED
  BY <1>1, <1>2, <1>3, <1>4, <1>5, <1>6

LEMMA IdleIsCall == IdleCall \in Call /\ IdleCall.pc = "idle"
BY DEF IdleCall, Call, Decisions

LEMMA BeginGrantPlain ==
    ASSUME Base, NEW c \in Callers, BeginGrant(c)
    PROVE  /\ up /\ MyTurn(c) /\ call[c].dec = "granted" /\ FilesUnchanged
           /\ marks' = marks /\ epoch' = epoch /\ kind' = kind
           /\ call' \in [Callers -> Call] /\ \A o \in Callers : o # c => call'[o] = call[o]
           /\ \/ /\ call'[c] = [call[c] EXCEPT !.pc = "mint"] /\ mine' = mine
                 /\ live' = IF epoch = call[c].snap THEN "granted" ELSE live
              \/ call'[c] = IdleCall /\ mine' = mine \ {call[c].key} /\ live' = live
<1>0. up /\ TypeInv /\ MyTurn(c) /\ call[c].dec = "granted" /\ call[c] \in Call
  BY TurnAlone, CallFields DEF BeginGrant, Base
<1>1. FilesUnchanged /\ marks' = marks /\ epoch' = epoch /\ kind' = kind
  BY DEF BeginGrant, FilesUnchanged, diskVars, outboxVars, boundVars
<1>2. CASE call' = [call EXCEPT ![c].pc = "mint"] /\ mine' = mine /\ live' = IF epoch = call[c].snap THEN "granted" ELSE live
  <2> DEFINE q == [call[c] EXCEPT !.pc = "mint"]
  <2>1. q \in Call /\ call' = [call EXCEPT ![c] = q]
    BY <1>0, <1>2 DEF Call, Middle
  <2> HIDE DEF q
  <2>2. call' \in [Callers -> Call] /\ call'[c] = q /\ \A o \in Callers : o # c => call'[o] = call[o]
    BY <1>0, <2>1, CallStep
  <2> QED
    BY <1>0, <1>1, <1>2, <2>2 DEF q
<1>3. CASE call' = [call EXCEPT ![c] = IdleCall] /\ mine' = mine \ {call[c].key} /\ live' = live
  BY <1>0, <1>3, CallStep, IdleIsCall, <1>1
<1> QED
  BY <1>2, <1>3 DEF BeginGrant

LEMMA BeginGrantBase ==
    ASSUME Base, NEW c \in Callers, BeginGrant(c)
    PROVE  Base'
<1> DEFINE me == call[c]
<1>1. /\ up /\ MyTurn(c) /\ me.dec = "granted" /\ FilesUnchanged
      /\ marks' = marks /\ epoch' = epoch /\ kind' = kind
      /\ call' \in [Callers -> Call] /\ \A o \in Callers : o # c => call'[o] = call[o]
      /\ \/ call'[c] = [me EXCEPT !.pc = "mint"] /\ mine' = mine
         \/ call'[c] = IdleCall /\ mine' = mine \ {me.key}
      /\ live' = live \/ live' = "granted"
  BY BeginGrantPlain
<1>2. /\ TypeInv /\ TurnOK(me) /\ me.pc = "turn" /\ me.key \in mine /\ Is(me.key, me.dec) /\ me \in Call
      /\ me.key \in Nat
      /\ \A o \in Callers : call[o].pc \notin Middle
      /\ \A o \in Callers : o # c /\ call[o].pc # "idle" => call[o].pc = "turn" /\ me.key < call[o].key
  BY <1>1, CallFields, TurnAlone DEF Base, CallInv, KnownInv
<1>3. /\ OutboxTypes' /\ PassTypes' /\ StampInv' /\ KeptInv' /\ DownInv'
      /\ Onhand' = Onhand /\ Filed' = Filed /\ All' = All
  BY <1>1, <1>2, FilesUnchangedKeeps DEF TypeInv, OutboxTypes
<1>u. /\ recFile' = recFile /\ recOwed' = recOwed /\ mintOwed' = mintOwed /\ settled' = settled
      /\ wit' = wit /\ lastStamp' = lastStamp /\ up' = up /\ damage' = damage
  BY <1>1 DEF FilesUnchanged
<1>q. call'[c].pc # "idle" => call'[c].pc = "mint" /\ call'[c].key = me.key /\ call'[c].dec = "granted" /\ mine' = mine
  BY <1>1, <1>2, IdleIsCall DEF Call
<1>a. \A t \in All : t.key < me.key /\ t.key \in Nat
  BY <1>2, AllTypes DEF TurnOK, TypeInv
<1>4. TypeInv'
  BY <1>1, <1>2, <1>3, <1>u DEF TypeInv, CoreTypes, Decisions
<1>5. KnownInv'
  <2>1. \A k \in wit' \cup mine' \cup settled' : Taken(k)'
    BY <1>1, <1>u DEF Base, KnownInv, Taken
  <2>m. \A k \in mine : k # me.key => k \in mine'
    BY <1>1
  <2>2. \A t \in Onhand' : t.key \in wit' \cup mine'
    <3>1. ASSUME NEW t \in Onhand PROVE t.key \in wit \cup mine /\ t.key # me.key
      BY <1>2, <1>a DEF All, Base, KnownInv
    <3> QED
      BY <1>3, <1>u, <2>m, <3>1
  <2>3. /\ \A t \in All' : Is(t.key, t.dec)'
        /\ recFile'.st = "ok" => recFile'.key \in wit' /\ Is(recFile.key, recFile.dec)'
    BY <1>1, <1>3, <1>u DEF Base, KnownInv, Taken, Is
  <2>3b. \A t \in Filed' : t.key \in wit'
    BY <1>3, <1>u DEF Base, KnownInv
  <2>4. recOwed' # None => recOwed'.key \in wit' \cup mine' /\ Is(recOwed.key, recOwed.dec)'
    BY <1>2, <1>1, <1>u, <2>m DEF TurnOK, Base, KnownInv, Taken, Is
  <2>5. mintOwed' # None => mintOwed'.key \in mine' /\ Is(mintOwed.key, mintOwed.dec)'
    BY <1>2, <1>1, <1>u, <2>m DEF TurnOK, Base, KnownInv, Taken, Is
  <2>6. ASSUME NEW o \in Callers, call'[o].pc # "idle" PROVE call'[o].key \in mine' /\ Is(call[o].key, call[o].dec)'
    <3>1. CASE o = c
      BY <1>1, <1>2, <1>q, <2>6, <3>1 DEF Taken, Is
    <3>2. CASE o # c
      BY <1>1, <2>6, <3>2, <1>2, CallFields, <2>m DEF Base, KnownInv, Taken, Is
    <3> QED
      BY <3>1, <3>2
  <2> QED
    BY <2>1, <2>2, <2>3, <2>3b, <2>4, <2>5, <2>6 DEF KnownInv
<1>6. CallInv'
  <2>2. MintOK(call[c])'
    <3>1. \A k \in wit \cup settled : k \in Nat /\ k < me.key
      BY <1>2 DEF TurnOK, TypeInv, OutboxTypes
    <3>2. (mintOwed # None => mintOwed.key < me.key) /\ (recOwed # None => recOwed.key < me.key)
      BY <1>2 DEF TurnOK
    <3>3. CASE call'[c].pc = "idle"
      BY <3>3 DEF MintOK
    <3>4. CASE call'[c].pc # "idle"
      <4>1. call'[c].key = me.key /\ call'[c].dec = "granted"
        BY <1>q, <3>4
      <4> QED
        BY <1>2, <1>3, <1>u, <1>a, <3>1, <3>2, <4>1 DEF MintOK
    <3> QED
      BY <3>3, <3>4
  <2>3. MintedOK(call[c])' /\ call'[c].pc # "turn" /\ (call'[c].pc \in Middle => call'[c].key = me.key)
    BY <1>q, IdleIsCall DEF MintedOK, Middle
  <2> QED
    BY <1>1, <1>2, <1>3, <1>u, <2>2, <2>3, OneMoves
<1>7. OwedInv'
  BY <1>1, TurnAlone, <1>3, <1>u DEF Base, OwedInv, Agrees
<1> QED
  BY <1>3, <1>4, <1>5, <1>6, <1>7 DEF Base

LEMMA FinishPlain ==
    ASSUME Base, NEW c \in Callers, FinishDecision(c)
    PROVE  /\ up /\ call[c].pc = "mark" /\ FilesUnchanged
           /\ marks' = IF call[c].minted /\ recOwed # None THEN marks \cup {call[c].key} ELSE marks
           /\ live' = live /\ epoch' = epoch /\ kind' = kind /\ mine' = mine
           /\ call' \in [Callers -> Call] /\ call'[c] = IdleCall /\ \A o \in Callers : o # c => call'[o] = call[o]
<1>0. up /\ TypeInv /\ call[c].pc = "mark"
  BY CallUp DEF FinishDecision, Base
<1>1. /\ FilesUnchanged /\ live' = live /\ epoch' = epoch /\ kind' = kind /\ mine' = mine
      /\ marks' = IF call[c].minted /\ recOwed # None THEN marks \cup {call[c].key} ELSE marks
      /\ call' = [call EXCEPT ![c] = IdleCall]
  BY DEF FinishDecision, FilesUnchanged, diskVars, owedVars, histVars, boundVars
<1>2. call' \in [Callers -> Call] /\ call'[c] = IdleCall /\ \A o \in Callers : o # c => call'[o] = call[o]
  BY <1>0, <1>1, CallStep, IdleIsCall
<1> QED
  BY <1>0, <1>1, <1>2

LEMMA FinishBase ==
    ASSUME Base, NEW c \in Callers, FinishDecision(c)
    PROVE  Base'
<1> DEFINE me == call[c]
<1>1. /\ up /\ me.pc = "mark" /\ FilesUnchanged
      /\ marks' = IF me.minted /\ recOwed # None THEN marks \cup {me.key} ELSE marks
      /\ live' = live /\ epoch' = epoch /\ kind' = kind /\ mine' = mine
      /\ call' \in [Callers -> Call] /\ call'[c] = IdleCall /\ \A o \in Callers : o # c => call'[o] = call[o]
  BY FinishPlain
<1>2. TypeInv /\ MintedOK(me) /\ me.key \in Nat /\ me.at \in Nat
  BY CallFields DEF Base, CallInv
<1>3. /\ OutboxTypes' /\ PassTypes' /\ StampInv' /\ KeptInv' /\ DownInv'
      /\ Onhand' = Onhand /\ Filed' = Filed /\ All' = All
  BY <1>1, <1>2, FilesUnchangedKeeps DEF TypeInv, OutboxTypes
<1>u. /\ recFile' = recFile /\ recOwed' = recOwed /\ mintOwed' = mintOwed /\ settled' = settled
      /\ wit' = wit /\ lastStamp' = lastStamp /\ up' = up /\ damage' = damage
  BY <1>1 DEF FilesUnchanged
<1>n. \A o \in Callers : call'[o].pc # "idle" => o # c /\ call'[o] = call[o]
  BY <1>1, IdleIsCall
<1>4. TypeInv'
  BY <1>1, <1>2, <1>3, <1>u DEF TypeInv, CoreTypes
<1>5. KnownInv'
  BY <1>1, <1>3, <1>u, <1>n DEF Base, KnownInv, Taken, Is
<1>6. CallInv'
  <2>1. ASSUME NEW o \in Callers PROVE TurnOK(call[o])' /\ MintOK(call[o])' /\ MintedOK(call[o])'
    <3>1. CASE call'[o].pc = "idle"
      BY <3>1 DEF TurnOK, MintOK, MintedOK
    <3>2. CASE call'[o].pc # "idle"
      BY <1>n, <3>2, <1>3, <1>u DEF Base, CallInv, Middle, TurnOK, MintOK, MintedOK, Agrees
    <3> QED
      BY <3>1, <3>2
  <2>2. \A x \in Callers : call'[x].pc = "turn" \/ call'[x].pc \in Middle => call'[x] = call[x]
    BY <1>n DEF Middle
  <2> QED
    BY <2>1, <2>2 DEF Base, CallInv
<1>7. OwedInv'
  <2>1. mintOwed # None => mintOwed.key = me.key /\ mintOwed.at = me.at
    BY <1>1, <1>2 DEF MintedOK, Owed
  <2>2. recOwed # None => recOwed.key = me.key /\ recOwed.at = me.at
    BY <1>1, <1>2 DEF MintedOK, Owed
  <2>3. recOwed # None /\ mintOwed # None => mintOwed = recOwed
    BY <1>1, <1>2 DEF MintedOK
  <2>4. Agrees(me.key, me.at) /\ (\A k \in wit : k <= me.key) /\ \A t \in All : t.key <= me.key /\ t.at <= me.at
    BY <1>1, <1>2 DEF MintedOK
  <2> QED
    BY <1>3, <1>u, <2>1, <2>2, <2>3, <2>4 DEF Base, OwedInv, Agrees
<1> QED
  BY <1>3, <1>4, <1>5, <1>6, <1>7 DEF Base

\* What Decide does; its key is new.
LEMMA DecidePlain ==
    ASSUME Base, NEW c \in Callers, NEW dec \in Kinds, Decide(c, dec)
    PROVE  LET n == Len(kind) + 1 IN
           /\ up /\ call[c].pc = "idle" /\ FilesUnchanged /\ marks' = marks
           /\ (live = "minor" => dec = "minor") /\ dec \in Decisions
           /\ live' = (IF dec = "granted" THEN live ELSE dec) /\ epoch' = (IF dec = "granted" THEN epoch ELSE epoch + 1)
           /\ n \in Nat /\ ~Taken(n) /\ (\A k : Taken(k) => k < n /\ k \in Nat)
           /\ kind' \in Seq(Kinds) /\ (\A k : Taken(k)' <=> Taken(k) \/ k = n)
           /\ (\A k : Taken(k) => kind'[k] = kind[k]) /\ kind'[n] = dec
           /\ mine' = mine \cup {n}
           /\ call' \in [Callers -> Call] /\ (\A o \in Callers : o # c => call'[o] = call[o])
           /\ call'[c].pc = "turn" /\ call'[c].dec = dec /\ call'[c].key = n /\ call'[c].snap = epoch
<1> DEFINE n == Len(kind) + 1
           q == [IdleCall EXCEPT !.pc = "turn", !.dec = dec, !.key = n, !.snap = epoch]
<1>0. TypeInv /\ kind \in Seq(Kinds) /\ Len(kind) \in Nat /\ epoch \in Nat /\ dec \in Decisions
  BY Names DEF Base, TypeInv, CoreTypes
<1>1. /\ up /\ call[c].pc = "idle" /\ FilesUnchanged /\ marks' = marks /\ (live = "minor" => dec = "minor")
      /\ live' = (IF dec = "granted" THEN live ELSE dec) /\ epoch' = (IF dec = "granted" THEN epoch ELSE epoch + 1)
      /\ kind' = Append(kind, dec) /\ mine' = mine \cup {n} /\ call' = [call EXCEPT ![c] = q]
  BY DEF Decide, FilesUnchanged, diskVars, outboxVars, owedVars, boundVars
<1>2. /\ n \in Nat /\ kind' \in Seq(Kinds) /\ Len(kind') = n /\ kind'[n] = dec
      /\ \A k \in 1..Len(kind) : kind'[k] = kind[k]
  BY <1>0, <1>1
<1>3. /\ ~Taken(n) /\ (\A k : Taken(k) => k < n /\ k \in Nat) /\ (\A k : Taken(k)' <=> Taken(k) \/ k = n)
      /\ \A k : Taken(k) => kind'[k] = kind[k]
  BY <1>0, <1>2 DEF Taken
<1>4. q \in Call
  BY <1>0, <1>2 DEF IdleCall, Call
<1>5. q.pc = "turn" /\ q.dec = dec /\ q.key = n /\ q.snap = epoch
  BY DEF IdleCall
<1> HIDE DEF q, n
<1>6. call' \in [Callers -> Call] /\ call'[c] = q /\ \A o \in Callers : o # c => call'[o] = call[o]
  BY <1>0, <1>1, <1>4, CallStep
<1> QED
  BY <1>0, <1>1, <1>2, <1>3, <1>5, <1>6 DEF n

LEMMA DecideBase ==
    ASSUME Base, NEW c \in Callers, NEW dec \in Kinds, Decide(c, dec)
    PROVE  Base'
<1> DEFINE n == Len(kind) + 1
<1>1. /\ up /\ call[c].pc = "idle" /\ FilesUnchanged /\ marks' = marks /\ dec \in Decisions
      /\ live' = (IF dec = "granted" THEN live ELSE dec) /\ epoch' = (IF dec = "granted" THEN epoch ELSE epoch + 1)
      /\ n \in Nat /\ ~Taken(n) /\ (\A k : Taken(k) => k < n /\ k \in Nat)
      /\ kind' \in Seq(Kinds) /\ (\A k : Taken(k)' <=> Taken(k) \/ k = n)
      /\ (\A k : Taken(k) => kind'[k] = kind[k]) /\ kind'[n] = dec
      /\ mine' = mine \cup {n}
      /\ call' \in [Callers -> Call] /\ (\A o \in Callers : o # c => call'[o] = call[o])
      /\ call'[c].pc = "turn" /\ call'[c].dec = dec /\ call'[c].key = n
  BY DecidePlain
<1> HIDE DEF n
<1>2. TypeInv
  BY DEF Base
<1>3. /\ OutboxTypes' /\ PassTypes' /\ StampInv' /\ KeptInv' /\ DownInv'
      /\ Onhand' = Onhand /\ Filed' = Filed /\ All' = All
  BY <1>1, <1>2, FilesUnchangedKeeps DEF TypeInv, OutboxTypes
<1>u. /\ recFile' = recFile /\ recOwed' = recOwed /\ mintOwed' = mintOwed /\ settled' = settled
      /\ wit' = wit /\ lastStamp' = lastStamp /\ up' = up /\ damage' = damage
  BY <1>1 DEF FilesUnchanged
<1>4. TypeInv'
  BY <1>1, <1>2, <1>3, <1>u DEF TypeInv, CoreTypes, Decisions
<1>i. \A k, e : Is(k, e) => Taken(k) /\ kind'[k] = e /\ Taken(k)'
  BY <1>1 DEF Is
<1>5. KnownInv'
  <2>1. \A k \in wit' \cup mine' \cup settled' : Taken(k)'
    BY <1>1, <1>u DEF Base, KnownInv
  <2>2. \A t \in All' : Is(t.key, t.dec)'
    BY <1>i, <1>3 DEF Base, KnownInv, Is
  <2>3. /\ \A t \in Onhand' : t.key \in wit' \cup mine'
        /\ \A t \in Filed' : t.key \in wit'
    BY <1>1, <1>3, <1>u DEF Base, KnownInv
  <2>4. recFile'.st = "ok" => recFile'.key \in wit' /\ Is(recFile.key, recFile.dec)'
    BY <1>i, <1>u DEF Base, KnownInv, Is
  <2>5. recOwed' # None => recOwed'.key \in wit' \cup mine' /\ Is(recOwed.key, recOwed.dec)'
    BY <1>1, <1>i, <1>u DEF Base, KnownInv, Is
  <2>6. mintOwed' # None => mintOwed'.key \in mine' /\ Is(mintOwed.key, mintOwed.dec)'
    BY <1>1, <1>i, <1>u DEF Base, KnownInv, Is
  <2>7. ASSUME NEW o \in Callers, call'[o].pc # "idle" PROVE call'[o].key \in mine' /\ Is(call[o].key, call[o].dec)'
    BY <1>1, <1>i, <2>7 DEF Is, Base, KnownInv
  <2> QED
    BY <2>1, <2>2, <2>3, <2>4, <2>5, <2>6, <2>7 DEF KnownInv
<1>6. CallInv'
  <2>m. \A x \in Callers : call'[x].pc \in Middle => x # c /\ call'[x] = call[x] /\ call[x].key < n
    BY <1>1 DEF Middle, Base, KnownInv, Is
  <2>1. ASSUME NEW o \in Callers, o # c PROVE TurnOK(call[o])' /\ MintOK(call[o])' /\ MintedOK(call[o])'
    BY <1>1, <2>1, <1>3, <1>u, <2>m DEF Base, CallInv, TurnOK, MintOK, MintedOK, Agrees
  <2>2. TurnOK(call[c])'
    BY <1>1, <1>3, <1>u, <2>m DEF Base, KnownInv, Is, TurnOK
  <2>3. MintOK(call[c])' /\ MintedOK(call[c])'
    BY <1>1 DEF MintOK, MintedOK
  <2>4. \A x, o \in Callers : x # o /\ call'[x].pc = "turn" /\ call'[o].pc = "turn" => call'[x].key # call'[o].key
    BY <1>1 DEF Base, KnownInv, Is, CallInv
  <2>5. \A x, o \in Callers : call'[x].pc \in Middle /\ call'[o].pc \in Middle => x = o
    BY <2>m DEF Base, CallInv
  <2> QED
    BY <2>1, <2>2, <2>3, <2>4, <2>5 DEF CallInv
<1>7. OwedInv'
  <2>1. Deciding => Deciding'
    BY <1>1 DEF Deciding
  <2> QED
    BY <1>3, <1>u, <2>1 DEF Base, OwedInv, Agrees
<1> QED
  BY <1>3, <1>4, <1>5, <1>6, <1>7 DEF Base

-----------------------------------------------------------------------------
(* Crash, damage and restart.                                              *)

LEMMA AllIdle ==
    ASSUME call = [c \in Callers |-> IdleCall], pass = [d \in Dispatchers |-> IdlePass]
    PROVE  /\ call \in [Callers -> Call] /\ \A c \in Callers : call[c].pc = "idle"
           /\ pass \in [Dispatchers -> Pass] /\ \A d \in Dispatchers : pass[d].pc = "idle" /\ ~InHand(d)
BY IdleIsCall DEF IdlePass, Pass, InHand

LEMMA CrashBase ==
    ASSUME Base, Crash
    PROVE  Base'
<1>1. /\ up' = FALSE /\ live' = "undecided" /\ epoch' = 0 /\ lastStamp' = 0
      /\ trail' = <<>> /\ dirty' = FALSE /\ marks' = {} /\ settled' = {}
      /\ unusable' = FALSE /\ unprovable' = FALSE /\ preserve' = FALSE
      /\ recOwed' = None /\ mintOwed' = None /\ claim' = None /\ mine' = {}
      /\ UNCHANGED <<recFile, outFile, server, refused, answered, kind, wit, damage>>
  BY DEF Crash, diskVars
<1>2. /\ call' \in [Callers -> Call] /\ \A c \in Callers : call'[c].pc = "idle"
      /\ pass' \in [Dispatchers -> Pass] /\ \A d \in Dispatchers : pass'[d].pc = "idle" /\ ~InHand(d)'
  BY IdleIsCall DEF Crash, IdlePass, Pass, InHand
<1>3. Onhand' = {} /\ Filed' = Filed /\ All' = Filed
  BY <1>1, EmptyTrail DEF Onhand, Filed, All
<1>4. TypeInv'
  BY <1>1, <1>2, EmptyTrail DEF Base, TypeInv, OutboxTypes, CoreTypes, PassTypes
<1>5. KnownInv'
  BY <1>1, <1>2, <1>3 DEF Base, KnownInv, Taken, Is, All
<1>6. CallInv'
  BY <1>2 DEF CallInv, TurnOK, MintOK, MintedOK, Middle
<1>7. OwedInv'
  BY <1>1 DEF OwedInv
<1>8. StampInv'
  BY <1>1, <1>3 DEF Base, StampInv, All
<1>9. KeptInv'
  BY <1>1, <1>3, EmptyTrail DEF Base, KeptInv, TrailOrdered, Ordered
<1>10. DownInv'
  BY <1>1, <1>2 DEF DownInv
<1> QED
  BY <1>4, <1>5, <1>6, <1>7, <1>8, <1>9, <1>10 DEF Base

LEMMA DamagePlain ==
    ASSUME Base, DamageFile
    PROVE  Damages
<1>0. OutboxTypes /\ outFile.rs \in Seq(Rcpt) /\ Ordered(outFile.rs)
  BY AllTypes DEF Base, TypeInv, KeptInv, TrailOrdered
<1>1. /\ ~up /\ damage' = damage + 1
      /\ UNCHANGED <<up, live, epoch, lastStamp, outboxVars, recOwed, mintOwed, call, passVars, kind, mine, wit>>
  BY DEF DamageFile, owedVars, histVars
<1>2. CASE recFile' = [AbsentRecord EXCEPT !.st = "bad"] /\ outFile' = outFile
  BY <1>0, <1>2, <1>1 DEF Filed, OutboxTypes, Damages
<1>3. CASE recFile' = recFile /\ \E rs \in {<<>>} \cup {Without(outFile.rs, {k}) : k \in Keys(outFile.rs)} :
                                    outFile' = [st |-> "bad", rs |-> rs]
  <2>1. PICK rs \in {<<>>} \cup {Without(outFile.rs, {k}) : k \in Keys(outFile.rs)} : outFile' = [st |-> "bad", rs |-> rs]
    BY <1>3
  <2>2. rs \in Seq(Rcpt) /\ Ordered(rs) /\ Receipts(rs) \subseteq Filed
    <3>1. CASE rs = <<>>
      BY <3>1, EmptyTrail
    <3>2. CASE rs # <<>>
      <4>1. PICK k \in Keys(outFile.rs) : rs = Without(outFile.rs, {k})
        BY <2>1, <3>2
      <4> QED
        BY <1>0, <4>1, WithoutKeeps DEF Filed
    <3> QED
      BY <3>1, <3>2
  <2>3. /\ outFile'.rs = rs /\ outFile'.st = "bad" /\ Filed' = Receipts(rs)
        /\ outFile' \in [st : {"absent", "ok", "bad"}, rs : Seq(Rcpt)]
    BY <2>1, <2>2 DEF Filed
  <2> QED
    BY <1>1, <1>3, <2>2, <2>3 DEF Damages
<1> QED
  BY <1>2, <1>3 DEF DamageFile

LEMMA DamageBase ==
    ASSUME Base, DamageFile
    PROVE  Base'
<1>1. Damages
  BY DamagePlain
<1>u. /\ ~up /\ up' = up /\ trail' = trail /\ settled' = settled /\ dirty' = dirty /\ recOwed' = recOwed
      /\ mintOwed' = mintOwed /\ call' = call /\ pass' = pass /\ kind' = kind /\ mine' = mine /\ wit' = wit
      /\ recFile' = recFile \/ recFile' = [AbsentRecord EXCEPT !.st = "bad"]
  BY <1>1 DEF Damages, outboxVars, passVars
<1>2. TypeInv'
  <2>1. OutboxTypes'
    BY <1>1 DEF Base, TypeInv, OutboxTypes, Damages, outboxVars
  <2>2. PassTypes'
    BY <1>1 DEF Base, TypeInv, PassTypes, Damages, passVars, InHand
  <2>3. [AbsentRecord EXCEPT !.st = "bad"] \in Rec
    BY DEF AbsentRecord, Rec, Decisions
  <2>4. CoreTypes'
    BY <1>1, <2>3, SMTT(30) DEF Base, TypeInv, CoreTypes, Damages
  <2> QED
    BY <2>1, <2>2, <2>4 DEF TypeInv
<1>3. Onhand = {} /\ Onhand' = {} /\ Filed' \subseteq Filed /\ All' \subseteq All
  BY <1>1, <1>u, EmptyTrail DEF Base, DownInv, Onhand, All, Damages
<1>b. [AbsentRecord EXCEPT !.st = "bad"].st # "ok"
  BY DEF AbsentRecord
<1>d. trail = <<>> /\ (\A c \in Callers : call[c].pc = "idle") /\ mintOwed = None /\ recOwed = None
  BY <1>u DEF Base, DownInv
<1>4. KnownInv'
  BY <1>u, <1>3, <1>b, <1>d DEF Base, KnownInv, Taken, Is
<1>5. CallInv'
  BY <1>u, <1>d DEF CallInv, TurnOK, MintOK, MintedOK, Middle
<1>6. OwedInv'
  BY <1>u, <1>d DEF OwedInv
<1>7. StampInv'
  BY <1>u, <1>3, <1>b DEF Base, StampInv
<1>8. KeptInv'
  BY <1>1, <1>u, <1>d, EmptyTrail, <1>3 DEF Damages, KeptInv, TrailOrdered, Ordered
<1>9. DownInv'
  BY <1>u DEF Base, DownInv
<1> QED
  BY <1>2, <1>4, <1>5, <1>6, <1>7, <1>8, <1>9 DEF Base

\* The latest stamp of a trail, or a later one.
LEMMA SeqMaxIs ==
    ASSUME NEW n \in Nat, NEW s \in Seq(Rcpt), Ordered(s)
    PROVE  /\ SeqMax(n, s) \in Nat /\ SeqMax(n, s) >= n
           /\ \A r \in Receipts(s) : r.at <= SeqMax(n, s)
           /\ SeqMax(n, s) = n \/ \E r \in Receipts(s) : r.at = SeqMax(n, s)
<1> DEFINE ns == {n} \cup {s[i].at : i \in 1..Len(s)}
<1>1. \A i \in 1..Len(s) : s[i] \in Rcpt /\ s[i].at \in Nat /\ s[i] \in Receipts(s)
  BY RcptFields DEF Receipts
<1>2. \E m \in ns : \A k \in ns : k <= m
  <2>1. CASE s = <<>>
    BY <2>1
  <2>2. CASE s # <<>>
    <3>1. Last(s) \in Receipts(s) /\ Last(s) \in Rcpt /\ \A r \in Receipts(s) : r.at <= Last(s).at
      BY <2>2, LastIsNewest
    <3>2. Last(s).at \in ns /\ Last(s).at \in Nat
      BY <3>1 DEF Receipts, Rcpt
    <3>3. CASE Last(s).at <= n
      BY <1>1, <3>1, <3>2, <3>3, SMTT(30)
    <3>4. CASE n <= Last(s).at
      BY <1>1, <3>1, <3>2, <3>4
    <3> QED
      BY <3>2, <3>3, <3>4
  <2> QED
    BY <2>1, <2>2
<1>3. SeqMax(n, s) \in ns /\ \A k \in ns : k <= SeqMax(n, s)
  BY <1>2 DEF SeqMax
<1>4. \A r \in Receipts(s) : r.at \in ns
  BY DEF Receipts
<1>5. SeqMax(n, s) \in Nat
  BY <1>1, <1>3
<1>6. SeqMax(n, s) = n \/ \E r \in Receipts(s) : r.at = SeqMax(n, s)
  BY <1>1, <1>3
<1> QED
  BY <1>3, <1>4, <1>5, <1>6

\* What the two files resolve to.
LEMMA ResolvedIs ==
    ASSUME Base
    PROVE  LET heals == TailHeals(recFile, outFile)
               rec == Resolved(recFile, outFile) IN
           /\ rec \in Rec
           /\ heals => /\ outFile.rs # <<>> /\ Last(outFile.rs) \in Filed /\ Last(outFile.rs) \in Rcpt
                       /\ rec = Record(Last(outFile.rs).dec, Last(outFile.rs).at, Last(outFile.rs).key)
                       /\ rec.st = "ok" /\ rec.dec = Last(outFile.rs).dec /\ rec.at = Last(outFile.rs).at
                       /\ rec.key = Last(outFile.rs).key /\ rec.unw = FALSE
                       /\ \A r \in Filed : r.key <= rec.key /\ r.at <= rec.at
           /\ ~heals => rec = recFile
<1>0. TypeInv /\ outFile.rs \in Seq(Rcpt) /\ Ordered(outFile.rs) /\ recFile \in Rec
  BY AllTypes DEF Base, TypeInv, KeptInv, TrailOrdered, CoreTypes
<1>1. CASE TailHeals(recFile, outFile)
  <2> DEFINE t == Last(outFile.rs)
  <2>1. outFile.rs # <<>>
    BY <1>1 DEF TailHeals
  <2>2. t \in Filed /\ t \in Rcpt /\ \A r \in Filed : r.key <= t.key /\ r.at <= t.at
    BY <1>0, <2>1, LastIsNewest DEF Filed
  <2>3. t.key \in Nat /\ t.at \in Nat /\ t.dec \in Decisions
    BY <2>2, RcptFields, Names
  <2>4. Resolved(recFile, outFile) = Record(t.dec, t.at, t.key)
    BY <1>1 DEF Resolved
  <2> HIDE DEF t
  <2>5. LET q == Record(t.dec, t.at, t.key) IN
        q \in Rec /\ q.st = "ok" /\ q.dec = t.dec /\ q.at = t.at /\ q.key = t.key /\ q.unw = FALSE
    BY <2>3 DEF Record, Rec
  <2> QED
    BY <1>1, <2>1, <2>2, <2>4, <2>5 DEF t
<1>2. CASE ~TailHeals(recFile, outFile)
  BY <1>0, <1>2 DEF Resolved
<1> QED
  BY <1>1, <1>2

LEMMA RestartPlain ==
    ASSUME Base, NEW healed \in BOOLEAN, NEW marked \in BOOLEAN, NEW wiped \in BOOLEAN,
           Restart(healed, marked, wiped)
    PROVE  /\ Restarts(Resolved(recFile, outFile)) /\ marks' \in SUBSET Nat
           /\ preserve' \in BOOLEAN /\ unusable' \in BOOLEAN /\ unprovable' \in BOOLEAN
<1> DEFINE heals == TailHeals(recFile, outFile)
           rec == Resolved(recFile, outFile)
           unpr == GrantsUnprovable(recFile, outFile)
           at == IF outFile.rs = <<>> THEN rec.at ELSE SeqMax(0, outFile.rs)
           mn == unpr /\ rec.st = "ok" /\ MarkSupersededBy(rec, at)
<1>0. TypeInv /\ outFile.rs \in Seq(Rcpt) /\ Ordered(outFile.rs) /\ recFile \in Rec /\ recFile.at \in Nat
  BY AllTypes, RecFields DEF Base, TypeInv, KeptInv, TrailOrdered, CoreTypes
<1>1. /\ ~up /\ up' = TRUE
      /\ recFile' = CASE mn /\ marked -> Unwitnessed(rec, at)
                      [] heals /\ healed /\ ~(mn /\ marked) -> rec
                      [] OTHER -> recFile
      /\ wit' = IF recFile' = recFile THEN wit ELSE wit \cup {rec.key}
      /\ recOwed' = IF heals /\ ~healed THEN Owed(rec.dec, rec.at, rec.key) ELSE None
      /\ live' = RestoredState(recFile, outFile)
      /\ lastStamp' = SeqMax(recFile.at, outFile.rs)
      /\ trail' = outFile.rs
      /\ unusable' = (outFile.st = "bad") /\ unprovable' = unpr
      /\ preserve' = (unpr /\ (rec.st # "ok" \/ (mn /\ ~marked)))
      /\ UNCHANGED <<outFile, epoch, dirty, settled, mintOwed, call, passVars, kind, mine, damage>>
  BY DEF Restart, histVars, boundVars
<1>m. marks' = IF heals /\ ~healed
                 THEN {outFile.rs[i].key : i \in {j \in 1..Len(outFile.rs) :
                         recFile.st # "ok" \/ outFile.rs[j].at > recFile.at}}
                 ELSE {}
  BY DEF Restart
<1>2. marks' \in SUBSET Nat
  BY <1>0, RcptFields, <1>m
<1>3. /\ rec \in Rec
      /\ heals => /\ outFile.rs # <<>> /\ Last(outFile.rs) \in Filed /\ Last(outFile.rs) \in Rcpt
                  /\ rec.st = "ok" /\ rec.dec = Last(outFile.rs).dec /\ rec.at = Last(outFile.rs).at
                  /\ rec.key = Last(outFile.rs).key
      /\ ~heals => rec = recFile
  BY ResolvedIs
<1>d. trail = <<>> /\ Onhand = {} /\ All = Filed
  BY <1>1, EmptyTrail DEF Base, DownInv, Onhand, All
<1>4. Onhand' = Filed /\ Filed' = Filed /\ All' = Filed
  BY <1>1 DEF Onhand, Filed, All
<1> HIDE DEF rec
<1>5. /\ lastStamp' \in Nat /\ recFile.at <= lastStamp' /\ \A r \in Filed : r.at <= lastStamp'
  BY <1>0, <1>1, SeqMaxIs DEF Filed
<1>6. rec.at <= lastStamp' /\ rec.at \in Nat
  BY <1>3, <1>5 DEF Rec
<1>7. at \in Nat /\ at <= lastStamp' /\ \A r \in Filed : r.at <= at
  <2>1. CASE outFile.rs = <<>>
    BY <1>6, <2>1, EmptyTrail DEF Filed
  <2>2. CASE outFile.rs # <<>>
    <3>1. /\ SeqMax(0, outFile.rs) \in Nat /\ \A r \in Filed : r.at <= SeqMax(0, outFile.rs)
          /\ SeqMax(0, outFile.rs) = 0 \/ \E r \in Filed : r.at = SeqMax(0, outFile.rs)
      BY <1>0, SeqMaxIs DEF Filed
    <3> QED
      BY <1>5, <2>2, <3>1
  <2> QED
    BY <2>1, <2>2
<1>8. heals /\ recFile.st = "ok" => rec.at > recFile.at
  BY <1>3 DEF TailHeals
<1>9. heals => Owed(rec.dec, rec.at, rec.key) \in Rcpt
  BY <1>3 DEF Owed, Rcpt
<1> HIDE DEF heals, unpr, at
<1>10. \/ recFile' = recFile
       \/ recFile' = rec /\ heals
       \/ mn /\ recFile' = Unwitnessed(rec, at)
  BY <1>1
<1>11. mn => rec.st = "ok" /\ (rec.unw => at > rec.unwAt)
  BY DEF MarkSupersededBy
<1>12. rec.st = "ok" => rec.key \in wit
  BY <1>3 DEF Base, KnownInv
<1>13. wit' = wit
  BY <1>1, <1>3, <1>10, <1>11, <1>12
<1>14. \/ recFile' = recFile
       \/ recFile' = rec /\ heals
       \/ \E a \in Nat :
             /\ recFile' = Unwitnessed(rec, a) /\ rec.st = "ok" /\ (rec.unw => a > rec.unwAt)
             /\ \A r \in Filed : r.at <= a
             /\ a <= lastStamp'
  BY <1>7, <1>10, <1>11
<1>15. \/ recOwed' = None /\ marks' = {}
       \/ /\ heals /\ recOwed' = Owed(rec.dec, rec.at, rec.key) /\ recOwed' \in Rcpt
          /\ recFile.st = "ok" => rec.at > recFile.at
  BY <1>1, <1>m, <1>8, <1>9
<1>16. preserve' \in BOOLEAN /\ unusable' \in BOOLEAN /\ unprovable' \in BOOLEAN
  BY <1>1 DEF unpr, GrantsUnprovable
<1>17. Restarts(rec)
  BY <1>1, <1>4, <1>5, <1>6, <1>13, <1>14, <1>15, <1>d DEF Restarts, heals, unpr
<1> QED
  BY <1>2, <1>16, <1>17 DEF rec

LEMMA UnwitnessedIs ==
    ASSUME NEW rec \in Rec, NEW at \in Nat
    PROVE  LET q == Unwitnessed(rec, at) IN
           /\ q \in Rec /\ q.st = rec.st /\ q.dec = rec.dec /\ q.key = rec.key
           /\ q.unw = TRUE /\ q.unwAt = at /\ q.at \in {rec.at, at} /\ q.at >= rec.at
           /\ rec.dec # "granted" => q.at = rec.at
<1> DEFINE a == IF rec.dec = "granted" /\ at > rec.at THEN at ELSE rec.at
           q == [rec EXCEPT !.unw = TRUE, !.unwAt = at, !.at = a]
<1>1. Unwitnessed(rec, at) = q
  BY DEF Unwitnessed
<1>2. rec.at \in Nat
  BY DEF Rec
<1>3. a \in Nat /\ a \in {rec.at, at} /\ a >= rec.at /\ (rec.dec # "granted" => a = rec.at)
  BY <1>2
<1> HIDE DEF a
<1>4. /\ q \in Rec /\ q.st = rec.st /\ q.dec = rec.dec /\ q.key = rec.key
      /\ q.unw = TRUE /\ q.unwAt = at /\ q.at = a
  BY <1>3 DEF Rec
<1> QED
  BY <1>1, <1>3, <1>4

LEMMA RestartBase ==
    ASSUME Base, NEW healed \in BOOLEAN, NEW marked \in BOOLEAN, NEW wiped \in BOOLEAN,
           Restart(healed, marked, wiped)
    PROVE  Base'
<1> DEFINE rec == Resolved(recFile, outFile)
<1>0. /\ TypeInv /\ rec \in Rec
      /\ TailHeals(recFile, outFile) =>
            /\ Last(outFile.rs) \in Filed /\ rec.st = "ok" /\ rec.dec = Last(outFile.rs).dec
            /\ rec.at = Last(outFile.rs).at /\ rec.key = Last(outFile.rs).key
            /\ \A r \in Filed : r.key <= rec.key /\ r.at <= rec.at
      /\ ~TailHeals(recFile, outFile) => rec = recFile
  BY ResolvedIs DEF Base
<1>1. Restarts(rec) /\ marks' \in SUBSET Nat /\ preserve' \in BOOLEAN /\ unusable' \in BOOLEAN /\ unprovable' \in BOOLEAN
  BY RestartPlain
<1> HIDE DEF rec
<1>2. /\ ~up /\ up' = TRUE
      /\ Onhand = {} /\ All = Filed /\ Onhand' = Filed /\ Filed' = Filed /\ All' = Filed
      /\ trail' = outFile.rs /\ lastStamp' \in Nat
      /\ recFile.at <= lastStamp' /\ rec.at <= lastStamp' /\ \A r \in Filed : r.at <= lastStamp'
      /\ wit' = wit
      /\ UNCHANGED <<outFile, epoch, dirty, settled, mintOwed, call, passVars, kind, mine, damage>>
  BY <1>1 DEF Restarts
<1>3. \/ recFile' = recFile
      \/ recFile' = rec /\ TailHeals(recFile, outFile)
      \/ \E at \in Nat : /\ recFile' = Unwitnessed(rec, at) /\ rec.st = "ok"
                         /\ (\A r \in Filed : r.at <= at) /\ at <= lastStamp'
  BY <1>1 DEF Restarts
<1>4. recOwed' # None => /\ TailHeals(recFile, outFile) /\ recOwed' = Owed(rec.dec, rec.at, rec.key)
                         /\ recOwed' \in Rcpt
  BY <1>1 DEF Restarts
<1>d. /\ settled = {} /\ dirty = FALSE /\ mintOwed = None
      /\ \A c \in Callers : call[c].pc = "idle"
  BY <1>0, <1>2 DEF Base, DownInv, TypeInv, OutboxTypes
<1>k. rec.st = "ok" => rec.key \in wit /\ Is(rec.key, rec.dec)
  BY <1>0 DEF Base, KnownInv, All
<1>s. rec.st = "ok" => \A r \in Filed :
          /\ r.key > rec.key => r.at > rec.at \/ (rec.unw /\ r.at <= rec.unwAt)
          /\ r.key <= rec.key => r.at <= rec.at
  <2>1. CASE TailHeals(recFile, outFile)
    BY <1>0, AllTypes, <2>1 DEF TypeInv, All, Rec
  <2>2. CASE ~TailHeals(recFile, outFile)
    BY <1>0, <1>2, <2>2 DEF Base, StampInv
  <2> QED
    BY <2>1, <2>2
<1>5. /\ recFile' \in Rec /\ recFile'.at <= lastStamp'
      /\ recFile'.st = "ok" => recFile'.key \in wit /\ Is(recFile'.key, recFile'.dec)
      /\ recFile'.st = "ok" => \A r \in Filed :
          /\ r.key > recFile'.key => r.at > recFile'.at \/ (recFile'.unw /\ r.at <= recFile'.unwAt)
          /\ r.key <= recFile'.key => r.at <= recFile'.at
  <2>1. CASE recFile' = recFile
    BY <1>0, <1>2, <2>1 DEF Base, KnownInv, StampInv, TypeInv, CoreTypes
  <2>2. CASE recFile' = rec /\ TailHeals(recFile, outFile)
    BY <1>0, <1>2, <1>k, <1>s, <2>2
  <2>3. ASSUME NEW at \in Nat, recFile' = Unwitnessed(rec, at), rec.st = "ok", \A r \in Filed : r.at <= at, at <= lastStamp'
        PROVE  /\ recFile' \in Rec /\ recFile'.at <= lastStamp'
               /\ recFile'.key \in wit /\ Is(recFile'.key, recFile'.dec)
               /\ \A r \in Filed :
                   /\ r.key > recFile'.key => r.at > recFile'.at \/ (recFile'.unw /\ r.at <= recFile'.unwAt)
                   /\ r.key <= recFile'.key => r.at <= recFile'.at
    <3>1. /\ recFile' \in Rec /\ recFile'.dec = rec.dec /\ recFile'.key = rec.key
          /\ recFile'.unw = TRUE /\ recFile'.unwAt = at /\ recFile'.at \in {rec.at, at} /\ recFile'.at >= rec.at
      BY <1>0, <2>3, UnwitnessedIs
    <3>2. recFile'.at <= lastStamp' /\ recFile'.key \in wit /\ Is(recFile'.key, recFile'.dec)
      BY <1>2, <1>k, <2>3, <3>1
    <3>3. \A r \in Filed : r.at \in Nat
      BY <1>0, AllTypes DEF TypeInv, All
    <3>4. rec.at \in Nat /\ recFile'.at \in Nat
      BY <1>0, <3>1 DEF Rec
    <3> QED
      BY <1>s, <2>3, <3>1, <3>2, <3>3, <3>4
  <2> QED
    BY <1>3, <2>1, <2>2, <2>3
<1>6. recOwed' # None => /\ recOwed'.key = rec.key /\ recOwed'.dec = rec.dec /\ recOwed'.at = rec.at
                         /\ rec.st = "ok" /\ \A r \in Filed : r.key <= rec.key /\ r.at <= rec.at
  BY <1>0, <1>4 DEF Owed
<1>7. TypeInv'
  <2>1. OutboxTypes'
    BY <1>0, <1>1, <1>2 DEF TypeInv, OutboxTypes
  <2>2. PassTypes'
    BY <1>0, <1>2 DEF TypeInv, PassTypes, passVars, InHand
  <2>3. live' \in Decisions \cup {"undecided"}
    BY <1>1, <1>0 DEF Restarts, RestoredState, rec, Rec
  <2>4. recOwed' \in Rcpt \cup {None}
    BY <1>4
  <2>5. CoreTypes'
    BY <1>0, <1>2, <1>5, <2>3, <2>4 DEF TypeInv, CoreTypes
  <2> QED
    BY <2>1, <2>2, <2>5 DEF TypeInv
<1>8. KnownInv'
  <2>1. \A k \in wit' \cup mine' \cup settled' : Taken(k)'
    BY <1>2 DEF Base, KnownInv, Taken
  <2>2. \A t \in All' : Is(t.key, t.dec)'
    BY <1>2 DEF Base, KnownInv, Taken, Is
  <2>3. /\ \A t \in Onhand' : t.key \in wit' \cup mine'
        /\ \A t \in Filed' : t.key \in wit'
    BY <1>2 DEF Base, KnownInv
  <2>4. recFile'.st = "ok" => recFile'.key \in wit' /\ Is(recFile.key, recFile.dec)'
    BY <1>2, <1>5 DEF Taken, Is
  <2>5. recOwed' # None => recOwed'.key \in wit' \cup mine' /\ Is(recOwed.key, recOwed.dec)'
    BY <1>2, <1>6, <1>k DEF Taken, Is
  <2> QED
    BY <1>2, <1>d, <2>1, <2>2, <2>3, <2>4, <2>5 DEF KnownInv
<1>9. CallInv'
  BY <1>2, <1>d DEF CallInv, TurnOK, MintOK, MintedOK, Middle
<1>10. OwedInv'
  BY <1>2, <1>d, <1>6 DEF OwedInv
<1>11. StampInv'
  BY <1>2, <1>5 DEF StampInv
<1>12. KeptInv'
  BY <1>2, <1>d DEF Base, KeptInv, TrailOrdered, Ordered
<1>13. DownInv'
  BY <1>2 DEF DownInv
<1> QED
  BY <1>7, <1>8, <1>9, <1>10, <1>11, <1>12, <1>13 DEF Base

LEMMA InitBase == Init => Base
<1> SUFFICES ASSUME Init PROVE Base
  OBVIOUS
<1>1. AbsentRecord \in Rec /\ AbsentRecord.st # "ok" /\ AbsentRecord.at = 0 /\ AbsentTrail.rs = <<>>
      /\ AbsentTrail \in [st : {"absent", "ok", "bad"}, rs : Seq(Rcpt)]
  BY EmptyTrail DEF AbsentRecord, AbsentTrail, Rec, Decisions
<1>2. Onhand = {} /\ Filed = {} /\ All = {}
  BY <1>1, EmptyTrail DEF Init, Onhand, Filed, All
<1>3. /\ call \in [Callers -> Call] /\ \A c \in Callers : call[c].pc = "idle"
      /\ pass \in [Dispatchers -> Pass] /\ \A d \in Dispatchers : pass[d].pc = "idle" /\ ~InHand(d)
  BY AllIdle DEF Init
<1>4. TypeInv
  <2>1. kind = <<>> /\ <<>> \in Seq(Kinds)
    BY DEF Init
  <2> QED
    BY <1>1, <1>3, <2>1, EmptyTrail DEF Init, TypeInv, OutboxTypes, CoreTypes, PassTypes, Decisions
<1>5. KnownInv
  BY <1>1, <1>2, <1>3 DEF Init, KnownInv
<1>6. CallInv
  BY <1>3 DEF CallInv, TurnOK, MintOK, MintedOK, Middle
<1>7. OwedInv
  BY DEF Init, OwedInv
<1>8. StampInv
  BY <1>1, <1>2 DEF Init, StampInv
<1>9. KeptInv
  BY <1>1, <1>2, EmptyTrail DEF Init, KeptInv, TrailOrdered
<1>10. DownInv
  BY DEF Init, DownInv
<1> QED
  BY <1>4, <1>5, <1>6, <1>7, <1>8, <1>9, <1>10 DEF Base

LEMMA NextBase == Base /\ [Next]_vars => Base'
<1> SUFFICES ASSUME Base, [Next]_vars PROVE Base'
  OBVIOUS
<1>1. CASE UNCHANGED vars
  <2>1. CoreUnchanged /\ pass' = pass /\ claim' = claim /\ server' = server /\ refused' = refused /\ answered' = answered
    BY <1>1 DEF vars, CoreUnchanged, diskVars, outboxVars, owedVars, passVars, histVars, boundVars
  <2>2. PassTypes'
    BY <2>1 DEF Base, TypeInv, PassTypes, InHand
  <2>3. CASE up
    BY <2>1, <2>2, <2>3, PassOnlyBase
  <2>4. CASE ~up
    <3>1. TypeInv'
      BY <2>1, <2>2 DEF Base, TypeInv, CoreUnchanged, OutboxTypes, CoreTypes
    <3>2. Onhand' = Onhand /\ Filed' = Filed /\ All' = All
      BY <2>1 DEF CoreUnchanged, Onhand, Filed, All
    <3>3. KnownInv' /\ StampInv'
      BY <2>1, <3>2 DEF Base, KnownInv, StampInv, CoreUnchanged, Taken, Is
    <3>4. CallInv' /\ OwedInv'
      BY <2>1, <3>2 DEF Base, CallInv, OwedInv, CoreUnchanged, TurnOK, MintOK, MintedOK, Agrees, Deciding
    <3>5. KeptInv' /\ DownInv'
      BY <2>1, <3>2 DEF Base, KeptInv, DownInv, CoreUnchanged, TrailOrdered, Ordered
    <3> QED
      BY <3>1, <3>3, <3>4, <3>5 DEF Base
  <2> QED
    BY <2>3, <2>4
<1>2. ASSUME NEW c \in Callers, DecisionStep(c) PROVE Base'
  BY <1>2, BeginGrantBase, BeginDenialBase, MintBase, GrantRecordBase, FinishBase DEF DecisionStep
<1>3. ASSUME NEW c \in Callers, NEW dec \in Kinds, Decide(c, dec) PROVE Base'
  BY <1>3, DecideBase
<1>4. ASSUME NEW d \in Dispatchers, PassStep(d) PROVE Base'
  <2>1. CASE QuietPass(d)
    BY <2>1, QuietPassBase
  <2>2. CASE RetryMint(d)
    BY <2>2, RetryMintBase
  <2>3. CASE RetryPersist(d)
    BY <2>3, RetryPersistShrinks, ShrinkBase
  <2>4. CASE RetryRecord(d)
    BY <2>4, RetryRecordBase
  <2>5. CASE ReceiptSettled(d)
    BY <2>5, ReceiptSettledShrinks, ShrinkBase
  <2> QED
    BY <1>4, <2>1, <2>2, <2>3, <2>4, <2>5 DEF PassStep, QuietPass
<1> QED
  BY <1>1, <1>2, <1>3, <1>4, DeferralBase, CrashBase, DamageBase, RestartBase DEF Next

\* The receipt trail keeps decision order, with strictly growing stamps, on
\* disk and in memory, over any interleaving of decisions and dispatch passes,
\* any failed write, eviction, crash, damaged file and restart: what the
\* restart's reader demands (saveLocked, append, prune, consentDecisionStamp,
\* seedConsentStamp).
THEOREM TrailStaysOrdered == Spec => []TrailOrdered
<1>1. Base => TrailOrdered
  BY DEF Base, KeptInv
<1> QED
  BY InitBase, NextBase, <1>1, PTL DEF Spec

-----------------------------------------------------------------------------
(* What most steps keep.                                                   *)

LEMMA HandKeeps ==
    ASSUME HandInv, HandKept, HistoryKept, CoverKept
    PROVE  HandInv'
<1> SUFFICES ASSUME NEW d \in Dispatchers, InHand(d)'
             PROVE  /\ Is(pass[d].r.key, pass[d].r.dec)'
                    /\ Granted(pass[d].r)' => pass'[d].r.key \in wit'
                    /\ ~Granted(pass[d].r)' /\ Top(pass[d].r.key)' => pass'[d].r.key \in wit' /\ Covered(pass[d].r.key)'
  BY DEF HandInv
<1> DEFINE r == pass[d].r
<1>1. InHand(d) /\ pass'[d].r = r
  BY DEF HandKept
<1>2. /\ Is(r.key, r.dec) /\ (Granted(r) => r.key \in wit)
      /\ ~Granted(r) /\ Top(r.key) => r.key \in wit /\ Covered(r.key)
  BY <1>1 DEF HandInv
<1>3. Is(pass[d].r.key, pass[d].r.dec)' /\ kind[r.key] = r.dec
  BY <1>1, <1>2 DEF Is, HistoryKept
<1>4. Granted(pass[d].r)' <=> Granted(r)
  BY <1>1 DEF Granted
<1>5. ASSUME ~Granted(r), Top(pass[d].r.key)' PROVE r.key \in wit' /\ Covered(pass[d].r.key)'
  <2>1. Top(r.key)
    BY <1>1, <1>5 DEF Top, HistoryKept
  <2>2. r.key \in wit /\ Covered(r.key) /\ kind[r.key] # "granted"
    BY <1>2, <1>3, <1>5, <2>1 DEF Granted
  <2>3. r.key \in wit'
    BY <2>2 DEF HistoryKept
  <2>4. \A n \in wit : n = r.key /\ Top(n)' => Covered(n)'
    BY <2>2 DEF CoverKept
  <2>5. ASSUME NEW n \in wit, n = r.key PROVE Covered(pass[d].r.key)' <=> Covered(n)'
    BY <1>1, <2>5 DEF Covered
  <2>6. ASSUME NEW n \in wit, n = r.key PROVE Top(n)'
    BY <1>1, <1>5, <2>6 DEF Top
  <2> QED
    BY <2>2, <2>3, <2>4, <2>5, <2>6
<1> QED
  BY <1>1, <1>2, <1>3, <1>4, <1>5 DEF HistoryKept

LEMMA LiveKeeps ==
    ASSUME LiveInv, live' = live \/ live' # "granted", wit' \cup mine' = wit \cup mine, kind' = kind,
           epoch' = epoch, \A c \in Callers : call'[c].pc = "turn" => call'[c] = call[c]
    PROVE  LiveInv'
<1>1. live' = "granted" => \E k \in wit' \cup mine' :
          /\ \A j \in wit' \cup mine' : j >= k => kind'[j] = "granted"
          /\ \A c \in Callers : call'[c].pc = "turn" => call'[c].key # k
  BY DEF LiveInv
<1>2. \A c \in Callers : call'[c].pc = "turn" =>
          /\ call'[c].snap <= epoch'
          /\ call'[c].dec = "granted" /\ epoch' = call'[c].snap =>
                \A j \in wit' \cup mine' : j >= call'[c].key => kind'[j] = "granted"
  BY DEF LiveInv
<1> QED
  BY <1>1, <1>2 DEF LiveInv

\* The kind of a receipt's decision is the receipt's.
LEMMA RcptKind ==
    ASSUME Base, NEW r \in All
    PROVE  kind[r.key] = r.dec /\ r.key \in Nat /\ r.at \in Nat /\ (Granted(r) <=> kind[r.key] = "granted")
BY AllTypes DEF Base, KnownInv, Is, Granted, TypeInv

\* Nothing is proved again when the record stands and no damage is written over.
LEMMA LostSame ==
    ASSUME Base, UNCHANGED <<recFile, damage, up>>, wit' \in SUBSET Nat,
           NEW n \in wit, Top(n)', Lost,
           \A t \in All' : t \in All \/ \A k \in wit' : ~(t.key <= k),
           outFile.st = "bad" /\ (~up \/ preserve \/ FreshReceipt) =>
               outFile'.st = "bad" /\ (~up' \/ preserve' \/ FreshReceipt')
    PROVE  Lost'
<1>1. n \in Nat /\ \A t \in All : t.key \in Nat
  BY AllTypes DEF Base, TypeInv, OutboxTypes
<1>2. ASSUME NEW t \in All', OnFile(t)' PROVE t \in All /\ OnFile(t)
  BY <1>2, <1>1 DEF OnFile, Top
<1> QED
  BY <1>2 DEF Lost

\* What a save evicts is older than what it writes.
LEMMA SaveEvicts ==
    ASSUME NEW mirror \in Seq(Rcpt), Ordered(mirror), NEW done, NEW ms, wit' \in SUBSET Nat,
           Unwritten(mirror, done, ms) \/ Written(mirror, done, ms)
    PROVE  /\ \A r \in Receipts(mirror) : r.key \in Keys(trail') \/ Passed(r.key)'
           /\ \A k \in settled' : k \in done \/ Passed(k)'
<1>1. \A k : k \in Keys(mirror) <=> \E r \in Receipts(mirror) : r.key = k
  BY KeysOf
<1>2. CASE Unwritten(mirror, done, ms)
  BY <1>1, <1>2 DEF Unwritten
<1>3. CASE Written(mirror, done, ms)
  <2>1. ASSUME NEW k \in Keys(mirror), k \notin Keys(trail') PROVE Passed(k)'
    <3>1. PICK r \in Receipts(mirror) : r.key = k
      BY <1>1
    <3>2. mirror # <<>>
      BY <3>1, EmptyTrail
    <3>3. trail' \in Seq(Rcpt) /\ Ordered(trail') /\ trail' # <<>> /\ Last(trail') = Last(mirror)
      BY <1>3, <3>2 DEF Written
    <3>4. Last(trail').key \in Keys(trail')
      BY <3>3, LastIsNewest, KeysOf
    <3>5. Last(mirror).key \in wit'
      BY <1>3, <3>3, <3>4 DEF Written
    <3>6. k <= Last(mirror).key /\ k \in Nat /\ Last(mirror).key \in Nat
      BY <3>1, <3>2, <3>5, LastIsNewest, RcptFields, KeysOf
    <3>7. k # Last(mirror).key
      BY <2>1, <3>3, <3>4
    <3> QED
      BY <3>5, <3>6, <3>7 DEF Passed
  <2> QED
    BY <1>1, <1>3, <2>1 DEF Written
<1> QED
  BY <1>2, <1>3

\* What is lost stays lost through a save of a mirror that holds nothing new.
LEMMA SaveLost ==
    ASSUME Base, UNCHANGED <<recFile, damage, up>>, preserve' = preserve, up,
           NEW mirror \in Seq(Rcpt), Ordered(mirror), NEW done, NEW ms,
           \/ Unwritten(mirror, done, ms)
           \/ Written(mirror, done, ms) /\ ~(preserve /\ outFile.st = "bad"),
           \A r \in Onhand : r \in Receipts(mirror) \/ OnFile(r), wit' \in SUBSET Nat, All' \subseteq All,
           NEW n \in wit, Top(n)', Lost
    PROVE  Lost'
<1>1. ASSUME outFile.st = "bad", ~up \/ preserve \/ FreshReceipt
      PROVE  outFile'.st = "bad" /\ (~up' \/ preserve' \/ FreshReceipt')
  <2>1. CASE Unwritten(mirror, done, ms)
    BY <2>1, <1>1 DEF Unwritten, Onhand, FreshReceipt, OnFile
  <2>2. CASE Written(mirror, done, ms) /\ ~(preserve /\ outFile.st = "bad")
    <3>1. PICK f \in Onhand : ~OnFile(f)
      BY <1>1, <2>2 DEF FreshReceipt
    <3>2. f \in Receipts(mirror) /\ f \in All /\ f.key \in Nat
      BY <3>1, AllTypes DEF All, Base, TypeInv
    <3>3. f.key \in Keys(trail') \/ Passed(f.key)'
      BY <2>2, <3>2, SaveEvicts
    <3>4. PICK j \in wit' : f.key <= j
      BY <2>2, <3>2, <3>3 DEF Written, Passed
    <3>5. f.key <= n
      BY <3>2, <3>4 DEF Top, Base, TypeInv, OutboxTypes
    <3> QED
      BY <3>1, <3>5 DEF OnFile
  <2> QED
    BY <2>1, <2>2
<1> QED
  BY <1>1, LostSame

\* So it does when something newer is handed over.
LEMMA AppendLost ==
    ASSUME Base, UNCHANGED <<recFile, outFile, damage, up, wit>>, NEW r \in Onhand', r.key \in Nat, All' \subseteq All \cup {r},
           NEW n \in wit, Top(n), n < r.key, Lost
    PROVE  Lost'
<1>1. wit \in SUBSET Nat
  BY DEF Base, TypeInv, OutboxTypes
<1>2. \A k \in wit' : ~(r.key <= k)
  BY <1>1 DEF Top
<1>3. FreshReceipt' /\ Top(n)'
  BY <1>2 DEF FreshReceipt, OnFile, Top
<1> QED
  BY <1>1, <1>2, <1>3, LostSame

\* A save of a mirror that holds nothing new, and misses no receipt that is
\* the last proof of a denial.
LEMMA SaveDenials ==
    ASSUME Base, Denials, up, NEW mirror, NEW done, Fits(mirror, done), Receipts(mirror) \subseteq Onhand,
           \A r \in Onhand : \/ r \in Receipts(mirror)
                             \/ OnFile(r) /\ (~Granted(r) /\ Top(r.key) => Covered(r.key)),
           NEW ms \in SUBSET Nat, \A r \in Receipts(mirror) : r.key \in marks => r.key \in ms,
           \/ Unwritten(mirror, done, ms)
           \/ Written(mirror, done, ms) /\ ~(preserve /\ outFile.st = "bad"),
           preserve' = preserve, Shrinks
    PROVE  CoverKept /\ ZeroInv' /\ HeldInv' /\ OwedTop' /\ DeniedInv'
<1>0. /\ TypeInv /\ OutboxTypes /\ mirror \in Seq(Rcpt) /\ Ordered(mirror) /\ trail \in Seq(Rcpt) /\ Ordered(trail)
      /\ wit \in SUBSET Nat /\ wit' \in SUBSET Nat /\ wit \subseteq wit'
      /\ recFile' = recFile /\ damage' = damage /\ up' = up /\ kind' = kind /\ mintOwed' = mintOwed
      /\ recOwed' = recOwed /\ call' = call
      /\ Onhand' \subseteq Onhand /\ Filed' \subseteq All
  BY DEF Base, TypeInv, Shrinks, DecisionsUnchanged, OutboxTypes, Fits, KeptInv, TrailOrdered
<1>a. /\ All' \subseteq All /\ \A r \in All : r.key \in Nat /\ r.at \in Nat
      /\ \A k \in wit' : k \in wit \/ \E r \in All : r.key = k
  BY <1>0, AllTypes DEF All, Shrinks
<1>k. /\ \A k : k \in Keys(trail) <=> \E r \in Onhand : r.key = k
      /\ \A k : k \in Keys(mirror) <=> \E r \in Receipts(mirror) : r.key = k
  BY <1>0, KeysOf DEF Onhand
<1>o. \A r \in Onhand : r \in All /\ kind[r.key] = r.dec /\ r.key \in Nat /\ (Granted(r) <=> kind[r.key] = "granted")
  BY RcptKind DEF All
<1>l. mirror # <<>> => /\ Last(mirror) \in Receipts(mirror) /\ Last(mirror).key \in Nat
                       /\ \A r \in Receipts(mirror) : r.key <= Last(mirror).key
  BY <1>0, LastIsNewest, RcptFields
<1>w. Written(mirror, done, ms) =>
        /\ trail' \in Seq(Rcpt) /\ outFile'.rs = trail' /\ outFile'.st = "ok" /\ Receipts(trail') \subseteq Receipts(mirror)
        /\ marks' = ms \ (Keys(mirror) \ Keys(trail')) /\ wit' = wit \cup Keys(trail')
        /\ mirror # <<>> => trail' # <<>> /\ Last(trail') = Last(mirror) /\ Last(mirror).key \in Keys(trail')
  <2> SUFFICES ASSUME Written(mirror, done, ms)
               PROVE  /\ trail' \in Seq(Rcpt) /\ outFile'.rs = trail' /\ outFile'.st = "ok" /\ Receipts(trail') \subseteq Receipts(mirror)
                      /\ marks' = ms \ (Keys(mirror) \ Keys(trail')) /\ wit' = wit \cup Keys(trail')
                      /\ mirror # <<>> => trail' # <<>> /\ Last(trail') = Last(mirror) /\ Last(mirror).key \in Keys(trail')
    OBVIOUS
  <2>1. /\ trail' \in Seq(Rcpt) /\ Ordered(trail') /\ outFile'.rs = trail' /\ outFile'.st = "ok" /\ Receipts(trail') \subseteq Receipts(mirror)
        /\ marks' = ms \ (Keys(mirror) \ Keys(trail')) /\ wit' = wit \cup Keys(trail')
        /\ mirror # <<>> => trail' # <<>> /\ Last(trail') = Last(mirror)
    BY DEF Written
  <2>2. trail' # <<>> => Last(trail').key \in Keys(trail')
    BY <2>1, LastIsNewest, KeysOf
  <2> QED
    BY <2>1, <2>2
<1>u. Unwritten(mirror, done, ms) =>
        /\ trail' = mirror /\ marks' = ms /\ outFile' = outFile /\ wit' = wit /\ Onhand' = Receipts(mirror)
  BY DEF Unwritten, Onhand
<1>1. CoverKept
  <2> SUFFICES ASSUME NEW n \in wit, Top(n)', Covered(n), kind[n] # "granted" PROVE Covered(n)'
    BY DEF CoverKept
  <2>1. \A r \in Onhand : r \in Receipts(mirror) \/ OnFile(r)
    OBVIOUS
  <2>2. Lost => Lost'
    BY <1>0, <1>a, <2>1, SaveLost
  <2> QED
    BY <1>0, <2>2 DEF Covered
<1>2. \A n \in wit : Top(n)' => Top(n)
  BY <1>0 DEF Top
<1>3. ASSUME NEW n \in wit', Top(n)', kind'[n] # "granted"
      PROVE  (n \in Keys(outFile'.rs) \/ Covered(n)') /\ (n \in Keys(trail') \/ Covered(n)')
  <2>1. ASSUME NEW r \in Onhand, r.key = n, n \in wit, r \notin Receipts(mirror) PROVE Covered(n)'
    BY <1>0, <1>2, <1>3, <1>o, <2>1, <1>1 DEF CoverKept
  <2>2. CASE Unwritten(mirror, done, ms)
    <3>1. n \in wit /\ Top(n) /\ kind[n] # "granted" /\ outFile' = outFile
      BY <1>0, <1>2, <1>3, <1>u, <2>2
    <3>2. n \in Keys(outFile'.rs) \/ Covered(n)'
      BY <1>1, <1>3, <3>1 DEF Denials, DeniedInv, CoverKept
    <3>3. n \in Keys(trail') \/ Covered(n)'
      <4>1. CASE Covered(n)
        BY <1>1, <1>3, <3>1, <4>1 DEF CoverKept
      <4>2. CASE n \in Keys(trail)
        BY <1>k, <4>2, <1>u, <2>2, <2>1, <3>1
      <4> QED
        BY <3>1, <4>1, <4>2 DEF Denials, DeniedInv
    <3> QED
      BY <3>2, <3>3
  <2>3. CASE Written(mirror, done, ms) /\ n \notin Keys(trail')
    <3>1. n \in wit /\ Top(n) /\ kind[n] # "granted"
      BY <1>0, <1>2, <1>3, <1>w, <2>3
    <3>2. CASE Covered(n)
      BY <1>1, <1>3, <3>1, <3>2 DEF CoverKept
    <3>3. CASE n \in Keys(trail)
      <4>1. PICK r \in Onhand : r.key = n
        BY <1>k, <3>3
      <4>2. r \notin Receipts(mirror)
        <5> SUFFICES ASSUME r \in Receipts(mirror) PROVE FALSE
          OBVIOUS
        <5>1. mirror # <<>>
          BY <1>0, EmptyTrail
        <5>2. n <= Last(mirror).key /\ Last(mirror).key \in Keys(trail') /\ Last(mirror).key \in wit'
              /\ Last(mirror).key \in Nat
          BY <1>l, <1>w, <2>3, <4>1, <5>1
        <5>3. Last(mirror).key <= n
          BY <1>3, <5>2 DEF Top
        <5>4. n \in Nat
          BY <1>0
        <5> QED
          BY <2>3, <5>2, <5>3, <5>4
      <4> QED
        BY <2>1, <3>1, <4>1, <4>2
    <3> QED
      BY <3>1, <3>2, <3>3 DEF Denials, DeniedInv
  <2>4. CASE Written(mirror, done, ms) /\ n \in Keys(trail')
    BY <1>w, <2>4
  <2> QED
    BY <2>2, <2>3, <2>4
<1>4. ASSUME NEW r \in Onhand', ~Granted(r), Top(r.key)', r.key \in wit' => ~Covered(r.key)'
      PROVE  Proof(r.key)'
  <2>1. r \in Onhand /\ r \in Receipts(mirror) /\ r.key \in Nat
    BY <1>u, <1>w, <1>o DEF Onhand
  <2>2. Top(r.key) /\ (r.key \in wit => ~Covered(r.key))
    BY <1>0, <1>4, <1>1, <1>o, <2>1 DEF Top, CoverKept
  <2>3. Proof(r.key)
    BY <1>4, <2>1, <2>2 DEF Denials, DeniedInv
  <2>4. CASE r.key \in marks
    BY <2>1, <2>4, <1>w, KeysOf, <1>u DEF Onhand, Proof
  <2>5. ASSUME NEW c \in Callers, call[c].pc = "mark", call[c].key = r.key, call[c].minted,
               recOwed # None, recOwed.dec # "granted", Last(trail).key = r.key
        PROVE  Proof(r.key)'
    <3>1. mirror # <<>> /\ trail # <<>>
      BY <1>0, <2>1, EmptyTrail DEF Onhand
    <3>2. \A t \in Onhand : t.key <= Last(trail).key
      BY <1>0, <3>1, LastIsNewest DEF Onhand
    <3>3. Last(mirror).key = r.key
      BY <1>l, <2>1, <2>5, <3>1, <3>2
    <3>4. Last(trail') = Last(mirror)
      BY <1>u, <1>w, <3>1
    <3> QED
      BY <1>0, <2>5, <3>3, <3>4 DEF Proof
  <2> QED
    BY <2>3, <2>4, <2>5 DEF Proof
<1>5. DeniedInv'
  BY <1>3, <1>4 DEF DeniedInv, Granted
<1>6. ZeroInv'
  BY <1>0, <1>u, <1>w DEF Denials, ZeroInv
<1>7. HeldInv'
  <2>1. ASSUME NEW c \in Callers, call[c].pc = "mint" PROVE call[c].key \in wit' => call[c].key \in wit
    BY <2>1, <1>a DEF Base, CallInv, MintOK
  <2>2. mintOwed # None => (mintOwed.key \in wit' => mintOwed.key \in wit)
    BY <1>a DEF Base, OwedInv
  <2>3. ASSUME NEW c \in Callers, call[c].pc \in {"record", "mark"}, mintOwed # None PROVE call[c].key = mintOwed.key
    BY <2>3 DEF Base, CallInv, MintedOK, Owed
  <2> QED
    BY <1>0, <2>1, <2>2, <2>3 DEF Denials, HeldInv, RecordHas, Deciding
<1>8. OwedTop'
  <2> SUFFICES ASSUME ~Deciding, recOwed # None, NEW n \in wit', Top(n)', kind[n] # "granted", n > recOwed.key
               PROVE  damage > 0 /\ recOwed.dec # "granted"
    BY <1>0 DEF OwedTop, Deciding
  <2>1. \A r \in All : r.key <= recOwed.key
    BY DEF Base, OwedInv
  <2>2. recOwed.key \in Nat /\ n \in Nat
    BY <1>0, RcptFields DEF TypeInv, CoreTypes
  <2>3. n \in wit
    BY <1>a, <2>1, <2>2
  <2> QED
    BY <1>2, <2>3 DEF Denials, OwedTop
<1> QED
  BY <1>1, <1>5, <1>6, <1>7, <1>8

-----------------------------------------------------------------------------
(* Steps of a dispatch pass that touch no file and no decision.            *)

\* What is in a pass's hand afterwards was there before, or was just picked.
LEMMA QuietHand ==
    ASSUME Base, NEW d \in Dispatchers, QuietPass(d), NEW e \in Dispatchers, InHand(e)'
    PROVE  \/ InHand(e) /\ pass'[e].r = pass[e].r
           \/ pass'[e].r = Oldest /\ Dispatchable # {} /\ ~Held(Oldest)
<1>0. pass \in [Dispatchers -> Pass] /\ pass[d] \in Pass /\ IdlePass.pc = "idle"
  BY DEF Base, TypeInv, PassTypes, IdlePass
<1>1. pass'[e].pc \in {"recheck", "post", "reply"}
  BY DEF InHand
<1>2. CASE e # d
  <2>1. pass'[e] = pass[e]
    BY <1>0, <1>2 DEF QuietPass, StartPass, ClaimDispatch, NextReceipt, RecheckGrant, ServiceRecords, ServiceRefuses,
          ServiceUnavailable, ReceiptRetryable, ReceiptUnanswered, EventLeg, EventsSent, PassTo, EndPass, Verdict, HandOver
  <2> QED
    BY <1>1, <2>1 DEF InHand
<1>3. CASE e = d
  <2>1. CASE StartPass(d) \/ ClaimDispatch(d)
    BY <1>0, <1>1, <1>3, <2>1 DEF StartPass, ClaimDispatch, PassTo, Pass
  <2>2. CASE NextReceipt(d)
    BY <1>0, <1>1, <1>3, <2>2 DEF NextReceipt, EndPass, Pass
  <2>3. CASE RecheckGrant(d)
    BY <1>0, <1>1, <1>3, <2>3 DEF RecheckGrant, PassTo, EndPass, Pass, InHand
  <2>4. CASE ServiceRecords(d) \/ ServiceRefuses(d) \/ ServiceUnavailable(d)
    BY <1>0, <1>1, <1>3, <2>4 DEF ServiceRecords, ServiceRefuses, ServiceUnavailable, Verdict, Pass, InHand
  <2>5. CASE ReceiptRetryable(d) \/ ReceiptUnanswered(d)
    BY <1>0, <1>1, <1>3, <2>5 DEF ReceiptRetryable, ReceiptUnanswered, HandOver, EndPass, Pass
  <2>6. CASE EventLeg(d) \/ EventsSent(d)
    BY <1>0, <1>1, <1>3, <2>6 DEF EventLeg, EventsSent, PassTo, Pass
  <2> QED
    BY <2>1, <2>2, <2>3, <2>4, <2>5, <2>6 DEF QuietPass
<1> QED
  BY <1>2, <1>3

LEMMA CoreDenials ==
    ASSUME Denials, CoreUnchanged
    PROVE  /\ ZeroInv' /\ HeldInv' /\ OwedTop' /\ DeniedInv' /\ LiveInv'
           /\ CoverKept /\ HistoryKept
<1>1. /\ Onhand' = Onhand /\ All' = All /\ Deciding' = Deciding
      /\ \A k : Top(k)' <=> Top(k)
      /\ \A r : OnFile(r)' <=> OnFile(r)
      /\ \A k : RecordHas(k)' <=> RecordHas(k)
      /\ \A k : Proof(k)' <=> Proof(k)
  BY DEF CoreUnchanged, Onhand, Filed, All, Deciding, Top, OnFile, RecordHas, Proof
<1>2. FreshReceipt' <=> FreshReceipt
  BY <1>1 DEF FreshReceipt
<1>3. \A k : Covered(k)' <=> Covered(k)
  BY <1>1, <1>2 DEF Covered, Lost, CoreUnchanged
<1>4. ZeroInv' /\ HeldInv' /\ OwedTop'
  BY <1>1 DEF Denials, ZeroInv, HeldInv, OwedTop, CoreUnchanged
<1>5. DeniedInv'
  BY <1>1, <1>3 DEF Denials, DeniedInv, CoreUnchanged
<1>6. LiveInv'
  BY DEF Denials, LiveInv, CoreUnchanged
<1>7. CoverKept /\ HistoryKept
  BY <1>3 DEF CoverKept, HistoryKept, CoreUnchanged, Taken
<1> QED
  BY <1>4, <1>5, <1>6, <1>7

\* A receipt that may leave is not the last proof of a denial.
LEMMA PickedSafe ==
    ASSUME Base, Denials, up, Dispatchable # {}, ~Held(Oldest)
    PROVE  /\ Is(Oldest.key, Oldest.dec)
           /\ Granted(Oldest) => Oldest.key \in wit
           /\ ~Granted(Oldest) /\ Top(Oldest.key) => Oldest.key \in wit /\ Covered(Oldest.key)
<1> DEFINE r == Oldest
<1>1. r \in Onhand /\ trail \in Seq(Rcpt) /\ trail # <<>>
  BY OldestDispatchable, EmptyTrail DEF Base, TypeInv, OutboxTypes, KeptInv, TrailOrdered, Onhand
<1> HIDE DEF r
<1>2. Is(r.key, r.dec)
  BY <1>1 DEF Base, KnownInv, All
<1>3. ASSUME Granted(r) PROVE r.key \in wit
  BY <1>3, <1>1 DEF Held, GrantPairIncomplete, r, Base, KeptInv, Onhand, Filed, KnownInv
<1>4. ASSUME ~Granted(r), Top(r.key), ~(r.key \in wit /\ Covered(r.key)) PROVE FALSE
  BY <1>1, <1>4 DEF Denials, DeniedInv, Held, DenyProofHeld, r, Proof
<1> QED
  BY <1>2, <1>3, <1>4 DEF r

LEMMA QuietDenials ==
    ASSUME Base, Denials, NEW d \in Dispatchers, QuietPass(d)
    PROVE  Denials'
<1>1. CoreUnchanged /\ up
  BY QuietPassCore
<1>2. /\ ZeroInv' /\ HeldInv' /\ OwedTop' /\ DeniedInv' /\ LiveInv'
      /\ CoverKept /\ HistoryKept
  BY <1>1, CoreDenials
<1>3. HandInv'
  <2> SUFFICES ASSUME NEW e \in Dispatchers, InHand(e)'
               PROVE  /\ Is(pass[e].r.key, pass[e].r.dec)'
                      /\ Granted(pass[e].r)' => pass'[e].r.key \in wit'
                      /\ ~Granted(pass[e].r)' /\ Top(pass[e].r.key)' => pass'[e].r.key \in wit' /\ Covered(pass[e].r.key)'
    BY DEF HandInv
  <2>1. \E r : /\ pass'[e].r = r
               /\ Is(r.key, r.dec)
               /\ Granted(r) => r.key \in wit
               /\ ~Granted(r) /\ Top(r.key) => r.key \in wit /\ Covered(r.key)
    BY <1>1, PickedSafe, QuietHand DEF Denials, HandInv
  <2>2. PICK r : /\ pass'[e].r = r
                 /\ Is(r.key, r.dec)
                 /\ Granted(r) => r.key \in wit
                 /\ ~Granted(r) /\ Top(r.key) => r.key \in wit /\ Covered(r.key)
    BY <2>1
  <2>3. /\ Is(pass[e].r.key, pass[e].r.dec)' <=> Is(r.key, r.dec)
        /\ Granted(pass[e].r)' <=> Granted(r)
        /\ Top(pass[e].r.key)' <=> Top(r.key)
    BY <1>1, <2>2 DEF CoreUnchanged, Is, Taken, Granted, Top
  <2>4. Covered(pass[e].r.key)' <=> Covered(r.key)
    BY <1>1, <2>2 DEF CoreUnchanged, Covered, Lost, All, Onhand, Filed, OnFile, FreshReceipt
  <2>5. wit' = wit
    BY <1>1 DEF CoreUnchanged
  <2> QED
    BY <2>2, <2>3, <2>4, <2>5
<1> QED
  BY <1>2, <1>3 DEF Denials

LEMMA DeferralDenials ==
    ASSUME Denials, DeferralElapses
    PROVE  Denials'
<1>1. CoreUnchanged /\ pass' = pass
  BY DEF DeferralElapses, CoreUnchanged, diskVars, outboxVars, owedVars, histVars, boundVars
<1>2. /\ ZeroInv' /\ HeldInv' /\ OwedTop' /\ DeniedInv' /\ LiveInv'
      /\ CoverKept /\ HistoryKept
  BY <1>1, CoreDenials
<1>3. HandKept
  BY <1>1 DEF HandKept, InHand
<1> QED
  BY <1>2, <1>3, HandKeeps DEF Denials

-----------------------------------------------------------------------------
(* Steps that write the trail and add no receipt.                          *)

LEMMA ShrinkDenials ==
    ASSUME Base, Denials, up, NEW mirror, NEW done, Fits(mirror, done), Receipts(mirror) \subseteq Onhand,
           \A r \in Onhand : \/ r \in Receipts(mirror)
                             \/ OnFile(r) /\ (~Granted(r) /\ Top(r.key) => Covered(r.key)),
           NEW ms \in SUBSET Nat, \A r \in Receipts(mirror) : r.key \in marks => r.key \in ms,
           NEW ok \in BOOLEAN, saveLocked(FALSE, mirror, done, ms, ok), Shrinks, HandKept
    PROVE  Denials'
<1>1. /\ preserve' = preserve
      /\ \/ Unwritten(mirror, done, ms)
         \/ Written(mirror, done, ms) /\ ~(preserve /\ outFile.st = "bad")
  BY SaveEffect, ZenonT(60) DEF Base, TypeInv, OutboxTypes
<1>2. CoverKept /\ ZeroInv' /\ HeldInv' /\ OwedTop' /\ DeniedInv'
  BY <1>1, SaveDenials
<1>3. HistoryKept
  BY DEF Shrinks, DecisionsUnchanged, HistoryKept, Taken
<1>4. HandInv'
  BY <1>2, <1>3, HandKeeps DEF Denials
<1>5. \A r \in All : r.key \in wit \cup mine
  BY DEF Base, KnownInv, All
<1>6. wit' \cup mine' = wit \cup mine
  BY <1>5 DEF Shrinks, DecisionsUnchanged
<1>7. LiveInv'
  BY <1>6, LiveKeeps DEF Shrinks, DecisionsUnchanged, Denials
<1> QED
  BY <1>2, <1>4, <1>7 DEF Denials

LEMMA RetryPersistDenials ==
    ASSUME Base, Denials, NEW d \in Dispatchers, RetryPersist(d)
    PROVE  Denials'
<1>0. Shrinks /\ up /\ pass \in [Dispatchers -> Pass]
  BY RetryPersistShrinks DEF Base, TypeInv, PassTypes
<1>1. HandKept
  BY <1>0 DEF HandKept, InHand, RetryPersist, PassTo, Pass
<1>2. CASE dirty
  <2>1. PICK ok \in BOOLEAN : saveLocked(FALSE, trail, settled, marks, ok)
    BY <1>2 DEF RetryPersist
  <2>2. Fits(trail, settled) /\ Receipts(trail) = Onhand /\ marks \in SUBSET Nat
    BY <1>0, MirrorFits DEF Base, TypeInv, OutboxTypes, Onhand
  <2> QED
    BY <1>0, <1>1, <2>1, <2>2, ShrinkDenials
<1>3. CASE ~dirty
  <2>1. CoreUnchanged
    BY <1>3 DEF RetryPersist, CoreUnchanged, outboxVars, owedVars, histVars, boundVars
  <2> QED
    BY <1>1, <2>1, CoreDenials, HandKeeps DEF Denials
<1> QED
  BY <1>2, <1>3 DEF Base, TypeInv, OutboxTypes

\* The receipt of a pass is pruned, or was gone from the trail.
LEMMA SettledPlain ==
    ASSUME Base, NEW d \in Dispatchers, ReceiptSettled(d), NEW k, k = pass[d].r.key
    PROVE  /\ k \in Nat /\ HandKept /\ Shrinks /\ up /\ InHand(d)
           /\ \/ CoreUnchanged
              \/ /\ Fits(Without(trail, {k}), settled \cup {k}) /\ marks \ {k} \in SUBSET Nat
                 /\ Receipts(Without(trail, {k})) = {r \in Onhand : r.key # k}
                 /\ \E ok \in BOOLEAN : saveLocked(FALSE, Without(trail, {k}), settled \cup {k}, marks \ {k}, ok)
<1>0. /\ Shrinks /\ up /\ pass \in [Dispatchers -> Pass] /\ OutboxTypes /\ KeptInv /\ marks \ {k} \in SUBSET Nat /\ k \in Nat
  BY ReceiptSettledShrinks, ReceiptSettledTypes, RcptFields DEF Base, TypeInv, PassTypes, OutboxTypes
<1>1. HandKept /\ InHand(d)
  BY <1>0 DEF HandKept, InHand, ReceiptSettled, HandOver, Pass
<1>2. PICK ok \in BOOLEAN : prune(k, ok)
  BY DEF ReceiptSettled
<1>3. CASE k \in Keys(trail)
  BY <1>0, <1>1, <1>2, <1>3, PrunedFits DEF prune
<1>4. CASE k \notin Keys(trail)
  BY <1>0, <1>2, <1>4, <1>1 DEF prune, Shrinks, DecisionsUnchanged, CoreUnchanged, outboxVars
<1> QED
  BY <1>3, <1>4

LEMMA SettledDenials ==
    ASSUME Base, Denials, NEW d \in Dispatchers, ReceiptSettled(d)
    PROVE  Denials'
<1>0. PICK k : k = pass[d].r.key
  OBVIOUS
<1>1. /\ Shrinks /\ HandKept /\ up /\ InHand(d) /\ TypeInv /\ k \in Nat
      /\ Is(k, pass[d].r.dec) /\ (Granted(pass[d].r) => k \in wit)
      /\ ~Granted(pass[d].r) /\ Top(k) => k \in wit /\ Covered(k)
  BY <1>0, SettledPlain DEF Denials, HandInv, Base
<1>2. (kind[k] = "granted" => k \in wit) /\ (kind[k] # "granted" /\ Top(k) => k \in wit /\ Covered(k))
  BY <1>1 DEF Is, Granted
<1>3. CASE CoreUnchanged
  BY <1>1, <1>3, CoreDenials, HandKeeps DEF Denials
<1>4. CASE ~CoreUnchanged
  <2>1. /\ Fits(Without(trail, {k}), settled \cup {k}) /\ marks \ {k} \in SUBSET Nat
        /\ Receipts(Without(trail, {k})) = {r \in Onhand : r.key # k}
        /\ \E ok \in BOOLEAN : saveLocked(FALSE, Without(trail, {k}), settled \cup {k}, marks \ {k}, ok)
    BY <1>0, <1>4, SettledPlain
  <2>2. ASSUME NEW r \in Onhand, r \notin Receipts(Without(trail, {k}))
        PROVE  OnFile(r) /\ (~Granted(r) /\ Top(r.key) => Covered(r.key))
    <3>1. r.key = k /\ (Granted(r) <=> kind[k] = "granted")
      BY <2>1, <2>2, RcptKind DEF All
    <3>2. k \in wit \/ \E j \in wit : k <= j
      BY <1>1, <1>2 DEF Top, TypeInv, OutboxTypes
    <3> QED
      BY <1>1, <1>2, <3>1, <3>2 DEF OnFile
  <2> QED
    BY <1>1, <2>1, <2>2, ShrinkDenials
<1> QED
  BY <1>3, <1>4

-----------------------------------------------------------------------------
(* Steps that append a receipt.                                            *)

LEMMA AppendDenials ==
    ASSUME Base, Denials, up, NEW r \in Rcpt, Appends(r), NEW ms \in SUBSET Nat, marks \subseteq ms,
           \/ Unwritten(Append(trail, r), settled, ms)
           \/ Written(Append(trail, r), settled, ms),
           \A t \in All : t.key < r.key, \A k \in wit : k <= r.key, r.key \in wit => RecordHas(r.key),
           UNCHANGED <<recFile, up, kind, damage>>, \A c \in Callers : call[c].pc # "mark",
           ~Granted(r) => Proof(r.key)' \/ RecordHas(r.key)
    PROVE  CoverKept /\ ZeroInv' /\ DeniedInv'
<1>0. /\ OutboxTypes /\ OutboxTypes' /\ trail \in Seq(Rcpt) /\ trail' \in Seq(Rcpt) /\ r.key \in Nat
      /\ wit \in SUBSET Nat /\ wit' \in SUBSET Nat /\ wit \subseteq wit'
      /\ Onhand' \subseteq Onhand \cup {r} /\ trail' # <<>> /\ Last(trail') = r
      /\ KeptInv'
  BY RcptFields DEF Base, TypeInv, Appends, OutboxTypes
<1>a. \A t \in All : t.key \in Nat
  BY <1>0, AllTypes
<1>r. r \in Onhand' /\ r.key \in Keys(trail')
  BY <1>0, LastIsNewest, KeysOf DEF KeptInv, TrailOrdered, Onhand
<1>u. Unwritten(Append(trail, r), settled, ms) =>
        /\ outFile' = outFile /\ wit' = wit /\ marks' = ms /\ Onhand' = Onhand \cup {r}
        /\ \A k \in Keys(trail) : k \in Keys(trail')
  <2> SUFFICES ASSUME Unwritten(Append(trail, r), settled, ms)
               PROVE  Onhand' = Onhand \cup {r} /\ \A k \in Keys(trail) : k \in Keys(trail')
    BY DEF Unwritten
  <2>1. Receipts(trail') = Receipts(trail) \cup {r}
    BY <1>0, AppendOrdered DEF Unwritten
  <2> QED
    BY <1>0, <2>1, KeysOf DEF Onhand
<1>w. Written(Append(trail, r), settled, ms) =>
        /\ outFile'.st = "ok" /\ outFile'.rs = trail' /\ r.key \in wit'
  BY <1>r DEF Written
<1>top. ASSUME Written(Append(trail, r), settled, ms), NEW n \in wit', Top(n)' PROVE n = r.key
  <2>1. n <= r.key
    BY <1>0, <1>a DEF Appends
  <2>2. r.key <= n
    BY <1>w, <1>top DEF Top
  <2> QED
    BY <1>0, <2>1, <2>2
<1>1. CoverKept
  <2> SUFFICES ASSUME NEW n \in wit, Top(n)', Covered(n), kind[n] # "granted" PROVE Covered(n)'
    BY DEF CoverKept
  <2>1. CASE RecordHas(n)
    BY <2>1 DEF RecordHas, Covered
  <2>2. CASE n = r.key
    BY <2>1, <2>2
  <2>3. CASE Written(Append(trail, r), settled, ms)
    BY <1>0, <1>top, <2>2, <2>3
  <2>4. CASE Unwritten(Append(trail, r), settled, ms) /\ n # r.key
    BY <1>0, <1>u, <2>4, <1>r, AppendLost DEF All, Filed, Top, Covered
  <2> QED
    BY <2>2, <2>3, <2>4
<1>2. ASSUME NEW n \in wit', Top(n)', kind'[n] # "granted"
      PROVE  (n \in Keys(outFile'.rs) \/ Covered(n)') /\ (n \in Keys(trail') \/ Covered(n)')
  <2>1. CASE Written(Append(trail, r), settled, ms)
    BY <1>2, <1>r, <1>w, <1>top, <2>1
  <2>2. CASE Unwritten(Append(trail, r), settled, ms)
    BY <1>2, <1>u, <2>2, <1>1 DEF Top, CoverKept, Denials, DeniedInv
  <2> QED
    BY <2>1, <2>2
<1>3. ASSUME NEW t \in Onhand', ~Granted(t), Top(t.key)', t.key \in wit' => ~Covered(t.key)'
      PROVE  Proof(t.key)'
  <2>1. CASE t = r
    BY <1>0, <1>3, <2>1 DEF RecordHas, Covered, Base, KnownInv
  <2>2. CASE t # r
    <3>1. t \in Onhand /\ t \in All
      BY <1>0, <2>2 DEF All
    <3>2. Unwritten(Append(trail, r), settled, ms)
      <4>1. ASSUME Written(Append(trail, r), settled, ms) PROVE FALSE
        BY <1>3, <1>w, <4>1, <1>0, <1>a, <3>1 DEF Top
      <4> QED
        BY <4>1
    <3>3. Top(t.key) /\ wit' = wit
      BY <1>3, <1>u, <3>2 DEF Top
    <3>4. t.key \in wit => ~Covered(t.key)
      BY <1>3, <3>1, RcptKind, <1>1, <3>3 DEF CoverKept
    <3>5. Proof(t.key)
      BY <1>3, <3>1, <3>3, <3>4 DEF Denials, DeniedInv
    <3>6. t.key \in marks'
      BY <1>u, <3>2, <3>5 DEF Proof
    <3> QED
      BY <3>6 DEF Proof
  <2> QED
    BY <2>1, <2>2
<1>4. DeniedInv'
  BY <1>2, <1>3 DEF DeniedInv, Granted
<1>5. ZeroInv'
  BY <1>u, <1>w DEF Denials, ZeroInv
<1> QED
  BY <1>1, <1>4, <1>5

\* Decisions that were taken stay so, when a receipt of one is appended.
LEMMA AppendHistory ==
    ASSUME Base, NEW r \in Rcpt, Appends(r), r.key \in wit \cup mine, kind' = kind, mine' = mine
    PROVE  HistoryKept /\ wit' \cup mine' = wit \cup mine
<1>1. \A t \in All : t.key \in wit \cup mine
  BY DEF Base, KnownInv, All
<1>2. \A k \in wit' : k \in wit \cup mine
  BY <1>1 DEF Appends
<1>3. HistoryKept
  BY DEF Appends, HistoryKept, Taken
<1> QED
  BY <1>2, <1>3 DEF Appends

LEMMA RetryMintDenials ==
    ASSUME Base, Denials, NEW d \in Dispatchers, RetryMint(d)
    PROVE  Denials'
<1>0. up /\ pass \in [Dispatchers -> Pass]
  BY RetryMintPlain DEF Base, TypeInv, PassTypes
<1>1. HandKept
  BY <1>0 DEF HandKept, InHand, RetryMint, PassTo, Pass
<1>2. CASE CoreUnchanged
  BY <1>1, <1>2, CoreDenials, HandKeeps DEF Denials
<1>3. CASE ~CoreUnchanged
  <2>a. mintOwed \in Rcpt
    BY <1>3, RetryMintPlain
  <2>b. PICK r \in Rcpt : r = mintOwed
    BY <2>a
  <2>1. /\ ~Deciding /\ r # None /\ r = mintOwed /\ mintOwed' = None
        /\ UNCHANGED <<recFile, up, live, epoch, lastStamp, recOwed, call, kind, mine, damage>>
        /\ Appends(r)
    BY <1>3, <2>b, RetryMintPlain
  <2>2. PICK ms \in SUBSET Nat :
            /\ ms = IF recOwed # None /\ recOwed.at = r.at THEN marks \cup {r.key} ELSE marks
            /\ \/ Unwritten(Append(trail, r), settled, ms)
               \/ Written(Append(trail, r), settled, ms)
    BY <1>3, <2>b, RetryMintPlain
  <2>3. /\ \A t \in All : t.key < r.key
        /\ \A k \in wit : k <= r.key
        /\ r.key \in mine
        /\ recOwed # None => r = recOwed
    BY <2>1 DEF Base, KnownInv, OwedInv
  <2>4. /\ r.key \in wit => RecordHas(r.key)
        /\ r.dec # "granted" => recOwed # None \/ RecordHas(r.key)
    BY <2>1 DEF Denials, HeldInv
  <2>5. \A c \in Callers : call[c].pc \notin {"mint", "record", "mark"}
    BY <2>1 DEF Deciding
  <2>6. ASSUME recOwed # None PROVE r.key \in marks'
    <3>1. r.key \in ms
      BY <2>2, <2>3, <2>6
    <3>2. r.key \in Keys(trail')
      BY <2>1, LastIsNewest, KeysOf DEF Appends, OutboxTypes, KeptInv, TrailOrdered
    <3> QED
      BY <2>2, <3>1, <3>2 DEF Unwritten, Written
  <2>7. ~Granted(r) => Proof(r.key)' \/ RecordHas(r.key)
    BY <2>4, <2>6 DEF Granted, Proof
  <2>8. CoverKept /\ ZeroInv' /\ DeniedInv'
    <3>1. marks \subseteq ms /\ \A c \in Callers : call[c].pc # "mark"
      BY <2>2, <2>5
    <3> QED
      BY <1>0, <2>1, <2>2, <2>3, <2>4, <2>7, <3>1, AppendDenials
  <2>9. HistoryKept /\ wit' \cup mine' = wit \cup mine
    BY <2>1, <2>3, AppendHistory
  <2>10. HeldInv'
    BY <2>1, <2>5 DEF HeldInv
  <2>11. OwedTop'
    <3> SUFFICES ASSUME recOwed # None, NEW n \in wit', Top(n)', kind[n] # "granted", n > recOwed.key
                 PROVE  damage > 0 /\ recOwed.dec # "granted"
      BY <2>1 DEF OwedTop
    <3>1. r = recOwed /\ r.key \in Nat /\ \A t \in All : t.key < r.key
      BY <2>1, <2>3, RcptFields
    <3>2. n \in wit \/ n = r.key \/ \E t \in All : t.key = n
      BY <2>1 DEF Appends
    <3>3. n \in Nat /\ \A t \in All : t.key \in Nat
      BY <2>1, AllTypes DEF Appends, OutboxTypes, Base, TypeInv
    <3>4. n \in wit
      BY <3>1, <3>2, <3>3
    <3>5. Top(n)
      BY <2>1 DEF Top, Appends
    <3> QED
      BY <2>1, <3>4, <3>5 DEF Denials, OwedTop
  <2>12. HandInv'
    BY <1>1, <2>8, <2>9, HandKeeps DEF Denials
  <2>13. LiveInv'
    BY <2>1, <2>9, LiveKeeps DEF Denials
  <2> QED
    BY <2>8, <2>10, <2>11, <2>12, <2>13 DEF Denials
<1> QED
  BY <1>2, <1>3

LEMMA MintDenials ==
    ASSUME Base, Denials, NEW c \in Callers, MintReceipt(c)
    PROVE  Denials'
<1>1. PICK r \in Rcpt, minted \in BOOLEAN, ok \in BOOLEAN : Mints(c, r, minted, ok)
  BY MintPlain
<1>2. /\ up /\ call[c].pc = "mint" /\ r.key = call[c].key /\ r.dec = call[c].dec
      /\ UNCHANGED <<recFile, up, live, epoch, recOwed, passVars, kind, mine, damage>>
      /\ \A t \in All : t.key < r.key
      /\ \A o \in Callers : o # c => call'[o] = call[o]
      /\ call'[c].pc = (IF call[c].dec = "granted" THEN "record" ELSE "mark")
      /\ call'[c].key = call[c].key /\ call'[c].dec = call[c].dec /\ call'[c].minted = minted
  BY <1>1 DEF Mints, MintReceipt, Call
<1>3. /\ \A o \in Callers : o # c => call[o].pc \notin {"mint", "record", "mark"}
      /\ \A k \in wit : k <= r.key
      /\ r.key \in mine /\ Is(r.key, r.dec)
      /\ r.dec # "granted" => (recOwed # None => recOwed.dec # "granted")
  BY <1>2 DEF Base, CallInv, Middle, KnownInv, MintOK, Owed
<1>4. /\ r.key \in wit => RecordHas(r.key)
      /\ r.dec # "granted" => recOwed # None \/ RecordHas(r.key)
  BY <1>2 DEF Denials, HeldInv
<1>5. HandKept
  BY <1>2 DEF HandKept, InHand, passVars
<1>6. Deciding'
  BY <1>2 DEF Deciding
<1>7. OwedTop'
  BY <1>6 DEF OwedTop
<1>8. CASE ~minted
  <2>1. mintOwed' = r /\ UNCHANGED <<outFile, outboxVars, wit>>
    BY <1>1, <1>8 DEF Mints
  <2>2. /\ Onhand' = Onhand /\ All' = All /\ \A k : Top(k)' <=> Top(k)
    BY <2>1 DEF Onhand, Filed, All, Top, outboxVars
  <2>3. \A k : Covered(k)' <=> Covered(k)
    BY <1>2, <2>1, <2>2 DEF Covered, Lost, OnFile, FreshReceipt, outboxVars
  <2>4. \A k : Proof(k) => Proof(k)'
    BY <1>2, <1>3, <2>1 DEF Proof, outboxVars
  <2>5. DeniedInv'
    BY <1>2, <2>1, <2>2, <2>3, <2>4 DEF Denials, DeniedInv, outboxVars
  <2>6. ZeroInv'
    BY <1>2, <2>1 DEF Denials, ZeroInv
  <2>7. HeldInv'
    BY <1>2, <1>3, <1>4, <1>6, <2>1 DEF HeldInv, RecordHas
  <2>8. CoverKept /\ HistoryKept
    BY <1>2, <2>1, <2>3 DEF CoverKept, HistoryKept, Taken
  <2>9. HandInv'
    BY <1>5, <2>8, HandKeeps DEF Denials
  <2>10. LiveInv'
    BY <1>2, <2>1, LiveKeeps DEF Denials
  <2> QED
    BY <1>7, <2>5, <2>6, <2>7, <2>9, <2>10 DEF Denials
<1>9. CASE minted
  <2>1. /\ mintOwed' = None /\ Appends(r)
        /\ \/ Unwritten(Append(trail, r), settled, marks)
           \/ Written(Append(trail, r), settled, marks)
    BY <1>1, <1>9 DEF Mints
  <2>2. ~Granted(r) => Proof(r.key)' \/ RecordHas(r.key)
    BY <1>2, <1>3, <1>4, <1>9, <2>1 DEF Granted, Proof, Appends
  <2>3. CoverKept /\ ZeroInv' /\ DeniedInv'
    BY <1>2, <1>3, <1>4, <2>1, <2>2, AppendDenials DEF Base, TypeInv, OutboxTypes
  <2>4. HistoryKept /\ wit' \cup mine' = wit \cup mine
    BY <1>2, <1>3, <2>1, AppendHistory
  <2>5. HeldInv'
    BY <1>2, <1>3, <1>4, <1>6, <2>1 DEF HeldInv, RecordHas
  <2>6. HandInv'
    BY <1>5, <2>3, <2>4, HandKeeps DEF Denials
  <2>7. LiveInv'
    BY <1>2, <2>4, LiveKeeps DEF Denials
  <2> QED
    BY <1>7, <2>3, <2>5, <2>6, <2>7 DEF Denials
<1> QED
  BY <1>8, <1>9

-----------------------------------------------------------------------------
(* Steps that write the decision record.                                   *)

LEMMA RecordDenials ==
    ASSUME Base, Denials, up, NEW r \in Rcpt, NEW persisted \in BOOLEAN, Records(r, persisted),
           r.key \in wit \cup mine, \A t \in All : t.key <= r.key /\ t.at <= r.at,
           UNCHANGED <<up, kind, mine, damage>>, \A c \in Callers : call[c].pc # "mark",
           \A n \in wit : Top(n) /\ kind[n] # "granted" /\ n > r.key => damage > 0 /\ r.dec # "granted"
    PROVE  CoverKept /\ ZeroInv' /\ DeniedInv' /\ HistoryKept /\ wit' \cup mine' = wit \cup mine
<1>0. /\ Onhand' = Onhand /\ All' = All /\ UNCHANGED <<outFile, trail, preserve>>
      /\ wit \subseteq wit' /\ r.key \in Nat /\ wit \in SUBSET Nat /\ TypeInv
      /\ \A t \in All : t.key \in Nat /\ t.at \in Nat
  BY RcptFields, AllTypes DEF Records, Onhand, Filed, All, Base, TypeInv, OutboxTypes
<1>1. HistoryKept /\ wit' \cup mine' = wit \cup mine
  BY <1>0 DEF HistoryKept, Taken, Records
<1>2. CASE persisted
  <2>1. /\ recFile' = Record(r.dec, r.at, r.key) /\ wit' = wit \cup {r.key}
        /\ recFile'.st = "ok" /\ recFile'.key = r.key /\ recFile'.dec = r.dec /\ recFile'.at = r.at
        /\ recFile'.unw = FALSE
    BY <1>2 DEF Records, Record
  <2>2. ASSUME NEW n \in wit', Top(n)', kind[n] # "granted" PROVE Covered(n)'
    <3>1. r.key <= n /\ Top(n) /\ n \in Nat
      BY <1>0, <2>1, <2>2 DEF Top
    <3>2. CASE n = r.key
      BY <2>1, <3>2 DEF Covered
    <3>3. CASE n # r.key
      BY <1>0, <2>1, <3>1, <3>3, <2>2 DEF Covered, Lost
    <3> QED
      BY <3>2, <3>3
  <2>3. CoverKept
    BY <1>0, <2>2 DEF CoverKept
  <2>4. ASSUME NEW t \in Onhand', ~Granted(t), Top(t.key)', t.key \in wit' => ~Covered(t.key)'
        PROVE  FALSE
    BY <1>0, <2>1, <2>4, RcptKind, <2>2 DEF All, Top
  <2>5. DeniedInv'
    BY <2>2, <2>4 DEF DeniedInv, Granted
  <2>6. ZeroInv'
    BY <1>0, <2>1 DEF Denials, ZeroInv
  <2> QED
    BY <1>1, <2>3, <2>5, <2>6
<1>3. CASE ~persisted
  <2>1. recFile' = recFile /\ marks' = marks /\ wit' = wit
    BY <1>3 DEF Records
  <2>2. \A k : Top(k)' <=> Top(k)
    BY <2>1 DEF Top
  <2>3. \A k : Covered(k)' <=> Covered(k)
    BY <1>0, <2>1 DEF Covered, Lost, OnFile, FreshReceipt
  <2>4. \A k : Proof(k) => Proof(k)'
    BY <2>1 DEF Proof
  <2>5. DeniedInv'
    BY <1>0, <2>1, <2>2, <2>3, <2>4 DEF Denials, DeniedInv
  <2>6. CoverKept /\ ZeroInv'
    BY <1>0, <2>1, <2>3 DEF Denials, ZeroInv, CoverKept
  <2> QED
    BY <1>1, <2>5, <2>6
<1> QED
  BY <1>2, <1>3

LEMMA RetryRecordDenials ==
    ASSUME Base, Denials, NEW d \in Dispatchers, RetryRecord(d)
    PROVE  Denials'
<1>0. /\ up /\ pass \in [Dispatchers -> Pass]
      /\ UNCHANGED <<up, live, epoch, lastStamp, call, kind, mine, damage>>
  BY RetryRecordPlain DEF Base, TypeInv, PassTypes
<1>1. HandKept
  BY <1>0 DEF HandKept, InHand, RetryRecord, PassTo, Pass
<1>2. CASE CoreUnchanged
  BY <1>1, <1>2, CoreDenials, HandKeeps DEF Denials
<1>3. CASE ~CoreUnchanged
  <2>a. recOwed \in Rcpt
    BY <1>3, RetryRecordPlain
  <2>b. PICK r \in Rcpt : r = recOwed
    BY <2>a
  <2>1. recOwed # None /\ ~Deciding
    BY <1>3, RetryRecordPlain
  <2>2. PICK persisted \in BOOLEAN : Records(r, persisted)
    BY <1>3, <2>b, RetryRecordPlain
  <2>3. /\ r.key \in wit \cup mine /\ r.key \in Nat
        /\ \A t \in All : t.key <= r.key /\ t.at <= r.at
        /\ mintOwed # None => mintOwed = r
    BY <2>b, <2>1, RcptFields DEF Base, KnownInv, OwedInv
  <2>4. \A n \in wit : Top(n) /\ kind[n] # "granted" /\ n > r.key => damage > 0 /\ r.dec # "granted"
    BY <2>b, <2>1 DEF Denials, OwedTop
  <2>5. \A c \in Callers : call[c].pc \notin {"mint", "record", "mark"}
    BY <2>1 DEF Deciding
  <2>6. CoverKept /\ ZeroInv' /\ DeniedInv' /\ HistoryKept /\ wit' \cup mine' = wit \cup mine
    BY <1>0, <2>2, <2>3, <2>4, <2>5, RecordDenials
  <2>7. HeldInv'
    <3>1. mintOwed' = mintOwed
      BY <2>2 DEF Records
    <3>2. CASE persisted
      BY <2>2, <3>2, <1>0, <2>3, <2>5, <3>1 DEF Records, Record, RecordHas, HeldInv
    <3>3. CASE ~persisted
      BY <2>b, <2>2, <3>3, <1>0, <2>5, <3>1 DEF Records, HeldInv, Denials, RecordHas, Deciding
    <3> QED
      BY <3>2, <3>3
  <2>8. OwedTop'
    BY <1>0, <2>b, <2>2 DEF Denials, OwedTop, Records, Deciding, Top
  <2>9. HandInv'
    BY <1>1, <2>6, HandKeeps DEF Denials
  <2>10. LiveInv'
    BY <1>0, <2>6, LiveKeeps DEF Denials
  <2> QED
    BY <2>6, <2>7, <2>8, <2>9, <2>10 DEF Denials
<1> QED
  BY <1>2, <1>3

LEMMA GrantRecordDenials ==
    ASSUME Base, Denials, NEW c \in Callers, GrantRecord(c)
    PROVE  Denials'
<1>m. PICK r \in Rcpt, persisted \in BOOLEAN : GrantRecords(c, r, persisted)
  BY GrantRecordPlain
<1>1. /\ up /\ call[c].pc = "record" /\ call[c].dec = "granted" /\ r.key = call[c].key /\ r.at = call[c].at
      /\ Records(r, persisted)
      /\ call'[c].pc = "mark" /\ call'[c].key = call[c].key /\ call'[c].dec = call[c].dec
      /\ \A o \in Callers : o # c => call'[o] = call[o]
      /\ UNCHANGED <<up, live, epoch, lastStamp, passVars, kind, mine, damage>>
  BY CallFields, <1>m DEF Base, GrantRecords, Owed, Call
<1>2. /\ \A o \in Callers : o # c => call[o].pc \notin {"mint", "record", "mark"}
      /\ \A k \in wit : k <= r.key
      /\ r.key \in mine /\ \A t \in All : t.key <= r.key /\ t.at <= r.at
  BY <1>1 DEF Base, CallInv, Middle, KnownInv, MintedOK
<1>3. CoverKept /\ ZeroInv' /\ DeniedInv' /\ HistoryKept /\ wit' \cup mine' = wit \cup mine
  BY <1>1, <1>2, RcptFields, RecordDenials DEF Base, TypeInv, OutboxTypes
<1>4. HeldInv'
  BY <1>1, <1>2 DEF Records, Denials, HeldInv, Record, RecordHas, Deciding
<1>5. OwedTop'
  BY <1>1 DEF OwedTop, Deciding
<1>6. HandInv'
  BY <1>1, <1>3, HandKeeps DEF HandKept, InHand, passVars, Denials
<1>7. LiveInv'
  BY <1>1, <1>3, LiveKeeps DEF Denials
<1> QED
  BY <1>3, <1>4, <1>5, <1>6, <1>7 DEF Denials

LEMMA BeginDenialDenials ==
    ASSUME Base, Denials, NEW c \in Callers, BeginDenial(c)
    PROVE  Denials'
<1>m. PICK r \in Rcpt, persisted \in BOOLEAN : DenialBegins(c, r, persisted)
  BY BeginDenialPlain
<1>1. /\ up /\ call[c].pc = "turn" /\ r.key = call[c].key /\ r.at > lastStamp
      /\ Records(r, persisted)
      /\ call'[c].pc = "mint" /\ call'[c].key = call[c].key /\ call'[c].dec = call[c].dec
      /\ \A o \in Callers : o # c => call'[o] = call[o]
      /\ UNCHANGED <<up, live, epoch, passVars, kind, mine, damage>>
  BY CallFields, <1>m DEF Base, DenialBegins, Call
<1>2. /\ \A o \in Callers : call[o].pc \notin {"mint", "record", "mark"}
      /\ \A k \in wit : k < r.key
      /\ r.key \in mine /\ \A t \in All : t.key <= r.key /\ t.at <= r.at
  <2>1. TurnOK(call[c]) /\ \A o \in Callers : call[o].pc \notin Middle
    BY TurnAlone DEF BeginDenial
  <2>2. call[c].key \in mine
    BY <1>1 DEF Base, KnownInv
  <2>3. \A t \in All : t.key < r.key /\ t.at <= lastStamp
    BY <1>1, <2>1 DEF TurnOK, Base, StampInv
  <2>4. (\A t \in All : t.key \in Nat /\ t.at \in Nat) /\ r.key \in Nat /\ r.at \in Nat /\ lastStamp \in Nat
    BY AllTypes, RcptFields DEF Base, TypeInv, CoreTypes
  <2> QED
    BY <1>1, <2>1, <2>2, <2>3, <2>4 DEF TurnOK, Middle
<1>3. CoverKept /\ ZeroInv' /\ DeniedInv' /\ HistoryKept /\ wit' \cup mine' = wit \cup mine
  <2>1. \A n \in wit : n \in Nat /\ r.key \in Nat
    BY RcptFields DEF Base, TypeInv, OutboxTypes
  <2>2. \A n \in wit : Top(n) /\ kind[n] # "granted" /\ n > r.key => damage > 0 /\ r.dec # "granted"
    BY <1>2, <2>1
  <2>3. r.key \in wit \cup mine /\ \A o \in Callers : call[o].pc # "mark"
    BY <1>2
  <2> QED
    BY <1>1, <1>2, <2>2, <2>3, RecordDenials
<1>4. HeldInv'
  <2>1. r.key \in wit' => RecordHas(r.key)'
    BY <1>2, RcptFields, <1>1 DEF Records, Record, RecordHas
  <2>2. recOwed' # None \/ RecordHas(r.key)'
    BY <1>1, RcptFields DEF Records, Record, RecordHas
  <2> QED
    BY <1>1, <1>2, <2>1, <2>2 DEF HeldInv, Deciding
<1>5. OwedTop'
  BY <1>1 DEF OwedTop, Deciding
<1>6. HandInv'
  BY <1>1, <1>3, HandKeeps DEF HandKept, InHand, passVars, Denials
<1>7. LiveInv'
  BY <1>1, <1>3, LiveKeeps DEF Denials
<1> QED
  BY <1>3, <1>4, <1>5, <1>6, <1>7 DEF Denials

-----------------------------------------------------------------------------
(* Steps that move a caller and touch no file.                             *)

LEMMA FilesDenials ==
    ASSUME Base, Denials, FilesUnchanged, \A k : Taken(k) => Taken(k)' /\ kind'[k] = kind[k],
           \A k : Proof(k) => Proof(k)'
    PROVE  /\ ZeroInv' /\ DeniedInv' /\ HandInv'
           /\ \A k : Top(k)' <=> Top(k)
           /\ \A k \in wit : kind'[k] = kind[k]
<1>1. /\ Onhand' = Onhand /\ All' = All /\ \A k : Top(k)' <=> Top(k)
      /\ UNCHANGED <<recFile, outFile, up, trail, preserve, recOwed, mintOwed, pass, wit, damage>>
  BY DEF FilesUnchanged, Onhand, Filed, All, Top, passVars
<1>2. \A k : Covered(k)' <=> Covered(k)
  BY <1>1 DEF Covered, Lost, OnFile, FreshReceipt
<1>3. \A k \in wit : kind'[k] = kind[k]
  BY DEF Base, KnownInv
<1>4. ZeroInv'
  BY <1>1 DEF Denials, ZeroInv
<1>5. DeniedInv'
  BY <1>1, <1>2, <1>3 DEF Denials, DeniedInv
<1>6. HandInv'
  BY <1>1, <1>2, HandKeeps DEF HandKept, InHand, HistoryKept, CoverKept, Denials
<1> QED
  BY <1>1, <1>3, <1>4, <1>5, <1>6

LEMMA BeginGrantDenials ==
    ASSUME Base, Denials, NEW c \in Callers, BeginGrant(c)
    PROVE  Denials'
<1>1. /\ up /\ MyTurn(c) /\ call[c].dec = "granted" /\ FilesUnchanged
      /\ marks' = marks /\ epoch' = epoch /\ kind' = kind
      /\ \A o \in Callers : o # c => call'[o] = call[o]
      /\ \/ /\ call'[c].pc = "mint" /\ call'[c].key = call[c].key /\ call'[c].dec = call[c].dec /\ mine' = mine
            /\ live' = IF epoch = call[c].snap THEN "granted" ELSE live
         \/ call'[c].pc = "idle" /\ mine' = mine \ {call[c].key} /\ live' = live
  <2>1. call[c] \in Call
    BY CallFields DEF Base
  <2>2. call'[c] = [call[c] EXCEPT !.pc = "mint"] =>
            call'[c].pc = "mint" /\ call'[c].key = call[c].key /\ call'[c].dec = call[c].dec
    BY <2>1 DEF Call
  <2> QED
    BY <2>2, BeginGrantPlain, IdleIsCall
<1>2. /\ call[c].pc = "turn" /\ ~Deciding
      /\ \A o \in Callers : call[o].pc \notin {"mint", "record", "mark"}
      /\ \A o \in Callers : o # c /\ call[o].pc # "idle" => call[o].pc = "turn" /\ call[c].key < call[o].key
      /\ \A k \in wit : k < call[c].key
      /\ call[c].key \in mine
  BY <1>1, TurnAlone DEF TurnOK, Middle, Base, KnownInv
<1>n. \A o \in Callers : call[o].key \in Nat
  BY CallFields DEF Base
<1>3. UNCHANGED <<recFile, recOwed, mintOwed, wit, damage>>
  BY <1>1 DEF FilesUnchanged
<1>4. /\ ZeroInv' /\ DeniedInv' /\ HandInv' /\ \A k : Top(k)' <=> Top(k)
  BY <1>1, <1>2, FilesDenials DEF Proof, Taken
<1>5. HeldInv'
  BY <1>2, <1>n, <1>1, <1>3 DEF Denials, HeldInv, RecordHas
<1>6. OwedTop'
  BY <1>1, <1>2, <1>3, <1>4 DEF Denials, OwedTop
<1>7. LiveInv'
  <2>1. \A o \in Callers : call'[o].pc = "turn" => o # c /\ call[o].pc = "turn" /\ call'[o] = call[o]
    BY <1>1
  <2>2. wit' \cup mine' \subseteq wit \cup mine
    BY <1>1, <1>3
  <2>3. \A o \in Callers : call'[o].pc = "turn" =>
            /\ call'[o].snap <= epoch'
            /\ call'[o].dec = "granted" /\ epoch' = call'[o].snap =>
                  \A j \in wit' \cup mine' : j >= call'[o].key => kind'[j] = "granted"
    BY <1>1, <2>1, <2>2 DEF Denials, LiveInv
  <2>4. ASSUME live' = "granted"
        PROVE  \E k \in wit' \cup mine' :
                  /\ \A j \in wit' \cup mine' : j >= k => kind'[j] = "granted"
                  /\ \A o \in Callers : call'[o].pc = "turn" => call'[o].key # k
    <3>1. CASE live = "granted"
      BY <3>1, <1>1, <1>2, <1>3, <2>1, <2>2 DEF Denials, LiveInv
    <3>2. CASE live # "granted"
      <4>1. epoch = call[c].snap /\ mine' = mine
        BY <1>1, <2>4, <3>2
      <4>2. \A j \in wit \cup mine : j >= call[c].key => kind[j] = "granted"
        BY <1>1, <1>2, <4>1 DEF Denials, LiveInv
      <4>3. \A o \in Callers : call'[o].pc = "turn" => call'[o].key # call[c].key
        BY <1>2, <1>n, <2>1
      <4> QED
        BY <1>1, <1>2, <1>3, <4>1, <4>2, <4>3
    <3> QED
      BY <3>1, <3>2
  <2> QED
    BY <2>3, <2>4 DEF LiveInv
<1> QED
  BY <1>4, <1>5, <1>6, <1>7 DEF Denials

LEMMA FinishDenials ==
    ASSUME Base, Denials, NEW c \in Callers, FinishDecision(c)
    PROVE  Denials'
<1>1. /\ up /\ call[c].pc = "mark" /\ FilesUnchanged
      /\ marks' = (IF call[c].minted /\ recOwed # None THEN marks \cup {call[c].key} ELSE marks)
      /\ live' = live /\ epoch' = epoch /\ kind' = kind /\ mine' = mine
      /\ call'[c].pc = "idle" /\ \A o \in Callers : o # c => call'[o] = call[o]
  BY FinishPlain, IdleIsCall
<1>2. /\ \A o \in Callers : o # c => call[o].pc \notin {"mint", "record", "mark"}
      /\ \A k \in wit : k <= call[c].key
      /\ mintOwed # None => mintOwed.key = call[c].key /\ mintOwed.dec = call[c].dec
      /\ recOwed # None => recOwed.key = call[c].key
  BY <1>1 DEF Base, CallInv, Middle, MintedOK, Owed
<1>3. UNCHANGED <<recFile, recOwed, mintOwed, wit, damage>>
  BY <1>1 DEF FilesUnchanged
<1>4. ZeroInv' /\ DeniedInv' /\ HandInv'
  BY <1>1, <1>2, FilesDenials DEF Proof, Taken
<1>5. HeldInv'
  BY <1>1, <1>2, <1>3 DEF Denials, HeldInv, RecordHas
<1>6. OwedTop'
  BY CallFields, <1>2, <1>3 DEF Base, TypeInv, OutboxTypes, OwedTop
<1>7. LiveInv'
  BY <1>1, <1>3, LiveKeeps DEF Denials
<1> QED
  BY <1>4, <1>5, <1>6, <1>7 DEF Denials

LEMMA DecideDenials ==
    ASSUME Base, Denials, NEW c \in Callers, NEW dec \in Kinds, Decide(c, dec)
    PROVE  Denials'
<1> DEFINE n == Len(kind) + 1
<1>1. /\ up /\ call[c].pc = "idle" /\ FilesUnchanged /\ marks' = marks
      /\ live' = (IF dec = "granted" THEN live ELSE dec) /\ epoch' = (IF dec = "granted" THEN epoch ELSE epoch + 1)
      /\ n \in Nat /\ ~Taken(n) /\ (\A k : Taken(k) => k < n /\ k \in Nat)
      /\ (\A k : Taken(k)' <=> Taken(k) \/ k = n)
      /\ (\A k : Taken(k) => kind'[k] = kind[k]) /\ kind'[n] = dec
      /\ mine' = mine \cup {n}
      /\ (\A o \in Callers : o # c => call'[o] = call[o])
      /\ call'[c].pc = "turn" /\ call'[c].dec = dec /\ call'[c].key = n /\ call'[c].snap = epoch
  BY DecidePlain
<1> HIDE DEF n
<1>2. UNCHANGED <<recFile, recOwed, mintOwed, wit, damage>>
  BY <1>1 DEF FilesUnchanged
<1>3. \A k \in wit \cup mine : Taken(k) /\ k < n /\ k \in Nat /\ kind'[k] = kind[k]
  BY <1>1 DEF Base, KnownInv
<1>4. /\ ZeroInv' /\ DeniedInv' /\ HandInv' /\ \A k : Top(k)' <=> Top(k)
  <2>1. \A k : Proof(k) => Proof(k)'
    BY <1>1, <1>2 DEF FilesUnchanged, Proof
  <2>2. \A k : Taken(k) => Taken(k)' /\ kind'[k] = kind[k]
    BY <1>1
  <2> QED
    BY <1>1, <2>1, <2>2, FilesDenials
<1>5. Deciding' <=> Deciding
  BY <1>1 DEF Deciding
<1>6. HeldInv'
  BY <1>1, <1>2, <1>5 DEF Denials, HeldInv, RecordHas
<1>7. OwedTop'
  BY <1>2, <1>3, <1>4, <1>5 DEF Denials, OwedTop
<1>8. LiveInv'
  <2>0. epoch \in Nat /\ \A o \in Callers : call[o].snap \in Nat /\ call[o].key \in Nat
    BY CallFields DEF Base, TypeInv, CoreTypes
  <2>1. wit' \cup mine' = wit \cup mine \cup {n}
    BY <1>1, <1>2
  <2>2. ASSUME live' = "granted"
        PROVE  \E k \in wit' \cup mine' :
                  /\ \A j \in wit' \cup mine' : j >= k => kind'[j] = "granted"
                  /\ \A o \in Callers : call'[o].pc = "turn" => call'[o].key # k
    <3>1. dec = "granted" /\ live = "granted"
      BY <1>1, <2>2
    <3>2. PICK k \in wit \cup mine :
                  /\ \A j \in wit \cup mine : j >= k => kind[j] = "granted"
                  /\ \A o \in Callers : call[o].pc = "turn" => call[o].key # k
      BY <3>1 DEF Denials, LiveInv
    <3>3. \A j \in wit' \cup mine' : j >= k => kind'[j] = "granted"
      BY <1>1, <1>3, <2>1, <3>1, <3>2
    <3>4. \A o \in Callers : call'[o].pc = "turn" => call'[o].key # k
      BY <1>1, <1>3, <3>2
    <3> QED
      BY <2>1, <3>2, <3>3, <3>4
  <2>3. ASSUME NEW o \in Callers, call'[o].pc = "turn"
        PROVE  /\ call'[o].snap <= epoch'
               /\ call'[o].dec = "granted" /\ epoch' = call'[o].snap =>
                     \A j \in wit' \cup mine' : j >= call'[o].key => kind'[j] = "granted"
    <3>1. CASE o = c
      BY <1>1, <2>0, <3>1, <1>3, <2>1
    <3>2. CASE o # c
      <4>1. call'[o] = call[o] /\ call[o].pc = "turn" /\ call[o].snap <= epoch
        BY <1>1, <2>3, <3>2 DEF Denials, LiveInv
      <4>2. CASE dec = "granted"
        BY <4>1, <1>1, <1>3, <2>1, <4>2 DEF Denials, LiveInv
      <4>3. CASE dec # "granted"
        BY <2>0, <4>1, <1>1, <4>3
      <4> QED
        BY <4>2, <4>3
    <3> QED
      BY <3>1, <3>2
  <2> QED
    BY <2>2, <2>3 DEF LiveInv
<1> QED
  BY <1>4, <1>6, <1>7, <1>8 DEF Denials

-----------------------------------------------------------------------------
(* Crash, damage and restart.                                              *)

LEMMA CrashDenials ==
    ASSUME Base, Denials, Crash
    PROVE  Denials'
<1>1. /\ UNCHANGED <<recFile, outFile, kind, wit, damage>> /\ up' = FALSE /\ live' = "undecided"
      /\ trail' = <<>> /\ recOwed' = None /\ mintOwed' = None
      /\ call' = [c \in Callers |-> IdleCall] /\ pass' = [d \in Dispatchers |-> IdlePass]
  BY DEF Crash, diskVars
<1>2. /\ \A c \in Callers : call'[c].pc = "idle"
      /\ \A d \in Dispatchers : ~InHand(d)'
  BY <1>1 DEF IdleCall, IdlePass, InHand
<1>3. Onhand' = {} /\ All' \subseteq All
  BY <1>1, EmptyTrail DEF Onhand, Filed, All
<1>4. \A k : Top(k)' <=> Top(k)
  BY <1>1 DEF Top
<1>5. ZeroInv' /\ HeldInv' /\ OwedTop' /\ HandInv' /\ LiveInv'
  BY <1>1, <1>2 DEF Denials, ZeroInv, HeldInv, OwedTop, HandInv, LiveInv, Deciding
<1>6. \A n : Covered(n) => Covered(n)'
  BY <1>1, <1>3 DEF Covered, Lost, OnFile
<1>7. DeniedInv'
  BY <1>1, <1>3, <1>4, <1>6 DEF Denials, DeniedInv
<1> QED
  BY <1>5, <1>7 DEF Denials

LEMMA DamageDenials ==
    ASSUME Base, Denials, DamageFile
    PROVE  Denials'
<1>1. /\ ~up /\ ~up' /\ damage' = damage + 1 /\ (recFile'.st = "bad" \/ outFile'.st = "bad")
      /\ UNCHANGED <<live, epoch, trail, recOwed, mintOwed, call, pass, kind, mine, wit>>
  BY DamagePlain DEF AbsentRecord, Damages, outboxVars, passVars
<1>2. damage' > 0
  BY <1>1 DEF Base, TypeInv, CoreTypes
<1>3. /\ \A c \in Callers : call'[c].pc = "idle" /\ recOwed' = None /\ mintOwed' = None
      /\ \A d \in Dispatchers : ~InHand(d)'
      /\ Onhand' = {}
  BY <1>1, EmptyTrail DEF Base, DownInv, InHand, Onhand
<1>4. \A n : Covered(n)'
  BY <1>1, <1>2 DEF Covered, Lost
<1>5. DeniedInv'
  BY <1>1, <1>3, <1>4 DEF DeniedInv
<1>6. ZeroInv' /\ HandInv'
  BY <1>2, <1>3 DEF ZeroInv, HandInv
<1>7. HeldInv' /\ OwedTop'
  BY <1>1, <1>3 DEF Base, DownInv, HeldInv, OwedTop
<1>8. LiveInv'
  BY <1>1, LiveKeeps DEF Denials
<1> QED
  BY <1>5, <1>6, <1>7, <1>8 DEF Denials

\* Files in which no grant can be proved resolve to none.
LEMMA LostBlocks ==
    ASSUME Base, ~up \/ trail = outFile.rs, Lost
    PROVE  /\ TailHeals(recFile, outFile) => ~Granted(Last(outFile.rs))
           /\ RestoredState(recFile, outFile) # "granted"
<1> DEFINE heals == TailHeals(recFile, outFile)
           rec == Resolved(recFile, outFile)
           t == Last(outFile.rs)
<1>0. /\ All = Filed /\ recFile.at \in Nat /\ recFile.unwAt \in Nat
      /\ \A r \in Filed : r.at \in Nat /\ OnFile(r)
  BY EmptyTrail, AllTypes, RecFields DEF Base, TypeInv, DownInv, Onhand, Filed, All, KnownInv, OnFile
<1>1. /\ heals => /\ t \in Filed /\ rec.dec = t.dec
                  /\ Granted(t) => outFile.st = "ok" /\ recFile.st # "bad" /\ (recFile.unw => t.at > recFile.unwAt)
                  /\ recFile.st # "ok" \/ t.at > recFile.at
      /\ ~heals => rec = recFile
  BY ResolvedIs DEF TailHeals, MarkSupersededBy
<1>2. /\ RestoredState(recFile, outFile) = "granted" =>
             rec.st = "ok" /\ rec.dec = "granted" /\ outFile.st # "bad" /\ ~rec.unw
  BY DEF RestoredState, GrantsUnprovable
<1> HIDE DEF heals, rec, t
<1>3. CASE recFile.st = "bad"
  BY <1>1, <1>2, <1>3 DEF heals, t, Granted
<1>4. CASE outFile.st = "bad"
  BY <1>1, <1>2, <1>4 DEF heals, t, Granted
<1>5. CASE recFile.st = "ok" /\ recFile.dec # "granted" /\ \A r \in Filed : r.at <= recFile.at
  BY <1>0, <1>1, <1>5, <1>2 DEF heals
<1>6. CASE recFile.st = "ok" /\ recFile.unw /\ \A r \in Filed : r.at <= recFile.unwAt
  BY <1>0, <1>1, <1>6, <1>2 DEF heals, t, Granted
<1> QED
  BY <1>0, <1>3, <1>4, <1>5, <1>6 DEF Lost

\* The record of the newest decision on disk is not healed over.
LEMMA RecordNotHealed ==
    ASSUME Base, recFile.st = "ok", NEW n \in wit, Top(n), recFile.key = n \/ recFile.dec = "minor"
    PROVE  ~TailHeals(recFile, outFile)
<1>0. /\ TypeInv /\ wit \in SUBSET Nat /\ recFile.at \in Nat
      /\ \A r \in Filed : r.key \in Nat /\ r.at \in Nat /\ r.key \in wit /\ r \in All
  BY AllTypes, RecFields DEF Base, TypeInv, KnownInv, OutboxTypes, All
<1> SUFFICES ASSUME TailHeals(recFile, outFile) PROVE FALSE
  OBVIOUS
<1>1. recFile.key = n /\ Last(outFile.rs).at > recFile.at
  BY DEF TailHeals
<1>2. PICK t \in Filed : t = Last(outFile.rs)
  BY ResolvedIs
<1>3. t.key <= recFile.key
  BY <1>0, <1>1 DEF Top
<1>4. t.at <= recFile.at
  BY <1>0, <1>3 DEF Base, StampInv
<1> QED
  BY <1>0, <1>1, <1>2, <1>4

\* Files that cover the newest denial resolve to no grant.
LEMMA CoveredBlocks ==
    ASSUME Base, ~up \/ trail = outFile.rs, NEW n \in wit, Top(n), kind[n] # "granted", Covered(n)
    PROVE  /\ TailHeals(recFile, outFile) => ~Granted(Last(outFile.rs)) /\ damage > 0
           /\ RestoredState(recFile, outFile) # "granted"
<1>1. CASE recFile.st = "ok" /\ (recFile.key = n \/ recFile.dec = "minor")
  BY <1>1, RecordNotHealed, ResolvedIs DEF Base, KnownInv, Is, RestoredState
<1>2. CASE Lost
  BY <1>2, LostBlocks DEF Lost
<1> QED
  BY <1>1, <1>2 DEF Covered

\* The newest denial on disk is covered, or the trail's tail tells a start.
LEMMA DeniedTop ==
    ASSUME Base, Denials, ~up \/ trail = outFile.rs, NEW n \in wit, Top(n), kind[n] # "granted", ~Covered(n)
    PROVE  /\ TailHeals(recFile, outFile)
           /\ Last(outFile.rs).key = n /\ ~Granted(Last(outFile.rs)) /\ outFile.rs # <<>>
<1> DEFINE t == Last(outFile.rs)
<1>0. /\ outFile.rs \in Seq(Rcpt) /\ Ordered(outFile.rs) /\ wit \in SUBSET Nat /\ TypeInv
      /\ \A r \in Filed : r.key \in Nat /\ r.at \in Nat /\ r.key \in wit /\ r \in All
      /\ All = Filed /\ recFile.key \in Nat /\ recFile.unwAt \in Nat
  <2>1. OutboxTypes /\ TypeInv /\ (~up => trail = <<>>)
    BY DEF Base, TypeInv, DownInv
  <2>2. All = Filed
    BY <2>1, EmptyTrail DEF Onhand, Filed, All
  <2>3. \A r \in Filed : r.key \in Nat /\ r.at \in Nat /\ r.key \in wit
    BY <2>1, <2>2, AllTypes DEF Base, KnownInv
  <2> QED
    BY <2>1, <2>2, <2>3, AllTypes, RecFields DEF OutboxTypes, Base, KeptInv, TrailOrdered
<1>1. n \in Keys(outFile.rs)
  BY DEF Denials, DeniedInv
<1>2. PICK r \in Filed : r.key = n
  BY <1>0, <1>1, KeysOf DEF Filed
<1>3. outFile.rs # <<>>
  BY <1>0, <1>2, EmptyTrail DEF Filed
<1>4. t \in Filed /\ \A q \in Filed : q.key <= t.key /\ q.at <= t.at
  BY <1>0, <1>3, LastIsNewest DEF Filed
<1>5. t.key = n
  BY <1>0, <1>4, <1>2 DEF Top
<1> HIDE DEF t
<1>6. ~Granted(t)
  BY <1>0, <1>4, <1>5, RcptKind
<1>7. ~(recFile.st = "ok" /\ recFile.dec = "minor")
  BY DEF Covered
<1>8. recFile.st # "ok" \/ t.at > recFile.at
  <2> SUFFICES ASSUME recFile.st = "ok", ~(t.at > recFile.at) PROVE FALSE
    OBVIOUS
  <2>1. recFile.key # n
    BY DEF Covered
  <2>2. recFile.key < t.key
    BY <1>0, <1>5, <2>1 DEF Top, Base, KnownInv
  <2>3. recFile.unw /\ t.at <= recFile.unwAt
    BY <1>0, <1>4, <2>2 DEF Base, StampInv
  <2>4. damage > 0
    BY <2>3 DEF Denials, ZeroInv
  <2>5. \A q \in All : q.at <= recFile.unwAt
    BY <1>0, <1>4, <2>3
  <2> QED
    BY <2>3, <2>4, <2>5 DEF Covered, Lost
<1> QED
  BY <1>3, <1>5, <1>6, <1>7, <1>8 DEF TailHeals, t

\* Files that resolve to a grant hold no newer denial.
LEMMA RestoredTop ==
    ASSUME Base, Denials, ~up \/ trail = outFile.rs, RestoredState(recFile, outFile) = "granted"
    PROVE  \E k \in wit : Top(k) /\ kind[k] = "granted"
<1> DEFINE rec == Resolved(recFile, outFile)
<1>1. rec.st = "ok" /\ rec.dec = "granted"
  BY DEF RestoredState
<1>2. rec.key \in wit
  <2>1. CASE TailHeals(recFile, outFile)
    BY <2>1, ResolvedIs DEF Base, KnownInv
  <2>2. CASE ~TailHeals(recFile, outFile)
    BY <2>2, ResolvedIs, <1>1 DEF Base, KnownInv
  <2> QED
    BY <2>1, <2>2
<1>3. PICK k \in wit : Top(k)
  <2>1. wit \in SUBSET Nat /\ wit # {} /\ Len(kind) \in Nat /\ \A j \in wit : j <= Len(kind)
    BY <1>2 DEF Base, TypeInv, OutboxTypes, CoreTypes, KnownInv, Taken
  <2> QED
    BY <2>1, LargestNumber DEF Top
<1>4. kind[k] = "granted"
  <2> SUFFICES ASSUME kind[k] # "granted" PROVE FALSE
    OBVIOUS
  <2>1. ~Covered(k)
    BY <1>3, CoveredBlocks
  <2>2. TailHeals(recFile, outFile) /\ ~Granted(Last(outFile.rs))
    BY <1>3, <2>1, DeniedTop
  <2>3. rec.dec = Last(outFile.rs).dec
    BY <2>2, ResolvedIs
  <2> QED
    BY <1>1, <2>2, <2>3 DEF Granted
<1> QED
  BY <1>3, <1>4

\* Where a restart leaves the proof of a denial: in the record, in a mark, or,
\* with an unusable trail, in the mark of the record or the file itself.
LEMMA RestartProof ==
    ASSUME Base, NEW healed \in BOOLEAN, NEW marked \in BOOLEAN, NEW wiped \in BOOLEAN,
           Restart(healed, marked, wiped)
    PROVE  /\ TailHeals(recFile, outFile) =>
                 \/ recFile'.st = "ok" /\ recFile'.key = Last(outFile.rs).key
                 \/ Last(outFile.rs).key \in marks'
           /\ outFile.st = "bad" =>
                 preserve' \/ (recFile'.st = "ok" /\ recFile'.unw /\ \A r \in Filed : r.at <= recFile'.unwAt)
<1> DEFINE heals == TailHeals(recFile, outFile)
           rec == Resolved(recFile, outFile)
           unpr == GrantsUnprovable(recFile, outFile)
           at == IF outFile.rs = <<>> THEN rec.at ELSE SeqMax(0, outFile.rs)
           mn == unpr /\ rec.st = "ok" /\ MarkSupersededBy(rec, at)
<1>0. TypeInv /\ outFile.rs \in Seq(Rcpt) /\ Ordered(outFile.rs)
  BY AllTypes DEF Base, TypeInv, KeptInv, TrailOrdered
<1>1. /\ recFile' = CASE mn /\ marked -> Unwitnessed(rec, at)
                      [] heals /\ healed /\ ~(mn /\ marked) -> rec
                      [] OTHER -> recFile
      /\ marks' = IF heals /\ ~healed
                    THEN {outFile.rs[i].key : i \in {j \in 1..Len(outFile.rs) :
                            recFile.st # "ok" \/ outFile.rs[j].at > recFile.at}}
                    ELSE {}
      /\ preserve' = (unpr /\ (rec.st # "ok" \/ (mn /\ ~marked)))
  BY DEF Restart
<1>2. /\ rec \in Rec /\ rec.at \in Nat
      /\ heals => rec.st = "ok" /\ rec.key = Last(outFile.rs).key /\ rec.unw = FALSE
      /\ ~heals => rec = recFile
  BY ResolvedIs DEF Rec
<1>3. at \in Nat /\ \A r \in Filed : r.at <= at
  BY <1>2, EmptyTrail, <1>0, SeqMaxIs DEF Filed
<1>4. outFile.st = "bad" => unpr
  BY DEF GrantsUnprovable
<1>5. ASSUME heals, ~healed PROVE Last(outFile.rs).key \in marks'
  BY <1>5, <1>0, <1>1 DEF TailHeals, Last
<1>m. MarkSupersededBy(rec, at) <=> (rec.unw => at > rec.unwAt)
  BY DEF MarkSupersededBy
<1> HIDE DEF heals, rec, at, unpr
<1>6. LET q == Unwitnessed(rec, at) IN q.st = rec.st /\ q.key = rec.key /\ q.unw = TRUE /\ q.unwAt = at
  BY <1>2, <1>3, UnwitnessedIs
<1>7. ASSUME heals, healed PROVE recFile'.st = "ok" /\ recFile'.key = Last(outFile.rs).key
  BY <1>1, <1>7, <1>2, <1>6
<1>8. ASSUME outFile.st = "bad", ~preserve'
      PROVE  recFile'.st = "ok" /\ recFile'.unw /\ \A r \in Filed : r.at <= recFile'.unwAt
  <2>1. rec.st = "ok" /\ ~(mn /\ ~marked) /\ unpr
    BY <1>1, <1>4, <1>8
  <2>2. CASE mn
    BY <1>1, <1>3, <1>6, <2>1, <2>2
  <2>3. CASE ~mn
    <3>1. rec.unw /\ ~(at > rec.unwAt)
      BY <1>m, <2>1, <2>3
    <3>2. recFile' = recFile /\ rec = recFile /\ recFile.unwAt \in Nat
      BY <1>0, <1>1, <1>2, <2>3, <3>1, RecFields
    <3>3. \A r \in Filed : r.at <= recFile.unwAt
      BY <1>0, AllTypes, <1>3, <3>1, <3>2 DEF TypeInv, All
    <3> QED
      BY <2>1, <3>1, <3>2, <3>3
  <2> QED
    BY <2>2, <2>3
<1> QED
  BY <1>5, <1>7, <1>8 DEF heals

\* What is lost stays lost: a start proves no grant.
LEMMA RestartLost ==
    ASSUME Base, Lost, NEW healed \in BOOLEAN, NEW marked \in BOOLEAN, NEW wiped \in BOOLEAN,
           Restart(healed, marked, wiped)
    PROVE  Lost'
<1> DEFINE heals == TailHeals(recFile, outFile)
           t == Last(outFile.rs)
<1>p. PICK rec \in Rec : rec = Resolved(recFile, outFile)
  BY ResolvedIs
<1>1. /\ ~up /\ All = Filed /\ All' = Filed
      /\ \/ recFile' = recFile
         \/ recFile' = rec /\ heals
         \/ \E at \in Nat : /\ recFile' = Unwitnessed(rec, at) /\ rec.st = "ok"
                            /\ \A r \in Filed : r.at <= at
      /\ wit' = wit /\ outFile' = outFile /\ damage' = damage
  BY <1>p, RestartPlain DEF Restarts
<1>2. /\ heals => rec.st = "ok" /\ rec.dec = t.dec /\ \A r \in Filed : r.at <= rec.at
      /\ ~heals => rec = recFile
  BY <1>p, ResolvedIs
<1>3. outFile.st = "bad" =>
          preserve' \/ (recFile'.st = "ok" /\ recFile'.unw /\ \A r \in Filed : r.at <= recFile'.unwAt)
  BY RestartProof
<1>4. \A r \in Filed : OnFile(r)
  BY AllTypes DEF All, Base, TypeInv, KnownInv, OnFile
<1>b. (heals => ~Granted(t)) /\ damage' > 0
  BY <1>1, LostBlocks DEF Lost
<1> HIDE DEF heals, t
<1>u. ASSUME NEW at \in Nat
      PROVE  LET q == Unwitnessed(rec, at) IN
             /\ q.st = rec.st /\ q.dec = rec.dec /\ q.unw = TRUE /\ q.unwAt = at
             /\ rec.dec # "granted" => q.at = rec.at
  BY UnwitnessedIs
<1>r. \/ recFile' = recFile
      \/ /\ recFile'.st = rec.st /\ recFile'.dec = rec.dec /\ rec.st = "ok"
         /\ recFile' = rec \/ (recFile'.unw /\ \A r \in Filed : r.at <= recFile'.unwAt)
         /\ rec.dec # "granted" => recFile'.at = rec.at
  <2>1. CASE recFile' = rec /\ heals
    BY <1>2, <2>1
  <2>2. CASE \E at \in Nat : /\ recFile' = Unwitnessed(rec, at) /\ rec.st = "ok"
                             /\ \A r \in Filed : r.at <= at
    BY <2>2, <1>u
  <2> QED
    BY <1>1, <2>1, <2>2
<1>5. CASE heals /\ recFile' # recFile
  BY <1>2, <1>5, <1>b, <1>r, <1>1 DEF Granted, Lost
<1>6. CASE ~heals \/ recFile' = recFile
  <2>1. CASE recFile.st = "bad"
    BY <1>2, <1>6, <1>r, <2>1, <1>b DEF Lost
  <2>2. CASE outFile.st = "bad"
    BY <1>1, <1>3, <1>b, <2>2 DEF Lost
  <2>3. CASE recFile.st = "ok" /\ recFile.dec # "granted" /\ \A r \in Filed : r.at <= recFile.at
    BY <1>2, <1>6, <1>r, <2>3, <1>1, <1>b DEF Lost
  <2>4. CASE recFile.st = "ok" /\ recFile.unw /\ \A r \in Filed : r.at <= recFile.unwAt
    BY <1>2, <1>6, <1>r, <2>4, <1>1, <1>b DEF Lost
  <2> QED
    BY <1>1, <1>4, <2>1, <2>2, <2>3, <2>4 DEF Lost
<1> QED
  BY <1>5, <1>6

LEMMA RestartDenials ==
    ASSUME Base, Denials, mine = {}, NEW healed \in BOOLEAN, NEW marked \in BOOLEAN, NEW wiped \in BOOLEAN,
           Restart(healed, marked, wiped)
    PROVE  Denials'
<1> DEFINE heals == TailHeals(recFile, outFile)
           t == Last(outFile.rs)
<1>p. PICK rec \in Rec : rec = Resolved(recFile, outFile)
  BY ResolvedIs
<1>1. /\ ~up /\ up' = TRUE
      /\ All = Filed /\ Onhand' = Filed /\ All' = Filed
      /\ trail' = outFile.rs
      /\ \/ recFile' = recFile
         \/ recFile' = rec /\ heals
         \/ \E at \in Nat : /\ recFile' = Unwitnessed(rec, at) /\ rec.st = "ok"
                            /\ \A r \in Filed : r.at <= at
      /\ wit' = wit
      /\ \/ recOwed' = None
         \/ heals /\ recOwed' = Owed(rec.dec, rec.at, rec.key)
      /\ live' = RestoredState(recFile, outFile)
      /\ UNCHANGED <<outFile, epoch, mintOwed, call, pass, kind, mine, damage>>
  BY <1>p, RestartPlain DEF Restarts, passVars
<1>2. /\ heals => /\ outFile.rs # <<>> /\ t \in Filed
                  /\ rec.st = "ok" /\ rec.dec = t.dec /\ rec.at = t.at /\ rec.key = t.key /\ rec.unw = FALSE
                  /\ \A r \in Filed : r.key <= rec.key /\ r.at <= rec.at
      /\ ~heals => rec = recFile
  BY <1>p, ResolvedIs
<1>3. /\ heals => (recFile'.st = "ok" /\ recFile'.key = t.key) \/ t.key \in marks'
      /\ outFile.st = "bad" =>
            preserve' \/ (recFile'.st = "ok" /\ recFile'.unw /\ \A r \in Filed : r.at <= recFile'.unwAt)
  BY RestartProof
<1>4. /\ TypeInv /\ wit \in SUBSET Nat /\ \A r \in Filed : r.key \in Nat /\ r.at \in Nat /\ r.key \in wit
      /\ \A r \in Filed : OnFile(r)
      /\ rec.at \in Nat /\ rec.key \in Nat /\ rec.unwAt \in Nat
      /\ \A c \in Callers : call[c].pc = "idle" /\ call'[c].pc = "idle"
      /\ \A d \in Dispatchers : ~InHand(d) /\ ~InHand(d)'
      /\ mintOwed' = None
  BY <1>1, AllTypes DEF Base, TypeInv, KnownInv, OnFile, OutboxTypes, Rec, DownInv, InHand
<1>t. \A k : Top(k)' <=> Top(k)
  BY <1>1 DEF Top
<1> HIDE DEF heals, t
\* What covered the newest denial still does.
<1>6. ASSUME NEW n \in wit, Top(n), kind[n] # "granted", Covered(n) PROVE Covered(n)'
  <2>1. CASE recFile.st = "ok" /\ (recFile.key = n \/ recFile.dec = "minor")
    <3>1. rec = recFile
      BY <1>2, <1>6, <2>1, RecordNotHealed DEF heals
    <3>2. recFile'.st = "ok" /\ recFile'.key = recFile.key /\ recFile'.dec = recFile.dec
      <4>1. CASE \E at \in Nat : recFile' = Unwitnessed(rec, at)
        <5>1. PICK at \in Nat : recFile' = Unwitnessed(rec, at)
          BY <4>1
        <5> QED
          BY <2>1, <3>1, <5>1, UnwitnessedIs
      <4> QED
        BY <1>1, <2>1, <3>1, <4>1
    <3> QED
      BY <2>1, <3>2 DEF Covered
  <2>2. CASE Lost
    BY <2>2, RestartLost DEF Covered
  <2> QED
    BY <1>6, <2>1, <2>2 DEF Covered
\* A denial that was only in the trail is in the record now, or is marked.
<1>7. ASSUME NEW n \in wit, Top(n), kind[n] # "granted", ~Covered(n) PROVE Covered(n)' \/ n \in marks'
  BY <1>1, <1>7, DeniedTop, <1>3 DEF heals, t, Covered
<1>8. DeniedInv'
  <2>1. ASSUME NEW n \in wit', Top(n)', kind'[n] # "granted"
        PROVE  (n \in Keys(outFile'.rs) \/ Covered(n)') /\ (n \in Keys(trail') \/ Covered(n)')
    BY <1>1, <1>t, <2>1, <1>6 DEF Denials, DeniedInv
  <2>2. ASSUME NEW r \in Onhand', ~Granted(r), Top(r.key)', r.key \in wit' => ~Covered(r.key)'
        PROVE  Proof(r.key)'
    <3>1. r \in Filed /\ r \in All /\ r.key \in wit /\ Top(r.key)
      BY <1>1, <1>4, <1>t, <2>2
    <3>2. kind[r.key] # "granted" /\ ~Covered(r.key)'
      BY <1>1, <2>2, <3>1, RcptKind
    <3>3. r.key \in marks'
      BY <1>6, <1>7, <3>1, <3>2
    <3> QED
      BY <3>3 DEF Proof
  <2> QED
    BY <2>1, <2>2 DEF DeniedInv, Granted
<1>9. ZeroInv'
  <2> SUFFICES ASSUME recFile'.st = "bad" \/ outFile'.st = "bad" \/ recFile'.unw PROVE damage > 0
    BY <1>1 DEF ZeroInv
  <2>1. CASE recFile' = recFile
    BY <1>1, <2>1 DEF Denials, ZeroInv
  <2>2. CASE recFile' # recFile /\ outFile.st = "bad"
    BY <2>2 DEF Denials, ZeroInv
  <2>3. CASE recFile' # recFile /\ outFile.st # "bad"
    <3> SUFFICES ASSUME ~(damage > 0) PROVE FALSE
      OBVIOUS
    <3>1. recFile.st # "bad" /\ ~recFile.unw
      BY DEF Denials, ZeroInv
    <3>2. rec.st # "bad" /\ ~rec.unw
      BY <1>2, <3>1
    <3>3. ~GrantsUnprovable(recFile, outFile)
      BY <1>p, <2>3, <3>2 DEF GrantsUnprovable
    <3>4. recFile' = rec
      BY <1>p, <2>3, <3>3 DEF Restart
    <3> QED
      BY <1>1, <2>3, <3>2, <3>4
  <2> QED
    BY <1>1, <2>1, <2>2, <2>3
<1>10. HeldInv' /\ HandInv'
  BY <1>4 DEF HeldInv, HandInv
<1>11. OwedTop'
  <2> SUFFICES ASSUME recOwed' # None, NEW n \in wit, Top(n), kind[n] # "granted", n > recOwed'.key
               PROVE  damage > 0 /\ recOwed'.dec # "granted"
    BY <1>1, <1>t DEF OwedTop
  <2>1. heals /\ recOwed'.dec = t.dec /\ recOwed'.key = t.key
    BY <1>1, <1>2 DEF Owed
  <2>2. t.key # n
    BY <1>2, <1>4, <2>1
  <2>3. Covered(n)
    BY <1>1, <2>2, DeniedTop DEF t
  <2> QED
    BY <1>1, <2>1, <2>3, CoveredBlocks DEF heals, t, Granted
<1>12. LiveInv'
  <2>1. live' = "granted" => \E k \in wit' \cup mine' :
          /\ \A j \in wit' \cup mine' : j >= k => kind'[j] = "granted"
          /\ \A c \in Callers : call'[c].pc = "turn" => call'[c].key # k
    <3> SUFFICES ASSUME live' = "granted"
                 PROVE  \E k \in wit : \A j \in wit : j >= k => kind[j] = "granted"
      BY <1>1, <1>4
    <3>1. PICK k \in wit : Top(k) /\ kind[k] = "granted"
      BY <1>1, RestoredTop
    <3>2. \A j \in wit : j >= k => j = k
      BY <1>4, <3>1 DEF Top
    <3> QED
      BY <3>1, <3>2
  <2> QED
    BY <1>4, <2>1 DEF LiveInv
<1> QED
  BY <1>8, <1>9, <1>10, <1>11, <1>12 DEF Denials

LEMMA UpStays ==
    ASSUME Base, [Next]_vars
    PROVE  Crash \/ up' \/ (mine' = mine /\ up' = up)
<1>1. CASE UNCHANGED vars
  BY <1>1 DEF vars, histVars
<1>2. ASSUME NEW c \in Callers, DecisionStep(c) PROVE up'
  <2>1. call[c].pc # "idle" /\ up' = up
    BY <1>2 DEF DecisionStep, BeginGrant, BeginDenial, MintReceipt, GrantRecord, FinishDecision, MyTurn
  <2> QED
    BY <2>1, CallUp
<1>3. ASSUME NEW c \in Callers, NEW dec \in Kinds, Decide(c, dec) PROVE up'
  BY <1>3 DEF Decide
<1>4. ASSUME NEW d \in Dispatchers, PassStep(d) PROVE up'
  <2>1. CASE QuietPass(d)
    BY <2>1, QuietPassCore DEF CoreUnchanged
  <2>2. CASE RetryMint(d) \/ RetryPersist(d) \/ RetryRecord(d) \/ ReceiptSettled(d)
    <3>1. pass[d].pc # "idle" /\ up' = up
      BY <2>2 DEF RetryMint, RetryPersist, RetryRecord, ReceiptSettled
    <3> QED
      BY <3>1, PassUp
  <2> QED
    BY <1>4, <2>1, <2>2 DEF PassStep, QuietPass
<1>5. CASE DeferralElapses
  BY <1>5 DEF DeferralElapses
<1>6. CASE DamageFile
  BY <1>6 DEF DamageFile, histVars
<1>7. ASSUME NEW healed \in BOOLEAN, NEW marked \in BOOLEAN, NEW wiped \in BOOLEAN,
             Restart(healed, marked, wiped) PROVE up'
  BY <1>7 DEF Restart
<1> QED
  BY <1>1, <1>2, <1>3, <1>4, <1>5, <1>6, <1>7 DEF Next

LEMMA InitFloor == Init => Floor
<1> SUFFICES ASSUME Init PROVE Floor
  OBVIOUS
<1>1. /\ up /\ live = "undecided" /\ recOwed = None /\ mintOwed = None /\ wit = {} /\ trail = <<>>
      /\ call = [c \in Callers |-> IdleCall] /\ pass = [d \in Dispatchers |-> IdlePass]
      /\ recFile = AbsentRecord /\ outFile = AbsentTrail
  BY DEF Init
<1>2. /\ \A c \in Callers : call[c].pc = "idle"
      /\ \A d \in Dispatchers : ~InHand(d)
  BY <1>1, AllIdle
<1>3. recFile.st # "bad" /\ recFile.unw = FALSE /\ outFile.st # "bad"
  BY <1>1 DEF AbsentRecord, AbsentTrail
<1>4. Onhand = {}
  BY <1>1, EmptyTrail DEF Onhand
<1> QED
  BY <1>1, <1>2, <1>3, <1>4, InitBase
     DEF Floor, Denials, GoneInv, ZeroInv, HeldInv, OwedTop, DeniedInv, HandInv, LiveInv

LEMMA NextDenials == Floor /\ [Next]_vars => Denials'
<1> SUFFICES ASSUME Floor, [Next]_vars PROVE Denials'
  OBVIOUS
<1>0. Base /\ Denials /\ GoneInv
  BY DEF Floor
<1>1. CASE UNCHANGED vars
  <2>1. CoreUnchanged /\ pass' = pass
    BY <1>1 DEF vars, CoreUnchanged, diskVars, outboxVars, owedVars, passVars, histVars, boundVars
  <2>2. HandKept
    BY <2>1 DEF HandKept, InHand
  <2> QED
    BY <1>0, <2>1, <2>2, CoreDenials, HandKeeps DEF Denials
<1>2. ASSUME NEW c \in Callers, DecisionStep(c) PROVE Denials'
  BY <1>0, <1>2, BeginGrantDenials, BeginDenialDenials, MintDenials, GrantRecordDenials, FinishDenials DEF DecisionStep
<1>3. ASSUME NEW c \in Callers, NEW dec \in Kinds, Decide(c, dec) PROVE Denials'
  BY <1>0, <1>3, DecideDenials
<1>4. ASSUME NEW d \in Dispatchers, PassStep(d) PROVE Denials'
  <2>1. CASE QuietPass(d)
    BY <1>0, <2>1, QuietDenials
  <2>2. CASE RetryMint(d)
    BY <1>0, <2>2, RetryMintDenials
  <2>3. CASE RetryPersist(d)
    BY <1>0, <2>3, RetryPersistDenials
  <2>4. CASE RetryRecord(d)
    BY <1>0, <2>4, RetryRecordDenials
  <2>5. CASE ReceiptSettled(d)
    BY <1>0, <2>5, SettledDenials
  <2> QED
    BY <1>4, <2>1, <2>2, <2>3, <2>4, <2>5 DEF PassStep, QuietPass
<1>5. ASSUME NEW healed \in BOOLEAN, NEW marked \in BOOLEAN, NEW wiped \in BOOLEAN,
             Restart(healed, marked, wiped) PROVE Denials'
  BY <1>0, <1>5, RestartDenials DEF Restart, GoneInv
<1> QED
  BY <1>0, <1>1, <1>2, <1>3, <1>4, <1>5, DeferralDenials, CrashDenials, DamageDenials DEF Next

LEMMA NextFloor == Floor /\ [Next]_vars => Floor'
<1> SUFFICES ASSUME Floor, [Next]_vars PROVE Floor'
  OBVIOUS
<1>1. Base' /\ Denials'
  BY NextBase, NextDenials DEF Floor
<1>2. GoneInv'
  BY UpStays DEF Crash, GoneInv, Floor
<1> QED
  BY <1>1, <1>2 DEF Floor

LEMMA FloorGrant == Floor => NoGrantPastDenial
<1> SUFFICES ASSUME Floor, live = "granted" PROVE HasLatest /\ kind[Latest] = "granted"
  BY DEF NoGrantPastDenial
<1> DEFINE W == wit \cup mine
<1>1. PICK k \in W : \A j \in W : j >= k => kind[j] = "granted"
  BY DEF Floor, Denials, LiveInv
<1>2. W \in SUBSET Nat /\ Len(kind) \in Nat /\ \A j \in W : j <= Len(kind)
  BY DEF Floor, Base, TypeInv, OutboxTypes, CoreTypes, KnownInv, Taken
<1>3. \E n \in W : \A j \in W : j <= n
  BY <1>1, <1>2, LargestNumber
<1>4. Latest \in W /\ \A j \in W : j <= Latest
  BY <1>3 DEF Latest
<1>5. Latest >= k
  BY <1>1, <1>2, <1>4
<1> QED
  BY <1>1, <1>4, <1>5 DEF HasLatest

\* A grant in force is the newest decision of all that this process took or
\* that ever reached the disk: no crash, no failed write and no damaged file
\* brings back a grant that a denial superseded (SetConsent's denialEpoch and
\* tickets, consentDenyProofHeld, markRecordOwed, initConsentFloor).
THEOREM NoGrantRevived == Spec => []NoGrantPastDenial
BY InitFloor, NextFloor, FloorGrant, PTL DEF Spec

-----------------------------------------------------------------------------
(* Files that were never damaged: what a start reads from them.            *)

LEMMA RecordStands ==
    ASSUME Base, damage = 0, ZeroInv, recFile.st = "ok", NEW n \in wit, Top(n),
           recFile.key = n \/ recFile.dec = "minor"
    PROVE  RestoredState(recFile, outFile) = recFile.dec
<1>1. Resolved(recFile, outFile) = recFile
  BY RecordNotHealed DEF Resolved
<1>2. ~recFile.unw /\ outFile.st # "bad"
  BY DEF ZeroInv
<1>3. ~GrantsUnprovable(recFile, outFile)
  BY <1>1, <1>2 DEF GrantsUnprovable
<1> QED
  BY <1>1, <1>3 DEF RestoredState

\* Otherwise the newest receipt on file heals it.
LEMMA TailTells ==
    ASSUME Base, damage = 0, ZeroInv, NEW n \in wit, Top(n), n \in Keys(outFile.rs),
           ~(recFile.st = "ok" /\ (recFile.key = n \/ recFile.dec = "minor")),
           kind[n] = "granted" => outFile.st = "ok"
    PROVE  /\ TailHeals(recFile, outFile) /\ Last(outFile.rs).key = n /\ Last(outFile.rs).dec = kind[n]
           /\ RestoredState(recFile, outFile) = kind[n]
<1> DEFINE t == Last(outFile.rs)
<1>0. /\ outFile.rs \in Seq(Rcpt) /\ Ordered(outFile.rs) /\ wit \in SUBSET Nat /\ TypeInv
      /\ \A r \in Filed : r.key \in Nat /\ r.at \in Nat /\ r.key \in wit /\ r \in All
      /\ recFile.key \in Nat /\ recFile.st # "bad" /\ ~recFile.unw /\ outFile.st # "bad"
  BY AllTypes, RecFields DEF Base, TypeInv, OutboxTypes, KeptInv, TrailOrdered, KnownInv, ZeroInv, All
<1>2. PICK r \in Filed : r.key = n
  BY <1>0, KeysOf DEF Filed
<1>3. outFile.rs # <<>>
  BY <1>0, <1>2, EmptyTrail DEF Filed
<1>4. t \in Filed /\ \A q \in Filed : q.key <= t.key /\ q.at <= t.at
  BY <1>0, <1>3, LastIsNewest DEF Filed
<1>5. t.key = n
  BY <1>0, <1>4, <1>2 DEF Top
<1> HIDE DEF t
<1>6. t.dec = kind[n] /\ (Granted(t) => outFile.st = "ok")
  BY <1>0, <1>4, <1>5, RcptKind DEF Granted
<1>7. recFile.st # "ok" \/ t.at > recFile.at
  <2> SUFFICES ASSUME recFile.st = "ok" PROVE t.at > recFile.at
    OBVIOUS
  <2>1. recFile.key < t.key
    BY <1>0, <1>5 DEF Top, Base, KnownInv
  <2> QED
    BY <1>0, <1>4, <2>1 DEF Base, StampInv
<1>8. TailHeals(recFile, outFile)
  BY <1>0, <1>3, <1>6, <1>7 DEF TailHeals, MarkSupersededBy, t
<1>9. Resolved(recFile, outFile).st = "ok" /\ Resolved(recFile, outFile).dec = t.dec /\ ~Resolved(recFile, outFile).unw
  BY <1>8, ResolvedIs DEF t
<1>10. ~GrantsUnprovable(recFile, outFile)
  BY <1>0, <1>9 DEF GrantsUnprovable
<1>11. RestoredState(recFile, outFile) = kind[n]
  BY <1>6, <1>9, <1>10 DEF RestoredState
<1> QED
  BY <1>5, <1>6, <1>8, <1>11 DEF t

\* The newest decision on file, if it is a denial, is what a start takes up.
LEMMA DenialRestored ==
    ASSUME Base, Denials, MinorInv, damage = 0, NEW n \in wit, Top(n), kind[n] # "granted"
    PROVE  RestoredState(recFile, outFile) = kind[n]
<1>0. wit \in SUBSET Nat
  BY DEF Base, TypeInv, OutboxTypes
<1>1. CASE recFile.st = "ok" /\ (recFile.key = n \/ recFile.dec = "minor")
  <2>1. RestoredState(recFile, outFile) = recFile.dec
    BY <1>1, RecordStands DEF Denials
  <2>2. recFile.key \in wit /\ kind[recFile.key] = recFile.dec
    BY <1>1 DEF Base, KnownInv, Is
  <2>3. recFile.key = n \/ recFile.key < n
    <3>1. n \in Nat /\ recFile.key \in Nat /\ recFile.key <= n
      BY <1>0, <2>2 DEF Top
    <3> QED
      BY <3>1
  <2>4. recFile.dec = kind[n]
    BY <1>1, <2>2, <2>3 DEF MinorInv
  <2> QED
    BY <2>1, <2>4
<1>2. CASE ~(recFile.st = "ok" /\ (recFile.key = n \/ recFile.dec = "minor"))
  BY <1>2, TailTells DEF Base, TypeInv, CoreTypes, Covered, Lost, Denials, DeniedInv
<1> QED
  BY <1>1, <1>2

LEMMA ShrinkSettles ==
    ASSUME Base, Shrinks
    PROVE  Settles
<1>1. \A r \in All : r.key \in wit \cup mine
  BY DEF Base, KnownInv, All
<1>2. \A k \in wit' : k \in wit \cup mine
  BY <1>1 DEF Shrinks
<1> QED
  BY <1>2 DEF Shrinks, DecisionsUnchanged, Settles

LEMMA RecordSettles ==
    ASSUME NEW r, NEW persisted, Records(r, persisted), r.key \in wit \cup mine, UNCHANGED <<kind, live, up, damage, mine>>
    PROVE  Settles
BY DEF Records, Settles

LEMMA PassSettles ==
    ASSUME Base, NEW d \in Dispatchers, PassStep(d)
    PROVE  Settles
<1>1. CASE QuietPass(d)
  BY <1>1, QuietPassCore DEF CoreUnchanged, Settles
<1>2. CASE RetryMint(d)
  <2>1. CASE CoreUnchanged
    BY <2>1 DEF CoreUnchanged, Settles
  <2>2. CASE ~CoreUnchanged
    <3>1. /\ mintOwed \in Rcpt /\ mintOwed # None
          /\ UNCHANGED <<recFile, up, live, epoch, lastStamp, recOwed, call, kind, mine, damage>>
          /\ Appends(mintOwed)
      BY <1>2, <2>2, RetryMintPlain
    <3>2. PICK r \in Rcpt : r = mintOwed
      BY <3>1
    <3>3. r.key \in mine
      BY <3>1, <3>2 DEF Base, KnownInv
    <3>4. wit' \cup mine' = wit \cup mine
      BY <3>1, <3>2, <3>3, AppendHistory
    <3> QED
      BY <3>1, <3>4 DEF Settles
  <2> QED
    BY <2>1, <2>2
<1>3. CASE RetryPersist(d)
  BY <1>3, RetryPersistShrinks, ShrinkSettles
<1>4. CASE RetryRecord(d)
  <2>1. CASE CoreUnchanged
    BY <2>1 DEF CoreUnchanged, Settles
  <2>2. CASE ~CoreUnchanged
    BY <1>4, <2>2, RetryRecordPlain, RecordSettles DEF Base, KnownInv
  <2> QED
    BY <2>1, <2>2
<1>5. CASE ReceiptSettled(d)
  BY <1>5, ReceiptSettledShrinks, ShrinkSettles
<1> QED
  BY <1>1, <1>2, <1>3, <1>4, <1>5 DEF PassStep, QuietPass

LEMMA DecisionSettles ==
    ASSUME Base, NEW c \in Callers, DecisionStep(c)
    PROVE  Settles \/ BeginGrant(c)
<1>1. CASE BeginDenial(c)
  BY <1>1, BeginDenialPlain, RecordSettles DEF DenialBegins, Base, KnownInv
<1>2. CASE MintReceipt(c)
  <2>1. PICK r \in Rcpt, minted \in BOOLEAN, ok \in BOOLEAN : Mints(c, r, minted, ok)
    BY <1>2, MintPlain
  <2>2. r.key \in mine
    BY <1>2, <2>1 DEF Mints, MintReceipt, Base, KnownInv
  <2>3. CASE wit' = wit
    BY <2>1, <2>3 DEF Mints, Settles
  <2>4. CASE Appends(r)
    BY <2>1, <2>2, <2>4, AppendHistory DEF Mints, Settles
  <2> QED
    BY <2>1, <2>3, <2>4 DEF Mints
<1>3. CASE GrantRecord(c)
  <2>1. PICK r \in Rcpt, persisted \in BOOLEAN : GrantRecords(c, r, persisted)
    BY <1>3, GrantRecordPlain
  <2>2. r.key \in mine
    BY <2>1 DEF GrantRecords, Owed, Base, KnownInv
  <2> QED
    BY <2>1, <2>2, RecordSettles DEF GrantRecords
<1>4. CASE FinishDecision(c)
  BY <1>4, FinishPlain DEF FilesUnchanged, Settles
<1> QED
  BY <1>1, <1>2, <1>3, <1>4 DEF DecisionStep

LEMMA MinorKeeps ==
    ASSUME MinorInv, Settles
    PROVE  MinorInv'
BY DEF MinorInv, Settles

LEMMA NextMinor == Floor /\ MinorInv /\ [Next]_vars => MinorInv'
<1> SUFFICES ASSUME Floor, MinorInv, [Next]_vars PROVE MinorInv'
  OBVIOUS
<1>0. Base /\ Denials /\ GoneInv
  BY DEF Floor
<1>t. wit \in SUBSET Nat /\ mine \in SUBSET Nat /\ damage \in Nat
  BY <1>0 DEF Base, TypeInv, OutboxTypes, CoreTypes
<1>1. CASE UNCHANGED vars
  BY <1>1, MinorKeeps DEF vars, Settles, histVars, boundVars
<1>2. ASSUME NEW c \in Callers, BeginGrant(c) PROVE MinorInv'
  <2>1. /\ up /\ MyTurn(c) /\ call[c].dec = "granted" /\ FilesUnchanged /\ kind' = kind
        /\ \/ mine' = mine /\ live' = IF epoch = call[c].snap THEN "granted" ELSE live
           \/ mine' = mine \ {call[c].key} /\ live' = live
    BY <1>0, <1>2, BeginGrantPlain
  <2>2. call[c].pc = "turn" /\ call[c].key \in mine /\ kind[call[c].key] = "granted" /\ call[c].key \in Nat
    BY <1>0, <2>1, TurnAlone, CallFields DEF Base, KnownInv, Is
  <2>3. wit' \cup mine' \subseteq wit \cup mine /\ up' = up /\ damage' = damage
    BY <2>1 DEF FilesUnchanged
  <2>4. ASSUME damage = 0, live' # live, NEW k \in wit \cup mine, kind[k] = "minor" PROVE FALSE
    <3>1. \A j \in wit \cup mine : j >= call[c].key => kind[j] = "granted"
      BY <1>0, <2>1, <2>2, <2>4 DEF Denials, LiveInv
    <3>2. k < call[c].key
      <4>1. k \in Nat /\ ~(k >= call[c].key)
        BY <1>t, <2>4, <3>1
      <4> QED
        BY <2>2, <4>1
    <3> QED
      BY <2>2, <2>4, <3>2 DEF MinorInv
  <2> QED
    BY <2>1, <2>3, <2>4 DEF MinorInv
<1>3. ASSUME NEW c \in Callers, NEW dec \in Kinds, Decide(c, dec) PROVE MinorInv'
  <2> DEFINE n == Len(kind) + 1
  <2>1. /\ up /\ FilesUnchanged /\ (live = "minor" => dec = "minor")
        /\ live' = (IF dec = "granted" THEN live ELSE dec)
        /\ n \in Nat /\ (\A k : Taken(k) => k < n /\ k \in Nat)
        /\ (\A k : Taken(k) => kind'[k] = kind[k]) /\ kind'[n] = dec
        /\ mine' = mine \cup {n}
    BY <1>0, <1>3, DecidePlain
  <2> HIDE DEF n
  <2>2. \A k \in wit \cup mine : k < n /\ kind'[k] = kind[k]
    BY <1>0, <2>1 DEF Base, KnownInv
  <2>3. wit' = wit /\ up' = up /\ damage' = damage
    BY <2>1 DEF FilesUnchanged
  <2>4. ASSUME damage = 0 PROVE \A k \in wit \cup mine : kind[k] = "minor" => dec = "minor" /\ live = "minor"
    BY <2>1, <2>4 DEF MinorInv
  <2>5. ASSUME damage = 0, NEW k \in wit' \cup mine', kind'[k] = "minor" PROVE live' = "minor"
    BY <2>1, <2>2, <2>3, <2>4, <2>5
  <2>6. ASSUME damage = 0, NEW j \in wit' \cup mine', NEW k \in wit' \cup mine', kind'[j] = "minor", j < k
        PROVE  kind'[k] = "minor"
    <3>1. CASE k = n
      BY <2>1, <2>3, <2>6, <3>1, <2>2, <2>4
    <3>2. CASE k # n
      BY <1>t, <2>1, <2>2, <2>3, <3>2, <2>6 DEF MinorInv
    <3> QED
      BY <3>1, <3>2
  <2> QED
    BY <2>3, <2>5, <2>6 DEF MinorInv
<1>4. CASE Crash
  BY <1>4 DEF Crash, MinorInv
<1>5. CASE DamageFile
  BY <1>t, <1>5 DEF DamageFile, MinorInv
<1>6. ASSUME NEW healed \in BOOLEAN, NEW marked \in BOOLEAN, NEW wiped \in BOOLEAN,
             Restart(healed, marked, wiped) PROVE MinorInv'
  <2>1. /\ wit' = wit /\ mine' = mine /\ kind' = kind /\ damage' = damage
        /\ live' = RestoredState(recFile, outFile) /\ mine = {}
    BY <1>0, <1>6, RestartPlain DEF Restarts, GoneInv
  <2>2. ASSUME damage = 0, NEW k \in wit, kind[k] = "minor" PROVE live' = "minor"
    <3>1. \E n \in wit : Top(n)
      <4>1. Len(kind) \in Nat /\ \A j \in wit : j <= Len(kind)
        BY <1>0 DEF Base, TypeInv, CoreTypes, KnownInv, Taken
      <4> QED
        BY <1>t, <2>2, <4>1, LargestNumber DEF Top
    <3>2. PICK n \in wit : Top(n)
      BY <3>1
    <3>3. k = n \/ k < n
      BY <1>t, <3>2 DEF Top
    <3>4. kind[n] = "minor"
      BY <2>2, <3>3 DEF MinorInv
    <3> QED
      BY <1>0, <2>1, <2>2, <3>2, <3>4, DenialRestored
  <2> QED
    BY <2>1, <2>2 DEF MinorInv
<1>7. CASE DeferralElapses
  BY <1>7, MinorKeeps DEF DeferralElapses, Settles, histVars, boundVars
<1>8. ASSUME NEW d \in Dispatchers, PassStep(d) PROVE MinorInv'
  BY <1>0, <1>8, PassSettles, MinorKeeps
<1>9. ASSUME NEW c \in Callers, DecisionStep(c) PROVE MinorInv'
  BY <1>0, <1>2, <1>9, DecisionSettles, MinorKeeps
<1> QED
  BY <1>1, <1>3, <1>4, <1>5, <1>6, <1>7, <1>8, <1>9 DEF Next

LEMMA LatestIs ==
    ASSUME Base, HasLatest
    PROVE  Latest \in wit \cup mine /\ \A j \in wit \cup mine : j <= Latest
<1>1. /\ wit \cup mine \in SUBSET Nat /\ Len(kind) \in Nat /\ \A j \in wit \cup mine : j <= Len(kind)
  BY DEF Base, TypeInv, OutboxTypes, CoreTypes, KnownInv, Taken
<1>2. \E n \in wit \cup mine : \A j \in wit \cup mine : j <= n
  BY <1>1, LargestNumber DEF HasLatest
<1> QED
  BY <1>2 DEF Latest

\* A denial that reached the disk once is what a crash at any instant brings
\* back, as long as it is the newest decision and no file is damaged
\* (consentDenyProofHeld, markRecordOwed, initConsentFloor).
THEOREM DenialsSurvive == Spec => []DurableDenialSurvives
<1>1. Init => MinorInv
  BY DEF Init, MinorInv
<1>2. Floor /\ MinorInv => DurableDenialSurvives
  <2> SUFFICES ASSUME Floor, MinorInv, damage = 0, HasLatest, Latest \in wit, kind[Latest] # "granted"
               PROVE  RestoredState(recFile, outFile) = kind[Latest]
    BY DEF DurableDenialSurvives
  <2>1. Top(Latest)
    BY LatestIs DEF Floor, Top
  <2> QED
    BY <2>1, DenialRestored DEF Floor
<1> QED
  BY InitFloor, NextFloor, NextMinor, <1>1, <1>2, PTL DEF Spec

-----------------------------------------------------------------------------
(* Grants: their record stays.                                             *)

-----------------------------------------------------------------------------
(* What most steps keep of it.                                             *)

LEMMA SentKeeps ==
    ASSUME SentInv, HistoryKept, RecKept, SentKeys' \subseteq SentKeys
    PROVE  SentInv'
<1> SUFFICES ASSUME NEW k \in SentKeys'
             PROVE  /\ Taken(k)'
                    /\ kind'[k] = "granted" => k \in wit' /\ (Top(k)' => RecordHas(k)')
  BY DEF SentInv
<1>1. Taken(k) /\ (kind[k] = "granted" => k \in wit /\ (Top(k) => RecordHas(k)))
  BY DEF SentInv
<1>2. Taken(k)' /\ kind'[k] = kind[k]
  BY <1>1 DEF HistoryKept
<1>3. Top(k)' => Top(k)
  BY DEF Top, HistoryKept
<1> QED
  BY <1>1, <1>2, <1>3 DEF HistoryKept, RecKept

LEMMA SentSame ==
    ASSUME HandKept, server' = server
    PROVE  SentKeys' \subseteq SentKeys
<1>1. Keys(server') = Keys(server)
  OBVIOUS
<1>2. ASSUME NEW d \in Dispatchers, InHand(d)' PROVE pass'[d].r.key \in SentKeys
  BY <1>2 DEF HandKept, SentKeys
<1> QED
  BY <1>1, <1>2 DEF SentKeys

LEMMA SameRecord ==
    ASSUME recFile' = recFile
    PROVE  RecKept /\ \A k : RecordHas(k)' <=> RecordHas(k)
BY DEF RecKept, RecordHas

\* Steps that decide and record nothing, but may bring receipts to the file.
LEMMA OwedKeeps ==
    ASSUME Base, PairOwed, UNCHANGED <<recFile, recOwed, mintOwed, call>>,
           \A k \in wit' : k \in wit \/ \E r \in All : r.key = k
    PROVE  PairOwed'
<1>1. (\A k : RecordHas(k)' <=> RecordHas(k)) /\ Deciding' = Deciding
  BY DEF RecordHas, Deciding
<1>2. ASSUME ~Deciding, recOwed # None PROVE Top(recOwed.key)'
  BY <1>2 DEF Base, OwedInv, PairOwed, Top
<1> QED
  BY <1>1, <1>2 DEF PairOwed

LEMMA CorePair ==
    ASSUME Base, Pair, CoreUnchanged
    PROVE  PairOnFile' /\ PairHeld' /\ PairOwed' /\ AbsentInv' /\ RecKept /\ HistoryKept
<1>1. /\ Onhand' = Onhand /\ (\A k : Top(k)' <=> Top(k)) /\ \A k : RecordHas(k)' <=> RecordHas(k)
  BY DEF CoreUnchanged, Onhand, Top, RecordHas
<1>2. PairOnFile' /\ PairHeld' /\ AbsentInv'
  BY <1>1 DEF Pair, PairOnFile, PairHeld, AbsentInv, CoreUnchanged
<1>3. PairOwed'
  BY OwedKeeps DEF Pair, CoreUnchanged
<1>4. RecKept /\ HistoryKept
  BY <1>1 DEF RecKept, HistoryKept, CoreUnchanged, Taken
<1> QED
  BY <1>2, <1>3, <1>4

-----------------------------------------------------------------------------
(* Steps that write the trail.                                             *)

\* A save whose mirror still holds the newest grant, and whose marks still
\* hold it back.
LEMMA SavePair ==
    ASSUME Base, AbsentInv, recFile' = recFile, kind' = kind, wit' \in SUBSET Nat,
           NEW mirror \in Seq(Rcpt), Ordered(mirror), NEW done, NEW ms,
           Unwritten(mirror, done, ms) \/ Written(mirror, done, ms),
           \A n \in wit : Top(n) /\ kind[n] = "granted" =>
               RecordHas(n) \/ (n \in Keys(outFile.rs) /\ n \in Keys(mirror)),
           \A r \in Receipts(mirror) : Granted(r) /\ Top(r.key) =>
               \/ RecordHas(r.key) \/ r.key \in ms
               \/ \E c \in Callers : call'[c].pc \in Middle /\ call'[c].key = r.key
    PROVE  PairOnFile' /\ PairHeld' /\ AbsentInv'
<1>0. wit \in SUBSET Nat /\ wit \subseteq wit' /\ \A k : RecordHas(k)' <=> RecordHas(k)
  BY SameRecord DEF Base, TypeInv, OutboxTypes, Unwritten, Written
<1>1. \A k : Top(k)' => Top(k)
  BY <1>0 DEF Top
<1>2. Onhand' \subseteq Receipts(mirror)
  BY DEF Onhand, Unwritten, Written
<1>3. \A r \in Onhand' : r.key \in ms => r.key \in marks'
  <2>1. CASE Unwritten(mirror, done, ms)
    BY <2>1 DEF Unwritten
  <2>2. CASE Written(mirror, done, ms)
    BY <2>2, KeysOf DEF Written, Onhand
  <2> QED
    BY <2>1, <2>2
<1>4. PairHeld'
  <2> SUFFICES ASSUME NEW r \in Onhand', Granted(r), Top(r.key)'
               PROVE  \/ RecordHas(r.key)' \/ r.key \in marks'
                      \/ \E c \in Callers : call'[c].pc \in Middle /\ call'[c].key = r.key
    BY DEF PairHeld, Granted
  <2> QED
    BY <1>0, <1>1, <1>2, <1>3
<1>5. PairOnFile'
  <2> SUFFICES ASSUME NEW n \in wit', Top(n)', kind[n] = "granted", ~RecordHas(n)
               PROVE  n \in Keys(outFile'.rs) /\ n \in Keys(trail')
    BY <1>0 DEF PairOnFile
  <2>1. CASE Unwritten(mirror, done, ms)
    BY <1>1, <2>1 DEF Unwritten
  <2>2. CASE Written(mirror, done, ms)
    <3>1. outFile'.rs = trail' /\ trail' \in Seq(Rcpt) /\ wit' = wit \cup Keys(trail')
      BY <2>2 DEF Written
    <3>2. ASSUME n \notin Keys(trail') PROVE FALSE
      <4>1. n \in Keys(mirror) /\ n \in Nat
        BY <1>0, <1>1, <3>1, <3>2
      <4>2. PICK r \in Receipts(mirror) : r.key = n
        BY <4>1, KeysOf
      <4>3. mirror # <<>>
        BY <4>2, EmptyTrail
      <4>4. /\ Last(mirror) \in Rcpt /\ n <= Last(mirror).key
            /\ trail' # <<>> /\ Last(trail') = Last(mirror) /\ Ordered(trail')
        BY <2>2, <4>2, <4>3, LastIsNewest DEF Written
      <4>5. Last(mirror).key \in Keys(trail') /\ Last(mirror).key \in Nat
        BY <3>1, <4>4, LastIsNewest, KeysOf, RcptFields
      <4>6. Last(mirror).key <= n
        BY <3>1, <4>5 DEF Top
      <4> QED
        BY <3>2, <4>1, <4>4, <4>5, <4>6
    <3> QED
      BY <3>1, <3>2
  <2> QED
    BY <2>1, <2>2
<1>6. AbsentInv'
  BY DEF AbsentInv, Unwritten, Written
<1> QED
  BY <1>4, <1>5, <1>6

LEMMA ShrinkPair ==
    ASSUME Base, Pair, up, NEW mirror, NEW done, Fits(mirror, done), Receipts(mirror) \subseteq Onhand,
           \A r \in Onhand : r \in Receipts(mirror) \/ ~(r.key \in wit /\ Top(r.key) /\ Granted(r)) \/ RecordHas(r.key),
           NEW ms \in SUBSET Nat, \A r \in Receipts(mirror) : r.key \in marks => r.key \in ms,
           NEW ok \in BOOLEAN, saveLocked(FALSE, mirror, done, ms, ok), Shrinks, HandKept, server' = server
    PROVE  Pair'
<1>1. Unwritten(mirror, done, ms) \/ Written(mirror, done, ms)
  BY SaveEffect DEF Base, TypeInv, OutboxTypes
<1>2. recFile' = recFile /\ kind' = kind /\ wit' \in SUBSET Nat /\ mirror \in Seq(Rcpt) /\ Ordered(mirror) /\ call' = call
  BY DEF Shrinks, DecisionsUnchanged, OutboxTypes, Fits
<1>3. ASSUME NEW n \in wit, Top(n), kind[n] = "granted", ~RecordHas(n)
      PROVE  n \in Keys(outFile.rs) /\ n \in Keys(mirror)
  <2>1. n \in Keys(outFile.rs) /\ n \in Keys(trail)
    BY <1>3 DEF Pair, PairOnFile
  <2>2. PICK r \in Onhand : r.key = n
    BY <2>1, AllTypes DEF Base, TypeInv
  <2>3. Granted(r)
    BY <1>3, <2>2, RcptKind DEF Granted, All
  <2>4. r \in Receipts(mirror)
    BY <1>3, <2>2, <2>3
  <2> QED
    BY <1>2, <2>1, <2>2, <2>4, KeysOf
<1>4. \A r \in Receipts(mirror) : Granted(r) /\ Top(r.key) =>
               \/ RecordHas(r.key) \/ r.key \in ms
               \/ \E c \in Callers : call'[c].pc \in Middle /\ call'[c].key = r.key
  BY <1>2 DEF Pair, PairHeld
<1>5. PairOnFile' /\ PairHeld' /\ AbsentInv'
  BY <1>1, <1>2, <1>3, <1>4, SavePair DEF Pair
<1>6. PairOwed'
  BY OwedKeeps DEF Shrinks, DecisionsUnchanged, Pair
<1>7. HistoryKept
  BY DEF Shrinks, DecisionsUnchanged, HistoryKept, Taken
<1>8. SentInv'
  BY <1>2, <1>7, SentSame, SentKeeps, SameRecord DEF Pair
<1> QED
  BY <1>5, <1>6, <1>8 DEF Pair

LEMMA RetryPersistPair ==
    ASSUME Base, Pair, NEW d \in Dispatchers, RetryPersist(d)
    PROVE  Pair'
<1>0. Shrinks /\ up /\ pass \in [Dispatchers -> Pass] /\ server' = server
  BY RetryPersistShrinks DEF Base, TypeInv, PassTypes, RetryPersist
<1>1. HandKept
  BY <1>0 DEF HandKept, InHand, RetryPersist, PassTo, Pass
<1>2. CASE dirty
  <2>1. PICK ok \in BOOLEAN : saveLocked(FALSE, trail, settled, marks, ok)
    BY <1>2 DEF RetryPersist
  <2>2. Fits(trail, settled) /\ Receipts(trail) = Onhand /\ marks \in SUBSET Nat
    BY <1>0, MirrorFits DEF Base, TypeInv, OutboxTypes, Onhand
  <2> QED
    BY <1>0, <1>1, <2>1, <2>2, ShrinkPair
<1>3. CASE ~dirty
  <2>1. CoreUnchanged
    BY <1>3 DEF RetryPersist, CoreUnchanged, outboxVars, owedVars, histVars, boundVars
  <2> QED
    BY <1>0, <1>1, <2>1, CorePair, SentSame, SentKeeps DEF Pair
<1> QED
  BY <1>2, <1>3 DEF Base, TypeInv, OutboxTypes

LEMMA SettledPair ==
    ASSUME Base, Pair, NEW d \in Dispatchers, ReceiptSettled(d)
    PROVE  Pair'
<1>0. PICK k : k = pass[d].r.key
  OBVIOUS
<1>1. Shrinks /\ HandKept /\ up /\ InHand(d) /\ k \in Nat /\ server' = server
  BY <1>0, SettledPlain DEF ReceiptSettled
<1>2. kind[k] = "granted" => k \in wit /\ (Top(k) => RecordHas(k))
  BY <1>0, <1>1 DEF Pair, SentInv, SentKeys
<1>3. CASE CoreUnchanged
  BY <1>1, <1>3, CorePair, SentSame, SentKeeps DEF Pair
<1>4. CASE ~CoreUnchanged
  <2>1. /\ Fits(Without(trail, {k}), settled \cup {k}) /\ marks \ {k} \in SUBSET Nat
        /\ Receipts(Without(trail, {k})) = {r \in Onhand : r.key # k}
        /\ \E ok \in BOOLEAN : saveLocked(FALSE, Without(trail, {k}), settled \cup {k}, marks \ {k}, ok)
    BY <1>0, <1>4, SettledPlain
  <2>2. ASSUME NEW r \in Onhand, r \notin Receipts(Without(trail, {k})), Granted(r), Top(r.key)
        PROVE  RecordHas(r.key)
    BY <1>2, <2>1, <2>2, RcptKind DEF All, Granted
  <2> QED
    BY <1>1, <2>1, <2>2, ShrinkPair
<1> QED
  BY <1>3, <1>4

\* The newest receipt joins the trail.
LEMMA AppendPair ==
    ASSUME Base, Pair, up, up', NEW r \in Rcpt, \A t \in All : t.key < r.key /\ t.at < r.at,
           NEW ms, marks \subseteq ms, Appends(r), recFile' = recFile, kind' = kind,
           Unwritten(Append(trail, r), settled, ms) \/ Written(Append(trail, r), settled, ms),
           \A t \in Onhand \cup {r} : Granted(t) /\ Top(t.key) /\ ~RecordHas(t.key) /\ t.key \notin ms =>
               \E c \in Callers : call'[c].pc \in Middle /\ call'[c].key = t.key
    PROVE  PairOnFile' /\ PairHeld' /\ AbsentInv'
<1>1. /\ Append(trail, r) \in Seq(Rcpt) /\ Ordered(Append(trail, r)) /\ trail \in Seq(Rcpt)
      /\ Receipts(Append(trail, r)) = Onhand \cup {r}
  BY AppendOrdered DEF Base, TypeInv, OutboxTypes, KeptInv, TrailOrdered, Onhand, All
<1>2. wit' \in SUBSET Nat
  BY DEF Appends, OutboxTypes
<1>3. ASSUME NEW n \in wit, Top(n), kind[n] = "granted", ~RecordHas(n)
      PROVE  n \in Keys(outFile.rs) /\ n \in Keys(Append(trail, r))
  BY <1>3, AllTypes, <1>1, KeysOf DEF Pair, PairOnFile, Base, TypeInv
<1>4. \A t \in Receipts(Append(trail, r)) : Granted(t) /\ Top(t.key) =>
               \/ RecordHas(t.key) \/ t.key \in ms
               \/ \E c \in Callers : call'[c].pc \in Middle /\ call'[c].key = t.key
  BY <1>1
<1> HIDE DEF Pair
<1> QED
  BY <1>1, <1>2, <1>3, <1>4, SavePair DEF Pair

LEMMA RetryMintPair ==
    ASSUME Base, Pair, NEW d \in Dispatchers, RetryMint(d)
    PROVE  Pair'
<1>0. up /\ pass \in [Dispatchers -> Pass] /\ server' = server
  BY RetryMintPlain DEF Base, TypeInv, PassTypes, RetryMint
<1>1. HandKept
  BY <1>0 DEF HandKept, InHand, RetryMint, PassTo, Pass
<1>2. CASE CoreUnchanged
  BY <1>0, <1>1, <1>2, CorePair, SentSame, SentKeeps DEF Pair
<1>3. CASE ~CoreUnchanged
  <2>a. mintOwed \in Rcpt
    BY <1>3, RetryMintPlain
  <2>b. PICK r \in Rcpt : r = mintOwed
    BY <2>a
  <2>1. /\ ~Deciding /\ r # None /\ r = mintOwed /\ mintOwed' = None
        /\ UNCHANGED <<recFile, up, live, epoch, lastStamp, recOwed, call, kind, mine, damage>>
        /\ Appends(r)
    BY <1>3, <2>b, RetryMintPlain
  <2>2. PICK ms \in SUBSET Nat :
            /\ ms = IF recOwed # None /\ recOwed.at = r.at THEN marks \cup {r.key} ELSE marks
            /\ \/ Unwritten(Append(trail, r), settled, ms)
               \/ Written(Append(trail, r), settled, ms)
    BY <1>3, <2>b, RetryMintPlain
  <2>3. /\ \A t \in All : t.key < r.key /\ t.at < r.at
        /\ r.key \in mine
        /\ recOwed # None => r = recOwed
        /\ recOwed # None \/ RecordHas(r.key)
    BY <2>1 DEF Base, KnownInv, OwedInv, Pair, PairOwed
  <2>4. \A c \in Callers : call[c].pc \notin Middle
    BY <2>1 DEF Deciding, Middle
  <2>5. \A t \in Onhand \cup {r} : Granted(t) /\ Top(t.key) => RecordHas(t.key) \/ t.key \in ms
    BY <2>2, <2>4, <2>3 DEF Pair, PairHeld
  <2>6. PairOnFile' /\ PairHeld' /\ AbsentInv'
    BY <2>2, <1>0, <2>1, <2>3, <2>5, AppendPair
  <2>7. PairOwed'
    <3>1. Deciding' = Deciding /\ \A k : RecordHas(k)' <=> RecordHas(k)
      BY <2>1 DEF Deciding, RecordHas
    <3>2. ASSUME recOwed # None PROVE Top(recOwed.key)'
      <4>1. /\ r = recOwed /\ r.key \in Nat /\ (\A t \in All : t.key < r.key) /\ \A t \in All : t.key \in Nat
        BY <2>3, <3>2, RcptFields, AllTypes DEF Base, TypeInv
      <4>2. \A k \in wit : k <= r.key
        BY <2>1, <3>2, <4>1 DEF Pair, PairOwed, Top
      <4>3. \A k \in wit' : k \in wit \/ k = r.key \/ \E t \in All : t.key = k
        BY <2>1 DEF Appends
      <4>4. \A k \in wit' : k <= r.key
        BY <4>1, <4>2, <4>3
      <4> QED
        BY <2>1, <4>1, <4>4 DEF Top
    <3>3. \A c \in Callers : call'[c].pc \notin {"record", "mark"}
      BY <2>1, <2>4 DEF Middle
    <3> QED
      BY <2>1, <3>1, <3>2, <3>3 DEF PairOwed
  <2>8. HistoryKept
    BY <2>1, <2>3, AppendHistory
  <2>9. SentInv'
    BY <1>0, <1>1, <2>1, <2>8, SentSame, SentKeeps, SameRecord DEF Pair
  <2> QED
    BY <2>6, <2>7, <2>9 DEF Pair
<1> QED
  BY <1>2, <1>3

LEMMA MintPair ==
    ASSUME Base, Denials, Pair, NEW c \in Callers, MintReceipt(c)
    PROVE  Pair'
<1>1. PICK r \in Rcpt, minted \in BOOLEAN, ok \in BOOLEAN : Mints(c, r, minted, ok)
  BY MintPlain
<1>2. /\ up /\ up' /\ r.key = call[c].key /\ call[c].pc = "mint" /\ r.key \in mine
      /\ call'[c] \in Call /\ call'[c].key = r.key /\ call'[c].minted = minted
      /\ call'[c].pc = IF call[c].dec = "granted" THEN "record" ELSE "mark"
      /\ \A o \in Callers : o # c => call'[o] = call[o]
      /\ UNCHANGED <<recFile, recOwed, passVars, kind, mine, damage>>
      /\ \A t \in All : t.key < r.key /\ t.at < r.at
  <2>1. call[c].pc = "mint" /\ call[c] \in Call /\ call[c].key \in mine
    BY CallFields DEF MintReceipt, Base, KnownInv
  <2>2. /\ call'[c].key = call[c].key /\ call'[c].minted = minted
        /\ call'[c].pc = IF call[c].dec = "granted" THEN "record" ELSE "mark"
    BY <1>1, <2>1 DEF Mints, Call
  <2> QED
    BY <1>1, <2>1, <2>2 DEF Mints
<1>3. \A o \in Callers : o # c => call[o].pc \notin Middle
  BY <1>2 DEF Base, CallInv, Middle
<1>4. Deciding' /\ call'[c].pc \in Middle
  BY <1>2 DEF Deciding, Middle
<1>5. HandKept /\ server' = server
  BY <1>2 DEF HandKept, InHand, passVars
<1>6. \A t \in Onhand : Granted(t) /\ Top(t.key) => RecordHas(t.key) \/ t.key \in marks
  BY <1>2, AllTypes, <1>3 DEF Base, TypeInv, All, Pair, PairHeld
<1>7. PairOwed'
  <2>1. \A o \in Callers : call'[o].pc \in Middle => o = c
    BY <1>2, <1>3
  <2>2. minted \/ mintOwed' = r
    BY <1>1 DEF Mints
  <2>3. call'[c].pc = "mark" => recOwed # None \/ RecordHas(r.key)
    BY <1>2 DEF Denials, HeldInv
  <2> QED
    BY <1>2, <1>4, <2>1, <2>2, <2>3, SameRecord, RcptFields DEF PairOwed, Middle
<1>8. CASE ~minted
  <2>1. UNCHANGED <<outFile, outboxVars, wit>>
    BY <1>1, <1>8 DEF Mints
  <2>2. /\ Onhand' = Onhand /\ (\A k : Top(k)' <=> Top(k)) /\ \A k : RecordHas(k)' <=> RecordHas(k)
    BY <1>2, <2>1 DEF Onhand, Top, RecordHas, outboxVars
  <2>3. PairOnFile' /\ PairHeld' /\ AbsentInv'
    BY <1>2, <1>6, <2>1, <2>2 DEF Pair, PairOnFile, PairHeld, AbsentInv, outboxVars
  <2>4. HistoryKept
    BY <1>2, <2>1 DEF HistoryKept, Taken
  <2> QED
    BY <1>2, <1>5, <1>7, <2>3, <2>4, SentSame, SentKeeps, SameRecord DEF Pair
<1>9. CASE minted
  <2>1. Appends(r) /\ (Unwritten(Append(trail, r), settled, marks) \/ Written(Append(trail, r), settled, marks))
    BY <1>1, <1>9 DEF Mints
  <2>2. PairOnFile' /\ PairHeld' /\ AbsentInv'
    BY <1>2, <1>4, <1>6, <2>1, AppendPair
  <2>3. HistoryKept
    BY <1>2, <2>1, AppendHistory
  <2> QED
    BY <1>2, <1>5, <1>7, <2>2, <2>3, SentSame, SentKeeps, SameRecord DEF Pair
<1> QED
  BY <1>8, <1>9

-----------------------------------------------------------------------------
(* Steps that write the record.                                            *)

LEMMA RecordPair ==
    ASSUME Base, Pair, up' = up, kind' = kind, NEW r \in Rcpt, NEW persisted \in BOOLEAN, Records(r, persisted),
           \A k \in wit : k <= r.key, \A t \in All : t.key <= r.key,
           \A c \in Callers : call[c].pc \in Middle => call'[c].pc \in Middle /\ call'[c].key = call[c].key,
           HandKept, server' = server
    PROVE  /\ PairOnFile' /\ PairHeld' /\ SentInv' /\ AbsentInv'
           /\ IF persisted THEN RecordHas(r.key)' /\ recOwed' = None
                           ELSE recOwed' = r /\ recOwed' # None /\ recFile' = recFile /\ wit' = wit
<1>0. Onhand' = Onhand /\ wit \in SUBSET Nat /\ r.key \in Nat /\ r # None /\ \A t \in All : t.key \in Nat
  BY RcptFields, AllTypes DEF Records, Onhand, Base, TypeInv, OutboxTypes
<1>1. CASE ~persisted
  <2>1. recFile' = recFile /\ recOwed' = r /\ marks' = marks /\ wit' = wit
    BY <1>1 DEF Records
  <2>2. (\A k : Top(k)' <=> Top(k)) /\ (\A k : RecordHas(k)' <=> RecordHas(k)) /\ RecKept
    BY <2>1, SameRecord DEF Top
  <2>3. PairOnFile' /\ AbsentInv'
    BY <2>1, <2>2 DEF Pair, PairOnFile, AbsentInv, Records
  <2>4. PairHeld'
    BY <1>0, <2>1, <2>2 DEF Pair, PairHeld, Granted
  <2>5. HistoryKept
    BY <2>1 DEF HistoryKept, Taken
  <2>6. SentInv'
    BY <2>2, <2>5, SentSame, SentKeeps DEF Pair
  <2> QED
    BY <1>0, <1>1, <2>1, <2>3, <2>4, <2>6
<1>2. CASE persisted
  <2>1. recFile' = Record(r.dec, r.at, r.key) /\ recOwed' = None /\ wit' = wit \cup {r.key}
    BY <1>2 DEF Records
  <2>2. RecordHas(r.key)'
    BY <2>1 DEF RecordHas, Record
  <2>3. \A k : Top(k)' => r.key <= k
    BY <2>1 DEF Top
  <2>4. PairOnFile'
    <3>1. \A n \in wit' : n \in Nat /\ n <= r.key
      BY <1>0, <2>1
    <3>2. \A n \in wit' : Top(n)' => n = r.key
      BY <1>0, <2>3, <3>1
    <3> QED
      BY <2>2, <3>2 DEF PairOnFile
  <2>5. PairHeld'
    BY <1>0, <2>3, <2>2 DEF All, PairHeld
  <2>6. RecKept /\ HistoryKept
    BY <1>0, <2>3, <2>1, <2>2 DEF RecKept, HistoryKept, Taken
  <2>7. SentInv' /\ AbsentInv'
    BY <2>6, SentSame, SentKeeps DEF Pair, AbsentInv, Records
  <2> QED
    BY <1>2, <2>1, <2>2, <2>4, <2>5, <2>7
<1> QED
  BY <1>1, <1>2

LEMMA BeginDenialPair ==
    ASSUME Base, Pair, NEW c \in Callers, BeginDenial(c)
    PROVE  Pair'
<1>1. PICK r \in Rcpt, persisted \in BOOLEAN : DenialBegins(c, r, persisted)
  BY BeginDenialPlain
<1>2. call[c].pc = "turn" /\ TurnOK(call[c]) /\ \A o \in Callers : call[o].pc \notin Middle
  BY TurnAlone DEF BeginDenial
<1>3. /\ up' = up /\ kind' = kind /\ server' = server /\ pass' = pass /\ Records(r, persisted) /\ r.key = call[c].key
      /\ \A o \in Callers : o # c => call'[o] = call[o]
  BY <1>1 DEF DenialBegins, passVars
<1>4. call'[c].pc = "mint"
  BY <1>1, CallFields DEF DenialBegins, Call, Base
<1>5. /\ \A k \in wit : k \in Nat /\ k < r.key
      /\ \A t \in All : t.key \in Nat /\ t.key < r.key
      /\ r.key \in Nat
  BY <1>2, <1>3, AllTypes, RcptFields DEF TurnOK, Base, TypeInv, OutboxTypes
<1>6. /\ \A k \in wit : k <= r.key
      /\ \A t \in All : t.key <= r.key
      /\ HandKept
  BY <1>3, <1>5 DEF HandKept, InHand
<1>7. PairOnFile' /\ PairHeld' /\ SentInv' /\ AbsentInv'
  BY <1>2, <1>3, <1>6, RecordPair
<1>8. PairOwed'
  BY <1>2, <1>3, <1>4 DEF Deciding, Middle, PairOwed
<1> QED
  BY <1>7, <1>8 DEF Pair

LEMMA GrantRecordPair ==
    ASSUME Base, Pair, NEW c \in Callers, GrantRecord(c)
    PROVE  Pair'
<1>1. PICK r \in Rcpt, persisted \in BOOLEAN : GrantRecords(c, r, persisted)
  BY GrantRecordPlain
<1>2. /\ up' = up /\ kind' = kind /\ server' = server /\ pass' = pass /\ Records(r, persisted) /\ r.key = call[c].key
      /\ \A o \in Callers : o # c => call'[o] = call[o]
      /\ call[c].pc = "record" /\ mintOwed' = mintOwed
  BY <1>1 DEF GrantRecords, passVars, Owed, Records
<1>3. call'[c].pc = "mark" /\ call'[c].key = r.key /\ call'[c].minted = call[c].minted
  BY <1>1, <1>2, CallFields DEF GrantRecords, Call, Base
<1>4. \A o \in Callers : o # c => call[o].pc \notin Middle
  BY <1>2 DEF Base, CallInv, Middle
<1>5. /\ \A k \in wit : k <= r.key
      /\ \A t \in All : t.key <= r.key
      /\ HandKept
  BY <1>2 DEF HandKept, InHand, Base, CallInv, MintedOK
<1>6. \A o \in Callers : call[o].pc \in Middle => call'[o].pc \in Middle /\ call'[o].key = call[o].key
  BY <1>2, <1>3, <1>4 DEF Middle
<1>7. /\ PairOnFile' /\ PairHeld' /\ SentInv' /\ AbsentInv'
      /\ recOwed' # None \/ RecordHas(r.key)'
  BY <1>2, <1>5, <1>6, RecordPair
<1>8. PairOwed'
  BY <1>2, <1>3, <1>4, <1>7 DEF Deciding, Middle, Pair, PairOwed
<1> QED
  BY <1>7, <1>8 DEF Pair

LEMMA RetryRecordPair ==
    ASSUME Base, Pair, NEW d \in Dispatchers, RetryRecord(d)
    PROVE  Pair'
<1>0. /\ up /\ pass' = [pass EXCEPT ![d].pc = "claim"] /\ pass \in [Dispatchers -> Pass]
      /\ UNCHANGED <<up, call, server, kind, damage>>
  BY RetryRecordPlain DEF Base, TypeInv, PassTypes
<1>1. HandKept
  BY <1>0 DEF HandKept, InHand, Pass
<1>2. CASE CoreUnchanged
  BY <1>0, <1>1, <1>2, CorePair, SentSame, SentKeeps DEF Pair
<1>3. CASE ~CoreUnchanged
  <2>a. recOwed \in Rcpt
    BY <1>3, RetryRecordPlain
  <2>b. PICK r \in Rcpt : r = recOwed
    BY <2>a
  <2>1. r # None /\ ~Deciding /\ \E persisted \in BOOLEAN : Records(r, persisted)
    BY <1>3, <2>b, RetryRecordPlain
  <2>2. PICK persisted \in BOOLEAN : Records(r, persisted)
    BY <2>1
  <2>3. /\ \A k \in wit : k <= r.key
        /\ \A t \in All : t.key <= r.key
        /\ mintOwed # None => mintOwed = r
    BY <2>1, <2>b DEF Base, OwedInv, Pair, PairOwed, Top
  <2>4. /\ PairOnFile' /\ PairHeld' /\ SentInv' /\ AbsentInv'
        /\ IF persisted THEN RecordHas(r.key)' /\ recOwed' = None
                        ELSE recOwed' = r /\ recOwed' # None /\ recFile' = recFile /\ wit' = wit
    BY <1>0, <1>1, <2>2, <2>3, RecordPair
  <2>5. PairOwed'
    BY <1>0, <2>1, <2>2, <2>3, <2>4 DEF Records, Deciding, Middle, Top, PairOwed
  <2> QED
    BY <2>4, <2>5 DEF Pair
<1> QED
  BY <1>2, <1>3

-----------------------------------------------------------------------------
(* Steps that touch neither file, and the process's own life.              *)

LEMMA FilesPair ==
    ASSUME Base, Pair, FilesUnchanged, \A k : Taken(k) => Taken(k)' /\ kind'[k] = kind[k],
           \A r \in Onhand : (r.key \in marks \/ \E c \in Callers : call[c].pc \in Middle /\ call[c].key = r.key) =>
               \/ RecordHas(r.key) \/ r.key \in marks'
               \/ \E c \in Callers : call'[c].pc \in Middle /\ call'[c].key = r.key
    PROVE  PairOnFile' /\ PairHeld' /\ SentInv' /\ AbsentInv'
<1>1. /\ Onhand' = Onhand /\ (\A k : Top(k)' <=> Top(k)) /\ (\A k : RecordHas(k)' <=> RecordHas(k)) /\ RecKept
  BY SameRecord DEF FilesUnchanged, Onhand, Top
<1>2. \A n \in wit : kind'[n] = kind[n]
  BY DEF Base, KnownInv
<1>3. PairOnFile' /\ AbsentInv'
  BY <1>1, <1>2 DEF Pair, PairOnFile, AbsentInv, FilesUnchanged
<1>4. PairHeld'
  BY <1>1 DEF Pair, PairHeld, Granted
<1>5. HistoryKept /\ HandKept /\ server' = server
  BY DEF HistoryKept, HandKept, InHand, FilesUnchanged, passVars
<1>6. SentInv'
  BY <1>1, <1>5, SentSame, SentKeeps DEF Pair
<1> QED
  BY <1>3, <1>4, <1>6

LEMMA BeginGrantPair ==
    ASSUME Base, Pair, NEW c \in Callers, BeginGrant(c)
    PROVE  Pair'
<1>1. /\ MyTurn(c) /\ FilesUnchanged /\ marks' = marks /\ kind' = kind
      /\ \A o \in Callers : o # c => call'[o] = call[o]
      /\ call'[c] = [call[c] EXCEPT !.pc = "mint"] \/ call'[c] = IdleCall
  BY BeginGrantPlain
<1>2. ~Deciding /\ \A o \in Callers : call[o].pc \notin Middle
  BY <1>1, TurnAlone
<1>3. call'[c].pc \in {"mint", "idle"}
  BY CallFields, <1>1, IdleIsCall DEF Base, Call
<1>4. PairOnFile' /\ PairHeld' /\ SentInv' /\ AbsentInv'
  BY <1>1, <1>2, FilesPair DEF Taken
<1>5. PairOwed'
  BY <1>1, <1>2, <1>3 DEF Middle, FilesUnchanged, RecordHas, Top, Pair, PairOwed
<1> QED
  BY <1>4, <1>5 DEF Pair

LEMMA DecidePair ==
    ASSUME Base, Pair, NEW c \in Callers, NEW dec \in Kinds, Decide(c, dec)
    PROVE  Pair'
<1>1. /\ call[c].pc = "idle" /\ FilesUnchanged /\ marks' = marks /\ call'[c].pc = "turn"
      /\ \A o \in Callers : o # c => call'[o] = call[o]
      /\ \A k : Taken(k) => Taken(k)' /\ kind'[k] = kind[k]
  BY DecidePlain
<1>2. \A o \in Callers : call[o].pc \in Middle => call'[o] = call[o]
  BY <1>1 DEF Middle
<1>3. PairOnFile' /\ PairHeld' /\ SentInv' /\ AbsentInv'
  BY <1>1, <1>2, FilesPair
<1>4. PairOwed'
  BY <1>1 DEF Deciding, FilesUnchanged, RecordHas, Top, Pair, PairOwed
<1> QED
  BY <1>3, <1>4 DEF Pair

LEMMA FinishPair ==
    ASSUME Base, Pair, NEW c \in Callers, FinishDecision(c)
    PROVE  Pair'
<1>1. /\ call[c].pc = "mark" /\ FilesUnchanged /\ kind' = kind
      /\ marks' = IF call[c].minted /\ recOwed # None THEN marks \cup {call[c].key} ELSE marks
      /\ call'[c].pc = "idle" /\ \A o \in Callers : o # c => call'[o] = call[o]
  BY FinishPlain, IdleIsCall
<1>2. \A o \in Callers : o # c => call[o].pc \notin Middle
  BY <1>1 DEF Base, CallInv, Middle
<1>3. /\ \A k \in wit : k <= call[c].key
      /\ mintOwed # None => mintOwed.key = call[c].key
      /\ recOwed # None => recOwed.key = call[c].key
  BY <1>1 DEF Base, CallInv, MintedOK, Owed
<1>4. recOwed # None \/ RecordHas(call[c].key)
  BY <1>1 DEF Pair, PairOwed
<1>5. ASSUME NEW r \in Onhand, r.key \in marks \/ \E o \in Callers : call[o].pc \in Middle /\ call[o].key = r.key
      PROVE  RecordHas(r.key) \/ r.key \in marks'
  <2>1. CASE r.key \in marks
    BY <1>1, <2>1
  <2>2. CASE r.key = call[c].key
    <3>1. CASE call[c].minted
      BY <1>1, <1>4, <2>2, <3>1
    <3>2. CASE ~call[c].minted
      BY <1>1, <3>2, AllTypes, <1>3, <2>2 DEF Pair, PairOwed, Base, OwedInv, TypeInv, All
    <3> QED
      BY <3>1, <3>2
  <2> QED
    BY <1>2, <1>5, <2>1, <2>2
<1>6. PairOnFile' /\ PairHeld' /\ SentInv' /\ AbsentInv'
  BY <1>1, <1>5, FilesPair DEF Taken
<1>7. PairOwed'
  BY <1>1, <1>2, <1>3, <1>4 DEF Deciding, Middle, FilesUnchanged, RecordHas, Top, PairOwed
<1> QED
  BY <1>6, <1>7 DEF Pair

LEMMA CrashPair ==
    ASSUME Base, Pair, Crash
    PROVE  Pair'
<1>1. /\ ~up' /\ trail' = <<>> /\ recOwed' = None /\ mintOwed' = None
      /\ UNCHANGED <<recFile, outFile, wit, kind, server>>
      /\ call' = [c \in Callers |-> IdleCall] /\ pass' = [d \in Dispatchers |-> IdlePass]
  BY DEF Crash, diskVars
<1>2. /\ \A c \in Callers : call'[c].pc = "idle"
      /\ \A d \in Dispatchers : ~InHand(d)'
  BY <1>1 DEF IdleCall, IdlePass, InHand
<1>3. Onhand' = {} /\ \A k : Top(k)' <=> Top(k)
  BY <1>1, EmptyTrail DEF Onhand, Top
<1>4. PairOnFile' /\ PairHeld' /\ PairOwed' /\ AbsentInv'
  BY <1>1, <1>2, <1>3, SameRecord DEF Pair, PairOnFile, PairHeld, PairOwed, AbsentInv
<1>5. HistoryKept /\ HandKept
  BY <1>1, <1>2 DEF HistoryKept, HandKept, Taken
<1> QED
  BY <1>1, <1>4, <1>5, SentSame, SentKeeps, SameRecord DEF Pair

-----------------------------------------------------------------------------
(* A start, from files that were never damaged.                            *)

\* A start that heals takes up the newest decision.
LEMMA HealsNewest ==
    ASSUME Base, Denials, PairOnFile, damage = 0, TailHeals(recFile, outFile), NEW n \in wit, Top(n)
    PROVE  Resolved(recFile, outFile).key = n
<1>0. wit \in SUBSET Nat /\ Last(outFile.rs) \in Filed /\ \A r \in Filed : r.key \in wit
  BY ResolvedIs DEF Base, TypeInv, OutboxTypes, KnownInv
<1>1. ~(recFile.st = "ok" /\ (recFile.key = n \/ recFile.dec = "minor"))
  BY RecordNotHealed
<1>2. n \in Keys(outFile.rs)
  BY <1>1 DEF PairOnFile, RecordHas, Denials, DeniedInv, Covered, Lost
<1>3. PICK r \in Filed : r.key = n
  BY <1>2, AllTypes DEF Base, TypeInv
<1>4. n <= Last(outFile.rs).key /\ Resolved(recFile, outFile).key = Last(outFile.rs).key
  BY <1>3, ResolvedIs
<1>5. Last(outFile.rs).key <= n
  BY <1>0 DEF Top
<1>6. n \in Nat /\ Last(outFile.rs).key \in Nat
  BY <1>0
<1> QED
  BY <1>4, <1>5, <1>6

\* What it writes, and what it owes instead.
LEMMA RestartWrites ==
    ASSUME Base, ZeroInv, damage = 0, NEW healed \in BOOLEAN, NEW marked \in BOOLEAN, NEW wiped \in BOOLEAN,
           Restart(healed, marked, wiped)
    PROVE  IF TailHeals(recFile, outFile)
             THEN \/ recFile' = Resolved(recFile, outFile) /\ recOwed' = None
                  \/ /\ recFile' = recFile
                     /\ recOwed' = Owed(Resolved(recFile, outFile).dec, Resolved(recFile, outFile).at, Resolved(recFile, outFile).key)
                     /\ Resolved(recFile, outFile).key \in marks'
             ELSE recFile' = recFile /\ recOwed' = None
<1> DEFINE heals == TailHeals(recFile, outFile)
           rec == Resolved(recFile, outFile)
           unpr == GrantsUnprovable(recFile, outFile)
           at == IF outFile.rs = <<>> THEN rec.at ELSE SeqMax(0, outFile.rs)
           need == unpr /\ rec.st = "ok" /\ MarkSupersededBy(rec, at)
<1>1. ~unpr
  <2>1. outFile.st # "bad" /\ recFile.st # "bad" /\ ~recFile.unw
    BY DEF ZeroInv
  <2>2. rec.st # "bad" /\ ~rec.unw
    BY <2>1, ResolvedIs
  <2> QED
    BY <2>1, <2>2 DEF GrantsUnprovable
<1>2. /\ recFile' = CASE need /\ marked -> Unwitnessed(rec, at)
                      [] heals /\ healed /\ ~(need /\ marked) -> rec
                      [] OTHER -> recFile
      /\ recOwed' = IF heals /\ ~healed THEN Owed(rec.dec, rec.at, rec.key) ELSE None
      /\ marks' = IF heals /\ ~healed
                      THEN {outFile.rs[i].key : i \in {j \in 1..Len(outFile.rs) :
                              recFile.st # "ok" \/ outFile.rs[j].at > recFile.at}}
                      ELSE {}
  BY DEF Restart
<1>3. ~need
  BY <1>1
<1> HIDE DEF need, at
<1>4. CASE heals /\ ~healed
  <2>1. /\ Last(outFile.rs).key = rec.key /\ outFile.rs # <<>> /\ outFile.rs \in Seq(Rcpt)
        /\ recFile.st # "ok" \/ Last(outFile.rs).at > recFile.at
    BY <1>4, ResolvedIs, AllTypes DEF TailHeals, Base, TypeInv
  <2>2. Len(outFile.rs) \in 1..Len(outFile.rs)
    BY <2>1
  <2>3. outFile.rs[Len(outFile.rs)].key \in marks'
    BY <1>2, <1>4, <2>1, <2>2 DEF Last
  <2> QED
    BY <1>2, <1>3, <1>4, <2>1, <2>3 DEF Last
<1>5. CASE heals /\ healed
  BY <1>2, <1>3, <1>5
<1>6. CASE ~heals
  BY <1>2, <1>3, <1>6
<1> QED
  BY <1>4, <1>5, <1>6

LEMMA RestartPair ==
    ASSUME Floor, MinorInv, Pair, damage = 0, NEW healed \in BOOLEAN, NEW marked \in BOOLEAN, NEW wiped \in BOOLEAN,
           Restart(healed, marked, wiped)
    PROVE  Pair'
<1> DEFINE rec == Resolved(recFile, outFile)
<1>0. /\ Base /\ Denials /\ ZeroInv /\ PairOnFile /\ AbsentInv /\ wit \in SUBSET Nat /\ outFile.rs \in Seq(Rcpt)
      /\ Restarts(rec)
  BY RestartPlain, AllTypes DEF Floor, Denials, Pair, Base, TypeInv, OutboxTypes
<1>1. /\ wit' = wit /\ outFile' = outFile /\ trail' = outFile.rs /\ Onhand' = Filed
      /\ UNCHANGED <<mintOwed, call, passVars, kind>>
      /\ ~up /\ mintOwed = None /\ \A c \in Callers : call[c].pc = "idle"
  BY <1>0 DEF Restarts, Base, DownInv
<1>2. \A k : Top(k)' <=> Top(k)
  BY <1>1 DEF Top
<1>3. IF TailHeals(recFile, outFile)
        THEN \/ recFile' = rec /\ recOwed' = None
             \/ /\ recFile' = recFile /\ recOwed' = Owed(rec.dec, rec.at, rec.key)
                /\ rec.key \in marks'
        ELSE recFile' = recFile /\ recOwed' = None
  BY <1>0, RestartWrites
<1>4. TailHeals(recFile, outFile) =>
          /\ rec.st = "ok"
          /\ \A n \in wit : Top(n) => rec.key = n
          /\ \A n \in wit : Top(n) => ~(recFile.st = "ok" /\ (recFile.key = n \/ recFile.dec = "minor"))
  BY <1>0, ResolvedIs, HealsNewest, RecordNotHealed
<1> HIDE DEF rec
<1>5. RecKept /\ HistoryKept
  BY <1>3, <1>4, <1>1, <1>2 DEF RecordHas, RecKept, HistoryKept, Taken
<1>6. PairOnFile' /\ AbsentInv'
  BY <1>2, <1>5, <1>0, <1>1 DEF RecKept, PairOnFile, AbsentInv
<1>7. ASSUME NEW n \in wit, Top(n), kind[n] = "granted", ~RecordHas(n)
      PROVE  TailHeals(recFile, outFile)
  <2>1. n \in Keys(outFile.rs)
    BY <1>0, <1>7 DEF PairOnFile
  <2>2. ~(recFile.st = "ok" /\ recFile.dec = "minor")
    <3> SUFFICES ASSUME recFile.st = "ok", recFile.dec = "minor" PROVE FALSE
      OBVIOUS
    <3>1. recFile.key \in wit /\ kind[recFile.key] = "minor"
      BY <1>0 DEF Base, KnownInv, Is
    <3>2. recFile.key <= n /\ recFile.key \in Nat /\ n \in Nat
      BY <1>0, <1>7, <3>1 DEF Top
    <3>3. recFile.key # n
      BY <1>7, <3>1
    <3> QED
      BY <1>7, <3>1, <3>2, <3>3 DEF MinorInv
  <2>3. outFile.st = "ok"
    BY <1>0, <2>1, EmptyTrail DEF ZeroInv, AbsentInv, Base, TypeInv, OutboxTypes
  <2> QED
    BY <1>0, <1>7, <2>1, <2>2, <2>3, TailTells DEF RecordHas
<1>8. PairHeld'
  <2> SUFFICES ASSUME NEW r \in Filed, Granted(r), Top(r.key), ~RecordHas(r.key)'
               PROVE  r.key \in marks'
    BY <1>1, <1>2 DEF PairHeld, Granted
  <2>1. r.key \in wit /\ kind[r.key] = "granted"
    BY <1>0, RcptKind DEF Base, KnownInv, All, Granted
  <2>2. ~RecordHas(r.key)
    BY <1>2, <1>5, <2>1 DEF RecKept
  <2>3. TailHeals(recFile, outFile)
    BY <1>7, <2>1, <2>2
  <2>4. rec.key = r.key /\ rec.st = "ok"
    BY <1>4, <2>1, <2>3
  <2> QED
    BY <1>3, <2>3, <2>4 DEF RecordHas
<1>9. PairOwed'
  <2>1. recOwed' # None => Top(recOwed.key)'
    <3> SUFFICES ASSUME recOwed' # None PROVE Top(rec.key)
      BY <1>2, <1>3 DEF Owed, Top
    <3>1. TailHeals(recFile, outFile)
      BY <1>3
    <3>2. \E k \in wit : TRUE
      BY <1>0, <3>1, ResolvedIs DEF Base, KnownInv
    <3>3. \E n \in wit : Top(n)
      <4>1. Len(kind) \in Nat /\ \A j \in wit : j <= Len(kind)
        BY <1>0 DEF Base, TypeInv, CoreTypes, KnownInv, Taken
      <4> QED
        BY <1>0, <3>2, <4>1, LargestNumber DEF Top
    <3> QED
      BY <1>4, <3>1, <3>3
  <2> QED
    BY <1>1, <2>1 DEF PairOwed
<1>10. SentInv'
  BY <1>1, <1>5, SentSame, SentKeeps DEF HandKept, InHand, passVars, Pair
<1> QED
  BY <1>6, <1>8, <1>9, <1>10 DEF Pair

-----------------------------------------------------------------------------
(* What the dispatch takes up.                                             *)

\* A grant that no hold stops is behind its record.
LEMMA PickedPair ==
    ASSUME Base, Denials, Pair, up, Dispatchable # {}, ~Held(Oldest)
    PROVE  /\ Taken(Oldest.key)
           /\ kind[Oldest.key] = "granted" => Oldest.key \in wit /\ (Top(Oldest.key) => RecordHas(Oldest.key))
<1> DEFINE r == Oldest
<1>1. r \in Onhand
  BY OldestDispatchable DEF Base, TypeInv, OutboxTypes, KeptInv, TrailOrdered
<1>2. Is(r.key, r.dec) /\ (Granted(r) => r.key \in wit)
  BY PickedSafe
<1>3. r.key \notin marks /\ (Granted(r) => ~Arming)
  BY DEF Held, GrantPairIncomplete
<1> HIDE DEF r
<1>4. ASSUME Granted(r), Top(r.key) PROVE RecordHas(r.key)
  <2>1. ASSUME NEW c \in Callers, call[c].pc \in Middle, call[c].key = r.key PROVE FALSE
    BY <2>1, <1>2, <1>4, CallKinds, <1>3 DEF Middle, Is, Granted, Arming
  <2> QED
    BY <1>1, <1>3, <1>4, <2>1 DEF Pair, PairHeld
<1>5. Taken(r.key) /\ (kind[r.key] = "granted" => Granted(r))
  BY <1>2 DEF Is, Granted
<1> QED
  BY <1>2, <1>4, <1>5 DEF r

\* The service records what a pass has in hand.
LEMMA ServerKeys ==
    ASSUME Base, NEW d \in Dispatchers, QuietPass(d)
    PROVE  Keys(server') \subseteq SentKeys
<1>1. CASE server' = server
  BY <1>1 DEF SentKeys
<1>2. CASE server' # server
  <2>1. ServiceRecords(d)
    BY <1>2 DEF QuietPass, StartPass, ClaimDispatch, NextReceipt, RecheckGrant, ServiceRefuses,
          ServiceUnavailable, ReceiptRetryable, ReceiptUnanswered, EventLeg, EventsSent
  <2>2. InHand(d) /\ pass[d].r \in Rcpt /\ server \in Seq(Rcpt)
    BY <2>1, PassFields DEF ServiceRecords, Verdict, InHand, Base, TypeInv, PassTypes
  <2>3. server' = Append(server, pass[d].r)
    BY <1>2, <2>1 DEF ServiceRecords
  <2>4. PICK r \in Rcpt : r = pass[d].r
    BY <2>2
  <2>5. Append(server, r) \in Seq(Rcpt) /\ Receipts(Append(server, r)) = Receipts(server) \cup {r}
    BY <2>2, <2>4, AppendOrdered
  <2>6. \A k : k \in Keys(Append(server, r)) => k \in Keys(server) \/ k = r.key
    BY <2>2, <2>5, KeysOf
  <2>7. r.key \in SentKeys
    BY <2>2, <2>4 DEF SentKeys
  <2> QED
    BY <2>3, <2>4, <2>6, <2>7 DEF SentKeys
<1> QED
  BY <1>1, <1>2

LEMMA QuietPair ==
    ASSUME Base, Denials, Pair, NEW d \in Dispatchers, QuietPass(d)
    PROVE  Pair'
<1>1. CoreUnchanged /\ up
  BY QuietPassCore
<1>2. PairOnFile' /\ PairHeld' /\ PairOwed' /\ AbsentInv'
  BY <1>1, CorePair
<1>3. SentInv'
  <2> SUFFICES ASSUME NEW k \in SentKeys'
               PROVE  /\ Taken(k)'
                      /\ kind'[k] = "granted" => k \in wit' /\ (Top(k)' => RecordHas(k)')
    BY DEF SentInv
  <2>1. (Taken(k)' <=> Taken(k)) /\ (Top(k)' <=> Top(k)) /\ (RecordHas(k)' <=> RecordHas(k)) /\ kind' = kind /\ wit' = wit
    BY <1>1 DEF CoreUnchanged, Taken, Top, RecordHas
  <2>2. CASE k \in SentKeys
    BY <2>1, <2>2 DEF Pair, SentInv
  <2>3. CASE k \notin SentKeys
    BY <2>3, ServerKeys, QuietHand, <1>1, <2>1, PickedPair DEF SentKeys
  <2> QED
    BY <2>2, <2>3
<1> QED
  BY <1>2, <1>3 DEF Pair

LEMMA NextPair == Floor /\ MinorInv /\ PairInv /\ [Next]_vars => PairInv'
<1> SUFFICES ASSUME Floor, MinorInv, PairInv, [Next]_vars PROVE PairInv'
  OBVIOUS
<1>0. Base /\ Denials /\ damage \in Nat
  BY DEF Floor, Base, TypeInv, CoreTypes
<1>1. CASE damage' # damage
  <2>1. CASE DamageFile
    BY <1>0, <2>1 DEF DamageFile, PairInv
  <2>2. ASSUME NEW c \in Callers, DecisionStep(c) PROVE FALSE
    BY <1>0, <1>1, <2>2, DecisionSettles, BeginGrantPlain DEF Settles, FilesUnchanged
  <2>3. ASSUME NEW d \in Dispatchers, PassStep(d) PROVE FALSE
    BY <1>0, <1>1, <2>3, PassSettles DEF Settles
  <2> QED
    BY <1>1, <2>1, <2>2, <2>3 DEF Next, Decide, DeferralElapses, Crash, Restart, boundVars, vars
<1>2. CASE damage' = damage
  <2> SUFFICES ASSUME damage = 0, Pair PROVE Pair'
    BY <1>2 DEF PairInv
  <2>1. CASE UNCHANGED vars
    <3>1. CoreUnchanged /\ pass' = pass /\ server' = server
      BY <2>1 DEF vars, CoreUnchanged, diskVars, outboxVars, owedVars, passVars, histVars, boundVars
    <3>2. HandKept
      BY <3>1 DEF HandKept, InHand
    <3> QED
      BY <1>0, <3>1, <3>2, CorePair, SentSame, SentKeeps DEF Pair
  <2>2. ASSUME NEW c \in Callers, DecisionStep(c) PROVE Pair'
    BY <1>0, <2>2, BeginGrantPair, BeginDenialPair, MintPair, GrantRecordPair, FinishPair DEF DecisionStep
  <2>3. ASSUME NEW c \in Callers, NEW dec \in Kinds, Decide(c, dec) PROVE Pair'
    BY <1>0, <2>3, DecidePair
  <2>4. ASSUME NEW d \in Dispatchers, PassStep(d) PROVE Pair'
    <3>1. CASE QuietPass(d)
      BY <1>0, <3>1, QuietPair
    <3>2. CASE RetryMint(d)
      BY <1>0, <3>2, RetryMintPair
    <3>3. CASE RetryPersist(d)
      BY <1>0, <3>3, RetryPersistPair
    <3>4. CASE RetryRecord(d)
      BY <1>0, <3>4, RetryRecordPair
    <3>5. CASE ReceiptSettled(d)
      BY <1>0, <3>5, SettledPair
    <3> QED
      BY <2>4, <3>1, <3>2, <3>3, <3>4, <3>5 DEF PassStep, QuietPass
  <2>5. CASE DeferralElapses
    <3>1. CoreUnchanged /\ pass' = pass /\ server' = server
      BY <2>5 DEF DeferralElapses, CoreUnchanged, diskVars, outboxVars, owedVars, histVars, boundVars
    <3>2. HandKept
      BY <3>1 DEF HandKept, InHand
    <3> QED
      BY <1>0, <3>1, <3>2, CorePair, SentSame, SentKeeps DEF Pair
  <2>6. CASE Crash
    BY <1>0, <2>6, CrashPair
  <2>7. CASE DamageFile
    BY <1>0, <1>2, <2>7 DEF DamageFile
  <2>8. ASSUME NEW healed \in BOOLEAN, NEW marked \in BOOLEAN, NEW wiped \in BOOLEAN,
               Restart(healed, marked, wiped) PROVE Pair'
    BY <2>8, RestartPair
  <2> QED
    BY <2>1, <2>2, <2>3, <2>4, <2>5, <2>6, <2>7, <2>8 DEF Next
<1> QED
  BY <1>1, <1>2

LEMMA InitPair == Init => PairInv
<1> SUFFICES ASSUME Init PROVE Pair
  BY DEF PairInv
<1>1. /\ wit = {} /\ trail = <<>> /\ server = <<>> /\ mintOwed = None /\ recOwed = None /\ outFile = AbsentTrail
      /\ call = [c \in Callers |-> IdleCall] /\ pass = [d \in Dispatchers |-> IdlePass]
  BY DEF Init
<1>2. /\ \A c \in Callers : call[c].pc = "idle"
      /\ \A d \in Dispatchers : ~InHand(d)
  BY <1>1, AllIdle
<1>3. Onhand = {} /\ Keys(server) = {} /\ outFile.rs = <<>>
  BY <1>1, EmptyTrail DEF Onhand, AbsentTrail
<1>4. SentKeys = {}
  BY <1>2, <1>3 DEF SentKeys
<1> QED
  BY <1>1, <1>2, <1>3, <1>4 DEF Pair, PairOnFile, PairHeld, PairOwed, SentInv, AbsentInv

\* A grant that the service recorded is what a crash at any instant brings
\* back, as long as it is the newest decision and no file is damaged: no
\* receipt of a grant leaves before the record says it
\* (consentGrantPairIncomplete, recordOwedKeys, retryOwedConsentRecord).
THEOREM GrantsSurvive == Spec => []RecordedGrantSurvives
<1>1. Init => MinorInv
  BY DEF Init, MinorInv
<1>2. Floor /\ MinorInv /\ PairInv => RecordedGrantSurvives
  <2> SUFFICES ASSUME Floor, MinorInv, PairInv, damage = 0, HasLatest, kind[Latest] = "granted", Latest \in Keys(server)
               PROVE  RestoredState(recFile, outFile) = "granted"
    BY DEF RecordedGrantSurvives
  <2>1. Top(Latest)
    BY LatestIs DEF Floor, Top
  <2>2. Latest \in wit /\ RecordHas(Latest)
    BY <2>1 DEF PairInv, Pair, SentInv, SentKeys
  <2>3. recFile.dec = "granted"
    BY <2>2 DEF RecordHas, Floor, Base, KnownInv, Is
  <2> QED
    BY <2>1, <2>2, <2>3, RecordStands DEF RecordHas, Floor, Denials
<1> QED
  BY InitFloor, NextFloor, NextMinor, InitPair, NextPair, <1>1, <1>2, PTL DEF Spec
-----------------------------------------------------------------------------
(* Delivery: what left is older than what waits.                           *)

LEMMA PassKeeps ==
    ASSUME PassKept
    PROVE  HandKept
BY DEF PassKept, HandKept, InHand

\* The steps after which the service knows what it knew before.
LEMMA DeliverKeeps ==
    ASSUME Base, Deliver, PassKept, HistoryKept, server' = server, refused' = refused,
           damage' \in Nat, damage <= damage',
           \A t \in All' : t \in All \/ Newer(t.key),
           \A t \in Onhand' : t \in Onhand \/ Newer(t.key) \/ \A e \in Dispatchers : ~InHand(e)',
           mintOwed' # None => Newer(mintOwed'.key),
           \A c \in Callers : call'[c].pc \in {"turn", "mint"} => Newer(call'[c].key),
           \A r \in Filed' : r.key \in settled' => Heard(r.key),
           unusable' \/ unprovable' => damage' > 0
    PROVE  Deliver'
<1>0. /\ damage \in Nat /\ server \in Seq(Rcpt) /\ Keys(server)' = Keys(server) /\ SentKeys' \subseteq SentKeys
      /\ \A k : Heard(k)' <=> Heard(k)
      /\ (damage' = 0 => damage = 0) /\ (damage > 0 => damage' > 0)
  BY PassKeeps, SentSame DEF Base, TypeInv, CoreTypes, PassTypes, Heard
<1>1. \A r : InOrder(r) => InOrder(r)'
  BY <1>0 DEF InOrder, Granted
<1>2. \A k : Newer(k) => Newer(k)'
  BY <1>0 DEF Newer
<1>3. DeliveryInDecisionOrder'
  <2> SUFFICES ASSUME NEW i \in 1..Len(server), NEW j \in 1..Len(server), i < j
               PROVE  server[i].key < server[j].key \/ (damage' > 0 /\ kind'[server[j].key] = "granted")
    BY DEF DeliveryInDecisionOrder
  <2>1. server[i].key < server[j].key \/ (damage > 0 /\ kind[server[j].key] = "granted")
    BY DEF Deliver, DeliveryInDecisionOrder
  <2>2. server[j].key \in SentKeys
    BY DEF SentKeys, Keys
  <2>3. kind'[server[j].key] = kind[server[j].key]
    BY <2>2 DEF Deliver, SentOlder, HistoryKept
  <2> QED
    BY <1>0, <2>1, <2>3
<1>4. ClaimInv'
  BY DEF Deliver, ClaimInv, PassKept
<1>5. QueueInv'
  <2> SUFFICES ASSUME NEW t \in All' PROVE InOrder(t)'
    BY DEF QueueInv
  <2>1. CASE t \in All
    BY <1>1, <2>1 DEF Deliver, QueueInv
  <2>2. CASE Newer(t.key)
    BY <1>0, <2>2 DEF Newer, SentKeys, InOrder
  <2> QED
    BY <2>1, <2>2
<1>6. AheadInv'
  <2> SUFFICES ASSUME NEW d \in Dispatchers, Leaving(d)'
               PROVE  /\ InOrder(pass[d].r)'
                      /\ \A t \in Onhand' : pass'[d].r.key <= t.key \/ (Granted(t)' /\ damage' > 0)
    BY DEF AheadInv
  <2>1. Leaving(d) /\ pass'[d] = pass[d] /\ InHand(d) /\ InHand(d)'
    BY DEF PassKept, Leaving, InHand
  <2>2. pass[d].r.key \in SentKeys /\ pass[d].r.key \in Nat
    BY <2>1, RcptFields DEF SentKeys, Base, TypeInv, PassTypes
  <2>3. InOrder(pass[d].r)'
    BY <1>1, <2>1 DEF Deliver, AheadInv, InOrder, Heard, Granted
  <2>4. ASSUME NEW t \in Onhand' PROVE pass[d].r.key <= t.key \/ (Granted(t) /\ damage > 0)
    BY <2>1, <2>2 DEF Deliver, AheadInv, Newer
  <2>5. ASSUME NEW t \in Onhand' PROVE pass'[d].r.key <= t.key \/ (Granted(t)' /\ damage' > 0)
    BY <1>0, <2>1, <2>4 DEF Granted
  <2> QED
    BY <2>3, <2>5
<1>7. SentOlder'
  BY <1>0 DEF Deliver, SentOlder, HistoryKept, Newer
<1>8. HeardInv'
  <2>1. \A r \in Filed' : r.key \in settled' => Heard(r.key)'
    BY <1>0
  <2>2. ASSUME NEW d \in Dispatchers, pass'[d].pc = "reply", pass'[d].verdict # "none"
        PROVE  Heard(pass[d].r.key)'
    BY <2>2, <1>0 DEF PassKept, InHand, Deliver, HeardInv, Heard
  <2> QED
    BY <2>1, <2>2 DEF HeardInv
<1>9. VouchInv'
  BY DEF VouchInv
<1> QED
  BY <1>3, <1>4, <1>5, <1>6, <1>7, <1>8, <1>9 DEF Deliver

\* A pass that is retrying what is owed has nothing in hand.
LEMMA RetryKept ==
    ASSUME Base, NEW d \in Dispatchers, NEW pc \in {"retryPersist", "retryRecord", "claim"},
           PassTo(d, pc), claim' = claim
    PROVE  PassKept
<1>1. pass \in [Dispatchers -> Pass] /\ pass[d] \in Pass
  BY DEF Base, TypeInv, PassTypes
<1>2. pass'[d].pc = pc /\ \A e \in Dispatchers : e # d => pass'[e] = pass[e]
  BY <1>1 DEF PassTo, Pass
<1> QED
  BY <1>2 DEF PassKept, Holding, InHand

\* Steps that leave the trail and its file, and take up no decision.
LEMMA StillDelivers ==
    ASSUME Base, Deliver, PassKept, HistoryKept,
           UNCHANGED <<outFile, trail, settled, unusable, unprovable, server, refused, damage>>,
           mintOwed' # None => Newer(mintOwed'.key),
           \A c \in Callers : call'[c].pc \in {"turn", "mint"} => Newer(call'[c].key)
    PROVE  Deliver'
<1>1. Onhand' = Onhand /\ Filed' = Filed /\ All' = All
  BY DEF Onhand, Filed, All
<1>2. damage \in Nat
  BY DEF Base, TypeInv, CoreTypes
<1>3. /\ \A r \in Filed' : r.key \in settled' => Heard(r.key)
      /\ unusable' \/ unprovable' => damage' > 0
  BY <1>1 DEF Deliver, HeardInv, VouchInv
<1> QED
  BY <1>1, <1>2, <1>3, DeliverKeeps

\* A save brings to the file nothing that was settled unheard.
LEMMA SavedHeard ==
    ASSUME KeptInv', NEW mirror, NEW done, NEW ms, Unwritten(mirror, done, ms) \/ Written(mirror, done, ms),
           \A r \in Filed : r.key \in done => Heard(r.key)
    PROVE  \A r \in Filed' : r.key \in settled' => Heard(r.key)
<1>1. CASE Unwritten(mirror, done, ms)
  BY <1>1 DEF Unwritten, Filed
<1>2. CASE Written(mirror, done, ms)
  BY <1>2 DEF Written, Filed, Onhand, KeptInv
<1> QED
  BY <1>1, <1>2

LEMMA ShrinkDelivers ==
    ASSUME Base, Deliver, up, NEW mirror, NEW done, Fits(mirror, done),
           \A r \in Filed : r.key \in done => Heard(r.key),
           NEW ms \in SUBSET Nat, NEW ok \in BOOLEAN, saveLocked(FALSE, mirror, done, ms, ok),
           Shrinks, PassKept, server' = server, refused' = refused
    PROVE  Deliver'
<1>0. /\ UNCHANGED <<mintOwed, call, kind, damage>> /\ wit \subseteq wit' /\ KeptInv' /\ damage \in Nat
      /\ Onhand' \subseteq Onhand /\ All' \subseteq All
  BY DEF Shrinks, DecisionsUnchanged, Base, TypeInv, CoreTypes, All
<1>1. /\ unusable' = (unusable /\ ~FALSE) /\ unprovable' = (unprovable /\ ~FALSE)
      /\ Unwritten(mirror, done, ms) \/ Written(mirror, done, ms)
  BY SaveEffect DEF Base, TypeInv, OutboxTypes
<1>2. \A r \in Filed' : r.key \in settled' => Heard(r.key)
  BY <1>0, <1>1, SavedHeard
<1>3. HistoryKept
  BY <1>0 DEF HistoryKept, Taken
<1>4. unusable' \/ unprovable' => damage' > 0
  BY <1>0, <1>1 DEF Deliver, VouchInv
<1> QED
  BY <1>0, <1>2, <1>3, <1>4, DeliverKeeps DEF Deliver, SentOlder

\* The newest receipt joins the trail.
LEMMA AppendDelivers ==
    ASSUME Base, Deliver, PassKept, NEW r \in Rcpt, Newer(r.key), Appends(r), r.key \in wit \cup mine, NEW ms,
           Unwritten(Append(trail, r), settled, ms) \/ Written(Append(trail, r), settled, ms),
           mintOwed' = None, UNCHANGED <<kind, mine, server, refused, damage>>,
           \A c \in Callers : call'[c].pc \in {"turn", "mint"} => Newer(call'[c].key)
    PROVE  Deliver'
<1>0. /\ KeptInv' /\ damage \in Nat /\ HistoryKept /\ ~unusable' /\ ~unprovable'
      /\ Onhand' \subseteq Onhand \cup {r} /\ All' \subseteq All \cup {r}
  BY AppendHistory DEF Appends, Base, TypeInv, CoreTypes, All
<1>1. \A t \in Filed' : t.key \in settled' => Heard(t.key)
  BY <1>0, SavedHeard DEF Deliver, HeardInv
<1> QED
  BY <1>0, <1>1, DeliverKeeps

LEMMA PassDelivers ==
    ASSUME Base, Deliver, NEW d \in Dispatchers, RetryMint(d) \/ RetryPersist(d) \/ RetryRecord(d)
    PROVE  Deliver'
<1>0. /\ PassKept /\ server' = server /\ refused' = refused
  BY RetryKept DEF RetryMint, RetryPersist, RetryRecord
<1>s. ASSUME CoreUnchanged PROVE Deliver'
  BY <1>s, <1>0, StillDelivers DEF CoreUnchanged, HistoryKept, Taken, Deliver, SentOlder
<1>1. CASE RetryMint(d)
  <2>1. CASE ~CoreUnchanged
    BY <1>1, <2>1, RetryMintPlain, <1>0, AppendDelivers DEF Deliver, SentOlder, Base, KnownInv
  <2> QED
    BY <1>s, <2>1
<1>2. CASE RetryPersist(d)
  <2>0. Shrinks /\ up
    BY <1>2, RetryPersistShrinks
  <2>1. CASE dirty
    <3>1. PICK ok \in BOOLEAN : saveLocked(FALSE, trail, settled, marks, ok)
      BY <1>2, <2>1 DEF RetryPersist
    <3>2. Fits(trail, settled) /\ marks \in SUBSET Nat
      BY <2>0, MirrorFits DEF Base, TypeInv, OutboxTypes
    <3> QED
      BY <1>0, <2>0, <3>1, <3>2, ShrinkDelivers DEF Deliver, HeardInv
  <2>2. CASE ~dirty
    BY <1>2, <2>2, <1>s DEF RetryPersist, CoreUnchanged, outboxVars, owedVars, histVars, boundVars
  <2> QED
    BY <2>1, <2>2 DEF Base, TypeInv, OutboxTypes
<1>3. CASE RetryRecord(d)
  <2>1. CASE ~CoreUnchanged
    BY <1>3, <2>1, RetryRecordPlain, <1>0, StillDelivers DEF Records, HistoryKept, Taken, Deliver, SentOlder
  <2> QED
    BY <1>s, <2>1
<1> QED
  BY <1>1, <1>2, <1>3

LEMMA SettledDelivers ==
    ASSUME Base, Deliver, NEW d \in Dispatchers, ReceiptSettled(d)
    PROVE  Deliver'
<1>0. PICK k : k = pass[d].r.key
  OBVIOUS
<1>1. /\ pass[d].pc = "reply" /\ pass[d].verdict # "none"
      /\ claim' = claim /\ server' = server /\ refused' = refused
      /\ pass' = [pass EXCEPT ![d].handed = @ \cup {k}, ![d].pc = "next"]
  BY <1>0 DEF ReceiptSettled, HandOver
<1>2. Shrinks /\ up /\ k \in Nat /\ pass \in [Dispatchers -> Pass] /\ pass[d] \in Pass
  BY <1>0, SettledPlain DEF Base, TypeInv, PassTypes
<1>3. pass'[d].pc = "next" /\ \A e \in Dispatchers : e # d => pass'[e] = pass[e]
  BY <1>1, <1>2 DEF Pass
<1>4. PassKept /\ Heard(k)
  BY <1>0, <1>1, <1>3 DEF PassKept, Holding, InHand, Deliver, HeardInv
<1>5. CASE CoreUnchanged
  BY <1>5, <1>1, <1>4, StillDelivers DEF CoreUnchanged, HistoryKept, Taken, Deliver, SentOlder
<1>6. CASE ~CoreUnchanged
  <2>1. /\ Fits(Without(trail, {k}), settled \cup {k}) /\ marks \ {k} \in SUBSET Nat
        /\ \E ok \in BOOLEAN : saveLocked(FALSE, Without(trail, {k}), settled \cup {k}, marks \ {k}, ok)
    BY <1>0, <1>6, SettledPlain
  <2>2. \A r \in Filed : r.key \in settled \cup {k} => Heard(r.key)
    BY <1>4 DEF Deliver, HeardInv
  <2> QED
    BY <1>1, <1>2, <1>4, <2>1, <2>2, ShrinkDelivers
<1> QED
  BY <1>5, <1>6

LEMMA PassStill ==
    ASSUME UNCHANGED <<pass, claim>>
    PROVE  PassKept
BY DEF PassKept, Holding, InHand

LEMMA DecisionDelivers ==
    ASSUME Base, Deliver, NEW c \in Callers, DecisionStep(c)
    PROVE  Deliver'
<1>0. /\ TypeInv /\ call[c] \in Call
      /\ \A o \in Callers : call[o].pc \in {"turn", "mint"} => Newer(call[o].key)
      /\ mintOwed # None => Newer(mintOwed.key)
  BY CallFields DEF Base, Deliver, SentOlder
<1>1. CASE BeginGrant(c)
  <2>1. /\ FilesUnchanged /\ kind' = kind /\ call[c].pc = "turn"
        /\ \A o \in Callers : o # c => call'[o] = call[o]
        /\ call'[c] = [call[c] EXCEPT !.pc = "mint"] \/ call'[c] = IdleCall
    BY <1>1, BeginGrantPlain DEF MyTurn
  <2>2. call'[c].pc \in {"turn", "mint"} => call'[c].key = call[c].key
    BY <1>0, <2>1, IdleIsCall DEF Call
  <2>3. HistoryKept /\ PassKept
    BY <2>1, PassStill DEF HistoryKept, FilesUnchanged, passVars, Taken
  <2> QED
    BY <1>0, <2>1, <2>2, <2>3, StillDelivers DEF FilesUnchanged, passVars
<1>2. CASE BeginDenial(c)
  <2>1. PICK r \in Rcpt, persisted \in BOOLEAN : DenialBegins(c, r, persisted)
    BY <1>2, BeginDenialPlain
  <2>2. /\ UNCHANGED <<outFile, mintOwed, trail, settled, unusable, unprovable, passVars, kind, damage>> /\ wit \subseteq wit'
        /\ call[c].pc = "turn" /\ call'[c] = [call[c] EXCEPT !.pc = "mint", !.at = r.at]
        /\ \A o \in Callers : o # c => call'[o] = call[o]
    BY <2>1 DEF DenialBegins, Records
  <2>3. call'[c].key = call[c].key
    BY <1>0, <2>2 DEF Call
  <2>4. HistoryKept /\ PassKept
    BY <2>2, PassStill DEF HistoryKept, passVars, Taken
  <2> QED
    BY <1>0, <2>2, <2>3, <2>4, StillDelivers DEF passVars
<1>3. CASE MintReceipt(c)
  <2>1. PICK r \in Rcpt, minted \in BOOLEAN, ok \in BOOLEAN : Mints(c, r, minted, ok)
    BY <1>3, MintPlain
  <2>2. /\ r.key = call[c].key /\ call[c].pc = "mint" /\ UNCHANGED <<passVars, kind, mine, damage>>
        /\ \A o \in Callers : o # c => call'[o] = call[o]
        /\ call'[c] = [call[c] EXCEPT !.pc = IF call[c].dec = "granted" THEN "record" ELSE "mark",
                                      !.at = r.at, !.minted = minted, !.safe = minted /\ ok]
    BY <1>3, <2>1 DEF Mints, MintReceipt
  <2>3. Newer(r.key) /\ r.key \in wit \cup mine
    BY <1>0, <2>2 DEF Base, KnownInv
  <2>4. call'[c].pc \notin {"turn", "mint"}
    BY <1>0, <2>2 DEF Call
  <2>5. \A o \in Callers : call'[o].pc \in {"turn", "mint"} => Newer(call'[o].key)
    BY <1>0, <2>2, <2>4
  <2>6. PassKept /\ server' = server /\ refused' = refused
    BY <2>2, PassStill DEF passVars
  <2>7. CASE mintOwed' = r /\ UNCHANGED <<outFile, outboxVars, wit>>
    BY <2>2, <2>7, <2>3, <2>5, <2>6, StillDelivers DEF HistoryKept, Taken, outboxVars
  <2>8. CASE /\ mintOwed' = None /\ Appends(r)
             /\ Unwritten(Append(trail, r), settled, marks) \/ Written(Append(trail, r), settled, marks)
    BY <2>2, <2>3, <2>5, <2>6, <2>8, AppendDelivers
  <2> QED
    BY <2>1, <2>7, <2>8 DEF Mints
<1>4. CASE GrantRecord(c)
  <2>1. PICK r \in Rcpt, persisted \in BOOLEAN : GrantRecords(c, r, persisted)
    BY <1>4, GrantRecordPlain
  <2>2. /\ UNCHANGED <<outFile, mintOwed, trail, settled, unusable, unprovable, passVars, kind, damage>> /\ wit \subseteq wit'
        /\ call'[c] = [call[c] EXCEPT !.pc = "mark"] /\ \A o \in Callers : o # c => call'[o] = call[o]
    BY <2>1 DEF GrantRecords, Records
  <2>3. call'[c].pc \notin {"turn", "mint"}
    BY <1>0, <2>2 DEF Call
  <2>4. HistoryKept /\ PassKept
    BY <2>2, PassStill DEF HistoryKept, passVars, Taken
  <2> QED
    BY <1>0, <2>2, <2>3, <2>4, StillDelivers DEF passVars
<1>5. CASE FinishDecision(c)
  <2>1. /\ FilesUnchanged /\ kind' = kind /\ call'[c].pc = "idle"
        /\ \A o \in Callers : o # c => call'[o] = call[o]
    BY <1>5, FinishPlain, IdleIsCall
  <2>2. HistoryKept /\ PassKept
    BY <2>1, PassStill DEF HistoryKept, FilesUnchanged, passVars, Taken
  <2> QED
    BY <1>0, <2>1, <2>2, StillDelivers DEF FilesUnchanged, passVars
<1> QED
  BY <1>1, <1>2, <1>3, <1>4, <1>5 DEF DecisionStep

LEMMA DecideDelivers ==
    ASSUME Base, Deliver, NEW c \in Callers, NEW dec \in Kinds, Decide(c, dec)
    PROVE  Deliver'
<1>1. /\ FilesUnchanged /\ call'[c].pc = "turn" /\ call'[c].key = Len(kind) + 1 /\ Len(kind) + 1 \in Nat
      /\ \A o \in Callers : o # c => call'[o] = call[o]
      /\ \A k : Taken(k) => k < Len(kind) + 1 /\ Taken(k)' /\ kind'[k] = kind[k]
  BY DecidePlain
<1>2. Newer(call'[c].key)
  BY <1>1 DEF Newer, Deliver, SentOlder
<1>3. HistoryKept /\ PassKept
  BY <1>1, PassStill DEF HistoryKept, FilesUnchanged, passVars
<1> QED
  BY <1>1, <1>2, <1>3, StillDelivers DEF FilesUnchanged, passVars, Deliver, SentOlder

LEMMA RestDelivers ==
    ASSUME Base, ZeroInv, Deliver,
           \/ UNCHANGED vars \/ DeferralElapses \/ Crash \/ DamageFile
           \/ \E healed, marked, wiped \in BOOLEAN : Restart(healed, marked, wiped)
    PROVE  Deliver'
<1>0. damage \in Nat /\ \A c \in Callers : call[c].pc \in {"turn", "mint"} => Newer(call[c].key)
  BY DEF Base, TypeInv, CoreTypes, Deliver, SentOlder
<1>1. CASE UNCHANGED vars \/ DeferralElapses
  <2>1. CoreUnchanged /\ UNCHANGED <<pass, claim, server, refused>>
    BY <1>1 DEF DeferralElapses, vars, passVars, CoreUnchanged, diskVars, outboxVars, owedVars, histVars, boundVars
  <2>2. HistoryKept
    BY <2>1 DEF CoreUnchanged, HistoryKept, Taken
  <2> QED
    BY <2>1, <2>2, PassStill, StillDelivers DEF CoreUnchanged, Deliver, SentOlder
<1>2. CASE Crash
  <2>1. /\ trail' = <<>> /\ settled' = {} /\ ~unusable' /\ ~unprovable' /\ mintOwed' = None
        /\ call' = [c \in Callers |-> IdleCall] /\ pass' = [d \in Dispatchers |-> IdlePass]
        /\ UNCHANGED <<outFile, server, refused, kind, wit, damage>>
    BY <1>2 DEF Crash, diskVars
  <2>2. /\ \A c \in Callers : call'[c].pc = "idle"
        /\ \A d \in Dispatchers : ~InHand(d)' /\ ~Holding(d)'
    BY <2>1 DEF IdleCall, IdlePass, InHand, Holding
  <2>3. Onhand' = {} /\ All' \subseteq All
    BY <2>1, EmptyTrail DEF Onhand, Filed, All
  <2>4. PassKept /\ HistoryKept
    BY <2>1, <2>2 DEF PassKept, HistoryKept, Taken
  <2> QED
    BY <1>0, <2>1, <2>2, <2>3, <2>4, DeliverKeeps
<1>3. CASE DamageFile
  <2>1. /\ damage' = damage + 1 /\ Filed' \subseteq Filed
        /\ UNCHANGED <<outboxVars, mintOwed, call, passVars, kind, wit>>
    BY <1>3, DamagePlain DEF Damages
  <2>2. Onhand' = Onhand /\ All' \subseteq All
    BY <2>1 DEF Onhand, All, outboxVars
  <2>3. PassKept /\ HistoryKept
    BY <2>1, PassStill DEF HistoryKept, Taken, passVars
  <2>4. \A r \in Filed' : r.key \in settled' => Heard(r.key)
    BY <2>1 DEF Deliver, HeardInv, outboxVars
  <2> QED
    BY <1>0, <2>1, <2>2, <2>3, <2>4, DeliverKeeps DEF passVars, Deliver, SentOlder
<1>4. CASE \E healed, marked, wiped \in BOOLEAN : Restart(healed, marked, wiped)
  <2>1. Restarts(Resolved(recFile, outFile))
    BY <1>4, RestartPlain
  <2>2. /\ ~up /\ Onhand' = Filed /\ Filed' = Filed /\ All' = Filed /\ All = Filed /\ wit' = wit
        /\ unusable' = (outFile.st = "bad") /\ unprovable' = GrantsUnprovable(recFile, outFile)
        /\ UNCHANGED <<settled, mintOwed, call, passVars, kind, damage>>
    BY <2>1 DEF Restarts
  <2>3. /\ settled = {} /\ \A d \in Dispatchers : pass[d].pc = "idle"
    BY <2>2 DEF Base, DownInv
  <2>4. GrantsUnprovable(recFile, outFile) => outFile.st = "bad" \/ recFile.st = "bad" \/ recFile.unw
    BY DEF GrantsUnprovable, Resolved, Record
  <2>5. unusable' \/ unprovable' => damage' > 0
    BY <2>2, <2>4 DEF ZeroInv
  <2>6. PassKept /\ HistoryKept /\ \A d \in Dispatchers : ~InHand(d)'
    BY <2>2, <2>3, PassStill DEF HistoryKept, Taken, passVars, InHand
  <2> QED
    BY <1>0, <2>2, <2>3, <2>5, <2>6, DeliverKeeps DEF passVars, Deliver, SentOlder
<1> QED
  BY <1>1, <1>2, <1>3, <1>4

\* What a quiet step of a pass does to the passes, the claim and the service.
LEMMA QuietEffect ==
    ASSUME Base, NEW d \in Dispatchers, QuietPass(d)
    PROVE  /\ \A e \in Dispatchers : e # d => pass'[e] = pass[e]
           /\ claim' = claim \/ claim = None \/ Holding(d)
           /\ Holding(d)' => claim' = d \/ (Holding(d) /\ claim' = claim)
           /\ Leaving(d)' /\ InHand(d) => Leaving(d)
           /\ \/ server' = server /\ refused' = refused /\ pass'[d].pc # "reply"
              \/ /\ Leaving(d) /\ ~Leaving(d)' /\ pass'[d].r = pass[d].r
                 /\ \/ pass'[d].verdict = "none" /\ server' = server /\ refused' = refused
                    \/ /\ pass'[d].verdict = "refused" /\ server' = server
                       /\ refused' = refused \cup {pass[d].r.key}
                    \/ /\ pass'[d].verdict = "recorded" /\ refused' = refused /\ pass[d].r.key \notin refused
                       /\ server' = IF pass[d].r.key \in Keys(server) THEN server ELSE Append(server, pass[d].r)
<1>0. pass \in [Dispatchers -> Pass] /\ pass[d] \in Pass /\ IdlePass.pc = "idle"
  BY DEF Base, TypeInv, PassTypes, IdlePass
<1>2. CASE StartPass(d) \/ ClaimDispatch(d)
  BY <1>0, <1>2 DEF StartPass, ClaimDispatch, PassTo, Pass, Holding, Leaving, InHand
<1>3. CASE NextReceipt(d)
  BY <1>0, <1>3 DEF NextReceipt, EndPass, Pass, Holding, Leaving, InHand
<1>4. CASE RecheckGrant(d)
  BY <1>0, <1>4 DEF RecheckGrant, PassTo, EndPass, Pass, Holding, Leaving, InHand
<1>5. CASE ServiceRecords(d)
  BY <1>0, <1>5 DEF ServiceRecords, Verdict, Pass, Holding, Leaving, InHand
<1>6. CASE ServiceRefuses(d)
  BY <1>0, <1>6 DEF ServiceRefuses, Verdict, Pass, Holding, Leaving, InHand
<1>7. CASE ServiceUnavailable(d)
  BY <1>0, <1>7 DEF ServiceUnavailable, Verdict, Pass, Holding, Leaving, InHand
<1>8. CASE ReceiptRetryable(d) \/ ReceiptUnanswered(d)
  BY <1>0, <1>8 DEF ReceiptRetryable, ReceiptUnanswered, HandOver, EndPass, Pass, Holding, Leaving, InHand
<1>9. CASE EventLeg(d) \/ EventsSent(d)
  BY <1>0, <1>9 DEF EventLeg, EventsSent, PassTo, Pass, Holding, Leaving, InHand
<1> QED
  BY <1>2, <1>3, <1>4, <1>5, <1>6, <1>7, <1>8, <1>9 DEF QuietPass

\* What a pass takes from the trail is older than all that waits.
LEMMA PickedOrder ==
    ASSUME Base, Deliver, Dispatchable # {}
    PROVE  /\ Oldest \in Rcpt /\ InOrder(Oldest) /\ Taken(Oldest.key)
           /\ \A t \in Onhand : Oldest.key <= t.key \/ (Granted(t) /\ damage > 0)
           /\ mintOwed # None => Oldest.key < mintOwed.key
           /\ \A c \in Callers : call[c].pc \in {"turn", "mint"} => Oldest.key < call[c].key
<1>1. /\ Oldest \in Onhand /\ Oldest \in Rcpt
      /\ \A t \in Onhand : t.key >= Oldest.key \/ (Granted(t) /\ (unusable \/ unprovable))
  BY OldestDispatchable DEF Base, TypeInv, OutboxTypes, KeptInv, TrailOrdered
<1>2. Oldest \in All /\ Oldest.key \in Nat /\ \A t \in Onhand : t.key \in Nat
  BY <1>1, RcptFields, AllTypes DEF All, Base, TypeInv
<1>3. \A t \in Onhand : Oldest.key <= t.key \/ (Granted(t) /\ damage > 0)
  BY <1>1, <1>2 DEF Deliver, VouchInv
<1> QED
  BY <1>1, <1>2, <1>3 DEF Deliver, QueueInv, Base, KnownInv, Is, OwedInv, CallInv, TurnOK, MintOK

LEMMA QuietDelivers ==
    ASSUME Base, HandInv, Deliver, NEW d \in Dispatchers, QuietPass(d)
    PROVE  Deliver'
<1> DEFINE h == pass[d].r
<1>0. /\ CoreUnchanged /\ up /\ TypeInv /\ server \in Seq(Rcpt) /\ refused \in SUBSET Nat
      /\ \A e \in Dispatchers : InHand(e) => pass[e].r \in Rcpt /\ pass[e].r.key \in Nat /\ pass[e].r.key \in SentKeys
  BY QuietPassCore, RcptFields DEF Base, TypeInv, PassTypes, SentKeys
<1>1. Onhand' = Onhand /\ Filed' = Filed /\ All' = All
  BY <1>0 DEF CoreUnchanged, Onhand, Filed, All
<1>2. /\ \A e \in Dispatchers : e # d => pass'[e] = pass[e]
      /\ claim' = claim \/ claim = None \/ Holding(d)
      /\ Holding(d)' => claim' = d \/ (Holding(d) /\ claim' = claim)
      /\ Leaving(d)' /\ InHand(d) => Leaving(d)
      /\ \/ server' = server /\ refused' = refused /\ pass'[d].pc # "reply"
         \/ /\ Leaving(d) /\ ~Leaving(d)' /\ pass'[d].r = pass[d].r
            /\ \/ pass'[d].verdict = "none" /\ server' = server /\ refused' = refused
               \/ /\ pass'[d].verdict = "refused" /\ server' = server
                  /\ refused' = refused \cup {h.key}
               \/ /\ pass'[d].verdict = "recorded" /\ refused' = refused /\ h.key \notin refused
                  /\ server' = IF h.key \in Keys(server) THEN server ELSE Append(server, h)
  BY QuietEffect
<1> HIDE DEF h
\* The service records h, or what it recorded stays.
<1>3. \/ server' = server
      \/ /\ Leaving(d) /\ h \in Rcpt /\ ~Heard(h.key) /\ ~Leaving(d)' /\ server' = Append(server, h)
         /\ server' \in Seq(Rcpt) /\ \A k : k \in Keys(server') <=> k \in Keys(server) \/ k = h.key
  <2>1. CASE server' # server
    <3>1. Leaving(d) /\ ~Leaving(d)' /\ server' = Append(server, h) /\ ~Heard(h.key)
      BY <1>2, <2>1 DEF Heard
    <3>2. PICK r \in Rcpt : r = h
      BY <1>0, <3>1 DEF h, Leaving, InHand
    <3>3. Append(server, r) \in Seq(Rcpt) /\ Receipts(Append(server, r)) = Receipts(server) \cup {r}
      BY <1>0, <3>2, AppendOrdered
    <3>4. \A k : k \in Keys(Append(server, r)) <=> k \in Keys(server) \/ k = r.key
      BY <1>0, <3>3, KeysOf
    <3> QED
      BY <3>1, <3>2, <3>3, <3>4
  <2> QED
    BY <2>1
<1>4. /\ \A k : k \in Keys(server) => k \in Keys(server')
      /\ \A k : Heard(k) => Heard(k)'
  BY <1>2, <1>3 DEF Heard
<1>5. ClaimInv'
  <2> SUFFICES ASSUME NEW e \in Dispatchers, Holding(e)' PROVE claim' = e
    BY DEF ClaimInv
  <2>1. e # d => Holding(e)
    BY <1>2 DEF Holding
  <2> QED
    BY <1>2, <2>1, Names DEF Deliver, ClaimInv
<1>6. QueueInv'
  <2> SUFFICES ASSUME NEW r \in All, damage = 0 \/ ~Granted(r)
               PROVE  Heard(r.key)' \/ \A k \in Keys(server') : k < r.key
    BY <1>0, <1>1 DEF QueueInv, InOrder, CoreUnchanged, Granted
  <2>1. Heard(r.key) \/ \A k \in Keys(server) : k < r.key
    BY DEF Deliver, QueueInv, InOrder
  <2>2. CASE server' = server
    BY <1>4, <2>1, <2>2
  <2>3. CASE server' # server
    <3>0. /\ Leaving(d) /\ h \in Rcpt
          /\ \A k : k \in Keys(server') <=> k \in Keys(server) \/ k = h.key
      BY <1>3, <2>3
    <3>1. h.key \in Nat /\ r.key \in Nat
      BY <1>0, AllTypes, <3>0, RcptFields DEF TypeInv
    <3>2. r \in Onhand \/ Heard(r.key)
      BY <1>0 DEF All, Base, KeptInv, Deliver, HeardInv
    <3>3. ASSUME r \in Onhand PROVE h.key <= r.key
      BY <3>0, <3>3, <1>0 DEF Deliver, AheadInv, h, TypeInv, CoreTypes
    <3>4. h.key = r.key => Heard(r.key)'
      BY <3>0 DEF Heard
    <3>5. h.key < r.key /\ (\A k \in Keys(server) : k < r.key) => \A k \in Keys(server') : k < r.key
      BY <3>0
    <3> QED
      BY <1>4, <2>1, <3>1, <3>2, <3>3, <3>4, <3>5
  <2> QED
    BY <2>2, <2>3
<1>7. \A e \in Dispatchers : InHand(e)' =>
        \/ InHand(e) /\ pass'[e].r = pass[e].r
        \/ pass'[e].r = Oldest /\ Dispatchable # {}
  BY QuietHand
<1>8. AheadInv'
  <2> SUFFICES ASSUME NEW e \in Dispatchers, Leaving(e)'
               PROVE  /\ InOrder(pass[e].r)'
                      /\ \A t \in Onhand : pass'[e].r.key <= t.key \/ (Granted(t)' /\ damage > 0)
    BY <1>0, <1>1 DEF AheadInv, CoreUnchanged
  <2>1. server' = server
    <3>1. ASSUME server' # server PROVE FALSE
      BY <1>3, <3>1, <1>2 DEF Leaving, Deliver, ClaimInv, Holding
    <3> QED
      BY <3>1
  <2>2. \E r : /\ r = pass'[e].r /\ InOrder(r)
               /\ \A t \in Onhand : r.key <= t.key \/ (Granted(t) /\ damage > 0)
    <3>1. CASE InHand(e) /\ pass'[e].r = pass[e].r
      BY <1>2, <3>1 DEF Leaving, Deliver, AheadInv
    <3>2. CASE pass'[e].r = Oldest /\ Dispatchable # {}
      BY <3>2, PickedOrder
    <3> QED
      BY <1>7, <3>1, <3>2 DEF InHand, Leaving
  <2>3. PICK r : /\ r = pass'[e].r /\ InOrder(r)
                 /\ \A t \in Onhand : r.key <= t.key \/ (Granted(t) /\ damage > 0)
    BY <2>2
  <2>4. InOrder(pass[e].r)'
    BY <1>0, <1>4, <2>1, <2>3 DEF InOrder, CoreUnchanged, Granted
  <2> QED
    BY <2>3, <2>4 DEF Granted
<1>9. \A k \in SentKeys' : k \in SentKeys \/ (k = Oldest.key /\ Dispatchable # {})
  BY ServerKeys, <1>0, <1>7 DEF SentKeys
<1>10. SentOlder'
  BY <1>0, <1>9, PickedOrder DEF CoreUnchanged, Taken, Deliver, SentOlder, Newer
<1>11. HeardInv'
  <2>1. \A r \in Filed' : r.key \in settled' => Heard(r.key)'
    BY <1>0, <1>1, <1>4 DEF CoreUnchanged, Deliver, HeardInv
  <2>2. ASSUME NEW e \in Dispatchers, pass'[e].pc = "reply", pass'[e].verdict # "none"
        PROVE  Heard(pass[e].r.key)'
    <3>1. CASE e # d
      BY <1>2, <2>2, <3>1, <1>4 DEF Deliver, HeardInv, Heard
    <3>2. CASE e = d
      BY <1>2, <1>3, <2>2, <3>2 DEF h, Heard
    <3> QED
      BY <3>1, <3>2
  <2> QED
    BY <2>1, <2>2 DEF HeardInv
<1>12. VouchInv'
  BY <1>0 DEF VouchInv, Deliver, CoreUnchanged
<1>13. DeliveryInDecisionOrder'
  <2>1. CASE server' = server
    BY <1>0, <2>1 DEF Deliver, DeliveryInDecisionOrder, CoreUnchanged
  <2>2. CASE server' # server
    <3>1. /\ Leaving(d) /\ h \in Rcpt /\ ~Heard(h.key) /\ server' = Append(server, h)
      BY <1>3, <2>2
    <3>2. InOrder(h) /\ Is(h.key, h.dec)
      BY <3>1 DEF Deliver, AheadInv, HandInv, InHand, Leaving, h
    <3>3. PICK r \in Rcpt : r = h
      BY <3>1
    <3>4. /\ Len(server') = Len(server) + 1 /\ server'[Len(server) + 1] = h /\ Len(server) \in Nat
          /\ \A i \in 1..Len(server) : server'[i] = server[i]
      BY <1>0, <3>1, <3>3
    <3>5. kind' = kind /\ damage' = damage /\ damage \in Nat
      BY <1>0 DEF CoreUnchanged, TypeInv, CoreTypes
    <3> SUFFICES ASSUME NEW i \in 1..Len(server'), NEW j \in 1..Len(server'), i < j
                 PROVE  server'[i].key < server'[j].key \/ (damage > 0 /\ kind[server'[j].key] = "granted")
      BY <3>5 DEF DeliveryInDecisionOrder
    <3>6. i \in 1..Len(server)
      BY <3>4
    <3>7. CASE j \in 1..Len(server)
      BY <3>4, <3>6, <3>7 DEF Deliver, DeliveryInDecisionOrder
    <3>8. CASE j = Len(server) + 1
      BY <3>6, <3>1, <3>2, <3>5, <3>4, <3>8 DEF Keys, InOrder, Is, Granted
    <3> QED
      BY <3>4, <3>7, <3>8
  <2> QED
    BY <2>1, <2>2
<1> QED
  BY <1>5, <1>6, <1>8, <1>10, <1>11, <1>12, <1>13 DEF Deliver

LEMMA NextDelivers == Floor /\ Deliver /\ [Next]_vars => Deliver'
<1> SUFFICES ASSUME Floor, Deliver, [Next]_vars PROVE Deliver'
  OBVIOUS
<1>0. Base /\ ZeroInv /\ HandInv
  BY DEF Floor, Denials
<1>1. ASSUME NEW d \in Dispatchers, PassStep(d) PROVE Deliver'
  BY <1>0, QuietDelivers, PassDelivers, SettledDelivers, <1>1 DEF PassStep, QuietPass
<1>2. ASSUME NEW c \in Callers, DecisionStep(c) PROVE Deliver'
  BY <1>0, <1>2, DecisionDelivers
<1>3. ASSUME NEW c \in Callers, NEW dec \in Kinds, Decide(c, dec) PROVE Deliver'
  BY <1>0, <1>3, DecideDelivers
<1>4. CASE \/ UNCHANGED vars \/ DeferralElapses \/ Crash \/ DamageFile
           \/ \E healed, marked, wiped \in BOOLEAN : Restart(healed, marked, wiped)
  BY <1>0, <1>4, RestDelivers
<1> QED
  BY <1>1, <1>2, <1>3, <1>4 DEF Next

LEMMA InitDelivers == Init => Deliver
<1> SUFFICES ASSUME Init PROVE Deliver
  OBVIOUS
<1>1. /\ trail = <<>> /\ server = <<>> /\ mintOwed = None /\ outFile = AbsentTrail /\ ~unusable /\ ~unprovable
      /\ call = [c \in Callers |-> IdleCall] /\ pass = [d \in Dispatchers |-> IdlePass]
  BY DEF Init
<1>2. /\ \A c \in Callers : call[c].pc = "idle"
      /\ \A d \in Dispatchers : pass[d].pc = "idle" /\ ~InHand(d)
  BY <1>1, AllIdle
<1>3. Onhand = {} /\ Filed = {} /\ Keys(server) = {}
  BY <1>1, EmptyTrail DEF Onhand, Filed, AbsentTrail
<1>4. SentKeys = {}
  BY <1>2, <1>3 DEF SentKeys
<1>5. DeliveryInDecisionOrder
  BY <1>1 DEF DeliveryInDecisionOrder
<1> QED
  BY <1>1, <1>2, <1>3, <1>4, <1>5
     DEF Deliver, ClaimInv, QueueInv, AheadInv, SentOlder, HeardInv, VouchInv, All, Holding, Leaving

\* Receipts are recorded by the service in decision order, across crashes and
\* failed writes; after a file was damaged a grant may come late, a denial
\* never does (nextDispatchable, the serial claim, settledKeys, appendMinted).
THEOREM DeliveredInOrder == Spec => []DeliveryInDecisionOrder
<1>1. Deliver => DeliveryInDecisionOrder
  BY DEF Deliver
<1> QED
  BY InitFloor, NextFloor, InitDelivers, NextDelivers, <1>1, PTL DEF Spec

-----------------------------------------------------------------------------
(* The undecided floor: what a start leaves when it can tell no decision.  *)

LEMMA UndecKeeps ==
    ASSUME UndecInv, UNCHANGED <<up, live, epoch, mintOwed, call, mine, kind>>,
           wit \subseteq wit', \A k \in wit' : k \in wit \cup mine,
           up /\ live = "undecided" /\ NoGrantLeaves =>
               NoGrantLeaves' /\ \A d \in Dispatchers : pass'[d].pc = "recheck" => pass[d].pc = "recheck"
    PROVE  UndecInv'
<1> SUFFICES ASSUME up, live = "undecided"
             PROVE  /\ epoch = 0 /\ mintOwed = None /\ \A c \in Callers : call[c].pc \notin Middle
                    /\ \A k \in mine : kind[k] = "granted"
                    /\ \A n \in wit' : Top(n)' /\ kind[n] # "granted" =>
                          NoGrantLeaves' /\ \A d \in Dispatchers : pass'[d].pc # "recheck"
  BY DEF UndecInv
<1>1. /\ epoch = 0 /\ mintOwed = None /\ \A c \in Callers : call[c].pc \notin Middle
      /\ \A k \in mine : kind[k] = "granted"
  BY DEF UndecInv
<1>2. ASSUME NEW n \in wit', Top(n)', kind[n] # "granted"
      PROVE  NoGrantLeaves' /\ \A d \in Dispatchers : pass'[d].pc # "recheck"
  BY <1>1, <1>2 DEF Top, UndecInv
<1> QED
  BY <1>1, <1>2

\* A step of a pass takes up a grant only from a trail that can prove it.
LEMMA RecheckPicks ==
    ASSUME Base, NEW d \in Dispatchers, PassStep(d), NoGrantLeaves,
           NEW e \in Dispatchers, pass'[e].pc = "recheck"
    PROVE  pass[e].pc = "recheck"
<1>0. pass \in [Dispatchers -> Pass] /\ pass[d] \in Pass /\ IdlePass.pc = "idle"
  BY DEF Base, TypeInv, PassTypes, IdlePass
<1>1. ASSUME NextReceipt(d), e = d PROVE FALSE
  <2>1. Dispatchable # {} /\ Granted(Oldest)
    BY <1>0, <1>1 DEF NextReceipt, EndPass, Pass
  <2>2. /\ Granted(Oldest) => ~unusable /\ ~unprovable
        /\ Oldest \in Onhand
    BY <2>1, OldestDispatchable DEF Base, TypeInv, OutboxTypes, KeptInv, TrailOrdered
  <2> QED
    BY <2>1, <2>2, EmptyTrail DEF NoGrantLeaves, Onhand
<1>2. CASE NextReceipt(d) /\ e # d
  BY <1>0, <1>2 DEF NextReceipt, EndPass
<1>3. CASE StartPass(d) \/ RetryMint(d) \/ RetryPersist(d) \/ RetryRecord(d) \/ ClaimDispatch(d)
  BY <1>0, <1>3, ZenonT(60) DEF StartPass, RetryMint, RetryPersist, RetryRecord, ClaimDispatch, PassTo, Pass
<1>4. CASE RecheckGrant(d)
  BY <1>0, <1>4 DEF RecheckGrant, PassTo, EndPass
<1>5. CASE ServiceRecords(d) \/ ServiceRefuses(d) \/ ServiceUnavailable(d)
  BY <1>0, <1>5 DEF ServiceRecords, ServiceRefuses, ServiceUnavailable, Verdict, Pass
<1>6. CASE ReceiptSettled(d) \/ ReceiptRetryable(d) \/ ReceiptUnanswered(d)
  BY <1>0, <1>6 DEF ReceiptSettled, ReceiptRetryable, ReceiptUnanswered, HandOver, EndPass, Pass
<1>7. CASE EventLeg(d) \/ EventsSent(d)
  BY <1>0, <1>7 DEF EventLeg, EventsSent, PassTo, Pass
<1> QED
  BY <1>1, <1>2, <1>3, <1>4, <1>5, <1>6, <1>7 DEF PassStep

\* A step of a pass leaves an undecided floor no better proof of a grant.
LEMMA StillUnproven ==
    ASSUME Base, up, mintOwed = None, NoGrantLeaves, NEW d \in Dispatchers, PassStep(d)
    PROVE  NoGrantLeaves'
<1>1. CASE CoreUnchanged
  BY <1>1 DEF CoreUnchanged, NoGrantLeaves
<1>2. CASE RetryMint(d)
  BY <1>2, RetryMintPlain, <1>1
<1>3. ASSUME NEW mirror, NEW done, Fits(mirror, done), Receipts(mirror) \subseteq Onhand, NEW ms \in SUBSET Nat,
             NEW ok \in BOOLEAN, saveLocked(FALSE, mirror, done, ms, ok)
      PROVE  NoGrantLeaves'
  <2>1. /\ unusable' = (unusable /\ ~FALSE) /\ unprovable' = (unprovable /\ ~FALSE)
        /\ Unwritten(mirror, done, ms) \/ Written(mirror, done, ms)
    BY <1>3, SaveEffect DEF Base, TypeInv, OutboxTypes
  <2>2. ASSUME trail = <<>> PROVE trail' = <<>>
    BY <2>2, EmptyTrail, <1>3, <2>1 DEF Onhand, Unwritten, Written, Fits
  <2> QED
    BY <2>1, <2>2 DEF NoGrantLeaves
<1>4. CASE RetryPersist(d)
  <2>1. CASE dirty
    BY <1>4, <2>1, MirrorFits, <1>3 DEF RetryPersist, Base, TypeInv, OutboxTypes, Onhand
  <2>2. CASE ~dirty
    BY <1>4, <2>2 DEF RetryPersist, outboxVars, NoGrantLeaves
  <2> QED
    BY <2>1, <2>2
<1>5. CASE RetryRecord(d)
  BY <1>5, RetryRecordPlain, <1>1 DEF Records, NoGrantLeaves
<1>6. CASE ReceiptSettled(d)
  <2>1. PICK k : k = pass[d].r.key
    OBVIOUS
  <2>2. CASE CoreUnchanged
    BY <1>1, <2>2 DEF CoreUnchanged, NoGrantLeaves
  <2>3. CASE ~CoreUnchanged
    <3>1. /\ Fits(Without(trail, {k}), settled \cup {k}) /\ marks \ {k} \in SUBSET Nat
          /\ Receipts(Without(trail, {k})) \subseteq Onhand
          /\ \E ok \in BOOLEAN : saveLocked(FALSE, Without(trail, {k}), settled \cup {k}, marks \ {k}, ok)
      BY <1>6, <2>1, <2>3, SettledPlain
    <3> QED
      BY <1>3, <3>1
  <2> QED
    BY <2>2, <2>3
<1>7. CASE QuietPass(d)
  BY <1>1, <1>7, QuietPassCore
<1> QED
  BY <1>2, <1>4, <1>5, <1>6, <1>7 DEF PassStep, QuietPass

LEMMA PassUndec ==
    ASSUME Base, UndecInv, NEW d \in Dispatchers, PassStep(d)
    PROVE  UndecInv'
<1>1. wit' \cup mine' = wit \cup mine /\ UNCHANGED <<kind, live, up>>
  BY PassSettles DEF Settles
<1>2. epoch' = epoch /\ mine' = mine /\ call' = call /\ wit \subseteq wit'
  <2>1. CASE QuietPass(d)
    BY <2>1, QuietPassCore DEF CoreUnchanged
  <2>2. CASE RetryMint(d)
    BY <2>2, RetryMintPlain DEF CoreUnchanged, Appends
  <2>3. CASE RetryPersist(d) \/ ReceiptSettled(d)
    BY <2>3, RetryPersistShrinks, ReceiptSettledShrinks DEF Shrinks, DecisionsUnchanged
  <2>4. CASE RetryRecord(d)
    BY <2>4, RetryRecordPlain DEF CoreUnchanged, Records
  <2> QED
    BY <2>1, <2>2, <2>3, <2>4 DEF PassStep, QuietPass
<1>3. mintOwed = None => mintOwed' = None
  <2>1. CASE QuietPass(d)
    BY <2>1, QuietPassCore DEF CoreUnchanged
  <2>2. CASE RetryMint(d)
    BY <2>2 DEF RetryMint
  <2>3. CASE RetryPersist(d) \/ ReceiptSettled(d)
    BY <2>3, RetryPersistShrinks, ReceiptSettledShrinks DEF Shrinks, DecisionsUnchanged
  <2>4. CASE RetryRecord(d)
    BY <2>4, RetryRecordPlain DEF CoreUnchanged, Records
  <2> QED
    BY <2>1, <2>2, <2>3, <2>4 DEF PassStep, QuietPass
<1>4. CASE ~(up /\ live = "undecided")
  BY <1>1, <1>2, <1>4 DEF UndecInv
<1>5. CASE up /\ live = "undecided"
  <2>1. mintOwed = None /\ mintOwed' = None
    BY <1>3, <1>5 DEF UndecInv
  <2>2. NoGrantLeaves =>
            NoGrantLeaves' /\ \A e \in Dispatchers : pass'[e].pc = "recheck" => pass[e].pc = "recheck"
    BY <1>5, <2>1, StillUnproven, RecheckPicks
  <2> QED
    BY <1>1, <1>2, <2>1, <2>2, UndecKeeps
<1> QED
  BY <1>4, <1>5

LEMMA DecisionUndec ==
    ASSUME Base, LiveInv, UndecInv, NEW c \in Callers, DecisionStep(c)
    PROVE  UndecInv'
<1>u. up'
  <2>1. call[c].pc # "idle" /\ up' = up
    BY DEF DecisionStep, BeginGrant, BeginDenial, MintReceipt, GrantRecord, FinishDecision, MyTurn
  <2> QED
    BY <2>1, CallUp
<1> SUFFICES ASSUME up', live' = "undecided" PROVE UndecInv'
  BY <1>u DEF UndecInv
<1>0. call[c] \in Call /\ (call[c].pc # "idle" => Is(call[c].key, call[c].dec) /\ call[c].key \in mine)
  BY CallFields, CallKinds DEF Base
<1>1. CASE BeginGrant(c)
  <2>1. /\ up /\ call[c].pc = "turn" /\ FilesUnchanged /\ epoch' = epoch /\ kind' = kind
        /\ \A o \in Callers : o # c => call'[o] = call[o]
        /\ \/ live' = IF epoch = call[c].snap THEN "granted" ELSE live
           \/ call'[c] = IdleCall /\ mine' = mine \ {call[c].key} /\ live' = live
    BY <1>1, BeginGrantPlain DEF MyTurn
  <2>2. live = "undecided"
    BY <2>1
  <2>3. epoch = call[c].snap
    BY <1>0, <2>1, <2>2 DEF UndecInv, LiveInv, Call
  <2>4. call'[c] = IdleCall /\ mine' = mine \ {call[c].key}
    BY <2>1, <2>3
  <2>5. \A o \in Callers : call'[o].pc \notin Middle
    BY <2>1, <2>2, <2>4, IdleIsCall DEF UndecInv, Middle
  <2>6. /\ UNCHANGED <<mintOwed, wit, kind, epoch, pass, unusable, unprovable, trail>>
    BY <2>1 DEF FilesUnchanged, passVars
  <2> QED
    BY <2>1, <2>2, <2>4, <2>5, <2>6 DEF UndecInv, Top, NoGrantLeaves
<1>2. CASE BeginDenial(c)
  BY <1>2, BeginDenialPlain, <1>0 DEF DenialBegins, UndecInv, Is
<1>3. CASE MintReceipt(c) \/ GrantRecord(c) \/ FinishDecision(c)
  BY <1>3 DEF MintReceipt, GrantRecord, FinishDecision, Middle, UndecInv
<1> QED
  BY <1>1, <1>2, <1>3 DEF DecisionStep

LEMMA DecideUndec ==
    ASSUME Base, UndecInv, NEW c \in Callers, NEW dec \in Kinds, Decide(c, dec)
    PROVE  UndecInv'
<1>u. up'
  BY DEF Decide
<1> SUFFICES ASSUME up', live' = "undecided" PROVE UndecInv'
  BY <1>u DEF UndecInv
<1> DEFINE n == Len(kind) + 1
<1>1. /\ up /\ FilesUnchanged /\ dec \in Decisions /\ ~Taken(n)
      /\ live' = (IF dec = "granted" THEN live ELSE dec) /\ epoch' = (IF dec = "granted" THEN epoch ELSE epoch + 1)
      /\ (\A k : Taken(k) => kind'[k] = kind[k]) /\ kind'[n] = dec /\ mine' = mine \cup {n}
      /\ (\A o \in Callers : o # c => call'[o] = call[o]) /\ call'[c].pc = "turn"
  BY DecidePlain
<1> HIDE DEF n
<1>2. live = "undecided" /\ dec = "granted"
  BY <1>1 DEF Decisions
<1>3. UNCHANGED <<mintOwed, wit, pass, unusable, unprovable, trail>> /\ epoch' = epoch
  BY <1>1, <1>2 DEF FilesUnchanged, passVars
<1>4. \A o \in Callers : call'[o].pc \notin Middle
  BY <1>1, <1>2 DEF UndecInv, Middle
<1>5. (\A k \in mine : kind'[k] = kind[k]) /\ (\A k \in wit : kind'[k] = kind[k])
  BY <1>1 DEF Base, KnownInv
<1>6. \A k \in mine' : kind'[k] = "granted"
  BY <1>1, <1>2, <1>5 DEF UndecInv
<1> QED
  BY <1>1, <1>2, <1>3, <1>4, <1>5, <1>6 DEF UndecInv, Top, NoGrantLeaves

\* A file that is absent holds nothing: it comes to be when it is written.
LEMMA NextAbsent == Base /\ AbsentInv /\ [Next]_vars => AbsentInv'
<1> SUFFICES ASSUME Base, AbsentInv, [Next]_vars PROVE outFile' = outFile \/ outFile'.st # "absent"
  BY DEF AbsentInv
<1>0. ASSUME NEW fresh, NEW mirror, NEW done, NEW ms, NEW ok, saveLocked(fresh, mirror, done, ms, ok)
      PROVE  outFile' = outFile \/ outFile'.st = "ok"
  BY <1>0 DEF saveLocked
<1>1. ASSUME NEW c \in Callers, DecisionStep(c) PROVE outFile' = outFile \/ outFile'.st = "ok"
  <2>1. CASE MintReceipt(c)
    BY <1>0, <2>1 DEF MintReceipt, appendMinted, appendReceipt
  <2>2. CASE ~MintReceipt(c)
    BY <1>1, <2>2 DEF DecisionStep, BeginGrant, BeginDenial, applyRecord, GrantRecord, FinishDecision, diskVars
  <2> QED
    BY <2>1, <2>2
<1>2. ASSUME NEW d \in Dispatchers, PassStep(d) PROVE outFile' = outFile \/ outFile'.st = "ok"
  <2>1. CASE QuietPass(d)
    BY <2>1, QuietPassCore DEF CoreUnchanged
  <2>2. CASE RetryMint(d)
    BY <1>0, <2>2 DEF RetryMint
  <2>3. CASE RetryPersist(d)
    BY <1>0, <2>3 DEF RetryPersist
  <2>4. CASE RetryRecord(d)
    BY <2>4 DEF RetryRecord, applyRecord, diskVars
  <2>5. CASE ReceiptSettled(d)
    BY <1>0, <2>5 DEF ReceiptSettled, prune
  <2> QED
    BY <1>2, <2>1, <2>2, <2>3, <2>4, <2>5 DEF PassStep, QuietPass
<1>3. CASE DamageFile
  BY <1>3 DEF DamageFile
<1> QED
  BY <1>1, <1>2, <1>3 DEF Next, Decide, DeferralElapses, Crash, Restart, vars, diskVars

LEMMA RestartUndec ==
    ASSUME Base, GoneInv, AbsentInv, UndecInv, NEW healed \in BOOLEAN, NEW marked \in BOOLEAN, NEW wiped \in BOOLEAN,
           Restart(healed, marked, wiped)
    PROVE  UndecInv'
<1>u. up'
  BY DEF Restart
<1> SUFFICES ASSUME live' = "undecided" PROVE UndecInv'
  BY <1>u DEF UndecInv
<1>1. Restarts(Resolved(recFile, outFile)) /\ epoch' = epoch
  BY RestartPlain DEF Restarts
<1>2. /\ ~up /\ trail' = outFile.rs /\ live' = RestoredState(recFile, outFile)
      /\ unusable' = (outFile.st = "bad") /\ unprovable' = GrantsUnprovable(recFile, outFile)
      /\ UNCHANGED <<mintOwed, call, pass, mine, epoch>>
  BY <1>1 DEF Restarts, passVars
<1>3. /\ mintOwed = None /\ (\A c \in Callers : call[c].pc = "idle") /\ mine = {}
      /\ \A d \in Dispatchers : pass[d].pc = "idle"
  BY <1>2 DEF Base, DownInv, GoneInv
<1>4. NoGrantLeaves'
  <2> SUFFICES ASSUME ~GrantsUnprovable(recFile, outFile), outFile.st # "bad" PROVE outFile.rs = <<>>
    BY <1>2 DEF NoGrantLeaves
  <2>1. Resolved(recFile, outFile).st # "ok"
    BY ResolvedIs, <1>2 DEF Rec, Decisions, RestoredState
  <2>2. ~TailHeals(recFile, outFile) /\ recFile.st # "ok" /\ recFile.st # "bad" /\ ~recFile.unw
    BY <2>1, ResolvedIs DEF GrantsUnprovable
  <2>3. outFile.rs # <<>> => outFile.st = "ok"
    BY DEF AbsentInv, Base, TypeInv, OutboxTypes
  <2> QED
    BY <2>2, <2>3 DEF TailHeals, MarkSupersededBy
<1> QED
  BY <1>u, <1>2, <1>3, <1>4 DEF UndecInv, Middle

LEMMA PassRecheck ==
    ASSUME Base, RecheckInv, NEW d \in Dispatchers, PassStep(d)
    PROVE  RecheckInv'
<1> SUFFICES ASSUME NEW e \in Dispatchers, pass'[e].pc = "recheck" PROVE Granted(pass[e].r)'
  BY DEF RecheckInv
<1>0. pass \in [Dispatchers -> Pass] /\ pass[d] \in Pass /\ IdlePass.pc = "idle"
  BY DEF Base, TypeInv, PassTypes, IdlePass
<1>1. CASE NextReceipt(d) /\ e = d
  BY <1>0, <1>1 DEF NextReceipt, EndPass, Pass, Granted
<1>2. CASE pass[e].pc = "recheck" /\ pass'[e].r = pass[e].r
  BY <1>2 DEF RecheckInv, Granted
<1>3. CASE NextReceipt(d) /\ e # d
  BY <1>0, <1>2, <1>3 DEF NextReceipt, EndPass
<1>4. CASE StartPass(d) \/ RetryMint(d) \/ RetryPersist(d) \/ RetryRecord(d) \/ ClaimDispatch(d)
  BY <1>0, <1>2, <1>4, ZenonT(60) DEF StartPass, RetryMint, RetryPersist, RetryRecord, ClaimDispatch, PassTo, Pass
<1>5. CASE RecheckGrant(d)
  BY <1>0, <1>2, <1>5 DEF RecheckGrant, PassTo, EndPass, Pass
<1>6. CASE ServiceRecords(d) \/ ServiceRefuses(d) \/ ServiceUnavailable(d)
  BY <1>0, <1>2, <1>6 DEF ServiceRecords, ServiceRefuses, ServiceUnavailable, Verdict, Pass
<1>7. CASE ReceiptSettled(d) \/ ReceiptRetryable(d) \/ ReceiptUnanswered(d)
  BY <1>0, <1>2, <1>7 DEF ReceiptSettled, ReceiptRetryable, ReceiptUnanswered, HandOver, EndPass, Pass
<1>8. CASE EventLeg(d) \/ EventsSent(d)
  BY <1>0, <1>2, <1>8 DEF EventLeg, EventsSent, PassTo, Pass
<1> QED
  BY <1>1, <1>3, <1>4, <1>5, <1>6, <1>7, <1>8 DEF PassStep

LEMMA NextRecheck == Base /\ RecheckInv /\ [Next]_vars => RecheckInv'
<1> SUFFICES ASSUME Base, RecheckInv, [Next]_vars PROVE RecheckInv'
  OBVIOUS
<1>1. CASE pass' = pass
  BY <1>1 DEF RecheckInv, Granted
<1>2. CASE Crash
  BY <1>2 DEF Crash, IdlePass, RecheckInv
<1>3. ASSUME NEW d \in Dispatchers, PassStep(d) PROVE RecheckInv'
  BY <1>3, PassRecheck
<1> QED
  BY <1>1, <1>2, <1>3, ZenonT(60) DEF Next, DecisionStep, BeginGrant, BeginDenial, MintReceipt, GrantRecord, FinishDecision, Decide,
     DeferralElapses, DamageFile, Restart, passVars, vars

LEMMA NextUndec == Floor /\ Undec /\ [Next]_vars => Undec'
<1> SUFFICES ASSUME Floor, Undec, [Next]_vars PROVE Undec'
  OBVIOUS
<1>0. Base /\ LiveInv /\ GoneInv /\ AbsentInv /\ UndecInv
  BY DEF Floor, Denials, Undec
<1>1. AbsentInv' /\ RecheckInv'
  BY <1>0, NextAbsent, NextRecheck DEF Undec
<1>2. CASE UNCHANGED vars \/ DeferralElapses
  <2>1. CoreUnchanged /\ pass' = pass
    BY <1>2 DEF vars, passVars, DeferralElapses, CoreUnchanged, diskVars, outboxVars, owedVars, histVars, boundVars
  <2> QED
    BY <1>0, <1>1, <2>1, UndecKeeps DEF CoreUnchanged, NoGrantLeaves, Undec
<1>3. ASSUME NEW c \in Callers, DecisionStep(c) PROVE UndecInv'
  BY <1>0, <1>3, DecisionUndec
<1>4. ASSUME NEW c \in Callers, NEW dec \in Kinds, Decide(c, dec) PROVE UndecInv'
  BY <1>0, <1>4, DecideUndec
<1>5. ASSUME NEW d \in Dispatchers, PassStep(d) PROVE UndecInv'
  BY <1>0, <1>5, PassUndec
<1>6. CASE Crash \/ DamageFile
  BY <1>0, <1>6, <1>1 DEF Crash, DamageFile, UndecInv, Undec
<1>7. ASSUME NEW healed \in BOOLEAN, NEW marked \in BOOLEAN, NEW wiped \in BOOLEAN,
             Restart(healed, marked, wiped) PROVE UndecInv'
  BY <1>0, <1>7, RestartUndec
<1> QED
  BY <1>1, <1>2, <1>3, <1>4, <1>5, <1>6, <1>7 DEF Next, Undec

LEMMA InitUndec == Init => Undec
<1> SUFFICES ASSUME Init PROVE Undec
  OBVIOUS
<1>1. /\ up /\ epoch = 0 /\ mintOwed = None /\ wit = {} /\ mine = {} /\ outFile = AbsentTrail
      /\ call = [c \in Callers |-> IdleCall] /\ pass = [d \in Dispatchers |-> IdlePass]
  BY DEF Init
<1>2. /\ \A c \in Callers : call[c].pc \notin Middle
      /\ \A d \in Dispatchers : pass[d].pc = "idle"
  BY <1>1, AllIdle DEF Middle
<1> QED
  BY <1>1, <1>2 DEF Undec, UndecInv, RecheckInv, AbsentInv, AbsentTrail

\* A grant passes its last check only when nothing newer is a denial, or a
\* denial that no hold stops stands behind it.
LEMMA RecheckSafe ==
    ASSUME Floor, Undec, NEW d \in Dispatchers, [Next]_vars,
           pass[d].pc = "recheck", pass'[d].pc = "post", kind[Latest] # "granted"
    PROVE  \E r \in DenialsAfter(pass[d].r) : r.key \notin marks /\ ~DenyProofHeld(r)
<1>0. /\ Base /\ pass \in [Dispatchers -> Pass] /\ live \in Decisions \cup {"undecided"} /\ up
      /\ IdlePass.pc = "idle"
  BY PassUp DEF Floor, Base, TypeInv, PassTypes, CoreTypes, IdlePass
<1>1. RecheckGrant(d)
  <2>1. pass' # pass
    BY <1>0 DEF Pass
  <2>2. PICK e \in Dispatchers : PassStep(e)
    BY <1>0, <2>1, ZenonT(60) DEF Next, DecisionStep, BeginGrant, BeginDenial, MintReceipt, GrantRecord, FinishDecision, Decide,
          DeferralElapses, Crash, DamageFile, Restart, passVars, vars
  <2>3. pass'[d] # pass[d]
    OBVIOUS
  <2>4. CASE QuietPass(e)
    <3>1. e = d
      BY <1>0, <2>3, <2>4, QuietEffect
    <3> QED
      BY <1>0, <2>4, <3>1 DEF QuietPass, StartPass, ClaimDispatch, NextReceipt, ServiceRecords, ServiceRefuses,
          ServiceUnavailable, Verdict, ReceiptRetryable, ReceiptUnanswered, EventLeg, EventsSent
  <2>5. CASE RetryMint(e) \/ RetryPersist(e) \/ RetryRecord(e) \/ ReceiptSettled(e)
    BY <1>0, <2>5 DEF RetryMint, RetryPersist, RetryRecord, ReceiptSettled, HandOver, PassTo, Pass
  <2> QED
    BY <2>2, <2>4, <2>5 DEF PassStep, QuietPass
<1>2. /\ ~DenialMintOwed /\ ~NewerDenialHeld(pass[d].r)
      /\ live \in {"denied", "minor"} => DenialsAfter(pass[d].r) # {}
  BY <1>0, <1>1 DEF RecheckGrant, HeldBehindDenial, EndPass, Pass
<1>3. CASE DenialsAfter(pass[d].r) # {}
  BY <1>2, <1>3 DEF NewerDenialHeld
<1>4. CASE DenialsAfter(pass[d].r) = {}
  <2>1. live = "undecided"
    BY <1>0, <1>2, <1>4, FloorGrant DEF NoGrantPastDenial, Decisions
  <2>2. pass[d].r.key \in wit
    BY DEF Floor, Denials, HandInv, InHand, Undec, RecheckInv
  <2>3. Latest \in wit \cup mine /\ Top(Latest)
    BY <1>0, <2>2, LatestIs DEF HasLatest, Top
  <2> QED
    BY <1>0, <2>1, <2>3 DEF Undec, UndecInv
<1> QED
  BY <1>3, <1>4

\* A grant leaves for the service only when it cannot stay the last word over
\* a denial: if the newest decision is a denial, one that nothing holds back
\* follows the grant in the trail (the holds and the last look under the
\* decision lock of dispatchConsentReceiptsFrom, nextDispatchable).
THEOREM GrantsWaitForDenials == Spec => NoGrantAheadOfHeldDenial
<1>1. ASSUME Floor, Undec, [Next]_vars
      PROVE  [ \A d \in Dispatchers :
                 pass[d].pc = "recheck" /\ pass'[d].pc = "post" /\ kind[Latest] # "granted" =>
                     \E r \in DenialsAfter(pass[d].r) :
                         r.key \notin marks /\ ~DenyProofHeld(r) ]_vars
  BY <1>1, RecheckSafe
<1> QED
  BY InitFloor, NextFloor, InitUndec, NextUndec, <1>1, PTL DEF Spec, NoGrantAheadOfHeldDenial

-----------------------------------------------------------------------------
(* The event leg: a grant waits for its answer.                            *)

LEMMA FiledKeeps ==
    ASSUME Base, Base', FiledInv, HistoryKept, answered \subseteq answered', FileKept, LostKept,
           \A k \in wit' : k \in wit \/ kind'[k] # "granted" \/ k \in Keys(outFile'.rs) \/ k \in answered'
    PROVE  FiledInv'
<1> SUFFICES ASSUME NEW n \in wit', Top(n)', kind'[n] = "granted", n \notin Keys(outFile'.rs), n \notin answered'
             PROVE  Lost'
  BY DEF FiledInv
<1>1. n \in wit /\ Taken(n) /\ wit' \in SUBSET Nat
  BY DEF Base, KnownInv, TypeInv, OutboxTypes
<1>2. Top(n) /\ kind[n] = "granted"
  BY <1>1 DEF Top, HistoryKept
<1>3. ~Passed(n)'
  BY <1>1 DEF Passed, Top
<1>4. n \in Keys(outFile.rs) \/ n \in answered \/ Lost
  BY <1>1, <1>2 DEF FiledInv
<1> QED
  BY <1>1, <1>2, <1>3, <1>4 DEF FileKept, LostKept

LEMMA BackedKeeps ==
    ASSUME TrailKept, wit \subseteq wit', answered \subseteq answered', NEW k, Backed(k),
           mintOwed # None /\ mintOwed.key = k => mintOwed' = mintOwed \/ k \in Keys(trail')
    PROVE  Backed(k)'
<1>1. Passed(k) => Passed(k)'
  BY DEF Passed
<1> QED
  BY <1>1 DEF Backed, TrailKept

\* Steps that leave decisions and what is owed alone.
LEMMA GateKeeps ==
    ASSUME Base, Base', Gate, HistoryKept, answered \subseteq answered', TrailKept, FileKept, LostKept, SettledInv',
           UNCHANGED <<up, call, recOwed, mintOwed, mine, kind, live>>,
           \A k \in wit' : k \in wit \/ (k \in Keys(outFile'.rs) /\ \E r \in All : r.key = k)
    PROVE  Gate'
<1>0. /\ wit \in SUBSET Nat /\ wit' \in SUBSET Nat /\ wit \subseteq wit' /\ TypeInv
      /\ \A k \in wit : Taken(k)
      /\ \A k \in wit' : k \in wit \cup mine
      /\ \A r \in All : r.key \in Nat
  <2>1. \A r \in All : r.key \in wit \cup mine
    BY DEF Base, KnownInv, All
  <2>2. wit \in SUBSET Nat /\ mine \in SUBSET Nat /\ wit' \in SUBSET Nat
    BY DEF Base, TypeInv, OutboxTypes, CoreTypes
  <2> QED
    BY <2>1, <2>2 DEF HistoryKept, Base, KnownInv
<1>b. \A k : Backed(k) => Backed(k)'
  BY <1>0, BackedKeeps
<1>1. FiledInv'
  BY FiledKeeps DEF Gate
<1>2. MintedInv'
  <2>1. mintOwed # None => \A r \in All : r.key < mintOwed.key
    BY DEF Base, OwedInv
  <2>2. ASSUME mintOwed # None, mintOwed.dec = "granted", mintOwed.key \in wit' PROVE FALSE
    BY <2>2, <1>0, <2>1 DEF Gate, MintedInv
  <2> QED
    BY <2>2 DEF Gate, MintedInv
<1>3. RecordInv'
  <2> SUFFICES ASSUME NEW c \in Callers, NEW k \in Nat, call[c].pc = "record", call[c].key = k
               PROVE  Backed(k)' /\ (call[c].safe => k \in Keys(outFile'.rs) \/ k \in answered')
    BY DEF RecordInv
  <2>1. Backed(k) /\ (call[c].safe => k \in Keys(outFile.rs) \/ k \in answered)
    BY DEF Gate, RecordInv
  <2>2. \A j \in wit' : j <= k
    BY DEF Base, CallInv, MintedOK
  <2>3. ~Passed(k)'
    BY <1>0, <2>2 DEF Passed
  <2> QED
    BY <1>b, <2>1, <2>3 DEF FileKept
<1>4. OwedGrant'
  <2> SUFFICES ASSUME NEW k \in Nat, recOwed # None, recOwed.dec = "granted", recOwed.key = k
               PROVE  /\ Backed(k)' \/ \E c \in Callers : call[c].pc \in Middle /\ k < call[c].key
                      /\ ~Deciding => \A n \in wit' : Top(n)' /\ kind[n] = "granted" => n <= k \/ n \in answered'
    BY DEF OwedGrant, Deciding
  <2>1. /\ Backed(k) \/ \E c \in Callers : call[c].pc \in Middle /\ k < call[c].key
        /\ ~Deciding => \A n \in wit : Top(n) /\ kind[n] = "granted" => n <= k \/ n \in answered
    BY DEF Gate, OwedGrant
  <2>2. ~Deciding => \A r \in All : r.key <= k
    BY DEF Base, OwedInv
  <2>3. \A n \in wit : Top(n)' => Top(n)
    BY <1>0 DEF Top
  <2> QED
    BY <1>b, <2>1, <2>2, <2>3
<1>5. TurnNewest' /\ GrantBacked'
  <2>1. \A k : Waits(k)' <=> Waits(k)
    BY DEF Waits
  <2>2. Handled' = Handled
    BY <1>0, <2>1 DEF Handled
  <2> QED
    BY <1>b, <2>1, <2>2 DEF Gate, TurnNewest, GrantBacked
<1> QED
  BY <1>1, <1>2, <1>3, <1>4, <1>5 DEF Gate

-----------------------------------------------------------------------------
LEMMA SaveGate ==
    ASSUME Base, Base', Gate, up, NEW mirror, NEW done, Fits(mirror, done), Receipts(mirror) \subseteq Onhand,
           answered \subseteq answered', \A r \in Onhand : r \in Receipts(mirror) \/ (OnFile(r) /\ r.key \in answered'),
           \A k \in done : k \in settled \/ k \in answered',
           NEW ms \in SUBSET Nat, NEW ok \in BOOLEAN, saveLocked(FALSE, mirror, done, ms, ok), Shrinks
    PROVE  Gate'
<1>0. /\ TypeInv /\ OutboxTypes /\ KeptInv /\ mirror \in Seq(Rcpt) /\ Ordered(mirror)
      /\ wit \in SUBSET Nat /\ wit' \in SUBSET Nat /\ wit \subseteq wit'
      /\ DecisionsUnchanged /\ trail' \in Seq(Rcpt) /\ trail \in Seq(Rcpt) /\ outFile.rs \in Seq(Rcpt)
      /\ Onhand' \subseteq Onhand /\ Filed' \subseteq All
  BY DEF Base, TypeInv, Shrinks, OutboxTypes, Fits
<1>k. /\ \A k : k \in Keys(trail) <=> \E r \in Onhand : r.key = k
      /\ \A k : k \in Keys(outFile.rs) <=> \E r \in Filed : r.key = k
      /\ \A r \in All : r.key \in Nat
  BY <1>0, AllTypes
<1>s. /\ preserve' = preserve
      /\ \/ Unwritten(mirror, done, ms)
         \/ Written(mirror, done, ms) /\ ~(preserve /\ outFile.st = "bad")
  BY <1>0, SaveEffect DEF OutboxTypes
<1>e. /\ \A r \in Receipts(mirror) : r.key \in Keys(trail') \/ Passed(r.key)'
      /\ \A k \in settled' : k \in done \/ Passed(k)'
  BY <1>0, <1>s, SaveEvicts
<1>p. \A k : Passed(k) => Passed(k)'
  BY <1>0 DEF Passed
<1>d. \A k \in done : k \in answered' \/ Passed(k)'
  BY <1>p DEF Gate, SettledInv
<1>1. SettledInv'
  BY <1>d, <1>e DEF SettledInv
<1>2. TrailKept
  BY <1>e, <1>k DEF TrailKept
<1>3. FileKept
  <2>1. CASE Unwritten(mirror, done, ms)
    BY <2>1 DEF Unwritten, FileKept
  <2>2. CASE Written(mirror, done, ms)
    <3>1. outFile'.rs = trail'
      BY <2>2 DEF Written
    <3>2. ASSUME NEW k \in Keys(outFile.rs) PROVE k \in Keys(trail') \/ k \in answered' \/ Passed(k)'
      <4>1. PICK r \in Filed : r.key = k
        BY <1>k
      <4>2. k \in done \/ r \in Receipts(mirror)
        BY <4>1 DEF Fits
      <4> QED
        BY <1>d, <1>e, <4>1, <4>2
    <3> QED
      BY <3>1, <3>2 DEF FileKept
  <2> QED
    BY <1>s, <2>1, <2>2
<1>4. LostKept
  <2> SUFFICES ASSUME NEW n \in wit, Top(n)', Lost PROVE Lost'
    BY DEF LostKept
  <2>1. All' \subseteq All /\ \A r \in Onhand : r \in Receipts(mirror) \/ OnFile(r)
    BY <1>0 DEF All
  <2> QED
    BY <1>0, <1>s, <2>1, SaveLost DEF DecisionsUnchanged
<1>5. \A k \in wit' : k \in wit \/ (k \in Keys(outFile'.rs) /\ \E r \in All : r.key = k)
  BY <1>s DEF Unwritten, Written, Shrinks
<1>6. HistoryKept
  BY <1>0 DEF HistoryKept, DecisionsUnchanged, Taken
<1> QED
  BY <1>0, <1>1, <1>2, <1>3, <1>4, <1>5, <1>6, GateKeeps DEF DecisionsUnchanged

\* Steps that touch none of what the gate looks at.
LEMMA CoreGate ==
    ASSUME Base, Base', Gate, CoreUnchanged, answered \subseteq answered'
    PROVE  Gate'
<1>1. /\ UNCHANGED <<recFile, outFile, up, trail, preserve, settled, wit, damage, kind, mine, call, recOwed, mintOwed, live>>
      /\ Onhand' = Onhand /\ All' = All
  BY DEF CoreUnchanged, Onhand, Filed, All
<1>2. \A k : Passed(k) => Passed(k)'
  BY <1>1 DEF Passed
<1>3. SettledInv'
  BY <1>1, <1>2 DEF Gate, SettledInv
<1>4. TrailKept /\ FileKept
  BY <1>1 DEF TrailKept, FileKept
<1>5. LostKept
  BY <1>1 DEF LostKept, Lost, OnFile, FreshReceipt
<1>6. HistoryKept
  BY <1>1 DEF HistoryKept, Taken
<1> QED
  BY <1>1, <1>3, <1>4, <1>5, <1>6, GateKeeps

LEMMA RetryPersistGate ==
    ASSUME Base, Base', Gate, NEW d \in Dispatchers, RetryPersist(d)
    PROVE  Gate'
<1>0. Shrinks /\ up /\ answered' = answered
  BY RetryPersistShrinks DEF RetryPersist
<1>1. CASE dirty
  BY <1>1, <1>0, MirrorFits, SaveGate DEF RetryPersist, Base, TypeInv, OutboxTypes, Onhand
<1>2. CASE ~dirty
  BY <1>2, <1>0, CoreGate DEF RetryPersist, CoreUnchanged, outboxVars, owedVars, histVars, boundVars
<1> QED
  BY <1>1, <1>2 DEF Base, TypeInv, OutboxTypes

LEMMA SettledGate ==
    ASSUME Base, Base', HandInv, Gate, NEW d \in Dispatchers, ReceiptSettled(d)
    PROVE  Gate'
<1>0. PICK k : k = pass[d].r.key
  OBVIOUS
<1>1. /\ Shrinks /\ up /\ InHand(d) /\ k \in Nat /\ answered' = answered \cup {k}
      /\ Is(k, pass[d].r.dec) /\ (k \in wit \/ ~Top(k)) /\ wit \in SUBSET Nat
  BY <1>0, SettledPlain DEF ReceiptSettled, HandOver, HandInv, Base, TypeInv, OutboxTypes
<1>2. CASE CoreUnchanged
  BY <1>1, <1>2, CoreGate
<1>3. CASE ~CoreUnchanged
  <2>1. /\ Fits(Without(trail, {k}), settled \cup {k}) /\ marks \ {k} \in SUBSET Nat
        /\ Receipts(Without(trail, {k})) = {r \in Onhand : r.key # k}
        /\ \E ok \in BOOLEAN : saveLocked(FALSE, Without(trail, {k}), settled \cup {k}, marks \ {k}, ok)
    BY <1>0, <1>3, SettledPlain
  <2>2. \E j \in wit : k <= j
    BY <1>1 DEF Top
  <2>3. \A r \in Onhand : r \notin Receipts(Without(trail, {k})) => OnFile(r) /\ r.key \in answered'
    BY <1>1, <2>1, <2>2 DEF OnFile
  <2>4. \A j \in settled \cup {k} : j \in settled \/ j \in answered'
    BY <1>1
  <2> QED
    BY <1>1, <2>1, <2>3, <2>4, SaveGate
<1> QED
  BY <1>2, <1>3

\* What was handed over was answered.
LEMMA PassHanded ==
    ASSUME Base, HandedInv, NEW d \in Dispatchers, PassStep(d)
    PROVE  HandedInv' /\ answered \subseteq answered'
<1>0. pass \in [Dispatchers -> Pass] /\ pass[d] \in Pass
  BY DEF Base, TypeInv, PassTypes
<1> SUFFICES ASSUME NEW e \in Dispatchers PROVE pass'[e].handed \subseteq answered' /\ answered \subseteq answered'
  BY DEF HandedInv
<1>1. pass[e].handed \subseteq answered
  BY DEF HandedInv
<1>2. CASE StartPass(d) \/ RetryMint(d) \/ RetryPersist(d) \/ RetryRecord(d) \/ ClaimDispatch(d)
  <2>1. answered' = answered
    BY <1>2 DEF StartPass, RetryMint, RetryPersist, RetryRecord, ClaimDispatch
  <2>2. \E pc : PassTo(d, pc)
    BY <1>2 DEF StartPass, RetryMint, RetryPersist, RetryRecord, ClaimDispatch
  <2>3. pass'[e].handed = pass[e].handed
    BY <1>0, <2>2 DEF PassTo, Pass
  <2> QED
    BY <1>1, <2>1, <2>3
<1>3. CASE NextReceipt(d) \/ RecheckGrant(d) \/ ReceiptUnanswered(d)
  BY <1>0, <1>1, <1>3 DEF NextReceipt, RecheckGrant, ReceiptUnanswered, EndPass, PassTo, Pass
<1>4. CASE ServiceRecords(d) \/ ServiceRefuses(d) \/ ServiceUnavailable(d)
  BY <1>0, <1>1, <1>4 DEF ServiceRecords, ServiceRefuses, ServiceUnavailable, Verdict, Pass
<1>5. CASE ReceiptSettled(d) \/ ReceiptRetryable(d)
  <2>1. \E pc : HandOver(d, pc)
    BY <1>5 DEF ReceiptSettled, ReceiptRetryable
  <2>2. PICK pc : HandOver(d, pc)
    BY <2>1
  <2>3. /\ answered' = answered \cup {pass[d].r.key}
        /\ pass' = [pass EXCEPT ![d] = [pass[d] EXCEPT !.handed = @ \cup {pass[d].r.key}, !.pc = pc]]
    BY <2>2 DEF HandOver
  <2>4. e = d => pass'[e].handed = pass[d].handed \cup {pass[d].r.key}
    BY <1>0, <2>3 DEF Pass
  <2>5. e # d => pass'[e] = pass[e]
    BY <1>0, <2>3
  <2> QED
    BY <1>1, <2>3, <2>4, <2>5
<1>6. CASE EventLeg(d) \/ EventsSent(d)
  BY <1>0, <1>1, <1>6 DEF EventLeg, EventsSent, PassTo, Pass, IdlePass
<1> QED
  BY <1>2, <1>3, <1>4, <1>5, <1>6 DEF PassStep

LEMMA NextHanded == Base /\ HandedInv /\ [Next]_vars => HandedInv' /\ answered \subseteq answered'
<1> SUFFICES ASSUME Base, HandedInv, [Next]_vars PROVE HandedInv' /\ answered \subseteq answered'
  OBVIOUS
<1>1. CASE \E d \in Dispatchers : PassStep(d)
  BY <1>1, PassHanded
<1>2. CASE Crash
  BY <1>2 DEF Crash, HandedInv, IdlePass
<1>3. CASE ~Crash /\ ~\E d \in Dispatchers : PassStep(d)
  <2>1. pass' = pass /\ answered' = answered
    BY <1>3 DEF Next, DecisionStep, BeginGrant, BeginDenial, MintReceipt, GrantRecord, FinishDecision, Decide,
          DeferralElapses, DamageFile, Restart, passVars, vars
  <2> QED
    BY <2>1 DEF HandedInv
<1> QED
  BY <1>1, <1>2, <1>3

-----------------------------------------------------------------------------
\* Steps that append the receipt of the newest decision handled.
LEMMA AppendGate ==
    ASSUME Base, Base', Gate, up, NEW r \in Rcpt, Appends(r), NEW ms \in SUBSET Nat,
           \/ Unwritten(Append(trail, r), settled, ms)
           \/ Written(Append(trail, r), settled, ms),
           \A t \in All : t.key < r.key /\ t.at < r.at, \A k \in wit : k <= r.key, Is(r.key, r.dec),
           Granted(r) => r.key \notin wit,
           UNCHANGED <<recFile, up, kind, damage, answered>>
    PROVE  /\ FiledInv' /\ SettledInv' /\ TrailKept /\ FileKept /\ HistoryKept
           /\ r.key \in Keys(trail')
           /\ Written(Append(trail, r), settled, ms) => r.key \in Keys(outFile'.rs)
<1>0. /\ OutboxTypes /\ KeptInv /\ trail \in Seq(Rcpt) /\ Ordered(trail) /\ r.key \in Nat
      /\ wit \in SUBSET Nat /\ wit' \in SUBSET Nat /\ wit \subseteq wit' /\ settled \in SUBSET Nat
      /\ trail' # <<>> /\ Last(trail') = r /\ trail' \in Seq(Rcpt) /\ Ordered(trail')
  BY RcptFields DEF Base, TypeInv, Appends, OutboxTypes, KeptInv, TrailOrdered
<1>m. /\ Append(trail, r) \in Seq(Rcpt) /\ Receipts(Append(trail, r)) = Onhand \cup {r}
      /\ Ordered(Append(trail, r))
  BY <1>0, AppendOrdered DEF Onhand, All
<1>k. /\ \A k : k \in Keys(trail) <=> \E t \in Onhand : t.key = k
      /\ \A k : k \in Keys(outFile.rs) <=> \E t \in Filed : t.key = k
      /\ \A t \in All : t.key \in Nat
  BY <1>0, AllTypes
<1>e. /\ \A t \in Onhand \cup {r} : t.key \in Keys(trail') \/ Passed(t.key)'
      /\ \A k \in settled' : k \in settled \/ Passed(k)'
  BY <1>0, <1>m, SaveEvicts
<1>p. \A k : Passed(k) => Passed(k)'
  BY <1>0 DEF Passed
<1>d. \A k \in settled : k \in answered' \/ Passed(k)'
  BY <1>p DEF Gate, SettledInv
<1>r. r.key \in Keys(trail') /\ r \in Onhand'
  BY <1>0, LastIsNewest, KeysOf DEF Onhand
<1>1. SettledInv'
  BY <1>d, <1>e DEF SettledInv
<1>2. TrailKept
  BY <1>e, <1>k DEF TrailKept
<1>w. Written(Append(trail, r), settled, ms) => outFile'.rs = trail' /\ r.key \in wit'
  BY <1>r DEF Written
<1>3. FileKept
  <2>1. CASE Unwritten(Append(trail, r), settled, ms)
    BY <2>1 DEF Unwritten, FileKept
  <2>2. CASE Written(Append(trail, r), settled, ms)
    <3>1. ASSUME NEW k \in Keys(outFile.rs) PROVE k \in Keys(trail') \/ k \in answered' \/ Passed(k)'
      <4>1. PICK t \in Filed : t.key = k
        BY <1>k
      <4>2. k \in settled \/ t \in Onhand
        BY <1>0, <4>1 DEF KeptInv
      <4> QED
        BY <1>d, <1>e, <4>1, <4>2
    <3> QED
      BY <1>w, <2>2, <3>1 DEF FileKept
  <2> QED
    BY <2>1, <2>2
<1>4. HistoryKept
  BY <1>0 DEF HistoryKept, Taken
<1>top. ASSUME Written(Append(trail, r), settled, ms), NEW n \in wit', Top(n)' PROVE n = r.key
  <2>1. n <= r.key
    BY <1>0, <1>k DEF Appends
  <2>2. r.key <= n
    BY <1>w, <1>top DEF Top
  <2> QED
    BY <1>0, <2>1, <2>2
<1>5. CASE Written(Append(trail, r), settled, ms)
  <2>1. FiledInv'
    BY <1>r, <1>top, <1>w, <1>5 DEF FiledInv
  <2> QED
    BY <1>1, <1>2, <1>3, <1>4, <1>r, <1>w, <2>1
<1>6. CASE Unwritten(Append(trail, r), settled, ms)
  <2>1. outFile' = outFile /\ wit' = wit
    BY <1>6 DEF Unwritten
  <2>2. LostKept
    <3> SUFFICES ASSUME NEW n \in wit, Top(n)', kind[n] = "granted", Lost PROVE Lost'
      BY DEF LostKept
    <3>1. n # r.key
      BY DEF Is, Granted
    <3>2. n < r.key
      BY <1>0, <3>1
    <3>3. All' \subseteq All \cup {r} /\ Top(n)
      BY <2>1 DEF All, Filed, Appends, Top
    <3> QED
      BY <1>0, <1>r, <2>1, <3>2, <3>3, AppendLost
  <2>3. FiledInv'
    BY <1>3, <1>4, <2>1, <2>2, FiledKeeps DEF Gate
  <2>4. ~Written(Append(trail, r), settled, ms)
    BY <1>6 DEF Unwritten, Written
  <2> QED
    BY <1>1, <1>2, <1>3, <1>4, <1>r, <2>3, <2>4
<1> QED
  BY <1>5, <1>6

LEMMA RetryMintGate ==
    ASSUME Base, Base', Gate, NEW d \in Dispatchers, RetryMint(d)
    PROVE  Gate'
<1>0. answered' = answered
  BY DEF RetryMint
<1>1. CASE CoreUnchanged
  BY <1>0, <1>1, CoreGate
<1>2. CASE ~CoreUnchanged
  <2>1. /\ ~Deciding /\ mintOwed # None /\ mintOwed \in Rcpt /\ mintOwed' = None /\ up
        /\ UNCHANGED <<recFile, up, live, epoch, lastStamp, recOwed, call, kind, mine, damage>>
        /\ Appends(mintOwed)
        /\ \E ms \in SUBSET Nat :
              \/ Unwritten(Append(trail, mintOwed), settled, ms)
              \/ Written(Append(trail, mintOwed), settled, ms)
    BY <1>2, RetryMintPlain
  <2>2. PICK r \in Rcpt : r = mintOwed
    BY <2>1
  <2>3. PICK ms \in SUBSET Nat : \/ Unwritten(Append(trail, r), settled, ms)
                                 \/ Written(Append(trail, r), settled, ms)
    BY <2>1, <2>2
  <2>4. /\ \A t \in All : t.key < r.key /\ t.at < r.at
        /\ \A k \in wit : k <= r.key
        /\ Is(r.key, r.dec) /\ r.key \in mine /\ r.key \in Nat
        /\ recOwed # None => recOwed = r
    BY <2>1, <2>2, RcptFields DEF Base, OwedInv, KnownInv
  <2>5. Granted(r) => r.key \notin wit
    BY <2>1, <2>2 DEF Gate, MintedInv, Granted
  <2>6. /\ FiledInv' /\ SettledInv' /\ TrailKept /\ FileKept /\ HistoryKept
        /\ r.key \in Keys(trail')
    BY <1>0, <2>1, <2>2, <2>3, <2>4, <2>5, AppendGate
  <2>7. wit \in SUBSET Nat /\ wit' \in SUBSET Nat /\ wit \subseteq wit' /\ wit' \cup mine' = wit \cup mine
    BY <2>1, <2>2, <2>4, AppendHistory DEF Base, TypeInv, OutboxTypes, HistoryKept
  <2>b. \A k : Backed(k) => Backed(k)'
    BY <1>0, <2>2, <2>6, <2>7, BackedKeeps
  <2>8. MintedInv' /\ RecordInv'
    BY <2>1 DEF Deciding, MintedInv, RecordInv
  <2>9. OwedGrant'
    <3> SUFFICES ASSUME NEW k \in Nat, recOwed # None, recOwed.dec = "granted", recOwed.key = k
                 PROVE  /\ Backed(k)'
                        /\ \A n \in wit' : n <= k
      BY <2>1 DEF OwedGrant
    <3>1. k = r.key
      BY <2>4
    <3>2. Backed(k)'
      BY <2>6, <3>1 DEF Backed
    <3>3. \A j \in wit' : j \in wit \/ j = r.key \/ \E t \in All : t.key = j
      BY <2>1, <2>2 DEF Appends
    <3>4. \A t \in All : t.key \in Nat /\ t.key <= r.key
      BY <2>4, AllTypes DEF Base, TypeInv
    <3> QED
      BY <2>4, <3>1, <3>2, <3>3, <3>4
  <2>10. TurnNewest' /\ GrantBacked'
    <3>1. \A k : Waits(k)' <=> Waits(k)
      BY <2>1 DEF Waits
    <3>2. Handled' = Handled
      BY <2>7, <3>1 DEF Handled
    <3> QED
      BY <2>1, <2>b, <3>1, <3>2 DEF Gate, TurnNewest, GrantBacked
  <2> QED
    BY <2>6, <2>8, <2>9, <2>10 DEF Gate
<1> QED
  BY <1>1, <1>2

\* A decision past its turn is handled, and older than those that wait.
LEMMA MiddleHandled ==
    ASSUME Base, NEW c \in Callers, call[c].pc \in Middle
    PROVE  call[c].key \in Handled
<1>1. call[c].key \in mine /\ call[c].key \in Nat
  BY CallFields DEF Base, KnownInv, Middle
<1>2. ASSUME NEW o \in Callers, call[o].pc = "turn", call[o].key = call[c].key PROVE FALSE
  BY <1>2, <1>1 DEF Base, CallInv, TurnOK
<1> QED
  BY <1>1, <1>2 DEF Handled, Waits

LEMMA MintGate ==
    ASSUME Base, Base', Gate, NEW c \in Callers, MintReceipt(c)
    PROVE  Gate'
<1>1. PICK r \in Rcpt, minted \in BOOLEAN, ok \in BOOLEAN : Mints(c, r, minted, ok)
  BY MintPlain
<1>2. call[c].pc = "mint" /\ up /\ call[c].pc \in Middle
  BY CallUp DEF MintReceipt, Middle
<1>3. \A o \in Callers : o # c => call[o].pc \notin Middle /\ call'[o] = call[o]
  BY <1>1, <1>2 DEF Base, CallInv, Mints
<1>4. /\ call[c].key = r.key /\ call[c].dec = r.dec /\ r.key \in Nat /\ Is(r.key, r.dec) /\ r.key \in mine
      /\ \A t \in All : t.key < r.key /\ t.at < r.at
      /\ \A k \in wit : k <= r.key
      /\ Granted(r) => r.key \notin wit /\ (recOwed # None => recOwed.key < r.key)
      /\ ~Granted(r) => recOwed = None \/ recOwed.dec # "granted"
      /\ mintOwed # None => mintOwed.key < r.key
  <2>1. call[c].key = r.key /\ call[c].dec = r.dec /\ r.key \in Nat /\ \A t \in All : t.key < r.key /\ t.at < r.at
    BY <1>1, RcptFields DEF Mints
  <2>2. Is(r.key, r.dec) /\ r.key \in mine
    BY <1>2, <2>1 DEF Base, KnownInv
  <2>3. MintOK(call[c]) /\ \A dec, at, k : Owed(dec, at, k).dec = dec
    BY DEF Base, CallInv, Owed
  <2>4. \A k \in wit : k \in Nat
    BY DEF Base, TypeInv, OutboxTypes
  <2>5. ~Granted(r) => recOwed = None \/ recOwed.dec # "granted"
    BY <1>2, <2>1, <2>3 DEF MintOK, Granted
  <2>6. Granted(r) => (\A k \in wit : k < r.key) /\ (recOwed # None => recOwed.key < r.key)
    BY <1>2, <2>1, <2>3 DEF MintOK, Granted
  <2>7. Granted(r) => r.key \notin wit
    BY <2>1, <2>6
  <2> QED
    BY <1>2, <2>1, <2>2, <2>3, <2>5, <2>6, <2>7 DEF MintOK
<1>5. /\ UNCHANGED <<recFile, up, live, recOwed, kind, mine, damage, answered>>
      /\ call'[c] = [call[c] EXCEPT !.pc = IF call[c].dec = "granted" THEN "record" ELSE "mark",
                                    !.at = r.at, !.minted = minted, !.safe = minted /\ ok]
      /\ call[c] \in Call
  BY <1>1, CallFields DEF Mints, passVars, Base
<1>6. /\ call'[c].pc \in {"record", "mark"} /\ call'[c].pc \in Middle /\ call'[c].key = r.key
      /\ call'[c].safe = (minted /\ ok)
  BY <1>4, <1>5 DEF Call, Middle
<1>7. /\ FiledInv' /\ SettledInv' /\ TrailKept /\ FileKept /\ HistoryKept /\ Backed(r.key)'
      /\ minted /\ ok => r.key \in Keys(outFile'.rs)
      /\ mintOwed' = None \/ (mintOwed' = r /\ ~minted /\ wit' = wit)
      /\ wit' \cup mine' = wit \cup mine
  <2>1. CASE ~minted
    <3>1. mintOwed' = r /\ UNCHANGED <<outFile, outboxVars, wit>>
      BY <1>1, <2>1 DEF Mints
    <3>2. TrailKept /\ FileKept /\ HistoryKept
      BY <1>5, <3>1 DEF TrailKept, FileKept, HistoryKept, Taken, outboxVars
    <3>3. LostKept
      BY <1>5, <3>1 DEF LostKept, Lost, OnFile, FreshReceipt, All, Onhand, Filed, outboxVars
    <3>4. FiledInv'
      BY <1>5, <3>1, <3>2, <3>3, FiledKeeps DEF Gate
    <3>5. SettledInv'
      BY <1>5, <3>1 DEF Gate, SettledInv, Passed, outboxVars
    <3>6. Backed(r.key)'
      BY <3>1, RcptFields DEF Backed
    <3> QED
      BY <1>5, <2>1, <3>1, <3>2, <3>4, <3>5, <3>6
  <2>2. CASE minted
    <3>1. /\ mintOwed' = None /\ Appends(r)
          /\ \/ Unwritten(Append(trail, r), settled, marks) /\ ~ok
             \/ Written(Append(trail, r), settled, marks) /\ ok
      BY <1>1, <2>2 DEF Mints
    <3>2. marks \in SUBSET Nat
      BY DEF Base, TypeInv, OutboxTypes
    <3>3. /\ FiledInv' /\ SettledInv' /\ TrailKept /\ FileKept /\ HistoryKept
          /\ r.key \in Keys(trail')
          /\ Written(Append(trail, r), settled, marks) => r.key \in Keys(outFile'.rs)
      BY <1>2, <1>4, <1>5, <3>1, <3>2, AppendGate
    <3>4. Backed(r.key)'
      BY <3>3 DEF Backed
    <3>5. wit' \cup mine' = wit \cup mine
      BY <1>4, <1>5, <3>1, AppendHistory
    <3> QED
      BY <3>1, <3>3, <3>4, <3>5
  <2> QED
    BY <2>1, <2>2
<1>8. wit \subseteq wit' /\ \A k : (mintOwed # None => mintOwed.key # k) /\ Backed(k) => Backed(k)'
  BY <1>7, <1>5, BackedKeeps DEF HistoryKept
<1>9. MintedInv'
  <2>1. \A o \in Callers : call'[o].pc = "record" => o = c
    BY <1>3 DEF Middle
  <2>2. ~minted => ~call'[c].safe
    BY <1>6
  <2>3. mintOwed' = r /\ wit' = wit /\ mintOwed'.dec = "granted" => mintOwed'.key \notin wit'
    BY <1>4 DEF Granted
  <2>4. call'[c].safe => mintOwed' = None
    BY <1>7, <2>2
  <2> QED
    BY <1>7, <2>1, <2>3, <2>4 DEF MintedInv
<1>10. RecordInv'
  <2> SUFFICES ASSUME NEW o \in Callers, NEW k \in Nat, call'[o].pc = "record", call'[o].key = k
               PROVE  Backed(k)' /\ (call'[o].safe => k \in Keys(outFile'.rs) \/ k \in answered')
    BY DEF RecordInv
  <2>1. o = c
    BY <1>3 DEF Middle
  <2>2. k = r.key /\ (call'[o].safe => minted /\ ok)
    BY <1>6, <2>1
  <2> QED
    BY <1>7, <2>2
<1>11. OwedGrant'
  <2> SUFFICES ASSUME NEW k \in Nat, recOwed # None, recOwed.dec = "granted", recOwed.key = k
               PROVE  /\ \E o \in Callers : call'[o].pc \in Middle /\ k < call'[o].key
                      /\ Deciding'
    BY <1>5 DEF OwedGrant
  <2>1. k < call'[c].key
    BY <1>4, <1>6
  <2> QED
    BY <1>6, <2>1 DEF Deciding
<1>12. \A k : Waits(k)' <=> Waits(k)
  BY <1>2, <1>3, <1>6 DEF Waits
<1>13. TurnNewest'
  BY <1>3, <1>5, <1>6, <1>12 DEF Gate, TurnNewest
<1>14. GrantBacked'
  <2>1. Handled' = Handled
    BY <1>7, <1>12 DEF Handled
  <2> SUFFICES ASSUME live = "granted", NEW n \in Handled, \A j \in Handled : j <= n
               PROVE  Backed(n)'
    BY <1>5, <2>1 DEF GrantBacked
  <2>2. r.key \in Handled
    BY <1>2, <1>4, MiddleHandled
  <2>3. n \in Nat
    BY DEF Handled, Base, TypeInv, OutboxTypes, CoreTypes
  <2>4. Backed(n) \/ n = r.key
    BY <1>2, <1>3, <1>4 DEF Gate, GrantBacked, Middle
  <2>5. mintOwed # None => mintOwed.key # n
    BY <1>4, RcptFields, <2>2, <2>3 DEF Base, TypeInv, CoreTypes
  <2> QED
    BY <1>7, <1>8, <2>4, <2>5
<1> QED
  BY <1>7, <1>9, <1>10, <1>11, <1>13, <1>14 DEF Gate

\* Steps that write the record, or leave it owed.
LEMMA RecordGate ==
    ASSUME Base, Base', Gate, up, NEW r \in Rcpt, NEW persisted \in BOOLEAN, Records(r, persisted),
           r.key \in wit \cup mine, Is(r.key, r.dec), \A t \in All : t.key <= r.key /\ t.at <= r.at,
           UNCHANGED <<up, kind, mine, damage, answered>>,
           persisted /\ Granted(r) =>
               /\ r.key \in Keys(outFile.rs) \/ r.key \in answered \/ Passed(r.key)
               /\ \A n \in wit : Top(n) /\ kind[n] = "granted" => n <= r.key \/ n \in answered
    PROVE  FiledInv' /\ SettledInv' /\ TrailKept /\ HistoryKept
<1>0. /\ Onhand' = Onhand /\ All' = All /\ UNCHANGED <<outFile, trail, preserve, settled>>
      /\ wit \subseteq wit' /\ r.key \in Nat /\ wit \in SUBSET Nat /\ wit' \in SUBSET Nat
      /\ \A t \in All : t.key \in Nat /\ t.at \in Nat
  BY RcptFields, AllTypes DEF Records, Onhand, Filed, All, Base, TypeInv, OutboxTypes
<1>1. HistoryKept /\ TrailKept
  BY <1>0 DEF HistoryKept, Taken, TrailKept
<1>2. SettledInv'
  BY <1>0 DEF Passed, Gate, SettledInv
<1>3. CASE persisted
  <2>1. /\ recFile' = Record(r.dec, r.at, r.key) /\ wit' = wit \cup {r.key}
        /\ recFile'.st = "ok" /\ recFile'.dec = r.dec /\ recFile'.at = r.at
    BY <1>3 DEF Records, Record
  <2>0. outFile' = outFile /\ kind' = kind /\ answered' = answered
    BY <1>0
  <2>f. ASSUME NEW n \in wit', Top(n)', kind[n] = "granted", n \notin Keys(outFile.rs), n \notin answered
        PROVE  Lost'
    <3>2. r.key <= n /\ Top(n) /\ n \in Nat
      BY <1>0, <2>1, <2>f DEF Top
    <3>3. ~Passed(n)
      BY <1>0, <2>f, <3>2 DEF Passed, Top
    <3>4. CASE Granted(r)
      <4>1. n # r.key
        BY <1>3, <2>f, <3>3, <3>4
      <4>2. n \in wit /\ ~(n <= r.key)
        BY <1>0, <2>1, <2>f, <3>2, <4>1
      <4> QED
        BY <1>3, <2>f, <3>2, <3>4, <4>2
    <3>5. CASE ~Granted(r)
      <4>1. n # r.key
        BY <2>f, <3>5 DEF Is, Granted
      <4>2. n \in wit
        BY <2>1, <2>f, <4>1
      <4>3. Lost
        BY <2>f, <3>2, <4>2 DEF Gate, FiledInv
      <4>4. damage' > 0
        BY <4>3 DEF Lost
      <4>5. \A t \in All' : t.at <= recFile'.at
        BY <1>0, <2>1
      <4>6. recFile'.dec # "granted"
        BY <2>1, <3>5 DEF Granted
      <4> QED
        BY <2>1, <4>4, <4>5, <4>6 DEF Lost
    <3> QED
      BY <3>4, <3>5
  <2> QED
    BY <1>1, <1>2, <2>0, <2>f DEF FiledInv
<1>4. CASE ~persisted
  BY <1>4, <1>0, <1>1, <1>2, FiledKeeps DEF Records, FileKept, LostKept, Lost, OnFile, FreshReceipt, Gate
<1> QED
  BY <1>1, <1>2, <1>3, <1>4

LEMMA RetryRecordGate ==
    ASSUME Base, Base', Gate, NEW d \in Dispatchers, RetryRecord(d)
    PROVE  Gate'
<1>0. up /\ UNCHANGED <<up, live, call, answered, kind, mine, damage>>
  BY RetryRecordPlain
<1>1. CASE CoreUnchanged
  BY <1>0, <1>1, CoreGate
<1>2. CASE ~CoreUnchanged
  <2>1. /\ recOwed # None /\ ~Deciding /\ recOwed \in Rcpt
        /\ recOwed.dec = "granted" => ~dirty /\ (mintOwed # None => mintOwed.at # recOwed.at)
    BY <1>2, RetryRecordPlain
  <2>2. PICK r \in Rcpt : r = recOwed
    BY <2>1
  <2>3. PICK persisted \in BOOLEAN : Records(r, persisted)
    BY <1>2, <2>2, RetryRecordPlain
  <2>4. /\ r.key \in wit \cup mine /\ r.key \in Nat /\ Is(r.key, r.dec)
        /\ \A t \in All : t.key <= r.key /\ t.at <= r.at
        /\ mintOwed # None => mintOwed = r
    BY <2>1, <2>2, RcptFields DEF Base, KnownInv, OwedInv
  <2>5. \A c \in Callers : call[c].pc \notin Middle
    BY <2>1 DEF Deciding, Middle
  <2>6. Granted(r) =>
            /\ r.key \in Keys(outFile.rs) \/ r.key \in answered \/ Passed(r.key)
            /\ \A n \in wit : Top(n) /\ kind[n] = "granted" => n <= r.key \/ n \in answered
    <3> SUFFICES ASSUME Granted(r)
                 PROVE  /\ r.key \in Keys(outFile.rs) \/ r.key \in answered \/ Passed(r.key)
                        /\ \A n \in wit : Top(n) /\ kind[n] = "granted" => n <= r.key \/ n \in answered
      OBVIOUS
    <3>1. ~dirty /\ mintOwed = None
      BY <2>1, <2>2, <2>4 DEF Granted
    <3>2. trail = outFile.rs
      BY <1>0, <3>1 DEF Base, KeptInv
    <3>3. OwedGrant
      BY DEF Gate
    <3>4. /\ Backed(r.key)
          /\ \A n \in wit : Top(n) /\ kind[n] = "granted" => n <= r.key \/ n \in answered
      BY <2>1, <2>2, <2>4, <2>5, <3>3 DEF OwedGrant, Granted
    <3> QED
      BY <3>1, <3>2, <3>4 DEF Backed
  <2>7. FiledInv' /\ SettledInv' /\ TrailKept /\ HistoryKept
    BY <1>0, <2>3, <2>4, <2>6, RecordGate
  <2>8. /\ mintOwed' = mintOwed /\ outFile' = outFile /\ wit \subseteq wit'
        /\ \A k : Backed(k) => Backed(k)'
    BY <2>3, <1>0, <2>7, BackedKeeps DEF Records
  <2>9. wit' \subseteq wit \cup {r.key} /\ wit' \cup mine' = wit \cup mine
    BY <1>0, <2>3, <2>4 DEF Records
  <2>10. MintedInv'
    <3>1. \A c \in Callers : call'[c].pc # "record"
      BY <1>0, <2>5 DEF Middle
    <3>2. ASSUME mintOwed # None, mintOwed.dec = "granted", mintOwed.key \in wit' PROVE FALSE
      BY <2>4, <3>2, <2>1, <2>2 DEF Gate, MintedInv, Granted
    <3> QED
      BY <2>8, <3>1, <3>2 DEF MintedInv
  <2>11. RecordInv'
    BY <1>0, <2>5 DEF RecordInv, Middle
  <2>12. OwedGrant'
    <3>1. CASE persisted
      BY <2>3, <3>1 DEF Records, OwedGrant
    <3>2. CASE ~persisted
      BY <2>2, <2>3, <3>2, <1>0, <2>8 DEF Records, Gate, OwedGrant, Deciding, Top
    <3> QED
      BY <3>1, <3>2
  <2>13. TurnNewest' /\ GrantBacked'
    BY <1>0, <2>9, <2>8 DEF Waits, Handled, Gate, TurnNewest, GrantBacked
  <2> QED
    BY <2>7, <2>10, <2>11, <2>12, <2>13 DEF Gate
<1> QED
  BY <1>1, <1>2

LEMMA GrantRecordGate ==
    ASSUME Base, Base', Gate, NEW c \in Callers, GrantRecord(c)
    PROVE  Gate'
<1>m. PICK r \in Rcpt, persisted \in BOOLEAN : GrantRecords(c, r, persisted)
  BY GrantRecordPlain
<1>1. /\ up /\ call[c].pc = "record" /\ call[c].dec = "granted" /\ r.key = call[c].key /\ r.at = call[c].at
      /\ Records(r, persisted) /\ (persisted => call[c].safe) /\ r.dec = "granted" /\ r.key \in Nat
      /\ call'[c].pc = "mark" /\ call'[c].key = call[c].key /\ call'[c].dec = call[c].dec
      /\ \A o \in Callers : o # c => call'[o] = call[o]
      /\ UNCHANGED <<up, live, answered, kind, mine, damage>>
  BY CallFields, <1>m, RcptFields DEF Base, GrantRecords, Owed, Call, passVars
<1>2. /\ \A o \in Callers : o # c => call[o].pc \notin Middle
      /\ \A k \in wit : k <= r.key
      /\ r.key \in mine /\ Is(r.key, r.dec) /\ \A t \in All : t.key <= r.key /\ t.at <= r.at
  BY <1>1 DEF Base, CallInv, Middle, KnownInv, MintedOK
<1>3. /\ Backed(r.key)
      /\ persisted => mintOwed = None /\ (r.key \in Keys(outFile.rs) \/ r.key \in answered)
  BY <1>1 DEF Gate, RecordInv, MintedInv
<1>4. FiledInv' /\ SettledInv' /\ TrailKept /\ HistoryKept
  BY <1>1, <1>2, <1>3, RecordGate
<1>5. /\ mintOwed' = mintOwed /\ outFile' = outFile /\ wit \subseteq wit' /\ wit' \cup mine' = wit \cup mine
      /\ \A k : Backed(k) => Backed(k)'
  BY <1>1, <1>2, <1>4, BackedKeeps DEF Records
<1>6. \A o \in Callers : call'[o].pc # "record" /\ (call[o].pc = "mint" => call'[o] = call[o])
  BY <1>1, <1>2 DEF Middle
<1>7. MintedInv'
  BY <1>1, <1>3, <1>5, <1>6 DEF Records, Gate, MintedInv
<1>8. RecordInv'
  BY <1>6 DEF RecordInv
<1>9. OwedGrant'
  <2>1. Deciding'
    BY <1>1 DEF Deciding
  <2>2. recOwed' = None \/ recOwed' = r
    BY <1>1 DEF Records
  <2>3. Backed(r.key)'
    BY <1>3, <1>5
  <2>4. \A k : recOwed' # None /\ recOwed'.key = k => Backed(k)'
    BY <2>2, <2>3
  <2> QED
    BY <2>1, <2>4 DEF OwedGrant
<1>10. TurnNewest' /\ GrantBacked'
  <2>1. \A o \in Callers : call'[o].pc = "turn" <=> call[o].pc = "turn"
    BY <1>1
  <2>2. \A k : Waits(k)' <=> Waits(k)
    BY <1>1, <2>1 DEF Waits
  <2>3. Handled' = Handled
    BY <1>5, <2>2 DEF Handled
  <2>4. TurnNewest'
    BY <1>1, <2>1, <2>2 DEF Gate, TurnNewest
  <2>5. GrantBacked'
    BY <1>1, <1>5, <1>6, <2>3 DEF Gate, GrantBacked
  <2> QED
    BY <2>4, <2>5
<1> QED
  BY <1>4, <1>7, <1>8, <1>9, <1>10 DEF Gate

\* When its turn comes a decision becomes the newest handled.
LEMMA TurnHandled ==
    ASSUME Base, Gate, NEW c \in Callers, MyTurn(c), NEW k \in Nat, call[c].key = k,
           wit' \subseteq wit \cup {k}, mine' = mine,
           call'[c].pc # "turn", \A o \in Callers : o # c => call'[o] = call[o]
    PROVE  /\ TurnNewest' /\ k \in Handled'
           /\ \A n \in Handled' : (\A j \in Handled' : j <= n) => n = k
<1>1. /\ call[c].pc = "turn" /\ k \in mine /\ k \in Nat
      /\ \A o \in Callers : o # c /\ call[o].pc # "idle" => call[o].pc = "turn" /\ k < call[o].key
      /\ \A j \in wit : j < k
  BY TurnAlone, CallFields DEF TurnOK, Base, KnownInv
<1>2. wit \in SUBSET Nat /\ mine \in SUBSET Nat
  BY DEF Base, TypeInv, OutboxTypes, CoreTypes
<1>3. \A j : Waits(j) => j = k \/ Waits(j)'
  BY DEF Waits
<1>4. TurnNewest'
  <2> SUFFICES ASSUME NEW o \in Callers, call'[o].pc = "turn", NEW j \in mine
               PROVE  j < call'[o].key \/ Waits(j)'
    BY DEF TurnNewest
  <2>1. o # c /\ call'[o] = call[o] /\ call[o].pc = "turn"
    OBVIOUS
  <2>2. j < call[o].key \/ Waits(j)
    BY <2>1 DEF Gate, TurnNewest
  <2>3. k < call[o].key
    BY <1>1, <2>1
  <2> QED
    BY <1>3, <2>1, <2>2, <2>3
<1>5. k \in Handled'
  <2>1. ~Waits(k)'
    <3>1. ASSUME NEW o \in Callers, call'[o].pc = "turn", call'[o].key = k PROVE FALSE
      BY <3>1, <1>1
    <3> QED
      BY <3>1 DEF Waits
  <2> QED
    BY <1>1, <2>1 DEF Handled
<1>6. ASSUME NEW n \in Handled', \A j \in Handled' : j <= n PROVE n = k
  <2>1. k <= n /\ ~Waits(n)' /\ n \in wit' \cup mine
    BY <1>5, <1>6 DEF Handled
  <2>2. n \in Nat
    BY <1>1, <1>2, <2>1
  <2>3. n \in wit => n < k
    BY <1>1
  <2>4. n \in mine => n < k \/ n = k
    BY <1>1, <1>3, <2>1 DEF Gate, TurnNewest
  <2> QED
    BY <1>1, <2>1, <2>2, <2>3, <2>4
<1> QED
  BY <1>4, <1>5, <1>6

LEMMA BeginDenialGate ==
    ASSUME Base, Base', Gate, NEW c \in Callers, BeginDenial(c)
    PROVE  Gate'
<1>m. PICK r \in Rcpt, persisted \in BOOLEAN : DenialBegins(c, r, persisted)
  BY BeginDenialPlain
<1>1. /\ up /\ call[c].pc = "turn" /\ r.key = call[c].key /\ r.at > lastStamp /\ r.key \in Nat
      /\ Records(r, persisted) /\ ~Granted(r) /\ r.dec = call[c].dec
      /\ call'[c].pc = "mint" /\ call'[c].key = call[c].key
      /\ \A o \in Callers : o # c => call'[o] = call[o]
      /\ UNCHANGED <<up, live, answered, kind, mine, damage>>
  BY CallFields, <1>m, RcptFields DEF Base, DenialBegins, Call, Granted, passVars
<1>2. /\ \A o \in Callers : call[o].pc \notin Middle
      /\ \A k \in wit : k < r.key
      /\ r.key \in mine /\ Is(r.key, r.dec) /\ \A t \in All : t.key <= r.key /\ t.at <= r.at
      /\ mintOwed # None => mintOwed.key < r.key
  <2>1. TurnOK(call[c]) /\ \A o \in Callers : call[o].pc \notin Middle
    BY TurnAlone DEF BeginDenial
  <2>2. call[c].key \in mine /\ Is(call[c].key, call[c].dec)
    BY <1>1 DEF Base, KnownInv
  <2>3. \A t \in All : t.key < r.key /\ t.at <= lastStamp
    BY <1>1, <2>1 DEF TurnOK, Base, StampInv
  <2>4. (\A t \in All : t.key \in Nat /\ t.at \in Nat) /\ r.key \in Nat /\ r.at \in Nat /\ lastStamp \in Nat
    BY AllTypes, RcptFields DEF Base, TypeInv, CoreTypes
  <2> QED
    BY <1>1, <2>1, <2>2, <2>3, <2>4 DEF TurnOK
<1>3. FiledInv' /\ SettledInv' /\ TrailKept /\ HistoryKept
  BY <1>1, <1>2, RecordGate
<1>4. MintedInv'
  BY <1>1, <1>2 DEF Records, Middle, Gate, MintedInv
<1>5. RecordInv'
  BY <1>1, <1>2 DEF RecordInv, Middle
<1>6. OwedGrant'
  BY <1>1 DEF Records, OwedGrant, Granted
<1>7. TurnNewest' /\ GrantBacked'
  BY <1>1, TurnHandled DEF Records, BeginDenial, GrantBacked
<1> QED
  BY <1>3, <1>4, <1>5, <1>6, <1>7 DEF Gate

\* Steps that move a caller and touch no file.
LEMMA FilesGate ==
    ASSUME Base, Gate, FilesUnchanged, \A k : Taken(k) => Taken(k)' /\ kind'[k] = kind[k]
    PROVE  /\ FiledInv' /\ SettledInv' /\ UNCHANGED <<outFile, up, recOwed, mintOwed, wit, answered>>
           /\ \A k : Backed(k)' <=> Backed(k)
           /\ \A k \in wit : kind'[k] = kind[k]
<1>1. /\ Onhand' = Onhand /\ All' = All
      /\ UNCHANGED <<recFile, outFile, up, trail, preserve, settled, recOwed, mintOwed, answered, wit, damage>>
  BY DEF FilesUnchanged, Onhand, Filed, All, passVars
<1>2. \A k : (Top(k)' <=> Top(k)) /\ (Passed(k)' <=> Passed(k))
  BY <1>1 DEF Top, Passed
<1>3. Lost' <=> Lost
  BY <1>1 DEF Lost, OnFile, FreshReceipt
<1>4. \A k \in wit : kind'[k] = kind[k]
  BY DEF Base, KnownInv
<1>5. FiledInv'
  BY <1>1, <1>2, <1>3, <1>4 DEF Gate, FiledInv
<1>6. SettledInv'
  BY <1>1, <1>2 DEF Gate, SettledInv
<1>7. \A k : Backed(k)' <=> Backed(k)
  BY <1>1, <1>2 DEF Backed
<1> QED
  BY <1>1, <1>4, <1>5, <1>6, <1>7

LEMMA BeginGrantGate ==
    ASSUME Base, Gate, NEW c \in Callers, BeginGrant(c)
    PROVE  Gate'
<1>0. PICK k \in Nat : call[c].key = k
  BY CallFields DEF Base
<1>1. /\ MyTurn(c) /\ FilesUnchanged /\ kind' = kind
      /\ \A o \in Callers : o # c => call'[o] = call[o]
      /\ \/ /\ call'[c].pc = "mint" /\ call'[c].key = k /\ mine' = mine
         \/ call'[c].pc = "idle" /\ mine' = mine \ {k} /\ live' = live
  <2>1. call[c] \in Call
    BY CallFields DEF Base
  <2>2. call'[c] = [call[c] EXCEPT !.pc = "mint"] => call'[c].pc = "mint" /\ call'[c].key = k
    BY <1>0, <2>1 DEF Call
  <2> QED
    BY <1>0, <2>2, BeginGrantPlain, IdleIsCall
<1>2. /\ call[c].pc = "turn" /\ ~Deciding
      /\ \A o \in Callers : call[o].pc \notin Middle
      /\ \A o \in Callers : o # c /\ call[o].pc # "idle" => call[o].pc = "turn" /\ k < call[o].key
      /\ \A j \in wit : j < k
  BY <1>0, <1>1, TurnAlone DEF TurnOK
<1>3. /\ FiledInv' /\ SettledInv' /\ UNCHANGED <<outFile, up, recOwed, mintOwed, wit, answered>>
      /\ \A j : Backed(j)' <=> Backed(j)
  BY <1>1, FilesGate DEF Taken
<1>4. MintedInv' /\ RecordInv'
  BY <1>1, <1>2, <1>3 DEF Middle, Gate, MintedInv, RecordInv
<1>5. OwedGrant'
  BY <1>3, <1>1, <1>2 DEF Top, Gate, OwedGrant
<1>6. CASE call'[c].pc = "mint" /\ call'[c].key = k /\ mine' = mine
  <2>1. TurnNewest' /\ \A n \in Handled' : (\A j \in Handled' : j <= n) => n = k
    BY <1>0, <1>1, <1>3, <1>6, TurnHandled
  <2>2. GrantBacked'
    BY <1>6, <2>1 DEF GrantBacked
  <2> QED
    BY <1>3, <1>4, <1>5, <2>1, <2>2 DEF Gate
<1>7. CASE call'[c].pc = "idle" /\ mine' = mine \ {k} /\ live' = live
  <2>1. \A j : j # k => (Waits(j)' <=> Waits(j))
    BY <1>0, <1>1, <1>7 DEF Waits
  <2>2. TurnNewest'
    <3> SUFFICES ASSUME NEW o \in Callers, call'[o].pc = "turn", NEW j \in mine'
                 PROVE  j < call'[o].key \/ Waits(j)'
      BY DEF TurnNewest
    <3>1. call'[o] = call[o] /\ j \in mine /\ j # k
      BY <1>1, <1>7
    <3> QED
      BY <2>1, <3>1 DEF Gate, TurnNewest
  <2>3. Handled' = Handled
    BY <1>0, <1>2, <1>3, <1>7, <2>1 DEF Waits, Handled
  <2>4. GrantBacked'
    BY <1>2, <1>3, <1>7, <2>3 DEF Gate, GrantBacked, Middle
  <2> QED
    BY <1>3, <1>4, <1>5, <2>2, <2>4 DEF Gate
<1> QED
  BY <1>1, <1>6, <1>7

LEMMA FinishGate ==
    ASSUME Base, Gate, NEW c \in Callers, FinishDecision(c)
    PROVE  Gate'
<1>1. /\ call[c].pc = "mark" /\ FilesUnchanged /\ live' = live /\ kind' = kind /\ mine' = mine
      /\ call'[c].pc = "idle" /\ \A o \in Callers : o # c => call'[o] = call[o]
  BY FinishPlain, IdleIsCall
<1>2. /\ \A o \in Callers : o # c => call[o].pc \notin Middle
      /\ MintedOK(call[c])
  BY <1>1 DEF Base, CallInv, Middle
<1>3. /\ FiledInv' /\ SettledInv' /\ UNCHANGED <<outFile, up, recOwed, mintOwed, wit, answered>>
      /\ \A j : Backed(j)' <=> Backed(j)
  BY <1>1, FilesGate DEF Taken
<1>4. MintedInv' /\ RecordInv'
  BY <1>1, <1>2, <1>3 DEF Middle, Gate, MintedInv, RecordInv
<1>5. OwedGrant'
  <2> SUFFICES ASSUME NEW k \in Nat, recOwed # None, recOwed.dec = "granted", recOwed.key = k
               PROVE  Backed(k) /\ \A n \in wit : n <= k
    BY <1>3 DEF OwedGrant
  <2>1. recOwed = Owed(call[c].dec, call[c].at, call[c].key)
    BY <1>1, <1>2 DEF MintedOK
  <2>2. k = call[c].key
    BY <2>1 DEF Owed
  <2>3. \A n \in wit : n <= k
    BY <1>1, <1>2, <2>2 DEF MintedOK
  <2>4. Backed(k) \/ \E o \in Callers : call[o].pc \in Middle /\ k < call[o].key
    BY DEF Gate, OwedGrant
  <2>5. \A o \in Callers : call[o].pc \in Middle => call[o].key = k
    BY <1>2, <2>2
  <2> QED
    BY <2>3, <2>4, <2>5
<1>6. TurnNewest' /\ GrantBacked'
  <2>1. \A o \in Callers : (call'[o].pc = "turn" <=> call[o].pc = "turn") /\ (call'[o].pc = "turn" => call'[o] = call[o])
    BY <1>1
  <2>2. \A j : Waits(j)' <=> Waits(j)
    BY <2>1 DEF Waits
  <2>3. Handled' = Handled
    BY <1>1, <1>3, <2>2 DEF Handled
  <2>4. TurnNewest'
    BY <1>1, <2>1, <2>2 DEF Gate, TurnNewest
  <2>5. GrantBacked'
    BY <1>1, <1>3, <2>3 DEF Gate, GrantBacked
  <2> QED
    BY <2>4, <2>5
<1> QED
  BY <1>3, <1>4, <1>5, <1>6 DEF Gate

LEMMA DecideGate ==
    ASSUME Base, Gate, NEW c \in Callers, NEW dec \in Kinds, Decide(c, dec)
    PROVE  Gate'
<1>0. PICK k \in Nat : k = Len(kind) + 1
  BY DecidePlain
<1>1. /\ call[c].pc = "idle" /\ FilesUnchanged /\ (live' = "granted" => live = "granted")
      /\ ~Taken(k) /\ (\A j : Taken(j) => j < k /\ Taken(j)' /\ kind'[j] = kind[j])
      /\ mine' = mine \cup {k} /\ call'[c].pc = "turn" /\ call'[c].key = k
      /\ \A o \in Callers : o # c => call'[o] = call[o]
  BY <1>0, DecidePlain
<1>2. \A j \in wit \cup mine : Taken(j)
  BY DEF Base, KnownInv
<1>3. /\ FiledInv' /\ SettledInv' /\ UNCHANGED <<outFile, up, recOwed, mintOwed, wit, answered>>
      /\ \A j : Backed(j)' <=> Backed(j)
      /\ \A j \in wit : kind'[j] = kind[j]
  BY <1>1, FilesGate
<1>4. MintedInv' /\ RecordInv'
  BY <1>1, <1>3 DEF Gate, MintedInv, RecordInv
<1>5. OwedGrant'
  <2>1. \A j : Top(j)' <=> Top(j)
    BY <1>3 DEF Top
  <2>2. \A o \in Callers : call[o].pc \in Middle => call'[o] = call[o]
    BY <1>1 DEF Middle
  <2>3. Deciding' <=> Deciding
    BY <1>1 DEF Deciding
  <2> SUFFICES ASSUME NEW j \in Nat, recOwed # None, recOwed.dec = "granted", recOwed.key = j
               PROVE  /\ Backed(j) \/ \E o \in Callers : call'[o].pc \in Middle /\ j < call'[o].key
                      /\ ~Deciding => \A n \in wit : Top(n) /\ kind[n] = "granted" => n <= j \/ n \in answered
    BY <1>3, <2>1, <2>3 DEF OwedGrant
  <2> QED
    BY <2>2 DEF Gate, OwedGrant
<1>6. \A j : Waits(j)' <=> Waits(j) \/ j = k
  BY <1>1 DEF Waits
<1>7. TurnNewest'
  <2> SUFFICES ASSUME NEW o \in Callers, call'[o].pc = "turn", NEW j \in mine, ~Waits(j)
               PROVE  j < call'[o].key
    BY <1>1, <1>6 DEF TurnNewest
  <2>1. CASE o = c
    BY <1>1, <1>2, <2>1
  <2>2. CASE o # c
    BY <1>1, <2>2 DEF Gate, TurnNewest
  <2> QED
    BY <2>1, <2>2
<1>8. GrantBacked'
  <2>1. Handled' = Handled
    BY <1>1, <1>2, <1>3, <1>6 DEF Handled
  <2>2. \A o \in Callers : call[o].pc = "mint" => call'[o] = call[o]
    BY <1>1
  <2> QED
    BY <1>1, <1>3, <2>1, <2>2 DEF Gate, GrantBacked
<1> QED
  BY <1>3, <1>4, <1>5, <1>7, <1>8 DEF Gate

-----------------------------------------------------------------------------
\* Crash, damage, restart.
LEMMA CrashGate ==
    ASSUME Base, Gate, Crash
    PROVE  Gate'
<1>1. /\ UNCHANGED <<recFile, outFile, kind, wit, damage, answered>> /\ up' = FALSE
      /\ trail' = <<>> /\ settled' = {} /\ recOwed' = None /\ mintOwed' = None
      /\ call' = [c \in Callers |-> IdleCall]
  BY DEF Crash, diskVars
<1>2. \A c \in Callers : call'[c].pc = "idle"
  BY <1>1 DEF IdleCall
<1>3. All' \subseteq All
  BY <1>1, EmptyTrail DEF Onhand, Filed, All
<1>4. Lost => Lost'
  BY <1>1, <1>3 DEF Lost, OnFile
<1>5. FiledInv'
  BY <1>1, <1>4 DEF Gate, FiledInv, Top
<1>6. SettledInv' /\ MintedInv' /\ RecordInv' /\ OwedGrant' /\ TurnNewest' /\ GrantBacked'
  BY <1>1, <1>2 DEF SettledInv, MintedInv, RecordInv, OwedGrant, TurnNewest, GrantBacked
<1> QED
  BY <1>5, <1>6 DEF Gate

LEMMA DamageGate ==
    ASSUME Base, Gate, DamageFile
    PROVE  Gate'
<1>1. /\ ~up /\ ~up' /\ damage' = damage + 1 /\ (recFile'.st = "bad" \/ outFile'.st = "bad")
      /\ UNCHANGED <<settled, answered, recOwed, mintOwed, call, wit>>
  BY DamagePlain DEF AbsentRecord, Damages, outboxVars, passVars
<1>2. Lost'
  BY <1>1 DEF Lost, Base, TypeInv, CoreTypes
<1>3. /\ recOwed' = None /\ mintOwed' = None /\ settled' = {}
      /\ \A c \in Callers : call'[c].pc = "idle"
  BY <1>1 DEF Base, DownInv
<1>4. FiledInv'
  BY <1>2 DEF FiledInv
<1>5. SettledInv' /\ MintedInv' /\ RecordInv' /\ OwedGrant' /\ TurnNewest' /\ GrantBacked'
  BY <1>1, <1>3 DEF SettledInv, MintedInv, RecordInv, OwedGrant, TurnNewest, GrantBacked
<1> QED
  BY <1>4, <1>5 DEF Gate

LEMMA RestartGate ==
    ASSUME Base, Denials, Gate, mine = {}, NEW healed \in BOOLEAN, NEW marked \in BOOLEAN, NEW wiped \in BOOLEAN,
           Restart(healed, marked, wiped)
    PROVE  Gate'
<1> DEFINE heals == TailHeals(recFile, outFile)
           t == Last(outFile.rs)
<1>p. PICK rec \in Rec : rec = Resolved(recFile, outFile)
  BY ResolvedIs
<1>1. /\ ~up /\ up' = TRUE
      /\ All = Filed /\ Onhand' = Filed /\ All' = Filed
      /\ trail' = outFile.rs
      /\ \/ recFile' = recFile
         \/ recFile' = rec /\ heals
         \/ \E at \in Nat : /\ recFile' = Unwitnessed(rec, at) /\ rec.st = "ok"
                            /\ \A r \in Filed : r.at <= at
      /\ wit' = wit
      /\ \/ recOwed' = None
         \/ heals /\ recOwed' = Owed(rec.dec, rec.at, rec.key)
      /\ live' = RestoredState(recFile, outFile)
      /\ UNCHANGED <<outFile, settled, answered, mintOwed, call, kind, mine, damage>>
  BY <1>p, RestartPlain DEF Restarts, passVars
<1>2. /\ heals => /\ t \in Filed /\ rec.st = "ok" /\ rec.dec = t.dec /\ rec.key = t.key
                  /\ \A r \in Filed : r.key <= rec.key /\ r.at <= rec.at
      /\ ~heals => rec = recFile
  BY <1>p, ResolvedIs
<1>3. outFile.st = "bad" =>
          preserve' \/ (recFile'.st = "ok" /\ recFile'.unw /\ \A r \in Filed : r.at <= recFile'.unwAt)
  BY RestartProof
<1>4. /\ outFile.rs \in Seq(Rcpt) /\ \A r \in Filed : OnFile(r)
      /\ \A c \in Callers : call'[c].pc = "idle"
      /\ mintOwed' = None /\ settled' = {} /\ wit \in SUBSET Nat
  BY <1>1, AllTypes DEF Base, TypeInv, KnownInv, OnFile, OutboxTypes, DownInv
<1>t. \A k : Top(k)' <=> Top(k)
  BY <1>1 DEF Top
<1> HIDE DEF heals, t
<1>b. Lost => (heals => ~Granted(t)) /\ live' # "granted"
  BY <1>1, LostBlocks DEF heals, t
<1>5. Lost => Lost'
  BY RestartLost
<1>6. FiledInv'
  BY <1>1, <1>5, <1>t DEF Gate, FiledInv
<1>7. SettledInv' /\ MintedInv' /\ RecordInv' /\ TurnNewest'
  BY <1>4 DEF SettledInv, MintedInv, RecordInv, TurnNewest
<1>8. OwedGrant'
  <2> SUFFICES ASSUME NEW k \in Nat, recOwed' # None, recOwed'.dec = "granted", recOwed'.key = k
               PROVE  Backed(k)' /\ \A n \in wit : Top(n) /\ kind[n] = "granted" => n <= k \/ n \in answered
    BY <1>1, <1>t DEF OwedGrant
  <2>1. heals /\ Granted(t) /\ k = t.key /\ t \in Filed /\ \A r \in Filed : r.key <= k
    BY <1>1, <1>2 DEF Owed, Granted
  <2>2. ~Lost
    BY <1>b, <2>1
  <2>3. \A j : j \in Keys(outFile.rs) => j <= k
    BY <1>4, <2>1, KeysOf DEF Filed
  <2>4. k \in Keys(trail')
    BY <1>1, <1>4, <2>1, KeysOf DEF Filed
  <2> QED
    BY <2>2, <2>3, <2>4 DEF Gate, FiledInv, Backed
<1>9. GrantBacked'
  <2> SUFFICES ASSUME live' = "granted", NEW n \in Handled', \A j \in Handled' : j <= n
               PROVE  Backed(n)'
    BY DEF GrantBacked
  <2>1. Handled' = wit
    BY <1>1, <1>4 DEF Handled, Waits
  <2>2. PICK k \in wit : Top(k) /\ kind[k] = "granted"
    BY <1>1, RestoredTop
  <2>3. n = k
    BY <1>4, <2>1, <2>2 DEF Top
  <2>4. n \in Keys(outFile.rs) \/ n \in answered
    BY <1>b, <2>2, <2>3 DEF Gate, FiledInv
  <2> QED
    BY <1>1, <2>4 DEF Backed
<1> QED
  BY <1>6, <1>7, <1>8, <1>9 DEF Gate

-----------------------------------------------------------------------------
LEMMA NextGate == Floor /\ Gate /\ [Next]_vars => Gate'
<1> SUFFICES ASSUME Floor, Gate, [Next]_vars PROVE Gate'
  OBVIOUS
<1>0. Base /\ Base' /\ Denials /\ HandInv /\ GoneInv
  BY NextBase DEF Floor, Denials
<1>1. CASE UNCHANGED vars \/ DeferralElapses
  <2>1. CoreUnchanged /\ answered' = answered
    BY <1>1 DEF vars, DeferralElapses, CoreUnchanged, diskVars, outboxVars, owedVars, passVars, histVars, boundVars
  <2> QED
    BY <1>0, <2>1, CoreGate
<1>2. ASSUME NEW c \in Callers, DecisionStep(c) PROVE Gate'
  BY <1>0, <1>2, BeginGrantGate, BeginDenialGate, MintGate, GrantRecordGate, FinishGate DEF DecisionStep
<1>3. ASSUME NEW c \in Callers, NEW dec \in Kinds, Decide(c, dec) PROVE Gate'
  BY <1>0, <1>3, DecideGate
<1>4. ASSUME NEW d \in Dispatchers, PassStep(d) PROVE Gate'
  <2>1. CASE QuietPass(d)
    <3>1. CoreUnchanged
      BY <1>0, <2>1, QuietPassCore
    <3>2. answered \subseteq answered'
      BY <2>1 DEF QuietPass, StartPass, ClaimDispatch, NextReceipt, RecheckGrant, ServiceRecords, ServiceRefuses,
          ServiceUnavailable, Verdict, ReceiptRetryable, HandOver, ReceiptUnanswered, EventLeg, EventsSent
    <3> QED
      BY <1>0, <3>1, <3>2, CoreGate
  <2>2. CASE RetryMint(d)
    BY <1>0, <2>2, RetryMintGate
  <2>3. CASE RetryPersist(d)
    BY <1>0, <2>3, RetryPersistGate
  <2>4. CASE RetryRecord(d)
    BY <1>0, <2>4, RetryRecordGate
  <2>5. CASE ReceiptSettled(d)
    BY <1>0, <2>5, SettledGate
  <2> QED
    BY <1>4, <2>1, <2>2, <2>3, <2>4, <2>5 DEF PassStep, QuietPass
<1>5. ASSUME NEW healed \in BOOLEAN, NEW marked \in BOOLEAN, NEW wiped \in BOOLEAN,
             Restart(healed, marked, wiped) PROVE Gate'
  BY <1>0, <1>5, RestartGate DEF Restart, GoneInv
<1> QED
  BY <1>0, <1>1, <1>2, <1>3, <1>4, <1>5, CrashGate, DamageGate DEF Next

LEMMA InitGate == Init => HandedInv /\ Gate
<1> SUFFICES ASSUME Init PROVE HandedInv /\ Gate
  OBVIOUS
<1>1. /\ live = "undecided" /\ recOwed = None /\ mintOwed = None /\ wit = {} /\ settled = {}
      /\ call = [c \in Callers |-> IdleCall] /\ pass = [d \in Dispatchers |-> IdlePass]
  BY DEF Init
<1>2. /\ \A c \in Callers : call[c].pc = "idle"
      /\ \A d \in Dispatchers : pass[d].handed = {}
  BY <1>1 DEF IdleCall, IdlePass
<1> QED
  BY <1>1, <1>2 DEF HandedInv, Gate, FiledInv, SettledInv, MintedInv, RecordInv, OwedGrant, TurnNewest, GrantBacked

\* The gate opens under a live grant only when the grant was answered.
LEMMA EventsSafe ==
    ASSUME Floor, HandedInv, Gate, NEW d \in Dispatchers, [Next]_vars,
           pass[d].pc = "gate", pass'[d].pc = "events"
    PROVE  kind[Latest] = "granted" /\ Latest \in answered
<1>0. /\ Base /\ pass \in [Dispatchers -> Pass] /\ trail \in Seq(Rcpt)
      /\ IdlePass.pc = "idle" /\ up
  BY PassUp DEF Floor, Base, TypeInv, PassTypes, OutboxTypes, IdlePass
<1>1. EventLeg(d)
  <2>1. pass' # pass
    BY <1>0 DEF Pass
  <2>2. PICK e \in Dispatchers : PassStep(e)
    BY <1>0, <2>1, ZenonT(60) DEF Next, DecisionStep, BeginGrant, BeginDenial, MintReceipt, GrantRecord, FinishDecision, Decide,
          DeferralElapses, Crash, DamageFile, Restart, passVars, vars
  <2>3. pass'[d] # pass[d]
    OBVIOUS
  <2>4. CASE QuietPass(e)
    <3>1. e = d
      BY <1>0, <2>3, <2>4, QuietEffect
    <3> QED
      BY <1>0, <2>4, <3>1 DEF QuietPass, StartPass, ClaimDispatch, NextReceipt, RecheckGrant, ServiceRecords,
          ServiceRefuses, ServiceUnavailable, Verdict, ReceiptRetryable, ReceiptUnanswered, EventsSent
  <2>5. CASE RetryMint(e) \/ RetryPersist(e) \/ RetryRecord(e) \/ ReceiptSettled(e)
    BY <1>0, <2>5 DEF RetryMint, RetryPersist, RetryRecord, ReceiptSettled, HandOver, PassTo, Pass
  <2> QED
    BY <2>2, <2>4, <2>5 DEF PassStep, QuietPass
<1>2. ~GateArmed(pass[d].handed) /\ live = "granted"
  BY <1>0, <1>1 DEF EventLeg, Pass
<1>3. PICK n \in wit \cup mine : n = Latest /\ kind[n] = "granted" /\ \A j \in wit \cup mine : j <= n
  BY <1>0, <1>2, FloorGrant, LatestIs DEF NoGrantPastDenial
<1>n. wit \cup mine \in SUBSET Nat
  BY <1>0 DEF Base, TypeInv, OutboxTypes, CoreTypes
<1>4. \A c \in Callers : call[c].pc # "idle" => call[c].key # n
  BY <1>0, <1>2, <1>3 DEF GateArmed, Arming, Base, KnownInv, Is
<1>5. n \in Handled /\ \A j \in Handled : j <= n
  BY <1>3, <1>4 DEF Handled, Waits
<1>6. Backed(n)
  BY <1>0, <1>2, <1>4, <1>5 DEF Gate, GrantBacked
<1>7. n \in Keys(trail) => n \in answered
  <2> SUFFICES ASSUME n \in Keys(trail) PROVE n \in answered
    OBVIOUS
  <2>1. PICK i \in 1..Len(trail) : trail[i].key = n
    BY DEF Keys
  <2>2. trail[i] \in All
    BY <2>1 DEF All, Onhand, Receipts
  <2>3. Granted(trail[i])
    BY <1>0, <1>3, <2>1, <2>2, RcptKind
  <2>4. n \in pass[d].handed
    BY <1>2, <2>1, <2>3 DEF GateArmed
  <2> QED
    BY <2>4 DEF HandedInv
<1>8. ~Passed(n)
  BY <1>3, <1>n DEF Passed
<1>9. ~(mintOwed # None /\ mintOwed.key = n)
  BY <1>0, <1>2, <1>3 DEF GateArmed, Base, KnownInv, Is
<1> QED
  BY <1>3, <1>6, <1>7, <1>8, <1>9 DEF Backed

\* Events are sent under a live grant only after the service answered for
\* that grant's receipt, in the pass that sends them or in an earlier one:
\* the gate waits for the decision in its slow half, for an owed mint and for
\* a grant in the trail, and none of them is lost (grantReceiptGateArmed).
THEOREM EventsWaitForAnswer == Spec => EventsFollowGrant
<1>1. ASSUME Floor, HandedInv, Gate, [Next]_vars
      PROVE  [ \A d \in Dispatchers :
                 pass[d].pc = "gate" /\ pass'[d].pc = "events" =>
                     kind[Latest] = "granted" /\ Latest \in answered ]_vars
  BY <1>1, EventsSafe
<1>2. Floor /\ HandedInv /\ [Next]_vars => HandedInv'
  BY NextHanded DEF Floor
<1> QED
  BY InitFloor, NextFloor, InitGate, NextGate, <1>1, <1>2, PTL DEF Spec, EventsFollowGrant

-----------------------------------------------------------------------------
(* A clean close: what is in force.                                        *)

LEMMA ForceKeeps ==
    ASSUME EpochInv, OldInv, InForce, Settles, epoch' = epoch, mine' = mine,
           \A c \in Callers : call[c].pc = "turn" \/ call'[c].pc = "turn" => call'[c] = call[c]
    PROVE  /\ EpochInv' /\ OldInv' /\ InForce' /\ \A j : Waits(j)' <=> Waits(j)
           /\ \A n : Newest(n)' <=> Newest(n)
<1>1. \A j : Waits(j)' <=> Waits(j)
  BY DEF Waits
<1>2. Handled' = Handled
  BY <1>1 DEF Handled, Settles
<1>3. DenialWaits' <=> DenialWaits
  BY DEF DenialWaits
<1>4. EpochInv'
  BY DEF EpochInv, Settles
<1>5. OldInv'
  BY DEF OldInv, Settles
<1>6. \A n : Newest(n)' <=> Newest(n)
  BY <1>2 DEF Newest
<1>7. InForce'
  BY <1>2, <1>3, <1>6 DEF InForce, Settles
<1> QED
  BY <1>1, <1>4, <1>5, <1>6, <1>7

\* A denial begins: it is in force, unless a newer one waits.
LEMMA DenialForce ==
    ASSUME Base, Gate, EpochInv, OldInv, InForce, NEW c \in Callers, BeginDenial(c)
    PROVE  /\ EpochInv' /\ OldInv' /\ InForce'
           /\ \A n : Newest(n)' => call'[c].pc = "mint" /\ call'[c].key = n
           /\ \E j \in mine' : ~Waits(j)'
<1>m. PICK r \in Rcpt, persisted \in BOOLEAN : DenialBegins(c, r, persisted)
  BY BeginDenialPlain
<1>k. PICK k \in Nat : call[c].key = k
  BY CallFields DEF Base
<1>1. /\ call[c].pc = "turn" /\ call[c].dec # "granted" /\ MyTurn(c) /\ call[c] \in Call
      /\ mine' = mine /\ kind' = kind /\ epoch' = epoch /\ live' = live /\ damage' = damage /\ up' = up
      /\ k \in mine /\ kind[k] = call[c].dec /\ wit' \subseteq wit \cup {k}
  BY <1>m, <1>k, CallKinds, CallFields DEF DenialBegins, Records, BeginDenial, Is, Base
<1>2. /\ call'[c].pc = "mint" /\ call'[c].key = k /\ \A o \in Callers : o # c => call'[o] = call[o]
  BY <1>m, <1>k, <1>1 DEF DenialBegins, Call
<1>3. \A o \in Callers : o # c /\ call[o].pc # "idle" => call[o].pc = "turn" /\ k < call[o].key
  BY <1>k, <1>1, TurnAlone
<1>4. k \in Handled' /\ \A n : Newest(n)' => n = k
  BY <1>k, <1>1, <1>2, TurnHandled DEF Newest
<1>5. live = kind[k] \/ DenialWaits'
  <2>1. \/ live = call[c].dec
        \/ \E o \in Callers : call[o].pc = "turn" /\ call[o].dec # "granted" /\ call[c].key < call[o].key
    BY <1>1 DEF EpochInv
  <2>2. ASSUME NEW o \in Callers, call[o].pc = "turn", call[o].dec # "granted", call[c].key < call[o].key
        PROVE  DenialWaits'
    BY <1>k, <2>2, <1>2 DEF DenialWaits
  <2> QED
    BY <1>1, <2>1, <2>2
<1>6. EpochInv'
  BY <1>2, <1>3, CallFields, <1>k, <1>1 DEF Base, EpochInv
<1>7. OldInv'
  BY <1>1 DEF OldInv
<1>8. InForce'
  BY <1>1, <1>4, <1>5 DEF InForce
<1>9. k \in mine' /\ ~Waits(k)'
  BY <1>1, <1>4 DEF Handled
<1> QED
  BY <1>2, <1>4, <1>6, <1>7, <1>8, <1>9

\* A grant that begins opens the live state, unless a newer denial waits.
LEMMA GrantForce ==
    ASSUME Base, LiveInv, Gate, EpochInv, OldInv, InForce, NEW c \in Callers, BeginGrant(c)
    PROVE  /\ EpochInv' /\ OldInv' /\ InForce'
           /\ \/ /\ \A n : Newest(n)' => call'[c].pc = "mint" /\ call'[c].key = n
                 /\ \E j \in mine' : ~Waits(j)'
              \/ /\ \A n : Newest(n)' <=> Newest(n)
                 /\ live' = live /\ \A j \in mine : Waits(j) \/ (j \in mine' /\ ~Waits(j)')
<1>k. PICK k \in Nat : call[c].key = k
  BY CallFields DEF Base
<1>1. /\ MyTurn(c) /\ FilesUnchanged /\ kind' = kind /\ epoch' = epoch /\ up' = up /\ damage' = damage /\ wit' = wit
      /\ call[c].pc = "turn" /\ call[c].dec = "granted" /\ call[c].snap \in Nat /\ epoch \in Nat
      /\ \A o \in Callers : o # c => call'[o] = call[o]
      /\ \/ /\ call'[c].pc = "mint" /\ call'[c].key = k /\ mine' = mine
            /\ live' = IF epoch = call[c].snap THEN "granted" ELSE live
         \/ call'[c].pc = "idle" /\ mine' = mine \ {k} /\ live' = live
  <2>1. call[c] \in Call /\ epoch \in Nat
    BY CallFields DEF Base, TypeInv, CoreTypes
  <2>2. call'[c] = [call[c] EXCEPT !.pc = "mint"] => call'[c].pc = "mint" /\ call'[c].key = k
    BY <1>k, <2>1 DEF Call
  <2>3. call[c].pc = "turn" /\ call[c].snap \in Nat
    BY CallFields, BeginGrantPlain DEF Base, MyTurn
  <2> QED
    BY <1>k, <2>1, <2>2, <2>3, BeginGrantPlain, IdleIsCall DEF FilesUnchanged
<1>2. /\ \A o \in Callers : o # c /\ call[o].pc # "idle" => call[o].pc = "turn" /\ k < call[o].key
      /\ \A j \in wit : j < k
      /\ k \in mine /\ kind[k] = "granted"
  BY <1>k, <1>1, TurnAlone, CallKinds DEF TurnOK, Is
<1>3. DenialWaits => DenialWaits'
  BY <1>1 DEF DenialWaits
<1>4. \A o \in Callers : call'[o].pc = "turn" => o # c /\ call'[o] = call[o] /\ k < call[o].key /\ call[o].key \in Nat
  BY <1>1, <1>2, CallFields DEF Base
<1>5. \A x, o \in Callers : call'[x].pc = "turn" /\ call[o].pc = "turn" /\ call[x].key < call[o].key => o # c
  BY <1>k, <1>4
<1>6. ASSUME live' # live PROVE ~\E o \in Callers : call'[o].pc = "turn" /\ call'[o].dec # "granted"
  <2>1. epoch = call[c].snap
    BY <1>1, <1>6
  <2>2. \A j \in wit \cup mine : j >= k => kind[j] = "granted"
    BY <1>k, <1>1, <2>1 DEF LiveInv
  <2>3. ASSUME NEW o \in Callers, call'[o].pc = "turn" PROVE call'[o].dec = "granted"
    BY <1>4, <2>3, CallKinds, <2>2 DEF Is
  <2> QED
    BY <2>3
<1>7. EpochInv'
  BY <1>1, <1>2, <1>4, <1>5, <1>6 DEF EpochInv
<1>8. OldInv'
  <2>1. mine' \subseteq mine /\ \A j \in wit \ mine' : j \in wit \ mine
    BY <1>1, <1>2
  <2> QED
    BY <1>1, <2>1 DEF OldInv
<1>9. CASE call'[c].pc = "mint" /\ call'[c].key = k /\ mine' = mine
  <2>1. k \in Handled' /\ \A n : Newest(n)' => n = k
    BY <1>k, <1>1, <1>9, TurnHandled DEF Newest
  <2>2. live' = kind[k] \/ DenialWaits'
    <3>1. CASE epoch = call[c].snap
      BY <1>1, <1>2, <1>9, <3>1
    <3>2. CASE epoch # call[c].snap
      BY <1>1, <3>2, <1>3 DEF LiveInv, EpochInv, DenialWaits
    <3> QED
      BY <3>1, <3>2
  <2>3. InForce'
    BY <1>1, <2>1, <2>2 DEF InForce
  <2>4. k \in mine' /\ ~Waits(k)'
    BY <1>2, <1>9, <2>1 DEF Handled
  <2> QED
    BY <1>k, <1>7, <1>8, <1>9, <2>1, <2>3, <2>4
<1>10. CASE call'[c].pc = "idle" /\ mine' = mine \ {k} /\ live' = live
  <2>1. \A j : j # k => (Waits(j)' <=> Waits(j))
    BY <1>k, <1>1, <1>10 DEF Waits
  <2>2. Waits(k) /\ k \notin wit
    BY <1>k, <1>1, <1>2 DEF Waits
  <2>3. Handled' = Handled
    BY <1>1, <1>10, <2>1, <2>2 DEF Handled
  <2>4. \A n : Newest(n)' <=> Newest(n)
    BY <2>3 DEF Newest
  <2>5. InForce'
    BY <1>1, <1>3, <1>10, <2>3, <2>4 DEF InForce
  <2>6. \A j \in mine : Waits(j) \/ (j \in mine' /\ ~Waits(j)')
    BY <1>10, <2>1, <2>2
  <2> QED
    BY <1>7, <1>8, <1>10, <2>4, <2>5, <2>6
<1> QED
  BY <1>1, <1>9, <1>10

\* With no file damaged the newest decision on file is what a start takes up.
LEMMA NewestRestored ==
    ASSUME Floor, MinorInv, PairInv, damage = 0, NEW n \in wit, Top(n)
    PROVE  RestoredState(recFile, outFile) = kind[n]
<1>1. Base /\ Denials /\ ZeroInv /\ Pair
  BY DEF Floor, Denials, PairInv
<1>2. CASE kind[n] # "granted"
  BY <1>1, <1>2, DenialRestored
<1>3. CASE RecordHas(n)
  BY <1>1, <1>3, RecordStands DEF RecordHas, Base, KnownInv, Is
<1>4. CASE kind[n] = "granted" /\ ~RecordHas(n)
  <2>1. n \in Keys(outFile.rs)
    BY <1>1, <1>4 DEF Pair, PairOnFile
  <2>2. outFile.st = "ok"
    BY <1>1, <2>1, AllTypes, EmptyTrail DEF Base, TypeInv, Filed, OutboxTypes, Pair, AbsentInv, ZeroInv
  <2>3. ~(recFile.st = "ok" /\ recFile.dec = "minor")
    <3> SUFFICES ASSUME recFile.st = "ok", recFile.dec = "minor" PROVE FALSE
      OBVIOUS
    <3>1. recFile.key \in wit /\ kind[recFile.key] = "minor" /\ wit \in SUBSET Nat
      BY <1>1 DEF Base, KnownInv, Is, TypeInv, OutboxTypes
    <3>2. recFile.key < n
      <4>1. recFile.key # n /\ recFile.key <= n /\ recFile.key \in Nat /\ n \in Nat
        BY <1>4, <3>1 DEF Top
      <4> QED
        BY <4>1
    <3> QED
      BY <1>4, <3>1, <3>2 DEF MinorInv
  <2> QED
    BY <1>1, <1>4, <2>1, <2>2, <2>3, TailTells DEF RecordHas
<1> QED
  BY <1>2, <1>3, <1>4

\* With no decision on file a start is undecided.
LEMMA NoneRestored ==
    ASSUME Base, wit = {}
    PROVE  RestoredState(recFile, outFile) = "undecided"
<1>1. outFile.rs = <<>> /\ recFile.st # "ok"
  BY EmptyTrail DEF Base, KnownInv, Filed, TypeInv, OutboxTypes
<1> QED
  BY <1>1 DEF RestoredState, Resolved, TailHeals

\* What a process at rest leaves on file restores no grant.
LEMMA RestBlocks ==
    ASSUME Base, Blocked \/ TailOwed
    PROVE  RestoredState(recFile, outFile) # "granted"
<1> DEFINE rec == Resolved(recFile, outFile)
           t == Last(outFile.rs)
<1> SUFFICES ASSUME RestoredState(recFile, outFile) = "granted" PROVE FALSE
  OBVIOUS
<1>1. rec.st = "ok" /\ rec.dec = "granted" /\ outFile.st # "bad" /\ ~rec.unw
  BY DEF RestoredState, GrantsUnprovable
<1>2. CASE TailHeals(recFile, outFile)
  <2>1. t \in Filed /\ t \in All /\ Granted(t)
    BY <1>1, <1>2, ResolvedIs DEF Granted, All
  <2>2. Blocked
    BY <2>1 DEF TailOwed
  <2>3. /\ recFile.st # "bad" /\ (recFile.unw => t.at > recFile.unwAt)
        /\ recFile.st # "ok" \/ (t.at > recFile.at /\ recFile.dec # "minor")
    BY <1>2, <2>1 DEF TailHeals, MarkSupersededBy
  <2>4. t.at \in Nat /\ recFile.at \in Nat /\ recFile.unwAt \in Nat
    BY <2>1, AllTypes, RecFields DEF Base, TypeInv
  <2>5. ~(t.at <= recFile.unwAt /\ recFile.unw) /\ ~(recFile.st = "ok" /\ t.at <= recFile.at)
    BY <2>3, <2>4
  <2> QED
    BY <1>1, <2>1, <2>2, <2>3, <2>5 DEF Blocked, HeldFile
<1>3. CASE ~TailHeals(recFile, outFile)
  BY <1>1, <1>3, ResolvedIs DEF Blocked, HeldFile, TailOwed
<1> QED
  BY <1>2, <1>3

\* A close that reports success leaves files that restore what is in force.
LEMMA CleanSafe ==
    ASSUME Floor, MinorInv, PairInv, Clean
    PROVE  CleanCloseRestores
<1> SUFFICES ASSUME up, CloseVerdictClean, \A c \in Callers : call[c].pc = "idle"
             PROVE  /\ damage = 0 => RestoredState(recFile, outFile) = live
                    /\ damage # 0 /\ live # "granted" => RestoredState(recFile, outFile) # "granted"
  BY DEF CleanCloseRestores
<1>1. /\ Base /\ Denials /\ mintOwed = None /\ trail = outFile.rs /\ Onhand = Filed
      /\ wit \in SUBSET Nat /\ mine \in SUBSET Nat
  BY DEF Floor, Base, KeptInv, CloseVerdictClean, Onhand, Filed, TypeInv, OutboxTypes, CoreTypes
<1>2. ~DenialWaits /\ Handled = wit \cup mine /\ \A k : ~Waits(k)
  BY DEF DenialWaits, Handled, Waits
<1>3. CASE wit \cup mine = {}
  BY <1>1, <1>3, NoneRestored, <1>2 DEF Clean, InForce
<1>4. CASE wit \cup mine # {}
  <2>1. PICK n \in wit \cup mine : \A j \in wit \cup mine : j <= n
    BY <1>1, <1>4, LatestIs DEF HasLatest
  <2>2. Newest(n)
    BY <1>2, <2>1 DEF Newest
  <2>3. n \in wit /\ Top(n)
    <3>1. Carried(n)
      BY <2>2 DEF Clean, NewestCarried
    <3>2. n \in Keys(trail) => n \in wit
      BY <1>1, AllTypes DEF Base, TypeInv, KnownInv
    <3>3. ~Passed(n)
      BY <1>1, <2>1 DEF Passed
    <3> QED
      BY <1>1, <2>1, <3>1, <3>2, <3>3 DEF Carried, Top
  <2>4. CASE damage = 0
    BY <1>2, <2>2, <2>4, <2>3, NewestRestored DEF Clean, InForce
  <2>5. CASE damage # 0 /\ live # "granted"
    <3>1. CASE mine = {}
      BY <1>1, <3>1, <2>5, RestBlocks DEF Clean, EpochInv, Base, TypeInv, CoreTypes, RestInv, NoneTaken
    <3>2. CASE mine # {}
      <4>1. n \in mine
        <5>1. PICK j \in mine : j <= n
          BY <2>1, <3>2
        <5>2. j \in Nat /\ n \in Nat
          BY <1>1, <2>3
        <5> QED
          BY <2>3, <5>1, <5>2 DEF Clean, OldInv
      <4>2. kind[n] # "granted"
        BY <1>2, <2>2, <2>5, <4>1 DEF Clean, InForce
      <4>3. \A k \in wit : Top(k) => k = n
        BY <1>1, <2>3 DEF Top
      <4> QED
        BY <1>1, <2>5, <4>2, <4>3, RestoredTop
    <3> QED
      BY <3>1, <3>2
  <2> QED
    BY <2>4, <2>5
<1> QED
  BY <1>3, <1>4

\* A decision that was carried still is.
LEMMA CarriedKeeps ==
    ASSUME NewestCarried, up' = up, wit \subseteq wit', \A n : Newest(n)' => Newest(n),
           \A k \in Keys(trail) : k \in Keys(trail') \/ k \in wit' \/ Passed(k)',
           \A k : Newest(k) /\ mintOwed # None /\ mintOwed.key = k => mintOwed' = mintOwed \/ Carried(k)',
           \A c \in Callers : \A k : call[c].pc = "mint" /\ call[c].key = k =>
               (call'[c].pc = "mint" /\ call'[c].key = k) \/ Carried(k)'
    PROVE  NewestCarried'
<1>1. \A k : Passed(k) => Passed(k)'
  BY DEF Passed
<1>2. \A k : Newest(k) /\ Carried(k) => Carried(k)'
  BY <1>1 DEF Carried
<1> QED
  BY <1>2 DEF NewestCarried

\* A save of a mirror that holds nothing new.
LEMMA SaveClean ==
    ASSUME Base, NEW mirror, NEW done, Fits(mirror, done), Receipts(mirror) \subseteq Onhand, NEW ms \in SUBSET Nat,
           NEW ok \in BOOLEAN, saveLocked(FALSE, mirror, done, ms, ok), Shrinks, HandKept,
           TailOwed => Last(trail) \in Receipts(mirror)
    PROVE  /\ Blocked => Blocked'
           /\ TailOwed => TailOwed'
           /\ \A r \in Receipts(mirror) : r.key \in Keys(trail') \/ Passed(r.key)'
<1>0. /\ OutboxTypes /\ KeptInv /\ preserve \in BOOLEAN /\ mirror \in Seq(Rcpt) /\ Ordered(mirror) /\ wit' \in SUBSET Nat
      /\ trail \in Seq(Rcpt) /\ Ordered(trail) /\ recFile' = recFile /\ recOwed' = recOwed /\ All' \subseteq All
  BY DEF Base, TypeInv, OutboxTypes, KeptInv, TrailOrdered, Fits, Shrinks, DecisionsUnchanged, All
<1>1. /\ preserve' = preserve
      /\ Unwritten(mirror, done, ms) \/ (Written(mirror, done, ms) /\ ~HeldFile)
  BY <1>0, SaveEffect DEF HeldFile
<1>2. HeldFile => HeldFile'
  BY <1>1 DEF HeldFile, Unwritten
<1>3. Blocked => Blocked'
  BY <1>0, <1>2 DEF Blocked
<1>4. ASSUME TailOwed PROVE TailOwed'
  <2>1. /\ trail # <<>> /\ Last(outFile.rs) = Last(trail) /\ ~Granted(Last(trail)) /\ TailHeals(recFile, outFile)
        /\ Last(trail) \in Receipts(mirror)
    BY <1>4 DEF TailOwed
  <2>2. mirror # <<>> /\ Last(mirror) = Last(trail)
    <3>1. mirror # <<>>
      BY <1>0, <2>1, EmptyTrail
    <3>2. PICK t \in Onhand : t = Last(trail)
      BY <2>1
    <3>3. PICK m \in Receipts(mirror) : m = Last(mirror)
      BY <1>0, <3>1, LastIsNewest
    <3>4. t.key <= m.key /\ m.key <= t.key /\ t.key \in Nat /\ m.key \in Nat
      BY <1>0, <2>1, <3>1, <3>2, <3>3, LastIsNewest, RcptFields DEF Onhand
    <3>5. t.key = m.key
      BY <3>4
    <3> QED
      BY <1>0, <3>1, <3>2, <3>3, <3>5, OrderedReceipts DEF Onhand
  <2>3. trail' # <<>> /\ Last(trail') = Last(trail) /\ Last(outFile'.rs) = Last(trail)
        /\ (outFile' = outFile \/ outFile'.rs = trail')
    BY <1>1, <2>1, <2>2 DEF Unwritten, Written
  <2>4. TailHeals(recFile', outFile')
    BY <1>0, <2>1, <2>3 DEF TailHeals
  <2> QED
    BY <1>0, <1>4, <2>3, <2>4 DEF TailOwed, HandKept
<1>5. \A r \in Receipts(mirror) : r.key \in Keys(trail') \/ Passed(r.key)'
  BY <1>0, <1>1, SaveEvicts
<1> QED
  BY <1>3, <1>4, <1>5

\* The record is tried again.
LEMMA RetryRecordClean ==
    ASSUME Base, Clean, NEW d \in Dispatchers, RetryRecord(d), NoneTaken, live # "granted", recOwed # None, ~Deciding,
           NEW persisted \in BOOLEAN, Records(recOwed, persisted), HandKept
    PROVE  /\ Blocked' \/ TailOwed'
           /\ recOwed' # None => recOwed'.dec # "granted"
<1>1. recOwed.dec # "granted" /\ (Blocked \/ TailOwed)
  BY DEF Clean, RestInv
<1>2. /\ outFile' = outFile /\ trail' = trail /\ preserve' = preserve
      /\ IF persisted THEN recFile' = Record(recOwed.dec, recOwed.at, recOwed.key) /\ recOwed' = None
                      ELSE recFile' = recFile /\ recOwed' = recOwed
  BY DEF Records
<1>3. All' = All
  BY <1>2 DEF All, Onhand, Filed
<1>4. CASE persisted
  BY <1>1, <1>2, <1>4, <1>3 DEF Record, Base, OwedInv, Blocked
<1>5. CASE ~persisted
  BY <1>2, <1>3, <1>5, <1>1 DEF Blocked, HeldFile, TailOwed, HandKept
<1> QED
  BY <1>4, <1>5

\* A receipt that joins the trail leaves every other one there, or behind it.
LEMMA AppendCarries ==
    ASSUME Base, NEW r \in Rcpt, \A t \in All : t.key < r.key /\ t.at < r.at, NEW ms, wit' \in SUBSET Nat,
           Unwritten(Append(trail, r), settled, ms) \/ Written(Append(trail, r), settled, ms)
    PROVE  /\ \A k \in Keys(trail) : k \in Keys(trail') \/ Passed(k)'
           /\ r.key \in Keys(trail') \/ Passed(r.key)'
<1>1. /\ Append(trail, r) \in Seq(Rcpt) /\ Ordered(Append(trail, r))
      /\ Receipts(Append(trail, r)) = Onhand \cup {r}
  BY AppendOrdered DEF Onhand, All, Base, KeptInv, TrailOrdered, TypeInv, OutboxTypes
<1>2. \A t \in Onhand \cup {r} : t.key \in Keys(trail') \/ Passed(t.key)'
  BY <1>1, SaveEvicts
<1> QED
  BY <1>2, AllTypes DEF Base, TypeInv

\* A pass leaves what is in force, and its owed work is done or kept.
LEMMA PassClean ==
    ASSUME Base, HandInv, Clean, NEW d \in Dispatchers, PassStep(d)
    PROVE  Clean'
<1>0. /\ Settles /\ UNCHANGED <<call, epoch, mine>> /\ up' = up /\ live' = live
      /\ wit \in SUBSET Nat /\ wit' \in SUBSET Nat
  <2>1. Settles
    BY PassSettles
  <2>4. UNCHANGED <<call, epoch, mine>>
    <3>1. CASE QuietPass(d)
      BY <3>1, QuietPassCore DEF CoreUnchanged
    <3>2. CASE RetryMint(d) \/ RetryPersist(d) \/ RetryRecord(d) \/ ReceiptSettled(d)
      BY <3>2 DEF RetryMint, RetryPersist, RetryRecord, ReceiptSettled, histVars
    <3> QED
      BY <3>1, <3>2 DEF PassStep, QuietPass
  <2>5. \A k \in wit \cup wit' : k \in Nat
    BY <2>1 DEF Settles, Base, TypeInv, OutboxTypes, CoreTypes
  <2> QED
    BY <2>1, <2>4, <2>5 DEF Settles
<1>1. /\ EpochInv' /\ OldInv' /\ InForce' /\ \A j : Waits(j)' <=> Waits(j)
      /\ \A n : Newest(n)' <=> Newest(n)
  BY <1>0, ForceKeeps DEF Clean
<1> SUFFICES NewestCarried' /\ RestInv'
  BY <1>1 DEF Clean
<1>2. ASSUME NoneTaken', live' # "granted"
      PROVE  /\ NoneTaken /\ live # "granted" /\ mintOwed = None /\ (recOwed # None => recOwed.dec # "granted")
             /\ Blocked \/ TailOwed
  BY <1>0, <1>1, <1>2 DEF NoneTaken, Clean, RestInv
<1>3. ASSUME \/ CoreUnchanged /\ (QuietPass(d) \/ HandKept)
      PROVE  NewestCarried' /\ RestInv'
  <2>1. NewestCarried'
    BY <1>0, <1>1, <1>3, CarriedKeeps DEF Clean, CoreUnchanged
  <2>2. ASSUME TailOwed PROVE TailOwed'
    <3>1. \A e \in Dispatchers : InHand(e)' => pass'[e].r.key # recOwed.key
      BY <2>2, <1>3, QuietHand DEF TailOwed, Held, DenyProofHeld, HandKept
    <3> QED
      BY <1>3, <2>2, <3>1 DEF TailOwed, CoreUnchanged
  <2>3. Blocked => Blocked'
    BY <1>3 DEF Blocked, HeldFile, CoreUnchanged, All, Onhand, Filed
  <2>4. RestInv'
    BY <1>2, <1>3, <2>2, <2>3 DEF RestInv, CoreUnchanged
  <2> QED
    BY <2>1, <2>4
<1>4. ASSUME NEW mirror, NEW done, Fits(mirror, done), Receipts(mirror) \subseteq Onhand, NEW ms \in SUBSET Nat,
             NEW ok \in BOOLEAN, saveLocked(FALSE, mirror, done, ms, ok), Shrinks, HandKept,
             TailOwed => Last(trail) \in Receipts(mirror),
             \A r \in Onhand : r \in Receipts(mirror) \/ r.key \in wit' \/ Passed(r.key)'
      PROVE  NewestCarried' /\ RestInv'
  <2>1. /\ Blocked => Blocked'
        /\ TailOwed => TailOwed'
        /\ \A r \in Receipts(mirror) : r.key \in Keys(trail') \/ Passed(r.key)'
    BY <1>4, SaveClean
  <2>2. \A k \in Keys(trail) : k \in Keys(trail') \/ k \in wit' \/ Passed(k)'
    BY <1>4, <2>1, AllTypes DEF Base, TypeInv
  <2>3. NewestCarried'
    BY <1>0, <1>1, <1>4, <2>2, CarriedKeeps DEF Clean, Shrinks, DecisionsUnchanged
  <2>4. RestInv'
    BY <1>2, <1>4, <2>1 DEF RestInv, Shrinks, DecisionsUnchanged
  <2> QED
    BY <2>3, <2>4
<1>h. RetryMint(d) \/ RetryPersist(d) \/ RetryRecord(d) => HandKept
  <2>1. pass \in [Dispatchers -> Pass]
    BY DEF Base, TypeInv, PassTypes
  <2> QED
    BY <2>1, ZenonT(60) DEF HandKept, InHand, RetryMint, RetryPersist, RetryRecord, PassTo, Pass
<1>5. CASE QuietPass(d)
  BY <1>3, <1>5, QuietPassCore
<1>6. CASE RetryMint(d) /\ ~CoreUnchanged
  <2>1. PICK r \in Rcpt : r = mintOwed /\ mintOwed # None /\ Appends(r) /\ mintOwed' = None
    BY <1>6, RetryMintPlain
  <2>2. PICK ms \in SUBSET Nat : \/ Unwritten(Append(trail, r), settled, ms)
                                 \/ Written(Append(trail, r), settled, ms)
    BY <1>6, <2>1, RetryMintPlain
  <2>3. \A t \in All : t.key < r.key /\ t.at < r.at
    BY <2>1 DEF Base, OwedInv
  <2>4. /\ \A k \in Keys(trail) : k \in Keys(trail') \/ Passed(k)'
        /\ r.key \in Keys(trail') \/ Passed(r.key)'
    BY <1>0, <2>2, <2>3, AppendCarries
  <2>5. \A k : k = r.key => Carried(k)'
    BY <2>4 DEF Carried
  <2>6. NewestCarried'
    BY <1>0, <1>1, <2>1, <2>4, <2>5, CarriedKeeps DEF Clean, Appends
  <2> QED
    BY <1>2, <2>1, <2>6 DEF RestInv
<1>7. CASE RetryPersist(d)
  <2>1. Shrinks /\ up
    BY <1>7, RetryPersistShrinks
  <2>2. CASE dirty
    <3>1. PICK ok \in BOOLEAN : saveLocked(FALSE, trail, settled, marks, ok)
      BY <1>7, <2>2 DEF RetryPersist
    <3>2. Fits(trail, settled) /\ Receipts(trail) = Onhand /\ marks \in SUBSET Nat
      BY <2>1, MirrorFits DEF Base, TypeInv, OutboxTypes, Onhand
    <3>3. TailOwed => Last(trail) \in Onhand
      BY LastIsNewest DEF TailOwed, Onhand, Base, TypeInv, OutboxTypes, KeptInv, TrailOrdered
    <3> QED
      BY <1>4, <1>7, <1>h, <2>1, <3>1, <3>2, <3>3
  <2>3. CASE ~dirty
    BY <1>3, <1>7, <1>h, <2>3 DEF RetryPersist, CoreUnchanged, outboxVars, owedVars, histVars, boundVars
  <2> QED
    BY <2>2, <2>3 DEF Base, TypeInv, OutboxTypes
<1>8. CASE RetryRecord(d) /\ ~CoreUnchanged
  <2>1. PICK persisted \in BOOLEAN : recOwed # None /\ ~Deciding /\ Records(recOwed, persisted)
    BY <1>8, RetryRecordPlain
  <2>2. NewestCarried'
    BY <1>0, <1>1, <2>1, CarriedKeeps DEF Clean, Records
  <2>3. RestInv'
    BY <1>2, <1>8, <1>h, <2>1, RetryRecordClean DEF RestInv, Records
  <2> QED
    BY <2>2, <2>3
<1>9. CASE ReceiptSettled(d) /\ ~CoreUnchanged
  <2>1. PICK k \in Nat : k = pass[d].r.key
    BY <1>9, SettledPlain
  <2>2. /\ HandKept /\ Shrinks /\ InHand(d)
        /\ Fits(Without(trail, {k}), settled \cup {k}) /\ marks \ {k} \in SUBSET Nat
        /\ Receipts(Without(trail, {k})) = {r \in Onhand : r.key # k}
    BY <1>9, <2>1, SettledPlain
  <2>3. PICK ok \in BOOLEAN : saveLocked(FALSE, Without(trail, {k}), settled \cup {k}, marks \ {k}, ok)
    BY <1>9, <2>1, SettledPlain
  <2>4. k \in wit' \/ Passed(k)'
    <3>1. wit \subseteq wit'
      BY <2>2 DEF Shrinks
    <3>2. k \in wit \/ ~Top(k)
      BY <2>1, <2>2 DEF HandInv
    <3> QED
      BY <1>0, <3>1, <3>2 DEF Top, Passed
  <2>5. TailOwed => Last(trail) \in Onhand /\ Last(trail).key # k
    BY <2>1, <2>2, LastIsNewest DEF TailOwed, Onhand, Base, TypeInv, OutboxTypes, KeptInv, TrailOrdered
  <2>6. \A r \in Onhand : r.key = k => r.key \in wit' \/ Passed(r.key)'
    BY <2>4
  <2>7. NewestCarried' /\ RestInv'
    BY <1>4, <2>2, <2>3, <2>5, <2>6
  <2> QED
    BY <2>7
<1>10. ReceiptSettled(d) => HandKept
  BY SettledPlain
<1> QED
  BY <1>3, <1>5, <1>6, <1>7, <1>8, <1>9, <1>10, <1>h DEF PassStep, QuietPass

\* A step that leaves the files and what is owed leaves a process at rest so.
LEMMA StillRests ==
    ASSUME RestInv, FilesUnchanged, live' = live, NoneTaken' => NoneTaken
    PROVE  RestInv'
<1>1. (Blocked => Blocked') /\ (TailOwed => TailOwed')
  BY DEF FilesUnchanged, passVars, Blocked, HeldFile, TailOwed, All, Onhand, Filed, InHand
<1> QED
  BY <1>1 DEF RestInv, FilesUnchanged

\* A decision's slow half: what is newest is in force and on its way to disk.
LEMMA DecisionClean ==
    ASSUME Base, LiveInv, Gate, Clean, NEW c \in Callers, DecisionStep(c)
    PROVE  Clean'
<1>k. PICK k \in Nat : call[c].key = k
  BY CallFields DEF Base
<1>0. ASSUME call[c].pc \in Middle, Settles, UNCHANGED <<epoch, mine>>, call'[c].pc # "turn",
             \A o \in Callers : o # c => call'[o] = call[o]
      PROVE  /\ EpochInv' /\ OldInv' /\ InForce' /\ RestInv' /\ k \in Handled /\ up' = up
             /\ \A n : Newest(n)' <=> Newest(n)
  <2>1. \A o \in Callers : call[o].pc = "turn" \/ call'[o].pc = "turn" => call'[o] = call[o]
    BY <1>0 DEF Middle
  <2>2. /\ EpochInv' /\ OldInv' /\ InForce' /\ \A j : Waits(j)' <=> Waits(j)
        /\ \A n : Newest(n)' <=> Newest(n)
    BY <1>0, <2>1, ForceKeeps DEF Clean
  <2>3. k \in Handled /\ k \in mine
    BY <1>0, <1>k, MiddleHandled DEF Base, KnownInv, Middle
  <2>4. RestInv'
    BY <1>0, <2>2, <2>3 DEF RestInv, NoneTaken, Handled
  <2> QED
    BY <1>0, <2>2, <2>3, <2>4 DEF Settles
<1>1. CASE MintReceipt(c)
  <2>1. PICK r \in Rcpt, minted \in BOOLEAN, ok \in BOOLEAN : Mints(c, r, minted, ok)
    BY <1>1, MintPlain
  <2>2. /\ call[c].pc = "mint" /\ r.key = k /\ call[c] \in Call /\ UNCHANGED <<epoch, mine>>
        /\ \A o \in Callers : o # c => call'[o] = call[o]
        /\ \A t \in All : t.key < r.key /\ t.at < r.at
    BY <1>1, <1>k, <2>1, CallFields DEF Mints, MintReceipt, Base
  <2>3. call'[c].pc # "turn"
    BY <2>1, <2>2 DEF Mints, Call
  <2>4. Settles
    BY <1>1, DecisionSettles DEF DecisionStep, BeginGrant, MyTurn, MintReceipt
  <2>5. /\ EpochInv' /\ OldInv' /\ InForce' /\ RestInv' /\ k \in Handled /\ up' = up
        /\ \A n : Newest(n)' <=> Newest(n)
    BY <1>0, <2>2, <2>3, <2>4 DEF Middle
  <2>6. \A n : Newest(n) /\ mintOwed # None => mintOwed.key # n
    BY <1>k, <2>2, RcptFields, <2>5 DEF Base, CallInv, MintOK, TypeInv, CoreTypes, Newest
  <2>7. \A o \in Callers : call[o].pc = "mint" => o = c
    BY <2>2 DEF Base, CallInv, Middle
  <2>8. wit \subseteq wit' /\ wit' \in SUBSET Nat
    BY <2>1, <2>4 DEF Mints, Appends, Settles, Base, TypeInv, OutboxTypes, CoreTypes
  <2>9. (\A j \in Keys(trail) : j \in Keys(trail') \/ Passed(j)') /\ Carried(k)'
    <3>1. CASE minted
      BY <2>1, <2>2, <2>8, <3>1, AppendCarries DEF Mints, Carried
    <3>2. CASE ~minted
      BY <2>1, <3>2, <2>2, RcptFields DEF Mints, outboxVars, Carried
    <3> QED
      BY <3>1, <3>2
  <2>10. NewestCarried'
    BY <1>k, <2>5, <2>6, <2>7, <2>8, <2>9, CarriedKeeps DEF Clean
  <2> QED
    BY <2>5, <2>10 DEF Clean
<1>2. CASE GrantRecord(c)
  <2>1. PICK r \in Rcpt, persisted \in BOOLEAN : GrantRecords(c, r, persisted)
    BY <1>2, GrantRecordPlain
  <2>2. /\ call[c].pc = "record" /\ call[c] \in Call /\ UNCHANGED <<epoch, mine>> /\ wit \subseteq wit'
        /\ trail' = trail /\ mintOwed' = mintOwed /\ \A o \in Callers : o # c => call'[o] = call[o]
    BY <2>1, CallFields DEF GrantRecords, Records, Base
  <2>3. call'[c].pc # "turn"
    BY <2>1, <2>2 DEF GrantRecords, Call
  <2>4. Settles
    BY <1>2, <2>2, DecisionSettles DEF DecisionStep, BeginGrant, MyTurn
  <2>5. /\ EpochInv' /\ OldInv' /\ InForce' /\ RestInv' /\ up' = up
        /\ \A n : Newest(n)' <=> Newest(n)
    BY <1>0, <2>2, <2>3, <2>4 DEF Middle
  <2>6. \A o \in Callers : call[o].pc = "mint" => call'[o] = call[o]
    BY <2>2
  <2> QED
    BY <2>2, <2>5, <2>6, CarriedKeeps DEF Clean
<1>3. CASE FinishDecision(c)
  <2>2. /\ call[c].pc = "mark" /\ UNCHANGED <<epoch, mine, trail, wit, mintOwed>> /\ call'[c].pc = "idle"
        /\ \A o \in Callers : o # c => call'[o] = call[o]
    BY <1>3, FinishPlain, IdleIsCall DEF FilesUnchanged
  <2>4. Settles
    BY <1>3, <2>2, DecisionSettles DEF DecisionStep, BeginGrant, MyTurn
  <2>5. /\ EpochInv' /\ OldInv' /\ InForce' /\ RestInv' /\ up' = up
        /\ \A n : Newest(n)' <=> Newest(n)
    BY <1>0, <2>2, <2>4 DEF Middle
  <2>6. \A o \in Callers : call[o].pc = "mint" => call'[o] = call[o]
    BY <2>2
  <2> QED
    BY <2>2, <2>5, <2>6, CarriedKeeps DEF Clean
<1>4. CASE BeginDenial(c)
  BY <1>4, DenialForce DEF Clean, NewestCarried, RestInv, NoneTaken
<1>5. CASE BeginGrant(c)
  <2>1. /\ FilesUnchanged /\ epoch' = epoch /\ call[c].pc = "turn" /\ \A o \in Callers : o # c => call'[o] = call[o]
    BY <1>5, BeginGrantPlain DEF MyTurn
  <2>2. EpochInv' /\ OldInv' /\ InForce'
    BY <1>5, GrantForce DEF Clean
  <2>3. CASE (\A n : Newest(n)' => call'[c].pc = "mint" /\ call'[c].key = n) /\ \E j \in mine' : ~Waits(j)'
    BY <2>2, <2>3 DEF Clean, NewestCarried, RestInv, NoneTaken
  <2>4. CASE /\ \A n : Newest(n)' <=> Newest(n)
             /\ live' = live /\ \A j \in mine : Waits(j) \/ (j \in mine' /\ ~Waits(j)')
    <3>1. \A o \in Callers : call[o].pc = "mint" => call'[o] = call[o]
      BY <2>1
    <3>2. NewestCarried'
      BY <2>1, <2>4, <3>1, CarriedKeeps DEF Clean, FilesUnchanged
    <3>3. NoneTaken' => NoneTaken
      BY <2>1, <2>4 DEF NoneTaken, FilesUnchanged
    <3>4. RestInv'
      BY <2>1, <2>4, <3>3, StillRests DEF Clean
    <3> QED
      BY <2>2, <3>2, <3>4 DEF Clean
  <2> QED
    BY <1>5, <2>3, <2>4, GrantForce DEF Clean
<1> QED
  BY <1>1, <1>2, <1>3, <1>4, <1>5 DEF DecisionStep

\* A decision is taken: a denial shuts the live state at once.
LEMMA DecideClean ==
    ASSUME Base, Clean, NEW c \in Callers, NEW dec \in Kinds, Decide(c, dec)
    PROVE  Clean'
<1>0. PICK k \in Nat : k = Len(kind) + 1
  BY DecidePlain
<1>1. /\ up /\ call[c].pc = "idle" /\ FilesUnchanged /\ ~Taken(k) /\ epoch \in Nat
      /\ live' = (IF dec = "granted" THEN live ELSE dec) /\ epoch' = (IF dec = "granted" THEN epoch ELSE epoch + 1)
      /\ (\A j : Taken(j) => j < k /\ kind'[j] = kind[j]) /\ kind'[k] = dec /\ mine' = mine \cup {k}
      /\ call'[c].pc = "turn" /\ call'[c].dec = dec /\ call'[c].key = k /\ call'[c].snap = epoch
      /\ \A o \in Callers : o # c => call'[o] = call[o]
  BY <1>0, DecidePlain DEF Base, TypeInv, CoreTypes
<1>2. /\ \A j \in wit \cup mine : j < k /\ kind'[j] = kind[j] /\ j # k
      /\ \A o \in Callers : call[o].pc # "idle" => o # c /\ call'[o] = call[o] /\ call[o].key < k
  BY <1>1 DEF Base, KnownInv
<1>3. UNCHANGED <<up, wit, trail, mintOwed, damage>> /\ wit \subseteq mine \cup wit
  BY <1>1 DEF FilesUnchanged
<1>4. \A j : Waits(j)' <=> Waits(j) \/ j = k
  BY <1>1, <1>2 DEF Waits
<1>5. Handled' = Handled /\ \A n : Newest(n)' <=> Newest(n)
  BY <1>1, <1>2, <1>3, <1>4 DEF Handled, Newest
<1>6. (DenialWaits => DenialWaits') /\ (dec # "granted" => DenialWaits')
  BY <1>1, <1>2 DEF DenialWaits
<1>7. EpochInv'
  <2>1. CASE dec = "granted"
    BY <1>1, <1>2, <2>1 DEF Clean, EpochInv
  <2>2. CASE dec # "granted"
    BY <1>1, <1>2, <2>2 DEF EpochInv
  <2> QED
    BY <2>1, <2>2
<1>8. OldInv'
  BY <1>1, <1>2, <1>3 DEF Clean, OldInv
<1>9. InForce'
  BY <1>1, <1>2, <1>3, <1>5, <1>6 DEF Handled, Clean, InForce, Newest
<1>10. NewestCarried'
  BY <1>2, <1>3, <1>5, CarriedKeeps DEF Clean
<1>11. RestInv'
  BY <1>1, <1>2, <1>4, StillRests DEF NoneTaken, Clean, RestInv
<1> QED
  BY <1>7, <1>8, <1>9, <1>10, <1>11 DEF Clean

\* A start: what it leaves on file and owed, when it takes up no grant.
LEMMA RestartRests ==
    ASSUME Base, AbsentInv, NEW healed \in BOOLEAN, NEW marked \in BOOLEAN, NEW wiped \in BOOLEAN,
           Restart(healed, marked, wiped), live' # "granted"
    PROVE  RestInv'
<1> DEFINE heals == TailHeals(recFile, outFile)
           rec == Resolved(recFile, outFile)
           t == Last(outFile.rs)
<1>0. /\ Restarts(rec) /\ All' = Filed /\ rec \in Rec /\ outFile' = outFile /\ trail' = outFile.rs /\ mintOwed' = None
      /\ \A d \in Dispatchers : ~InHand(d)'
      /\ RestoredState(recFile, outFile) # "granted"
      /\ \A r \in Filed : r.at \in Nat
      /\ Filed \in SUBSET Rcpt
  <2>1. Restarts(rec) /\ rec \in Rec
    BY RestartPlain, ResolvedIs
  <2>2. mintOwed = None /\ \A d \in Dispatchers : pass[d].pc = "idle"
    BY <2>1 DEF Restarts, Base, DownInv
  <2> QED
    BY <2>1, <2>2, AllTypes DEF Restarts, passVars, InHand, Base, TypeInv, All
<1>1. /\ ~heals => rec = recFile /\ recOwed' = None
      /\ heals => /\ t \in Filed /\ outFile.rs # <<>> /\ rec = Record(t.dec, t.at, t.key)
                  /\ rec.st = "ok" /\ rec.dec = t.dec /\ rec.at = t.at /\ rec.key = t.key /\ ~rec.unw
                  /\ \A r \in Filed : r.at <= t.at
                  /\ recOwed' = IF healed THEN None ELSE Owed(t.dec, t.at, t.key)
  BY ResolvedIs DEF Restart
<1>3. heals => ~Granted(t)
  <2> SUFFICES ASSUME heals, Granted(t) PROVE FALSE
    OBVIOUS
  <2>1. outFile.st # "bad" /\ rec.st = "ok" /\ rec.dec = "granted" /\ ~rec.unw
    BY <1>1 DEF TailHeals, Granted
  <2> QED
    BY <1>0, <2>1 DEF RestoredState, GrantsUnprovable
<1>2. \/ recFile' = recFile /\ (heals => ~healed)
      \/ recFile' = rec /\ heals
      \/ \E at \in Nat : recFile' = Unwitnessed(rec, at) /\ rec.st = "ok" /\ \A r \in Filed : r.at <= at
  <2>1. ASSUME heals, healed, recFile' = recFile
        PROVE  recFile' = rec
    <3>1. recFile' = rec \/ \E at : recFile' = Unwitnessed(rec, at)
      BY <2>1 DEF Restart
    <3>2. ASSUME NEW at, recFile' = Unwitnessed(rec, at) PROVE FALSE
      <4>1. recFile.st = "ok" /\ recFile.at = t.at
        BY <1>0, <1>1, <1>3, <2>1, <3>2, ZenonT(60) DEF Unwitnessed, Rec, Granted
      <4> QED
        BY <1>0, <1>1, <2>1, <4>1 DEF TailHeals
    <3> QED
      BY <3>1, <3>2
  <2> QED
    BY <1>0, <2>1 DEF Restarts
<1> HIDE DEF heals, rec, t
<1>4. ASSUME NEW at \in Nat, recFile' = Unwitnessed(rec, at), rec.st = "ok", \A r \in Filed : r.at <= at
      PROVE  Blocked'
  <2>1. recFile'.st = "ok" /\ recFile'.unw = TRUE /\ recFile'.unwAt = at
    BY <1>0, <1>4, UnwitnessedIs
  <2> QED
    BY <1>0, <1>4, <2>1 DEF Blocked
<1>5. CASE heals
  <2>1. CASE recFile' = rec
    BY <1>0, <1>1, <1>3, <1>5, <2>1 DEF Blocked, RestInv, Owed, Granted
  <2>2. CASE recFile' = recFile /\ ~healed
    <3>1. recOwed' = Owed(t.dec, t.at, t.key) /\ t \in Rcpt
      BY <1>0, <1>1, <1>5, <2>2
    <3>2. recOwed' # None /\ recOwed'.dec # "granted" /\ recOwed'.key = t.key
      <4>1. /\ Owed(t.dec, t.at, t.key) # None /\ Owed(t.dec, t.at, t.key).dec = t.dec
            /\ Owed(t.dec, t.at, t.key).key = t.key
        <5>1. PICK q \in Rcpt : q = t
          BY <3>1
        <5>2. Owed(q.dec, q.at, q.key) # None /\ Owed(q.dec, q.at, q.key).dec = q.dec /\ Owed(q.dec, q.at, q.key).key = q.key
          BY RcptFields, NewRcpt DEF Owed
        <5> QED
          BY <5>1, <5>2
      <4> QED
        BY <1>3, <1>5, <3>1, <4>1 DEF Granted
    <3>3. TailOwed'
      BY <1>0, <1>1, <1>3, <1>5, <2>2, <3>2 DEF TailOwed, t, heals
    <3> QED
      BY <1>0, <3>2, <3>3 DEF RestInv
  <2>3. recOwed' # None => recOwed'.dec # "granted"
    BY <1>1, <1>3, <1>5 DEF Owed, Granted
  <2> QED
    BY <1>0, <1>2, <1>4, <1>5, <2>1, <2>2, <2>3 DEF RestInv
<1>6. CASE ~heals
  <2>1. CASE recFile' = recFile
    <3>1. outFile.st = "bad" => HeldFile' \/ (recFile.st = "ok" /\ recFile.unw /\ \A r \in Filed : r.at <= recFile.unwAt)
      BY <1>0, <2>1, RestartProof DEF HeldFile
    <3>2. recFile.st = "ok" /\ recFile.dec = "granted" => recFile.unw \/ HeldFile'
      BY <1>1, <1>6, <1>0, <3>1 DEF rec, RestoredState, GrantsUnprovable
    <3>3. ASSUME NEW r \in Filed, Granted(r)
          PROVE  \/ recFile.st = "bad" \/ HeldFile' \/ (recFile.unw /\ r.at <= recFile.unwAt)
                 \/ recFile.st = "ok" /\ (recFile.dec = "minor" \/ r.at <= recFile.at)
      <4>1. CASE outFile.st = "bad"
        BY <3>1, <4>1
      <4>2. CASE outFile.st # "bad"
        <5>1. outFile.rs # <<>> /\ outFile.st = "ok" /\ t \in Filed /\ r.at <= t.at
          BY <4>2, <3>3, EmptyTrail, LastIsNewest DEF Filed, AbsentInv, Base, TypeInv, OutboxTypes, KeptInv, TrailOrdered, t
        <5>2. recFile.at \in Nat /\ recFile.unwAt \in Nat /\ r.at \in Nat /\ t.at \in Nat
          BY <1>0, <5>1, RecFields DEF Base
        <5>3. \/ recFile.st = "ok" /\ recFile.dec = "minor"
              \/ recFile.st = "bad"
              \/ recFile.unw /\ ~(t.at > recFile.unwAt)
              \/ recFile.st = "ok" /\ ~(t.at > recFile.at)
          BY <1>6, <5>1 DEF heals, TailHeals, MarkSupersededBy, t
        <5> QED
          BY <5>1, <5>2, <5>3
      <4> QED
        BY <4>1, <4>2
    <3>4. Blocked'
      BY <1>0, <2>1, <3>2, <3>3 DEF Blocked
    <3> QED
      BY <1>0, <1>1, <1>6, <3>4 DEF RestInv
  <2> QED
    BY <1>0, <1>1, <1>2, <1>4, <1>6, <2>1 DEF RestInv
<1> QED
  BY <1>5, <1>6

LEMMA RestartClean ==
    ASSUME Floor, MinorInv, PairInv, Undec, Clean, NEW healed \in BOOLEAN, NEW marked \in BOOLEAN, NEW wiped \in BOOLEAN,
           Restart(healed, marked, wiped)
    PROVE  Clean'
<1>1. /\ Base /\ mine' = {} /\ epoch' = 0 /\ wit' = wit /\ kind' = kind /\ damage' = damage
      /\ live' = RestoredState(recFile, outFile) /\ \A c \in Callers : call'[c].pc = "idle"
  BY RestartPlain DEF Restarts, Floor, GoneInv, Undec, UndecInv, Base, DownInv
<1>2. Handled' = wit /\ \A n : Newest(n)' => n \in wit /\ Top(n)
  BY <1>1 DEF Handled, Waits, Newest, Top
<1>3. EpochInv' /\ OldInv' /\ NewestCarried'
  BY <1>1, <1>2 DEF EpochInv, OldInv, NewestCarried, Carried
<1>4. InForce'
  BY <1>1, <1>2, NewestRestored, NoneRestored DEF InForce
<1>5. live' # "granted" => RestInv'
  BY <1>1, RestartRests DEF Undec
<1> QED
  BY <1>3, <1>4, <1>5 DEF Clean, RestInv

LEMMA NextClean == Floor /\ MinorInv /\ PairInv /\ Undec /\ Gate /\ Clean /\ [Next]_vars => Clean'
<1> SUFFICES ASSUME Floor, MinorInv, PairInv, Undec, Gate, Clean, [Next]_vars PROVE Clean'
  OBVIOUS
<1>0. Base /\ HandInv /\ LiveInv /\ GoneInv
  BY DEF Floor, Denials
<1>1. CASE UNCHANGED vars \/ DeferralElapses
  <2>1. CoreUnchanged /\ UNCHANGED pass
    BY <1>1 DEF vars, DeferralElapses, CoreUnchanged, diskVars, outboxVars, owedVars, passVars, histVars, boundVars
  <2> QED
    BY <2>1 DEF CoreUnchanged, Clean, EpochInv, OldInv, InForce, NewestCarried, RestInv, DenialWaits, Newest, Handled, Waits, Carried,
          Passed, NoneTaken, Blocked, HeldFile, TailOwed, All, Onhand, Filed, InHand
<1>2. CASE Crash \/ DamageFile
  <2>1. ~up' /\ mine' = {} /\ epoch' = 0 /\ \A c \in Callers : call'[c].pc = "idle"
    BY <1>0, <1>2 DEF Crash, IdleCall, DamageFile, histVars, GoneInv, Undec, UndecInv, Base, DownInv
  <2> QED
    BY <2>1 DEF Clean, EpochInv, OldInv, InForce, NewestCarried, RestInv, NoneTaken
<1> QED
  BY <1>0, <1>1, <1>2, PassClean, DecisionClean, DecideClean, RestartClean DEF Next

LEMMA InitClean == Init => Clean
<1> SUFFICES ASSUME Init PROVE Clean
  OBVIOUS
<1>1. /\ live = "undecided" /\ epoch = 0 /\ recOwed = None /\ mintOwed = None /\ wit = {} /\ mine = {}
      /\ recFile = AbsentRecord /\ outFile = AbsentTrail /\ trail = <<>> /\ call = [c \in Callers |-> IdleCall]
  BY DEF Init
<1>2. (\A c \in Callers : call[c].pc = "idle") /\ All = {} /\ recFile.st = "absent" /\ Handled = {}
  BY <1>1, EmptyTrail DEF IdleCall, All, Onhand, Filed, AbsentTrail, AbsentRecord, Handled
<1> QED
  BY <1>1, <1>2 DEF Clean, EpochInv, OldInv, InForce, NewestCarried, RestInv, Newest, Blocked

\* A close that reports success has said the truth: the files restore what is
\* in force, and after a file was damaged they restore no grant unless one is
\* (consentOutboxCloseVerdict).
THEOREM CleanCloseIsKept == Spec => []CleanCloseRestores
<1>1. Init => MinorInv
  BY DEF Init, MinorInv
<1> QED
  BY InitFloor, NextFloor, NextMinor, InitPair, NextPair, InitUndec, NextUndec, InitGate, NextGate, InitClean, NextClean,
     CleanSafe, <1>1, PTL DEF Spec

=============================================================================
