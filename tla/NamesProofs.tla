---------------------------- MODULE NamesProofs ----------------------------
(***************************************************************************)
(* Proofs about Names, for every choice of sources.                        *)
(***************************************************************************)
EXTENDS Names, FiniteSetTheorems, SequenceTheorems, TLAPS

-----------------------------------------------------------------------------
(* Sets of numbers: extrema, and the lists of their members in order.      *)

LEMMA MinIs ==
  ASSUME NEW S \in SUBSET Nat, S # {}
  PROVE  Min(S) \in S /\ \A y \in S : Min(S) <= y
<1>1. \E x \in S : \A y \in S : <<y, x>> \notin OpToRel(<, Nat)
  BY NatLessThanWellFounded, WFMin
<1>2. \E x \in S : \A y \in S : ~(y < x)
  BY <1>1 DEF OpToRel
<1>3. \E x \in S : \A y \in S : x <= y
  BY <1>2
<1>4. QED
  BY <1>3 DEF Min

(* The largest of numbers up to n is the one farthest from the end.        *)
LEMMA MaxIs ==
  ASSUME NEW n \in Nat, NEW S \in SUBSET (0..n), S # {}
  PROVE  Max(S) \in S /\ \A y \in S : y <= Max(S)
<1> DEFINE T == {n - x : x \in S}
<1>1. T \in SUBSET Nat /\ T # {}
  <2>1. \A x \in S : x \in 0..n
    OBVIOUS
  <2>2. \A x \in S : n - x \in Nat
    BY <2>1
  <2>3. QED
    BY <2>2
<1>2. PICK y \in T : \A z \in T : y <= z
  BY <1>1, MinIs
<1>3. PICK x \in S : y = n - x
  OBVIOUS
<1>4. \A z \in S : n - x <= n - z
  BY <1>2, <1>3
<1>5. \A z \in S : z <= x
  BY <1>4
<1>6. \E w \in S : \A z \in S : w >= z
  BY <1>5
<1>7. QED
  BY <1>6 DEF Max

(* A finite set of numbers can be listed in increasing order: the k-th is  *)
(* the one with k members up to it.                                        *)
LEMMA ListExists ==
  ASSUME NEW S \in SUBSET Nat, IsFiniteSet(S)
  PROVE  LET n == Cardinality(S)
         IN  \E s \in [1..n -> S] : \A j, k \in 1..n : j < k => s[j] < s[k]
<1> DEFINE n == Cardinality(S)
           upTo(x) == {y \in S : y <= x}
           r == [x \in S |-> Cardinality(upTo(x))]
<1>0. n \in Nat /\ \A x \in S : x \in Nat
  BY FS_CardinalityType
<1>1. ASSUME NEW x \in S
      PROVE  /\ IsFiniteSet(upTo(x)) /\ Cardinality(upTo(x)) \in 1..n
  <2>1. upTo(x) \in SUBSET S
    OBVIOUS
  <2>2. IsFiniteSet(upTo(x)) /\ Cardinality(upTo(x)) <= n /\ Cardinality(upTo(x)) \in Nat
    BY <2>1, FS_Subset, FS_CardinalityType
  <2>3. upTo(x) # {}
    BY <1>0
  <2>4. Cardinality(upTo(x)) # 0
    BY <2>2, <2>3, FS_EmptySet
  <2> HIDE DEF upTo
  <2>5. QED
    BY <1>0, <2>2, <2>4
<1>2. ASSUME NEW a \in S, NEW b \in S, a < b
      PROVE  r[a] < r[b]
  <2>1. upTo(a) \in SUBSET upTo(b) /\ b \in upTo(b) /\ b \notin upTo(a)
    <3>1. a \in Nat /\ b \in Nat /\ ~(b <= a) /\ b <= b
      BY <1>0, <1>2
    <3>2. \A y \in S : y <= a => y <= b
      BY <1>0, <1>2, <3>1
    <3>3. QED
      BY <3>1, <3>2
  <2>2. Cardinality(upTo(a)) <= Cardinality(upTo(b)) /\ Cardinality(upTo(a)) # Cardinality(upTo(b))
    BY <1>1, <2>1, FS_Subset
  <2>3. Cardinality(upTo(a)) \in Int /\ Cardinality(upTo(b)) \in Int
    BY <1>1
  <2>4. QED
    BY <2>2, <2>3
<1>3. r \in [S -> 1..n]
  BY <1>1
<1> HIDE DEF n, r
<1>4. r \in Surjection(S, 1..n)
  <2>1. ASSUME NEW a \in S, NEW b \in S, r[a] = r[b] PROVE a = b
    <3>1. ~(a < b) /\ ~(b < a)
      BY <1>2, <1>3, <2>1
    <3>2. QED
      BY <1>0, <3>1
  <2>2. r \in Injection(S, 1..n)
    BY <1>3, <2>1 DEF Injection, IsInjective
  <2>3. IsFiniteSet(1..n) /\ Cardinality(1..n) = n
    BY <1>0, FS_Interval
  <2>4. QED
    BY <2>2, <2>3, FS_Injection DEF n
<1>5. \A k \in 1..n : \E x \in S : r[x] = k
  BY <1>4 DEF Surjection
<1> DEFINE s == [k \in 1..n |-> CHOOSE x \in S : r[x] = k]
<1>6. \A k \in 1..n : s[k] \in S /\ r[s[k]] = k
  BY <1>5
<1>7. s \in [1..n -> S]
  BY <1>6
<1> HIDE DEF s
<1>8. ASSUME NEW j \in 1..n, NEW k \in 1..n, j < k PROVE s[j] < s[k]
  <2>1. s[j] \in S /\ s[k] \in S /\ r[s[j]] = j /\ r[s[k]] = k
    BY <1>6
  <2>2. s[j] # s[k] /\ ~(s[k] < s[j])
    <3>1. ~(r[s[k]] < r[s[j]]) /\ r[s[j]] # r[s[k]]
      BY <1>8, <2>1
    <3>2. QED
      BY <1>2, <2>1, <3>1
  <2>3. s[j] \in Nat /\ s[k] \in Nat
    BY <1>0, <2>1
  <2>4. QED
    BY <2>2, <2>3
<1>9. QED
  BY <1>7, <1>8 DEF n

(* s lists S: in increasing order, each member once.                       *)
Lists(s, S, n) ==
  /\ n \in Nat /\ s \in [1..n -> S] /\ s \in Seq(S) /\ Len(s) = n
  /\ \A j, k \in 1..n : j < k => s[j] < s[k]
  /\ \A j, k \in 1..n : s[j] = s[k] => j = k
  /\ \A x \in S : \E k \in 1..n : s[k] = x

LEMMA InOrderLists ==
  ASSUME NEW S \in SUBSET Nat, IsFiniteSet(S)
  PROVE  Lists(InOrder(S), S, Cardinality(S))
<1> DEFINE n == Cardinality(S)
           s == InOrder(S)
<1>1. n \in Nat
  BY FS_CardinalityType
<1>2. s \in [1..n -> S] /\ \A j, k \in 1..n : j < k => s[j] < s[k]
  BY ListExists DEF InOrder
<1> HIDE DEF n, s
<1>3. s \in Seq(S) /\ Len(s) = n
  BY <1>1, <1>2, SeqDef
<1>4. \A j, k \in 1..n : s[j] = s[k] => j = k
  <2> SUFFICES ASSUME NEW j \in 1..n, NEW k \in 1..n, s[j] = s[k] PROVE j = k
    OBVIOUS
  <2>0. \A x \in S : x \in Nat
    OBVIOUS
  <2>1. s[j] \in Nat /\ s[k] \in Nat
    BY <1>2, <2>0
  <2>2. ~(j < k) /\ ~(k < j)
    BY <1>2, <2>1
  <2>3. QED
    BY <2>2
<1>5. s \in Surjection(1..n, S)
  <2>1. s \in Injection(1..n, S)
    BY <1>2, <1>4 DEF Injection, IsInjective
  <2>2. IsFiniteSet(1..n) /\ Cardinality(1..n) = n
    BY <1>1, FS_Interval
  <2>3. QED
    BY <2>1, <2>2, FS_Injection DEF n
<1>6. \A x \in S : \E k \in 1..n : s[k] = x
  BY <1>5 DEF Surjection
<1>7. QED
  BY <1>1, <1>2, <1>3, <1>4, <1>6 DEF Lists, n, s

(* There is one such list: where two first differ, the smaller of the two  *)
(* entries is missing from the other list.                                 *)
LEMMA NoFirstDifference ==
  ASSUME NEW S \in SUBSET Nat, NEW n, NEW s, NEW t, Lists(s, S, n), Lists(t, S, n),
         NEW k \in 1..n, \A j \in 1..(k - 1) : s[j] = t[j]
  PROVE  ~(s[k] < t[k])
<1> SUFFICES ASSUME s[k] < t[k] PROVE FALSE
  OBVIOUS
<1>0. \A x \in S : x \in Nat
  OBVIOUS
<1>1. n \in Nat /\ k \in Nat /\ s[k] \in S /\ s[k] \in Nat /\ t[k] \in Nat
  <2>1. n \in Nat /\ s \in [1..n -> S] /\ t \in [1..n -> S]
    BY DEF Lists
  <2>2. s[k] \in S /\ t[k] \in S
    BY <2>1
  <2>3. s[k] \in Nat /\ t[k] \in Nat
    BY <1>0, <2>2
  <2>4. k \in Nat
    BY <2>1
  <2>5. QED
    BY <2>1, <2>2, <2>3, <2>4
<1>2. PICK j \in 1..n : t[j] = s[k]
  BY <1>1 DEF Lists
<1>3. j \in Nat
  BY <1>1
<1>4. CASE j < k
  <2>1. j \in 1..(k - 1)
    BY <1>1, <1>3, <1>4
  <2>2. s[j] = s[k]
    BY <1>2, <2>1
  <2>3. QED
    BY <1>1, <1>4, <2>2 DEF Lists
<1>5. CASE j = k
  BY <1>1, <1>2, <1>5
<1>6. CASE k < j
  <2>1. t[k] < t[j]
    BY <1>6 DEF Lists
  <2>2. QED
    BY <1>1, <1>2, <2>1
<1>7. QED
  BY <1>1, <1>3, <1>4, <1>5, <1>6

LEMMA OneList ==
  ASSUME NEW S \in SUBSET Nat, NEW n, NEW s, NEW t, Lists(s, S, n), Lists(t, S, n)
  PROVE  s = t
<1> SUFFICES ASSUME s # t PROVE FALSE
  OBVIOUS
<1> DEFINE D == {k \in 1..n : s[k] # t[k]}
           k == Min(D)
<1>1. n \in Nat /\ s \in [1..n -> S] /\ t \in [1..n -> S]
  BY DEF Lists
<1>2. D # {}
  BY <1>1
<1>3. D \in SUBSET Nat
  OBVIOUS
<1>4. k \in D /\ \A j \in D : k <= j
  BY <1>2, <1>3, MinIs
<1> HIDE DEF k
<1>5. k \in 1..n /\ s[k] # t[k]
  BY <1>4
<1>6. \A j \in 1..(k - 1) : j \in 1..n /\ ~(k <= j)
  BY <1>1, <1>5
<1>7. \A j \in 1..(k - 1) : s[j] = t[j]
  BY <1>4, <1>6
<1>8. ~(s[k] < t[k]) /\ ~(t[k] < s[k])
  BY <1>5, <1>7, NoFirstDifference
<1>9. \A x \in S : x \in Nat
  OBVIOUS
<1>10. s[k] \in Nat /\ t[k] \in Nat
  BY <1>1, <1>5, <1>9
<1>11. QED
  BY <1>5, <1>8, <1>10

LEMMA InOrderAppend ==
  ASSUME NEW S \in SUBSET Nat, IsFiniteSet(S), NEW x \in Nat, \A y \in S : y < x
  PROVE  InOrder(S \cup {x}) = Append(InOrder(S), x)
<1> DEFINE n == Cardinality(S)
           s == InOrder(S)
           t == Append(s, x)
           T == S \cup {x}
<1>1. Lists(s, S, n)
  BY InOrderLists
<1>2. T \in SUBSET Nat /\ IsFiniteSet(T) /\ Cardinality(T) = n + 1
  BY FS_AddElement
<1>3. Lists(InOrder(T), T, n + 1)
  BY <1>2, InOrderLists
<1> HIDE DEF s, n
<1>4. Lists(t, T, n + 1)
  <2>1. n \in Nat /\ s \in Seq(T) /\ Len(s) = n /\ s \in [1..n -> S]
    BY <1>1 DEF Lists
  <2>2. /\ t \in Seq(T) /\ Len(t) = n + 1 /\ t[n + 1] = x
        /\ \A k \in 1..n : t[k] = s[k]
    BY <2>1, AppendProperties
  <2>3. t \in [1..(n + 1) -> T]
    BY <2>1, <2>2, LenProperties
  <2>4. \A k \in 1..(n + 1) : k \in 1..n \/ k = n + 1
    BY <2>1
  <2>5. \A k \in 1..n : t[k] \in S /\ t[k] < x /\ t[k] # x /\ k \in 1..(n + 1) /\ k # n + 1
    <3>1. \A y \in S : y < x /\ y # x
      OBVIOUS
    <3>2. \A k \in 1..n : s[k] \in S
      BY <2>1
    <3>3. \A k \in 1..n : k \in 1..(n + 1) /\ k # n + 1
      BY <2>1
    <3>4. QED
      BY <2>2, <3>1, <3>2, <3>3
  <2> HIDE DEF t
  <2>6. ASSUME NEW j \in 1..(n + 1), NEW k \in 1..(n + 1), j < k PROVE t[j] < t[k]
    <3>1. j \in 1..n
      BY <2>1, <2>6
    <3>2. CASE k = n + 1
      BY <2>2, <2>5, <3>1, <3>2
    <3>3. CASE k \in 1..n
      BY <1>1, <2>2, <2>6, <3>1, <3>3 DEF Lists
    <3>4. QED
      BY <2>4, <3>2, <3>3
  <2>7. ASSUME NEW j \in 1..(n + 1), NEW k \in 1..(n + 1), t[j] = t[k] PROVE j = k
    BY <1>1, <2>2, <2>4, <2>5, <2>7 DEF Lists
  <2>8. ASSUME NEW y \in T PROVE \E k \in 1..(n + 1) : t[k] = y
    <3>1. CASE y = x
      <4>1. n + 1 \in 1..(n + 1)
        BY <2>1
      <4>2. QED
        BY <2>2, <3>1, <4>1
    <3>2. CASE y \in S
      <4>1. PICK k \in 1..n : s[k] = y
        BY <1>1, <3>2 DEF Lists
      <4>2. QED
        BY <2>2, <2>5, <4>1
    <3>3. QED
      BY <3>1, <3>2
  <2>9. n + 1 \in Nat
    BY <2>1
  <2>10. QED
    BY <2>2, <2>3, <2>6, <2>7, <2>8, <2>9 DEF Lists
<1>5. QED
  BY <1>2, <1>3, <1>4, OneList DEF s

LEMMA InOrderNone == InOrder({}) = <<>>
<1>1. {} \in SUBSET Nat /\ IsFiniteSet({}) /\ Cardinality({}) = 0
  BY FS_EmptySet
<1>2. Lists(InOrder({}), {}, 0)
  BY <1>1, InOrderLists
<1>3. QED
  BY <1>2, EmptySeq DEF Lists
-----------------------------------------------------------------------------
(* Texts: how deep in messages the positions are.                          *)

LEMMA CountFinite ==
  ASSUME NEW text, NEW kind, NEW a \in Int, NEW b \in Int
  PROVE  IsFiniteSet({q \in a..b : text[q].is = kind})
<1> DEFINE S == {q \in a..b : text[q].is = kind}
<1>1. IsFiniteSet(a..b) /\ S \in SUBSET (a..b)
  BY FS_Interval
<1>2. QED
  BY <1>1, FS_Subset

LEMMA CountType ==
  ASSUME NEW text, NEW kind, NEW a \in Int, NEW b \in Int
  PROVE  Count(text, kind, a, b) \in Nat
BY CountFinite, FS_CardinalityType DEF Count

LEMMA CountSplit ==
  ASSUME NEW text, NEW kind, NEW a \in Int, NEW b \in Int, NEW c \in Int, a <= b + 1, b <= c
  PROVE  Count(text, kind, a, c) = Count(text, kind, a, b) + Count(text, kind, b + 1, c)
<1> DEFINE S(x, y) == {q \in x..y : text[q].is = kind}
<1>1. S(a, c) = S(a, b) \cup S(b + 1, c)
  <2>1. \A q : q \in a..c <=> q \in a..b \/ q \in (b + 1)..c
    OBVIOUS
  <2>2. QED
    BY <2>1
<1>2. S(a, b) \cap S(b + 1, c) = {}
  OBVIOUS
<1>3. IsFiniteSet(S(a, b)) /\ IsFiniteSet(S(b + 1, c))
  <2>1. IsFiniteSet(a..b) /\ IsFiniteSet((b + 1)..c)
    BY FS_Interval
  <2>2. S(a, b) \in SUBSET (a..b) /\ S(b + 1, c) \in SUBSET ((b + 1)..c)
    OBVIOUS
  <2>3. QED
    BY <2>1, <2>2, FS_Subset
<1>4. Cardinality(S(a, b)) \in Nat /\ Cardinality(S(b + 1, c)) \in Nat
  BY <1>3, FS_CardinalityType
<1> HIDE DEF S
<1>5. Cardinality(S(a, c)) = Cardinality(S(a, b)) + Cardinality(S(b + 1, c)) - Cardinality({})
  BY <1>1, <1>2, <1>3, FS_Union
<1>6. Cardinality(S(a, c)) = Cardinality(S(a, b)) + Cardinality(S(b + 1, c))
  BY <1>4, <1>5, FS_EmptySet
<1>7. QED
  BY <1>6 DEF Count, S

LEMMA CountOne ==
  ASSUME NEW text, NEW kind, NEW a \in Int
  PROVE  Count(text, kind, a, a) = IF text[a].is = kind THEN 1 ELSE 0
<1> DEFINE S == {q \in a..a : text[q].is = kind}
<1>1. CASE text[a].is = kind
  <2>1. S = {a}
    BY <1>1
  <2>2. QED
    BY <1>1, <2>1, FS_Singleton DEF Count
<1>2. CASE text[a].is # kind
  <2>1. S = {}
    BY <1>2
  <2>2. QED
    BY <1>2, <2>1, FS_EmptySet DEF Count
<1>3. QED
  BY <1>1, <1>2

(* By how much the messages opened in a..b outnumber those closed there.   *)
Depth(text, a, b) == Count(text, "message", a, b) - Count(text, "end", a, b)

LEMMA DepthType ==
  ASSUME NEW text, NEW a \in Int, NEW b \in Int
  PROVE  Depth(text, a, b) \in Int
BY CountType DEF Depth

LEMMA DepthSplit ==
  ASSUME NEW text, NEW a \in Int, NEW b \in Int, NEW c \in Int, a <= b + 1, b <= c
  PROVE  Depth(text, a, c) = Depth(text, a, b) + Depth(text, b + 1, c)
<1>1. \A kind : /\ Count(text, kind, a, b) \in Int /\ Count(text, kind, b + 1, c) \in Int
                /\ Count(text, kind, a, c) = Count(text, kind, a, b) + Count(text, kind, b + 1, c)
  <2>1. b + 1 \in Int
    OBVIOUS
  <2>2. QED
    BY <2>1, CountType, CountSplit
<1>2. QED
  BY <1>1 DEF Depth

LEMMA DepthOne ==
  ASSUME NEW text, NEW a \in Int
  PROVE  Depth(text, a, a) = IF text[a].is = "message" THEN 1
                             ELSE IF text[a].is = "end" THEN -1 ELSE 0
BY CountOne DEF Depth

LEMMA DepthNext ==
  ASSUME NEW text, NEW a \in Int, NEW p \in Int, a <= p
  PROVE  Depth(text, a, p) = Depth(text, a, p - 1) + Depth(text, p, p)
<1>1. a <= (p - 1) + 1 /\ p - 1 <= p /\ p - 1 \in Int /\ (p - 1) + 1 = p
  OBVIOUS
<1>2. QED
  BY <1>1, DepthSplit

LEMMA OpenIff ==
  ASSUME NEW text, NEW p \in Nat, NEW a
  PROVE  a \in OpenAt(text, p) <=>
           /\ a \in 1..(p - 1) /\ text[a].is = "message"
           /\ \A b \in a..(p - 1) : Depth(text, a, b) > 0
<1>1. ASSUME NEW x \in Int, NEW b \in Int
      PROVE  Count(text, "message", x, b) > Count(text, "end", x, b) <=> Depth(text, x, b) > 0
  <2>1. Count(text, "message", x, b) \in Int /\ Count(text, "end", x, b) \in Int
    BY CountType
  <2>2. QED
    BY <2>1 DEF Depth
<1>2. QED
  BY <1>1 DEF OpenAt

LEMMA OpenSubset ==
  ASSUME NEW text, NEW p \in Nat
  PROVE  /\ OpenAt(text, p) \in SUBSET Nat /\ IsFiniteSet(OpenAt(text, p))
         /\ \A a \in OpenAt(text, p) : a \in Nat /\ 1 <= a /\ a < p
<1>1. OpenAt(text, p) \in SUBSET (1..(p - 1))
  BY DEF OpenAt
<1>2. IsFiniteSet(1..(p - 1))
  BY FS_Interval
<1>3. \A a \in 1..(p - 1) : a \in Nat /\ 1 <= a /\ a < p
  OBVIOUS
<1>4. QED
  BY <1>1, <1>2, <1>3, FS_Subset

LEMMA AroundIs ==
  ASSUME NEW text, NEW p \in Nat
  PROVE  /\ Around(text, p) \in OpenAt(text, p) \cup {0}
         /\ Around(text, p) = 0 <=> OpenAt(text, p) = {}
         /\ \A a \in OpenAt(text, p) : a <= Around(text, p)
<1> DEFINE S == OpenAt(text, p) \cup {0}
<1>1. S \in SUBSET (0..p) /\ S # {}
  BY OpenSubset
<1>2. Max(S) \in S /\ \A y \in S : y <= Max(S)
  BY <1>1, MaxIs
<1>3. Around(text, p) = Max(S)
  BY DEF Around, None
<1> HIDE DEF S
<1>4. Around(text, p) \in S /\ \A y \in S : y <= Around(text, p)
  BY <1>2, <1>3
<1>5. \A a \in OpenAt(text, p) : a \in Nat /\ 1 <= a
  BY OpenSubset
<1>6. QED
  BY <1>4, <1>5 DEF S

(* In the innermost message around p no other is open before p.            *)
LEMMA InnermostDepth ==
  ASSUME NEW text, NEW p \in Nat, OpenAt(text, p) # {}
  PROVE  Depth(text, Around(text, p), p - 1) = 1
<1> DEFINE a == Around(text, p)
<1>1. /\ a \in OpenAt(text, p) /\ a \in Nat /\ 1 <= a /\ a < p
      /\ \A c \in OpenAt(text, p) : c <= a
  BY AroundIs, OpenSubset
<1>2. text[a].is = "message" /\ \A b \in a..(p - 1) : Depth(text, a, b) > 0
  BY <1>1, OpenIff
<1> HIDE DEF a
<1>3. \A b \in Int : Depth(text, a, b) \in Int
  BY <1>1, DepthType
<1>4. SUFFICES ASSUME Depth(text, a, p - 1) > 1 PROVE FALSE
  <2>1. p - 1 \in a..(p - 1)
    BY <1>1
  <2>2. Depth(text, a, p - 1) > 0 /\ Depth(text, a, p - 1) \in Int
    BY <1>2, <1>3, <2>1
  <2>3. QED
    BY <2>2 DEF a
<1> DEFINE D == {b \in a..(p - 1) : Depth(text, a, b) <= 1}
           b == Max(D)
<1>5. a \in D
  <2>1. Depth(text, a, a) = 1
    BY <1>1, <1>2, DepthOne
  <2>2. QED
    BY <1>1, <2>1
<1>6. D \in SUBSET (0..p)
  BY <1>1
<1>7. b \in D /\ \A c \in D : c <= b
  BY <1>5, <1>6, MaxIs
<1> HIDE DEF b
<1>8. b \in Int /\ a <= b /\ b < p - 1 /\ Depth(text, a, b) <= 1
  <2>1. b \in a..(p - 1) /\ Depth(text, a, b) <= 1
    BY <1>7
  <2>2. b # p - 1
    BY <1>1, <1>3, <1>4, <2>1
  <2>3. QED
    BY <1>1, <2>1, <2>2
<1>9. ASSUME NEW c \in (b + 1)..(p - 1)
      PROVE  Depth(text, b + 1, c) > 0
  <2>1. c \in a..(p - 1) /\ ~(c <= b) /\ c \in Int /\ a <= b + 1 /\ b <= c
    BY <1>1, <1>8
  <2>2. ~(Depth(text, a, c) <= 1)
    BY <1>7, <2>1
  <2>3. Depth(text, a, c) = Depth(text, a, b) + Depth(text, b + 1, c)
    BY <1>1, <1>8, <2>1, DepthSplit
  <2>4. Depth(text, a, b) \in Int /\ Depth(text, b + 1, c) \in Int /\ Depth(text, a, c) \in Int
    BY <1>1, <1>8, <2>1, DepthType
  <2>5. QED
    BY <1>8, <2>2, <2>3, <2>4
<1>10. text[b + 1].is = "message"
  <2>1. b + 1 \in (b + 1)..(p - 1)
    BY <1>1, <1>8
  <2>2. Depth(text, b + 1, b + 1) > 0 /\ b + 1 \in Int
    BY <1>8, <1>9, <2>1
  <2>3. QED
    BY <2>2, DepthOne
<1>11. b + 1 \in 1..(p - 1)
  BY <1>1, <1>8
<1>12. b + 1 \in OpenAt(text, p)
  BY <1>9, <1>10, <1>11, OpenIff
<1>13. QED
  BY <1>1, <1>8, <1>12

(* What an entry does to the messages that are open.                       *)
LEMMA OpenStep ==
  ASSUME NEW text, NEW p \in Nat \ {0}
  PROVE  OpenAt(text, p + 1) =
           IF text[p].is = "message" THEN OpenAt(text, p) \cup {p}
           ELSE IF text[p].is = "end" THEN OpenAt(text, p) \ {Around(text, p)}
           ELSE OpenAt(text, p)
<1>0. p \in Nat /\ p + 1 \in Nat /\ (p + 1) - 1 = p /\ p - 1 \in Nat
  OBVIOUS
<1>1. ASSUME NEW a \in OpenAt(text, p + 1), a # p PROVE a \in OpenAt(text, p)
  <2>1. a \in 1..p /\ text[a].is = "message" /\ \A b \in a..p : Depth(text, a, b) > 0
    BY <1>0, OpenIff
  <2>2. a \in 1..(p - 1) /\ \A b \in a..(p - 1) : b \in a..p
    BY <1>0, <1>1, <2>1
  <2>3. QED
    BY <1>0, <2>1, <2>2, OpenIff
<1>2. ASSUME NEW a \in OpenAt(text, p), Depth(text, a, p) > 0 PROVE a \in OpenAt(text, p + 1)
  <2>1. a \in 1..(p - 1) /\ text[a].is = "message" /\ \A b \in a..(p - 1) : Depth(text, a, b) > 0
    BY <1>0, OpenIff
  <2>2. a \in 1..p /\ \A b \in a..p : b \in a..(p - 1) \/ b = p
    BY <1>0, <2>1
  <2>3. QED
    BY <1>0, <1>2, <2>1, <2>2, OpenIff
<1>3. ASSUME NEW a \in OpenAt(text, p)
      PROVE  /\ a \in Int /\ a < p
             /\ Depth(text, a, p) = Depth(text, a, p - 1) + Depth(text, p, p)
             /\ Depth(text, a, p - 1) \in Int /\ Depth(text, a, p - 1) > 0
  <2>1. a \in 1..(p - 1) /\ \A b \in a..(p - 1) : Depth(text, a, b) > 0
    BY <1>0, OpenIff
  <2>2. a \in Int /\ a <= p /\ p - 1 \in a..(p - 1)
    BY <1>0, <2>1
  <2>3. QED
    BY <1>0, <2>1, <2>2, DepthNext, DepthType
<1>4. CASE text[p].is = "message"
  <2>1. Depth(text, p, p) = 1
    BY <1>4, DepthOne
  <2>2. \A a \in OpenAt(text, p) : a \in OpenAt(text, p + 1)
    BY <1>2, <1>3, <2>1
  <2>3. p \in 1..p /\ \A b \in p..p : b = p
    OBVIOUS
  <2>4. p \in OpenAt(text, p + 1)
    BY <1>0, <1>4, <2>1, <2>3, OpenIff
  <2>5. QED
    BY <1>1, <1>4, <2>2, <2>4
<1>5. p \in OpenAt(text, p + 1) => text[p].is = "message"
  BY <1>0, OpenIff
<1>6. CASE text[p].is # "message" /\ text[p].is # "end"
  <2>1. Depth(text, p, p) = 0
    BY <1>6, DepthOne
  <2>2. \A a \in OpenAt(text, p) : a \in OpenAt(text, p + 1)
    BY <1>2, <1>3, <2>1
  <2>3. QED
    BY <1>1, <1>5, <1>6, <2>2
<1>7. CASE text[p].is = "end"
  <2> DEFINE c == Around(text, p)
  <2>0. Depth(text, p, p) = -1
    BY <1>7, DepthOne
  <2>1. CASE OpenAt(text, p) = {}
    BY <1>1, <1>5, <1>7, <2>1
  <2>2. CASE OpenAt(text, p) # {}
    <3>1. c \in OpenAt(text, p) /\ \A a \in OpenAt(text, p) : a <= c
      BY <1>0, <2>2, AroundIs
    <3>2. Depth(text, c, p - 1) = 1
      BY <1>0, <2>2, InnermostDepth
    <3> HIDE DEF c
    <3>3. Depth(text, c, p) = 0 /\ c \in Int /\ c < p
      BY <1>3, <2>0, <3>1, <3>2
    <3>4. c \notin OpenAt(text, p + 1)
      <4>1. p \in c..p
        BY <1>0, <3>3
      <4>2. QED
        BY <1>0, <3>3, <4>1, OpenIff
    <3>5. ASSUME NEW a \in OpenAt(text, p), a # c PROVE a \in OpenAt(text, p + 1)
      <4>1. a \in Int /\ a < c
        BY <1>3, <3>1, <3>3, <3>5
      <4>2. c - 1 \in Int /\ (c - 1) + 1 = c /\ a <= c /\ c - 1 <= p /\ c - 1 \in a..(p - 1)
        BY <1>0, <3>3, <4>1
      <4>3. Depth(text, a, p) = Depth(text, a, c - 1) + Depth(text, c, p)
        BY <1>0, <4>1, <4>2, DepthSplit
      <4>4. Depth(text, a, c - 1) > 0 /\ Depth(text, a, c - 1) \in Int
        BY <1>0, <4>1, <4>2, OpenIff, DepthType
      <4>5. Depth(text, a, p) > 0
        BY <3>3, <4>3, <4>4
      <4>6. QED
        BY <1>2, <4>5
    <3>6. OpenAt(text, p + 1) = OpenAt(text, p) \ {c}
      BY <1>1, <1>5, <1>7, <3>4, <3>5
    <3>7. QED
      BY <1>7, <3>6 DEF c
  <2>3. QED
    BY <2>1, <2>2
<1>8. QED
  BY <1>4, <1>6, <1>7

(* The messages around p: the innermost one and those around that.         *)
LEMMA OpenAround ==
  ASSUME NEW text, NEW p \in Nat, OpenAt(text, p) # {}
  PROVE  LET a == Around(text, p)
         IN  OpenAt(text, p) = OpenAt(text, a) \cup {a}
<1> DEFINE a == Around(text, p)
<1>1. /\ a \in OpenAt(text, p) /\ a \in Nat /\ 1 <= a /\ a < p
      /\ \A c \in OpenAt(text, p) : c <= a
  BY AroundIs, OpenSubset
<1> HIDE DEF a
<1>2. \A b \in a..(p - 1) : Depth(text, a, b) > 0
  BY <1>1, OpenIff
<1>3. ASSUME NEW c \in OpenAt(text, p), c # a PROVE c \in OpenAt(text, a)
  <2>1. c \in 1..(p - 1) /\ text[c].is = "message" /\ \A b \in c..(p - 1) : Depth(text, c, b) > 0
    BY OpenIff
  <2>2. c \in Int /\ c <= a
    BY <1>1, <2>1
  <2>3. c \in 1..(a - 1) /\ \A b \in c..(a - 1) : b \in c..(p - 1)
    BY <1>1, <1>3, <2>1, <2>2
  <2>4. QED
    BY <1>1, <2>1, <2>3, OpenIff
<1>4. ASSUME NEW c \in OpenAt(text, a) PROVE c \in OpenAt(text, p)
  <2>1. c \in 1..(a - 1) /\ text[c].is = "message" /\ \A b \in c..(a - 1) : Depth(text, c, b) > 0
    BY <1>1, OpenIff
  <2>2. c \in Int /\ c < a /\ c \in 1..(p - 1)
    BY <1>1, <2>1
  <2>3. ASSUME NEW b \in c..(p - 1) PROVE Depth(text, c, b) > 0
    <3>1. CASE b < a
      <4>1. b \in c..(a - 1)
        BY <1>1, <2>2, <3>1
      <4>2. QED
        BY <2>1, <4>1
    <3>2. CASE ~(b < a)
      <4>1. /\ b \in Int /\ b \in a..(p - 1) /\ a - 1 \in Int /\ (a - 1) + 1 = a
            /\ c <= a /\ a - 1 <= b /\ a - 1 \in c..(a - 1)
        BY <1>1, <2>2, <3>2
      <4>2. Depth(text, c, b) = Depth(text, c, a - 1) + Depth(text, a, b)
        BY <1>1, <2>2, <4>1, DepthSplit
      <4>3. Depth(text, c, a - 1) \in Int /\ Depth(text, a, b) \in Int
        BY <1>1, <2>2, <4>1, DepthType
      <4>4. Depth(text, c, a - 1) > 0 /\ Depth(text, a, b) > 0
        BY <1>2, <2>1, <4>1
      <4>5. QED
        BY <4>2, <4>3, <4>4
    <3>3. QED
      BY <3>1, <3>2
  <2>4. QED
    BY <2>1, <2>2, <2>3, OpenIff
<1>5. OpenAt(text, p) = OpenAt(text, a) \cup {a}
  BY <1>1, <1>3, <1>4
<1>6. QED
  BY <1>5 DEF a
-----------------------------------------------------------------------------
(* Sources: what the entries are, and the names of the scopes.             *)

LEMMA ConcatAppend ==
  ASSUME NEW S, NEW s \in Seq(S), NEW t \in Seq(S), NEW e \in S
  PROVE  s \o Append(t, e) = Append(s \o t, e)
<1> DEFINE u == <<e>>
<1>1. u \in Seq(S) /\ s \o t \in Seq(S)
  BY ConcatProperties
<1>2. Append(t, e) = t \o u /\ Append(s \o t, e) = (s \o t) \o u
  BY <1>1, AppendIsConcat
<1> HIDE DEF u
<1>3. (s \o t) \o u = s \o (t \o u)
  BY <1>1, ConcatAssociative
<1>4. QED
  BY <1>2, <1>3

LEMMA FilesAre ==
  ASSUME files \in Schemas
  PROVE  /\ Len(files) \in Nat \ {0} /\ DOMAIN files = 1..Len(files)
         /\ \A f \in DOMAIN files :
              /\ files[f].package \in Seq(Segment) /\ files[f].packing \in STRING
              /\ files[f].visible \in Seq(DOMAIN files)
              /\ Text(f) \in Seq(Entry)
<1>1. files # <<>> /\ files \in Seq(SourceOf(Len(files)))
  BY SchemasAssumption
<1>2. Len(files) \in Nat \ {0} /\ DOMAIN files = 1..Len(files)
  BY <1>1, LenProperties, EmptySeq
<1>3. \A f \in DOMAIN files : files[f] \in SourceOf(Len(files))
  BY <1>1, <1>2, ElementOfSeq
<1>4. QED
  BY <1>2, <1>3 DEF SourceOf, Text

LEMMA TextIs ==
  ASSUME files \in Schemas, NEW f \in DOMAIN files
  PROVE  /\ Text(f) \in Seq(Entry) /\ Len(Text(f)) \in Nat
         /\ DOMAIN Text(f) = 1..Len(Text(f)) /\ DOMAIN Text(f) \in SUBSET Nat
         /\ \A p \in DOMAIN Text(f) : Text(f)[p] \in Entry
<1>1. Text(f) \in Seq(Entry)
  BY FilesAre
<1>2. Len(Text(f)) \in Nat /\ DOMAIN Text(f) = 1..Len(Text(f))
  BY <1>1, LenProperties
<1>3. \A p \in DOMAIN Text(f) : Text(f)[p] \in Entry
  BY <1>1, <1>2, ElementOfSeq
<1>4. QED
  BY <1>1, <1>2, <1>3

LEMMA EntryIs ==
  ASSUME NEW e \in Entry
  PROVE  /\ e.is \in {"message", "enum", "end", "field", "extend"}
         /\ e.is \in {"message", "enum"} => e.name \in Segment
         /\ e.is = "field" => e.type \in Type
         /\ e.is = "extend" => e.target \in Reference /\ e.fields \in Seq(Type)
<1>1. CASE e \in [is : {"message", "enum"}, name : Segment]
  BY <1>1
<1>2. CASE e \in [is : {"end"}]
  BY <1>2
<1>3. CASE e \in [is : {"field"}, type : Type]
  BY <1>3
<1>4. CASE e \in [is : {"extend"}, target : Reference, fields : Seq(Type)]
  BY <1>4
<1>5. QED
  BY <1>1, <1>2, <1>3, <1>4 DEF Entry

Having(text, kind) == {p \in DOMAIN text : text[p].is = kind}

LEMMA OpeningLists ==
  ASSUME files \in Schemas, NEW f \in DOMAIN files, NEW kind
  PROVE  /\ Lists(Opening(Text(f), kind), Having(Text(f), kind), Len(Opening(Text(f), kind)))
         /\ DOMAIN Opening(Text(f), kind) = 1..Len(Opening(Text(f), kind))
         /\ \A k \in DOMAIN Opening(Text(f), kind) :
              /\ Opening(Text(f), kind)[k] \in DOMAIN Text(f)
              /\ Text(f)[Opening(Text(f), kind)[k]].is = kind
<1> DEFINE S == Having(Text(f), kind)
           s == Opening(Text(f), kind)
<1>1. S \in SUBSET (1..Len(Text(f))) /\ S \in SUBSET Nat
  BY TextIs DEF Having
<1>2. IsFiniteSet(S)
  <2>1. Len(Text(f)) \in Int
    BY TextIs
  <2>2. IsFiniteSet(1..Len(Text(f)))
    BY <2>1, FS_Interval
  <2>3. QED
    BY <1>1, <2>2, FS_Subset
<1>3. s = InOrder(S)
  BY DEF Opening, Having
<1> HIDE DEF s, S
<1>4. Lists(s, S, Cardinality(S))
  BY <1>1, <1>2, <1>3, InOrderLists
<1>5. Len(s) = Cardinality(S) /\ DOMAIN s = 1..Len(s)
  BY <1>4 DEF Lists
<1>6. \A k \in DOMAIN s : s[k] \in S
  BY <1>4, <1>5 DEF Lists
<1>7. QED
  BY <1>4, <1>5, <1>6 DEF s, S, Having

(* The names of the messages that are open at p.                           *)
OpenNames(f, p) ==
  [k \in DOMAIN InOrder(OpenAt(Text(f), p)) |-> Text(f)[InOrder(OpenAt(Text(f), p))[k]].name]

LEMMA OpenNamesType ==
  ASSUME files \in Schemas, NEW f \in DOMAIN files, NEW p \in 1..(Len(Text(f)) + 1)
  PROVE  /\ OpenNames(f, p) \in Seq(Segment)
         /\ DOMAIN OpenNames(f, p) = DOMAIN InOrder(OpenAt(Text(f), p))
<1> DEFINE S == OpenAt(Text(f), p)
           s == InOrder(S)
<1>0. p \in Nat /\ Len(Text(f)) \in Nat
  BY TextIs
<1>1. Lists(s, S, Cardinality(S))
  BY <1>0, OpenSubset, InOrderLists
<1>2. ASSUME NEW a \in S PROVE Text(f)[a].name \in Segment
  <2>1. a \in DOMAIN Text(f) /\ Text(f)[a].is = "message"
    BY <1>0, TextIs, OpenIff
  <2>2. QED
    BY <2>1, TextIs, EntryIs
<1> HIDE DEF s, S
<1>3. DOMAIN s = 1..Cardinality(S) /\ Cardinality(S) \in Nat /\ \A k \in DOMAIN s : s[k] \in S
  BY <1>1 DEF Lists
<1>4. OpenNames(f, p) \in [1..Cardinality(S) -> Segment]
  BY <1>2, <1>3 DEF OpenNames, s, S
<1>5. QED
  BY <1>3, <1>4, SeqDef DEF s, S

LEMMA ScopeIs ==
  ASSUME NEW f, NEW p
  PROVE  ScopeAt(f, p) = files[f].package \o OpenNames(f, p)
BY DEF ScopeAt, OpenNames

LEMMA ScopeType ==
  ASSUME files \in Schemas, NEW f \in DOMAIN files, NEW p \in 1..(Len(Text(f)) + 1)
  PROVE  ScopeAt(f, p) \in Seq(Segment)
BY FilesAre, OpenNamesType, ScopeIs, ConcatProperties

LEMMA FullNameType ==
  ASSUME files \in Schemas, NEW f \in DOMAIN files, NEW p \in DOMAIN Text(f),
         Text(f)[p].is \in {"message", "enum"}
  PROVE  FullName(f, p) \in Seq(Segment)
<1>1. p \in 1..(Len(Text(f)) + 1) /\ Text(f)[p].name \in Segment
  BY TextIs, EntryIs
<1>2. QED
  BY <1>1, ScopeType, AppendProperties DEF FullName

(* Outside messages the scope is the package.                              *)
LEMMA ScopeOutside ==
  ASSUME files \in Schemas, NEW f \in DOMAIN files, NEW p \in 1..(Len(Text(f)) + 1),
         OpenAt(Text(f), p) = {}
  PROVE  ScopeAt(f, p) = files[f].package
<1>1. OpenNames(f, p) = <<>>
  <2>1. DOMAIN OpenNames(f, p) = DOMAIN <<>> /\ OpenNames(f, p) \in Seq(Segment)
    BY OpenNamesType, InOrderNone
  <2>2. Len(OpenNames(f, p)) = 0
    BY <2>1, LenProperties
  <2>3. QED
    BY <2>1, <2>2, EmptySeq
<1>2. QED
  BY <1>1, FilesAre, ScopeIs, ConcatEmptySeq

(* In a message the scope is the name of the innermost message around.     *)
LEMMA ScopeInside ==
  ASSUME files \in Schemas, NEW f \in DOMAIN files, NEW p \in 1..(Len(Text(f)) + 1),
         OpenAt(Text(f), p) # {}
  PROVE  LET a == Around(Text(f), p)
         IN  /\ a \in DOMAIN Text(f) /\ a < p /\ Text(f)[a].is = "message"
             /\ ScopeAt(f, p) = FullName(f, a)
<1> DEFINE a == Around(Text(f), p)
           S == OpenAt(Text(f), a)
           s == InOrder(S)
<1>0. p \in Nat /\ Len(Text(f)) \in Nat
  BY TextIs
<1>1. a \in OpenAt(Text(f), p) /\ a \in Nat /\ 1 <= a /\ a < p
  BY <1>0, AroundIs, OpenSubset
<1>2. a \in DOMAIN Text(f) /\ Text(f)[a].is = "message" /\ Text(f)[a].name \in Segment
  BY <1>0, <1>1, TextIs, EntryIs, OpenIff
<1>3. OpenAt(Text(f), p) = S \cup {a}
  BY <1>0, OpenAround
<1> HIDE DEF a
<1>4. S \in SUBSET Nat /\ IsFiniteSet(S) /\ \A c \in S : c < a
  BY <1>1, OpenSubset
<1> HIDE DEF S
<1>5. InOrder(OpenAt(Text(f), p)) = Append(s, a)
  BY <1>1, <1>3, <1>4, InOrderAppend
<1>6. Lists(s, S, Cardinality(S))
  BY <1>4, InOrderLists
<1> DEFINE n == Cardinality(S)
           v == OpenNames(f, a)
           w == OpenNames(f, p)
<1>7. a \in 1..(Len(Text(f)) + 1)
  BY <1>0, <1>2, TextIs
<1>8. v \in Seq(Segment) /\ w \in Seq(Segment) /\ DOMAIN v = DOMAIN s /\ DOMAIN w = DOMAIN Append(s, a)
  BY <1>5, <1>7, OpenNamesType DEF S
<1>9. /\ n \in Nat /\ DOMAIN s = 1..n /\ DOMAIN Append(s, a) = 1..(n + 1)
      /\ Append(s, a)[n + 1] = a /\ \A k \in 1..n : Append(s, a)[k] = s[k]
  <2>1. n \in Nat /\ s \in Seq(S) /\ Len(s) = n /\ s \in Seq(S \cup {a})
    BY <1>6 DEF Lists
  <2>2. QED
    BY <2>1, AppendProperties, LenProperties
<1>10. /\ \A k \in DOMAIN s : v[k] = Text(f)[s[k]].name
       /\ \A k \in DOMAIN Append(s, a) : w[k] = Text(f)[Append(s, a)[k]].name
  BY <1>5 DEF OpenNames, S
<1> HIDE DEF s, n, v, w
<1>11. Len(v) = n /\ Len(w) = n + 1
  BY <1>8, <1>9, LenProperties
<1>12. w = Append(v, Text(f)[a].name)
  <2>1. /\ Append(v, Text(f)[a].name) \in Seq(Segment)
        /\ Len(Append(v, Text(f)[a].name)) = n + 1
        /\ Append(v, Text(f)[a].name)[n + 1] = Text(f)[a].name
        /\ \A k \in 1..n : Append(v, Text(f)[a].name)[k] = v[k]
    BY <1>2, <1>8, <1>11, AppendProperties
  <2>2. \A k \in 1..(n + 1) : k \in 1..n \/ k = n + 1
    BY <1>9
  <2>3. \A k \in 1..(n + 1) : Append(v, Text(f)[a].name)[k] = w[k]
    BY <1>9, <1>10, <2>1, <2>2
  <2>4. QED
    BY <1>8, <1>11, <2>1, <2>3, SeqEqual
<1>13. files[f].package \o Append(v, Text(f)[a].name)
         = Append(files[f].package \o v, Text(f)[a].name)
  <2> DEFINE pk == files[f].package
             x == Text(f)[a].name
  <2>1. pk \in Seq(Segment) /\ v \in Seq(Segment) /\ x \in Segment
    BY <1>2, <1>8, FilesAre
  <2> HIDE DEF pk, x
  <2>2. pk \o Append(v, x) = Append(pk \o v, x)
    BY <2>1, ConcatAppend
  <2>3. QED
    BY <2>2 DEF pk, x
<1>14. ScopeAt(f, p) = FullName(f, a)
  BY <1>12, <1>13, ScopeIs DEF FullName, v, w
<1>15. QED
  BY <1>1, <1>2, <1>14 DEF a
-----------------------------------------------------------------------------
(* The invariant.                                                          *)

Messages(f) == Opening(Text(f), "message")
Enums(f)    == Opening(Text(f), "enum")

FileNames == [messages : Seq(Seq(Segment)), enums : Seq(Seq(Segment))]
TypeRef   == [kind : {"message", "enum", "builtin", "none"}, file : Nat, at : Nat,
              name : Seq(Segment)]
FieldRec  == [type : Type, parsed : Nat \X Nat \X Nat, refs : Seq(TypeRef),
              origin_file : Nat, origin_scope : Seq(Segment), packing : STRING]

NamesType ==
  /\ names \in [DOMAIN files -> FileNames]
  /\ \A f \in DOMAIN files : /\ Len(names[f].messages) = Len(Messages(f))
                             /\ Len(names[f].enums) = Len(Enums(f))

ControlType ==
  /\ files \in Schemas /\ i \in DOMAIN files
  /\ pass \in {"names", "enums", "extends", "refs", "done", "failed"}
  /\ m \in Nat \ {0} /\ fi \in Nat \ {0}
  /\ failed_source_idx # None => failed_source_idx \in DOMAIN files
  /\ error # "none" => pass = "failed"

(* What has a name has its full name.                                      *)
MessagesNamedTo(f, n) ==
  \A k \in 1..Len(Messages(f)) : k < n => names[f].messages[k] = FullName(f, Messages(f)[k])
EnumsNamedTo(f, n) ==
  \A k \in 1..Len(Enums(f)) : k < n => names[f].enums[k] = FullName(f, Enums(f)[k])

AllNamed(f) == MessagesNamedTo(f, Len(Messages(f)) + 1) /\ EnumsNamedTo(f, Len(Enums(f)) + 1)

NamesInv ==
  /\ pass \in {"names", "enums"} => \A f \in DOMAIN files : f < i => AllNamed(f)
  /\ pass = "names" => MessagesNamedTo(i, m)
  /\ pass = "enums" => MessagesNamedTo(i, Len(Messages(i)) + 1) /\ EnumsNamedTo(i, m)
  /\ pass \in {"extends", "refs", "done"} => \A f \in DOMAIN files : AllNamed(f)

(* The walk has taken the messages that open before the cursor, and its    *)
(* stack is those the cursor is in.                                        *)
Walked(f, a, s, n) ==
  /\ a \in 1..(Len(Text(f)) + 1)
  /\ n \in 0..Len(Messages(f))
  /\ \A k \in 1..Len(Messages(f)) : k <= n <=> Messages(f)[k] < a
  /\ s \in Seq(Nat) /\ \A k \in 1..Len(s) : s[k] \in 1..n
  /\ \A j, k \in 1..Len(s) : j < k => s[j] < s[k]
  /\ \A k \in 1..Len(s) : Messages(f)[s[k]] \in OpenAt(Text(f), a)
  /\ \A q \in OpenAt(Text(f), a) : \E k \in 1..Len(s) : Messages(f)[s[k]] = q

WalkInv == Walked(i, at, stack, nested)

AtStart == pass \notin {"extends", "failed"} => at = 1 /\ stack = <<>> /\ nested = 0

NameInv == ControlType /\ NamesType /\ NamesInv /\ WalkInv /\ AtStart

-----------------------------------------------------------------------------
(* The passes that name and walk.                                          *)

LEMMA SameFiles ==
  ASSUME files' = files
  PROVE  /\ \A f : /\ Text(f)' = Text(f)
                   /\ Messages(f)' = Messages(f) /\ Enums(f)' = Enums(f)
         /\ \A f, p : ScopeAt(f, p)' = ScopeAt(f, p)
         /\ \A f, p : FullName(f, p)' = FullName(f, p)
BY DEF Text, Messages, Enums, ScopeAt, FullName

LEMMA MessagesAre ==
  ASSUME files \in Schemas, NEW f \in DOMAIN files
  PROVE  /\ Len(Messages(f)) \in Nat /\ DOMAIN Messages(f) = 1..Len(Messages(f))
         /\ \A k \in 1..Len(Messages(f)) :
              Messages(f)[k] \in DOMAIN Text(f) /\ Text(f)[Messages(f)[k]].is = "message"
         /\ \A j, k \in 1..Len(Messages(f)) : j < k => Messages(f)[j] < Messages(f)[k]
         /\ \A j, k \in 1..Len(Messages(f)) : Messages(f)[j] = Messages(f)[k] => j = k
         /\ \A p \in DOMAIN Text(f) : Text(f)[p].is = "message" =>
              \E k \in 1..Len(Messages(f)) : Messages(f)[k] = p
<1>1. /\ Lists(Messages(f), Having(Text(f), "message"), Len(Messages(f)))
      /\ DOMAIN Messages(f) = 1..Len(Messages(f))
      /\ \A k \in DOMAIN Messages(f) :
           Messages(f)[k] \in DOMAIN Text(f) /\ Text(f)[Messages(f)[k]].is = "message"
  BY OpeningLists DEF Messages
<1>2. \A p \in DOMAIN Text(f) : Text(f)[p].is = "message" => p \in Having(Text(f), "message")
  BY DEF Having
<1>3. QED
  BY <1>1, <1>2 DEF Lists

LEMMA EnumsAre ==
  ASSUME files \in Schemas, NEW f \in DOMAIN files
  PROVE  /\ Len(Enums(f)) \in Nat /\ DOMAIN Enums(f) = 1..Len(Enums(f))
         /\ \A k \in 1..Len(Enums(f)) :
              Enums(f)[k] \in DOMAIN Text(f) /\ Text(f)[Enums(f)[k]].is = "enum"
         /\ \A p \in DOMAIN Text(f) : Text(f)[p].is = "enum" =>
              \E k \in 1..Len(Enums(f)) : Enums(f)[k] = p
<1>1. /\ Lists(Enums(f), Having(Text(f), "enum"), Len(Enums(f)))
      /\ DOMAIN Enums(f) = 1..Len(Enums(f))
      /\ \A k \in DOMAIN Enums(f) :
           Enums(f)[k] \in DOMAIN Text(f) /\ Text(f)[Enums(f)[k]].is = "enum"
  BY OpeningLists DEF Enums
<1>2. \A p \in DOMAIN Text(f) : Text(f)[p].is = "enum" => p \in Having(Text(f), "enum")
  BY DEF Having
<1>3. QED
  BY <1>1, <1>2 DEF Lists

(* A declaration goes under the name of the message around it, which is    *)
(* named already.                                                          *)
LEMMA PrefixIs ==
  ASSUME ControlType, NEW p \in DOMAIN Text(i),
         \A k \in 1..Len(Messages(i)) :
           Messages(i)[k] < p => names[i].messages[k] = FullName(i, Messages(i)[k])
  PROVE  Prefix(p) = ScopeAt(i, p)
<1> DEFINE a == Around(Text(i), p)
<1>0. /\ files \in Schemas /\ i \in DOMAIN files /\ p \in Nat /\ p \in 1..(Len(Text(i)) + 1)
  BY TextIs DEF ControlType
<1>1. CASE OpenAt(Text(i), p) = {}
  <2>1. a = 0
    BY <1>0, <1>1, AroundIs
  <2>2. Prefix(p) = files[i].package
    BY <2>1 DEF Prefix, Parent, None
  <2>3. QED
    BY <1>0, <1>1, <2>2, ScopeOutside
<1>2. CASE OpenAt(Text(i), p) # {}
  <2>1. /\ a \in DOMAIN Text(i) /\ a < p /\ Text(i)[a].is = "message"
        /\ ScopeAt(i, p) = FullName(i, a)
    BY <1>0, <1>2, ScopeInside
  <2>2. a # 0
    BY <1>0, <1>2, AroundIs
  <2> DEFINE k == CHOOSE k \in DOMAIN Messages(i) : Messages(i)[k] = a
  <2> HIDE DEF a
  <2>3. \E j \in DOMAIN Messages(i) : Messages(i)[j] = a
    BY <1>0, <2>1, MessagesAre
  <2>4. k \in DOMAIN Messages(i) /\ Messages(i)[k] = a
    BY <2>3
  <2>5. Parent(Text(i), p) = k
    BY <2>2 DEF Parent, Messages, None, a
  <2> HIDE DEF k
  <2>6. k \in 1..Len(Messages(i)) /\ k # 0
    BY <1>0, <2>4, MessagesAre
  <2>7. names[i].messages[k] = FullName(i, a)
    BY <2>1, <2>4, <2>6
  <2>8. QED
    BY <2>1, <2>5, <2>6, <2>7 DEF Prefix, None
<1>3. QED
  BY <1>1, <1>2

LEMMA NamesAre ==
  ASSUME NamesType, NEW f \in DOMAIN files
  PROVE  /\ names[f] \in FileNames
         /\ names[f].messages \in Seq(Seq(Segment)) /\ names[f].enums \in Seq(Seq(Segment))
         /\ DOMAIN names[f].messages = 1..Len(Messages(f))
         /\ DOMAIN names[f].enums = 1..Len(Enums(f))
<1>1. names[f] \in FileNames
  BY DEF NamesType
<1>2. names[f].messages \in Seq(Seq(Segment)) /\ names[f].enums \in Seq(Seq(Segment))
  BY <1>1 DEF FileNames
<1>3. QED
  BY <1>1, <1>2, LenProperties DEF NamesType

LEMMA NameMessageDoes ==
  ASSUME ControlType, NamesType, NamesInv, NameMessage
  PROVE  /\ NamesType' /\ m \in 1..Len(Messages(i))
         /\ names'[i].messages[m] = FullName(i, Messages(i)[m])
         /\ \A f \in DOMAIN files : f # i => names'[f] = names[f]
         /\ \A k \in 1..Len(Messages(i)) : k # m => names'[i].messages[k] = names[i].messages[k]
<1> DEFINE p == Messages(i)[m]
           v == NameOf("message")
<1>0. /\ files \in Schemas /\ i \in DOMAIN files /\ pass = "names" /\ m \in Nat \ {0}
      /\ m <= Len(names[i].messages) /\ files' = files
      /\ names' = [names EXCEPT ![i].messages[m] = v]
  BY DEF ControlType, NameMessage
<1>1. m \in 1..Len(Messages(i)) /\ Len(names[i].messages) = Len(Messages(i))
  BY <1>0, MessagesAre DEF NamesType
<1>2. p \in DOMAIN Text(i) /\ Text(i)[p].is = "message"
  BY <1>0, <1>1, MessagesAre
<1>3. ASSUME NEW k \in 1..Len(Messages(i)), Messages(i)[k] < p
      PROVE  names[i].messages[k] = FullName(i, Messages(i)[k])
  <2>1. Messages(i)[k] \in Nat /\ p \in Nat /\ k \in Nat /\ m \in Nat
    BY <1>0, <1>1, <1>2, MessagesAre, TextIs
  <2>2. ~(m < k) /\ k # m
    BY <1>0, <1>1, <1>3, <2>1, MessagesAre
  <2>3. k < m
    BY <2>1, <2>2
  <2>4. QED
    BY <1>0, <2>3 DEF NamesInv, MessagesNamedTo
<1>4. Prefix(p) = ScopeAt(i, p)
  BY <1>2, <1>3, PrefixIs
<1>5. v = FullName(i, p)
  BY <1>4 DEF NameOf, FullName, Messages
<1> HIDE DEF v
<1>6. v \in Seq(Segment)
  BY <1>0, <1>2, <1>5, FullNameType
<1>7. names[i] \in FileNames /\ names[i].messages \in Seq(Seq(Segment))
  BY <1>0, NamesAre
<1> DEFINE w == [names[i].messages EXCEPT ![m] = v]
<1>8. /\ w \in Seq(Seq(Segment)) /\ Len(w) = Len(names[i].messages)
      /\ \A k \in 1..Len(names[i].messages) : w[k] = IF k = m THEN v ELSE names[i].messages[k]
  BY <1>1, <1>6, <1>7, ExceptSeq
<1>9. names' = [names EXCEPT ![i] = [names[i] EXCEPT !.messages = w]]
  BY <1>0
<1> HIDE DEF w
<1>10. /\ [names[i] EXCEPT !.messages = w] \in FileNames
       /\ [names[i] EXCEPT !.messages = w].messages = w
       /\ [names[i] EXCEPT !.messages = w].enums = names[i].enums
  BY <1>7, <1>8 DEF FileNames
<1>11. names \in [DOMAIN files -> FileNames]
  BY DEF NamesType
<1>12. /\ names' \in [DOMAIN files -> FileNames]
       /\ names'[i].messages = w /\ names'[i].enums = names[i].enums
       /\ \A f \in DOMAIN files : f # i => names'[f] = names[f]
  BY <1>0, <1>9, <1>10, <1>11
<1>13. NamesType'
  BY <1>0, <1>8, <1>12, SameFiles DEF NamesType
<1>14. QED
  BY <1>1, <1>5, <1>8, <1>12, <1>13

LEMMA NameEnumDoes ==
  ASSUME ControlType, NamesType, NamesInv, NameEnum
  PROVE  /\ NamesType' /\ m \in 1..Len(Enums(i))
         /\ names'[i].enums[m] = FullName(i, Enums(i)[m])
         /\ names'[i].messages = names[i].messages
         /\ \A f \in DOMAIN files : f # i => names'[f] = names[f]
         /\ \A k \in 1..Len(Enums(i)) : k # m => names'[i].enums[k] = names[i].enums[k]
<1> DEFINE p == Enums(i)[m]
           v == NameOf("enum")
<1>0. /\ files \in Schemas /\ i \in DOMAIN files /\ pass = "enums" /\ m \in Nat \ {0}
      /\ m <= Len(names[i].enums) /\ files' = files
      /\ names' = [names EXCEPT ![i].enums[m] = v]
  BY DEF ControlType, NameEnum
<1>1. m \in 1..Len(Enums(i)) /\ Len(names[i].enums) = Len(Enums(i))
  BY <1>0, EnumsAre DEF NamesType
<1>2. p \in DOMAIN Text(i) /\ Text(i)[p].is = "enum"
  BY <1>0, <1>1, EnumsAre
<1>3. \A k \in 1..Len(Messages(i)) : names[i].messages[k] = FullName(i, Messages(i)[k])
  <2>1. Len(Messages(i)) \in Nat
    BY <1>0, MessagesAre
  <2>2. QED
    BY <1>0, <2>1 DEF NamesInv, MessagesNamedTo
<1>4. Prefix(p) = ScopeAt(i, p)
  BY <1>2, <1>3, PrefixIs
<1>5. v = FullName(i, p)
  BY <1>4 DEF NameOf, FullName, Enums
<1> HIDE DEF v
<1>6. v \in Seq(Segment)
  BY <1>0, <1>2, <1>5, FullNameType
<1>7. names[i] \in FileNames /\ names[i].enums \in Seq(Seq(Segment))
  BY <1>0, NamesAre
<1> DEFINE w == [names[i].enums EXCEPT ![m] = v]
<1>8. /\ w \in Seq(Seq(Segment)) /\ Len(w) = Len(names[i].enums)
      /\ \A k \in 1..Len(names[i].enums) : w[k] = IF k = m THEN v ELSE names[i].enums[k]
  BY <1>1, <1>6, <1>7, ExceptSeq
<1>9. names' = [names EXCEPT ![i] = [names[i] EXCEPT !.enums = w]]
  BY <1>0
<1> HIDE DEF w
<1>10. /\ [names[i] EXCEPT !.enums = w] \in FileNames
       /\ [names[i] EXCEPT !.enums = w].enums = w
       /\ [names[i] EXCEPT !.enums = w].messages = names[i].messages
  BY <1>7, <1>8 DEF FileNames
<1>11. names \in [DOMAIN files -> FileNames]
  BY DEF NamesType
<1>12. /\ names' \in [DOMAIN files -> FileNames]
       /\ names'[i].enums = w /\ names'[i].messages = names[i].messages
       /\ \A f \in DOMAIN files : f # i => names'[f] = names[f]
  BY <1>0, <1>9, <1>10, <1>11
<1>13. NamesType'
  BY <1>0, <1>8, <1>12, SameFiles DEF NamesType
<1>14. QED
  BY <1>1, <1>5, <1>8, <1>12, <1>13
-----------------------------------------------------------------------------
(* The walk over a file, entry by entry.                                   *)

LEMMA WalkSame ==
  ASSUME files' = files
  PROVE  WalkInv' <=> Walked(i', at', stack', nested')
BY DEF WalkInv, Walked, Text, Messages

LEMMA WalkStart ==
  ASSUME files \in Schemas, NEW f \in DOMAIN files
  PROVE  Walked(f, 1, <<>>, 0)
<1>1. Len(Text(f)) \in Nat /\ Len(Messages(f)) \in Nat
  BY TextIs, MessagesAre
<1>2. \A k \in 1..Len(Messages(f)) : ~(k <= 0) /\ ~(Messages(f)[k] < 1)
  <2>1. \A k \in 1..Len(Messages(f)) : Messages(f)[k] \in 1..Len(Text(f))
    BY MessagesAre, TextIs
  <2>2. QED
    BY <1>1, <2>1
<1>3. OpenAt(Text(f), 1) = {}
  BY OpenSubset
<1>4. <<>> \in Seq(Nat) /\ Len(<<>>) = 0
  BY EmptySeq
<1>5. QED
  BY <1>1, <1>2, <1>3, <1>4 DEF Walked

LEMMA WalkEnter ==
  ASSUME files \in Schemas, NEW f \in DOMAIN files, NEW a, NEW s, NEW n,
         Walked(f, a, s, n), a <= Len(Text(f)), Text(f)[a].is = "message"
  PROVE  Walked(f, a + 1, Append(s, n + 1), n + 1)
<1> DEFINE t == Append(s, n + 1)
<1>1. /\ a \in Nat /\ a \in Nat \ {0} /\ a \in DOMAIN Text(f) /\ Len(Messages(f)) \in Nat
      /\ a + 1 \in 1..(Len(Text(f)) + 1) /\ n \in Nat /\ n <= Len(Messages(f))
  BY TextIs, MessagesAre DEF Walked
<1>2. PICK j \in 1..Len(Messages(f)) : Messages(f)[j] = a
  BY <1>1, MessagesAre
<1>3. \A k \in 1..Len(Messages(f)) : k \in Nat /\ Messages(f)[k] \in Nat
  BY <1>1, MessagesAre, TextIs
<1>4. j = n + 1
  <2>1. ~(j <= n)
    BY <1>2, <1>3, <1>1 DEF Walked
  <2>2. ASSUME n + 1 < j PROVE FALSE
    <3>1. n + 1 \in 1..Len(Messages(f)) /\ ~(n + 1 <= n)
      BY <1>1, <1>2, <2>2
    <3>2. ~(Messages(f)[n + 1] < a)
      BY <3>1 DEF Walked
    <3>3. Messages(f)[n + 1] < Messages(f)[j]
      BY <2>2, <3>1, MessagesAre
    <3>4. QED
      BY <1>1, <1>2, <1>3, <3>1, <3>2, <3>3
  <2>3. QED
    BY <1>1, <1>3, <2>1, <2>2
<1>5. n + 1 \in 1..Len(Messages(f)) /\ Messages(f)[n + 1] = a
  BY <1>2, <1>4
<1>6. ASSUME NEW k \in 1..Len(Messages(f)) PROVE k <= n + 1 <=> Messages(f)[k] < a + 1
  <2>1. k <= n <=> Messages(f)[k] < a
    BY DEF Walked
  <2>2. Messages(f)[k] = a <=> k = n + 1
    BY <1>5, MessagesAre
  <2>3. QED
    BY <1>1, <1>3, <2>1, <2>2
<1>7. /\ s \in Seq(Nat) /\ Len(s) \in Nat /\ n + 1 \in Nat
      /\ \A k \in 1..Len(s) : s[k] \in 1..n
  BY <1>1, LenProperties DEF Walked
<1>8. /\ t \in Seq(Nat) /\ Len(t) = Len(s) + 1 /\ t[Len(s) + 1] = n + 1
      /\ \A k \in 1..Len(s) : t[k] = s[k]
  BY <1>7, AppendProperties
<1> HIDE DEF t
<1>9. \A k \in 1..Len(t) : k \in 1..Len(s) \/ k = Len(s) + 1
  BY <1>7, <1>8
<1>10. \A k \in 1..Len(t) : t[k] \in 1..(n + 1)
  <2>1. \A x \in 1..n : x \in 1..(n + 1)
    BY <1>1
  <2>2. \A k \in 1..Len(s) : t[k] \in 1..(n + 1)
    BY <1>7, <1>8, <2>1
  <2>3. n + 1 \in 1..(n + 1)
    BY <1>1
  <2>4. QED
    BY <1>8, <1>9, <2>2, <2>3
<1>11. ASSUME NEW k \in 1..Len(t), NEW l \in 1..Len(t), k < l PROVE t[k] < t[l]
  <2>1. k \in 1..Len(s)
    BY <1>7, <1>8, <1>11
  <2>2. CASE l \in 1..Len(s)
    BY <1>8, <1>11, <2>1, <2>2 DEF Walked
  <2>3. CASE l = Len(s) + 1
    <3>1. s[k] \in 1..n
      BY <1>7, <2>1
    <3>2. s[k] < n + 1
      BY <1>1, <3>1
    <3>3. QED
      BY <1>8, <2>1, <2>3, <3>2
  <2>4. QED
    BY <1>9, <2>2, <2>3
<1>12. OpenAt(Text(f), a + 1) = OpenAt(Text(f), a) \cup {a}
  BY <1>1, OpenStep
<1>13. \A k \in 1..Len(t) : Messages(f)[t[k]] \in OpenAt(Text(f), a + 1)
  <2>1. \A k \in 1..Len(s) : Messages(f)[s[k]] \in OpenAt(Text(f), a)
    BY DEF Walked
  <2>2. QED
    BY <1>5, <1>8, <1>9, <1>12, <2>1
<1>14. ASSUME NEW q \in OpenAt(Text(f), a + 1) PROVE \E k \in 1..Len(t) : Messages(f)[t[k]] = q
  <2>1. CASE q = a
    <3>1. Len(s) + 1 \in 1..Len(t)
      BY <1>7, <1>8
    <3>2. QED
      BY <1>5, <1>8, <2>1, <3>1
  <2>2. CASE q \in OpenAt(Text(f), a)
    <3>1. PICK k \in 1..Len(s) : Messages(f)[s[k]] = q
      BY <2>2 DEF Walked
    <3>2. k \in 1..Len(t)
      BY <1>7, <1>8
    <3>3. QED
      BY <1>8, <3>1, <3>2
  <2>3. QED
    BY <1>12, <2>1, <2>2
<1>15. n + 1 \in 0..Len(Messages(f))
  BY <1>1, <1>5
<1>16. QED
  BY <1>1, <1>6, <1>8, <1>10, <1>11, <1>13, <1>14, <1>15 DEF Walked, t

LEMMA WalkOver ==
  ASSUME files \in Schemas, NEW f \in DOMAIN files, NEW a, NEW s, NEW n,
         Walked(f, a, s, n), a <= Len(Text(f)), Text(f)[a].is \notin {"message", "end"}
  PROVE  Walked(f, a + 1, s, n)
<1>1. /\ a \in Nat /\ a \in Nat \ {0} /\ a \in DOMAIN Text(f)
      /\ a + 1 \in 1..(Len(Text(f)) + 1)
  BY TextIs DEF Walked
<1>2. ASSUME NEW k \in 1..Len(Messages(f)) PROVE k <= n <=> Messages(f)[k] < a + 1
  <2>1. Messages(f)[k] \in Nat /\ Messages(f)[k] # a
    BY MessagesAre, TextIs
  <2>2. k <= n <=> Messages(f)[k] < a
    BY DEF Walked
  <2>3. QED
    BY <1>1, <2>1, <2>2
<1>3. OpenAt(Text(f), a + 1) = OpenAt(Text(f), a)
  BY <1>1, OpenStep
<1>4. QED
  BY <1>1, <1>2, <1>3 DEF Walked

(* The top of the stack is the innermost message.                          *)
LEMMA WalkTop ==
  ASSUME files \in Schemas, NEW f \in DOMAIN files, NEW a, NEW s, NEW n, Walked(f, a, s, n)
  PROVE  /\ s = <<>> <=> OpenAt(Text(f), a) = {}
         /\ s # <<>> => /\ Len(s) \in 1..Len(s) /\ s[Len(s)] \in 1..Len(Messages(f))
                        /\ Messages(f)[s[Len(s)]] = Around(Text(f), a)
<1>0. /\ a \in Nat /\ Len(Messages(f)) \in Nat /\ n \in Nat /\ n <= Len(Messages(f))
      /\ s \in Seq(Nat) /\ Len(s) \in Nat /\ \A k \in 1..Len(s) : s[k] \in 1..n
  BY TextIs, MessagesAre, LenProperties DEF Walked
<1>1. s = <<>> <=> Len(s) = 0
  BY <1>0, EmptySeq
<1>2. s = <<>> => OpenAt(Text(f), a) = {}
  BY <1>1 DEF Walked
<1>3. ASSUME s # <<>>
      PROVE  /\ Len(s) \in 1..Len(s) /\ s[Len(s)] \in 1..Len(Messages(f))
             /\ OpenAt(Text(f), a) # {}
             /\ Messages(f)[s[Len(s)]] = Around(Text(f), a)
  <2>1. Len(s) \in 1..Len(s)
    BY <1>0, <1>1, <1>3
  <2>2. \A k \in 1..Len(s) : s[k] \in 1..Len(Messages(f))
    BY <1>0
  <2>3. Messages(f)[s[Len(s)]] \in OpenAt(Text(f), a)
    BY <2>1 DEF Walked
  <2>4. /\ Around(Text(f), a) \in OpenAt(Text(f), a)
        /\ \A q \in OpenAt(Text(f), a) : q \in Nat /\ q <= Around(Text(f), a)
    BY <1>0, <2>3, AroundIs, OpenSubset
  <2>5. PICK k \in 1..Len(s) : Messages(f)[s[k]] = Around(Text(f), a)
    BY <2>4 DEF Walked
  <2>6. CASE k = Len(s)
    BY <2>1, <2>2, <2>3, <2>5, <2>6
  <2>7. CASE k # Len(s)
    <3>1. k < Len(s)
      BY <1>0, <2>7
    <3>2. s[k] < s[Len(s)]
      BY <2>1, <3>1 DEF Walked
    <3>3. Around(Text(f), a) < Messages(f)[s[Len(s)]]
      BY <2>1, <2>2, <2>5, <3>2, MessagesAre
    <3>4. QED
      BY <2>3, <2>4, <3>3
  <2>8. QED
    BY <2>6, <2>7
<1>4. QED
  BY <1>2, <1>3

LEMMA WalkLeave ==
  ASSUME files \in Schemas, NEW f \in DOMAIN files, NEW a, NEW s, NEW n,
         Walked(f, a, s, n), a <= Len(Text(f)), Text(f)[a].is = "end"
  PROVE  Walked(f, a + 1, SubSeq(s, 1, Len(s) - 1), n)
<1> DEFINE t == SubSeq(s, 1, Len(s) - 1)
<1>1. /\ a \in Nat /\ a \in Nat \ {0} /\ a \in DOMAIN Text(f)
      /\ a + 1 \in 1..(Len(Text(f)) + 1)
      /\ s \in Seq(Nat) /\ Len(s) \in Nat
  BY TextIs, LenProperties DEF Walked
<1>2. ASSUME NEW k \in 1..Len(Messages(f)) PROVE k <= n <=> Messages(f)[k] < a + 1
  <2>1. Messages(f)[k] \in Nat /\ Messages(f)[k] # a
    BY MessagesAre, TextIs
  <2>2. k <= n <=> Messages(f)[k] < a
    BY DEF Walked
  <2>3. QED
    BY <1>1, <2>1, <2>2
<1>3. OpenAt(Text(f), a + 1) = OpenAt(Text(f), a) \ {Around(Text(f), a)}
  BY <1>1, OpenStep
<1>4. CASE s = <<>>
  <2>1. Len(s) = 0
    BY <1>4, EmptySeq
  <2>2. t = s
    BY <1>4, <2>1
  <2>3. OpenAt(Text(f), a + 1) = OpenAt(Text(f), a)
    BY <1>3, <1>4, WalkTop
  <2>4. QED
    BY <1>1, <1>2, <2>2, <2>3 DEF Walked
<1>5. CASE s # <<>>
  <2>1. /\ Len(s) \in 1..Len(s) /\ s[Len(s)] \in 1..Len(Messages(f))
        /\ Messages(f)[s[Len(s)]] = Around(Text(f), a)
    BY <1>5, WalkTop
  <2>2. /\ t \in Seq(Nat) /\ Len(t) = Len(s) - 1
        /\ \A k \in 1..(Len(s) - 1) : t[k] = s[k]
    <3> DEFINE b == Len(s) - 1
    <3>1. b \in Nat /\ 1 \in Int /\ \A k \in 1..b : k \in 1..Len(s)
      BY <1>1, <2>1
    <3>2. \A k \in 1..b : s[k] \in Nat
      BY <1>1, <3>1, ElementOfSeq
    <3> HIDE DEF b
    <3>3. /\ SubSeq(s, 1, b) \in Seq(Nat)
          /\ Len(SubSeq(s, 1, b)) = IF 1 <= b THEN b - 1 + 1 ELSE 0
          /\ \A k \in 1..(b - 1 + 1) : SubSeq(s, 1, b)[k] = s[1 + k - 1]
      BY <3>1, <3>2, SubSeqProperties
    <3>4. Len(SubSeq(s, 1, b)) = b /\ \A k \in 1..b : SubSeq(s, 1, b)[k] = s[k]
      BY <3>1, <3>3
    <3>5. QED
      BY <3>3, <3>4 DEF b
  <2> HIDE DEF t
  <2>3. \A k \in 1..Len(t) : k \in 1..Len(s) /\ k # Len(s) /\ k < Len(s) /\ t[k] = s[k]
    <3>1. Len(s) \in Nat /\ Len(t) = Len(s) - 1
      BY <1>1, <2>2
    <3>2. \A k \in 1..Len(t) : k \in 1..Len(s) /\ k # Len(s) /\ k < Len(s)
      BY <3>1
    <3>3. \A k \in 1..Len(t) : t[k] = s[k]
      BY <3>1, <2>2
    <3>4. QED
      BY <3>2, <3>3
  <2>4. \A k \in 1..Len(s) : s[k] \in 1..n /\ s[k] \in Nat
    BY DEF Walked
  <2>5. ASSUME NEW k \in 1..Len(t)
        PROVE  Messages(f)[t[k]] \in OpenAt(Text(f), a + 1)
    <3>1. Messages(f)[s[k]] \in OpenAt(Text(f), a) /\ s[k] < s[Len(s)]
      BY <2>1, <2>3 DEF Walked
    <3>2. s[k] \in 1..Len(Messages(f)) /\ s[k] # s[Len(s)]
      <4>1. s[k] \in 1..n /\ s[k] \in Nat /\ s[Len(s)] \in Nat
        BY <2>1, <2>3, <2>4
      <4>2. n \in Nat /\ n <= Len(Messages(f)) /\ Len(Messages(f)) \in Nat
        BY MessagesAre DEF Walked
      <4>3. QED
        BY <3>1, <4>1, <4>2
    <3>3. Messages(f)[s[k]] # Around(Text(f), a)
      BY <2>1, <3>2, MessagesAre
    <3>4. QED
      BY <1>3, <2>3, <3>1, <3>3
  <2>6. ASSUME NEW q \in OpenAt(Text(f), a + 1)
        PROVE  \E k \in 1..Len(t) : Messages(f)[t[k]] = q
    <3>1. q \in OpenAt(Text(f), a) /\ q # Around(Text(f), a)
      BY <1>3
    <3>2. PICK k \in 1..Len(s) : Messages(f)[s[k]] = q
      BY <3>1 DEF Walked
    <3>3. k # Len(s)
      BY <2>1, <3>1, <3>2
    <3>4. k \in 1..Len(t)
      <4>1. Len(t) = Len(s) - 1 /\ Len(s) \in Nat
        BY <1>1, <2>2
      <4>2. QED
        BY <3>3, <4>1
    <3>5. QED
      BY <2>3, <3>2, <3>4
  <2>7. \A k \in 1..Len(t) : t[k] \in 1..n
    BY <2>3, <2>4
  <2>8. \A j, k \in 1..Len(t) : j < k => t[j] < t[k]
    BY <2>3 DEF Walked
  <2>9. QED
    BY <1>1, <1>2, <2>2, <2>5, <2>6, <2>7, <2>8 DEF Walked, t
<1>6. QED
  BY <1>4, <1>5

(* make_package_scope and the recursion of walk_message_body: the scope an *)
(* extend is in has the name its messages give it.                         *)
LEMMA ScopeOfWalk ==
  ASSUME ControlType, WalkInv, AllNamed(i)
  PROVE  Scope = ScopeAt(i, at)
<1>0. files \in Schemas /\ i \in DOMAIN files /\ at \in 1..(Len(Text(i)) + 1)
  BY DEF ControlType, WalkInv, Walked
<1>1. CASE stack = <<>>
  <2>1. OpenAt(Text(i), at) = {}
    BY <1>0, <1>1, WalkTop DEF WalkInv
  <2>2. QED
    BY <1>0, <1>1, <2>1, ScopeOutside DEF Scope
<1>2. CASE stack # <<>>
  <2>1. /\ stack[Len(stack)] \in 1..Len(Messages(i)) /\ OpenAt(Text(i), at) # {}
        /\ Messages(i)[stack[Len(stack)]] = Around(Text(i), at)
    BY <1>0, <1>2, WalkTop DEF WalkInv
  <2>2. names[i].messages[stack[Len(stack)]] = FullName(i, Around(Text(i), at))
    <3>1. Len(Messages(i)) \in Nat
      BY <1>0, MessagesAre
    <3>2. QED
      BY <2>1, <3>1 DEF AllNamed, MessagesNamedTo
  <2>3. ScopeAt(i, at) = FullName(i, Around(Text(i), at))
    BY <1>0, <2>1, ScopeInside
  <2>4. QED
    BY <1>2, <2>2, <2>3 DEF Scope, Last
<1>3. QED
  BY <1>1, <1>2
-----------------------------------------------------------------------------
(* NameInv holds throughout.                                               *)

LEMMA NameInit == Init => NameInv
<1> SUFFICES ASSUME Init PROVE NameInv
  OBVIOUS
<1>1. /\ files \in Schemas /\ pass = "names" /\ i = 1 /\ m = 1 /\ fi = 1
      /\ at = 1 /\ stack = <<>> /\ nested = 0 /\ error = "none" /\ failed_source_idx = None
  BY DEF Init
<1>2. i \in DOMAIN files /\ \A f \in DOMAIN files : f \in Nat /\ ~(f < 1)
  <2>1. Len(files) \in Nat \ {0} /\ DOMAIN files = 1..Len(files)
    BY <1>1, FilesAre
  <2>2. QED
    BY <1>1, <2>1
<1>3. ControlType
  BY <1>1, <1>2 DEF ControlType
<1>4. NamesType
  <2>1. names = [f \in DOMAIN files |->
                   [messages |-> [k \in DOMAIN Messages(f) |-> <<>>],
                    enums |-> [k \in DOMAIN Enums(f) |-> <<>>]]]
    BY DEF Init, Messages, Enums
  <2>2. ASSUME NEW n \in Nat
        PROVE  LET w == [k \in 1..n |-> <<>>] IN w \in Seq(Seq(Segment)) /\ Len(w) = n
    <3>1. <<>> \in Seq(Segment)
      BY EmptySeq
    <3> DEFINE w == [k \in 1..n |-> <<>>]
    <3>2. w \in [1..n -> Seq(Segment)]
      BY <3>1
    <3> HIDE DEF w
    <3>3. w \in Seq(Seq(Segment)) /\ Len(w) = n
      BY <3>2, SeqDef
    <3>4. QED
      BY <3>3 DEF w
  <2>3. ASSUME NEW f \in DOMAIN files
        PROVE  /\ names[f] \in FileNames
               /\ Len(names[f].messages) = Len(Messages(f)) /\ Len(names[f].enums) = Len(Enums(f))
    <3>1. /\ Len(Messages(f)) \in Nat /\ DOMAIN Messages(f) = 1..Len(Messages(f))
          /\ Len(Enums(f)) \in Nat /\ DOMAIN Enums(f) = 1..Len(Enums(f))
      BY <1>1, MessagesAre, EnumsAre
    <3> DEFINE v == [k \in 1..Len(Messages(f)) |-> <<>>]
               w == [k \in 1..Len(Enums(f)) |-> <<>>]
    <3>2. /\ v \in Seq(Seq(Segment)) /\ Len(v) = Len(Messages(f))
          /\ w \in Seq(Seq(Segment)) /\ Len(w) = Len(Enums(f))
      BY <2>2, <3>1
    <3>3. names[f] = [messages |-> v, enums |-> w]
      BY <2>1, <3>1
    <3> HIDE DEF v, w
    <3>4. QED
      BY <3>2, <3>3 DEF FileNames
  <2>4. DOMAIN names = DOMAIN files /\ names = [f \in DOMAIN files |-> names[f]]
    BY <2>1
  <2>5. QED
    BY <2>3, <2>4 DEF NamesType
<1>5. MessagesNamedTo(i, m)
  BY <1>1 DEF MessagesNamedTo
<1>6. NamesInv
  BY <1>1, <1>2, <1>5 DEF NamesInv
<1>7. WalkInv
  BY <1>1, <1>2, WalkStart DEF WalkInv
<1>8. QED
  BY <1>1, <1>3, <1>4, <1>6, <1>7 DEF NameInv, AtStart

(* Names are assigned in the first two passes only.                        *)
NamesKept == names' = names /\ files' = files

LEMMA NamedKept ==
  ASSUME NamesKept
  PROVE  /\ NamesType => NamesType'
         /\ \A f : AllNamed(f)' <=> AllNamed(f)
         /\ \A f, n : MessagesNamedTo(f, n)' <=> MessagesNamedTo(f, n)
         /\ \A f, n : EnumsNamedTo(f, n)' <=> EnumsNamedTo(f, n)
<1>1. \A f : Messages(f)' = Messages(f) /\ Enums(f)' = Enums(f)
  BY SameFiles DEF NamesKept
<1>2. \A f, p : FullName(f, p)' = FullName(f, p)
  BY SameFiles DEF NamesKept
<1>3. NamesType => NamesType'
  BY <1>1 DEF NamesKept, NamesType
<1>4. \A f, n : MessagesNamedTo(f, n)' <=> MessagesNamedTo(f, n)
  BY <1>1, <1>2 DEF NamesKept, MessagesNamedTo
<1>5. \A f, n : EnumsNamedTo(f, n)' <=> EnumsNamedTo(f, n)
  BY <1>1, <1>2 DEF NamesKept, EnumsNamedTo
<1>6. \A f : AllNamed(f)' <=> AllNamed(f)
  BY <1>1, <1>4, <1>5 DEF AllNamed
<1>7. QED
  BY <1>3, <1>4, <1>5, <1>6

LEMMA NamingStep ==
  ASSUME NameInv, NameMessage \/ MessagesNamed \/ NameEnum \/ FileNamed
  PROVE  NamesType' /\ NamesInv'
<1>0. /\ ControlType /\ NamesType /\ NamesInv /\ files' = files /\ i \in DOMAIN files
      /\ files \in Schemas /\ m \in Nat \ {0}
      /\ Len(files) \in Nat /\ DOMAIN files = 1..Len(files)
  BY FilesAre DEF NameInv, ControlType, NameMessage, MessagesNamed, NameEnum, FileNamed
<1>s. /\ \A f : Messages(f)' = Messages(f) /\ Enums(f)' = Enums(f)
      /\ \A f, p : FullName(f, p)' = FullName(f, p)
  BY <1>0, SameFiles
<1>n. \A f \in DOMAIN files : Len(Messages(f)) \in Nat /\ Len(Enums(f)) \in Nat /\ f \in Nat
  BY <1>0, MessagesAre, EnumsAre
<1>l. ASSUME NEW f \in DOMAIN files, names'[f] = names[f] PROVE AllNamed(f)' <=> AllNamed(f)
  BY <1>s, <1>l DEF AllNamed, MessagesNamedTo, EnumsNamedTo
<1>1. CASE NameMessage
  <2>1. /\ NamesType' /\ m \in 1..Len(Messages(i))
        /\ names'[i].messages[m] = FullName(i, Messages(i)[m])
        /\ \A f \in DOMAIN files : f # i => names'[f] = names[f]
        /\ \A k \in 1..Len(Messages(i)) : k # m => names'[i].messages[k] = names[i].messages[k]
    BY <1>0, <1>1, NameMessageDoes
  <2>2. pass = "names" /\ pass' = pass /\ i' = i /\ m' = m + 1
    BY <1>1 DEF NameMessage
  <2>3. \A f \in DOMAIN files : f < i => AllNamed(f)'
    BY <1>0, <1>l, <1>n, <2>1, <2>2 DEF NamesInv
  <2>4. ASSUME NEW k \in 1..Len(Messages(i)), k < m + 1
        PROVE  names'[i].messages[k] = FullName(i, Messages(i)[k])
    <3>1. k < m \/ k = m
      BY <1>0, <1>n, <2>4
    <3>2. CASE k < m
      BY <1>0, <2>1, <2>2, <3>2 DEF NamesInv, MessagesNamedTo
    <3>3. QED
      BY <2>1, <3>1, <3>2
  <2>5. MessagesNamedTo(i, m)'
    BY <1>s, <2>2, <2>4 DEF MessagesNamedTo
  <2>6. QED
    BY <1>0, <2>1, <2>2, <2>3, <2>5 DEF NamesInv
<1>2. CASE MessagesNamed
  <2>1. /\ pass = "names" /\ pass' = "enums" /\ i' = i /\ m' = 1 /\ names' = names
        /\ m > Len(names[i].messages)
    BY <1>2 DEF MessagesNamed
  <2>2. Len(names[i].messages) = Len(Messages(i))
    BY <1>0 DEF NamesType
  <2>3. \A k \in 1..Len(Messages(i)) : k < m
    BY <1>0, <1>n, <2>1, <2>2
  <2>4. MessagesNamedTo(i, Len(Messages(i)) + 1)
    BY <1>0, <2>1, <2>3 DEF NamesInv, MessagesNamedTo
  <2>5. \A k \in 1..Len(Enums(i)) : ~(k < 1)
    BY <1>0, <1>n
  <2>6. EnumsNamedTo(i, m)'
    BY <1>s, <2>1, <2>5 DEF EnumsNamedTo
  <2>7. /\ NamesType' /\ \A f \in DOMAIN files : f < i => AllNamed(f)'
        /\ MessagesNamedTo(i, Len(Messages(i)) + 1)'
    BY <1>0, <1>s, <2>1, <2>4, NamedKept DEF NamesInv, NamesKept
  <2>8. QED
    BY <1>0, <1>s, <2>1, <2>6, <2>7 DEF NamesInv
<1>3. CASE NameEnum
  <2>1. /\ NamesType' /\ m \in 1..Len(Enums(i))
        /\ names'[i].enums[m] = FullName(i, Enums(i)[m])
        /\ names'[i].messages = names[i].messages
        /\ \A f \in DOMAIN files : f # i => names'[f] = names[f]
        /\ \A k \in 1..Len(Enums(i)) : k # m => names'[i].enums[k] = names[i].enums[k]
    BY <1>0, <1>3, NameEnumDoes
  <2>2. pass = "enums" /\ pass' = pass /\ i' = i /\ m' = m + 1
    BY <1>3 DEF NameEnum
  <2>3. \A f \in DOMAIN files : f < i => AllNamed(f)'
    BY <1>0, <1>l, <1>n, <2>1, <2>2 DEF NamesInv
  <2>4. ASSUME NEW k \in 1..Len(Enums(i)), k < m + 1
        PROVE  names'[i].enums[k] = FullName(i, Enums(i)[k])
    <3>1. k < m \/ k = m
      BY <1>0, <1>n, <2>4
    <3>2. CASE k < m
      BY <1>0, <2>1, <2>2, <3>2 DEF NamesInv, EnumsNamedTo
    <3>3. QED
      BY <2>1, <3>1, <3>2
  <2>5. EnumsNamedTo(i, m)'
    BY <1>s, <2>2, <2>4 DEF EnumsNamedTo
  <2>6. MessagesNamedTo(i, Len(Messages(i)) + 1)'
    BY <1>0, <1>s, <2>1, <2>2 DEF NamesInv, MessagesNamedTo
  <2>7. QED
    BY <1>0, <1>s, <2>1, <2>2, <2>3, <2>5, <2>6 DEF NamesInv
<1>4. CASE FileNamed
  <2>1. /\ pass = "enums" /\ m' = 1 /\ names' = names /\ m > Len(names[i].enums)
        /\ IF i < Len(files) THEN pass' = "names" /\ i' = i + 1
                             ELSE pass' = "extends" /\ i' = 1
    BY <1>4 DEF FileNamed
  <2>2. Len(names[i].enums) = Len(Enums(i))
    BY <1>0 DEF NamesType
  <2>3. \A k \in 1..Len(Enums(i)) : k < m
    BY <1>0, <1>n, <2>1, <2>2
  <2>4. EnumsNamedTo(i, Len(Enums(i)) + 1)
    BY <1>0, <2>1, <2>3 DEF NamesInv, EnumsNamedTo
  <2>5. \A f \in DOMAIN files : f <= i => AllNamed(f)
    BY <1>0, <1>n, <2>1, <2>4 DEF NamesInv, AllNamed
  <2>6. NamesType' /\ \A f \in DOMAIN files : f <= i => AllNamed(f)'
    BY <1>0, <2>1, <2>5, NamedKept DEF NamesKept
  <2>7. CASE i < Len(files)
    <3>1. i + 1 \in DOMAIN files /\ \A f \in DOMAIN files : f < i + 1 => f <= i
      BY <1>0, <1>n, <2>7
    <3>2. \A k \in 1..Len(Messages(i + 1)) : ~(k < 1)
      BY <1>n, <3>1
    <3>3. MessagesNamedTo(i, m)'
      BY <1>s, <2>1, <2>7, <3>2 DEF MessagesNamedTo
    <3>4. QED
      BY <1>0, <2>1, <2>6, <2>7, <3>1, <3>3 DEF NamesInv
  <2>8. CASE ~(i < Len(files))
    <3>1. \A f \in DOMAIN files : f <= i
      BY <1>0, <2>8
    <3>2. QED
      BY <1>0, <2>1, <2>6, <2>8, <3>1 DEF NamesInv
  <2>9. QED
    BY <2>7, <2>8
<1>5. QED
  BY <1>1, <1>2, <1>3, <1>4

LEMMA ControlStep == NameInv /\ [Next]_vars => ControlType'
<1> SUFFICES ASSUME NameInv, [Next]_vars PROVE ControlType'
  OBVIOUS
<1>0. /\ ControlType /\ Len(files) \in Nat \ {0} /\ DOMAIN files = 1..Len(files)
      /\ i \in Nat /\ i \in DOMAIN files
      /\ 1 \in DOMAIN files /\ (i < Len(files) => i + 1 \in DOMAIN files)
  <2>1. ControlType /\ files \in Schemas /\ i \in DOMAIN files
    BY DEF NameInv, ControlType
  <2>2. Len(files) \in Nat \ {0} /\ DOMAIN files = 1..Len(files)
    BY <2>1, FilesAre
  <2>3. QED
    BY <2>1, <2>2
<1>1. m + 1 \in Nat \ {0} /\ fi + 1 \in Nat \ {0} /\ 1 \in Nat \ {0}
  BY <1>0 DEF ControlType
<1>2. CASE NameMessage \/ MessagesNamed \/ NameEnum \/ FileNamed
  BY <1>0, <1>1, <1>2 DEF ControlType, NameMessage, MessagesNamed, NameEnum, FileNamed
<1>3. CASE EnterMessage \/ LeaveMessage \/ PassOver \/ ApplyExtend \/ WalkDone
  BY <1>0, <1>1, <1>3 DEF ControlType, EnterMessage, LeaveMessage, PassOver, ApplyExtend,
     WalkDone, Walking
<1>4. CASE ExtendNothing \/ TypeNotFound \/ OutOfMemory
  <2>1. /\ files' = files /\ i' = i /\ pass' = "failed" /\ m' = m /\ fi' = fi
        /\ failed_source_idx' \in {failed_source_idx, i}
    BY <1>4 DEF ExtendNothing, TypeNotFound, OutOfMemory, Fail, FailAt
  <2>2. QED
    BY <1>0, <2>1 DEF ControlType
<1>5. CASE ResolveField \/ MessageResolved \/ FileResolved
  BY <1>0, <1>1, <1>5 DEF ControlType, ResolveField, MessageResolved, FileResolved, AtField
<1>6. CASE UNCHANGED vars
  BY <1>0, <1>6 DEF ControlType, vars
<1>7. QED
  BY <1>2, <1>3, <1>4, <1>5, <1>6 DEF Next

LEMMA WalkStep == NameInv /\ [Next]_vars => WalkInv' /\ AtStart'
<1> SUFFICES ASSUME NameInv, [Next]_vars PROVE WalkInv' /\ AtStart'
  OBVIOUS
<1>0. /\ files \in Schemas /\ i \in DOMAIN files /\ Walked(i, at, stack, nested) /\ AtStart
      /\ files' = files /\ i' \in DOMAIN files
  <2>1. i' \in DOMAIN files'
    BY ControlStep DEF ControlType
  <2>2. files' = files
    BY DEF Next, NameMessage, MessagesNamed, NameEnum, FileNamed, EnterMessage, LeaveMessage,
       PassOver, ApplyExtend, ExtendNothing, WalkDone, ResolveField, TypeNotFound,
       MessageResolved, FileResolved, OutOfMemory, vars
  <2>3. QED
    BY <2>1, <2>2 DEF NameInv, ControlType, WalkInv
<1>s. WalkInv' <=> Walked(i', at', stack', nested')
  BY <1>0, WalkSame
<1>1. CASE NameMessage \/ MessagesNamed \/ NameEnum \/ FileNamed
           \/ ResolveField \/ MessageResolved \/ FileResolved
  <2>1. pass \in {"names", "enums", "refs"} /\ UNCHANGED walk
    BY <1>1 DEF NameMessage, MessagesNamed, NameEnum, FileNamed, ResolveField,
       MessageResolved, FileResolved, AtField
  <2>2. at' = 1 /\ stack' = <<>> /\ nested' = 0
    BY <1>0, <2>1 DEF AtStart, walk
  <2>3. QED
    BY <1>0, <1>s, <2>2, WalkStart DEF AtStart
<1>2. CASE EnterMessage
  <2>1. /\ pass = "extends" /\ pass' = pass /\ i' = i /\ at <= Len(Text(i))
        /\ Text(i)[at].is = "message"
        /\ at' = at + 1 /\ nested' = nested + 1 /\ stack' = Append(stack, nested + 1)
    BY <1>2 DEF EnterMessage, Walking, Here
  <2>2. Walked(i, at + 1, Append(stack, nested + 1), nested + 1)
    BY <1>0, <2>1, WalkEnter
  <2>3. QED
    BY <1>s, <2>1, <2>2 DEF AtStart
<1>3. CASE LeaveMessage
  <2>1. /\ pass = "extends" /\ pass' = pass /\ i' = i /\ at <= Len(Text(i))
        /\ Text(i)[at].is = "end"
        /\ at' = at + 1 /\ nested' = nested /\ stack' = SubSeq(stack, 1, Len(stack) - 1)
    BY <1>3 DEF LeaveMessage, Walking, Here
  <2>2. Walked(i, at + 1, SubSeq(stack, 1, Len(stack) - 1), nested)
    BY <1>0, <2>1, WalkLeave
  <2>3. QED
    BY <1>s, <2>1, <2>2 DEF AtStart
<1>4. CASE PassOver \/ ApplyExtend
  <2>1. /\ pass = "extends" /\ pass' = pass /\ i' = i /\ at <= Len(Text(i))
        /\ Text(i)[at].is \notin {"message", "end"}
        /\ at' = at + 1 /\ nested' = nested /\ stack' = stack
    BY <1>4 DEF PassOver, ApplyExtend, Walking, Here
  <2>2. Walked(i, at + 1, stack, nested)
    BY <1>0, <2>1, WalkOver
  <2>3. QED
    BY <1>s, <2>1, <2>2 DEF AtStart
<1>5. CASE WalkDone
  <2>1. at' = 1 /\ stack' = <<>> /\ nested' = 0
    BY <1>5 DEF WalkDone, Rewound
  <2>2. QED
    BY <1>0, <1>s, <2>1, WalkStart DEF AtStart
<1>6. CASE ExtendNothing \/ TypeNotFound \/ OutOfMemory
  <2>1. pass' = "failed" /\ i' = i /\ UNCHANGED walk
    BY <1>6 DEF ExtendNothing, TypeNotFound, OutOfMemory
  <2>2. QED
    BY <1>0, <1>s, <2>1 DEF AtStart, walk
<1>7. CASE UNCHANGED vars
  BY <1>0, <1>7, <1>s DEF AtStart, walk, vars
<1>8. QED
  BY <1>1, <1>2, <1>3, <1>4, <1>5, <1>6, <1>7 DEF Next

LEMMA NameStep == NameInv /\ [Next]_vars => NameInv'
<1> SUFFICES ASSUME NameInv, [Next]_vars PROVE NameInv'
  OBVIOUS
<1>1. CASE NameMessage \/ MessagesNamed \/ NameEnum \/ FileNamed
  BY <1>1, NamingStep, ControlStep, WalkStep DEF NameInv
<1>2. CASE ~(NameMessage \/ MessagesNamed \/ NameEnum \/ FileNamed)
  <2>1. NamesKept
    BY <1>2 DEF NamesKept, Next, EnterMessage, LeaveMessage, PassOver, ApplyExtend,
       ExtendNothing, WalkDone, ResolveField, TypeNotFound, MessageResolved, FileResolved,
       OutOfMemory, vars
  <2>2. \/ pass' \in {"refs", "done", "extends"} /\ pass \in {"extends", "refs", "done"}
        \/ pass' = "failed"
        \/ UNCHANGED vars
    <3>1. CASE EnterMessage \/ LeaveMessage \/ PassOver \/ ApplyExtend \/ WalkDone
      BY <3>1 DEF EnterMessage, LeaveMessage, PassOver, ApplyExtend, WalkDone, Walking
    <3>2. CASE ResolveField \/ MessageResolved \/ FileResolved
      BY <3>2 DEF ResolveField, MessageResolved, FileResolved, AtField
    <3>3. CASE ExtendNothing \/ TypeNotFound \/ OutOfMemory
      BY <3>3 DEF ExtendNothing, TypeNotFound, OutOfMemory
    <3>4. QED
      BY <1>2, <3>1, <3>2, <3>3 DEF Next
  <2>3. NamesType' /\ \A f : AllNamed(f)' <=> AllNamed(f)
    BY <2>1, NamedKept DEF NameInv
  <2>4. NamesInv'
    <3>1. CASE pass' \in {"refs", "done", "extends"} /\ pass \in {"extends", "refs", "done"}
      <4>1. pass' \notin {"names", "enums"} /\ \A f \in DOMAIN files : AllNamed(f)'
        BY <2>3, <3>1 DEF NameInv, NamesInv
      <4>2. QED
        BY <2>1, <3>1, <4>1 DEF NamesInv, NamesKept
    <3>2. CASE pass' = "failed"
      BY <3>2 DEF NamesInv
    <3>3. CASE UNCHANGED vars
      BY <3>3, <2>1, NamedKept, SameFiles DEF NameInv, NamesInv, vars, NamesKept
    <3>4. QED
      BY <2>2, <3>1, <3>2, <3>3
  <2>5. QED
    BY <2>3, <2>4, ControlStep, WalkStep DEF NameInv
<1>3. QED
  BY <1>1, <1>2

LEMMA NameHolds == Spec => []NameInv
BY NameInit, NameStep, PTL DEF Spec

-----------------------------------------------------------------------------
(* The variables keep their types for any sources, and the walk over the   *)
(* texts never takes a message past the file's last one.                   *)
THEOREM TypeCorrect == Spec => []TypeOK
<1>1. NameInv => TypeOK
  <2> SUFFICES ASSUME NameInv PROVE TypeOK
    OBVIOUS
  <2>1. ControlType /\ Walked(i, at, stack, nested) /\ NamesType
    BY DEF NameInv, WalkInv
  <2>2. Len(names[i].messages) = Len(Messages(i))
    BY <2>1 DEF NamesType, ControlType
  <2>3. Range(stack) \subseteq 1..nested
    <3>1. stack \in Seq(Nat) /\ \A k \in 1..Len(stack) : stack[k] \in 1..nested
      BY <2>1 DEF Walked
    <3>2. DOMAIN stack = 1..Len(stack)
      BY <3>1, LenProperties
    <3>3. QED
      BY <3>1, <3>2 DEF Range
  <2>4. QED
    BY <2>1, <2>2, <2>3 DEF TypeOK, ControlType, Walked
<1>2. QED
  BY <1>1, NameHolds, PTL

(* compute_scoped_names gives every message and enum of any sources the    *)
(* names of the messages around it, outermost first, after its package.    *)
THEOREM EveryNameIsItsPath == Spec => []NamesArePaths
<1>1. NameInv => NamesArePaths
  <2> SUFFICES ASSUME NameInv, pass \in {"extends", "refs", "done"}, NEW f \in DOMAIN files
               PROVE  names[f] = [messages |-> [k \in DOMAIN Messages(f) |-> FullName(f, Messages(f)[k])],
                                  enums |-> [k \in DOMAIN Enums(f) |-> FullName(f, Enums(f)[k])]]
    BY DEF NamesArePaths, Messages, Enums
  <2>1. AllNamed(f) /\ files \in Schemas /\ NamesType
    BY DEF NameInv, NamesInv, ControlType
  <2>2. /\ Len(Messages(f)) \in Nat /\ DOMAIN Messages(f) = 1..Len(Messages(f))
        /\ Len(Enums(f)) \in Nat /\ DOMAIN Enums(f) = 1..Len(Enums(f))
    BY <2>1, MessagesAre, EnumsAre
  <2>3. /\ \A k \in DOMAIN Messages(f) : names[f].messages[k] = FullName(f, Messages(f)[k])
        /\ \A k \in DOMAIN Enums(f) : names[f].enums[k] = FullName(f, Enums(f)[k])
    BY <2>1, <2>2 DEF AllNamed, MessagesNamedTo, EnumsNamedTo
  <2>4. /\ names[f] \in FileNames
        /\ names[f].messages \in Seq(Seq(Segment)) /\ names[f].enums \in Seq(Seq(Segment))
        /\ DOMAIN names[f].messages = DOMAIN Messages(f)
        /\ DOMAIN names[f].enums = DOMAIN Enums(f)
    BY <2>1, <2>2, NamesAre
  <2>5. ASSUME NEW s \in Seq(Seq(Segment)) PROVE s = [k \in DOMAIN s |-> s[k]]
    <3>1. PICK n \in Nat : s \in [1..n -> Seq(Segment)]
      BY SeqDef
    <3>2. QED
      BY <3>1
  <2>6. /\ names[f].messages = [k \in DOMAIN Messages(f) |-> FullName(f, Messages(f)[k])]
        /\ names[f].enums = [k \in DOMAIN Enums(f) |-> FullName(f, Enums(f)[k])]
    BY <2>3, <2>4, <2>5
  <2>7. names[f] = [messages |-> names[f].messages, enums |-> names[f].enums]
    BY <2>4 DEF FileNames
  <2>8. QED
    BY <2>6, <2>7
<1>2. QED
  BY <1>1, NameHolds, PTL

-----------------------------------------------------------------------------
(* Looking names up.                                                       *)

(* A declaration of g, as its text has it.                                 *)
DeclaredBy(g, d) ==
  /\ d \in TypeRef /\ d.file = g /\ d.kind \in {"message", "enum"}
  /\ \E p \in DOMAIN Text(g) : Text(g)[p].is = d.kind /\ d.name = FullName(g, p)
  /\ d.kind = "message" =>
       d.at \in 1..Len(Messages(g)) /\ d.name = FullName(g, Messages(g)[d.at])

LEMMA DeclaredIs ==
  ASSUME files \in Schemas, NamesType, NEW g \in DOMAIN files, AllNamed(g)
  PROVE  /\ Declared(g) \in Seq(TypeRef)
         /\ Len(Declared(g)) \in Nat /\ DOMAIN Declared(g) = 1..Len(Declared(g))
         /\ \A k \in DOMAIN Declared(g) : DeclaredBy(g, Declared(g)[k])
         /\ \A p \in DOMAIN Text(g) : Text(g)[p].is \in {"message", "enum"} =>
              \E k \in DOMAIN Declared(g) :
                Declared(g)[k].kind = Text(g)[p].is /\ Declared(g)[k].name = FullName(g, p)
<1> DEFINE nm == Len(Messages(g))
           ne == Len(Enums(g))
           message(k) == [kind |-> "message", file |-> g, at |-> k, name |-> names[g].messages[k]]
           enum(k) == [kind |-> "enum", file |-> g, at |-> k, name |-> names[g].enums[k]]
           ms == [k \in 1..nm |-> message(k)]
           es == [k \in 1..ne |-> enum(k)]
<1>1. /\ nm \in Nat /\ ne \in Nat /\ g \in Nat
      /\ names[g].messages \in Seq(Seq(Segment)) /\ DOMAIN names[g].messages = 1..nm
      /\ names[g].enums \in Seq(Seq(Segment)) /\ DOMAIN names[g].enums = 1..ne
  BY NamesAre, MessagesAre, EnumsAre, FilesAre
<1>2. /\ \A k \in 1..nm : names[g].messages[k] = FullName(g, Messages(g)[k])
      /\ \A k \in 1..ne : names[g].enums[k] = FullName(g, Enums(g)[k])
  <2> HIDE DEF nm, ne
  <2>1. (\A k \in 1..nm : k < nm + 1) /\ (\A k \in 1..ne : k < ne + 1)
    BY <1>1
  <2>2. MessagesNamedTo(g, nm + 1) /\ EnumsNamedTo(g, ne + 1)
    BY DEF AllNamed, nm, ne
  <2>3. QED
    BY <2>1, <2>2 DEF MessagesNamedTo, EnumsNamedTo, nm, ne
<1>3. Declared(g) = ms \o es
  BY <1>1 DEF Declared
<1>4. \A k \in 1..nm : message(k) \in TypeRef /\ DeclaredBy(g, message(k))
  <2> SUFFICES ASSUME NEW k \in 1..nm PROVE message(k) \in TypeRef /\ DeclaredBy(g, message(k))
    OBVIOUS
  <2>1. k \in Nat /\ names[g].messages[k] \in Seq(Segment)
    BY <1>1
  <2>2. message(k) \in TypeRef
    BY <1>1, <2>1 DEF TypeRef
  <2>3. Messages(g)[k] \in DOMAIN Text(g) /\ Text(g)[Messages(g)[k]].is = "message"
    BY MessagesAre
  <2>4. QED
    BY <1>2, <2>2, <2>3 DEF DeclaredBy
<1>5. \A k \in 1..ne : enum(k) \in TypeRef /\ DeclaredBy(g, enum(k))
  <2> SUFFICES ASSUME NEW k \in 1..ne PROVE enum(k) \in TypeRef /\ DeclaredBy(g, enum(k))
    OBVIOUS
  <2>1. k \in Nat /\ names[g].enums[k] \in Seq(Segment)
    BY <1>1
  <2>2. enum(k) \in TypeRef
    BY <1>1, <2>1 DEF TypeRef
  <2>3. Enums(g)[k] \in DOMAIN Text(g) /\ Text(g)[Enums(g)[k]].is = "enum"
    BY EnumsAre
  <2>4. QED
    BY <1>2, <2>2, <2>3 DEF DeclaredBy
<1>6. /\ ms \in Seq(TypeRef) /\ Len(ms) = nm /\ \A k \in 1..nm : ms[k] = message(k)
      /\ es \in Seq(TypeRef) /\ Len(es) = ne /\ \A k \in 1..ne : es[k] = enum(k)
  <2> HIDE DEF message, enum
  <2>1. ms \in [1..nm -> TypeRef] /\ es \in [1..ne -> TypeRef]
    BY <1>4, <1>5
  <2>2. ms \in Seq(TypeRef) /\ es \in Seq(TypeRef)
    <3> HIDE DEF ms, es, nm, ne
    <3>1. ASSUME NEW n \in Nat, NEW s \in [1..n -> TypeRef] PROVE s \in Seq(TypeRef)
      BY SeqDef
    <3>2. QED
      BY <1>1, <2>1, <3>1
  <2>3. QED
    BY <1>1, <2>1, <2>2, LenProperties
<1>7. /\ Declared(g) \in Seq(TypeRef) /\ Len(Declared(g)) = nm + ne
      /\ \A k \in 1..(nm + ne) : Declared(g)[k] = IF k <= nm THEN ms[k] ELSE es[k - nm]
  <2> HIDE DEF ms, es, nm, ne
  <2> QED BY <1>3, <1>6, ConcatProperties
<1>8. DOMAIN Declared(g) = 1..(nm + ne)
  BY <1>7, LenProperties
<1> HIDE DEF ms, es, message, enum, nm, ne
<1>9. \A k \in 1..nm : Declared(g)[k] = message(k)
  <2>1. \A k \in 1..nm : k \in 1..(nm + ne) /\ k <= nm
    BY <1>1
  <2>2. QED
    BY <1>6, <1>7, <2>1
<1>10. \A k \in 1..ne : nm + k \in 1..(nm + ne) /\ Declared(g)[nm + k] = enum(k)
  <2> SUFFICES ASSUME NEW k \in 1..ne
               PROVE  nm + k \in 1..(nm + ne) /\ Declared(g)[nm + k] = enum(k)
    OBVIOUS
  <2>1. nm + k \in 1..(nm + ne)
    BY <1>1
  <2>2. ASSUME NEW x \in 1..(nm + ne), x = nm + k PROVE Declared(g)[x] = enum(k)
    <3>1. ~(x <= nm) /\ x - nm = k
      BY <1>1, <2>2
    <3>2. Declared(g)[x] = es[k]
      BY <1>7, <3>1
    <3>3. QED
      BY <1>6, <3>2
  <2>3. QED
    BY <2>1, <2>2
<1>11. \A k \in DOMAIN Declared(g) : DeclaredBy(g, Declared(g)[k])
  <2> SUFFICES ASSUME NEW k \in 1..(nm + ne) PROVE DeclaredBy(g, Declared(g)[k])
    BY <1>8
  <2>1. CASE k <= nm
    BY <1>1, <1>4, <1>9, <2>1
  <2>2. CASE k > nm
    <3>1. k - nm \in 1..ne /\ nm + (k - nm) = k
      BY <1>1, <2>2
    <3>2. QED
      BY <1>5, <1>10, <3>1
  <2>3. QED
    BY <1>1, <2>1, <2>2
<1>12. ASSUME NEW p \in DOMAIN Text(g), Text(g)[p].is \in {"message", "enum"}
       PROVE  \E k \in DOMAIN Declared(g) :
                Declared(g)[k].kind = Text(g)[p].is /\ Declared(g)[k].name = FullName(g, p)
  <2>1. CASE Text(g)[p].is = "message"
    <3>1. PICK k \in 1..nm : Messages(g)[k] = p
      BY <2>1, MessagesAre DEF nm
    <3>2. message(k).kind = "message" /\ message(k).name = FullName(g, p)
      BY <1>2, <3>1 DEF message
    <3>3. k \in DOMAIN Declared(g) /\ Declared(g)[k] = message(k)
      BY <1>1, <1>8, <1>9
    <3>4. QED
      BY <2>1, <3>2, <3>3
  <2>2. CASE Text(g)[p].is = "enum"
    <3>1. PICK k \in 1..ne : Enums(g)[k] = p
      BY <2>2, EnumsAre DEF ne
    <3>2. enum(k).kind = "enum" /\ enum(k).name = FullName(g, p)
      BY <1>2, <3>1 DEF enum
    <3>3. nm + k \in DOMAIN Declared(g) /\ Declared(g)[nm + k] = enum(k)
      BY <1>8, <1>10
    <3>4. QED
      BY <2>2, <3>2, <3>3
  <2>3. QED
    BY <1>12, <2>1, <2>2
<1>13. QED
  BY <1>1, <1>7, <1>8, <1>11, <1>12

NamesIn(g, kinds) == {FullName(g, p) : p \in {q \in DOMAIN Text(g) : Text(g)[q].is \in kinds}}

LEMMA HitsAre ==
  ASSUME files \in Schemas, NamesType, NEW g \in DOMAIN files, AllNamed(g),
         NEW name, NEW kinds \in SUBSET {"message", "enum"}
  PROVE  /\ Hits(name, g, kinds) \in SUBSET Nat
         /\ Hits(name, g, kinds) # {} <=> name \in NamesIn(g, kinds)
         /\ \A k \in Hits(name, g, kinds) :
              /\ DeclaredBy(g, Declared(g)[k])
              /\ Declared(g)[k].name = name /\ Declared(g)[k].kind \in kinds
<1>1. /\ DOMAIN Declared(g) \in SUBSET Nat
      /\ \A k \in DOMAIN Declared(g) : DeclaredBy(g, Declared(g)[k])
  BY DeclaredIs
<1>2. ASSUME NEW k \in Hits(name, g, kinds)
      PROVE  k \in DOMAIN Declared(g) /\ Declared(g)[k].name = name /\ Declared(g)[k].kind \in kinds
  BY DEF Hits
<1>3. ASSUME NEW k \in Hits(name, g, kinds) PROVE name \in NamesIn(g, kinds)
  BY <1>1, <1>2 DEF DeclaredBy, NamesIn
<1>4. ASSUME name \in NamesIn(g, kinds) PROVE Hits(name, g, kinds) # {}
  <2>1. PICK p \in DOMAIN Text(g) : Text(g)[p].is \in kinds /\ name = FullName(g, p)
    BY <1>4 DEF NamesIn
  <2>2. Text(g)[p].is \in {"message", "enum"}
    BY <2>1
  <2>3. PICK k \in DOMAIN Declared(g) :
          Declared(g)[k].kind = Text(g)[p].is /\ Declared(g)[k].name = FullName(g, p)
    BY <2>2, DeclaredIs
  <2>4. QED
    BY <2>1, <2>3 DEF Hits
<1>5. Hits(name, g, kinds) \in SUBSET Nat
  BY <1>1, <1>2
<1>6. QED
  BY <1>1, <1>2, <1>3, <1>4, <1>5
Named == files \in Schemas /\ NamesType /\ \A f \in DOMAIN files : AllNamed(f)

Found(f, kinds, name, r) ==
  /\ r \in TypeRef /\ r.file \in DOMAIN files /\ r.file \in Range(files[f].visible)
  /\ r.kind \in kinds /\ r.name = name
  /\ r.kind = "message" =>
       r.at \in 1..Len(Messages(r.file)) /\ name = FullName(r.file, Messages(r.file)[r.at])

LEMMA LookupIs ==
  ASSUME Named, NEW f \in DOMAIN files, NEW name, NEW kinds \in SUBSET {"message", "enum"}
  PROVE  IF name \in Seen(f, kinds) THEN Found(f, kinds, name, LookupInVisible(name, f, kinds))
         ELSE LookupInVisible(name, f, kinds) = NotFound
<1> DEFINE visible == files[f].visible
           have == {k \in DOMAIN visible : Hits(name, visible[k], kinds) # {}}
           g == visible[Min(have)]
           hit == Min(Hits(name, g, kinds))
<1>1. /\ Len(visible) \in Nat /\ DOMAIN visible = 1..Len(visible)
      /\ \A k \in DOMAIN visible : visible[k] \in DOMAIN files
  <2>1. files[f].visible \in Seq(DOMAIN files)
    BY FilesAre DEF Named
  <2>2. QED
    BY <2>1, LenProperties, ElementOfSeq
<1>2. Range(visible) = {visible[k] : k \in DOMAIN visible}
  BY DEF Range
<1>3. Seen(f, kinds) = UNION {NamesIn(h, kinds) : h \in Range(visible)}
  BY DEF Seen, NamesIn
<1>4. name \in Seen(f, kinds) <=> \E k \in DOMAIN visible : name \in NamesIn(visible[k], kinds)
  BY <1>2, <1>3
<1>5. \A k \in DOMAIN visible :
        Hits(name, visible[k], kinds) # {} <=> name \in NamesIn(visible[k], kinds)
  BY <1>1, HitsAre DEF Named
<1>6. have \in SUBSET Nat /\ have \subseteq DOMAIN visible
  BY <1>1
<1>7. LookupInVisible(name, f, kinds) = IF have = {} THEN NotFound ELSE Declared(g)[hit]
  BY DEF LookupInVisible
<1>8. CASE have = {}
  <2>1. name \notin Seen(f, kinds)
    BY <1>4, <1>5, <1>8
  <2>2. QED
    BY <1>7, <1>8, <2>1
<1>9. CASE have # {}
  <2>1. name \in Seen(f, kinds)
    BY <1>4, <1>5, <1>9
  <2>2. Min(have) \in have
    BY <1>6, <1>9, MinIs
  <2>3. g \in DOMAIN files /\ g \in Range(visible) /\ Hits(name, g, kinds) # {}
    BY <1>1, <1>2, <2>2
  <2>4. hit \in Hits(name, g, kinds)
    <3>1. Hits(name, g, kinds) \in SUBSET Nat
      BY <2>3, HitsAre DEF Named
    <3>2. QED
      BY <2>3, <3>1, MinIs
  <2> HIDE DEF have, g, hit
  <2>5. /\ DeclaredBy(g, Declared(g)[hit])
        /\ Declared(g)[hit].name = name /\ Declared(g)[hit].kind \in kinds
    BY <2>3, <2>4, HitsAre DEF Named
  <2>6. Found(f, kinds, name, Declared(g)[hit])
    BY <2>3, <2>5 DEF Found, DeclaredBy
  <2>7. QED
    BY <1>7, <1>9, <2>1, <2>6
<1>10. QED
  BY <1>8, <1>9

LEMMA NotFoundIsNot ==
  ASSUME NEW f, NEW kinds \in SUBSET {"message", "enum"}, NEW name, NEW r, Found(f, kinds, name, r)
  PROVE  r # NotFound
<1>1. r.kind \in {"message", "enum"}
  BY DEF Found
<1>2. NotFound.kind = "none"
  BY DEF NotFound
<1>3. QED
  BY <1>1, <1>2

(* resolve_named_type's walk outwards from the deepest scope finds what    *)
(* the reference means there, or that it means nothing.                    *)
LEMMA ScopeWalkIs ==
  ASSUME Named, NEW f \in DOMAIN files, NEW p \in 1..(Len(Text(f)) + 1),
         NEW ref \in Reference, NEW kinds \in SUBSET {"message", "enum"}
  PROVE  LET r == ScopeWalk(ref, ScopeAt(f, p), f, kinds)
         IN  \/ r = NotFound /\ MeansNothing(ref, f, p, kinds)
             \/ Found(f, kinds, r.name, r) /\ Means(ref, f, p, kinds, r.name)
<1> DEFINE r == ScopeWalk(ref, ScopeAt(f, p), f, kinds)
           lookup(name) == LookupInVisible(name, f, kinds)
           all == Meanings(ref, f, p)
           seen == Seen(f, kinds)
<1>1. \A name : IF name \in seen THEN Found(f, kinds, name, lookup(name)) ELSE lookup(name) = NotFound
  BY LookupIs
<1>2. \A name : lookup(name) = NotFound <=> name \notin seen
  BY <1>1, NotFoundIsNot
<1>3. \A name : name \in seen => Found(f, kinds, name, lookup(name)) /\ lookup(name).name = name
  BY <1>1 DEF Found
<1>4. CASE Absolute(ref)
  <2>1. r = lookup(Segments(ref)) /\ all = <<Segments(ref)>>
    BY <1>4 DEF ScopeWalk, Meanings
  <2> HIDE DEF r, lookup, all, seen
  <2>2. DOMAIN all = {1} /\ all[1] = Segments(ref) /\ Len(all) = 1
    BY <2>1
  <2>3. CASE Segments(ref) \in seen
    <3>1. Found(f, kinds, r.name, r) /\ r.name = Segments(ref)
      BY <1>3, <2>1, <2>3
    <3>2. \A j \in (1 + 1)..Len(all) : all[j] \notin seen
      BY <2>2
    <3>3. Means(ref, f, p, kinds, r.name)
      BY <2>2, <2>3, <3>1, <3>2 DEF Means, all, seen
    <3>4. QED
      BY <3>1, <3>3 DEF r
  <2>4. CASE Segments(ref) \notin seen
    <3>1. Range(all) \cap seen = {}
      BY <2>2, <2>4 DEF Range
    <3>2. r = NotFound /\ MeansNothing(ref, f, p, kinds)
      BY <1>2, <2>1, <2>4, <3>1 DEF MeansNothing, all, seen
    <3>3. QED
      BY <3>2 DEF r
  <2>5. QED
    BY <2>3, <2>4
<1>5. CASE ~Absolute(ref)
  <2> DEFINE n == Len(ScopeAt(f, p))
             inner(k) == SubSeq(ScopeAt(f, p), 1, k) \o ref
             at_depth == [k \in 0..n |-> lookup(inner(k))]
             hits == {k \in DOMAIN at_depth : at_depth[k] # NotFound}
  <2>1. n \in Nat
    BY ScopeType, LenProperties DEF Named
  <2>2. Segments(ref) = ref
    BY <1>5 DEF Segments
  <2>3. r = IF hits = {} THEN NotFound ELSE at_depth[Max(hits)]
    BY <1>5, <2>2 DEF ScopeWalk
  <2>4. all = [k \in 1..(n + 1) |-> inner(k - 1)]
    BY <1>5 DEF Meanings
  <2>5. \A k \in 0..n : at_depth[k] = lookup(inner(k))
    OBVIOUS
  <2>6. hits = {k \in 0..n : inner(k) \in seen}
    BY <1>2, <2>5
  <2>7. DOMAIN all = 1..(n + 1) /\ (\A k \in 1..(n + 1) : all[k] = inner(k - 1)) /\ Len(all) = n + 1
    <3> HIDE DEF inner, n, all
    <3> QED BY <2>1, <2>4
  <2> HIDE DEF r, lookup, all, seen, at_depth, inner, n
  <2>8. CASE hits = {}
    <3>1. \A k \in 1..(n + 1) : k - 1 \in 0..n
      BY <2>1
    <3>2. Range(all) \cap seen = {}
      BY <2>6, <2>7, <2>8, <3>1 DEF Range
    <3>3. r = NotFound /\ MeansNothing(ref, f, p, kinds)
      BY <2>3, <2>8, <3>2 DEF MeansNothing, all, seen
    <3>4. QED
      BY <3>3 DEF r
  <2>9. CASE hits # {}
    <3> DEFINE d == Max(hits)
    <3>1. hits \in SUBSET (0..n)
      BY <2>6
    <3>2. d \in hits /\ \A k \in hits : k <= d
      BY <2>1, <2>9, <3>1, MaxIs
    <3>3. d \in 0..n /\ inner(d) \in seen
      BY <2>6, <3>2
    <3> HIDE DEF d
    <3>4. r = lookup(inner(d))
      BY <2>3, <2>5, <2>9, <3>3 DEF d
    <3>5. Found(f, kinds, r.name, r) /\ r.name = inner(d)
      BY <1>3, <3>3, <3>4
    <3>6. d + 1 \in DOMAIN all /\ all[d + 1] = inner(d)
      <4>1. d + 1 \in 1..(n + 1) /\ d + 1 - 1 = d
        BY <2>1, <3>3
      <4>2. ASSUME NEW x \in 1..(n + 1), x - 1 = d PROVE all[x] = inner(d)
        BY <2>7, <4>2
      <4>3. QED
        BY <2>1, <2>7, <3>3, <4>1, <4>2
    <3>7. ASSUME NEW j \in (d + 1 + 1)..Len(all) PROVE all[j] \notin seen
      <4>1. j \in 1..(n + 1) /\ j - 1 \in 0..n /\ ~(j - 1 <= d)
        BY <2>1, <2>7, <3>3
      <4>2. inner(j - 1) \notin seen
        BY <2>6, <3>2, <4>1
      <4>3. QED
        BY <2>1, <2>7, <3>3, <4>1, <4>2
    <3>8. Means(ref, f, p, kinds, r.name)
      BY <3>3, <3>5, <3>6, <3>7 DEF Means, all, seen
    <3>9. QED
      BY <3>5, <3>8 DEF r
  <2>10. QED
    BY <2>8, <2>9
<1>6. QED
  BY <1>4, <1>5
-----------------------------------------------------------------------------
(* Fields: where they come from, and where they refer to.  What the steps  *)
(* build is stated of a table F, so that one can speak of the next state.  *)

FieldOf(F, f, k, x) == f \in DOMAIN F /\ k \in DOMAIN F[f] /\ x \in DOMAIN F[f][k]

(* A field is of its message's body, or of an extend that means it.        *)
FieldFrom(f, k, fd) ==
  LET g == fd.parsed[1]
      p == fd.parsed[2]
  IN  /\ g \in DOMAIN files /\ p \in DOMAIN Text(g) /\ fd.packing = files[g].packing
      /\ fd.origin_file = None =>
           g = f /\ Text(g)[p].is = "field" /\ Around(Text(f), p) = Messages(f)[k]
      /\ fd.origin_file # None =>
           /\ fd.origin_file = g /\ fd.origin_scope = ScopeAt(g, p) /\ Text(g)[p].is = "extend"
           /\ Means(Text(g)[p].target, g, p, {"message"}, FullName(f, Messages(f)[k]))

FieldsTyped(F) ==
  /\ F \in [DOMAIN files -> Seq(Seq(FieldRec))]
  /\ \A f \in DOMAIN files : Len(F[f]) = Len(Messages(f))

Ordered(s) ==
  \A x, y \in DOMAIN s : x < y =>
    /\ s[y].origin_file = None => s[x].origin_file = None
    /\ (s[x].origin_file = None <=> s[y].origin_file = None) => Before(s[x].parsed, s[y].parsed)

Apart(F) ==
  \A f, k, x, h, l, y :
    /\ FieldOf(F, f, k, x) /\ FieldOf(F, h, l, y)
    /\ F[f][k][x].parsed = F[h][l][y].parsed
    => f = h /\ k = l /\ x = y

Passed(g, p, j, a) == g < j \/ (g = j /\ p < a)

Sourced(F, j, a) ==
  \A f, k, x : FieldOf(F, f, k, x) =>
    /\ FieldFrom(f, k, F[f][k][x])
    /\ F[f][k][x].origin_file # None =>
         Passed(F[f][k][x].parsed[1], F[f][k][x].parsed[2], j, a)

OrderedAll(F) == \A f \in DOMAIN files : \A k \in 1..Len(Messages(f)) : Ordered(F[f][k])

Holds(F, parsed) == \E f, k, x : FieldOf(F, f, k, x) /\ F[f][k][x].parsed = parsed

NoneMissing(F, j, a) ==
  \A g \in DOMAIN files : \A p \in DOMAIN Text(g) :
    Text(g)[p].is = "extend" /\ Passed(g, p, j, a) =>
      \A n \in DOMAIN Text(g)[p].fields : Holds(F, <<g, p, n>>)

Collected(F, j, a) == Sourced(F, j, a) /\ OrderedAll(F) /\ Apart(F) /\ NoneMissing(F, j, a)

LEMMA FieldsAre ==
  ASSUME files \in Schemas, NEW F, FieldsTyped(F)
  PROVE  /\ DOMAIN F = DOMAIN files
         /\ \A f \in DOMAIN files : /\ F[f] \in Seq(Seq(FieldRec))
                                    /\ DOMAIN F[f] = 1..Len(Messages(f))
         /\ \A f \in DOMAIN files : \A k \in 1..Len(Messages(f)) :
              /\ F[f][k] \in Seq(FieldRec) /\ Len(F[f][k]) \in Nat
              /\ DOMAIN F[f][k] = 1..Len(F[f][k])
         /\ \A f, k, x : FieldOf(F, f, k, x) =>
              /\ f \in DOMAIN files /\ k \in 1..Len(Messages(f)) /\ x \in 1..Len(F[f][k])
              /\ F[f][k][x] \in FieldRec
<1>1. DOMAIN F = DOMAIN files /\ \A f \in DOMAIN files : F[f] \in Seq(Seq(FieldRec))
  BY DEF FieldsTyped
<1>2. \A f \in DOMAIN files : DOMAIN F[f] = 1..Len(Messages(f))
  BY <1>1, LenProperties DEF FieldsTyped
<1>3. ASSUME NEW f \in DOMAIN files, NEW k \in 1..Len(Messages(f))
      PROVE  /\ F[f][k] \in Seq(FieldRec) /\ Len(F[f][k]) \in Nat
             /\ DOMAIN F[f][k] = 1..Len(F[f][k])
             /\ \A x \in 1..Len(F[f][k]) : F[f][k][x] \in FieldRec
  <2>1. F[f][k] \in Seq(FieldRec)
    <3>1. F[f] \in Seq(Seq(FieldRec)) /\ k \in 1..Len(F[f])
      BY <1>1 DEF FieldsTyped
    <3>2. QED
      BY <3>1, ElementOfSeq
  <2>2. QED
    BY <2>1, LenProperties, ElementOfSeq
<1>4. QED
  BY <1>1, <1>2, <1>3 DEF FieldOf

LEMMA FieldRecIs ==
  ASSUME NEW fd \in FieldRec
  PROVE  /\ fd.type \in Type /\ fd.origin_file \in Nat /\ fd.origin_scope \in Seq(Segment)
         /\ fd.parsed \in Nat \X Nat \X Nat
         /\ fd.parsed[1] \in Nat /\ fd.parsed[2] \in Nat /\ fd.parsed[3] \in Nat
         /\ fd.parsed = <<fd.parsed[1], fd.parsed[2], fd.parsed[3]>>
BY DEF FieldRec

(* The builder gives a message the fields of its body, in their order.     *)
LEMMA OwnFieldsAre ==
  ASSUME files \in Schemas, NEW f \in DOMAIN files, NEW p
  PROVE  LET s == OwnFields(f, Text(f), p)
         IN  /\ s \in Seq(FieldRec) /\ Len(s) \in Nat /\ DOMAIN s = 1..Len(s)
             /\ \A x \in DOMAIN s :
                  /\ s[x].origin_file = None /\ s[x].packing = files[f].packing
                  /\ s[x].parsed = <<f, s[x].parsed[2], 1>>
                  /\ s[x].parsed[2] \in DOMAIN Text(f)
                  /\ Text(f)[s[x].parsed[2]].is = "field"
                  /\ Around(Text(f), s[x].parsed[2]) = p
             /\ \A x, y \in DOMAIN s : x < y => s[x].parsed[2] < s[y].parsed[2]
<1> DEFINE S == {q \in DOMAIN Text(f) : Text(f)[q].is = "field" /\ Around(Text(f), q) = p}
           own == InOrder(S)
           n == Cardinality(S)
           fd(q) == [type |-> Text(f)[q].type, parsed |-> <<f, q, 1>>, refs |-> <<>>,
                     origin_file |-> None, origin_scope |-> <<>>, packing |-> files[f].packing]
           s == OwnFields(f, Text(f), p)
<1>1. S \in SUBSET Nat /\ IsFiniteSet(S)
  <2>1. S \subseteq 1..Len(Text(f)) /\ Len(Text(f)) \in Nat
    BY TextIs
  <2>2. IsFiniteSet(1..Len(Text(f)))
    BY <2>1, FS_Interval
  <2>3. QED
    BY <2>1, <2>2, FS_Subset
<1>2. Lists(own, S, n)
  BY <1>1, InOrderLists
<1>3. n \in Nat /\ own \in [1..n -> S] /\ \A x, y \in 1..n : x < y => own[x] < own[y]
  BY <1>2 DEF Lists
<1>4. s = [k \in 1..n |-> fd(own[k])]
  BY <1>3 DEF OwnFields
<1>5. ASSUME NEW q \in S PROVE fd(q) \in FieldRec
  <2>1. Text(f)[q].type \in Type
    BY TextIs, EntryIs
  <2>2. f \in Nat /\ q \in Nat /\ files[f].packing \in STRING
    BY <1>1, FilesAre
  <2>3. <<>> \in Seq(Segment) /\ <<>> \in Seq(TypeRef)
    BY EmptySeq
  <2>4. QED
    BY <2>1, <2>2, <2>3 DEF FieldRec, None
<1>6. \A q \in S : /\ fd(q).origin_file = None /\ fd(q).packing = files[f].packing
                    /\ fd(q).parsed = <<f, q, 1>>
  OBVIOUS
<1>7. \A q \in S : q \in DOMAIN Text(f) /\ Text(f)[q].is = "field" /\ Around(Text(f), q) = p
  OBVIOUS
<1> HIDE DEF S, n, own, fd
<1>8. s \in [1..n -> FieldRec] /\ \A x \in 1..n : s[x] = fd(own[x]) /\ own[x] \in S
  BY <1>3, <1>4, <1>5
<1> HIDE DEF s
<1>9. s \in Seq(FieldRec) /\ Len(s) = n /\ DOMAIN s = 1..n
  <2>1. s \in Seq(FieldRec)
    BY <1>3, <1>8, SeqDef
  <2>2. QED
    BY <1>3, <1>8, <2>1, LenProperties
<1>10. ASSUME NEW x \in 1..n
       PROVE  /\ s[x].origin_file = None /\ s[x].packing = files[f].packing
              /\ s[x].parsed = <<f, s[x].parsed[2], 1>> /\ s[x].parsed[2] = own[x]
  <2>1. s[x].parsed = <<f, own[x], 1>> /\ s[x].origin_file = None /\ s[x].packing = files[f].packing
    BY <1>6, <1>8
  <2>2. QED
    BY <2>1
<1>11. QED
  BY <1>3, <1>7, <1>8, <1>9, <1>10 DEF s
OwnFieldsAll ==
  [f \in DOMAIN files |-> [k \in DOMAIN Messages(f) |-> OwnFields(f, Text(f), Messages(f)[k])]]

LEMMA CollectedBuilt ==
  ASSUME files \in Schemas
  PROVE  FieldsTyped(OwnFieldsAll) /\ Collected(OwnFieldsAll, 1, 1)
<1> DEFINE F == OwnFieldsAll
<1>1. /\ DOMAIN files \in SUBSET Nat /\ \A g \in DOMAIN files : ~(g < 1)
      /\ \A g \in DOMAIN files : DOMAIN Text(g) \in SUBSET Nat
      /\ \A g \in DOMAIN files : \A p \in DOMAIN Text(g) : ~(p < 1)
  BY FilesAre, TextIs
<1>2. \A f \in DOMAIN files : Len(Messages(f)) \in Nat /\ DOMAIN Messages(f) = 1..Len(Messages(f))
  BY MessagesAre
<1>3. \A f \in DOMAIN files : \A k \in 1..Len(Messages(f)) :
        F[f][k] = OwnFields(f, Text(f), Messages(f)[k])
  BY <1>2 DEF OwnFieldsAll
<1>4. FieldsTyped(F)
  <2>1. ASSUME NEW f \in DOMAIN files
        PROVE  F[f] \in Seq(Seq(FieldRec)) /\ Len(F[f]) = Len(Messages(f))
    <3>1. F[f] \in [1..Len(Messages(f)) -> Seq(FieldRec)]
      BY <1>2, OwnFieldsAre DEF OwnFieldsAll
    <3> HIDE DEF F
    <3>2. F[f] \in Seq(Seq(FieldRec))
      BY <1>2, <3>1, SeqDef
    <3>3. QED
      BY <1>2, <3>1, <3>2, LenProperties
  <2>2. F = [f \in DOMAIN files |-> F[f]]
    BY DEF OwnFieldsAll
  <2>3. QED
    BY <2>1, <2>2 DEF FieldsTyped
<1> HIDE DEF F
<1>5. \A f, k, x : FieldOf(F, f, k, x) =>
        /\ f \in DOMAIN files /\ k \in 1..Len(Messages(f))
        /\ x \in DOMAIN F[f][k] /\ x \in Nat
  <2> SUFFICES ASSUME NEW f, NEW k, NEW x, FieldOf(F, f, k, x)
               PROVE  /\ f \in DOMAIN files /\ k \in 1..Len(Messages(f))
                      /\ x \in DOMAIN F[f][k] /\ x \in Nat
    OBVIOUS
  <2>1. f \in DOMAIN files /\ k \in 1..Len(Messages(f)) /\ x \in 1..Len(F[f][k])
    BY <1>4, FieldsAre
  <2>2. x \in DOMAIN F[f][k]
    BY DEF FieldOf
  <2>3. QED
    BY <2>1, <2>2
<1>6. \A f \in DOMAIN files : \A k \in 1..Len(Messages(f)) :
        /\ \A x \in DOMAIN F[f][k] :
             /\ F[f][k][x].origin_file = None /\ F[f][k][x].packing = files[f].packing
             /\ F[f][k][x].parsed = <<f, F[f][k][x].parsed[2], 1>>
             /\ F[f][k][x].parsed[2] \in DOMAIN Text(f)
             /\ Text(f)[F[f][k][x].parsed[2]].is = "field"
             /\ Around(Text(f), F[f][k][x].parsed[2]) = Messages(f)[k]
        /\ \A x, y \in DOMAIN F[f][k] : x < y => F[f][k][x].parsed[2] < F[f][k][y].parsed[2]
  <2> SUFFICES ASSUME NEW f \in DOMAIN files, NEW k \in 1..Len(Messages(f)),
                      NEW s, s = F[f][k]
               PROVE  /\ \A x \in DOMAIN s :
                           /\ s[x].origin_file = None /\ s[x].packing = files[f].packing
                           /\ s[x].parsed = <<f, s[x].parsed[2], 1>>
                           /\ s[x].parsed[2] \in DOMAIN Text(f)
                           /\ Text(f)[s[x].parsed[2]].is = "field"
                           /\ Around(Text(f), s[x].parsed[2]) = Messages(f)[k]
                      /\ \A x, y \in DOMAIN s : x < y => s[x].parsed[2] < s[y].parsed[2]
    OBVIOUS
  <2>1. s = OwnFields(f, Text(f), Messages(f)[k])
    BY <1>3
  <2>2. QED
    BY <2>1, OwnFieldsAre
<1>7. ASSUME NEW f, NEW k, NEW x, FieldOf(F, f, k, x)
      PROVE  FieldFrom(f, k, F[f][k][x]) /\ F[f][k][x].origin_file = None
  <2> DEFINE fd == F[f][k][x]
  <2>1. f \in DOMAIN files /\ k \in 1..Len(Messages(f)) /\ x \in DOMAIN F[f][k]
    BY <1>5, <1>7
  <2>2. /\ fd.origin_file = None /\ fd.packing = files[f].packing
        /\ fd.parsed = <<f, fd.parsed[2], 1>> /\ fd.parsed[2] \in DOMAIN Text(f)
        /\ Text(f)[fd.parsed[2]].is = "field" /\ Around(Text(f), fd.parsed[2]) = Messages(f)[k]
    BY <1>6, <2>1
  <2> HIDE DEF fd
  <2>3. fd.parsed[1] = f
    BY <2>2
  <2>4. QED
    BY <2>1, <2>2, <2>3 DEF FieldFrom, fd
<1>8. ASSUME NEW f \in DOMAIN files, NEW k \in 1..Len(Messages(f)),
             NEW x \in DOMAIN F[f][k], NEW y \in DOMAIN F[f][k], x < y
      PROVE  /\ F[f][k][y].origin_file = None => F[f][k][x].origin_file = None
             /\ Before(F[f][k][x].parsed, F[f][k][y].parsed)
  <2>1. F[f][k][x].parsed[1] = f /\ F[f][k][y].parsed[1] = f
    BY <1>6
  <2>2. F[f][k][x].parsed[2] < F[f][k][y].parsed[2]
    BY <1>6, <1>8
  <2>3. QED
    BY <1>6, <2>1, <2>2 DEF Before
<1>9. ASSUME NEW f, NEW k, NEW x, NEW h, NEW l, NEW y, FieldOf(F, f, k, x), FieldOf(F, h, l, y),
             F[f][k][x].parsed = F[h][l][y].parsed
      PROVE  f = h /\ k = l /\ x = y
  <2>1. /\ f \in DOMAIN files /\ k \in 1..Len(Messages(f)) /\ x \in DOMAIN F[f][k] /\ x \in Nat
        /\ h \in DOMAIN files /\ l \in 1..Len(Messages(h)) /\ y \in DOMAIN F[h][l] /\ y \in Nat
    BY <1>5, <1>9
  <2>2. F[f][k][x].parsed[1] = f /\ F[h][l][y].parsed[1] = h
    BY <1>6, <2>1
  <2>3. f = h
    BY <1>9, <2>2
  <2>4. Messages(f)[k] = Messages(f)[l]
    BY <1>6, <1>9, <2>1, <2>3
  <2>5. k = l
    BY <2>1, <2>3, <2>4, MessagesAre
  <2>6. ~(x < y) /\ ~(y < x)
    <3>1. F[f][k][x].parsed[2] = F[f][k][y].parsed[2]
      BY <1>9, <2>3, <2>5
    <3>2. F[f][k][x].parsed[2] \in Nat
      BY <1>1, <1>6, <2>1
    <3>3. QED
      BY <1>6, <2>1, <2>3, <2>5, <3>1, <3>2
  <2>7. QED
    BY <2>1, <2>3, <2>5, <2>6
<1>10. ASSUME NEW g \in DOMAIN files, NEW p \in DOMAIN Text(g) PROVE ~Passed(g, p, 1, 1)
  BY <1>1 DEF Passed
<1>11. Apart(F)
  BY <1>9 DEF Apart
<1>12. \A f \in DOMAIN files : \A k \in 1..Len(Messages(f)) : Ordered(F[f][k])
  BY <1>8 DEF Ordered
<1>13. Collected(F, 1, 1)
  BY <1>7, <1>10, <1>11, <1>12 DEF Collected, Sourced, OrderedAll, NoneMissing, Holds
<1>14. QED
  BY <1>4, <1>13 DEF F

(* What the fields refer to is no part of where they come from.            *)
LEMMA CollectedSame ==
  ASSUME files \in Schemas, NEW F, NEW G, NEW j, NEW a, FieldsTyped(F), FieldsTyped(G),
         Collected(F, j, a),
         \A f \in DOMAIN files : \A k \in 1..Len(Messages(f)) :
           /\ DOMAIN G[f][k] = DOMAIN F[f][k]
           /\ \A x \in DOMAIN F[f][k] :
                /\ G[f][k][x].parsed = F[f][k][x].parsed
                /\ G[f][k][x].origin_file = F[f][k][x].origin_file
                /\ G[f][k][x].origin_scope = F[f][k][x].origin_scope
                /\ G[f][k][x].packing = F[f][k][x].packing
  PROVE  Collected(G, j, a)
<1>1. \A f, k, x : FieldOf(G, f, k, x) <=> FieldOf(F, f, k, x)
  BY FieldsAre DEF FieldOf
<1>2. \A f, k, x : FieldOf(F, f, k, x) =>
        /\ G[f][k][x].parsed = F[f][k][x].parsed
        /\ G[f][k][x].origin_file = F[f][k][x].origin_file
        /\ G[f][k][x].origin_scope = F[f][k][x].origin_scope
        /\ G[f][k][x].packing = F[f][k][x].packing
  BY FieldsAre
<1>3. ASSUME NEW f, NEW k, NEW x, FieldOf(G, f, k, x)
      PROVE  /\ FieldFrom(f, k, G[f][k][x])
             /\ G[f][k][x].origin_file # None =>
                  Passed(G[f][k][x].parsed[1], G[f][k][x].parsed[2], j, a)
  <2>1. /\ FieldFrom(f, k, F[f][k][x])
        /\ F[f][k][x].origin_file # None =>
             Passed(F[f][k][x].parsed[1], F[f][k][x].parsed[2], j, a)
    BY <1>1, <1>3 DEF Collected, Sourced, OrderedAll, NoneMissing, Holds
  <2>2. /\ G[f][k][x].parsed = F[f][k][x].parsed
        /\ G[f][k][x].origin_file = F[f][k][x].origin_file
        /\ G[f][k][x].origin_scope = F[f][k][x].origin_scope
        /\ G[f][k][x].packing = F[f][k][x].packing
    BY <1>1, <1>2, <1>3
  <2>3. QED
    BY <2>1, <2>2 DEF FieldFrom
<1>4. ASSUME NEW f \in DOMAIN files, NEW k \in 1..Len(Messages(f)) PROVE Ordered(G[f][k])
  <2>1. Ordered(F[f][k])
    BY DEF Collected, Sourced, OrderedAll, NoneMissing, Holds
  <2>2. QED
    BY <2>1 DEF Ordered
<1>5. Apart(G)
  <2>1. Apart(F)
    BY DEF Collected, Sourced, OrderedAll, NoneMissing, Holds
  <2>2. QED
    BY <1>1, <1>2, <2>1 DEF Apart
<1>6. ASSUME NEW g \in DOMAIN files, NEW p \in DOMAIN Text(g), Text(g)[p].is = "extend",
             Passed(g, p, j, a), NEW n \in DOMAIN Text(g)[p].fields
      PROVE  \E f, k, x : FieldOf(G, f, k, x) /\ G[f][k][x].parsed = <<g, p, n>>
  <2>1. PICK f, k, x : FieldOf(F, f, k, x) /\ F[f][k][x].parsed = <<g, p, n>>
    BY <1>6 DEF Collected, Sourced, OrderedAll, NoneMissing, Holds
  <2>2. QED
    BY <1>1, <1>2, <2>1
<1>7. QED
  BY <1>3, <1>4, <1>5, <1>6 DEF Collected, Sourced, OrderedAll, NoneMissing, Holds

(* The cursor goes past what is no extend, and on to the next file.        *)
LEMMA CollectedOn ==
  ASSUME files \in Schemas, NEW F, NEW j \in DOMAIN files, NEW a \in Nat \ {0}, FieldsTyped(F),
         Collected(F, j, a)
  PROVE  /\ a \in DOMAIN Text(j) /\ Text(j)[a].is # "extend" => Collected(F, j, a + 1)
         /\ a > Len(Text(j)) => Collected(F, j + 1, 1)
<1>1. j \in Nat /\ DOMAIN files \in SUBSET Nat /\ \A g \in DOMAIN files :
        DOMAIN Text(g) \in SUBSET Nat /\ DOMAIN Text(g) = 1..Len(Text(g)) /\ Len(Text(g)) \in Nat
  BY FilesAre, TextIs
<1>2. ASSUME NEW f, NEW k, NEW x, FieldOf(F, f, k, x)
      PROVE  F[f][k][x].parsed[1] \in DOMAIN files /\ F[f][k][x].parsed[2] \in DOMAIN Text(F[f][k][x].parsed[1])
  BY <1>2 DEF Collected, Sourced, OrderedAll, NoneMissing, Holds, FieldFrom
<1>3. ASSUME a \in DOMAIN Text(j), Text(j)[a].is # "extend"
      PROVE  Collected(F, j, a + 1)
  <2>1. \A g \in DOMAIN files : \A p \in DOMAIN Text(g) :
          /\ Passed(g, p, j, a) => Passed(g, p, j, a + 1)
          /\ Passed(g, p, j, a + 1) /\ Text(g)[p].is = "extend" => Passed(g, p, j, a)
    <3> SUFFICES ASSUME NEW g \in DOMAIN files, NEW p \in DOMAIN Text(g)
                 PROVE  /\ Passed(g, p, j, a) => Passed(g, p, j, a + 1)
                        /\ Passed(g, p, j, a + 1) /\ ~Passed(g, p, j, a) => g = j /\ p = a
      BY <1>3
    <3>1. g \in Nat /\ p \in Nat
      BY <1>1
    <3>2. QED
      BY <1>1, <3>1 DEF Passed
  <2>2. QED
    BY <1>2, <2>1 DEF Collected, Sourced, OrderedAll, NoneMissing, Holds
<1>4. ASSUME a > Len(Text(j)) PROVE Collected(F, j + 1, 1)
  <2>1. \A g \in DOMAIN files : \A p \in DOMAIN Text(g) :
          Passed(g, p, j, a) <=> Passed(g, p, j + 1, 1)
    <3> SUFFICES ASSUME NEW g \in DOMAIN files, NEW p \in DOMAIN Text(g)
                 PROVE  Passed(g, p, j, a) <=> Passed(g, p, j + 1, 1)
      OBVIOUS
    <3>1. g \in Nat /\ p \in Nat /\ p >= 1 /\ p <= Len(Text(g)) /\ Len(Text(g)) \in Nat
      BY <1>1
    <3>2. g = j => p < a
      BY <1>1, <1>4, <3>1
    <3>3. QED
      BY <1>1, <3>1, <3>2 DEF Passed
  <2>2. QED
    BY <1>2, <2>1 DEF Collected, Sourced, OrderedAll, NoneMissing, Holds
<1>5. QED
  BY <1>3, <1>4
ExtendFields(j, a) ==
  [n \in DOMAIN Text(j)[a].fields |->
     [type |-> Text(j)[a].fields[n], parsed |-> <<j, a, n>>, refs |-> <<>>,
      origin_file |-> j, origin_scope |-> ScopeAt(j, a), packing |-> files[j].packing]]

LEMMA ExtendFieldsAre ==
  ASSUME files \in Schemas, NEW j \in DOMAIN files, NEW a \in DOMAIN Text(j),
         Text(j)[a].is = "extend"
  PROVE  LET s == ExtendFields(j, a)
         IN  /\ s \in Seq(FieldRec) /\ Len(s) \in Nat /\ DOMAIN s = 1..Len(s)
             /\ DOMAIN Text(j)[a].fields = 1..Len(s)
             /\ \A n \in 1..Len(s) :
                  /\ s[n].origin_file = j /\ s[n].origin_scope = ScopeAt(j, a)
                  /\ s[n].packing = files[j].packing /\ s[n].parsed = <<j, a, n>>
<1> DEFINE types == Text(j)[a].fields
           fd(n) == [type |-> types[n], parsed |-> <<j, a, n>>, refs |-> <<>>,
                     origin_file |-> j, origin_scope |-> ScopeAt(j, a),
                     packing |-> files[j].packing]
           s == ExtendFields(j, a)
<1>1. /\ types \in Seq(Type) /\ Len(types) \in Nat /\ DOMAIN types = 1..Len(types)
      /\ \A n \in 1..Len(types) : types[n] \in Type
  <2>1. types \in Seq(Type)
    BY TextIs, EntryIs
  <2>2. QED
    BY <2>1, LenProperties, ElementOfSeq
<1>2. j \in Nat /\ a \in Nat /\ ScopeAt(j, a) \in Seq(Segment) /\ files[j].packing \in STRING
  <2>1. a \in 1..(Len(Text(j)) + 1) /\ a \in Nat
    BY TextIs
  <2>2. QED
    BY <2>1, ScopeType, FilesAre
<1>3. \A n \in 1..Len(types) : fd(n) \in FieldRec
  <2> HIDE DEF types
  <2>1. <<>> \in Seq(TypeRef)
    BY EmptySeq
  <2>2. QED
    BY <1>1, <1>2, <2>1 DEF FieldRec
<1>4. \A n \in 1..Len(types) :
        /\ fd(n).origin_file = j /\ fd(n).origin_scope = ScopeAt(j, a)
        /\ fd(n).packing = files[j].packing /\ fd(n).parsed = <<j, a, n>>
  OBVIOUS
<1>5. s = [n \in 1..Len(types) |-> fd(n)]
  BY <1>1 DEF ExtendFields
<1> HIDE DEF types, fd, s
<1>6. s \in [1..Len(types) -> FieldRec] /\ \A n \in 1..Len(types) : s[n] = fd(n)
  BY <1>3, <1>5
<1>7. s \in Seq(FieldRec)
  BY <1>1, <1>6, SeqDef
<1>8. Len(s) = Len(types) /\ DOMAIN s = 1..Len(types)
  BY <1>1, <1>6, <1>7, LenProperties
<1>9. QED
  BY <1>1, <1>4, <1>6, <1>7, <1>8 DEF s, types

(* apply_extend: the fields after those the target has.                    *)
WithFields(F, f, k, added) == [F EXCEPT ![f][k] = @ \o added]

Grown(F, G, f, k, added) ==
  /\ FieldsTyped(G)
  /\ \A h \in DOMAIN files : \A l \in 1..Len(Messages(h)) : ~(h = f /\ l = k) => G[h][l] = F[h][l]
  /\ Len(G[f][k]) = Len(F[f][k]) + Len(added)
  /\ \A x \in 1..Len(F[f][k]) : G[f][k][x] = F[f][k][x]
  /\ \A n \in 1..Len(added) : G[f][k][Len(F[f][k]) + n] = added[n]

LEMMA Extended ==
  ASSUME files \in Schemas, NEW F, FieldsTyped(F), NEW f \in DOMAIN files,
         NEW k \in 1..Len(Messages(f)), NEW added \in Seq(FieldRec), NEW G,
         G = WithFields(F, f, k, added)
  PROVE  Grown(F, G, f, k, added)
<1> DEFINE old == F[f][k]
<1>1. /\ F \in [DOMAIN files -> Seq(Seq(FieldRec))]
      /\ F[f] \in Seq(Seq(FieldRec)) /\ Len(F[f]) = Len(Messages(f)) /\ DOMAIN F[f] = 1..Len(Messages(f))
      /\ old \in Seq(FieldRec) /\ Len(old) \in Nat /\ Len(added) \in Nat
  BY FieldsAre, LenProperties DEF FieldsTyped
<1>2. /\ old \o added \in Seq(FieldRec)
      /\ Len(old \o added) = Len(old) + Len(added)
      /\ \A x \in 1..(Len(old) + Len(added)) :
           (old \o added)[x] = IF x <= Len(old) THEN old[x] ELSE added[x - Len(old)]
  <2> HIDE DEF old
  <2> QED BY <1>1, ConcatProperties
<1>3. G = [F EXCEPT ![f] = [F[f] EXCEPT ![k] = old \o added]]
  BY DEF WithFields
<1> DEFINE row == [F[f] EXCEPT ![k] = old \o added]
<1>4. row \in Seq(Seq(FieldRec)) /\ Len(row) = Len(F[f]) /\ row[k] = old \o added
      /\ \A l \in 1..Len(Messages(f)) : l # k => row[l] = F[f][l]
  <2> HIDE DEF old
  <2>1. row \in Seq(Seq(FieldRec)) /\ Len(row) = Len(F[f])
    BY <1>1, <1>2, ExceptSeq
  <2>2. QED
    BY <1>1, <2>1
<1> HIDE DEF row
<1>5. G[f] = row /\ \A h \in DOMAIN files : h # f => G[h] = F[h]
  BY <1>1, <1>3 DEF row
<1>6. G \in [DOMAIN files -> Seq(Seq(FieldRec))]
  BY <1>1, <1>3, <1>4 DEF row
<1>7. \A h \in DOMAIN files : Len(G[h]) = Len(Messages(h))
  BY <1>1, <1>4, <1>5 DEF FieldsTyped
<1>8. G[f][k] = old \o added
  BY <1>4, <1>5
<1> HIDE DEF old
<1>9. \A x \in 1..Len(old) : G[f][k][x] = old[x]
  <2>1. \A x \in 1..Len(old) : x \in 1..(Len(old) + Len(added)) /\ x <= Len(old)
    BY <1>1
  <2>2. QED
    BY <1>2, <1>8, <2>1
<1>10. ASSUME NEW n \in 1..Len(added) PROVE G[f][k][Len(old) + n] = added[n]
  <2> DEFINE no == Len(old)
             na == Len(added)
  <2>1. no \in Nat /\ na \in Nat /\ n \in 1..na
    BY <1>1
  <2>2. \A x \in 1..(no + na) : G[f][k][x] = IF x <= no THEN old[x] ELSE added[x - no]
    BY <1>2, <1>8
  <2> HIDE DEF no, na
  <2>3. ASSUME NEW x \in 1..(no + na), x = no + n PROVE G[f][k][x] = added[n]
    <3>1. ~(x <= no) /\ x - no = n
      BY <2>1, <2>3
    <3>2. QED
      BY <2>2, <3>1
  <2>4. no + n \in 1..(no + na)
    BY <2>1
  <2>5. G[f][k][no + n] = added[n]
    BY <2>1, <2>3, <2>4
  <2>6. QED
    BY <2>5 DEF no
<1>11. QED
  BY <1>2, <1>4, <1>5, <1>6, <1>7, <1>8, <1>9, <1>10 DEF Grown, FieldsTyped, old
LEMMA CollectedExtend ==
  ASSUME files \in Schemas, NEW F, NEW j \in DOMAIN files, NEW a \in DOMAIN Text(j),
         Text(j)[a].is = "extend", FieldsTyped(F), Collected(F, j, a),
         NEW f \in DOMAIN files, NEW k \in 1..Len(Messages(f)),
         Means(Text(j)[a].target, j, a, {"message"}, FullName(f, Messages(f)[k])),
         NEW G, Grown(F, G, f, k, ExtendFields(j, a))
  PROVE  Collected(G, j, a + 1)
<1> DEFINE added == ExtendFields(j, a)
           no == Len(F[f][k])
           na == Len(added)
           old(h, l, x) == FieldOf(F, h, l, x) /\ G[h][l][x] = F[h][l][x]
           new(h, l, x, n) == h = f /\ l = k /\ n \in 1..na /\ x = no + n /\ G[h][l][x] = added[n]
<1>1. /\ added \in Seq(FieldRec) /\ na \in Nat /\ DOMAIN added = 1..na
      /\ DOMAIN Text(j)[a].fields = 1..na
      /\ \A n \in 1..na : /\ added[n].origin_file = j /\ added[n].origin_scope = ScopeAt(j, a)
                          /\ added[n].packing = files[j].packing /\ added[n].parsed = <<j, a, n>>
  BY ExtendFieldsAre
<1> HIDE DEF added
<1>2. /\ FieldsTyped(G)
      /\ \A h \in DOMAIN files : \A l \in 1..Len(Messages(h)) : ~(h = f /\ l = k) => G[h][l] = F[h][l]
      /\ Len(G[f][k]) = no + na
      /\ \A x \in 1..no : G[f][k][x] = F[f][k][x]
      /\ \A n \in 1..na : G[f][k][no + n] = added[n]
  BY DEF added, Grown
<1>3. /\ j \in Nat /\ j >= 1 /\ a \in Nat /\ no \in Nat
      /\ DOMAIN files \in SUBSET Nat /\ \A g \in DOMAIN files : DOMAIN Text(g) \in SUBSET Nat
  <2>1. DOMAIN files \in SUBSET Nat /\ j \in Nat /\ j >= 1
    BY FilesAre
  <2>2. \A g \in DOMAIN files : DOMAIN Text(g) \in SUBSET Nat
    BY TextIs
  <2>3. no \in Nat
    BY FieldsAre DEF no
  <2>4. QED
    BY <2>1, <2>2, <2>3
<1> HIDE DEF no, na, old, new
<1>4. ASSUME NEW h, NEW l, NEW x, FieldOf(G, h, l, x) PROVE old(h, l, x) \/ \E n : new(h, l, x, n)
  <2>1. h \in DOMAIN files /\ l \in 1..Len(Messages(h)) /\ x \in 1..Len(G[h][l])
    BY <1>2, <1>4, FieldsAre
  <2>2. CASE ~(h = f /\ l = k)
    <3>1. G[h][l] = F[h][l]
      BY <1>2, <2>1, <2>2
    <3>2. QED
      BY <2>1, <3>1, FieldsAre DEF FieldOf, old
  <2>3. CASE h = f /\ l = k
    <3>1. x \in 1..(no + na)
      BY <1>2, <2>1, <2>3
    <3>2. CASE x <= no
      <4>1. x \in 1..no
        BY <1>3, <3>1, <3>2
      <4>2. QED
        BY <1>2, <2>1, <2>3, <4>1, FieldsAre DEF FieldOf, old, no
    <3>3. CASE x > no
      <4>1. PICK n \in 1..na : x = no + n
        <5>1. x - no \in 1..na /\ x = no + (x - no)
          BY <1>1, <1>3, <3>1, <3>3
        <5>2. QED
          BY <5>1
      <4>2. QED
        BY <1>2, <2>3, <4>1 DEF new
    <3>4. QED
      BY <1>1, <1>3, <3>1, <3>2, <3>3
  <2>4. QED
    BY <2>2, <2>3
<1>5. ASSUME NEW h, NEW l, NEW x, FieldOf(F, h, l, x)
      PROVE  FieldOf(G, h, l, x) /\ G[h][l][x] = F[h][l][x]
  <2>1. h \in DOMAIN files /\ l \in 1..Len(Messages(h)) /\ x \in 1..Len(F[h][l])
    BY <1>5, FieldsAre
  <2>2. CASE ~(h = f /\ l = k)
    <3>1. G[h][l] = F[h][l]
      BY <1>2, <2>1, <2>2
    <3>2. QED
      BY <1>2, <1>5, <2>1, <3>1, FieldsAre DEF FieldOf
  <2>3. CASE h = f /\ l = k
    <3>1. x \in 1..no
      BY <2>1, <2>3 DEF no
    <3>2. x \in 1..(no + na)
      BY <1>1, <1>3, <3>1
    <3>3. QED
      BY <1>2, <2>1, <2>3, <3>1, <3>2, FieldsAre DEF FieldOf
  <2>4. QED
    BY <2>2, <2>3
<1>6. ASSUME NEW n \in 1..na
      PROVE  FieldOf(G, f, k, no + n) /\ G[f][k][no + n].parsed = <<j, a, n>>
  <2>1. no + n \in 1..(no + na)
    BY <1>1, <1>3
  <2>2. QED
    BY <1>1, <1>2, <2>1, FieldsAre DEF FieldOf
<1>7. ASSUME NEW h, NEW l, NEW x, old(h, l, x)
      PROVE  /\ FieldFrom(h, l, G[h][l][x])
             /\ G[h][l][x].origin_file # None =>
                  Passed(G[h][l][x].parsed[1], G[h][l][x].parsed[2], j, a)
             /\ ~(G[h][l][x].parsed[1] = j /\ G[h][l][x].parsed[2] = a)
  <2> DEFINE fd == G[h][l][x]
  <2>1. /\ FieldFrom(h, l, fd)
        /\ fd.origin_file # None => Passed(fd.parsed[1], fd.parsed[2], j, a)
    BY <1>7 DEF Collected, Sourced, OrderedAll, NoneMissing, Holds, old
  <2>2. fd.origin_file = None => Text(fd.parsed[1])[fd.parsed[2]].is = "field"
    BY <2>1 DEF FieldFrom
  <2>3. ~Passed(j, a, j, a)
    BY <1>3 DEF Passed
  <2>4. QED
    BY <2>1, <2>2, <2>3
<1>8. ASSUME NEW h, NEW l, NEW x, NEW n, new(h, l, x, n)
      PROVE  /\ FieldFrom(h, l, G[h][l][x])
             /\ G[h][l][x].origin_file = j /\ j # None
             /\ G[h][l][x].parsed = <<j, a, n>>
             /\ G[h][l][x].parsed[1] = j /\ G[h][l][x].parsed[2] = a /\ G[h][l][x].parsed[3] = n
             /\ h = f /\ l = k /\ n \in Nat /\ x = no + n
  <2>1. /\ G[h][l][x].origin_file = j /\ G[h][l][x].origin_scope = ScopeAt(j, a)
        /\ G[h][l][x].packing = files[j].packing /\ G[h][l][x].parsed = <<j, a, n>>
    BY <1>1, <1>8 DEF new
  <2>2. G[h][l][x].parsed[1] = j /\ G[h][l][x].parsed[2] = a /\ G[h][l][x].parsed[3] = n
    BY <2>1
  <2>3. j # None
    BY <1>3 DEF None
  <2>4. QED
    BY <1>8, <2>1, <2>2, <2>3 DEF FieldFrom, new
<1>9. \A g, p : Passed(g, p, j, a) => Passed(g, p, j, a + 1) \/ ~(p \in Nat)
  BY <1>3 DEF Passed
<1>10. Passed(j, a, j, a + 1)
  BY <1>3 DEF Passed
<1>11. ASSUME NEW h, NEW l, NEW x, FieldOf(G, h, l, x)
       PROVE  /\ FieldFrom(h, l, G[h][l][x])
              /\ G[h][l][x].origin_file # None =>
                   Passed(G[h][l][x].parsed[1], G[h][l][x].parsed[2], j, a + 1)
  <2>1. CASE old(h, l, x)
    <3>1. /\ FieldFrom(h, l, G[h][l][x])
          /\ G[h][l][x].origin_file # None =>
               Passed(G[h][l][x].parsed[1], G[h][l][x].parsed[2], j, a)
      BY <1>7, <2>1
    <3>2. G[h][l][x].parsed[2] \in Nat
      BY <1>3, <3>1 DEF FieldFrom
    <3>3. QED
      BY <1>9, <3>1, <3>2
  <2>2. ASSUME NEW n, new(h, l, x, n)
        PROVE  FieldFrom(h, l, G[h][l][x]) /\ Passed(G[h][l][x].parsed[1], G[h][l][x].parsed[2], j, a + 1)
    <3>1. FieldFrom(h, l, G[h][l][x]) /\ G[h][l][x].parsed[1] = j /\ G[h][l][x].parsed[2] = a
      BY <1>8, <2>2
    <3>2. QED
      BY <1>10, <3>1
  <2>3. QED
    BY <1>4, <1>11, <2>1, <2>2
<1>12. ASSUME NEW h \in DOMAIN files, NEW l \in 1..Len(Messages(h)) PROVE Ordered(G[h][l])
  <2>1. Ordered(F[h][l])
    BY DEF Collected, Sourced, OrderedAll, NoneMissing, Holds
  <2> SUFFICES ASSUME NEW x \in DOMAIN G[h][l], NEW y \in DOMAIN G[h][l], x < y
               PROVE  /\ G[h][l][y].origin_file = None => G[h][l][x].origin_file = None
                      /\ (G[h][l][x].origin_file = None <=> G[h][l][y].origin_file = None) =>
                           Before(G[h][l][x].parsed, G[h][l][y].parsed)
    BY DEF Ordered
  <2>2. FieldOf(G, h, l, x) /\ FieldOf(G, h, l, y) /\ x \in Nat /\ y \in Nat
    <3>1. /\ DOMAIN G = DOMAIN files /\ DOMAIN G[h] = 1..Len(Messages(h))
          /\ DOMAIN G[h][l] = 1..Len(G[h][l])
      BY <1>2, FieldsAre
    <3>2. x \in Nat /\ y \in Nat
      BY <3>1
    <3>3. QED
      BY <3>1, <3>2 DEF FieldOf
  <2>3. CASE old(h, l, x) /\ old(h, l, y)
    BY <2>1, <2>3 DEF Ordered, FieldOf, old
  <2>4. ASSUME NEW n, old(h, l, x), new(h, l, y, n)
        PROVE  /\ G[h][l][y].origin_file # None
               /\ G[h][l][x].origin_file # None => Before(G[h][l][x].parsed, G[h][l][y].parsed)
    <3>1. G[h][l][y].origin_file # None /\ G[h][l][y].parsed[1] = j /\ G[h][l][y].parsed[2] = a
      BY <1>8, <2>4
    <3>2. G[h][l][x].origin_file # None =>
            Passed(G[h][l][x].parsed[1], G[h][l][x].parsed[2], j, a)
      BY <1>7, <2>4
    <3>3. QED
      BY <3>1, <3>2 DEF Before, Passed
  <2>5. ASSUME NEW n, NEW o, new(h, l, x, n), new(h, l, y, o)
        PROVE  /\ G[h][l][x].origin_file # None /\ G[h][l][y].origin_file # None
               /\ Before(G[h][l][x].parsed, G[h][l][y].parsed)
    <3>1. /\ G[h][l][x].origin_file # None
          /\ G[h][l][x].parsed[1] = j /\ G[h][l][x].parsed[2] = a /\ G[h][l][x].parsed[3] = n
          /\ n \in Nat /\ x = no + n
      BY <1>8, <2>5
    <3>2. /\ G[h][l][y].origin_file # None
          /\ G[h][l][y].parsed[1] = j /\ G[h][l][y].parsed[2] = a /\ G[h][l][y].parsed[3] = o
          /\ o \in Nat /\ y = no + o
      BY <1>8, <2>5
    <3>3. n < o
      BY <1>3, <2>2, <3>1, <3>2
    <3>4. QED
      BY <3>1, <3>2, <3>3 DEF Before
  <2>6. ASSUME NEW n, new(h, l, x, n), old(h, l, y) PROVE FALSE
    <3>1. h = f /\ l = k /\ n \in Nat /\ x = no + n
      BY <1>8, <2>6
    <3>2. y \in 1..no
      BY <2>6, <3>1, FieldsAre DEF old, no
    <3>3. QED
      BY <1>3, <2>2, <3>1, <3>2
  <2>7. QED
    BY <1>4, <2>2, <2>3, <2>4, <2>5, <2>6
<1>13. ASSUME NEW h, NEW l, NEW x, NEW d, NEW e, NEW y, FieldOf(G, h, l, x), FieldOf(G, d, e, y),
              G[h][l][x].parsed = G[d][e][y].parsed
       PROVE  h = d /\ l = e /\ x = y
  <2>1. CASE old(h, l, x) /\ old(d, e, y)
    BY <1>13, <2>1 DEF Collected, Sourced, OrderedAll, NoneMissing, Holds, Apart, old
  <2>2. ASSUME NEW n, old(h, l, x), new(d, e, y, n) PROVE FALSE
    <3>1. G[d][e][y].parsed[1] = j /\ G[d][e][y].parsed[2] = a
      BY <1>8, <2>2
    <3>2. QED
      BY <1>7, <1>13, <2>2, <3>1
  <2>3. ASSUME NEW n, new(h, l, x, n), old(d, e, y) PROVE FALSE
    <3>1. G[h][l][x].parsed[1] = j /\ G[h][l][x].parsed[2] = a
      BY <1>8, <2>3
    <3>2. QED
      BY <1>7, <1>13, <2>3, <3>1
  <2>4. ASSUME NEW n, NEW o, new(h, l, x, n), new(d, e, y, o) PROVE h = d /\ l = e /\ x = y
    <3>1. G[h][l][x].parsed[3] = n /\ h = f /\ l = k /\ x = no + n
      BY <1>8, <2>4
    <3>2. G[d][e][y].parsed[3] = o /\ d = f /\ e = k /\ y = no + o
      BY <1>8, <2>4
    <3>3. n = o
      BY <1>13, <3>1, <3>2
    <3>4. QED
      BY <3>1, <3>2, <3>3
  <2>5. QED
    BY <1>4, <1>13, <2>1, <2>2, <2>3, <2>4
<1>14. ASSUME NEW g \in DOMAIN files, NEW p \in DOMAIN Text(g), Text(g)[p].is = "extend",
              Passed(g, p, j, a + 1), NEW n \in DOMAIN Text(g)[p].fields
       PROVE  \E h, l, x : FieldOf(G, h, l, x) /\ G[h][l][x].parsed = <<g, p, n>>
  <2>1. Passed(g, p, j, a) \/ (g = j /\ p = a)
    <3>1. g \in Nat /\ p \in Nat
      BY <1>3
    <3>2. QED
      BY <1>3, <1>14, <3>1 DEF Passed
  <2>2. CASE Passed(g, p, j, a)
    <3>1. PICK h, l, x : FieldOf(F, h, l, x) /\ F[h][l][x].parsed = <<g, p, n>>
      BY <1>14, <2>2 DEF Collected, Sourced, OrderedAll, NoneMissing, Holds
    <3>2. QED
      BY <1>5, <3>1
  <2>3. CASE g = j /\ p = a
    <3>1. n \in 1..na
      BY <1>1, <2>3
    <3>2. QED
      BY <1>6, <2>3, <3>1
  <2>4. QED
    BY <2>1, <2>2, <2>3
<1>15. Apart(G)
  BY <1>13 DEF Apart
<1>16. QED
  BY <1>2, <1>11, <1>12, <1>14, <1>15 DEF Collected, Sourced, OrderedAll, NoneMissing, Holds
-----------------------------------------------------------------------------
(* References.                                                             *)

(* A field's place, however it is kept.                                    *)
LEMMA FieldPlace ==
  ASSUME Named, NEW f \in DOMAIN files, NEW k \in 1..Len(Messages(f)), NEW fd, FieldFrom(f, k, fd)
  PROVE  LET g == fd.parsed[1]
             p == fd.parsed[2]
         IN  /\ g \in DOMAIN files /\ p \in DOMAIN Text(g) /\ p \in 1..(Len(Text(g)) + 1)
             /\ fd.origin_file = None => g = f /\ names[f].messages[k] = ScopeAt(g, p)
             /\ fd.origin_file # None => fd.origin_file = g /\ fd.origin_scope = ScopeAt(g, p)
<1> DEFINE g == fd.parsed[1]
           p == fd.parsed[2]
<1>1. /\ g \in DOMAIN files /\ p \in DOMAIN Text(g)
      /\ fd.origin_file = None => g = f /\ Around(Text(f), p) = Messages(f)[k]
      /\ fd.origin_file # None => fd.origin_file = g /\ fd.origin_scope = ScopeAt(g, p)
  BY DEF FieldFrom
<1> HIDE DEF g, p
<1>2. p \in 1..(Len(Text(g)) + 1) /\ p \in Nat
  BY <1>1, TextIs DEF Named
<1>3. ASSUME fd.origin_file = None PROVE names[f].messages[k] = ScopeAt(g, p)
  <2>1. g = f /\ Around(Text(f), p) = Messages(f)[k]
    BY <1>1, <1>3
  <2>2. Messages(f)[k] \in DOMAIN Text(f) /\ Messages(f)[k] # 0
    BY MessagesAre, TextIs DEF Named
  <2>3. OpenAt(Text(f), p) # {}
    BY <1>2, <2>1, <2>2, AroundIs
  <2>4. ScopeAt(f, p) = FullName(f, Messages(f)[k])
    BY <1>2, <2>1, <2>3, ScopeInside DEF Named
  <2>5. names[f].messages[k] = FullName(f, Messages(f)[k])
    <3> DEFINE n == Len(Messages(f))
    <3>1. MessagesNamedTo(f, n + 1) /\ n \in Nat
      BY MessagesAre DEF Named, AllNamed
    <3>2. k \in 1..n /\ k < n + 1
      BY <3>1
    <3>3. QED
      BY <3>1, <3>2 DEF MessagesNamedTo
  <2>6. QED
    BY <2>1, <2>4, <2>5
<1>4. QED
  BY <1>1, <1>2, <1>3 DEF g, p

LEMMA ResolveIs ==
  ASSUME Named, NEW f \in DOMAIN files, NEW p \in 1..(Len(Text(f)) + 1), NEW ref \in Reference
  PROVE  LET r == ResolveNamedType(ref, ScopeAt(f, p), f)
         IN  /\ r \in TypeRef
             /\ r = NotFound => ref \notin Builtin /\ MeansNothing(ref, f, p, {"message", "enum"})
             /\ r # NotFound =>
                  IF ref \in Builtin THEN r.kind = "builtin"
                  ELSE /\ r.file \in Range(files[f].visible)
                       /\ Means(ref, f, p, {"message", "enum"}, r.name)
<1> DEFINE r == ResolveNamedType(ref, ScopeAt(f, p), f)
<1>1. CASE ref \in Builtin
  <2>1. r = [kind |-> "builtin", file |-> None, at |-> None, name |-> ref]
    BY <1>1 DEF ResolveNamedType
  <2>2. ref \in Seq(Segment)
    BY DEF Reference
  <2> HIDE DEF r
  <2>3. r \in TypeRef
    BY <2>1, <2>2 DEF TypeRef, None
  <2>4. r.kind = "builtin" /\ NotFound.kind = "none"
    BY <2>1 DEF NotFound
  <2>5. r # NotFound
    BY <2>4
  <2>6. QED
    BY <1>1, <2>3, <2>4, <2>5 DEF r
<1>2. CASE ref \notin Builtin
  <2>1. r = ScopeWalk(ref, ScopeAt(f, p), f, {"message", "enum"})
    BY <1>2 DEF ResolveNamedType
  <2> HIDE DEF r
  <2>2. \/ r = NotFound /\ MeansNothing(ref, f, p, {"message", "enum"})
        \/ Found(f, {"message", "enum"}, r.name, r) /\ Means(ref, f, p, {"message", "enum"}, r.name)
    BY <2>1, ScopeWalkIs
  <2>3. NotFound \in TypeRef
    BY EmptySeq DEF NotFound, TypeRef, None
  <2>4. CASE r = NotFound /\ MeansNothing(ref, f, p, {"message", "enum"})
    BY <1>2, <2>3, <2>4 DEF r
  <2>5. CASE Found(f, {"message", "enum"}, r.name, r) /\ Means(ref, f, p, {"message", "enum"}, r.name)
    <3>1. r # NotFound
      BY <2>5, NotFoundIsNot
    <3>2. r \in TypeRef /\ r.file \in Range(files[f].visible)
      BY <2>5 DEF Found
    <3>3. QED
      BY <1>2, <2>5, <3>1, <3>2 DEF r
  <2>6. QED
    BY <2>2, <2>4, <2>5
<1>3. QED
  BY <1>1, <1>2

LEMMA TypeIs ==
  ASSUME NEW type \in Type, NEW S, NEW s, DOMAIN s = DOMAIN type, s = [t \in DOMAIN type |-> s[t]],
         \A t \in DOMAIN type : s[t] \in S
  PROVE  s \in Seq(S) /\ Len(s) = Len(type) /\ \A t \in DOMAIN type : type[t] \in Reference
<1>1. PICK n \in {1, 2} : type \in [1..n -> Reference]
  BY DEF Type
<1>2. s \in [1..n -> S] /\ n \in Nat
  BY <1>1
<1>3. s \in Seq(S) /\ type \in Seq(Reference)
  BY <1>1, <1>2, SeqDef
<1>4. Len(s) = n /\ Len(type) = n
  BY <1>1, <1>2, <1>3, LenProperties
<1>5. QED
  BY <1>1, <1>3, <1>4

(* resolve_field_type leaves what the field means, or fails with cause.    *)
LEMMA RefsAre ==
  ASSUME Named, FieldsTyped(fields), i \in DOMAIN files, m \in 1..Len(Messages(i)),
         FieldOf(fields, i, m, fi), FieldFrom(i, m, Field)
  PROVE  /\ Refs \in Seq(TypeRef) /\ Len(Refs) = Len(Field.type)
         /\ NotFound \notin Range(Refs) =>
              \A t \in DOMAIN Field.type :
                IF Field.type[t] \in Builtin THEN Refs[t].kind = "builtin"
                ELSE /\ Refs[t].file \in Range(files[Field.parsed[1]].visible)
                     /\ Means(Field.type[t], Field.parsed[1], Field.parsed[2], {"message", "enum"},
                              Refs[t].name)
         /\ NotFound \in Range(Refs) =>
              \E t \in DOMAIN Field.type :
                /\ Field.type[t] \notin Builtin
                /\ MeansNothing(Field.type[t], Field.parsed[1], Field.parsed[2], {"message", "enum"})
<1> DEFINE fd == Field
           g == fd.parsed[1]
           p == fd.parsed[2]
           refs == Refs
<1>1. fd \in FieldRec
  BY FieldsAre DEF Named, Field
<1>2. fd.type \in Type
  BY <1>1, FieldRecIs
<1>3. /\ g \in DOMAIN files /\ p \in 1..(Len(Text(g)) + 1)
      /\ fd.origin_file = None => g = i /\ names[i].messages[m] = ScopeAt(g, p)
      /\ fd.origin_file # None => fd.origin_file = g /\ fd.origin_scope = ScopeAt(g, p)
  BY FieldPlace
<1>4. DOMAIN refs = DOMAIN fd.type /\ refs = [t \in DOMAIN fd.type |-> refs[t]]
  BY DEF Refs
<1>5. \A t \in DOMAIN fd.type : refs[t] = ResolveNamedType(fd.type[t], ScopeAt(g, p), g)
  <2>1. \A t \in DOMAIN fd.type :
          refs[t] = IF fd.origin_file # None
                    THEN ResolveNamedType(fd.type[t], fd.origin_scope, fd.origin_file)
                    ELSE ResolveNamedType(fd.type[t], names[i].messages[m], i)
    BY DEF Refs
  <2> HIDE DEF fd, g, p, refs
  <2>2. QED
    BY <1>3, <2>1
<1> HIDE DEF fd, g, p, refs
<1>6. \A t \in DOMAIN fd.type : fd.type[t] \in Reference
  BY <1>2 DEF Type
<1>7. \A t \in DOMAIN fd.type :
        /\ refs[t] \in TypeRef
        /\ refs[t] = NotFound =>
             fd.type[t] \notin Builtin /\ MeansNothing(fd.type[t], g, p, {"message", "enum"})
        /\ refs[t] # NotFound =>
             IF fd.type[t] \in Builtin THEN refs[t].kind = "builtin"
             ELSE /\ refs[t].file \in Range(files[g].visible)
                  /\ Means(fd.type[t], g, p, {"message", "enum"}, refs[t].name)
  BY <1>3, <1>5, <1>6, ResolveIs
<1>8. refs \in Seq(TypeRef) /\ Len(refs) = Len(fd.type)
  BY <1>2, <1>4, <1>7, TypeIs
<1>9. NotFound \in Range(refs) <=> \E t \in DOMAIN fd.type : refs[t] = NotFound
  BY <1>4 DEF Range
<1>10. QED
  BY <1>7, <1>8, <1>9 DEF fd, g, p, refs
WithRefs(F, f, k, x, refs) == [F EXCEPT ![f][k][x].refs = refs]

LEMMA RefsPut ==
  ASSUME files \in Schemas, NEW F, FieldsTyped(F), NEW f, NEW k, NEW x, FieldOf(F, f, k, x),
         NEW refs \in Seq(TypeRef), NEW G, G = WithRefs(F, f, k, x, refs)
  PROVE  /\ FieldsTyped(G)
         /\ \A h \in DOMAIN files : \A l \in 1..Len(Messages(h)) :
              /\ DOMAIN G[h][l] = DOMAIN F[h][l]
              /\ \A y \in DOMAIN F[h][l] : ~(h = f /\ l = k /\ y = x) => G[h][l][y] = F[h][l][y]
         /\ G[f][k][x] = [F[f][k][x] EXCEPT !.refs = refs]
<1> DEFINE fd == [F[f][k][x] EXCEPT !.refs = refs]
           list == [F[f][k] EXCEPT ![x] = fd]
           row == [F[f] EXCEPT ![k] = list]
<1>1. /\ F \in [DOMAIN files -> Seq(Seq(FieldRec))] /\ f \in DOMAIN files
      /\ F[f] \in Seq(Seq(FieldRec)) /\ DOMAIN F[f] = 1..Len(Messages(f)) /\ k \in 1..Len(Messages(f))
      /\ Len(F[f]) = Len(Messages(f))
      /\ F[f][k] \in Seq(FieldRec) /\ DOMAIN F[f][k] = 1..Len(F[f][k]) /\ x \in 1..Len(F[f][k])
      /\ F[f][k][x] \in FieldRec
  BY FieldsAre DEF FieldsTyped
<1>2. G = [F EXCEPT ![f] = row]
  BY DEF WithRefs
<1>3. fd \in FieldRec
  BY <1>1 DEF FieldRec
<1> HIDE DEF fd
<1>4. list \in Seq(FieldRec) /\ Len(list) = Len(F[f][k]) /\ list[x] = fd
      /\ \A y \in DOMAIN F[f][k] : y # x => list[y] = F[f][k][y]
  <2>1. list \in Seq(FieldRec) /\ Len(list) = Len(F[f][k])
    BY <1>1, <1>3, ExceptSeq
  <2>2. QED
    BY <1>1, <2>1
<1>5. DOMAIN list = DOMAIN F[f][k]
  OBVIOUS
<1> HIDE DEF list
<1>6. row \in Seq(Seq(FieldRec)) /\ Len(row) = Len(F[f]) /\ row[k] = list
      /\ \A l \in 1..Len(Messages(f)) : l # k => row[l] = F[f][l]
  <2>1. row \in Seq(Seq(FieldRec)) /\ Len(row) = Len(F[f])
    BY <1>1, <1>4, ExceptSeq
  <2>2. QED
    BY <1>1, <2>1
<1> HIDE DEF row
<1>7. G \in [DOMAIN files -> Seq(Seq(FieldRec))] /\ G[f] = row
      /\ \A h \in DOMAIN files : h # f => G[h] = F[h]
  BY <1>1, <1>2, <1>6
<1>8. FieldsTyped(G)
  BY <1>1, <1>6, <1>7 DEF FieldsTyped
<1>9. G[f][k] = list /\ \A l \in 1..Len(Messages(f)) : l # k => G[f][l] = F[f][l]
  BY <1>6, <1>7
<1>10. ASSUME NEW h \in DOMAIN files, NEW l \in 1..Len(Messages(h))
       PROVE  /\ DOMAIN G[h][l] = DOMAIN F[h][l]
              /\ \A y \in DOMAIN F[h][l] : ~(h = f /\ l = k /\ y = x) => G[h][l][y] = F[h][l][y]
  <2>1. CASE h = f /\ l = k
    BY <1>4, <1>5, <1>9, <2>1
  <2>2. CASE ~(h = f /\ l = k)
    <3>1. G[h][l] = F[h][l]
      BY <1>7, <1>9, <2>2
    <3>2. QED
      BY <3>1
  <2>3. QED
    BY <2>1, <2>2
<1>11. QED
  BY <1>4, <1>8, <1>9, <1>10 DEF fd

-----------------------------------------------------------------------------
(* The fields, step by step.                                               *)

FieldInv ==
  /\ pass \in {"names", "enums"} => Collected(fields, 1, 1)
  /\ pass = "extends" => Collected(fields, i, at)
  /\ pass \in {"refs", "done"} => Collected(fields, Len(files) + 1, 1)

(* A field's references are what its place means by them.                  *)
RefersTo(fd) ==
  /\ Len(fd.refs) = Len(fd.type)
  /\ \A t \in DOMAIN fd.type :
       IF fd.type[t] \in Builtin THEN fd.refs[t].kind = "builtin"
       ELSE /\ fd.refs[t].file \in Range(files[fd.parsed[1]].visible)
            /\ Means(fd.type[t], fd.parsed[1], fd.parsed[2], {"message", "enum"}, fd.refs[t].name)

ResolvedTo(F, j, n, y) ==
  \A f, k, x : FieldOf(F, f, k, x) /\ (f < j \/ (f = j /\ k < n) \/ (f = j /\ k = n /\ x < y)) =>
    RefersTo(F[f][k][x])

RefInv ==
  /\ pass \in {"names", "enums", "extends"} => fi = 1
  /\ pass = "extends" => m = 1
  /\ pass = "refs" => ResolvedTo(fields, i, m, fi) /\ (m > Len(fields[i]) => fi = 1)
  /\ pass = "done" => ResolvedTo(fields, Len(files) + 1, 1, 1)

Inv == NameInv /\ FieldsTyped(fields) /\ FieldInv /\ RefInv /\ FailureHasCause

LEMMA SameSources ==
  ASSUME files' = files
  PROVE  /\ FieldsTyped(fields)' <=> FieldsTyped(fields')
         /\ \A f, k, fd : FieldFrom(f, k, fd)' <=> FieldFrom(f, k, fd)
         /\ \A fd : RefersTo(fd)' <=> RefersTo(fd)
         /\ \A ref, f, p, kinds : MeansNothing(ref, f, p, kinds)' <=> MeansNothing(ref, f, p, kinds)
<1>1. \A f, kinds : Seen(f, kinds)' = Seen(f, kinds)
  BY DEF Seen, FullName, ScopeAt, Text
<1>2. \A ref, f, p : Meanings(ref, f, p)' = Meanings(ref, f, p)
  BY DEF Meanings, ScopeAt, Text
<1>3. \A ref, f, p, kinds, name : Means(ref, f, p, kinds, name)' <=> Means(ref, f, p, kinds, name)
  BY <1>1, <1>2 DEF Means
<1>4. \A ref, f, p, kinds : MeansNothing(ref, f, p, kinds)' <=> MeansNothing(ref, f, p, kinds)
  BY <1>1, <1>2 DEF MeansNothing
<1>5. \A f, k, fd : FieldFrom(f, k, fd)' <=> FieldFrom(f, k, fd)
  BY <1>3, SameFiles DEF FieldFrom
<1>6. \A fd : RefersTo(fd)' <=> RefersTo(fd)
  BY <1>3 DEF RefersTo
<1>7. FieldsTyped(fields)' <=> FieldsTyped(fields')
  BY SameFiles DEF FieldsTyped
<1>8. QED
  BY <1>4, <1>5, <1>6, <1>7

LEMMA FieldSame ==
  ASSUME files' = files
  PROVE  /\ FieldInv' <=>
              /\ pass' \in {"names", "enums"} => Collected(fields', 1, 1)
              /\ pass' = "extends" => Collected(fields', i', at')
              /\ pass' \in {"refs", "done"} => Collected(fields', Len(files) + 1, 1)
         /\ RefInv' <=>
              /\ pass' \in {"names", "enums", "extends"} => fi' = 1
              /\ pass' = "extends" => m' = 1
              /\ pass' = "refs" => /\ ResolvedTo(fields', i', m', fi')
                                   /\ m' > Len(fields'[i']) => fi' = 1
              /\ pass' = "done" => ResolvedTo(fields', Len(files) + 1, 1, 1)
<1>0. /\ OrderedAll(fields)' <=> OrderedAll(fields')
      /\ Apart(fields)' <=> Apart(fields')
      /\ \A parsed : Holds(fields, parsed)' <=> Holds(fields', parsed)
  BY SameFiles DEF OrderedAll, Apart, FieldOf, Holds
<1>1. Collected(fields, 1, 1)' <=> Collected(fields', 1, 1)
  <2>1. Sourced(fields, 1, 1)' <=> Sourced(fields', 1, 1)
    BY SameSources DEF Sourced, FieldOf, Passed
  <2>2. NoneMissing(fields, 1, 1)' <=> NoneMissing(fields', 1, 1)
    BY <1>0, SameFiles DEF NoneMissing, Passed
  <2>3. QED
    BY <1>0, <2>1, <2>2 DEF Collected
<1>2. Collected(fields, i, at)' <=> Collected(fields', i', at')
  <2>1. Sourced(fields, i, at)' <=> Sourced(fields', i', at')
    BY SameSources DEF Sourced, FieldOf, Passed
  <2>2. NoneMissing(fields, i, at)' <=> NoneMissing(fields', i', at')
    BY <1>0, SameFiles DEF NoneMissing, Passed
  <2>3. QED
    BY <1>0, <2>1, <2>2 DEF Collected
<1>3. Collected(fields, Len(files) + 1, 1)' <=> Collected(fields', Len(files) + 1, 1)
  <2>1. Sourced(fields, Len(files) + 1, 1)' <=> Sourced(fields', Len(files) + 1, 1)
    BY SameSources DEF Sourced, FieldOf, Passed
  <2>2. NoneMissing(fields, Len(files) + 1, 1)' <=> NoneMissing(fields', Len(files) + 1, 1)
    BY <1>0, SameFiles DEF NoneMissing, Passed
  <2>3. QED
    BY <1>0, <2>1, <2>2 DEF Collected
<1>4. ResolvedTo(fields, i, m, fi)' <=> ResolvedTo(fields', i', m', fi')
  BY SameSources DEF ResolvedTo, FieldOf
<1>5. ResolvedTo(fields, Len(files) + 1, 1, 1)' <=> ResolvedTo(fields', Len(files) + 1, 1, 1)
  BY SameSources DEF ResolvedTo, FieldOf
<1>6. QED
  BY <1>1, <1>2, <1>3, <1>4, <1>5 DEF FieldInv, RefInv
LEMMA NameInvNamed ==
  ASSUME NameInv, pass \in {"extends", "refs", "done"}
  PROVE  Named /\ \A f \in DOMAIN files : AllNamed(f)
BY DEF NameInv, ControlType, NamesInv, Named

LEMMA InvInit == Init => Inv
<1> SUFFICES ASSUME Init PROVE Inv
  OBVIOUS
<1>1. NameInv /\ files \in Schemas /\ pass = "names" /\ fi = 1 /\ error = "none"
  BY NameInit DEF Init, NameInv, ControlType
<1>2. \A f \in DOMAIN files : DOMAIN names[f].messages = DOMAIN Messages(f)
  BY DEF Init, Messages
<1>3. fields = OwnFieldsAll
  BY <1>2 DEF Init, OwnFieldsAll, Messages
<1>4. FieldsTyped(fields) /\ FieldInv
  BY <1>1, <1>3, CollectedBuilt DEF FieldInv
<1>5. RefInv /\ FailureHasCause
  BY <1>1 DEF RefInv, FailureHasCause
<1>6. QED
  BY <1>1, <1>4, <1>5 DEF Inv

(* What an extend means, when it means something.                          *)
LEMMA TargetIs ==
  ASSUME NameInv, Walking({"extend"})
  PROVE  /\ at \in DOMAIN Text(i) /\ Here \in Entry /\ Here.is = "extend" /\ Scope = ScopeAt(i, at)
         /\ Target = NotFound => MeansNothing(Here.target, i, at, {"message"})
         /\ Target # NotFound =>
              /\ Target.file \in DOMAIN files /\ Target.at \in 1..Len(Messages(Target.file))
              /\ Means(Here.target, i, at, {"message"},
                       FullName(Target.file, Messages(Target.file)[Target.at]))
<1>1. Named /\ AllNamed(i) /\ i \in DOMAIN files /\ ControlType /\ WalkInv
  BY NameInvNamed DEF Walking, NameInv, ControlType
<1>2. at \in DOMAIN Text(i) /\ at \in 1..(Len(Text(i)) + 1) /\ Here.is = "extend"
  BY <1>1, TextIs DEF Walking, WalkInv, Walked, Named
<1>3. Here \in Entry /\ Here.target \in Reference
  BY <1>1, <1>2, TextIs, EntryIs DEF Here, Named
<1>4. Scope = ScopeAt(i, at)
  BY <1>1, ScopeOfWalk
<1>5. Target = ScopeWalk(Here.target, ScopeAt(i, at), i, {"message"})
  BY <1>4 DEF Target
<1>6. \/ Target = NotFound /\ MeansNothing(Here.target, i, at, {"message"})
      \/ /\ Found(i, {"message"}, Target.name, Target)
         /\ Means(Here.target, i, at, {"message"}, Target.name)
  BY <1>1, <1>2, <1>3, <1>5, ScopeWalkIs
<1>7. ASSUME Found(i, {"message"}, Target.name, Target)
      PROVE  /\ Target # NotFound
             /\ Target.file \in DOMAIN files /\ Target.at \in 1..Len(Messages(Target.file))
             /\ Target.name = FullName(Target.file, Messages(Target.file)[Target.at])
  <2>1. Target # NotFound
    BY <1>7, NotFoundIsNot
  <2>2. QED
    BY <1>7, <2>1 DEF Found
<1>8. QED
  BY <1>2, <1>3, <1>4, <1>6, <1>7

LEMMA ApplyExtendDoes ==
  ASSUME Inv, ApplyExtend
  PROVE  FieldsTyped(fields') /\ Collected(fields', i, at + 1)
<1> DEFINE f == Target.file
           k == Target.at
           e == ExtendFields(i, at)
<1>1. NameInv /\ FieldsTyped(fields) /\ Collected(fields, i, at) /\ files \in Schemas /\ i \in DOMAIN files
  BY DEF Inv, FieldInv, ApplyExtend, Walking, NameInv, ControlType
<1>2. /\ at \in DOMAIN Text(i) /\ Text(i)[at].is = "extend" /\ Scope = ScopeAt(i, at)
      /\ f \in DOMAIN files /\ k \in 1..Len(Messages(f))
      /\ Means(Text(i)[at].target, i, at, {"message"}, FullName(f, Messages(f)[k]))
  BY <1>1, TargetIs DEF ApplyExtend, Here
<1>3. Added = e
  BY <1>2 DEF Added, Here, ExtendFields
<1>4. fields' = WithFields(fields, f, k, e)
  BY <1>3 DEF ApplyExtend, Merged, WithFields
<1>5. e \in Seq(FieldRec)
  BY <1>1, <1>2, ExtendFieldsAre
<1> HIDE DEF f, k, e
<1>6. Grown(fields, fields', f, k, e)
  BY <1>1, <1>2, <1>4, <1>5, Extended
<1>7. Collected(fields', i, at + 1)
  BY <1>1, <1>2, <1>6, CollectedExtend DEF e
<1>8. QED
  BY <1>6, <1>7 DEF Grown

(* What a field becomes, and what its failure shows.                       *)
LEMMA FieldHere ==
  ASSUME Inv, AtField
  PROVE  /\ Named /\ i \in DOMAIN files /\ m \in 1..Len(Messages(i)) /\ FieldOf(fields, i, m, fi)
         /\ FieldFrom(i, m, Field) /\ Field \in FieldRec
<1>1. /\ Named /\ i \in DOMAIN files /\ m \in Nat \ {0} /\ fi \in Nat \ {0} /\ FieldsTyped(fields)
      /\ files \in Schemas
  BY NameInvNamed DEF Inv, AtField, NameInv, ControlType
<1>2. m \in 1..Len(Messages(i))
  <2>1. m <= Len(Messages(i)) /\ Len(Messages(i)) \in Nat
    BY <1>1, MessagesAre DEF AtField, FieldsTyped
  <2>2. QED
    BY <1>1, <2>1
<1>3. FieldOf(fields, i, m, fi)
  <2>1. DOMAIN fields = DOMAIN files /\ DOMAIN fields[i] = 1..Len(Messages(i))
        /\ DOMAIN fields[i][m] = 1..Len(fields[i][m]) /\ Len(fields[i][m]) \in Nat
    BY <1>1, <1>2, FieldsAre
  <2>2. fi \in 1..Len(fields[i][m])
    BY <1>1, <2>1 DEF AtField
  <2>3. QED
    BY <1>1, <1>2, <2>1, <2>2 DEF FieldOf
<1>4. FieldFrom(i, m, Field)
  BY <1>3 DEF Inv, FieldInv, AtField, Collected, Sourced, Field
<1>5. Field \in FieldRec
  BY <1>1, <1>3, FieldsAre DEF Field
<1>6. QED
  BY <1>1, <1>2, <1>3, <1>4, <1>5

LEMMA ResolveFieldDoes ==
  ASSUME Inv, ResolveField
  PROVE  /\ FieldsTyped(fields') /\ Collected(fields', Len(files) + 1, 1)
         /\ \A f \in DOMAIN files : \A k \in 1..Len(Messages(f)) :
              /\ DOMAIN fields'[f][k] = DOMAIN fields[f][k]
              /\ \A x \in DOMAIN fields[f][k] :
                   ~(f = i /\ k = m /\ x = fi) => fields'[f][k][x] = fields[f][k][x]
         /\ RefersTo(fields'[i][m][fi])
<1>1. /\ Named /\ i \in DOMAIN files /\ m \in 1..Len(Messages(i)) /\ FieldOf(fields, i, m, fi)
      /\ FieldFrom(i, m, Field) /\ Field \in FieldRec
      /\ FieldsTyped(fields) /\ files \in Schemas
  BY FieldHere DEF ResolveField, Inv, Named
<1>2. Collected(fields, Len(files) + 1, 1)
  BY DEF Inv, FieldInv, ResolveField, AtField
<1>3. /\ Refs \in Seq(TypeRef) /\ Len(Refs) = Len(Field.type)
      /\ \A t \in DOMAIN Field.type :
           IF Field.type[t] \in Builtin THEN Refs[t].kind = "builtin"
           ELSE /\ Refs[t].file \in Range(files[Field.parsed[1]].visible)
                /\ Means(Field.type[t], Field.parsed[1], Field.parsed[2], {"message", "enum"},
                         Refs[t].name)
  BY <1>1, RefsAre DEF ResolveField
<1>4. fields' = WithRefs(fields, i, m, fi, Refs)
  BY DEF ResolveField, WithRefs
<1>5. /\ FieldsTyped(fields')
      /\ \A f \in DOMAIN files : \A k \in 1..Len(Messages(f)) :
           /\ DOMAIN fields'[f][k] = DOMAIN fields[f][k]
           /\ \A x \in DOMAIN fields[f][k] :
                ~(f = i /\ k = m /\ x = fi) => fields'[f][k][x] = fields[f][k][x]
      /\ fields'[i][m][fi] = [Field EXCEPT !.refs = Refs]
  BY <1>1, <1>3, <1>4, RefsPut DEF Field
<1> DEFINE fd == Field
           refs == Refs
           new == [fd EXCEPT !.refs = refs]
<1>6. fd \in FieldRec
  BY <1>1
<1>7. fields'[i][m][fi] = new
  BY <1>5
<1>8. /\ new.parsed = fd.parsed /\ new.origin_file = fd.origin_file /\ new.type = fd.type
      /\ new.origin_scope = fd.origin_scope /\ new.packing = fd.packing /\ new.refs = refs
  <2> HIDE DEF fd, refs
  <2> QED BY <1>6 DEF FieldRec
<1> HIDE DEF new
<1>9. RefersTo(new)
  BY <1>3, <1>8 DEF RefersTo
<1>10. ASSUME NEW f \in DOMAIN files, NEW k \in 1..Len(Messages(f)), NEW x \in DOMAIN fields[f][k]
       PROVE  /\ fields'[f][k][x].parsed = fields[f][k][x].parsed
              /\ fields'[f][k][x].origin_file = fields[f][k][x].origin_file
              /\ fields'[f][k][x].origin_scope = fields[f][k][x].origin_scope
              /\ fields'[f][k][x].packing = fields[f][k][x].packing
  <2>1. CASE f = i /\ k = m /\ x = fi
    BY <1>7, <1>8, <2>1 DEF Field
  <2>2. CASE ~(f = i /\ k = m /\ x = fi)
    BY <1>5, <2>2
  <2>3. QED
    BY <2>1, <2>2
<1>11. Collected(fields', Len(files) + 1, 1)
  BY <1>1, <1>2, <1>5, <1>10, CollectedSame
<1>12. QED
  BY <1>5, <1>7, <1>9, <1>11
LEMMA FieldsStep == Inv /\ [Next]_vars => FieldsTyped(fields)' /\ FieldInv'
<1> SUFFICES ASSUME Inv, [Next]_vars PROVE FieldsTyped(fields)' /\ FieldInv'
  OBVIOUS
<1> DEFINE Kept == /\ pass' \in {"names", "enums"} => Collected(fields', 1, 1)
                   /\ pass' = "extends" => Collected(fields', i', at')
                   /\ pass' \in {"refs", "done"} => Collected(fields', Len(files) + 1, 1)
<1>1. /\ NameInv /\ FieldsTyped(fields) /\ files \in Schemas /\ i \in DOMAIN files
      /\ Len(files) \in Nat /\ DOMAIN files = 1..Len(files) /\ i \in Nat
      /\ Len(Text(i)) \in Nat /\ DOMAIN Text(i) = 1..Len(Text(i)) /\ at \in Nat \ {0}
  <2>1. NameInv /\ FieldsTyped(fields) /\ files \in Schemas /\ i \in DOMAIN files
    BY DEF Inv, NameInv, ControlType
  <2>2. at \in 1..(Len(Text(i)) + 1)
    BY <2>1 DEF NameInv, WalkInv, Walked
  <2>3. Len(Text(i)) \in Nat /\ DOMAIN Text(i) = 1..Len(Text(i))
    BY <2>1, TextIs
  <2>4. QED
    BY <2>1, <2>2, <2>3, FilesAre
<1>2. /\ pass \in {"names", "enums"} => Collected(fields, 1, 1)
      /\ pass = "extends" => Collected(fields, i, at)
      /\ pass \in {"refs", "done"} => Collected(fields, Len(files) + 1, 1)
  BY DEF Inv, FieldInv
<1>3. files' = files
  BY DEF Next, NameMessage, MessagesNamed, NameEnum, FileNamed, EnterMessage, LeaveMessage,
     PassOver, ApplyExtend, ExtendNothing, WalkDone, ResolveField, TypeNotFound,
     MessageResolved, FileResolved, OutOfMemory, vars
<1>4. CASE NameMessage \/ MessagesNamed \/ NameEnum \/ FileNamed
  <2>1. fields' = fields /\ pass \in {"names", "enums"}
    BY <1>4 DEF NameMessage, MessagesNamed, NameEnum, FileNamed
  <2>2. pass' \in {"names", "enums"} \/ (pass' = "extends" /\ i' = 1 /\ at' = at)
    BY <1>4, <2>1 DEF NameMessage, MessagesNamed, NameEnum, FileNamed, walk
  <2>3. at = 1
    BY <1>1, <2>1 DEF NameInv, AtStart
  <2>4. FieldsTyped(fields') /\ Kept
    BY <1>1, <1>2, <2>1, <2>2, <2>3
  <2>5. QED
    BY <1>3, <2>4, FieldSame, SameSources
<1>5. CASE EnterMessage \/ LeaveMessage \/ PassOver
  <2>1. /\ fields' = fields /\ pass = "extends" /\ pass' = pass /\ i' = i /\ at' = at + 1
        /\ at <= Len(Text(i)) /\ Text(i)[at].is # "extend"
    BY <1>5 DEF EnterMessage, LeaveMessage, PassOver, Walking, Here
  <2>2. at \in DOMAIN Text(i)
    BY <1>1, <2>1
  <2>3. Collected(fields, i, at + 1)
    BY <1>1, <1>2, <2>1, <2>2, CollectedOn
  <2>4. FieldsTyped(fields') /\ Kept
    BY <1>1, <2>1, <2>3
  <2>5. QED
    BY <1>3, <2>4, FieldSame, SameSources
<1>6. CASE ApplyExtend
  <2>1. FieldsTyped(fields') /\ Collected(fields', i, at + 1)
    BY <1>6, ApplyExtendDoes
  <2>2. pass' = "extends" /\ i' = i /\ at' = at + 1
    BY <1>6 DEF ApplyExtend, Walking
  <2>3. FieldsTyped(fields') /\ Kept
    BY <2>1, <2>2
  <2>4. QED
    BY <1>3, <2>3, FieldSame, SameSources
<1>7. CASE ExtendNothing \/ TypeNotFound \/ OutOfMemory
  <2>1. fields' = fields /\ pass' = "failed"
    BY <1>7 DEF ExtendNothing, TypeNotFound, OutOfMemory
  <2>2. FieldsTyped(fields') /\ Kept
    BY <1>1, <2>1
  <2>3. QED
    BY <1>3, <2>2, FieldSame, SameSources
<1>8. CASE WalkDone
  <2>1. /\ fields' = fields /\ pass = "extends" /\ at > Len(Text(i)) /\ at' = 1
        /\ IF i < Len(files) THEN i' = i + 1 /\ pass' = pass ELSE pass' = "refs" /\ i' = 1
    BY <1>8 DEF WalkDone, Rewound
  <2>2. Collected(fields, i + 1, 1)
    BY <1>1, <1>2, <2>1, CollectedOn
  <2>3. i < Len(files) \/ i = Len(files)
    BY <1>1
  <2>4. FieldsTyped(fields') /\ Kept
    BY <1>1, <2>1, <2>2, <2>3
  <2>5. QED
    BY <1>3, <2>4, FieldSame, SameSources
<1>9. CASE ResolveField
  <2>1. FieldsTyped(fields') /\ Collected(fields', Len(files) + 1, 1) /\ pass' = "refs"
    BY <1>9, ResolveFieldDoes DEF ResolveField, AtField
  <2>2. FieldsTyped(fields') /\ Kept
    BY <2>1
  <2>3. QED
    BY <1>3, <2>2, FieldSame, SameSources
<1>10. CASE MessageResolved \/ FileResolved
  <2>1. fields' = fields /\ pass = "refs" /\ pass' \in {"refs", "done"}
    BY <1>10 DEF MessageResolved, FileResolved
  <2>2. FieldsTyped(fields') /\ Kept
    BY <1>1, <1>2, <2>1
  <2>3. QED
    BY <1>3, <2>2, FieldSame, SameSources
<1>11. CASE UNCHANGED vars
  <2>1. fields' = fields /\ pass' = pass /\ i' = i /\ at' = at
    BY <1>11 DEF vars, walk
  <2>2. FieldsTyped(fields') /\ Kept
    BY <1>1, <1>2, <2>1
  <2>3. QED
    BY <1>3, <2>2, FieldSame, SameSources
<1>12. QED
  BY <1>4, <1>5, <1>6, <1>7, <1>8, <1>9, <1>10, <1>11 DEF Next

LEMMA RefStep == Inv /\ [Next]_vars => RefInv'
<1> SUFFICES ASSUME Inv, [Next]_vars PROVE RefInv'
  OBVIOUS
<1> DEFINE Kept == /\ pass' \in {"names", "enums", "extends"} => fi' = 1
                   /\ pass' = "extends" => m' = 1
                   /\ pass' = "refs" => /\ ResolvedTo(fields', i', m', fi')
                                        /\ m' > Len(fields'[i']) => fi' = 1
                   /\ pass' = "done" => ResolvedTo(fields', Len(files) + 1, 1, 1)
<1>1. /\ NameInv /\ FieldsTyped(fields) /\ files \in Schemas /\ i \in DOMAIN files
      /\ Len(files) \in Nat /\ DOMAIN files = 1..Len(files) /\ i \in Nat
      /\ m \in Nat \ {0} /\ fi \in Nat \ {0}
      /\ \A f, k, x : FieldOf(fields, f, k, x) =>
           /\ f \in Nat /\ 1 <= f /\ f <= Len(files) /\ k \in Nat /\ k <= Len(fields[f]) /\ k >= 1
           /\ x \in Nat /\ x >= 1 /\ x <= Len(fields[f][k])
           /\ Len(fields[f]) \in Nat /\ Len(fields[f][k]) \in Nat
  <2>1. /\ NameInv /\ FieldsTyped(fields) /\ files \in Schemas /\ i \in DOMAIN files
        /\ m \in Nat \ {0} /\ fi \in Nat \ {0}
    BY DEF Inv, NameInv, ControlType
  <2>2. Len(files) \in Nat /\ DOMAIN files = 1..Len(files)
    BY <2>1, FilesAre
  <2>3. ASSUME NEW f, NEW k, NEW x, FieldOf(fields, f, k, x)
        PROVE  /\ f \in 1..Len(files) /\ k \in 1..Len(fields[f]) /\ Len(fields[f]) \in Nat
               /\ x \in 1..Len(fields[f][k]) /\ Len(fields[f][k]) \in Nat
    <3>1. f \in DOMAIN files /\ k \in 1..Len(Messages(f)) /\ x \in 1..Len(fields[f][k])
      BY <2>1, <2>3, FieldsAre
    <3>2. Len(fields[f]) = Len(Messages(f)) /\ Len(Messages(f)) \in Nat /\ Len(fields[f][k]) \in Nat
      BY <2>1, <3>1, FieldsAre, MessagesAre DEF FieldsTyped
    <3>3. QED
      BY <2>2, <3>1, <3>2
  <2>4. QED
    BY <2>1, <2>2, <2>3
<1>2. /\ pass \in {"names", "enums", "extends"} => fi = 1
      /\ pass = "extends" => m = 1
      /\ pass = "refs" => ResolvedTo(fields, i, m, fi) /\ (m > Len(fields[i]) => fi = 1)
      /\ pass = "done" => ResolvedTo(fields, Len(files) + 1, 1, 1)
  BY DEF Inv, RefInv
<1>3. files' = files
  BY DEF Next, NameMessage, MessagesNamed, NameEnum, FileNamed, EnterMessage, LeaveMessage,
     PassOver, ApplyExtend, ExtendNothing, WalkDone, ResolveField, TypeNotFound,
     MessageResolved, FileResolved, OutOfMemory, vars
<1>4. CASE NameMessage \/ MessagesNamed \/ NameEnum \/ FileNamed
  <2>1. /\ pass \in {"names", "enums"} /\ fi' = fi /\ pass' \in {"names", "enums", "extends"}
        /\ pass' = "extends" => m' = 1
    BY <1>4 DEF NameMessage, MessagesNamed, NameEnum, FileNamed
  <2>2. Kept
    BY <1>2, <2>1
  <2>3. QED
    BY <1>3, <2>2, FieldSame
<1>5. CASE EnterMessage \/ LeaveMessage \/ PassOver \/ ApplyExtend
  <2>1. pass = "extends" /\ pass' = pass /\ fi' = fi /\ m' = m
    BY <1>5 DEF EnterMessage, LeaveMessage, PassOver, ApplyExtend, Walking
  <2>2. Kept
    BY <1>2, <2>1
  <2>3. QED
    BY <1>3, <2>2, FieldSame
<1>6. CASE ExtendNothing \/ TypeNotFound \/ OutOfMemory
  <2>1. pass' = "failed"
    BY <1>6 DEF ExtendNothing, TypeNotFound, OutOfMemory
  <2>2. Kept
    BY <2>1
  <2>3. QED
    BY <1>3, <2>2, FieldSame
<1>7. CASE WalkDone
  <2>1. /\ pass = "extends" /\ fi' = fi /\ m' = m /\ fields' = fields
        /\ pass' = "extends" \/ (pass' = "refs" /\ i' = 1)
    BY <1>7 DEF WalkDone
  <2>2. ResolvedTo(fields, 1, 1, 1)
    BY <1>1 DEF ResolvedTo
  <2>3. Kept
    BY <1>2, <2>1, <2>2
  <2>4. QED
    BY <1>3, <2>3, FieldSame
<1>8. CASE ResolveField
  <2>1. /\ pass = "refs" /\ pass' = "refs" /\ m' = m /\ i' = i /\ fi' = fi + 1
        /\ m <= Len(fields[i])
    BY <1>8 DEF ResolveField, AtField
  <2>2. /\ FieldsTyped(fields') /\ RefersTo(fields'[i][m][fi])
        /\ \A f \in DOMAIN files : \A k \in 1..Len(Messages(f)) :
             /\ DOMAIN fields'[f][k] = DOMAIN fields[f][k]
             /\ \A x \in DOMAIN fields[f][k] :
                  ~(f = i /\ k = m /\ x = fi) => fields'[f][k][x] = fields[f][k][x]
    BY <1>8, ResolveFieldDoes
  <2>3. ASSUME NEW f, NEW k, NEW x, FieldOf(fields', f, k, x),
               f < i \/ (f = i /\ k < m) \/ (f = i /\ k = m /\ x < fi + 1)
        PROVE  RefersTo(fields'[f][k][x])
    <3>1. f \in DOMAIN files /\ k \in 1..Len(Messages(f)) /\ x \in DOMAIN fields[f][k]
      BY <1>1, <2>2, <2>3, FieldsAre DEF FieldOf
    <3>2. FieldOf(fields, f, k, x)
      BY <1>1, <3>1, FieldsAre DEF FieldOf
    <3>3. CASE f = i /\ k = m /\ x = fi
      BY <2>2, <3>3
    <3>4. CASE ~(f = i /\ k = m /\ x = fi)
      <4>1. f < i \/ (f = i /\ k < m) \/ (f = i /\ k = m /\ x < fi)
        <5>1. x \in Nat
          BY <1>1, <3>2
        <5>2. x < fi + 1 => x < fi \/ x = fi
          BY <1>1, <5>1
        <5>3. QED
          BY <2>3, <3>4, <5>2
      <4>2. RefersTo(fields[f][k][x])
        BY <1>2, <2>1, <3>2, <4>1 DEF ResolvedTo
      <4>3. QED
        BY <2>2, <3>1, <3>4, <4>2
    <3>5. QED
      BY <3>3, <3>4
  <2>4. ResolvedTo(fields', i, m, fi + 1)
    BY <2>3 DEF ResolvedTo
  <2>5. Len(fields'[i]) = Len(fields[i])
    BY <1>1, <2>2 DEF FieldsTyped
  <2>6. m \in Nat /\ Len(fields[i]) \in Nat
    BY <1>1, MessagesAre DEF FieldsTyped
  <2>7. Kept
    BY <2>1, <2>4, <2>5, <2>6
  <2>8. QED
    BY <1>3, <2>7, FieldSame
<1>9. CASE MessageResolved
  <2>1. /\ pass = "refs" /\ pass' = "refs" /\ m' = m + 1 /\ fi' = 1 /\ i' = i /\ fields' = fields
        /\ fi > Len(fields[i][m])
    BY <1>9 DEF MessageResolved
  <2>2. ResolvedTo(fields, i, m + 1, 1)
    <3>1. ASSUME NEW f, NEW k, NEW x, FieldOf(fields, f, k, x),
                 f < i \/ (f = i /\ k < m + 1) \/ (f = i /\ k = m + 1 /\ x < 1)
          PROVE  f < i \/ (f = i /\ k < m) \/ (f = i /\ k = m /\ x < fi)
      <4>1. k \in Nat /\ x \in Nat /\ x >= 1 /\ x <= Len(fields[f][k]) /\ Len(fields[f][k]) \in Nat
        BY <1>1, <3>1
      <4>2. f = i /\ k = m => x < fi
        <5> SUFFICES ASSUME f = i, k = m PROVE x < fi
          OBVIOUS
        <5>1. fi > Len(fields[f][k])
          BY <2>1
        <5>2. QED
          BY <1>1, <4>1, <5>1
      <4>3. k < m + 1 => k < m \/ k = m
        BY <1>1, <4>1
      <4>4. ~(x < 1)
        BY <4>1
      <4>5. QED
        BY <3>1, <4>2, <4>3, <4>4
    <3>2. ResolvedTo(fields, i, m, fi)
      BY <1>2, <2>1
    <3>3. QED
      BY <3>1, <3>2 DEF ResolvedTo
  <2>3. Kept
    BY <2>1, <2>2
  <2>4. QED
    BY <1>3, <2>3, FieldSame
<1>10. CASE FileResolved
  <2>1. /\ pass = "refs" /\ m' = 1 /\ fi' = fi /\ fields' = fields /\ m > Len(fields[i])
        /\ IF i < Len(files) THEN i' = i + 1 /\ pass' = pass ELSE pass' = "done" /\ i' = 1
    BY <1>10 DEF FileResolved
  <2>2. fi = 1
    BY <1>2, <2>1
  <2>3. ResolvedTo(fields, i + 1, 1, 1)
    <3>1. ASSUME NEW f, NEW k, NEW x, FieldOf(fields, f, k, x),
                 f < i + 1 \/ (f = i + 1 /\ k < 1) \/ (f = i + 1 /\ k = 1 /\ x < 1)
          PROVE  f < i \/ (f = i /\ k < m)
      <4>1. /\ f \in Nat /\ k \in Nat /\ x \in Nat /\ k >= 1 /\ x >= 1 /\ k <= Len(fields[f])
            /\ Len(fields[f]) \in Nat
        BY <1>1, <3>1
      <4>2. f = i => k < m
        <5> SUFFICES ASSUME f = i PROVE k < m
          OBVIOUS
        <5>1. m > Len(fields[f])
          BY <2>1
        <5>2. QED
          BY <1>1, <4>1, <5>1
      <4>3. f < i + 1
        BY <3>1, <4>1
      <4>4. f < i \/ f = i
        BY <1>1, <4>1, <4>3
      <4>5. QED
        BY <4>2, <4>4
    <3>2. ResolvedTo(fields, i, m, fi)
      BY <1>2, <2>1
    <3>3. QED
      BY <3>1, <3>2 DEF ResolvedTo
  <2>4. i < Len(files) \/ i = Len(files)
    BY <1>1
  <2>5. Kept
    BY <2>1, <2>2, <2>3, <2>4
  <2>6. QED
    BY <1>3, <2>5, FieldSame
<1>11. CASE UNCHANGED vars
  <2>1. fields' = fields /\ pass' = pass /\ i' = i /\ m' = m /\ fi' = fi
    BY <1>11 DEF vars
  <2>2. Kept
    BY <1>2, <2>1
  <2>3. QED
    BY <1>3, <2>2, FieldSame
<1>12. QED
  BY <1>4, <1>5, <1>6, <1>7, <1>8, <1>9, <1>10, <1>11 DEF Next

(* Only two steps set these errors, and nothing moves after them.          *)
LEMMA CauseStep == Inv /\ [Next]_vars => FailureHasCause'
<1> SUFFICES ASSUME Inv, [Next]_vars PROVE FailureHasCause'
  OBVIOUS
<1> DEFINE extend == Text(failed_source_idx)[at]
           fd == fields[failed_source_idx][m][fi]
           extendCause == /\ extend.is = "extend"
                          /\ MeansNothing(extend.target, failed_source_idx, at, {"message"})
           typeCause == \E t \in DOMAIN fd.type :
                          /\ fd.type[t] \notin Builtin
                          /\ MeansNothing(fd.type[t], fd.parsed[1], fd.parsed[2], {"message", "enum"})
<1>1. NameInv /\ FailureHasCause /\ (error # "none" => pass = "failed")
  BY DEF Inv, NameInv, ControlType
<1>0. /\ FailureHasCause <=> /\ error = "extend source not found" => extendCause
                             /\ error = "type not found" => typeCause
      /\ FailureHasCause' <=> /\ error' = "extend source not found" => extendCause'
                              /\ error' = "type not found" => typeCause'
  BY DEF FailureHasCause
<1>2. CASE ExtendNothing
  <2>1. /\ Walking({"extend"}) /\ Target = NotFound /\ error' = "extend source not found"
        /\ failed_source_idx' = i /\ files' = files /\ at' = at
    BY <1>2 DEF ExtendNothing, FailAt, walk
  <2>2. Text(i)[at].is = "extend" /\ MeansNothing(Text(i)[at].target, i, at, {"message"})
    BY <1>1, <2>1, TargetIs DEF Here
  <2>3. extendCause'
    BY <2>1, <2>2, SameFiles, SameSources
  <2> HIDE DEF extendCause, typeCause
  <2>4. QED
    BY <1>0, <2>1, <2>3
<1>3. CASE TypeNotFound
  <2>1. /\ AtField /\ NotFound \in Range(Refs) /\ error' = "type not found"
        /\ failed_source_idx' = i /\ files' = files /\ fields' = fields /\ m' = m /\ fi' = fi
    BY <1>3 DEF TypeNotFound, FailAt
  <2>2. \E t \in DOMAIN Field.type :
          /\ Field.type[t] \notin Builtin
          /\ MeansNothing(Field.type[t], Field.parsed[1], Field.parsed[2], {"message", "enum"})
    BY <2>1, FieldHere, RefsAre DEF Inv
  <2>3. fd' = Field
    BY <2>1 DEF Field
  <2>4. typeCause'
    <3> HIDE DEF fd
    <3>1. \A ref, f, p, kinds : MeansNothing(ref, f, p, kinds)' <=> MeansNothing(ref, f, p, kinds)
      BY <2>1, SameSources
    <3>2. QED
      BY <2>2, <2>3, <3>1
  <2> HIDE DEF extendCause, typeCause
  <2>5. QED
    BY <1>0, <2>1, <2>4
<1>4. CASE OutOfMemory
  <2> HIDE DEF extendCause, typeCause
  <2>1. error' = "out of memory"
    BY <1>4 DEF OutOfMemory, Fail, FailAt
  <2>2. QED
    BY <1>0, <2>1
<1>5. CASE /\ error' = error /\ error = "none"
  <2> HIDE DEF extendCause, typeCause
  <2>1. QED
    BY <1>0, <1>5
<1>6. CASE UNCHANGED vars
  <2>1. /\ files' = files /\ fields' = fields /\ m' = m /\ fi' = fi /\ at' = at
        /\ error' = error /\ failed_source_idx' = failed_source_idx
    BY <1>6 DEF vars, walk
  <2>2. extend' = extend /\ fd' = fd /\ failed_source_idx' = failed_source_idx /\ at' = at
    BY <2>1, SameFiles
  <2>3. \A ref, f, p, kinds : MeansNothing(ref, f, p, kinds)' <=> MeansNothing(ref, f, p, kinds)
    BY <2>1, SameSources
  <2>4. extendCause' <=> extendCause
    <3> HIDE DEF extend
    <3> QED BY <2>2, <2>3
  <2>5. typeCause' <=> typeCause
    <3> HIDE DEF fd
    <3> QED BY <2>2, <2>3
  <2> HIDE DEF extendCause, typeCause
  <2>6. QED
    BY <1>0, <1>1, <2>1, <2>4, <2>5
<1>7. ASSUME NameMessage \/ MessagesNamed \/ NameEnum \/ FileNamed \/ EnterMessage \/ LeaveMessage
               \/ PassOver \/ ApplyExtend \/ WalkDone \/ ResolveField \/ MessageResolved
               \/ FileResolved
      PROVE  error' = error /\ error = "none"
  <2>1. error' = error /\ pass # "failed"
    BY <1>7 DEF NameMessage, MessagesNamed, NameEnum, FileNamed, EnterMessage, LeaveMessage,
       PassOver, ApplyExtend, WalkDone, ResolveField, MessageResolved, FileResolved, Walking, AtField
  <2>2. QED
    BY <1>1, <2>1
<1>8. QED
  BY <1>2, <1>3, <1>4, <1>5, <1>6, <1>7 DEF Next

LEMMA InvStep == Inv /\ [Next]_vars => Inv'
BY NameStep, FieldsStep, RefStep, CauseStep DEF Inv

LEMMA InvHolds == Spec => []Inv
BY InvInit, InvStep, PTL DEF Spec

(* For any sources, an extend fails only when no message its file sees is  *)
(* meant by it, a type only when nothing is, and the source reported is    *)
(* the extend's, or that of the message the field is in.                   *)
THEOREM EveryFailureHasCause == Spec => []FailureHasCause
BY InvHolds, PTL DEF Inv

(* Whatever the sources and their order, every reference of a finished run *)
(* is what the deepest scope around the place it was written at means by   *)
(* it: gremlind_resolve_type_refs takes an extension's fields from where   *)
(* they were written, and not from where their message is.                 *)
THEOREM EveryReferenceInScope == Spec => []ResolvedInScope
<1>1. Inv => ResolvedInScope
  <2> SUFFICES ASSUME Inv, pass = "done", NEW a \in AllFields PROVE RefersTo(FieldAt(a))
    BY DEF ResolvedInScope, RefersTo
  <2>1. PICK f, k, x : FieldOf(fields, f, k, x) /\ a = <<f, k, x>>
    BY DEF AllFields, FieldOf
  <2>2. FieldAt(a) = fields[f][k][x]
    BY <2>1 DEF FieldAt
  <2>3. ResolvedTo(fields, Len(files) + 1, 1, 1)
    BY DEF Inv, RefInv
  <2>4. f < Len(files) + 1
    <3>1. /\ FieldsTyped(fields) /\ files \in Schemas /\ Len(files) \in Nat
          /\ DOMAIN files = 1..Len(files)
      BY FilesAre DEF Inv, NameInv, ControlType
    <3>2. f \in 1..Len(files)
      BY <2>1, <3>1, FieldsAre
    <3>3. QED
      BY <3>1, <3>2
  <2>5. QED
    BY <2>1, <2>2, <2>3, <2>4 DEF ResolvedTo
<1>2. QED
  BY <1>1, InvHolds, PTL

(* Whatever the sources, propagate_extends leaves every message its own    *)
(* fields in their order and then those of the extends that mean it, in    *)
(* the order of the sources, and loses or doubles no extend's field.       *)
THEOREM EveryExtendApplied == Spec => []ExtensionFields
<1>1. Inv => ExtensionFields
  <2> SUFFICES ASSUME Inv, pass \in {"refs", "done"} PROVE ExtensionFields
    BY DEF ExtensionFields
  <2>1. /\ Collected(fields, Len(files) + 1, 1) /\ FieldsTyped(fields) /\ files \in Schemas
        /\ Len(files) \in Nat /\ DOMAIN files = 1..Len(files) /\ Named
    BY FilesAre, NameInvNamed DEF Inv, FieldInv, NameInv, ControlType
  <2>2. ASSUME NEW a \in AllFields
        PROVE  /\ a = <<a[1], a[2], a[3]>> /\ FieldOf(fields, a[1], a[2], a[3])
               /\ FieldAt(a) = fields[a[1]][a[2]][a[3]]
    BY DEF AllFields, FieldOf, FieldAt
  <2>3. ASSUME NEW f, NEW k, NEW x, FieldOf(fields, f, k, x)
        PROVE  <<f, k, x>> \in AllFields /\ FieldAt(<<f, k, x>>) = fields[f][k][x]
    BY <2>3 DEF AllFields, FieldOf, FieldAt
  <2>4. ASSUME NEW a \in AllFields
        PROVE  LET fd == FieldAt(a)
                   src == Text(fd.parsed[1])[fd.parsed[2]]
               IN  /\ fd.packing = files[fd.parsed[1]].packing
                   /\ fd.origin_file = None =>
                        /\ src.is = "field"
                        /\ a[3] > 1 => LastField(a).origin_file = None
                        /\ a[3] > 1 => Before(LastField(a).parsed, fd.parsed)
                   /\ fd.origin_file # None =>
                        /\ fd.origin_file = fd.parsed[1]
                        /\ fd.origin_scope = ScopeAt(fd.parsed[1], fd.parsed[2])
                        /\ Means(src.target, fd.parsed[1], fd.parsed[2], {"message"},
                                 names[a[1]].messages[a[2]])
                        /\ a[3] > 1 /\ LastField(a).origin_file # None =>
                             Before(LastField(a).parsed, fd.parsed)
    <3> DEFINE f == a[1]
               k == a[2]
               x == a[3]
               fd == fields[f][k][x]
               last == fields[f][k][x - 1]
    <3>1. FieldOf(fields, f, k, x) /\ FieldAt(a) = fd /\ LastField(a) = last
      BY <2>2 DEF LastField
    <3> HIDE DEF f, k, x
    <3>2. FieldFrom(f, k, fd) /\ f \in DOMAIN files /\ k \in 1..Len(Messages(f)) /\ x \in 1..Len(fields[f][k])
      BY <2>1, <3>1, FieldsAre DEF Collected, Sourced
    <3>3. Ordered(fields[f][k]) /\ Len(fields[f][k]) \in Nat /\ DOMAIN fields[f][k] = 1..Len(fields[f][k])
      BY <2>1, <3>2, FieldsAre DEF Collected, OrderedAll
    <3>4. ASSUME x > 1
          PROVE  /\ fd.origin_file = None => last.origin_file = None
                 /\ (last.origin_file = None <=> fd.origin_file = None) => Before(last.parsed, fd.parsed)
      <4>1. x - 1 \in DOMAIN fields[f][k] /\ x \in DOMAIN fields[f][k] /\ x - 1 < x
        BY <3>2, <3>3, <3>4
      <4>2. QED
        BY <3>3, <4>1 DEF Ordered
    <3>5. names[f].messages[k] = FullName(f, Messages(f)[k])
      <4> DEFINE n == Len(Messages(f))
      <4>1. MessagesNamedTo(f, n + 1) /\ n \in Nat
        BY <2>1, <3>2, MessagesAre DEF Named, AllNamed
      <4>2. k \in 1..n /\ k < n + 1
        BY <3>2, <4>1
      <4>3. QED
        BY <4>1, <4>2 DEF MessagesNamedTo
    <3> HIDE DEF fd, last
    <3>6. fd.packing = files[fd.parsed[1]].packing
      BY <3>2 DEF FieldFrom
    <3>7. ASSUME fd.origin_file = None
          PROVE  /\ Text(fd.parsed[1])[fd.parsed[2]].is = "field"
                 /\ x > 1 => last.origin_file = None /\ Before(last.parsed, fd.parsed)
      BY <3>2, <3>4, <3>7 DEF FieldFrom
    <3>8. ASSUME fd.origin_file # None
          PROVE  /\ fd.origin_file = fd.parsed[1]
                 /\ fd.origin_scope = ScopeAt(fd.parsed[1], fd.parsed[2])
                 /\ Means(Text(fd.parsed[1])[fd.parsed[2]].target, fd.parsed[1], fd.parsed[2],
                          {"message"}, names[f].messages[k])
                 /\ x > 1 /\ last.origin_file # None => Before(last.parsed, fd.parsed)
      BY <3>2, <3>4, <3>5, <3>8 DEF FieldFrom
    <3>9. QED
      BY <3>1, <3>6, <3>7, <3>8 DEF f, k, x
  <2>5. ASSUME NEW g \in DOMAIN files, NEW p \in DOMAIN Text(g), Text(g)[p].is = "extend",
               NEW n \in DOMAIN Text(g)[p].fields
        PROVE  \E a \in AllFields : \A b \in AllFields : FieldAt(b).parsed = <<g, p, n>> <=> b = a
    <3>1. Passed(g, p, Len(files) + 1, 1)
      BY <2>1 DEF Passed
    <3>2. PICK f, k, x : FieldOf(fields, f, k, x) /\ fields[f][k][x].parsed = <<g, p, n>>
      BY <2>1, <2>5, <3>1 DEF Collected, NoneMissing, Holds
    <3>3. <<f, k, x>> \in AllFields /\ FieldAt(<<f, k, x>>).parsed = <<g, p, n>>
      BY <2>3, <3>2
    <3>4. ASSUME NEW b \in AllFields, FieldAt(b).parsed = <<g, p, n>> PROVE b = <<f, k, x>>
      <4>1. b = <<b[1], b[2], b[3]>> /\ FieldOf(fields, b[1], b[2], b[3])
            /\ fields[b[1]][b[2]][b[3]].parsed = fields[f][k][x].parsed
        BY <2>2, <3>2, <3>4
      <4>2. b[1] = f /\ b[2] = k /\ b[3] = x
        BY <2>1, <3>2, <4>1 DEF Collected, Apart
      <4>3. QED
        BY <4>1, <4>2
    <3>5. QED
      BY <3>3, <3>4
  <2>6. QED
    BY <2>4, <2>5 DEF ExtensionFields
<1>2. QED
  BY <1>1, InvHolds, PTL
=============================================================================
