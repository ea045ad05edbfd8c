-------------------------- MODULE PipelineProofs --------------------------
(***************************************************************************)
(* Proofs about Pipeline, for any command line and any order of messages   *)
(* that lists each once.                                                   *)
(***************************************************************************)
EXTENDS Pipeline, FiniteSetTheorems, SequenceTheorems, TLAPS

-----------------------------------------------------------------------------
(* Claims are sequences, and claiming a sequence keeps what was taken.     *)

LEMMA Smallest ==
  ASSUME NEW S \in SUBSET Nat, S # {}
  PROVE  \E x \in S : \A y \in S : x <= y
<1>1. \E x \in S : \A y \in S : <<y, x>> \notin OpToRel(<, Nat)
  BY NatLessThanWellFounded, WFMin
<1>2. \E x \in S : \A y \in S : ~(y < x)
  BY <1>1 DEF OpToRel
<1>3. QED
  BY <1>2

IsSequence(s) == \E S : s \in Seq(S)

LEMMA SequenceHasLength ==
  ASSUME NEW s, IsSequence(s)
  PROVE  Len(s) \in Nat /\ DOMAIN s = 1..Len(s)
BY LenProperties DEF IsSequence

LEMMA OneIsSequence == ASSUME NEW x PROVE IsSequence(<<x>>)
<1>1. <<x>> \in Seq({x})
  OBVIOUS
<1>2. QED
  BY <1>1 DEF IsSequence

LEMMA NoneIsSequence == IsSequence(<<>>)
<1>1. <<>> \in Seq({})
  OBVIOUS
<1>2. QED
  BY <1>1 DEF IsSequence

LEMMA JoinIsSequence ==
  ASSUME NEW s, NEW t, IsSequence(s), IsSequence(t)
  PROVE  IsSequence(s \o t)
<1>1. PICK S : s \in Seq(S)
  BY DEF IsSequence
<1>2. PICK T : t \in Seq(T)
  BY DEF IsSequence
<1>3. s \in Seq(S \cup T) /\ t \in Seq(S \cup T)
  <2>1. s \in [1..Len(s) -> S] /\ t \in [1..Len(t) -> T] /\ Len(s) \in Nat /\ Len(t) \in Nat
    BY <1>1, <1>2, LenProperties
  <2>2. s \in [1..Len(s) -> S \cup T] /\ t \in [1..Len(t) -> S \cup T]
    BY <2>1
  <2>3. QED
    BY <2>1, <2>2, SeqDef
<1>4. s \o t \in Seq(S \cup T)
  BY <1>3
<1>5. QED
  BY <1>4 DEF IsSequence

LEMMA JoinIs ==
  ASSUME NEW a, NEW b, IsSequence(a), IsSequence(b)
  PROVE  /\ Len(a) \in Nat /\ Len(b) \in Nat /\ Len(a \o b) = Len(a) + Len(b)
         /\ DOMAIN (a \o b) = 1..(Len(a) + Len(b))
         /\ \A k \in 1..(Len(a) + Len(b)) :
              (a \o b)[k] = IF k <= Len(a) THEN a[k] ELSE b[k - Len(a)]
<1>1. Len(a) \in Nat /\ Len(b) \in Nat /\ IsSequence(a \o b)
  BY SequenceHasLength, JoinIsSequence
<1>2. PICK S : a \in Seq(S)
  BY DEF IsSequence
<1>3. PICK T : b \in Seq(T)
  BY DEF IsSequence
<1>4. a \in Seq(S \cup T) /\ b \in Seq(S \cup T)
  <2>1. a \in [1..Len(a) -> S] /\ b \in [1..Len(b) -> T]
    BY <1>2, <1>3, LenProperties
  <2>2. a \in [1..Len(a) -> S \cup T] /\ b \in [1..Len(b) -> S \cup T]
    BY <2>1
  <2>3. QED
    BY <1>1, <2>2, SeqDef
<1>5. Len(a \o b) = Len(a) + Len(b)
      /\ \A k \in 1..(Len(a) + Len(b)) :
           (a \o b)[k] = IF k <= Len(a) THEN a[k] ELSE b[k - Len(a)]
  BY <1>4, ConcatProperties
<1>6. DOMAIN (a \o b) = 1..(Len(a) + Len(b))
  BY <1>1, <1>5, SequenceHasLength
<1>7. QED
  BY <1>1, <1>5, <1>6

(* Each element of s is one of a sequence q[1], ..., q[n].                 *)
ElementOf(x, s) == \E i \in DOMAIN s : s[i] = x

MadeOf(s, q, n) == \A j \in DOMAIN s : \E k \in 1..n : ElementOf(s[j], q[k])

LEMMA JoinElements ==
  ASSUME NEW s, NEW t, IsSequence(s), IsSequence(t), NEW j \in DOMAIN (s \o t)
  PROVE  ElementOf((s \o t)[j], s) \/ ElementOf((s \o t)[j], t)
<1>1. /\ Len(s) \in Nat /\ Len(t) \in Nat /\ j \in 1..(Len(s) + Len(t))
      /\ (s \o t)[j] = IF j <= Len(s) THEN s[j] ELSE t[j - Len(s)]
  BY JoinIs
<1>2. CASE j <= Len(s)
  <2>1. j \in DOMAIN s
    BY <1>1, <1>2, SequenceHasLength
  <2>2. QED
    BY <1>1, <1>2, <2>1 DEF ElementOf
<1>3. CASE ~(j <= Len(s))
  <2>1. j - Len(s) \in DOMAIN t
    BY <1>1, <1>3, SequenceHasLength
  <2>2. QED
    BY <1>1, <1>3, <2>1 DEF ElementOf
<1>4. QED
  BY <1>2, <1>3

(* FlattenSeq is a function defined along its argument.  That there is     *)
(* such a function is seen by taking the first place where there is none.  *)
LEMMA FlattenIsSequence ==
  ASSUME NEW n \in Nat, NEW q, DOMAIN q = 1..n, Len(q) = n, IsSequence(q),
         \A k \in 1..n : IsSequence(q[k])
  PROVE  IsSequence(FlattenSeq(q)) /\ MadeOf(FlattenSeq(q), q, n)
<1> DEFINE Flat(g, m) == g = [i \in 1..m |-> IF i = 1 THEN q[i] ELSE g[i - 1] \o q[i]]
           Bad == {m \in Nat : m <= n /\ ~\E g : Flat(g, m)}
<1>1. Bad = {}
  <2> SUFFICES ASSUME Bad # {} PROVE FALSE
    OBVIOUS
  <2>1. PICK m \in Bad : \A k \in Bad : m <= k
    BY Smallest
  <2>2. CASE m = 0
    <3> DEFINE g == [i \in 1..m |-> q[i]]
    <3>1. 1..m = {}
      BY <2>2
    <3>2. Flat(g, m)
      BY <3>1
    <3>3. QED
      BY <2>1, <3>2
  <2>3. CASE m # 0
    <3>1. m \in Nat /\ m - 1 \in Nat /\ m - 1 <= n /\ ~(m <= m - 1)
      BY <2>1, <2>3
    <3>2. m - 1 \notin Bad
      BY <2>1, <3>1
    <3>3. PICK g : Flat(g, m - 1)
      BY <3>1, <3>2
    <3> DEFINE h == [i \in 1..m |-> IF i = 1 THEN q[i] ELSE g[i - 1] \o q[i]]
    <3>4. ASSUME NEW i \in 1..m, i # 1
          PROVE  h[i - 1] = g[i - 1]
      <4>1. i - 1 \in 1..(m - 1) /\ i - 1 \in 1..m
        BY <3>1, <3>4
      <4>2. h[i - 1] = IF i - 1 = 1 THEN q[i - 1] ELSE g[i - 1 - 1] \o q[i - 1]
        BY <4>1
      <4>3. g[i - 1] = IF i - 1 = 1 THEN q[i - 1] ELSE g[i - 1 - 1] \o q[i - 1]
        BY <3>3, <4>1
      <4>4. QED
        BY <4>2, <4>3
    <3>5. Flat(h, m)
      BY <3>4
    <3>6. QED
      BY <2>1, <3>5
  <2>4. QED
    BY <2>2, <2>3
<1>2. \E g : Flat(g, n)
  <2> HIDE DEF Flat
  <2>1. n \in Nat /\ n <= n /\ n \notin Bad
    <3>1. n <= n
      OBVIOUS
    <3> HIDE DEF Bad
    <3>2. n \notin Bad
      BY <1>1
    <3>3. QED
      BY <3>1, <3>2
  <2>2. QED
    BY <2>1
<1> DEFINE flatten == CHOOSE g : Flat(g, n)
<1>3. Flat(flatten, n)
  BY <1>2
<1>4. n # 0 => FlattenSeq(q) = flatten[n]
  BY DEF FlattenSeq
<1> DEFINE Good(m) == IsSequence(flatten[m]) /\ MadeOf(flatten[m], q, m)
           Odd == {m \in 1..n : ~Good(m)}
<1> HIDE DEF flatten
<1>5. Odd = {}
  <2> SUFFICES ASSUME Odd # {} PROVE FALSE
    OBVIOUS
  <2>0. Odd \in SUBSET Nat
    OBVIOUS
  <2>1. PICK m \in Odd : \A k \in Odd : m <= k
    <3> HIDE DEF Odd
    <3>1. QED
      BY <2>0, Smallest
  <2>2. flatten[m] = IF m = 1 THEN q[m] ELSE flatten[m - 1] \o q[m]
    BY <1>3, <2>1
  <2>3. CASE m = 1
    <3>1. flatten[m] = q[m] /\ IsSequence(q[m]) /\ m \in 1..m
      BY <2>1, <2>2, <2>3
    <3>2. MadeOf(flatten[m], q, m)
      BY <3>1 DEF MadeOf, ElementOf
    <3>3. QED
      BY <2>1, <3>1, <3>2
  <2>4. CASE m # 1
    <3>1. m - 1 \in 1..n /\ ~(m <= m - 1) /\ m \in 1..m /\ 1..(m - 1) \subseteq 1..m
      BY <2>1, <2>4
    <3>2. Good(m - 1)
      BY <2>1, <3>1
    <3>3. flatten[m] = flatten[m - 1] \o q[m] /\ IsSequence(q[m])
      BY <2>1, <2>2, <2>4
    <3>4. IsSequence(flatten[m])
      BY <3>2, <3>3, JoinIsSequence
    <3>5. ASSUME NEW j \in DOMAIN flatten[m]
          PROVE  \E k \in 1..m : ElementOf(flatten[m][j], q[k])
      <4>1. ElementOf(flatten[m][j], flatten[m - 1]) \/ ElementOf(flatten[m][j], q[m])
        BY <3>2, <3>3, JoinElements
      <4>2. CASE ElementOf(flatten[m][j], flatten[m - 1])
        <5>1. PICK i \in DOMAIN flatten[m - 1] : flatten[m - 1][i] = flatten[m][j]
          BY <4>2 DEF ElementOf
        <5>2. QED
          BY <3>1, <3>2, <5>1 DEF MadeOf
      <4>3. QED
        BY <3>1, <4>1, <4>2
    <3>6. QED
      BY <2>1, <3>4, <3>5 DEF MadeOf
  <2>5. QED
    BY <2>3, <2>4
<1>6. CASE n = 0
  <2>1. FlattenSeq(q) = q
    BY <1>6 DEF FlattenSeq
  <2>2. DOMAIN q = {}
    BY <1>6
  <2>3. QED
    BY <2>1, <2>2 DEF MadeOf
<1>7. CASE n # 0
  BY <1>4, <1>5, <1>7
<1>8. QED
  BY <1>6, <1>7

(* Claiming goes one claim at a time.                                      *)
Claimed(g, r, s, claims) ==
  /\ Claim(r, s, claims) = g[Len(claims)]
  /\ g[0] = Nothing(s)
  /\ \A k \in 1..Len(claims) : g[k] = ClaimOne(r, g[k - 1], claims[k])

LEMMA ClaimSteps ==
  ASSUME NEW r, NEW s, NEW claims, Len(claims) \in Nat
  PROVE  \E g : Claimed(g, r, s, claims)
<1> DEFINE n == Len(claims)
           Step(g, i) == IF i = 0 THEN Nothing(s) ELSE ClaimOne(r, g[i - 1], claims[i])
           After(g, m) == g = [i \in 0..m |-> Step(g, i)]
           Bad == {m \in Nat : m <= n /\ ~\E g : After(g, m)}
<1>1. Bad = {}
  <2> SUFFICES ASSUME Bad # {} PROVE FALSE
    OBVIOUS
  <2>1. PICK m \in Bad : \A k \in Bad : m <= k
    BY Smallest
  <2>2. CASE m = 0
    <3> DEFINE g == [i \in 0..m |-> Nothing(s)]
    <3>1. \A i \in 0..m : i = 0
      BY <2>2
    <3>2. After(g, m)
      BY <3>1
    <3>3. QED
      BY <2>1, <3>2
  <2>3. CASE m # 0
    <3>1. m \in Nat /\ m - 1 \in Nat /\ m - 1 <= n /\ ~(m <= m - 1)
      BY <2>1, <2>3
    <3>2. m - 1 \notin Bad
      BY <2>1, <3>1
    <3>3. PICK g : After(g, m - 1)
      BY <3>1, <3>2
    <3> DEFINE h == [i \in 0..m |-> Step(g, i)]
    <3>4. ASSUME NEW i \in 0..m, i # 0
          PROVE  h[i - 1] = g[i - 1]
      <4>1. i - 1 \in 0..(m - 1) /\ i - 1 \in 0..m
        BY <3>1, <3>4
      <4>2. h[i - 1] = Step(g, i - 1)
        BY <4>1
      <4>3. g[i - 1] = Step(g, i - 1)
        BY <3>3, <4>1
      <4>4. QED
        BY <4>2, <4>3
    <3>5. h = [i \in 0..m |-> Step(g, i)]
      OBVIOUS
    <3> HIDE DEF h
    <3>6. \A i \in 0..m : Step(h, i) = Step(g, i)
      BY <3>4
    <3> HIDE DEF Step
    <3>7. [i \in 0..m |-> Step(h, i)] = [i \in 0..m |-> Step(g, i)]
      BY <3>6
    <3>8. After(h, m)
      BY <3>5, <3>7
    <3>9. QED
      BY <2>1, <3>8
  <2>4. QED
    BY <2>2, <2>3
<1>2. \E g : After(g, n)
  <2> HIDE DEF After
  <2>1. n \in Nat /\ n <= n /\ n \notin Bad
    <3>1. n <= n
      OBVIOUS
    <3> HIDE DEF Bad
    <3>2. n \notin Bad
      BY <1>1
    <3>3. QED
      BY <3>1, <3>2
  <2>2. QED
    BY <2>1
<1> DEFINE after == CHOOSE g : After(g, n)
<1>3. After(after, n)
  BY <1>2
<1>4. Claim(r, s, claims) = after[n]
  BY DEF Claim
<1> HIDE DEF after
<1>5. after[0] = Nothing(s)
  BY <1>3
<1>6. ASSUME NEW k \in 1..n
      PROVE  after[k] = ClaimOne(r, after[k - 1], claims[k])
  <2>1. k \in 0..n /\ k # 0
    OBVIOUS
  <2>2. QED
    BY <1>3, <2>1
<1>7. Claimed(after, r, s, claims)
  BY <1>4, <1>5, <1>6 DEF Claimed
<1>8. QED
  BY <1>7

(* What claiming has done after k claims.                                  *)
LEMMA ClaimIs ==
  ASSUME NEW r, NEW s, NEW claims, Len(claims) \in Nat
  PROVE  LET c == Claim(r, s, claims)
         IN  /\ s \subseteq c.scope
             /\ Len(claims) # 0 => Last(c.got) \in c.scope
<1> DEFINE n == Len(claims)
<1>1. PICK after : Claimed(after, r, s, claims)
  BY ClaimSteps
<1> DEFINE Good(so, i) == /\ s \subseteq so.scope /\ so.got \in Seq(so.scope)
                          /\ i # 0 => Last(so.got) \in so.scope
           Odd == {m \in 0..n : ~Good(after[m], m)}
<1>5. Odd = {}
  <2> SUFFICES ASSUME Odd # {} PROVE FALSE
    OBVIOUS
  <2>0. Odd \in SUBSET Nat
    OBVIOUS
  <2>1. PICK m \in Odd : \A k \in Odd : m <= k
    <3> HIDE DEF Odd
    <3>1. QED
      BY <2>0, Smallest
  <2>3. CASE m = 0
    <3>1. after[m] = Nothing(s)
      BY <1>1, <2>3 DEF Claimed
    <3>2. Good(after[m], m)
      BY <2>3, <3>1 DEF Nothing
    <3>3. QED
      BY <2>1, <3>2
  <2>4. CASE m # 0
    <3> DEFINE so == after[m - 1]
               c == claims[m]
               t == IF c.public THEN Mangle(so.scope, c.raw) ELSE Avoiding(r, so.scope, c.raw)
    <3>1. m - 1 \in 0..n /\ ~(m <= m - 1)
      BY <2>1, <2>4
    <3>2. Good(so, m - 1)
      BY <2>1, <3>1
    <3>3. after[m].scope = so.scope \cup {t} /\ after[m].got = Append(so.got, t)
      <4>1. m \in 1..n
        BY <2>1, <2>4
      <4>2. after[m] = ClaimOne(r, so, c)
        BY <1>1, <4>1 DEF Claimed
      <4>3. QED
        BY <4>2 DEF ClaimOne
    <3> HIDE DEF so, t
    <3>4. so.got \in Seq(so.scope \cup {t})
      <4>1. so.got \in [1..Len(so.got) -> so.scope] /\ Len(so.got) \in Nat
        BY <3>2, LenProperties
      <4>2. so.got \in [1..Len(so.got) -> so.scope \cup {t}]
        BY <4>1
      <4>3. QED
        BY <4>1, <4>2, SeqDef
    <3>5. Append(so.got, t) \in Seq(so.scope \cup {t})
      BY <3>4
    <3>6. Last(Append(so.got, t)) = t
      BY <3>4, AppendProperties DEF Last
    <3>7. Good(after[m], m)
      BY <3>2, <3>3, <3>5, <3>6
    <3>8. QED
      BY <2>1, <3>7
  <2>5. QED
    BY <2>3, <2>4
<1>6. Good(after[n], n)
  BY <1>5
<1>7. QED
  BY <1>1, <1>6 DEF Claimed

LEMMA ListIsSequence ==
  ASSUME NEW q, NEW n \in Nat, q = [k \in 1..n |-> q[k]]
  PROVE  IsSequence(q) /\ Len(q) = n /\ DOMAIN q = 1..n
<1>1. q \in [1..n -> {q[k] : k \in 1..n}]
  OBVIOUS
<1>2. q \in Seq({q[k] : k \in 1..n})
  BY <1>1, SeqDef
<1>3. QED
  BY <1>2, LenProperties DEF IsSequence

-----------------------------------------------------------------------------
(* The names a header may define: not empty, and with a number if they     *)
(* begin like the runtime's.                                               *)
Fine(n) == IsSequence(n) /\ n # <<>> /\ (Runtime(n) => Numbered(n))
FineOrNull(n) == n = <<>> \/ Fine(n)

LEMMA NotNone ==
  ASSUME NEW n, IsSequence(n)
  PROVE  Len(n) \in Nat /\ (n # <<>> => Len(n) >= 1)
BY EmptySeq DEF IsSequence

LEMMA AppendIs ==
  ASSUME NEW n, IsSequence(n), NEW w
  PROVE  /\ IsSequence(Append(n, w)) /\ Len(Append(n, w)) = Len(n) + 1
         /\ \A i \in 1..Len(n) : Append(n, w)[i] = n[i]
         /\ Append(n, w)[Len(n) + 1] = w
<1>1. PICK S : n \in Seq(S)
  BY DEF IsSequence
<1>2. n \in Seq(S \cup {w})
  <2>1. n \in [1..Len(n) -> S] /\ Len(n) \in Nat
    BY <1>1, LenProperties
  <2>2. n \in [1..Len(n) -> S \cup {w}]
    BY <2>1
  <2>3. QED
    BY <2>1, <2>2, SeqDef
<1>3. Append(n, w) \in Seq(S \cup {w})
  BY <1>2
<1>4. QED
  BY <1>2, <1>3, AppendProperties DEF IsSequence

LEMMA SuffixedIs ==
  ASSUME NEW n, IsSequence(n), NEW k \in 1..MaxSuffix
  PROVE  /\ IsSequence(Suffixed(n, k)) /\ Len(Suffixed(n, k)) = Len(n) + 1
         /\ \A i \in 1..Len(n) : Suffixed(n, k)[i] = n[i]
         /\ n # <<>> => Numbered(Suffixed(n, k))
<1>1. MaxSuffix \in Nat /\ k # 0 /\ ToString(k) \in Numbers
  BY NumbersAssumption
<1>2. Suffixed(n, k) = Append(n, ToString(k))
  BY <1>1 DEF Suffixed
<1>3. /\ IsSequence(Suffixed(n, k)) /\ Len(Suffixed(n, k)) = Len(n) + 1
      /\ \A i \in 1..Len(n) : Suffixed(n, k)[i] = n[i]
      /\ Suffixed(n, k)[Len(n) + 1] = ToString(k)
  BY <1>2, AppendIs
<1>4. n # <<>> => Numbered(Suffixed(n, k))
  <2>1. n # <<>> => Len(n) + 1 \in 2..(Len(n) + 1)
    BY NotNone
  <2>2. QED
    BY <1>1, <1>3, <2>1 DEF Numbered
<1>5. QED
  BY <1>3, <1>4

(* n goes on: what stands at its places stays.                             *)
GoesOn(m, n) == IsSequence(m) /\ Len(n) <= Len(m) /\ \A i \in 1..Len(n) : m[i] = n[i]

LEMMA GoesOnFine ==
  ASSUME NEW n, NEW m, Fine(n), GoesOn(m, n)
  PROVE  Fine(m)
<1>1. /\ IsSequence(n) /\ IsSequence(m) /\ Len(n) \in Nat /\ Len(m) \in Nat /\ Len(n) >= 1
      /\ Len(m) >= 1
  BY NotNone DEF Fine, GoesOn
<1>2. m # <<>>
  BY <1>1
<1>3. m[1] = n[1]
  BY <1>1 DEF GoesOn
<1>4. Numbered(n) => Numbered(m)
  <2> SUFFICES ASSUME Numbered(n) PROVE Numbered(m)
    OBVIOUS
  <2>1. PICK k \in 2..Len(n) : n[k] \in Numbers
    BY DEF Numbered
  <2>2. k \in 2..Len(m) /\ m[k] = n[k]
    BY <1>1, <2>1 DEF GoesOn
  <2>3. QED
    BY <2>1, <2>2 DEF Numbered
<1>5. QED
  BY <1>1, <1>2, <1>3, <1>4 DEF Fine, Runtime

LEMMA JoinGoesOn ==
  ASSUME NEW n, IsSequence(n), NEW x, IsSequence(x)
  PROVE  GoesOn(n \o x, n)
<1>1. IsSequence(n \o x)
  BY JoinIsSequence
<1>2. /\ Len(n) \in Nat /\ Len(x) \in Nat /\ Len(n \o x) = Len(n) + Len(x)
      /\ \A k \in 1..(Len(n) + Len(x)) : (n \o x)[k] = IF k <= Len(n) THEN n[k] ELSE x[k - Len(n)]
  BY JoinIs
<1>3. \A k \in 1..Len(n) : k \in 1..(Len(n) + Len(x)) /\ k <= Len(n)
  BY <1>2
<1>4. \A k \in 1..Len(n) : (n \o x)[k] = n[k]
  BY <1>2, <1>3
<1>5. QED
  BY <1>1, <1>2, <1>4 DEF GoesOn

LEMMA AppendGoesOn ==
  ASSUME NEW n, IsSequence(n), NEW w
  PROVE  GoesOn(Append(n, w), n)
<1>1. Len(n) \in Nat
  BY NotNone
<1>2. QED
  BY <1>1, AppendIs DEF GoesOn

(* A name the mangler finds is the name itself, if that is free, or it has *)
(* a number.                                                               *)
LEMMA MangleIs ==
  ASSUME NEW s, NEW n, IsSequence(n)
  PROVE  /\ IsSequence(CSafe(n)) /\ GoesOn(CSafe(n), n)
         /\ \/ Mangle(s, n) = <<>>
            \/ Mangle(s, n) = CSafe(n) /\ CSafe(n) \notin s
            \/ IsSequence(Mangle(s, n)) /\ GoesOn(Mangle(s, n), CSafe(n))
               /\ (n # <<>> => Numbered(Mangle(s, n)))
<1>1. IsSequence(CSafe(n)) /\ GoesOn(CSafe(n), n)
  <2>1. IsSequence(Append(n, "")) /\ GoesOn(Append(n, ""), n)
    BY AppendGoesOn DEF GoesOn
  <2>2. IsSequence(n) /\ GoesOn(n, n)
    BY NotNone DEF GoesOn
  <2>3. CSafe(n) = n \/ CSafe(n) = Append(n, "")
    BY DEF CSafe
  <2>4. CASE CSafe(n) = n
    BY <2>2, <2>4
  <2>5. CASE CSafe(n) = Append(n, "")
    BY <2>1, <2>5
  <2>6. QED
    BY <2>3, <2>4, <2>5
<1> DEFINE c == CSafe(n)
           free(k) == Suffixed(c, k) \notin s
           first(k) == free(k) /\ \A j \in 0..(k - 1) : ~free(j)
<1>2. Mangle(s, n) = IF \E k \in 0..MaxSuffix : free(k)
                     THEN Suffixed(c, CHOOSE k \in 0..MaxSuffix : first(k))
                     ELSE <<>>
  BY DEF Mangle, First
<1>3. CASE ~\E k \in 0..MaxSuffix : free(k)
  BY <1>1, <1>2, <1>3
<1>4. CASE \E k \in 0..MaxSuffix : free(k)
  <2> DEFINE Frees == {k \in 0..MaxSuffix : free(k)}
  <2>1. PICK l \in Frees : \A j \in Frees : l <= j
    <3>1. Frees \in SUBSET Nat /\ Frees # {}
      BY <1>4
    <3> HIDE DEF Frees
    <3>2. QED
      BY <3>1, Smallest
  <2>2. l \in 0..MaxSuffix /\ first(l)
    <3>1. MaxSuffix \in Nat
      BY NumbersAssumption
    <3>2. l \in 0..MaxSuffix /\ free(l)
      BY <2>1
    <3>3. ASSUME NEW j \in 0..(l - 1) PROVE ~free(j)
      <4>1. j \in 0..MaxSuffix /\ ~(l <= j)
        BY <3>1, <3>2, <3>3
      <4> HIDE DEF free
      <4>2. QED
        BY <2>1, <4>1
    <3>4. QED
      BY <3>2, <3>3
  <2> DEFINE k == CHOOSE k \in 0..MaxSuffix : first(k)
  <2>3. k \in 0..MaxSuffix /\ first(k)
    <3> HIDE DEF first
    <3>1. QED
      BY <2>2
  <2>4. Mangle(s, n) = Suffixed(c, k)
    BY <1>2, <1>4
  <2> HIDE DEF k
  <2>5. CASE k = 0
    <3>1. Suffixed(c, 0) = c
      BY DEF Suffixed
    <3>2. QED
      BY <1>1, <2>3, <2>4, <2>5, <3>1
  <2>6. CASE k # 0
    <3>1. k \in 1..MaxSuffix
      BY <2>3, <2>6, NumbersAssumption
    <3> HIDE DEF c
    <3>2. IsSequence(c) /\ GoesOn(c, n)
      BY <1>1 DEF c
    <3>3. n # <<>> => c # <<>>
      <4>1. Len(n) \in Nat /\ Len(c) \in Nat /\ Len(n) <= Len(c)
        BY <3>2, NotNone DEF GoesOn
      <4>2. n # <<>> => Len(c) >= 1
        BY <4>1, NotNone
      <4>3. QED
        BY <4>2
    <3>4. /\ IsSequence(Suffixed(c, k)) /\ Len(Suffixed(c, k)) = Len(c) + 1
          /\ \A i \in 1..Len(c) : Suffixed(c, k)[i] = c[i]
          /\ c # <<>> => Numbered(Suffixed(c, k))
      BY <3>1, <3>2, SuffixedIs
    <3>5. GoesOn(Suffixed(c, k), c)
      BY <3>2, <3>4, NotNone DEF GoesOn
    <3>6. QED
      BY <2>4, <3>2, <3>3, <3>4, <3>5 DEF c
  <2>7. QED
    BY <2>5, <2>6
<1>5. QED
  BY <1>3, <1>4

(* What the mangler makes of a fine name is fine, or NULL.                 *)
LEMMA MangleFine ==
  ASSUME NEW s, NEW n, Fine(n)
  PROVE  FineOrNull(Mangle(s, n))
<1>1. IsSequence(n)
  BY DEF Fine
<1>2. IsSequence(CSafe(n)) /\ GoesOn(CSafe(n), n)
  BY <1>1, MangleIs
<1>3. Fine(CSafe(n))
  BY <1>2, GoesOnFine
<1>4. PICK m : m = Mangle(s, n)
  OBVIOUS
<1>5. m = <<>> \/ m = CSafe(n) \/ GoesOn(m, CSafe(n))
  BY <1>1, <1>4, MangleIs
<1>6. GoesOn(m, CSafe(n)) => Fine(m)
  BY <1>3, GoesOnFine
<1>7. QED
  BY <1>3, <1>4, <1>5, <1>6 DEF FineOrNull

LEMMA MangleIsSequence ==
  ASSUME NEW s, NEW n, IsSequence(n)
  PROVE  IsSequence(Mangle(s, n))
<1>1. IsSequence(<<>>) /\ IsSequence(CSafe(n))
  BY NoneIsSequence, MangleIs
<1>2. QED
  BY <1>1, MangleIs

(* What the names of a message are made of.                                *)
LEMMA AppendFine ==
  ASSUME NEW n, FineOrNull(n), NEW w, w \notin {"gremlin", "GREMLIN"}
  PROVE  Fine(Append(n, w))
<1>1. CASE n = <<>>
  <2>1. Append(n, w) = <<w>>
    BY <1>1
  <2>2. IsSequence(<<w>>) /\ <<w>> # <<>> /\ <<w>>[1] = w
    BY OneIsSequence
  <2>3. QED
    BY <2>1, <2>2 DEF Fine, Runtime
<1>2. CASE Fine(n)
  <2>1. GoesOn(Append(n, w), n)
    BY <1>2, AppendGoesOn DEF Fine
  <2>2. QED
    BY <1>2, <2>1, GoesOnFine
<1>3. QED
  BY <1>1, <1>2 DEF FineOrNull

LEMMA JoinFine ==
  ASSUME NEW n, Fine(n), NEW x, IsSequence(x)
  PROVE  Fine(n \o x)
<1>1. GoesOn(n \o x, n)
  BY JoinGoesOn DEF Fine
<1>2. QED
  BY <1>1, GoesOnFine

LEMMA JoinedName ==
  ASSUME NEW name \in Seq(Seq(STRING))
  PROVE  IsSequence(FlattenSeq(name))
<1>1. Len(name) \in Nat /\ DOMAIN name = 1..Len(name) /\ IsSequence(name)
  BY LenProperties DEF IsSequence
<1>2. \A k \in 1..Len(name) : IsSequence(name[k])
  BY ElementOfSeq DEF IsSequence
<1>3. QED
  BY <1>1, <1>2, FlattenIsSequence

-----------------------------------------------------------------------------
(* Members.  What a field is called in C is a sequence of words.           *)
NamedMembers(g, fields) ==
  /\ MemberNames(fields) = g[Len(fields)]
  /\ g[0] = [scope |-> Housekeeping, got |-> <<>>]
  /\ \A k \in 1..Len(fields) : g[k] = Member(g[k - 1], fields[k])

LEMMA MemberSteps ==
  ASSUME NEW fields, IsList(fields)
  PROVE  \E g : NamedMembers(g, fields)
<1> DEFINE n == Len(fields)
           First0 == [scope |-> Housekeeping, got |-> <<>>]
           Step(g, i) == IF i = 0 THEN First0 ELSE Member(g[i - 1], fields[i])
           After(g, m) == g = [i \in 0..m |-> Step(g, i)]
           Bad == {m \in Nat : m <= n /\ ~\E g : After(g, m)}
<1>1. Bad = {}
  <2> SUFFICES ASSUME Bad # {} PROVE FALSE
    OBVIOUS
  <2>1. PICK m \in Bad : \A k \in Bad : m <= k
    BY Smallest
  <2>2. CASE m = 0
    <3> DEFINE g == [i \in 0..m |-> First0]
    <3>1. \A i \in 0..m : i = 0
      BY <2>2
    <3> HIDE DEF First0
    <3>2. After(g, m)
      BY <3>1
    <3>3. QED
      BY <2>1, <3>2
  <2>3. CASE m # 0
    <3>1. m \in Nat /\ m - 1 \in Nat /\ m - 1 <= n /\ ~(m <= m - 1)
      BY <2>1, <2>3
    <3>2. m - 1 \notin Bad
      BY <2>1, <3>1
    <3>3. PICK g : After(g, m - 1)
      BY <3>1, <3>2
    <3> DEFINE h == [i \in 0..m |-> Step(g, i)]
    <3>4. ASSUME NEW i \in 0..m, i # 0
          PROVE  h[i - 1] = g[i - 1]
      <4>1. i - 1 \in 0..(m - 1) /\ i - 1 \in 0..m
        BY <3>1, <3>4
      <4>2. h[i - 1] = Step(g, i - 1)
        BY <4>1
      <4>3. g[i - 1] = Step(g, i - 1)
        BY <3>3, <4>1
      <4>4. QED
        BY <4>2, <4>3
    <3>5. h = [i \in 0..m |-> Step(g, i)]
      OBVIOUS
    <3> HIDE DEF h, First0
    <3>6. \A i \in 0..m : Step(h, i) = Step(g, i)
      BY <3>4
    <3> HIDE DEF Step
    <3>7. [i \in 0..m |-> Step(h, i)] = [i \in 0..m |-> Step(g, i)]
      BY <3>6
    <3>8. After(h, m)
      BY <3>5, <3>7
    <3>9. QED
      BY <2>1, <3>8
  <2>4. QED
    BY <2>2, <2>3
<1>2. \E g : After(g, n)
  <2> HIDE DEF After
  <2>1. n \in Nat /\ n <= n /\ n \notin Bad
    <3>1. n \in Nat /\ n <= n
      BY DEF IsList
    <3> HIDE DEF Bad
    <3>2. n \notin Bad
      BY <1>1
    <3>3. QED
      BY <3>1, <3>2
  <2>2. QED
    BY <2>1
<1> DEFINE after == CHOOSE g : After(g, n)
<1>3. After(after, n)
  BY <1>2
<1>4. MemberNames(fields) = after[n]
  BY DEF MemberNames
<1> HIDE DEF after
<1>5. after[0] = First0 /\ n \in Nat
  BY <1>3 DEF IsList
<1>6. ASSUME NEW k \in 1..n
      PROVE  after[k] = Member(after[k - 1], fields[k])
  <2>1. k \in 0..n /\ k # 0
    OBVIOUS
  <2>2. QED
    BY <1>3, <2>1
<1>7. NamedMembers(after, fields)
  BY <1>4, <1>5, <1>6 DEF NamedMembers
<1>8. QED
  BY <1>7

WordFields(fields) ==
  IsList(fields) /\ \A k \in DOMAIN fields : fields[k].name \in Seq(Seq(STRING))

LEMMA MembersAre ==
  ASSUME NEW fields, WordFields(fields)
  PROVE  \A k \in DOMAIN fields : IsSequence(Members(fields)[k])
<1> DEFINE n == Len(fields)
<1>1. n \in Nat /\ DOMAIN fields = 1..n
  BY DEF WordFields, IsList
<1>2. PICK after : NamedMembers(after, fields)
  BY MemberSteps DEF WordFields
<1> DEFINE Good(got, m) ==
             IsSequence(got) /\ Len(got) = m /\ \A k \in 1..m : IsSequence(got[k])
           Odd == {m \in 0..n : ~Good(after[m].got, m)}
<1>3. Odd = {}
  <2> SUFFICES ASSUME Odd # {} PROVE FALSE
    OBVIOUS
  <2>1. PICK m \in Odd : \A k \in Odd : m <= k
    <3>1. Odd \in SUBSET Nat
      BY <1>1
    <3> HIDE DEF Odd
    <3>2. QED
      BY <3>1, Smallest
  <2>2. CASE m = 0
    <3>1. after[m].got = <<>>
      BY <1>2, <2>2 DEF NamedMembers
    <3>2. Good(<<>>, 0)
      BY NoneIsSequence
    <3>3. QED
      BY <2>1, <2>2, <3>1, <3>2
  <2>3. CASE m # 0
    <3> DEFINE so == after[m - 1]
               t == Mangle(so.scope, SnakeCase(fields[m].name))
    <3>1. m - 1 \in 0..n /\ ~(m <= m - 1) /\ m \in 1..n /\ m \in Nat /\ m \in DOMAIN fields
      BY <1>1, <2>1, <2>3
    <3>2. Good(so.got, m - 1)
      BY <2>1, <3>1
    <3>3. after[m].got = Append(so.got, t)
      <4>1. after[m] = Member(so, fields[m])
        BY <1>2, <3>1 DEF NamedMembers
      <4>2. QED
        BY <4>1 DEF Member
    <3>4. IsSequence(t)
      BY <3>1, JoinedName, MangleIsSequence DEF WordFields, SnakeCase
    <3> HIDE DEF so, t
    <3> DEFINE old == so.got
               new == Append(old, t)
    <3> HIDE DEF old
    <3>5. IsSequence(old) /\ Len(old) = m - 1 /\ \A k \in 1..(m - 1) : IsSequence(old[k])
      BY <3>2 DEF old
    <3>6. IsSequence(new) /\ Len(new) = (m - 1) + 1 /\ new[(m - 1) + 1] = t
          /\ \A k \in 1..(m - 1) : new[k] = old[k]
      BY <3>5, AppendIs
    <3> HIDE DEF new
    <3>7. (m - 1) + 1 = m /\ \A k \in 1..m : k = m \/ k \in 1..(m - 1)
      BY <3>1
    <3>8. Good(new, m)
      BY <3>4, <3>5, <3>6, <3>7
    <3>9. QED
      BY <2>1, <3>3, <3>8 DEF new, old
  <2>4. QED
    BY <2>2, <2>3
<1>4. Good(after[n].got, n)
  BY <1>1, <1>3
<1>5. Members(fields) = after[n].got
  BY <1>2 DEF NamedMembers, Members
<1>6. QED
  BY <1>1, <1>4, <1>5

-----------------------------------------------------------------------------
(* Claims whose names go into a header are of public, fine names.          *)
TidyClaim(c) == c.printed => c.public /\ Fine(c.raw)

Tidy(claims) == IsSequence(claims) /\ \A k \in DOMAIN claims : TidyClaim(claims[k])

LEMMA TidyOne ==
  ASSUME NEW n
  PROVE  /\ Fine(n) => Tidy(<<Public(n)>>)
         /\ Tidy(<<Unused(n)>>) /\ Tidy(<<Private(n)>>)
<1>1. TidyClaim(Unused(n)) /\ TidyClaim(Private(n)) /\ (Fine(n) => TidyClaim(Public(n)))
  BY DEF TidyClaim, Unused, Private, Public
<1>3. ASSUME NEW c, TidyClaim(c)
      PROVE  Tidy(<<c>>)
  <2>1. IsSequence(<<c>>)
    BY OneIsSequence
  <2>2. \A k \in DOMAIN <<c>> : <<c>>[k] = c
    OBVIOUS
  <2>3. QED
    BY <1>3, <2>1, <2>2 DEF Tidy
<1>4. QED
  BY <1>1, <1>3

LEMMA TidyNone == Tidy(<<>>)
BY NoneIsSequence DEF Tidy

LEMMA TidyJoin ==
  ASSUME NEW a, NEW b, Tidy(a), Tidy(b)
  PROVE  Tidy(a \o b)
<1>1. IsSequence(a) /\ IsSequence(b) /\ IsSequence(a \o b)
  BY JoinIsSequence DEF Tidy
<1>2. ASSUME NEW j \in DOMAIN (a \o b) PROVE TidyClaim((a \o b)[j])
  BY <1>1, JoinElements DEF Tidy, ElementOf
<1>3. QED
  BY <1>1, <1>2 DEF Tidy

LEMMA TidyMany ==
  ASSUME NEW fields, IsList(fields), NEW q, DOMAIN q = DOMAIN fields,
         q = [k \in DOMAIN fields |-> q[k]], \A k \in DOMAIN fields : Tidy(q[k])
  PROVE  Tidy(FlattenSeq(q))
<1> DEFINE n == Len(fields)
<1>1. n \in Nat /\ DOMAIN fields = 1..n
  BY DEF IsList
<1> HIDE DEF n
<1>2. IsSequence(q) /\ Len(q) = n
  BY <1>1, ListIsSequence
<1>3. IsSequence(FlattenSeq(q)) /\ MadeOf(FlattenSeq(q), q, n)
  BY <1>1, <1>2, FlattenIsSequence DEF Tidy
<1>4. QED
  BY <1>1, <1>3 DEF MadeOf, Tidy, ElementOf

LEMMA TidyMain ==
  ASSUME NEW t, Fine(t)
  PROVE  Tidy(MainNames(t)) /\ Len(MainNames(t)) = 3 /\ MainNames(t)[3].printed
<1> DEFINE x == Public(Append(t, "size"))
           y == Public(Append(t, "encode"))
           z == Public(Append(t, "reader"))
<1>1. Fine(Append(t, "size")) /\ Fine(Append(t, "encode")) /\ Fine(Append(t, "reader"))
  BY AppendFine DEF FineOrNull
<1>2. TidyClaim(x) /\ TidyClaim(y) /\ TidyClaim(z) /\ z.printed
  BY <1>1 DEF TidyClaim, Public
<1>3. MainNames(t) = <<x, y, z>>
  BY DEF MainNames
<1> HIDE DEF x, y, z
<1>4. <<x, y, z>> \in Seq({x, y, z})
  OBVIOUS
<1>5. IsSequence(<<x, y, z>>)
  BY <1>4 DEF IsSequence
<1>6. \A k \in DOMAIN <<x, y, z>> : <<x, y, z>>[k] \in {x, y, z}
  OBVIOUS
<1>7. Len(<<x, y, z>>) = 3 /\ <<x, y, z>>[3] = z
  OBVIOUS
<1>8. QED
  BY <1>2, <1>3, <1>5, <1>6, <1>7 DEF Tidy

LEMMA TidyOfFields ==
  ASSUME NEW fields, WordFields(fields), NEW t, Fine(t), NEW r, FineOrNull(r)
  PROVE  Tidy(OfFields(fields, t, r))
<1> DEFINE get(k) == Append(r, "get") \o Members(fields)[k]
           made(k) == Append(t \o Members(fields)[k], "entry")
           own(k) == IF Counted(fields[k]) THEN <<Unused(get(k))>> ELSE <<Public(get(k))>>
           entry(k) == IF IsMap(fields[k]) THEN <<Public(made(k))>> ELSE <<>>
           q == [k \in DOMAIN fields |-> IF Each(fields[k]) THEN own(k) \o entry(k) ELSE <<>>]
<1>1. ASSUME NEW k \in DOMAIN fields
      PROVE  Tidy(own(k)) /\ Tidy(entry(k))
  <2>1. IsSequence(Members(fields)[k])
    BY MembersAre
  <2>2. Fine(Append(r, "get"))
    BY AppendFine
  <2>3. Fine(get(k)) /\ Fine(t \o Members(fields)[k])
    BY <2>1, <2>2, JoinFine
  <2>4. Fine(made(k))
    BY <2>3, AppendFine DEF FineOrNull
  <2> HIDE DEF get, made
  <2>5. QED
    BY <2>3, <2>4, TidyOne, TidyNone
<1>2. OfFields(fields, t, r) = FlattenSeq(q)
  BY DEF OfFields, PerField
<1> HIDE DEF own, entry
<1>3. \A k \in DOMAIN fields : Tidy(q[k])
  BY <1>1, TidyJoin, TidyNone
<1>4. IsList(fields)
  BY DEF WordFields
<1>5. Tidy(FlattenSeq(q))
  BY <1>3, <1>4, TidyMany
<1>6. QED
  BY <1>2, <1>5

LEMMA TidyPredicates ==
  ASSUME NEW fields, NEW r
  PROVE  Tidy(Predicates(fields, r))
<1> DEFINE a == <<Private(Append(r, "ok"))>>
           b == IF \E fd \in Range(fields) : HasSpan(fd) THEN <<Private(Append(r, "spans"))>> ELSE <<>>
<1>1. Tidy(a) /\ Tidy(b)
  BY TidyOne, TidyNone
<1>2. Predicates(fields, r) = a \o b
  BY DEF Predicates
<1> HIDE DEF a, b
<1>3. QED
  BY <1>1, <1>2, TidyJoin

LEMMA TidyIterators ==
  ASSUME NEW fields, NEW r, IsList(fields)
  PROVE  Tidy(IteratorPredicates(fields, r))
<1> DEFINE one(k) == <<Private(r \o Members(fields)[k] \o <<"iter", "ok">>)>>
           q == [k \in DOMAIN fields |-> IF Counted(fields[k]) THEN one(k) ELSE <<>>]
<1>1. \A k : Tidy(one(k))
  BY TidyOne
<1>2. IteratorPredicates(fields, r) = FlattenSeq(q)
  BY DEF IteratorPredicates, PerField
<1> HIDE DEF one
<1>3. \A k \in DOMAIN fields : Tidy(q[k])
  BY <1>1, TidyNone
<1>4. QED
  BY <1>2, <1>3, TidyMany

LEMMA TidyWriteSide ==
  ASSUME NEW fields, NEW t, NEW planned, NEW elem, IsList(fields)
  PROVE  Tidy(WriteSide(fields, t, planned, elem))
<1> DEFINE at1(k) == <<Private(Append(t, "encode") \o Append(Members(fields)[k], "at"))>>
           mono(k) == IF HasSum(fields[k]) THEN <<Private(Append(t \o Members(fields)[k], "mono"))>>
                      ELSE <<>>
           q == [k \in DOMAIN fields |-> IF Each(fields[k]) THEN at1(k) \o mono(k) ELSE <<>>]
           a == <<Private(t \o <<"tsize", "nonneg">>)>>
           b == IF elem THEN <<Private(t \o <<"tsize", "pos">>)>> ELSE <<>>
           w == a \o b \o FlattenSeq(q)
<1>1. \A k : Tidy(at1(k)) /\ Tidy(mono(k))
  BY TidyOne, TidyNone
<1>2. Tidy(a) /\ Tidy(b)
  BY TidyOne, TidyNone
<1>3. Tidy(FlattenSeq(q))
  <2> HIDE DEF at1, mono
  <2>1. \A k \in DOMAIN fields : Tidy(q[k])
    BY <1>1, TidyJoin, TidyNone
  <2>2. QED
    BY <2>1, TidyMany
<1>4. WriteSide(fields, t, planned, elem) = IF ~planned THEN <<>> ELSE w
  BY DEF WriteSide, PerField
<1>5. Tidy(w)
  <2> HIDE DEF a, b, q
  <2>1. QED
    BY <1>2, <1>3, TidyJoin
<1> HIDE DEF w
<1>6. QED
  BY <1>4, <1>5, TidyNone

-----------------------------------------------------------------------------
(* What a type claims is a sequence of claims.                             *)

LEMMA ManySequences ==
  ASSUME NEW fields, IsList(fields), NEW q, DOMAIN q = DOMAIN fields,
         q = [k \in DOMAIN fields |-> q[k]], \A k \in DOMAIN fields : IsSequence(q[k])
  PROVE  IsSequence(FlattenSeq(q))
<1>1. q \in Seq({q[k] : k \in DOMAIN fields})
  <2>1. q \in [1..Len(fields) -> {q[k] : k \in DOMAIN fields}] /\ Len(fields) \in Nat
    BY DEF IsList
  <2>2. QED
    BY <2>1, SeqDef
<1>2. IsSequence(q)
  BY <1>1 DEF IsSequence
<1>3. Len(q) = Len(fields) /\ Len(fields) \in Nat /\ DOMAIN q = 1..Len(fields)
  BY <1>1, LenProperties DEF IsList
<1>4. \A k \in 1..Len(fields) : IsSequence(q[k])
  BY <1>3
<1>5. QED
  BY <1>2, <1>3, <1>4, FlattenIsSequence

LEMMA OfFieldsIsSequence ==
  ASSUME NEW fields, NEW t, NEW r, IsList(fields)
  PROVE  IsSequence(OfFields(fields, t, r))
<1> DEFINE own(k) == IF Counted(fields[k]) THEN <<Unused(Append(r, "get") \o Members(fields)[k])>>
                     ELSE <<Public(Append(r, "get") \o Members(fields)[k])>>
           entry(k) == IF IsMap(fields[k]) THEN <<Public(Append(t \o Members(fields)[k], "entry"))>>
                       ELSE <<>>
           q == [k \in DOMAIN fields |-> IF Each(fields[k]) THEN own(k) \o entry(k) ELSE <<>>]
<1>1. \A k : IsSequence(own(k)) /\ IsSequence(entry(k))
  BY OneIsSequence, NoneIsSequence
<1> HIDE DEF own, entry
<1>2. \A k \in DOMAIN fields : IsSequence(q[k])
  BY <1>1, JoinIsSequence, NoneIsSequence
<1>3. IsSequence(FlattenSeq(q))
  BY <1>2, ManySequences
<1>4. OfFields(fields, t, r) = FlattenSeq(q)
  BY DEF OfFields, PerField, own, entry
<1>5. QED
  BY <1>3, <1>4

LEMMA MessageClaimsIsSequence ==
  ASSUME NEW r, NEW s, NEW t, NEW fields, NEW planned, NEW elem, IsList(fields)
  PROVE  IsSequence(MessageClaims(r, s, t, fields, planned, elem))
<1> DEFINE n == ReaderName(r, s, t)
           a == MainNames(t)
           b == <<Public(Append(n, "init"))>>
           c == Predicates(fields, n)
           d == OfFields(fields, t, n)
           e == IteratorPredicates(fields, n)
           f == WriteSide(fields, t, planned, elem)
<1>1. IsSequence(a)
  <2> DEFINE x == Public(Append(t, "size"))
             y == Public(Append(t, "encode"))
             z == Public(Append(t, "reader"))
  <2>1. a = <<x, y, z>>
    BY DEF MainNames
  <2> HIDE DEF x, y, z, a
  <2>2. <<x, y, z>> \in Seq({x, y, z})
    OBVIOUS
  <2>3. QED
    BY <2>1, <2>2 DEF IsSequence
<1>2. IsSequence(b)
  BY OneIsSequence
<1>3. IsSequence(c)
  BY TidyPredicates DEF Tidy
<1>4. IsSequence(d)
  BY OfFieldsIsSequence
<1>5. IsSequence(e)
  BY TidyIterators DEF Tidy
<1>6. IsSequence(f)
  BY TidyWriteSide DEF Tidy
<1>7. MessageClaims(r, s, t, fields, planned, elem) = a \o b \o c \o d \o e \o f
  BY DEF MessageClaims
<1> HIDE DEF a, b, c, d, e, f
<1>8. QED
  BY <1>1, <1>2, <1>3, <1>4, <1>5, <1>6, <1>7, JoinIsSequence

-----------------------------------------------------------------------------
(* The files' types and the order they are emitted in.                     *)

LEMMA SchemaIs ==
  ASSUME NEW s \in Schemas
  PROVE  /\ Len(s) \in Nat /\ Len(s) > 0 /\ DOMAIN s = 1..Len(s) /\ 1 \in DOMAIN s
         /\ \A f \in DOMAIN s : IsList(s[f].enums) /\ IsList(s[f].messages)
         /\ \A f \in DOMAIN s : \A m \in DOMAIN s[f].messages : IsList(s[f].messages[m].fields)
         /\ \A f \in DOMAIN s : \A e \in DOMAIN s[f].enums : IsList(s[f].enums[e].values)
<1>1. Len(s) \in Nat /\ Len(s) > 0 /\ DOMAIN s = 1..Len(s)
  BY SchemasAssumption DEF IsList
<1>2. ASSUME NEW f \in DOMAIN s, NEW e \in DOMAIN s[f].enums
      PROVE  IsList(s[f].enums[e].values)
  BY SchemasAssumption, LenProperties DEF IsList
<1>3. QED
  BY <1>1, <1>2, SchemasAssumption

(* How many types a file has.                                              *)
EnumCount(s, f)    == Len(s[f].enums)
MessageCount(s, f) == Len(s[f].messages)
Count(s, f)        == EnumCount(s, f) + MessageCount(s, f)

\* Where the p-th message stands among them.
MessageSlot(s, f, p) == EnumCount(s, f) + p

LEMMA EnumsAre ==
  ASSUME NEW s \in Schemas, NEW f \in DOMAIN s
  PROVE  LET n == EnumCount(s, f)
         IN  /\ n \in Nat /\ IsSequence(Enums(s, f)) /\ Len(Enums(s, f)) = n
             /\ DOMAIN Enums(s, f) = 1..n
             /\ \A k \in 1..n : Enums(s, f)[k] = [kind |-> "enum", file |-> f, at |-> k]
<1>1. EnumCount(s, f) \in Nat /\ DOMAIN s[f].enums = 1..EnumCount(s, f)
  BY SchemaIs DEF IsList, EnumCount, MessageCount
<1>2. Enums(s, f) = [k \in 1..EnumCount(s, f) |-> Enums(s, f)[k]]
  BY <1>1 DEF Enums, EnumCount
<1>3. \A k \in 1..EnumCount(s, f) : Enums(s, f)[k] = [kind |-> "enum", file |-> f, at |-> k]
  BY <1>1 DEF Enums, EnumCount
<1>4. QED
  BY <1>1, <1>2, <1>3, ListIsSequence

LEMMA MessagesAre ==
  ASSUME NEW s \in Schemas, NEW f \in DOMAIN s
  PROVE  LET n == MessageCount(s, f)
         IN  /\ n \in Nat /\ IsSequence(Messages(s, f)) /\ Len(Messages(s, f)) = n
             /\ DOMAIN s[f].messages = 1..n /\ DOMAIN Messages(s, f) = 1..n
             /\ \A k \in 1..n : Messages(s, f)[k] = [kind |-> "message", file |-> f, at |-> k]
<1>1. MessageCount(s, f) \in Nat /\ DOMAIN s[f].messages = 1..MessageCount(s, f)
  BY SchemaIs DEF IsList, EnumCount, MessageCount
<1>2. Messages(s, f) = [k \in 1..MessageCount(s, f) |-> Messages(s, f)[k]]
  BY <1>1 DEF Messages, MessageCount
<1>3. \A k \in 1..MessageCount(s, f) :
        Messages(s, f)[k] = [kind |-> "message", file |-> f, at |-> k]
  BY <1>1 DEF Messages, MessageCount
<1>4. QED
  BY <1>1, <1>2, <1>3, ListIsSequence

LEMMA OrderIs ==
  ASSUME NEW s \in Schemas, NEW f \in DOMAIN s
  PROVE  LET n == MessageCount(s, f)
             o == Listed(s, f)
         IN  /\ IsSequence(Order(s, f)) /\ Len(Order(s, f)) = n /\ DOMAIN Order(s, f) = 1..n
             /\ \A k \in 1..n : /\ o[k] \in 1..n
                                /\ Order(s, f)[k] = [kind |-> "message", file |-> f, at |-> o[k]]
             /\ \A m \in 1..n : \E k \in 1..n : o[k] = m
             /\ \A j, k \in 1..n : o[j] = o[k] => j = k
<1> DEFINE n == MessageCount(s, f)
           o == Listed(s, f)
<1>1. /\ o \in [1..n -> 1..n]
      /\ \A m \in 1..n : \E k \in 1..n : o[k] = m
      /\ \A j, k \in 1..n : o[j] = o[k] => j = k
  BY ListedAssumption DEF MessageCount
<1>2. n \in Nat /\ \A k \in 1..n : Messages(s, f)[k] = [kind |-> "message", file |-> f, at |-> k]
  BY MessagesAre
<1>3. DOMAIN o = 1..n /\ \A k \in 1..n : o[k] \in 1..n
  BY <1>1
<1>4. Order(s, f) = [k \in 1..n |-> Order(s, f)[k]]
  BY <1>3 DEF Order
<1>5. \A k \in 1..n : Order(s, f)[k] = [kind |-> "message", file |-> f, at |-> o[k]]
  BY <1>2, <1>3 DEF Order
<1> HIDE DEF n, o
<1>6. IsSequence(Order(s, f)) /\ Len(Order(s, f)) = n /\ DOMAIN Order(s, f) = 1..n
  BY <1>2, <1>4, ListIsSequence
<1>7. QED
  BY <1>1, <1>3, <1>5, <1>6 DEF n, o

(* All types of a file, in the order they are named and in the order they  *)
(* are emitted.                                                            *)
LEMMA TypesAre ==
  ASSUME NEW s \in Schemas, NEW f \in DOMAIN s
  PROVE  /\ EnumCount(s, f) \in Nat /\ MessageCount(s, f) \in Nat /\ Count(s, f) \in Nat
         /\ Count(s, f) = EnumCount(s, f) + MessageCount(s, f)
         /\ Len(Types(s, f)) = Count(s, f) /\ DOMAIN Types(s, f) = 1..Count(s, f)
         /\ Len(ItemsOf(s, f)) = Count(s, f) /\ DOMAIN ItemsOf(s, f) = 1..Count(s, f)
<1>1. EnumCount(s, f) \in Nat /\ IsSequence(Enums(s, f)) /\ Len(Enums(s, f)) = EnumCount(s, f)
  BY EnumsAre
<1>2. /\ MessageCount(s, f) \in Nat /\ IsSequence(Messages(s, f))
      /\ Len(Messages(s, f)) = MessageCount(s, f)
  BY MessagesAre
<1>3. IsSequence(Order(s, f)) /\ Len(Order(s, f)) = MessageCount(s, f)
  BY OrderIs
<1>4. /\ Len(Types(s, f)) = EnumCount(s, f) + MessageCount(s, f)
      /\ DOMAIN Types(s, f) = 1..(EnumCount(s, f) + MessageCount(s, f))
  BY <1>1, <1>2, JoinIs DEF Types
<1>5. /\ Len(ItemsOf(s, f)) = EnumCount(s, f) + MessageCount(s, f)
      /\ DOMAIN ItemsOf(s, f) = 1..(EnumCount(s, f) + MessageCount(s, f))
  BY <1>1, <1>3, JoinIs DEF ItemsOf
<1>6. EnumCount(s, f) + MessageCount(s, f) \in Nat
  BY <1>1, <1>2
<1>7. QED
  BY <1>1, <1>2, <1>4, <1>5, <1>6 DEF Count

LEMMA JoinAt ==
  ASSUME NEW a, NEW b, IsSequence(a), IsSequence(b), NEW k \in 1..(Len(a) + Len(b))
  PROVE  (a \o b)[k] = IF k <= Len(a) THEN a[k] ELSE b[k - Len(a)]
BY JoinIs

LEMMA EnumAt ==
  ASSUME NEW s \in Schemas, NEW f \in DOMAIN s, NEW k \in 1..Count(s, f), k <= EnumCount(s, f)
  PROVE  /\ Types(s, f)[k] = [kind |-> "enum", file |-> f, at |-> k]
         /\ ItemsOf(s, f)[k] = [kind |-> "enum", file |-> f, at |-> k]
<1> DEFINE e == EnumCount(s, f)
           l == MessageCount(s, f)
<1>1. /\ e \in Nat /\ IsSequence(Enums(s, f)) /\ Len(Enums(s, f)) = e
      /\ \A j \in 1..e : Enums(s, f)[j] = [kind |-> "enum", file |-> f, at |-> j]
  BY EnumsAre
<1>2. l \in Nat /\ IsSequence(Messages(s, f)) /\ Len(Messages(s, f)) = l
  BY MessagesAre
<1>3. IsSequence(Order(s, f)) /\ Len(Order(s, f)) = l
  BY OrderIs
<1>4. Count(s, f) = e + l /\ k <= e
  BY DEF Count
<1> HIDE DEF e, l
<1>5. k \in 1..e /\ k \in 1..(e + l)
  BY <1>1, <1>2, <1>4
<1>6. Types(s, f)[k] = Enums(s, f)[k]
  BY <1>1, <1>2, <1>4, <1>5, JoinAt DEF Types
<1>7. ItemsOf(s, f)[k] = Enums(s, f)[k]
  BY <1>1, <1>3, <1>4, <1>5, JoinAt DEF ItemsOf
<1>8. QED
  BY <1>1, <1>5, <1>6, <1>7

LEMMA MessageAt ==
  ASSUME NEW s \in Schemas, NEW f \in DOMAIN s, NEW p \in 1..MessageCount(s, f)
  PROVE  LET k == MessageSlot(s, f, p)
         IN  /\ k \in 1..Count(s, f) /\ ~(k <= EnumCount(s, f))
             /\ Types(s, f)[k] = [kind |-> "message", file |-> f, at |-> p]
             /\ ItemsOf(s, f)[k] = Order(s, f)[p]
             /\ ItemsOf(s, f)[k] = [kind |-> "message", file |-> f, at |-> Listed(s, f)[p]]
<1> DEFINE k == MessageSlot(s, f, p)
           e == EnumCount(s, f)
           l == MessageCount(s, f)
<1>1. e \in Nat /\ IsSequence(Enums(s, f)) /\ Len(Enums(s, f)) = e
  BY EnumsAre
<1>2. /\ l \in Nat /\ IsSequence(Messages(s, f)) /\ Len(Messages(s, f)) = l
      /\ Messages(s, f)[p] = [kind |-> "message", file |-> f, at |-> p]
  BY MessagesAre
<1>3. /\ IsSequence(Order(s, f)) /\ Len(Order(s, f)) = l
      /\ Order(s, f)[p] = [kind |-> "message", file |-> f, at |-> Listed(s, f)[p]]
  BY OrderIs
<1>4. Count(s, f) = e + l /\ k = e + p /\ p \in 1..l
  BY DEF Count, MessageSlot
<1> HIDE DEF k, e, l
<1>5. k \in 1..(e + l) /\ ~(k <= e) /\ k - e = p
  BY <1>1, <1>2, <1>4
<1>6. Types(s, f)[k] = Messages(s, f)[p]
  BY <1>1, <1>2, <1>5, JoinAt DEF Types
<1>7. ItemsOf(s, f)[k] = Order(s, f)[p]
  BY <1>1, <1>3, <1>5, JoinAt DEF ItemsOf
<1>8. QED
  BY <1>2, <1>3, <1>4, <1>5, <1>6, <1>7 DEF k, e

LEMMA PlaceSplit ==
  ASSUME NEW s \in Schemas, NEW f \in DOMAIN s, NEW k \in 1..Count(s, f)
  PROVE  \/ k <= EnumCount(s, f)
         \/ \E p \in 1..MessageCount(s, f) : k = MessageSlot(s, f, p)
<1>1. /\ EnumCount(s, f) \in Nat /\ MessageCount(s, f) \in Nat
      /\ Count(s, f) = EnumCount(s, f) + MessageCount(s, f)
  BY TypesAre
<1> DEFINE e == EnumCount(s, f)
           l == MessageCount(s, f)
<1> HIDE DEF e, l
<1>2. ~(k <= e) => k - e \in 1..l /\ k = e + (k - e)
  BY <1>1 DEF e, l
<1>3. QED
  BY <1>2 DEF e, l, MessageSlot

LEMMA AllTypesAre ==
  ASSUME NEW s \in Schemas, NEW t
  PROVE  t \in AllTypes(s) <=> \E f \in DOMAIN s : \E k \in 1..Count(s, f) : t = Types(s, f)[k]
<1>1. \A f \in DOMAIN s : DOMAIN Types(s, f) = 1..Count(s, f)
  BY TypesAre
<1>2. \A f \in DOMAIN s : Range(Types(s, f)) = {Types(s, f)[k] : k \in 1..Count(s, f)}
  BY <1>1 DEF Range
<1>3. t \in AllTypes(s) <=> \E f \in DOMAIN s : t \in Range(Types(s, f))
  BY DEF AllTypes
<1>4. QED
  BY <1>2, <1>3

(* Each type is emitted once.                                              *)
LEMMA ItemIsType ==
  ASSUME NEW s \in Schemas, NEW f \in DOMAIN s, NEW k \in 1..Count(s, f)
  PROVE  /\ ItemsOf(s, f)[k] \in AllTypes(s) /\ ItemsOf(s, f)[k].file = f
         /\ ItemsOf(s, f)[k].kind \in {"enum", "message"}
<1> DEFINE t == ItemsOf(s, f)[k]
<1> HIDE DEF t
<1>1. CASE k <= EnumCount(s, f)
  <2>1. Types(s, f)[k] = [kind |-> "enum", file |-> f, at |-> k]
        /\ t = [kind |-> "enum", file |-> f, at |-> k]
    BY <1>1, EnumAt DEF t
  <2>2. t = Types(s, f)[k] /\ t.file = f /\ t.kind = "enum"
    BY <2>1
  <2>3. t \in AllTypes(s)
    BY <2>2, AllTypesAre
  <2>4. QED
    BY <2>2, <2>3 DEF t
<1>2. CASE \E p \in 1..MessageCount(s, f) : k = MessageSlot(s, f, p)
  <2>1. PICK p \in 1..MessageCount(s, f) : k = MessageSlot(s, f, p)
    BY <1>2
  <2>2. PICK q \in 1..MessageCount(s, f) : q = Listed(s, f)[p]
    BY OrderIs
  <2>3. PICK h : h = MessageSlot(s, f, q)
    OBVIOUS
  <2>4. h \in 1..Count(s, f) /\ Types(s, f)[h] = [kind |-> "message", file |-> f, at |-> q]
    BY <2>3, MessageAt
  <2>5. t = [kind |-> "message", file |-> f, at |-> q]
    BY <2>1, <2>2, MessageAt DEF t
  <2>6. t = Types(s, f)[h] /\ t.file = f /\ t.kind = "message"
    BY <2>4, <2>5
  <2>7. t \in AllTypes(s)
    BY <2>4, <2>6, AllTypesAre
  <2>8. QED
    BY <2>6, <2>7 DEF t
<1>3. QED
  BY <1>1, <1>2, PlaceSplit

LEMMA ItemsDiffer ==
  ASSUME NEW s \in Schemas, NEW f \in DOMAIN s, NEW j \in 1..Count(s, f), NEW k \in 1..Count(s, f),
         ItemsOf(s, f)[j] = ItemsOf(s, f)[k]
  PROVE  j = k
<1> DEFINE t == ItemsOf(s, f)[j]
<1>0. t = ItemsOf(s, f)[j] /\ t = ItemsOf(s, f)[k]
  OBVIOUS
<1> HIDE DEF t
<1>1. /\ j <= EnumCount(s, f) => t = [kind |-> "enum", file |-> f, at |-> j]
      /\ k <= EnumCount(s, f) => t = [kind |-> "enum", file |-> f, at |-> k]
  BY <1>0, EnumAt
<1>2. ASSUME NEW p \in 1..MessageCount(s, f)
      PROVE  /\ j = MessageSlot(s, f, p) => t = [kind |-> "message", file |-> f, at |-> Listed(s, f)[p]]
             /\ k = MessageSlot(s, f, p) => t = [kind |-> "message", file |-> f, at |-> Listed(s, f)[p]]
  <2> DEFINE h == MessageSlot(s, f, p)
  <2>1. ItemsOf(s, f)[h] = [kind |-> "message", file |-> f, at |-> Listed(s, f)[p]]
    BY MessageAt
  <2> HIDE DEF h
  <2>2. /\ j = h => t = [kind |-> "message", file |-> f, at |-> Listed(s, f)[p]]
        /\ k = h => t = [kind |-> "message", file |-> f, at |-> Listed(s, f)[p]]
    BY <1>0, <2>1
  <2>3. QED
    BY <2>2 DEF h
<1>3. /\ j <= EnumCount(s, f) => t.kind = "enum" /\ t.at = j
      /\ k <= EnumCount(s, f) => t.kind = "enum" /\ t.at = k
  BY <1>1
<1>4. \A p \in 1..MessageCount(s, f) :
        /\ j = MessageSlot(s, f, p) => t.kind = "message" /\ t.at = Listed(s, f)[p]
        /\ k = MessageSlot(s, f, p) => t.kind = "message" /\ t.at = Listed(s, f)[p]
  BY <1>2
<1>5. CASE j <= EnumCount(s, f) /\ k <= EnumCount(s, f)
  BY <1>3, <1>5
<1>6. CASE \E p, q \in 1..MessageCount(s, f) : j = MessageSlot(s, f, p) /\ k = MessageSlot(s, f, q)
  <2>1. PICK p, q \in 1..MessageCount(s, f) : j = MessageSlot(s, f, p) /\ k = MessageSlot(s, f, q)
    BY <1>6
  <2>2. Listed(s, f)[p] = Listed(s, f)[q]
    BY <1>4, <2>1
  <2>3. p = q
    BY <2>2, OrderIs
  <2>4. QED
    BY <2>1, <2>3
<1>7. /\ j <= EnumCount(s, f) \/ \E p \in 1..MessageCount(s, f) : j = MessageSlot(s, f, p)
      /\ k <= EnumCount(s, f) \/ \E p \in 1..MessageCount(s, f) : k = MessageSlot(s, f, p)
  BY PlaceSplit
<1>8. QED
  BY <1>3, <1>4, <1>5, <1>6, <1>7

LEMMA TypeIsItem ==
  ASSUME NEW s \in Schemas, NEW t \in AllTypes(s)
  PROVE  /\ t.file \in DOMAIN s /\ t = [kind |-> t.kind, file |-> t.file, at |-> t.at]
         /\ t.kind = "message" => t.at \in 1..MessageCount(s, t.file)
         /\ \E k \in 1..Count(s, t.file) : ItemsOf(s, t.file)[k] = t
<1>1. PICK f \in DOMAIN s : \E k \in 1..Count(s, f) : t = Types(s, f)[k]
  BY AllTypesAre
<1>2. PICK k \in 1..Count(s, f) : t = Types(s, f)[k]
  BY <1>1
<1>3. CASE k <= EnumCount(s, f)
  <2>1. t = [kind |-> "enum", file |-> f, at |-> k] /\ ItemsOf(s, f)[k] = t
    BY <1>2, <1>3, EnumAt
  <2>2. t.kind = "enum" /\ t.file = f /\ t.at = k
    BY <2>1
  <2>3. QED
    BY <2>1, <2>2
<1>4. CASE \E p \in 1..MessageCount(s, f) : k = MessageSlot(s, f, p)
  <2>1. PICK p \in 1..MessageCount(s, f) : k = MessageSlot(s, f, p)
    BY <1>4
  <2>2. t = [kind |-> "message", file |-> f, at |-> p]
    BY <1>2, <2>1, MessageAt
  <2>3. PICK q \in 1..MessageCount(s, f) : Listed(s, f)[q] = p
    BY OrderIs
  <2>4. PICK h : h = MessageSlot(s, f, q)
    OBVIOUS
  <2>5. h \in 1..Count(s, f) /\ ItemsOf(s, f)[h] = t
    BY <2>2, <2>3, <2>4, MessageAt
  <2>6. t.kind = "message" /\ t.file = f /\ t.at = p
    BY <2>2
  <2>7. QED
    BY <2>2, <2>5, <2>6
<1>5. QED
  BY <1>3, <1>4, PlaceSplit

LEMMA EnumTypeAt ==
  ASSUME NEW s \in Schemas, NEW t \in AllTypes(s), t.kind = "enum"
  PROVE  t.file \in DOMAIN s /\ t.at \in DOMAIN s[t.file].enums
<1>1. PICK f \in DOMAIN s : \E k \in 1..Count(s, f) : t = Types(s, f)[k]
  BY AllTypesAre
<1>2. PICK k \in 1..Count(s, f) : t = Types(s, f)[k]
  BY <1>1
<1>3. CASE k <= EnumCount(s, f)
  <2>1. t = [kind |-> "enum", file |-> f, at |-> k]
    BY <1>2, <1>3, EnumAt
  <2>2. EnumCount(s, f) \in Nat /\ Count(s, f) \in Nat
    BY TypesAre
  <2>3. k \in 1..EnumCount(s, f)
    BY <1>3, <2>2
  <2>4. DOMAIN s[f].enums = 1..EnumCount(s, f)
    BY SchemaIs DEF IsList, EnumCount
  <2>5. QED
    BY <2>1, <2>3, <2>4
<1>4. CASE \E p \in 1..MessageCount(s, f) : k = MessageSlot(s, f, p)
  <2>1. PICK p \in 1..MessageCount(s, f) : k = MessageSlot(s, f, p)
    BY <1>4
  <2>2. t = [kind |-> "message", file |-> f, at |-> p]
    BY <1>2, <2>1, MessageAt
  <2>3. QED
    BY <2>2
<1>5. QED
  BY <1>3, <1>4, PlaceSplit

-----------------------------------------------------------------------------
(* Where the run is. *)
Early    == {"args", "load", "analyse", "name", "reserve", "first"}
Emitting == {"emit", "open", "write"}

Control ==
  /\ schema \in Schemas
  /\ pc \in Early \cup Emitting \cup {"exited", "helped"}
  /\ at \in DOMAIN schema
  /\ item \in 1..(Count(schema, at) + 1)
  /\ learning \in BOOLEAN /\ (learning => pc \in {"emit", "exited"})
  /\ status \in {0, 1}
  /\ pc \in {"args", "load", "analyse", "reserve", "first"} => item = 1
  /\ pc \in {"args", "analyse", "first"} => at = 1
  /\ pc \in {"open", "write"} => item > Count(schema, at)

LEMMA ControlInit == Init => Control
<1> SUFFICES ASSUME Init PROVE Control
  OBVIOUS
<1>1. schema \in Schemas /\ at = 1 /\ item = 1 /\ 1 \in DOMAIN schema
  BY SchemaIs DEF Init
<1>2. Count(schema, at) \in Nat
  BY <1>1, TypesAre
<1>3. item \in 1..(Count(schema, at) + 1)
  BY <1>1, <1>2
<1>4. pc = "args" /\ learning = FALSE /\ status = 0
  BY DEF Init
<1>5. QED
  BY <1>1, <1>3, <1>4 DEF Control, Early, Emitting

(* Each step as Control sees it. *)
LEMMA LoopIs ==
  ASSUME Control, NEW then, Loop(then)
  PROVE  /\ Len(schema) \in Nat /\ at \in Nat /\ 1 <= at /\ at <= Len(schema) /\ 1 \in DOMAIN schema
         /\ \/ /\ at < Len(schema) /\ at' = at + 1 /\ at + 1 \in DOMAIN schema /\ pc' = pc
            \/ /\ at = Len(schema) /\ at' = 1 /\ pc' = then
<1>1. /\ Len(schema) \in Nat /\ DOMAIN schema = 1..Len(schema) /\ 1 \in DOMAIN schema
      /\ at \in DOMAIN schema
  BY SchemaIs DEF Control
<1>2. QED
  BY <1>1 DEF Loop

LEMMA ControlStep == Control /\ [Next]_vars => Control'
<1> SUFFICES ASSUME Control, [Next]_vars PROVE Control'
  OBVIOUS
<1>1. /\ schema \in Schemas /\ 1 \in DOMAIN schema /\ Len(schema) \in Nat
      /\ DOMAIN schema = 1..Len(schema)
  BY SchemaIs DEF Control
<1>2. \A f \in DOMAIN schema : /\ Count(schema, f) \in Nat /\ Len(ItemsOf(schema, f)) = Count(schema, f)
                               /\ Len(Types(schema, f)) = Count(schema, f)
  BY <1>1, TypesAre
<1>3. Len(Items) = Count(schema, at) /\ at \in DOMAIN schema /\ Count(schema, at) \in Nat
      /\ item \in 1..(Count(schema, at) + 1) /\ item \in Nat
  BY <1>2 DEF Items, Control
<1>4. \A f \in DOMAIN schema : 1 \in 1..(Count(schema, f) + 1)
  BY <1>2
<1>5. CASE ParseArgs
  BY <1>5 DEF ParseArgs, Control, Early, Emitting, names
<1>6. CASE LoadSource
  BY <1>1, <1>4, <1>6, LoopIs DEF LoadSource, Control, Early, Emitting, names
<1>7. CASE Analyse
  BY <1>7 DEF Analyse, Control, Early, Emitting, names
<1>8. CASE AssignCName
  <2>1. item <= Count(schema, at) /\ item' = item + 1 /\ UNCHANGED <<schema, pc, at, learning, status>>
        /\ pc = "name"
    BY <1>2, <1>3, <1>8 DEF AssignCName
  <2>2. item' \in 1..(Count(schema, at) + 1)
    BY <1>3, <2>1
  <2>3. QED
    BY <2>1, <2>2 DEF Control
<1>9. CASE FileNamed
  BY <1>1, <1>4, <1>9, LoopIs DEF FileNamed, Control, Early, Emitting
<1>10. CASE ReservePublicNames
  BY <1>1, <1>4, <1>10, LoopIs DEF ReservePublicNames, Control, Early, Emitting
<1>11. CASE Prepare
  <2>1. NeedsFirstPass(schema) \in BOOLEAN
    BY DEF NeedsFirstPass
  <2>2. QED
    BY <1>11, <2>1 DEF Prepare, Control, Early, Emitting
<1>12. CASE EmitEnum \/ EmitMessage
  <2>1. item <= Count(schema, at) /\ item' = item + 1 /\ UNCHANGED <<schema, pc, at, learning, status>>
        /\ pc = "emit"
    BY <1>3, <1>12 DEF EmitEnum, EmitMessage, Emit
  <2>2. item' \in 1..(Count(schema, at) + 1)
    BY <1>3, <2>1
  <2>3. QED
    BY <2>1, <2>2 DEF Control
<1>13. CASE FileLearned
  <2>1. at' = at + 1 /\ at + 1 \in DOMAIN schema
    BY <1>1, <1>3, <1>13 DEF FileLearned
  <2>2. QED
    BY <1>4, <1>13, <2>1 DEF FileLearned, Control, Early, Emitting, names
<1>14. CASE AllLearned
  BY <1>1, <1>4, <1>14 DEF AllLearned, RolledBack, Control, Early, Emitting
<1>15. CASE FileEmitted
  BY <1>3, <1>15 DEF FileEmitted, Control, Early, Emitting, names
<1>16. CASE OpenHeader
  BY <1>16 DEF OpenHeader, Control, Early, Emitting, names
<1>17. CASE WriteHeader
  <2>1. CASE at < Len(schema)
    <3>1. at' = at + 1 /\ at + 1 \in DOMAIN schema
      BY <1>1, <1>3, <1>17, <2>1 DEF WriteHeader, NextFile
    <3>2. QED
      BY <1>4, <1>17, <2>1, <3>1 DEF WriteHeader, NextFile, Control, Early, Emitting, names
  <2>2. CASE ~(at < Len(schema))
    BY <1>4, <1>17, <2>2 DEF WriteHeader, NextFile, Exit, Control, Early, Emitting, names
  <2>3. QED
    BY <2>1, <2>2
<1>18. CASE Fails
  BY <1>18 DEF Fails, Stops, Exit, Control, Early, Emitting, names
<1>19. CASE UNCHANGED vars
  BY <1>19 DEF vars, Control
<1>20. QED
  BY <1>5, <1>6, <1>7, <1>8, <1>9, <1>10, <1>11, <1>12, <1>13, <1>14, <1>15, <1>16, <1>17,
     <1>18, <1>19 DEF Next

-----------------------------------------------------------------------------
(* The headers begun are those of the first n files, or the first n are    *)
(* complete.                                                               *)
Touched(d, s, n) == \A f \in DOMAIN s : d[f] # "untouched" <=> f <= n
Finished(d, s, n) == \A f \in DOMAIN s : f <= n => d[f] \in {"written", "lost"}

DiskInv ==
  /\ disk \in [DOMAIN schema -> {"untouched", "begun", "written", "lost"}]
  /\ pc \in Early \cup {"helped"} \/ learning => Touched(disk, schema, 0)
  /\ pc \in {"emit", "open"} /\ ~learning =>
       Touched(disk, schema, at - 1) /\ Finished(disk, schema, at - 1)
  /\ pc = "write" => Touched(disk, schema, at) /\ Finished(disk, schema, at - 1)
  /\ pc = "exited" =>
       /\ \E n \in 0..Len(schema) : Touched(disk, schema, n) /\ Finished(disk, schema, n - 1)
       /\ status = 0 => Finished(disk, schema, Len(schema))

LEMMA DiskInit == Init => DiskInv
<1> SUFFICES ASSUME Init PROVE DiskInv
  OBVIOUS
<1>1. /\ schema \in Schemas /\ disk = [f \in DOMAIN schema |-> "untouched"] /\ pc = "args"
      /\ learning = FALSE
  BY DEF Init
<1>2. DOMAIN schema = 1..Len(schema)
  BY <1>1, SchemaIs
<1>3. Touched(disk, schema, 0)
  <2>1. \A f \in DOMAIN schema : ~(f <= 0)
    BY <1>2
  <2>2. QED
    BY <1>1, <2>1 DEF Touched
<1>4. QED
  BY <1>1, <1>3 DEF DiskInv, Early, Emitting

(* Wherever the run is, the headers begun are those of a prefix of the     *)
(* files, and at most the last of them is not complete.                    *)
LEMMA DiskPrefix ==
  ASSUME Control, DiskInv
  PROVE  \E n \in 0..Len(schema) :
           /\ Touched(disk, schema, n) /\ Finished(disk, schema, n - 1)
           /\ learning => n = 0
<1>1. /\ Len(schema) \in Nat /\ DOMAIN schema = 1..Len(schema) /\ at \in 1..Len(schema)
      /\ 0 \in 0..Len(schema) /\ at \in 0..Len(schema) /\ at - 1 \in 0..Len(schema)
  BY SchemaIs DEF Control
<1>2. CASE learning \/ pc \in Early \cup {"helped"}
  <2>1. Touched(disk, schema, 0)
    BY <1>2 DEF DiskInv
  <2>2. Finished(disk, schema, 0 - 1)
    BY <1>1 DEF Finished
  <2>3. QED
    BY <1>1, <2>1, <2>2
<1>3. CASE ~learning /\ pc \in {"emit", "open"}
  <2>1. Touched(disk, schema, at - 1) /\ Finished(disk, schema, at - 1)
    BY <1>3 DEF DiskInv
  <2>2. \A f \in DOMAIN schema : f <= (at - 1) - 1 => f <= at - 1
    BY <1>1
  <2>3. Finished(disk, schema, (at - 1) - 1)
    BY <2>1, <2>2 DEF Finished
  <2>4. QED
    BY <1>1, <1>3, <2>1, <2>3
<1>4. CASE ~learning /\ pc = "write"
  BY <1>1, <1>4 DEF DiskInv
<1>5. CASE ~learning /\ pc = "exited"
  BY <1>5 DEF DiskInv
<1>6. QED
  BY <1>2, <1>3, <1>4, <1>5 DEF Control, Emitting

LEMMA DiskStep == Control /\ DiskInv /\ [Next]_vars => DiskInv'
<1> SUFFICES ASSUME Control, DiskInv, [Next]_vars PROVE DiskInv'
  OBVIOUS
<1>1. /\ Len(schema) \in Nat /\ Len(schema) > 0 /\ DOMAIN schema = 1..Len(schema)
      /\ at \in 1..Len(schema) /\ 0 \in 0..Len(schema) /\ Len(schema) \in 0..Len(schema)
      /\ at \in 0..Len(schema) /\ at - 1 \in 0..Len(schema)
  BY SchemaIs DEF Control
<1>2. CASE ParseArgs
  BY <1>1, <1>2 DEF ParseArgs, DiskInv, Control, Early, names
<1>3. UNCHANGED <<schema, disk, learning>> /\ pc \in Early /\ pc' \in Early => DiskInv'
  BY DEF DiskInv, Early
<1>4. CASE LoadSource \/ FileNamed \/ ReservePublicNames
  <2>1. UNCHANGED <<schema, disk, learning>> /\ pc \in Early
    BY <1>4 DEF LoadSource, FileNamed, ReservePublicNames, Early, names
  <2>2. pc' \in Early
    BY <1>4, LoopIs DEF LoadSource, FileNamed, ReservePublicNames, Early
  <2>3. QED
    BY <1>3, <2>1, <2>2
<1>5. CASE Analyse \/ AssignCName
  <2>1. UNCHANGED <<schema, disk, learning>> /\ pc \in Early /\ pc' \in Early
    BY <1>5 DEF Analyse, AssignCName, Early, names
  <2>2. QED
    BY <1>3, <2>1
<1>6. CASE Prepare
  <2>1. at = 1 /\ at' = 1 /\ pc' = "emit" /\ UNCHANGED <<schema, disk>> /\ pc \in Early
    BY <1>6 DEF Prepare, Control, Early
  <2>2. Touched(disk', schema', 0) /\ at' - 1 = 0
    BY <2>1 DEF DiskInv
  <2>3. Finished(disk', schema', 0)
    BY <1>1, <2>1 DEF Finished
  <2>4. QED
    BY <2>1, <2>2, <2>3 DEF DiskInv, Early
<1>7. CASE EmitEnum \/ EmitMessage
  <2>1. UNCHANGED <<schema, pc, at, learning, disk, status>>
    BY <1>7 DEF EmitEnum, EmitMessage, Emit
  <2>2. QED
    BY <2>1 DEF DiskInv
<1>8. CASE FileLearned
  BY <1>8 DEF FileLearned, DiskInv, Early, names
<1>9. CASE AllLearned
  <2>1. /\ pc' = "emit" /\ at' = 1 /\ learning' = FALSE /\ UNCHANGED <<schema, disk>>
        /\ Touched(disk, schema, 0)
    BY <1>9 DEF AllLearned, RolledBack, DiskInv
  <2>2. Touched(disk', schema', at' - 1)
    BY <2>1
  <2>3. Finished(disk', schema', at' - 1)
    BY <1>1, <2>1 DEF Finished
  <2>4. QED
    BY <2>1, <2>2, <2>3 DEF DiskInv, Early
<1>10. CASE FileEmitted
  BY <1>10 DEF FileEmitted, DiskInv, Early, names
<1>11. CASE OpenHeader
  <2>1. /\ disk \in [DOMAIN schema -> {"untouched", "begun", "written", "lost"}] /\ at \in DOMAIN schema
        /\ disk' = [disk EXCEPT ![at] = "begun"] /\ ~learning /\ Touched(disk, schema, at - 1)
        /\ Finished(disk, schema, at - 1)
        /\ UNCHANGED <<schema, at, learning>> /\ pc' = "write"
    BY <1>11 DEF OpenHeader, DiskInv, Control, names
  <2>2. disk' \in [DOMAIN schema -> {"untouched", "begun", "written", "lost"}]
    BY <2>1
  <2>3. \A f \in DOMAIN schema : disk'[f] = IF f = at THEN "begun" ELSE disk[f]
    BY <2>1
  <2>4. \A f \in DOMAIN schema : f <= at <=> f <= at - 1 \/ f = at
    BY <1>1
  <2>5. Touched(disk', schema, at)
    BY <2>1, <2>3, <2>4 DEF Touched
  <2>6. Finished(disk', schema, at - 1)
    <3>1. \A f \in DOMAIN schema : f <= at - 1 => f # at
      BY <1>1
    <3>2. QED
      BY <2>1, <2>3, <3>1 DEF Finished
  <2>7. QED
    BY <2>1, <2>2, <2>5, <2>6 DEF DiskInv, Early
<1>12. CASE WriteHeader
  <2>1. /\ disk \in [DOMAIN schema -> {"untouched", "begun", "written", "lost"}] /\ at \in DOMAIN schema
        /\ Touched(disk, schema, at) /\ Finished(disk, schema, at - 1)
        /\ UNCHANGED <<schema, learning>> /\ ~learning
    BY <1>12 DEF WriteHeader, DiskInv, Control, names
  <2>2. PICK w \in {"written", "lost"} : disk' = [disk EXCEPT ![at] = w]
    BY <1>12 DEF WriteHeader, CloseHeader
  <2>3. disk' \in [DOMAIN schema -> {"untouched", "begun", "written", "lost"}]
    BY <2>1, <2>2
  <2>4. \A f \in DOMAIN schema : disk'[f] = IF f = at THEN w ELSE disk[f]
    BY <2>1, <2>2
  <2>5. at <= at
    BY <1>1
  <2>6. Touched(disk', schema, at)
    BY <2>1, <2>2, <2>4, <2>5 DEF Touched
  <2>60. Finished(disk', schema, at)
    <3>1. \A f \in DOMAIN schema : f <= at => f = at \/ f <= at - 1
      BY <1>1
    <3>2. QED
      BY <2>1, <2>2, <2>4, <3>1 DEF Finished
  <2>7. CASE at < Len(schema)
    <3>1. at' = at + 1 /\ pc' = "emit"
      BY <1>12, <2>7 DEF WriteHeader, NextFile
    <3>2. at' - 1 = at
      BY <1>1, <3>1
    <3>3. QED
      BY <2>1, <2>3, <2>6, <2>60, <3>1, <3>2 DEF DiskInv, Early
  <2>8. CASE ~(at < Len(schema))
    <3>1. at = Len(schema)
      <4>1. at <= Len(schema) /\ at \in Int /\ Len(schema) \in Int
        BY <1>1
      <4>2. QED
        BY <2>8, <4>1
    <3>2. /\ pc' = "exited" /\ Touched(disk', schema', Len(schema'))
          /\ Finished(disk', schema', Len(schema'))
      BY <1>12, <2>1, <2>6, <2>60, <2>8, <3>1 DEF WriteHeader, NextFile, Exit
    <3>3. Len(schema') \in 0..Len(schema')
      BY <1>1, <2>1
    <3>4. Finished(disk', schema', Len(schema') - 1)
      <4>1. \A f \in DOMAIN schema' : f <= Len(schema') - 1 => f <= Len(schema')
        BY <1>1, <2>1
      <4>2. QED
        BY <3>2, <4>1 DEF Finished
    <3>5. QED
      BY <2>1, <2>3, <3>2, <3>3, <3>4 DEF DiskInv, Early
  <2>9. QED
    BY <2>7, <2>8
<1>13. CASE Fails
  <2>1. /\ pc' = "exited" /\ status' = 1 /\ UNCHANGED <<schema, disk, learning>>
        /\ pc \notin {"exited", "helped"}
    BY <1>13 DEF Fails, Stops, Exit, names
  <2>2. \E n \in 0..Len(schema) : Touched(disk, schema, n) /\ Finished(disk, schema, n - 1)
    BY <2>1, DiskPrefix DEF Control
  <2>3. learning => Touched(disk, schema, 0)
    BY DEF DiskInv
  <2>4. QED
    BY <2>1, <2>2, <2>3 DEF DiskInv, Early
<1>14. CASE UNCHANGED vars
  BY <1>14 DEF vars, DiskInv
<1>15. QED
  BY <1>2, <1>4, <1>5, <1>6, <1>7, <1>8, <1>9, <1>10, <1>11, <1>12, <1>13, <1>14 DEF Next

LEMMA DiskHolds == Spec => [](Control /\ DiskInv)
<1>1. Init => Control /\ DiskInv
  BY ControlInit, DiskInit
<1>2. Control /\ DiskInv /\ [Next]_vars => (Control /\ DiskInv)'
  BY ControlStep, DiskStep
<1>3. QED
  BY <1>1, <1>2, PTL DEF Spec

(* However a run ends, the headers on disk are those of the first files of *)
(* the command line, and only the last may be cut short; none is touched   *)
(* while names are still learned, and a run that reports success completed *)
(* them all, but for what fclose alone could tell (main.c).                *)
THEOREM PrefixOfHeaders == Spec => []HeadersInOrder
<1>1. Control /\ DiskInv => HeadersInOrder
  <2> SUFFICES ASSUME Control, DiskInv PROVE HeadersInOrder
    OBVIOUS
  <2>1. Len(schema) \in Nat /\ DOMAIN schema = 1..Len(schema) /\ Files = 1..Len(schema)
    BY SchemaIs DEF Control, Files
  <2>2. PICK n \in 0..Len(schema) :
          /\ Touched(disk, schema, n) /\ Finished(disk, schema, n - 1)
          /\ learning => n = 0
    BY DiskPrefix
  <2>3. ASSUME NEW f \in Files, NEW g \in Files, f < g, disk[g] # "untouched"
        PROVE  Complete(f)
    <3>1. g <= n
      BY <2>1, <2>2, <2>3 DEF Touched
    <3>2. f <= n - 1
      BY <2>1, <2>3, <3>1
    <3>3. QED
      BY <2>1, <2>2, <3>2 DEF Finished, Complete
  <2>4. ASSUME NEW f \in Files, disk[f] # "untouched"
        PROVE  ~learning
    <3>1. f <= n
      BY <2>1, <2>2, <2>4 DEF Touched
    <3>2. f \in 1..Len(schema) /\ ~(f <= 0)
      BY <2>1, <2>4
    <3>3. QED
      BY <2>2, <3>1, <3>2
  <2>5. ASSUME pc = "exited", status = 0, NEW f \in Files
        PROVE  Complete(f)
    <3>1. Finished(disk, schema, Len(schema)) /\ f \in DOMAIN schema /\ f <= Len(schema)
      BY <2>1, <2>5 DEF DiskInv
    <3>2. QED
      BY <3>1 DEF Finished, Complete
  <2>6. QED
    BY <2>3, <2>4, <2>5 DEF HeadersInOrder
<1>2. QED
  BY <1>1, DiskHolds, PTL

-----------------------------------------------------------------------------
(* What a type claims is a sequence of claims. *)
LEMMA ClaimsAre ==
  ASSUME NEW s \in Schemas, NEW t \in AllTypes(s), NEW c, NEW r, NEW taken
  PROVE  Len(ItemClaims(s, c, r, taken, t)) \in Nat
<1>1. /\ t.file \in DOMAIN s /\ t = [kind |-> t.kind, file |-> t.file, at |-> t.at]
      /\ \E k \in 1..Count(s, t.file) : ItemsOf(s, t.file)[k] = t
  BY TypeIsItem
<1>2. t.kind = "enum" \/ t.kind = "message"
  BY <1>1, ItemIsType
<1>3. CASE t.kind = "enum"
  <2>1. t.at \in DOMAIN s[t.file].enums
    BY <1>3, EnumTypeAt
  <2>2. IsList(s[t.file].enums[t.at].values)
    BY <1>1, <2>1, SchemaIs
  <2>3. PICK v : v = s[t.file].enums[t.at].values
    OBVIOUS
  <2>4. IsList(v) /\ ItemClaims(s, c, r, taken, t) = ValueClaims(c[t], v)
    BY <1>3, <2>2, <2>3 DEF ItemClaims, Decl
  <2>5. Len(v) \in Nat /\ ValueClaims(c[t], v) = [k \in 1..Len(v) |-> ValueClaims(c[t], v)[k]]
    BY <2>4 DEF ValueClaims, IsList
  <2>6. QED
    BY <2>4, <2>5, ListIsSequence
<1>4. CASE t.kind = "message"
  <2>1. t.at \in DOMAIN s[t.file].messages
    BY <1>1, <1>4, TypeIsItem, MessagesAre
  <2>2. IsList(Fields(s, t))
    BY <1>1, <1>4, <2>1, SchemaIs DEF Fields, Decl
  <2>3. IsSequence(MessageClaims(r, taken, c[t], Fields(s, t), Planned(s, t), Element(s, t)))
    BY <2>2, MessageClaimsIsSequence
  <2>4. ItemClaims(s, c, r, taken, t)
          = MessageClaims(r, taken, c[t], Fields(s, t), Planned(s, t), Element(s, t))
    BY <1>4 DEF ItemClaims
  <2>5. QED
    BY <2>3, <2>4, SequenceHasLength
<1>5. QED
  BY <1>2, <1>3, <1>4

LEMMA TypeClaimsAre ==
  ASSUME NEW taken, NEW d
  PROVE  Len(TypeClaims(taken, d)) \in Nat /\ Len(TypeClaims(taken, d)) # 0
<1> DEFINE j == FlatJoin(d)
<1> HIDE DEF j
<1>1. TypeClaims(taken, d) = <<j, j>> \/ TypeClaims(taken, d) = <<j>>
  BY DEF TypeClaims, j
<1>2. QED
  BY <1>1

LEMMA MessageIsType ==
  ASSUME NEW s \in Schemas, NEW g \in DOMAIN s, NEW p \in 1..MessageCount(s, g)
  PROVE  [kind |-> "message", file |-> g, at |-> p] \in AllTypes(s)
<1>1. /\ MessageSlot(s, g, p) \in 1..Count(s, g)
      /\ Types(s, g)[MessageSlot(s, g, p)] = [kind |-> "message", file |-> g, at |-> p]
  BY MessageAt
<1>2. QED
  BY <1>1, AllTypesAre

(* A field holds a message, of a file that its own sees. *)
LEMMA HeldAre ==
  ASSUME NEW s \in Schemas, NEW m \in AllTypes(s), m.kind = "message", NEW t \in Held(s, m)
  PROVE  /\ t \in AllTypes(s) /\ t.kind = "message"
         /\ \A seen \in SUBSET DOMAIN s :
              m.file \in seen
                /\ (\A g \in seen : \A k \in DOMAIN s[g].imports : s[g].imports[k] \in seen)
              => t.file \in seen
<1> DEFINE fields == s[m.file].messages[m.at].fields
<1>1. m.file \in DOMAIN s /\ m.at \in DOMAIN s[m.file].messages
  BY TypeIsItem, MessagesAre
<1>2. Fields(s, m) = fields
  BY DEF Fields, Decl
<1>3. PICK k \in DOMAIN fields : Holds(fields[k]) /\ t = Child(fields[k])
  BY <1>2 DEF Held, Range
<1>4. HeldIsSeen(s, m.file, fields[k].of)
  BY <1>1, <1>3, SchemasAssumption DEF Holds
<1> DEFINE of == fields[k].of
<1>5. t = [kind |-> "message", file |-> of[1], at |-> of[2]]
  BY <1>3 DEF Child
<1> HIDE DEF of
<1>6. HeldIsSeen(s, m.file, of)
  BY <1>4 DEF of
<1>7. of[1] \in DOMAIN s /\ of[2] \in DOMAIN s[of[1]].messages
  BY <1>6 DEF HeldIsSeen
<1>8. of[2] \in 1..MessageCount(s, of[1])
  BY <1>7, MessagesAre
<1>9. t \in AllTypes(s)
  <2>1. [kind |-> "message", file |-> of[1], at |-> of[2]] \in AllTypes(s)
    BY <1>7, <1>8, MessageIsType
  <2>2. QED
    BY <1>5, <2>1
<1>10. t.kind = "message" /\ t.file = of[1]
  BY <1>5
<1>11. QED
  BY <1>6, <1>9, <1>10 DEF HeldIsSeen

-----------------------------------------------------------------------------
(* The types that have their names when gremlinc_assign_c_names is at the  *)
(* k-th type of file f.                                                    *)
Before(g, j, f, k) == g < f \/ (g = f /\ j < k)

NamedBy(s, f, k) ==
  {t \in AllTypes(s) : \E g \in DOMAIN s : \E j \in 1..Count(s, g) :
                         t = Types(s, g)[j] /\ Before(g, j, f, k)}

LEMMA FilesAre ==
  ASSUME NEW s \in Schemas, NEW g \in DOMAIN s
  PROVE  Count(s, g) \in Nat /\ g \in Nat /\ g >= 1 /\ g <= Len(s)
BY SchemaIs, TypesAre

LEMMA NamedNone == ASSUME NEW s \in Schemas PROVE NamedBy(s, 1, 1) = {}
<1>1. \A g \in DOMAIN s : Count(s, g) \in Nat /\ g \in Nat /\ g >= 1
  BY FilesAre
<1>2. \A g \in DOMAIN s : \A j \in 1..Count(s, g) : ~Before(g, j, 1, 1)
  BY <1>1 DEF Before
<1>3. QED
  BY <1>2 DEF NamedBy

LEMMA NamedStep ==
  ASSUME NEW s \in Schemas, NEW f \in DOMAIN s, NEW k \in 1..Count(s, f)
  PROVE  /\ Types(s, f)[k] \in AllTypes(s)
         /\ NamedBy(s, f, k + 1) = NamedBy(s, f, k) \cup {Types(s, f)[k]}
<1>1. \A g \in DOMAIN s : Count(s, g) \in Nat /\ g \in Nat
  BY FilesAre
<1>2. \A g \in DOMAIN s : \A j \in 1..Count(s, g) :
        Before(g, j, f, k + 1) <=> Before(g, j, f, k) \/ (g = f /\ j = k)
  BY <1>1 DEF Before
<1>3. Types(s, f)[k] \in AllTypes(s)
  BY AllTypesAre
<1>4. ASSUME NEW t \in AllTypes(s)
      PROVE  t \in NamedBy(s, f, k + 1) <=> t \in NamedBy(s, f, k) \/ t = Types(s, f)[k]
  BY <1>2, <1>4 DEF NamedBy
<1>5. \A t \in NamedBy(s, f, k + 1) : t \in AllTypes(s)
  BY DEF NamedBy
<1>6. \A t \in NamedBy(s, f, k) : t \in AllTypes(s)
  BY DEF NamedBy
<1>7. QED
  BY <1>3, <1>4, <1>5, <1>6

LEMMA NamedFile ==
  ASSUME NEW s \in Schemas, NEW f \in DOMAIN s, f + 1 \in DOMAIN s
  PROVE  NamedBy(s, f + 1, 1) = NamedBy(s, f, Count(s, f) + 1)
<1>1. \A g \in DOMAIN s : Count(s, g) \in Nat /\ g \in Nat
  BY FilesAre
<1>2. \A g \in DOMAIN s : \A j \in 1..Count(s, g) :
        Before(g, j, f + 1, 1) <=> Before(g, j, f, Count(s, f) + 1)
  BY <1>1 DEF Before
<1>3. QED
  BY <1>2 DEF NamedBy

LEMMA NamedAll ==
  ASSUME NEW s \in Schemas, NEW f \in DOMAIN s, f = Len(s)
  PROVE  NamedBy(s, f, Count(s, f) + 1) = AllTypes(s)
<1>1. \A g \in DOMAIN s : Count(s, g) \in Nat /\ g \in Nat /\ g <= f
  BY FilesAre
<1>2. \A g \in DOMAIN s : \A j \in 1..Count(s, g) : Before(g, j, f, Count(s, f) + 1)
  BY <1>1 DEF Before
<1>3. \A t \in AllTypes(s) : \E g \in DOMAIN s : \E j \in 1..Count(s, g) : t = Types(s, g)[j]
  BY AllTypesAre
<1>4. QED
  BY <1>2, <1>3 DEF NamedBy

-----------------------------------------------------------------------------
(* The types' names, as they are given, and what holds of them later. *)
NameInv ==
  /\ pc \in {"args", "load", "analyse"} => DOMAIN cname = {}
  /\ pc = "name" => DOMAIN cname = NamedBy(schema, at, item)
  /\ pc \in {"reserve", "first"} \cup Emitting => DOMAIN cname = AllTypes(schema)
  /\ DOMAIN cname \subseteq AllTypes(schema)
  /\ \A t \in DOMAIN cname : cname[t] \in scope
  /\ pc \in Emitting =>
       claimed \subseteq scope /\ \A t \in DOMAIN cname : cname[t] \in claimed
  /\ \A t \in DOMAIN ok : t \in AllTypes(schema) /\ t.kind = "message"
  /\ \A c \in contracts : c.of \in AllTypes(schema)

(* A step that names no type and claims no name. *)
Quiet == UNCHANGED <<schema, cname, scope, claimed, ok, contracts>>

LEMMA NameInit == Init => NameInv
<1> SUFFICES ASSUME Init PROVE NameInv
  OBVIOUS
<1>1. pc = "args" /\ cname = <<>> /\ ok = <<>> /\ contracts = {}
  BY DEF Init
<1>2. DOMAIN cname = {} /\ DOMAIN ok = {}
  BY <1>1
<1>3. QED
  BY <1>1, <1>2 DEF NameInv, Emitting

LEMMA NameStep == Control /\ NameInv /\ [Next]_vars => NameInv'
<1> SUFFICES ASSUME Control, NameInv, [Next]_vars PROVE NameInv'
  OBVIOUS
<1>1. /\ schema \in Schemas /\ at \in DOMAIN schema /\ Count(schema, at) \in Nat
      /\ item \in 1..(Count(schema, at) + 1)
      /\ Len(Types(schema, at)) = Count(schema, at) /\ Len(Items) = Count(schema, at)
  BY TypesAre DEF Control, Items
<1>2. Quiet /\ pc \in {"args", "load", "analyse"} /\ pc' \in {"args", "load", "analyse", "helped"}
        => NameInv'
  BY DEF Quiet, NameInv, Emitting
<1>3. Quiet /\ pc \in {"reserve"} \cup Emitting
        /\ pc' \in {"reserve", "first", "exited"} \cup Emitting
        /\ (pc' \in Emitting => pc \in Emitting)
        => NameInv'
  BY DEF Quiet, NameInv, Emitting
<1>4. CASE ParseArgs
  BY <1>2, <1>4 DEF ParseArgs, Quiet, names
<1>5. CASE LoadSource
  BY <1>2, <1>5, LoopIs DEF LoadSource, Quiet, names
<1>6. CASE Analyse
  <2>1. pc' = "name" /\ at' = 1 /\ item' = 1 /\ Quiet /\ DOMAIN cname = {}
    BY <1>6 DEF Analyse, Control, Quiet, names, NameInv
  <2>2. NamedBy(schema', at', item') = {}
    BY <1>1, <2>1, NamedNone DEF Quiet
  <2>3. QED
    BY <2>1, <2>2 DEF Quiet, NameInv, Emitting
<1>7. CASE AssignCName
  <2> DEFINE t == Types(schema, at)[item]
             c == Claim(reserved, scope, TypeClaims(scope, Decl(schema, t)))
  <2>1. /\ pc = "name" /\ scope' = c.scope /\ cname' = Put(cname, t, Last(c.got))
        /\ item' = item + 1 /\ UNCHANGED <<schema, pc, at, ok, contracts>>
        /\ item \in 1..Count(schema, at)
    BY <1>1, <1>7 DEF AssignCName
  <2>2. scope \subseteq c.scope /\ Last(c.got) \in c.scope
    BY ClaimIs, TypeClaimsAre
  <2>3. t \in AllTypes(schema) /\ NamedBy(schema, at, item + 1) = NamedBy(schema, at, item) \cup {t}
    BY <1>1, <2>1, NamedStep
  <2> HIDE DEF t, c
  <2>4. /\ DOMAIN cname' = DOMAIN cname \cup {t}
        /\ \A u \in DOMAIN cname' : cname'[u] = IF u = t THEN Last(c.got) ELSE cname[u]
    BY <2>1 DEF Put
  <2>5. DOMAIN cname' = NamedBy(schema', at', item') /\ DOMAIN cname' \subseteq AllTypes(schema')
    BY <2>1, <2>3, <2>4 DEF NameInv
  <2>6. \A u \in DOMAIN cname' : cname'[u] \in scope'
    BY <2>1, <2>2, <2>4 DEF NameInv
  <2>7. QED
    BY <2>1, <2>5, <2>6 DEF NameInv, Emitting
<1>8. CASE FileNamed
  <2>1. pc = "name" /\ item = Count(schema, at) + 1 /\ item' = 1 /\ Quiet /\ Loop("reserve")
    BY <1>1, <1>8 DEF FileNamed, Quiet
  <2>2. DOMAIN cname = NamedBy(schema, at, Count(schema, at) + 1)
    BY <2>1 DEF NameInv
  <2>3. CASE at < Len(schema) /\ at' = at + 1 /\ at + 1 \in DOMAIN schema /\ pc' = pc
    <3>1. NamedBy(schema, at + 1, 1) = NamedBy(schema, at, Count(schema, at) + 1)
      BY <1>1, <2>3, NamedFile
    <3>2. DOMAIN cname' = NamedBy(schema', at', item')
      BY <2>1, <2>2, <2>3, <3>1 DEF Quiet
    <3>3. QED
      BY <2>1, <2>3, <3>2 DEF Quiet, NameInv, Emitting
  <2>4. CASE at = Len(schema) /\ at' = 1 /\ pc' = "reserve"
    <3>1. NamedBy(schema, at, Count(schema, at) + 1) = AllTypes(schema)
      BY <1>1, <2>4, NamedAll
    <3>2. DOMAIN cname' = AllTypes(schema')
      BY <2>1, <2>2, <3>1 DEF Quiet
    <3>3. QED
      BY <2>1, <2>4, <3>2 DEF Quiet, NameInv, Emitting
  <2>5. QED
    BY <2>1, <2>3, <2>4, LoopIs
<1>9. CASE ReservePublicNames
  <2>1. Quiet /\ pc = "reserve" /\ Loop("first")
    BY <1>9 DEF ReservePublicNames, Quiet
  <2>2. pc' \in {"reserve", "first"}
    BY <2>1, LoopIs
  <2>3. QED
    BY <1>3, <2>1, <2>2 DEF Emitting
<1>10. CASE Prepare
  BY <1>10 DEF Prepare, NameInv, Emitting
<1>11. CASE EmitEnum \/ EmitMessage
  <2> DEFINE m == Items[item]
             q == Claims(scope, m)
  <2>1. pc = "emit" /\ item \in 1..Count(schema, at) /\ Emit(m)
    BY <1>1, <1>11 DEF EmitEnum, EmitMessage
  <2>2. m \in AllTypes(schema)
    BY <1>1, <2>1, ItemIsType DEF Items
  <2>3. Len(q) \in Nat
    BY <1>1, <2>2, ClaimsAre DEF Claims
  <2>4. scope' = Claim(reserved, scope, q).scope
    BY <2>1 DEF Emit
  <2>5. UNCHANGED <<schema, pc, cname, claimed>>
    BY <2>1 DEF Emit
  <2> HIDE DEF q
  <2>6. scope \subseteq scope'
    BY <2>3, <2>4, ClaimIs
  <2>7. /\ \A t \in DOMAIN ok' : t \in AllTypes(schema) /\ t.kind = "message"
        /\ \A c \in contracts' : c.of \in AllTypes(schema)
    <3>1. CASE EmitEnum
      BY <3>1 DEF EmitEnum, NameInv
    <3>2. CASE EmitMessage
      <4>1. /\ m.kind = "message"
            /\ contracts' = contracts \cup {[of |-> t, name |-> Named(t)] : t \in Held(schema, m)}
        BY <3>2 DEF EmitMessage
      <4>2. PICK v : ok' = Put(ok, m, v)
        BY <3>2 DEF EmitMessage
      <4> HIDE DEF m
      <4>3. DOMAIN ok' = DOMAIN ok \cup {m}
        BY <4>2 DEF Put
      <4>4. \A t \in Held(schema, m) : t \in AllTypes(schema)
        BY <1>1, <2>2, <4>1, HeldAre
      <4>5. \A c \in contracts' : c \in contracts \/ \E t \in Held(schema, m) : c.of = t
        BY <4>1
      <4>6. QED
        BY <2>2, <4>1, <4>3, <4>4, <4>5 DEF NameInv
    <3>3. QED
      BY <1>11, <3>1, <3>2
  <2>8. QED
    BY <2>1, <2>5, <2>6, <2>7 DEF NameInv, Emitting
<1>12. CASE FileLearned
  BY <1>3, <1>12 DEF FileLearned, Quiet, Emitting, names
<1>13. CASE AllLearned
  <2>1. /\ pc = "emit" /\ scope' = claimed /\ contracts' = {}
        /\ UNCHANGED <<schema, pc, cname, claimed, ok>>
    BY <1>13 DEF AllLearned, RolledBack
  <2>2. QED
    BY <2>1 DEF NameInv, Emitting
<1>14. CASE FileEmitted
  BY <1>3, <1>14 DEF FileEmitted, Quiet, Emitting, names
<1>15. CASE OpenHeader
  BY <1>3, <1>15 DEF OpenHeader, Quiet, Emitting, names
<1>16. CASE WriteHeader
  BY <1>3, <1>16 DEF WriteHeader, NextFile, Exit, Quiet, Emitting, names
<1>17. CASE Fails
  <2>1. pc' = "exited" /\ Quiet
    BY <1>17 DEF Fails, Stops, Exit, Quiet, names
  <2>2. QED
    BY <2>1 DEF Quiet, NameInv, Emitting
<1>18. CASE UNCHANGED vars
  BY <1>18 DEF vars, NameInv
<1>19. QED
  BY <1>4, <1>5, <1>6, <1>7, <1>8, <1>9, <1>10, <1>11, <1>12, <1>13, <1>14, <1>15, <1>16, <1>17,
     <1>18 DEF Next

LEMMA NamesHold == Spec => [](Control /\ DiskInv /\ NameInv)
<1>1. Init => Control /\ DiskInv /\ NameInv
  BY ControlInit, DiskInit, NameInit
<1>2. Control /\ DiskInv /\ NameInv /\ [Next]_vars => (Control /\ DiskInv /\ NameInv)'
  BY ControlStep, DiskStep, NameStep
<1>3. QED
  BY <1>1, <1>2, PTL DEF Spec

(* Every type of the run has its C name before anything is emitted, and    *)
(* the name stays taken in the scope the second pass starts from.          *)
THEOREM TypeCorrect == Spec => []TypeOK
<1>1. Control /\ DiskInv /\ NameInv => TypeOK
  <2> SUFFICES ASSUME Control, DiskInv, NameInv PROVE TypeOK
    OBVIOUS
  <2>1. Len(Items) = Count(schema, at)
    BY TypesAre DEF Control, Items
  <2>2. \A n \in Range(cname) : n \in scope
    BY DEF NameInv, Range
  <2>3. pc \in {"emit", "open", "write"} => Range(cname) \subseteq claimed /\ claimed \subseteq scope
    BY DEF NameInv, Range, Emitting
  <2>4. DOMAIN ok \subseteq {t \in AllTypes(schema) : t.kind = "message"}
    BY DEF NameInv
  <2>5. /\ DOMAIN cname \subseteq AllTypes(schema)
        /\ pc \in {"first", "emit", "open", "write"} => DOMAIN cname = AllTypes(schema)
        /\ \A c \in contracts : c.of \in AllTypes(schema)
    BY DEF NameInv, Emitting
  <2>6. disk \in [Files -> {"untouched", "begun", "written", "lost"}] /\ at \in Files
    BY DEF DiskInv, Control, Files
  <2>7. /\ pc \in {"args", "load", "analyse", "name", "reserve", "first", "emit", "open", "write",
                    "exited", "helped"}
        /\ item \in 1..(Len(Items) + 1) /\ learning \in BOOLEAN /\ status \in {0, 1}
    BY <2>1 DEF Control, Early, Emitting
  <2>8. QED
    BY <2>2, <2>3, <2>4, <2>5, <2>6, <2>7 DEF TypeOK
<1>2. QED
  BY <1>1, NamesHold, PTL

-----------------------------------------------------------------------------
(* The scopes a pass goes through.  A trail gives the scope at each item,  *)
(* and after a file's last; a pass follows it if each item's claims lead   *)
(* from its scope to the next one's, and leave the name of the message's   *)
(* predicate in o.  Both passes start from the same scope, so the second   *)
(* follows the trail of the first.                                         *)
Emitted(s, c, r, taken, t) == Claim(r, taken, ItemClaims(s, c, r, taken, t))

Follows(s, c, r, o, tr, g, j) ==
  LET t == ItemsOf(s, g)[j]
      e == Emitted(s, c, r, tr[<<g, j>>], t)
  IN  /\ tr[<<g, j + 1>>] = e.scope
      /\ t.kind = "message" => t \in DOMAIN o /\ o[t] = e.got[5]

TrailTo(s, c, r, start, o, tr, f, k) ==
  /\ tr[<<1, 1>>] = start
  /\ \A g \in DOMAIN s : \A j \in 1..Count(s, g) :
       Before(g, j, f, k) => Follows(s, c, r, o, tr, g, j)
  /\ \A g \in DOMAIN s : g > 1 /\ g <= f => tr[<<g, 1>>] = tr[<<g - 1, Count(s, g - 1) + 1>>]

Reaches(s, c, r, start, o, f, k, taken) ==
  \E tr : TrailTo(s, c, r, start, o, tr, f, k) /\ tr[<<f, k>>] = taken

(* What emitting t leaves in o. *)
Learns(o, o2, t, e) ==
  IF t.kind = "message" THEN o2 = Put(o, t, e.got[5]) ELSE o2 = o

LEMMA ItemsOnce ==
  ASSUME NEW s \in Schemas, NEW f \in DOMAIN s, NEW g \in DOMAIN s,
         NEW k \in 1..Count(s, f), NEW j \in 1..Count(s, g), ItemsOf(s, f)[k] = ItemsOf(s, g)[j]
  PROVE  f = g /\ j = k
<1>1. f = g
  BY ItemIsType
<1>2. QED
  BY <1>1, ItemsDiffer

Learned(o, o2, t, e) ==
  /\ t.kind = "message" => DOMAIN o2 = {t} \cup DOMAIN o /\ o2[t] = e.got[5]
  /\ t.kind # "message" => o2 = o
  /\ \A u \in DOMAIN o : u # t => u \in DOMAIN o2 /\ o2[u] = o[u]

LEMMA LearnsIs ==
  ASSUME NEW o, NEW o2, NEW t, NEW e, Learns(o, o2, t, e)
  PROVE  Learned(o, o2, t, e)
<1>1. CASE t.kind = "message"
  <2>1. o2 = [x \in {t} \cup DOMAIN o |-> IF x = t THEN e.got[5] ELSE o[x]]
    BY <1>1 DEF Learns, Put
  <2>2. QED
    BY <1>1, <2>1 DEF Learned
<1>2. CASE t.kind # "message"
  BY <1>2 DEF Learns, Learned
<1>3. QED
  BY <1>1, <1>2

LEMMA TrailGrows ==
  ASSUME NEW s \in Schemas, NEW c, NEW r, NEW start, NEW o, NEW o2, NEW tr,
         NEW f \in DOMAIN s, NEW k \in 1..Count(s, f),
         TrailTo(s, c, r, start, o, tr, f, k),
         NEW t, t = ItemsOf(s, f)[k], NEW e, e = Emitted(s, c, r, tr[<<f, k>>], t),
         Learns(o, o2, t, e)
  PROVE  Reaches(s, c, r, start, o2, f, k + 1, e.scope)
<1> DEFINE h == k + 1
           tr2 == [q \in Nat \X Nat |-> IF q = <<f, h>> THEN e.scope ELSE tr[q]]
<1>1. /\ Count(s, f) \in Nat /\ f \in Nat /\ k \in Nat /\ k >= 1 /\ h \in Nat /\ h > 1
      /\ \A g \in DOMAIN s : Count(s, g) \in Nat /\ g \in Nat /\ g >= 1
  BY FilesAre
<1>2. \A g, j \in Nat : tr2[<<g, j>>] = IF g = f /\ j = h THEN e.scope ELSE tr[<<g, j>>]
  OBVIOUS
<1>3. Learned(o, o2, t, e)
  BY LearnsIs
<1>4. h = k + 1
  OBVIOUS
<1> HIDE DEF h, tr2
<1>5. tr2[<<f, h>>] = e.scope /\ tr2[<<f, k>>] = tr[<<f, k>>]
  <2>1. k # h
    BY <1>1, <1>4
  <2>2. QED
    BY <1>1, <1>2, <2>1
<1>6. tr2[<<1, 1>>] = start
  <2>1. 1 # h /\ 1 \in Nat
    BY <1>1
  <2>2. QED
    BY <1>2, <2>1 DEF TrailTo
<1>7. ASSUME NEW g \in DOMAIN s, NEW j \in 1..Count(s, g), Before(g, j, f, h)
      PROVE  Follows(s, c, r, o2, tr2, g, j)
  <2>1. CASE g = f /\ j = k
    <3>1. tr2[<<g, j + 1>>] = e.scope /\ tr2[<<g, j>>] = tr[<<f, k>>]
      BY <1>4, <1>5, <2>1
    <3>2. t.kind = "message" => t \in DOMAIN o2 /\ o2[t] = e.got[5]
      BY <1>3 DEF Learned
    <3>3. QED
      BY <2>1, <3>1, <3>2 DEF Follows
  <2>2. CASE ~(g = f /\ j = k)
    <3> DEFINE i == j + 1
    <3>1. Before(g, j, f, k) /\ j \in Nat /\ i \in Nat /\ ~(g = f /\ i = h) /\ ~(g = f /\ j = h)
      BY <1>1, <1>4, <1>7, <2>2 DEF Before
    <3>2. Follows(s, c, r, o, tr, g, j)
      BY <3>1 DEF TrailTo
    <3> HIDE DEF i
    <3>3. tr2[<<g, i>>] = tr[<<g, i>>] /\ tr2[<<g, j>>] = tr[<<g, j>>]
      BY <1>1, <1>2, <3>1
    <3> DEFINE u == ItemsOf(s, g)[j]
    <3>4. u # t
      BY <2>2, ItemsOnce
    <3>5. u \in DOMAIN o => u \in DOMAIN o2 /\ o2[u] = o[u]
      BY <1>3, <3>4 DEF Learned
    <3> HIDE DEF u
    <3>6. /\ tr2[<<g, i>>] = Emitted(s, c, r, tr2[<<g, j>>], u).scope
          /\ u.kind = "message" => u \in DOMAIN o2
                                   /\ o2[u] = Emitted(s, c, r, tr2[<<g, j>>], u).got[5]
      BY <3>2, <3>3, <3>5 DEF Follows, u, i
    <3>7. QED
      BY <3>6 DEF Follows, u, i
  <2>3. QED
    BY <2>1, <2>2
<1>8. ASSUME NEW g \in DOMAIN s, g > 1, g <= f
      PROVE  tr2[<<g, 1>>] = tr2[<<g - 1, Count(s, g - 1) + 1>>]
  <2> DEFINE a == g - 1
             b == Count(s, g - 1) + 1
  <2>1. a \in DOMAIN s
    BY <1>8, SchemaIs
  <2>2. a \in Nat /\ b \in Nat /\ g \in Nat /\ a # f /\ 1 # h
    BY <1>1, <1>8, <2>1
  <2>3. tr[<<g, 1>>] = tr[<<a, b>>]
    BY <1>8 DEF TrailTo
  <2> HIDE DEF a, b
  <2>4. tr2[<<g, 1>>] = tr[<<g, 1>>] /\ tr2[<<a, b>>] = tr[<<a, b>>]
    BY <1>2, <2>2
  <2>5. tr2[<<g, 1>>] = tr2[<<a, b>>]
    BY <2>3, <2>4
  <2>6. QED
    BY <2>5 DEF a, b
<1>9. TrailTo(s, c, r, start, o2, tr2, f, h)
  BY <1>6, <1>7, <1>8 DEF TrailTo
<1>10. tr2[<<f, h>>] = e.scope
  BY <1>5
<1>11. QED
  BY <1>4, <1>9, <1>10 DEF Reaches

LEMMA TrailNextFile ==
  ASSUME NEW s \in Schemas, NEW c, NEW r, NEW start, NEW o, NEW tr,
         NEW f \in DOMAIN s, f + 1 \in DOMAIN s,
         TrailTo(s, c, r, start, o, tr, f, Count(s, f) + 1)
  PROVE  Reaches(s, c, r, start, o, f + 1, 1, tr[<<f, Count(s, f) + 1>>])
<1> DEFINE n == Count(s, f) + 1
           h == f + 1
           v == tr[<<f, n>>]
           tr2 == [q \in Nat \X Nat |-> IF q = <<h, 1>> THEN v ELSE tr[q]]
<1>1. /\ f \in Nat /\ f >= 1 /\ h \in Nat /\ h > 1 /\ n \in Nat
      /\ \A g \in DOMAIN s : Count(s, g) \in Nat /\ g \in Nat /\ g >= 1
  BY FilesAre
<1>2. \A g, j \in Nat : tr2[<<g, j>>] = IF g = h /\ j = 1 THEN v ELSE tr[<<g, j>>]
  OBVIOUS
<1>3. h = f + 1 /\ n = Count(s, f) + 1
  OBVIOUS
<1>4. TrailTo(s, c, r, start, o, tr, f, n)
  OBVIOUS
<1> HIDE DEF h, n, v, tr2
<1>5. tr2[<<h, 1>>] = v
  BY <1>1, <1>2
<1>6. tr2[<<1, 1>>] = start
  <2>1. 1 # h /\ 1 \in Nat
    BY <1>1
  <2>2. QED
    BY <1>2, <1>4, <2>1 DEF TrailTo
<1>7. ASSUME NEW g \in DOMAIN s, NEW j \in 1..Count(s, g), Before(g, j, h, 1)
      PROVE  Follows(s, c, r, o, tr2, g, j)
  <2> DEFINE i == j + 1
  <2>1. Before(g, j, f, n) /\ j \in Nat /\ i \in Nat /\ g # h /\ g \in Nat
    BY <1>1, <1>3, <1>7 DEF Before
  <2>2. Follows(s, c, r, o, tr, g, j)
    BY <1>4, <2>1 DEF TrailTo
  <2> HIDE DEF i
  <2>3. tr2[<<g, i>>] = tr[<<g, i>>] /\ tr2[<<g, j>>] = tr[<<g, j>>]
    BY <1>2, <2>1
  <2> DEFINE u == ItemsOf(s, g)[j]
  <2> HIDE DEF u
  <2>4. /\ tr2[<<g, i>>] = Emitted(s, c, r, tr2[<<g, j>>], u).scope
        /\ u.kind = "message" => u \in DOMAIN o /\ o[u] = Emitted(s, c, r, tr2[<<g, j>>], u).got[5]
    BY <2>2, <2>3 DEF Follows, u, i
  <2>5. QED
    BY <2>4 DEF Follows, u, i
<1>8. ASSUME NEW g \in DOMAIN s, g > 1, g <= h
      PROVE  tr2[<<g, 1>>] = tr2[<<g - 1, Count(s, g - 1) + 1>>]
  <2> DEFINE a == g - 1
             b == Count(s, g - 1) + 1
  <2>1. a \in DOMAIN s
    BY <1>8, SchemaIs
  <2>2. a \in Nat /\ b \in Nat /\ g \in Nat /\ a # h
    BY <1>1, <1>8, <2>1
  <2>3. CASE g = h
    <3>1. a = f /\ b = n
      BY <1>1, <1>3, <2>3
    <3>2. tr2[<<f, n>>] = v
      BY <1>1, <1>2, <2>2, <3>1 DEF v
    <3>3. tr2[<<g, 1>>] = tr2[<<a, b>>]
      BY <1>5, <2>3, <3>1, <3>2
    <3>4. QED
      BY <3>3
  <2>4. CASE g # h
    <3>1. g <= f
      BY <1>1, <1>3, <1>8, <2>2, <2>4
    <3>2. tr[<<g, 1>>] = tr[<<a, b>>]
      BY <1>4, <1>8, <3>1 DEF TrailTo
    <3> HIDE DEF a, b
    <3>3. tr2[<<g, 1>>] = tr[<<g, 1>>] /\ tr2[<<a, b>>] = tr[<<a, b>>]
      BY <1>2, <2>2, <2>4
    <3>4. tr2[<<g, 1>>] = tr2[<<a, b>>]
      BY <3>2, <3>3
    <3>5. QED
      BY <3>4 DEF a, b
  <2>5. QED
    BY <2>3, <2>4
<1>9. TrailTo(s, c, r, start, o, tr2, h, 1)
  BY <1>6, <1>7, <1>8 DEF TrailTo
<1>10. QED
  BY <1>5, <1>9 DEF h, n, v, Reaches

-----------------------------------------------------------------------------
(* A message's place in its file's order is its place among the items. *)
LEMMA PlaceIs ==
  ASSUME NEW s \in Schemas, NEW m \in AllTypes(s), m.kind = "message"
  PROVE  /\ m.file \in DOMAIN s /\ Place(s, m) \in 1..MessageCount(s, m.file)
         /\ MessageSlot(s, m.file, Place(s, m)) \in 1..Count(s, m.file)
         /\ ItemsOf(s, m.file)[MessageSlot(s, m.file, Place(s, m))] = m
<1> DEFINE f == m.file
           p == Place(s, m)
<1>1. f \in DOMAIN s /\ m = [kind |-> "message", file |-> f, at |-> m.at] /\ m.at \in 1..MessageCount(s, f)
  BY TypeIsItem
<1>2. /\ DOMAIN Order(s, f) = 1..MessageCount(s, f)
      /\ \A k \in 1..MessageCount(s, f) :
           Order(s, f)[k] = [kind |-> "message", file |-> f, at |-> Listed(s, f)[k]]
      /\ \E k \in 1..MessageCount(s, f) : Listed(s, f)[k] = m.at
  BY <1>1, OrderIs
<1>3. \E k \in DOMAIN Order(s, f) : Order(s, f)[k] = m
  BY <1>1, <1>2
<1>4. p \in DOMAIN Order(s, f) /\ Order(s, f)[p] = m
  BY <1>3 DEF Place
<1>5. p \in 1..MessageCount(s, f)
  BY <1>2, <1>4
<1>6. /\ MessageSlot(s, f, p) \in 1..Count(s, f)
      /\ ItemsOf(s, f)[MessageSlot(s, f, p)] = Order(s, f)[p]
  BY <1>1, <1>5, MessageAt
<1>7. QED
  BY <1>1, <1>4, <1>5, <1>6

(* With no first pass, what a message holds comes before it, or is it. *)
LEMMA HeldBefore ==
  ASSUME NEW s \in Schemas, ~NeedsFirstPass(s), NEW f \in DOMAIN s, NEW k \in 1..Count(s, f),
         NEW m, m = ItemsOf(s, f)[k], m.kind = "message", NEW t \in Held(s, m)
  PROVE  \/ t = m
         \/ \E g \in DOMAIN s : \E j \in 1..Count(s, g) : t = ItemsOf(s, g)[j] /\ Before(g, j, f, k)
<1>1. m \in AllTypes(s) /\ m.file = f
  BY ItemIsType
<1>2. /\ t \in AllTypes(s) /\ t.kind = "message"
      /\ \A seen \in SUBSET DOMAIN s :
           f \in seen /\ (\A g \in seen : \A i \in DOMAIN s[g].imports : s[g].imports[i] \in seen)
           => t.file \in seen
  BY <1>1, HeldAre
<1>3. /\ t.file \in DOMAIN s
      /\ Place(s, t) \in 1..MessageCount(s, t.file)
      /\ MessageSlot(s, t.file, Place(s, t)) \in 1..Count(s, t.file)
      /\ ItemsOf(s, t.file)[MessageSlot(s, t.file, Place(s, t))] = t
  BY <1>2, PlaceIs
<1>4. \A g \in DOMAIN s : g \in Nat
  BY SchemaIs
<1>5. t.file <= f
  <2> DEFINE seen == {g \in DOMAIN s : g <= f}
  <2>1. \A g \in DOMAIN s : \A i \in DOMAIN s[g].imports :
          s[g].imports[i] \in DOMAIN s /\ ~(s[g].imports[i] >= g)
    BY SchemasAssumption DEF NeedsFirstPass
  <2>2. \A g \in seen : \A i \in DOMAIN s[g].imports : s[g].imports[i] \in seen
    <3> TAKE g \in seen
    <3> TAKE i \in DOMAIN s[g].imports
    <3>1. PICK x : x = s[g].imports[i]
      OBVIOUS
    <3>2. g \in DOMAIN s /\ g <= f
      OBVIOUS
    <3>3. x \in DOMAIN s /\ ~(x >= g)
      BY <2>1, <3>1, <3>2
    <3>4. x <= f
      BY <1>4, <3>2, <3>3
    <3>5. QED
      BY <3>1, <3>3, <3>4
  <2>3. f \in seen
    BY <1>4
  <2>4. seen \in SUBSET DOMAIN s
    OBVIOUS
  <2>5. t.file \in seen
    BY <1>2, <2>2, <2>3, <2>4
  <2>6. QED
    BY <2>5
<1>6. CASE t.file = f
  <2> DEFINE a == Place(s, t)
             b == Place(s, m)
  <2>1. b \in 1..MessageCount(s, f) /\ MessageSlot(s, f, b) \in 1..Count(s, f)
        /\ ItemsOf(s, f)[MessageSlot(s, f, b)] = m
    BY <1>1, PlaceIs
  <2>2. MessageSlot(s, f, b) = k
    BY <2>1, ItemsDiffer
  <2>3. m \in Range(Messages(s, f))
    <3>1. m = [kind |-> "message", file |-> f, at |-> m.at] /\ m.at \in 1..MessageCount(s, f)
      BY <1>1, TypeIsItem
    <3>2. m.at \in DOMAIN Messages(s, f) /\ Messages(s, f)[m.at] = m
      BY <3>1, MessagesAre
    <3>3. QED
      BY <3>2 DEF Range
  <2>4. ~(a > b)
    BY <1>6, <2>3 DEF NeedsFirstPass, NamesAhead
  <2>5. a \in Nat /\ b \in Nat /\ EnumCount(s, f) \in Nat
    <3>1. MessageCount(s, f) \in Nat /\ EnumCount(s, f) \in Nat
      BY TypesAre
    <3>2. QED
      BY <1>3, <1>6, <2>1, <3>1
  <2>6. MessageSlot(s, f, a) = EnumCount(s, f) + a /\ MessageSlot(s, f, b) = EnumCount(s, f) + b
    BY DEF MessageSlot
  <2> HIDE DEF a, b
  <2>7. CASE a = b
    BY <1>3, <1>6, <2>1, <2>7 DEF a
  <2>8. CASE a # b
    <3>1. MessageSlot(s, f, a) < k
      BY <2>2, <2>4, <2>5, <2>6, <2>8
    <3>2. Before(f, MessageSlot(s, f, a), f, k)
      BY <3>1 DEF Before
    <3>3. QED
      BY <1>3, <1>6, <3>2 DEF a
  <2>9. QED
    BY <2>7, <2>8
<1>7. CASE t.file # f
  <2>1. t.file < f
    BY <1>3, <1>4, <1>5, <1>7
  <2>2. Before(t.file, MessageSlot(s, t.file, Place(s, t)), f, k)
    BY <2>1 DEF Before
  <2>3. QED
    BY <1>3, <2>2
<1>8. QED
  BY <1>6, <1>7

-----------------------------------------------------------------------------
(* Only what was emitted has its predicate's name. *)
Walked(s, o, f, k) ==
  \A t \in DOMAIN o : \E g \in DOMAIN s : \E j \in 1..Count(s, g) :
    t = ItemsOf(s, g)[j] /\ Before(g, j, f, k)

(* A run at item k of file f: the first pass, or the only one, knows the   *)
(* trail so far; the second knows all of it.                               *)
OnTrail(tr, s, c, r, start, o, taken, f, k, first) ==
  /\ taken = tr[<<f, k>>]
  /\ first => TrailTo(s, c, r, start, o, tr, f, k) /\ Walked(s, o, f, k)
  /\ ~first => TrailTo(s, c, r, start, o, tr, Len(s), Count(s, Len(s)) + 1)

Passes(s, c, r, start, o, taken, f, k, first) ==
  \E tr : OnTrail(tr, s, c, r, start, o, taken, f, k, first)

Keeps(o, o2) == \A u \in DOMAIN o : u \in DOMAIN o2 /\ o2[u] = o[u]

LEMMA NotYet ==
  ASSUME NEW s \in Schemas, NEW o, NEW f \in DOMAIN s, NEW k \in 1..Count(s, f), Walked(s, o, f, k)
  PROVE  ItemsOf(s, f)[k] \notin DOMAIN o
<1>1. f \in Nat /\ k \in Nat
  BY FilesAre
<1>2. ~Before(f, k, f, k)
  BY <1>1 DEF Before
<1>3. QED
  BY <1>2, ItemsOnce DEF Walked

LEMMA WalkedOn ==
  ASSUME NEW s \in Schemas, NEW o, NEW o2, NEW f \in DOMAIN s, NEW k \in 1..Count(s, f),
         Walked(s, o, f, k), NEW e, Learned(o, o2, ItemsOf(s, f)[k], e)
  PROVE  Walked(s, o2, f, k + 1)
<1>1. \A g \in DOMAIN s : Count(s, g) \in Nat /\ g \in Nat
  BY FilesAre
<1>2. Before(f, k, f, k + 1)
  BY <1>1 DEF Before
<1>3. \A g \in DOMAIN s : \A j \in 1..Count(s, g) : Before(g, j, f, k) => Before(g, j, f, k + 1)
  BY <1>1 DEF Before
<1> DEFINE t == ItemsOf(s, f)[k]
<1>4. DOMAIN o2 \subseteq {t} \cup DOMAIN o
  <2> HIDE DEF t
  <2>1. Learned(o, o2, t, e)
    BY DEF t
  <2>2. QED
    BY <2>1 DEF Learned
<1>5. QED
  BY <1>2, <1>3, <1>4 DEF Walked

LEMMA EmitPasses ==
  ASSUME NEW s \in Schemas, NEW c, NEW r, NEW start, NEW o, NEW o2, NEW taken, NEW tr,
         NEW f \in DOMAIN s, NEW k \in 1..Count(s, f), NEW first \in BOOLEAN,
         OnTrail(tr, s, c, r, start, o, taken, f, k, first),
         NEW t, t = ItemsOf(s, f)[k], NEW e, e = Emitted(s, c, r, taken, t),
         Learns(o, o2, t, e)
  PROVE  Passes(s, c, r, start, o2, e.scope, f, k + 1, first) /\ Keeps(o, o2)
<1>1. e = Emitted(s, c, r, tr[<<f, k>>], t)
  BY DEF OnTrail
<1>2. Learned(o, o2, t, e)
  BY LearnsIs
<1>3. CASE first
  <2>1. TrailTo(s, c, r, start, o, tr, f, k) /\ Walked(s, o, f, k)
    BY <1>3 DEF OnTrail
  <2>2. Reaches(s, c, r, start, o2, f, k + 1, e.scope)
    BY <1>1, <2>1, TrailGrows
  <2>3. Walked(s, o2, f, k + 1)
    BY <1>2, <2>1, WalkedOn
  <2>4. t \notin DOMAIN o
    BY <2>1, NotYet
  <2>5. Keeps(o, o2)
    BY <1>2, <2>4 DEF Learned, Keeps
  <2>6. Passes(s, c, r, start, o2, e.scope, f, k + 1, first)
    BY <1>3, <2>2, <2>3 DEF Reaches, Passes, OnTrail
  <2>7. QED
    BY <2>5, <2>6
<1>4. CASE ~first  \* the whole trail is known, and emitting an item again changes nothing
  <2> DEFINE l == Len(s)
             n == Count(s, l) + 1
  <2>1. TrailTo(s, c, r, start, o, tr, l, n)
    BY <1>4 DEF OnTrail
  <2>2. \A g \in DOMAIN s : \A j \in 1..Count(s, g) : Before(g, j, l, n)
    <3>1. l \in DOMAIN s /\ \A g \in DOMAIN s : Count(s, g) \in Nat /\ g \in Nat /\ g <= l
      BY SchemaIs, FilesAre
    <3>2. QED
      BY <3>1 DEF Before
  <2> HIDE DEF l, n
  <2>3. Follows(s, c, r, o, tr, f, k)
    BY <2>1, <2>2 DEF TrailTo
  <2>4. tr[<<f, k + 1>>] = e.scope /\ (t.kind = "message" => t \in DOMAIN o /\ o[t] = e.got[5])
    BY <1>1, <2>3 DEF Follows
  <2>5. DOMAIN o2 = DOMAIN o /\ \A u \in DOMAIN o : o2[u] = o[u]
    BY <1>2, <2>4 DEF Learned
  <2>6. \A g \in DOMAIN s : \A j \in 1..Count(s, g) :
          Follows(s, c, r, o, tr, g, j) => Follows(s, c, r, o2, tr, g, j)
    BY <2>5 DEF Follows
  <2>7. TrailTo(s, c, r, start, o2, tr, l, n)
    BY <2>1, <2>6 DEF TrailTo
  <2>8. Passes(s, c, r, start, o2, e.scope, f, k + 1, first)
    BY <1>4, <2>4, <2>7 DEF Passes, OnTrail, l, n
  <2>9. QED
    BY <2>5, <2>8 DEF Keeps
<1>5. QED
  BY <1>3, <1>4

LEMMA FilePasses ==
  ASSUME NEW s \in Schemas, NEW c, NEW r, NEW start, NEW o, NEW taken, NEW tr,
         NEW f \in DOMAIN s, f + 1 \in DOMAIN s, NEW first \in BOOLEAN,
         OnTrail(tr, s, c, r, start, o, taken, f, Count(s, f) + 1, first)
  PROVE  Passes(s, c, r, start, o, taken, f + 1, 1, first)
<1>1. taken = tr[<<f, Count(s, f) + 1>>]
  BY DEF OnTrail
<1>2. CASE first
  <2>1. TrailTo(s, c, r, start, o, tr, f, Count(s, f) + 1) /\ Walked(s, o, f, Count(s, f) + 1)
    BY <1>2 DEF OnTrail
  <2>2. Reaches(s, c, r, start, o, f + 1, 1, tr[<<f, Count(s, f) + 1>>])
    BY <2>1, TrailNextFile
  <2>3. \A g \in DOMAIN s : Count(s, g) \in Nat /\ g \in Nat
    BY FilesAre
  <2>4. \A g \in DOMAIN s : \A j \in 1..Count(s, g) :
          Before(g, j, f, Count(s, f) + 1) => Before(g, j, f + 1, 1)
    BY <2>3 DEF Before
  <2>5. Walked(s, o, f + 1, 1)
    BY <2>1, <2>4 DEF Walked
  <2>6. QED
    BY <1>1, <1>2, <2>2, <2>5 DEF Reaches, Passes, OnTrail
<1>3. CASE ~first
  <2>1. TrailTo(s, c, r, start, o, tr, Len(s), Count(s, Len(s)) + 1)
    BY <1>3 DEF OnTrail
  <2>2. f + 1 > 1 /\ f + 1 <= Len(s) /\ (f + 1) - 1 = f
    BY FilesAre
  <2>3. tr[<<f + 1, 1>>] = tr[<<(f + 1) - 1, Count(s, (f + 1) - 1) + 1>>]
    BY <2>1, <2>2 DEF TrailTo
  <2>4. tr[<<f + 1, 1>>] = taken
    BY <1>1, <2>2, <2>3
  <2>5. OnTrail(tr, s, c, r, start, o, taken, f + 1, 1, first)
    BY <1>3, <2>1, <2>4 DEF OnTrail
  <2>6. QED
    BY <2>5 DEF Passes
<1>4. QED
  BY <1>2, <1>3

(* What a message's contracts name has its predicate's name by then, the   *)
(* second time or the only time.                                           *)
LEMMA HeldKnown ==
  ASSUME NEW s \in Schemas, NEW c, NEW r, NEW start, NEW o, NEW taken, NEW tr,
         NEW f \in DOMAIN s, NEW k \in 1..Count(s, f), NEW first \in BOOLEAN,
         OnTrail(tr, s, c, r, start, o, taken, f, k, first), first => ~NeedsFirstPass(s),
         NEW m, m = ItemsOf(s, f)[k], m.kind = "message", NEW t \in Held(s, m)
  PROVE  t = m \/ t \in DOMAIN o
<1>1. m \in AllTypes(s)
  BY ItemIsType
<1>2. t \in AllTypes(s) /\ t.kind = "message"
  BY <1>1, HeldAre
<1>3. CASE first
  <2>1. TrailTo(s, c, r, start, o, tr, f, k)
    BY <1>3 DEF OnTrail
  <2>2. CASE t # m
    <3>1. PICK g \in DOMAIN s : \E j \in 1..Count(s, g) : t = ItemsOf(s, g)[j] /\ Before(g, j, f, k)
      BY <1>3, <2>2, HeldBefore
    <3>2. PICK j \in 1..Count(s, g) : t = ItemsOf(s, g)[j] /\ Before(g, j, f, k)
      BY <3>1
    <3>3. Follows(s, c, r, o, tr, g, j)
      BY <2>1, <3>2 DEF TrailTo
    <3>4. QED
      BY <1>2, <3>2, <3>3 DEF Follows
  <2>3. QED
    BY <2>2
<1>4. CASE ~first
  <2>1. TrailTo(s, c, r, start, o, tr, Len(s), Count(s, Len(s)) + 1)
    BY <1>4 DEF OnTrail
  <2>2. PICK j \in 1..Count(s, t.file) : ItemsOf(s, t.file)[j] = t
    BY <1>2, TypeIsItem
  <2>3. t.file \in DOMAIN s
    BY <1>2, TypeIsItem
  <2>4. Before(t.file, j, Len(s), Count(s, Len(s)) + 1)
    <3>1. PICK g : g = t.file
      OBVIOUS
    <3>2. /\ g \in DOMAIN s /\ j \in 1..Count(s, g) /\ Len(s) \in DOMAIN s
          /\ Count(s, g) \in Nat /\ g \in Nat /\ g <= Len(s) /\ Len(s) \in Nat
      BY <2>2, <2>3, <3>1, SchemaIs, FilesAre
    <3>3. Before(g, j, Len(s), Count(s, Len(s)) + 1)
      BY <3>2 DEF Before
    <3>4. QED
      BY <3>1, <3>3
  <2>5. Follows(s, c, r, o, tr, t.file, j)
    BY <2>1, <2>2, <2>3, <2>4 DEF TrailTo
  <2>6. QED
    BY <1>2, <2>2, <2>5 DEF Follows
<1>5. QED
  BY <1>3, <1>4

-----------------------------------------------------------------------------
FirstPass == learning \/ ~NeedsFirstPass(schema)

PassInv ==
  /\ learning => NeedsFirstPass(schema)
  /\ pc \in Early => DOMAIN ok = {} /\ contracts = {}
  /\ pc \in Emitting =>
       Passes(schema, cname, reserved, claimed, ok, scope, at, item, FirstPass)
  /\ ContractsMeetPredicates

LEMMA PassInit == Init => PassInv
<1> SUFFICES ASSUME Init PROVE PassInv
  OBVIOUS
<1>1. pc = "args" /\ learning = FALSE /\ ok = <<>> /\ contracts = {}
  BY DEF Init
<1>2. DOMAIN ok = {}
  BY <1>1
<1>3. QED
  BY <1>1, <1>2 DEF PassInv, Emitting, ContractsMeetPredicates

LEMMA PassStep == Control /\ NameInv /\ PassInv /\ [Next]_vars => PassInv'
<1> SUFFICES ASSUME Control, NameInv, PassInv, [Next]_vars PROVE PassInv'
  OBVIOUS
<1>1. /\ schema \in Schemas /\ at \in DOMAIN schema /\ Count(schema, at) \in Nat
      /\ item \in 1..(Count(schema, at) + 1)
      /\ Len(Items) = Count(schema, at) /\ Len(schema) \in DOMAIN schema
  BY SchemaIs, TypesAre DEF Control, Items
<1>2. FirstPass \in BOOLEAN
  BY DEF FirstPass, NeedsFirstPass, Control
<1>3. UNCHANGED <<schema, learning, ok, contracts>> /\ pc \in Early /\ pc' \in Early \cup {"exited", "helped"}
        => PassInv'
  BY DEF PassInv, Early, Emitting, ContractsMeetPredicates
<1>4. UNCHANGED <<schema, names>> /\ pc \in Emitting
        /\ (pc' = "exited" \/ (pc' \in Emitting /\ UNCHANGED <<at, item>>))
        => PassInv'
  BY DEF PassInv, Early, Emitting, ContractsMeetPredicates, FirstPass, names
<1>5. CASE ParseArgs
  BY <1>3, <1>5 DEF ParseArgs, Early, names
<1>6. CASE LoadSource \/ FileNamed \/ ReservePublicNames
  <2>1. UNCHANGED <<schema, learning, ok, contracts>> /\ pc \in Early
    BY <1>6 DEF LoadSource, FileNamed, ReservePublicNames, Early, names
  <2>2. pc' \in Early
    BY <1>6, LoopIs DEF LoadSource, FileNamed, ReservePublicNames, Early
  <2>3. QED
    BY <1>3, <2>1, <2>2
<1>7. CASE Analyse \/ AssignCName
  <2>1. UNCHANGED <<schema, learning, ok, contracts>> /\ pc \in Early /\ pc' \in Early
    BY <1>7 DEF Analyse, AssignCName, Early, names
  <2>2. QED
    BY <1>3, <2>1
<1>8. CASE Prepare
  <2>1. /\ pc' = "emit" /\ at' = 1 /\ item' = 1 /\ claimed' = scope /\ learning' = NeedsFirstPass(schema)
        /\ UNCHANGED <<schema, cname, reserved, ok, contracts, scope>>
        /\ DOMAIN ok = {} /\ contracts = {}
    BY <1>8 DEF Prepare, Control, PassInv, Early
  <2>2. FirstPass'
    BY <2>1 DEF FirstPass
  <2> DEFINE tr == [q \in {<<1, 1>>} |-> scope]
  <2>3. tr[<<1, 1>>] = scope
    OBVIOUS
  <2> HIDE DEF tr
  <2>4. \A g \in DOMAIN schema : Count(schema, g) \in Nat /\ g \in Nat /\ g >= 1
    BY <1>1, FilesAre
  <2>5. \A g \in DOMAIN schema : \A j \in 1..Count(schema, g) : ~Before(g, j, 1, 1)
    BY <2>4 DEF Before
  <2>6. \A g \in DOMAIN schema : ~(g > 1 /\ g <= 1)
    BY <2>4
  <2>7. TrailTo(schema, cname, reserved, scope, ok, tr, 1, 1)
    BY <2>3, <2>5, <2>6 DEF TrailTo
  <2>8. Walked(schema, ok, 1, 1)
    BY <2>1 DEF Walked
  <2>9. OnTrail(tr, schema, cname, reserved, scope, ok, scope, 1, 1, TRUE)
    BY <2>3, <2>7, <2>8 DEF OnTrail
  <2>10. OnTrail(tr, schema', cname', reserved', claimed', ok', scope', at', item', FirstPass')
    <3>1. FirstPass' = TRUE
      BY <2>2 DEF FirstPass
    <3>2. QED
      BY <2>1, <2>9, <3>1
  <2>11. QED
    BY <2>1, <2>10 DEF PassInv, Passes, Early, ContractsMeetPredicates
<1>9. CASE EmitEnum \/ EmitMessage
  <2> DEFINE t == Items[item]
             e == Emitted(schema, cname, reserved, scope, t)
  <2>1. pc = "emit" /\ item \in 1..Count(schema, at) /\ Emit(t) /\ t.kind \in {"enum", "message"}
    BY <1>1, <1>9 DEF EmitEnum, EmitMessage
  <2>2. PICK tr : OnTrail(tr, schema, cname, reserved, claimed, ok, scope, at, item, FirstPass)
    BY <2>1 DEF PassInv, Passes, Emitting
  <2>3. e = Claim(reserved, scope, Claims(scope, t))
    BY DEF Emitted, Claims
  <2>4. /\ scope' = e.scope /\ item' = item + 1
        /\ UNCHANGED <<schema, pc, at, cname, claimed, reserved, learning>>
    BY <2>1, <2>3 DEF Emit
  <2>5. Learns(ok, ok', t, e)
    <3>1. CASE EmitEnum
      BY <3>1 DEF EmitEnum, Learns
    <3>2. CASE EmitMessage
      BY <2>3, <3>2 DEF EmitMessage, Learns
    <3>3. QED
      BY <1>9, <3>1, <3>2
  <2>6. t = ItemsOf(schema, at)[item]
    BY DEF Items
  <2> HIDE DEF t, e
  <2>7. e = Emitted(schema, cname, reserved, scope, t)
    BY DEF e
  <2>8. Passes(schema, cname, reserved, claimed, ok', e.scope, at, item + 1, FirstPass) /\ Keeps(ok, ok')
    <3>1. schema \in Schemas /\ at \in DOMAIN schema /\ item \in 1..Count(schema, at)
      BY <1>1, <2>1
    <3>2. QED
      BY <1>2, <2>2, <2>5, <2>6, <2>7, <3>1, EmitPasses
  <2>9. FirstPass' = FirstPass
    BY <2>4 DEF FirstPass
  <2>10. Passes(schema', cname', reserved', claimed', ok', scope', at', item', FirstPass')
    BY <2>4, <2>8, <2>9
  <2>11. ContractsMeetPredicates'
    <3> SUFFICES ASSUME ~learning', NEW c \in contracts'
                 PROVE  c.of \in DOMAIN ok' /\ c.name = ok'[c.of]
      BY DEF ContractsMeetPredicates
    <3>1. CASE c \in contracts
      <4>1. c.of \in DOMAIN ok /\ c.name = ok[c.of]
        BY <2>4, <3>1 DEF PassInv, ContractsMeetPredicates
      <4>2. QED
        BY <2>8, <4>1 DEF Keeps
    <3>2. CASE c \notin contracts
      <4>1. EmitMessage /\ t.kind = "message"
        BY <1>9, <3>2 DEF EmitEnum, EmitMessage, t
      <4>2. contracts' = contracts \cup {[of |-> x, name |-> Named(x)] : x \in Held(schema, t)}
        BY <4>1 DEF EmitMessage, t
      <4>3. PICK x \in Held(schema, t) : c = [of |-> x, name |-> Named(x)]
        BY <3>2, <4>2
      <4>4. FirstPass => ~NeedsFirstPass(schema)
        BY <2>4 DEF FirstPass
      <4>5. x = t \/ x \in DOMAIN ok
        BY <1>1, <1>2, <2>1, <2>2, <2>6, <4>1, <4>4, HeldKnown
      <4>6. t \in DOMAIN ok'
        <5>1. Learned(ok, ok', t, e)
          BY <2>5, LearnsIs
        <5>2. QED
          BY <4>1, <5>1 DEF Learned
      <4>7. x \in DOMAIN ok'
        BY <2>8, <4>5, <4>6 DEF Keeps
      <4>8. c.of = x /\ c.name = Named(x)
        BY <4>3
      <4>9. QED
        BY <4>7, <4>8 DEF Named
    <3>3. QED
      BY <3>1, <3>2
  <2>12. QED
    BY <2>1, <2>4, <2>10, <2>11 DEF PassInv, Early
<1>10. CASE FileLearned
  <2>1. /\ pc = "emit" /\ item = Count(schema, at) + 1 /\ at + 1 \in DOMAIN schema
        /\ at' = at + 1 /\ item' = 1 /\ UNCHANGED <<schema, pc, names>>
    BY <1>1, <1>10, SchemaIs DEF FileLearned
  <2>2. PICK tr : OnTrail(tr, schema, cname, reserved, claimed, ok, scope, at,
                          Count(schema, at) + 1, FirstPass)
    BY <2>1 DEF PassInv, Passes, Emitting
  <2>3. Passes(schema, cname, reserved, claimed, ok, scope, at + 1, 1, FirstPass)
    BY <1>1, <1>2, <2>1, <2>2, FilePasses
  <2>4. FirstPass' = FirstPass
    BY <2>1 DEF FirstPass, names
  <2>5. Passes(schema', cname', reserved', claimed', ok', scope', at', item', FirstPass')
    BY <2>1, <2>3, <2>4 DEF names
  <2>6. ContractsMeetPredicates'
    BY <2>1 DEF PassInv, ContractsMeetPredicates, names
  <2>7. QED
    BY <2>1, <2>5, <2>6 DEF PassInv, Early, names
<1>11. CASE AllLearned
  <2>1. /\ pc = "emit" /\ item = Count(schema, at) + 1 /\ at = Len(schema) /\ learning
        /\ learning' = FALSE /\ scope' = claimed /\ at' = 1 /\ item' = 1 /\ contracts' = {}
        /\ UNCHANGED <<schema, pc, cname, claimed, reserved, ok>>
    BY <1>1, <1>11 DEF AllLearned, RolledBack
  <2>2. PICK tr : OnTrail(tr, schema, cname, reserved, claimed, ok, scope, Len(schema),
                          Count(schema, Len(schema)) + 1, FirstPass)
    BY <2>1 DEF PassInv, Passes, Emitting
  <2>3. FirstPass /\ NeedsFirstPass(schema)
    BY <2>1 DEF FirstPass, PassInv
  <2>4. TrailTo(schema, cname, reserved, claimed, ok, tr, Len(schema), Count(schema, Len(schema)) + 1)
    BY <2>2, <2>3 DEF OnTrail
  <2>5. claimed = tr[<<1, 1>>]
    BY <2>4 DEF TrailTo
  <2>6. OnTrail(tr, schema, cname, reserved, claimed, ok, claimed, 1, 1, FALSE)
    BY <2>4, <2>5 DEF OnTrail
  <2>7. FirstPass' = FALSE
    BY <2>1, <2>3 DEF FirstPass
  <2>8. OnTrail(tr, schema', cname', reserved', claimed', ok', scope', at', item', FirstPass')
    BY <2>1, <2>6, <2>7
  <2>9. QED
    BY <2>1, <2>8 DEF PassInv, Passes, Early, ContractsMeetPredicates
<1>12. CASE FileEmitted
  BY <1>4, <1>12 DEF FileEmitted, Emitting
<1>13. CASE OpenHeader
  BY <1>4, <1>13 DEF OpenHeader, Emitting
<1>14. CASE WriteHeader
  <2>1. pc = "write" /\ item = Count(schema, at) + 1 /\ UNCHANGED <<schema, names>> /\ item' = 1
    BY <1>1, <1>14 DEF WriteHeader, Control
  <2>2. CASE at < Len(schema)
    <3>1. at' = at + 1 /\ pc' = "emit" /\ at + 1 \in DOMAIN schema
      BY <1>1, <1>14, <2>2, SchemaIs DEF WriteHeader, NextFile
    <3>2. PICK tr : OnTrail(tr, schema, cname, reserved, claimed, ok, scope, at,
                            Count(schema, at) + 1, FirstPass)
      BY <2>1 DEF PassInv, Passes, Emitting
    <3>3. Passes(schema, cname, reserved, claimed, ok, scope, at + 1, 1, FirstPass)
      BY <1>1, <1>2, <3>1, <3>2, FilePasses
    <3>4. FirstPass' = FirstPass
      BY <2>1 DEF FirstPass, names
    <3>5. Passes(schema', cname', reserved', claimed', ok', scope', at', item', FirstPass')
      BY <2>1, <3>1, <3>3, <3>4 DEF names
    <3>6. ContractsMeetPredicates'
      BY <2>1 DEF PassInv, ContractsMeetPredicates, names
    <3>7. QED
      BY <2>1, <3>1, <3>5, <3>6 DEF PassInv, Early, names
  <2>3. CASE ~(at < Len(schema))
    <3>1. pc' = "exited"
      BY <1>14, <2>3 DEF WriteHeader, NextFile, Exit
    <3>2. QED
      BY <1>4, <2>1, <3>1 DEF Emitting
  <2>4. QED
    BY <2>2, <2>3
<1>15. CASE Fails
  <2>1. pc' = "exited" /\ UNCHANGED <<schema, names>> /\ pc \notin {"exited", "helped"}
    BY <1>15 DEF Fails, Stops, Exit
  <2>2. CASE pc \in Early
    BY <1>3, <2>1, <2>2 DEF names
  <2>3. CASE pc \in Emitting
    BY <1>4, <2>1, <2>3
  <2>4. QED
    BY <2>1, <2>2, <2>3 DEF Control
<1>16. CASE UNCHANGED vars
  BY <1>16 DEF vars, PassInv, ContractsMeetPredicates, FirstPass
<1>17. QED
  BY <1>5, <1>6, <1>7, <1>8, <1>9, <1>10, <1>11, <1>12, <1>13, <1>14, <1>15, <1>16 DEF Next

(* In the text that is kept, the contract of every getter calls the        *)
(* predicate of the message it holds by the name its definition has: the   *)
(* second pass claims what the first one did, and where there is no first  *)
(* pass the message was emitted before.                                    *)
THEOREM ContractsMeet == Spec => []ContractsMeetPredicates
<1>1. Init => Control /\ NameInv /\ PassInv
  BY ControlInit, NameInit, PassInit
<1>2. Control /\ NameInv /\ PassInv /\ [Next]_vars => (Control /\ NameInv /\ PassInv)'
  BY ControlStep, NameStep, PassStep
<1>3. PassInv => ContractsMeetPredicates
  BY DEF PassInv
<1>4. QED
  BY <1>1, <1>2, <1>3, PTL DEF Spec

-----------------------------------------------------------------------------
(* What claiming makes of tidy claims: names that are taken, those for the *)
(* header fine ones or NULL.                                               *)
FineNames(names_, taken) ==
  IsSequence(names_) /\ \A k \in DOMAIN names_ : FineOrNull(names_[k]) /\ names_[k] \in taken

LEMMA FineNamesGrow ==
  ASSUME NEW q, NEW taken, FineNames(q, taken), NEW x, FineOrNull(x)
  PROVE  /\ FineNames(q, taken \cup {x})
         /\ FineNames(Append(q, x), taken \cup {x})
<1>1. /\ IsSequence(q) /\ Len(q) \in Nat /\ DOMAIN q = 1..Len(q)
  BY SequenceHasLength DEF FineNames
<1>2. FineNames(q, taken \cup {x})
  BY DEF FineNames
<1> DEFINE a == Append(q, x)
<1>3. /\ IsSequence(a) /\ Len(a) = Len(q) + 1 /\ a[Len(q) + 1] = x
      /\ \A k \in 1..Len(q) : a[k] = q[k]
  BY <1>1, AppendIs
<1> HIDE DEF a
<1>4. DOMAIN a = 1..(Len(q) + 1)
  BY <1>3, SequenceHasLength
<1>5. \A k \in DOMAIN a : k = Len(q) + 1 \/ k \in 1..Len(q)
  BY <1>1, <1>4
<1>6. FineNames(a, taken \cup {x})
  BY <1>1, <1>2, <1>3, <1>5 DEF FineNames
<1>7. QED
  BY <1>2, <1>6 DEF a

LEMMA ClaimTidy ==
  ASSUME NEW r, NEW s, NEW claims, Tidy(claims)
  PROVE  LET c == Claim(r, s, claims)
         IN  /\ FineNames(c.printed, c.scope)
             /\ IsSequence(c.got) /\ Len(c.got) = Len(claims)
             /\ \A k \in 1..Len(claims) :
                  c.got[k] \in c.scope /\ (claims[k].printed => FineOrNull(c.got[k]))
<1> DEFINE n == Len(claims)
<1>1. n \in Nat /\ DOMAIN claims = 1..n /\ \A k \in 1..n : TidyClaim(claims[k])
  BY SequenceHasLength DEF Tidy
<1>2. PICK after : Claimed(after, r, s, claims)
  BY <1>1, ClaimSteps
<1> DEFINE Gets(got, taken, m) ==
             /\ IsSequence(got) /\ Len(got) = m
             /\ \A k \in 1..m : got[k] \in taken /\ (claims[k].printed => FineOrNull(got[k]))
           Good(so, m) == FineNames(so.printed, so.scope) /\ Gets(so.got, so.scope, m)
           Odd == {m \in 0..n : ~Good(after[m], m)}
<1>3. Odd = {}
  <2> SUFFICES ASSUME Odd # {} PROVE FALSE
    OBVIOUS
  <2>1. PICK m \in Odd : \A k \in Odd : m <= k
    <3>1. Odd \in SUBSET Nat
      BY <1>1
    <3> HIDE DEF Odd
    <3>2. QED
      BY <3>1, Smallest
  <2>2. CASE m = 0
    <3>1. after[m] = Nothing(s)
      BY <1>2, <2>2 DEF Claimed
    <3>2. FineNames(<<>>, s)
      BY NoneIsSequence DEF FineNames
    <3>3. Gets(<<>>, s, 0)
      BY NoneIsSequence
    <3>4. Good(after[m], m)
      BY <2>2, <3>1, <3>2, <3>3 DEF Nothing
    <3>5. QED
      BY <2>1, <3>4
  <2>3. CASE m # 0
    <3> DEFINE so == after[m - 1]
               c == claims[m]
               x == IF c.public THEN Mangle(so.scope, c.raw) ELSE Avoiding(r, so.scope, c.raw)
    <3>1. m - 1 \in 0..n /\ ~(m <= m - 1) /\ m \in 1..n /\ m \in Nat
      BY <1>1, <2>1, <2>3
    <3>2. Good(so, m - 1)
      BY <2>1, <3>1
    <3>3. after[m] = ClaimOne(r, so, c)
      BY <1>2, <3>1 DEF Claimed
    <3>4. /\ after[m].scope = so.scope \cup {x} /\ after[m].got = Append(so.got, x)
          /\ after[m].printed = IF c.printed THEN Append(so.printed, x) ELSE so.printed
      BY <3>3 DEF ClaimOne
    <3>5. c.printed => FineOrNull(x)
      BY <1>1, <3>1, MangleFine DEF TidyClaim
    <3>6. FineNames(after[m].printed, after[m].scope)
      <4>1. CASE c.printed
        <5> HIDE DEF so, x, c
        <5>1. QED
          BY <3>2, <3>4, <3>5, <4>1, FineNamesGrow
      <4>2. CASE ~c.printed
        <5> HIDE DEF so, x, c
        <5>1. FineNames(so.printed, so.scope \cup {x})
          BY <3>2 DEF FineNames
        <5>2. QED
          BY <3>4, <4>2, <5>1
      <4>3. QED
        BY <4>1, <4>2
    <3>7. Gets(after[m].got, after[m].scope, m)
      <4> DEFINE old == so.got
                 taken == so.scope
                 new == Append(old, x)
      <4>1. Gets(old, taken, m - 1)
        BY <3>2
      <4> HIDE DEF so, x
      <4>2. IsSequence(new) /\ Len(new) = (m - 1) + 1 /\ new[(m - 1) + 1] = x
            /\ \A k \in 1..(m - 1) : new[k] = old[k]
        BY <4>1, AppendIs
      <4> HIDE DEF new
      <4>3. (m - 1) + 1 = m /\ \A k \in 1..m : k = m \/ k \in 1..(m - 1)
        BY <3>1
      <4>4. Gets(new, taken \cup {x}, m)
        BY <3>5, <4>1, <4>2, <4>3
      <4>5. QED
        BY <3>4, <4>4 DEF new
    <3>8. QED
      BY <2>1, <3>6, <3>7
  <2>4. QED
    BY <2>2, <2>3
<1>4. Good(after[n], n)
  BY <1>1, <1>3
<1>5. Claim(r, s, claims) = after[n]
  BY <1>2 DEF Claimed
<1>6. QED
  BY <1>4, <1>5

(* A type's own name is taken twice where the first is like the runtime's: *)
(* the second has a number.                                                *)
LEMMA TypeNameFine ==
  ASSUME NEW r, NEW s, NEW d, IsName(d.name), NEW c, c = Claim(r, s, TypeClaims(s, d)),
         ~Refused(c.scope)
  PROVE  Fine(Last(c.got))
<1> DEFINE j == FlatJoin(d)
           claims == TypeClaims(s, d)
           x == Mangle(s, j.raw)
           y == Mangle(s \cup {x}, j.raw)
<1>1. IsSequence(j.raw) /\ j.raw # <<>> /\ j.public /\ j.printed
  BY JoinedName DEF IsName, FlatJoin, Public
<1>2. claims = IF x # <<>> /\ Runtime(x) /\ ~Numbered(x) THEN <<j, j>> ELSE <<j>>
  BY DEF TypeClaims
<1> HIDE DEF claims, x, y, j
<1>3. Len(claims) \in Nat /\ 1 \in 1..Len(claims) /\ claims[1] = j
  BY <1>2
<1>4. PICK after : Claimed(after, r, s, claims)
  BY <1>3, ClaimSteps
<1>5. after[0] = Nothing(s) /\ after[1] = ClaimOne(r, after[0], claims[1])
      /\ c = after[Len(claims)]
  BY <1>3, <1>4 DEF Claimed, claims
<1>6. after[1].scope = s \cup {x} /\ after[1].got = <<x>>
  BY <1>1, <1>3, <1>5 DEF ClaimOne, Nothing, x
<1>7. IsSequence(x) /\ (x = <<>> \/ x = CSafe(j.raw) \/ Numbered(x))
  BY <1>1, MangleIs, MangleIsSequence DEF x
<1>8. CASE claims = <<j>>
  <2>1. c.scope = s \cup {x} /\ c.got = <<x>>
    BY <1>5, <1>6, <1>8
  <2>2. Last(c.got) = x /\ x # <<>>
    BY <2>1 DEF Last, Refused
  <2>3. ~(Runtime(x) /\ ~Numbered(x))
    <3>1. <<j>> # <<j, j>>
      OBVIOUS
    <3>2. QED
      BY <1>2, <1>8, <2>2, <3>1
  <2>4. QED
    BY <1>7, <2>2, <2>3 DEF Fine
<1>9. CASE claims = <<j, j>>
  <2>1. 2 \in 1..Len(claims) /\ Len(claims) = 2 /\ claims[2] = j /\ 2 - 1 = 1
    BY <1>9
  <2>2. after[2] = ClaimOne(r, after[1], claims[2])
    BY <1>4, <2>1 DEF Claimed
  <2>3. c.scope = s \cup {x} \cup {y} /\ c.got = Append(<<x>>, y)
    BY <1>1, <1>5, <1>6, <2>1, <2>2 DEF ClaimOne, y
  <2>4. Last(c.got) = y
    BY <2>3 DEF Last
  <2>5. y # <<>> /\ x # <<>>
    BY <2>3 DEF Refused
  <2>6. Runtime(x) /\ ~Numbered(x)
    <3>1. <<j>> # <<j, j>>
      OBVIOUS
    <3>2. QED
      BY <1>2, <1>9, <3>1
  <2>7. x = CSafe(j.raw)
    BY <1>7, <2>5, <2>6
  <2>8. IsSequence(y) /\ Numbered(y)
    <3>1. y = <<>> \/ (y = CSafe(j.raw) /\ CSafe(j.raw) \notin s \cup {x}) \/ Numbered(y)
      BY <1>1, MangleIs DEF y
    <3>2. IsSequence(y)
      BY <1>1, MangleIsSequence DEF y
    <3>3. QED
      BY <2>5, <2>7, <3>1, <3>2
  <2>9. QED
    BY <2>4, <2>5, <2>8 DEF Fine
<1>10. QED
  BY <1>2, <1>8, <1>9

ThirdIs(q, c) == IsSequence(q) /\ 3 \in 1..Len(q) /\ q[3] = c

LEMMA ThirdStays ==
  ASSUME NEW a, NEW b, NEW c, ThirdIs(a, c), IsSequence(b)
  PROVE  ThirdIs(a \o b, c)
<1>1. /\ IsSequence(a \o b) /\ Len(a) \in Nat /\ Len(b) \in Nat /\ Len(a \o b) = Len(a) + Len(b)
      /\ \A k \in 1..(Len(a) + Len(b)) : (a \o b)[k] = IF k <= Len(a) THEN a[k] ELSE b[k - Len(a)]
  BY JoinIs, JoinIsSequence DEF ThirdIs
<1>2. 3 \in 1..(Len(a) + Len(b)) /\ 3 <= Len(a) /\ a[3] = c
  BY <1>1 DEF ThirdIs
<1>3. QED
  BY <1>1, <1>2 DEF ThirdIs

LEMMA TidyMessage ==
  ASSUME NEW r, NEW s, NEW t, Fine(t), NEW fields, WordFields(fields), NEW planned, NEW elem
  PROVE  LET claims == MessageClaims(r, s, t, fields, planned, elem)
         IN  Tidy(claims) /\ 3 \in 1..Len(claims) /\ claims[3].printed
<1> DEFINE n == ReaderName(r, s, t)
           a == MainNames(t)
           b == <<Public(Append(n, "init"))>>
           c == Predicates(fields, n)
           d == OfFields(fields, t, n)
           e == IteratorPredicates(fields, n)
           f == WriteSide(fields, t, planned, elem)
           third == a[3]
<1>1. Tidy(a) /\ Len(a) = 3 /\ third.printed
  BY TidyMain
<1>2. FineOrNull(n)
  <2> HIDE DEF a
  <2>1. 3 \in 1..Len(a) /\ a[3].printed
    BY <1>1
  <2>2. FineOrNull(Claim(r, s, a).got[3])
    BY <1>1, <2>1, ClaimTidy
  <2>3. QED
    BY <2>2 DEF ReaderName, a
<1>3. IsList(fields)
  BY DEF WordFields
<1>4. Tidy(b)
  BY <1>2, AppendFine, TidyOne
<1>5. Tidy(c) /\ Tidy(d) /\ Tidy(e) /\ Tidy(f)
  BY <1>2, <1>3, TidyPredicates, TidyOfFields, TidyIterators, TidyWriteSide
<1>6. MessageClaims(r, s, t, fields, planned, elem) = a \o b \o c \o d \o e \o f
  BY DEF MessageClaims
<1> HIDE DEF a, b, c, d, e, f
<1>7. Tidy(a \o b \o c \o d \o e \o f)
  BY <1>1, <1>4, <1>5, TidyJoin
<1>8. ThirdIs(a \o b \o c \o d \o e \o f, third)
  <2>1. ThirdIs(a, third)
    BY <1>1 DEF ThirdIs, Tidy
  <2>2. IsSequence(b) /\ IsSequence(c) /\ IsSequence(d) /\ IsSequence(e) /\ IsSequence(f)
    BY <1>4, <1>5 DEF Tidy
  <2>3. QED
    BY <2>1, <2>2, ThirdStays
<1>9. QED
  BY <1>1, <1>6, <1>7, <1>8 DEF ThirdIs

(* Names a header defines. *)
AllFine(q) == IsSequence(q) /\ \A k \in DOMAIN q : Fine(q[k])

LEMMA AllFineJoin ==
  ASSUME NEW a, NEW b, AllFine(a), AllFine(b)
  PROVE  AllFine(a \o b)
<1>1. IsSequence(a) /\ IsSequence(b) /\ IsSequence(a \o b)
  BY JoinIsSequence DEF AllFine
<1>2. ASSUME NEW j \in DOMAIN (a \o b) PROVE Fine((a \o b)[j])
  BY <1>1, JoinElements DEF AllFine, ElementOf
<1>3. QED
  BY <1>1, <1>2 DEF AllFine

LEMMA AllFineOne ==
  ASSUME NEW n, Fine(n)
  PROVE  AllFine(<<n>>)
<1>1. IsSequence(<<n>>)
  BY OneIsSequence
<1>2. \A k \in DOMAIN <<n>> : <<n>>[k] = n
  OBVIOUS
<1>3. QED
  BY <1>1, <1>2 DEF AllFine

LEMMA UnclaimedFine ==
  ASSUME NEW fields, WordFields(fields), NEW t, Fine(t), NEW r, Fine(r)
  PROVE  AllFine(Unclaimed(fields, t, r))
<1> DEFINE iter(k) == [i \in 1..4 |-> Append(r \o Members(fields)[k],
                                            <<"iter", "count", "begin", "next">>[i])]
           q == [k \in DOMAIN fields |-> IF Counted(fields[k]) THEN iter(k) ELSE <<>>]
           x == t \o <<"cached", "size">>
           y == t \o <<"encode", "at">>
           own == <<t, x, y>>
<1>1. ASSUME NEW k \in DOMAIN fields
      PROVE  AllFine(iter(k))
  <2>1. IsSequence(Members(fields)[k])
    BY MembersAre
  <2>2. Fine(r \o Members(fields)[k])
    BY <2>1, JoinFine
  <2> DEFINE n == r \o Members(fields)[k]
             w == <<"iter", "count", "begin", "next">>
             l == [i \in 1..4 |-> Append(n, w[i])]
  <2>3. \A i \in 1..4 : w[i] \notin {"gremlin", "GREMLIN"}
    OBVIOUS
  <2> HIDE DEF w
  <2>4. l = iter(k)
    BY DEF w
  <2> HIDE DEF n
  <2>5. \A i \in 1..4 : l[i] = Append(n, w[i]) /\ Fine(l[i])
    BY <2>2, <2>3, AppendFine DEF n, FineOrNull
  <2>6. l = [i \in 1..4 |-> l[i]] /\ 4 \in Nat
    OBVIOUS
  <2> HIDE DEF l
  <2>7. IsSequence(l) /\ DOMAIN l = 1..4
    BY <2>6, ListIsSequence
  <2>8. AllFine(l)
    BY <2>5, <2>7 DEF AllFine
  <2>9. QED
    BY <2>4, <2>8
<1>2. AllFine(own)
  <2>1. IsSequence(<<"cached", "size">>) /\ IsSequence(<<"encode", "at">>)
    <3>1. <<"cached", "size">> \in Seq({"cached", "size"})
      OBVIOUS
    <3>2. <<"encode", "at">> \in Seq({"encode", "at"})
      OBVIOUS
    <3>3. QED
      BY <3>1, <3>2 DEF IsSequence
  <2>2. Fine(x) /\ Fine(y)
    BY <2>1, JoinFine
  <2> HIDE DEF x, y
  <2>3. <<t, x, y>> \in Seq({t, x, y})
    OBVIOUS
  <2>4. \A k \in DOMAIN <<t, x, y>> : <<t, x, y>>[k] \in {t, x, y}
    OBVIOUS
  <2>5. QED
    BY <2>2, <2>3, <2>4 DEF AllFine, IsSequence
<1>3. Unclaimed(fields, t, r) = own \o FlattenSeq(q)
  BY DEF Unclaimed, PerField
<1> HIDE DEF iter, own
<1>4. IsList(fields) /\ \A k \in DOMAIN fields : AllFine(q[k])
  BY <1>1, NoneIsSequence DEF WordFields, AllFine
<1>5. IsSequence(FlattenSeq(q)) /\ MadeOf(FlattenSeq(q), q, Len(fields))
  <2> DEFINE n == Len(fields)
  <2>1. n \in Nat /\ DOMAIN fields = 1..n
    BY <1>4 DEF IsList
  <2> HIDE DEF n
  <2>2. q = [k \in 1..n |-> q[k]]
    BY <2>1
  <2> HIDE DEF q
  <2>3. IsSequence(q) /\ Len(q) = n /\ DOMAIN q = 1..n
    BY <2>1, <2>2, ListIsSequence
  <2>4. \A k \in 1..n : IsSequence(q[k])
    BY <1>4, <2>1 DEF AllFine
  <2>5. IsSequence(FlattenSeq(q)) /\ MadeOf(FlattenSeq(q), q, n)
    BY <2>1, <2>3, <2>4, FlattenIsSequence
  <2>6. QED
    BY <2>5 DEF n
<1>6. DOMAIN fields = 1..Len(fields)
  BY <1>4 DEF IsList
<1>7. AllFine(FlattenSeq(q))
  <2> HIDE DEF q
  <2>1. QED
    BY <1>4, <1>5, <1>6 DEF MadeOf, ElementOf, AllFine
<1>8. QED
  BY <1>2, <1>3, <1>7, AllFineJoin

-----------------------------------------------------------------------------
(* What a type claims, for a type of the schemas. *)
LEMMA DeclIs ==
  ASSUME NEW s \in Schemas, NEW t \in AllTypes(s)
  PROVE  /\ IsName(Decl(s, t).name)
         /\ t.kind = "enum" => Decl(s, t).values \in Seq(Seq(STRING))
         /\ t.kind = "message" => WordFields(Fields(s, t))
         /\ t.kind \in {"enum", "message"}
<1>1. /\ t.file \in DOMAIN s /\ t = [kind |-> t.kind, file |-> t.file, at |-> t.at]
      /\ \E k \in 1..Count(s, t.file) : ItemsOf(s, t.file)[k] = t
  BY TypeIsItem
<1>2. t.kind \in {"enum", "message"}
  BY <1>1, ItemIsType
<1>3. CASE t.kind = "enum"
  <2>1. t.at \in DOMAIN s[t.file].enums
    BY <1>3, EnumTypeAt
  <2>2. Decl(s, t) = s[t.file].enums[t.at]
    BY <1>3 DEF Decl
  <2>3. QED
    BY <1>1, <1>3, <2>1, <2>2, SchemasAssumption
<1>4. CASE t.kind = "message"
  <2>1. t.at \in DOMAIN s[t.file].messages
    BY <1>1, <1>4, TypeIsItem, MessagesAre
  <2>2. Decl(s, t) = s[t.file].messages[t.at] /\ Fields(s, t) = s[t.file].messages[t.at].fields
    BY <1>4 DEF Decl, Fields
  <2>3. QED
    BY <1>1, <1>4, <2>1, <2>2, SchemasAssumption DEF WordFields
<1>5. QED
  BY <1>2, <1>3, <1>4

LEMMA TidyItem ==
  ASSUME NEW s \in Schemas, NEW t \in AllTypes(s), NEW c, Fine(c[t]), NEW r, NEW taken
  PROVE  LET claims == ItemClaims(s, c, r, taken, t)
         IN  /\ Tidy(claims)
             /\ t.kind = "message" => 3 \in 1..Len(claims) /\ claims[3].printed
<1>1. CASE t.kind = "enum"
  <2> DEFINE v == Decl(s, t).values
             n == c[t]
  <2>1. v \in Seq(Seq(STRING))
    BY <1>1, DeclIs
  <2> HIDE DEF v, n
  <2>2. Len(v) \in Nat /\ DOMAIN v = 1..Len(v) /\ \A k \in 1..Len(v) : IsSequence(v[k])
    BY <2>1, LenProperties, ElementOfSeq DEF IsSequence
  <2>3. \A k \in 1..Len(v) : Fine(n \o v[k])
    BY <2>2, JoinFine DEF n
  <2> DEFINE q == ValueClaims(n, v)
  <2>4. q = [k \in 1..Len(v) |-> q[k]] /\ \A k \in 1..Len(v) : q[k] = Public(n \o v[k])
    BY <2>2 DEF ValueClaims
  <2> HIDE DEF q
  <2>5. IsSequence(q) /\ DOMAIN q = 1..Len(v)
    BY <2>2, <2>4, ListIsSequence
  <2>6. \A k \in 1..Len(v) : TidyClaim(q[k])
    <3>1. \A x : Fine(x) => TidyClaim(Public(x))
      BY DEF TidyClaim, Public
    <3>2. QED
      BY <2>3, <2>4, <3>1
  <2>7. Tidy(q)
    BY <2>5, <2>6 DEF Tidy
  <2>8. ItemClaims(s, c, r, taken, t) = q
    BY <1>1 DEF ItemClaims, q, n, v
  <2>9. QED
    BY <1>1, <2>7, <2>8
<1>2. CASE t.kind = "message"
  <2>1. WordFields(Fields(s, t))
    BY <1>2, DeclIs
  <2>2. ItemClaims(s, c, r, taken, t)
          = MessageClaims(r, taken, c[t], Fields(s, t), Planned(s, t), Element(s, t))
    BY <1>2 DEF ItemClaims
  <2>3. QED
    BY <2>1, <2>2, TidyMessage
<1>3. QED
  BY <1>1, <1>2, DeclIs

FineInv == (\A t \in DOMAIN cname : Fine(cname[t])) /\ AllFine(printed)

LEMMA FineStep == Control /\ NameInv /\ FineInv /\ [Next]_vars => FineInv'
<1> SUFFICES ASSUME Control, NameInv, FineInv, [Next]_vars PROVE FineInv'
  OBVIOUS
<1>1. /\ schema \in Schemas /\ at \in DOMAIN schema /\ Count(schema, at) \in Nat
      /\ item \in 1..(Count(schema, at) + 1)
      /\ Len(Types(schema, at)) = Count(schema, at) /\ Len(Items) = Count(schema, at)
  BY TypesAre DEF Control, Items
<1>2. CASE UNCHANGED <<cname, printed>>
  BY <1>2 DEF FineInv
<1>3. CASE AssignCName
  <2> DEFINE t == Types(schema, at)[item]
             c == Claim(reserved, scope, TypeClaims(scope, Decl(schema, t)))
  <2>1. /\ ~Refused(c.scope) /\ cname' = Put(cname, t, Last(c.got)) /\ printed' = printed
        /\ item \in 1..Count(schema, at)
    BY <1>1, <1>3 DEF AssignCName
  <2>2. t \in AllTypes(schema)
    BY <1>1, <2>1, AllTypesAre
  <2>3. IsName(Decl(schema, t).name)
    BY <1>1, <2>2, DeclIs
  <2>4. Fine(Last(c.got))
    BY <2>1, <2>3, TypeNameFine
  <2> HIDE DEF t, c
  <2>5. /\ DOMAIN cname' = {t} \cup DOMAIN cname
        /\ \A u \in DOMAIN cname' : cname'[u] = IF u = t THEN Last(c.got) ELSE cname[u]
    BY <2>1 DEF Put
  <2>6. QED
    BY <2>1, <2>4, <2>5 DEF FineInv
<1>4. CASE EmitEnum \/ EmitMessage
  <2> DEFINE m == Items[item]
             q == Claims(scope, m)
             c == Claim(reserved, scope, q)
             rest == IF m.kind = "enum" THEN <<cname[m]>>
                     ELSE Unclaimed(Fields(schema, m), cname[m], c.got[3])
  <2>1. pc = "emit" /\ item \in 1..Count(schema, at) /\ Emit(m)
    BY <1>1, <1>4 DEF EmitEnum, EmitMessage
  <2>2. m \in AllTypes(schema)
    BY <1>1, <2>1, ItemIsType DEF Items
  <2>3. Fine(cname[m])
    BY <2>1, <2>2 DEF NameInv, FineInv, Emitting
  <2>4. ~Refused(c.scope) /\ printed' = printed \o c.printed \o rest /\ cname' = cname
    BY <2>1 DEF Emit
  <2>5. Tidy(q) /\ (m.kind = "message" => 3 \in 1..Len(q) /\ q[3].printed)
    BY <1>1, <2>2, <2>3, TidyItem DEF Claims
  <2>6. m.kind = "message" => WordFields(Fields(schema, m))
    BY <1>1, <2>2, DeclIs
  <2>7. m.kind \in {"enum", "message"}
    BY <1>1, <2>2, DeclIs
  <2> HIDE DEF q
  <2>8. /\ FineNames(c.printed, c.scope)
        /\ m.kind = "message" => c.got[3] \in c.scope /\ FineOrNull(c.got[3])
    BY <2>5, ClaimTidy
  <2> HIDE DEF c
  <2>9. \A n : FineOrNull(n) /\ n \in c.scope => Fine(n)
    BY <2>4 DEF Refused, FineOrNull
  <2>10. AllFine(c.printed)
    BY <2>8, <2>9 DEF FineNames, AllFine
  <2>11. AllFine(rest)
    <3>1. CASE m.kind = "enum"
      BY <2>3, <3>1, AllFineOne
    <3>2. CASE m.kind = "message"
      <4>1. Fine(c.got[3])
        BY <2>8, <2>9, <3>2
      <4>2. AllFine(Unclaimed(Fields(schema, m), cname[m], c.got[3]))
        BY <2>3, <2>6, <3>2, <4>1, UnclaimedFine
      <4>3. m.kind # "enum"
        BY <3>2
      <4>4. QED
        BY <4>2, <4>3
    <3>3. QED
      BY <2>7, <3>1, <3>2
  <2> HIDE DEF rest, m
  <2>12. AllFine(printed \o c.printed \o rest)
    BY <2>10, <2>11, AllFineJoin DEF FineInv
  <2>13. QED
    BY <2>4, <2>12 DEF FineInv
<1>5. CASE AllLearned
  <2>1. cname' = cname /\ printed' = <<>>
    BY <1>5 DEF AllLearned
  <2>2. AllFine(<<>>)
    BY NoneIsSequence DEF AllFine
  <2>3. QED
    BY <2>1, <2>2 DEF FineInv
<1>6. CASE \/ ParseArgs \/ LoadSource \/ Analyse \/ FileNamed \/ ReservePublicNames \/ Prepare
           \/ FileLearned \/ FileEmitted \/ OpenHeader \/ WriteHeader \/ Fails \/ UNCHANGED vars
  BY <1>2, <1>6 DEF ParseArgs, LoadSource, Analyse, FileNamed, ReservePublicNames, Prepare,
     FileLearned, FileEmitted, OpenHeader, WriteHeader, Fails, names, vars
<1>7. QED
  BY <1>3, <1>4, <1>5, <1>6 DEF Next

(* Whatever the files declare, no function, type or constant of a header   *)
(* has a name that gremlin.h could have: such names have a number.         *)
THEOREM NothingLikeRuntime == Spec => []NoRuntimeNames
<1>1. Init => FineInv
  <2>1. AllFine(<<>>)
    BY NoneIsSequence DEF AllFine
  <2>2. QED
    BY <2>1 DEF Init, FineInv
<1>2. FineInv => NoRuntimeNames
  BY DEF FineInv, AllFine, Fine, NoRuntimeNames
<1>3. Control /\ NameInv /\ FineInv /\ [Next]_vars => FineInv'
  BY FineStep
<1>4. QED
  BY <1>1, <1>2, <1>3, NamesHold, PTL DEF Spec
=============================================================================
