-------------------------- MODULE TextEntryProofs --------------------------
(***************************************************************************)
(* What is read off texts of any length: phone numbers for any country     *)
(* code, access codes of any length.  The string methods are worked out by *)
(* the positions they keep.                                                *)
(***************************************************************************)
EXTENDS PhoneEntry, CodeEntry, FiniteSetTheorems, SequenceTheorems, WellFoundedInduction,
        TLAPS

-----------------------------------------------------------------------------
(* First and last positions *)

\* Of any family of subsets of a finite set, one has no other in it: this is
\* induction over finite sets.
LEMMA SmallestSet ==
    ASSUME NEW S, IsFiniteSet(S), NEW family, family \subseteq SUBSET S, family # {}
    PROVE  \E T \in family : \A U \in family : U \subseteq T => U = T
<1>1. IsWellFoundedOn(StrictSubsetOrdering(S), SUBSET S)
  BY FS_StrictSubsetOrderingWellFounded, FS_FiniteSubsetsOfFinite
<1>2. PICK T \in family : \A U \in family : ~ (<<U, T>> \in StrictSubsetOrdering(S))
  BY <1>1, WFMin
<1>3. QED
  BY <1>2 DEF StrictSubsetOrdering

\* Some positions have a first one.
LEMMA FirstOne ==
    ASSUME NEW n \in Nat, NEW I, I \subseteq 1..n, I # {}
    PROVE  Min(I) \in I /\ \A i \in I : Min(I) <= i
<1> DEFINE all == 1..n
           family == {1..i : i \in I}
<1>1. PICK T \in family : \A U \in family : U \subseteq T => U = T
  <2>1. \A i \in I : 1..i \in SUBSET all
    OBVIOUS
  <2>2. IsFiniteSet(all)
    BY FS_Interval
  <2> HIDE DEF all
  <2>3. family \subseteq SUBSET all /\ family # {}
    BY <2>1
  <2> HIDE DEF family
  <2>4. QED
    BY <2>2, <2>3, SmallestSet
<1>2. PICK m \in I : T = 1..m
  OBVIOUS
<1>3. ASSUME NEW i \in I
      PROVE  m <= i
  <2>1. m \in 1..n /\ i \in 1..n /\ 1..i \in family
    OBVIOUS
  <2>2. 1..i \subseteq 1..m => 1..i = 1..m
    BY <1>1, <1>2, <2>1
  <2>3. QED
    BY <2>1, <2>2
<1>4. QED
  BY <1>3 DEF Min

\* And a last one.
LEMMA LastOne ==
    ASSUME NEW n \in Nat, NEW I, I \subseteq 1..n, I # {}
    PROVE  Max(I) \in I /\ \A i \in I : Max(I) >= i
<1> DEFINE all == 1..n
           family == {i..n : i \in I}
<1>1. PICK T \in family : \A U \in family : U \subseteq T => U = T
  <2>1. \A i \in I : i..n \in SUBSET all
    OBVIOUS
  <2>2. IsFiniteSet(all)
    BY FS_Interval
  <2> HIDE DEF all
  <2>3. family \subseteq SUBSET all /\ family # {}
    BY <2>1
  <2> HIDE DEF family
  <2>4. QED
    BY <2>2, <2>3, SmallestSet
<1>2. PICK m \in I : T = m..n
  OBVIOUS
<1>3. ASSUME NEW i \in I
      PROVE  m >= i
  <2>1. m \in 1..n /\ i \in 1..n /\ i..n \in family
    OBVIOUS
  <2>2. i..n \subseteq m..n => i..n = m..n
    BY <1>1, <1>2, <2>1
  <2>3. QED
    BY <2>1, <2>2
<1>4. QED
  BY <1>3 DEF Max

-----------------------------------------------------------------------------
(* What stripping leaves *)

\* A part of a text, from behind p up to q.
LEMMA PartOf ==
    ASSUME NEW S, NEW s \in Seq(S), NEW p \in 0..Len(s), NEW q \in p..Len(s)
    PROVE  /\ SubSeq(s, p + 1, q) \in Seq(S)
           /\ Len(SubSeq(s, p + 1, q)) = q - p
           /\ \A i \in 1..(q - p) : SubSeq(s, p + 1, q)[i] = s[p + i]
           /\ p = q => SubSeq(s, p + 1, q) = <<>>
<1>1. \A i \in p + 1..q : s[i] \in S
  BY ElementOfSeq
<1>2. QED
  BY <1>1, SubSeqProperties, SubSeqEmpty

\* A part of a part.
LEMMA PartOfPart ==
    ASSUME NEW S, NEW s \in Seq(S), NEW p \in 0..Len(s), NEW q \in p..Len(s),
           NEW a \in 0..(q - p), NEW b \in a..(q - p)
    PROVE  SubSeq(SubSeq(s, p + 1, q), a + 1, b) = SubSeq(s, p + a + 1, p + b)
<1> DEFINE t == SubSeq(s, p + 1, q)
           u == SubSeq(t, a + 1, b)
           v == SubSeq(s, p + a + 1, p + b)
<1>1. t \in Seq(S) /\ Len(t) = q - p /\ \A i \in 1..(q - p) : t[i] = s[p + i]
  BY PartOf
<1>2. u \in Seq(S) /\ Len(u) = b - a /\ \A i \in 1..(b - a) : u[i] = t[a + i]
  <2> HIDE DEF t
  <2>1. QED
    BY <1>1, PartOf
<1>3. v \in Seq(S) /\ Len(v) = b - a /\ \A i \in 1..(b - a) : v[i] = s[p + a + i]
  <2>1. p + a \in 0..Len(s) /\ p + b \in (p + a)..Len(s) /\ (p + b) - (p + a) = b - a
    OBVIOUS
  <2>2. QED
    BY <2>1, PartOf
<1>4. \A i \in 1..(b - a) : u[i] = v[i]
  <2> HIDE DEF t, u, v
  <2>1. QED
    BY <1>1, <1>2, <1>3
<1>5. QED
  <2> HIDE DEF t, u, v
  <2>1. u = v
    BY <1>2, <1>3, <1>4, SeqEqual
  <2>2. QED
    BY <2>1 DEF u, v, t

\* On the left.
LEMMA LStripCuts ==
    ASSUME NEW S, NEW s \in Seq(S), NEW chars
    PROVE  \E a \in 0..Len(s) :
              /\ LStrip(s, chars) = SubSeq(s, a + 1, Len(s))
              /\ \A i \in 1..a : s[i] \in chars
              /\ a < Len(s) => s[a + 1] \notin chars
<1> DEFINE I == {i \in 1..Len(s) : s[i] \notin chars}
<1>1. SelectInSeq(s, LAMBDA c : c \notin chars) = IF I # {} THEN Min(I) ELSE 0
  BY DEF SelectInSeq
<1>2. CASE I = {}
  <2>1. LStrip(s, chars) = <<>>
    BY <1>1, <1>2 DEF LStrip
  <2>2. \A i \in 1..Len(s) : s[i] \in chars
    BY <1>2
  <2>3. SubSeq(s, Len(s) + 1, Len(s)) = <<>>
    BY PartOf
  <2>4. QED
    BY <2>1, <2>2, <2>3
<1>3. CASE I # {}
  <2> DEFINE m == Min(I)
  <2>1. m \in I /\ \A i \in I : m <= i
    <3>1. I \subseteq 1..Len(s) /\ Len(s) \in Nat
      OBVIOUS
    <3> HIDE DEF I
    <3>2. QED
      BY <1>3, <3>1, FirstOne
  <2>2. LStrip(s, chars) = SubSeq(s, m, Len(s))
    <3>1. SelectInSeq(s, LAMBDA c : c \notin chars) = m /\ m # 0
      BY <1>1, <1>3, <2>1
    <3>2. QED
      BY <3>1 DEF LStrip
  <2>3. m \in 1..Len(s) /\ s[m] \notin chars /\ \A i \in 1..(m - 1) : s[i] \in chars
    <3>1. m \in 1..Len(s) /\ s[m] \notin chars
      BY <2>1
    <3>2. \A i \in 1..Len(s) : s[i] \notin chars => m <= i
      BY <2>1
    <3> HIDE DEF m
    <3>3. QED
      BY <3>1, <3>2
  <2> HIDE DEF m
  <2>4. m - 1 \in 0..Len(s) /\ (m - 1) + 1 = m
    BY <2>3
  <2>5. QED
    BY <2>2, <2>3, <2>4
<1>4. QED
  BY <1>2, <1>3

\* On the right.
LEMMA StripBegins ==
    ASSUME NEW S, NEW s \in Seq(S), NEW chars
    PROVE  \E b \in 0..Len(s) :
              /\ Strip(s, chars) = LStrip(SubSeq(s, 1, b), chars)
              /\ \A i \in b + 1..Len(s) : s[i] \in chars
              /\ 0 < b => s[b] \notin chars
<1> DEFINE I == {i \in 1..Len(s) : s[i] \notin chars}
<1>1. SelectLastInSeq(s, LAMBDA c : c \notin chars) = IF I # {} THEN Max(I) ELSE 0
  BY DEF SelectLastInSeq
<1>2. CASE I = {}
  <2>1. \A i \in 0 + 1..Len(s) : s[i] \in chars
    BY <1>2
  <2>2. Strip(s, chars) = LStrip(SubSeq(s, 1, 0), chars)
    BY <1>1, <1>2 DEF Strip
  <2>3. QED
    BY <2>1, <2>2
<1>3. CASE I # {}
  <2> DEFINE m == Max(I)
  <2>1. m \in I /\ \A i \in I : m >= i
    <3>1. I \subseteq 1..Len(s) /\ Len(s) \in Nat
      OBVIOUS
    <3> HIDE DEF I
    <3>2. QED
      BY <1>3, <3>1, LastOne
  <2>2. m \in 1..Len(s) /\ s[m] \notin chars
    BY <2>1
  <2>3. \A i \in m + 1..Len(s) : s[i] \in chars
    <3>1. \A i \in 1..Len(s) : s[i] \notin chars => m >= i
      BY <2>1
    <3> HIDE DEF m
    <3>2. QED
      BY <2>2, <3>1
  <2>4. Strip(s, chars) = LStrip(SubSeq(s, 1, m), chars)
    BY <1>1, <1>3 DEF Strip
  <2> HIDE DEF m
  <2>5. QED
    BY <2>2, <2>3, <2>4
<1>4. QED
  BY <1>2, <1>3

\* Of s between p and q, what is between a and b remains.
Cut(s, chars, p, q, a, b) ==
    /\ p <= a /\ a <= b /\ b <= q
    /\ \A i \in p + 1..a : s[i] \in chars
    /\ \A i \in b + 1..q : s[i] \in chars
    /\ a < b => s[a + 1] \notin chars /\ s[b] \notin chars

\* On both sides.
LEMMA WholeCuts ==
    ASSUME NEW S, NEW s \in Seq(S), NEW chars
    PROVE  \E a, b \in 0..Len(s) :
              Cut(s, chars, 0, Len(s), a, b) /\ Strip(s, chars) = SubSeq(s, a + 1, b)
<1>1. PICK b \in 0..Len(s) :
         /\ Strip(s, chars) = LStrip(SubSeq(s, 1, b), chars)
         /\ \A i \in b + 1..Len(s) : s[i] \in chars
         /\ 0 < b => s[b] \notin chars
  BY StripBegins
<1> DEFINE t == SubSeq(s, 1, b)
<1>2. t \in Seq(S) /\ Len(t) = b /\ \A i \in 1..b : t[i] = s[i]
  BY PartOf
<1>3. Strip(s, chars) = LStrip(t, chars)
  BY <1>1
<1>4. PICK a \in 0..b :
         /\ LStrip(t, chars) = SubSeq(t, a + 1, b)
         /\ \A i \in 1..a : t[i] \in chars
         /\ a < b => t[a + 1] \notin chars
  <2> HIDE DEF t
  <2>1. QED
    BY <1>2, LStripCuts
<1>5. SubSeq(t, a + 1, b) = SubSeq(s, a + 1, b)
  BY PartOfPart
<1>6. Cut(s, chars, 0, Len(s), a, b)
  <2> HIDE DEF t
  <2>1. QED
    BY <1>1, <1>2, <1>4 DEF Cut
<1>7. QED
  BY <1>3, <1>4, <1>5, <1>6

\* Of a part of a text.
LEMMA StripCuts ==
    ASSUME NEW S, NEW s \in Seq(S), NEW chars, NEW p \in 0..Len(s), NEW q \in p..Len(s)
    PROVE  \E a, b \in 0..Len(s) :
              /\ Cut(s, chars, p, q, a, b)
              /\ Strip(SubSeq(s, p + 1, q), chars) = SubSeq(s, a + 1, b)
<1> DEFINE t == SubSeq(s, p + 1, q)
<1>1. t \in Seq(S) /\ Len(t) = q - p /\ \A i \in 1..(q - p) : t[i] = s[p + i]
  BY PartOf
<1>2. PICK c, d \in 0..(q - p) :
         Cut(t, chars, 0, q - p, c, d) /\ Strip(t, chars) = SubSeq(t, c + 1, d)
  <2> HIDE DEF t
  <2>1. QED
    BY <1>1, WholeCuts
<1>3. SubSeq(t, c + 1, d) = SubSeq(s, p + c + 1, p + d)
  BY <1>2, PartOfPart DEF Cut
<1>4. Cut(s, chars, p, q, p + c, p + d)
  <2> HIDE DEF t
  <2>0. /\ c <= d /\ d <= q - p /\ q - p \in Nat
        /\ \A i \in 1..c : t[i] \in chars
        /\ \A i \in d + 1..(q - p) : t[i] \in chars
    BY <1>2 DEF Cut
  <2>1. c <= d /\ d <= q - p /\ \A i \in 1..c : s[p + i] \in chars
    <3>1. \A i \in 1..c : i \in 1..(q - p)
      BY <2>0
    <3>2. QED
      BY <1>1, <2>0, <3>1
  <2>2. \A i \in d + 1..(q - p) : s[p + i] \in chars
    <3>1. \A i \in d + 1..(q - p) : i \in 1..(q - p)
      BY <2>0
    <3>2. QED
      BY <1>1, <2>0, <3>1
  <2>3. c < d => s[p + c + 1] \notin chars /\ s[p + d] \notin chars
    BY <1>1, <1>2 DEF Cut
  <2>4. \A i \in p + 1..(p + c) : s[i] \in chars
    <3>1. ASSUME NEW i \in p + 1..(p + c)
          PROVE  s[i] \in chars
      <4>1. i - p \in 1..c /\ p + (i - p) = i
        OBVIOUS
      <4>2. QED
        BY <2>1, <4>1
    <3>2. QED
      BY <3>1
  <2>5. \A i \in (p + d) + 1..q : s[i] \in chars
    <3>1. ASSUME NEW i \in (p + d) + 1..q
          PROVE  s[i] \in chars
      <4>1. i - p \in d + 1..(q - p) /\ p + (i - p) = i
        OBVIOUS
      <4>2. QED
        BY <2>2, <4>1
    <3>2. QED
      BY <3>1
  <2>6. QED
    BY <2>1, <2>3, <2>4, <2>5 DEF Cut
<1>5. p + c \in 0..Len(s) /\ p + d \in 0..Len(s)
  OBVIOUS
<1>6. QED
  BY <1>2, <1>3, <1>4, <1>5

\* There is one way to strip.
LEMMA StripIs ==
    ASSUME NEW S, NEW s \in Seq(S), NEW chars,
           NEW a \in 0..Len(s), NEW b \in 0..Len(s), Cut(s, chars, 0, Len(s), a, b)
    PROVE  Strip(s, chars) = SubSeq(s, a + 1, b)
<1>1. PICK c, d \in 0..Len(s) :
         Cut(s, chars, 0, Len(s), c, d) /\ Strip(s, chars) = SubSeq(s, c + 1, d)
  BY WholeCuts
<1>2. CASE a = b
  <2>1. \A i \in 1..Len(s) : s[i] \in chars
    BY <1>2 DEF Cut
  <2>2. c = d
    BY <1>1, <2>1 DEF Cut
  <2>3. QED
    BY <1>1, <1>2, <2>2, PartOf
<1>3. CASE a < b
  <2>1. a + 1 \in 1..Len(s) /\ s[a + 1] \notin chars /\ b \in 1..Len(s) /\ s[b] \notin chars
    BY <1>3 DEF Cut
  <2>2. a + 1 \in c + 1..d /\ b \in c + 1..d
    BY <1>1, <2>1 DEF Cut
  <2>3. c + 1 \in a + 1..b /\ d \in a + 1..b
    BY <1>1, <2>2 DEF Cut
  <2>4. a = c /\ b = d
    BY <2>2, <2>3
  <2>5. QED
    BY <1>1, <2>4
<1>4. QED
  BY <1>2, <1>3 DEF Cut

-----------------------------------------------------------------------------
(* What filtering leaves *)

\* As many as there are.
LEMMA Counted ==
    ASSUME NEW n \in Nat, NEW T, NEW f \in [1..n -> T],
           \A i, j \in 1..n : i < j => f[i] < f[j],
           \A i \in 1..n : f[i] \in Int,
           \A x \in T : \E i \in 1..n : f[i] = x
    PROVE  Cardinality(T) = n
<1>1. \A i, j \in 1..n : f[i] = f[j] => i = j
  OBVIOUS
<1>2. f \in Bijection(1..n, T)
  BY <1>1 DEF Bijection, Injection, Surjection, IsInjective
<1>3. QED
  BY <1>2, FS_CountingElements DEF ExistsBijection

\* The text t has the characters of s at the places f, and these are the places
\* of the characters to keep.
Places(s, chars, t, f) ==
    /\ f \in [1..Len(t) -> 1..Len(s)]
    /\ \A m, n \in 1..Len(t) : m < n => f[m] < f[n]
    /\ \A i \in 1..Len(s) : s[i] \in chars <=> \E n \in 1..Len(t) : f[n] = i
    /\ \A n \in 1..Len(t) : s[f[n]] = t[n]

\* Then it is what is kept.
LEMMA KeptIs ==
    ASSUME NEW S, NEW s \in Seq(S), NEW chars, NEW T, NEW t \in Seq(T),
           NEW f, Places(s, chars, t, f)
    PROVE  Kept(s, chars) = t
<1> DEFINE kept == {i \in 1..Len(s) : s[i] \in chars}
           place == [i \in kept |-> Cardinality({j \in kept : j <= i})]
<1>1. /\ \A n \in 1..Len(t) : f[n] \in kept /\ f[n] \in Int
      /\ \A i \in kept : \E n \in 1..Len(t) : f[n] = i
      /\ Len(t) \in Nat
  BY DEF Places
<1> USE DEF Places
<1>2. Cardinality(kept) = Len(t)
  <2> HIDE DEF kept
  <2>1. f \in [1..Len(t) -> kept]
    BY <1>1
  <2>2. QED
    BY <1>1, <2>1, Counted
<1>3. ASSUME NEW n \in 1..Len(t)
      PROVE  place[f[n]] = n
  <2> DEFINE upto == {j \in kept : j <= f[n]}
             g == [k \in 1..n |-> f[k]]
  <2>1. place[f[n]] = Cardinality(upto)
    BY <1>1
  <2>2. \A k \in 1..n : k \in 1..Len(t) /\ f[k] \in Int /\ f[k] <= f[n]
    <3>1. ASSUME NEW k \in 1..n
          PROVE  k \in 1..Len(t) /\ f[k] \in Int /\ f[k] <= f[n]
      <4>1. k \in 1..Len(t) /\ (k = n \/ k < n)
        OBVIOUS
      <4>2. QED
        BY <1>1, <4>1
    <3>2. QED
      BY <3>1
  <2>3. g \in [1..n -> upto]
    <3> HIDE DEF kept
    <3>1. QED
      BY <1>1, <2>2
  <2>4. \A x \in upto : \E k \in 1..n : g[k] = x
    <3>1. ASSUME NEW x \in upto
          PROVE  \E k \in 1..n : g[k] = x
      <4>1. PICK k \in 1..Len(t) : f[k] = x
        BY <1>1
      <4>2. ~ (n < k)
        BY <1>1, <4>1
      <4>3. k \in 1..n
        BY <4>2
      <4>4. QED
        BY <4>1, <4>3
    <3>2. QED
      BY <3>1
  <2>5. \A i, j \in 1..n : i < j => g[i] < g[j]
    BY <2>2
  <2>6. \A i \in 1..n : g[i] \in Int
    BY <2>2
  <2> HIDE DEF g, upto, place
  <2>7. Cardinality(upto) = n
    <3>1. n \in Nat
      OBVIOUS
    <3>2. QED
      BY <3>1, <2>3, <2>4, <2>5, <2>6, Counted
  <2>8. QED
    BY <2>1, <2>7
<1>4. ASSUME NEW n \in 1..Len(t)
      PROVE  s[CHOOSE i \in kept : place[i] = n] = t[n]
  <2> DEFINE c == CHOOSE i \in kept : place[i] = n
  <2>1. c \in kept /\ place[c] = n
    <3> HIDE DEF place, kept
    <3>1. QED
      BY <1>1, <1>3
  <2> HIDE DEF c, place
  <2>2. PICK m \in 1..Len(t) : f[m] = c
    BY <1>1, <2>1
  <2>3. m = n
    BY <1>3, <2>1, <2>2
  <2>4. QED
    BY <2>2, <2>3 DEF c
<1>5. t = [n \in 1..Len(t) |-> t[n]]
  BY LenProperties
<1>6. Kept(s, chars) = [n \in 1..Cardinality(kept) |-> s[CHOOSE i \in kept : place[i] = n]]
  BY DEF Kept
<1> HIDE DEF kept, place
<1>7. QED
  BY <1>2, <1>4, <1>5, <1>6

\* Nothing is dropped of a text of such characters.
LEMMA KeptWhole ==
    ASSUME NEW S, NEW s \in Seq(S), NEW chars, \A i \in 1..Len(s) : s[i] \in chars
    PROVE  Kept(s, chars) = s
<1> DEFINE f == [n \in 1..Len(s) |-> n]
<1>1. Places(s, chars, s, f)
  BY DEF Places
<1> HIDE DEF f
<1>2. QED
  BY <1>1, KeptIs

\* Of a text that has them in one piece, that piece.
LEMMA KeptPart ==
    ASSUME NEW S, NEW s \in Seq(S), NEW chars, NEW p \in 0..Len(s), NEW q \in p..Len(s),
           \A i \in 1..Len(s) : s[i] \in chars <=> i \in p + 1..q
    PROVE  Kept(s, chars) = SubSeq(s, p + 1, q)
<1> DEFINE t == SubSeq(s, p + 1, q)
           f == [n \in 1..(q - p) |-> p + n]
<1>1. t \in Seq(S) /\ Len(t) = q - p /\ \A i \in 1..(q - p) : t[i] = s[p + i]
  BY PartOf
<1>2. /\ f \in [1..(q - p) -> 1..Len(s)]
      /\ \A m, n \in 1..(q - p) : m < n => f[m] < f[n]
      /\ \A n \in 1..(q - p) : f[n] = p + n
  OBVIOUS
<1>3. ASSUME NEW i \in 1..Len(s)
      PROVE  s[i] \in chars <=> \E n \in 1..(q - p) : f[n] = i
  <2>1. i \in p + 1..q => i - p \in 1..(q - p) /\ p + (i - p) = i
    OBVIOUS
  <2>2. \A n \in 1..(q - p) : p + n \in p + 1..q
    OBVIOUS
  <2> HIDE DEF f
  <2>3. QED
    BY <1>2, <2>1, <2>2
<1> HIDE DEF f, t
<1>4. Places(s, chars, t, f)
  BY <1>1, <1>2, <1>3 DEF Places
<1>5. Kept(s, chars) = t
  BY <1>1, <1>4, KeptIs
<1>6. QED
  BY <1>5 DEF t

\* Without the one character that is not kept.
LEMMA KeptBut ==
    ASSUME NEW S, NEW s \in Seq(S), NEW chars, NEW p \in 1..Len(s),
           \A i \in 1..Len(s) : s[i] \in chars <=> i # p,
           NEW t \in Seq(S), Len(t) = Len(s) - 1,
           \A i \in 1..Len(t) : t[i] = IF i < p THEN s[i] ELSE s[i + 1]
    PROVE  Kept(s, chars) = t
<1> DEFINE f == [n \in 1..Len(t) |-> IF n < p THEN n ELSE n + 1]
<1>1. /\ f \in [1..Len(t) -> 1..Len(s)]
      /\ \A m, n \in 1..Len(t) : m < n => f[m] < f[n]
      /\ \A n \in 1..Len(t) : f[n] = IF n < p THEN n ELSE n + 1
  OBVIOUS
<1>2. ASSUME NEW i \in 1..Len(s)
      PROVE  s[i] \in chars <=> \E n \in 1..Len(t) : f[n] = i
  <2>1. i < p => i \in 1..Len(t) /\ f[i] = i
    BY <1>1
  <2>2. i > p => i - 1 \in 1..Len(t) /\ f[i - 1] = i
    <3>1. i > p => i - 1 \in 1..Len(t) /\ ~ (i - 1 < p) /\ (i - 1) + 1 = i
      OBVIOUS
    <3> HIDE DEF f
    <3>2. QED
      BY <1>1, <3>1
  <2>3. \A n \in 1..Len(t) : f[n] # p
    BY <1>1
  <2> HIDE DEF f
  <2>4. QED
    BY <2>1, <2>2, <2>3
<1>3. \A n \in 1..Len(t) : s[f[n]] = t[n]
  BY <1>1
<1> HIDE DEF f
<1>4. Places(s, chars, t, f)
  BY <1>1, <1>2, <1>3 DEF Places
<1>5. QED
  BY <1>4, KeptIs

-----------------------------------------------------------------------------
(* Texts and their beginnings *)

\* A text is one of the characters it has.
LEMMA TextOf ==
    ASSUME NEW S, NEW s \in Seq(S), NEW T, \A i \in 1..Len(s) : s[i] \in T
    PROVE  s \in Seq(T)
<1>1. s \in [1..Len(s) -> S] /\ DOMAIN s = 1..Len(s) /\ Len(s) \in Nat
  BY LenProperties
<1>2. s \in [1..Len(s) -> T]
  BY <1>1
<1>3. QED
  BY <1>1, <1>2, SeqDef

\* Nothing is stripped of a text that ends in other characters.
LEMMA EndsStay ==
    ASSUME NEW S, NEW s \in Seq(S), NEW chars,
           Len(s) > 0 => s[1] \notin chars /\ s[Len(s)] \notin chars
    PROVE  Strip(s, chars) = s
<1>1. Cut(s, chars, 0, Len(s), 0, Len(s))
  BY DEF Cut
<1>2. Strip(s, chars) = SubSeq(s, 0 + 1, Len(s))
  BY <1>1, StripIs
<1>3. QED
  BY <1>2, SubSeqFull

\* There is one way to strip on the left.
LEMMA LStripIs ==
    ASSUME NEW S, NEW s \in Seq(S), NEW chars, NEW p \in 0..Len(s),
           \A i \in 1..p : s[i] \in chars, p < Len(s) => s[p + 1] \notin chars
    PROVE  LStrip(s, chars) = SubSeq(s, p + 1, Len(s))
<1>1. PICK a \in 0..Len(s) :
         /\ LStrip(s, chars) = SubSeq(s, a + 1, Len(s))
         /\ \A i \in 1..a : s[i] \in chars
         /\ a < Len(s) => s[a + 1] \notin chars
  BY LStripCuts
<1>2. ~ (a < p)
  BY <1>1
<1>3. ~ (p < a)
  BY <1>1
<1>4. a = p
  BY <1>2, <1>3
<1>5. QED
  BY <1>1, <1>4

\* One text and another.
LEMMA Joined ==
    ASSUME NEW S, NEW s \in Seq(S), NEW t \in Seq(S), NEW u, u = s \o t
    PROVE  /\ u \in Seq(S)
           /\ Len(u) = Len(s) + Len(t)
           /\ \A i \in 1..Len(s) : u[i] = s[i]
           /\ \A i \in 1..Len(t) : u[Len(s) + i] = t[i]
           /\ SubSeq(u, Len(s) + 1, Len(u)) = t
<1> DEFINE m == Len(s)
           v == SubSeq(u, m + 1, Len(u))
<1>1. /\ u \in Seq(S) /\ m \in Nat
      /\ Len(u) = m + Len(t)
      /\ \A i \in 1..(m + Len(t)) : u[i] = IF i <= m THEN s[i] ELSE t[i - m]
  BY ConcatProperties
<1> HIDE DEF m
<1>2. \A i \in 1..m : u[i] = s[i]
  BY <1>1
<1>3. \A i \in 1..Len(t) : u[m + i] = t[i]
  <2>1. ASSUME NEW i \in 1..Len(t)
        PROVE  u[m + i] = t[i]
    <3>1. m + i \in 1..(m + Len(t)) /\ ~ (m + i <= m) /\ (m + i) - m = i
      BY <1>1
    <3>2. QED
      BY <1>1, <3>1
  <2>2. QED
    BY <2>1
<1>4. v = t
  <2>1. m \in 0..Len(u) /\ Len(u) \in m..Len(u) /\ Len(u) - m = Len(t)
    BY <1>1
  <2>2. v \in Seq(S) /\ Len(v) = Len(t) /\ \A i \in 1..Len(t) : v[i] = u[m + i]
    BY <1>1, <2>1, PartOf
  <2> HIDE DEF v
  <2>3. QED
    BY <1>3, <2>2, SeqEqual
<1>5. QED
  BY <1>1, <1>2, <1>3, <1>4 DEF m

\* A first character, and two of them.
LEMMA StartsWithOne ==
    ASSUME NEW S, NEW s \in Seq(S), NEW c \in S
    PROVE  StartsWith(s, <<c>>) <=> Len(s) > 0 /\ s[1] = c
<1> DEFINE t == <<c>>
           h == SubSeq(s, 0 + 1, 1)
<1>1. t \in Seq(S) /\ Len(t) = 1 /\ t[1] = c
  OBVIOUS
<1>2. SubSeq(t, 1, Len(t)) = t
  BY <1>1, SubSeqFull
<1>3. Len(s) > 0 => (h = t <=> s[1] = c)
  <2> SUFFICES ASSUME Len(s) > 0 PROVE h = t <=> s[1] = c
    OBVIOUS
  <2>1. h \in Seq(S) /\ Len(h) = 1 /\ h[1] = s[1]
    <3>1. 0 \in 0..Len(s) /\ 1 \in 0..Len(s) /\ 1 - 0 = 1 /\ 0 + 1 = 1
      OBVIOUS
    <3>2. QED
      BY <3>1, PartOf
  <2> HIDE DEF h, t
  <2>2. QED
    BY <1>1, <2>1, SeqEqual
<1> HIDE DEF t
<1>4. QED
  BY <1>1, <1>2, <1>3 DEF StartsWith, IsPrefix, t

LEMMA StartsWithTwo ==
    ASSUME NEW S, NEW s \in Seq(S), NEW c \in S
    PROVE  StartsWith(s, <<c, c>>) <=> Len(s) > 1 /\ s[1] = c /\ s[2] = c
<1> DEFINE t == <<c, c>>
           h == SubSeq(s, 0 + 1, 2)
<1>1. t \in Seq(S) /\ Len(t) = 2 /\ t[1] = c /\ t[2] = c
  OBVIOUS
<1>2. SubSeq(t, 1, Len(t)) = t
  BY <1>1, SubSeqFull
<1>3. Len(s) > 1 => (h = t <=> s[1] = c /\ s[2] = c)
  <2> SUFFICES ASSUME Len(s) > 1 PROVE h = t <=> s[1] = c /\ s[2] = c
    OBVIOUS
  <2>1. h \in Seq(S) /\ Len(h) = 2 /\ h[1] = s[1] /\ h[2] = s[2]
    <3>1. 0 \in 0..Len(s) /\ 2 \in 0..Len(s) /\ 2 - 0 = 2 /\ 0 + 1 = 1 /\ 0 + 2 = 2
      OBVIOUS
    <3>2. QED
      BY <3>1, PartOf
  <2> HIDE DEF h, t
  <2>2. QED
    BY <1>1, <2>1, SeqEqual
<1> HIDE DEF t
<1>4. QED
  BY <1>1, <1>2, <1>3 DEF StartsWith, IsPrefix, t

-----------------------------------------------------------------------------
(* The access code *)

\* What the characters of a part are.
LEMMA PartAmong ==
    ASSUME NEW S, NEW s \in Seq(S), NEW chars, NEW p \in 0..Len(s), NEW q \in p..Len(s)
    PROVE  ToSet(SubSeq(s, p + 1, q)) \subseteq chars <=> \A i \in p + 1..q : s[i] \in chars
<1> DEFINE t == SubSeq(s, p + 1, q)
<1>1. t \in Seq(S) /\ Len(t) = q - p /\ \A i \in 1..(q - p) : t[i] = s[p + i]
  BY PartOf
<1> HIDE DEF t
<1>2. ToSet(t) \subseteq chars <=> \A i \in 1..(q - p) : s[p + i] \in chars
  <2>1. DOMAIN t = 1..(q - p)
    BY <1>1, LenProperties
  <2>2. QED
    BY <1>1, <2>1 DEF ToSet
<1>3. (\A i \in 1..(q - p) : s[p + i] \in chars) <=> \A i \in p + 1..q : s[i] \in chars
  <2>1. ASSUME \A i \in 1..(q - p) : s[p + i] \in chars, NEW i \in p + 1..q
        PROVE  s[i] \in chars
    <3>1. i - p \in 1..(q - p) /\ p + (i - p) = i
      OBVIOUS
    <3>2. QED
      BY <2>1, <3>1
  <2>2. ASSUME \A i \in p + 1..q : s[i] \in chars, NEW i \in 1..(q - p)
        PROVE  s[p + i] \in chars
    BY <2>2
  <2>3. QED
    BY <2>1, <2>2
<1>4. QED
  BY <1>2, <1>3 DEF t

\* Digits are neither blanks nor terminator keys, nor are those each other.
LEMMA Apart ==
    Digits \cap Spaces = {} /\ Digits \cap TerminatorKeys = {} /\ Spaces \cap TerminatorKeys = {}
BY DEF Digits, Spaces, TerminatorKeys

\* A text in digits, as IsDigit has it.
LEMMA DigitsOnly ==
    ASSUME NEW S, NEW s \in Seq(S)
    PROVE  IsDigit(s) <=> Len(s) > 0 /\ \A i \in 1..Len(s) : s[i] \in Digits
<1>1. ToSet(s) \subseteq Digits <=> \A i \in 1..Len(s) : s[i] \in Digits
  <2>1. DOMAIN s = 1..Len(s)
    BY LenProperties
  <2>2. QED
    BY <2>1 DEF ToSet
<1>2. s # <<>> <=> Len(s) > 0
  BY EmptySeq
<1>3. QED
  BY <1>1, <1>2 DEF IsDigit

\* Nothing is stripped of digits.
LEMMA DigitsStay ==
    ASSUME NEW S, NEW s \in Seq(S), \A i \in 1..Len(s) : s[i] \in Digits,
           NEW chars, Digits \cap chars = {}
    PROVE  Strip(s, chars) = s
<1>1. Cut(s, chars, 0, Len(s), 0, Len(s))
  BY DEF Cut
<1>2. Strip(s, chars) = SubSeq(s, 0 + 1, Len(s))
  BY <1>1, StripIs
<1>3. QED
  BY <1>2, SubSeqFull

\* Blanks from p to x, terminator keys to y, blanks to q.
PaddedAt(s, p, x, y, q) ==
    /\ p <= x /\ x <= y /\ y <= q
    /\ \A i \in p + 1..x : s[i] \in Spaces
    /\ \A i \in x + 1..y : s[i] \in TerminatorKeys
    /\ \A i \in y + 1..q : s[i] \in Spaces

\* Padding, by its positions.
LEMMA PaddingOf ==
    ASSUME NEW S, NEW s \in Seq(S), NEW p \in 0..Len(s), NEW q \in p..Len(s)
    PROVE  Padding(SubSeq(s, p + 1, q)) <=> \E x, y \in 0..Len(s) : PaddedAt(s, p, x, y, q)
<1> DEFINE t == SubSeq(s, p + 1, q)
           Blank(u) == ToSet(u) \subseteq Spaces
           Terminating(u) == ToSet(u) \subseteq TerminatorKeys
<1>1. Len(t) = q - p
  BY PartOf
<1>2. \A i \in 0..(q - p), j \in 0..(q - p) :
         i <= j =>
           /\ SubSeq(t, 1, i) = SubSeq(s, p + 1, p + i)
           /\ SubSeq(t, i + 1, j) = SubSeq(s, p + i + 1, p + j)
           /\ SubSeq(t, j + 1, q - p) = SubSeq(s, p + j + 1, q)
  <2>1. ASSUME NEW i \in 0..(q - p), NEW j \in 0..(q - p), i <= j
        PROVE  /\ SubSeq(t, 0 + 1, i) = SubSeq(s, p + 0 + 1, p + i)
               /\ SubSeq(t, i + 1, j) = SubSeq(s, p + i + 1, p + j)
               /\ SubSeq(t, j + 1, q - p) = SubSeq(s, p + j + 1, p + (q - p))
    <3>1. /\ 0 \in 0..(q - p) /\ i \in 0..(q - p) /\ j \in i..(q - p)
          /\ q - p \in j..(q - p)
      BY <2>1
    <3>2. QED
      BY <3>1, PartOfPart
  <2>2. p + 0 + 1 = p + 1 /\ 0 + 1 = 1 /\ p + (q - p) = q
    OBVIOUS
  <2> HIDE DEF t
  <2>3. QED
    BY <2>1, <2>2
<1>3. ASSUME NEW i \in 0..(q - p), NEW j \in 0..(q - p), i <= j
      PROVE  /\ Blank(SubSeq(t, 1, i)) <=> \A k \in p + 1..p + i : s[k] \in Spaces
             /\ Terminating(SubSeq(t, i + 1, j)) <=>
                   \A k \in p + i + 1..p + j : s[k] \in TerminatorKeys
             /\ Blank(SubSeq(t, j + 1, q - p)) <=>
                   \A k \in p + j + 1..q : s[k] \in Spaces
  <2>1. p + i \in p..Len(s) /\ p + i \in 0..Len(s) /\ p + j \in (p + i)..Len(s)
        /\ p + j \in 0..Len(s) /\ q \in (p + j)..Len(s)
    BY <1>3
  <2>2. Blank(SubSeq(s, p + 1, p + i)) <=> \A k \in p + 1..p + i : s[k] \in Spaces
    BY <2>1, PartAmong
  <2>3. Terminating(SubSeq(s, p + i + 1, p + j)) <=>
           \A k \in p + i + 1..p + j : s[k] \in TerminatorKeys
    BY <2>1, PartAmong
  <2>4. Blank(SubSeq(s, p + j + 1, q)) <=> \A k \in p + j + 1..q : s[k] \in Spaces
    BY <2>1, PartAmong
  <2> HIDE DEF t, Blank, Terminating
  <2>5. QED
    BY <1>2, <1>3, <2>2, <2>3, <2>4
<1>4. Padding(t) <=> \E i, j \in 0..(q - p) :
                        /\ i <= j
                        /\ Blank(SubSeq(t, 1, i))
                        /\ Terminating(SubSeq(t, i + 1, j))
                        /\ Blank(SubSeq(t, j + 1, q - p))
  BY <1>1 DEF Padding
<1> HIDE DEF t, Blank, Terminating
<1>5. ASSUME Padding(t)
      PROVE  \E x, y \in 0..Len(s) : PaddedAt(s, p, x, y, q)
  <2>1. PICK i, j \in 0..(q - p) :
           /\ i <= j
           /\ Blank(SubSeq(t, 1, i))
           /\ Terminating(SubSeq(t, i + 1, j))
           /\ Blank(SubSeq(t, j + 1, q - p))
    BY <1>4, <1>5
  <2>2. PaddedAt(s, p, p + i, p + j, q)
    BY <1>3, <2>1 DEF PaddedAt
  <2>3. p + i \in 0..Len(s) /\ p + j \in 0..Len(s)
    OBVIOUS
  <2>4. QED
    BY <2>2, <2>3
<1>6. ASSUME NEW x \in 0..Len(s), NEW y \in 0..Len(s), PaddedAt(s, p, x, y, q)
      PROVE  Padding(t)
  <2>1. /\ x - p \in 0..(q - p) /\ y - p \in 0..(q - p) /\ x - p <= y - p
        /\ p + (x - p) = x /\ p + (y - p) = y
    BY <1>6 DEF PaddedAt
  <2>2. /\ Blank(SubSeq(t, 1, x - p))
        /\ Terminating(SubSeq(t, (x - p) + 1, y - p))
        /\ Blank(SubSeq(t, (y - p) + 1, q - p))
    BY <1>3, <1>6, <2>1 DEF PaddedAt
  <2>3. QED
    BY <1>4, <2>1, <2>2
<1>7. QED
  BY <1>5, <1>6 DEF t

\* What the verifier makes of what a webhook says was keyed in.
LEMMA EnteredCuts ==
    ASSUME NEW S, NEW s \in Seq(S)
    PROVE  \E a, b, c, d, e, f \in 0..Len(s) :
              /\ Cut(s, Spaces, 0, Len(s), a, b)
              /\ Cut(s, TerminatorKeys, a, b, c, d)
              /\ Cut(s, Spaces, c, d, e, f)
              /\ NormalizeDtmfInput(WebhookDigits(s)) = SubSeq(s, e + 1, f)
<1>1. PICK a, b \in 0..Len(s) :
         Cut(s, Spaces, 0, Len(s), a, b) /\ Strip(s, Spaces) = SubSeq(s, a + 1, b)
  BY WholeCuts
<1>2. Strip(SubSeq(s, a + 1, b), Spaces) = SubSeq(s, a + 1, b)
  <2>1. b \in a..Len(s)
    BY <1>1 DEF Cut
  <2>2. PICK g, h \in 0..Len(s) :
           /\ Cut(s, Spaces, a, b, g, h)
           /\ Strip(SubSeq(s, a + 1, b), Spaces) = SubSeq(s, g + 1, h)
    BY <2>1, StripCuts
  <2>3. a = g /\ b = h
    BY <1>1, <2>2 DEF Cut
  <2>4. QED
    BY <2>2, <2>3
<1>3. PICK c, d \in 0..Len(s) :
         /\ Cut(s, TerminatorKeys, a, b, c, d)
         /\ Strip(SubSeq(s, a + 1, b), TerminatorKeys) = SubSeq(s, c + 1, d)
  <2>1. b \in a..Len(s)
    BY <1>1 DEF Cut
  <2>2. QED
    BY <2>1, StripCuts
<1>4. PICK e, f \in 0..Len(s) :
         /\ Cut(s, Spaces, c, d, e, f)
         /\ Strip(SubSeq(s, c + 1, d), Spaces) = SubSeq(s, e + 1, f)
  <2>1. d \in c..Len(s)
    BY <1>3 DEF Cut
  <2>2. QED
    BY <2>1, StripCuts
<1>5. NormalizeDtmfInput(WebhookDigits(s)) = SubSeq(s, e + 1, f)
  BY <1>1, <1>2, <1>3, <1>4 DEF NormalizeDtmfInput, WebhookDigits
<1>6. QED
  BY <1>1, <1>3, <1>4, <1>5

\* The configured code, as the verifier has it.
LEMMA CodeStays == IsDigit(Code) /\ Len(Code) > 0 /\ Strip(Code, Spaces) = Code
<1>1. \A i \in 1..Len(Code) : Code[i] \in Digits
  BY CodeAssumption, ElementOfSeq
<1>2. Len(Code) > 0
  BY CodeAssumption, EmptySeq
<1>3. QED
  BY <1>1, <1>2, CodeAssumption, DigitsOnly, DigitsStay, Apart

\* A code between paddings is where stripping stops.
LEMMA CodeBetween ==
    ASSUME NEW S, NEW s \in Seq(S), NEW i \in 1..Len(s), NEW j \in i..Len(s),
           s[i] \in Digits, s[j] \in Digits,
           NEW x \in Int, NEW y \in Int, PaddedAt(s, 0, x, y, i - 1),
           NEW z \in Int, NEW w \in Int, PaddedAt(s, j, z, w, Len(s)),
           NEW a \in Int, NEW b \in Int, Cut(s, Spaces, 0, Len(s), a, b),
           NEW c \in Int, NEW d \in Int, Cut(s, TerminatorKeys, a, b, c, d),
           NEW e \in Int, NEW f \in Int, Cut(s, Spaces, c, d, e, f)
    PROVE  e = i - 1 /\ f = j
<1>1. /\ s[i] \notin Spaces /\ s[j] \notin Spaces
      /\ s[i] \notin TerminatorKeys /\ s[j] \notin TerminatorKeys
  BY Apart
<1>2. a < i /\ j <= b /\ s[a + 1] \notin Spaces /\ s[b] \notin Spaces
  BY <1>1 DEF Cut
<1>3. c < i /\ j <= d /\ s[c + 1] \notin TerminatorKeys /\ s[d] \notin TerminatorKeys
  BY <1>1, <1>2 DEF Cut
<1>4. e < i /\ j <= f /\ s[e + 1] \notin Spaces /\ s[f] \notin Spaces
  BY <1>1, <1>3 DEF Cut
<1>5. a <= c /\ c <= e /\ f <= d /\ d <= b /\ b <= Len(s) /\ 0 <= a
  BY DEF Cut
<1>6. ~ (e < i - 1)
  <2> SUFFICES ASSUME e < i - 1 PROVE FALSE
    OBVIOUS
  <2>1. e + 1 \in x + 1..y
    BY <1>4, <1>5 DEF PaddedAt
  <2>2. c + 1 \in 1..x
    BY <1>3, <1>5, <2>1 DEF PaddedAt
  <2>3. a + 1 \in 0 + 1..x
    BY <1>5, <2>2
  <2>4. QED
    BY <1>2, <2>3 DEF PaddedAt
<1>7. ~ (j < f)
  <2> SUFFICES ASSUME j < f PROVE FALSE
    OBVIOUS
  <2>1. f \in z + 1..w
    BY <1>4, <1>5 DEF PaddedAt
  <2>2. d \in w + 1..Len(s)
    BY <1>3, <1>5, <2>1 DEF PaddedAt
  <2>3. b \in w + 1..Len(s)
    BY <1>5, <2>2
  <2>4. QED
    BY <1>2, <2>3 DEF PaddedAt
<1>8. QED
  BY <1>4, <1>6, <1>7

\* Whatever is typed.
LEMMA AcceptsExactlyOf ==
    ASSUME typed \in Seq(Keyboard)
    PROVE  AcceptsExactly
<1> DEFINE n == Len(typed)
<1>1. PICK a, b, c, d, e, f \in 0..n :
         /\ Cut(typed, Spaces, 0, n, a, b)
         /\ Cut(typed, TerminatorKeys, a, b, c, d)
         /\ Cut(typed, Spaces, c, d, e, f)
         /\ NormalizeDtmfInput(WebhookDigits(typed)) = SubSeq(typed, e + 1, f)
  BY EnteredCuts
<1>2. IsCorrect(Code, Len(Code), WebhookDigits(typed)) <=> SubSeq(typed, e + 1, f) = Code
  BY <1>1, CodeStays DEF IsCorrect
<1>3. ASSUME SubSeq(typed, e + 1, f) = Code
      PROVE  \E i, j \in 1..n :
                /\ SubSeq(typed, i, j) = Code
                /\ Padding(SubSeq(typed, 1, i - 1))
                /\ Padding(SubSeq(typed, j + 1, n))
  <2>1. e < f
    <3>1. e <= f
      BY <1>1 DEF Cut
    <3>2. e # f
      BY <1>1, <1>3, CodeStays, PartOf, EmptySeq
    <3>3. QED
      BY <3>1, <3>2
  <2>2. PaddedAt(typed, 0, a, c, e) /\ PaddedAt(typed, f, d, b, n)
    BY <1>1 DEF Cut, PaddedAt
  <2>3. Padding(SubSeq(typed, 0 + 1, e)) /\ Padding(SubSeq(typed, f + 1, n))
    BY <2>2, PaddingOf
  <2>4. e + 1 \in 1..n /\ f \in 1..n /\ (e + 1) - 1 = e /\ 0 + 1 = 1
    BY <2>1
  <2>5. QED
    BY <1>3, <2>3, <2>4
<1>4. ASSUME NEW i \in 1..n, NEW j \in 1..n,
             SubSeq(typed, i, j) = Code,
             Padding(SubSeq(typed, 1, i - 1)), Padding(SubSeq(typed, j + 1, n))
      PROVE  SubSeq(typed, e + 1, f) = Code
  <2>1. i <= j
    <3>1. SUFFICES ASSUME j < i PROVE FALSE
      OBVIOUS
    <3>2. Code = <<>>
      BY <1>4, <3>1, SubSeqEmpty
    <3>3. QED
      BY <3>2, CodeAssumption
  <2>2. PICK p \in 0..n : p + 1 = i /\ p = i - 1 /\ j \in p..n /\ n \in j..n
    BY <2>1
  <2>3. SubSeq(typed, p + 1, j) = Code /\ Padding(SubSeq(typed, 0 + 1, p))
    BY <1>4, <2>2
  <2>4. typed[i] \in Digits /\ typed[j] \in Digits
    <3>1. Len(Code) = j - p /\ \A k \in 1..(j - p) : Code[k] = typed[p + k]
      BY <2>2, <2>3, PartOf
    <3>2. \A k \in 1..Len(Code) : Code[k] \in Digits
      BY CodeAssumption, ElementOfSeq
    <3>3. 1 \in 1..(j - p) /\ j - p \in 1..(j - p) /\ p + 1 = i /\ p + (j - p) = j
      BY <2>1, <2>2
    <3> HIDE DEF n
    <3>4. QED
      BY <3>1, <3>2, <3>3
  <2>5. PICK x, y \in 0..n : PaddedAt(typed, 0, x, y, p)
    <3>1. 0 \in 0..n /\ p \in 0..n
      OBVIOUS
    <3>2. QED
      BY <2>3, <3>1, PaddingOf
  <2>6. PICK z, w \in 0..n : PaddedAt(typed, j, z, w, n)
    BY <1>4, <2>2, PaddingOf
  <2>7. e = i - 1 /\ f = j
    <3>1. PaddedAt(typed, 0, x, y, i - 1) /\ i \in 1..n /\ j \in i..n
      BY <2>1, <2>2, <2>5
    <3>2. a \in Int /\ b \in Int /\ c \in Int /\ d \in Int /\ e \in Int /\ f \in Int
      OBVIOUS
    <3>3. x \in Int /\ y \in Int /\ z \in Int /\ w \in Int
      OBVIOUS
    <3>4. QED
      BY <1>1, <2>4, <2>6, <3>1, <3>2, <3>3, CodeBetween
  <2>8. QED
    BY <1>4, <2>7
<1>5. QED
  BY <1>2, <1>3, <1>4 DEF AcceptsExactly

\* The code itself is taken with its terminator and without.
LEMMA CodeEntered ==
    ASSUME NEW code \in Seq(Digits), code # <<>>, NEW terminator \in {<<>>, <<"#">>}
    PROVE  NormalizeDtmfInput(code \o terminator) = code
<1> DEFINE Kinds == Digits \cup {"#"}
           raw == code \o terminator
<1>1. /\ code \in Seq(Kinds) /\ Len(code) \in Nat /\ Len(code) > 0
      /\ \A i \in 1..Len(code) : code[i] \in Digits
  BY EmptySeq, ElementOfSeq, SeqMonotonic
<1>2. Strip(code, Spaces) = code /\ Strip(code, TerminatorKeys) = code
  BY <1>1, Apart, DigitsStay
<1>3. CASE terminator = <<>>
  <2>1. raw = code
    BY <1>3, ConcatEmptySeq
  <2>2. QED
    BY <1>2, <2>1 DEF NormalizeDtmfInput
<1>4. CASE terminator = <<"#">>
  <2>1. terminator \in Seq(Kinds) /\ Len(terminator) = 1 /\ terminator[1] = "#" /\ 1 \in 1..1
    BY <1>4
  <2> HIDE DEF Kinds, raw
  <2>2. /\ raw \in Seq(Kinds) /\ Len(raw) = Len(code) + Len(terminator)
        /\ \A i \in 1..Len(code) : raw[i] = code[i]
        /\ \A i \in 1..Len(terminator) : raw[Len(code) + i] = terminator[i]
    <3>1. code \in Seq(Kinds) /\ terminator \in Seq(Kinds) /\ raw = code \o terminator
      BY <1>1, <2>1 DEF raw
    <3>2. QED
      BY <3>1, Joined
  <2>3. Len(raw) = Len(code) + 1 /\ raw[Len(code) + 1] = "#"
    BY <2>1, <2>2
  <2>4. Strip(raw, Spaces) = raw
    <3>1. raw[1] \in Digits
      BY <1>1, <2>2
    <3>2. raw[1] \notin Spaces /\ raw[Len(raw)] \notin Spaces
      BY <2>3, <3>1, Apart DEF Spaces
    <3>3. QED
      BY <2>2, <3>2, EndsStay
  <2>5. Strip(raw, TerminatorKeys) = SubSeq(raw, 0 + 1, Len(code))
    <3>1. raw[1] \in Digits /\ raw[Len(code)] \in Digits
      BY <1>1, <2>2
    <3>2. \A i \in Len(code) + 1..Len(raw) : raw[i] \in TerminatorKeys
      BY <1>1, <2>3 DEF TerminatorKeys
    <3>3. 0 \in 0..Len(raw) /\ Len(code) \in 0..Len(raw)
      BY <1>1, <2>3
    <3>4. Cut(raw, TerminatorKeys, 0, Len(raw), 0, Len(code))
      BY <1>1, <2>3, <3>1, <3>2, Apart DEF Cut
    <3>5. QED
      BY <2>2, <3>3, <3>4, StripIs
  <2>6. SubSeq(raw, 0 + 1, Len(code)) = code
    <3> DEFINE t == SubSeq(raw, 0 + 1, Len(code))
    <3>1. 0 \in 0..Len(raw) /\ Len(code) \in 0..Len(raw) /\ Len(code) - 0 = Len(code)
      BY <1>1, <2>3
    <3>2. t \in Seq(Kinds) /\ Len(t) = Len(code) /\ \A i \in 1..Len(code) : t[i] = raw[0 + i]
      BY <2>2, <3>1, PartOf
    <3> HIDE DEF t
    <3>3. QED
      BY <1>1, <2>2, <3>2, SeqEqual DEF t
  <2>7. QED
    BY <1>2, <2>4, <2>5, <2>6 DEF NormalizeDtmfInput, raw
<1>5. QED
  BY <1>3, <1>4

LEMMA OwnCodeAcceptedOf ==
    ASSUME typed \in Seq(Keyboard)
    PROVE  OwnCodeAccepted
<1> SUFFICES ASSUME NEW otp_length \in 0..MaxTyped, SettingsAccept(typed, otp_length),
                    NEW terminator \in {<<>>, <<"#">>}
             PROVE  IsCorrect(ConfiguredCode(typed), otp_length, Kept(typed, Digits) \o terminator)
  BY DEF OwnCodeAccepted
<1> DEFINE code == ConfiguredCode(typed)
<1>1. PICK a, b \in 0..Len(typed) :
         Cut(typed, Spaces, 0, Len(typed), a, b) /\ code = SubSeq(typed, a + 1, b)
  BY WholeCuts DEF ConfiguredCode
<1>2. b \in a..Len(typed)
  BY <1>1 DEF Cut
<1>3. IsDigit(code) /\ Len(code) = otp_length
  BY DEF SettingsAccept, ConfiguredCode
<1> HIDE DEF code
<1>4. /\ code \in Seq(Keyboard) /\ Len(code) = b - a
      /\ \A i \in 1..(b - a) : code[i] = typed[a + i]
  BY <1>1, <1>2, PartOf
<1>5. Len(code) > 0 /\ \A i \in 1..Len(code) : code[i] \in Digits
  BY <1>3, <1>4, DigitsOnly
<1>6. code \in Seq(Digits) /\ code # <<>>
  BY <1>3, <1>4, <1>5, TextOf DEF IsDigit
<1>7. \A i \in 1..Len(typed) : typed[i] \in Digits <=> i \in a + 1..b
  <2>1. ASSUME NEW i \in a + 1..b
        PROVE  typed[i] \in Digits
    <3>1. i - a \in 1..(b - a) /\ a + (i - a) = i
      BY <1>2
    <3>2. QED
      BY <1>4, <1>5, <3>1
  <2>2. ASSUME NEW i \in 1..Len(typed), i \notin a + 1..b
        PROVE  typed[i] \in Spaces
    BY <1>1, <2>2 DEF Cut
  <2>3. QED
    BY <2>1, <2>2, Apart
<1>8. Kept(typed, Digits) = code
  BY <1>1, <1>2, <1>7, KeptPart
<1>9. Strip(code, Spaces) = code
  BY <1>5, <1>6, Apart, DigitsStay
<1>10. QED
  BY <1>3, <1>6, <1>8, <1>9, CodeEntered DEF IsCorrect, code

-----------------------------------------------------------------------------
(* Phone numbers *)

\* What is made of digits, with a plus sign before them and without.
LEMMA OfPlus ==
    ASSUME NEW d \in Seq(Digits), d # <<>>
    PROVE  NormalizePhoneNumber(<<"+">> \o d) =
              IF ValidLength(d) THEN <<"+">> \o d ELSE Invalid
<1> DEFINE raw == <<"+">> \o d
           Kinds == Digits \cup {"+"}
<1>1. /\ raw \in Seq(Kinds) /\ Len(raw) = 1 + Len(d) /\ raw[1] = "+"
      /\ \A i \in 1..Len(d) : raw[1 + i] = d[i]
      /\ SubSeq(raw, 1 + 1, Len(raw)) = d
      /\ Len(d) > 0
      /\ \A i \in 1..Len(d) : d[i] \in Digits
  <2>1. <<"+">> \in Seq(Kinds) /\ Len(<<"+">>) = 1 /\ <<"+">>[1] = "+" /\ d \in Seq(Kinds)
    BY SeqMonotonic
  <2>2. Len(d) > 0 /\ \A i \in 1..Len(d) : d[i] \in Digits
    BY EmptySeq, ElementOfSeq
  <2>3. 1 \in Nat /\ 1 \in 1..1
    OBVIOUS
  <2> HIDE DEF Kinds
  <2>4. QED
    BY <2>1, <2>2, <2>3, Joined
<1> HIDE DEF raw
<1>2. Strip(raw, Spaces) = raw
  <2>1. raw[1] \notin Spaces
    BY <1>1 DEF Spaces
  <2>2. raw[Len(raw)] \notin Spaces
    <3>1. Len(d) \in 1..Len(d)
      BY <1>1
    <3>2. raw[Len(raw)] \in Digits
      BY <1>1, <3>1
    <3>3. QED
      BY <3>2, Apart
  <2>3. QED
    BY <1>1, <2>1, <2>2, EndsStay
<1>3. Clean(raw) = raw
  <2>1. \A i \in 1..Len(raw) : raw[i] \in Kinds
    BY <1>1, ElementOfSeq
  <2>2. Kept(raw, Kinds) = raw
    <3> HIDE DEF Kinds
    <3>1. QED
      BY <1>1, <2>1, KeptWhole
  <2>3. QED
    BY <2>2 DEF Clean
<1>4. HasPlus(raw)
  BY <1>1, StartsWithOne DEF HasPlus
<1>5. LStrip(raw, {"+"}) = d
  <2>1. 1 \in 0..Len(raw) /\ (\A i \in 1..1 : raw[i] \in {"+"}) /\ raw[1 + 1] \notin {"+"}
    BY <1>1 DEF Digits
  <2>2. QED
    BY <1>1, <2>1, LStripIs
<1>6. Internationalised(TRUE, d) = d
  BY DEF Internationalised
<1>7. IsDigit(d)
  BY <1>1, DigitsOnly
<1>8. NormalizePhoneNumber(raw) = IF ValidLength(d) THEN <<"+">> \o d ELSE Invalid
  BY <1>2, <1>3, <1>4, <1>5, <1>6, <1>7 DEF NormalizePhoneNumber
<1>9. QED
  BY <1>8 DEF raw

LEMMA OfDigits ==
    ASSUME NEW d \in Seq(Digits), d # <<>>
    PROVE  /\ Clean(Strip(d, Spaces)) = d
           /\ NormalizePhoneNumber(d) =
                 IF ValidLength(Internationalised(FALSE, d))
                 THEN <<"+">> \o Internationalised(FALSE, d) ELSE Invalid
<1>1. Len(d) > 0 /\ \A i \in 1..Len(d) : d[i] \in Digits
  BY EmptySeq, ElementOfSeq
<1>2. Strip(d, Spaces) = d
  BY <1>1, Apart, DigitsStay
<1>3. Clean(d) = d
  BY <1>1, KeptWhole DEF Clean
<1>4. d[1] # "+"
  BY <1>1 DEF Digits
<1>5. HasPlus(d) = FALSE
  <2>1. d \in Seq(Digits \cup {"+"})
    BY SeqMonotonic
  <2>2. ~ HasPlus(d)
    BY <1>4, <2>1, StartsWithOne DEF HasPlus
  <2>3. HasPlus(d) \in BOOLEAN
    BY DEF HasPlus, StartsWith, IsPrefix
  <2>4. QED
    BY <2>2, <2>3
<1>6. LStrip(d, {"+"}) = d
  <2>1. LStrip(d, {"+"}) = SubSeq(d, 0 + 1, Len(d))
    BY <1>1, <1>4, LStripIs
  <2>2. QED
    BY <2>1, SubSeqFull
<1>7. IsDigit(d)
  BY <1>1, DigitsOnly
<1>8. NormalizePhoneNumber(d) =
         IF ValidLength(Internationalised(FALSE, d))
         THEN <<"+">> \o Internationalised(FALSE, d) ELSE Invalid
  BY <1>2, <1>3, <1>5, <1>6, <1>7 DEF NormalizePhoneNumber
<1>9. QED
  BY <1>2, <1>3, <1>8

\* What is kept is a text.
LEMMA KeptText ==
    ASSUME NEW S, NEW s \in Seq(S), NEW chars
    PROVE  \E T : Kept(s, chars) \in Seq(T)
<1> DEFINE kept == {i \in 1..Len(s) : s[i] \in chars}
           place == [i \in kept |-> Cardinality({j \in kept : j <= i})]
           c == [n \in 1..Cardinality(kept) |-> s[CHOOSE i \in kept : place[i] = n]]
<1>1. Cardinality(kept) \in Nat
  <2>1. IsFiniteSet(kept)
    BY FS_Interval, FS_Subset
  <2> HIDE DEF kept
  <2>2. QED
    BY <2>1, FS_CardinalityType
<1>2. Kept(s, chars) = c
  BY DEF Kept
<1>3. DOMAIN c = 1..Cardinality(kept) /\ c = [n \in DOMAIN c |-> c[n]]
  OBVIOUS
<1> HIDE DEF c, kept
<1>4. c \in [1..Cardinality(kept) -> {c[n] : n \in 1..Cardinality(kept)}]
  BY <1>3
<1>5. QED
  BY <1>1, <1>2, <1>4, SeqDef

\* What is made of anything.
LEMMA OfAnything ==
    ASSUME NEW S, NEW raw \in Seq(S), NormalizePhoneNumber(raw) # Invalid
    PROVE  \E d \in Seq(Digits) :
              d # <<>> /\ ValidLength(d) /\ NormalizePhoneNumber(raw) = <<"+">> \o d
<1> DEFINE cleaned == Clean(Strip(raw, Spaces))
           digits == LStrip(cleaned, {"+"})
           normalized == Internationalised(HasPlus(cleaned), digits)
<1>1. /\ IsDigit(digits) /\ ValidLength(normalized)
      /\ NormalizePhoneNumber(raw) = <<"+">> \o normalized
  BY DEF NormalizePhoneNumber
<1>2. \E T : cleaned \in Seq(T)
  <2>1. Strip(raw, Spaces) \in Seq(S)
    <3>1. PICK a, b \in 0..Len(raw) :
             /\ Cut(raw, Spaces, 0, Len(raw), a, b)
             /\ Strip(raw, Spaces) = SubSeq(raw, a + 1, b)
      BY WholeCuts
    <3>2. b \in a..Len(raw)
      BY <3>1 DEF Cut
    <3>3. QED
      BY <3>1, <3>2, PartOf
  <2>2. QED
    BY <2>1, KeptText DEF Clean
<1>3. digits \in Seq(Digits)
  <2>1. PICK T : cleaned \in Seq(T)
    BY <1>2
  <2> HIDE DEF cleaned
  <2>2. PICK a \in 0..Len(cleaned) : digits = SubSeq(cleaned, a + 1, Len(cleaned))
    BY <2>1, LStripCuts
  <2>3. digits \in Seq(T)
    <3>1. Len(cleaned) \in a..Len(cleaned)
      BY <2>1, LenProperties
    <3> HIDE DEF digits
    <3>2. QED
      BY <2>1, <2>2, <3>1, PartOf
  <2> HIDE DEF digits
  <2>4. QED
    BY <1>1, <2>3, DigitsOnly, TextOf
<1> HIDE DEF cleaned, digits
<1>4. normalized \in Seq(Digits)
  <2>1. LStrip(digits, {"0"}) \in Seq(Digits)
    <3>1. PICK a \in 0..Len(digits) : LStrip(digits, {"0"}) = SubSeq(digits, a + 1, Len(digits))
      BY <1>3, LStripCuts
    <3>2. Len(digits) \in a..Len(digits)
      BY <1>3, LenProperties
    <3>3. QED
      BY <1>3, <3>1, <3>2, PartOf
  <2>2. StartsWith(digits, <<"0", "0">>) => SubSeq(digits, 3, Len(digits)) \in Seq(Digits)
    <3>1. SUFFICES ASSUME StartsWith(digits, <<"0", "0">>)
                   PROVE  SubSeq(digits, 3, Len(digits)) \in Seq(Digits)
      OBVIOUS
    <3>2. Len(digits) > 1
      BY <1>3, <3>1, StartsWithTwo DEF Digits
    <3>3. 2 \in 0..Len(digits) /\ Len(digits) \in 2..Len(digits) /\ 2 + 1 = 3
      BY <1>3, <3>2
    <3>4. QED
      BY <1>3, <3>3, PartOf
  <2>3. CountryCode \o digits \in Seq(Digits) /\ National(digits) \in Seq(Digits)
    BY <1>3, <2>1, PhoneAssumption, ConcatProperties DEF National
  <2>4. QED
    BY <1>3, <2>2, <2>3 DEF Internationalised
<1>5. normalized # <<>>
  BY <1>1, PhoneAssumption DEF ValidLength
<1>6. QED
  BY <1>1, <1>4, <1>5

\* Whatever is typed.
LEMMA NormalizedOnceOf ==
    ASSUME typed \in Seq(Keyboard)
    PROVE  NormalizedOnce
<1> SUFFICES ASSUME NormalizePhoneNumber(typed) # Invalid
             PROVE  NormalizePhoneNumber(NormalizePhoneNumber(typed)) = NormalizePhoneNumber(typed)
  BY DEF NormalizedOnce
<1>1. PICK d \in Seq(Digits) :
         d # <<>> /\ ValidLength(d) /\ NormalizePhoneNumber(typed) = <<"+">> \o d
  BY OfAnything
<1>2. QED
  BY <1>1, OfPlus

LEMMA MaskHidesOf ==
    ASSUME typed \in Seq(Keyboard)
    PROVE  MaskHides
<1> DEFINE number == NormalizePhoneNumber(typed)
           masked == MaskPhoneNumber(number)
           hidden == {i \in 1..Len(number) : masked[i] = "*"}
<1> SUFFICES ASSUME number # Invalid
             PROVE  Len(masked) = Len(number) /\ Cardinality(hidden) >= MinSubscriberDigits - 4
  BY DEF MaskHides
<1>1. PICK d \in Seq(Digits) : d # <<>> /\ ValidLength(d) /\ number = <<"+">> \o d
  BY OfAnything
<1>2. /\ Len(number) \in Nat /\ Len(number) >= MinSubscriberDigits + 2
      /\ MinSubscriberDigits \in Nat
  <2>1. Len(d) \in Nat /\ Len(d) > MinSubscriberDigits
    BY <1>1, LenProperties DEF ValidLength
  <2>2. <<"+">> \in Seq({"+"} \cup Digits) /\ d \in Seq({"+"} \cup Digits) /\ Len(<<"+">>) = 1
    BY SeqMonotonic
  <2>3. Len(number) = 1 + Len(d)
    BY <1>1, <2>2, ConcatProperties
  <2>4. QED
    BY <2>1, <2>3, PhoneAssumption
<1> HIDE DEF number
<1>3. Len(masked) = Len(number)
  BY <1>2 DEF MaskPhoneNumber
<1> DEFINE last == Len(number) - 2
<1>4. Len(number) > 5 => 5..last \subseteq hidden
  BY <1>2 DEF MaskPhoneNumber
<1>5. Len(number) <= 5 => 1..Len(number) \subseteq hidden
  BY <1>2 DEF MaskPhoneNumber
<1>6. IsFiniteSet(hidden)
  <2>1. IsFiniteSet(1..Len(number)) /\ hidden \subseteq 1..Len(number)
    BY <1>2, FS_Interval
  <2> HIDE DEF masked, hidden
  <2>2. QED
    BY <2>1, FS_Subset
<1> HIDE DEF masked, hidden
<1>7. /\ Cardinality(5..last) = IF 5 > last THEN 0 ELSE last - 5 + 1
      /\ Cardinality(1..Len(number)) = IF 1 > Len(number) THEN 0 ELSE Len(number) - 1 + 1
  <2>1. \A a, b \in Int : Cardinality(a..b) = IF a > b THEN 0 ELSE b - a + 1
    BY FS_Interval
  <2>2. 5 \in Int /\ 1 \in Int /\ last \in Int /\ Len(number) \in Int
    BY <1>2
  <2> HIDE DEF last
  <2>3. QED
    BY <2>1, <2>2
<1>8. /\ Len(number) > 5 => Cardinality(5..last) <= Cardinality(hidden)
      /\ Len(number) <= 5 => Cardinality(1..Len(number)) <= Cardinality(hidden)
  BY <1>4, <1>5, <1>6, FS_Subset
<1>9. Cardinality(hidden) \in Nat
  BY <1>6, FS_CardinalityType
<1>10. QED
  BY <1>2, <1>3, <1>7, <1>8, <1>9

\* A digit text with a separator somewhere before its last digit.
LEMMA OfSpelt ==
    ASSUME NEW d \in Seq(Digits), NEW p \in 1..Len(d),
           NEW S, NEW raw \in Seq(S), Len(raw) = Len(d) + 1,
           \A i \in 1..Len(raw) : raw[i] = IF i < p THEN d[i] ELSE IF i = p THEN "-" ELSE d[i - 1],
           1 < p
    PROVE  NormalizePhoneNumber(raw) = NormalizePhoneNumber(d)
<1> DEFINE Kinds == Digits \cup {"+"}
<1>1. Len(d) \in Nat /\ Len(d) > 0 /\ d # <<>> /\ \A i \in 1..Len(d) : d[i] \in Digits
  BY EmptySeq, ElementOfSeq
<1>2. /\ raw[p] = "-"
      /\ \A i \in 1..Len(d) : d[i] = IF i < p THEN raw[i] ELSE raw[i + 1]
  <2>1. ASSUME NEW i \in 1..Len(d), ~ (i < p)
        PROVE  d[i] = raw[i + 1]
    <3>1. i + 1 \in 1..Len(raw) /\ ~ (i + 1 < p) /\ i + 1 # p /\ (i + 1) - 1 = i
      BY <1>1, <2>1
    <3>2. QED
      BY <3>1
  <2>2. QED
    BY <1>1, <2>1
<1>3. ASSUME NEW i \in 1..Len(raw)
      PROVE  raw[i] \in Kinds <=> i # p
  <2>1. i # p => raw[i] \in Digits
    <3>1. i < p => i \in 1..Len(d) /\ raw[i] = d[i]
      BY <1>1
    <3>2. i > p => i - 1 \in 1..Len(d) /\ raw[i] = d[i - 1]
      BY <1>1
    <3>3. QED
      BY <1>1, <3>1, <3>2
  <2>2. "-" \notin Kinds
    BY DEF Digits
  <2>3. QED
    BY <1>2, <2>1, <2>2
<1>4. Strip(raw, Spaces) = raw
  <2>1. 1 \in 1..Len(raw) /\ Len(raw) \in 1..Len(raw) /\ 1 # p /\ Len(raw) # p
    BY <1>1
  <2>2. Kinds \cap Spaces = {}
    BY DEF Digits, Spaces
  <2>3. raw[1] \notin Spaces /\ raw[Len(raw)] \notin Spaces
    <3> HIDE DEF Kinds
    <3>1. QED
      BY <1>3, <2>1, <2>2
  <2>4. QED
    BY <2>3, EndsStay
<1>5. Clean(raw) = d
  <2>1. raw \in Seq(S \cup Digits) /\ d \in Seq(S \cup Digits)
    BY SeqMonotonic
  <2>2. p \in 1..Len(raw) /\ Len(d) = Len(raw) - 1
    BY <1>1
  <2>3. Kept(raw, Kinds) = d
    <3> HIDE DEF Kinds
    <3>1. QED
      BY <1>2, <1>3, <2>1, <2>2, KeptBut
  <2>4. QED
    BY <2>3 DEF Clean
<1>6. Clean(Strip(d, Spaces)) = d
  BY <1>1, OfDigits
<1>7. QED
  BY <1>4, <1>5, <1>6 DEF NormalizePhoneNumber

\* The digits an international number is made of.
LEMMA SpellingsAgreeOf ==
    ASSUME typed \in Seq(Keyboard)
    PROVE  SpellingsAgree
<1> SUFFICES ASSUME Bare(typed) PROVE SpellingsAgree
  BY DEF SpellingsAgree
<1> DEFINE intl == CountryCode \o typed
           number == IF ValidLength(intl) THEN <<"+">> \o intl ELSE Invalid
<1>1. /\ typed \in Seq(Digits) /\ Len(typed) > 0 /\ typed # <<>>
      /\ typed[1] # "0" /\ typed[1] \in Digits
      /\ \A i \in 1..Len(typed) : typed[i] \in Digits
  <2>1. Len(typed) > 0 /\ \A i \in 1..Len(typed) : typed[i] \in Digits
    BY DigitsOnly DEF Bare
  <2>2. typed \in Seq(Digits)
    BY <2>1, TextOf
  <2>3. QED
    BY <2>1, <2>2 DEF Bare, IsDigit
<1>2. intl \in Seq(Digits) /\ intl # <<>>
  <2>1. Len(intl) = Len(CountryCode) + Len(typed) /\ Len(CountryCode) \in Nat
    BY <1>1, PhoneAssumption, ConcatProperties, LenProperties
  <2>2. intl \in Seq(Digits)
    BY <1>1, PhoneAssumption, ConcatProperties
  <2> HIDE DEF intl
  <2>3. QED
    BY <1>1, <2>1, <2>2, EmptySeq
<1>3. <<"+">> \o CountryCode \o typed = <<"+">> \o intl
  <2>1. /\ <<"+">> \in Seq(Digits \cup {"+"}) /\ CountryCode \in Seq(Digits \cup {"+"})
        /\ typed \in Seq(Digits \cup {"+"})
    BY <1>1, PhoneAssumption, SeqMonotonic
  <2>2. QED
    BY <2>1, ConcatAssociative
<1>4. IDD \o CountryCode \o typed = IDD \o intl
  <2>1. IDD \in Seq(Digits)
    BY DEF IDD, Digits
  <2>2. QED
    BY <1>1, <2>1, PhoneAssumption, ConcatAssociative
<1>5. NormalizePhoneNumber(<<"+">> \o intl) = number
  <2> HIDE DEF intl
  <2>1. QED
    BY <1>2, OfPlus
<1>6. NormalizePhoneNumber(IDD \o intl) = number
  <2> DEFINE d == IDD \o intl
  <2>1. /\ d \in Seq(Digits) /\ Len(d) = 2 + Len(intl) /\ d[1] = "0" /\ d[2] = "0"
        /\ SubSeq(d, 3, Len(d)) = intl
    <3>1. /\ IDD \in Seq(Digits) /\ 2 = Len(IDD) /\ IDD[1] = "0" /\ IDD[2] = "0"
          /\ 2 \in Nat /\ 1 \in 1..2 /\ 2 \in 1..2 /\ 2 + 1 = 3
      BY DEF IDD, Digits
    <3> HIDE DEF d, intl
    <3>2. d = IDD \o intl
      BY DEF d
    <3>3. /\ d \in Seq(Digits) /\ Len(d) = Len(IDD) + Len(intl)
          /\ \A i \in 1..Len(IDD) : d[i] = IDD[i]
          /\ SubSeq(d, Len(IDD) + 1, Len(d)) = intl
      BY <1>2, <3>1, <3>2, Joined
    <3>4. QED
      BY <3>1, <3>3
  <2> HIDE DEF d, intl
  <2>2. d # <<>> /\ Len(intl) \in Nat
    BY <1>2, <2>1, LenProperties
  <2>3. StartsWith(d, <<"0", "0">>)
    BY <1>2, <2>1, <2>2, StartsWithTwo DEF Digits
  <2>4. Internationalised(FALSE, d) = intl
    <3>1. StartsWith(d, <<"0">>)
      BY <1>2, <2>1, <2>2, StartsWithOne DEF Digits
    <3>2. QED
      BY <2>1, <2>3, <3>1 DEF Internationalised
  <2>5. NormalizePhoneNumber(d) = number
    BY <2>1, <2>2, <2>4, OfDigits
  <2>6. QED
    BY <2>5 DEF d
<1>7. /\ CarriesCountryCode(typed)
           => NormalizePhoneNumber(typed) = NormalizePhoneNumber(<<"+">> \o typed)
      /\ ~CarriesCountryCode(typed) => NormalizePhoneNumber(typed) = number
  <2>1. ~ StartsWith(typed, <<"0">>) /\ ~ StartsWith(typed, <<"0", "0">>)
    BY <1>1, StartsWithOne, StartsWithTwo DEF Digits
  <2>2. Internationalised(FALSE, typed) = IF CarriesCountryCode(typed) THEN typed ELSE intl
    BY <2>1 DEF Internationalised
  <2>3. NormalizePhoneNumber(<<"+">> \o typed)
           = IF ValidLength(typed) THEN <<"+">> \o typed ELSE Invalid
    BY <1>1, OfPlus
  <2> HIDE DEF intl
  <2>4. QED
    BY <1>1, <2>2, <2>3, OfDigits
<1>8. \/ Len(typed) <= Len(CountryCode) + MinSubscriberDigits
       \/ ~StartsWith(typed, CountryCode)
       => ~CarriesCountryCode(typed)
  BY <1>1, PhoneAssumption, LenProperties DEF CarriesCountryCode
<1> DEFINE d == Trunk \o typed
<1>9. /\ d \in Seq(Digits) /\ Len(d) = 1 + Len(typed) /\ d[1] = "0"
      /\ \A i \in 1..Len(typed) : d[1 + i] = typed[i]
      /\ SubSeq(d, 1 + 1, Len(d)) = typed
  <2>1. /\ Trunk \in Seq(Digits) /\ 1 = Len(Trunk) /\ Trunk[1] = "0"
        /\ 1 \in Nat /\ 1 \in 1..1
    BY DEF Trunk, Digits
  <2> HIDE DEF d
  <2>2. d = Trunk \o typed
    BY DEF d
  <2>3. /\ d \in Seq(Digits) /\ Len(d) = Len(Trunk) + Len(typed)
        /\ \A i \in 1..Len(Trunk) : d[i] = Trunk[i]
        /\ \A i \in 1..Len(typed) : d[Len(Trunk) + i] = typed[i]
        /\ SubSeq(d, Len(Trunk) + 1, Len(d)) = typed
    BY <1>1, <2>1, <2>2, Joined
  <2>4. QED
    BY <2>1, <2>3
<1> HIDE DEF d
<1>10. NormalizePhoneNumber(d) = number
  <2>1. d # <<>> /\ Len(typed) \in Nat /\ d[2] = typed[1]
    BY <1>1, <1>9, LenProperties
  <2>2. StartsWith(d, <<"0">>) /\ ~ StartsWith(d, <<"0", "0">>)
    BY <1>1, <1>9, <2>1, StartsWithOne, StartsWithTwo DEF Digits
  <2>3. LStrip(d, {"0"}) = typed
    <3>1. 1 \in 0..Len(d) /\ (\A i \in 1..1 : d[i] \in {"0"}) /\ d[1 + 1] \notin {"0"}
      BY <1>1, <1>9, <2>1
    <3>2. QED
      BY <1>9, <3>1, LStripIs
  <2>4. Internationalised(FALSE, d) = intl
    BY <2>2, <2>3 DEF Internationalised, National
  <2> HIDE DEF intl
  <2>5. QED
    BY <1>9, <2>1, <2>4, OfDigits
<1>11. ASSUME NEW i \in 1..Len(typed)
       PROVE  NormalizePhoneNumber(Trunk \o InsertAt(typed, i, "-")) = number
  <2> DEFINE S == Digits \cup {"-"}
             left == SubSeq(typed, 0 + 1, i - 1)
             right == SubSeq(typed, (i - 1) + 1, Len(typed))
             spelt == InsertAt(typed, i, "-")
             raw == Trunk \o spelt
  <2>1. /\ left \in Seq(S) /\ Len(left) = i - 1
        /\ \A k \in 1..(i - 1) : left[k] = typed[k]
    <3>1. 0 \in 0..Len(typed) /\ i - 1 \in 0..Len(typed) /\ (i - 1) - 0 = i - 1
      OBVIOUS
    <3>2. left \in Seq(Digits) /\ Len(left) = i - 1 /\ \A k \in 1..(i - 1) : left[k] = typed[0 + k]
      BY <1>1, <3>1, PartOf
    <3> HIDE DEF left
    <3>3. QED
      BY <1>1, <3>2, SeqMonotonic
  <2>2. /\ right \in Seq(S) /\ Len(right) = Len(typed) - i + 1
        /\ \A k \in 1..(Len(typed) - i + 1) : right[k] = typed[i - 1 + k]
    <3>1. /\ i - 1 \in 0..Len(typed) /\ Len(typed) \in (i - 1)..Len(typed)
          /\ Len(typed) - (i - 1) = Len(typed) - i + 1
      OBVIOUS
    <3>2. /\ right \in Seq(Digits) /\ Len(right) = Len(typed) - (i - 1)
          /\ \A k \in 1..(Len(typed) - (i - 1)) : right[k] = typed[(i - 1) + k]
      BY <1>1, <3>1, PartOf
    <3> HIDE DEF right
    <3>3. QED
      BY <1>1, <3>1, <3>2, SeqMonotonic
  <2>3. spelt = left \o <<"-">> \o right
    BY DEF InsertAt
  <2> HIDE DEF left, right, spelt
  <2>4. /\ spelt \in Seq(S) /\ Len(spelt) = Len(typed) + 1
        /\ \A k \in 1..Len(spelt) :
              spelt[k] = IF k < i THEN typed[k] ELSE IF k = i THEN "-" ELSE typed[k - 1]
    <3> DEFINE half == left \o <<"-">>
    <3>1. /\ half \in Seq(S) /\ Len(half) = i
          /\ \A k \in 1..(i - 1) : half[k] = typed[k]
          /\ half[i] = "-"
      <4> DEFINE dash == <<"-">>
      <4>1. dash \in Seq(S) /\ Len(dash) = 1 /\ dash[1] = "-" /\ half = left \o dash
        OBVIOUS
      <4>2. i - 1 \in Nat /\ i - 1 = Len(left) /\ (i - 1) + 1 = i /\ 1 \in 1..1
        BY <2>1
      <4> HIDE DEF S, dash, half
      <4>3. /\ half \in Seq(S) /\ Len(half) = Len(left) + Len(dash)
            /\ \A k \in 1..Len(left) : half[k] = left[k]
            /\ \A k \in 1..Len(dash) : half[Len(left) + k] = dash[k]
        <5>1. left \in Seq(S) /\ dash \in Seq(S) /\ half = left \o dash
          BY <2>1, <4>1
        <5>2. QED
          BY <5>1, Joined
      <4>4. half[(i - 1) + 1] = dash[1]
        BY <4>1, <4>2, <4>3
      <4>5. QED
        BY <2>1, <4>1, <4>2, <4>3, <4>4
    <3> HIDE DEF half, S
    <3>0. spelt = half \o right /\ i \in Nat /\ i = Len(half)
      BY <2>3, <3>1 DEF half
    <3>2. /\ spelt \in Seq(S) /\ Len(spelt) = i + Len(right)
          /\ \A k \in 1..i : spelt[k] = half[k]
          /\ \A k \in 1..Len(right) : spelt[i + k] = right[k]
      BY <2>2, <3>0, <3>1, Joined
    <3>3. Len(spelt) = Len(typed) + 1
      BY <2>2, <3>2
    <3>4. ASSUME NEW k \in 1..Len(spelt), k > i
          PROVE  spelt[k] = typed[k - 1]
      <4>1. /\ k - i \in 1..Len(right) /\ i + (k - i) = k /\ i - 1 + (k - i) = k - 1
            /\ k - i \in 1..(Len(typed) - i + 1)
        BY <2>2, <3>3, <3>4
      <4>2. spelt[i + (k - i)] = right[k - i]
        BY <3>2, <4>1
      <4>3. right[k - i] = typed[i - 1 + (k - i)]
        BY <2>2, <4>1
      <4>4. QED
        BY <4>1, <4>2, <4>3
    <3>5. QED
      BY <3>1, <3>2, <3>3, <3>4
  <2>5. /\ raw \in Seq(S) /\ Len(raw) = Len(d) + 1
        /\ \A k \in 1..Len(raw) :
              raw[k] = IF k < i + 1 THEN d[k] ELSE IF k = i + 1 THEN "-" ELSE d[k - 1]
    <3>1. /\ Trunk \in Seq(S) /\ 1 = Len(Trunk) /\ Trunk[1] = "0"
          /\ 1 \in Nat /\ 1 \in 1..1
      BY DEF Trunk, Digits
    <3>0. raw = Trunk \o spelt
      OBVIOUS
    <3> HIDE DEF S, raw
    <3>9. /\ raw \in Seq(S) /\ Len(raw) = Len(Trunk) + Len(spelt)
          /\ \A k \in 1..Len(Trunk) : raw[k] = Trunk[k]
          /\ \A k \in 1..Len(spelt) : raw[Len(Trunk) + k] = spelt[k]
      <4>1. Trunk \in Seq(S) /\ spelt \in Seq(S)
        BY <2>4, <3>1
      <4>2. QED
        BY <3>0, <4>1, Joined
    <3>2. /\ raw \in Seq(S) /\ Len(raw) = 1 + Len(spelt) /\ raw[1] = "0"
          /\ \A k \in 1..Len(spelt) : raw[1 + k] = spelt[k]
      BY <3>1, <3>9
    <3>3. ASSUME NEW k \in 1..Len(raw), k > 1
          PROVE  raw[k] = IF k < i + 1 THEN d[k] ELSE IF k = i + 1 THEN "-" ELSE d[k - 1]
      <4>1. k - 1 \in 1..Len(spelt) /\ 1 + (k - 1) = k
        BY <2>4, <3>2, <3>3
      <4>2. raw[k] = IF k - 1 < i THEN typed[k - 1] ELSE IF k - 1 = i THEN "-" ELSE typed[k - 2]
        <5>1. (k - 1) - 1 = k - 2
          OBVIOUS
        <5>2. QED
          BY <2>4, <3>2, <4>1, <5>1
      <4>3. k - 1 < i => typed[k - 1] = d[k]
        <5>1. k - 1 < i => k - 1 \in 1..Len(typed)
          BY <4>1
        <5>2. QED
          BY <1>9, <4>1, <5>1
      <4>4. k - 1 > i => typed[k - 2] = d[k - 1]
        <5>1. k - 1 > i => k - 2 \in 1..Len(typed) /\ 1 + (k - 2) = k - 1
          BY <2>4, <4>1
        <5>2. QED
          BY <1>9, <5>1
      <4>5. QED
        BY <4>2, <4>3, <4>4
    <3>4. QED
      BY <1>9, <2>4, <3>2, <3>3
  <2>6. i + 1 \in 1..Len(d) /\ 1 < i + 1
    BY <1>9
  <2> HIDE DEF S, raw
  <2>7. NormalizePhoneNumber(raw) = NormalizePhoneNumber(d)
    BY <1>9, <2>5, <2>6, OfSpelt
  <2>8. QED
    BY <1>10, <2>7 DEF raw, spelt
<1>12. NormalizePhoneNumber(Trunk \o typed) = number
  BY <1>10 DEF d
<1>13. QED
  <2> HIDE DEF number
  <2>1. QED
    BY <1>3, <1>4, <1>5, <1>6, <1>7, <1>8, <1>11, <1>12 DEF SpellingsAgree

-----------------------------------------------------------------------------
(* Theorems *)

\* What is typed is a text.
IsText == typed \in Seq(Keyboard)

LEMMA TypedText == Spec => []IsText
<1>1. Init => IsText
  BY DEF Init, IsText
<1>2. IsText /\ [Next]_typed => IsText'
  BY DEF Next, Type, IsText
<1>3. QED
  BY <1>1, <1>2, PTL DEF Spec

(***************************************************************************)
(* The access code is accepted if and only if it was keyed in whole, and   *)
(* nothing else but blanks and terminator keys around it: no other entry   *)
(* gets past verify_otp, of any length, and for any code.                  *)
(***************************************************************************)
THEOREM AcceptsExactlyHolds == Spec => []AcceptsExactly
<1>1. IsText => AcceptsExactly
  BY AcceptsExactlyOf DEF IsText
<1>2. QED
  BY <1>1, TypedText, PTL

(***************************************************************************)
(* Every code the settings accept lets in whoever keys in its digits, with *)
(* the terminator key or without.                                          *)
(***************************************************************************)
THEOREM OwnCodeAcceptedHolds == Spec => []OwnCodeAccepted
<1>1. IsText => OwnCodeAccepted
  BY OwnCodeAcceptedOf DEF IsText
<1>2. QED
  BY <1>1, TypedText, PTL

(***************************************************************************)
(* Normalising a number that is normalised does not change it, so that the *)
(* API and the dialler agree on the number called.                         *)
(***************************************************************************)
THEOREM NormalizedOnceHolds == Spec => []NormalizedOnce
<1>1. IsText => NormalizedOnce
  BY NormalizedOnceOf DEF IsText
<1>2. QED
  BY <1>1, TypedText, PTL

(***************************************************************************)
(* All the ways to write a national number come to the same, or are all    *)
(* refused, and a bare one is not taken for an international one unless it *)
(* is long enough: for any country code and any limits of length.          *)
(***************************************************************************)
THEOREM SpellingsAgreeHolds == Spec => []SpellingsAgree
<1>1. IsText => SpellingsAgree
  BY SpellingsAgreeOf DEF IsText
<1>2. QED
  BY <1>1, TypedText, PTL

(***************************************************************************)
(* A masked number hides all of the shortest subscriber number but four    *)
(* digits, for any limits of length: three digits for the 7 of the code.   *)
(***************************************************************************)
THEOREM MaskHidesHolds == Spec => []MaskHides
<1>1. IsText => MaskHides
  BY MaskHidesOf DEF IsText
<1>2. QED
  BY <1>1, TypedText, PTL
=============================================================================
