---------------------------- MODULE SequenceLemmas ----------------------------
(* What the operators on sequences that several components use return, and      *)
(* which of a set of numbers CHOOSE finds.                                      *)
EXTENDS Naturals, SequencesExt, SequenceTheorems, WellFoundedInduction, TLAPS

(* RemoveAt closes the gap it leaves. *)
LEMMA RemoveAtLemma ==
  ASSUME NEW S, NEW s \in Seq(S), NEW i \in 1 .. Len(s)
  PROVE  /\ RemoveAt(s, i) \in Seq(S)
         /\ Len(RemoveAt(s, i)) = Len(s) - 1
         /\ \A j \in 1 .. Len(s) - 1 :
              RemoveAt(s, i)[j] = IF j < i THEN s[j] ELSE s[j + 1]
<1> DEFINE front == SubSeq(s, 1, i - 1)
           back == SubSeq(s, i + 1, Len(s))
<1>1. Len(s) \in Nat /\ \A j \in 1 .. Len(s) : s[j] \in S
  BY LenProperties, ElementOfSeq
<1>2. /\ front \in Seq(S)
      /\ Len(front) = i - 1
      /\ \A j \in 1 .. i - 1 : front[j] = s[j]
  <2>1. \A j \in 1 .. i - 1 : s[j] \in S  BY <1>1
  <2>2. 1 \in Int /\ i - 1 \in Int  BY <1>1
  <2> HIDE DEF front
  <2>3. /\ front \in Seq(S)
        /\ Len(front) = IF 1 <= i - 1 THEN i - 1 - 1 + 1 ELSE 0
        /\ \A j \in 1 .. i - 1 - 1 + 1 : front[j] = s[1 + j - 1]
    BY <2>1, <2>2, SubSeqProperties DEF front
  <2> QED  BY <1>1, <2>3
<1>3. /\ back \in Seq(S)
      /\ Len(back) = Len(s) - i
      /\ \A j \in 1 .. Len(s) - i : back[j] = s[i + j]
  <2>1. \A j \in i + 1 .. Len(s) : s[j] \in S  BY <1>1
  <2>2. i + 1 \in Int /\ Len(s) \in Int  BY <1>1
  <2> HIDE DEF back
  <2>3. /\ back \in Seq(S)
        /\ Len(back) = IF i + 1 <= Len(s) THEN Len(s) - (i + 1) + 1 ELSE 0
        /\ \A j \in 1 .. Len(s) - (i + 1) + 1 : back[j] = s[i + 1 + j - 1]
    BY <2>1, <2>2, SubSeqProperties DEF back
  <2> QED  BY <1>1, <2>3
<1>4. RemoveAt(s, i) = front \o back  BY DEF RemoveAt
<1> HIDE DEF front, back
<1>5. /\ front \o back \in Seq(S)
      /\ Len(front \o back) = Len(front) + Len(back)
      /\ \A j \in 1 .. Len(front) + Len(back) :
           (front \o back)[j] = IF j <= Len(front) THEN front[j] ELSE back[j - Len(front)]
  BY <1>2, <1>3, ConcatProperties
<1> QED  BY <1>1, <1>2, <1>3, <1>4, <1>5

(* The last n elements, or all of them. *)
LEMMA SuffixLemma ==
  ASSUME NEW S, NEW s \in Seq(S), NEW m \in 1 .. Len(s) + 1
  PROVE  /\ SubSeq(s, m, Len(s)) \in Seq(S)
         /\ Len(SubSeq(s, m, Len(s))) = Len(s) - m + 1
         /\ \A j \in 1 .. Len(s) - m + 1 : SubSeq(s, m, Len(s))[j] = s[m + j - 1]
<1>1. Len(s) \in Nat /\ \A j \in 1 .. Len(s) : s[j] \in S
  BY LenProperties, ElementOfSeq
<1>2. \A j \in m .. Len(s) : s[j] \in S  BY <1>1
<1>3. m \in Int /\ Len(s) \in Int  BY <1>1
<1> DEFINE t == SubSeq(s, m, Len(s))
<1> HIDE DEF t
<1>4. /\ t \in Seq(S)
      /\ Len(t) = IF m <= Len(s) THEN Len(s) - m + 1 ELSE 0
      /\ \A j \in 1 .. Len(s) - m + 1 : t[j] = s[m + j - 1]
  BY <1>2, <1>3, SubSeqProperties DEF t
<1>5. Len(t) = Len(s) - m + 1  BY <1>1, <1>4
<1> QED  BY <1>4, <1>5 DEF t

(* InsertAt moves the elements behind the new one. *)
LEMMA InsertAtLemma ==
  ASSUME NEW S, NEW s \in Seq(S), NEW i \in 1 .. Len(s) + 1, NEW e \in S
  PROVE  /\ InsertAt(s, i, e) \in Seq(S)
         /\ Len(InsertAt(s, i, e)) = Len(s) + 1
         /\ \A j \in 1 .. Len(s) + 1 :
              InsertAt(s, i, e)[j] = IF j < i THEN s[j] ELSE IF j = i THEN e ELSE s[j - 1]
<1> DEFINE front == SubSeq(s, 1, i - 1)
           back == SubSeq(s, i, Len(s))
           head == front \o <<e>>
<1>1. Len(s) \in Nat /\ i \in Nat /\ \A j \in 1 .. Len(s) : s[j] \in S
  BY LenProperties, ElementOfSeq
<1>2. /\ front \in Seq(S)
      /\ Len(front) = i - 1
      /\ \A j \in 1 .. i - 1 : front[j] = s[j]
  <2>1. \A j \in 1 .. i - 1 : s[j] \in S  BY <1>1
  <2>2. 1 \in Int /\ i - 1 \in Int  BY <1>1
  <2> HIDE DEF front
  <2>3. /\ front \in Seq(S)
        /\ Len(front) = IF 1 <= i - 1 THEN i - 1 - 1 + 1 ELSE 0
        /\ \A j \in 1 .. i - 1 - 1 + 1 : front[j] = s[1 + j - 1]
    BY <2>1, <2>2, SubSeqProperties DEF front
  <2> QED  BY <1>1, <2>3
<1>3. /\ back \in Seq(S)
      /\ Len(back) = Len(s) - i + 1
      /\ \A j \in 1 .. Len(s) - i + 1 : back[j] = s[i + j - 1]
  BY SuffixLemma
<1>4. InsertAt(s, i, e) = head \o back  BY DEF InsertAt
<1>5. <<e>> \in Seq(S) /\ Len(<<e>>) = 1 /\ <<e>>[1] = e  OBVIOUS
<1> HIDE DEF front, back
<1>6. /\ head \in Seq(S) /\ Len(head) = i
      /\ \A j \in 1 .. i : head[j] = IF j < i THEN s[j] ELSE e
  <2>1. /\ head \in Seq(S)
        /\ Len(head) = Len(front) + 1
        /\ \A j \in 1 .. Len(front) + 1 :
             head[j] = IF j <= Len(front) THEN front[j] ELSE <<e>>[j - Len(front)]
    BY <1>2, <1>5, ConcatProperties
  <2> HIDE DEF head
  <2> QED  BY <1>1, <1>2, <1>5, <2>1
<1> HIDE DEF head
<1>7. /\ head \o back \in Seq(S)
      /\ Len(head \o back) = Len(head) + Len(back)
      /\ \A j \in 1 .. Len(head) + Len(back) :
           (head \o back)[j] = IF j <= Len(head) THEN head[j] ELSE back[j - Len(head)]
  BY <1>3, <1>6, ConcatProperties
<1>8. ASSUME NEW j \in 1 .. Len(s) + 1
      PROVE  InsertAt(s, i, e)[j] = IF j < i THEN s[j] ELSE IF j = i THEN e ELSE s[j - 1]
  <2>1. CASE j <= i
    BY <1>1, <1>3, <1>4, <1>6, <1>7, <2>1
  <2>2. CASE j > i
    <3>1. j - i \in 1 .. Len(s) - i + 1 /\ i + (j - i) - 1 = j - 1  BY <1>1, <2>2
    <3>2. (head \o back)[j] = back[j - i]  BY <1>1, <1>3, <1>6, <1>7, <2>2
    <3>3. back[j - i] = s[i + (j - i) - 1]  BY <1>3, <3>1
    <3>4. InsertAt(s, i, e)[j] = s[j - 1]  BY ONLY <1>4, <3>1, <3>2, <3>3
    <3>5. ~(j < i) /\ j # i  BY <1>1, <2>2
    <3> QED  BY ONLY <3>4, <3>5
  <2> QED  BY <1>1, <2>1, <2>2
<1> QED  BY <1>1, <1>3, <1>4, <1>6, <1>7, <1>8

(* Two lists without a duplicate and without a common element, one behind the   *)
(* other.                                                                       *)
LEMMA JoinLemma ==
  ASSUME NEW S, NEW s \in Seq(S), NEW t \in Seq(S)
  PROVE  /\ s \o t \in Seq(S) /\ Len(s \o t) = Len(s) + Len(t)
         /\ ToSet(s \o t) = ToSet(s) \cup ToSet(t)
         /\ IsInjective(s) /\ IsInjective(t) /\ ToSet(s) \cap ToSet(t) = {} => IsInjective(s \o t)
<1> DEFINE u == s \o t
           n == Len(s)
           k == Len(t)
<1>1. /\ u \in Seq(S) /\ Len(u) = n + k
      /\ \A j \in 1 .. n + k : u[j] = IF j <= n THEN s[j] ELSE t[j - n]
  BY ConcatProperties
<1>2. DOMAIN s = 1 .. n /\ DOMAIN t = 1 .. k /\ n \in Nat /\ k \in Nat
  BY LenProperties
<1> HIDE DEF u
<1>3. DOMAIN u = 1 .. n + k  BY <1>1, LenProperties
<1>4. ToSet(s) = {s[j] : j \in 1 .. n} /\ ToSet(t) = {t[j] : j \in 1 .. k}
      /\ ToSet(u) = {u[j] : j \in 1 .. n + k}
  BY <1>2, <1>3 DEF ToSet
<1> HIDE DEF n, k
<1>5. \A j \in 1 .. n : j \in 1 .. n + k /\ u[j] = s[j]  BY <1>1, <1>2
<1>6. \A j \in 1 .. k : j + n \in 1 .. n + k /\ u[j + n] = t[j]
  <2> SUFFICES ASSUME NEW j \in 1 .. k PROVE j + n \in 1 .. n + k /\ u[j + n] = t[j]
    OBVIOUS
  <2>1. j + n \in 1 .. n + k /\ ~(j + n <= n) /\ j + n - n = j  BY <1>2
  <2>2. PICK i \in 1 .. n + k : i = j + n  BY <2>1
  <2>3. u[i] = IF i <= n THEN s[i] ELSE t[i - n]  BY <1>1, Zenon
  <2>4. ~(i <= n) /\ i - n = j  BY <1>2, <2>2
  <2>5. u[i] = t[j]  BY ONLY <2>3, <2>4, Zenon
  <2> QED  BY <2>2, <2>5
<1>7. ASSUME NEW j \in 1 .. n + k
      PROVE  \/ j \in 1 .. n /\ u[j] = s[j]
             \/ j - n \in 1 .. k /\ u[j] = t[j - n]
  BY <1>1, <1>2
<1>8. ToSet(u) = ToSet(s) \cup ToSet(t)
  <2>1. ToSet(u) \subseteq ToSet(s) \cup ToSet(t)  BY <1>4, <1>7
  <2>2. ToSet(s) \subseteq ToSet(u)  BY <1>4, <1>5
  <2>3. ToSet(t) \subseteq ToSet(u)  BY <1>4, <1>6
  <2> QED  BY <2>1, <2>2, <2>3
<1>9. ASSUME IsInjective(s), IsInjective(t), ToSet(s) \cap ToSet(t) = {}
      PROVE  IsInjective(u)
  <2>1. /\ \A i, j \in 1 .. n : s[i] = s[j] => i = j
        /\ \A i, j \in 1 .. k : t[i] = t[j] => i = j
    BY <1>2, <1>9 DEF IsInjective
  <2>2. \A i \in 1 .. n, j \in 1 .. k : s[i] # t[j]  BY <1>4, <1>9
  <2> SUFFICES ASSUME NEW i \in 1 .. n + k, NEW j \in 1 .. n + k, u[i] = u[j] PROVE i = j
    BY <1>3 DEF IsInjective
  <2>3. CASE i \in 1 .. n /\ u[i] = s[i]
    BY <1>7, <2>1, <2>2, <2>3
  <2>4. CASE i - n \in 1 .. k /\ u[i] = t[i - n]
    <3>1. j - n \in 1 .. k /\ u[j] = t[j - n]  BY <1>7, <2>2, <2>4
    <3>2. i - n = j - n  BY <2>1, <2>4, <3>1
    <3> QED  BY <1>2, <3>2
  <2> QED  BY <1>7, <2>3, <2>4
<1>10. IsInjective(s) /\ IsInjective(t) /\ ToSet(s) \cap ToSet(t) = {} => IsInjective(u)
  BY <1>9, Zenon
<1>11. u \in Seq(S) /\ Len(u) = n + k /\ ToSet(u) = ToSet(s) \cup ToSet(t)
  BY <1>1, <1>8
<1> QED  BY <1>10, <1>11, Zenon DEF u, n, k

-----------------------------------------------------------------------------
(* A name is a word in front of the words of an id. *)
LEMMA NameLemma ==
  ASSUME NEW S, NEW p \in S, NEW s \in Seq(S)
  PROVE  /\ <<p>> \o s \in Seq(S) /\ Len(<<p>> \o s) = Len(s) + 1
         /\ (<<p>> \o s)[1] = p
         /\ Len(s) \in Nat /\ \A i \in 1 .. Len(s) : (<<p>> \o s)[i + 1] = s[i]
<1>1. <<p>> \in Seq(S) /\ Len(<<p>>) = 1 /\ <<p>>[1] = p  OBVIOUS
<1>2. /\ <<p>> \o s \in Seq(S) /\ Len(<<p>> \o s) = 1 + Len(s)
      /\ \A i \in 1 .. 1 + Len(s) : (<<p>> \o s)[i] = IF i <= 1 THEN <<p>>[i] ELSE s[i - 1]
  BY <1>1, ConcatProperties
<1>3. Len(s) \in Nat  BY LenProperties
<1>4. (<<p>> \o s)[1] = p  BY <1>1, <1>2, <1>3
<1>5. ASSUME NEW i \in 1 .. Len(s) PROVE (<<p>> \o s)[i + 1] = s[i]
  <2>1. i + 1 \in 1 .. 1 + Len(s) /\ ~(i + 1 <= 1) /\ i + 1 - 1 = i  BY <1>3
  <2> QED  BY <1>2, <2>1
<1> QED  BY <1>2, <1>3, <1>4, <1>5

(* One name is the other with a word behind it only if the ids are so. *)
LEMMA LongerNameLemma ==
  ASSUME NEW S, NEW p \in S, NEW q \in S, NEW v \in S, NEW s \in Seq(S), NEW t \in Seq(S),
         Append(<<p>> \o s, v) = <<q>> \o t
  PROVE  IsPrefix(s, t)
<1> DEFINE a == <<p>> \o s
           b == <<q>> \o t
<1>1. /\ a \in Seq(S) /\ Len(a) = Len(s) + 1 /\ Len(s) \in Nat
      /\ \A i \in 1 .. Len(s) : a[i + 1] = s[i]
  BY NameLemma
<1>2. /\ b \in Seq(S) /\ Len(b) = Len(t) + 1 /\ Len(t) \in Nat
      /\ \A i \in 1 .. Len(t) : b[i + 1] = t[i]
  BY NameLemma
<1>3. Append(a, v) = b  OBVIOUS
<1> HIDE DEF a, b
<1>4. Len(Append(a, v)) = Len(a) + 1 /\ \A i \in 1 .. Len(a) : Append(a, v)[i] = a[i]
  BY <1>1, AppendProperties
<1>5. Len(t) = Len(s) + 1  BY <1>1, <1>2, <1>3, <1>4
<1>6. ASSUME NEW i \in 1 .. Len(s) PROVE s[i] = t[i]
  <2>1. i + 1 \in 1 .. Len(a) /\ i \in 1 .. Len(t)  BY <1>1, <1>5
  <2> QED  BY <1>1, <1>2, <1>3, <1>4, <2>1
<1>7. SubSeq(s, 1, Len(s)) = SubSeq(t, 1, Len(s))
  <2>1. \A i \in 1 .. Len(s) : s[i] \in S /\ t[i] \in S
    BY <1>6, ElementOfSeq
  <2> DEFINE x == SubSeq(s, 1, Len(s))
             y == SubSeq(t, 1, Len(s))
  <2>2. 1 \in Int /\ Len(s) \in Int  BY <1>1
  <2> HIDE DEF x, y
  <2>3. /\ x \in Seq(S) /\ Len(x) = IF 1 <= Len(s) THEN Len(s) - 1 + 1 ELSE 0
        /\ \A i \in 1 .. Len(s) - 1 + 1 : x[i] = s[1 + i - 1]
    BY <2>1, <2>2, SubSeqProperties DEF x
  <2>4. /\ y \in Seq(S) /\ Len(y) = IF 1 <= Len(s) THEN Len(s) - 1 + 1 ELSE 0
        /\ \A i \in 1 .. Len(s) - 1 + 1 : y[i] = t[1 + i - 1]
    BY <2>1, <2>2, SubSeqProperties DEF y
  <2>5. Len(x) = Len(y) /\ Len(x) = Len(s)  BY <1>1, <2>3, <2>4
  <2>6. \A i \in 1 .. Len(x) : x[i] = y[i]  BY <1>1, <1>6, <2>3, <2>4, <2>5
  <2>7. x = y  BY <2>3, <2>4, <2>5, <2>6, SeqEqual
  <2> QED  BY <2>7 DEF x, y
<1> QED  BY <1>1, <1>5, <1>7 DEF IsPrefix

(* Equal names have equal ids, and each is a prefix of the other. *)
LEMMA EqualNameLemma ==
  ASSUME NEW S, NEW p \in S, NEW q \in S, NEW s \in Seq(S), NEW t \in Seq(S),
         <<p>> \o s = <<q>> \o t
  PROVE  IsPrefix(s, t)
<1>1. /\ Len(<<p>> \o s) = Len(s) + 1 /\ Len(s) \in Nat
      /\ \A i \in 1 .. Len(s) : (<<p>> \o s)[i + 1] = s[i]
  BY NameLemma
<1>2. /\ Len(<<q>> \o t) = Len(t) + 1 /\ Len(t) \in Nat
      /\ \A i \in 1 .. Len(t) : (<<q>> \o t)[i + 1] = t[i]
  BY NameLemma
<1>3. Len(s) = Len(t)  BY <1>1, <1>2
<1>4. \A i \in 1 .. Len(s) : s[i] = t[i]  BY <1>1, <1>2, <1>3
<1>5. s = t  BY <1>3, <1>4, SeqEqual
<1> QED  BY <1>1, <1>5 DEF IsPrefix

(* A name that another name ends with a word of ends with a word of its id. *)
LEMMA LastWordLemma ==
  ASSUME NEW S, NEW q \in S, NEW t \in Seq(S), NEW x \in Seq(S), NEW h \in S, Len(x) >= 1,
         Append(x, h) = <<q>> \o t
  PROVE  h \in ToSet(t)
<1>1. /\ Len(<<q>> \o t) = Len(t) + 1 /\ Len(t) \in Nat
      /\ \A i \in 1 .. Len(t) : (<<q>> \o t)[i + 1] = t[i]
  BY NameLemma
<1>2. /\ Len(Append(x, h)) = Len(x) + 1 /\ Len(x) \in Nat
      /\ Append(x, h)[Len(x) + 1] = h
  BY AppendProperties, LenProperties
<1>3. Len(t) = Len(x) /\ Len(t) \in 1 .. Len(t)  BY <1>1, <1>2
<1>4. t[Len(t)] = h  BY <1>1, <1>2, <1>3
<1>5. DOMAIN t = 1 .. Len(t)  BY LenProperties
<1> QED  BY <1>3, <1>4, <1>5 DEF ToSet

-----------------------------------------------------------------------------
(* A set of numbers has a least one, a bounded one has a greatest. *)

LEMMA LeastLemma ==
  ASSUME NEW T \in SUBSET Nat, T # {}
  PROVE  \E m \in T : \A n \in T : m <= n
<1>1. PICK m \in T : \A n \in T : <<n, m>> \notin OpToRel(<, Nat)
  BY WFMin, NatLessThanWellFounded, Zenon
<1>2. \A n \in T : ~(n < m)  BY <1>1, Zenon DEF OpToRel
<1>3. \A n \in T : m <= n  BY <1>2
<1> QED  BY <1>3

LEMMA GreatestLemma ==
  ASSUME NEW n \in Nat, NEW T \in SUBSET (1 .. n), T # {}
  PROVE  \E m \in T : \A k \in T : k <= m
<1> DEFINE bounds == {b \in Nat : \A k \in T : k <= b}
<1>1. n \in bounds  OBVIOUS
<1>2. PICK m \in bounds : \A b \in bounds : m <= b
  BY <1>1, LeastLemma
<1>3. m \in T
  <2>1. SUFFICES ASSUME m \notin T PROVE FALSE  OBVIOUS
  <2>2. PICK k \in T : TRUE  OBVIOUS
  <2>3. m \in Nat /\ \A j \in T : j \in Nat /\ j <= m - 1  BY <1>2, <2>1
  <2>4. m - 1 \in bounds
    <3>1. k <= m - 1 /\ 1 <= k  BY <2>2, <2>3
    <3> QED  BY <2>2, <2>3, <3>1
  <2> HIDE DEF bounds
  <2> QED  BY <1>2, <2>3, <2>4
<1> QED  BY <1>2, <1>3
=============================================================================
