----------------------------- MODULE ReadingProofs -----------------------------
(***************************************************************************)
(* Theorems about the two ways of reading a listing: what the byte cap     *)
(* promises of an answer, that an agent which continues only after whole   *)
(* pages is given every row, and that an unflagged answer of a composite   *)
(* is complete; for any listing, page size, cap and limit.                 *)
(***************************************************************************)
EXTENDS Reading, SequenceLemmas, FiniteSetTheorems

-----------------------------------------------------------------------------
(* Sums.  Induction over a sequence goes by the least number of elements for    *)
(* which a statement fails.                                                     *)

(* f[m] is the sum of the first m elements, for m up to n. *)
SumsUpTo(s, n, f) == f = [m \in 0 .. n |-> IF m = 0 THEN 0 ELSE f[m - 1] + s[m]]

(* What that says of one number of elements. *)
LEMMA SumsStep ==
  ASSUME NEW s, NEW n \in Nat, NEW f, SumsUpTo(s, n, f)
  PROVE  f[0] = 0 /\ \A m \in 1 .. n : f[m] = f[m - 1] + s[m]
<1>1. f = [m \in 0 .. n |-> IF m = 0 THEN 0 ELSE f[m - 1] + s[m]]  BY DEF SumsUpTo
<1>2. f[0] = 0
  <2>1. 0 \in 0 .. n  OBVIOUS
  <2> QED  BY ONLY <1>1, <2>1, Zenon
<1>3. ASSUME NEW m \in 1 .. n PROVE f[m] = f[m - 1] + s[m]
  <2>1. m \in 0 .. n /\ m # 0  OBVIOUS
  <2> QED  BY ONLY <1>1, <2>1, Zenon
<1> QED  BY <1>2, <1>3, Zenon

LEMMA SumsExist ==
  ASSUME NEW s \in Seq(Nat), NEW n \in 0 .. Len(s)
  PROVE  \E f : SumsUpTo(s, n, f)
<1> DEFINE bad == {m \in 0 .. Len(s) : ~\E f : SumsUpTo(s, m, f)}
<1>1. Len(s) \in Nat  BY LenProperties
<1>2. SUFFICES ASSUME bad # {} PROVE FALSE  OBVIOUS
<1>3. PICK m \in bad : \A k \in bad : m <= k
  <2>1. bad \in SUBSET Nat  BY <1>1
  <2> QED  BY <1>2, <2>1, LeastLemma
<1>4. m \in 0 .. Len(s) /\ ~\E f : SumsUpTo(s, m, f)  OBVIOUS
<1>5. CASE m = 0
  <2> DEFINE f == [k \in 0 .. 0 |-> 0]
  <2>1. SumsUpTo(s, 0, f)  BY DEF SumsUpTo
  <2> QED  BY <1>4, <1>5, <2>1
<1>6. CASE m # 0
  <2>1. m - 1 \in 0 .. Len(s) /\ ~(m <= m - 1)  BY <1>1, <1>4, <1>6
  <2>2. m - 1 \notin bad  BY <1>3, <2>1
  <2>3. PICK f : SumsUpTo(s, m - 1, f)  BY <2>1, <2>2
  <2> DEFINE g == [k \in 0 .. m |-> IF k = m THEN f[m - 1] + s[m] ELSE f[k]]
  <2>4. f = [k \in 0 .. m - 1 |-> IF k = 0 THEN 0 ELSE f[k - 1] + s[k]]
    BY <2>3 DEF SumsUpTo
  <2>5. ASSUME NEW k \in 0 .. m PROVE g[k] = IF k = 0 THEN 0 ELSE g[k - 1] + s[k]
    <3>1. CASE k = m
      <4>1. m - 1 \in 0 .. m /\ m - 1 # m  BY <1>1, <1>4, <1>6
      <4> QED  BY <1>6, <3>1, <4>1
    <3>2. CASE k # m
      <4>1. k \in 0 .. m - 1  BY <1>1, <1>4, <3>2
      <4>2. f[k] = IF k = 0 THEN 0 ELSE f[k - 1] + s[k]  BY <2>4, <4>1
      <4>3. k # 0 => k - 1 \in 0 .. m /\ k - 1 # m  BY <1>1, <1>4, <3>2
      <4> QED  BY <3>2, <4>2, <4>3
    <3> QED  BY <3>1, <3>2
  <2>6. SumsUpTo(s, m, g)  BY <2>5 DEF SumsUpTo
  <2> QED  BY <1>4, <2>6
<1> QED  BY <1>5, <1>6

LEMMA TotalSums ==
  ASSUME NEW s \in Seq(Nat)
  PROVE  \E f : SumsUpTo(s, Len(s), f) /\ Total(s) = f[Len(s)]
<1>1. Len(s) \in 0 .. Len(s)  BY LenProperties
<1>2. PICK g : g = [n \in 0 .. Len(s) |-> IF n = 0 THEN 0 ELSE g[n - 1] + s[n]]
  BY <1>1, SumsExist DEF SumsUpTo
<1>3. \E f : /\ f = [n \in 0 .. Len(s) |-> IF n = 0 THEN 0 ELSE f[n - 1] + s[n]]
             /\ Total(s) = f[Len(s)]
  BY <1>2, Zenon DEF Total
<1> QED  BY <1>3 DEF SumsUpTo

(* Total is the last of any sums. *)
LEMMA TotalIs ==
  ASSUME NEW s \in Seq(Nat), NEW g, g[0] = 0,
         \A n \in 1 .. Len(s) : g[n] = g[n - 1] + s[n]
  PROVE  Total(s) = g[Len(s)]
<1>1. PICK f : SumsUpTo(s, Len(s), f) /\ Total(s) = f[Len(s)]  BY TotalSums
<1> DEFINE bad == {n \in 0 .. Len(s) : f[n] # g[n]}
<1>2. Len(s) \in Nat  BY LenProperties
<1>3. SUFFICES ASSUME bad # {} PROVE FALSE  BY <1>1, <1>2
<1>4. PICK m \in bad : \A k \in bad : m <= k
  <2>1. bad \in SUBSET Nat  BY <1>2
  <2> QED  BY <1>3, <2>1, LeastLemma
<1>5. f[0] = 0 /\ \A n \in 1 .. Len(s) : f[n] = f[n - 1] + s[n]
  BY <1>1, <1>2, SumsStep
<1>6. m # 0  BY <1>5
<1>7. m \in 1 .. Len(s) /\ m - 1 \in 0 .. Len(s) /\ ~(m <= m - 1)  BY <1>2, <1>6
<1>8. f[m - 1] = g[m - 1]  BY <1>4, <1>7
<1>9. f[m] = g[m]
  <2>1. f[m] = f[m - 1] + s[m]  BY <1>5, <1>7, Zenon
  <2>2. g[m] = g[m - 1] + s[m]  BY <1>7, Zenon
  <2> QED  BY ONLY <1>8, <2>1, <2>2
<1> QED  BY <1>9

LEMMA TotalType ==
  ASSUME NEW s \in Seq(Nat)
  PROVE  /\ Total(s) \in Nat
         /\ \E f \in [0 .. Len(s) -> Nat] :
              f[0] = 0 /\ \A n \in 1 .. Len(s) : f[n] = f[n - 1] + s[n]
<1>1. PICK f : SumsUpTo(s, Len(s), f) /\ Total(s) = f[Len(s)]  BY TotalSums
<1> DEFINE bad == {n \in 0 .. Len(s) : f[n] \notin Nat}
<1>2. Len(s) \in Nat /\ \A n \in 1 .. Len(s) : s[n] \in Nat  BY LenProperties, ElementOfSeq
<1>3. /\ f[0] = 0 /\ \A n \in 1 .. Len(s) : f[n] = f[n - 1] + s[n]
      /\ f = [n \in 0 .. Len(s) |-> f[n]]
  <2>1. f = [m \in 0 .. Len(s) |-> IF m = 0 THEN 0 ELSE f[m - 1] + s[m]]  BY <1>1 DEF SumsUpTo
  <2>2. f = [m \in 0 .. Len(s) |-> f[m]]  BY ONLY <2>1, Zenon
  <2> QED  BY <1>1, <1>2, <2>2, SumsStep
<1>4. bad = {}
  <2>1. SUFFICES ASSUME bad # {} PROVE FALSE  OBVIOUS
  <2>2. PICK m \in bad : \A k \in bad : m <= k
    <3>1. bad \in SUBSET Nat  BY <1>2
    <3> QED  BY <2>1, <3>1, LeastLemma
  <2>3. m # 0  BY <1>3
  <2>4. m \in 1 .. Len(s) /\ m - 1 \in 0 .. Len(s) /\ ~(m <= m - 1)  BY <1>2, <2>3
  <2>5. f[m - 1] \in Nat  BY <2>2, <2>4
  <2>6. f[m] \in Nat
    <3>1. f[m] = f[m - 1] + s[m]  BY <1>3, <2>4, Zenon
    <3>2. s[m] \in Nat  BY <1>2, <2>4, Zenon
    <3> QED  BY ONLY <2>5, <3>1, <3>2
  <2> QED  BY <2>6
<1>5. f \in [0 .. Len(s) -> Nat]  BY <1>3, <1>4
<1>6. Total(s) \in Nat  BY <1>1, <1>2, <1>5
<1> QED  BY <1>3, <1>5, <1>6

LEMMA TotalOfNone == Total(<<>>) = 0
<1> DEFINE g == [n \in {0} |-> 0]
<1>1. <<>> \in Seq(Nat) /\ Len(<<>>) = 0  OBVIOUS
<1>2. g[0] = 0 /\ \A n \in 1 .. 0 : g[n] = g[n - 1] + (<<>>)[n]  OBVIOUS
<1> QED  BY <1>1, <1>2, TotalIs

(* Two summands change places. *)
LEMMA SummandsCommute ==
  ASSUME NEW x \in Nat, NEW y \in Nat, NEW z \in Nat
  PROVE  (x + y) + z = (x + z) + y
OBVIOUS

(* One element more. *)
LEMMA TotalWithOne ==
  ASSUME NEW s \in Seq(Nat), NEW t \in Seq(Nat), Len(t) = Len(s), NEW i \in 1 .. Len(s),
         s[i] = 0, \A j \in 1 .. Len(s) : j # i => t[j] = s[j]
  PROVE  Total(t) = Total(s) + t[i]
<1>1. Len(s) \in Nat /\ \A j \in 1 .. Len(s) : s[j] \in Nat /\ t[j] \in Nat
  BY LenProperties, ElementOfSeq
<1>2. PICK f \in [0 .. Len(s) -> Nat] :
        f[0] = 0 /\ \A n \in 1 .. Len(s) : f[n] = f[n - 1] + s[n]
  BY TotalType
<1>3. Total(s) = f[Len(s)]  BY <1>2, TotalIs
<1> DEFINE g == [n \in 0 .. Len(s) |-> IF n < i THEN f[n] ELSE f[n] + t[i]]
<1>4. g[0] = 0  BY <1>1, <1>2
<1>5. ASSUME NEW n \in 1 .. Len(s) PROVE g[n] = g[n - 1] + t[n]
  <2>1. /\ n - 1 \in 0 .. Len(s) /\ n \in 0 .. Len(s) /\ f[n - 1] \in Nat /\ f[n] \in Nat
        /\ f[n] = f[n - 1] + s[n]
    <3>1. n - 1 \in 0 .. Len(s) /\ n \in 0 .. Len(s)  BY <1>1
    <3>2. f[n] = f[n - 1] + s[n]  BY <1>2, Zenon
    <3>3. f[n - 1] \in Nat /\ f[n] \in Nat  BY <3>1, Zenon
    <3> QED  BY <3>1, <3>2, <3>3
  <2>2. CASE n < i  BY <1>1, <2>1, <2>2
  <2>3. CASE n = i  BY <1>1, <2>1, <2>3
  <2>4. CASE n > i
    <3>1. t[n] = s[n] /\ ~(n < i) /\ ~(n - 1 < i)  BY <1>1, <2>4
    <3>2. g[n] = f[n] + t[i] /\ g[n - 1] = f[n - 1] + t[i]  BY <2>1, <3>1
    <3>3. s[n] \in Nat /\ t[i] \in Nat  BY <1>1
    <3>4. f[n - 1] \in Nat /\ f[n] = f[n - 1] + t[n] /\ t[n] \in Nat
      BY <2>1, <3>1, <3>3, Zenon
    <3>5. PICK x \in Nat, y \in Nat, z \in Nat : x = f[n - 1] /\ y = t[n] /\ z = t[i]
      BY <3>3, <3>4, Zenon
    <3>6. (x + y) + z = (x + z) + y  BY SummandsCommute, Zenon
    <3> HIDE DEF g
    <3> QED  BY <3>2, <3>4, <3>5, <3>6, Zenon
  <2> QED  BY <1>1, <2>2, <2>3, <2>4
<1>6. Total(t) = g[Len(t)]  BY <1>4, <1>5, TotalIs
<1>7. g[Len(s)] = f[Len(s)] + t[i]  BY <1>1
<1> QED  BY <1>3, <1>6, <1>7

(* No element exceeds the sum. *)
LEMMA ElementWithinTotal ==
  ASSUME NEW t \in Seq(Nat), NEW i \in 1 .. Len(t)
  PROVE  t[i] <= Total(t)
<1> DEFINE s == [j \in 1 .. Len(t) |-> IF j = i THEN 0 ELSE t[j]]
<1>1. Len(t) \in Nat /\ \A j \in 1 .. Len(t) : t[j] \in Nat  BY LenProperties, ElementOfSeq
<1>2. s \in Seq(Nat) /\ Len(s) = Len(t)  BY <1>1
<1>3. s[i] = 0 /\ \A j \in 1 .. Len(s) : j # i => t[j] = s[j]  BY <1>1, <1>2
<1> HIDE DEF s
<1>4. Total(t) = Total(s) + t[i]  BY <1>2, <1>3, TotalWithOne
<1>5. Total(s) \in Nat  BY <1>2, TotalType
<1> QED  BY <1>1, <1>4, <1>5

-----------------------------------------------------------------------------
(* Bytes. *)

Payload ==
  [other : Nat, lists : Seq(Seq(Nat)), token : BOOLEAN, bare : BOOLEAN, text : DOMAIN InText]

LEMMA PrefixLemma ==
  ASSUME NEW S, NEW s \in Seq(S), NEW n \in 0 .. Len(s)
  PROVE  /\ SubSeq(s, 1, n) \in Seq(S)
         /\ Len(SubSeq(s, 1, n)) = n
         /\ \A j \in 1 .. n : SubSeq(s, 1, n)[j] = s[j]
<1>1. Len(s) \in Nat /\ \A j \in 1 .. Len(s) : s[j] \in S
  BY LenProperties, ElementOfSeq
<1>2. \A j \in 1 .. n : s[j] \in S  BY <1>1
<1>3. 1 \in Int /\ n \in Int  BY <1>1
<1> DEFINE t == SubSeq(s, 1, n)
<1> HIDE DEF t
<1>4. /\ t \in Seq(S)
      /\ Len(t) = IF 1 <= n THEN n - 1 + 1 ELSE 0
      /\ \A j \in 1 .. n - 1 + 1 : t[j] = s[1 + j - 1]
  BY <1>2, <1>3, SubSeqProperties DEF t
<1>5. Len(t) = n /\ \A j \in 1 .. n : t[j] = s[j]  BY <1>1, <1>4
<1> QED  BY <1>4, <1>5 DEF t

LEMMA ListBytesLemma ==
  ASSUME NEW list \in Seq(Nat)
  PROVE  /\ ListBytes(list) \in Nat
         /\ list = <<>> => ListBytes(list) = 0
         /\ Cost(list) \in Nat /\ Len(list) \in Nat /\ Cost(list) >= Len(list)
         /\ list # <<>> => ListBytes(list) = Cost(list) + Len(list) - 2
<1>1. Total(list) \in Nat  BY TotalType
<1>2. Len(list) \in Nat /\ (list # <<>> => Len(list) # 0)  BY LenProperties, EmptySeq
<1>3. list = <<>> => Total(list) = 0  BY TotalOfNone
<1> QED  BY <1>1, <1>2, <1>3 DEF ListBytes, Cost, Separator

LEMMA SizesLemma ==
  ASSUME NEW lists \in Seq(Seq(Nat))
  PROVE  LET sizes == [i \in DOMAIN lists |-> ListBytes(lists[i])]
         IN  sizes \in Seq(Nat) /\ Len(sizes) = Len(lists)
<1>1. Len(lists) \in Nat /\ DOMAIN lists = 1 .. Len(lists)  BY LenProperties
<1>2. \A i \in 1 .. Len(lists) : lists[i] \in Seq(Nat)  BY ElementOfSeq
<1>3. \A i \in 1 .. Len(lists) : ListBytes(lists[i]) \in Nat  BY <1>2, ListBytesLemma
<1> QED  BY <1>1, <1>3

(* The list at position i replaced. *)
LEMMA WithListLemma ==
  ASSUME NEW p \in Payload, NEW i \in 1 .. Len(p.lists), NEW list \in Seq(Nat)
  PROVE  /\ [p EXCEPT !.lists[i] = list] \in Payload
         /\ [p EXCEPT !.lists[i] = list].lists = [p.lists EXCEPT ![i] = list]
         /\ [p EXCEPT !.lists[i] = list].other = p.other
<1>1. p.lists \in Seq(Seq(Nat)) /\ p.other \in Nat  BY DEF Payload
<1>2. [p.lists EXCEPT ![i] = list] \in Seq(Seq(Nat))  BY <1>1
<1> QED  BY <1>1, <1>2 DEF Payload

LEMMA ByteLenLemma ==
  ASSUME NEW p \in Payload, NEW i \in 1 .. Len(p.lists), NEW list \in Seq(Nat)
  PROVE  /\ ByteLen([p EXCEPT !.lists[i] = <<>>]) \in Nat
         /\ ByteLen([p EXCEPT !.lists[i] = list])
              = ByteLen([p EXCEPT !.lists[i] = <<>>]) + ListBytes(list)
<1> DEFINE e == [p.lists EXCEPT ![i] = <<>>]
           l == [p.lists EXCEPT ![i] = list]
           s == [j \in DOMAIN e |-> ListBytes(e[j])]
           t == [j \in DOMAIN l |-> ListBytes(l[j])]
<1>1. p.lists \in Seq(Seq(Nat)) /\ p.other \in Nat  BY DEF Payload
<1>2. <<>> \in Seq(Nat)  OBVIOUS
<1>3. Len(p.lists) \in Nat /\ DOMAIN p.lists = 1 .. Len(p.lists)  BY <1>1, LenProperties
<1>4. /\ e \in Seq(Seq(Nat)) /\ l \in Seq(Seq(Nat))
      /\ Len(e) = Len(p.lists) /\ Len(l) = Len(p.lists)
      /\ e[i] = <<>> /\ l[i] = list
      /\ \A j \in 1 .. Len(p.lists) : j # i => l[j] = e[j]
  BY <1>1, <1>2, <1>3
<1>5. ByteLen([p EXCEPT !.lists[i] = <<>>]) = p.other + Total(s)
  BY <1>2, WithListLemma DEF ByteLen
<1>6. ByteLen([p EXCEPT !.lists[i] = list]) = p.other + Total(t)
  BY WithListLemma DEF ByteLen
<1> HIDE DEF e, l
<1>7. DOMAIN e = 1 .. Len(p.lists) /\ DOMAIN l = 1 .. Len(p.lists)  BY <1>4, LenProperties
<1>8. s \in Seq(Nat) /\ t \in Seq(Nat) /\ Len(s) = Len(p.lists) /\ Len(t) = Len(p.lists)
  BY <1>4, SizesLemma
<1>9. s[i] = 0 /\ t[i] = ListBytes(list)
  BY <1>2, <1>4, <1>7, ListBytesLemma
<1>10. \A j \in 1 .. Len(p.lists) : j # i => t[j] = s[j]  BY <1>4, <1>7
<1> HIDE DEF s, t
<1>11. Total(t) = Total(s) + t[i]  BY <1>8, <1>9, <1>10, TotalWithOne
<1>12. Total(s) \in Nat  BY <1>8, TotalType
<1>13. ListBytes(list) \in Nat  BY ListBytesLemma
<1> QED  BY <1>1, <1>5, <1>6, <1>9, <1>11, <1>12, <1>13

(* A list and the rest of a result. *)
LEMMA EmptiedLemma ==
  ASSUME NEW p \in Payload, NEW i \in 1 .. Len(p.lists)
  PROVE  /\ ByteLen([p EXCEPT !.lists[i] = <<>>]) \in Nat /\ ListBytes(p.lists[i]) \in Nat
         /\ ByteLen(p) = ByteLen([p EXCEPT !.lists[i] = <<>>]) + ListBytes(p.lists[i])
<1>1. p.lists \in Seq(Seq(Nat))  BY DEF Payload
<1>2. p.lists[i] \in Seq(Nat)  BY <1>1, ElementOfSeq
<1>3. [p EXCEPT !.lists[i] = p.lists[i]] = p
  <2>1. [p.lists EXCEPT ![i] = p.lists[i]] = p.lists
    <3>1. p.lists = [j \in 1 .. Len(p.lists) |-> p.lists[j]]  BY <1>1, LenProperties
    <3> DEFINE l == p.lists
    <3>2. l = [j \in DOMAIN l |-> l[j]]  BY <3>1
    <3> HIDE DEF l
    <3>3. [l EXCEPT ![i] = l[i]] = l  BY ONLY <3>2
    <3> QED  BY <3>3 DEF l
  <2>2. [p EXCEPT !.lists[i] = p.lists[i]] = [p EXCEPT !.lists = p.lists]  BY <2>1
  <2> QED  BY <2>2 DEF Payload
<1>4. ListBytes(p.lists[i]) \in Nat  BY <1>2, ListBytesLemma
<1> QED  BY <1>2, <1>3, <1>4, ByteLenLemma

(* Without the longest of its lists a result has no more bytes than without     *)
(* another one.                                                                 *)
LEMMA WithoutLongest ==
  ASSUME NEW p \in Payload, NEW i \in 1 .. Len(p.lists), NEW j \in 1 .. Len(p.lists),
         ListBytes(p.lists[j]) <= ListBytes(p.lists[i])
  PROVE  ByteLen([p EXCEPT !.lists[i] = <<>>]) <= ByteLen([p EXCEPT !.lists[j] = <<>>])
<1>1. PICK x \in Nat, y \in Nat :
        /\ x = ByteLen([p EXCEPT !.lists[i] = <<>>]) /\ y = ListBytes(p.lists[i])
        /\ ByteLen(p) = x + y
  BY EmptiedLemma
<1>2. PICK u \in Nat, v \in Nat :
        /\ u = ByteLen([p EXCEPT !.lists[j] = <<>>]) /\ v = ListBytes(p.lists[j])
        /\ ByteLen(p) = u + v
  BY EmptiedLemma
<1>3. x + y = u + v /\ v <= y  BY <1>1, <1>2
<1>4. x <= u  BY ONLY <1>3, x \in Nat, y \in Nat, u \in Nat, v \in Nat
<1> QED  BY <1>1, <1>2, <1>4

(* There is a first list of the longest. *)
LEMMA MainListLemma ==
  ASSUME NEW p \in Payload, Candidates(p) # {}
  PROVE  /\ MainList(p) \in 1 .. Len(p.lists)
         /\ \A j \in 1 .. Len(p.lists) : ListBytes(p.lists[j]) <= ListBytes(p.lists[MainList(p)])
<1> DEFINE sizes == [i \in DOMAIN p.lists |-> ListBytes(p.lists[i])]
           values == {sizes[i] : i \in Candidates(p)}
<1>1. p.lists \in Seq(Seq(Nat)) /\ Len(p.lists) \in Nat /\ DOMAIN p.lists = 1 .. Len(p.lists)
  BY LenProperties DEF Payload
<1>2. sizes \in Seq(Nat) /\ Len(sizes) = Len(p.lists)  BY <1>1, SizesLemma
<1>3. Candidates(p) \subseteq 1 .. Len(p.lists)  BY <1>1 DEF Candidates
<1>4. \A i \in Candidates(p) : sizes[i] = ListBytes(p.lists[i]) /\ sizes[i] \in Nat
  BY <1>1, <1>2, <1>3
<1> HIDE DEF sizes
<1> DEFINE bounds == {b \in Nat : \A v \in values : v <= b}
<1>5. Total(sizes) \in bounds
  BY <1>2, <1>3, TotalType, ElementWithinTotal
<1>6. PICK b \in bounds : \A c \in bounds : b <= c  BY <1>5, LeastLemma
<1> DEFINE longest == {i \in Candidates(p) : sizes[i] = b}
<1>7. longest # {}
  <2>1. SUFFICES ASSUME longest = {} PROVE FALSE  OBVIOUS
  <2>2. ASSUME NEW v \in values PROVE v \in Nat /\ v <= b - 1
    <3>1. PICK i \in Candidates(p) : v = sizes[i]  OBVIOUS
    <3>2. v # b  BY <2>1, <3>1
    <3>3. b \in Nat /\ v <= b  BY <1>6
    <3>4. v \in Nat  BY <1>4, <3>1
    <3> QED  BY ONLY <3>2, <3>3, <3>4
  <2>3. PICK v \in values : TRUE  OBVIOUS
  <2>4. b - 1 \in Nat  BY <1>6, <2>2, <2>3
  <2>5. b - 1 \in bounds  BY <2>2, <2>4
  <2>6. b \in Nat /\ b <= b - 1  BY <1>6, <2>5
  <2> QED  BY <2>6
<1>8. PICK i \in longest : \A j \in longest : i <= j
  <2>1. longest \in SUBSET Nat  BY <1>1, <1>3
  <2> QED  BY <1>7, <2>1, LeastLemma
<1>9. \A j \in Candidates(p) :
        \/ ListBytes(p.lists[j]) < ListBytes(p.lists[i])
        \/ ListBytes(p.lists[j]) = ListBytes(p.lists[i]) /\ i <= j
  <2> SUFFICES ASSUME NEW j \in Candidates(p)
               PROVE  sizes[j] < sizes[i] \/ (sizes[j] = sizes[i] /\ i <= j)
    BY <1>4
  <2>1. sizes[j] <= b /\ sizes[j] \in Nat /\ sizes[i] = b /\ b \in Nat  BY <1>4, <1>6
  <2> QED  BY <1>8, <2>1
<1>10. /\ MainList(p) \in Candidates(p)
       /\ \A j \in Candidates(p) :
            \/ ListBytes(p.lists[j]) < ListBytes(p.lists[MainList(p)])
            \/ ListBytes(p.lists[j]) = ListBytes(p.lists[MainList(p)]) /\ MainList(p) <= j
  BY <1>9, Zenon DEF MainList
<1>11. ASSUME NEW j \in 1 .. Len(p.lists)
       PROVE  ListBytes(p.lists[j]) <= ListBytes(p.lists[MainList(p)])
  <2>1. ListBytes(p.lists[MainList(p)]) \in Nat  BY <1>4, <1>10
  <2>2. CASE j \in Candidates(p)
    <3>1. ListBytes(p.lists[j]) \in Nat  BY <1>4, <2>2
    <3>2. \/ ListBytes(p.lists[j]) < ListBytes(p.lists[MainList(p)])
          \/ ListBytes(p.lists[j]) = ListBytes(p.lists[MainList(p)])
      BY <1>10, <2>2
    <3> QED  BY ONLY <2>1, <3>1, <3>2
  <2>3. CASE j \notin Candidates(p)
    <3>1. ~p.bare  BY DEF Candidates
    <3>2. p.lists[j] = <<>>  BY <1>1, <2>3, <3>1 DEF Candidates
    <3>3. ListBytes(<<>>) = 0
      <4>1. <<>> \in Seq(Nat)  OBVIOUS
      <4> QED  BY <4>1, ListBytesLemma
    <3> QED  BY <2>1, <3>2, <3>3
  <2> QED  BY <2>2, <2>3
<1> QED  BY <1>3, <1>10, <1>11

LEMMA KeptLemma ==
  ASSUME NEW list \in Seq(Nat), NEW room \in Nat
  PROVE  /\ Kept(list, room) \in Seq(Nat)
         /\ Len(Kept(list, room)) <= Len(list)
         /\ Cost(Kept(list, room)) <= room
<1> DEFINE paid(n) == /\ Cost(SubSeq(list, 1, n)) <= room
                      /\ n < Len(list) => Cost(SubSeq(list, 1, n + 1)) > room
           stops == {n \in 0 .. Len(list) :
                       n < Len(list) => Cost(SubSeq(list, 1, n + 1)) > room}
<1>1. Len(list) \in Nat  BY LenProperties
<1>2. \A n \in 0 .. Len(list) : /\ SubSeq(list, 1, n) \in Seq(Nat)
                                /\ Len(SubSeq(list, 1, n)) = n
                                /\ Cost(SubSeq(list, 1, n)) \in Nat
  BY PrefixLemma, ListBytesLemma
<1>3. Len(list) \in stops  BY <1>1
<1>4. PICK n \in stops : \A m \in stops : n <= m
  <2>1. stops \in SUBSET Nat  BY <1>1
  <2> QED  BY <1>3, <2>1, LeastLemma
<1>5. Cost(SubSeq(list, 1, n)) <= room
  <2>1. CASE n = 0
    <3>1. SubSeq(list, 1, n) = <<>>  BY <1>1, <1>2, <2>1, EmptySeq
    <3>2. Cost(<<>>) = 0  BY TotalOfNone DEF Cost
    <3>3. Cost(SubSeq(list, 1, n)) = 0  BY ONLY <3>1, <3>2, Zenon
    <3> QED  BY <3>3
  <2>2. CASE n # 0
    <3>1. n - 1 \in 0 .. Len(list) /\ ~(n <= n - 1) /\ n - 1 < Len(list) /\ (n - 1) + 1 = n
      BY <1>1, <2>2
    <3>2. n - 1 \notin stops  BY <1>4, <3>1
    <3>3. ~(Cost(SubSeq(list, 1, n)) > room)  BY <3>1, <3>2
    <3>4. Cost(SubSeq(list, 1, n)) \in Nat  BY <1>2
    <3> QED  BY <3>3, <3>4
  <2> QED  BY <2>1, <2>2
<1>6. \E m \in 0 .. Len(list) : paid(m)  BY <1>5
<1> HIDE DEF stops
<1>7. PICK m \in 0 .. Len(list) : paid(m) /\ Kept(list, room) = SubSeq(list, 1, m)
  <2>1. Kept(list, room) = SubSeq(list, 1, CHOOSE m \in 0 .. Len(list) : paid(m))
    BY Zenon DEF Kept
  <2> HIDE DEF paid
  <2> QED  BY <1>6, <2>1, Zenon
<1>8. Len(Kept(list, room)) = m /\ Kept(list, room) \in Seq(Nat)  BY <1>2, <1>7
<1> QED  BY <1>1, <1>7, <1>8

-----------------------------------------------------------------------------
(* What _shape answers. *)

(* How many rows an answer gives of a payload's first list. *)
LengthOfFirst(lists) == IF lists = <<>> THEN 0 ELSE Len(lists[1])

LEMMA UncappedLemma ==
  ASSUME NEW p \in Payload, answer' = Uncapped(p)
  PROVE  ~answer'.capped /\ answer'.result = p /\ OverrunIsBounded'
BY DEF Uncapped, OverrunIsBounded

(* A longest list is trimmed to what the room pays: the bytes are over the cap  *)
(* by no more than the separators that were not charged, or nothing was kept    *)
(* and what remains is the least that trimming one list can leave.              *)
LEMMA TruncatedLemma ==
  ASSUME NEW p \in Payload, Candidates(p) # {}, NEW i \in 1 .. Len(p.lists),
         \A j \in 1 .. Len(p.lists) : ListBytes(p.lists[j]) <= ListBytes(p.lists[i]),
         answer' = Truncated(p, i)
  PROVE  /\ OverrunIsBounded'
         /\ answer'.capped
         /\ LengthOfFirst(answer'.result.lists) \in 0 .. LengthOfFirst(p.lists)
<1> DEFINE empty == ByteLen([p EXCEPT !.lists[i] = <<>>])
           list == Kept(p.lists[i], Room(p, i))
           result == [p EXCEPT !.lists[i] = list]
<1>1. p.lists \in Seq(Seq(Nat)) /\ Len(p.lists) \in Nat  BY LenProperties DEF Payload
<1>2. p.lists[i] \in Seq(Nat)  BY <1>1, ElementOfSeq
<1>3. MaxBytes \in Nat /\ Reserve \in Nat /\ Metadata \in Nat /\ Metadata <= Reserve
  BY BudgetAssumption, ReserveAssumption
<1>4. empty \in Nat  BY <1>2, ByteLenLemma
<1>5. Room(p, i) = IF empty + Reserve > MaxBytes THEN 0 ELSE MaxBytes - (empty + Reserve)
  BY DEF Room
<1> HIDE DEF empty
<1>6. Room(p, i) \in Nat  BY <1>3, <1>4, <1>5
<1>7. list \in Seq(Nat) /\ Len(list) <= Len(p.lists[i]) /\ Cost(list) <= Room(p, i)
  BY <1>2, <1>6, KeptLemma
<1>8. /\ answer'.capped /\ answer'.result = result /\ answer'.original = p
      /\ answer'.returned = Len(list) /\ answer'.bytes = ByteLen(result) + Metadata
  BY DEF Truncated
<1>9. ByteLen(result) = empty + ListBytes(list)  BY <1>7, ByteLenLemma DEF empty
<1>10. result.lists = [p.lists EXCEPT ![i] = list]  BY <1>7, WithListLemma
<1> HIDE DEF list, result
<1>11. OverrunIsBounded'
  <2>1. /\ ListBytes(list) \in Nat /\ Cost(list) \in Nat /\ Len(list) \in Nat
        /\ Cost(list) >= Len(list)
        /\ list = <<>> => ListBytes(list) = 0
        /\ list # <<>> => ListBytes(list) = Cost(list) + Len(list) - 2
    BY <1>7, ListBytesLemma
  <2>2. CASE list = <<>>
    <3>1. ListBytes(list) = 0 /\ Len(list) = 0  BY <2>1, <2>2
    <3>2. answer'.returned = 0 /\ answer'.bytes = empty + Metadata
      BY <1>3, <1>4, <1>8, <1>9, <3>1
    <3>3. ASSUME NEW j \in DOMAIN p.lists
          PROVE  answer'.bytes <= ByteLen([p EXCEPT !.lists[j] = <<>>]) + Metadata
      <4>1. j \in 1 .. Len(p.lists)  BY <1>1, LenProperties
      <4>2. empty <= ByteLen([p EXCEPT !.lists[j] = <<>>])  BY <4>1, WithoutLongest DEF empty
      <4>3. PICK u \in Nat : u = ByteLen([p EXCEPT !.lists[j] = <<>>])  BY <4>1, EmptiedLemma
      <4>4. empty <= u  BY <4>2, <4>3
      <4>5. empty + Metadata <= u + Metadata  BY ONLY <1>3, <1>4, <4>4, u \in Nat
      <4> QED  BY <3>2, <4>3, <4>5
    <3> QED  BY <1>8, <3>2, <3>3, Zenon DEF OverrunIsBounded
  <2>3. CASE list # <<>>
    <3>1. Len(list) > 0  BY <1>7, <2>1, <2>3, EmptySeq
    <3>2. Room(p, i) > 0  BY <1>6, <1>7, <2>1, <3>1
    <3>3. Room(p, i) = MaxBytes - (empty + Reserve)  BY <1>5, <3>2
    <3>4. answer'.bytes = empty + Cost(list) + Len(list) - 2 + Metadata
      BY <1>3, <1>4, <1>8, <1>9, <2>1, <2>3
    <3>5. Cost(list) <= MaxBytes - (empty + Reserve)  BY <1>7, <3>3
    <3>6. answer'.bytes <= MaxBytes - (Reserve - Metadata) + (Len(list) - 2)
      BY <1>3, <1>4, <2>1, <3>4, <3>5
    <3>7. answer'.bytes <= MaxBytes - (Reserve - Metadata)
                           + (IF Len(list) > 2 THEN Len(list) - 2 ELSE 0)
      <4> DEFINE a == answer'.bytes
                 c == Cost(list)
                 n == Len(list)
      <4>1. a = empty + c + n - 2 + Metadata /\ c \in Nat /\ n \in Nat
        BY <2>1, <3>4
      <4>2. a <= MaxBytes - (Reserve - Metadata) + (n - 2)  BY <3>6
      <4> HIDE DEF a, c, n
      <4>3. a \in Int  BY <1>3, <1>4, <4>1
      <4>4. a <= MaxBytes - (Reserve - Metadata) + (IF n > 2 THEN n - 2 ELSE 0)
        BY ONLY <1>3, <4>1, <4>2, <4>3
      <4> QED  BY <4>4 DEF a, n
    <3> QED  BY <1>8, <3>7 DEF OverrunIsBounded
  <2> QED  BY <2>2, <2>3
<1>12. LengthOfFirst(result.lists) \in 0 .. LengthOfFirst(p.lists)
  <2>1. p.lists # <<>> /\ 1 \in 1 .. Len(p.lists) /\ DOMAIN p.lists = 1 .. Len(p.lists)
    BY <1>1, LenProperties
  <2>2. result.lists \in Seq(Seq(Nat)) /\ Len(result.lists) = Len(p.lists)
    BY <1>1, <1>7, <1>10
  <2>3. result.lists # <<>>  BY <1>1, <2>1, <2>2
  <2>4. result.lists[1] = IF i = 1 THEN list ELSE p.lists[1]  BY <1>1, <1>10, <2>1
  <2>5. p.lists[1] \in Seq(Nat) /\ Len(p.lists[1]) \in Nat
    BY <1>1, <2>1, ElementOfSeq, LenProperties
  <2>6. Len(result.lists[1]) \in 0 .. Len(p.lists[1])  BY <1>7, <2>4, <2>5, LenProperties
  <2> QED  BY <2>1, <2>3, <2>6 DEF LengthOfFirst
<1> QED  BY <1>8, <1>11, <1>12

LEMMA PreviewLemma ==
  ASSUME NEW p \in Payload, Candidates(p) = {}, answer' = Preview(p)
  PROVE  /\ OverrunIsBounded'
         /\ answer'.capped
         /\ LengthOfFirst(answer'.result.lists) = 0
<1> DEFINE length == ByteLen(p) \div InText[p.text]
           chars == IF length < PreviewRoom THEN length ELSE PreviewRoom
<1>1. PreviewRoom \in Nat
  <2>1. MaxBytes \in Nat /\ Reserve \in Nat  BY BudgetAssumption, ReserveAssumption
  <2> QED  BY ONLY <2>1 DEF PreviewRoom
<1>2. Metadata \in Nat  BY ReserveAssumption
<1>3. ByteLen(p) \in Nat
  <2>1. p.lists \in Seq(Seq(Nat)) /\ p.other \in Nat  BY DEF Payload
  <2>2. [i \in DOMAIN p.lists |-> ListBytes(p.lists[i])] \in Seq(Nat)  BY <2>1, SizesLemma
  <2>3. Total([i \in DOMAIN p.lists |-> ListBytes(p.lists[i])]) \in Nat  BY <2>2, TotalType
  <2> QED  BY <2>1, <2>3 DEF ByteLen
<1>4. InText[p.text] \in {1, 4} /\ InPreview[p.text] \in {1, 2, 4}
  BY DEF Payload, InText, InPreview
<1>5. length \in Nat
  <2>1. PICK b \in Nat, d \in {1, 4} : b = ByteLen(p) /\ d = InText[p.text]  BY <1>3, <1>4
  <2>2. b \div 1 \in Nat /\ b \div 4 \in Nat  OBVIOUS
  <2> QED  BY <2>1, <2>2
<1>6. /\ answer'.capped /\ answer'.returned = 0 /\ answer'.original = p
      /\ answer'.result.lists = <<>>
      /\ answer'.bytes = Metadata + chars * InPreview[p.text]
  BY DEF Preview, Stub
<1> HIDE DEF length
<1>7. chars \in Nat /\ chars <= PreviewRoom  BY <1>1, <1>5
<1> HIDE DEF chars
<1>8. ASSUME NEW c \in Nat, NEW r \in Nat, NEW d \in {1, 2, 4}, c <= r
      PROVE  c * d <= 4 * r
  <2>1. c * 1 <= 4 * r /\ c * 2 <= 4 * r /\ c * 4 <= 4 * r  BY <1>8
  <2> QED  BY <2>1
<1>9. answer'.bytes <= Metadata + 4 * PreviewRoom
  <2>1. PICK n \in Nat, r \in Nat, d \in {1, 2, 4} :
          n = chars /\ r = PreviewRoom /\ d = InPreview[p.text]
    BY <1>1, <1>4, <1>7
  <2>2. n * d <= 4 * r  BY <1>7, <1>8, <2>1
  <2>3. n * d \in Nat /\ 4 * r \in Nat
    <3>1. n * 1 \in Nat /\ n * 2 \in Nat /\ n * 4 \in Nat  OBVIOUS
    <3> QED  BY <3>1
  <2>4. Metadata + n * d <= Metadata + 4 * r  BY ONLY <1>2, <2>2, <2>3
  <2> QED  BY <1>6, <2>1, <2>4
<1>10. LengthOfFirst(answer'.result.lists) = 0  BY <1>6 DEF LengthOfFirst
<1> QED  BY <1>6, <1>9, <1>10 DEF OverrunIsBounded

(* A projection keeps every item. *)
LEMMA ProjectLemma ==
  ASSUME NEW p \in Payload, NEW fields
  PROVE  /\ Project(p, fields) \in Payload
         /\ LengthOfFirst(Project(p, fields).lists) = LengthOfFirst(p.lists)
         /\ Project(p, fields).token = p.token
<1> DEFINE l == [i \in DOMAIN p.lists |-> Projected(p.lists[i])]
<1>1. p.lists \in Seq(Seq(Nat)) /\ Len(p.lists) \in Nat /\ DOMAIN p.lists = 1 .. Len(p.lists)
  BY LenProperties DEF Payload
<1>2. ASSUME NEW list \in Seq(Nat)
      PROVE  Projected(list) \in Seq(Nat) /\ Len(Projected(list)) = Len(list)
  <2>1. Len(list) \in Nat /\ DOMAIN list = 1 .. Len(list) /\ \A i \in 1 .. Len(list) : list[i] \in Nat
    BY LenProperties, ElementOfSeq
  <2> QED  BY <2>1, SlimAssumption DEF Projected
<1>3. \A i \in 1 .. Len(p.lists) : p.lists[i] \in Seq(Nat)  BY <1>1, ElementOfSeq
<1>4. \A i \in 1 .. Len(p.lists) :
        Projected(p.lists[i]) \in Seq(Nat) /\ Len(Projected(p.lists[i])) = Len(p.lists[i])
  BY <1>2, <1>3
<1>5. l \in Seq(Seq(Nat)) /\ Len(l) = Len(p.lists)
      /\ \A i \in 1 .. Len(p.lists) : Len(l[i]) = Len(p.lists[i])
  BY <1>1, <1>4
<1>6. LengthOfFirst(l) = LengthOfFirst(p.lists)
  <2>1. l = <<>> <=> p.lists = <<>>  BY <1>1, <1>5, EmptySeq
  <2>2. p.lists # <<>> => 1 \in 1 .. Len(p.lists)  BY <1>1, EmptySeq
  <2> HIDE DEF l
  <2> QED  BY <1>5, <2>1, <2>2 DEF LengthOfFirst
<1>7. CASE fields /\ ~p.bare
  <2>1. Project(p, fields) = [p EXCEPT !.lists = l]  BY <1>7 DEF Project
  <2> HIDE DEF l
  <2>2. [p EXCEPT !.lists = l] \in Payload /\ [p EXCEPT !.lists = l].lists = l
        /\ [p EXCEPT !.lists = l].token = p.token
    BY <1>5 DEF Payload
  <2> QED  BY <1>6, <2>1, <2>2
<1>8. CASE ~(fields /\ ~p.bare)  BY <1>8 DEF Project
<1> QED  BY <1>7, <1>8

LEMMA ShapeLemma ==
  ASSUME NEW p \in Payload, NEW fields, answer' = Shape(p, fields)
  PROVE  /\ OverrunIsBounded'
         /\ LengthOfFirst(answer'.result.lists) \in 0 .. LengthOfFirst(p.lists)
         /\ ~answer'.capped => /\ LengthOfFirst(answer'.result.lists) = LengthOfFirst(p.lists)
                               /\ answer'.result.token = p.token
<1> DEFINE q == Project(p, fields)
<1>1. q \in Payload /\ LengthOfFirst(q.lists) = LengthOfFirst(p.lists) /\ q.token = p.token
  BY ProjectLemma
<1>2. answer' = Cap(q)  BY DEF Shape
<1> HIDE DEF q
<1>3. LengthOfFirst(q.lists) \in Nat
  <2>1. q.lists \in Seq(Seq(Nat)) /\ Len(q.lists) \in Nat  BY <1>1, LenProperties DEF Payload
  <2>2. q.lists # <<>> => q.lists[1] \in Seq(Nat)  BY <2>1, ElementOfSeq, EmptySeq
  <2> QED  BY <2>2, LenProperties DEF LengthOfFirst
<1>4. CASE ByteLen(q) <= MaxBytes
  <2>1. answer' = Uncapped(q)  BY <1>2, <1>4 DEF Cap
  <2>2. ~answer'.capped /\ answer'.result = q /\ OverrunIsBounded'
    BY <1>1, <2>1, UncappedLemma
  <2> QED  BY <1>1, <1>3, <2>2
<1>5. CASE ~(ByteLen(q) <= MaxBytes) /\ Candidates(q) # {}
  <2>1. answer' = Truncated(q, MainList(q))  BY <1>2, <1>5 DEF Cap
  <2>2. /\ MainList(q) \in 1 .. Len(q.lists)
        /\ \A j \in 1 .. Len(q.lists) : ListBytes(q.lists[j]) <= ListBytes(q.lists[MainList(q)])
    BY <1>1, <1>5, MainListLemma
  <2> QED  BY <1>1, <1>5, <2>1, <2>2, TruncatedLemma
<1>6. CASE ~(ByteLen(q) <= MaxBytes) /\ Candidates(q) = {}
  <2>1. answer' = Preview(q)  BY <1>2, <1>6 DEF Cap
  <2> QED  BY <1>1, <1>3, <1>6, <2>1, PreviewLemma
<1> QED  BY <1>4, <1>5, <1>6

-----------------------------------------------------------------------------
(* An agent that pages through a listing itself. *)

ListingTypeOK ==
  /\ rows \in Seq(Nat) /\ other \in Seq(Nat)
  /\ start \in 0 .. Len(rows) /\ end \in 0 .. Len(rows)
  /\ limit \subseteq Nat
  /\ seen \subseteq 1 .. Len(rows)
  /\ status \in {"calling", "deciding", "done"}

(* What the agent was given when it waits for nothing but its own decision: up  *)
(* to where it continues from, all of it; and all of a page that came whole.    *)
ReadSoFar ==
  /\ 1 .. start \subseteq seen
  /\ status = "deciding" /\ ~answer.capped =>
       /\ 1 .. end \subseteq seen
       /\ ~answer.result.token => end = Len(rows)
  /\ status = "done" => seen = 1 .. Len(rows)

ListingInv == ListingTypeOK /\ OverrunIsBounded /\ (~UsesToken => ReadSoFar)

LEMMA PageLemma ==
  ASSUME ListingTypeOK, NEW size \in Nat, NEW body \in Bodies(size)
  PROVE  /\ EndOf(size) \in start .. Len(rows)
         /\ body \in Payload
         /\ LengthOfFirst(body.lists) = EndOf(size) - start
         /\ body.token <=> EndOf(size) < Len(rows)
<1> DEFINE e == EndOf(size)
           page == PageOf(size)
<1>1. Len(rows) \in Nat /\ start \in 0 .. Len(rows) /\ rows \in Seq(Nat) /\ other \in Seq(Nat)
  BY LenProperties DEF ListingTypeOK
<1>2. e \in start .. Len(rows)  BY <1>1 DEF EndOf
<1>3. page = SubSeq(rows, start + 1, e)  BY DEF PageOf
<1> HIDE DEF e, page
<1>4. \A i \in start + 1 .. e : rows[i] \in Nat
  <2>1. \A i \in start + 1 .. e : i \in 1 .. Len(rows)  BY <1>1, <1>2
  <2> QED  BY <1>1, <2>1, ElementOfSeq
<1>5. page \in Seq(Nat) /\ Len(page) = e - start
  <2>1. start + 1 \in Int /\ e \in Int  BY <1>1, <1>2
  <2>2. page \in Seq(Nat) /\ Len(page) = IF start + 1 <= e THEN e - (start + 1) + 1 ELSE 0
    BY <1>3, <1>4, <2>1, SubSeqProperties
  <2> QED  BY <1>1, <1>2, <2>2
<1>6. CASE body = Page(size)
  <2>1. body = [other |-> Skeleton, lists |-> <<page, other>>, token |-> e < Len(rows),
                bare |-> FALSE, text |-> "plain"]
    BY <1>6 DEF Page, e, page
  <2>2. <<page, other>> \in Seq(Seq(Nat))  BY <1>1, <1>5
  <2>3. (e < Len(rows)) \in BOOLEAN  OBVIOUS
  <2>4. body \in Payload  BY <2>1, <2>2, <2>3, ListingsAssumption DEF Payload, InText
  <2>5. body.lists # <<>> /\ body.lists[1] = page  BY <2>1
  <2>6. LengthOfFirst(body.lists) = e - start  BY <1>5, <2>5 DEF LengthOfFirst
  <2>7. body.token <=> e < Len(rows)  BY <2>1
  <2> QED  BY <1>2, <2>4, <2>6, <2>7, Zenon DEF e
<1>7. CASE e = Len(rows) /\ \E text \in DOMAIN InText : body = BareList(size, text)
  <2>1. PICK text \in DOMAIN InText :
          body = [other |-> 2, lists |-> <<page>>, token |-> FALSE, bare |-> TRUE, text |-> text]
    BY <1>7 DEF BareList, page
  <2>2. <<page>> \in Seq(Seq(Nat))  BY <1>5
  <2>3. body \in Payload  BY <2>1, <2>2 DEF Payload
  <2>4. body.lists # <<>> /\ body.lists[1] = page  BY <2>1
  <2>5. LengthOfFirst(body.lists) = e - start  BY <1>5, <2>4 DEF LengthOfFirst
  <2>6. body.token <=> e < Len(rows)
    <3>0. e = Len(rows) /\ Len(rows) \in Nat  BY <1>1, <1>7, Zenon
    <3>1. ~(e < Len(rows))  BY ONLY <3>0
    <3>2. body.token = FALSE  BY <2>1
    <3> QED  BY <3>1, <3>2
  <2> QED  BY <1>2, <2>3, <2>5, <2>6, Zenon DEF e
<1> QED  BY <1>6, <1>7 DEF Bodies, e

LEMMA ListingStart ==
  ASSUME answer = Uncapped(EmptyPage)
  PROVE  OverrunIsBounded
BY DEF Uncapped, OverrunIsBounded

LEMMA ListingInit == ReadingInit => ListingInv
<1> SUFFICES ASSUME ReadingInit PROVE ListingInv  OBVIOUS
<1>1. CASE Init
  <2>1. rows \in Seq(Nat) /\ other \in Seq(Nat)  BY <1>1, ListingsAssumption DEF Init
  <2>2. /\ answer = Uncapped(EmptyPage)
        /\ start = 0 /\ end = 0 /\ limit = PageSizes /\ seen = {} /\ status = "calling"
    BY <1>1 DEF Init
  <2>3. Len(rows) \in Nat  BY <2>1, LenProperties
  <2>4. ListingTypeOK  BY <2>1, <2>2, <2>3, ListingsAssumption DEF ListingTypeOK
  <2>5. ReadSoFar  BY <2>2 DEF ReadSoFar
  <2> QED  BY <2>2, <2>4, <2>5, ListingStart DEF ListingInv
<1>2. CASE NoListing
  <2>1. /\ answer = Uncapped(EmptyPage)
        /\ rows = <<>> /\ other = <<>>
        /\ start = 0 /\ end = 0 /\ limit = {} /\ seen = {} /\ status = "done"
    BY <1>2 DEF NoListing
  <2>2. rows \in Seq(Nat) /\ other \in Seq(Nat) /\ Len(rows) = 0  BY <2>1
  <2>3. ListingTypeOK  BY <2>1, <2>2 DEF ListingTypeOK
  <2>4. ReadSoFar  BY <2>1, <2>2 DEF ReadSoFar
  <2> QED  BY <2>1, <2>3, <2>4, ListingStart DEF ListingInv
<1> QED  BY <1>1, <1>2 DEF ReadingInit

LEMMA ListingCall ==
  ASSUME ListingInv, NEW size \in PageSizes, NEW fields \in BOOLEAN, CallTool(size, fields)
  PROVE  ListingInv'
<1> DEFINE n == Len(RowsOf(answer'))
<1>1. ListingTypeOK /\ Len(rows) \in Nat /\ size \in Nat
  BY LenProperties, ListingsAssumption DEF ListingInv, ListingTypeOK
<1>2. /\ end' = EndOf(size)
      /\ seen' = seen \cup (start + 1 .. start + n)
      /\ limit' = {s \in PageSizes : s < size}
      /\ status' = "deciding"
      /\ rows' = rows /\ other' = other /\ start' = start
  BY DEF CallTool
<1>0. PICK body \in Bodies(size) : answer' = Shape(body, fields)  BY DEF CallTool
<1>3. /\ EndOf(size) \in start .. Len(rows)
      /\ body \in Payload
      /\ LengthOfFirst(body.lists) = EndOf(size) - start
      /\ body.token <=> EndOf(size) < Len(rows)
  BY <1>1, PageLemma
<1>4. n = LengthOfFirst(answer'.result.lists)
  BY DEF RowsOf, LengthOfFirst
<1> HIDE DEF n
<1>5. /\ OverrunIsBounded'
      /\ n \in 0 .. EndOf(size) - start
      /\ ~answer'.capped => /\ n = EndOf(size) - start
                            /\ answer'.result.token = body.token
  BY <1>0, <1>3, <1>4, ShapeLemma
<1>6. start \in 0 .. Len(rows)  BY <1>1 DEF ListingTypeOK
<1>7. \A i \in start + 1 .. start + n : i \in 1 .. Len(rows)
  <2>1. n \in 0 .. EndOf(size) - start /\ EndOf(size) \in start .. Len(rows) /\ Len(rows) \in Nat
    BY <1>1, <1>3, <1>5
  <2> QED  BY ONLY <1>6, <2>1
<1>8. ListingTypeOK'
  <2>1. seen' \subseteq 1 .. Len(rows)  BY <1>1, <1>2, <1>7 DEF ListingTypeOK
  <2>2. end' \in 0 .. Len(rows)
    <3>1. EndOf(size) \in start .. Len(rows) /\ Len(rows) \in Nat  BY <1>1, <1>3
    <3> QED  BY ONLY <1>2, <1>6, <3>1
  <2>3. limit' \subseteq Nat  BY <1>2, ListingsAssumption
  <2> QED  BY <1>1, <1>2, <2>1, <2>2, <2>3 DEF ListingTypeOK
<1>9. ASSUME ~UsesToken PROVE ReadSoFar'
  <2>1. 1 .. start \subseteq seen  BY <1>9 DEF ListingInv, ReadSoFar
  <2>2. 1 .. start' \subseteq seen'  BY <1>2, <2>1
  <2>3. ASSUME ~answer'.capped
        PROVE  1 .. end' \subseteq seen' /\ (~answer'.result.token => end' = Len(rows'))
    <3>1. start + n = EndOf(size)  BY <1>3, <1>5, <1>6, <2>3
    <3>2. \A i \in 1 .. EndOf(size) : i \in 1 .. start \/ i \in start + 1 .. start + n
      BY <1>3, <1>6, <3>1
    <3>3. 1 .. end' \subseteq seen'  BY <1>2, <2>1, <3>2
    <3>4. ~answer'.result.token => EndOf(size) = Len(rows)
      <4>1. answer'.result.token <=> EndOf(size) < Len(rows)  BY <1>3, <1>5, <2>3, Zenon
      <4>2. EndOf(size) \in start .. Len(rows) /\ Len(rows) \in Nat  BY <1>1, <1>3
      <4>3. ~(EndOf(size) < Len(rows)) => EndOf(size) = Len(rows)  BY ONLY <1>6, <4>2
      <4> QED  BY <4>1, <4>3, Zenon
    <3> QED  BY <1>2, <3>3, <3>4
  <2> QED  BY <1>2, <2>2, <2>3 DEF ReadSoFar
<1> QED  BY <1>5, <1>8, <1>9 DEF ListingInv

LEMMA ListingStep == ListingInv /\ [ReadingNext]_readingVars => ListingInv'
<1> SUFFICES ASSUME ListingInv, [ReadingNext]_readingVars PROVE ListingInv'  OBVIOUS
<1>1. ASSUME NEW size \in PageSizes, NEW fields \in BOOLEAN, CallTool(size, fields)
      PROVE  ListingInv'
  BY <1>1, ListingCall
<1>2. CASE Continue
  <2>1. /\ status = "deciding" /\ (answer.capped => UsesToken)
        /\ start' = end /\ limit' = PageSizes /\ status' = "calling"
        /\ UNCHANGED <<answer, rows, other, end, seen>>
    BY <1>2 DEF Continue
  <2>2. ListingTypeOK'  BY <2>1, ListingsAssumption DEF ListingInv, ListingTypeOK
  <2>3. OverrunIsBounded'  BY <2>1 DEF ListingInv, OverrunIsBounded
  <2>4. ~UsesToken => ReadSoFar'  BY <2>1 DEF ListingInv, ReadSoFar
  <2> QED  BY <2>2, <2>3, <2>4 DEF ListingInv
<1>3. CASE Recall
  <2>1. status' = "calling" /\ UNCHANGED <<answer, rows, other, start, end, limit, seen>>
    BY <1>3 DEF Recall
  <2>2. ListingTypeOK'  BY <2>1 DEF ListingInv, ListingTypeOK
  <2>3. OverrunIsBounded'  BY <2>1 DEF ListingInv, OverrunIsBounded
  <2>4. ~UsesToken => ReadSoFar'  BY <2>1 DEF ListingInv, ReadSoFar
  <2> QED  BY <2>2, <2>3, <2>4 DEF ListingInv
<1>4. CASE Stop
  <2>1. /\ status = "deciding" /\ ~answer.result.token /\ ~answer.capped
        /\ status' = "done" /\ UNCHANGED <<answer, rows, other, start, end, limit, seen>>
    BY <1>4 DEF Stop
  <2>2. ListingTypeOK'  BY <2>1 DEF ListingInv, ListingTypeOK
  <2>3. OverrunIsBounded'  BY <2>1 DEF ListingInv, OverrunIsBounded
  <2>4. ASSUME ~UsesToken PROVE ReadSoFar'
    <3>1. ReadSoFar  BY <2>4 DEF ListingInv
    <3>2. 1 .. Len(rows) \subseteq seen  BY <2>1, <3>1 DEF ReadSoFar
    <3>3. seen = 1 .. Len(rows)  BY <3>2 DEF ListingInv, ListingTypeOK
    <3> QED  BY <2>1, <3>1, <3>3 DEF ReadSoFar
  <2> QED  BY <2>2, <2>3, <2>4 DEF ListingInv
<1>5. CASE UNCHANGED vars
  <2>1. UNCHANGED <<answer, rows, other, start, end, limit, seen, status>>  BY <1>5 DEF vars
  <2>2. ListingTypeOK'  BY <2>1 DEF ListingInv, ListingTypeOK
  <2>3. OverrunIsBounded'  BY <2>1 DEF ListingInv, OverrunIsBounded
  <2>4. ~UsesToken => ReadSoFar'  BY <2>1 DEF ListingInv, ReadSoFar
  <2> QED  BY <2>2, <2>3, <2>4 DEF ListingInv
<1>6. CASE UNCHANGED readingVars  BY <1>5, <1>6 DEF readingVars
<1> QED  BY <1>1, <1>2, <1>3, <1>4, <1>5, <1>6 DEF ReadingNext, Next

LEMMA ListingInvariance == ReadingSpec => []ListingInv
BY ListingInit, ListingStep, PTL DEF ReadingSpec

(* Whatever the page, the cap and the projection, a capped answer that is a     *)
(* trimmed dict exceeds the cap by no more than one byte per separator of its   *)
(* kept items, or kept nothing of its list and is as small as one emptied list  *)
(* can make it; and a preview has no more than its metadata and four bytes for  *)
(* each character it may have (cap_response_size).                              *)
THEOREM CappedAnswersAreBounded == ReadingSpec => []OverrunIsBounded
<1>1. ListingInv => OverrunIsBounded  BY DEF ListingInv
<1> QED  BY <1>1, ListingInvariance, PTL

(* An agent that goes on with a nextPageToken only after a whole page has, at   *)
(* the end of any listing, been given every row, whatever page sizes and        *)
(* projections it used and whatever the cap trimmed on the way.                 *)
THEOREM EveryRowIsRead == ReadingSpec => [](~UsesToken => FullAccess)
<1>1. ListingInv => (~UsesToken => FullAccess)  BY DEF ListingInv, ReadSoFar, FullAccess
<1> QED  BY <1>1, ListingInvariance, PTL

-----------------------------------------------------------------------------
(* Rows in order. *)

LEMMA AheadLemma ==
  ASSUME NEW n \in Nat, NEW at \in SUBSET (1 .. n), NEW weight \in [1 .. n -> Nat],
         NEW i \in at
  PROVE  /\ Ahead(i, at, weight) \subseteq at \ {i}
         /\ IsFiniteSet(Ahead(i, at, weight))
         /\ IsFiniteSet(at) /\ Cardinality(at) \in Nat
         /\ Cardinality(Ahead(i, at, weight)) \in Nat
         /\ Cardinality(Ahead(i, at, weight)) \in 0 .. Cardinality(at) - 1
<1>1. Ahead(i, at, weight) \subseteq at \ {i}  BY DEF Ahead
<1>2. IsFiniteSet(at)
  <2>1. IsFiniteSet(1 .. n)  BY FS_Interval
  <2> QED  BY <2>1, FS_Subset
<1>3. /\ IsFiniteSet(at \ {i}) /\ Cardinality(at \ {i}) = Cardinality(at) - 1
      /\ Cardinality(at) \in Nat
  BY <1>2, FS_RemoveElement, FS_CardinalityType
<1>4. /\ IsFiniteSet(Ahead(i, at, weight))
      /\ Cardinality(Ahead(i, at, weight)) <= Cardinality(at \ {i})
  BY <1>1, <1>3, FS_Subset
<1>5. Cardinality(Ahead(i, at, weight)) \in Nat  BY <1>4, FS_CardinalityType
<1> QED  BY <1>1, <1>2, <1>3, <1>4, <1>5

(* Who is ahead of i has fewer ahead of it. *)
LEMMA AheadOrder ==
  ASSUME NEW n \in Nat, NEW at \in SUBSET (1 .. n), NEW weight \in [1 .. n -> Nat],
         NEW i \in at, NEW j \in Ahead(i, at, weight)
  PROVE  Cardinality(Ahead(j, at, weight)) < Cardinality(Ahead(i, at, weight))
<1>1. j \in at /\ weight[j] \in Nat /\ weight[i] \in Nat /\ i \in Nat /\ j \in Nat
  BY DEF Ahead
<1>2. Ahead(j, at, weight) \subseteq Ahead(i, at, weight) \ {j}
  <2> SUFFICES ASSUME NEW k \in Ahead(j, at, weight)
               PROVE  k \in Ahead(i, at, weight) /\ k # j
    OBVIOUS
  <2>1. k \in at /\ weight[k] \in Nat /\ k \in Nat  BY DEF Ahead
  <2>2. weight[k] > weight[j] \/ (weight[k] = weight[j] /\ k < j)  BY DEF Ahead
  <2>3. weight[j] > weight[i] \/ (weight[j] = weight[i] /\ j < i)  BY DEF Ahead
  <2>4. (weight[k] > weight[i] \/ (weight[k] = weight[i] /\ k < i)) /\ k # j
    BY ONLY <1>1, <2>1, <2>2, <2>3
  <2> QED  BY <2>1, <2>4 DEF Ahead
<1>3. IsFiniteSet(Ahead(i, at, weight))  BY AheadLemma
<1>4. /\ IsFiniteSet(Ahead(i, at, weight) \ {j})
      /\ Cardinality(Ahead(i, at, weight) \ {j}) = Cardinality(Ahead(i, at, weight)) - 1
  BY <1>3, FS_RemoveElement
<1>5. Cardinality(Ahead(j, at, weight)) <= Cardinality(Ahead(i, at, weight) \ {j})
  BY <1>2, <1>4, FS_Subset
<1>6. Cardinality(Ahead(i, at, weight)) \in Nat /\ Cardinality(Ahead(j, at, weight)) \in Nat
  BY <1>1, AheadLemma
<1> QED  BY <1>4, <1>5, <1>6

(* Every place in the order is taken by one position. *)
Placed(at, weight) ==
  /\ \A i, j \in at : Cardinality(Ahead(i, at, weight)) = Cardinality(Ahead(j, at, weight)) => i = j
  /\ \A m \in 1 .. Cardinality(at) : \E i \in at : Cardinality(Ahead(i, at, weight)) = m - 1

LEMMA PlaceLemma ==
  ASSUME NEW n \in Nat, NEW at \in SUBSET (1 .. n), NEW weight \in [1 .. n -> Nat]
  PROVE  Placed(at, weight)
<1>0. IsFiniteSet(at) /\ Cardinality(at) \in Nat
  <2>1. IsFiniteSet(1 .. n)  BY FS_Interval
  <2>2. IsFiniteSet(at)  BY <2>1, FS_Subset
  <2> QED  BY <2>2, FS_CardinalityType
<1>1. ASSUME NEW i \in at, NEW j \in at,
             Cardinality(Ahead(i, at, weight)) = Cardinality(Ahead(j, at, weight))
      PROVE  i = j
  <2>1. SUFFICES ASSUME i # j PROVE FALSE  OBVIOUS
  <2>2. i \in Ahead(j, at, weight) \/ j \in Ahead(i, at, weight)
    <3>1. weight[j] \in Nat /\ weight[i] \in Nat /\ i \in Nat /\ j \in Nat  OBVIOUS
    <3> QED  BY <2>1, <3>1 DEF Ahead
  <2>3. Cardinality(Ahead(i, at, weight)) \in Nat  BY AheadLemma
  <2>4. Cardinality(Ahead(j, at, weight)) \in Nat  BY AheadLemma
  <2>5. CASE i \in Ahead(j, at, weight)
    <3>1. Cardinality(Ahead(i, at, weight)) < Cardinality(Ahead(j, at, weight))
      BY <2>5, AheadOrder
    <3> QED  BY <1>1, <2>3, <2>4, <3>1
  <2>6. CASE j \in Ahead(i, at, weight)
    <3>1. Cardinality(Ahead(j, at, weight)) < Cardinality(Ahead(i, at, weight))
      BY <2>6, AheadOrder
    <3> QED  BY <1>1, <2>3, <2>4, <3>1
  <2> QED  BY <2>2, <2>5, <2>6
<1> DEFINE place == [i \in at |-> Cardinality(Ahead(i, at, weight)) + 1]
<1>2. \A i \in at : Cardinality(Ahead(i, at, weight)) \in 0 .. Cardinality(at) - 1
  BY AheadLemma
<1>3. place \in [at -> 1 .. Cardinality(at)]  BY <1>0, <1>2
<1>4. \A i, j \in at : place[i] = place[j] => i = j
  <2> SUFFICES ASSUME NEW i \in at, NEW j \in at, place[i] = place[j] PROVE i = j
    OBVIOUS
  <2>1. Cardinality(Ahead(i, at, weight)) = Cardinality(Ahead(j, at, weight))
    BY <1>0, <1>2
  <2> QED  BY <1>1, <2>1
<1>5. place \in Surjection(at, 1 .. Cardinality(at))
  <2>1. place \in Injection(at, 1 .. Cardinality(at))
    BY <1>3, <1>4, Zenon DEF Injection, IsInjective
  <2>2. IsFiniteSet(1 .. Cardinality(at)) /\ Cardinality(1 .. Cardinality(at)) = Cardinality(at)
    BY <1>0, FS_Interval
  <2> HIDE DEF place
  <2> QED  BY <2>1, <2>2, FS_Injection
<1>6. ASSUME NEW m \in 1 .. Cardinality(at)
      PROVE  \E i \in at : Cardinality(Ahead(i, at, weight)) = m - 1
  <2>1. PICK i \in at : place[i] = m  BY <1>5 DEF Surjection
  <2>2. Cardinality(Ahead(i, at, weight)) \in 0 .. Cardinality(at) - 1  BY <1>2
  <2>3. place[i] = Cardinality(Ahead(i, at, weight)) + 1  OBVIOUS
  <2>4. Cardinality(Ahead(i, at, weight)) \in Nat  BY AheadLemma
  <2>5. Cardinality(Ahead(i, at, weight)) = m - 1  BY ONLY <2>1, <2>3, <2>4
  <2> QED  BY <2>5
<1> QED  BY <1>1, <1>6 DEF Placed

(* pos enumerates the positions `at` of a list in the order of their weights. *)
Enumerates(pos, at, weight) ==
  /\ pos \in [1 .. Cardinality(at) -> at]
  /\ \A i \in at : \E n \in 1 .. Cardinality(at) : pos[n] = i
  /\ \A m, n \in 1 .. Cardinality(at) : pos[m] = pos[n] => m = n
  /\ \A m, n \in 1 .. Cardinality(at) : m < n => weight[pos[m]] >= weight[pos[n]]

LEMMA ArrangedLemma ==
  ASSUME NEW S, NEW list \in Seq(S), NEW at \in SUBSET (1 .. Len(list)),
         NEW weight \in [1 .. Len(list) -> Nat]
  PROVE  /\ Cardinality(at) \in Nat
         /\ Arranged(list, at, weight) \in Seq(S)
         /\ Len(Arranged(list, at, weight)) = Cardinality(at)
         /\ \E pos : /\ Enumerates(pos, at, weight)
                     /\ \A n \in 1 .. Cardinality(at) : Arranged(list, at, weight)[n] = list[pos[n]]
<1> DEFINE N == Cardinality(at)
           rank(i) == Cardinality(Ahead(i, at, weight))
           pos == [n \in 1 .. N |-> CHOOSE i \in at : rank(i) = n - 1]
           r == Arranged(list, at, weight)
<1>1. Len(list) \in Nat /\ \A i \in 1 .. Len(list) : list[i] \in S
  BY LenProperties, ElementOfSeq
<1>2. N \in Nat
  <2>1. IsFiniteSet(1 .. Len(list))  BY <1>1, FS_Interval
  <2>2. IsFiniteSet(at)  BY <2>1, FS_Subset
  <2> QED  BY <2>2, FS_CardinalityType
<1>3. /\ \A i, j \in at : rank(i) = rank(j) => i = j
      /\ \A n \in 1 .. N : \E i \in at : rank(i) = n - 1
  <2>1. Len(list) \in Nat  BY <1>1
  <2>2. Placed(at, weight)  BY <2>1, PlaceLemma, Zenon
  <2> QED  BY <2>2 DEF Placed
<1>4. \A i \in at : rank(i) \in Nat /\ rank(i) \in 0 .. N - 1
  BY <1>1, AheadLemma
<1>5. \A i \in at : \A j \in Ahead(i, at, weight) : rank(j) < rank(i)
  BY <1>1, AheadOrder
<1>6. r = [n \in 1 .. N |-> list[pos[n]]]  BY DEF Arranged
<1> HIDE DEF N, rank
<1>7. \A n \in 1 .. N : pos[n] \in at /\ rank(pos[n]) = n - 1
  <2> SUFFICES ASSUME NEW n \in 1 .. N PROVE pos[n] \in at /\ rank(pos[n]) = n - 1
    OBVIOUS
  <2>1. \E i \in at : rank(i) = n - 1  BY <1>3
  <2>2. pos[n] = CHOOSE i \in at : rank(i) = n - 1  OBVIOUS
  <2> HIDE DEF pos
  <2> QED  BY <2>1, <2>2, Zenon
<1>8. pos \in [1 .. N -> at]  BY <1>7
<1> HIDE DEF pos, r
<1>9. \A i \in at : \E n \in 1 .. N : pos[n] = i
  <2> SUFFICES ASSUME NEW i \in at PROVE \E n \in 1 .. N : pos[n] = i  OBVIOUS
  <2>1. rank(i) + 1 \in 1 .. N /\ (rank(i) + 1) - 1 = rank(i)  BY <1>2, <1>4
  <2>2. pos[rank(i) + 1] \in at /\ rank(pos[rank(i) + 1]) = rank(i)  BY <1>7, <2>1
  <2>3. pos[rank(i) + 1] = i  BY <1>3, <2>2, Zenon
  <2> QED  BY <2>1, <2>3
<1>10. \A m, n \in 1 .. N : pos[m] = pos[n] => m = n
  <2> SUFFICES ASSUME NEW m \in 1 .. N, NEW n \in 1 .. N, pos[m] = pos[n] PROVE m = n
    OBVIOUS
  <2>1. rank(pos[m]) = m - 1 /\ rank(pos[n]) = n - 1  BY <1>7
  <2>2. m - 1 = n - 1  BY <2>1
  <2> QED  BY <1>2, <2>2
<1>11. ASSUME NEW m \in 1 .. N, NEW n \in 1 .. N, m < n
       PROVE  weight[pos[m]] >= weight[pos[n]]
  <2>1. pos[m] \in at /\ rank(pos[m]) = m - 1 /\ pos[n] \in at /\ rank(pos[n]) = n - 1
    BY <1>7
  <2>2. pos[n] \notin Ahead(pos[m], at, weight)
    <3>1. SUFFICES ASSUME pos[n] \in Ahead(pos[m], at, weight) PROVE FALSE  OBVIOUS
    <3>2. rank(pos[n]) < rank(pos[m])  BY <1>5, <2>1, <3>1
    <3> QED  BY <1>2, <1>11, <2>1, <3>2
  <2>3. ~(weight[pos[n]] > weight[pos[m]])  BY <2>1, <2>2 DEF Ahead
  <2>4. weight[pos[n]] \in Nat /\ weight[pos[m]] \in Nat  BY <2>1
  <2> QED  BY ONLY <2>3, <2>4
<1>12. Enumerates(pos, at, weight)
  BY <1>8, <1>9, <1>10, <1>11 DEF Enumerates, N
<1>13. \A n \in 1 .. N : r[n] = list[pos[n]] /\ r[n] \in S
  BY <1>1, <1>6, <1>8
<1>14. r \in Seq(S) /\ Len(r) = N  BY <1>2, <1>6, <1>13
<1> QED  BY <1>2, <1>12, <1>13, <1>14 DEF N, r

(* The rows that pass, as often as they are there, the newer before the older.  *)
Filtered(r, list, weight) ==
  /\ r \in Seq(Row)
  /\ IsInjective(list) => IsInjective(r)
  /\ ToSet(r) = ToSet(list) \cap Passes
  /\ \A m, n \in 1 .. Len(r) : m < n =>
       \E i, j \in 1 .. Len(list) :
         r[m] = list[i] /\ r[n] = list[j] /\ weight[i] >= weight[j]

LEMMA FilterLemma ==
  ASSUME NEW list \in Seq(Row), NEW weight \in [1 .. Len(list) -> Nat]
  PROVE  Filtered(Arranged(list, PassingAt(list), weight), list, weight)
<1> DEFINE at == PassingAt(list)
           N == Cardinality(at)
           r == Arranged(list, at, weight)
<1>1. Len(list) \in Nat /\ DOMAIN list = 1 .. Len(list)  BY LenProperties
<1>2. at \in SUBSET (1 .. Len(list)) /\ \A i \in 1 .. Len(list) : i \in at <=> list[i] \in Passes
  BY <1>1 DEF PassingAt
<1> HIDE DEF at
<1>3. /\ N \in Nat /\ r \in Seq(Row) /\ Len(r) = N
      /\ \E pos : Enumerates(pos, at, weight) /\ \A n \in 1 .. N : r[n] = list[pos[n]]
  BY <1>2, ArrangedLemma
<1>4. PICK pos : Enumerates(pos, at, weight) /\ \A n \in 1 .. N : r[n] = list[pos[n]]
  BY <1>3
<1> HIDE DEF r
<1>5. /\ \A n \in 1 .. N : pos[n] \in at
      /\ \A i \in at : \E n \in 1 .. N : pos[n] = i
      /\ \A m, n \in 1 .. N : pos[m] = pos[n] => m = n
      /\ \A m, n \in 1 .. N : m < n => weight[pos[m]] >= weight[pos[n]]
  BY <1>4 DEF Enumerates
<1> HIDE DEF N
<1>6. DOMAIN r = 1 .. N  BY <1>3, LenProperties
<1>7. IsInjective(list) => \A i, j \in 1 .. Len(list) : list[i] = list[j] => i = j
  BY <1>1 DEF IsInjective
<1>8. ASSUME IsInjective(list) PROVE IsInjective(r)
  <2> SUFFICES ASSUME NEW m \in 1 .. N, NEW n \in 1 .. N, r[m] = r[n] PROVE m = n
    BY <1>6 DEF IsInjective
  <2>1. pos[m] \in 1 .. Len(list) /\ pos[n] \in 1 .. Len(list)  BY <1>2, <1>5
  <2>2. list[pos[m]] = list[pos[n]]  BY <1>4
  <2>3. pos[m] = pos[n]  BY <1>7, <1>8, <2>1, <2>2
  <2> QED  BY <1>5, <2>3
<1>9. ToSet(r) = ToSet(list) \cap Passes
  <2>1. ToSet(r) = {r[n] : n \in 1 .. N} /\ ToSet(list) = {list[i] : i \in 1 .. Len(list)}
    BY <1>1, <1>6 DEF ToSet
  <2>2. ASSUME NEW n \in 1 .. N PROVE r[n] \in ToSet(list) \cap Passes
    <3>1. r[n] = list[pos[n]] /\ pos[n] \in at  BY <1>4, <1>5
    <3>2. pos[n] \in 1 .. Len(list) /\ list[pos[n]] \in Passes  BY <1>2, <3>1
    <3> QED  BY <2>1, <3>1, <3>2
  <2>3. ASSUME NEW i \in 1 .. Len(list), list[i] \in Passes PROVE list[i] \in ToSet(r)
    <3>1. i \in at  BY <1>2, <2>3
    <3>2. PICK n \in 1 .. N : pos[n] = i  BY <1>5, <3>1
    <3>3. r[n] = list[i]  BY <1>4, <3>2
    <3> QED  BY <2>1, <3>3
  <2> QED  BY <2>1, <2>2, <2>3
<1>10. ASSUME NEW m \in 1 .. N, NEW n \in 1 .. N, m < n
       PROVE  \E i, j \in 1 .. Len(list) :
                r[m] = list[i] /\ r[n] = list[j] /\ weight[i] >= weight[j]
  <2>1. pos[m] \in 1 .. Len(list) /\ pos[n] \in 1 .. Len(list)  BY <1>2, <1>5
  <2>2. r[m] = list[pos[m]] /\ r[n] = list[pos[n]] /\ weight[pos[m]] >= weight[pos[n]]
    BY <1>4, <1>5, <1>10
  <2> QED  BY <2>1, <2>2
<1>11. Filtered(r, list, weight)  BY <1>3, <1>8, <1>9, <1>10 DEF Filtered
<1> QED  BY <1>11 DEF r, at

LEMMA FirstOfLemma ==
  ASSUME NEW S, NEW list \in Seq(S), NEW n \in Nat
  PROVE  LET f == FirstOf(list, n)
         IN  /\ f \in Seq(S)
             /\ Len(f) = Len(list) \/ Len(f) = n
             /\ Len(f) <= n /\ Len(f) <= Len(list)
             /\ \A j \in 1 .. Len(f) : f[j] = list[j]
<1> DEFINE m == IF Len(list) < n THEN Len(list) ELSE n
<1>1. Len(list) \in Nat  BY LenProperties
<1>2. m \in 0 .. Len(list) /\ m <= n  BY <1>1
<1>3. FirstOf(list, n) = SubSeq(list, 1, m)  BY DEF FirstOf
<1> HIDE DEF m
<1>4. /\ SubSeq(list, 1, m) \in Seq(S) /\ Len(SubSeq(list, 1, m)) = m
      /\ \A j \in 1 .. m : SubSeq(list, 1, m)[j] = list[j]
  BY <1>2, PrefixLemma
<1> QED  BY <1>1, <1>2, <1>3, <1>4 DEF m

-----------------------------------------------------------------------------
(* What a walk knows of the listing it reads.                                   *)

(* The rows up to a place of a listing. *)
Before(listed, place) == {listed[i] : i \in 1 .. place}

WalkTypeOK ==
  /\ composite \in {"latest_detections", "eset_search"}
  /\ most \in Nat
  /\ tenant \in [{1, 2} -> Seq(Row)]
  /\ \A e \in {1, 2} : IsInjective(tenant[e]) /\ present[e] \subseteq ToSet(tenant[e])
  /\ endpoint \in {1, 2}
  /\ cursor \in 0 .. Len(tenant[endpoint])
  /\ items \in Seq(Row)

(* Until it answers, a walk has every row that was listed from the start, and   *)
(* that its call is after, of the part of its endpoint's listing it has read,   *)
(* no other row if the tokens do not shift, and none twice; a search still has  *)
(* fewer than it may return.                                                    *)
WalkHasRead ==
  reply = Walking =>
    LET read == Before(tenant[endpoint], cursor)
    IN  /\ most # 0
        /\ ToSet(items) \subseteq ToSet(tenant[endpoint])
        /\ ~shifting => IsInjective(items) /\ ToSet(items) \subseteq read
        /\ composite = "latest_detections" =>
             present[endpoint] \cap read \subseteq ToSet(items)
        /\ composite = "eset_search" =>
             /\ present[endpoint] \cap read \cap Passes \subseteq ToSet(items)
             /\ ToSet(items) \subseteq Passes /\ Len(items) < most

WalkInv == WalkTypeOK /\ WalkHasRead /\ UnflaggedIsComplete

(* An answer made of the rows of `list`: none beyond the limit, all of them     *)
(* wanted, and of the others only those the limit leaves out.                   *)
AnswersFrom(answered, list) ==
  /\ answered \in Seq(Row)
  /\ Len(answered) \in Nat /\ Len(answered) <= most
  /\ ToSet(answered) \subseteq ToSet(list) \cap Passes
  /\ (ToSet(list) \cap Passes) \ ToSet(answered) # {} => Len(answered) = most

(* A prefix of the wanted rows is such an answer. *)
LEMMA PrefixAnswers ==
  ASSUME NEW list, NEW wanted \in Seq(Row), most \in Nat,
         ToSet(wanted) = ToSet(list) \cap Passes
  PROVE  /\ AnswersFrom(FirstOf(wanted, most), list)
         /\ IsInjective(wanted) => IsInjective(FirstOf(wanted, most))
<1> DEFINE f == FirstOf(wanted, most)
<1>1. /\ f \in Seq(Row)
      /\ Len(f) = Len(wanted) \/ Len(f) = most
      /\ Len(f) <= most /\ Len(f) <= Len(wanted)
      /\ \A j \in 1 .. Len(f) : f[j] = wanted[j]
  BY FirstOfLemma
<1> HIDE DEF f
<1>2. /\ DOMAIN f = 1 .. Len(f) /\ Len(f) \in Nat
      /\ DOMAIN wanted = 1 .. Len(wanted) /\ Len(wanted) \in Nat
  BY <1>1, LenProperties
<1>0. Len(f) <= Len(wanted) /\ Len(f) \in Nat /\ Len(wanted) \in Nat  BY <1>1, <1>2
<1>3. \A j \in 1 .. Len(f) : j \in 1 .. Len(wanted)  BY ONLY <1>0
<1>4. ASSUME IsInjective(wanted) PROVE IsInjective(f)
  <2> SUFFICES ASSUME NEW i \in 1 .. Len(f), NEW j \in 1 .. Len(f), f[i] = f[j] PROVE i = j
    BY <1>2 DEF IsInjective
  <2>1. wanted[i] = wanted[j]  BY <1>1
  <2>2. i \in DOMAIN wanted /\ j \in DOMAIN wanted  BY <1>2, <1>3
  <2> QED  BY <1>4, <2>1, <2>2 DEF IsInjective
<1>5. ToSet(f) = {f[j] : j \in 1 .. Len(f)} /\ ToSet(wanted) = {wanted[j] : j \in 1 .. Len(wanted)}
  BY <1>2 DEF ToSet
<1>6. ToSet(f) \subseteq ToSet(wanted)  BY <1>1, <1>3, <1>5
<1>7. ASSUME ToSet(wanted) \ ToSet(f) # {} PROVE Len(f) = most
  <2>1. PICK j \in 1 .. Len(wanted) : wanted[j] \notin ToSet(f)  BY <1>5, <1>7
  <2>2. j \notin 1 .. Len(f)  BY <1>1, <1>5, <2>1
  <2>3. Len(f) < Len(wanted)  BY ONLY <1>0, <2>2, j \in 1 .. Len(wanted)
  <2>4. Len(f) # Len(wanted)  BY ONLY <1>0, <2>3
  <2> QED  BY <1>1, <2>4
<1>8. ToSet(f) \subseteq ToSet(list) \cap Passes  BY <1>6
<1>9. (ToSet(list) \cap Passes) \ ToSet(f) # {} => Len(f) = most  BY <1>7
<1>10. AnswersFrom(f, list)  BY <1>1, <1>2, <1>8, <1>9 DEF AnswersFrom
<1> QED  BY <1>4, <1>10 DEF f

(* The newest rows are such an answer, and none of the rows left out is newer.  *)
LEMMA NewestLemma ==
  ASSUME NEW list \in Seq(Row), most \in Nat
  PROVE  /\ AnswersFrom(Newest(list), list)
         /\ IsInjective(list) => IsInjective(Newest(list))
         /\ \A row \in (ToSet(list) \cap Passes) \ ToSet(Newest(list)) :
              \A given \in ToSet(Newest(list)) : OccurTime[given] >= OccurTime[row]
<1> DEFINE weight == [i \in DOMAIN list |-> OccurTime[list[i]]]
           r == Sorted(list)
           f == FirstOf(r, most)
<1>1. DOMAIN list = 1 .. Len(list) /\ \A i \in 1 .. Len(list) : list[i] \in Row
  BY LenProperties, ElementOfSeq
<1>2. weight \in [1 .. Len(list) -> Nat]  BY <1>1, RowsAssumption
<1>3. r = Arranged(list, PassingAt(list), weight)  BY DEF Sorted
<1>4. \A i \in 1 .. Len(list) : weight[i] = OccurTime[list[i]]  BY <1>1
<1> HIDE DEF weight, r
<1>5. /\ r \in Seq(Row)
      /\ IsInjective(list) => IsInjective(r)
      /\ ToSet(r) = ToSet(list) \cap Passes
      /\ \A m, n \in 1 .. Len(r) : m < n =>
           \E i, j \in 1 .. Len(list) :
             r[m] = list[i] /\ r[n] = list[j] /\ weight[i] >= weight[j]
  <2>1. Filtered(r, list, weight)  BY <1>2, <1>3, FilterLemma, Zenon
  <2> QED  BY <2>1 DEF Filtered
<1>6. AnswersFrom(f, list) /\ (IsInjective(list) => IsInjective(f))  BY <1>5, PrefixAnswers
<1>7. /\ Len(f) <= Len(r) /\ \A j \in 1 .. Len(f) : f[j] = r[j]
      /\ f \in Seq(Row)
  BY <1>5, FirstOfLemma
<1> HIDE DEF f
<1>8. /\ DOMAIN r = 1 .. Len(r) /\ Len(r) \in Nat
      /\ DOMAIN f = 1 .. Len(f) /\ Len(f) \in Nat
  BY <1>5, <1>7, LenProperties
<1>9. ToSet(f) = {f[j] : j \in 1 .. Len(f)} /\ ToSet(r) = {r[j] : j \in 1 .. Len(r)}
  BY <1>8 DEF ToSet
<1>10. ASSUME NEW row \in ToSet(r) \ ToSet(f), NEW given \in ToSet(f)
       PROVE  OccurTime[given] >= OccurTime[row]
  <2>1. PICK n \in 1 .. Len(r) : r[n] = row  BY <1>9
  <2>2. PICK m \in 1 .. Len(f) : f[m] = given  BY <1>9
  <2>3. n \notin 1 .. Len(f)  BY <1>7, <1>9, <2>1
  <2>4. m < n /\ m \in 1 .. Len(r)  BY <1>7, <1>8, <2>3
  <2>5. PICK i \in 1 .. Len(list), j \in 1 .. Len(list) :
          r[m] = list[i] /\ r[n] = list[j] /\ weight[i] >= weight[j]
    BY <1>5, <2>4
  <2>6. given = list[i] /\ row = list[j]  BY <1>7, <2>1, <2>2, <2>5
  <2> QED  BY <1>4, <2>5, <2>6
<1>11. Newest(list) = f  BY DEF Newest, f, r
<1> QED  BY <1>5, <1>6, <1>10, <1>11

(* The wanted rows of a page. *)
LEMMA MatchingLemma ==
  ASSUME NEW list \in Seq(Row), IsInjective(list)
  PROVE  /\ Matching(list) \in Seq(Row) /\ IsInjective(Matching(list))
         /\ ToSet(Matching(list)) = ToSet(list) \cap Passes
<1> DEFINE weight == [i \in DOMAIN list |-> 0]
<1>1. DOMAIN list = 1 .. Len(list)  BY LenProperties
<1>2. weight \in [1 .. Len(list) -> Nat]  BY <1>1
<1>3. Matching(list) = Arranged(list, PassingAt(list), weight)  BY DEF Matching
<1> HIDE DEF weight
<1>4. Filtered(Matching(list), list, weight)  BY <1>2, <1>3, FilterLemma, Zenon
<1> QED  BY <1>4 DEF Filtered

-----------------------------------------------------------------------------
(* The next page of a listing, and a row that appears in it.                    *)

LEMMA FetchedLemma ==
  ASSUME WalkTypeOK
  PROVE  LET listed == tenant[endpoint]
         IN  /\ PageEnd \in cursor .. Len(listed) /\ PageEnd \in 0 .. Len(listed)
             /\ PageRows \in Seq(Row) /\ IsInjective(PageRows)
             /\ ToSet(PageRows) \cap Before(listed, cursor) = {}
             /\ Before(listed, PageEnd) = Before(listed, cursor) \cup ToSet(PageRows)
             /\ Before(listed, PageEnd) \subseteq ToSet(listed)
             /\ ~HasToken => Before(listed, PageEnd) = ToSet(listed)
<1> DEFINE listed == tenant[endpoint]
           n == Len(listed)
           c == cursor
           p == PageEnd
           page == PageRows
<1>1. listed \in Seq(Row) /\ IsInjective(listed) /\ c \in 0 .. n /\ RowsPerPage \in Nat
  BY RowsAssumption DEF WalkTypeOK
<1>2. p = (IF c + RowsPerPage < n THEN c + RowsPerPage ELSE n) /\ page = SubSeq(listed, c + 1, p)
  BY DEF PageEnd, PageRows
<1>3. ~HasToken => ~(p < n)  BY DEF HasToken
<1> HIDE DEF listed, c, p, page
<1>4. n \in Nat /\ DOMAIN listed = 1 .. n /\ \A i \in 1 .. n : listed[i] \in Row
  BY <1>1, LenProperties, ElementOfSeq
<1> HIDE DEF n
<1>5. n \in Nat /\ c \in Nat /\ p \in Nat /\ c <= p /\ p <= n  BY <1>1, <1>2, <1>4
<1>6. /\ page \in Seq(Row) /\ Len(page) = p - c
      /\ \A j \in 1 .. p - c : page[j] = listed[c + j]
  <2>1. \A i \in c + 1 .. p : listed[i] \in Row  BY <1>4, <1>5
  <2>2. c + 1 \in Int /\ p \in Int  BY <1>5
  <2> DEFINE q == SubSeq(listed, c + 1, p)
  <2> HIDE DEF q
  <2>3. /\ q \in Seq(Row)
        /\ Len(q) = IF c + 1 <= p THEN p - (c + 1) + 1 ELSE 0
        /\ \A i \in 1 .. p - (c + 1) + 1 : q[i] = listed[c + 1 + i - 1]
    BY <2>1, <2>2, SubSeqProperties DEF q
  <2>4. q = page  BY <1>2 DEF q
  <2>5. p - (c + 1) + 1 = p - c /\ Len(q) = p - c  BY <1>5, <2>3
  <2>6. ASSUME NEW j \in 1 .. p - c PROVE q[j] = listed[c + j]
    <3>1. c + 1 + j - 1 = c + j /\ j \in 1 .. p - (c + 1) + 1  BY <1>5
    <3> QED  BY <2>3, <3>1
  <2> QED  BY <2>3, <2>4, <2>5, <2>6
<1>7. DOMAIN page = 1 .. p - c  BY <1>6, LenProperties
<1>8. ToSet(page) = {page[j] : j \in 1 .. p - c} /\ ToSet(listed) = {listed[i] : i \in 1 .. n}
  BY <1>4, <1>7 DEF ToSet
<1>9. \A j \in 1 .. p - c : c + j \in 1 .. n /\ c + j \in 1 .. p /\ c + j \notin 1 .. c
  BY ONLY <1>5
<1>10. \A i, j \in 1 .. n : listed[i] = listed[j] => i = j  BY <1>1, <1>4 DEF IsInjective
<1>11. IsInjective(page)
  <2> SUFFICES ASSUME NEW i \in 1 .. p - c, NEW j \in 1 .. p - c, page[i] = page[j]
               PROVE  i = j
    BY <1>7 DEF IsInjective
  <2>1. listed[c + i] = listed[c + j]  BY <1>6
  <2>2. c + i = c + j  BY <1>9, <1>10, <2>1
  <2> QED  BY <1>5, <2>2
<1>12. \A i \in 1 .. c : i \in 1 .. n /\ i \in 1 .. p  BY ONLY <1>5
<1>13. ToSet(page) \cap Before(listed, c) = {}
  <2> SUFFICES ASSUME NEW j \in 1 .. p - c, NEW i \in 1 .. c PROVE page[j] # listed[i]
    BY <1>8 DEF Before
  <2>1. c + j # i  BY <1>9
  <2>2. listed[c + j] # listed[i]  BY <1>9, <1>10, <1>12, <2>1
  <2> QED  BY <1>6, <2>2
<1>14. Before(listed, p) = Before(listed, c) \cup ToSet(page)
  <2>1. ASSUME NEW i \in 1 .. p PROVE listed[i] \in Before(listed, c) \cup ToSet(page)
    <3>1. CASE i \in 1 .. c  BY <3>1 DEF Before
    <3>2. CASE i \notin 1 .. c
      <4>1. i - c \in 1 .. p - c /\ c + (i - c) = i  BY <1>5, <3>2
      <4>2. page[i - c] = listed[i]  BY <1>6, <4>1
      <4> QED  BY <1>8, <4>1, <4>2
    <3> QED  BY <3>1, <3>2
  <2>2. Before(listed, c) \subseteq Before(listed, p)  BY <1>12 DEF Before
  <2>3. ToSet(page) \subseteq Before(listed, p)  BY <1>6, <1>8, <1>9 DEF Before
  <2> QED  BY <2>1, <2>2, <2>3 DEF Before
<1>15. Before(listed, p) \subseteq ToSet(listed)
  <2>1. \A i \in 1 .. p : i \in 1 .. n  BY ONLY <1>5
  <2> QED  BY <1>8, <2>1 DEF Before
<1>16. ~HasToken => Before(listed, p) = ToSet(listed)
  <2>1. ~HasToken => p = n  BY <1>3, <1>4, <1>5
  <2> QED  BY <1>8, <2>1 DEF Before
<1>17. p \in c .. n /\ p \in 0 .. n  BY <1>4, <1>5
<1> QED  BY <1>6, <1>11, <1>13, <1>14, <1>15, <1>16, <1>17 DEF listed, n, c, p, page

(* A new row shifts those behind it and is no row that was there.               *)
LEMMA AppearedLemma ==
  ASSUME NEW listed \in Seq(Row), IsInjective(listed),
         NEW place \in 1 .. Len(listed) + 1, NEW row \in Row \ ToSet(listed),
         NEW read \in 0 .. Len(listed)
  PROVE  LET more == InsertAt(listed, place, row)
             then == IF place <= read THEN read + 1 ELSE read
         IN  /\ more \in Seq(Row) /\ IsInjective(more)
             /\ then \in 0 .. Len(more) /\ read \in 0 .. Len(more)
             /\ ToSet(more) = ToSet(listed) \cup {row}
             /\ Before(listed, read) \subseteq Before(more, then)
             /\ Before(more, then) \subseteq Before(listed, read) \cup {row}
             /\ Before(more, read) \subseteq Before(listed, read) \cup {row}
<1> DEFINE more == InsertAt(listed, place, row)
           then == IF place <= read THEN read + 1 ELSE read
           n == Len(listed)
           was(j) == IF j < place THEN j ELSE j - 1
<1>0. row \in Row  OBVIOUS
<1>1. /\ more \in Seq(Row) /\ Len(more) = n + 1
      /\ \A j \in 1 .. n + 1 :
           more[j] = IF j < place THEN listed[j] ELSE IF j = place THEN row ELSE listed[j - 1]
  <2>1. listed \in Seq(Row) /\ place \in 1 .. Len(listed) + 1  OBVIOUS
  <2>2. /\ InsertAt(listed, place, row) \in Seq(Row)
        /\ Len(InsertAt(listed, place, row)) = Len(listed) + 1
        /\ \A j \in 1 .. Len(listed) + 1 :
             InsertAt(listed, place, row)[j]
               = IF j < place THEN listed[j] ELSE IF j = place THEN row ELSE listed[j - 1]
    BY ONLY <1>0, <2>1, InsertAtLemma
  <2> QED  BY ONLY <2>2
<1> HIDE DEF more
<1>2. n \in Nat /\ DOMAIN listed = 1 .. n /\ DOMAIN more = 1 .. n + 1
  BY <1>1, LenProperties
<1> HIDE DEF n
<1>3. place \in 1 .. n + 1 /\ read \in 0 .. n  BY DEF n
<1>4. ASSUME NEW j \in 1 .. n + 1, j # place
      PROVE  was(j) \in 1 .. n /\ more[j] = listed[was(j)]
  BY <1>1, <1>2, <1>3, <1>4
<1>5. more[place] = row  BY <1>1, <1>2, <1>3
<1>6. \A i \in 1 .. n : row # listed[i]  BY <1>2 DEF ToSet
<1>7. \A i, j \in 1 .. n : listed[i] = listed[j] => i = j  BY <1>2 DEF IsInjective
<1>8. \A i, j \in 1 .. n + 1 : i # place /\ j # place /\ was(i) = was(j) => i = j
  BY <1>2, <1>3
<1>9. ASSUME NEW i \in 1 .. n
      PROVE  LET j == IF i < place THEN i ELSE i + 1
             IN  j \in 1 .. n + 1 /\ j # place /\ was(j) = i /\ more[j] = listed[i]
                 /\ (i <= read => j <= then)
  <2> DEFINE j == IF i < place THEN i ELSE i + 1
  <2>1. j \in 1 .. n + 1 /\ j # place /\ was(j) = i /\ (i <= read => j <= then)
    BY <1>2, <1>3
  <2> HIDE DEF j
  <2>2. more[j] = listed[i]  BY <1>4, <2>1
  <2> QED  BY <2>1, <2>2 DEF j
<1>10. \A j \in 1 .. n + 1 : j # place /\ j <= then => was(j) <= read  BY <1>2, <1>3
<1>11. then \in 0 .. n + 1 /\ read \in 0 .. n + 1 /\ read <= then  BY <1>2, <1>3
<1> HIDE DEF was, then
<1>12. IsInjective(more)
  <2> SUFFICES ASSUME NEW i \in 1 .. n + 1, NEW j \in 1 .. n + 1, more[i] = more[j]
               PROVE  i = j
    BY <1>2 DEF IsInjective
  <2>1. CASE i = place  BY <1>4, <1>5, <1>6, <2>1
  <2>2. CASE j = place  BY <1>4, <1>5, <1>6, <2>2
  <2>3. CASE i # place /\ j # place
    <3>1. was(i) = was(j)  BY <1>4, <1>7, <2>3
    <3> QED  BY <1>8, <2>3, <3>1
  <2> QED  BY <2>1, <2>2, <2>3
<1>13. ToSet(more) = {more[j] : j \in 1 .. n + 1} /\ ToSet(listed) = {listed[i] : i \in 1 .. n}
  BY <1>2 DEF ToSet
<1>14. ToSet(more) = ToSet(listed) \cup {row}
  <2>1. ToSet(more) \subseteq ToSet(listed) \cup {row}  BY <1>4, <1>5, <1>13
  <2>2. ToSet(listed) \subseteq ToSet(more)  BY <1>9, <1>13
  <2>3. row \in ToSet(more)  BY <1>3, <1>5, <1>13
  <2> QED  BY <2>1, <2>2, <2>3
<1>15. Before(listed, read) \subseteq Before(more, then)
  <2> SUFFICES ASSUME NEW i \in 1 .. read PROVE listed[i] \in Before(more, then)
    BY DEF Before
  <2>1. i \in 1 .. n /\ i <= read  BY <1>2, <1>3
  <2>2. PICK j \in 1 .. n + 1 : more[j] = listed[i] /\ j <= then  BY <1>9, <2>1
  <2>3. j \in 1 .. then  BY <1>2, <1>11, <2>2
  <2> QED  BY <2>2, <2>3 DEF Before
<1>16. Before(more, then) \subseteq Before(listed, read) \cup {row}
  <2> SUFFICES ASSUME NEW j \in 1 .. then PROVE more[j] \in Before(listed, read) \cup {row}
    BY DEF Before
  <2>1. j \in 1 .. n + 1 /\ j <= then  BY <1>2, <1>11
  <2>2. CASE j = place  BY <1>5, <2>2
  <2>3. CASE j # place
    <3>1. was(j) \in 1 .. n /\ more[j] = listed[was(j)] /\ was(j) <= read
      BY <1>4, <1>10, <2>1, <2>3
    <3>2. was(j) \in 1 .. read  BY <1>2, <1>3, <3>1
    <3> QED  BY <3>1, <3>2 DEF Before
  <2> QED  BY <2>2, <2>3
<1>17. Before(more, read) \subseteq Before(more, then)
  <2>1. \A j \in 1 .. read : j \in 1 .. then  BY <1>2, <1>11
  <2> QED  BY <2>1 DEF Before
<1> QED  BY <1>1, <1>11, <1>12, <1>14, <1>15, <1>16, <1>17 DEF more, then

-----------------------------------------------------------------------------
(* The invariant of the walks, action by action.                                *)

(* No answer is taken for a walk that goes on. *)
LEMMA AnswersDiffer ==
  /\ Walking.partial = TRUE /\ NoReply.partial = TRUE /\ NoReply # Walking
  /\ \A list : [NoReply EXCEPT !.rows = list] # Walking
               /\ [NoReply EXCEPT !.rows = list].partial = TRUE
  /\ \A list, flag : \A e \in {1, 2} : [rows |-> list, partial |-> flag, from |-> e] # Walking
<1>0. Walking.partial = TRUE /\ NoReply.partial = TRUE  BY DEF Walking, NoReply
<1>1. Walking.from = 0 /\ NoReply.from = 1  BY DEF Walking, NoReply
<1>2. \A list : [NoReply EXCEPT !.rows = list].from = 1
                /\ [NoReply EXCEPT !.rows = list].partial = TRUE
  BY DEF NoReply
<1>3. \A list, flag, e : [rows |-> list, partial |-> flag, from |-> e].from = e
  OBVIOUS
<1>4. NoReply # Walking  BY <1>1
<1>5. \A list : [NoReply EXCEPT !.rows = list] # Walking
  <2> SUFFICES ASSUME NEW list PROVE [NoReply EXCEPT !.rows = list] # Walking  OBVIOUS
  <2>1. [NoReply EXCEPT !.rows = list].from = 1  BY <1>2
  <2>2. Walking.from # 1  BY <1>1
  <2> QED  BY ONLY <2>1, <2>2, Zenon
<1>6. \A list, flag : \A e \in {1, 2} : [rows |-> list, partial |-> flag, from |-> e] # Walking
  <2> SUFFICES ASSUME NEW list, NEW flag, NEW e \in {1, 2}
               PROVE  [rows |-> list, partial |-> flag, from |-> e] # Walking
    OBVIOUS
  <2>1. e # 0  OBVIOUS
  <2> QED  BY <1>1, <1>3, <2>1
<1> QED  BY <1>0, <1>2, <1>4, <1>5, <1>6

LEMMA WalkStart ==
  ASSUME ReadingInit
  PROVE  WalkInv
<1>1. <<>> \in Seq(Row) /\ Len(<<>>) = 0 /\ IsInjective(<<>>) /\ ToSet(<<>>) = {}
  <2>1. <<>> \in Seq(Row) /\ Len(<<>>) = 0 /\ DOMAIN <<>> = {}  OBVIOUS
  <2> QED  BY <2>1 DEF IsInjective, ToSet
<1>2. CASE NoWalk
  <2>1. /\ composite = "eset_search" /\ most = 0 /\ tenant = <<<<>>, <<>>>>
        /\ present = <<{}, {}>> /\ endpoint = 1 /\ cursor = 0 /\ items = <<>>
        /\ reply = NoReply
    BY <1>2 DEF NoWalk, AtStart
  <2>2. tenant \in [{1, 2} -> Seq(Row)] /\ \A e \in {1, 2} : tenant[e] = <<>> /\ present[e] = {}
    <3>1. {1, 2} = 1 .. 2  OBVIOUS
    <3>2. tenant[1] = <<>> /\ tenant[2] = <<>> /\ present[1] = {} /\ present[2] = {}
      BY <2>1
    <3>3. tenant = [e \in 1 .. 2 |-> <<>>]  BY <2>1
    <3> QED  BY <1>1, <3>1, <3>2, <3>3
  <2>3. WalkTypeOK  BY <1>1, <2>1, <2>2 DEF WalkTypeOK
  <2>4. WalkHasRead  BY <2>1, AnswersDiffer DEF WalkHasRead
  <2>5. UnflaggedIsComplete  BY <2>1, AnswersDiffer DEF UnflaggedIsComplete
  <2> QED  BY <2>3, <2>4, <2>5 DEF WalkInv
<1>3. CASE WalkInit
  <2>1. /\ composite \in {"latest_detections", "eset_search"} /\ most \in Limits
        /\ tenant \in Tenants /\ present = [e \in {1, 2} |-> ToSet(tenant[e])]
        /\ endpoint = 1 /\ cursor = 0 /\ items = <<>> /\ reply = Walking
    BY <1>3 DEF WalkInit, AtStart
  <2>2. /\ most \in Nat /\ most > 0 /\ most # 0
        /\ tenant \in [{1, 2} -> Seq(Row)] /\ \A e \in {1, 2} : IsInjective(tenant[e])
    BY <2>1, RowsAssumption
  <2>3. Len(tenant[endpoint]) \in Nat  BY <2>1, <2>2, LenProperties
  <2>4. WalkTypeOK  BY <1>1, <2>1, <2>2, <2>3 DEF WalkTypeOK
  <2>5. Before(tenant[endpoint], cursor) = {}  BY <2>1 DEF Before
  <2>6. WalkHasRead  BY <1>1, <2>1, <2>2, <2>5 DEF WalkHasRead
  <2>7. UnflaggedIsComplete  BY <2>1, AnswersDiffer DEF UnflaggedIsComplete
  <2> QED  BY <2>4, <2>6, <2>7 DEF WalkInv
<1> QED  BY <1>2, <1>3 DEF ReadingInit

LEMMA DetectionsPageStep ==
  ASSUME WalkInv, DetectionsPage
  PROVE  WalkInv'
<1> DEFINE listed == tenant[endpoint]
           list == items \o PageRows
           read == Before(listed, cursor)
           now == Before(listed, PageEnd)
<1>1. /\ WalkTypeOK /\ composite = "latest_detections" /\ reply = Walking
      /\ items' = list /\ cursor' = PageEnd
      /\ composite' = composite /\ most' = most /\ present' = present /\ tenant' = tenant
      /\ endpoint' = endpoint /\ shifting' = shifting
  BY DEF WalkInv, DetectionsPage, call
<1>2. /\ most # 0 /\ ToSet(items) \subseteq ToSet(listed)
      /\ ~shifting => IsInjective(items) /\ ToSet(items) \subseteq read
      /\ present[endpoint] \cap read \subseteq ToSet(items)
  BY <1>1 DEF WalkInv, WalkHasRead
<1>3. /\ PageEnd \in 0 .. Len(listed)
      /\ PageRows \in Seq(Row) /\ IsInjective(PageRows)
      /\ ToSet(PageRows) \cap read = {}
      /\ now = read \cup ToSet(PageRows)
      /\ now \subseteq ToSet(listed)
      /\ ~HasToken => now = ToSet(listed)
  BY <1>1, FetchedLemma
<1>4. items \in Seq(Row) /\ endpoint \in {1, 2} /\ most \in Nat
      /\ present[endpoint] \subseteq ToSet(listed)
  BY <1>1 DEF WalkTypeOK
<1> HIDE DEF listed, read, now
<1>5. /\ list \in Seq(Row) /\ ToSet(list) = ToSet(items) \cup ToSet(PageRows)
      /\ ~shifting => IsInjective(list)
  <2>1. /\ list \in Seq(Row) /\ ToSet(list) = ToSet(items) \cup ToSet(PageRows)
        /\ IsInjective(items) /\ IsInjective(PageRows) /\ ToSet(items) \cap ToSet(PageRows) = {}
             => IsInjective(list)
    BY <1>3, <1>4, JoinLemma
  <2>2. ~shifting => ToSet(items) \cap ToSet(PageRows) = {}  BY <1>2, <1>3
  <2> QED  BY <1>2, <1>3, <2>1, <2>2
<1> HIDE DEF list
<1>6. /\ ToSet(list) \subseteq ToSet(listed) /\ (~shifting => ToSet(list) \subseteq now)
      /\ present[endpoint] \cap now \subseteq ToSet(list)
  BY <1>2, <1>3, <1>5
<1>7. WalkTypeOK'
  BY <1>1, <1>3, <1>5 DEF WalkTypeOK, listed
<1>8. WalkHasRead'
  <2>1. /\ Before(tenant[endpoint], cursor)' = now
    BY <1>1 DEF now, listed, Before
  <2>2. composite' # "eset_search"  BY <1>1
  <2> QED  BY <1>1, <1>2, <1>5, <1>6, <2>1, <2>2 DEF WalkHasRead, listed
<1>9. UnflaggedIsComplete'
  <2>1. CASE ~HasToken
    <3> DEFINE a == Newest(list)
    <3>1. /\ AnswersFrom(a, list) /\ (IsInjective(list) => IsInjective(a))
          /\ \A row \in (ToSet(list) \cap Passes) \ ToSet(a) :
               \A given \in ToSet(a) : OccurTime[given] >= OccurTime[row]
      BY <1>4, <1>5, NewestLemma, Zenon
    <3>2. reply' = [rows |-> Newest(items'), partial |-> FALSE, from |-> endpoint]
      BY <2>1 DEF DetectionsPage, Answer
    <3>3. Newest(items') = a  BY <1>1
    <3> HIDE DEF a
    <3>4. reply'.rows = a /\ reply'.from = endpoint  BY <3>2, <3>3
    <3>5. /\ (~shifting => IsInjective(a)) /\ Len(a) <= most /\ ToSet(a) \subseteq ToSet(list) \cap Passes
          /\ (ToSet(list) \cap Passes) \ ToSet(a) # {} => Len(a) = most
      BY <1>5, <3>1 DEF AnswersFrom
    <3>6. ToSet(a) \subseteq ToSet(listed) \cap Passes  BY <1>3, <1>6, <3>5
    <3>7. present[endpoint] \subseteq ToSet(list)  BY <1>3, <1>4, <1>6, <2>1
    <3>8. ASSUME NEW row \in (present[endpoint] \cap Passes) \ ToSet(a)
          PROVE  Len(a) = most /\ \A given \in ToSet(a) : OccurTime[given] >= OccurTime[row]
      BY <3>1, <3>5, <3>7
    <3> QED  BY <1>1, <3>4, <3>5, <3>6, <3>8 DEF UnflaggedIsComplete, listed
  <2>2. CASE HasToken
    <3>1. reply'.partial = TRUE
      <4>1. CASE Capped
        <5>1. reply' = [rows |-> Newest(items'), partial |-> TRUE, from |-> endpoint]
          BY <2>2, <4>1 DEF DetectionsPage, Answer
        <5> QED  BY <5>1
      <4>2. CASE ~Capped
        <5>1. reply' = Walking  BY <1>1, <2>2, <4>2 DEF DetectionsPage
        <5> QED  BY <5>1, AnswersDiffer
      <4> QED  BY <4>1, <4>2
    <3> QED  BY <3>1 DEF UnflaggedIsComplete
  <2> QED  BY <2>1, <2>2
<1> QED  BY <1>7, <1>8, <1>9 DEF WalkInv

LEMMA SearchPageStep ==
  ASSUME WalkInv, SearchPage
  PROVE  WalkInv'
<1> DEFINE listed == tenant[endpoint]
           list == items \o PageRows
           wanted == items \o Matching(PageRows)
           a == FirstOf(wanted, most)
           read == Before(listed, cursor)
           now == Before(listed, PageEnd)
<1>1. /\ WalkTypeOK /\ composite = "eset_search" /\ reply = Walking
      /\ items' = a /\ cursor' = PageEnd
      /\ composite' = composite /\ most' = most /\ present' = present /\ tenant' = tenant
      /\ endpoint' = endpoint /\ shifting' = shifting
  BY DEF WalkInv, SearchPage, call
<1>2. /\ most # 0 /\ ToSet(items) \subseteq ToSet(listed)
      /\ ~shifting => IsInjective(items) /\ ToSet(items) \subseteq read
      /\ present[endpoint] \cap read \cap Passes \subseteq ToSet(items)
      /\ ToSet(items) \subseteq Passes
  BY <1>1 DEF WalkInv, WalkHasRead
<1>3. /\ PageEnd \in 0 .. Len(listed)
      /\ PageRows \in Seq(Row) /\ IsInjective(PageRows)
      /\ ToSet(PageRows) \cap read = {}
      /\ now = read \cup ToSet(PageRows)
      /\ now \subseteq ToSet(listed)
      /\ ~HasToken => now = ToSet(listed)
  BY <1>1, FetchedLemma
<1>4. items \in Seq(Row) /\ endpoint \in {1, 2} /\ most \in Nat
      /\ present[endpoint] \subseteq ToSet(listed)
  BY <1>1 DEF WalkTypeOK
<1> HIDE DEF listed, read, now, a
<1>5. list \in Seq(Row) /\ ToSet(list) = ToSet(items) \cup ToSet(PageRows)
  BY <1>3, <1>4, JoinLemma
<1> HIDE DEF list
<1>6. /\ Matching(PageRows) \in Seq(Row) /\ IsInjective(Matching(PageRows))
      /\ ToSet(Matching(PageRows)) = ToSet(PageRows) \cap Passes
  BY <1>3, MatchingLemma
<1>7. ~shifting => ToSet(items) \cap ToSet(Matching(PageRows)) = {}  BY <1>2, <1>3, <1>6
<1>8. /\ wanted \in Seq(Row)
      /\ ToSet(wanted) = ToSet(items) \cup ToSet(Matching(PageRows))
      /\ ~shifting => IsInjective(wanted)
  <2>1. /\ wanted \in Seq(Row) /\ ToSet(wanted) = ToSet(items) \cup ToSet(Matching(PageRows))
        /\ IsInjective(items) /\ IsInjective(Matching(PageRows))
           /\ ToSet(items) \cap ToSet(Matching(PageRows)) = {} => IsInjective(wanted)
    BY <1>4, <1>6, JoinLemma
  <2> QED  BY <1>2, <1>6, <1>7, <2>1
<1> HIDE DEF wanted
<1>9. ToSet(wanted) = ToSet(list) \cap Passes  BY <1>2, <1>5, <1>6, <1>8
<1>10. AnswersFrom(a, list) /\ (IsInjective(wanted) => IsInjective(a))
  BY <1>4, <1>8, <1>9, PrefixAnswers DEF a
<1>11. /\ a \in Seq(Row) /\ (~shifting => IsInjective(a)) /\ Len(a) \in Nat /\ Len(a) <= most
       /\ ToSet(a) \subseteq ToSet(list) \cap Passes
       /\ (ToSet(list) \cap Passes) \ ToSet(a) # {} => Len(a) = most
  BY <1>8, <1>10 DEF AnswersFrom
<1>12. /\ ToSet(list) \subseteq ToSet(listed) /\ (~shifting => ToSet(list) \subseteq now)
       /\ present[endpoint] \cap now \cap Passes \subseteq ToSet(list)
  BY <1>2, <1>3, <1>5
<1>13. ~HasToken => present[endpoint] \cap Passes \subseteq ToSet(list)
  BY <1>3, <1>4, <1>12
<1>14. IF Len(a) = most \/ ~HasToken
       THEN reply' = [rows |-> a, partial |-> FALSE, from |-> endpoint]
       ELSE reply' = Walking
  BY <1>1 DEF SearchPage, Answer
<1>15. WalkTypeOK'
  BY <1>1, <1>3, <1>11 DEF WalkTypeOK, listed
<1>16. WalkHasRead'
  <2> SUFFICES ASSUME reply' = Walking PROVE WalkHasRead'  BY DEF WalkHasRead
  <2>1. Before(tenant[endpoint], cursor)' = now
    BY <1>1 DEF now, listed, Before
  <2>2. Len(a) # most  BY <1>4, <1>14, AnswersDiffer
  <2>3. Len(a) < most  BY <1>4, <1>11, <2>2
  <2>4. ToSet(list) \cap Passes \subseteq ToSet(a)  BY <1>11, <2>2
  <2>5. /\ ToSet(a) \subseteq ToSet(listed) /\ (~shifting => ToSet(a) \subseteq now)
        /\ ToSet(a) \subseteq Passes
        /\ present[endpoint] \cap now \cap Passes \subseteq ToSet(a)
    BY <1>11, <1>12, <2>4
  <2>6. composite' # "latest_detections"  BY <1>1
  <2> QED  BY <1>1, <1>2, <1>11, <2>1, <2>3, <2>5, <2>6 DEF WalkHasRead, listed
<1>17. UnflaggedIsComplete'
  <2>1. CASE Len(a) = most \/ ~HasToken
    <3>1. reply'.rows = a /\ reply'.from = endpoint  BY <1>14, <2>1
    <3>2. ToSet(a) \subseteq ToSet(listed) \cap Passes  BY <1>3, <1>11, <1>12
    <3>3. ASSUME NEW row \in (present[endpoint] \cap Passes) \ ToSet(a)
          PROVE  Len(a) = most
      <4>1. CASE ~HasToken  BY <1>11, <1>13, <4>1
      <4> QED  BY <2>1, <4>1
    <3>4. composite' # "latest_detections"  BY <1>1
    <3> QED  BY <1>1, <1>11, <3>1, <3>2, <3>3, <3>4 DEF UnflaggedIsComplete, listed
  <2>2. CASE ~(Len(a) = most \/ ~HasToken)
    <3>1. reply' = Walking  BY <1>14, <2>2
    <3> QED  BY <3>1, AnswersDiffer DEF UnflaggedIsComplete
  <2> QED  BY <2>1, <2>2
<1> QED  BY <1>15, <1>16, <1>17 DEF WalkInv

(* A page that is no object ends the walk: what it has was listed and is wanted,*)
(* and no more is promised of it.                                               *)
LEMMA ShapelessPageStep ==
  ASSUME WalkInv, ShapelessPage
  PROVE  WalkInv'
<1>1. /\ WalkTypeOK /\ reply = Walking /\ shapeless' = TRUE
      /\ UNCHANGED <<composite, most, present, shifting, tenant, endpoint, cursor, items>>
  BY DEF WalkInv, ShapelessPage, call
<1>2. /\ ToSet(items) \subseteq ToSet(tenant[endpoint])
      /\ ~shifting => IsInjective(items)
      /\ composite = "eset_search" => ToSet(items) \subseteq Passes /\ Len(items) < most
  BY <1>1 DEF WalkInv, WalkHasRead
<1>3. /\ items \in Seq(Row) /\ endpoint \in {1, 2} /\ most \in Nat /\ Len(items) \in Nat
      /\ composite \in {"latest_detections", "eset_search"}
  BY <1>1, LenProperties DEF WalkTypeOK
<1>4. PICK a : /\ reply' = [rows |-> a, partial |-> FALSE, from |-> endpoint]
               /\ a = (IF composite = "latest_detections" THEN Newest(items) ELSE items)
  BY DEF ShapelessPage, Answer
<1>5. /\ ToSet(a) \subseteq ToSet(tenant[endpoint]) \cap Passes /\ Len(a) <= most
      /\ ~shifting => IsInjective(a)
  <2>1. CASE composite = "latest_detections"
    <3>1. AnswersFrom(Newest(items), items) /\ (IsInjective(items) => IsInjective(Newest(items)))
      BY <1>3, NewestLemma, Zenon
    <3>2. a = Newest(items)  BY <1>4, <2>1
    <3> QED  BY <1>2, <3>1, <3>2 DEF AnswersFrom
  <2>2. CASE composite = "eset_search"
    <3>1. a = items  BY <1>4, <2>2
    <3>2. Len(items) <= most  BY <1>2, <1>3, <2>2
    <3> QED  BY <1>2, <2>2, <3>1, <3>2
  <2> QED  BY <1>3, <2>1, <2>2
<1>6. WalkTypeOK'  BY <1>1 DEF WalkTypeOK
<1>7. WalkHasRead'  BY <1>3, <1>4, AnswersDiffer DEF WalkHasRead
<1>8. UnflaggedIsComplete'
  <2>1. reply'.rows = a /\ reply'.from = endpoint  BY <1>4
  <2> QED  BY <1>1, <1>5, <2>1 DEF UnflaggedIsComplete
<1> QED  BY <1>6, <1>7, <1>8 DEF WalkInv

LEMMA FallBackStep ==
  ASSUME WalkInv, FallBack
  PROVE  WalkInv'
<1>1. /\ reply = Walking /\ reply' = Walking /\ endpoint' = 2 /\ cursor' = 0 /\ items' = <<>>
      /\ composite' = composite /\ most' = most /\ present' = present /\ tenant' = tenant
      /\ shifting' = shifting
  BY DEF FallBack, StartsOverWith, call
<1>2. WalkTypeOK /\ most # 0  BY <1>1 DEF WalkInv, WalkHasRead
<1>3. <<>> \in Seq(Row) /\ Len(<<>>) = 0 /\ IsInjective(<<>>) /\ ToSet(<<>>) = {}
  <2>1. <<>> \in Seq(Row) /\ Len(<<>>) = 0 /\ DOMAIN <<>> = {}  OBVIOUS
  <2> QED  BY <2>1 DEF IsInjective, ToSet
<1>4. Len(tenant[2]) \in Nat  BY <1>2, LenProperties DEF WalkTypeOK
<1>5. WalkTypeOK'  BY <1>1, <1>2, <1>3, <1>4 DEF WalkTypeOK
<1>6. WalkHasRead'
  <2>1. Before(tenant[endpoint], cursor)' = {}  BY <1>1 DEF Before
  <2>2. most \in Nat  BY <1>2 DEF WalkTypeOK
  <2> QED  BY <1>1, <1>2, <1>3, <2>1, <2>2 DEF WalkHasRead
<1>7. UnflaggedIsComplete'  BY <1>1, AnswersDiffer DEF UnflaggedIsComplete
<1> QED  BY <1>5, <1>6, <1>7 DEF WalkInv

LEMMA FailStep ==
  ASSUME WalkInv, Fail
  PROVE  WalkInv'
<1>1. UNCHANGED <<composite, most, present, shifting, tenant, endpoint, cursor, items>>
  BY DEF Fail, call
<1>2. reply' # Walking /\ reply'.partial = TRUE
  <2>1. CASE composite = "latest_detections"
    <3>1. reply' = NoReply  BY <2>1 DEF Fail
    <3> QED  BY <3>1, AnswersDiffer
  <2>2. CASE composite # "latest_detections"
    <3>1. \E list : reply' = [NoReply EXCEPT !.rows = list]  BY <2>2 DEF Fail
    <3> QED  BY <3>1, AnswersDiffer
  <2> QED  BY <2>1, <2>2
<1>3. WalkTypeOK'  BY <1>1 DEF WalkInv, WalkTypeOK
<1>4. WalkHasRead' /\ UnflaggedIsComplete'  BY <1>2 DEF WalkHasRead, UnflaggedIsComplete
<1> QED  BY <1>3, <1>4 DEF WalkInv

LEMMA RowAppearsStep ==
  ASSUME WalkInv, NEW e \in {1, 2}, NEW row \in Late, NEW place \in 1 .. Len(tenant[e]) + 1,
         RowAppears(e, row, place)
  PROVE  WalkInv'
<1> DEFINE listed == tenant[endpoint]
           read == Before(listed, cursor)
           now == Before(listed, cursor)'
<1>1. /\ reply = Walking /\ reply' = Walking
      /\ row \notin ToSet(tenant[1]) /\ row \notin ToSet(tenant[2])
      /\ tenant' = [tenant EXCEPT ![e] = InsertAt(tenant[e], place, row)]
      /\ cursor' = IF ~shifting /\ e = endpoint /\ place <= cursor THEN cursor + 1 ELSE cursor
      /\ UNCHANGED <<composite, most, present, shifting, endpoint, items>>
  BY DEF RowAppears, call
<1>2. WalkTypeOK  BY DEF WalkInv
<1>3. /\ tenant \in [{1, 2} -> Seq(Row)] /\ endpoint \in {1, 2}
      /\ \A d \in {1, 2} : IsInjective(tenant[d]) /\ present[d] \subseteq ToSet(tenant[d])
      /\ cursor \in 0 .. Len(listed)
  BY <1>2 DEF WalkTypeOK
<1>4. row \in Row \ ToSet(tenant[e])  BY <1>1, RowsAssumption
<1>5. tenant[e] \in Seq(Row) /\ IsInjective(tenant[e]) /\ Len(tenant[e]) \in Nat
  BY <1>3, LenProperties
<1>6. /\ InsertAt(tenant[e], place, row) \in Seq(Row)
      /\ IsInjective(InsertAt(tenant[e], place, row))
      /\ ToSet(InsertAt(tenant[e], place, row)) = ToSet(tenant[e]) \cup {row}
  <2>1. 0 \in 0 .. Len(tenant[e])  BY <1>5
  <2> QED  BY <1>4, <1>5, <2>1, AppearedLemma
<1>7. /\ tenant' \in [{1, 2} -> Seq(Row)]
      /\ \A d \in {1, 2} : IsInjective(tenant'[d]) /\ present[d] \subseteq ToSet(tenant'[d])
  BY <1>1, <1>3, <1>6
<1>8. /\ cursor' \in 0 .. Len(tenant'[endpoint]) /\ now \subseteq read \cup {row}
      /\ ~shifting => read \subseteq now
  <2>1. CASE e = endpoint
    <3>1. /\ tenant'[endpoint] = InsertAt(listed, place, row)
          /\ cursor' = IF ~shifting /\ place <= cursor THEN cursor + 1 ELSE cursor
          /\ endpoint' = endpoint
      BY <1>1, <1>3, <2>1
    <3>2. /\ listed \in Seq(Row) /\ IsInjective(listed) /\ place \in 1 .. Len(listed) + 1
          /\ row \in Row \ ToSet(listed) /\ cursor \in 0 .. Len(listed)
      BY <1>3, <1>4, <1>5, <2>1
    <3> DEFINE more == InsertAt(listed, place, row)
               then == IF place <= cursor THEN cursor + 1 ELSE cursor
    <3>3. /\ then \in 0 .. Len(more) /\ cursor \in 0 .. Len(more)
          /\ read \subseteq Before(more, then)
          /\ Before(more, then) \subseteq read \cup {row}
          /\ Before(more, cursor) \subseteq read \cup {row}
      BY <3>2, AppearedLemma
    <3>4. now = Before(more, cursor')  BY <3>1 DEF Before
    <3>5. cursor' = IF shifting THEN cursor ELSE then  BY <3>1
    <3> HIDE DEF more, then, read, now
    <3>6. tenant'[endpoint] = more  BY <3>1 DEF more
    <3> QED  BY <3>3, <3>4, <3>5, <3>6
  <2>2. CASE e # endpoint
    <3>1. tenant'[endpoint] = listed /\ cursor' = cursor /\ endpoint' = endpoint
      BY <1>1, <1>3, <2>2
    <3>2. now = read  BY <3>1 DEF Before
    <3> QED  BY <1>3, <3>1, <3>2
  <2> QED  BY <2>1, <2>2
<1>9. WalkTypeOK'
  BY <1>1, <1>2, <1>7, <1>8 DEF WalkTypeOK
<1>10. row \notin present[endpoint]  BY <1>1, <1>3
<1>11. WalkHasRead'
  <2>1. WalkHasRead  BY DEF WalkInv
  <2>2. present[endpoint] \cap now \subseteq present[endpoint] \cap read  BY <1>8, <1>10
  <2> HIDE DEF read, now
  <2>3. /\ most # 0 /\ ToSet(items) \subseteq ToSet(listed)
        /\ ~shifting => IsInjective(items) /\ ToSet(items) \subseteq read
        /\ composite = "latest_detections" =>
             present[endpoint] \cap read \subseteq ToSet(items)
        /\ composite = "eset_search" =>
             /\ present[endpoint] \cap read \cap Passes \subseteq ToSet(items)
             /\ ToSet(items) \subseteq Passes /\ Len(items) < most
    BY <1>1, <2>1 DEF WalkHasRead, read
  <2>4. ~shifting => ToSet(items) \subseteq now  BY <1>8, <2>3
  <2>5. ToSet(listed) \subseteq ToSet(tenant'[endpoint])
    <3>1. tenant'[endpoint] = IF e = endpoint THEN InsertAt(tenant[e], place, row) ELSE listed
      BY <1>1, <1>3
    <3> QED  BY <1>6, <3>1
  <2>6. ToSet(items) \subseteq ToSet(tenant'[endpoint])  BY <2>3, <2>5
  <2> QED  BY <1>1, <2>2, <2>3, <2>4, <2>6 DEF WalkHasRead, now
<1>12. UnflaggedIsComplete'  BY <1>1, AnswersDiffer DEF UnflaggedIsComplete
<1> QED  BY <1>9, <1>11, <1>12 DEF WalkInv

LEMMA WalkStep ==
  ASSUME WalkInv, [ReadingNext]_readingVars
  PROVE  WalkInv'
<1>1. CASE UNCHANGED walkVars
  <2>1. UNCHANGED <<composite, most, present, shifting, tenant, endpoint, cursor, items,
                    shapeless, reply>>
    BY <1>1 DEF walkVars, call
  <2>2. WalkTypeOK'  BY <2>1 DEF WalkInv, WalkTypeOK
  <2>3. WalkHasRead'
    <3>1. Before(tenant[endpoint], cursor)' = Before(tenant[endpoint], cursor)  BY <2>1 DEF Before
    <3> QED  BY <2>1, <3>1 DEF WalkInv, WalkHasRead
  <2>4. UnflaggedIsComplete'  BY <2>1 DEF WalkInv, UnflaggedIsComplete
  <2> QED  BY <2>2, <2>3, <2>4 DEF WalkInv
<1>2. CASE WalkNext
  BY <1>2, DetectionsPageStep, SearchPageStep, ShapelessPageStep, FallBackStep, FailStep, RowAppearsStep
  DEF WalkNext
<1>3. UNCHANGED walkVars \/ WalkNext  BY DEF ReadingNext, readingVars
<1> QED  BY <1>1, <1>2, <1>3

LEMMA WalkInvariance == ReadingSpec => []WalkInv
BY WalkStart, WalkStep, PTL DEF ReadingSpec

(* An answer of a composite that carries no flag has wanted rows of one         *)
(* endpoint, and if all the pages it read were objects it leaves out none that  *)
(* was listed when the call began, but for its limit, and of the detections     *)
(* none that is newer than one it returns; whatever the listings, the tokens,   *)
(* the page size, the caps and the rows that appear while it reads.             *)
THEOREM UnflaggedAnswersAreComplete == ReadingSpec => []UnflaggedIsComplete
<1>1. WalkInv => UnflaggedIsComplete  BY DEF WalkInv
<1> QED  BY <1>1, WalkInvariance, PTL
=============================================================================
