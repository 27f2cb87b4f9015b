--------------------------- MODULE ClientPoolProofs ---------------------------
(***************************************************************************)
(* Theorems about ClientPool and its history variables                     *)
(* (ClientPoolHistory) for every number of keys, clients and calls and     *)
(* every cache bound.                                                      *)
(***************************************************************************)
EXTENDS ClientPoolHistory, SequenceLemmas, FiniteSetTheorems, TLAPS

-----------------------------------------------------------------------------
(* The OrderedDict operations on sequences. *)

(* move_to_end keeps the length of the order and only shifts what follows      *)
(* position i by one.                                                          *)
LEMMA MoveToEndLemma ==
  ASSUME NEW S, NEW s \in Seq(S), NEW i \in 1 .. Len(s)
  PROVE  /\ MoveToEnd(s, i) \in Seq(S)
         /\ Len(MoveToEnd(s, i)) = Len(s)
         /\ \A j \in 1 .. Len(s) :
              MoveToEnd(s, i)[j] = IF j < i THEN s[j]
                                   ELSE IF j < Len(s) THEN s[j + 1] ELSE s[i]
<1>1. Len(s) \in Nat /\ s[i] \in S
  BY LenProperties, ElementOfSeq
<1>2. /\ RemoveAt(s, i) \in Seq(S)
      /\ Len(RemoveAt(s, i)) = Len(s) - 1
      /\ \A j \in 1 .. Len(s) - 1 :
           RemoveAt(s, i)[j] = IF j < i THEN s[j] ELSE s[j + 1]
  BY RemoveAtLemma
<1> QED  BY <1>1, <1>2, AppendProperties DEF MoveToEnd

(* The eviction loop after an insertion: what is kept is a suffix of the        *)
(* order, what is evicted the rest, and at most one client leaves.              *)
LEMMA EvictionLemma ==
  ASSUME NEW s \in Seq(Client), Len(s) <= MaxClients, NEW c \in Client
  PROVE  LET all == Append(s, c)
             n == Excess(all)
         IN  /\ Kept(all) \in Seq(Client)
             /\ n = IF Len(s) = MaxClients THEN 1 ELSE 0
             /\ n <= Len(s)
             /\ Len(Kept(all)) = Len(s) + 1 - n
             /\ \A j \in 1 .. Len(s) + 1 - n :
                  Kept(all)[j] = IF j + n = Len(s) + 1 THEN c ELSE s[j + n]
             /\ Evicted(all) = {s[i] : i \in 1 .. n}
<1> DEFINE all == Append(s, c)
           n == Excess(all)
<1>1. Len(s) \in Nat /\ MaxClients \in Nat \ {0}
  BY LenProperties, MaxClientsAssumption
<1>2. /\ all \in Seq(Client)
      /\ Len(all) = Len(s) + 1
      /\ \A i \in 1 .. Len(s) : all[i] = s[i]
      /\ all[Len(s) + 1] = c
  BY AppendProperties
<1> HIDE DEF all
<1>3. n = (IF Len(s) = MaxClients THEN 1 ELSE 0) /\ n <= Len(s)
  BY <1>1, <1>2 DEF Excess
<1>4. \A i \in 1 .. Len(all) : all[i] \in Client
  BY <1>2, ElementOfSeq
<1>5. /\ Kept(all) \in Seq(Client)
      /\ Len(Kept(all)) = IF n + 1 <= Len(all) THEN Len(all) - (n + 1) + 1 ELSE 0
      /\ \A j \in 1 .. Len(all) - (n + 1) + 1 : Kept(all)[j] = all[n + 1 + j - 1]
  <2> HIDE DEF n
  <2>1. n + 1 \in Int /\ Len(all) \in Int  BY <1>1, <1>2, <1>3
  <2>2. \A i \in n + 1 .. Len(all) : all[i] \in Client  BY <1>1, <1>2, <1>3, <1>4
  <2>3. Kept(all) = SubSeq(all, n + 1, Len(all))  BY DEF Kept, n
  <2>4. /\ SubSeq(all, n + 1, Len(all)) \in Seq(Client)
        /\ Len(SubSeq(all, n + 1, Len(all))) = IF n + 1 <= Len(all) THEN Len(all) - (n + 1) + 1 ELSE 0
        /\ \A j \in 1 .. Len(all) - (n + 1) + 1 : SubSeq(all, n + 1, Len(all))[j] = all[n + 1 + j - 1]
    BY <2>1, <2>2, SubSeqProperties
  <2> QED  BY <2>3, <2>4
<1>6. Evicted(all) = {all[i] : i \in 1 .. n}  BY DEF Evicted
<1> HIDE DEF n
<1>7. Evicted(all) = {s[i] : i \in 1 .. n}  BY <1>1, <1>2, <1>3, <1>6
<1>8. \A j \in 1 .. Len(s) + 1 - n :
        Kept(all)[j] = IF j + n = Len(s) + 1 THEN c ELSE s[j + n]
  BY <1>1, <1>2, <1>3, <1>5
<1> QED  BY <1>1, <1>2, <1>3, <1>5, <1>7, <1>8 DEF all, n

-----------------------------------------------------------------------------
(* Counting the holders of a client. *)

LEMMA HoldersFinite ==
  ASSUME NEW c
  PROVE  IsFiniteSet(Holders(c)) /\ Cardinality(Holders(c)) \in Nat
<1>1. Holders(c) \subseteq Call  BY DEF Holders
<1> QED  BY <1>1, CallAssumption, FS_Subset, FS_CardinalityType

(* A call that held no client and now holds c adds one to c's holders only. *)
LEMMA HoldersAfterAcquire ==
  ASSUME TypeOK, NEW k \in Call, NEW c \in Client, ~Holds(k),
         held' = [held EXCEPT ![k] = c], NEW d \in Client
  PROVE  Cardinality(Holders(d)') = Cardinality(Holders(d)) + (IF d = c THEN 1 ELSE 0)
<1>1. k \notin Holders(d)  BY DEF Holders, Holds
<1>2. CASE d = c
  <2>1. Holders(d)' = Holders(d) \cup {k}  BY <1>2 DEF Holders, TypeOK
  <2> QED  BY <1>1, <1>2, <2>1, HoldersFinite, FS_AddElement
<1>3. CASE d # c
  <2>1. Holders(d)' = Holders(d)  BY <1>1, <1>3 DEF Holders, TypeOK
  <2> QED  BY <1>3, <2>1, HoldersFinite
<1> QED  BY <1>2, <1>3

(* A call that lets go of its client takes one from that client's holders only. *)
LEMMA HoldersAfterRelease ==
  ASSUME TypeOK, NEW k \in Call, Holds(k),
         held' = [held EXCEPT ![k] = Idle], NEW d \in Client
  PROVE  /\ Cardinality(Holders(d)') = Cardinality(Holders(d)) - (IF d = held[k] THEN 1 ELSE 0)
         /\ d = held[k] => Cardinality(Holders(d)) > 0
<1>0. Idle \notin Client  BY IdleAssumption
<1>1. CASE d = held[k]
  <2>1. Holders(d)' = Holders(d) \ {k} /\ k \in Holders(d)  BY <1>0, <1>1 DEF Holders, TypeOK
  <2>2. Cardinality(Holders(d)) # 0  BY <2>1, HoldersFinite, FS_EmptySet
  <2> QED  BY <1>1, <2>1, <2>2, HoldersFinite, FS_RemoveElement
<1>2. CASE d # held[k]
  <2>1. Holders(d)' = Holders(d)  BY <1>0, <1>2 DEF Holders, TypeOK
  <2> QED  BY <1>2, <2>1, HoldersFinite
<1> QED  BY <1>1, <1>2

-----------------------------------------------------------------------------
(* The inductive invariant.  LeaseSafety alone is not inductive: that a task    *)
(* closes no held client needs OneOwner (a client with a task has no lease),    *)
(* which needs LeasesCounted, and that a cache hit hands out an open client     *)
(* needs OneOwner again.                                                        *)
IInv == TypeOK /\ LeaseSafety /\ LeasesCounted /\ OneOwner /\ CacheSound

LEMMA InitIInv == Init => IInv
<1> SUFFICES ASSUME Init PROVE IInv  OBVIOUS
<1>1. TypeOK  BY DEF Init, TypeOK
<1>2. ~\E k \in Call : Holds(k)  BY IdleAssumption DEF Init, Holds
<1>3. LeaseSafety  BY <1>2 DEF LeaseSafety
<1>4. LeasesCounted
  <2> SUFFICES ASSUME NEW c \in Client PROVE leases[c] = Cardinality(Holders(c))
    BY DEF LeasesCounted
  <2>1. Holders(c) = {}  BY <1>2 DEF Holders, Holds
  <2> QED  BY <2>1, FS_EmptySet DEF Init
<1>5. OneOwner  BY DEF Init, OneOwner, OwnerOf, Cached, ToSet
<1>6. CacheSound  BY MaxClientsAssumption DEF Init, CacheSound
<1> QED  BY <1>1, <1>3, <1>4, <1>5, <1>6 DEF IInv

(* Whatever is in the cache is open, and nothing else has a say in it. *)
LEMMA CachedIsOpen ==
  ASSUME IInv, NEW c \in Cached
  PROVE  c \in Client /\ http[c] = "open" /\ c \notin retired /\ c \notin tasks
<1>1. c \in Client  BY ElementOfSeq, LenProperties DEF IInv, TypeOK, Cached, ToSet
<1> QED  BY <1>1 DEF IInv, TypeOK, OneOwner, OwnerOf

(* A cache hit permutes the order: the same clients stay cached. *)
LEMMA HitStep ==
  ASSUME IInv, NEW key \in Key, NEW c \in Client, phase' = "open", CacheHit(key, c)
  PROVE  /\ clients' \in Seq(Client) /\ CacheSound' /\ Cached' = Cached /\ c \in Cached
<1>1. /\ clients \in Seq(Client) /\ Len(clients) \in Nat
      /\ DOMAIN clients = 1 .. Len(clients)
  BY LenProperties DEF IInv, TypeOK
<1>2. PICK i \in 1 .. Len(clients) :
        clients[i] = c /\ keyOf[c] = key /\ clients' = MoveToEnd(clients, i)
  BY <1>1 DEF CacheHit
<1>3. /\ clients' \in Seq(Client)
      /\ Len(clients') = Len(clients)
      /\ \A j \in 1 .. Len(clients) :
           clients'[j] = IF j < i THEN clients[j]
                         ELSE IF j < Len(clients) THEN clients[j + 1] ELSE clients[i]
  BY <1>1, <1>2, MoveToEndLemma
<1>4. DOMAIN clients' = 1 .. Len(clients)  BY <1>3, LenProperties
<1> DEFINE from(j) == IF j < i THEN j ELSE IF j < Len(clients) THEN j + 1 ELSE i
<1>5. \A j \in 1 .. Len(clients) : from(j) \in 1 .. Len(clients) /\ clients'[j] = clients[from(j)]
  BY <1>1, <1>3
<1>6. \A j, k \in 1 .. Len(clients) : from(j) = from(k) => j = k
  BY <1>1
<1>7. \A m \in 1 .. Len(clients) : \E j \in 1 .. Len(clients) : from(j) = m
  <2> SUFFICES ASSUME NEW m \in 1 .. Len(clients)
               PROVE  \E j \in 1 .. Len(clients) : from(j) = m
    OBVIOUS
  <2>1. CASE m < i  BY <1>1, <2>1
  <2>2. CASE m = i
    <3>1. Len(clients) \in 1 .. Len(clients)  BY <1>1
    <3>2. ~(Len(clients) < i) /\ ~(Len(clients) < Len(clients))  BY <1>1
    <3>3. from(Len(clients)) = i  BY <3>2, Zenon
    <3> QED  BY <2>2, <3>1, <3>3
  <2>3. CASE m > i
    <3>1. m - 1 \in 1 .. Len(clients) /\ from(m - 1) = m  BY <1>1, <2>3
    <3> QED  BY <3>1
  <2> QED  BY <1>1, <2>1, <2>2, <2>3
<1> HIDE DEF from
<1>8. Cached' = Cached
  <2>1. Cached = {clients[m] : m \in 1 .. Len(clients)}  BY <1>1 DEF Cached, ToSet
  <2>2. Cached' = {clients'[j] : j \in 1 .. Len(clients)}  BY <1>4 DEF Cached, ToSet
  <2>3. ASSUME NEW j \in 1 .. Len(clients) PROVE clients'[j] \in Cached
    BY <1>5, <2>1
  <2>4. ASSUME NEW m \in 1 .. Len(clients) PROVE clients[m] \in Cached'
    <3>1. PICK j \in 1 .. Len(clients) : from(j) = m  BY <1>7
    <3>2. clients'[j] = clients[m]  BY <1>5, <3>1
    <3> QED  BY <2>2, <3>2
  <2> QED  BY <2>1, <2>2, <2>3, <2>4
<1>9. keyOf' = keyOf  BY DEF CacheHit
<1>10. CacheSound'
  <2>1. Len(clients') <= MaxClients  BY <1>3 DEF IInv, CacheSound
  <2>2. \A j, k \in DOMAIN clients' : keyOf'[clients'[j]] = keyOf'[clients'[k]] => j = k
    BY <1>1, <1>4, <1>5, <1>6, <1>9 DEF IInv, CacheSound
  <2>3. \A j \in DOMAIN clients' : keyOf'[clients'[j]] \in Key
    BY <1>1, <1>4, <1>5, <1>9 DEF IInv, CacheSound
  <2> QED  BY <2>1, <2>2, <2>3 DEF CacheSound
<1> QED  BY <1>1, <1>2, <1>3, <1>8, <1>10 DEF Cached, ToSet

(* A cache miss adds the new client and lets at most one other go, which is     *)
(* then in the cache no more.                                                   *)
LEMMA MissStep ==
  ASSUME IInv, NEW key \in Key, NEW c \in Client, phase' = "open", CacheMiss(key, c)
  PROVE  LET gone == Evicted(Append(clients, c))
         IN  /\ clients' \in Seq(Client) /\ CacheSound'
             /\ gone \subseteq Cached
             /\ c \notin Cached
             /\ Cached' = (Cached \cup {c}) \ gone
<1> DEFINE n == Excess(Append(clients, c))
           gone == Evicted(Append(clients, c))
<1>1. /\ clients \in Seq(Client) /\ Len(clients) \in Nat /\ Len(clients) <= MaxClients
      /\ DOMAIN clients = 1 .. Len(clients)
      /\ MaxClients \in Nat \ {0}
  BY LenProperties, MaxClientsAssumption DEF IInv, TypeOK, CacheSound
<1>2. /\ clients' = Kept(Append(clients, c))
      /\ http[c] = "unborn"
      /\ keyOf' = [keyOf EXCEPT ![c] = key]
      /\ \A i \in 1 .. Len(clients) : keyOf[clients[i]] # key
  BY <1>1 DEF CacheMiss, Missing
<1>3. /\ clients' \in Seq(Client)
      /\ n = IF Len(clients) = MaxClients THEN 1 ELSE 0
      /\ n <= Len(clients)
      /\ Len(clients') = Len(clients) + 1 - n
      /\ \A j \in 1 .. Len(clients) + 1 - n :
           clients'[j] = IF j + n = Len(clients) + 1 THEN c ELSE clients[j + n]
      /\ gone = {clients[i] : i \in 1 .. n}
  BY <1>1, <1>2, EvictionLemma
<1> HIDE DEF n, gone
<1>3a. n = IF Len(clients) = MaxClients THEN 1 ELSE 0  BY <1>3
<1>3b. /\ Len(clients') = Len(clients) + 1 - n
      /\ \A j \in 1 .. Len(clients) + 1 - n :
           clients'[j] = IF j + n = Len(clients) + 1 THEN c ELSE clients[j + n]
  BY <1>3
<1>3c. gone = {clients[i] : i \in 1 .. n}  BY <1>3
<1>4. n \in Nat /\ n <= 1 /\ n <= Len(clients) /\ Len(clients) + 1 - n <= MaxClients
  <2>1. CASE Len(clients) = MaxClients
    <3>1. n = 1  BY <1>3a, <2>1
    <3> QED  BY <1>1, <2>1, <3>1
  <2>2. CASE Len(clients) # MaxClients
    <3>1. n = 0  BY <1>3a, <2>2
    <3>2. Len(clients) + 1 <= MaxClients
      <4>1. Len(clients) \in Nat /\ MaxClients \in Nat /\ Len(clients) <= MaxClients  BY <1>1
      <4> QED  BY <2>2, <4>1
    <3> QED  BY <1>1, <3>1, <3>2
  <2> QED  BY <2>1, <2>2
<1>5. DOMAIN clients' = 1 .. Len(clients) + 1 - n  BY <1>3, LenProperties
<1>6. Cached = {clients[i] : i \in 1 .. Len(clients)}  BY <1>1 DEF Cached, ToSet
<1>7. Cached' = {clients'[j] : j \in 1 .. Len(clients) + 1 - n}  BY <1>5 DEF Cached, ToSet
<1>8. c \notin Cached  BY <1>2, CachedIsOpen
<1>9. gone \subseteq Cached
  <2>1. \A i \in 1 .. n : i \in 1 .. Len(clients)  BY <1>1, <1>4
  <2> QED  BY <1>3c, <1>6, <2>1
<1>10. \A i, j \in 1 .. Len(clients) : keyOf[clients[i]] = keyOf[clients[j]] => i = j
  BY <1>1 DEF IInv, CacheSound
<1>11. \A i \in 1 .. Len(clients) : clients[i] \in Client /\ clients[i] # c
  BY <1>1, <1>6, <1>8, ElementOfSeq
<1>12. ASSUME NEW j \in 1 .. Len(clients) + 1 - n
       PROVE  \/ j + n = Len(clients) + 1 /\ clients'[j] = c
              \/ /\ j + n \in n + 1 .. Len(clients)
                 /\ j + n \in 1 .. Len(clients)
                 /\ clients'[j] = clients[j + n]
  <2>1. CASE j + n = Len(clients) + 1  BY <1>3b, <2>1
  <2>2. CASE j + n # Len(clients) + 1
    <3>1. clients'[j] = clients[j + n]  BY <1>3b, <2>2
    <3> QED  BY <1>1, <1>4, <2>2, <3>1
  <2> QED  BY <2>1, <2>2
<1>13. Cached' = (Cached \cup {c}) \ gone
  <2>1. ASSUME NEW d \in Cached' PROVE d \in (Cached \cup {c}) \ gone
    <3>1. PICK j \in 1 .. Len(clients) + 1 - n : d = clients'[j]  BY <1>7
    <3>2. CASE d = c  BY <1>8, <1>9, <3>2
    <3>3. CASE d # c
      <4>1. j + n \in n + 1 .. Len(clients) /\ j + n \in 1 .. Len(clients) /\ d = clients[j + n]
        BY <1>12, <3>1, <3>3
      <4>2. d \notin gone
        <5> SUFFICES ASSUME d \in gone PROVE FALSE  OBVIOUS
        <5>1. PICK i \in 1 .. n : d = clients[i]  BY <1>3c
        <5>2. i \in 1 .. Len(clients)  BY <1>1, <1>4
        <5>3. i = j + n  BY <1>10, <4>1, <5>1, <5>2
        <5> QED  BY <1>4, <4>1, <5>3
      <4> QED  BY <1>6, <4>1, <4>2
    <3> QED  BY <3>2, <3>3
  <2>2. ASSUME NEW d \in (Cached \cup {c}) \ gone PROVE d \in Cached'
    <3>1. CASE d = c
      <4>1. Len(clients) + 1 - n \in 1 .. Len(clients) + 1 - n  BY <1>1, <1>4
      <4>2. clients'[Len(clients) + 1 - n] = c  BY <1>1, <1>3b, <1>4, <4>1
      <4> QED  BY <1>7, <3>1, <4>1, <4>2
    <3>2. CASE d # c
      <4>1. PICK i \in 1 .. Len(clients) : d = clients[i]  BY <1>6, <3>2
      <4>2. i \notin 1 .. n  BY <1>3c, <4>1
      <4>3. i - n \in 1 .. Len(clients) + 1 - n /\ (i - n) + n = i  BY <1>1, <1>4, <4>2
      <4>4. clients'[i - n] = clients[i]  BY <1>1, <1>4, <1>12, <4>3
      <4> QED  BY <1>7, <4>1, <4>3, <4>4
    <3> QED  BY <3>1, <3>2
  <2> QED  BY <2>1, <2>2
<1>14. CacheSound'
  <2>1. Len(clients') <= MaxClients  BY <1>3b, <1>4
  <2>2. keyOf'[c] = key /\ \A d \in Client : d # c => keyOf'[d] = keyOf[d]
    BY <1>2 DEF IInv, TypeOK
  <2>3. \A i, j \in DOMAIN clients' : keyOf'[clients'[i]] = keyOf'[clients'[j]] => i = j
    <3> SUFFICES ASSUME NEW i \in 1 .. Len(clients) + 1 - n, NEW j \in 1 .. Len(clients) + 1 - n,
                        keyOf'[clients'[i]] = keyOf'[clients'[j]]
                 PROVE  i = j
      BY <1>5
    <3>1. CASE clients'[i] = c /\ clients'[j] = c
      <4>1. i + n = Len(clients) + 1 /\ j + n = Len(clients) + 1  BY <1>11, <1>12, <3>1
      <4> QED  BY <1>1, <1>4, <4>1
    <3>2. CASE clients'[i] = c /\ clients'[j] # c
      BY <1>2, <1>11, <1>12, <2>2, <3>2
    <3>3. CASE clients'[i] # c /\ clients'[j] = c
      BY <1>2, <1>11, <1>12, <2>2, <3>3
    <3>4. CASE clients'[i] # c /\ clients'[j] # c
      <4>1. i + n = j + n  BY <1>10, <1>11, <1>12, <2>2, <3>4
      <4> QED  BY <1>1, <1>4, <4>1
    <3> QED  BY <3>1, <3>2, <3>3, <3>4
  <2>4. \A i \in DOMAIN clients' : keyOf'[clients'[i]] \in Key
    <3>1. \A i \in 1 .. Len(clients) : keyOf[clients[i]] \in Key  BY <1>1 DEF IInv, CacheSound
    <3> QED  BY <1>5, <1>11, <1>12, <2>2, <3>1
  <2> QED  BY <2>1, <2>3, <2>4 DEF CacheSound
<1> QED  BY <1>3, <1>8, <1>9, <1>13, <1>14 DEF gone

(* What a lookup leaves behind, before acquire() counts the lease. *)
LEMMA LookupStep ==
  ASSUME IInv, NEW key \in Key, NEW c \in Client, GetLocked(key, c)
  PROVE  /\ clients' \in Seq(Client) /\ CacheSound' /\ c \in Cached'
         /\ keyOf' \in [Client -> Key \cup {NoKey}]
         /\ retired' \in SUBSET Client /\ tasks' \in SUBSET Client
         /\ http' \in [Client -> {"unborn", "open", "closed"}]
         /\ phase' = phase /\ awaited' = awaited
         /\ c \notin retired' /\ c \notin tasks' /\ http'[c] = "open"
         /\ \A d \in Client : d # c => http'[d] = http[d]
         /\ \A d \in Client :
              leases' = leases \/ (d # c /\ leases'[d] = leases[d]) => OwnerOf(d)'
         /\ \A d \in Client : leases[d] > 0 /\ d \notin tasks => d \notin tasks'
<1>1. phase' = "open" /\ phase = "open" /\ awaited' = awaited  BY DEF GetLocked, Open
<1>2. CASE CacheHit(key, c)
  <2>1. clients' \in Seq(Client) /\ CacheSound' /\ Cached' = Cached /\ c \in Cached
    BY <1>1, <1>2, HitStep
  <2>2. keyOf' = keyOf /\ http' = http /\ retired' = retired /\ tasks' = tasks
    BY <1>2 DEF CacheHit
  <2>3. c \notin retired /\ c \notin tasks /\ http[c] = "open"  BY <2>1, CachedIsOpen
  <2>4. \A d \in Client :
          leases' = leases \/ (d # c /\ leases'[d] = leases[d]) => OwnerOf(d)'
    BY <2>1, <2>2 DEF IInv, OneOwner, OwnerOf
  <2> QED  BY <1>1, <2>1, <2>2, <2>3, <2>4 DEF IInv, TypeOK
<1>3. CASE CacheMiss(key, c)
  <2> DEFINE gone == Evicted(Append(clients, c))
  <2>1. /\ clients' \in Seq(Client) /\ CacheSound'
        /\ gone \subseteq Cached
        /\ c \notin Cached
        /\ Cached' = (Cached \cup {c}) \ gone
    BY <1>1, <1>3, MissStep
  <2>2. /\ http[c] = "unborn"
        /\ http' = [http EXCEPT ![c] = "open"]
        /\ keyOf' = [keyOf EXCEPT ![c] = key]
        /\ retired' = retired \cup {d \in gone : leases[d] > 0}
        /\ tasks' = tasks \cup {d \in gone : leases[d] = 0}
    <3>1. \A d \in gone : ~(leases[d] > 0) <=> leases[d] = 0
      BY <2>1, CachedIsOpen DEF IInv, TypeOK
    <3> QED  BY <1>3, <3>1 DEF CacheMiss, LetGo, Leased
  <2> HIDE DEF gone
  <2>3. \A d \in gone : d \in Client /\ http[d] = "open" /\ d \notin retired /\ d \notin tasks
    BY <2>1, CachedIsOpen
  <2>4. c \notin gone /\ c \notin retired /\ c \notin tasks  BY <2>1, <2>2 DEF IInv, OneOwner, OwnerOf
  <2>5. leases \in [Client -> Nat] /\ http \in [Client -> {"unborn", "open", "closed"}]
    BY DEF IInv, TypeOK
  <2>6. ASSUME NEW d \in Client, leases' = leases \/ (d # c /\ leases'[d] = leases[d])
        PROVE  OwnerOf(d)'
    <3>1. leases'[d] = leases[d] /\ leases[d] \in Nat  BY <2>5, <2>6
    <3>2. CASE d = c  BY <2>1, <2>2, <2>4, <2>5, <3>2 DEF OwnerOf
    <3>3. CASE d # c /\ d \in gone
      <4>1. http'[d] = "open"  BY <2>2, <2>3, <2>5, <3>3
      <4>2. d \notin Cached'  BY <2>1, <3>3
      <4>3. CASE leases[d] > 0
        <5>1. d \in retired' /\ d \notin tasks'  BY <2>2, <2>3, <3>3, <4>3
        <5> QED  BY <3>1, <4>1, <4>2, <4>3, <5>1 DEF OwnerOf
      <4>4. CASE leases[d] = 0
        <5>1. d \notin retired' /\ d \in tasks'  BY <2>2, <2>3, <3>3, <4>4
        <5> QED  BY <3>1, <4>1, <4>2, <4>4, <5>1 DEF OwnerOf
      <4> QED  BY <3>1, <4>3, <4>4
    <3>4. CASE d # c /\ d \notin gone
      <4>1. http'[d] = http[d] /\ (d \in Cached' <=> d \in Cached)
            /\ (d \in retired' <=> d \in retired) /\ (d \in tasks' <=> d \in tasks)
        BY <2>1, <2>2, <2>5, <3>4
      <4> QED  BY <3>1, <4>1 DEF IInv, OneOwner, OwnerOf
    <3> QED  BY <3>2, <3>3, <3>4
  <2>7. \A d \in Client : leases[d] > 0 /\ d \notin tasks => d \notin tasks'
    BY <2>2, <2>5
  <2>8. /\ http'[c] = "open" /\ c \in Cached' /\ c \notin retired' /\ c \notin tasks'
        /\ \A d \in Client : d # c => http'[d] = http[d]
        /\ keyOf' \in [Client -> Key \cup {NoKey}]
        /\ http' \in [Client -> {"unborn", "open", "closed"}]
    BY <2>1, <2>2, <2>4, <2>5 DEF IInv, TypeOK
  <2>9. retired' \in SUBSET Client /\ tasks' \in SUBSET Client
    BY <2>2, <2>3 DEF IInv, TypeOK
  <2> QED  BY <1>1, <2>1, <2>6, <2>7, <2>8, <2>9
<1> QED  BY <1>2, <1>3 DEF GetLocked

(* Only the calls' leases change LeasesCounted. *)
LEMMA LeasesUntouched ==
  ASSUME IInv, UNCHANGED <<leases, held>>
  PROVE  LeasesCounted' /\ leases' \in [Client -> Nat] /\ held' \in [Call -> Client \cup {Idle, Refused}]
BY DEF IInv, TypeOK, LeasesCounted, Holders

(* A held client has a lease. *)
LEMMA HeldIsLeased ==
  ASSUME IInv, NEW k \in Call, Holds(k)
  PROVE  /\ held[k] \in Client /\ leases[held[k]] > 0
         /\ http[held[k]] = "open" /\ held[k] \notin tasks
<1>1. held[k] \in Client /\ k \in Holders(held[k])  BY DEF Holds, Holders
<1>2. Cardinality(Holders(held[k])) # 0  BY <1>1, HoldersFinite, FS_EmptySet
<1>3. Cardinality(Holders(held[k])) > 0  BY <1>2, HoldersFinite
<1> QED  BY <1>1, <1>3 DEF IInv, LeasesCounted, LeaseSafety

LEMMA GetStep ==
  ASSUME IInv, NEW key \in Key, NEW c \in Client, Get(key, c)
  PROVE  IInv'
<1>1. GetLocked(key, c) /\ leases' = leases /\ held' = held  BY DEF Get
<1>2. TypeOK'  BY <1>1, LookupStep, LeasesUntouched DEF IInv, TypeOK
<1>3. LeaseSafety'
  <2> SUFFICES ASSUME NEW k \in Call, Holds(k)
               PROVE  http'[held[k]] = "open" /\ held[k] \notin tasks'
    BY <1>1 DEF LeaseSafety, Holds
  <2> QED  BY <1>1, LookupStep, HeldIsLeased
<1>4. LeasesCounted'  BY <1>1, LeasesUntouched
<1>5. OneOwner'  BY <1>1, LookupStep DEF OneOwner
<1>6. CacheSound'  BY <1>1, LookupStep
<1> QED  BY <1>2, <1>3, <1>4, <1>5, <1>6 DEF IInv

LEMMA AcquireStep ==
  ASSUME IInv, NEW k \in Call, NEW key \in Key, NEW c \in Client, Acquire(k, key, c)
  PROVE  IInv'
<1>1. /\ GetLocked(key, c) /\ ~Holds(k)
      /\ leases' = [leases EXCEPT ![c] = @ + 1]
      /\ held' = [held EXCEPT ![k] = c]
  BY DEF Acquire
<1>2. /\ clients' \in Seq(Client) /\ CacheSound' /\ c \in Cached'
      /\ c \notin retired' /\ c \notin tasks' /\ http'[c] = "open"
      /\ \A d \in Client : d # c => http'[d] = http[d]
      /\ \A d \in Client : (d # c /\ leases'[d] = leases[d]) => OwnerOf(d)'
      /\ \A d \in Client : leases[d] > 0 /\ d \notin tasks => d \notin tasks'
  BY <1>1, LookupStep
<1>3. leases \in [Client -> Nat] /\ held \in [Call -> Client \cup {Idle, Refused}]
  BY DEF IInv, TypeOK
<1>4. TypeOK'
  <2>1. leases' \in [Client -> Nat] /\ held' \in [Call -> Client \cup {Idle, Refused}]
    BY <1>1, <1>3
  <2> QED  BY <1>1, <2>1, LookupStep DEF IInv, TypeOK
<1>5. LeaseSafety'
  <2> SUFFICES ASSUME NEW j \in Call, held'[j] \in Client
               PROVE  http'[held'[j]] = "open" /\ held'[j] \notin tasks'
    BY DEF LeaseSafety, Holds
  <2>1. CASE j = k  BY <1>1, <1>2, <1>3, <2>1
  <2>2. CASE j # k
    <3>1. held'[j] = held[j] /\ Holds(j)  BY <1>1, <1>3, <2>2 DEF Holds
    <3>2. /\ leases[held[j]] > 0 /\ http[held[j]] = "open"
          /\ held[j] \in Client /\ held[j] \notin tasks
      BY <3>1, HeldIsLeased
    <3> QED  BY <1>2, <3>1, <3>2
  <2> QED  BY <2>1, <2>2
<1>6. LeasesCounted'
  <2> SUFFICES ASSUME NEW d \in Client PROVE leases'[d] = Cardinality(Holders(d)')
    BY DEF LeasesCounted
  <2>1. Cardinality(Holders(d)') = Cardinality(Holders(d)) + (IF d = c THEN 1 ELSE 0)
    BY <1>1, HoldersAfterAcquire DEF IInv
  <2>2. leases[d] = Cardinality(Holders(d))  BY DEF IInv, LeasesCounted
  <2> QED  BY <1>1, <1>3, <2>1, <2>2
<1>7. OneOwner'
  <2> SUFFICES ASSUME NEW d \in Client PROVE OwnerOf(d)'  BY DEF OneOwner
  <2>1. CASE d = c  BY <1>2, <2>1 DEF OwnerOf
  <2>2. CASE d # c  BY <1>1, <1>2, <1>3, <2>2
  <2> QED  BY <2>1, <2>2
<1> QED  BY <1>2, <1>4, <1>5, <1>6, <1>7 DEF IInv

LEMMA AcquireRaisesStep ==
  ASSUME IInv, NEW k \in Call, NEW key \in Key, AcquireRaises(k, key)
  PROVE  IInv'
<1>1. /\ ~Holds(k) /\ held' = [held EXCEPT ![k] = Refused]
      /\ UNCHANGED <<clients, keyOf, leases, retired, tasks, http, phase, awaited>>
  BY DEF AcquireRaises
<1>2. held \in [Call -> Client \cup {Idle, Refused}] /\ Refused \notin Client
  BY IdleAssumption DEF IInv, TypeOK
<1>3. TypeOK'  BY <1>1, <1>2 DEF IInv, TypeOK
<1>4. \A c \in Client : Holders(c)' = Holders(c)
  BY <1>1, <1>2 DEF Holders, Holds
<1>5. LeaseSafety'  BY <1>1, <1>2 DEF IInv, LeaseSafety, Holds
<1>6. LeasesCounted'  BY <1>1, <1>4 DEF IInv, LeasesCounted
<1>7. OneOwner'  BY <1>1 DEF IInv, OneOwner, OwnerOf, Cached
<1>8. CacheSound'  BY <1>1 DEF IInv, CacheSound
<1> QED  BY <1>3, <1>5, <1>6, <1>7, <1>8 DEF IInv

LEMMA ReleaseStep ==
  ASSUME IInv, NEW k \in Call, Release(k)
  PROVE  IInv'
<1> DEFINE c == held[k]
           last == leases[c] - 1 = 0 /\ c \in retired
<1>1. /\ Holds(k)
      /\ leases' = [leases EXCEPT ![c] = @ - 1]
      /\ retired' = IF last THEN retired \ {c} ELSE retired
      /\ tasks' = IF last THEN tasks \cup {c} ELSE tasks
      /\ held' = [held EXCEPT ![k] = Idle]
      /\ UNCHANGED <<clients, keyOf, http, phase, awaited>>
  BY DEF Release, ClosesRetired, LeasesLeft
<1>2. /\ leases \in [Client -> Nat] /\ held \in [Call -> Client \cup {Idle, Refused}]
      /\ Idle \notin Client
  BY IdleAssumption DEF IInv, TypeOK
<1>3. c \in Client /\ leases[c] > 0 /\ http[c] = "open" /\ c \notin tasks
  BY <1>1, HeldIsLeased
<1>4. TypeOK'
  <2>1. leases' \in [Client -> Nat]  BY <1>1, <1>2, <1>3
  <2>2. held' \in [Call -> Client \cup {Idle, Refused}]  BY <1>1, <1>2
  <2>3. retired' \in SUBSET Client /\ tasks' \in SUBSET Client  BY <1>1, <1>3 DEF IInv, TypeOK
  <2> QED  BY <1>1, <2>1, <2>2, <2>3 DEF IInv, TypeOK
<1>5. LeasesCounted'
  <2> SUFFICES ASSUME NEW d \in Client PROVE leases'[d] = Cardinality(Holders(d)')
    BY DEF LeasesCounted
  <2>1. Cardinality(Holders(d)') = Cardinality(Holders(d)) - (IF d = held[k] THEN 1 ELSE 0)
    BY <1>1, HoldersAfterRelease DEF IInv
  <2>2. leases[d] = Cardinality(Holders(d))  BY DEF IInv, LeasesCounted
  <2> QED  BY <1>1, <1>2, <2>1, <2>2
<1>6. LeaseSafety'
  <2> SUFFICES ASSUME NEW j \in Call, held'[j] \in Client
               PROVE  http'[held'[j]] = "open" /\ held'[j] \notin tasks'
    BY DEF LeaseSafety, Holds
  <2>1. j # k /\ held'[j] = held[j] /\ Holds(j)  BY <1>1, <1>2 DEF Holds
  <2>2. http[held[j]] = "open" /\ held[j] \notin tasks  BY <2>1, HeldIsLeased
  <2>3. CASE last /\ held[j] = c
    <3>1. j \in Holders(c) /\ k \in Holders(c)  BY <2>3 DEF Holders
    <3>2. Cardinality(Holders(c)) = 1  BY <1>3, <2>3 DEF IInv, LeasesCounted
    <3>3. Cardinality(Holders(c) \ {k}) = 0 /\ IsFiniteSet(Holders(c) \ {k})
      BY <3>1, <3>2, HoldersFinite, FS_RemoveElement
    <3>4. Holders(c) \ {k} = {}  BY <3>3, FS_EmptySet
    <3> QED  BY <2>1, <3>1, <3>4
  <2>4. CASE ~(last /\ held[j] = c)  BY <1>1, <2>1, <2>2, <2>4
  <2> QED  BY <2>3, <2>4
<1>7. OneOwner'
  <2> SUFFICES ASSUME NEW d \in Client PROVE OwnerOf(d)'  BY DEF OneOwner
  <2>1. OwnerOf(d) /\ Cached' = Cached  BY <1>1 DEF IInv, OneOwner, Cached
  <2>2. CASE d # c
    <3>1. /\ leases'[d] = leases[d] /\ http'[d] = http[d]
          /\ (d \in retired' <=> d \in retired) /\ (d \in tasks' <=> d \in tasks)
      BY <1>1, <1>2, <2>2
    <3> QED  BY <2>1, <3>1 DEF OwnerOf
  <2>3. CASE d = c /\ last
    <3>1. /\ leases'[d] = 0 /\ http'[d] = "open"
          /\ d \notin retired' /\ d \in tasks' /\ d \notin Cached'
      BY <1>1, <1>2, <1>3, <2>1, <2>3 DEF OwnerOf
    <3> QED  BY <3>1 DEF OwnerOf
  <2>4. CASE d = c /\ ~last
    <3>1. /\ leases'[d] = leases[d] - 1 /\ http'[d] = "open" /\ leases[d] \in Nat
          /\ retired' = retired /\ tasks' = tasks /\ d \notin tasks
      BY <1>1, <1>2, <1>3, <2>4
    <3>2. d \in retired => leases'[d] > 0  BY <1>3, <2>4, <3>1
    <3> QED  BY <1>3, <2>1, <2>4, <3>1, <3>2 DEF OwnerOf
  <2> QED  BY <2>2, <2>3, <2>4
<1>8. CacheSound'  BY <1>1 DEF IInv, CacheSound
<1> QED  BY <1>4, <1>5, <1>6, <1>7, <1>8 DEF IInv

LEMMA TaskStartsStep ==
  ASSUME IInv, NEW c \in Client, TaskStarts(c)
  PROVE  IInv'
<1>1. /\ c \in tasks /\ http[c] = "open" /\ http' = [http EXCEPT ![c] = "closed"]
      /\ UNCHANGED <<clients, keyOf, leases, retired, tasks, phase, awaited, held>>
  BY DEF TaskStarts
<1>2. TypeOK'  BY <1>1 DEF IInv, TypeOK
<1>3. LeaseSafety'
  <2> SUFFICES ASSUME NEW k \in Call, Holds(k)
               PROVE  http'[held[k]] = "open" /\ held[k] \notin tasks
    BY <1>1 DEF LeaseSafety, Holds
  <2>1. held[k] \in Client /\ http[held[k]] = "open" /\ held[k] \notin tasks
    BY HeldIsLeased
  <2> QED  BY <1>1, <2>1 DEF IInv, TypeOK
<1>4. LeasesCounted'  BY <1>1, LeasesUntouched
<1>5. OneOwner'
  <2> SUFFICES ASSUME NEW d \in Client PROVE OwnerOf(d)'  BY DEF OneOwner
  <2>1. OwnerOf(d)  BY DEF IInv, OneOwner
  <2>2. CASE d = c
    <3>1. d \notin Cached /\ d \notin retired  BY <1>1, <2>1, <2>2 DEF OwnerOf
    <3>2. http'[d] = "closed"  BY <1>1, <2>2 DEF IInv, TypeOK
    <3> QED  BY <1>1, <3>1, <3>2 DEF OwnerOf, Cached
  <2>3. CASE d # c
    <3>1. http'[d] = http[d]  BY <1>1, <2>3 DEF IInv, TypeOK
    <3> QED  BY <1>1, <2>1, <3>1 DEF OwnerOf, Cached
  <2> QED  BY <2>2, <2>3
<1>6. CacheSound'  BY <1>1 DEF IInv, CacheSound
<1> QED  BY <1>2, <1>3, <1>4, <1>5, <1>6 DEF IInv

LEMMA TaskEndsStep ==
  ASSUME IInv, NEW c \in Client, TaskEnds(c)
  PROVE  IInv'
<1>1. /\ http[c] = "closed" /\ tasks' = tasks \ {c}
      /\ UNCHANGED <<clients, keyOf, leases, retired, http, phase, awaited, held>>
  BY DEF TaskEnds
<1>2. TypeOK'  BY <1>1 DEF IInv, TypeOK
<1>3. LeaseSafety'  BY <1>1 DEF IInv, LeaseSafety, Holds
<1>4. LeasesCounted'  BY <1>1, LeasesUntouched
<1>5. OneOwner'  BY <1>1 DEF IInv, OneOwner, OwnerOf, Cached
<1>6. CacheSound'  BY <1>1 DEF IInv, CacheSound
<1> QED  BY <1>2, <1>3, <1>4, <1>5, <1>6 DEF IInv

LEMMA CloseStep ==
  ASSUME IInv, Close
  PROVE  IInv'
<1>0. \A c \in Cached : c \in Client /\ (~(leases[c] > 0) <=> leases[c] = 0)
  BY CachedIsOpen DEF IInv, TypeOK
<1>1. /\ phase' = "draining" /\ clients' = <<>> /\ awaited' = tasks'
      /\ retired' = retired \cup {c \in Cached : leases[c] > 0}
      /\ tasks' = tasks \cup {c \in Cached : leases[c] = 0}
      /\ UNCHANGED <<keyOf, leases, http, held>>
  BY <1>0 DEF Close, LetGo, Leased, GathersTasks, Cached
<1>2. \A c \in Cached : c \in Client /\ http[c] = "open" /\ c \notin retired /\ c \notin tasks
  BY CachedIsOpen
<1>3. Cached' = {}  BY <1>1 DEF Cached, ToSet
<1>4. leases \in [Client -> Nat]  BY DEF IInv, TypeOK
<1>5. TypeOK'
  <2>1. retired' \in SUBSET Client /\ tasks' \in SUBSET Client  BY <1>1, <1>2 DEF IInv, TypeOK
  <2>2. clients' \in Seq(Client)  BY <1>1
  <2> QED  BY <1>1, <2>1, <2>2 DEF IInv, TypeOK
<1>6. LeaseSafety'
  <2> SUFFICES ASSUME NEW k \in Call, Holds(k)
               PROVE  http[held[k]] = "open" /\ held[k] \notin tasks'
    BY <1>1 DEF LeaseSafety, Holds
  <2> QED  BY <1>1, HeldIsLeased
<1>7. LeasesCounted'  BY <1>1, LeasesUntouched
<1>8. OneOwner'
  <2> SUFFICES ASSUME NEW c \in Client PROVE OwnerOf(c)'  BY DEF OneOwner
  <2>1. OwnerOf(c) /\ leases[c] \in Nat  BY <1>4 DEF IInv, OneOwner
  <2>2. CASE c \in Cached
    <3>1. CASE leases[c] = 0
      <4>1. c \in tasks' /\ c \notin retired'  BY <1>1, <1>2, <2>2, <3>1
      <4> QED  BY <1>1, <1>2, <1>3, <2>2, <3>1, <4>1 DEF OwnerOf
    <3>2. CASE leases[c] > 0
      <4>1. c \notin tasks' /\ c \in retired'  BY <1>1, <1>2, <2>2, <3>2
      <4> QED  BY <1>1, <1>2, <1>3, <2>2, <3>2, <4>1 DEF OwnerOf
    <3> QED  BY <2>1, <3>1, <3>2
  <2>3. CASE c \notin Cached
    <3>1. (c \in tasks' <=> c \in tasks) /\ (c \in retired' <=> c \in retired)
      BY <1>1, <2>3
    <3> QED  BY <1>1, <1>3, <2>1, <2>3, <3>1 DEF OwnerOf
  <2> QED  BY <2>2, <2>3
<1>9. CacheSound'  BY <1>1, MaxClientsAssumption DEF CacheSound
<1> QED  BY <1>5, <1>6, <1>7, <1>8, <1>9 DEF IInv

LEMMA CloseReturnsStep ==
  ASSUME IInv, CloseReturns
  PROVE  IInv'
<1>1. /\ phase = "draining" /\ phase' = "drained"
      /\ UNCHANGED <<clients, keyOf, leases, retired, tasks, http, awaited, held>>
  BY DEF CloseReturns
<1>2. TypeOK'  BY <1>1 DEF IInv, TypeOK
<1>3. LeaseSafety'  BY <1>1 DEF IInv, LeaseSafety, Holds
<1>4. LeasesCounted'  BY <1>1, LeasesUntouched
<1>5. OneOwner'  BY <1>1 DEF IInv, OneOwner, OwnerOf, Cached
<1>6. CacheSound'  BY <1>1 DEF IInv, CacheSound
<1> QED  BY <1>2, <1>3, <1>4, <1>5, <1>6 DEF IInv

LEMMA NextIInv == IInv /\ [Next]_vars => IInv'
<1> SUFFICES ASSUME IInv, [Next]_vars PROVE IInv'  OBVIOUS
<1>1. ASSUME NEW key \in Key, NEW c \in Client, Get(key, c) PROVE IInv'
  BY <1>1, GetStep
<1>2. ASSUME NEW k \in Call, NEW key \in Key, NEW c \in Client, Acquire(k, key, c) PROVE IInv'
  BY <1>2, AcquireStep
<1>3. ASSUME NEW k \in Call, NEW key \in Key, AcquireRaises(k, key) PROVE IInv'
  BY <1>3, AcquireRaisesStep
<1>4. ASSUME NEW k \in Call, Release(k) PROVE IInv'
  BY <1>4, ReleaseStep
<1>5. ASSUME NEW c \in Client, TaskStarts(c) PROVE IInv'
  BY <1>5, TaskStartsStep
<1>6. ASSUME NEW c \in Client, TaskEnds(c) PROVE IInv'
  BY <1>6, TaskEndsStep
<1>7. CASE Close  BY <1>7, CloseStep
<1>8. CASE CloseReturns  BY <1>8, CloseReturnsStep
<1>9. CASE UNCHANGED vars
  BY <1>9 DEF vars, IInv, TypeOK, LeaseSafety, Holds, LeasesCounted, Holders,
              OneOwner, OwnerOf, Cached, CacheSound
<1> QED  BY <1>1, <1>2, <1>3, <1>4, <1>5, <1>6, <1>7, <1>8, <1>9 DEF Next

LEMMA Invariance == Spec => []IInv
BY InitIInv, NextIInv, PTL DEF Spec

-----------------------------------------------------------------------------
(* Every variable of the pool keeps its type. *)
THEOREM TypeCorrect == Spec => []TypeOK
<1>1. IInv => TypeOK  BY DEF IInv
<1> QED  BY <1>1, Invariance, PTL

(* For any number of calls, keys and clients and any cache bound, no client is  *)
(* closed, nor its closing scheduled, while a call holds it.                    *)
THEOREM LeasesAreSafe == Spec => []LeaseSafety
<1>1. IInv => LeaseSafety  BY DEF IInv
<1> QED  BY <1>1, Invariance, PTL

(* The lease count of a client is the number of calls holding it. *)
THEOREM LeasesAreCounted == Spec => []LeasesCounted
<1>1. IInv => LeasesCounted  BY DEF IInv
<1> QED  BY <1>1, Invariance, PTL

(* Every open client has exactly one owner that will close it. *)
THEOREM NoClientLeaks == Spec => []OneOwner
<1>1. IInv => OneOwner  BY DEF IInv
<1> QED  BY <1>1, Invariance, PTL

(* The cache is bounded, has one client per key and is empty after close(). *)
THEOREM CacheStaysSound == Spec => []CacheSound
<1>1. IInv => CacheSound  BY DEF IInv
<1> QED  BY <1>1, Invariance, PTL

-----------------------------------------------------------------------------
(* The pool implements LeasedClients. *)

LEMMA StageType == IInv => \A c \in Client : Stage(c) \in Lease!Stages
BY DEF IInv, TypeOK, Stage, Lease!Stages

(* The clients that serve, in the abstract view, are the cached ones, and the   *)
(* cache has one entry for each.                                                *)
LEMMA ServingIsCached ==
  ASSUME IInv
  PROVE  /\ Lease!Serving = Cached
         /\ Cardinality(Cached) = Len(clients)
<1>1. Lease!Serving = Cached
  <2>1. \A c \in Client : Stage(c) = "serving" <=> c \in Cached
    BY CachedIsOpen DEF IInv, TypeOK, Stage
  <2>2. Cached \subseteq Client  BY CachedIsOpen
  <2> QED  BY <2>1, <2>2 DEF Lease!Serving
<1>2. /\ clients \in Seq(Client) /\ Len(clients) \in Nat
      /\ DOMAIN clients = 1 .. Len(clients)
      /\ \A i, j \in 1 .. Len(clients) : clients[i] = clients[j] => i = j
  BY LenProperties DEF IInv, TypeOK, CacheSound
<1>3. clients \in Bijection(1 .. Len(clients), Cached)
  <2>1. clients \in [1 .. Len(clients) -> Cached]  BY <1>2 DEF Cached, ToSet
  <2> QED  BY <1>2, <2>1 DEF Bijection, Injection, Surjection, IsInjective, Cached, ToSet
<1>4. ExistsBijection(1 .. Len(clients), Cached)  BY <1>3 DEF ExistsBijection
<1> QED  BY <1>1, <1>2, <1>4, FS_CountingElements

LEMMA RefinesInit == Init => Lease!Init
<1> SUFFICES ASSUME Init PROVE Lease!Init  OBVIOUS
<1>1. \A c \in Client : Holders(c) = {}  BY IdleAssumption DEF Init, Holders
<1>2. \A c \in Client : Stage(c) = "unborn"  BY DEF Init, Stage
<1> QED  BY <1>1, <1>2 DEF Lease!Init, Init

(* A lookup is a Serve step of the abstract pool. *)
LEMMA RefinesLookup ==
  ASSUME IInv, NEW key \in Key, NEW c \in Client, GetLocked(key, c)
  PROVE  Lease!Serve(c) /\ phase' = phase
<1>1. phase' = phase /\ phase = "open"  BY DEF GetLocked, Open
<1>2. CASE CacheHit(key, c)
  <2>1. Cached' = Cached /\ c \in Cached  BY <1>1, <1>2, HitStep
  <2>2. http' = http  BY <1>2 DEF CacheHit
  <2>3. \A d \in Client : Stage(d)' = Stage(d)  BY <2>1, <2>2 DEF Stage
  <2>4. Stage(c) = "serving"  BY <2>1, CachedIsOpen DEF Stage
  <2> QED  BY <1>1, <2>3, <2>4 DEF Lease!Serve
<1>3. CASE CacheMiss(key, c)
  <2> DEFINE gone == Evicted(Append(clients, c))
             n == Excess(Append(clients, c))
  <2>1. /\ gone \subseteq Cached /\ c \notin Cached
        /\ Cached' = (Cached \cup {c}) \ gone
    BY <1>1, <1>3, MissStep
  <2>2. http[c] = "unborn" /\ http' = [http EXCEPT ![c] = "open"]
    BY <1>3 DEF CacheMiss
  <2>3. /\ clients \in Seq(Client) /\ Len(clients) <= MaxClients
        /\ Len(clients) \in Nat /\ MaxClients \in Nat
    BY LenProperties, MaxClientsAssumption DEF IInv, TypeOK, CacheSound
  <2>4. /\ n = IF Len(clients) = MaxClients THEN 1 ELSE 0
        /\ gone = {clients[i] : i \in 1 .. n}
    BY <2>3, EvictionLemma
  <2>5. Lease!Serving = Cached /\ Cardinality(Lease!Serving) = Len(clients)
    BY ServingIsCached
  <2> HIDE DEF gone, n
  <2>6. Stage(c) = "unborn" /\ Stage(c)' = "serving"
    BY <2>1, <2>2 DEF Stage, IInv, TypeOK
  <2>7. \A d \in Client : d # c /\ d \notin gone => Stage(d)' = Stage(d)
    BY <2>1, <2>2 DEF Stage, IInv, TypeOK
  <2>8. CASE Len(clients) = MaxClients
    <3>1. n = 1  BY <2>4, <2>8
    <3>2. PICK v : v = clients[1] /\ gone = {v}  BY <2>4, <3>1
    <3>3. v \in Cached /\ v \in Client /\ http[v] = "open" /\ v # c
      BY <2>1, <3>2, CachedIsOpen
    <3>4. Stage(v)' = "leaving"
      <4>1. http'[v] = "open"  BY <2>2, <3>3 DEF IInv, TypeOK
      <4>2. v \notin Cached'  BY <2>1, <3>2
      <4> QED  BY <4>1, <4>2 DEF Stage
    <3>5. \A d \in Client : Stage(d)' = IF d = v THEN "leaving"
                                        ELSE IF d = c THEN "serving" ELSE Stage(d)
      BY <2>6, <2>7, <3>2, <3>3, <3>4
    <3>6. [d \in Client |-> Stage(d)']
             = [[d \in Client |-> Stage(d)] EXCEPT ![c] = "serving", ![v] = "leaving"]
      BY <3>3, <3>5
    <3>7. v \in Lease!Serving  BY <2>5, <3>3
    <3> QED  BY <1>1, <2>5, <2>6, <2>8, <3>6, <3>7 DEF Lease!Serve
  <2>9. CASE Len(clients) # MaxClients
    <3>1. n = 0  BY <2>4, <2>9
    <3>2. gone = {}  BY <2>4, <3>1
    <3>3. [d \in Client |-> Stage(d)']
             = [[d \in Client |-> Stage(d)] EXCEPT ![c] = "serving"]
      BY <2>6, <2>7, <3>2
    <3>4. Cardinality(Lease!Serving) < MaxClients
      <4>1. Len(clients) < MaxClients  BY <2>3, <2>9
      <4> QED  BY <2>5, <4>1
    <3> QED  BY <1>1, <2>6, <3>3, <3>4 DEF Lease!Serve
  <2> QED  BY <2>8, <2>9
<1> QED  BY <1>2, <1>3 DEF GetLocked

(* A step that changes neither the life of a client nor a lease is a stutter of *)
(* the abstract pool.                                                           *)
LEMMA RefinesStutter ==
  ASSUME UNCHANGED <<clients, http>>, \A c \in Client : Holders(c)' = Holders(c),
         (phase' = "open") <=> (phase = "open")
  PROVE  UNCHANGED Lease!vars
<1>1. \A c \in Client : Stage(c)' = Stage(c)  BY DEF Stage, Cached
<1>2. (phase = "open")' = (phase = "open")  OBVIOUS
<1> QED  BY <1>1, <1>2 DEF Lease!vars

LEMMA RefinesNext == IInv /\ [Next]_vars => [Lease!Next]_Lease!vars
<1> SUFFICES ASSUME IInv, [Next]_vars PROVE [Lease!Next]_Lease!vars  OBVIOUS
<1>0. held \in [Call -> Client \cup {Idle, Refused}] /\ Idle \notin Client /\ Refused \notin Client
  BY IdleAssumption DEF IInv, TypeOK
<1>1. ASSUME NEW key \in Key, NEW c \in Client, Get(key, c) PROVE Lease!Look(c)
  <2>1. GetLocked(key, c) /\ held' = held  BY <1>1 DEF Get
  <2>2. Lease!Serve(c) /\ phase' = phase  BY <2>1, RefinesLookup
  <2>3. \A d \in Client : Holders(d)' = Holders(d)  BY <2>1 DEF Holders
  <2> QED  BY <2>2, <2>3 DEF Lease!Look
<1>2. ASSUME NEW k \in Call, NEW key \in Key, NEW c \in Client, Acquire(k, key, c)
      PROVE  Lease!HandOut(k, c)
  <2>1. GetLocked(key, c) /\ ~Holds(k) /\ held' = [held EXCEPT ![k] = c]
    BY <1>2 DEF Acquire
  <2>2. Lease!Serve(c) /\ phase' = phase  BY <2>1, RefinesLookup
  <2>3. ~Lease!Holding(k)  BY <2>1 DEF Lease!Holding, Holders, Holds
  <2>4. \A d \in Client : Holders(d)' = IF d = c THEN Holders(d) \cup {k} ELSE Holders(d)
    BY <1>0, <2>1 DEF Holders, Holds
  <2>5. [d \in Client |-> Holders(d)']
           = [[d \in Client |-> Holders(d)] EXCEPT ![c] = @ \cup {k}]
    BY <2>4
  <2> QED  BY <2>2, <2>3, <2>5 DEF Lease!HandOut
<1>3. ASSUME NEW k \in Call, NEW key \in Key, AcquireRaises(k, key) PROVE UNCHANGED Lease!vars
  <2>1. ~Holds(k) /\ held' = [held EXCEPT ![k] = Refused] /\ UNCHANGED <<clients, http, phase>>
    BY <1>3 DEF AcquireRaises
  <2>2. \A d \in Client : Holders(d)' = Holders(d)  BY <1>0, <2>1 DEF Holders, Holds
  <2> QED  BY <2>1, <2>2, RefinesStutter
<1>4. ASSUME NEW k \in Call, Release(k) PROVE Lease!GiveBack(k, held[k]) /\ held[k] \in Client
  <2>1. /\ held[k] \in Client /\ held' = [held EXCEPT ![k] = Idle]
        /\ UNCHANGED <<clients, http, phase>>
    BY <1>4 DEF Release, Holds
  <2>2. \A d \in Client : Stage(d)' = Stage(d)  BY <2>1 DEF Stage, Cached
  <2>3. \A d \in Client : Holders(d)' = IF d = held[k] THEN Holders(d) \ {k} ELSE Holders(d)
    BY <1>0, <2>1 DEF Holders
  <2>4. [d \in Client |-> Holders(d)']
           = [[d \in Client |-> Holders(d)] EXCEPT ![held[k]] = @ \ {k}]
    BY <2>1, <2>3
  <2>5. k \in Holders(held[k])  BY DEF Holders
  <2> QED  BY <2>1, <2>2, <2>4, <2>5 DEF Lease!GiveBack
<1>5. ASSUME NEW c \in Client, TaskStarts(c) PROVE Lease!Dispose(c)
  <2>1. /\ c \in tasks /\ http[c] = "open" /\ http' = [http EXCEPT ![c] = "closed"]
        /\ UNCHANGED <<clients, held, phase>>
    BY <1>5 DEF TaskStarts
  <2>2. c \notin Cached  BY <2>1, CachedIsOpen
  <2>3. Stage(c) = "leaving"  BY <2>1, <2>2 DEF Stage
  <2>4. \A d \in Client : Stage(d)' = IF d = c THEN "closed" ELSE Stage(d)
    BY <2>1 DEF Stage, Cached, IInv, TypeOK
  <2>5. [d \in Client |-> Stage(d)'] = [[d \in Client |-> Stage(d)] EXCEPT ![c] = "closed"]
    BY <2>4
  <2>6. Holders(c) = {}
    <3> SUFFICES ASSUME NEW k \in Call, held[k] = c PROVE FALSE  BY DEF Holders
    <3> QED  BY <2>1, HeldIsLeased DEF Holds
  <2>7. \A d \in Client : Holders(d)' = Holders(d)  BY <2>1 DEF Holders
  <2> QED  BY <2>1, <2>3, <2>5, <2>6, <2>7 DEF Lease!Dispose
<1>6. ASSUME NEW c \in Client, TaskEnds(c) PROVE UNCHANGED Lease!vars
  <2>1. UNCHANGED <<clients, http, phase, held>>  BY <1>6 DEF TaskEnds
  <2>2. \A d \in Client : Holders(d)' = Holders(d)  BY <2>1 DEF Holders
  <2> QED  BY <2>1, <2>2, RefinesStutter
<1>7. CASE Close
  <2>1. phase = "open" /\ phase' = "draining" /\ clients' = <<>> /\ UNCHANGED <<http, held>>
    BY <1>7 DEF Close
  <2>2. Cached' = {}  BY <2>1 DEF Cached, ToSet
  <2>3. \A d \in Client : Stage(d)' = IF Stage(d) = "serving" THEN "leaving" ELSE Stage(d)
    BY <2>1, <2>2 DEF Stage, IInv, TypeOK
  <2>4. \A d \in Client : Holders(d)' = Holders(d)  BY <2>1 DEF Holders
  <2> QED  BY <2>1, <2>3, <2>4 DEF Lease!Next, Lease!ShutDown
<1>8. CASE CloseReturns
  <2>1. phase = "draining" /\ phase' = "drained" /\ UNCHANGED <<clients, http, held>>
    BY <1>8 DEF CloseReturns
  <2>2. \A d \in Client : Holders(d)' = Holders(d)  BY <2>1 DEF Holders
  <2> QED  BY <2>1, <2>2, RefinesStutter
<1>9. CASE UNCHANGED vars
  <2>1. UNCHANGED <<clients, http, phase, held>>  BY <1>9 DEF vars
  <2>2. \A d \in Client : Holders(d)' = Holders(d)  BY <2>1 DEF Holders
  <2> QED  BY <2>1, <2>2, RefinesStutter
<1> QED
  BY <1>1, <1>2, <1>3, <1>4, <1>5, <1>6, <1>7, <1>8, <1>9 DEF Next, Lease!Next

(* Every behaviour of the pool is, under the mapping of ClientPool, one that    *)
(* LeasedClients allows.                                                        *)
THEOREM RefinesLease == Spec => ImplementsLease
BY InitIInv, NextIInv, RefinesInit, RefinesNext, PTL DEF Spec, ImplementsLease, Lease!Spec

-----------------------------------------------------------------------------
(* ClientPoolHistory: eviction in the order of use, and the drain of close().   *)

(* since[c] is finite and holds the key of every client behind c in the order. *)
InOrderOfUse(order, key, since) ==
  \A i, j \in DOMAIN order : i < j => key[order[j]] \in since[order[i]]

TouchedInv ==
  /\ touched \in [Client -> SUBSET Key]
  /\ \A c \in Client : IsFiniteSet(touched[c])
  /\ InOrderOfUse(clients, keyOf, touched)

(* After close(), an open client is one that was held or one that the gather   *)
(* waits for.                                                                  *)
SparedInv ==
  phase # "open" =>
    \A c \in Client : http[c] = "open" => \/ c \in spared
                                          \/ phase = "draining" /\ c \in awaited

(* The inductive invariant of the history variables. *)
HInv == IInv /\ TouchedInv /\ SparedInv

-----------------------------------------------------------------------------
(* The order of use. *)

(* A lookup keeps touched typed and finite. *)
LEMMA LookedLemma ==
  ASSUME TouchedInv, NEW key \in Key, NEW c \in Client, Looked(key, c)
  PROVE  /\ touched' \in [Client -> SUBSET Key]
         /\ \A d \in Client : IsFiniteSet(touched'[d])
         /\ \A d \in Client : d # c => touched'[d] = touched[d] \cup {key}
<1>1. /\ touched \in [Client -> SUBSET Key]
      /\ touched' = [d \in Client |-> IF d = c THEN {} ELSE touched[d] \cup {key}]
  BY DEF TouchedInv, Looked
<1>2. touched' \in [Client -> SUBSET Key]
      /\ \A d \in Client : d # c => touched'[d] = touched[d] \cup {key}
  BY <1>1
<1>3. ASSUME NEW d \in Client PROVE IsFiniteSet(touched'[d])
  <2>1. IsFiniteSet(touched[d])  BY DEF TouchedInv
  <2>2. CASE d = c
    <3>1. touched'[d] = {}  BY <1>1, <2>2
    <3> QED  BY <3>1, FS_EmptySet
  <2>3. CASE d # c
    <3>1. touched'[d] = touched[d] \cup {key}  BY <1>2, <2>3
    <3> QED  BY <2>1, <3>1, FS_AddElement
  <2> QED  BY <2>2, <2>3
<1> QED  BY <1>2, <1>3

(* A hit sends its client to the end; what was behind the others still is. *)
LEMMA HitKeepsOrder ==
  ASSUME IInv, TouchedInv, NEW key \in Key, NEW c \in Client,
         CacheHit(key, c), Looked(key, c)
  PROVE  InOrderOfUse(clients', keyOf', touched')
<1> DEFINE n == Len(clients)
<1>1. /\ clients \in Seq(Client) /\ n \in Nat /\ DOMAIN clients = 1 .. n
      /\ keyOf' = keyOf
      /\ \A a, b \in 1 .. n : clients[a] = clients[b] => a = b
  BY LenProperties DEF IInv, TypeOK, CacheSound, CacheHit
<1>2. PICK i \in 1 .. n :
        clients[i] = c /\ keyOf[c] = key /\ clients' = MoveToEnd(clients, i)
  BY <1>1 DEF CacheHit
<1>3. /\ clients' \in Seq(Client) /\ Len(clients') = n
      /\ \A j \in 1 .. n : clients'[j] = IF j < i THEN clients[j]
                                         ELSE IF j < n THEN clients[j + 1] ELSE clients[i]
  BY <1>1, <1>2, MoveToEndLemma
<1>4. DOMAIN clients' = 1 .. n  BY <1>3, LenProperties
<1>5. \A a \in 1 .. n : clients[a] \in Client  BY <1>1, ElementOfSeq
<1>6. \A d \in Client : d # c => touched'[d] = touched[d] \cup {key}  BY LookedLemma
<1> HIDE DEF n
<1>6a. \A a, b \in 1 .. n : a < b => keyOf[clients[b]] \in touched[clients[a]]
  BY <1>1 DEF TouchedInv, InOrderOfUse
<1>7. SUFFICES ASSUME NEW a \in 1 .. n, NEW b \in 1 .. n, a < b
               PROVE  keyOf[clients'[b]] \in touched'[clients'[a]]
  <2>1. keyOf' = keyOf  BY <1>1
  <2> QED  BY <1>4, <2>1 DEF InOrderOfUse
<1>8. PICK p \in 1 .. n : clients'[a] = clients[p] /\ p = IF a < i THEN a ELSE a + 1
  <2>1. a < n  BY <1>1, <1>7
  <2>2. clients'[a] = IF a < i THEN clients[a] ELSE clients[a + 1]  BY <1>3, <2>1
  <2> QED  BY <1>1, <2>1, <2>2
<1>9. p # i /\ clients[p] \in Client /\ clients[p] # c
  BY <1>1, <1>2, <1>5, <1>8
<1>10. touched'[clients'[a]] = touched[clients[p]] \cup {key}  BY <1>6, <1>8, <1>9
<1>11. CASE b = n
  <2>1. clients'[b] = c
    <3>1. ~(b < i) /\ ~(b < n)  BY <1>1, <1>11
    <3> QED  BY <1>2, <1>3, <3>1
  <2> QED  BY <1>2, <1>10, <2>1
<1>12. CASE b # n
  <2>1. PICK q \in 1 .. n : clients'[b] = clients[q] /\ q = IF b < i THEN b ELSE b + 1
    <3>1. b < n  BY <1>1, <1>12
    <3>2. clients'[b] = IF b < i THEN clients[b] ELSE clients[b + 1]  BY <1>3, <3>1
    <3> QED  BY <1>1, <3>1, <3>2
  <2>2. p < q  BY <1>1, <1>7, <1>8, <2>1
  <2>3. keyOf[clients[q]] \in touched[clients[p]]  BY <1>6a, <2>2
  <2> QED  BY <1>10, <2>1, <2>3
<1> QED  BY <1>11, <1>12

(* A miss adds its client behind the others and drops one from the front only. *)
LEMMA MissKeepsOrder ==
  ASSUME IInv, TouchedInv, NEW key \in Key, NEW c \in Client, phase' = "open",
         CacheMiss(key, c), Looked(key, c)
  PROVE  InOrderOfUse(clients', keyOf', touched')
<1> DEFINE n == Len(clients)
           m == Excess(Append(clients, c))
<1>1. /\ clients \in Seq(Client) /\ n \in Nat /\ n <= MaxClients /\ DOMAIN clients = 1 .. n
  BY LenProperties DEF IInv, TypeOK, CacheSound
<1>2. /\ clients' = Kept(Append(clients, c))
      /\ keyOf' = [keyOf EXCEPT ![c] = key]
      /\ http[c] = "unborn"
  BY DEF CacheMiss
<1>3. /\ clients' \in Seq(Client)
      /\ m = IF n = MaxClients THEN 1 ELSE 0
      /\ m <= n
      /\ Len(clients') = n + 1 - m
      /\ \A j \in 1 .. n + 1 - m :
           clients'[j] = IF j + m = n + 1 THEN c ELSE clients[j + m]
  BY <1>1, <1>2, EvictionLemma
<1> HIDE DEF m
<1>3a. m \in {0, 1}  BY <1>3
<1>4. DOMAIN clients' = 1 .. n + 1 - m  BY <1>3, LenProperties
<1>5. \A a \in 1 .. n : clients[a] \in Client /\ clients[a] # c
  <2> SUFFICES ASSUME NEW a \in 1 .. n PROVE clients[a] \in Client /\ clients[a] # c
    OBVIOUS
  <2>1. clients[a] \in Cached  BY <1>1 DEF Cached, ToSet
  <2> QED  BY <1>2, <2>1, CachedIsOpen
<1>6. \A d \in Client : d # c => touched'[d] = touched[d] \cup {key}  BY LookedLemma
<1>7. /\ keyOf'[c] = key
      /\ \A d \in Client : d # c => keyOf'[d] = keyOf[d]
  BY <1>2 DEF IInv, TypeOK
<1> HIDE DEF n
<1>7a. \A a, b \in 1 .. n : a < b => keyOf[clients[b]] \in touched[clients[a]]
  BY <1>1 DEF TouchedInv, InOrderOfUse
<1>8. SUFFICES ASSUME NEW a \in 1 .. n + 1 - m, NEW b \in 1 .. n + 1 - m, a < b
               PROVE  keyOf'[clients'[b]] \in touched'[clients'[a]]
  BY <1>4 DEF InOrderOfUse
<1>9. a + m \in 1 .. n /\ clients'[a] = clients[a + m]
  BY <1>1, <1>3, <1>3a, <1>8
<1>10. touched'[clients'[a]] = touched[clients[a + m]] \cup {key}  BY <1>5, <1>6, <1>9
<1>11. CASE b + m = n + 1
  <2>1. clients'[b] = c  BY <1>3, <1>11
  <2> QED  BY <1>7, <1>10, <2>1
<1>12. CASE b + m # n + 1
  <2>1. b + m \in 1 .. n /\ clients'[b] = clients[b + m] /\ a + m < b + m
    BY <1>1, <1>3, <1>3a, <1>8, <1>12
  <2>2. keyOf[clients[b + m]] \in touched[clients[a + m]]
    BY <1>7a, <1>9, <2>1
  <2>3. keyOf'[clients'[b]] = keyOf[clients[b + m]]  BY <1>5, <1>7, <2>1
  <2> QED  BY <1>10, <2>2, <2>3
<1> QED  BY <1>11, <1>12

(* Whoever a miss evicts has had MaxClients other keys looked up behind it:     *)
(* those of the MaxClients - 1 other cached clients and the one that missed.    *)
LEMMA EvictedIsOld ==
  ASSUME IInv, TouchedInv, NEW key \in Key, NEW c \in Client, phase' = "open",
         CacheMiss(key, c), Looked(key, c), NEW d \in Cached \ Cached'
  PROVE  Cardinality(touched'[d]) >= MaxClients
<1> DEFINE n == Len(clients)
           m == Excess(Append(clients, c))
           gone == Evicted(Append(clients, c))
<1>1. /\ clients \in Seq(Client) /\ n \in Nat /\ n <= MaxClients /\ DOMAIN clients = 1 .. n
      /\ MaxClients \in Nat \ {0}
  BY LenProperties, MaxClientsAssumption DEF IInv, TypeOK, CacheSound
<1>2. m = (IF n = MaxClients THEN 1 ELSE 0) /\ gone = {clients[i] : i \in 1 .. m}
  BY <1>1, EvictionLemma
<1>3. c \notin Cached /\ Cached' = (Cached \cup {c}) \ gone  BY MissStep
<1>4. Missing(key)  BY DEF CacheMiss
<1> HIDE DEF m, gone
<1>5. d \in gone /\ d # c  BY <1>3
<1>6. n = MaxClients /\ d = clients[1]
  <2>1. m # 0  BY <1>2, <1>5
  <2>2. n = MaxClients /\ m = 1  BY <1>2, <2>1
  <2> QED  BY <1>2, <1>5, <2>2
<1>7. /\ \A a \in 1 .. n : keyOf[clients[a]] # key
      /\ \A a, b \in 1 .. n : keyOf[clients[a]] = keyOf[clients[b]] => a = b
      /\ \A b \in 2 .. n : keyOf[clients[b]] \in touched[d]
  <2>1. \A a \in 1 .. n : keyOf[clients[a]] # key  BY <1>1, <1>4 DEF Missing
  <2>2. \A a, b \in 1 .. n : keyOf[clients[a]] = keyOf[clients[b]] => a = b
    BY <1>1 DEF IInv, CacheSound
  <2>3. \A a, b \in 1 .. n : a < b => keyOf[clients[b]] \in touched[clients[a]]
    BY <1>1 DEF TouchedInv, InOrderOfUse
  <2>4. 1 \in 1 .. n /\ \A b \in 2 .. n : b \in 1 .. n /\ 1 < b  BY <1>1, <1>6
  <2> QED  BY <1>6, <2>1, <2>2, <2>3, <2>4
<1>8. d \in Client  BY CachedIsOpen
<1>9. touched'[d] = touched[d] \cup {key} /\ IsFiniteSet(touched'[d])
  BY <1>5, <1>8, LookedLemma
<1> HIDE DEF n
<1> DEFINE f == [i \in 1 .. n |-> IF i = 1 THEN key ELSE keyOf[clients[i]]]
           looked == {f[i] : i \in 1 .. n}
<1>10. looked \subseteq touched'[d]
  <2> SUFFICES ASSUME NEW i \in 1 .. n PROVE f[i] \in touched'[d]  OBVIOUS
  <2>1. CASE i = 1  BY <1>9, <2>1
  <2>2. CASE i # 1
    <3>1. i \in 2 .. n  BY <1>1, <2>2
    <3> QED  BY <1>7, <1>9, <2>2, <3>1
  <2> QED  BY <2>1, <2>2
<1>11. f \in Bijection(1 .. n, looked)
  <2>1. f \in [1 .. n -> looked]  OBVIOUS
  <2>2. \A a, b \in 1 .. n : f[a] = f[b] => a = b  BY <1>7
  <2>3. \A x \in looked : \E a \in 1 .. n : f[a] = x  OBVIOUS
  <2> HIDE DEF f, looked
  <2> QED  BY <2>1, <2>2, <2>3 DEF Bijection, Injection, Surjection, IsInjective
<1> HIDE DEF f, looked
<1>12. Cardinality(looked) = n
  <2>1. ExistsBijection(1 .. n, looked)  BY <1>11 DEF ExistsBijection
  <2> QED  BY <1>1, <2>1, FS_CountingElements
<1>13. Cardinality(looked) <= Cardinality(touched'[d])  BY <1>9, <1>10, FS_Subset
<1>14. Cardinality(touched'[d]) \in Nat  BY <1>9, FS_CardinalityType
<1> QED  BY <1>1, <1>6, <1>12, <1>13, <1>14

-----------------------------------------------------------------------------
(* The steps. *)

LEMMA InitHInv == HistoryInit => HInv
<1> SUFFICES ASSUME HistoryInit PROVE HInv  OBVIOUS
<1>1. Init /\ touched = [c \in Client |-> {}]  BY DEF HistoryInit
<1>2. IInv  BY <1>1, InitIInv
<1>3. TouchedInv
  <2>1. \A c \in Client : touched[c] = {} /\ IsFiniteSet(touched[c])  BY <1>1, FS_EmptySet
  <2>2. DOMAIN clients = {}  BY <1>1 DEF Init
  <2> QED  BY <1>1, <2>1, <2>2 DEF TouchedInv, InOrderOfUse
<1>4. SparedInv  BY <1>1 DEF Init, SparedInv
<1> QED  BY <1>2, <1>3, <1>4 DEF HInv

(* The history variables only watch: every step is one of the pool. *)
LEMMA StepOfPool == [HistoryNext]_historyVars => [Next]_vars
BY DEF HistoryNext, historyVars, Next, Get, Acquire

(* A lookup, leased or not. *)
LEMMA LookupKeepsHistory ==
  ASSUME HInv, NEW key \in Key, NEW c \in Client, GetLocked(key, c), Looked(key, c)
  PROVE  /\ TouchedInv' /\ SparedInv'
         /\ \A d \in Cached \ Cached' : Cardinality(touched'[d]) >= MaxClients
<1>1. phase = "open" /\ phase' = "open"  BY DEF GetLocked, Open
<1>2. InOrderOfUse(clients', keyOf', touched')
  <2>1. CASE CacheHit(key, c)  BY <2>1, HitKeepsOrder DEF HInv
  <2>2. CASE CacheMiss(key, c)  BY <1>1, <2>2, MissKeepsOrder DEF HInv
  <2> QED  BY <2>1, <2>2 DEF GetLocked
<1>3. TouchedInv'
  <2>1. /\ touched' \in [Client -> SUBSET Key]
        /\ \A d \in Client : IsFiniteSet(touched'[d])
    BY LookedLemma DEF HInv
  <2> QED  BY <1>2, <2>1 DEF TouchedInv
<1>4. SparedInv'  BY <1>1 DEF SparedInv
<1>5. ASSUME NEW d \in Cached \ Cached' PROVE Cardinality(touched'[d]) >= MaxClients
  <2>1. CASE CacheHit(key, c)
    <3>1. Cached' = Cached  BY <1>1, <2>1, HitStep DEF HInv
    <3> QED  BY <1>5, <3>1
  <2>2. CASE CacheMiss(key, c)  BY <1>1, <1>5, <2>2, EvictedIsOld DEF HInv
  <2> QED  BY <2>1, <2>2 DEF GetLocked
<1> QED  BY <1>3, <1>4, <1>5

(* A step that leaves the order and the history alone. *)
LEMMA OrderUntouched ==
  ASSUME TouchedInv, UNCHANGED <<clients, keyOf, touched>>
  PROVE  TouchedInv' /\ Cached' = Cached
BY DEF TouchedInv, InOrderOfUse, Cached

(* Outside close(), no client opens once the pool is closed. *)
LEMMA SparedUntouched ==
  ASSUME IInv, SparedInv, UNCHANGED <<phase, awaited, spared>>,
         \A c \in Client : http'[c] = "open" => http[c] = "open"
  PROVE  SparedInv'
BY DEF SparedInv

(* close() puts every open client either among the held ones or in its gather. *)
LEMMA CloseSpares ==
  ASSUME IInv, Close, spared' = {c \in Client : Holders(c) # {}}
  PROVE  SparedInv'
<1>1. IInv'  BY CloseStep
<1>2. /\ clients' = <<>> /\ phase' = "draining" /\ awaited' = tasks'
      /\ UNCHANGED <<http, leases>>
  BY DEF Close, GathersTasks
<1>3. Cached' = {}  BY <1>2 DEF Cached, ToSet
<1>4. ASSUME NEW c \in Client, http'[c] = "open", c \notin awaited' PROVE c \in spared'
  <2>1. OwnerOf(c)'  BY <1>1 DEF IInv, OneOwner
  <2>2. leases'[c] > 0  BY <1>2, <1>3, <1>4, <2>1 DEF OwnerOf
  <2>3. leases[c] = Cardinality(Holders(c)) /\ leases[c] > 0
    BY <1>2, <2>2 DEF IInv, LeasesCounted
  <2>4. Holders(c) # {}
    <3>1. SUFFICES ASSUME Holders(c) = {} PROVE FALSE  OBVIOUS
    <3>2. Cardinality(Holders(c)) = 0  BY <3>1, FS_EmptySet
    <3> QED  BY <2>3, <3>2
  <2> QED  BY <2>4
<1> QED  BY <1>2, <1>4 DEF SparedInv

LEMMA HistoryStep == HInv /\ [HistoryNext]_historyVars => HInv'
<1> SUFFICES ASSUME HInv, [HistoryNext]_historyVars PROVE HInv'  OBVIOUS
<1>0. IInv /\ TouchedInv /\ SparedInv  BY DEF HInv
<1>1. IInv'  BY <1>0, StepOfPool, NextIInv
<1>2. ASSUME NEW key \in Key, NEW c \in Client, GetLocked(key, c), Looked(key, c) PROVE HInv'
  BY <1>1, <1>2, LookupKeepsHistory DEF HInv
<1>3. ASSUME NEW key \in Key, NEW c \in Client, Get(key, c), Looked(key, c) PROVE HInv'
  BY <1>2, <1>3 DEF Get
<1>4. ASSUME NEW k \in Call, NEW key \in Key, NEW c \in Client,
             Acquire(k, key, c), Looked(key, c)
      PROVE  HInv'
  BY <1>2, <1>4 DEF Acquire
<1>5. ASSUME NEW k \in Call, NEW key \in Key, AcquireRaises(k, key), UNCHANGED <<touched, spared>>
      PROVE  HInv'
  <2>1. UNCHANGED <<clients, keyOf, touched, phase, awaited, http, spared>>
    BY <1>5 DEF AcquireRaises
  <2> QED  BY <1>0, <1>1, <2>1, OrderUntouched, SparedUntouched DEF HInv
<1>6. ASSUME NEW k \in Call, Release(k), UNCHANGED <<touched, spared>> PROVE HInv'
  <2>1. UNCHANGED <<clients, keyOf, touched, phase, awaited, http, spared>>
    BY <1>6 DEF Release
  <2> QED  BY <1>0, <1>1, <2>1, OrderUntouched, SparedUntouched DEF HInv
<1>7. ASSUME NEW c \in Client, TaskStarts(c), UNCHANGED <<touched, spared>> PROVE HInv'
  <2>1. /\ UNCHANGED <<clients, keyOf, touched, phase, awaited, spared>>
        /\ http' = [http EXCEPT ![c] = "closed"]
    BY <1>7 DEF TaskStarts
  <2>2. \A d \in Client : http'[d] = "open" => http[d] = "open"
    BY <1>0, <2>1 DEF IInv, TypeOK
  <2> QED  BY <1>0, <1>1, <2>1, <2>2, OrderUntouched, SparedUntouched DEF HInv
<1>8. ASSUME NEW c \in Client, TaskEnds(c), UNCHANGED <<touched, spared>> PROVE HInv'
  <2>1. UNCHANGED <<clients, keyOf, touched, phase, awaited, http, spared>>
    BY <1>8 DEF TaskEnds
  <2> QED  BY <1>0, <1>1, <2>1, OrderUntouched, SparedUntouched DEF HInv
<1>9. ASSUME Close, spared' = {c \in Client : Holders(c) # {}}, UNCHANGED touched PROVE HInv'
  <2>1. SparedInv'  BY <1>0, <1>9, CloseSpares
  <2>2. clients' = <<>> /\ touched' = touched  BY <1>9 DEF Close
  <2>3. DOMAIN clients' = {}  BY <2>2
  <2>4. TouchedInv'  BY <1>0, <2>2, <2>3 DEF TouchedInv, InOrderOfUse
  <2> QED  BY <1>1, <2>1, <2>4 DEF HInv
<1>10. ASSUME CloseReturns, UNCHANGED <<touched, spared>> PROVE HInv'
  <2>1. /\ UNCHANGED <<clients, keyOf, touched, awaited, http, spared>>
        /\ phase = "draining" /\ phase' = "drained"
        /\ \A c \in awaited : http[c] = "closed"
    BY <1>10 DEF CloseReturns
  <2>2. SparedInv'  BY <1>0, <2>1 DEF SparedInv
  <2> QED  BY <1>0, <1>1, <2>1, <2>2, OrderUntouched DEF HInv
<1>11. CASE UNCHANGED historyVars
  <2>1. UNCHANGED <<clients, keyOf, touched, phase, awaited, http, spared>>
    BY <1>11 DEF historyVars, vars
  <2> QED  BY <1>0, <1>1, <2>1, OrderUntouched, SparedUntouched DEF HInv
<1> QED  BY <1>3, <1>4, <1>5, <1>6, <1>7, <1>8, <1>9, <1>10, <1>11 DEF HistoryNext

(* A step that drops a client from the cache of a pool that stays open is a     *)
(* lookup that missed.                                                          *)
LEMMA EvictionStep ==
  ASSUME HInv, [HistoryNext]_historyVars, phase' = "open", NEW c \in Cached \ Cached'
  PROVE  Cardinality(touched'[c]) >= MaxClients
<1>1. ASSUME NEW key \in Key, NEW d \in Client, GetLocked(key, d), Looked(key, d)
      PROVE  Cardinality(touched'[c]) >= MaxClients
  BY <1>1, LookupKeepsHistory
<1>2. ASSUME NEW key \in Key, NEW d \in Client, Get(key, d), Looked(key, d)
      PROVE  Cardinality(touched'[c]) >= MaxClients
  BY <1>1, <1>2 DEF Get
<1>3. ASSUME NEW k \in Call, NEW key \in Key, NEW d \in Client,
             Acquire(k, key, d), Looked(key, d)
      PROVE  Cardinality(touched'[c]) >= MaxClients
  BY <1>1, <1>3 DEF Acquire
<1>4. clients' # clients  BY DEF Cached
<1>5. ~(\E k \in Call, key \in Key : AcquireRaises(k, key))  BY <1>4 DEF AcquireRaises
<1>6. ~(\E k \in Call : Release(k))  BY <1>4 DEF Release
<1>7. ~(\E d \in Client : TaskStarts(d) \/ TaskEnds(d))  BY <1>4 DEF TaskStarts, TaskEnds
<1>8. ~Close /\ ~CloseReturns  BY <1>4 DEF Close, CloseReturns
<1>9. ~(UNCHANGED historyVars)  BY <1>4 DEF historyVars, vars
<1> QED  BY <1>2, <1>3, <1>5, <1>6, <1>7, <1>8, <1>9 DEF HistoryNext

LEMMA HistoryInvariance == HistorySpec => []HInv
BY InitHInv, HistoryStep, PTL DEF HistorySpec

-----------------------------------------------------------------------------
(* The history variables only watch: with them the pool behaves as without, so  *)
(* that every theorem above holds of HistorySpec.                               *)
THEOREM HistoryWatches == HistorySpec => Spec
<1>1. HistoryInit => Init  BY DEF HistoryInit
<1> QED  BY <1>1, StepOfPool, PTL DEF HistorySpec, Spec

(* For any cache bound, a client is evicted only after MaxClients other keys    *)
(* were looked up since its own last lookup.                                    *)
THEOREM EvictionIsLeastRecentlyUsed == HistorySpec => EvictsLeastRecentlyUsed
<1>1. HInv /\ [HistoryNext]_historyVars
        => [\A c \in Cached \ Cached' :
              phase' = "open" => Cardinality(touched'[c]) >= MaxClients]_historyVars
  BY EvictionStep
<1> QED  BY <1>1, HistoryInvariance, PTL DEF HistorySpec, EvictsLeastRecentlyUsed

(* When close() returns, only what a call held when it ran is still open. *)
THEOREM ShutdownDrains == HistorySpec => []DrainedAtShutdown
<1>1. HInv => DrainedAtShutdown  BY DEF HInv, SparedInv, DrainedAtShutdown
<1> QED  BY <1>1, HistoryInvariance, PTL
=============================================================================
