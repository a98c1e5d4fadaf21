---------------------------- MODULE ProxyProofs ----------------------------
(***************************************************************************)
(* Theorems about the HTTP proxy.  About its LRU cache, for every set of   *)
(* keys, values and addresses and every capacity: the containers stay      *)
(* consistent and implement RecencyStore.  About its request threads, for  *)
(* every set of threads, lines and headers: the type invariant,            *)
(* NoCacheAsked, and who keeps the mutex.                                  *)
(***************************************************************************)
EXTENDS LRUCache, Proxy, FiniteSetTheorems, TLAPS

-----------------------------------------------------------------------------
(* The cache: its inductive invariant *)

Distinct(s) == \A i, j \in 1..Len(s) : s[i] = s[j] => i = j
Precedes(s, m, n) == \E i, j \in 1..Len(s) : i < j /\ s[i] = m /\ s[j] = n

\* Apart from what IteratorsValid says, the list is as long as the map is
\* large: the test on cacheMap.size() is one on the length of the list.
SameSize == IsFiniteSet(DOMAIN cacheMap) /\ Cardinality(DOMAIN cacheMap) = Len(order)
CacheIInv == CacheTypeOK /\ IteratorsValid /\ SameSize

-----------------------------------------------------------------------------
(* The list *)

\* What is left of a list s when the node n is gone
Without(r, s, n) ==
    /\ r \in Seq(Nodes) /\ Distinct(r) /\ Len(r) = Len(s) - 1
    /\ Elements(r) = Elements(s) \ {n}
    /\ \A m, o \in Elements(s) \ {n} : Precedes(r, m, o) <=> Precedes(s, m, o)

\* erase takes its node out, whichever place it has.
LEMMA EraseNode ==
    ASSUME order \in Seq(Nodes), Distinct(order), NEW n \in Elements(order)
    PROVE  Without(Erase(n), order, n)
<1> DEFINE N == Len(order)
           p == PlaceOf(n)
           r == Erase(n)
<1>1. N \in Nat /\ order \in [1..N -> Nodes]
  OBVIOUS
<1>2. p \in 1..N /\ order[p] = n
  BY DEF PlaceOf, Elements
<1>3. N - 1 \in Nat
  BY <1>1, <1>2
<1>4. /\ \A i \in 1..N - 1 : r[i] = IF i < p THEN order[i] ELSE order[i + 1]
      /\ r \in [1..N - 1 -> Nodes] /\ Len(r) = N - 1
  <2>1. r = [i \in 1..N - 1 |-> IF i < p THEN order[i] ELSE order[i + 1]]
    BY DEF Erase
  <2> HIDE DEF r, p, N
  <2>2. \A i \in 1..N - 1 : i \in 1..N /\ i + 1 \in 1..N
    BY <1>1, <1>2
  <2>3. r \in [1..N - 1 -> Nodes]
    BY <1>1, <2>1, <2>2
  <2> QED
    BY <1>3, <2>1, <2>3
<1> HIDE DEF r, p, N
<1>5. r \in Seq(Nodes)
  BY <1>3, <1>4
\* Where an index of the result comes from, and where one of the list goes
<1> DEFINE from(i) == IF i < p THEN i ELSE i + 1
           to(i) == IF i < p THEN i ELSE i - 1
<1>6. ASSUME NEW i \in 1..N - 1
      PROVE  from(i) \in 1..N /\ from(i) # p /\ r[i] = order[from(i)]
  BY <1>1, <1>2, <1>4, <1>6
<1>7. ASSUME NEW i \in 1..N, i # p
      PROVE  to(i) \in 1..N - 1 /\ from(to(i)) = i /\ r[to(i)] = order[i]
  <2>1. to(i) \in 1..N - 1 /\ from(to(i)) = i
    BY <1>1, <1>2, <1>7
  <2> QED
    BY <1>6, <2>1
<1>8. \A i, j \in 1..N : order[i] = order[j] => i = j
  BY DEF Distinct, N
<1>9. Distinct(r)
  <2> SUFFICES ASSUME NEW i \in 1..N - 1, NEW j \in 1..N - 1, r[i] = r[j] PROVE i = j
    BY <1>4 DEF Distinct
  <2>1. from(i) = from(j)
    BY <1>6, <1>8
  <2> QED
    BY <1>1, <1>2, <2>1
<1>10. Elements(r) = Elements(order) \ {n}
  <2>1. ASSUME NEW i \in 1..N - 1 PROVE r[i] \in Elements(order) \ {n}
    <3>1. from(i) \in 1..N /\ from(i) # p /\ r[i] = order[from(i)]
      BY <1>6
    <3> QED
      BY <1>2, <1>8, <3>1 DEF Elements, N
  <2>2. ASSUME NEW i \in 1..N, order[i] # n PROVE order[i] \in Elements(r)
    <3>1. to(i) \in 1..N - 1 /\ r[to(i)] = order[i]
      BY <1>2, <1>7, <2>2
    <3> QED
      BY <1>4, <3>1 DEF Elements
  <2> QED
    BY <1>4, <2>1, <2>2 DEF Elements, N
<1>11. ASSUME NEW m \in Elements(order) \ {n}, NEW o \in Elements(order) \ {n}
       PROVE  Precedes(r, m, o) <=> Precedes(order, m, o)
  <2>1. ASSUME NEW i \in 1..N - 1, NEW j \in 1..N - 1, i < j, r[i] = m, r[j] = o
        PROVE  Precedes(order, m, o)
    <3>1. from(i) < from(j)
      BY <1>1, <1>2, <2>1
    <3>2. from(i) \in 1..N /\ from(j) \in 1..N /\ order[from(i)] = m /\ order[from(j)] = o
      BY <1>6, <2>1
    <3> HIDE DEF from
    <3> QED
      BY <3>1, <3>2 DEF Precedes, N
  <2>2. ASSUME NEW i \in 1..N, NEW j \in 1..N, i < j, order[i] = m, order[j] = o
        PROVE  Precedes(r, m, o)
    <3>1. i # p /\ j # p
      BY <1>2, <2>2
    <3>2. to(i) < to(j)
      BY <1>1, <1>2, <2>2, <3>1
    <3>3. /\ to(i) \in 1..N - 1 /\ to(j) \in 1..N - 1
          /\ r[to(i)] = m /\ r[to(j)] = o
      BY <1>7, <2>2, <3>1
    <3> HIDE DEF to
    <3> QED
      BY <1>4, <3>2, <3>3 DEF Precedes
  <2> QED
    BY <1>4, <2>1, <2>2 DEF Precedes, N
<1> QED
  BY <1>4, <1>5, <1>9, <1>10, <1>11 DEF Without, r, N

\* pop_back is erase at the last node.
LEMMA PopLast ==
    ASSUME order \in Seq(Nodes), Distinct(order), order # <<>>
    PROVE  /\ order[Len(order)] \in Elements(order)
           /\ Without(PopBack, order, order[Len(order)])
<1> DEFINE N == Len(order)
           n == order[N]
<1>1. N \in Nat \ {0} /\ N \in 1..N
  OBVIOUS
<1>2. n \in Elements(order)
  BY <1>1 DEF Elements
<1>3. PlaceOf(n) \in 1..N /\ order[PlaceOf(n)] = n
  BY <1>2 DEF PlaceOf, Elements
<1>4. PlaceOf(n) = N
  BY <1>1, <1>3 DEF Distinct
<1>5. PopBack = Erase(n)
  BY <1>1, <1>4 DEF PopBack, Erase
<1> QED
  BY <1>2, <1>5, EraseNode

\* push_front puts a node before all others.
LEMMA PushNode ==
    ASSUME NEW left \in Seq(Nodes), Distinct(left), NEW n \in Nodes \ Elements(left)
    PROVE  LET s == <<n>> \o left
           IN  /\ s \in Seq(Nodes) /\ Distinct(s) /\ Len(s) = Len(left) + 1
               /\ Elements(s) = Elements(left) \cup {n}
               /\ \A m \in Elements(s) : ~Precedes(s, m, n)
               /\ \A m \in Elements(left) : Precedes(s, n, m)
               /\ \A m, o \in Elements(left) : Precedes(s, m, o) <=> Precedes(left, m, o)
<1> DEFINE s == <<n>> \o left
           L == Len(left)
<1>1. L \in Nat /\ left \in [1..L -> Nodes]
  OBVIOUS
<1>2. s \in Seq(Nodes) /\ Len(s) = L + 1
  OBVIOUS
<1>3. s[1] = n /\ \A i \in 1..L : s[i + 1] = left[i]
  OBVIOUS
<1>4. \A i \in 2..L + 1 : i - 1 \in 1..L /\ s[i] = left[i - 1]
  <2>1. \A i \in 2..L + 1 : i - 1 \in 1..L /\ (i - 1) + 1 = i
    BY <1>1
  <2> QED
    BY <1>3, <2>1
<1>5. \A i \in 1..L : left[i] # n /\ \A j \in 1..L : left[i] = left[j] => i = j
  BY DEF Distinct, Elements
<1> HIDE DEF s, L
<1>6. \A i \in 1..L + 1 : i = 1 \/ i \in 2..L + 1
  BY <1>1
<1>7. Distinct(s)
  <2> SUFFICES ASSUME NEW i \in 1..L + 1, NEW j \in 1..L + 1, s[i] = s[j] PROVE i = j
    BY <1>2 DEF Distinct
  <2> QED
    BY <1>1, <1>3, <1>4, <1>5, <1>6
<1>8. Elements(s) = Elements(left) \cup {n}
  <2>1. \A i \in 1..L : i + 1 \in 1..L + 1
    BY <1>1
  <2>2. 1 \in 1..L + 1
    BY <1>1
  <2>3. \A i \in 1..L + 1 : s[i] \in Elements(left) \cup {n}
    BY <1>3, <1>4, <1>6 DEF Elements, L
  <2>4. Elements(left) = {left[i] : i \in 1..L} /\ Elements(s) = {s[i] : i \in 1..L + 1}
    BY <1>2 DEF Elements, L
  <2>5. \A i \in 1..L : left[i] \in Elements(s)
    BY <1>3, <2>1, <2>4
  <2>6. n \in Elements(s)
    BY <1>3, <2>2, <2>4
  <2> QED
    BY <2>3, <2>4, <2>5, <2>6
<1>9. \A m \in Elements(s) : ~Precedes(s, m, n)
  BY <1>1, <1>2, <1>3, <1>4, <1>5, <1>6 DEF Precedes
<1>10. ASSUME NEW m \in Elements(left) PROVE Precedes(s, n, m)
  <2>1. PICK i \in 1..L : left[i] = m
    BY DEF Elements, L
  <2>2. 1 \in 1..L + 1 /\ i + 1 \in 1..L + 1 /\ 1 < i + 1 /\ s[i + 1] = m
    BY <1>1, <1>3, <2>1
  <2> QED
    BY <1>2, <1>3, <2>2 DEF Precedes
<1>11. ASSUME NEW m \in Elements(left), NEW o \in Elements(left)
       PROVE  Precedes(s, m, o) <=> Precedes(left, m, o)
  <2>1. m # n /\ o # n
    OBVIOUS
  <2>2. ASSUME NEW i \in 1..L + 1, NEW j \in 1..L + 1, i < j, s[i] = m, s[j] = o
        PROVE  Precedes(left, m, o)
    <3>1. i \in 2..L + 1 /\ j \in 2..L + 1
      BY <1>3, <1>6, <2>1, <2>2
    <3>2. /\ i - 1 \in 1..L /\ j - 1 \in 1..L /\ i - 1 < j - 1
          /\ left[i - 1] = m /\ left[j - 1] = o
      BY <1>1, <1>4, <2>2, <3>1
    <3> QED
      BY <3>2 DEF Precedes, L
  <2>3. ASSUME NEW i \in 1..L, NEW j \in 1..L, i < j, left[i] = m, left[j] = o
        PROVE  Precedes(s, m, o)
    <3>1. /\ i + 1 \in 1..L + 1 /\ j + 1 \in 1..L + 1 /\ i + 1 < j + 1
          /\ s[i + 1] = m /\ s[j + 1] = o
      BY <1>1, <1>3, <2>3
    <3> QED
      BY <1>2, <3>1 DEF Precedes
  <2> QED
    BY <1>2, <2>2, <2>3 DEF Precedes, L
<1> QED
  BY <1>2, <1>7, <1>8, <1>9, <1>10, <1>11 DEF s, L

-----------------------------------------------------------------------------
(* The list and its index *)

\* The entries of map other than the one for k, and the nodes of left, point
\* to each other.
Linked(map, left, k) ==
    /\ left \in Seq(Nodes) /\ Distinct(left)
    /\ map \in [DOMAIN map -> Nodes] /\ holds \in [DOMAIN holds -> Keys]
    /\ Elements(left) \subseteq DOMAIN holds
    /\ \A l \in DOMAIN map \ {k} : map[l] \in Elements(left) /\ holds[map[l]] = l
    /\ \A n \in Elements(left) :
         holds[n] \in DOMAIN map \ {k} /\ map[holds[n]] = n

\* The relation that the refinement reads off the list
Newer == {p \in (DOMAIN keyMap) \X (DOMAIN keyMap) : Before(p[1], p[2])}
Recent(map, left, K) ==
    {p \in K \X K : Precedes(left, map[p[1]], map[p[2]])}

\* push_front and the assignment to keyMap put k in front of what is linked.
LEMMA PushLinks ==
    ASSUME NEW k \in Keys, NEW left, NEW map, Linked(map, left, k),
           PushFront(k, left, map)
    PROVE  /\ order' \in Seq(Nodes) /\ Len(order') = Len(left) + 1
           /\ holds' \in [Elements(order') -> Keys]
           /\ keyMap' \in [DOMAIN keyMap' -> Nodes]
           /\ DOMAIN keyMap' = DOMAIN map \cup {k}
           /\ Distinct(order')
           /\ \A l \in DOMAIN keyMap' :
                keyMap'[l] \in Elements(order') /\ holds'[keyMap'[l]] = l
           /\ \A n \in Elements(order') :
                holds'[n] \in DOMAIN keyMap' /\ keyMap'[holds'[n]] = n
           /\ Newer' = Recent(map, left, DOMAIN map \ {k})
                         \cup {<<k, l>> : l \in DOMAIN map \ {k}}
<1>1. PICK n \in Nodes \ Elements(left) :
        /\ order' = <<n>> \o left
        /\ holds' = Set([m \in Elements(left) |-> holds[m]], n, k)
        /\ keyMap' = Set(map, k, n)
  BY DEF PushFront
<1>2. /\ left \in Seq(Nodes) /\ Distinct(left)
      /\ map \in [DOMAIN map -> Nodes] /\ holds \in [DOMAIN holds -> Keys]
      /\ Elements(left) \subseteq DOMAIN holds
  BY DEF Linked
<1>3. /\ order' \in Seq(Nodes) /\ Distinct(order') /\ Len(order') = Len(left) + 1
      /\ Elements(order') = Elements(left) \cup {n}
      /\ \A m \in Elements(order') : ~Precedes(order', m, n)
      /\ \A m \in Elements(left) : Precedes(order', n, m)
      /\ \A m, o \in Elements(left) : Precedes(order', m, o) <=> Precedes(left, m, o)
  BY <1>1, <1>2, PushNode
<1>4. /\ DOMAIN keyMap' = DOMAIN map \cup {k}
      /\ keyMap'[k] = n
      /\ \A l \in DOMAIN map \ {k} : keyMap'[l] = map[l]
  BY <1>1 DEF Set
<1>5. /\ DOMAIN holds' = Elements(left) \cup {n}
      /\ holds'[n] = k
      /\ \A m \in Elements(left) : holds'[m] = holds[m]
  BY <1>1 DEF Set
<1>6. holds' \in [Elements(order') -> Keys] /\ keyMap' \in [DOMAIN keyMap' -> Nodes]
  BY <1>1, <1>2, <1>3 DEF Set
<1>7. \A l \in DOMAIN keyMap' :
        keyMap'[l] \in Elements(order') /\ holds'[keyMap'[l]] = l
  BY <1>3, <1>4, <1>5 DEF Linked
<1>8. \A m \in Elements(order') :
        holds'[m] \in DOMAIN keyMap' /\ keyMap'[holds'[m]] = m
  BY <1>3, <1>4, <1>5 DEF Linked
<1>9. ASSUME NEW a \in DOMAIN keyMap', NEW b \in DOMAIN keyMap'
      PROVE  <<a, b>> \in Newer' <=>
               \/ <<a, b>> \in Recent(map, left, DOMAIN map \ {k})
               \/ a = k /\ b \in DOMAIN map \ {k}
  <2>1. <<a, b>> \in Newer' <=> Precedes(order', keyMap'[a], keyMap'[b])
    BY DEF Newer, Before, Precedes
  <2>2. CASE b = k
    BY <1>3, <1>4, <1>7, <2>1, <2>2 DEF Recent
  <2>3. CASE a = k /\ b # k
    BY <1>3, <1>4, <2>1, <2>3 DEF Linked, Recent
  <2>4. CASE a # k /\ b # k
    BY <1>3, <1>4, <2>1, <2>4 DEF Linked, Recent
  <2> QED
    BY <2>2, <2>3, <2>4
<1>10. Newer' = Recent(map, left, DOMAIN map \ {k})
                  \cup {<<k, l>> : l \in DOMAIN map \ {k}}
  <2>1. \A p \in Newer' : p[1] \in DOMAIN keyMap' /\ p[2] \in DOMAIN keyMap'
                          /\ p = <<p[1], p[2]>>
    BY DEF Newer
  <2>2. \A p \in Recent(map, left, DOMAIN map \ {k}) :
          p[1] \in DOMAIN keyMap' /\ p[2] \in DOMAIN keyMap' /\ p = <<p[1], p[2]>>
    BY <1>4 DEF Recent
  <2> DEFINE old == Recent(map, left, DOMAIN map \ {k})
  <2> HIDE DEF old
  <2>3. ASSUME NEW p \in Newer' PROVE p \in old \cup {<<k, l>> : l \in DOMAIN map \ {k}}
    <3>1. p = <<p[1], p[2]>> /\ p[1] \in DOMAIN keyMap' /\ p[2] \in DOMAIN keyMap'
      BY <2>1
    <3>2. <<p[1], p[2]>> \in old \/ (p[1] = k /\ p[2] \in DOMAIN map \ {k})
      BY <1>9, <2>3, <3>1 DEF old
    <3> QED
      BY <3>1, <3>2
  <2>4. ASSUME NEW p \in old PROVE p \in Newer'
    BY <1>9, <2>2, <2>4 DEF old
  <2>5. ASSUME NEW l \in DOMAIN map \ {k} PROVE <<k, l>> \in Newer'
    BY <1>4, <1>9
  <2> QED
    BY <2>3, <2>4, <2>5 DEF old
<1> QED
  BY <1>3, <1>4, <1>6, <1>7, <1>8, <1>10

\* What a method that ends with push_front leaves behind, given that what it
\* pushed to was linked: the invariant, but for the size, and k as most recent.
LEMMA Pushed ==
    ASSUME CacheTypeOK, NEW k \in Keys, NEW left, NEW map, Linked(map, left, k),
           PushFront(k, left, map), Len(left) < Capacity,
           DOMAIN cacheMap' = DOMAIN map \cup {k},
           DOMAIN cacheMap' \subseteq Keys, cacheMap' \in [DOMAIN cacheMap' -> Values],
           returned' \in Values \cup {NoValue}
    PROVE  /\ CacheTypeOK' /\ IteratorsValid' /\ Len(order') = Len(left) + 1
           /\ Newer' = Recent(map, left, DOMAIN map \ {k})
                         \cup {<<k, l>> : l \in DOMAIN map \ {k}}
<1>1. Len(left) \in Nat
  BY DEF Linked
<1>2. /\ order' \in Seq(Nodes) /\ Len(order') = Len(left) + 1
      /\ holds' \in [Elements(order') -> Keys]
      /\ keyMap' \in [DOMAIN keyMap' -> Nodes]
      /\ DOMAIN keyMap' = DOMAIN map \cup {k}
      /\ Distinct(order')
      /\ \A l \in DOMAIN keyMap' :
           keyMap'[l] \in Elements(order') /\ holds'[keyMap'[l]] = l
      /\ \A n \in Elements(order') :
           holds'[n] \in DOMAIN keyMap' /\ keyMap'[holds'[n]] = n
      /\ Newer' = Recent(map, left, DOMAIN map \ {k})
                    \cup {<<k, l>> : l \in DOMAIN map \ {k}}
  BY PushLinks
<1>3. CacheTypeOK'
  BY <1>1, <1>2, CacheAssumption DEF CacheTypeOK
<1>4. IteratorsValid'
  BY <1>2 DEF IteratorsValid, Distinct
<1> QED
  BY <1>2, <1>3, <1>4

\* The list as it is, and as it is without the node of a key, is linked.
LEMMA LinkedList ==
    ASSUME CacheIInv, NEW k \in Keys
    PROVE  /\ k \notin DOMAIN cacheMap => Linked(keyMap, order, k)
           /\ k \in DOMAIN cacheMap =>
                Linked(keyMap, Erase(keyMap[k]), k) /\ Without(Erase(keyMap[k]), order, keyMap[k])
<1>1. /\ order \in Seq(Nodes) /\ Distinct(order)
      /\ keyMap \in [DOMAIN keyMap -> Nodes] /\ holds \in [Elements(order) -> Keys]
      /\ DOMAIN keyMap = DOMAIN cacheMap
  BY DEF CacheIInv, CacheTypeOK, IteratorsValid, Distinct
<1>2. CASE k \notin DOMAIN cacheMap
  BY <1>1, <1>2 DEF CacheIInv, IteratorsValid, Linked
<1>3. CASE k \in DOMAIN cacheMap
  <2>1. keyMap[k] \in Elements(order)
    BY <1>1, <1>3 DEF CacheIInv, IteratorsValid
  <2>2. Without(Erase(keyMap[k]), order, keyMap[k])
    BY <1>1, <2>1, EraseNode
  <2>3. Linked(keyMap, Erase(keyMap[k]), k)
    <3> DEFINE left == Erase(keyMap[k])
    <3>1. left \in Seq(Nodes) /\ Distinct(left) /\ Elements(left) = Elements(order) \ {keyMap[k]}
      BY <2>2 DEF Without
    <3> HIDE DEF left
    <3>2. \A l \in DOMAIN keyMap \ {k} : keyMap[l] \in Elements(left) /\ holds[keyMap[l]] = l
      BY <1>1, <1>3, <3>1 DEF CacheIInv, IteratorsValid
    <3>3. \A n \in Elements(left) :
            holds[n] \in DOMAIN keyMap \ {k} /\ keyMap[holds[n]] = n
      BY <1>1, <1>3, <3>1 DEF CacheIInv, IteratorsValid
    <3> QED
      BY <1>1, <3>1, <3>2, <3>3 DEF Linked, left
  <2> QED
    BY <1>3, <2>2, <2>3
<1> QED
  BY <1>2, <1>3

\* The node evicted holds the oldest key.
LEMMA LinkedRest ==
    ASSUME CacheIInv, NEW k \in Keys \ DOMAIN cacheMap, Cardinality(DOMAIN cacheMap) >= Capacity
    PROVE  /\ lruKey \in DOMAIN cacheMap /\ keyMap[lruKey] = order[Len(order)]
           /\ Without(PopBack, order, keyMap[lruKey])
           /\ Linked(Drop(keyMap, lruKey), PopBack, k)
           /\ DOMAIN Drop(keyMap, lruKey) = DOMAIN cacheMap \ {lruKey}
           /\ \A l \in DOMAIN cacheMap \ {lruKey} : <<l, lruKey>> \in Newer
<1>1. /\ order \in Seq(Nodes) /\ Distinct(order)
      /\ keyMap \in [DOMAIN keyMap -> Nodes] /\ holds \in [Elements(order) -> Keys]
      /\ DOMAIN keyMap = DOMAIN cacheMap
  BY DEF CacheIInv, CacheTypeOK, IteratorsValid, Distinct
<1>2. Len(order) \in Nat \ {0} /\ order # <<>>
  BY <1>1, CacheAssumption DEF CacheIInv, SameSize
<1> DEFINE last == order[Len(order)]
<1>3. last \in Elements(order) /\ Without(PopBack, order, last)
  BY <1>1, <1>2, PopLast
<1>4. lruKey \in DOMAIN cacheMap /\ keyMap[lruKey] = last
  BY <1>1, <1>3 DEF lruKey, CacheIInv, IteratorsValid
<1> HIDE DEF last
<1>5. /\ DOMAIN Drop(keyMap, lruKey) = DOMAIN cacheMap \ {lruKey}
      /\ \A l \in DOMAIN cacheMap \ {lruKey} : Drop(keyMap, lruKey)[l] = keyMap[l]
      /\ Drop(keyMap, lruKey) \in [DOMAIN Drop(keyMap, lruKey) -> Nodes]
  BY <1>1 DEF Drop
<1>6. Linked(Drop(keyMap, lruKey), PopBack, k)
  <2>1. PopBack \in Seq(Nodes) /\ Distinct(PopBack) /\ Elements(PopBack) = Elements(order) \ {last}
    BY <1>3 DEF Without
  <2>2. \A l \in DOMAIN cacheMap \ {lruKey} :
          keyMap[l] \in Elements(PopBack) /\ holds[keyMap[l]] = l
    BY <1>1, <1>4, <2>1 DEF CacheIInv, IteratorsValid
  <2>3. \A n \in Elements(PopBack) :
          holds[n] \in DOMAIN cacheMap \ {lruKey} /\ keyMap[holds[n]] = n
    BY <1>1, <1>4, <2>1 DEF CacheIInv, IteratorsValid
  <2> QED
    BY <1>1, <1>5, <2>1, <2>2, <2>3 DEF Linked
<1>7. ASSUME NEW l \in DOMAIN cacheMap \ {lruKey} PROVE <<l, lruKey>> \in Newer
  <2>1. keyMap[l] \in Elements(order) /\ keyMap[l] # last
    BY <1>1, <1>4 DEF CacheIInv, IteratorsValid
  <2>2. PICK i \in 1..Len(order) : order[i] = keyMap[l]
    BY <2>1 DEF Elements
  <2>3. i < Len(order) /\ Len(order) \in 1..Len(order)
    BY <1>2, <2>1, <2>2 DEF last
  <2> QED
    BY <1>1, <1>4, <2>2, <2>3 DEF Newer, Before, last
<1> QED
  BY <1>3, <1>4, <1>5, <1>6, <1>7 DEF last

-----------------------------------------------------------------------------
(* The methods *)

\* What Used of the store comes to when the keys that stay, but for k, are K
LEMMA UsedNewer ==
    ASSUME NEW k, NEW K, NEW kept, kept = {p \in Newer : p[1] \in K /\ p[2] \in K},
           k \notin K
    PROVE  Recency!Used(k, K \cup {k}) = kept \cup {<<k, l>> : l \in K}
<1>1. {p \in Newer : /\ p[1] # k /\ p[2] # k
                     /\ p[1] \in K \cup {k} /\ p[2] \in K \cup {k}} = kept
  OBVIOUS
<1>2. (K \cup {k}) \ {k} = K
  OBVIOUS
<1> QED
  BY <1>1, <1>2 DEF Recency!Used, Newer

\* What a list without some nodes says of the nodes that stay
LEMMA RecentKept ==
    ASSUME CacheIInv, NEW left, NEW map, NEW gone \in DOMAIN keyMap,
           Without(left, order, keyMap[gone]),
           \A l \in DOMAIN keyMap \ {gone} : map[l] = keyMap[l]
    PROVE  LET K == DOMAIN keyMap \ {gone}
           IN  Recent(map, left, K) = {p \in Newer : p[1] \in K /\ p[2] \in K}
<1> DEFINE K == DOMAIN keyMap \ {gone}
<1>1. \A l \in K : keyMap[l] \in Elements(order) \ {keyMap[gone]}
  BY DEF CacheIInv, IteratorsValid
<1>2. \A l, m \in K : Precedes(left, map[l], map[m]) <=> Precedes(order, keyMap[l], keyMap[m])
  BY <1>1 DEF Without
<1>3. Newer = {p \in (DOMAIN keyMap) \X (DOMAIN keyMap) :
                 Precedes(order, keyMap[p[1]], keyMap[p[2]])}
  BY DEF Newer, Before, Precedes
<1> QED
  BY <1>2, <1>3 DEF Recent

\* A key that is there is used again: by get, or by put with a new value.
LEMMA Touch ==
    ASSUME CacheIInv, NEW k \in DOMAIN cacheMap, PushFront(k, Erase(keyMap[k]), keyMap),
           DOMAIN cacheMap' = DOMAIN cacheMap, cacheMap' \in [DOMAIN cacheMap' -> Values],
           returned' \in Values \cup {NoValue}
    PROVE  CacheIInv' /\ Newer' = Recency!Used(k, DOMAIN cacheMap)
<1> DEFINE left == Erase(keyMap[k])
<1>1. k \in Keys /\ DOMAIN keyMap = DOMAIN cacheMap /\ DOMAIN cacheMap \subseteq Keys
      /\ order \in Seq(Nodes) /\ Len(order) <= Capacity
  BY DEF CacheIInv, CacheTypeOK, IteratorsValid
<1>2. Linked(keyMap, left, k) /\ Without(left, order, keyMap[k])
  BY <1>1, LinkedList
<1> HIDE DEF left
<1>3. Len(left) = Len(order) - 1 /\ Len(order) \in Nat
  BY <1>1, <1>2 DEF Without
<1>4. DOMAIN cacheMap' = DOMAIN keyMap \cup {k} /\ Len(left) < Capacity /\ CacheTypeOK
  <2>1. Len(left) < Capacity
    BY <1>1, <1>3, CacheAssumption
  <2>2. DOMAIN cacheMap' = DOMAIN keyMap \cup {k}
    BY <1>1
  <2> QED
    BY <2>1, <2>2 DEF CacheIInv
<1>5. /\ CacheTypeOK' /\ IteratorsValid' /\ Len(order') = Len(left) + 1
      /\ Newer' = Recent(keyMap, left, DOMAIN keyMap \ {k})
                    \cup {<<k, l>> : l \in DOMAIN keyMap \ {k}}
  <2>1. PushFront(k, left, keyMap)
    BY DEF left
  <2> QED
    BY <1>1, <1>2, <1>4, <2>1, Pushed
<1>6. SameSize'
  BY <1>3, <1>5 DEF CacheIInv, SameSize
<1>7. Newer' = Recency!Used(k, (DOMAIN keyMap \ {k}) \cup {k})
  <2>1. Recent(keyMap, left, DOMAIN keyMap \ {k}) =
          {p \in Newer : p[1] \in DOMAIN keyMap \ {k} /\ p[2] \in DOMAIN keyMap \ {k}}
    BY <1>1, <1>2, RecentKept
  <2> QED
    BY <1>5, <2>1, UsedNewer
<1>8. (DOMAIN keyMap \ {k}) \cup {k} = DOMAIN cacheMap
  BY <1>1
<1> QED
  BY <1>5, <1>6, <1>7, <1>8 DEF CacheIInv

LEMMA GetStep ==
    ASSUME CacheIInv, NEW k \in Keys, get(k)
    PROVE  CacheIInv' /\ Recency!Get(k)
<1>1. CASE k \in DOMAIN cacheMap
  <2>1. /\ PushFront(k, Erase(keyMap[k]), keyMap)
        /\ UNCHANGED cacheMap /\ returned' = cacheMap[k]
    BY <1>1 DEF get
  <2>2. cacheMap \in [DOMAIN cacheMap -> Values]
    BY DEF CacheIInv, CacheTypeOK
  <2>3. CacheIInv' /\ Newer' = Recency!Used(k, DOMAIN cacheMap)
    <3>1. returned' \in Values \cup {NoValue}
      BY <1>1, <2>1, <2>2
    <3> QED
      BY <1>1, <2>1, <2>2, <3>1, Touch
  <2> QED
    BY <1>1, <2>1, <2>3 DEF Recency!Get, Newer
<1>2. CASE k \notin DOMAIN cacheMap
  <2>1. UNCHANGED <<order, holds, keyMap, cacheMap>> /\ returned' = NoValue
    BY <1>2 DEF get
  <2>2. CacheIInv'
    BY <2>1 DEF CacheIInv, CacheTypeOK, IteratorsValid, SameSize
  <2>3. UNCHANGED Newer
    BY <2>1 DEF Newer, Before
  <2> QED
    BY <1>2, <2>1, <2>2, <2>3 DEF Recency!Get, Newer
<1> QED
  BY <1>1, <1>2

LEMMA UpdateStep ==
    ASSUME CacheIInv, NEW k \in Keys, NEW v \in Values, update(k, v)
    PROVE  CacheIInv' /\ Recency!Put(k, v, {})
<1>1. /\ k \in DOMAIN cacheMap
      /\ PushFront(k, Erase(keyMap[k]), keyMap)
      /\ cacheMap' = Set(cacheMap, k, v)
      /\ UNCHANGED returned
  BY DEF update
<1>2. cacheMap \in [DOMAIN cacheMap -> Values] /\ returned \in Values \cup {NoValue}
  BY DEF CacheIInv, CacheTypeOK
<1>3. /\ DOMAIN cacheMap' = DOMAIN cacheMap
      /\ cacheMap' \in [DOMAIN cacheMap' -> Values]
      /\ returned' \in Values \cup {NoValue}
  BY <1>1, <1>2 DEF Set
<1>4. CacheIInv' /\ Newer' = Recency!Used(k, DOMAIN cacheMap)
  BY <1>1, <1>3, Touch
<1>5. (DOMAIN cacheMap \ {}) \cup {k} = DOMAIN cacheMap
  BY <1>1
<1>6. cacheMap' = [l \in DOMAIN cacheMap |-> IF l = k THEN v ELSE cacheMap[l]]
  BY <1>1, <1>5 DEF Set
<1> QED
  BY <1>1, <1>4, <1>5, <1>6 DEF Recency!Put, Newer

LEMMA InsertStep ==
    ASSUME CacheIInv, NEW k \in Keys, NEW v \in Values, insert(k, v)
    PROVE  CacheIInv' /\ Recency!Put(k, v, {})
<1>1. /\ k \notin DOMAIN cacheMap /\ Cardinality(DOMAIN cacheMap) < Capacity
      /\ PushFront(k, order, keyMap)
      /\ cacheMap' = Set(cacheMap, k, v)
      /\ UNCHANGED returned
  BY DEF insert
<1>2. /\ cacheMap \in [DOMAIN cacheMap -> Values] /\ DOMAIN cacheMap \subseteq Keys
      /\ returned \in Values \cup {NoValue}
      /\ DOMAIN keyMap = DOMAIN cacheMap
      /\ IsFiniteSet(DOMAIN cacheMap) /\ Cardinality(DOMAIN cacheMap) = Len(order)
  BY DEF CacheIInv, CacheTypeOK, IteratorsValid, SameSize
<1>3. /\ DOMAIN cacheMap' = DOMAIN cacheMap \cup {k}
      /\ cacheMap' \in [DOMAIN cacheMap' -> Values]
      /\ cacheMap' = [l \in DOMAIN cacheMap \cup {k} |-> IF l = k THEN v ELSE cacheMap[l]]
  BY <1>1, <1>2 DEF Set
<1>4. Linked(keyMap, order, k)
  BY <1>1, LinkedList
<1>5. DOMAIN keyMap \ {k} = DOMAIN cacheMap
  BY <1>1, <1>2
<1>6. /\ CacheTypeOK' /\ IteratorsValid' /\ Len(order') = Len(order) + 1
      /\ Newer' = Recent(keyMap, order, DOMAIN keyMap \ {k})
                    \cup {<<k, l>> : l \in DOMAIN keyMap \ {k}}
  <2>1. /\ Len(order) < Capacity /\ CacheTypeOK
        /\ DOMAIN cacheMap' = DOMAIN keyMap \cup {k} /\ DOMAIN cacheMap' \subseteq Keys
        /\ returned' \in Values \cup {NoValue}
    BY <1>1, <1>2, <1>3 DEF CacheIInv
  <2> QED
    BY <1>1, <1>3, <1>4, <2>1, Pushed
<1>7. SameSize'
  <2>1. /\ IsFiniteSet(DOMAIN cacheMap \cup {k})
        /\ Cardinality(DOMAIN cacheMap \cup {k}) = Cardinality(DOMAIN cacheMap) + 1
    BY <1>1, <1>2, FS_AddElement
  <2> QED
    BY <1>2, <1>3, <1>6, <2>1 DEF SameSize
<1>8. Newer' = Recency!Used(k, DOMAIN cacheMap \cup {k})
  <2>1. Recent(keyMap, order, DOMAIN cacheMap) =
          {p \in Newer : p[1] \in DOMAIN cacheMap /\ p[2] \in DOMAIN cacheMap}
    BY <1>2 DEF Recent, Newer, Before, Precedes
  <2> QED
    BY <1>1, <1>5, <1>6, <2>1, UsedNewer
<1>9. (DOMAIN cacheMap \ {}) \cup {k} = DOMAIN cacheMap \cup {k}
  OBVIOUS
<1> QED
  BY <1>1, <1>3, <1>6, <1>7, <1>8, <1>9 DEF Recency!Put, Newer, CacheIInv

\* The instance has a Cardinality of its own, with the same definition.
LEMMA SameCount == ASSUME NEW S PROVE Recency!Cardinality(S) = Cardinality(S)
  BY Zenon DEF Recency!Cardinality, Cardinality

\* The key evicted is the one the store calls oldest.
LEMMA EvictStep ==
    ASSUME CacheIInv, NEW k \in Keys, NEW v \in Values, evict(k, v)
    PROVE  CacheIInv' /\ lruKey \in DOMAIN cacheMap /\ Recency!Put(k, v, {lruKey})
<1> DEFINE map == Drop(keyMap, lruKey)
           kept == DOMAIN cacheMap \ {lruKey}
<1>1. /\ k \in Keys \ DOMAIN cacheMap /\ Cardinality(DOMAIN cacheMap) >= Capacity
      /\ PushFront(k, PopBack, map)
      /\ cacheMap' = Set(Drop(cacheMap, lruKey), k, v)
      /\ UNCHANGED returned
  BY DEF evict
<1>2. /\ cacheMap \in [DOMAIN cacheMap -> Values] /\ DOMAIN cacheMap \subseteq Keys
      /\ returned \in Values \cup {NoValue}
      /\ DOMAIN keyMap = DOMAIN cacheMap
      /\ order \in Seq(Nodes) /\ Len(order) <= Capacity
      /\ IsFiniteSet(DOMAIN cacheMap) /\ Cardinality(DOMAIN cacheMap) = Len(order)
  BY DEF CacheIInv, CacheTypeOK, IteratorsValid, SameSize
<1>3. /\ lruKey \in DOMAIN cacheMap /\ keyMap[lruKey] = order[Len(order)]
      /\ Without(PopBack, order, keyMap[lruKey])
      /\ Linked(map, PopBack, k)
      /\ DOMAIN map = kept
      /\ \A l \in kept : <<l, lruKey>> \in Newer
  BY <1>1, LinkedRest
<1>4. \A l \in kept : map[l] = keyMap[l]
  BY <1>2 DEF Drop
<1>5. /\ DOMAIN cacheMap' = kept \cup {k}
      /\ cacheMap' \in [DOMAIN cacheMap' -> Values]
      /\ cacheMap' = [l \in kept \cup {k} |-> IF l = k THEN v ELSE cacheMap[l]]
      /\ DOMAIN cacheMap' \subseteq Keys
  BY <1>1, <1>2 DEF Set, Drop
<1>6. k \notin kept /\ kept \ {k} = kept
  BY <1>1
<1> HIDE DEF map, kept
<1>7. /\ CacheTypeOK' /\ IteratorsValid' /\ Len(order') = Len(PopBack) + 1
      /\ Newer' = Recent(map, PopBack, kept) \cup {<<k, l>> : l \in kept}
  <2>1. Len(PopBack) < Capacity
    BY <1>2, <1>3, CacheAssumption DEF Without
  <2>2. CacheTypeOK /\ DOMAIN cacheMap' = DOMAIN map \cup {k} /\ returned' \in Values \cup {NoValue}
    BY <1>1, <1>2, <1>3, <1>5 DEF CacheIInv
  <2> QED
    BY <1>1, <1>3, <1>5, <1>6, <2>1, <2>2, Pushed
<1>8. SameSize'
  <2>1. IsFiniteSet(kept) /\ Cardinality(kept) = Cardinality(DOMAIN cacheMap) - 1
    BY <1>2, <1>3, FS_RemoveElement DEF kept
  <2>2. IsFiniteSet(kept \cup {k}) /\ Cardinality(kept \cup {k}) = Cardinality(kept) + 1
    BY <1>6, <2>1, FS_AddElement
  <2>3. Len(order') = Len(order)
    BY <1>2, <1>3, <1>7 DEF Without
  <2> QED
    BY <1>2, <1>5, <2>1, <2>2, <2>3 DEF SameSize
<1>9. Newer' = Recency!Used(k, kept \cup {k})
  <2>1. Recent(map, PopBack, kept) = {p \in Newer : p[1] \in kept /\ p[2] \in kept}
    BY <1>2, <1>3, <1>4, RecentKept DEF kept
  <2> QED
    BY <1>6, <1>7, <2>1, UsedNewer
<1>10. Recency!Oldest(lruKey)
  BY <1>3 DEF Recency!Oldest, Newer, kept
<1>11. Recency!Put(k, v, {lruKey})
  <2>1. Recency!Cardinality(DOMAIN cacheMap) >= Capacity
    BY <1>1, SameCount
  <2>2. \A l \in {lruKey} : l \in DOMAIN cacheMap /\ Recency!Oldest(l)
    BY <1>3, <1>10
  <2> QED
    BY <1>1, <1>5, <1>9, <2>1, <2>2 DEF Recency!Put, Newer, kept
<1> QED
  BY <1>3, <1>7, <1>8, <1>11 DEF CacheIInv

LEMMA RemoveStep ==
    ASSUME CacheIInv, NEW k \in Keys, remove(k)
    PROVE  CacheIInv' /\ Recency!Remove(k)
<1>1. /\ cacheMap \in [DOMAIN cacheMap -> Values] /\ DOMAIN cacheMap \subseteq Keys
      /\ returned \in Values \cup {NoValue} /\ returned' = returned
      /\ DOMAIN keyMap = DOMAIN cacheMap
      /\ keyMap \in [DOMAIN keyMap -> Nodes] /\ holds \in [Elements(order) -> Keys]
      /\ order \in Seq(Nodes) /\ Len(order) <= Capacity
      /\ IsFiniteSet(DOMAIN cacheMap) /\ Cardinality(DOMAIN cacheMap) = Len(order)
  BY DEF CacheIInv, CacheTypeOK, IteratorsValid, SameSize, remove
<1>2. CASE k \in DOMAIN cacheMap
  <2> DEFINE K == DOMAIN cacheMap \ {k}
  <2>1. /\ order' = Erase(keyMap[k])
        /\ holds' = [m \in Elements(order') |-> holds[m]]
        /\ keyMap' = Drop(keyMap, k) /\ cacheMap' = Drop(cacheMap, k)
    BY <1>2 DEF remove
  <2>2. /\ DOMAIN keyMap' = K /\ \A l \in K : keyMap'[l] = keyMap[l]
        /\ keyMap' \in [K -> Nodes]
        /\ DOMAIN cacheMap' = K /\ cacheMap' \in [K -> Values]
        /\ cacheMap' = [l \in K |-> cacheMap[l]]
    BY <1>1, <2>1 DEF Drop
  <2>3. Linked(keyMap, order', k) /\ Without(order', order, keyMap[k])
    BY <1>2, <2>1, LinkedList
  <2>4. /\ order' \in Seq(Nodes) /\ Distinct(order') /\ Len(order') = Len(order) - 1
        /\ Elements(order') = Elements(order) \ {keyMap[k]}
    BY <2>3 DEF Without
  <2>5. CacheTypeOK'
    <3>1. holds' \in [Elements(order') -> Keys]
      BY <1>1, <2>1, <2>4
    <3>2. Len(order') <= Capacity
      BY <1>1, <2>4, CacheAssumption
    <3> QED
      BY <1>1, <2>2, <2>4, <3>1, <3>2 DEF CacheTypeOK
  <2>6. IteratorsValid'
    <3>1. \A l \in K : keyMap'[l] \in Elements(order') /\ holds'[keyMap'[l]] = l
      BY <1>1, <2>1, <2>2, <2>3 DEF Linked
    <3>2. \A n \in Elements(order') : holds'[n] \in K /\ keyMap'[holds'[n]] = n
      BY <1>1, <2>1, <2>2, <2>3 DEF Linked
    <3> QED
      BY <2>2, <2>4, <3>1, <3>2 DEF IteratorsValid, Distinct
  <2>7. SameSize'
    <3>1. IsFiniteSet(K) /\ Cardinality(K) = Cardinality(DOMAIN cacheMap) - 1
      BY <1>1, <1>2, FS_RemoveElement
    <3> QED
      BY <1>1, <2>2, <2>4, <3>1 DEF SameSize
  <2>8. Newer' = {p \in Newer : p[1] # k /\ p[2] # k}
    <3>1. Recent(keyMap', order', K) = {p \in Newer : p[1] \in K /\ p[2] \in K}
      BY <1>1, <1>2, <2>2, <2>3, RecentKept
    <3>2. Newer' = Recent(keyMap', order', K)
      BY <2>2 DEF Newer, Before, Recent, Precedes
    <3>3. \A p \in Newer : p[1] \in DOMAIN cacheMap /\ p[2] \in DOMAIN cacheMap
      BY <1>1 DEF Newer
    <3> QED
      BY <3>1, <3>2, <3>3
  <2> QED
    BY <1>1, <2>2, <2>5, <2>6, <2>7, <2>8 DEF CacheIInv, Recency!Remove, Newer
<1>3. CASE k \notin DOMAIN cacheMap
  <2>1. UNCHANGED <<order, holds, keyMap, cacheMap, returned>>
    BY <1>3 DEF remove
  <2>2. CacheIInv'
    BY <2>1 DEF CacheIInv, CacheTypeOK, IteratorsValid, SameSize
  <2>3. Newer' = {p \in Newer : p[1] # k /\ p[2] # k}
    BY <1>1, <1>3, <2>1 DEF Newer, Before
  <2>4. cacheMap' = [l \in DOMAIN cacheMap \ {k} |-> cacheMap[l]]
    BY <1>1, <1>3, <2>1
  <2> QED
    BY <1>1, <2>2, <2>3, <2>4 DEF Recency!Remove, Newer
<1> QED
  BY <1>2, <1>3

-----------------------------------------------------------------------------
(* The theorems *)

LEMMA InitInv == ASSUME CacheInit PROVE CacheIInv
<1>1. order = <<>> /\ holds = Nothing /\ keyMap = Nothing /\ cacheMap = Nothing
      /\ returned = NoValue
  BY DEF CacheInit
<1>2. DOMAIN Nothing = {} /\ Nothing \in [{} -> Nodes] /\ Nothing \in [{} -> Keys]
      /\ Nothing \in [{} -> Values]
  BY DEF Nothing
<1>3. Len(order) = 0 /\ order \in Seq(Nodes) /\ Elements(order) = {}
  BY <1>1 DEF Elements
<1>4. IsFiniteSet({}) /\ Cardinality({}) = 0
  BY FS_EmptySet
<1>5. CacheTypeOK
  BY <1>1, <1>2, <1>3, CacheAssumption DEF CacheTypeOK
<1> QED
  BY <1>1, <1>2, <1>3, <1>4, <1>5 DEF CacheIInv, IteratorsValid, SameSize

\* Each method keeps the invariant and is a step of the store.
LEMMA NextStep ==
    ASSUME CacheIInv, CacheNext
    PROVE  CacheIInv' /\ Recency!Next
<1>1. PICK k \in Keys : get(k) \/ (\E v \in Values : put(k, v)) \/ remove(k)
  BY DEF CacheNext
<1>2. CASE get(k)
  BY <1>1, <1>2, GetStep DEF Recency!Next
<1>3. CASE remove(k)
  BY <1>1, <1>3, RemoveStep DEF Recency!Next
<1>4. ASSUME NEW v \in Values, put(k, v)
      PROVE  CacheIInv' /\ \E evicted \in Recency!Evictions : Recency!Put(k, v, evicted)
  <2>1. {} \in Recency!Evictions /\ \A l \in DOMAIN cacheMap : {l} \in Recency!Evictions
    BY DEF Recency!Evictions
  <2>2. CASE update(k, v)
    BY <2>1, <2>2, UpdateStep
  <2>3. CASE insert(k, v)
    BY <2>1, <2>3, InsertStep
  <2>4. CASE evict(k, v)
    BY <2>1, <2>4, EvictStep
  <2> QED
    BY <1>4, <2>2, <2>3, <2>4 DEF put
<1> QED
  BY <1>1, <1>2, <1>3, <1>4 DEF Recency!Next

LEMMA StutterStep ==
    ASSUME CacheIInv, UNCHANGED cacheVars
    PROVE  CacheIInv' /\ UNCHANGED Recency!vars
  BY DEF cacheVars, CacheIInv, CacheTypeOK, IteratorsValid, SameSize, Recency!vars, Before

\* The inductive invariant holds of every reachable state.
THEOREM CacheInvariance == CacheSpec => []CacheIInv
<1>1. CacheInit => CacheIInv
  BY InitInv
<1>2. CacheIInv /\ [CacheNext]_cacheVars => CacheIInv'
  BY NextStep, StutterStep
<1> QED
  BY <1>1, <1>2, PTL DEF CacheSpec

\* No sequence of calls of get, put and remove leaves an iterator without its
\* node or a node without its entry, whatever the capacity.
THEOREM IteratorsStayValid == CacheSpec => []IteratorsValid
<1>1. CacheIInv => IteratorsValid
  BY DEF CacheIInv
<1> QED
  BY <1>1, CacheInvariance, PTL

\* The list never gets longer than the capacity.
THEOREM CacheTypeCorrect == CacheSpec => []CacheTypeOK
<1>1. CacheIInv => CacheTypeOK
  BY DEF CacheIInv
<1> QED
  BY <1>1, CacheInvariance, PTL

\* LRUCache.hpp implements the bounded store with recency.
THEOREM CacheImplementsStore == CacheSpec => ImplementsStore
<1>1. CacheInit => Recency!Init
  BY DEF CacheInit, Recency!Init, Nothing, Before
<1>2. ASSUME CacheIInv PROVE Recency!Bounded
  <2>1. Cardinality(DOMAIN cacheMap) <= Capacity
    BY <1>2 DEF CacheIInv, CacheTypeOK, SameSize
  <2> QED
    BY <2>1, SameCount DEF Recency!Bounded
<1>3. CacheIInv => Recency!Bounded
  BY <1>2
<1>4. CacheIInv' => Recency!Bounded'
  BY <1>3, PTL
<1>5. CacheIInv /\ CacheIInv' /\ [CacheNext]_cacheVars => [Recency!Next /\ Recency!Bounded']_(Recency!vars)
  <2> SUFFICES ASSUME CacheIInv, CacheIInv', [CacheNext]_cacheVars
               PROVE  [Recency!Next /\ Recency!Bounded']_(Recency!vars)
    OBVIOUS
  <2>1. CASE CacheNext
    BY <1>4, <2>1, NextStep
  <2>2. CASE UNCHANGED cacheVars
    BY <2>2, StutterStep
  <2> QED
    BY <2>1, <2>2
<1> QED
  BY <1>1, <1>5, CacheInvariance, PTL DEF CacheSpec, ImplementsStore, Recency!Spec

-----------------------------------------------------------------------------
(* The request threads: their inductive invariant *)

\* The mutex outlives a step of its owner only at the second lock of
\* handleCachedResponse, and that thread is the one that keeps it.
MutexInv ==
    /\ mutex # None => at[mutex] = "relock"
    /\ \A t \in Threads : at[t] = "relock" => mutex = t

\* A thread sends a copy from the cache only if the copy is a no-cache one
\* (others wedge first) and was asked about where it could be.
ServeInv ==
    \A t \in Threads :
        /\ at[t] = "serve" => entry[t] \in Heads /\ (Blind(entry[t]) \/ t \in checked)
        /\ at[t] \in {"judge", "ask", "asked", "hit"} => entry[t] \in Heads
        /\ at[t] = "store" => got[t] \in Heads

IInv ==
    /\ TypeOK /\ answer \in Heads \cup {NoEntry} /\ IsFiniteSet(DOMAIN store)
    /\ MutexInv /\ ServeInv

-----------------------------------------------------------------------------
\* The store counts with its own instance of FiniteSets.
LEMMA SameCardinality == \A S : Cache!Cardinality(S) = Cardinality(S)
BY DEF Cardinality, Cache!Cardinality

LEMMA InitIInv == Init => IInv
<1> SUFFICES ASSUME Init PROVE IInv
    OBVIOUS
<1>1. DOMAIN store = {} /\ answer = NoEntry
    BY DEF Init, Cache!Init
<1>2. IsFiniteSet(DOMAIN store) /\ Cache!Bounded
    <2>1. IsFiniteSet(DOMAIN store) /\ Cardinality(DOMAIN store) = 0
        BY <1>1, FS_EmptySet, Zenon
    <2> QED
        BY <2>1, SameCardinality, ProxyAssumption DEF Cache!Bounded
<1>3. store \in [DOMAIN store -> Heads]
    BY <1>1 DEF Init, Cache!Init
<1> QED
    BY <1>1, <1>2, <1>3 DEF Init, IInv, TypeOK, MutexInv, ServeInv, Points, PeerWaits

\* Get, Remove and Put of the store keep its part of the invariant.
LEMMA CacheStep ==
    ASSUME IInv, NEW l \in Lines,
           \/ Cache!Get(l)
           \/ Cache!Remove(l)
           \/ \E v \in Heads, evicted \in Cache!Evictions :
                Cache!Put(l, v, evicted) /\ Cache!Bounded'
    PROVE  /\ DOMAIN store' \subseteq Lines /\ store' \in [DOMAIN store' -> Heads]
           /\ Cache!Bounded' /\ IsFiniteSet(DOMAIN store')
           /\ answer' \in Heads \cup {NoEntry}
<1>1. CASE Cache!Get(l)
    BY <1>1 DEF Cache!Get, Cache!Bounded, IInv, TypeOK
<1>2. CASE Cache!Remove(l)
    <2>1. DOMAIN store' = DOMAIN store \ {l}
        BY <1>2 DEF Cache!Remove
    <2>2. /\ IsFiniteSet(DOMAIN store')
          /\ Cardinality(DOMAIN store') <= Cardinality(DOMAIN store)
        BY <2>1, FS_Subset, FS_CardinalityType DEF IInv
    <2>3. Cardinality(DOMAIN store) \in Nat /\ Cardinality(DOMAIN store') \in Nat
        BY <2>2, FS_CardinalityType DEF IInv
    <2>4. Cache!Bounded'
        BY <2>2, <2>3, SameCardinality, ProxyAssumption DEF IInv, TypeOK, Cache!Bounded
    <2>5. DOMAIN store' \subseteq Lines /\ store' \in [DOMAIN store' -> Heads]
        BY <1>2 DEF Cache!Remove, IInv, TypeOK
    <2> QED
        BY <1>2, <2>2, <2>4, <2>5 DEF Cache!Remove, IInv
<1>3. CASE \E v \in Heads, evicted \in Cache!Evictions :
              Cache!Put(l, v, evicted) /\ Cache!Bounded'
    <2>1. PICK v \in Heads, evicted \in Cache!Evictions :
              Cache!Put(l, v, evicted) /\ Cache!Bounded'
        BY <1>3
    <2>2. DOMAIN store' = (DOMAIN store \ evicted) \cup {l}
        BY <2>1 DEF Cache!Put
    <2>3. IsFiniteSet(DOMAIN store \ evicted)
        BY FS_Subset DEF IInv
    <2>4. IsFiniteSet(DOMAIN store')
        BY <2>2, <2>3, FS_AddElement
    <2>5. DOMAIN store' \subseteq Lines /\ store' \in [DOMAIN store' -> Heads]
        BY <2>1 DEF Cache!Put, IInv, TypeOK
    <2> QED
        BY <2>1, <2>4, <2>5 DEF Cache!Put, IInv
<1> QED
    BY <1>1, <1>2, <1>3

-----------------------------------------------------------------------------
(* One lemma for each group of actions *)

\* What a step that leaves the cache alone has to keep
LEMMA OffCache ==
    ASSUME IInv, UNCHANGED cache
    PROVE  /\ DOMAIN store' \subseteq Lines /\ store' \in [DOMAIN store' -> Heads]
           /\ Cache!Bounded' /\ IsFiniteSet(DOMAIN store')
           /\ answer' \in Heads \cup {NoEntry}
BY DEF IInv, TypeOK, cache, Cache!Bounded

LEMMA HandleRequestStep ==
    ASSUME IInv, NEW t \in Threads, Accept(t) \/ Read(t) \/ Log(t) \/ Dial(t)
    PROVE  IInv'
<1> USE ProxyAssumption
     DEF IInv, TypeOK, MutexInv, ServeInv, Goto, Free, Points, PeerWaits, Blind
<1>0. UNCHANGED cache
    BY DEF Accept, Read, Log, Dial
<1>1. CASE Accept(t)
    BY <1>1, <1>0, OffCache DEF Accept
<1>2. CASE Read(t)
    BY <1>2, <1>0, OffCache DEF Read
<1>3. CASE Log(t)
    BY <1>3, <1>0, OffCache DEF Log
<1>4. CASE Dial(t)
    BY <1>4, <1>0, OffCache DEF Dial
<1> QED
    BY <1>1, <1>2, <1>3, <1>4

LEMMA CachedStep ==
    ASSUME IInv, NEW t \in Threads,
           Lookup(t) \/ Judge(t) \/ Remove(t) \/ Ask(t) \/ Answered(t) \/ Hit(t) \/ Serve(t)
    PROVE  IInv'
<1> USE ProxyAssumption
     DEF IInv, TypeOK, MutexInv, ServeInv, Goto, Free, Points, PeerWaits, Blind
<1>1. CASE Lookup(t)
    <2>1. line[t] \in Lines
        OBVIOUS
    <2>2. /\ DOMAIN store' \subseteq Lines /\ store' \in [DOMAIN store' -> Heads]
          /\ Cache!Bounded' /\ IsFiniteSet(DOMAIN store')
          /\ answer' \in Heads \cup {NoEntry}
        BY <1>1, <2>1, CacheStep DEF Lookup
    <2> QED
        BY <1>1, <2>2 DEF Lookup
<1>2. CASE Judge(t)
    BY <1>2, OffCache DEF Judge
<1>3. CASE Remove(t)
    <2>1. line[t] \in Lines
        OBVIOUS
    <2>2. /\ DOMAIN store' \subseteq Lines /\ store' \in [DOMAIN store' -> Heads]
          /\ Cache!Bounded' /\ IsFiniteSet(DOMAIN store')
          /\ answer' \in Heads \cup {NoEntry}
        BY <1>3, <2>1, CacheStep DEF Remove
    <2> QED
        BY <1>3, <2>2 DEF Remove, Cache!Remove
<1>4. CASE Ask(t)
    BY <1>4, OffCache DEF Ask
<1>5. CASE Answered(t)
    BY <1>5, OffCache DEF Answered
<1>6. CASE Hit(t)
    BY <1>6, OffCache DEF Hit
<1>7. CASE Serve(t)
    BY <1>7, OffCache DEF Serve
<1> QED
    BY <1>1, <1>2, <1>3, <1>4, <1>5, <1>6, <1>7

LEMMA GetRequestStep ==
    ASSUME IInv, NEW t \in Threads,
           Forward(t) \/ Reply(t) \/ LogReply(t) \/ Rest(t) \/ Relay(t) \/ Deliver(t) \/ Store(t)
    PROVE  IInv'
<1> USE ProxyAssumption
     DEF IInv, TypeOK, MutexInv, ServeInv, Goto, Free, Points, PeerWaits, Blind
<1>1. CASE Forward(t)
    BY <1>1, OffCache DEF Forward
<1>2. CASE Reply(t)
    BY <1>2, OffCache DEF Reply
<1>3. CASE LogReply(t)
    BY <1>3, OffCache DEF LogReply
<1>4. CASE Rest(t)
    BY <1>4, OffCache DEF Rest
<1>5. CASE Relay(t)
    BY <1>5, OffCache DEF Relay
<1>6. CASE Deliver(t)
    BY <1>6, OffCache DEF Deliver
<1>7. CASE Store(t)
    <2>1. line[t] \in Lines /\ got[t] \in Heads
        BY <1>7 DEF Store
    <2>2. PICK evicted \in Cache!Evictions :
              Cache!Put(line[t], got[t], evicted) /\ Cache!Bounded'
        BY <1>7 DEF Store
    <2>3. /\ DOMAIN store' \subseteq Lines /\ store' \in [DOMAIN store' -> Heads]
          /\ Cache!Bounded' /\ IsFiniteSet(DOMAIN store')
          /\ answer' \in Heads \cup {NoEntry}
        BY <2>1, <2>2, CacheStep
    <2> QED
        BY <1>7, <2>3 DEF Store
<1> QED
    BY <1>1, <1>2, <1>3, <1>4, <1>5, <1>6, <1>7

LEMMA OtherStep ==
    ASSUME IInv, NEW t \in Threads,
           Tunnel(t) \/ Post(t) \/ PeerFails(t)
    PROVE  IInv'
<1> USE ProxyAssumption
     DEF IInv, TypeOK, MutexInv, ServeInv, Goto, Free, Points, PeerWaits, Blind
<1>1. CASE Tunnel(t)
    BY <1>1, OffCache DEF Tunnel
<1>2. CASE Post(t)
    BY <1>2, OffCache DEF Post
<1>3. CASE PeerFails(t)
    BY <1>3, OffCache DEF PeerFails
<1> QED
    BY <1>1, <1>2, <1>3

LEMMA Preserved == IInv /\ [Next]_vars => IInv'
<1> SUFFICES ASSUME IInv, [Next]_vars PROVE IInv'
    OBVIOUS
<1>1. CASE Next
    <2>1. PICK t \in Threads : Accept(t) \/ Own(t) \/ WithPeer(t) \/ PeerFails(t)
        BY <1>1 DEF Next
    <2>2. CASE Accept(t)
        BY <2>2, HandleRequestStep
    <2>3. CASE Own(t)
        BY <2>3, HandleRequestStep, CachedStep, GetRequestStep DEF Own
    <2>4. CASE WithPeer(t)
        BY <2>4, HandleRequestStep, CachedStep, GetRequestStep, OtherStep DEF WithPeer
    <2>5. CASE PeerFails(t)
        BY <2>5, OtherStep
    <2> QED
        BY <2>1, <2>2, <2>3, <2>4, <2>5
<1>2. CASE UNCHANGED vars
    BY <1>2, OffCache DEF vars, cache, IInv, TypeOK, MutexInv, ServeInv, Blind
<1> QED
    BY <1>1, <1>2

-----------------------------------------------------------------------------
(* Theorems *)

\* The strengthened invariant holds of every reachable state of the proxy.
THEOREM Invariance == Spec => []IInv
<1> QED
    BY InitIInv, Preserved, PTL DEF Spec

\* The threads' data stay well formed, and the cache within its capacity.
THEOREM TypeCorrect == Spec => []TypeOK
<1>1. IInv => TypeOK
    BY DEF IInv
<1> QED
    BY <1>1, Invariance, PTL

\* shouldUseCache: a no-cache response with an ETag or a date of modification
\* goes to a client only after its own thread has asked the origin.
THEOREM NoCacheIsAsked == Spec => []NoCacheAsked
<1>1. IInv => NoCacheAsked
    BY DEF IInv, ServeInv, NoCacheAsked, Blind
<1> QED
    BY <1>1, Invariance, PTL

\* The mutex is kept between the steps of a thread only behind the second lock
\* of handleCachedResponse, and by one thread at most.
THEOREM KeptByHit == Spec => []MutexInv
<1>1. IInv => MutexInv
    BY DEF IInv
<1> QED
    BY <1>1, Invariance, PTL
=============================================================================
