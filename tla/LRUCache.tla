------------------------------ MODULE LRUCache ------------------------------
(***************************************************************************)
(* The HTTP proxy's LRUCache.hpp: a list of keys in the order of their     *)
(* use, a map from keys to iterators of that list, and a map from keys to  *)
(* values.  An iterator is the address of its node; a freed address may be *)
(* given to the next node.                                                 *)
(*                                                                         *)
(* A definition that CacheNext does not use is a wrong form of the         *)
(* definition it precedes, which PROJECT.json lists as a mutant.           *)
(***************************************************************************)
EXTENDS Integers, Sequences, FiniteSets

CONSTANTS
    Keys,     \* request lines
    Values,   \* responses
    NoValue,  \* ValueType()
    Nodes,    \* addresses of list nodes
    Capacity  \* CACHE_CAPACITY

ASSUME CacheAssumption == Capacity \in Nat \ {0} /\ NoValue \notin Values

VARIABLES
    order,     \* the list, front first: the addresses of its nodes
    holds,     \* address of a node of the list -> its key
    keyMap,    \* key -> iterator
    cacheMap,  \* key -> value
    returned   \* what the last get returned

cacheVars == <<order, holds, keyMap, cacheMap, returned>>

Nothing == [x \in {} |-> NoValue]
CacheInit ==
    /\ order = <<>> /\ holds = Nothing
    /\ keyMap = Nothing /\ cacheMap = Nothing
    /\ returned = NoValue

Set(f, x, y) == [z \in DOMAIN f \cup {x} |-> IF z = x THEN y ELSE f[z]]
Drop(f, x) == [z \in DOMAIN f \ {x} |-> f[z]]

Elements(s) == {s[i] : i \in 1..Len(s)}
PlaceOf(n) == CHOOSE i \in 1..Len(order) : order[i] = n

EraseFront(n) == Tail(order)  \* whatever the iterator says
\* list::erase, of a node of the list
Erase(n) ==
    [i \in 1..Len(order) - 1 |-> IF i < PlaceOf(n) THEN order[i] ELSE order[i + 1]]
PopBack == [i \in 1..Len(order) - 1 |-> order[i]]

PushFrontStale(k, left, map) ==    \* an iterator that is there is kept
    \E n \in Nodes \ Elements(left) :
        /\ order' = <<n>> \o left
        /\ holds' = Set([m \in Elements(left) |-> holds[m]], n, k)
        /\ keyMap' = IF k \in DOMAIN map THEN map ELSE Set(map, k, n)
\* The key gets a new node in front of what is left of the list.
PushFront(k, left, map) ==
    \E n \in Nodes \ Elements(left) :
        /\ order' = <<n>> \o left
        /\ holds' = Set([m \in Elements(left) |-> holds[m]], n, k)
        /\ keyMap' = Set(map, k, n)

get(k) ==
    /\ IF k \in DOMAIN cacheMap
       THEN PushFront(k, Erase(keyMap[k]), keyMap) /\ returned' = cacheMap[k]
       ELSE UNCHANGED <<order, holds, keyMap>> /\ returned' = NoValue
    /\ UNCHANGED cacheMap

update(k, v) ==
    /\ k \in DOMAIN cacheMap
    /\ PushFront(k, Erase(keyMap[k]), keyMap)
    /\ cacheMap' = Set(cacheMap, k, v)
    /\ UNCHANGED returned

insert(k, v) ==
    /\ k \notin DOMAIN cacheMap /\ Cardinality(DOMAIN cacheMap) < Capacity
    /\ PushFront(k, order, keyMap)
    /\ cacheMap' = Set(cacheMap, k, v)
    /\ UNCHANGED returned

lruKey == holds[order[Len(order)]]

EvictOneTooLate(k, v) ==    \* > capacity
    /\ k \notin DOMAIN cacheMap /\ Cardinality(DOMAIN cacheMap) >= Capacity
    /\ IF Cardinality(DOMAIN cacheMap) > Capacity
       THEN /\ PushFront(k, PopBack, Drop(keyMap, lruKey))
            /\ cacheMap' = Set(Drop(cacheMap, lruKey), k, v)
       ELSE PushFront(k, order, keyMap) /\ cacheMap' = Set(cacheMap, k, v)
    /\ UNCHANGED returned
evict(k, v) ==
    /\ k \notin DOMAIN cacheMap /\ Cardinality(DOMAIN cacheMap) >= Capacity
    /\ PushFront(k, PopBack, Drop(keyMap, lruKey))
    /\ cacheMap' = Set(Drop(cacheMap, lruKey), k, v)
    /\ UNCHANGED returned

put(k, v) == update(k, v) \/ insert(k, v) \/ evict(k, v)

remove(k) ==
    /\ IF k \in DOMAIN cacheMap
       THEN /\ order' = Erase(keyMap[k])
            /\ holds' = [m \in Elements(order') |-> holds[m]]
            /\ keyMap' = Drop(keyMap, k)
            /\ cacheMap' = Drop(cacheMap, k)
       ELSE UNCHANGED <<order, holds, keyMap, cacheMap>>
    /\ UNCHANGED returned

CacheNext == \E k \in Keys : get(k) \/ (\E v \in Values : put(k, v)) \/ remove(k)

CacheSpec == CacheInit /\ [][CacheNext]_cacheVars

-----------------------------------------------------------------------------
(* Properties *)

\* Type invariant.  The maps and the list never hold more than the capacity.
CacheTypeOK ==
    /\ order \in Seq(Nodes) /\ Len(order) <= Capacity
    /\ holds \in [Elements(order) -> Keys]
    /\ keyMap \in [DOMAIN keyMap -> Nodes]
    /\ DOMAIN cacheMap \subseteq Keys /\ cacheMap \in [DOMAIN cacheMap -> Values]
    /\ returned \in Values \cup {NoValue}

\* Every iterator in keyMap points to the node of its key, no node is listed
\* twice, and the three containers have the same keys: no sequence of calls
\* makes erase use a freed iterator or leaves a key that cannot be evicted.
IteratorsValid ==
    /\ \A i, j \in 1..Len(order) : order[i] = order[j] => i = j
    /\ DOMAIN keyMap = DOMAIN cacheMap
    /\ \A k \in DOMAIN keyMap : keyMap[k] \in Elements(order) /\ holds[keyMap[k]] = k
    /\ \A n \in Elements(order) : holds[n] \in DOMAIN keyMap /\ keyMap[holds[n]] = n

Before(k, l) ==
    \E i, j \in 1..Len(order) : i < j /\ order[i] = keyMap[k] /\ order[j] = keyMap[l]
Recency == INSTANCE RecencyStore WITH
    store <- cacheMap,
    newer <- {p \in (DOMAIN keyMap) \X (DOMAIN keyMap) : Before(p[1], p[2])},
    answer <- returned

\* The three containers together are a bounded store that evicts the key that
\* has not been used for longest, and only when it is full.
ImplementsStore == Recency!Spec
=============================================================================
