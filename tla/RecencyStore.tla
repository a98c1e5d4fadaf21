---------------------------- MODULE RecencyStore ----------------------------
(***************************************************************************)
(* What a cache with least-recently-used replacement promises: a bounded   *)
(* map that answers what was last put, and that gives up the key that has  *)
(* not been used for longest, and only when it is full.                    *)
(***************************************************************************)
EXTENDS Integers, FiniteSets

CONSTANTS Keys, Values, NoValue, Capacity

VARIABLES
    store,  \* key -> value
    newer,  \* <<k, l>> : k was used after l
    answer  \* what the last get returned

vars == <<store, newer, answer>>

Init == store = [k \in {} |-> NoValue] /\ newer = {} /\ answer = NoValue

\* k becomes the most recent of the keys K
Used(k, K) ==
    {p \in newer : p[1] # k /\ p[2] # k /\ p[1] \in K /\ p[2] \in K}
        \cup {<<k, l>> : l \in K \ {k}}
Oldest(k) == \A l \in DOMAIN store \ {k} : <<l, k>> \in newer

Get(k) ==
    /\ UNCHANGED store
    /\ IF k \in DOMAIN store
       THEN newer' = Used(k, DOMAIN store) /\ answer' = store[k]
       ELSE UNCHANGED newer /\ answer' = NoValue

\* Evicted is empty, or the one key that has to go.
Put(k, v, evicted) ==
    LET kept == (DOMAIN store \ evicted) \cup {k}
    IN  /\ evicted # {} => k \notin DOMAIN store /\ Cardinality(DOMAIN store) >= Capacity
        /\ \A l \in evicted : l \in DOMAIN store /\ Oldest(l)
        /\ store' = [l \in kept |-> IF l = k THEN v ELSE store[l]]
        /\ newer' = Used(k, kept)
        /\ UNCHANGED answer

Remove(k) ==
    /\ store' = [l \in DOMAIN store \ {k} |-> store[l]]
    /\ newer' = {p \in newer : p[1] # k /\ p[2] # k}
    /\ UNCHANGED answer

Evictions == {{}} \cup {{l} : l \in DOMAIN store}
Next ==
    \E k \in Keys :
        \/ Get(k)
        \/ \E v \in Values, evicted \in Evictions : Put(k, v, evicted)
        \/ Remove(k)

\* The store never outgrows its capacity.
Bounded == Cardinality(DOMAIN store) <= Capacity

Spec == Init /\ [][Next /\ Bounded']_vars
=============================================================================
