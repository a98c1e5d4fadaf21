-------------------------- MODULE PackageJourney --------------------------
(***************************************************************************)
(* What the miniUPS backend promises for a package, whatever its threads   *)
(* do to each other: it is recorded once, a truck is called for it at most *)
(* once and only after that, the world is told to deliver it only once it  *)
(* is recorded, and it is dropped only after the world was told so.        *)
(***************************************************************************)
EXTENDS Naturals

CONSTANT Packages

VARIABLES recorded, called, sentOut, droppedOff

journey == <<recorded, called, sentOut, droppedOff>>

Init ==
    /\ recorded = {} /\ sentOut = {} /\ droppedOff = {}
    /\ called = [p \in Packages |-> 0]

Record(p) ==
    /\ p \notin recorded
    /\ recorded' = recorded \cup {p}
    /\ UNCHANGED <<called, sentOut, droppedOff>>

Call(p) ==
    /\ p \in recorded /\ called[p] = 0
    /\ called' = [called EXCEPT ![p] = 1]
    /\ UNCHANGED <<recorded, sentOut, droppedOff>>

SendOut(S) ==
    /\ S \subseteq recorded
    /\ sentOut' = sentOut \cup S
    /\ UNCHANGED <<recorded, called, droppedOff>>

DropOff(p) ==
    /\ p \in sentOut
    /\ droppedOff' = droppedOff \cup {p}
    /\ UNCHANGED <<recorded, called, sentOut>>

Next ==
    \/ \E p \in Packages : Record(p) \/ Call(p) \/ DropOff(p)
    \/ \E S \in SUBSET Packages : SendOut(S)

Spec == Init /\ [][Next]_journey
=============================================================================
