-------------------------- MODULE MCMatchingEngine --------------------------
EXTENDS MatchingEngineProperties, TLC

\* A sell larger than the small buy and smaller than the large one: sells and
\* buys are split, and two sells meet one buy.
MCAmounts == {-2, 1, 3}
TwoAmounts == {-2, 3}
MCLimits == {1, 2}
OneLimit == {2}
MCSymmetry == Permutations(Accounts)
=============================================================================
