-------------------------- MODULE MCExchangeServer --------------------------
EXTENDS ExchangeServer, TLC

\* For safety only: the run with a liveness property does without.
MCSymmetry == Permutations(Clients)
=============================================================================
