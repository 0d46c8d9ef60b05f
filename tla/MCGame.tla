------------------------------- MODULE MCGame -------------------------------
EXTENDS Game, TLC

\* Any seat may be the host's, so identities are interchangeable.
Symmetry == Permutations(PlayerID)
=============================================================================
