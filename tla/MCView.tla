------------------------------- MODULE MCView -------------------------------
EXTENDS View, TLC

\* Any seat may be the host's or the viewer's, so identities are interchangeable.
Symmetry == Permutations(PlayerID)

\* Both players of a match of two may be away; in a match of three nobody is.
Away == <<1, 2, 0>>
=============================================================================
