----------------------------- MODULE MCHashStore -----------------------------
(***************************************************************************)
(* HashStore with two messages from peers and one made locally: one line    *)
(* can be freed, taken by another message and asked for again.              *)
(***************************************************************************)
EXTENDS HashStore, TLC

CONSTANTS h1, h2, h3

MCReceived == {h1, h2}
MCHashes == {h1, h2, h3}

\* No definition tells the received hashes apart.
HashSymmetry == Permutations(MCReceived)
=============================================================================
