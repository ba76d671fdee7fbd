------------------------------ MODULE MCRefCount ------------------------------
(***************************************************************************)
(* RefCount with three threads, two of them with a reference at the start,  *)
(* two holders weakDelete() closes and one it does not: a thread comes back *)
(* through a holder while another is in weakDelete().                       *)
(***************************************************************************)
EXTENDS RefCount

CONSTANTS t1, t2, t3, w1, w2, w3

MCThreads == {t1, t2, t3}
MCOwners == {t1, t2}
MCHolders == {w1, w2, w3}
MCClosed == {w1, w2}
=============================================================================
