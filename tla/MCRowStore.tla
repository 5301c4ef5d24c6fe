----------------------------- MODULE MCRowStore -----------------------------
(***************************************************************************)
(* RowStore for TLC.  Every request runs once, so the number of requests   *)
(* bounds versions and ids.                                                *)
(***************************************************************************)
EXTENDS RowStoreJournal, TLC

(* Requests differ only in what they do; not for the run with liveness.    *)
Requests == Permutations(Txs)
=============================================================================
