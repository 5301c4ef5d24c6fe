--------------------------- MODULE MCStagingImport ---------------------------
(***************************************************************************)
(* StagingImport for TLC.  Every request runs once, so their number and    *)
(* the lines of a chunk bound the rows.                                    *)
(***************************************************************************)
EXTENDS StagingImport, TLC

(* Requests other than the first chunk differ only in what they do.        *)
SymCalls == Permutations(Calls \ {Head})
=============================================================================
