---------------------------- MODULE MCVisibility -----------------------------
EXTENDS Visibility, TLC

(* Grants to read and take over, and to change without reading.            *)
MCOffers == {{"read", "transfer"}, {"edit", "delete"}}

MCSymmetry == Permutations(Users) \cup Permutations(Entities)
=============================================================================
