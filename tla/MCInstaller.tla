----------------------------- MODULE MCInstaller -----------------------------
EXTENDS Installer, TLC

CONSTANTS p1, p2, ca, cb, v1, v2

(* p1 shares a cube with p2 and has two good versions; the second of the   *)
(* others breaks the contract.  The others share nothing.                  *)
MCCubesOf ==
  [p \in Packages |->
     IF p = p1 THEN (v1 :> {ca, cb}) @@ (v2 :> {ca})
     ELSE IF p = p2 THEN [v \in Versions |-> {cb}]
     ELSE [v \in Versions |-> Cubes \ {ca, cb}]]

MCSound == (Packages \X Versions) \ {<<p, v2>> : p \in Packages \ {p1}}

Symmetry == Permutations(Calls)
==============================================================================
