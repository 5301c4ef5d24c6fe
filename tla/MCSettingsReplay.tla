--------------------------- MODULE MCSettingsReplay ---------------------------
EXTENDS SettingsReplay, FiniteSetsExt, TLC

CONSTANTS auth, booktags

MCCubes == {auth, booktags, Settings, Bookmarks}
MCParent == [x \in MCCubes |-> IF x = auth THEN auth ELSE booktags]
(* Some sets take the same room in the file, others more or less.          *)
MCSize ==
  [set \in SUBSET MCCubes |-> MapThenSumSet(LAMBDA x : IF x = booktags THEN 1 ELSE 2, set)]

(* Bookmarks may be removed from disk and put back.                        *)
MCMounts == {MCCubes, MCCubes \ {Bookmarks}}

MCSymmetry == Permutations(Calls)
=============================================================================
