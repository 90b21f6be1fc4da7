----------------------------- MODULE MCScimListing -----------------------------
(***************************************************************************)
(* Numbers and symmetry for the run of ScimListing.                        *)
(***************************************************************************)
EXTENDS ScimListing, TLC

PageNumbers == {NaN, Fraction} \cup -1..2
FewNumbers  == {NaN, 0, 2}

Interchangeable == Permutations(Rows)
===============================================================================
