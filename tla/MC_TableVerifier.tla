-------------------------- MODULE MC_TableVerifier --------------------------
(* The table verifier on a handful of catalogs: two partitions of either    *)
(* format with a dot file of the other format, an Alpha partition holding   *)
(* an ORC file, a file that cannot be read, and every early exit of main.  *)
EXTENDS TableVerifier

F(h, k) == [hidden |-> h, kind |-> k]
P(a, m, l, fs) == [alpha |-> a, metaOk |-> m, listOk |-> l, files |-> fs]
C(e, ps) == [exists |-> e, partitions |-> ps]

MCCatalogs ==
  { C(TRUE, << P(TRUE, TRUE, TRUE, <<F(FALSE, "alpha"), F(TRUE, "orc"), F(FALSE, "alpha")>>),
               P(FALSE, TRUE, TRUE, <<F(FALSE, "orc"), F(TRUE, "alpha"), F(FALSE, "orc")>>) >>),
    C(TRUE, << P(TRUE, TRUE, TRUE, <<F(FALSE, "alpha"), F(FALSE, "orc"), F(FALSE, "alpha")>>) >>),
    C(TRUE, << P(FALSE, TRUE, TRUE, <<F(FALSE, "orc"), F(FALSE, "bad"), F(FALSE, "orc")>>) >>),
    C(TRUE, << P(TRUE, TRUE, TRUE, <<F(FALSE, "alpha")>>), P(TRUE, FALSE, TRUE, <<>>) >>),
    C(TRUE, << P(FALSE, TRUE, FALSE, <<>>) >>),
    C(TRUE, <<>>),
    C(FALSE, <<>>) }
=============================================================================
