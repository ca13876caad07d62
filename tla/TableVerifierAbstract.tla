------------------------ MODULE TableVerifierAbstract ------------------------
(***************************************************************************)
(* What the table verifier (src/dwio/alpha/tools/TableVerifier.cpp)        *)
(* promises, without threads: it reads the catalog and ends, once, with    *)
(* the verdict the catalog calls for.  The partitions are judged in        *)
(* catalog order and the first that is not good decides: metadata that     *)
(* disagree, a listing that fails, a visible file that cannot be read      *)
(* (LOG(FATAL) in a pool thread), or a visible file of the other format.   *)
(* TableVerifier refines this specification: all its steps but the one     *)
(* that ends main or aborts the process are stutters here.                 *)
(***************************************************************************)
EXTENDS Naturals, Sequences

CONSTANT Catalogs

VARIABLES catalog, outcome

vars == <<catalog, outcome>>

\* The kinds of a partition's files that do not start with "." (line 177).
VisibleKinds(p) ==
  {p.files[k].kind : k \in {k \in 1..Len(p.files) : ~p.files[k].hidden}}

\* The format printResult counts against (line 264).
OtherFormat(p) == IF p.alpha THEN "orc" ELSE "alpha"

\* A partition passes every check of the partition loop (lines 116-267).
Good(p) ==
  /\ p.metaOk
  /\ p.listOk
  /\ VisibleKinds(p) \cap {"bad", OtherFormat(p)} = {}

\* The first partition that is not good.
FirstBad(ps) ==
  CHOOSE k \in 1..Len(ps) : ~Good(ps[k]) /\ \A j \in 1..(k - 1) : Good(ps[j])

\* How main ends on catalog c, by the order of its checks.
Verdict(c) ==
  IF ~c.exists THEN "noTable"
  ELSE IF c.partitions = <<>> THEN "noPartitions"
  ELSE IF \A k \in 1..Len(c.partitions) : Good(c.partitions[k]) THEN "ok"
  ELSE LET p == c.partitions[FirstBad(c.partitions)]
       IN IF ~p.metaOk THEN "badMeta"
          ELSE IF ~p.listOk THEN "listFailed"
          ELSE IF "bad" \in VisibleKinds(p) THEN "fatal"
          ELSE "invalid"

Init ==
  /\ catalog \in Catalogs
  /\ outcome = "none"

\* The verifier ends with its verdict.
Decide ==
  /\ outcome = "none"
  /\ outcome' = Verdict(catalog)
  /\ UNCHANGED catalog

Spec == Init /\ [][Decide]_vars

=============================================================================
