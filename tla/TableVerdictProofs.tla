--------------------------- MODULE TableVerdictProofs ---------------------------
(***************************************************************************)
(* The table verifier implements its contract (TableVerifierAbstract): for *)
(* every catalog and every pool size, main ends with exactly the verdict   *)
(* the first partition that fails a check calls for.  The proof rests on  *)
(* the invariants IInv and VInv of TableVerifierProofs and on one more:   *)
(* past its first step main is looking at a table that exists.            *)
(***************************************************************************)
EXTENDS TableVerifierProofs

\* main gets past its first check only for a table that exists.
TableExists == pc \notin {"start", "exit"} => catalog.exists

\* No step of the verifier changes the catalog.
LEMMA CatalogKept ==
  ASSUME [Next]_vars
  PROVE  catalog' = catalog
BY DEF Next, vars, Start, CheckMetadata, List, Submit, EndSubmit, Take, Verify,
       Report, Advance

LEMMA NextTableExists ==
  ASSUME TypeOK, TableExists, [Next]_vars
  PROVE  TableExists'
<1>1. catalog' = catalog
  BY CatalogKept
<1>2. CASE Start
  BY <1>1, <1>2 DEF Start, TableExists
<1>3. CASE CheckMetadata \/ List \/ Submit \/ EndSubmit \/ Report \/ UNCHANGED vars
  BY <1>1, <1>3 DEF CheckMetadata, List, Submit, EndSubmit, Report, Advance, vars,
                    TableExists
<1>4. CASE Take
  BY <1>1, <1>4 DEF Take, TableExists
<1>5. CASE \E t \in running : Verify(t)
  <2>1. PICK t \in running : Verify(t)
    BY <1>5
  <2>2. t[2].kind \in {"alpha", "orc", "bad"}
    BY <2>1 DEF TypeOK, FileRec
  <2>3. pc' = pc \/ pc' = "exit"
    BY <2>1, <2>2 DEF Verify
  <2>. QED
    BY <1>1, <2>3 DEF TableExists
<1>. QED
  BY <1>2, <1>3, <1>4, <1>5 DEF Next

\* The two readings of a partition the verifier accepts agree.
LEMMA GoodAgrees ==
  ASSUME NEW p \in PartitionRec
  PROVE  Good(p) <=> Abstract!Good(p)
<1>1. p.files \in Seq(FileRec)
  BY DEF PartitionRec
<1>2. (WrongFiles(p) = {} /\ BadFiles(p) = {})
        <=> Abstract!VisibleKinds(p) \cap {"bad", Abstract!OtherFormat(p)} = {}
  BY <1>1 DEF WrongFiles, BadFiles, Abstract!VisibleKinds, Abstract!OtherFormat
<1>. QED
  BY <1>2 DEF Good, Abstract!Good

\* When the partitions before main's are good and main's is not, main's is
\* the first bad partition.
LEMMA FirstBadIs ==
  ASSUME TypeOK, pc \notin {"start", "exit"},
         \A k \in 1..(part - 1) : Good(catalog.partitions[k]),
         ~Abstract!Good(Partition)
  PROVE  /\ ~\A k \in 1..Len(catalog.partitions) : Abstract!Good(catalog.partitions[k])
         /\ Abstract!FirstBad(catalog.partitions) = part
<1> DEFINE ps == catalog.partitions
<1>1. ps \in Seq(PartitionRec) /\ part \in 1..Len(ps)
  BY VerifierAssumption DEF TypeOK
<1>2. \A k \in 1..(part - 1) : Abstract!Good(ps[k])
  <2>1. \A k \in 1..(part - 1) : ps[k] \in PartitionRec
    BY <1>1
  <2>. QED
    BY <2>1, GoodAgrees
<1>3. \A k \in 1..Len(ps) :
        (~Abstract!Good(ps[k]) /\ \A j \in 1..(k - 1) : Abstract!Good(ps[j]))
          <=> k = part
  BY <1>1, <1>2 DEF Partition
<1>4. Abstract!FirstBad(ps) = part
  BY <1>1, <1>3, Zenon DEF Abstract!FirstBad
<1>. QED
  BY <1>1, <1>4 DEF Partition

\* The verdict the contract calls for while main is at a partition that
\* fails, all those before it being good.
LEMMA FailingVerdict ==
  ASSUME TypeOK, TableExists, pc \notin {"start", "exit"},
         \A k \in 1..(part - 1) : Good(catalog.partitions[k]),
         ~Abstract!Good(Partition)
  PROVE  Abstract!Verdict(catalog) =
           IF ~Partition.metaOk THEN "badMeta"
           ELSE IF ~Partition.listOk THEN "listFailed"
           ELSE IF "bad" \in Abstract!VisibleKinds(Partition) THEN "fatal"
           ELSE "invalid"
<1>1. catalog.exists /\ catalog.partitions # <<>>
  <2>1. part \in 1..Len(catalog.partitions)
    BY DEF TypeOK
  <2>. QED
    BY <2>1 DEF TableExists
<1>2. /\ ~\A k \in 1..Len(catalog.partitions) : Abstract!Good(catalog.partitions[k])
      /\ Abstract!FirstBad(catalog.partitions) = part
  BY FirstBadIs
<1>. QED
  BY <1>1, <1>2, Zenon DEF Abstract!Verdict, Partition

\* After join no unreadable file is left: verifying one ends the process.
LEMMA JoinedNoBad ==
  ASSUME IInv, VInv, pc = "join", Joined
  PROVE  "bad" \notin Abstract!VisibleKinds(Partition)
<1>0. TypeOK /\ AtJoin /\ Witnessed
  BY DEF IInv, VInv
<1>1. ~PendingKind("bad")
  BY DEF Joined, PendingKind
<1>2. next - 1 = Len(Partition.files)
  BY <1>0 DEF AtJoin, Files
<1>. QED
  BY <1>0, <1>1, <1>2 DEF Witnessed, Files, Abstract!VisibleKinds


LEMMA InitRefines == Init => Abstract!Init /\ TableExists
BY DEF Init, Abstract!Init, TableExists

\* A partition holding a visible file of kind kd is not good when kd is
\* unreadable or of the other format.
LEMMA VisibleFails ==
  ASSUME NEW p, NEW kd \in {"bad", Abstract!OtherFormat(p)},
         kd \in Abstract!VisibleKinds(p)
  PROVE  ~Abstract!Good(p)
BY DEF Abstract!Good

\* A step of main that ends the process on a failing partition.
LEMMA CheckStep ==
  ASSUME IInv, VInv, TableExists, CheckMetadata \/ List, outcome' # outcome
  PROVE  Abstract!Decide
<1>0. TypeOK /\ ExitedOutcome /\ Passed
  BY DEF IInv, VInv
<1>1. pc \in {"meta", "list"} /\ outcome = "none" /\ catalog' = catalog
  BY <1>0 DEF CheckMetadata, List, ExitedOutcome
<1>2. \/ ~Partition.metaOk /\ outcome' = "badMeta"
      \/ Partition.metaOk /\ ~Partition.listOk /\ outcome' = "listFailed"
  <2>1. CASE CheckMetadata
    BY <2>1, <1>1 DEF CheckMetadata
  <2>2. CASE List
    <3>1. pc = "list" /\ Partition.metaOk
      BY <2>2, <1>0 DEF List, Passed
    <3>. QED
      BY <2>2, <3>1, <1>1 DEF List
  <2>. QED
    BY <2>1, <2>2
<1>3. ~Abstract!Good(Partition)
  BY <1>2 DEF Abstract!Good
<1>4. outcome' = Abstract!Verdict(catalog)
  BY <1>0, <1>1, <1>2, <1>3, FailingVerdict DEF Passed
<1>. QED
  BY <1>1, <1>4 DEF Abstract!Decide

\* A pool thread verifies a file it cannot read: LOG(FATAL).
LEMMA FatalStep ==
  ASSUME IInv, VInv, TableExists, \E t \in running : Verify(t), outcome' # outcome
  PROVE  Abstract!Decide
<1>0. TypeOK /\ ExitedOutcome /\ PoolIdle /\ Passed /\ Sourced
  BY DEF IInv, VInv
<1>1. PICK t \in running : Verify(t)
  OBVIOUS
<1>2. t[2].kind \in {"alpha", "orc", "bad"}
  BY <1>1, <1>0 DEF TypeOK, FileRec
<1>3. t[2].kind = "bad" /\ outcome = "none" /\ outcome' = "fatal" /\ catalog' = catalog
  BY <1>1, <1>2 DEF Verify
<1>4. pc \in {"submit", "join"}
  BY <1>0, <1>3 DEF ExitedOutcome, PoolIdle, TypeOK
<1>5. "bad" \in Abstract!VisibleKinds(Partition)
  <2>1. SeenKind("bad")
    BY <1>0, <1>3, <1>4 DEF Sourced
  <2>2. next \in 1..(Len(Files) + 1)
    BY <1>0, <1>4 DEF TypeOK
  <2>. QED
    BY <2>1, <2>2 DEF SeenKind, Files, Abstract!VisibleKinds
<1>6. ~Abstract!Good(Partition)
  BY <1>5, VisibleFails
<1>7. outcome' = Abstract!Verdict(catalog)
  BY <1>0, <1>3, <1>4, <1>5, <1>6, FailingVerdict DEF Passed
<1>. QED
  BY <1>3, <1>7 DEF Abstract!Decide

\* main judges the partition after join and ends: the counts agree, so it
\* ends invalid or, after the last partition, ok.
LEMMA ReportStep ==
  ASSUME IInv, VInv, TableExists, Report, outcome' # outcome
  PROVE  Abstract!Decide
<1>0. TypeOK /\ ExitedOutcome /\ Passed
  BY DEF IInv, VInv
<1>1. pc = "join" /\ Joined /\ outcome = "none" /\ catalog' = catalog
  BY <1>0 DEF Report, ExitedOutcome
<1>2. IInv' /\ VInv'
  BY NextIInv, NextVInv DEF Next
<1>3. outcome' \in {"invalid", "ok"} /\ part' = part
  <2>1. outcome' # "mismatch"
    BY <1>2 DEF IInv, CountsAgree
  <2>. QED
    BY <2>1, <1>1 DEF Report, Advance
<1>4. part \in 1..Len(catalog.partitions) /\ catalog.exists
  BY <1>0, <1>1 DEF TypeOK, TableExists
<1>5. CASE outcome' = "ok"
  <2>1. \A k \in 1..Len(catalog.partitions) : Good(catalog.partitions[k])
    BY <1>5, <1>2, <1>1 DEF VInv, VerdictSound, Good
  <2>2. \A k \in 1..Len(catalog.partitions) : Abstract!Good(catalog.partitions[k])
    <3>1. catalog.partitions \in Seq(PartitionRec)
      BY <1>0, VerifierAssumption DEF TypeOK
    <3>. QED
      BY <2>1, <3>1, GoodAgrees
  <2>3. outcome' = Abstract!Verdict(catalog)
    BY <1>5, <1>4, <2>2 DEF Abstract!Verdict
  <2>. QED
    BY <2>3, <1>1 DEF Abstract!Decide
<1>6. CASE outcome' = "invalid"
  <2>1. WrongFiles(Partition) # {}
    BY <1>6, <1>2, <1>3, <1>1 DEF VInv, VerdictSound, Partition
  <2>2. Abstract!OtherFormat(Partition) \in Abstract!VisibleKinds(Partition)
    BY <2>1 DEF WrongFiles, Abstract!OtherFormat, Abstract!VisibleKinds
  <2>3. ~Abstract!Good(Partition)
    BY <2>2, VisibleFails
  <2>4. "bad" \notin Abstract!VisibleKinds(Partition)
    BY <1>1, JoinedNoBad
  <2>5. Partition.metaOk /\ Partition.listOk
    BY <1>0, <1>1 DEF Passed
  <2>6. outcome' = Abstract!Verdict(catalog)
    BY <1>0, <1>1, <1>6, <2>3, <2>4, <2>5, FailingVerdict DEF Passed
  <2>. QED
    BY <2>6, <1>1 DEF Abstract!Decide
<1>. QED
  BY <1>3, <1>5, <1>6

\* Every step of the verifier is a step of its contract or leaves the
\* catalog and the verdict alone.
LEMMA NextRefines ==
  ASSUME IInv, VInv, TableExists, [Next]_vars
  PROVE  [Abstract!Decide]_Abstract!vars
<1>0. TypeOK /\ ExitedOutcome
  BY DEF IInv
<1>1. catalog' = catalog
  BY CatalogKept
<1>2. CASE outcome' = outcome
  BY <1>1, <1>2 DEF Abstract!vars
<1>3. CASE outcome' # outcome
  <2>1. CASE Start
    <3>1. outcome = "none"
      BY <2>1, <1>0 DEF Start, ExitedOutcome
    <3>2. outcome' = Abstract!Verdict(catalog)
      BY <2>1, <1>3, <3>1 DEF Start, Abstract!Verdict
    <3>. QED
      BY <3>1, <3>2, <1>1 DEF Abstract!Decide
  <2>2. CASE CheckMetadata \/ List
    BY <2>2, <1>3, CheckStep
  <2>3. CASE \E t \in running : Verify(t)
    BY <2>3, <1>3, FatalStep
  <2>4. CASE Report
    BY <2>4, <1>3, ReportStep
  <2>5. CASE Submit \/ EndSubmit \/ Take \/ UNCHANGED vars
    BY <2>5, <1>3 DEF Submit, EndSubmit, Take, vars
  <2>. QED
    BY <2>1, <2>2, <2>3, <2>4, <2>5 DEF Next
<1>. QED
  BY <1>2, <1>3 DEF Abstract!Decide

\* TableVerifier.cpp decides exactly what its contract says, for every
\* catalog and every pool size: main (lines 88-267) ends once, and with
\* noTable, noPartitions, or, for the first partition in catalog order
\* that fails a check, badMeta, listFailed, fatal (a pool thread's
\* LOG(FATAL) on an unreadable visible file) or invalid (a visible file of
\* the other format), and ok when none fails; whatever order the pool's
\* threads verify the files in, no other step decides anything.
THEOREM VerdictRefinement == Spec => ImplementsVerdict
<1>1. Init => IInv /\ VInv /\ TableExists /\ Abstract!Init
  BY InitIInv, InitVInv, InitRefines
<1>2. IInv /\ VInv /\ TableExists /\ [Next]_vars => IInv' /\ VInv' /\ TableExists'
  BY NextIInv, NextVInv, NextTableExists DEF IInv
<1>3. IInv /\ VInv /\ TableExists /\ [Next]_vars => [Abstract!Decide]_Abstract!vars
  BY NextRefines
<1>. QED
  BY <1>1, <1>2, <1>3, PTL DEF Spec, ImplementsVerdict, Abstract!Spec

=============================================================================
