-------------------------- MODULE TableVerifierProofs --------------------------
(***************************************************************************)
(* Proofs about the table verifier, for every catalog and every pool size. *)
(***************************************************************************)
EXTENDS TableVerifier, FiniteSetTheorems, SequenceTheorems, TLAPS

\* main has exited exactly when it has an outcome.
ExitedOutcome == (pc = "exit") = (outcome # "none")

\* Outside the submit loop and join no task is queued or running.
PoolIdle == pc \in {"start", "meta", "list"} => queue = <<>> /\ running = {}

\* Take numbers the files in the order they leave the queue: the running
\* tasks carry numbers of files already taken.
Numbered ==
  /\ IsFiniteSet(running)
  /\ \A r \in running : r[1] \in 1..(processed - Len(queue))

\* Every file added to the executor is queued, running, or counted.
Accounted ==
  pc \in {"submit", "join"} =>
    processed = alphaCount + otherCount + Len(queue) + Cardinality(running)

\* main starts at the first partition.
AtStart == pc = "start" => part = 1

IInv == TypeOK /\ AtStart /\ ExitedOutcome /\ PoolIdle /\ Numbered /\ Accounted
        /\ CountsAgree


\* The partition main is at, and its listing, are well formed.
LEMMA PartitionTyped ==
  ASSUME TypeOK, pc \notin {"start", "exit"}
  PROVE  /\ Partition \in PartitionRec
         /\ Files \in Seq(FileRec)
<1>1. catalog.partitions \in Seq(PartitionRec) /\ part \in 1..Len(catalog.partitions)
  BY VerifierAssumption DEF TypeOK
<1>2. Partition \in PartitionRec
  BY <1>1 DEF Partition
<1>3. Files \in Seq(FileRec)
  BY <1>2, Zenon DEF Files, PartitionRec
<1>. QED
  BY <1>2, <1>3

LEMMA InitIInv == Init => IInv
<1> SUFFICES ASSUME Init PROVE IInv
  OBVIOUS
<1>1. TypeOK
  <2>1. queue \in Seq(FileRec) /\ running \subseteq (Nat \X FileRec)
    BY DEF Init
  <2>. QED
    BY <2>1 DEF Init, TypeOK
<1>2. Numbered
  BY FS_EmptySet DEF Init, Numbered
<1>. QED
  BY <1>1, <1>2 DEF Init, IInv, AtStart, ExitedOutcome, PoolIdle, Accounted, CountsAgree

\* Steps of main before the submit loop: they leave the pool and the
\* counters alone, or reset the counters of an idle pool.
LEMMA MainStartIInv ==
  ASSUME IInv, Start \/ CheckMetadata \/ EndSubmit
  PROVE  IInv'
<1>0. TypeOK /\ AtStart /\ ExitedOutcome /\ PoolIdle /\ Numbered /\ Accounted
     /\ CountsAgree
  BY DEF IInv
<1>1. CASE Start
  <2>1. catalog.partitions \in Seq(PartitionRec) /\ part = 1
    BY <1>1, <1>0, VerifierAssumption DEF TypeOK, Start, AtStart
  <2>2. catalog.partitions # <<>> => part \in 1..Len(catalog.partitions)
    BY <2>1
  <2>3. TypeOK'
    BY <1>1, <1>0, <2>2 DEF Start, TypeOK
  <2>. QED
    BY <1>1, <1>0, <2>3 DEF Start, IInv, AtStart, ExitedOutcome, PoolIdle, Numbered,
                              Accounted, CountsAgree
<1>2. CASE CheckMetadata
  <2>1. TypeOK'
    BY <1>2, <1>0 DEF CheckMetadata, TypeOK, Files, Partition
  <2>. QED
    BY <1>2, <1>0, <2>1 DEF CheckMetadata, IInv, AtStart, ExitedOutcome, PoolIdle,
                              Numbered, Accounted, CountsAgree
<1>3. CASE EndSubmit
  <2>1. TypeOK'
    BY <1>3, <1>0 DEF EndSubmit, TypeOK, Files, Partition
  <2>. QED
    BY <1>3, <1>0, <2>1 DEF EndSubmit, IInv, AtStart, ExitedOutcome, PoolIdle,
                              Numbered, Accounted, CountsAgree
<1>. QED
  BY <1>1, <1>2, <1>3

LEMMA ListIInv ==
  ASSUME IInv, List
  PROVE  IInv'
<1>0. TypeOK /\ AtStart /\ ExitedOutcome /\ PoolIdle /\ Numbered /\ Accounted
     /\ CountsAgree
  BY DEF IInv
<1>1. queue = <<>> /\ running = {} /\ Files \in Seq(FileRec)
  BY <1>0, PartitionTyped DEF List, PoolIdle
<1>2. CASE Partition.listOk
  <2>1. TypeOK'
    BY <1>2, <1>1, <1>0 DEF List, TypeOK, Files, Partition
  <2>2. Numbered' /\ Accounted'
    BY <1>2, <1>1, FS_EmptySet DEF List, Numbered, Accounted
  <2>. QED
    BY <1>2, <2>1, <2>2, <1>1 DEF List, IInv, AtStart, ExitedOutcome, PoolIdle, CountsAgree
<1>3. CASE ~Partition.listOk
  BY <1>3, <1>1, <1>0 DEF List, IInv, AtStart, TypeOK, ExitedOutcome, PoolIdle, Numbered,
                          Accounted, CountsAgree
<1>. QED
  BY <1>2, <1>3


LEMMA SubmitIInv ==
  ASSUME IInv, Submit
  PROVE  IInv'
<1>0. TypeOK /\ AtStart /\ ExitedOutcome /\ PoolIdle /\ Numbered /\ Accounted
     /\ CountsAgree
  BY DEF IInv
<1>1. Files \in Seq(FileRec) /\ next \in 1..Len(Files) /\ Files[next] \in FileRec
  <2>1. pc = "submit" /\ next <= Len(Files)
    BY DEF Submit
  <2>2. Files \in Seq(FileRec)
    BY <2>1, <1>0, PartitionTyped
  <2>3. next \in 1..Len(Files)
    BY <2>1, <2>2, <1>0 DEF TypeOK
  <2>. QED
    BY <2>2, <2>3
<1>2. CASE Visible(Files[next])
  <2>1. /\ queue' = Append(queue, Files[next]) /\ processed' = processed + 1
        /\ Len(queue') = Len(queue) + 1 /\ queue' \in Seq(FileRec)
    <3>1. queue' = Append(queue, Files[next]) /\ processed' = processed + 1
      BY <1>2 DEF Submit
    <3>2. queue \in Seq(FileRec)
      BY <1>0 DEF TypeOK
    <3>. QED
      BY <3>1, <3>2, <1>1, AppendProperties
  <2>2. TypeOK'
    BY <2>1, <1>1, <1>0 DEF Submit, TypeOK, Files, Partition
  <2>3. Numbered' /\ Accounted'
    <3>1. UNCHANGED <<running, pc, alphaCount, otherCount>>
      BY DEF Submit
    <3>2. processed' - Len(queue') = processed - Len(queue)
      BY <2>1, <1>0 DEF TypeOK
    <3>3. Numbered'
      BY <3>1, <3>2, <1>0 DEF Numbered
    <3>4. Accounted'
      <4>1. pc = "submit" /\ Cardinality(running) \in Nat
        BY <1>0, FS_CardinalityType DEF Submit, Numbered
      <4>2. processed = alphaCount + otherCount + Len(queue) + Cardinality(running)
        BY <4>1, <1>0 DEF Accounted
      <4>. QED
        BY <4>1, <4>2, <3>1, <2>1, <1>0 DEF Accounted, TypeOK
    <3>. QED
      BY <3>3, <3>4
  <2>. QED
    BY <2>2, <2>3, <1>0 DEF Submit, IInv, AtStart, ExitedOutcome, PoolIdle, CountsAgree
<1>3. CASE ~Visible(Files[next])
  <2>1. TypeOK'
    BY <1>3, <1>1, <1>0 DEF Submit, TypeOK, Files, Partition
  <2>. QED
    BY <2>1, <1>3, <1>0 DEF Submit, IInv, AtStart, ExitedOutcome, PoolIdle,
                              Numbered, Accounted, CountsAgree
<1>. QED
  BY <1>2, <1>3

LEMMA TakeIInv ==
  ASSUME IInv, Take
  PROVE  IInv'
<1>0. TypeOK /\ AtStart /\ ExitedOutcome /\ PoolIdle /\ Numbered /\ Accounted
     /\ CountsAgree
  BY DEF IInv
<1>1. pc \in {"submit", "join"}
  BY <1>0 DEF Take, TypeOK, ExitedOutcome, PoolIdle
<1> DEFINE r == <<processed - Len(queue) + 1, Head(queue)>>
<1>2. /\ Len(queue) \in Nat \ {0} /\ Head(queue) \in FileRec
      /\ Tail(queue) \in Seq(FileRec) /\ Len(Tail(queue)) = Len(queue) - 1
  BY <1>0 DEF Take, TypeOK
<1>3. Cardinality(running) \in Nat /\ processed >= Len(queue)
  BY <1>0, <1>1, FS_CardinalityType DEF Numbered, Accounted, TypeOK
<1>4. r \notin running /\ r \in Nat \X FileRec
  BY <1>0, <1>2, <1>3 DEF Numbered, TypeOK, r
<1>5. IsFiniteSet(running') /\ Cardinality(running') = Cardinality(running) + 1
  BY <1>0, <1>4, FS_AddElement DEF Take, Numbered, r
<1>6. TypeOK'
  BY <1>0, <1>2, <1>4 DEF Take, TypeOK, Files, Partition, r
<1>7. Numbered'
  <2>0. running' = running \cup {r} /\ queue' = Tail(queue) /\ processed' = processed
    BY DEF Take, r
  <2>1. \A x \in running : x[1] \in 1..(processed - Len(queue) + 1)
    BY <1>0, <1>2, <1>3 DEF Numbered, TypeOK
  <2>2. r[1] \in 1..(processed - Len(queue) + 1)
    BY <1>2, <1>3, <1>0 DEF r, TypeOK
  <2>3. processed' - Len(queue') = processed - Len(queue) + 1
    BY <2>0, <1>2, <1>3, <1>0 DEF TypeOK
  <2>. QED
    BY <2>0, <2>1, <2>2, <2>3, <1>5 DEF Numbered
<1>8. Accounted'
  <2>1. /\ UNCHANGED <<pc, alphaCount, otherCount, processed>>
        /\ queue' = Tail(queue)
    BY DEF Take
  <2>. QED
    BY <2>1, <1>0, <1>1, <1>2, <1>3, <1>5 DEF Accounted, TypeOK
<1>. QED
  BY <1>6, <1>7, <1>8, <1>1, <1>0 DEF Take, IInv, AtStart, ExitedOutcome, PoolIdle, CountsAgree

LEMMA VerifyIInv ==
  ASSUME IInv, NEW t \in running, Verify(t)
  PROVE  IInv'
<1>0. TypeOK /\ AtStart /\ ExitedOutcome /\ PoolIdle /\ Numbered /\ Accounted
     /\ CountsAgree
  BY DEF IInv
<1>1. pc \in {"submit", "join"} /\ t[2] \in FileRec
  BY <1>0 DEF Verify, TypeOK, ExitedOutcome, PoolIdle
<1>2. IsFiniteSet(running') /\ Cardinality(running') = Cardinality(running) - 1
      /\ Cardinality(running) \in Nat
  BY <1>0, FS_RemoveElement, FS_CardinalityType DEF Verify, Numbered
<1>3. Numbered'
  BY <1>0, <1>2 DEF Verify, Numbered
<1>4. CASE t[2].kind = "bad"
  <2>1. pc' = "exit" /\ outcome' = "fatal"
        /\ UNCHANGED <<catalog, part, next, queue, alphaCount, otherCount, processed>>
    BY <1>4 DEF Verify
  <2>2. TypeOK'
    BY <2>1, <1>0 DEF Verify, TypeOK
  <2>. QED
    BY <2>1, <2>2, <1>3, <1>0 DEF IInv, AtStart, ExitedOutcome, PoolIdle, Accounted, CountsAgree
<1>5. CASE t[2].kind = "alpha"
  <2>1. alphaCount' = alphaCount + 1 /\ pc' = pc /\ outcome' = outcome
        /\ UNCHANGED <<catalog, part, next, queue, otherCount, processed>>
    BY <1>5 DEF Verify
  <2>2. TypeOK'
    BY <2>1, <1>0 DEF Verify, TypeOK, Files, Partition
  <2>3. Accounted'
    BY <2>1, <1>0, <1>1, <1>2 DEF Accounted, TypeOK
  <2>. QED
    BY <2>1, <2>2, <2>3, <1>3, <1>1, <1>0 DEF IInv, AtStart, ExitedOutcome, PoolIdle,
                                              CountsAgree
<1>6. CASE t[2].kind = "orc"
  <2>1. otherCount' = otherCount + 1 /\ pc' = pc /\ outcome' = outcome
        /\ UNCHANGED <<catalog, part, next, queue, alphaCount, processed>>
    BY <1>6 DEF Verify
  <2>2. TypeOK'
    BY <2>1, <1>0 DEF Verify, TypeOK, Files, Partition
  <2>3. Accounted'
    BY <2>1, <1>0, <1>1, <1>2 DEF Accounted, TypeOK
  <2>. QED
    BY <2>1, <2>2, <2>3, <1>3, <1>1, <1>0 DEF IInv, AtStart, ExitedOutcome, PoolIdle,
                                              CountsAgree
<1>. QED
  BY <1>1, <1>4, <1>5, <1>6 DEF FileRec


\* Report follows join: with the queue drained and no task running, every
\* file added has been counted, so the mismatch arm cannot be taken.
LEMMA ReportIInv ==
  ASSUME IInv, Report
  PROVE  IInv'
<1>0. TypeOK /\ AtStart /\ ExitedOutcome /\ PoolIdle /\ Numbered /\ Accounted
     /\ CountsAgree
  BY DEF IInv
<1>1. pc = "join" /\ queue = <<>> /\ running = {} /\ outcome = "none"
  BY <1>0 DEF Report, Joined, ExitedOutcome
<1>2. processed = alphaCount + otherCount
  <2>1. Cardinality(running) = 0 /\ Len(queue) = 0
    BY <1>1, FS_EmptySet
  <2>. QED
    BY <1>0, <1>1, <2>1 DEF Accounted, TypeOK
<1>3. /\ UNCHANGED <<catalog, next, queue, running, alphaCount, otherCount, processed>>
      /\ \/ pc' = "exit" /\ outcome' \in {"invalid", "ok"} /\ part' = part
         \/ part # Len(catalog.partitions) /\ Advance
  BY <1>2 DEF Report
<1>4. part \in 1..Len(catalog.partitions)
  BY <1>0, <1>1 DEF TypeOK
<1>5. CASE pc' = "exit" /\ outcome' \in {"invalid", "ok"} /\ part' = part
  <2>1. TypeOK'
    BY <1>5, <1>3, <1>0 DEF TypeOK
  <2>. QED
    BY <2>1, <1>5, <1>3, <1>0 DEF IInv, AtStart, ExitedOutcome, PoolIdle, Numbered,
                                   Accounted, CountsAgree
<1>6. CASE part # Len(catalog.partitions) /\ Advance
  <2>1. pc' = "meta" /\ part' = part + 1 /\ outcome' = "none"
    BY <1>6, <1>1 DEF Advance
  <2>2. part' \in 1..Len(catalog.partitions')
    BY <2>1, <1>6, <1>4, <1>3
  <2>3. TypeOK'
    BY <2>1, <2>2, <1>3, <1>0 DEF TypeOK
  <2>. QED
    BY <2>1, <2>3, <1>3, <1>1, <1>0 DEF IInv, AtStart, ExitedOutcome, PoolIdle,
                                         Numbered, Accounted, CountsAgree
<1>. QED
  BY <1>3, <1>5, <1>6

\* Every step keeps the strengthened invariant.
LEMMA NextIInv ==
  ASSUME IInv, [Next]_vars
  PROVE  IInv'
<1>1. CASE Start \/ CheckMetadata \/ EndSubmit
  BY <1>1, MainStartIInv
<1>2. CASE List
  BY <1>2, ListIInv
<1>3. CASE Submit
  BY <1>3, SubmitIInv
<1>4. CASE Take
  BY <1>4, TakeIInv
<1>5. CASE \E t \in running : Verify(t)
  BY <1>5, VerifyIInv
<1>6. CASE Report
  BY <1>6, ReportIInv
<1>7. CASE UNCHANGED vars
  BY <1>7 DEF vars, IInv, TypeOK, Files, Partition, AtStart, ExitedOutcome, PoolIdle,
              Numbered, Accounted, CountsAgree
<1>. QED
  BY <1>1, <1>2, <1>3, <1>4, <1>5, <1>6, <1>7 DEF Next

\* The file-count mismatch of TableVerifier.cpp line 235 is never reported,
\* for every catalog and every pool size: executor->join() waits for every
\* task added, and each task counts its file once, so after join the number
\* of files added equals the Alpha files plus the others.
THEOREM CountsAgreeHolds == Spec => []CountsAgree
<1>1. Init => IInv
  BY InitIInv
<1>2. IInv /\ [Next]_vars => IInv'
  BY NextIInv
<1>3. IInv => CountsAgree
  BY DEF IInv
<1>. QED
  BY <1>1, <1>2, <1>3, PTL DEF Spec


-----------------------------------------------------------------------------
(***************************************************************************)
(* The verdict.  The counters say which kinds of file were verified; the   *)
(* invariant below relates them to the files of the listing main has gone *)
(* past, with the queue and the running tasks in between.                  *)
(***************************************************************************)

\* A partition the verifier may accept.
Good(p) == p.metaOk /\ p.listOk /\ WrongFiles(p) = {} /\ BadFiles(p) = {}

\* main has submitted a visible file of kind kd of the current partition.
SeenKind(kd) == \E k \in 1..(next - 1) : ~Files[k].hidden /\ Files[k].kind = kd

\* A file of kind kd is queued or being verified.
PendingKind(kd) == \/ \E i \in 1..Len(queue) : queue[i].kind = kd
                   \/ \E r \in running : r[2].kind = kd

\* join is reached only after the whole listing was submitted.
AtJoin == pc = "join" => next = Len(Files) + 1

\* The partitions before the current one were accepted, and the current
\* one has passed the checks main has made on it.
Passed ==
  /\ \A k \in 1..(part - 1) : Good(catalog.partitions[k])
  /\ pc \in {"list", "submit", "join"} => Partition.metaOk
  /\ pc \in {"submit", "join"} => Partition.listOk

\* Every queued or running file, and every kind counted, comes from a
\* visible file main has submitted.
Sourced ==
  pc \in {"submit", "join"} =>
    /\ \A i \in 1..Len(queue) : SeenKind(queue[i].kind)
    /\ \A r \in running : SeenKind(r[2].kind)
    /\ alphaCount > 0 => SeenKind("alpha")
    /\ otherCount > 0 => SeenKind("orc")

\* Every visible file main has submitted is counted or still pending; a
\* file that cannot be read is always still pending (verifying it ends
\* the process).
Witnessed ==
  pc \in {"submit", "join"} =>
    \A k \in 1..(next - 1) : ~Files[k].hidden =>
      /\ Files[k].kind = "alpha" => alphaCount > 0 \/ PendingKind("alpha")
      /\ Files[k].kind = "orc" => otherCount > 0 \/ PendingKind("orc")
      /\ Files[k].kind = "bad" => PendingKind("bad")

VInv == AtJoin /\ Passed /\ Sourced /\ Witnessed /\ VerdictSound


LEMMA InitVInv == Init => VInv
BY DEF Init, VInv, AtJoin, Passed, Sourced, Witnessed, VerdictSound

\* Steps of main that do not touch the pool: they keep the partition, the
\* listing, the pool and the counters, and change pc and the outcome.
LEMMA MainStartVInv ==
  ASSUME IInv, VInv, Start \/ CheckMetadata \/ EndSubmit
  PROVE  VInv'
<1>0. TypeOK /\ AtStart /\ ExitedOutcome /\ AtJoin /\ Passed /\ Sourced /\ Witnessed
     /\ VerdictSound
  BY DEF IInv, VInv
<1>1. CASE Start
  <2>1. pc' \in {"exit", "meta"} /\ outcome' \in {"noTable", "noPartitions", "none"}
        /\ part' = part /\ part = 1
    BY <1>1, <1>0 DEF Start, AtStart
  <2>. QED
    BY <2>1 DEF VInv, AtJoin, Passed, Sourced, Witnessed, VerdictSound
<1>2. CASE CheckMetadata
  <2>1. UNCHANGED <<catalog, part, next, queue, running, alphaCount, otherCount>>
    BY <1>2 DEF CheckMetadata
  <2>2. \/ pc' = "list" /\ outcome' = "none" /\ Partition.metaOk
        \/ pc' = "exit" /\ outcome' = "badMeta"
    BY <1>2 DEF CheckMetadata
  <2>3. Partition' = Partition /\ Files' = Files
    BY <2>1 DEF Partition, Files
  <2>. QED
    BY <2>1, <2>2, <2>3, <1>0 DEF VInv, AtJoin, Passed, Sourced, Witnessed, VerdictSound
<1>3. CASE EndSubmit
  <2>1. UNCHANGED <<catalog, part, next, queue, running, alphaCount, otherCount, outcome>>
        /\ pc = "submit" /\ pc' = "join"
    BY <1>3 DEF EndSubmit
  <2>2. Partition' = Partition /\ Files' = Files
    BY <2>1 DEF Partition, Files
  <2>3. next = Len(Files) + 1
    BY <1>3, <2>1, <1>0 DEF EndSubmit, TypeOK
  <2>4. SeenKind("alpha")' = SeenKind("alpha") /\ SeenKind("orc")' = SeenKind("orc")
    BY <2>1, <2>2 DEF SeenKind
  <2>5. Sourced'
    BY <2>1, <2>2, <2>4, <1>0 DEF Sourced, SeenKind
  <2>6. Witnessed'
    BY <2>1, <2>2, <1>0 DEF Witnessed, PendingKind
  <2>. QED
    BY <2>1, <2>2, <2>3, <2>5, <2>6, <1>0 DEF VInv, AtJoin, Passed, VerdictSound
<1>. QED
  BY <1>1, <1>2, <1>3

\* List starts a partition's pool: idle, with counters at zero.
LEMMA ListVInv ==
  ASSUME IInv, VInv, List
  PROVE  VInv'
<1>0. TypeOK /\ PoolIdle /\ Passed
  BY DEF IInv, VInv
<1>1. queue = <<>> /\ running = {} /\ pc = "list"
      /\ UNCHANGED <<catalog, part, queue, running>>
  BY <1>0 DEF List, PoolIdle
<1>2. Partition' = Partition /\ Files' = Files
  BY <1>1 DEF Partition, Files
<1>3. CASE Partition.listOk
  <2>1. pc' = "submit" /\ outcome' = "none" /\ next' = 1
        /\ alphaCount' = 0 /\ otherCount' = 0
    BY <1>3 DEF List
  <2>. QED
    BY <2>1, <1>1, <1>2, <1>3, <1>0 DEF VInv, AtJoin, Passed, Sourced, Witnessed,
                                         VerdictSound
<1>4. CASE ~Partition.listOk
  <2>1. pc' = "exit" /\ outcome' = "listFailed"
    BY <1>4 DEF List
  <2>. QED
    BY <2>1, <1>1, <1>0 DEF VInv, AtJoin, Passed, Sourced, Witnessed, VerdictSound
<1>. QED
  BY <1>3, <1>4


\* What main has submitted only grows as the submit loop moves on.
LEMMA SeenGrows ==
  ASSUME NEW kd, SeenKind(kd), next \in Nat, next' = next + 1,
         catalog' = catalog, part' = part
  PROVE  SeenKind(kd)'
<1>1. 1..(next - 1) \subseteq 1..(next' - 1)
  OBVIOUS
<1>2. Files' = Files
  BY DEF Files, Partition
<1>. QED
  BY <1>1, <1>2, Zenon DEF SeenKind

\* One iteration of the submit loop: a visible file joins the queue.
LEMMA SubmitVInv ==
  ASSUME IInv, VInv, Submit
  PROVE  VInv'
<1>0. TypeOK /\ AtJoin /\ Passed /\ Sourced /\ Witnessed /\ VerdictSound
  BY DEF IInv, VInv
<1> DEFINE F == Files[next]
<1>1. /\ pc = "submit" /\ next \in 1..Len(Files) /\ F \in FileRec
      /\ next' = next + 1
      /\ UNCHANGED <<catalog, pc, part, running, alphaCount, otherCount, outcome>>
  <2>1. pc = "submit" /\ next <= Len(Files) /\ next' = next + 1
        /\ UNCHANGED <<catalog, pc, part, running, alphaCount, otherCount, outcome>>
    BY DEF Submit
  <2>2. Files \in Seq(FileRec) /\ next \in 1..Len(Files)
    BY <2>1, <1>0, PartitionTyped DEF TypeOK
  <2>. QED
    BY <2>1, <2>2
<1>2. Partition' = Partition /\ Files' = Files
  BY <1>1 DEF Partition, Files
<1>3. \A kd : SeenKind(kd) => SeenKind(kd)'
  BY <1>1, <1>0, SeenGrows
<1>4. AtJoin' /\ Passed' /\ VerdictSound'
  BY <1>0, <1>1, <1>2 DEF AtJoin, Passed, VerdictSound
<1>5. CASE Visible(F)
  <2>1. queue' = Append(queue, F) /\ queue \in Seq(FileRec)
    BY <1>5, <1>0 DEF Submit, TypeOK
  <2>2. /\ Len(queue') = Len(queue) + 1
        /\ \A i \in 1..Len(queue) : queue'[i] = queue[i]
        /\ queue'[Len(queue) + 1] = F
    BY <2>1, <1>1, AppendProperties
  <2>3. \A kd : kd = F.kind => SeenKind(kd)'
    <3>1. next \in 1..(next' - 1) /\ Files'[next] = F /\ ~F.hidden
      BY <1>1, <1>2, <1>5 DEF Visible
    <3>. QED
      BY <3>1 DEF SeenKind
  <2>4. \A kd : PendingKind(kd) => PendingKind(kd)'
    BY <2>2, <1>1 DEF PendingKind
  <2>5. \A kd : kd = F.kind => PendingKind(kd)'
    BY <2>2, <1>1 DEF PendingKind
  <2>6. Sourced'
    <3>1. \A i \in 1..Len(queue') : \A kd : kd = queue'[i].kind => SeenKind(kd)'
      <4> SUFFICES ASSUME NEW i \in 1..Len(queue'), NEW kd, kd = queue'[i].kind
                   PROVE  SeenKind(kd)'
        OBVIOUS
      <4>1. CASE i = Len(queue) + 1
        BY <4>1, <2>2, <2>3
      <4>2. CASE i \in 1..Len(queue)
        BY <4>2, <2>2, <1>3, <1>1, <1>0 DEF Sourced
      <4>. QED
        BY <4>1, <4>2, <2>2, <2>1
    <3>2. /\ \A r \in running' : \A kd : kd = r[2].kind => SeenKind(kd)'
          /\ alphaCount' > 0 => SeenKind("alpha")'
          /\ otherCount' > 0 => SeenKind("orc")'
      BY <1>3, <1>1, <1>0 DEF Sourced
    <3>. QED
      BY <3>1, <3>2, <1>1 DEF Sourced
  <2>7. Witnessed'
    <3> SUFFICES ASSUME NEW k \in 1..(next' - 1), ~Files'[k].hidden
                 PROVE  /\ Files'[k].kind = "alpha" => alphaCount' > 0 \/ PendingKind("alpha")'
                        /\ Files'[k].kind = "orc" => otherCount' > 0 \/ PendingKind("orc")'
                        /\ Files'[k].kind = "bad" => PendingKind("bad")'
      BY <1>1 DEF Witnessed
    <3>1. CASE k = next
      <4>1. Files'[k] = F
        BY <3>1, <1>2
      <4>. QED
        BY <4>1, <2>5
    <3>2. CASE k # next
      <4>1. k \in 1..(next - 1)
        BY <3>2, <1>1
      <4>. QED
        BY <4>1, <2>4, <1>2, <1>1, <1>0 DEF Witnessed
    <3>. QED
      BY <3>1, <3>2
  <2>. QED
    BY <1>4, <2>6, <2>7 DEF VInv
<1>6. CASE ~Visible(F)
  <2>1. queue' = queue
    BY <1>6 DEF Submit
  <2>2. Sourced'
    BY <2>1, <1>3, <1>1, <1>0 DEF Sourced, PendingKind
  <2>3. Witnessed'
    <3> SUFFICES ASSUME NEW k \in 1..(next' - 1), ~Files'[k].hidden
                 PROVE  /\ Files'[k].kind = "alpha" => alphaCount' > 0 \/ PendingKind("alpha")'
                        /\ Files'[k].kind = "orc" => otherCount' > 0 \/ PendingKind("orc")'
                        /\ Files'[k].kind = "bad" => PendingKind("bad")'
      BY <1>1 DEF Witnessed
    <3>1. k # next
      BY <1>6, <1>2 DEF Visible
    <3>2. k \in 1..(next - 1)
      BY <3>1, <1>1
    <3>. QED
      BY <3>2, <2>1, <1>2, <1>1, <1>0 DEF Witnessed, PendingKind
  <2>. QED
    BY <1>4, <2>2, <2>3 DEF VInv
<1>. QED
  BY <1>5, <1>6


\* A pool thread takes the head of the queue: the file moves from the queue
\* to the running tasks.
LEMMA TakeVInv ==
  ASSUME IInv, VInv, Take
  PROVE  VInv'
<1>0. TypeOK /\ AtJoin /\ Passed /\ Sourced /\ Witnessed /\ VerdictSound
  BY DEF IInv, VInv
<1>1. pc \in {"submit", "join"}
  BY DEF IInv, Take, TypeOK, ExitedOutcome, PoolIdle
<1> DEFINE r == <<processed - Len(queue) + 1, Head(queue)>>
<1>2. /\ queue \in Seq(FileRec) /\ queue # <<>>
      /\ queue' = Tail(queue) /\ running' = running \cup {r}
      /\ UNCHANGED <<catalog, pc, part, next, alphaCount, otherCount, outcome>>
  BY <1>0 DEF Take, TypeOK
<1>3. /\ Len(queue') = Len(queue) - 1
      /\ \A i \in 1..Len(queue') : queue'[i] = queue[i + 1]
      /\ r[2] = queue[1] /\ Len(queue) \in Nat \ {0}
  BY <1>2, HeadTailProperties
<1>4. Partition' = Partition /\ Files' = Files
  BY <1>2 DEF Partition, Files
<1>5. \A kd : SeenKind(kd)' = SeenKind(kd)
  BY <1>2, <1>4 DEF SeenKind
<1>6. AtJoin' /\ Passed' /\ VerdictSound'
  BY <1>0, <1>2, <1>4 DEF AtJoin, Passed, VerdictSound
<1>7. Sourced'
  <2>1. \A i \in 1..Len(queue') : \A kd : kd = queue'[i].kind => SeenKind(kd)'
    <3> SUFFICES ASSUME NEW i \in 1..Len(queue'), NEW kd, kd = queue'[i].kind
                 PROVE  SeenKind(kd)'
      OBVIOUS
    <3>1. i + 1 \in 1..Len(queue) /\ kd = queue[i + 1].kind
      BY <1>3
    <3>. QED
      BY <3>1, <1>5, <1>1, <1>0 DEF Sourced
  <2>2. \A x \in running' : \A kd : kd = x[2].kind => SeenKind(kd)'
    <3> SUFFICES ASSUME NEW x \in running', NEW kd, kd = x[2].kind
                 PROVE  SeenKind(kd)'
      OBVIOUS
    <3>1. CASE x = r
      <4>1. 1 \in 1..Len(queue) /\ kd = queue[1].kind
        BY <3>1, <1>3
      <4>. QED
        BY <4>1, <1>5, <1>1, <1>0 DEF Sourced
    <3>2. CASE x \in running
      BY <3>2, <1>5, <1>1, <1>0 DEF Sourced
    <3>. QED
      BY <3>1, <3>2, <1>2
  <2>3. /\ alphaCount' > 0 => SeenKind("alpha")'
        /\ otherCount' > 0 => SeenKind("orc")'
    BY <1>5, <1>2, <1>1, <1>0 DEF Sourced
  <2>. QED
    BY <2>1, <2>2, <2>3, <1>2, <1>1 DEF Sourced
<1>8. \A kd : PendingKind(kd) => PendingKind(kd)'
  <2> SUFFICES ASSUME NEW kd, PendingKind(kd) PROVE PendingKind(kd)'
    OBVIOUS
  <2>1. CASE \E x \in running : x[2].kind = kd
    BY <2>1, <1>2 DEF PendingKind
  <2>2. CASE queue[1].kind = kd
    <3>1. r \in running' /\ r[2].kind = kd
      BY <2>2, <1>2, <1>3
    <3>. QED
      BY <3>1 DEF PendingKind
  <2>3. CASE \E i \in 2..Len(queue) : queue[i].kind = kd
    <3>1. PICK i \in 2..Len(queue) : queue[i].kind = kd
      BY <2>3
    <3>2. i - 1 \in 1..Len(queue') /\ queue'[i - 1] = queue[i]
      BY <3>1, <1>3
    <3>. QED
      BY <3>1, <3>2 DEF PendingKind
  <2>. QED
    BY <2>1, <2>2, <2>3, <1>3 DEF PendingKind
<1>9. Witnessed'
  BY <1>8, <1>4, <1>2, <1>1, <1>0 DEF Witnessed
<1>. QED
  BY <1>6, <1>7, <1>9 DEF VInv


\* A task that ends verifying a file of kind kd leaves every other kind
\* pending as it was.
LEMMA PendingOther ==
  ASSUME NEW t, NEW kd, NEW ko, ko # kd, t[2].kind = kd, PendingKind(ko),
         queue' = queue, running' = running \ {t}
  PROVE  PendingKind(ko)'
BY DEF PendingKind

\* A pool thread verifies a file: one counter goes up, or the process ends.
LEMMA VerifyVInv ==
  ASSUME IInv, VInv, NEW t \in running, Verify(t)
  PROVE  VInv'
<1>0. TypeOK /\ AtJoin /\ Passed /\ Sourced /\ Witnessed /\ VerdictSound
  BY DEF IInv, VInv
<1>1. pc \in {"submit", "join"} /\ t[2] \in FileRec
  BY DEF IInv, Verify, TypeOK, ExitedOutcome, PoolIdle
<1>2. /\ running' = running \ {t}
      /\ UNCHANGED <<catalog, part, next, queue>>
  BY DEF Verify
<1>3. Partition' = Partition /\ Files' = Files
  BY <1>2 DEF Partition, Files
<1>4. \A kd : SeenKind(kd)' = SeenKind(kd)
  BY <1>2, <1>3 DEF SeenKind
<1>5. SeenKind(t[2].kind)
  BY <1>1, <1>0 DEF Sourced
<1>6. CASE t[2].kind = "bad"
  <2>1. pc' = "exit" /\ outcome' = "fatal"
    BY <1>6 DEF Verify
  <2>. QED
    BY <2>1, <1>2, <1>0 DEF VInv, AtJoin, Passed, Sourced, Witnessed, VerdictSound
<1>7. CASE t[2].kind = "alpha"
  <2>1. alphaCount' = alphaCount + 1 /\ UNCHANGED <<otherCount, pc, outcome>>
    BY <1>7 DEF Verify
  <2>2. AtJoin' /\ Passed' /\ VerdictSound'
    BY <2>1, <1>2, <1>3, <1>0 DEF AtJoin, Passed, VerdictSound
  <2>3. Sourced'
    BY <2>1, <1>2, <1>4, <1>5, <1>7, <1>1, <1>0 DEF Sourced
  <2>5. /\ PendingKind("orc") => PendingKind("orc")'
        /\ PendingKind("bad") => PendingKind("bad")'
    BY <1>7, <1>2, PendingOther
  <2>4. alphaCount' > 0
    BY <2>1, <1>0 DEF TypeOK
  <2>6. Witnessed'
    BY <2>1, <2>4, <2>5, <1>3, <1>2, <1>1, <1>0 DEF Witnessed
  <2>. QED
    BY <2>2, <2>3, <2>6 DEF VInv
<1>8. CASE t[2].kind = "orc"
  <2>1. otherCount' = otherCount + 1 /\ UNCHANGED <<alphaCount, pc, outcome>>
    BY <1>8 DEF Verify
  <2>2. AtJoin' /\ Passed' /\ VerdictSound'
    BY <2>1, <1>2, <1>3, <1>0 DEF AtJoin, Passed, VerdictSound
  <2>3. Sourced'
    BY <2>1, <1>2, <1>4, <1>5, <1>8, <1>1, <1>0 DEF Sourced
  <2>5. /\ PendingKind("alpha") => PendingKind("alpha")'
        /\ PendingKind("bad") => PendingKind("bad")'
    BY <1>8, <1>2, PendingOther
  <2>4. otherCount' > 0
    BY <2>1, <1>0 DEF TypeOK
  <2>6. Witnessed'
    BY <2>1, <2>4, <2>5, <1>3, <1>2, <1>1, <1>0 DEF Witnessed
  <2>. QED
    BY <2>2, <2>3, <2>6 DEF VInv
<1>. QED
  BY <1>1, <1>6, <1>7, <1>8 DEF FileRec


\* After join, with no file of the other format counted, the partition is
\* one the verifier may accept: every visible file was submitted and has
\* left the pool, so each was counted, and none was unreadable.
LEMMA JoinedGood ==
  ASSUME IInv, VInv, pc = "join", Joined, WrongCount = 0
  PROVE  Good(Partition)
<1>0. TypeOK /\ AtJoin /\ Passed /\ Witnessed
  BY DEF IInv, VInv
<1>1. ~PendingKind("alpha") /\ ~PendingKind("orc") /\ ~PendingKind("bad")
  BY DEF Joined, PendingKind
<1>2. next - 1 = Len(Partition.files) /\ Partition.metaOk /\ Partition.listOk
  BY <1>0 DEF AtJoin, Passed, Files
<1>3. \A k \in 1..Len(Partition.files) : ~Partition.files[k].hidden =>
        /\ Partition.files[k].kind = "alpha" => alphaCount > 0
        /\ Partition.files[k].kind = "orc" => otherCount > 0
        /\ Partition.files[k].kind # "bad"
  BY <1>0, <1>1, <1>2 DEF Witnessed, Files
<1>4. WrongFiles(Partition) = {}
  BY <1>3 DEF WrongFiles, WrongCount
<1>5. BadFiles(Partition) = {}
  BY <1>3 DEF BadFiles
<1>. QED
  BY <1>2, <1>4, <1>5 DEF Good

\* A counted file of the other format is a visible file of the listing.
LEMMA CountedWrong ==
  ASSUME IInv, VInv, pc = "join", WrongCount > 0
  PROVE  WrongFiles(Partition) # {}
<1>0. TypeOK /\ AtJoin /\ Sourced
  BY DEF IInv, VInv
<1>1. next - 1 = Len(Partition.files)
  BY <1>0 DEF AtJoin, Files
<1>2. SeenKind(IF Partition.alpha THEN "orc" ELSE "alpha")
  BY <1>0 DEF Sourced, WrongCount
<1>. QED
  BY <1>1, <1>2 DEF SeenKind, Files, WrongFiles

\* Report: the counts are complete, so the verdict follows WrongCount.
LEMMA ReportVInv ==
  ASSUME IInv, VInv, Report
  PROVE  VInv'
<1>0. TypeOK /\ Passed /\ VerdictSound
  BY DEF IInv, VInv
<1>1. pc = "join" /\ Joined
      /\ UNCHANGED <<catalog, next, queue, running, alphaCount, otherCount, processed>>
  BY DEF Report
<1>2. processed = alphaCount + otherCount
  <2>1. Cardinality(running) = 0 /\ Len(queue) = 0
    BY <1>1, FS_EmptySet DEF Joined
  <2>. QED
    BY <1>1, <2>1 DEF IInv, Accounted, TypeOK
<1>3. part \in 1..Len(catalog.partitions)
  BY <1>0, <1>1 DEF TypeOK
<1>4. CASE WrongCount > 0
  <2>1. pc' = "exit" /\ outcome' = "invalid" /\ part' = part
    BY <1>4, <1>2 DEF Report
  <2>2. Partition' = Partition
    BY <2>1, <1>1 DEF Partition
  <2>3. WrongFiles(Partition) # {}
    BY <1>4, <1>1, CountedWrong
  <2>. QED
    BY <2>1, <2>2, <2>3, <1>1, <1>0 DEF VInv, AtJoin, Passed, Sourced, Witnessed,
                                         VerdictSound, Good
<1>5. CASE WrongCount = 0
  <2>1. Good(Partition)
    BY <1>5, <1>1, JoinedGood
  <2>2. \A k \in 1..part : Good(catalog.partitions[k])
    BY <2>1, <1>3, <1>0 DEF Passed, Partition
  <2>3. CASE part = Len(catalog.partitions)
    <3>1. pc' = "exit" /\ outcome' = "ok" /\ part' = part
      BY <1>5, <2>3, <1>2 DEF Report
    <3>. QED
      BY <3>1, <2>2, <2>3, <1>1 DEF VInv, AtJoin, Passed, Sourced, Witnessed,
                                      VerdictSound, Good
  <2>4. CASE part # Len(catalog.partitions)
    <3>1. pc' = "meta" /\ outcome' = "none" /\ part' = part + 1
      BY <1>5, <2>4, <1>2, <1>0 DEF Report, Advance, IInv, ExitedOutcome
    <3>2. \A k \in 1..(part' - 1) : Good(catalog'.partitions[k])
      BY <3>1, <2>2, <1>3, <1>1
    <3>. QED
      BY <3>1, <3>2 DEF VInv, AtJoin, Passed, Sourced, Witnessed, VerdictSound
  <2>. QED
    BY <2>3, <2>4
<1>. QED
  BY <1>4, <1>5, <1>0 DEF WrongCount, TypeOK


LEMMA NextVInv ==
  ASSUME IInv, VInv, [Next]_vars
  PROVE  VInv'
<1>1. CASE Start \/ CheckMetadata \/ EndSubmit
  BY <1>1, MainStartVInv
<1>2. CASE List
  BY <1>2, ListVInv
<1>3. CASE Submit
  BY <1>3, SubmitVInv
<1>4. CASE Take
  BY <1>4, TakeVInv
<1>5. CASE \E t \in running : Verify(t)
  BY <1>5, VerifyVInv
<1>6. CASE Report
  BY <1>6, ReportVInv
<1>7. CASE UNCHANGED vars
  <2>1. /\ catalog' = catalog /\ pc' = pc /\ part' = part /\ next' = next
        /\ queue' = queue /\ running' = running /\ alphaCount' = alphaCount
        /\ otherCount' = otherCount /\ processed' = processed /\ outcome' = outcome
    BY <1>7 DEF vars
  <2>2. AtJoin /\ Passed /\ Sourced /\ Witnessed /\ VerdictSound
    BY DEF VInv
  <2>3. AtJoin'
    BY <2>1, <2>2 DEF AtJoin, Files, Partition
  <2>4. Passed'
    BY <2>1, <2>2 DEF Passed, Partition
  <2>5. Sourced'
    BY <2>1, <2>2 DEF Sourced, SeenKind, Files, Partition
  <2>6. Witnessed'
    BY <2>1, <2>2 DEF Witnessed, PendingKind, Files, Partition
  <2>7. VerdictSound'
    BY <2>1, <2>2 DEF VerdictSound, Partition
  <2>. QED
    BY <2>3, <2>4, <2>5, <2>6, <2>7 DEF VInv
<1>. QED
  BY <1>1, <1>2, <1>3, <1>4, <1>5, <1>6, <1>7 DEF Next

\* The verdict of TableVerifier.cpp is right for every catalog and every
\* pool size: main returns success (falling off the partition loop after
\* line 267) only when every partition had consistent metadata, was
\* listed, and had no visible file of the other format and none that
\* could not be read; it reports a partition invalid (printResult, line
\* 261) only when a visible file of that partition has the other format.
\* The pool threads' counts are read after join, so every file main added
\* (line 182) has been counted, or has aborted the process.
THEOREM VerdictSoundHolds == Spec => []VerdictSound
<1>1. Init => IInv /\ VInv
  BY InitIInv, InitVInv
<1>2. IInv /\ VInv /\ [Next]_vars => IInv' /\ VInv'
  BY NextIInv, NextVInv
<1>3. IInv /\ VInv => VerdictSound
  BY DEF VInv
<1>. QED
  BY <1>1, <1>2, <1>3, PTL DEF Spec

=============================================================================
