---------------------------- MODULE TableVerifier ----------------------------
(***************************************************************************)
(* The table verifier (src/dwio/alpha/tools/TableVerifier.cpp): for every  *)
(* partition the catalog returns, check its metadata, list its files, and  *)
(* have a thread pool read the last two bytes of each file to count Alpha  *)
(* files and other files; then compare the counts with the partition's     *)
(* declared format.                                                        *)
(*                                                                         *)
(* A file is a record: hidden (its name starts with "."), and kind:        *)
(* "alpha" (ends with the magic number), "orc" (any other ending) or "bad" *)
(* (it cannot be opened, sized or read, or is shorter than the magic       *)
(* number: the task's LOG(FATAL) aborts the process).  The thread pool has *)
(* Concurrency threads and a queue of Concurrency tasks that blocks the    *)
(* adding thread when full (LifoSemMPMCQueue, QueueBehaviorIfFull::BLOCK). *)
(* The two counters are std::atomic: an increment is one step.  The       *)
(* default partition filter (lines 64-73), the flags and the print_only    *)
(* listing (lines 98-114) only format and print, and are left out.         *)
(***************************************************************************)
EXTENDS Naturals, Sequences, FiniteSets

CONSTANTS
  Catalogs,     \* what the catalog may hold: [exists, partitions]
  Concurrency   \* FLAGS_concurrency: threads, and the queue's capacity

\* A file of a listing, and a partition as the verifier reads it.
FileRec == [hidden : BOOLEAN, kind : {"alpha", "orc", "bad"}]
PartitionRec == [alpha : BOOLEAN, metaOk : BOOLEAN, listOk : BOOLEAN,
                 files : Seq(FileRec)]

ASSUME VerifierAssumption ==
  /\ Concurrency \in Nat \ {0}
  /\ Catalogs \subseteq [exists : BOOLEAN, partitions : Seq(PartitionRec)]

VARIABLES
  catalog,    \* the table as the catalog returns it
  pc,         \* main: "start", "meta", "list", "submit", "join", "report", "exit"
  part,       \* the partition being verified (1-based)
  next,       \* the next file of its listing to submit (1-based)
  queue,      \* the executor's queue: the files added and not yet taken
  running,    \* the files the pool's threads are verifying
  alphaCount, \* alphaFileCount
  otherCount, \* otherFileCount
  processed,  \* processedFileCount
  outcome     \* how main ended: "none" while it runs

vars == <<catalog, pc, part, next, queue, running, alphaCount, otherCount,
          processed, outcome>>

Partition == catalog.partitions[part]
Files == Partition.files

\* A mutant of WrongCount: the counters are swapped.
WrongCountSwapped == IF Partition.alpha THEN alphaCount ELSE otherCount

\* The format a partition's files must have, and the count of the others
\* printResult is given (line 264).
WrongCount == IF Partition.alpha THEN otherCount ELSE alphaCount

Init ==
  /\ catalog \in Catalogs
  /\ pc = "start"
  /\ part = 1
  /\ next = 1
  /\ queue = <<>>
  /\ running = {}
  /\ alphaCount = 0
  /\ otherCount = 0
  /\ processed = 0
  /\ outcome = "none"

\* Lines 88-96: the table must exist and the filter select partitions.
Start ==
  /\ pc = "start"
  /\ IF ~catalog.exists THEN /\ pc' = "exit" /\ outcome' = "noTable"
     ELSE IF catalog.partitions = <<>> THEN /\ pc' = "exit" /\ outcome' = "noPartitions"
     ELSE /\ pc' = "meta" /\ outcome' = "none"
  /\ UNCHANGED <<catalog, part, next, queue, running, alphaCount, otherCount,
                 processed>>

\* Lines 117-146: the partition's formats must agree with each other.
CheckMetadata ==
  /\ pc = "meta"
  /\ IF Partition.metaOk THEN /\ pc' = "list" /\ outcome' = "none"
     ELSE /\ pc' = "exit" /\ outcome' = "badMeta"
  /\ UNCHANGED <<catalog, part, next, queue, running, alphaCount, otherCount,
                 processed>>

\* Lines 148-171: list the partition's files and set up a fresh pool and
\* fresh counters.
List ==
  /\ pc = "list"
  /\ IF Partition.listOk
     THEN /\ pc' = "submit" /\ outcome' = "none"
          /\ next' = 1
          /\ alphaCount' = 0 /\ otherCount' = 0 /\ processed' = 0
     ELSE /\ pc' = "exit" /\ outcome' = "listFailed"
          /\ UNCHANGED <<next, alphaCount, otherCount, processed>>
  /\ UNCHANGED <<catalog, part, queue, running>>

\* A mutant of Visible: dot files are verified along with the others.
VisibleWithDotFiles(f) == TRUE

\* Line 177: files whose name starts with "." are skipped.
Visible(f) == ~f.hidden

\* Lines 173-227: one iteration of the submit loop.  A hidden file is
\* skipped; any other is added to the executor, which blocks while its
\* queue is full, and counted.
Submit ==
  /\ pc = "submit"
  /\ next <= Len(Files)
  /\ next' = next + 1
  /\ IF Visible(Files[next])
     THEN /\ Len(queue) < Concurrency
          /\ queue' = Append(queue, Files[next])
          /\ processed' = processed + 1
     ELSE UNCHANGED <<queue, processed>>
  /\ UNCHANGED <<catalog, pc, part, running, alphaCount, otherCount, outcome>>

\* Line 229: the loop is done; join.
EndSubmit ==
  /\ pc = "submit"
  /\ next > Len(Files)
  /\ pc' = "join"
  /\ UNCHANGED <<catalog, part, next, queue, running, alphaCount, otherCount,
                 processed, outcome>>

\* An idle thread of the pool takes the task at the head of the queue.
Take ==
  /\ outcome = "none"
  /\ queue # <<>>
  /\ Cardinality(running) < Concurrency
  /\ running' = running \cup {<<processed - Len(queue) + 1, Head(queue)>>}
  /\ queue' = Tail(queue)
  /\ UNCHANGED <<catalog, pc, part, next, alphaCount, otherCount, processed,
                 outcome>>

\* Lines 182-224: a thread verifies its file: LOG(FATAL) ends the process
\* when the file cannot be read, otherwise one counter goes up.
Verify(t) ==
  /\ t \in running
  /\ outcome = "none"
  /\ running' = running \ {t}
  /\ CASE t[2].kind = "bad" ->
            /\ outcome' = "fatal" /\ pc' = "exit"
            /\ UNCHANGED <<alphaCount, otherCount>>
       [] t[2].kind = "alpha" ->
            /\ alphaCount' = alphaCount + 1
            /\ UNCHANGED <<otherCount, outcome, pc>>
       [] t[2].kind = "orc" ->
            /\ otherCount' = otherCount + 1
            /\ UNCHANGED <<alphaCount, outcome, pc>>
  /\ UNCHANGED <<catalog, part, next, queue, processed>>

\* A mutant of Joined: join returns once the queue is drained, while
\* threads may still be verifying.
JoinedQueueOnly == queue = <<>>

\* A mutant of Advance: the loop goes back to the same partition.
AdvanceStuck == pc' = "meta" /\ UNCHANGED <<part, outcome>>

\* Line 116: the loop moves on to the next partition.
Advance == pc' = "meta" /\ part' = part + 1 /\ UNCHANGED outcome

\* executor->join(): every task added has run.
Joined == queue = <<>> /\ running = {}

\* Lines 229-267: join, compare the counts, and judge the partition; the
\* next partition follows, and main returns 0 after the last.
Report ==
  /\ pc = "join"
  /\ Joined
  /\ IF processed # alphaCount + otherCount
       THEN pc' = "exit" /\ outcome' = "mismatch" /\ UNCHANGED part
     ELSE IF WrongCount > 0
       THEN pc' = "exit" /\ outcome' = "invalid" /\ UNCHANGED part
     ELSE IF part = Len(catalog.partitions)
       THEN pc' = "exit" /\ outcome' = "ok" /\ UNCHANGED part
     ELSE Advance
  /\ UNCHANGED <<catalog, next, queue, running, alphaCount, otherCount,
                 processed>>

Next ==
  \/ Start \/ CheckMetadata \/ List \/ Submit \/ EndSubmit \/ Report
  \/ Take
  \/ \E t \in running : Verify(t)

\* The pool's threads and main all keep running while the process lives.
Spec == Init /\ [][Next]_vars /\ WF_vars(Take) /\ WF_vars(Submit)
          /\ WF_vars(\E t \in running : Verify(t))
          /\ WF_vars(Start \/ CheckMetadata \/ List \/ EndSubmit \/ Report)

-----------------------------------------------------------------------------
TypeOK ==
  /\ catalog \in Catalogs
  /\ pc \in {"start", "meta", "list", "submit", "join", "exit"}
  /\ pc \in {"start", "exit"} \/ part \in 1..Len(catalog.partitions)
  /\ pc \notin {"submit", "join"} \/ next \in 1..(Len(Files) + 1)
  /\ queue \in Seq(FileRec)
  /\ running \subseteq (Nat \X FileRec)
  /\ alphaCount \in Nat /\ otherCount \in Nat /\ processed \in Nat
  /\ outcome \in {"none", "noTable", "noPartitions", "badMeta", "listFailed",
                  "fatal", "mismatch", "invalid", "ok"}

\* A partition's files of the wrong format, dot files left aside.
WrongFiles(p) ==
  {k \in 1..Len(p.files) :
     ~p.files[k].hidden /\ p.files[k].kind = IF p.alpha THEN "orc" ELSE "alpha"}

\* The files of a partition the verifier cannot read.
BadFiles(p) ==
  {k \in 1..Len(p.files) : ~p.files[k].hidden /\ p.files[k].kind = "bad"}

\* The counts the verifier compares are complete: join has waited for every
\* task, so the file count mismatch of line 235 is never reported.
CountsAgree == outcome # "mismatch"

\* The verdict is right: the verifier succeeds only when every partition it
\* was given has consistent metadata and no visible file of the other
\* format, and it reports a partition invalid only when one of its visible
\* files has the other format.
VerdictSound ==
  /\ outcome = "ok" =>
       \A k \in 1..Len(catalog.partitions) :
          LET p == catalog.partitions[k]
          IN p.metaOk /\ p.listOk /\ WrongFiles(p) = {} /\ BadFiles(p) = {}
  /\ outcome = "invalid" => WrongFiles(Partition) # {}

Abstract == INSTANCE TableVerifierAbstract

\* The verifier implements its contract (TableVerifierAbstract): main ends
\* once, and with the verdict the first partition that fails a check calls
\* for, whatever order the pool's threads verify the files in; every other
\* step of main and of the threads leaves the verdict undecided.
ImplementsVerdict == Abstract!Spec

\* The verifier ends: no thread and no add() waits forever on the bounded
\* queue, and join returns.
VerifierEnds == <>(pc = "exit")

=============================================================================
