-------------------------- MODULE ParallelCreate --------------------------
(***************************************************************************)
(* `aahl create -j N`: `emit_parallel` of src/src/main.rs.  Before every   *)
(* commit the main thread hands each chunk of the lag window to the pool,  *)
(* with a clone of the rule prefix the chunk may look back to; workers run *)
(* `fork_candidate` on their clone, in any order; the main thread waits    *)
(* for the head chunk's result and commits it, so records are written in   *)
(* chunk order.                                                            *)
(*                                                                         *)
(* The state of SerialCreate is kept under the same names, which makes     *)
(* that module the abstract specification: same archive for any N.         *)
(***************************************************************************)
EXTENDS SerialCreate

CONSTANT Jobs   \* worker threads of the pool

ASSUME JobsAssumption == Jobs \in Nat \ {0, 1}

VARIABLE
  tasks   \* tasks[r + 1] is the task of chunk r; as many as have been dispatched

parVars == <<vars, tasks>>

ParInit == Init /\ g.lag > 1 /\ tasks = <<>>

\* emit_parallel's dispatch_tail.
DispatchTail == Len(tasks)

\* Faulty variant: one chunk too many is handed out.
MayDispatchTooFar == DispatchTail < Len(pieces) /\ DispatchTail <= committed + g.lag

MayDispatch == DispatchTail < Len(pieces) /\ DispatchTail < committed + g.lag

Running == {r \in 1 .. Len(tasks) : tasks[r].state = "running"}

----------------------------------------------------------------------------
(* The main thread. *)

Dispatch ==
  /\ phase = "create" /\ ~pendingGc.some /\ committed < Len(pieces)
  /\ MayDispatch
  /\ tasks' = Append(tasks, [state  |-> "queued",
                             snap   |-> SnapshotLenAt(g, DispatchTail),
                             epoch  |-> g.gcEpoch,
                             prefix |-> RulesPrefix(g, DispatchTail),
                             cand   |-> None])
  /\ UNCHANGED vars

\* `recv` on the head chunk's channel returns; the serial fallback of a chunk without a
\* task is not reachable, since the window holds the head chunk.
Commit(accept) ==
  /\ phase = "create" /\ ~pendingGc.some /\ committed < Len(pieces)
  /\ ~MayDispatch
  /\ LET task == tasks[committed + 1]
     IN  /\ task.state = "done"
         /\ WriteData(CompressParallel(g, task.cand, task.snap, task.epoch, HeadChunk, accept))
  /\ UNCHANGED tasks

WriteGc == EmitGc /\ UNCHANGED tasks

CloseArchive == Close /\ UNCHANGED tasks

----------------------------------------------------------------------------
(* The pool. *)

\* Faulty variant: every task gets a thread of its own.
StartTaskUnbounded(r) ==
  /\ tasks[r].state = "queued"
  /\ tasks' = [tasks EXCEPT ![r].state = "running"]
  /\ UNCHANGED vars

StartTask(r) ==
  /\ tasks[r].state = "queued"
  /\ Cardinality(Running) < Jobs
  /\ tasks' = [tasks EXCEPT ![r].state = "running"]
  /\ UNCHANGED vars

\* Faulty variant: a task without a prefix is put back instead of answered with None.
FinishTaskRetriesEmpty(r) ==
  /\ tasks[r].state = "running"
  /\ tasks' = [tasks EXCEPT ![r].state = IF tasks[r].prefix = <<>> THEN "queued" ELSE "done",
                            ![r].cand  = ForkCandidate(tasks[r].prefix, pieces[r])]
  /\ UNCHANGED vars

FinishTask(r) ==
  /\ tasks[r].state = "running"
  /\ tasks' = [tasks EXCEPT ![r].state = "done",
                            ![r].cand  = ForkCandidate(tasks[r].prefix, pieces[r])]
  /\ UNCHANGED vars

ParTerminated == phase # "create" /\ UNCHANGED parVars

----------------------------------------------------------------------------
StartSome  == \E r \in 1 .. Len(tasks) : StartTask(r)
FinishSome == \E r \in 1 .. Len(tasks) : FinishTask(r)
MainStep   == Dispatch \/ (\E accept \in BOOLEAN : Commit(accept)) \/ WriteGc \/ CloseArchive

ParNext == MainStep \/ StartSome \/ FinishSome \/ ParTerminated

\* What the main thread waits for is there.
MainReady ==
  /\ phase = "create"
  /\ \/ pendingGc.some
     \/ committed = Len(pieces)
     \/ MayDispatch
     \/ tasks[committed + 1].state = "done"

TaskIs(r, state) == r <= Len(tasks) /\ tasks[r].state = state

\* No list of chunks is longer.
MaxTasks == Max({Len(list) : list \in PieceLists})

IdleWorker == Cardinality(Running) < Jobs /\ \E r \in 1 .. Len(tasks) : TaskIs(r, "queued")

\* The operating system runs the main thread; an idle worker takes a queued task; a
\* discovery pass is a bounded computation, so every worker that has started ends.
\* Each line is WF_parVars of its action, with the action's ENABLED written out (TLC
\* would evaluate a whole discovery pass to find out that an action is enabled).
Fairness ==
  /\ []<>(~MainReady) \/ []<><<MainStep>>_parVars
  /\ []<>(~IdleWorker) \/ []<><<StartSome>>_parVars
  /\ \A r \in 1 .. MaxTasks :
       []<>(~TaskIs(r, "running")) \/ []<><<TaskIs(r, "running") /\ FinishTask(r)>>_parVars

ParSpec == ParInit /\ [][ParNext]_parVars /\ Fairness

----------------------------------------------------------------------------
(* Properties. *)

ParTypeOK ==
  /\ committed \in 0 .. Len(pieces)
  /\ Len(tasks) \in 0 .. Len(pieces)
  /\ \A r \in 1 .. Len(tasks) :
       /\ tasks[r].state \in {"queued", "running", "done"}
       /\ tasks[r].snap \in 0 .. MaxRules
       /\ tasks[r].prefix \in Table
  /\ Cardinality(Running) <= Jobs
  /\ g.rules \in Table

\* Whatever order the workers run in, the records are those a serial run may write
\* ("byte-identical for any worker count", main.rs): every step is a step of
\* SerialCreate, whose specification is Spec, or invisible to it.  In particular a
\* candidate found before a GC remap or for another snapshot never reaches the archive.
SameAsSerial == Spec

\* A task not yet committed whose epoch is still the current one holds a prefix of the
\* live table of exactly its snapshot's length: the clone has not been overtaken.
FrozenPrefix ==
  phase = "create" =>
    \A r \in committed + 1 .. Len(tasks) :
      tasks[r].epoch = g.gcEpoch =>
        /\ Len(tasks[r].prefix) = tasks[r].snap
        /\ IsPrefix(tasks[r].prefix, g.rules)

\* Discovery stays at most lag chunks ahead of the commits, and no chunk's task is lost:
\* every committed chunk was dispatched.
WindowBound == committed <= DispatchTail /\ DispatchTail <= committed + g.lag

\* Creation ends: no result is waited for that will not come, and no chunk is skipped.
Finishes == <>(phase # "create")
============================================================================
