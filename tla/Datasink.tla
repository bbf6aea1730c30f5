------------------------------ MODULE Datasink ------------------------------
(***************************************************************************)
(* One distributed write: the driver's copy of DorisDatasink               *)
(* (write/datasink.py), the copies Ray pickles into write tasks, and the   *)
(* Stream Loads the tasks send.  write_doris (write/api.py) runs one write *)
(* with a sink of its own; a caller of Dataset.write_datasink may reuse a  *)
(* sink.                                                                   *)
(*                                                                         *)
(* A load is what LoadContract promises of StreamLoadClient.load, not the  *)
(* requests StreamLoad models: Doris commits on its own time, the worker   *)
(* gets one report that is true if it claims anything, and a worker that   *)
(* dies gets none.  Ray is external: it starts tasks, may lose a worker at *)
(* any moment, and reruns a lost task as often as its options allow.       *)
(***************************************************************************)
EXTENDS Integers, FiniteSets, FiniteSetsExt, Sequences

CONSTANTS
    Tasks,              \* write tasks of one write
    Bundles,            \* bundles a task may get: sequences of blocks
    Schemas,            \* Arrow schemas of blocks
    Accepted,           \* schemas validate_write_table accepts for the table
    Rows,               \* rows of one serialized batch
    Filtered,           \* how many of them Doris may filter
    Reports,            \* outcomes of a load to consider
    Callers,            \* who writes, with which Ray: see CallerType
    RayDefaultRetries,  \* Ray's own max_retries, bounded
    MaxWrites,          \* bound on the writes with one sink
    MaxAttempts,        \* bound on the attempts of one task
    MaxBatches          \* bound on the batches of one bundle

NoSchema == "no schema"

\* max_retries not given
Unset == -1

\* A block is its schema and how many batches iter_serialized_batches cuts it into.
Blocks == [schema : Schemas, batches : 0..MaxBatches]

RemoteArgs == [max_retries : Unset..(MaxAttempts - 1), retry_exceptions : BOOLEAN]

\* Through write_doris or not; Ray >= 2.53, whose on_write_start gets a schema, or an
\* older one; the ray_remote_args; and the tasks, a bound, and writes with one sink.
CallerType == [facade : BOOLEAN, schema : BOOLEAN, args : RemoteArgs,
               tasks : SUBSET Tasks, writes : 1..MaxWrites]

\* The batches of the first i blocks of a bundle, for every i: at most MaxBatches.
BatchCounts(blocks) ==
    {upTo \in [0..Len(blocks) -> 0..MaxBatches] :
        /\ upTo[0] = 0
        /\ \A i \in DOMAIN blocks : upTo[i] = upTo[i - 1] + blocks[i].batches}

BatchesUpTo(blocks) == CHOOSE upTo \in BatchCounts(blocks) : TRUE

ASSUME DatasinkAssumption ==
    /\ IsFiniteSet(Tasks)
    /\ Bundles \subseteq Seq(Blocks)
    /\ \A blocks \in Bundles : BatchCounts(blocks) # {}
    /\ Accepted \subseteq Schemas /\ NoSchema \notin Schemas
    /\ Reports \subseteq {"success", "publish_timeout", "failed", "ambiguous", "label_exists", "raw"}
    /\ Rows \in Nat \ {0} /\ Filtered \subseteq 0..Rows
    /\ Callers \subseteq CallerType
    /\ MaxWrites \in Nat \ {0} /\ MaxAttempts \in Nat \ {0} /\ MaxBatches \in Nat
    /\ RayDefaultRetries \in 0..(MaxAttempts - 1)

\* A load is known by its write, task, attempt and place in the task's bundle.
Loads == (1..MaxWrites) \X Tasks \X (1..MaxAttempts) \X (1..MaxBatches)

NoResult == [status |-> "none"]

VARIABLES
    driver,     \* "idle", "prepared", "running", "done", "failed"
    write,      \* which write this is
    caller,     \* who writes
    remote,     \* the options Ray runs the tasks with
    bundle,     \* bundle[t]: the blocks of task t
    sink,       \* the driver's copy: metadata (found or not), schema, result
    completed,  \* the last write whose on_write_complete ran, 0 before
    worker,     \* worker[t]: the attempt of task t that is running or ran last
    begun,      \* loads whose request was made
    filtered,   \* filtered[l]: rows of l Doris filtered, once committed
    outcome,    \* LoadContract: what load() reported
    committed   \* LoadContract: what Doris committed

loadVars == <<begun, filtered, outcome, committed>>
rayVars == <<write, caller, remote, bundle>>
vars == <<driver, rayVars, sink, completed, worker, loadVars>>

Load == INSTANCE LoadContract

Counters == [statuses : SUBSET {"success", "publish_timeout"}, batches : Nat,
             attempted : Nat, loaded : Nat, filtered : Nat]

NoCounters ==
    [statuses |-> {}, batches |-> 0, attempted |-> 0, loaded |-> 0, filtered |-> 0]

\* pc: "absent": no bundle; "waiting"; "block": about to take the next block;
\* "batch": inside a block; "loading": load() is running; "finished"; "failed".
Workers == [pc : {"absent", "waiting", "block", "batch", "loading", "finished", "failed"},
            attempt : 1..MaxAttempts, block : Nat, left : Nat,
            metadata : BOOLEAN, schema : Schemas \cup {NoSchema}, total : Counters]

Results == {NoResult} \cup
    [status : {"success", "publish_timeout", "mixed"}, batches : Nat,
     attempted : Nat, loaded : Nat, filtered : Nat]

TypeOK ==
    /\ driver \in {"idle", "prepared", "running", "done", "failed"}
    /\ write \in 1..MaxWrites /\ completed \in 0..MaxWrites
    /\ caller \in Callers /\ remote \in RemoteArgs
    /\ bundle \in [Tasks -> Bundles]
    /\ sink \in [metadata : BOOLEAN, schema : Schemas \cup {NoSchema}, result : Results]
    /\ worker \in [Tasks -> Workers]
    /\ begun \subseteq Loads /\ filtered \in [Loads -> 0..Rows]
    /\ Load!TypeOK

NewWorker(blocks) ==
    [pc |-> IF blocks = <<>> THEN "absent" ELSE "waiting", attempt |-> 1, block |-> 0, left |-> 0,
     metadata |-> FALSE, schema |-> NoSchema, total |-> NoCounters]

\* The blocks Ray distributes over the tasks.
Datasets ==
    {blocks \in [Tasks -> Bundles] : \A t \in Tasks \ caller.tasks : blocks[t] = <<>>}

Init ==
    /\ driver = "idle"
    /\ write = 1 /\ completed = 0
    /\ caller \in Callers /\ remote = caller.args
    /\ bundle \in Datasets
    /\ sink = [metadata |-> FALSE, schema |-> NoSchema, result |-> NoResult]
    /\ worker = [t \in Tasks |-> NewWorker(bundle[t])]
    /\ begun = {} /\ filtered = [l \in Loads |-> 0]
    /\ Load!Init

-----------------------------------------------------------------------------
(* The driver.                                                             *)

\* prepare_write_remote_args raises for options that would replay a task.
Rejected(args) == args.max_retries \notin {Unset, 0} \/ args.retry_exceptions

\* Mutant: options that were not given are left to Ray's defaults.
ForcedArgsLeftUnset(args) ==
    [args EXCEPT !.max_retries = IF @ = Unset THEN RayDefaultRetries ELSE @]

\* prepare_write_remote_args otherwise sets max_retries to zero.
ForcedArgs(args) == [args EXCEPT !.max_retries = 0]

\* What Ray makes of the options of a direct caller.
DirectArgs(args) ==
    [args EXCEPT !.max_retries = IF @ = Unset THEN RayDefaultRetries ELSE @]

\* write_doris, or Dataset.write_datasink called directly.
Prepare ==
    /\ driver = "idle"
    /\ IF caller.facade /\ Rejected(caller.args)
       THEN driver' = "failed" /\ UNCHANGED remote
       ELSE /\ driver' = "prepared"
            /\ remote' = IF caller.facade THEN ForcedArgs(caller.args) ELSE DirectArgs(caller.args)
    /\ UNCHANGED <<write, caller, bundle, sink, completed, worker, loadVars>>

Working == {t \in Tasks : bundle[t] # <<>>}

\* on_write_start: metadata discovery may fail; a schema, when Ray has one, is
\* validated before either is kept.
OnWriteStart ==
    /\ driver = "prepared"
    /\ ~caller.schema \/ Working # {}
    /\ \/ driver' = "failed" /\ UNCHANGED sink
       \/ /\ ~caller.schema
          /\ sink' = [sink EXCEPT !.metadata = TRUE]
          /\ driver' = "running"
       \/ /\ caller.schema
          /\ \E t \in Working :
                LET first == bundle[t][1].schema
                IN  /\ first \in Accepted
                    /\ sink' = [sink EXCEPT !.metadata = TRUE, !.schema = first]
          /\ driver' = "running"
    /\ UNCHANGED <<rayVars, completed, worker, loadVars>>

\* Ray >= 2.53 does not call on_write_start for an empty dataset.
SkipWriteStart ==
    /\ driver = "prepared"
    /\ caller.schema /\ Working = {}
    /\ driver' = "running"
    /\ UNCHANGED <<rayVars, sink, completed, worker, loadVars>>

\* Mutant: one Success is enough to call the write a success.
SummaryStatusOptimistic(statuses) ==
    IF statuses = {} \/ "success" \in statuses THEN "success" ELSE "publish_timeout"

\* _summary_status
SummaryStatus(statuses) ==
    CASE statuses \subseteq {"success"} -> "success"
      [] statuses = {"publish_timeout"} -> "publish_timeout"
      [] OTHER -> "mixed"

Total(field) == SumFunctionOnSet([t \in Working |-> worker[t].total[field]], Working)

\* Mutant: the counters of an earlier result are added to.
OnWriteCompleteAccumulates ==
    LET before(field) == IF sink.result = NoResult THEN 0 ELSE sink.result[field]
    IN  /\ driver = "running"
        /\ \A t \in Working : worker[t].pc = "finished"
        /\ sink' = [sink EXCEPT !.result =
              [status |-> SummaryStatus(UNION {worker[t].total.statuses : t \in Working}),
               batches |-> before("batches") + Total("batches"),
               attempted |-> before("attempted") + Total("attempted"),
               loaded |-> before("loaded") + Total("loaded"),
               filtered |-> before("filtered") + Total("filtered")]]
        /\ completed' = write
        /\ driver' = "done"
        /\ UNCHANGED <<rayVars, worker, loadVars>>

\* on_write_complete: every task returned a summary.
OnWriteComplete ==
    /\ driver = "running"
    /\ \A t \in Working : worker[t].pc = "finished"
    /\ sink' = [sink EXCEPT !.result =
          [status |-> SummaryStatus(UNION {worker[t].total.statuses : t \in Working}),
           batches |-> Total("batches"),
           attempted |-> Total("attempted"),
           loaded |-> Total("loaded"),
           filtered |-> Total("filtered")]]
    /\ completed' = write
    /\ driver' = "done"
    /\ UNCHANGED <<rayVars, worker, loadVars>>

\* on_write_failed: it logs, and leaves the sink as it is.  Other tasks may still
\* be running; Ray gets to them on its own time.
OnWriteFailed ==
    /\ driver = "running"
    /\ \E t \in Tasks : worker[t].pc = "failed"
    /\ driver' = "failed"
    /\ UNCHANGED <<rayVars, sink, completed, worker, loadVars>>

\* A direct caller writes another dataset with the same sink.
Reuse ==
    /\ ~caller.facade
    /\ driver \in {"done", "failed"}
    /\ \A t \in Tasks : worker[t].pc \in {"absent", "waiting", "finished", "failed"}
    /\ write < caller.writes
    /\ write' = write + 1
    /\ driver' = "idle"
    /\ bundle' \in Datasets
    /\ worker' = [t \in Tasks |-> NewWorker(bundle'[t])]
    /\ UNCHANGED <<caller, remote, sink, completed, loadVars>>

-----------------------------------------------------------------------------
(* A write task: DorisDatasink.write on a pickled copy of the sink.        *)

\* The load the worker of t is about to make, or is making.
Current(t) == <<write, t, worker[t].attempt, worker[t].total.batches + 1>>

StartTask(t) ==
    /\ driver = "running"
    /\ worker[t].pc = "waiting"
    /\ worker' = [worker EXCEPT ![t] = [worker[t] EXCEPT
          !.pc = "block", !.block = 0, !.total = NoCounters,
          !.metadata = sink.metadata, !.schema = sink.schema]]
    /\ UNCHANGED <<driver, rayVars, sink, completed, loadVars>>

\* write() raised.  Ray runs the task again if told to retry exceptions.
Raised(t) ==
    worker' = [worker EXCEPT ![t] =
        IF remote.retry_exceptions /\ worker[t].attempt <= remote.max_retries
        THEN [worker[t] EXCEPT !.pc = "waiting", !.attempt = worker[t].attempt + 1]
        ELSE [worker[t] EXCEPT !.pc = "failed"]]

NextBlock(t) == bundle[t][worker[t].block + 1]

\* Mutant: the schema of the first block is remembered but not compared.
SchemaFitsAny(t) == TRUE

\* _schema_matches against the schema of on_write_start or of the first block
SchemaFits(t) == worker[t].schema \in {NoSchema, NextBlock(t).schema}

\* Take a block: remember or compare its schema, then validate and cast it.
TakeBlock(t) ==
    /\ worker[t].pc = "block"
    /\ worker[t].block < Len(bundle[t])
    /\ \/ /\ worker[t].metadata
          /\ SchemaFits(t)
          /\ NextBlock(t).schema \in Accepted
          /\ worker' = [worker EXCEPT ![t] = [worker[t] EXCEPT
                !.pc = "batch", !.block = worker[t].block + 1,
                !.left = NextBlock(t).batches,
                !.schema = NextBlock(t).schema]]
       \/ Raised(t)    \* for those reasons, or a value that cannot be cast
    /\ UNCHANGED <<driver, rayVars, sink, completed, loadVars>>

\* The block is worked off.
LeaveBlock(t) ==
    /\ worker[t].pc = "batch"
    /\ worker[t].left = 0
    /\ worker' = [worker EXCEPT ![t].pc = "block"]
    /\ UNCHANGED <<driver, rayVars, sink, completed, loadVars>>

\* The next batch is serialized and handed to load().
BeginLoad(t) ==
    /\ worker[t].pc = "batch"
    /\ worker[t].left > 0
    /\ begun' = begun \cup {Current(t)}
    /\ worker' = [worker EXCEPT ![t].pc = "loading"]
    /\ UNCHANGED <<driver, rayVars, sink, completed, filtered, outcome, committed>>

\* The next batch holds a value its format cannot carry.
SerializeFails(t) ==
    /\ worker[t].pc = "batch"
    /\ worker[t].left > 0
    /\ Raised(t)
    /\ UNCHANGED <<driver, rayVars, sink, completed, loadVars>>

\* Mutant: filtered rows are counted as loaded.
CountedAllLoaded(total, o, rejected) ==
    [statuses |-> total.statuses \cup {o}, batches |-> total.batches + 1,
     attempted |-> total.attempted + Rows, loaded |-> total.loaded + Rows,
     filtered |-> total.filtered + rejected]

\* The totals of write() after one more DorisLoadResult.
Counted(total, o, rejected) ==
    [statuses |-> total.statuses \cup {o}, batches |-> total.batches + 1,
     attempted |-> total.attempted + Rows, loaded |-> total.loaded + (Rows - rejected),
     filtered |-> total.filtered + rejected]

\* Mutant: write() counts a batch whose load failed and goes on.
LoadReturnsSkipping(t) ==
    /\ worker[t].pc = "loading"
    /\ \E o \in Load!Loaded \cup {"failed"} :
          /\ Load!Report(Current(t), o)
          /\ worker' = [worker EXCEPT ![t] = [worker[t] EXCEPT
                !.pc = "batch", !.left = worker[t].left - 1,
                !.total = Counted(worker[t].total, o, filtered[Current(t)])]]
    /\ UNCHANGED <<driver, rayVars, sink, completed, begun, filtered>>

\* load() returned a DorisLoadResult.
LoadReturns(t) ==
    /\ worker[t].pc = "loading"
    /\ \E o \in Load!Loaded :
          /\ Load!Report(Current(t), o)
          /\ worker' = [worker EXCEPT ![t] = [worker[t] EXCEPT
                !.pc = "batch", !.left = worker[t].left - 1,
                !.total = Counted(worker[t].total, o, filtered[Current(t)])]]
    /\ UNCHANGED <<driver, rayVars, sink, completed, begun, filtered>>

\* load() raised, and the totals of the task are lost with the exception.
LoadRaises(t) ==
    /\ worker[t].pc = "loading"
    /\ \E o \in Reports \ Load!Loaded : Load!Report(Current(t), o)
    /\ Raised(t)
    /\ UNCHANGED <<driver, rayVars, sink, completed, begun, filtered>>

\* Mutant: a task that sent nothing has no summary to return.
ReturnUnlessEmpty(t) ==
    /\ worker[t].pc = "block"
    /\ worker[t].block = Len(bundle[t])
    /\ worker[t].total.batches > 0
    /\ worker' = [worker EXCEPT ![t].pc = "finished"]
    /\ UNCHANGED <<driver, rayVars, sink, completed, loadVars>>

\* write() returns its summary.
Return(t) ==
    /\ worker[t].pc = "block"
    /\ worker[t].block = Len(bundle[t])
    /\ worker' = [worker EXCEPT ![t].pc = "finished"]
    /\ UNCHANGED <<driver, rayVars, sink, completed, loadVars>>

\* The worker process is lost, its load unreported.
Die(t) ==
    /\ worker[t].pc \in {"block", "batch", "loading"}
    /\ worker' = [worker EXCEPT ![t] =
          IF worker[t].attempt <= remote.max_retries
          THEN [worker[t] EXCEPT !.pc = "waiting", !.attempt = worker[t].attempt + 1]
          ELSE [worker[t] EXCEPT !.pc = "failed"]]
    /\ UNCHANGED <<driver, rayVars, sink, completed, loadVars>>

Step(t) ==
    \/ StartTask(t) \/ TakeBlock(t) \/ LeaveBlock(t)
    \/ BeginLoad(t) \/ SerializeFails(t) \/ LoadReturns(t) \/ LoadRaises(t)
    \/ Return(t)

\* Doris commits a load it was sent, during the request or after it.
DorisCommits(l) ==
    /\ l \in begun
    /\ Load!Commit(l)
    /\ \E n \in Filtered : filtered' = [filtered EXCEPT ![l] = n]
    /\ UNCHANGED <<driver, rayVars, sink, completed, worker, begun>>

Driver == Prepare \/ OnWriteStart \/ SkipWriteStart \/ OnWriteComplete \/ OnWriteFailed

Ended == driver \in {"done", "failed"} /\ UNCHANGED vars

Next ==
    \/ Driver
    \/ Reuse
    \/ \E t \in Tasks : Step(t) \/ Die(t)
    \/ \E l \in Loads : DorisCommits(l)
    \/ Ended

SafeSpec == Init /\ [][Next]_vars

\* The driver and every task keep going, as StreamLoad shows of load().
Spec == SafeSpec /\ WF_vars(Driver) /\ \A t \in Tasks : WF_vars(Step(t))

-----------------------------------------------------------------------------
(* Correctness.                                                            *)

Batch(l) == <<l[1], l[2], l[4]>>

LoadsOf(w) == {l \in begun : l[1] = w}

Planned ==
    SumFunctionOnSet([t \in Working |-> BatchesUpTo(bundle[t])[Len(bundle[t])]], Working)

\* The result of the last completed write is Doris's own account of it: what
\* its loads put into the table, none missing or counted twice, although the
\* totals travelled through task summaries and other writes ran since.  Publish
\* Timeout "does not mean rollback" and is not hidden either (troubleshooting.md):
\* the status is success only when every load was, and publish_timeout likewise.
ResultIsDorisAccount ==
    sink.result # NoResult =>
        LET loads == LoadsOf(completed)
            reported == {outcome[l] : l \in loads}
        IN  /\ \A l \in loads : committed[l]
            /\ sink.result.batches = Cardinality(loads)
            /\ sink.result.attempted = Rows * Cardinality(loads)
            /\ sink.result.filtered = SumFunctionOnSet(filtered, loads)
            /\ sink.result.loaded = sink.result.attempted - sink.result.filtered
            /\ driver = "done" => sink.result.batches = Planned
            /\ sink.result.status = "success" <=> reported \subseteq {"success"}
            /\ sink.result.status = "publish_timeout" <=> reported = {"publish_timeout"}

\* "A body that may have reached Doris is never automatically replayed under a new
\* label" (architecture.md): with the facade's options no batch of a task is
\* handed to load() twice, even when its worker is lost in between.
NeverReplayed ==
    caller.facade => \A l, m \in begun : Batch(l) = Batch(m) => l = m

\* Fail closed: within a task a batch is sent only after Doris loaded all earlier
\* ones, so at most one load of an attempt is in doubt.
StopsAtFirstFailure ==
    /\ TypeOK
    /\ \A l, m \in begun :
          l[1] = m[1] /\ l[2] = m[2] /\ l[3] = m[3] /\ l[4] < m[4]
              => outcome[l] \in Load!Loaded /\ committed[l]

\* The block a load of the running write was cut from: the first whose batches,
\* with those of the blocks before it, reach the load's number.
BlockOf(l) ==
    LET blocks == bundle[l[2]]
        upTo == BatchesUpTo(blocks)
    IN  blocks[CHOOSE i \in DOMAIN blocks : upTo[i] >= l[4] /\ upTo[i - 1] < l[4]]

\* Only blocks that fit the table are sent, an attempt never mixes schemas, and
\* when Ray hands on_write_start a schema no two tasks of a write do either.
OneValidSchemaIsSent ==
    \A l, m \in LoadsOf(write) :
        /\ BlockOf(l).schema \in Accepted
        /\ caller.schema \/ (l[2] = m[2] /\ l[3] = m[3])
              => BlockOf(l).schema = BlockOf(m).schema

\* Every write ends on the driver, with a result or with an exception.
WritesEnd == []<>(driver \in {"done", "failed"})
=============================================================================
