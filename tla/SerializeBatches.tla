-------------------------- MODULE SerializeBatches --------------------------
(***************************************************************************)
(* iter_serialized_batches (write/serialization.py): the generator that    *)
(* cuts one prepared Arrow table into Stream Load payloads, and the loop   *)
(* of DorisDatasink.write that consumes it.  A slice starts at MaxRows     *)
(* rows and is halved until its payload fits MaxBytes or is one row.       *)
(*                                                                         *)
(* How many bytes a slice serializes to is up to its contents: each        *)
(* attempt takes any size in Sizes, so sizes need not be monotonic in the  *)
(* number of rows (Parquet sizes are not).  No slice is serialized twice,  *)
(* so this is any function of the slice.                                   *)
(***************************************************************************)
EXTENDS Integers, Sequences

CONSTANTS
    MaxTableRows,   \* tables of up to this many rows are considered
    MaxRows,        \* options.batch_rows
    MaxBytes,       \* options.batch_bytes
    Sizes           \* payload sizes

\* DorisWriteOptions and the generator itself reject limits that are not positive.
Limits ==
    /\ MaxTableRows \in Nat
    /\ MaxRows \in Nat \ {0}
    /\ MaxBytes \in Nat \ {0}
    /\ Sizes \subseteq Nat

ASSUME LimitsArePositive == Limits

VARIABLES
    numRows,    \* table.num_rows
    pc,         \* "slice": choosing the next slice, "serialize": trying one,
                \* "measure": payload at hand, "load": suspended at yield, "done",
                \* "failed"
    start,      \* first row that no batch has yet
    length,     \* rows of the slice being tried
    payload,    \* bytes of the slice serialized last
    batches     \* what was yielded: first row, rows, bytes

serializeVars == <<numRows, pc, start, length, payload, batches>>

SerializeTypeOK ==
    /\ numRows \in 0..MaxTableRows
    /\ pc \in {"slice", "serialize", "measure", "load", "done", "failed"}
    /\ start \in 0..numRows
    /\ length \in 0..MaxRows
    /\ payload \in Sizes \cup {0}
    /\ batches \in Seq([first : Nat, rows : Nat, bytes : Nat])

SerializeInit ==
    /\ numRows \in 0..MaxTableRows
    /\ pc = "slice"
    /\ start = 0
    /\ length = 0
    /\ payload = 0
    /\ batches = <<>>

Smaller(a, b) == IF a <= b THEN a ELSE b

\* min(max_rows, table.num_rows - start)
FirstLength == Smaller(MaxRows, numRows - start)

\* max(1, length // 2)
Halved(n) == IF n \div 2 >= 1 THEN n \div 2 ELSE 1

\* Mutant: a single row that is too large is halved like any other slice.
FitsStrictly(n, bytes) == bytes <= MaxBytes

\* Mutant: two rows are not worth halving.
FitsInPairs(n, bytes) == bytes <= MaxBytes \/ n <= 2

\* len(payload) <= max_bytes or length == 1
Fits(n, bytes) == bytes <= MaxBytes \/ n = 1

\* while start < table.num_rows
Slice ==
    /\ pc = "slice"
    /\ IF start < numRows
       THEN pc' = "serialize" /\ length' = FirstLength
       ELSE pc' = "done" /\ UNCHANGED length
    /\ UNCHANGED <<numRows, start, payload, batches>>

\* payload = _serialize(candidate, format)
Serialize ==
    /\ pc = "serialize"
    /\ payload' \in Sizes
    /\ pc' = "measure"
    /\ UNCHANGED <<numRows, start, length, batches>>

\* The rest of the inner loop: yield the slice, or try half of it.
Measure ==
    /\ pc = "measure"
    /\ IF Fits(length, payload)
       THEN /\ pc' = "load"
            /\ batches' = Append(batches, [first |-> start, rows |-> length, bytes |-> payload])
            /\ UNCHANGED length
       ELSE /\ length' = Halved(length)
            /\ pc' = "serialize"
            /\ UNCHANGED batches
    /\ UNCHANGED <<numRows, start, payload>>

\* A value the format cannot carry: _serialize raises, earlier batches stay loaded.
SerializeRaises ==
    /\ pc = "serialize"
    /\ pc' = "failed"
    /\ UNCHANGED <<numRows, start, length, payload, batches>>

\* Mutant: the next slice starts at a multiple of MaxRows.
ResumeByMaxRows ==
    /\ pc = "load"
    /\ start' = Smaller(numRows, start + MaxRows)
    /\ pc' = "slice"
    /\ UNCHANGED <<numRows, length, payload, batches>>

\* The batch was loaded and write() asks for the next one.
Resume ==
    /\ pc = "load"
    /\ start' = start + length
    /\ pc' = "slice"
    /\ UNCHANGED <<numRows, length, payload, batches>>

\* load() raised: write() leaves the loop and the generator is closed.
LoadFails ==
    /\ pc = "load"
    /\ pc' = "failed"
    /\ UNCHANGED <<numRows, start, length, payload, batches>>

Finished == pc \in {"done", "failed"} /\ UNCHANGED serializeVars

SerializeNext ==
    \/ Slice
    \/ Serialize
    \/ Measure
    \/ SerializeRaises
    \/ Resume
    \/ LoadFails
    \/ Finished

SerializeSafeSpec == SerializeInit /\ [][SerializeNext]_serializeVars

\* write() keeps pulling, and a load ends one way or the other.
SerializeSpec == SerializeSafeSpec /\ WF_serializeVars(Slice \/ Serialize \/ Measure \/ Resume)

-----------------------------------------------------------------------------
(* Correctness.                                                            *)

End(b) == b.first + b.rows

\* The generator never leaves out, repeats or reorders a row, wherever slices
\* were halved: the batches yielded so far are the rows before the next start,
\* in order, and a finished table is covered to its last row.
RowsInOrderOnce ==
    LET covered == IF pc = "load" THEN start + length ELSE start
    IN  /\ \A i \in DOMAIN batches :
              batches[i].first = IF i = 1 THEN 0 ELSE End(batches[i - 1])
        /\ batches # <<>> /\ pc # "failed" => End(batches[Len(batches)]) = covered
        /\ pc = "done" => covered = numRows /\ (numRows > 0 => batches # <<>>)

\* No batch is empty or longer than batch_rows, and only a single row may exceed
\* batch_bytes (write-data.md: "A single row larger than the byte target is sent
\* as its own batch").
BatchesWithinTargets ==
    \A i \in DOMAIN batches :
        /\ batches[i].rows \in 1..MaxRows
        /\ batches[i].bytes > MaxBytes => batches[i].rows = 1

\* Halving ends for any sizes and every table is worked off or given up.
Terminates == <>(pc \in {"done", "failed"})
=============================================================================
