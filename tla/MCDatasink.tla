----------------------------- MODULE MCDatasink -----------------------------
(* Instances of Datasink for TLC. *)
EXTENDS Datasink, TLC

CONSTANTS t1, t2    \* tasks

B(schema, n) == [schema |-> schema, batches |-> n]

\* No block, an empty block, one block of two batches, two blocks whose schemas
\* differ, one whose schema does not fit the table.
MCBundles ==
    { <<>>, <<B("s", 0)>>, <<B("s", 2)>>, <<B("s", 1), B("r", 1)>>, <<B("bad", 1)>> }

Args(retries) == [max_retries |-> retries, retry_exceptions |-> FALSE]

\* write_doris with two tasks and any options on either Ray, and a direct caller that
\* forbids retries, as documented, and uses its sink for two writes of one task.
MCCallers ==
    [facade : {TRUE}, schema : {TRUE}, tasks : {{t1, t2}}, writes : {1},
     args : [max_retries : {-1, 0, 1}, retry_exceptions : BOOLEAN]]
    \cup [facade : {TRUE}, schema : {FALSE}, tasks : {{t1, t2}}, writes : {1}, args : {Args(-1)}]
    \cup [facade : {FALSE}, schema : BOOLEAN, tasks : {{t1}}, writes : {2}, args : {Args(0)}]
=============================================================================
