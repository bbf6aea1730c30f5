-------------------------- MODULE MCHivePartitions --------------------------
EXTENDS HivePartitions

\* Partitions 1 and 2 are q=01 and q=1.
MCValueOf == [n \in Names |-> IF n <= 2 THEN 1 ELSE n]
=============================================================================
