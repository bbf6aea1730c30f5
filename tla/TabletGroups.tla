---------------------------- MODULE TabletGroups ----------------------------
(***************************************************************************)
(* group_tablets of _planner.py: the loop that cuts the sorted tablets of  *)
(* a snapshot into adjacent groups, one per read task.  Tablets are their  *)
(* positions 0..numTablets-1.  Datasource uses the result.                 *)
(***************************************************************************)
EXTENDS Naturals, Sequences

CONSTANTS
    MaxTablets,      \* bound on the tablets of a snapshot
    MaxTabletSize,   \* bound on config.tablet_size
    MaxParallelism   \* bound on Ray's hint

ASSUME TabletGroupsAssumption ==
    /\ MaxTablets \in Nat
    /\ MaxTabletSize \in Nat \ {0}
    /\ MaxParallelism \in Nat \ {0}

VARIABLES
    numTablets,    \* len(tablet_ids)
    tabletSize, parallelism,
    pc,            \* "start", "loop" or "done"
    groupCount,
    baseSize, largerGroups,
    groupIndex,
    offset,
    splits         \* first tablet and number of tablets of the groups so far

inputs == <<numTablets, tabletSize, parallelism>>
groupsVars == <<inputs, pc, groupCount, baseSize, largerGroups, groupIndex, offset, splits>>

GroupsInit ==
    /\ numTablets \in 0..MaxTablets
    /\ tabletSize \in 1..MaxTabletSize
    /\ parallelism \in 1..MaxParallelism
    /\ pc = "start"
    /\ groupCount = 0 /\ baseSize = 0 /\ largerGroups = 0
    /\ groupIndex = 0 /\ offset = 0
    /\ splits = <<>>

Lesser(a, b) == IF a <= b THEN a ELSE b

\* math.ceil(len(tablet_ids) / tablet_size)
CeilDiv(n, size) == (n + size - 1) \div size

\* The early return, or the two numbers divmod() gives.
Start ==
    /\ pc = "start"
    /\ IF numTablets = 0
       THEN pc' = "done" /\ UNCHANGED <<groupCount, baseSize, largerGroups>>
       ELSE /\ groupCount' = Lesser(parallelism, CeilDiv(numTablets, tabletSize))
            /\ baseSize' = numTablets \div groupCount'
            /\ largerGroups' = numTablets % groupCount'
            /\ pc' = "loop"
    /\ UNCHANGED <<inputs, groupIndex, offset, splits>>

\* Mutant: the tablets left over go to no group.
GroupSizeEven == baseSize

\* Mutant: one group too many gets a tablet more.
GroupSizeOneTooMany == baseSize + (IF groupIndex <= largerGroups THEN 1 ELSE 0)

GroupSize == baseSize + (IF groupIndex < largerGroups THEN 1 ELSE 0)

\* One turn of the loop, or its end.
Group ==
    /\ pc = "loop" /\ groupIndex < groupCount
    /\ splits' = Append(splits, [first |-> offset, tablets |-> GroupSize])
    /\ offset' = offset + GroupSize
    /\ groupIndex' = groupIndex + 1
    /\ UNCHANGED <<inputs, pc, groupCount, baseSize, largerGroups>>

EndLoop ==
    /\ pc = "loop" /\ groupIndex = groupCount
    /\ pc' = "done"
    /\ UNCHANGED <<inputs, groupCount, baseSize, largerGroups, groupIndex, offset, splits>>

Finished == pc = "done" /\ UNCHANGED groupsVars

GroupsNext == Start \/ Group \/ EndLoop \/ Finished

GroupsSpec == GroupsInit /\ [][GroupsNext]_groupsVars

-----------------------------------------------------------------------------
(* Correctness.                                                            *)

End(group) == group.first + group.tablets

\* However the remainder falls, no tablet is left out of the plan or read by two
\* tasks: the groups follow each other from the first tablet to the last, and
\* none is empty (an empty TABLET() hint is an error of build_select_sql).
EveryTabletOnce ==
    /\ \A i \in DOMAIN splits :
          /\ splits[i].tablets > 0
          /\ splits[i].first = IF i = 1 THEN 0 ELSE End(splits[i - 1])
    /\ pc = "done" =>
          IF numTablets = 0 THEN splits = <<>>
          ELSE splits # <<>> /\ End(splits[Len(splits)]) = numTablets

\* tablet_size is "a soft grouping target" and Ray's hint a cap (tune-parallelism.md):
\* never more groups than the hint, groups that differ by a tablet at most, and none
\* above tablet_size unless the hint forces it.
WithinHint ==
    /\ Len(splits) <= parallelism
    /\ \A i, j \in DOMAIN splits : splits[i].tablets <= splits[j].tablets + 1
    /\ groupCount < parallelism => \A i \in DOMAIN splits : splits[i].tablets <= tabletSize
=============================================================================
