---------------------------- MODULE DatasinkProofs ----------------------------
(***************************************************************************)
(* Proofs about Datasink, for every set of tasks, bundles and callers; and *)
(* at the end about SerializeBatches, the batches its blocks are sent in.  *)
(***************************************************************************)
EXTENDS Datasink, SerializeBatches, FiniteSetTheorems, TLAPS

-----------------------------------------------------------------------------
(* Sums.                                                                   *)

\* The least number principle: induction, without an operator as parameter.
LEMMA LeastNat == ASSUME NEW T \in SUBSET Nat, T # {} PROVE \E n \in T : \A m \in T : n <= m
<1> DEFINE R == {ss \in Nat \X Nat : ss[1] < ss[2]}
<1>1. IsWellFoundedOn(R, Nat)
  BY NatLessThanWellFounded DEF OpToRel
<1> HIDE DEF R
<1>2. PICK x \in T : \A y \in T : ~(<<y, x>> \in R)
  BY <1>1, WFMin
<1>3. \A y \in T : y < x => <<y, x>> \in R
  BY DEF R
<1>4. \A y \in T : ~(y < x) /\ y \in Nat /\ x \in Nat
  BY <1>2, <1>3
<1>5. QED
  BY <1>4

Pick(s) == CHOOSE x \in s : TRUE

\* A set that is not empty has the element CHOOSE picks.
LEMMA PickIn == ASSUME NEW s, s # {} PROVE Pick(s) \in s
  BY DEF Pick

\* The recursion behind SumFunctionOnSet.
Sums(f, S, g) ==
  g = [s \in SUBSET S |-> IF s = {} THEN 0 ELSE f[Pick(s)] + g[s \ {Pick(s)}]]

\* SumFunctionOnSet, which Total, Planned and the account of a result are built from, is
\* that recursion.
LEMMA SumIsIteration ==
  ASSUME NEW f, NEW S PROVE SumFunctionOnSet(f, S) = (CHOOSE sums : Sums(f, S, sums))[S]
  BY DEF SumFunctionOnSet, FoldFunctionOnSet, MapThenFoldSet, Sums, Pick

\* Subsets of up to n elements.
Small(S, n) == {s \in SUBSET S : IsFiniteSet(s) /\ Cardinality(s) <= n}

SumsTo(f, S, n, g) ==
  g = [s \in Small(S, n) |-> IF s = {} THEN 0 ELSE f[Pick(s)] + g[s \ {Pick(s)}]]

\* Taking the picked element out leaves a smaller subset.
LEMMA SmallRest ==
  ASSUME NEW S, NEW n \in Nat, NEW s \in Small(S, n + 1), s # {}
  PROVE  s \ {Pick(s)} \in Small(S, n)
<1>1. Pick(s) \in s
  BY PickIn
<1>2. IsFiniteSet(s) /\ Cardinality(s) \in Nat /\ Cardinality(s) <= n + 1 /\ s \in SUBSET S
  BY FS_CardinalityType DEF Small
<1>3. IsFiniteSet(s \ {Pick(s)}) /\ Cardinality(s \ {Pick(s)}) = Cardinality(s) - 1
  BY <1>1, <1>2, FS_RemoveElement
<1>4. QED
  BY <1>2, <1>3 DEF Small

\* The recursion has a solution on the subsets of up to n elements, for every n.
LEMMA SumsToExist == ASSUME NEW f, NEW S PROVE \A n \in Nat : \E g : SumsTo(f, S, n, g)
<1> DEFINE Bad == {n \in Nat : ~\E g : SumsTo(f, S, n, g)}
<1> SUFFICES ASSUME Bad # {} PROVE FALSE
  OBVIOUS
<1>1. PICK n \in Bad : \A m \in Bad : n <= m
  <2>1. Bad \in SUBSET Nat
    OBVIOUS
  <2> HIDE DEF Bad
  <2>2. QED
    BY <2>1, LeastNat
<1>2. CASE n = 0
  <2> DEFINE g == [s \in Small(S, 0) |-> 0]
  <2>1. \A s \in Small(S, 0) : s = {}
    BY FS_EmptySet, FS_CardinalityType DEF Small
  <2>2. SumsTo(f, S, 0, g)
    BY <2>1 DEF SumsTo
  <2>3. QED
    BY <1>2, <2>2
<1>3. CASE n # 0
  <2>1. PICK m \in Nat : n = m + 1 /\ m \notin Bad
    <3>1. n - 1 \in Nat /\ n = (n - 1) + 1 /\ ~(n <= n - 1)
      BY <1>3
    <3>2. n - 1 \notin Bad
      BY <1>1, <3>1
    <3>3. QED
      BY <3>1, <3>2
  <2>2. PICK g : SumsTo(f, S, m, g)
    BY <2>1
  <2> DEFINE h == [s \in Small(S, n) |-> IF s = {} THEN 0 ELSE f[Pick(s)] + g[s \ {Pick(s)}]]
  <2>3. \A s \in Small(S, m) : s \in Small(S, n) /\ h[s] = g[s]
    <3>1. \A s \in Small(S, m) : s \in Small(S, n)
      BY <2>1, FS_CardinalityType DEF Small
    <3>2. \A s \in Small(S, m) : g[s] = IF s = {} THEN 0 ELSE f[Pick(s)] + g[s \ {Pick(s)}]
      BY <2>2 DEF SumsTo
    <3>3. QED
      BY <3>1, <3>2
  <2>4. \A s \in Small(S, n) : s # {} => h[s \ {Pick(s)}] = g[s \ {Pick(s)}]
    BY <2>1, <2>3, SmallRest
  <2>5. SumsTo(f, S, n, h)
    BY <2>4 DEF SumsTo
  <2>6. QED
    BY <2>5
<1>4. QED
  BY <1>2, <1>3

\* So it has one on all subsets of a finite set.
LEMMA SumsExist == ASSUME NEW f, NEW S, IsFiniteSet(S) PROVE \E g : Sums(f, S, g)
<1>1. Cardinality(S) \in Nat
  BY FS_CardinalityType
<1>2. \A s \in SUBSET S : IsFiniteSet(s) /\ Cardinality(s) <= Cardinality(S)
  BY FS_Subset
<1>3. Small(S, Cardinality(S)) = SUBSET S
  BY <1>2 DEF Small
<1>4. PICK g : SumsTo(f, S, Cardinality(S), g)
  BY <1>1, SumsToExist
<1>5. QED
  BY <1>3, <1>4 DEF SumsTo, Sums

\* Two such functions agree where both are defined.
LEMMA SumsAgree ==
  ASSUME NEW f, NEW S, NEW T, NEW g, NEW h, Sums(f, S, g), Sums(f, T, h),
         NEW s, s \subseteq S, s \subseteq T, IsFiniteSet(s)
  PROVE  g[s] = h[s]
<1> DEFINE Differ(n) == \E u \in SUBSET s : IsFiniteSet(u) /\ Cardinality(u) = n /\ g[u] # h[u]
           Bad == {n \in Nat : Differ(n)}
<1> SUFFICES ASSUME Bad # {} PROVE FALSE
  BY FS_CardinalityType
<1>1. PICK n \in Bad : \A m \in Bad : n <= m
  <2>1. Bad \in SUBSET Nat
    OBVIOUS
  <2> HIDE DEF Bad
  <2>2. QED
    BY <2>1, LeastNat
<1>2. PICK u \in SUBSET s : IsFiniteSet(u) /\ Cardinality(u) = n /\ g[u] # h[u]
  OBVIOUS
<1>3. /\ g[u] = IF u = {} THEN 0 ELSE f[Pick(u)] + g[u \ {Pick(u)}]
      /\ h[u] = IF u = {} THEN 0 ELSE f[Pick(u)] + h[u \ {Pick(u)}]
  BY DEF Sums
<1>4. u # {} /\ Pick(u) \in u
  BY <1>2, <1>3, PickIn
<1> DEFINE v == u \ {Pick(u)}
<1>5. v \in SUBSET s /\ IsFiniteSet(v) /\ Cardinality(v) = n - 1 /\ n \in Nat
  BY <1>2, <1>4, FS_RemoveElement
<1>6. Cardinality(v) \in Nat
  BY <1>5, FS_CardinalityType
<1>7. g[v] # h[v]
  BY <1>2, <1>3, <1>4
<1>8. n - 1 \in Bad
  BY <1>5, <1>6, <1>7
<1>9. QED
  BY <1>1, <1>5, <1>8

\* The sum over no task, or over no load, is zero.
LEMMA SumEmpty == ASSUME NEW f PROVE SumFunctionOnSet(f, {}) = 0
<1>1. IsFiniteSet({})
  BY FS_EmptySet
<1>2. PICK h : Sums(f, {}, h)
  BY <1>1, SumsExist
<1> DEFINE g == CHOOSE sums : Sums(f, {}, sums)
<1>3. Sums(f, {}, g)
  BY <1>2
<1>4. g[{}] = 0
  BY <1>3 DEF Sums
<1>5. QED
  BY <1>4, SumIsIteration

\* A sum is the value of the picked element and the sum of the rest.
LEMMA SumUnfolds ==
  ASSUME NEW f, NEW S, IsFiniteSet(S), S # {}
  PROVE  SumFunctionOnSet(f, S) = f[Pick(S)] + SumFunctionOnSet(f, S \ {Pick(S)})
<1> DEFINE T == S \ {Pick(S)}
           g == CHOOSE sums : Sums(f, S, sums)
           h == CHOOSE sums : Sums(f, T, sums)
<1>1. IsFiniteSet(T)
  BY FS_RemoveElement
<1>2. Sums(f, S, g)
  BY SumsExist
<1>3. Sums(f, T, h)
  BY <1>1, SumsExist
<1> HIDE DEF g, h
<1>4. g[T] = h[T]
  BY <1>1, <1>2, <1>3, SumsAgree
<1>5. g[S] = f[Pick(S)] + g[T]
  BY <1>2 DEF Sums
<1>6. QED
  BY <1>4, <1>5, SumIsIteration DEF g, h

\* What a sum is: it is a number, and each element contributes its value once.
LEMMA SumRemoves ==
  ASSUME NEW f, NEW S, IsFiniteSet(S), \A y \in S : f[y] \in Nat
  PROVE  /\ SumFunctionOnSet(f, S) \in Nat
         /\ \A x \in S : SumFunctionOnSet(f, S) = f[x] + SumFunctionOnSet(f, S \ {x})
<1> DEFINE Sum(u) == SumFunctionOnSet(f, u)
           Fine(u) == Sum(u) \in Nat /\ \A x \in u : Sum(u) = f[x] + Sum(u \ {x})
           Bad == {n \in Nat : \E u \in SUBSET S : Cardinality(u) = n /\ ~Fine(u)}
<1>1. \A u \in SUBSET S : IsFiniteSet(u) /\ Cardinality(u) \in Nat
  BY FS_Subset, FS_CardinalityType
<1> SUFFICES ASSUME Bad # {} PROVE FALSE
  BY <1>1
<1>2. PICK n \in Bad : \A m \in Bad : n <= m
  <2>1. Bad \in SUBSET Nat
    OBVIOUS
  <2> HIDE DEF Bad
  <2>2. QED
    BY <2>1, LeastNat
<1>3. PICK u \in SUBSET S : Cardinality(u) = n /\ ~Fine(u)
  OBVIOUS
<1>4. ASSUME NEW v \in SUBSET S, Cardinality(v) < n PROVE Fine(v)
  BY <1>1, <1>2, <1>4
<1>5. u # {}
  BY <1>3, SumEmpty
<1> DEFINE c == Pick(u)
<1>6. c \in u
  BY <1>5, PickIn
<1>7. \A x \in u : u \ {x} \in SUBSET S /\ Cardinality(u \ {x}) < n
  <2> TAKE x \in u
  <2>1. Cardinality(u \ {x}) = Cardinality(u) - 1
    BY <1>1, FS_RemoveElement
  <2>2. QED
    BY <1>1, <1>3, <2>1
<1>8. \A x \in u : Fine(u \ {x})
  BY <1>4, <1>7
<1>9. Sum(u) = f[c] + Sum(u \ {c})
  BY <1>1, <1>5, SumUnfolds
<1> HIDE DEF c
<1>10. Sum(u) \in Nat
  BY <1>6, <1>8, <1>9
<1>11. ASSUME NEW x \in u, x # c PROVE Sum(u) = f[x] + Sum(u \ {x})
  <2> DEFINE rest == (u \ {c}) \ {x}
  <2>1. rest = (u \ {x}) \ {c} /\ x \in u \ {c} /\ c \in u \ {x}
    BY <1>6, <1>11
  <2>2. Sum(u \ {c}) = f[x] + Sum(rest)
    BY <1>6, <1>8, <2>1
  <2>3. Sum(u \ {x}) = f[c] + Sum(rest)
    BY <1>6, <1>8, <2>1
  <2>4. rest \in SUBSET S /\ Cardinality(rest) < n
    <3>1. Cardinality(rest) = Cardinality(u \ {c}) - 1
      BY <1>1, <2>1, FS_RemoveElement
    <3>2. QED
      BY <1>1, <1>6, <1>7, <3>1
  <2>5. Sum(rest) \in Nat /\ f[x] \in Nat /\ f[c] \in Nat
    BY <1>4, <1>6, <2>4
  <2> HIDE DEF rest, Fine, Sum
  <2>6. QED
    BY <1>9, <2>2, <2>3, <2>5
<1>12. QED
  BY <1>3, <1>6, <1>9, <1>10, <1>11

\* One more load, or one more task, adds its own value.
LEMMA SumAdds ==
  ASSUME NEW f, NEW S, NEW x, IsFiniteSet(S), x \notin S, f[x] \in Nat, \A y \in S : f[y] \in Nat
  PROVE  SumFunctionOnSet(f, S \cup {x}) = f[x] + SumFunctionOnSet(f, S)
<1> DEFINE T == S \cup {x}
<1>1. IsFiniteSet(T) /\ (\A y \in T : f[y] \in Nat) /\ x \in T /\ T \ {x} = S
  BY FS_AddElement
<1>2. QED
  BY <1>1, SumRemoves

\* A sum depends on the values in the set alone.
LEMMA SumSame ==
  ASSUME NEW f, NEW g, NEW S, IsFiniteSet(S), \A y \in S : f[y] = g[y]
  PROVE  SumFunctionOnSet(f, S) = SumFunctionOnSet(g, S)
<1> DEFINE Same(u) == SumFunctionOnSet(f, u) = SumFunctionOnSet(g, u)
           Bad == {n \in Nat : \E u \in SUBSET S : Cardinality(u) = n /\ ~Same(u)}
<1>1. \A u \in SUBSET S : IsFiniteSet(u) /\ Cardinality(u) \in Nat
  BY FS_Subset, FS_CardinalityType
<1> SUFFICES ASSUME Bad # {} PROVE FALSE
  BY <1>1
<1>2. PICK n \in Bad : \A m \in Bad : n <= m
  <2>1. Bad \in SUBSET Nat
    OBVIOUS
  <2> HIDE DEF Bad
  <2>2. QED
    BY <2>1, LeastNat
<1>3. PICK u \in SUBSET S : Cardinality(u) = n /\ ~Same(u)
  OBVIOUS
<1>4. u # {}
  BY <1>3, SumEmpty
<1> DEFINE v == u \ {Pick(u)}
<1>5. Pick(u) \in u /\ v \in SUBSET S
  BY <1>4, PickIn
<1>6. Cardinality(v) = Cardinality(u) - 1
  BY <1>1, <1>5, FS_RemoveElement
<1>7. Cardinality(v) < n
  BY <1>1, <1>3, <1>6
<1>8. Same(v)
  BY <1>1, <1>2, <1>5, <1>7
<1>9. /\ SumFunctionOnSet(f, u) = f[Pick(u)] + SumFunctionOnSet(f, v)
      /\ SumFunctionOnSet(g, u) = g[Pick(u)] + SumFunctionOnSet(g, v)
  BY <1>1, <1>4, SumUnfolds
<1>10. QED
  BY <1>3, <1>5, <1>8, <1>9

\* Nothing adds up to nothing: the totals of workers that have counted no load.
LEMMA SumOfNothing ==
  ASSUME NEW f, NEW S, IsFiniteSet(S), \A y \in S : f[y] = 0
  PROVE  SumFunctionOnSet(f, S) = 0
<1> DEFINE Bad == {n \in Nat : \E u \in SUBSET S :
                                  Cardinality(u) = n /\ SumFunctionOnSet(f, u) # 0}
<1>1. \A u \in SUBSET S : IsFiniteSet(u) /\ Cardinality(u) \in Nat
  BY FS_Subset, FS_CardinalityType
<1> SUFFICES ASSUME Bad # {} PROVE FALSE
  BY <1>1
<1>2. PICK n \in Bad : \A m \in Bad : n <= m
  <2>1. Bad \in SUBSET Nat
    OBVIOUS
  <2> HIDE DEF Bad
  <2>2. QED
    BY <2>1, LeastNat
<1>3. PICK u \in SUBSET S : Cardinality(u) = n /\ SumFunctionOnSet(f, u) # 0
  OBVIOUS
<1>4. PICK x \in u : TRUE
  BY <1>3, SumEmpty
<1>5. u \ {x} \in SUBSET S /\ Cardinality(u \ {x}) = n - 1 /\ Cardinality(u \ {x}) \in Nat
  BY <1>1, <1>3, <1>4, FS_RemoveElement
<1>6. SumFunctionOnSet(f, u) = f[x] + SumFunctionOnSet(f, u \ {x})
  BY <1>1, <1>4, SumRemoves
<1>7. SumFunctionOnSet(f, u \ {x}) # 0
  BY <1>3, <1>4, <1>6
<1>8. n - 1 \in Bad /\ ~(n <= n - 1)
  BY <1>5, <1>7
<1>9. QED
  BY <1>2, <1>8

-----------------------------------------------------------------------------
(* The batches of a bundle.                                                *)

\* BatchesUpTo counts the batches of a bundle block by block.
LEMMA UpToCounts ==
  ASSUME NEW blocks \in Bundles
  PROVE  LET upTo == BatchesUpTo(blocks)
         IN  /\ blocks \in Seq(Blocks)
             /\ upTo \in [0..Len(blocks) -> 0..MaxBatches]
             /\ upTo[0] = 0
             /\ \A i \in 0..Len(blocks) : upTo[i] \in Nat
             /\ \A i \in 1..Len(blocks) :
                   blocks[i] \in Blocks /\ upTo[i] = upTo[i - 1] + blocks[i].batches
<1>1. BatchCounts(blocks) # {} /\ blocks \in Seq(Blocks)
  BY DatasinkAssumption
<1>2. BatchesUpTo(blocks) \in BatchCounts(blocks)
  BY <1>1 DEF BatchesUpTo
<1>3. DOMAIN blocks = 1..Len(blocks) /\ Len(blocks) \in Nat
  BY <1>1
<1> DEFINE upTo == BatchesUpTo(blocks)
<1>4. /\ upTo \in [0..Len(blocks) -> 0..MaxBatches] /\ upTo[0] = 0
      /\ \A i \in 1..Len(blocks) : upTo[i] = upTo[i - 1] + blocks[i].batches
  BY <1>2, <1>3 DEF BatchCounts
<1> HIDE DEF upTo
<1>5. \A i \in 0..Len(blocks) : upTo[i] \in Nat
  BY <1>4, DatasinkAssumption
<1>6. \A i \in 1..Len(blocks) : blocks[i] \in Blocks
  BY <1>1
<1>7. QED
  BY <1>1, <1>4, <1>5, <1>6 DEF upTo

\* A later block does not have fewer batches before it.
LEMMA UpToGrows ==
  ASSUME NEW blocks \in Bundles, NEW i \in 0..Len(blocks), NEW j \in 0..Len(blocks), i <= j
  PROVE  BatchesUpTo(blocks)[i] <= BatchesUpTo(blocks)[j]
<1> DEFINE upTo == BatchesUpTo(blocks)
           Bad == {k \in Nat : k \in i..Len(blocks) /\ ~(upTo[i] <= upTo[k])}
<1>1. /\ Len(blocks) \in Nat /\ upTo \in [0..Len(blocks) -> 0..MaxBatches]
      /\ MaxBatches \in Nat /\ \A k \in 0..Len(blocks) : upTo[k] \in Nat
      /\ \A k \in 1..Len(blocks) :
            blocks[k] \in Blocks /\ upTo[k] = upTo[k - 1] + blocks[k].batches
  BY UpToCounts, DatasinkAssumption
<1> HIDE DEF upTo
<1> SUFFICES ASSUME Bad # {} PROVE FALSE
  BY <1>1 DEF upTo
<1>2. PICK k \in Bad : \A m \in Bad : k <= m
  <2>1. Bad \in SUBSET Nat
    OBVIOUS
  <2> HIDE DEF Bad
  <2>2. QED
    BY <2>1, LeastNat
<1>3. k \in 1..Len(blocks) /\ k - 1 \in i..Len(blocks) /\ k - 1 \in 0..Len(blocks)
  BY <1>1
<1>4. upTo[i] <= upTo[k - 1]
  BY <1>2, <1>3
<1>5. blocks[k].batches \in Nat
  BY <1>1, <1>3 DEF Blocks
<1>6. upTo[k] = upTo[k - 1] + blocks[k].batches /\ upTo[k - 1] \in Nat /\ upTo[i] \in Nat
  BY <1>1, <1>3
<1>7. QED
  BY <1>4, <1>5, <1>6

\* A batch belongs to one block: BlockOf finds the block it was cut from.
LEMMA BlockFound ==
  ASSUME NEW l, bundle[l[2]] \in Bundles, l[4] \in Nat, NEW i \in 1..Len(bundle[l[2]]),
         BatchesUpTo(bundle[l[2]])[i - 1] < l[4], l[4] <= BatchesUpTo(bundle[l[2]])[i]
  PROVE  BlockOf(l) = bundle[l[2]][i]
<1> DEFINE blocks == bundle[l[2]]
           upTo == BatchesUpTo(blocks)
           Found(j) == upTo[j] >= l[4] /\ upTo[j - 1] < l[4]
<1>1. /\ Len(blocks) \in Nat /\ \A j \in 0..Len(blocks) : upTo[j] \in Nat
      /\ DOMAIN blocks = 1..Len(blocks)
  BY UpToCounts
<1>2. Found(i)
  BY <1>1
<1>3. ASSUME NEW j \in 1..Len(blocks), Found(j) PROVE j = i
  <2>0. upTo[j] \in Nat /\ upTo[i] \in Nat /\ upTo[j - 1] \in Nat /\ upTo[i - 1] \in Nat
    BY <1>1
  <2>1. CASE j < i
    <3>1. upTo[j] <= upTo[i - 1]
      BY <1>1, <2>1, UpToGrows
    <3> HIDE DEF upTo
    <3>2. QED
      BY <1>2, <1>3, <2>0, <3>1
  <2>2. CASE i < j
    <3>1. upTo[i] <= upTo[j - 1]
      BY <1>1, <2>2, UpToGrows
    <3> HIDE DEF upTo
    <3>2. QED
      BY <1>2, <1>3, <2>0, <3>1
  <2>3. QED
    BY <1>1, <2>1, <2>2
<1>4. (CHOOSE j \in DOMAIN blocks : Found(j)) = i
  BY <1>1, <1>2, <1>3
<1>5. QED
  BY <1>4 DEF BlockOf

-----------------------------------------------------------------------------
(* The inductive invariant.                                                *)

\* Ray runs no task twice: write_doris sees to it, and other callers are told to.
NoReplay ==
    caller.facade \/ (caller.args.max_retries = 0 /\ ~caller.args.retry_exceptions)

Started(t) == worker[t].pc \notin {"absent", "waiting"}

\* The load of the k-th batch of what the worker of t runs.
LoadOf(t, k) == <<write, t, worker[t].attempt, k>>

\* Tasks start after the driver let them, and the driver completes after they did.
DriverLeads ==
    /\ driver \in {"idle", "prepared"} => \A t \in Tasks : ~Started(t) /\ worker[t].attempt = 1
    /\ completed <= write
    /\ completed = write <=> driver = "done"
    /\ driver = "done" => \A t \in Tasks : worker[t].pc \in {"absent", "finished"}

NothingRetried ==
    NoReplay =>
        /\ driver \in {"prepared", "running"} \/ (\E t \in Tasks : Started(t)) =>
              remote.max_retries = 0 /\ ~remote.retry_exceptions
        /\ \A t \in Tasks : worker[t].attempt = 1
        /\ \A l \in begun : l[3] = 1

\* Where a worker is in its bundle, in blocks and in batches.
Place ==
    \A t \in Tasks :
        LET w == worker[t]
            upTo == BatchesUpTo(bundle[t])
        IN  /\ w.pc = "absent" <=> bundle[t] = <<>>
            /\ ~Started(t) /\ w.attempt = 1 => w.total = NoCounters
            /\ Started(t) => w.block \in 0..Len(bundle[t])
            /\ w.pc = "block" => w.total.batches = upTo[w.block]
            /\ w.pc \in {"batch", "loading"} =>
                  /\ w.block # 0 /\ w.left <= bundle[t][w.block].batches
                  /\ w.total.batches + w.left = upTo[w.block]
            /\ w.pc = "loading" => w.left > 0
            /\ w.pc = "finished" => w.total.batches = upTo[Len(bundle[t])]

\* The loads of an attempt are those it has counted, and perhaps one more.
Sent ==
    /\ IsFiniteSet(begun)
    /\ \A l \in begun : l[1] <= write
    /\ \A l \in LoadsOf(write) :
          /\ l[3] <= worker[l[2]].attempt
          /\ l[3] = worker[l[2]].attempt =>
                /\ Started(l[2])
                /\ \/ l[4] <= worker[l[2]].total.batches
                   \/ /\ worker[l[2]].pc \in {"loading", "failed"}
                      /\ l[4] = worker[l[2]].total.batches + 1
    /\ \A t \in Tasks : worker[t].pc = "loading" => Current(t) \in begun

\* What an attempt has counted is in Doris, with the status it was counted under.
CountedIsLoaded ==
    \A t \in Tasks :
        Started(t) =>
            /\ \A k \in 1..worker[t].total.batches :
                  /\ LoadOf(t, k) \in begun /\ committed[LoadOf(t, k)]
                  /\ outcome[LoadOf(t, k)] \in Load!Loaded
            /\ worker[t].total.statuses =
                  {outcome[LoadOf(t, k)] : k \in 1..worker[t].total.batches}

InOrder ==
    \A l, m \in begun :
        l[1] = m[1] /\ l[2] = m[2] /\ l[3] = m[3] /\ l[4] < m[4]
            => outcome[l] \in Load!Loaded /\ committed[l]

\* The schemas of the blocks taken, and of the blocks the loads were cut from.
SchemaKept ==
    /\ caller.schema /\ driver = "running" /\ Working # {} => sink.schema # NoSchema
    /\ \A t \in Tasks :
          Started(t) =>
              /\ caller.schema => sink.schema # NoSchema /\ worker[t].schema = sink.schema
              /\ \A i \in 1..worker[t].block :
                    bundle[t][i].schema \in Accepted /\ bundle[t][i].schema = worker[t].schema
    /\ \A l \in LoadsOf(write) :
          /\ BlockOf(l).schema \in Accepted
          /\ caller.schema => BlockOf(l).schema = sink.schema
          /\ l[3] = worker[l[2]].attempt => BlockOf(l).schema = worker[l[2]].schema
          /\ \A m \in LoadsOf(write) :
                l[2] = m[2] /\ l[3] = m[3] => BlockOf(l).schema = BlockOf(m).schema

\* The loads the workers have counted, and the account of them so far.
CountedLoads ==
    {l \in LoadsOf(write) : /\ l[3] = worker[l[2]].attempt
                            /\ l[4] <= worker[l[2]].total.batches}

RunningAccount ==
    NoReplay =>
        /\ Total("batches") = Cardinality(CountedLoads)
        /\ Total("attempted") = Rows * Cardinality(CountedLoads)
        /\ Total("filtered") = SumFunctionOnSet(filtered, CountedLoads)
        /\ Total("loaded") + Total("filtered") = Total("attempted")

Account == NoReplay => ResultIsDorisAccount

IInv ==
    /\ TypeOK
    /\ DriverLeads
    /\ NothingRetried
    /\ Place
    /\ Sent
    /\ CountedIsLoaded
    /\ InOrder
    /\ SchemaKept
    /\ RunningAccount
    /\ Account

-----------------------------------------------------------------------------
(* What the steps of a task do to its worker.                              *)

\* The fields of the worker of t a step may leave alone.
SameAttempt(t) == worker'[t].attempt = worker[t].attempt

SameTotal(t) == worker'[t].total = worker[t].total

SamePlace(t) ==
    worker'[t].block = worker[t].block /\ worker'[t].left = worker[t].left
    /\ worker'[t].schema = worker[t].schema

Moves(t, from, to) ==
    /\ worker[t].pc = from /\ worker'[t].pc = to
    /\ worker' \in [Tasks -> Workers]
    /\ \A u \in Tasks \ {t} : worker'[u] = worker[u]
    /\ UNCHANGED <<driver, rayVars, sink, completed>>

Starts(t) ==
    /\ Moves(t, "waiting", "block")
    /\ SameAttempt(t)
    /\ worker'[t].block = 0 /\ worker'[t].total = NoCounters /\ worker'[t].schema = sink.schema
    /\ driver = "running"
    /\ UNCHANGED loadVars

Takes(t) ==
    /\ Moves(t, "block", "batch")
    /\ SameAttempt(t) /\ SameTotal(t)
    /\ worker[t].block < Len(bundle[t]) /\ worker'[t].block = worker[t].block + 1
    /\ worker'[t].left = bundle[t][worker[t].block + 1].batches
    /\ worker'[t].schema = bundle[t][worker[t].block + 1].schema
    /\ worker'[t].schema \in Accepted
    /\ worker[t].schema \in {NoSchema, worker'[t].schema}
    /\ UNCHANGED loadVars

Leaves(t) ==
    /\ Moves(t, "batch", "block")
    /\ SameAttempt(t) /\ SameTotal(t) /\ SamePlace(t)
    /\ worker[t].left = 0
    /\ UNCHANGED loadVars

Begins(t) ==
    /\ Moves(t, "batch", "loading")
    /\ SameAttempt(t) /\ SameTotal(t) /\ SamePlace(t)
    /\ worker[t].left > 0
    /\ begun' = begun \cup {Current(t)}
    /\ UNCHANGED <<filtered, outcome, committed>>

Counts(t) ==
    /\ Moves(t, "loading", "batch")
    /\ SameAttempt(t)
    /\ worker'[t].block = worker[t].block /\ worker'[t].left = worker[t].left - 1
    /\ worker'[t].schema = worker[t].schema
    /\ \E o \in Load!Loaded :
          /\ worker'[t].total = Counted(worker[t].total, o, filtered[Current(t)])
          /\ outcome' = [outcome EXCEPT ![Current(t)] = o]
    /\ outcome[Current(t)] = "pending" /\ committed[Current(t)]
    /\ UNCHANGED <<begun, filtered, committed>>

\* The task fails, or Ray was told to run it again.
Drops(t) ==
    /\ worker[t].pc \in {"block", "batch", "loading"}
    /\ \/ Moves(t, worker[t].pc, "failed") /\ SameAttempt(t)
       \/ /\ Moves(t, worker[t].pc, "waiting")
          /\ worker'[t].attempt = worker[t].attempt + 1
          /\ worker[t].attempt <= remote.max_retries
    /\ SameTotal(t) /\ SamePlace(t)
    /\ \/ outcome' = outcome
       \/ /\ worker[t].pc = "loading" /\ outcome[Current(t)] = "pending"
          /\ \E o \in Load!Outcomes : outcome' = [outcome EXCEPT ![Current(t)] = o]
    /\ UNCHANGED <<begun, filtered, committed>>

Ends(t) ==
    /\ Moves(t, "block", "finished")
    /\ SameAttempt(t) /\ SameTotal(t) /\ SamePlace(t)
    /\ worker[t].block = Len(bundle[t])
    /\ UNCHANGED loadVars

\* The load a worker is about to make, or makes, is one the bounds allow.
LEMMA CurrentIsLoad ==
  ASSUME TypeOK, Place, NEW t \in Tasks, worker[t].pc \in {"batch", "loading"}, worker[t].left > 0
  PROVE  Current(t) \in Loads
<1>1. /\ worker[t] \in Workers /\ bundle[t] \in Bundles /\ write \in 1..MaxWrites
      /\ MaxBatches \in Nat
  BY DatasinkAssumption DEF TypeOK
<1>2. /\ Started(t)
      /\ worker[t].total.batches + worker[t].left = BatchesUpTo(bundle[t])[worker[t].block]
      /\ worker[t].block \in 0..Len(bundle[t])
  BY DEF Place, Started
<1>3. BatchesUpTo(bundle[t])[worker[t].block] \in 0..MaxBatches
  BY <1>1, <1>2, UpToCounts
<1>4. worker[t].total.batches \in Nat /\ worker[t].left \in Nat /\ worker[t].attempt \in 1..MaxAttempts
  BY <1>1 DEF Workers, Counters
<1> DEFINE n == worker[t].total.batches
<1>5. n + 1 \in 1..MaxBatches
  BY <1>1, <1>2, <1>3, <1>4
<1>6. QED
  BY <1>1, <1>4, <1>5 DEF Current, Loads

\* The same, when write() raises or the worker is lost.
LEMMA RaisedMoves ==
  ASSUME TypeOK, NEW t \in Tasks,
         Raised(t) \/ worker' = [worker EXCEPT ![t] =
             IF worker[t].attempt <= remote.max_retries
             THEN [worker[t] EXCEPT !.pc = "waiting", !.attempt = worker[t].attempt + 1]
             ELSE [worker[t] EXCEPT !.pc = "failed"]],
         UNCHANGED <<driver, rayVars, sink, completed>>
  PROVE  /\ \/ Moves(t, worker[t].pc, "failed") /\ SameAttempt(t)
            \/ /\ Moves(t, worker[t].pc, "waiting")
               /\ worker'[t].attempt = worker[t].attempt + 1
               /\ worker[t].attempt <= remote.max_retries
         /\ SameTotal(t) /\ SamePlace(t)
<1> DEFINE w == worker[t]
           again == [w EXCEPT !.pc = "waiting", !.attempt = w.attempt + 1]
           failed == [w EXCEPT !.pc = "failed"]
<1>1. worker \in [Tasks -> Workers] /\ w \in Workers
  BY DEF TypeOK
<1>2. \/ worker' = [worker EXCEPT ![t] = failed]
      \/ worker' = [worker EXCEPT ![t] = again] /\ w.attempt <= remote.max_retries
  BY DEF Raised
<1>3. failed \in Workers /\ failed.pc = "failed" /\ failed.attempt = w.attempt
      /\ failed.total = w.total /\ failed.block = w.block /\ failed.left = w.left
      /\ failed.schema = w.schema
  BY <1>1 DEF Workers
<1>4. again.pc = "waiting" /\ again.attempt = w.attempt + 1
      /\ again.total = w.total /\ again.block = w.block /\ again.left = w.left
      /\ again.schema = w.schema
  BY <1>1 DEF Workers
<1>5. ASSUME w.attempt <= remote.max_retries PROVE again \in Workers
  <2>1. remote.max_retries \in -1..(MaxAttempts - 1) /\ MaxAttempts \in Nat
    BY DatasinkAssumption DEF TypeOK, RemoteArgs, Unset
  <2>2. w.attempt \in 1..MaxAttempts
    BY <1>1 DEF Workers
  <2>3. w.attempt + 1 \in 1..MaxAttempts
    BY <1>5, <2>1, <2>2
  <2>4. QED
    BY <1>1, <2>3 DEF Workers
<1> HIDE DEF again, failed
<1>6. CASE worker' = [worker EXCEPT ![t] = failed]
  BY <1>1, <1>3, <1>6 DEF Moves, SameAttempt, SameTotal, SamePlace
<1>7. CASE worker' = [worker EXCEPT ![t] = again] /\ w.attempt <= remote.max_retries
  BY <1>1, <1>4, <1>5, <1>7 DEF Moves, SameTotal, SamePlace
<1>8. QED
  BY <1>2, <1>6, <1>7

\* What a load reports is an outcome of the contract, and sums of rows are counts.
LEMMA CountedIsCounters ==
  ASSUME NEW total \in Counters, NEW o \in Load!Loaded, NEW n \in 0..Rows
  PROVE  Counted(total, o, n) \in Counters
<1>1. Rows \in Nat /\ Rows - n \in Nat /\ n \in Nat
  BY DatasinkAssumption
<1>2. QED
  BY <1>1 DEF Counted, Counters, Load!Loaded

\* Every step of a task is one of the seven kinds.
LEMMA StepDoes ==
  ASSUME TypeOK, Place, NEW t \in Tasks, Step(t) \/ Die(t)
  PROVE  Starts(t) \/ Takes(t) \/ Leaves(t) \/ Begins(t) \/ Counts(t) \/ Drops(t) \/ Ends(t)
<1> DEFINE w == worker[t]
<1>1. worker \in [Tasks -> Workers] /\ w \in Workers /\ bundle[t] \in Bundles
  BY DEF TypeOK
<1>2. bundle[t] \in Seq(Blocks) /\ Len(bundle[t]) \in Nat
  BY <1>1, UpToCounts
<1>3. CASE StartTask(t)
  <2> DEFINE v == [w EXCEPT !.pc = "block", !.block = 0, !.total = NoCounters,
                            !.metadata = sink.metadata, !.schema = sink.schema]
  <2>1. NoCounters \in Counters
    BY DEF NoCounters, Counters
  <2>2. sink.metadata \in BOOLEAN /\ sink.schema \in Schemas \cup {NoSchema}
    BY DEF TypeOK
  <2>3. v \in Workers /\ v.pc = "block" /\ v.attempt = w.attempt /\ v.block = 0
        /\ v.total = NoCounters /\ v.schema = sink.schema
    BY <1>1, <2>1, <2>2 DEF Workers
  <2>4. /\ worker' = [worker EXCEPT ![t] = v] /\ w.pc = "waiting" /\ driver = "running"
        /\ UNCHANGED <<driver, rayVars, sink, completed, loadVars>>
    BY <1>3 DEF StartTask
  <2> HIDE DEF v
  <2>5. Starts(t)
    BY <1>1, <2>3, <2>4 DEF Starts, Moves, SameAttempt
  <2>6. QED
    BY <2>5
<1>4. CASE TakeBlock(t)
  <2> DEFINE next == bundle[t][w.block + 1]
             v == [w EXCEPT !.pc = "batch", !.block = w.block + 1, !.left = next.batches,
                            !.schema = next.schema]
  <2>1. /\ w.pc = "block" /\ w.block < Len(bundle[t]) /\ w.block \in Nat
        /\ UNCHANGED <<driver, rayVars, sink, completed, loadVars>>
    BY <1>1, <1>4 DEF TakeBlock, Workers
  <2>2. next \in Blocks
    BY <1>2, <2>1
  <2>3. v \in Workers /\ v.pc = "batch" /\ v.attempt = w.attempt /\ v.block = w.block + 1
        /\ v.total = w.total /\ v.schema = next.schema /\ v.left = next.batches
    <3>1. next.batches \in Nat /\ next.schema \in Schemas /\ w.block + 1 \in Nat
      BY <2>1, <2>2, DatasinkAssumption DEF Blocks
    <3> HIDE DEF next
    <3>2. QED
      BY <1>1, <3>1 DEF Workers
  <2>4. \/ /\ worker' = [worker EXCEPT ![t] = v]
           /\ w.schema \in {NoSchema, next.schema} /\ next.schema \in Accepted
        \/ Raised(t)
    BY <1>4 DEF TakeBlock, NextBlock, SchemaFits
  <2> HIDE DEF v
  <2>5. CASE Raised(t)
    <3>1. Drops(t)
      BY <2>1, <2>5, RaisedMoves DEF Drops, loadVars
    <3>2. QED
      BY <3>1
  <2>6. CASE ~Raised(t)
    <3>1. Takes(t)
      BY <1>1, <2>1, <2>3, <2>4, <2>6 DEF Takes, Moves, SameAttempt, SameTotal
    <3>2. QED
      BY <3>1
  <2>7. QED
    BY <2>5, <2>6
<1>5. CASE LeaveBlock(t)
  <2> DEFINE v == [w EXCEPT !.pc = "block"]
  <2>1. v \in Workers /\ v.pc = "block" /\ v.attempt = w.attempt /\ v.block = w.block
        /\ v.total = w.total /\ v.schema = w.schema /\ v.left = w.left
    BY <1>1 DEF Workers
  <2>2. /\ worker' = [worker EXCEPT ![t] = v] /\ w.pc = "batch" /\ w.left = 0
        /\ UNCHANGED <<driver, rayVars, sink, completed, loadVars>>
    BY <1>1, <1>5 DEF LeaveBlock
  <2> HIDE DEF v
  <2>3. Leaves(t)
    BY <1>1, <2>1, <2>2 DEF Leaves, Moves, SameAttempt, SameTotal, SamePlace
  <2>4. QED
    BY <2>3
<1>6. CASE BeginLoad(t)
  <2> DEFINE v == [w EXCEPT !.pc = "loading"]
  <2>1. v \in Workers /\ v.pc = "loading" /\ v.attempt = w.attempt /\ v.block = w.block
        /\ v.total = w.total /\ v.schema = w.schema /\ v.left = w.left
    BY <1>1 DEF Workers
  <2>2. /\ worker' = [worker EXCEPT ![t] = v] /\ w.pc = "batch" /\ w.left > 0
        /\ begun' = begun \cup {Current(t)}
        /\ UNCHANGED <<driver, rayVars, sink, completed, filtered, outcome, committed>>
    BY <1>1, <1>6 DEF BeginLoad
  <2> HIDE DEF v
  <2>3. Begins(t)
    BY <1>1, <2>1, <2>2 DEF Begins, Moves, SameAttempt, SameTotal, SamePlace
  <2>4. QED
    BY <2>3
<1>7. CASE SerializeFails(t)
  <2>1. Drops(t)
    BY <1>7, RaisedMoves DEF SerializeFails, Drops, loadVars
  <2>2. QED
    BY <2>1
<1>8. CASE LoadReturns(t)
  <2>1. PICK o \in Load!Loaded :
            /\ Load!Report(Current(t), o)
            /\ worker' = [worker EXCEPT ![t] = [worker[t] EXCEPT
                  !.pc = "batch", !.left = worker[t].left - 1,
                  !.total = Counted(worker[t].total, o, filtered[Current(t)])]]
    BY <1>8 DEF LoadReturns
  <2>2. w.pc = "loading" /\ UNCHANGED <<driver, rayVars, sink, completed, begun, filtered>>
    BY <1>8 DEF LoadReturns
  <2>3. w.left \in Nat /\ w.left > 0 /\ w.left - 1 \in Nat
    BY <1>1, <2>2 DEF Place, Workers
  <2>4. Current(t) \in Loads
    BY <2>2, <2>3, CurrentIsLoad
  <2> DEFINE total == Counted(w.total, o, filtered[Current(t)])
             v == [w EXCEPT !.pc = "batch", !.left = w.left - 1, !.total = total]
  <2>5. filtered[Current(t)] \in 0..Rows /\ w.total \in Counters
    BY <1>1, <2>4 DEF TypeOK, Workers
  <2>6. total \in Counters
    BY <2>5, CountedIsCounters
  <2>7. worker' = [worker EXCEPT ![t] = v]
    BY <1>1, <2>1
  <2> HIDE DEF total
  <2>8. v \in Workers /\ v.pc = "batch" /\ v.attempt = w.attempt /\ v.block = w.block
        /\ v.total = total /\ v.schema = w.schema /\ v.left = w.left - 1
    BY <1>1, <2>3, <2>6 DEF Workers
  <2>9. /\ outcome[Current(t)] = "pending" /\ committed[Current(t)]
        /\ outcome' = [outcome EXCEPT ![Current(t)] = o] /\ UNCHANGED committed
    BY <2>1 DEF Load!Report
  <2> HIDE DEF v
  <2>10. Moves(t, "loading", "batch")
    BY <1>1, <2>2, <2>7, <2>8 DEF Moves
  <2>11. worker'[t] = v
    BY <1>1, <2>7
  <2>12. Counts(t)
    BY <2>2, <2>8, <2>9, <2>10, <2>11 DEF Counts, SameAttempt, total
  <2>13. QED
    BY <2>12
<1>9. CASE LoadRaises(t)
  <2>1. PICK o \in Reports \ Load!Loaded : Load!Report(Current(t), o)
    BY <1>9 DEF LoadRaises
  <2>2. o \in Load!Outcomes
    BY <2>1, DatasinkAssumption DEF Load!Outcomes, Load!Loaded, Load!Unknown
  <2>3. Drops(t)
    BY <1>9, <2>1, <2>2, RaisedMoves DEF LoadRaises, Load!Report, Drops
  <2>4. QED
    BY <2>3
<1>10. CASE Return(t)
  <2> DEFINE v == [w EXCEPT !.pc = "finished"]
  <2>1. v \in Workers /\ v.pc = "finished" /\ v.attempt = w.attempt /\ v.block = w.block
        /\ v.total = w.total /\ v.schema = w.schema /\ v.left = w.left
    BY <1>1 DEF Workers
  <2>2. /\ worker' = [worker EXCEPT ![t] = v] /\ w.pc = "block" /\ w.block = Len(bundle[t])
        /\ UNCHANGED <<driver, rayVars, sink, completed, loadVars>>
    BY <1>1, <1>10 DEF Return
  <2> HIDE DEF v
  <2>3. Ends(t)
    BY <1>1, <2>1, <2>2 DEF Ends, Moves, SameAttempt, SameTotal, SamePlace
  <2>4. QED
    BY <2>3
<1>11. CASE Die(t)
  <2>1. Drops(t)
    BY <1>11, RaisedMoves DEF Die, Drops, loadVars
  <2>2. QED
    BY <2>1
<1>12. QED
  BY <1>3, <1>4, <1>5, <1>6, <1>7, <1>8, <1>9, <1>10, <1>11 DEF Step

-----------------------------------------------------------------------------
(* Types.                                                                  *)

Fields == {"batches", "attempted", "loaded", "filtered"}

\* Only the tasks of the write have a total, and Total adds up numbers.
LEMMA TotalIsNat ==
  ASSUME TypeOK, NEW field \in Fields
  PROVE  /\ IsFiniteSet(Working)
         /\ \A t \in Working : worker[t].total[field] \in Nat
         /\ Total(field) \in Nat
<1>1. IsFiniteSet(Working)
  BY DatasinkAssumption, FS_Subset DEF Working
<1>2. \A t \in Tasks : worker[t].total \in Counters
  BY DEF TypeOK, Workers
<1>3. \A t \in Tasks : worker[t].total[field] \in Nat
  <2> TAKE t \in Tasks
  <2>1. /\ worker[t].total.batches \in Nat /\ worker[t].total.attempted \in Nat
        /\ worker[t].total.loaded \in Nat /\ worker[t].total.filtered \in Nat
    BY <1>2 DEF Counters
  <2>2. QED
    BY <2>1 DEF Fields
<1> DEFINE f == [t \in Working |-> worker[t].total[field]]
<1>4. \A t \in Working : f[t] \in Nat
  BY <1>3 DEF Working
<1>5. SumFunctionOnSet(f, Working) \in Nat
  BY <1>1, <1>4, SumRemoves
<1>6. QED
  BY <1>1, <1>3, <1>5 DEF Total, Working

\* The workers before the tasks start.
LEMMA NewWorkerIsWorker ==
  ASSUME NEW blocks
  PROVE  NewWorker(blocks) \in Workers
<1>1. NoCounters \in Counters
  BY DEF NoCounters, Counters
<1>2. 1 \in 1..MaxAttempts
  BY DatasinkAssumption
<1>3. QED
  BY <1>1, <1>2 DEF NewWorker, Workers

\* Whatever Ray was told, it is told within the bounds.
LEMMA RemoteIsArgs ==
  ASSUME NEW args \in RemoteArgs
  PROVE  ForcedArgs(args) \in RemoteArgs /\ DirectArgs(args) \in RemoteArgs
<1>1. MaxAttempts \in Nat \ {0} /\ RayDefaultRetries \in 0..(MaxAttempts - 1)
  BY DatasinkAssumption
<1>2. 0 \in -1..(MaxAttempts - 1) /\ RayDefaultRetries \in -1..(MaxAttempts - 1)
  BY <1>1
<1>3. ForcedArgs(args) \in RemoteArgs
  BY <1>2 DEF ForcedArgs, RemoteArgs, Unset
<1>4. DirectArgs(args) \in RemoteArgs
  BY <1>2 DEF DirectArgs, RemoteArgs, Unset
<1>5. QED
  BY <1>3, <1>4

\* The result of a write is one of the results.
LEMMA SummaryIsResult ==
  ASSUME TypeOK, NEW statuses
  PROVE  [status |-> SummaryStatus(statuses), batches |-> Total("batches"),
          attempted |-> Total("attempted"), loaded |-> Total("loaded"),
          filtered |-> Total("filtered")] \in Results
<1>1. SummaryStatus(statuses) \in {"success", "publish_timeout", "mixed"}
  BY DEF SummaryStatus
<1>2. /\ Total("batches") \in Nat /\ Total("attempted") \in Nat
      /\ Total("loaded") \in Nat /\ Total("filtered") \in Nat
  BY TotalIsNat DEF Fields
<1>3. QED
  BY <1>1, <1>2 DEF Results

\* Before the first step every variable has its type.
LEMMA InitTypeOK == Init => TypeOK
<1> SUFFICES ASSUME Init PROVE TypeOK
  OBVIOUS
<1>1. write \in 1..MaxWrites /\ completed \in 0..MaxWrites
  BY DatasinkAssumption DEF Init
<1>2. caller \in Callers /\ remote \in RemoteArgs
  BY DatasinkAssumption DEF Init, CallerType
<1>3. bundle \in [Tasks -> Bundles]
  BY DEF Init, Datasets
<1>4. sink \in [metadata : BOOLEAN, schema : Schemas \cup {NoSchema}, result : Results]
  BY DEF Init, Results
<1>5. worker \in [Tasks -> Workers]
  BY NewWorkerIsWorker DEF Init
<1>6. begun \subseteq Loads /\ filtered \in [Loads -> 0..Rows]
  BY DatasinkAssumption DEF Init
<1>7. Load!TypeOK
  BY DEF Init, Load!Init, Load!TypeOK, Load!Outcomes
<1>8. QED
  BY <1>1, <1>2, <1>3, <1>4, <1>5, <1>6, <1>7 DEF TypeOK, Init

\* The parts of the type invariant a step of a task can disturb.
LEMMA TaskKeepsTypeOK ==
  ASSUME TypeOK, Place, NEW t \in Tasks, Step(t) \/ Die(t)
  PROVE  TypeOK'
<1>1. CASE Starts(t)
  BY <1>1 DEF Starts, Moves, rayVars, loadVars, TypeOK, Load!TypeOK
<1>2. CASE Takes(t)
  BY <1>2 DEF Takes, Moves, rayVars, loadVars, TypeOK, Load!TypeOK
<1>3. CASE Leaves(t)
  BY <1>3 DEF Leaves, Moves, rayVars, loadVars, TypeOK, Load!TypeOK
<1>4. CASE Begins(t)
  <2>1. Current(t) \in Loads
    BY <1>4, CurrentIsLoad DEF Begins, Moves
  <2>2. QED
    BY <1>4, <2>1 DEF Begins, Moves, rayVars, TypeOK, Load!TypeOK
<1>5. CASE Counts(t)
  <2>1. outcome' \in [Loads -> Load!Outcomes]
    BY <1>5 DEF Counts, TypeOK, Load!TypeOK, Load!Outcomes
  <2>2. QED
    BY <1>5, <2>1 DEF Counts, Moves, rayVars, TypeOK, Load!TypeOK
<1>6. CASE Drops(t)
  <2>1. outcome' \in [Loads -> Load!Outcomes]
    BY <1>6 DEF Drops, TypeOK, Load!TypeOK
  <2>2. worker' \in [Tasks -> Workers] /\ UNCHANGED <<driver, rayVars, sink, completed>>
    BY <1>6 DEF Drops, Moves
  <2>3. QED
    BY <1>6, <2>1, <2>2 DEF Drops, rayVars, TypeOK, Load!TypeOK
<1>7. CASE Ends(t)
  BY <1>7 DEF Ends, Moves, rayVars, loadVars, TypeOK, Load!TypeOK
<1>8. QED
  BY <1>1, <1>2, <1>3, <1>4, <1>5, <1>6, <1>7, StepDoes

\* And after each.
LEMMA NextTypeOK == ASSUME TypeOK, Place, [Next]_vars PROVE TypeOK'
<1>1. CASE Prepare
  <2>1. caller.args \in RemoteArgs
    BY DatasinkAssumption DEF TypeOK, CallerType
  <2>2. remote' \in RemoteArgs /\ driver' \in {"failed", "prepared"}
    BY <1>1, <2>1, RemoteIsArgs DEF Prepare, TypeOK
  <2>3. QED
    BY <1>1, <2>2 DEF Prepare, loadVars, TypeOK, Load!TypeOK
<1>2. CASE OnWriteStart
  <2>1. \A t \in Working : bundle[t][1].schema \in Accepted => bundle[t][1].schema \in Schemas
    BY DatasinkAssumption
  <2>2. sink' \in [metadata : BOOLEAN, schema : Schemas \cup {NoSchema}, result : Results]
    BY <1>2, <2>1 DEF OnWriteStart, TypeOK
  <2>3. QED
    BY <1>2, <2>2 DEF OnWriteStart, rayVars, loadVars, TypeOK, Load!TypeOK
<1>3. CASE SkipWriteStart
  BY <1>3 DEF SkipWriteStart, rayVars, loadVars, TypeOK, Load!TypeOK
<1>4. CASE OnWriteComplete
  <2>1. PICK r \in Results : sink' = [sink EXCEPT !.result = r]
    BY <1>4, SummaryIsResult DEF OnWriteComplete
  <2>2. sink' \in [metadata : BOOLEAN, schema : Schemas \cup {NoSchema}, result : Results]
    BY <2>1 DEF TypeOK
  <2>3. completed' \in 0..MaxWrites
    BY <1>4, DatasinkAssumption DEF OnWriteComplete, TypeOK
  <2>4. QED
    BY <1>4, <2>2, <2>3 DEF OnWriteComplete, rayVars, loadVars, TypeOK, Load!TypeOK
<1>5. CASE OnWriteFailed
  BY <1>5 DEF OnWriteFailed, rayVars, loadVars, TypeOK, Load!TypeOK
<1>6. CASE Reuse
  <2>1. caller.writes \in 1..MaxWrites
    BY DatasinkAssumption DEF TypeOK, CallerType
  <2>2. write' \in 1..MaxWrites
    BY <1>6, <2>1, DatasinkAssumption DEF Reuse, TypeOK
  <2>3. bundle' \in [Tasks -> Bundles]
    BY <1>6 DEF Reuse, Datasets
  <2>4. worker' \in [Tasks -> Workers]
    BY <1>6, NewWorkerIsWorker DEF Reuse
  <2>5. QED
    BY <1>6, <2>2, <2>3, <2>4 DEF Reuse, loadVars, TypeOK, Load!TypeOK
<1>7. CASE \E t \in Tasks : Step(t) \/ Die(t)
  BY <1>7, TaskKeepsTypeOK
<1>8. CASE \E l \in Loads : DorisCommits(l)
  <2>1. PICK l \in Loads : DorisCommits(l)
    BY <1>8
  <2>2. filtered' \in [Loads -> 0..Rows]
    BY <2>1, DatasinkAssumption DEF DorisCommits, TypeOK
  <2>3. committed' \in [Loads -> BOOLEAN]
    BY <2>1 DEF DorisCommits, Load!Commit, TypeOK, Load!TypeOK
  <2>4. QED
    BY <2>1, <2>2, <2>3 DEF DorisCommits, Load!Commit, rayVars, TypeOK, Load!TypeOK
<1>9. CASE UNCHANGED vars
  BY <1>9 DEF vars, rayVars, loadVars, TypeOK, Load!TypeOK
<1>10. QED
  BY <1>1, <1>2, <1>3, <1>4, <1>5, <1>6, <1>7, <1>8, <1>9 DEF Next, Driver, Ended

-----------------------------------------------------------------------------
(* The driver, retries, and places in a bundle.                            *)

\* A task that takes a step was started by a running driver.
LEMMA TaskRuns ==
  ASSUME TypeOK, DriverLeads, NEW t \in Tasks,
         Starts(t) \/ Takes(t) \/ Leaves(t) \/ Begins(t) \/ Counts(t) \/ Drops(t) \/ Ends(t)
  PROVE  /\ (driver \in {"running", "failed"} /\ Started(t)) \/ Starts(t)
         /\ UNCHANGED <<driver, write, caller, remote, bundle, sink, completed>>
         /\ worker' \in [Tasks -> Workers]
         /\ \A u \in Tasks \ {t} : worker'[u] = worker[u]
         /\ worker'[t].pc # "absent"
<1>1. /\ UNCHANGED <<driver, write, caller, remote, bundle, sink, completed>>
      /\ worker' \in [Tasks -> Workers]
      /\ \A u \in Tasks \ {t} : worker'[u] = worker[u]
      /\ worker'[t].pc # "absent"
  BY DEF Starts, Takes, Leaves, Begins, Counts, Drops, Ends, Moves, rayVars
<1>2. Starts(t) \/ worker[t].pc \in {"block", "batch", "loading"}
  BY DEF Takes, Leaves, Begins, Counts, Drops, Ends, Moves
<1>3. ASSUME ~Starts(t) PROVE driver \in {"running", "failed"} /\ Started(t)
  <2>1. Started(t) /\ worker[t].pc \notin {"absent", "finished"}
    BY <1>2, <1>3 DEF Started
  <2>2. QED
    BY <2>1 DEF DriverLeads, TypeOK
<1>4. QED
  BY <1>1, <1>3

\* Before the first step no task has started.
LEMMA InitDriverLeads == Init => DriverLeads
<1> SUFFICES ASSUME Init PROVE DriverLeads
  OBVIOUS
<1>1. driver = "idle" /\ write = 1 /\ completed = 0
  BY DEF Init
<1>2. \A t \in Tasks : ~Started(t) /\ worker[t].attempt = 1
  BY DEF Init, Started, NewWorker
<1>3. QED
  BY <1>1, <1>2 DEF DriverLeads

\* The driver stays ahead of the tasks.
LEMMA NextDriverLeads ==
  ASSUME TypeOK, Place, DriverLeads, [Next]_vars
  PROVE  DriverLeads'
<1>1. write \in Nat /\ completed \in Nat
  BY DEF TypeOK
<1>2. CASE \/ Prepare \/ OnWriteStart \/ SkipWriteStart \/ OnWriteFailed
           \/ (\E l \in Loads : DorisCommits(l)) \/ UNCHANGED vars
  <2>1. UNCHANGED <<worker, write, completed>>
    BY <1>2 DEF Prepare, OnWriteStart, SkipWriteStart, OnWriteFailed, DorisCommits, vars, rayVars
  <2>2. /\ driver' \in {"idle", "prepared"} => driver \in {"idle", "prepared"}
        /\ driver' = "done" <=> driver = "done"
    BY <1>2 DEF Prepare, OnWriteStart, SkipWriteStart, OnWriteFailed, DorisCommits, vars
  <2>3. QED
    BY <2>1, <2>2 DEF DriverLeads, Started
<1>3. CASE OnWriteComplete
  <2>1. driver' = "done" /\ completed' = write /\ UNCHANGED <<write, worker>>
    BY <1>3 DEF OnWriteComplete, rayVars
  <2>2. \A t \in Tasks : worker[t].pc \in {"absent", "finished"}
    BY <1>3 DEF OnWriteComplete, Working, Place
  <2>3. QED
    BY <1>1, <2>1, <2>2 DEF DriverLeads, Started
<1>4. CASE Reuse
  <2>1. driver' = "idle" /\ write' = write + 1 /\ completed' = completed
        /\ worker' = [t \in Tasks |-> NewWorker(bundle'[t])]
    BY <1>4 DEF Reuse
  <2>2. \A t \in Tasks : worker'[t].pc \in {"absent", "waiting"} /\ worker'[t].attempt = 1
    BY <2>1 DEF NewWorker
  <2>3. completed <= write
    BY DEF DriverLeads
  <2>4. completed' <= write' /\ completed' # write'
    BY <1>1, <2>1, <2>3
  <2>5. QED
    BY <2>1, <2>2, <2>4 DEF DriverLeads, Started
<1>5. CASE \E t \in Tasks : Step(t) \/ Die(t)
  <2>1. PICK t \in Tasks : Step(t) \/ Die(t)
    BY <1>5
  <2>2. driver \in {"running", "failed"} /\ UNCHANGED <<driver, write, completed>>
    BY <2>1, StepDoes, TaskRuns DEF Starts
  <2>3. QED
    BY <2>2 DEF DriverLeads
<1>6. QED
  BY <1>2, <1>3, <1>4, <1>5 DEF Next, Driver, Ended

\* Who writes does not change.
LEMMA CallerStays == ASSUME [Next]_vars PROVE caller' = caller
  BY DEF Next, Driver, Ended, Prepare, OnWriteStart, SkipWriteStart, OnWriteComplete,
         OnWriteFailed, Reuse, Step, StartTask, TakeBlock, LeaveBlock, BeginLoad,
         SerializeFails, LoadReturns, LoadRaises, Return, Die, DorisCommits, vars, rayVars

\* No task is replayed before the first step.
LEMMA InitNothingRetried == Init => NothingRetried
<1> SUFFICES ASSUME Init PROVE NothingRetried
  OBVIOUS
<1>1. driver = "idle" /\ begun = {}
  BY DEF Init
<1>2. \A t \in Tasks : ~Started(t) /\ worker[t].attempt = 1
  BY <1>1, InitDriverLeads DEF DriverLeads
<1>3. QED
  BY <1>1, <1>2 DEF NothingRetried

\* Ray is told not to retry, and does not.
LEMMA NextNothingRetried ==
  ASSUME TypeOK, Place, DriverLeads, NothingRetried, [Next]_vars
  PROVE  NothingRetried'
<1> SUFFICES ASSUME NoReplay'
             PROVE  /\ driver' \in {"prepared", "running"} \/ (\E t \in Tasks : Started(t)') =>
                          remote'.max_retries = 0 /\ ~remote'.retry_exceptions
                    /\ \A t \in Tasks : worker'[t].attempt = 1
                    /\ \A l \in begun' : l[3] = 1
  BY DEF NothingRetried
<1>1. caller' = caller
  BY CallerStays
<1>2. NoReplay
  BY <1>1 DEF NoReplay
<1>3. /\ driver \in {"prepared", "running"} \/ (\E t \in Tasks : Started(t)) =>
            remote.max_retries = 0 /\ ~remote.retry_exceptions
      /\ \A t \in Tasks : worker[t].attempt = 1
      /\ \A l \in begun : l[3] = 1
  BY <1>2 DEF NothingRetried
<1>4. CASE Prepare
  <2>1. UNCHANGED <<worker, begun>> /\ \A t \in Tasks : ~Started(t)
    BY <1>4 DEF Prepare, loadVars, DriverLeads
  <2>2. caller.args \in RemoteArgs
    BY DatasinkAssumption DEF TypeOK, CallerType
  <2>3. CASE driver' = "prepared"
    <3>1. CASE caller.facade
      <4>1. ~Rejected(caller.args) /\ remote' = ForcedArgs(caller.args)
        BY <1>4, <2>3, <3>1 DEF Prepare
      <4>2. remote'.max_retries = 0 /\ ~remote'.retry_exceptions
        BY <2>2, <4>1 DEF Rejected, ForcedArgs, RemoteArgs
      <4>3. QED
        BY <1>3, <2>1, <4>2 DEF Started
    <3>2. CASE ~caller.facade
      <4>1. remote' = DirectArgs(caller.args)
        BY <1>4, <2>3, <3>2 DEF Prepare
      <4>2. caller.args.max_retries = 0 /\ ~caller.args.retry_exceptions
        BY <1>2, <3>2 DEF NoReplay
      <4>3. remote'.max_retries = 0 /\ ~remote'.retry_exceptions
        BY <2>2, <4>1, <4>2 DEF DirectArgs, RemoteArgs, Unset
      <4>4. QED
        BY <1>3, <2>1, <4>3 DEF Started
    <3>3. QED
      BY <3>1, <3>2
  <2>4. CASE driver' # "prepared"
    <3>1. driver' = "failed"
      BY <1>4, <2>4 DEF Prepare
    <3>2. QED
      BY <1>3, <2>1, <3>1 DEF Started
  <2>5. QED
    BY <2>3, <2>4
<1>5. CASE \/ OnWriteStart \/ SkipWriteStart \/ OnWriteComplete \/ OnWriteFailed
           \/ (\E l \in Loads : DorisCommits(l)) \/ UNCHANGED vars
  <2>1. UNCHANGED <<worker, remote, begun>>
    BY <1>5 DEF OnWriteStart, SkipWriteStart, OnWriteComplete, OnWriteFailed, DorisCommits,
                vars, rayVars, loadVars
  <2>2. driver' \in {"prepared", "running"} => driver \in {"prepared", "running"}
    BY <1>5 DEF OnWriteStart, SkipWriteStart, OnWriteComplete, OnWriteFailed, DorisCommits, vars
  <2>3. QED
    BY <1>3, <2>1, <2>2 DEF Started
<1>6. CASE Reuse
  <2>1. driver' = "idle" /\ begun' = begun /\ \A t \in Tasks :
            worker'[t].pc \in {"absent", "waiting"} /\ worker'[t].attempt = 1
    BY <1>6 DEF Reuse, NewWorker, loadVars
  <2>2. QED
    BY <1>3, <2>1 DEF Started
<1>7. CASE \E t \in Tasks : Step(t) \/ Die(t)
  <2>1. PICK t \in Tasks : Step(t) \/ Die(t)
    BY <1>7
  <2> DEFINE Kinds == Starts(t) \/ Takes(t) \/ Leaves(t) \/ Begins(t) \/ Counts(t)
                         \/ Drops(t) \/ Ends(t)
  <2>2. Kinds
    BY <2>1, StepDoes
  <2>3. /\ (driver \in {"running", "failed"} /\ Started(t)) \/ Starts(t)
        /\ UNCHANGED <<driver, remote>> /\ \A u \in Tasks \ {t} : worker'[u] = worker[u]
    BY <2>2, TaskRuns
  <2>4. remote.max_retries = 0 /\ ~remote.retry_exceptions
    BY <1>3, <2>3 DEF Starts
  <2>5. worker'[t].attempt = worker[t].attempt
    BY <1>3, <2>2, <2>4 DEF Starts, Takes, Leaves, Begins, Counts, Drops, Ends, SameAttempt
  <2>6. \A l \in begun' : l[3] = 1
    BY <1>3, <2>2 DEF Starts, Takes, Leaves, Begins, Counts, Drops, Ends, loadVars, Current
  <2>7. QED
    BY <1>3, <2>3, <2>4, <2>5, <2>6
<1>8. QED
  BY <1>4, <1>5, <1>6, <1>7 DEF Next, Driver, Ended

\* A worker that has not started stands at the beginning of its bundle.
LEMMA NewPlace ==
  ASSUME NEW blocks
  PROVE  LET w == NewWorker(blocks)
         IN  /\ w.pc \in {"absent", "waiting"}
             /\ w.pc = "absent" <=> blocks = <<>>
             /\ w.total = NoCounters /\ w.attempt = 1
  BY DEF NewWorker

\* Before the first step, the workers are new.
LEMMA InitPlace == Init => Place
<1> SUFFICES ASSUME Init, NEW t \in Tasks
             PROVE  LET w == worker[t]
                        upTo == BatchesUpTo(bundle[t])
                    IN  /\ w.pc = "absent" <=> bundle[t] = <<>>
                        /\ ~Started(t) /\ w.attempt = 1 => w.total = NoCounters
                        /\ Started(t) => w.block \in 0..Len(bundle[t])
                        /\ w.pc = "block" => w.total.batches = upTo[w.block]
                        /\ w.pc \in {"batch", "loading"} =>
                              /\ w.block # 0 /\ w.left <= bundle[t][w.block].batches
                              /\ w.total.batches + w.left = upTo[w.block]
                        /\ w.pc = "loading" => w.left > 0
                        /\ w.pc = "finished" => w.total.batches = upTo[Len(bundle[t])]
  BY DEF Place
<1>1. worker[t] = NewWorker(bundle[t])
  BY DEF Init
<1>2. QED
  BY <1>1, NewPlace DEF Started

\* A task moves through its bundle block by block and batch by batch.
LEMMA TaskKeepsPlace ==
  ASSUME TypeOK, Place, DriverLeads, NEW t \in Tasks,
         Starts(t) \/ Takes(t) \/ Leaves(t) \/ Begins(t) \/ Counts(t) \/ Drops(t) \/ Ends(t)
  PROVE  Place'
<1> DEFINE w == worker[t]
           v == worker'[t]
           n == Len(bundle[t])
           upTo == BatchesUpTo(bundle[t])
           At(x) == /\ x.pc # "absent"
                    /\ x.pc = "waiting" /\ x.attempt = 1 => x.total = NoCounters
                    /\ x.pc # "waiting" => x.block \in 0..n
                    /\ x.pc = "block" => x.total.batches = upTo[x.block]
                    /\ x.pc \in {"batch", "loading"} =>
                          /\ x.block # 0 /\ x.left <= bundle[t][x.block].batches
                          /\ x.total.batches + x.left = upTo[x.block]
                    /\ x.pc = "loading" => x.left > 0
                    /\ x.pc = "finished" => x.total.batches = upTo[n]
<1>1. /\ UNCHANGED bundle /\ \A u \in Tasks \ {t} : worker'[u] = worker[u]
      /\ v.pc # "absent" /\ v \in Workers /\ w \in Workers
  BY TaskRuns DEF TypeOK
<1>2. w.pc # "absent"
  BY DEF Starts, Takes, Leaves, Begins, Counts, Drops, Ends, Moves
<1>3. At(w) /\ bundle[t] # <<>>
  BY <1>2 DEF Place, Started
<1>4. /\ n \in Nat /\ upTo[0] = 0
      /\ \A i \in 0..n : upTo[i] \in Nat
      /\ \A i \in 1..n : bundle[t][i] \in Blocks /\ upTo[i] = upTo[i - 1] + bundle[t][i].batches
  BY UpToCounts DEF TypeOK
<1>5. w.attempt \in Nat /\ w.block \in Nat /\ w.left \in Nat /\ w.total.batches \in Nat
      /\ w.attempt >= 1
  BY <1>1 DEF Workers, Counters
<1> HIDE DEF upTo, n
<1>6. At(v)
  <2>1. CASE Starts(t)
    <3>1. v.pc = "block" /\ v.block = 0 /\ v.total.batches = 0
      BY <2>1 DEF Starts, Moves, NoCounters
    <3>2. QED
      BY <1>4, <3>1
  <2>2. CASE Takes(t)
    <3>1. /\ w.pc = "block" /\ v.pc = "batch" /\ w.block < n /\ v.block = w.block + 1
          /\ v.left = bundle[t][v.block].batches /\ v.total = w.total
      BY <2>2 DEF Takes, Moves, SameTotal, n
    <3>2. v.block \in 1..n /\ v.block - 1 = w.block
      BY <1>4, <1>5, <3>1
    <3>3. upTo[v.block] = upTo[w.block] + v.left /\ v.left \in Nat
      BY <1>4, <3>1, <3>2, DatasinkAssumption DEF Blocks
    <3>4. QED
      BY <1>3, <1>5, <3>1, <3>2, <3>3
  <2>3. CASE Leaves(t)
    <3>1. w.pc = "batch" /\ v.pc = "block" /\ w.left = 0 /\ v.block = w.block /\ v.total = w.total
      BY <2>3 DEF Leaves, Moves, SameTotal, SamePlace
    <3>2. QED
      BY <1>3, <1>5, <3>1
  <2>4. CASE Begins(t)
    <3>1. w.pc = "batch" /\ v.pc = "loading" /\ w.left > 0 /\ v.left = w.left
          /\ v.block = w.block /\ v.total = w.total
      BY <2>4 DEF Begins, Moves, SameTotal, SamePlace
    <3>2. QED
      BY <1>3, <1>5, <3>1
  <2>5. CASE Counts(t)
    <3>1. /\ w.pc = "loading" /\ v.pc = "batch" /\ v.left = w.left - 1
          /\ v.block = w.block /\ v.total.batches = w.total.batches + 1
      BY <2>5 DEF Counts, Moves, Counted
    <3>2. bundle[t][w.block].batches \in Nat
      <4>1. w.block \in 1..n
        BY <1>3, <1>4, <1>5, <3>1
      <4>2. QED
        BY <1>4, <4>1, DatasinkAssumption DEF Blocks
    <3>3. w.left > 0 /\ w.block # 0 /\ w.block \in 0..n
          /\ w.left <= bundle[t][w.block].batches /\ w.total.batches + w.left = upTo[w.block]
      BY <1>3, <3>1
    <3>4. v.left <= bundle[t][v.block].batches /\ v.total.batches + v.left = upTo[v.block]
      BY <1>5, <3>1, <3>2, <3>3
    <3>5. QED
      BY <3>1, <3>3, <3>4
  <2>6. CASE Drops(t)
    <3>1. /\ v.block = w.block
          /\ v.pc = "failed" \/ (v.pc = "waiting" /\ v.attempt = w.attempt + 1)
          /\ w.pc \in {"block", "batch", "loading"}
      BY <2>6 DEF Drops, Moves, SamePlace
    <3>2. v.attempt # 1 \/ v.pc = "failed"
      BY <1>5, <3>1
    <3>3. QED
      BY <1>3, <3>1, <3>2
  <2>7. CASE Ends(t)
    <3>1. w.pc = "block" /\ v.pc = "finished" /\ w.block = n /\ v.block = w.block
          /\ v.total = w.total
      BY <2>7 DEF Ends, Moves, SameTotal, SamePlace, n
    <3>2. QED
      BY <1>3, <3>1
  <2>8. QED
    BY <2>1, <2>2, <2>3, <2>4, <2>5, <2>6, <2>7
<1>7. QED
  <2>1. ASSUME NEW u \in Tasks
        PROVE  LET x == worker'[u]
                   upToU == BatchesUpTo(bundle[u])
               IN  /\ x.pc = "absent" <=> bundle[u] = <<>>
                   /\ ~Started(u)' /\ x.attempt = 1 => x.total = NoCounters
                   /\ Started(u)' => x.block \in 0..Len(bundle[u])
                   /\ x.pc = "block" => x.total.batches = upToU[x.block]
                   /\ x.pc \in {"batch", "loading"} =>
                         /\ x.block # 0 /\ x.left <= bundle[u][x.block].batches
                         /\ x.total.batches + x.left = upToU[x.block]
                   /\ x.pc = "loading" => x.left > 0
                   /\ x.pc = "finished" => x.total.batches = upToU[Len(bundle[u])]
    <3>1. CASE u = t
      BY <1>1, <1>3, <1>6, <3>1 DEF Started, upTo, n
    <3>2. CASE u # t
      BY <1>1, <3>2 DEF Place, Started
    <3>3. QED
      BY <3>1, <3>2
  <2>2. QED
    BY <1>1, <2>1 DEF Place

\* The driver and Doris leave the workers where they are.
LEMMA NextPlace ==
  ASSUME TypeOK, Place, DriverLeads, [Next]_vars
  PROVE  Place'
<1>1. CASE \/ Driver \/ (\E l \in Loads : DorisCommits(l)) \/ UNCHANGED vars
  <2>1. UNCHANGED <<worker, bundle>>
    BY <1>1 DEF Driver, Prepare, OnWriteStart, SkipWriteStart, OnWriteComplete, OnWriteFailed,
                DorisCommits, vars, rayVars
  <2>2. QED
    BY <2>1 DEF Place, Started
<1>2. CASE Reuse
  <2>1. \A t \in Tasks : worker'[t] = NewWorker(bundle'[t])
    BY <1>2 DEF Reuse
  <2>2. \A t \in Tasks :
            /\ ~Started(t)' /\ worker'[t].pc \in {"absent", "waiting"}
            /\ worker'[t].pc = "absent" <=> bundle'[t] = <<>>
            /\ worker'[t].total = NoCounters
    BY <2>1, NewPlace DEF Started
  <2>3. QED
    BY <2>2 DEF Place
<1>3. CASE \E t \in Tasks : Step(t) \/ Die(t)
  BY <1>3, StepDoes, TaskKeepsPlace
<1>4. QED
  BY <1>1, <1>2, <1>3 DEF Next, Ended

-----------------------------------------------------------------------------
(* The loads that were sent.                                               *)

\* The attempts and batches of a load are numbers, and so are those of a worker.
LEMMA LoadNumbers ==
  ASSUME TypeOK
  PROVE  /\ \A l \in begun : /\ l \in Loads /\ l = <<l[1], l[2], l[3], l[4]>>
                             /\ l[1] \in Nat /\ l[2] \in Tasks /\ l[3] \in Nat /\ l[4] \in Nat
                             /\ l[4] >= 1
         /\ \A t \in Tasks : worker[t].attempt \in Nat /\ worker[t].total.batches \in Nat
         /\ write \in Nat
<1>1. \A l \in Loads : /\ l = <<l[1], l[2], l[3], l[4]>>
                       /\ l[1] \in Nat /\ l[2] \in Tasks /\ l[3] \in Nat /\ l[4] \in Nat
                       /\ l[4] >= 1
  BY DEF Loads
<1>2. begun \subseteq Loads /\ write \in Nat
  BY DEF TypeOK
<1>3. \A t \in Tasks : worker[t].attempt \in Nat /\ worker[t].total.batches \in Nat
  BY DEF TypeOK, Workers, Counters
<1>4. QED
  BY <1>1, <1>2, <1>3

\* What Sent says of one load and the worker x of its task.
SentBy(l, x) ==
    /\ l[3] <= x.attempt
    /\ l[3] = x.attempt =>
          /\ x.pc \notin {"absent", "waiting"}
          /\ \/ l[4] <= x.total.batches
             \/ x.pc \in {"loading", "failed"} /\ l[4] = x.total.batches + 1

\* In those words.
LEMMA SentIs ==
  Sent <=> /\ IsFiniteSet(begun)
           /\ \A l \in begun : l[1] <= write
           /\ \A l \in LoadsOf(write) : SentBy(l, worker[l[2]])
           /\ \A t \in Tasks : worker[t].pc = "loading" => Current(t) \in begun
  BY DEF Sent, SentBy, Started

\* No load was sent before the first step.
LEMMA InitSent == Init => Sent
<1> SUFFICES ASSUME Init PROVE Sent
  OBVIOUS
<1>1. begun = {} /\ \A t \in Tasks : worker[t].pc # "loading"
  BY DEF Init, NewWorker
<1>2. QED
  BY <1>1, FS_EmptySet DEF Sent, LoadsOf

\* A task sends one load more when it begins one, and none otherwise.
LEMMA TaskKeepsSent ==
  ASSUME TypeOK, Sent, DriverLeads, NEW t \in Tasks,
         Starts(t) \/ Takes(t) \/ Leaves(t) \/ Begins(t) \/ Counts(t) \/ Drops(t) \/ Ends(t)
  PROVE  Sent'
<1> DEFINE w == worker[t]
           v == worker'[t]
<1>1. UNCHANGED write /\ \A u \in Tasks \ {t} : worker'[u] = worker[u]
  BY TaskRuns
<1>2. /\ begun' = begun \/ (Begins(t) /\ begun' = begun \cup {Current(t)})
      /\ v.pc = "loading" => Begins(t)
  BY DEF Starts, Takes, Leaves, Begins, Counts, Drops, Ends, Moves, loadVars
<1>3. w.attempt \in Nat /\ w.total.batches \in Nat /\ write \in Nat
  BY LoadNumbers
<1>4. IsFiniteSet(begun')
  BY <1>2, FS_AddElement DEF Sent
<1>5. \A l \in begun' : l[1] <= write'
  BY <1>1, <1>2, <1>3 DEF Sent, Current
<1>6. ASSUME NEW l, l[3] \in Nat, l[4] \in Nat, SentBy(l, w) PROVE SentBy(l, v)
  <2>1. CASE Starts(t)
    BY <1>6, <2>1 DEF Starts, Moves, SameAttempt, SentBy
  <2>2. CASE Takes(t) \/ Leaves(t) \/ Begins(t) \/ Ends(t)
    <3>1. w.pc \in {"block", "batch"} /\ v.pc \notin {"absent", "waiting"}
          /\ v.total = w.total /\ v.attempt = w.attempt
      BY <2>2 DEF Takes, Leaves, Begins, Ends, Moves, SameAttempt, SameTotal
    <3>2. QED
      BY <1>6, <3>1 DEF SentBy
  <2>3. CASE Counts(t)
    <3>1. w.pc = "loading" /\ v.pc = "batch" /\ v.total.batches = w.total.batches + 1
          /\ v.attempt = w.attempt
      BY <2>3 DEF Counts, Moves, SameAttempt, Counted
    <3>2. QED
      BY <1>3, <1>6, <3>1 DEF SentBy
  <2>4. CASE Drops(t)
    <3>1. /\ w.pc \in {"block", "batch", "loading"} /\ v.total = w.total
          /\ (v.pc = "failed" /\ v.attempt = w.attempt) \/ v.attempt = w.attempt + 1
      BY <2>4 DEF Drops, Moves, SameAttempt, SameTotal
    <3>2. QED
      BY <1>3, <1>6, <3>1 DEF SentBy
  <2>5. QED
    BY <2>1, <2>2, <2>3, <2>4
<1>7. ASSUME Begins(t) PROVE SentBy(Current(t), v)
  <2>1. v.pc = "loading" /\ v.total = w.total /\ v.attempt = w.attempt
    BY <1>7 DEF Begins, Moves, SameAttempt, SameTotal
  <2>2. QED
    BY <1>3, <2>1 DEF SentBy, Current
<1>8. ASSUME NEW l \in begun', l[1] = write' PROVE SentBy(l, worker'[l[2]])
  <2>1. CASE l \in begun
    <3>1. SentBy(l, worker[l[2]]) /\ l[2] \in Tasks /\ l[3] \in Nat /\ l[4] \in Nat
      BY <1>1, <1>8, <2>1, SentIs, LoadNumbers DEF LoadsOf
    <3>2. QED
      BY <1>1, <1>6, <3>1
  <2>2. CASE l \notin begun
    <3>1. Begins(t) /\ l = Current(t) /\ l[2] = t
      BY <1>2, <2>2 DEF Current
    <3>2. QED
      BY <1>7, <3>1
  <2>3. QED
    BY <2>1, <2>2
<1>9. ASSUME NEW u \in Tasks, worker'[u].pc = "loading" PROVE Current(u)' \in begun'
  <2>1. CASE u = t
    <3>1. Begins(t) /\ Current(t)' = Current(t)
      BY <1>1, <1>2, <1>9, <2>1 DEF Begins, SameAttempt, SameTotal, Current
    <3>2. QED
      BY <2>1, <3>1 DEF Begins
  <2>2. CASE u # t
    BY <1>1, <1>2, <1>9, <2>2 DEF Sent, Current
  <2>3. QED
    BY <2>1, <2>2
<1>10. QED
  BY <1>4, <1>5, <1>8, <1>9 DEF Sent, SentBy, LoadsOf, Started

\* Neither the driver nor Doris sends any, and a new write has sent none.
LEMMA NextSent ==
  ASSUME TypeOK, Place, DriverLeads, Sent, [Next]_vars
  PROVE  Sent'
<1>1. CASE \/ Driver \/ (\E l \in Loads : DorisCommits(l)) \/ UNCHANGED vars
  <2>1. UNCHANGED <<worker, write, begun>>
    BY <1>1 DEF Driver, Prepare, OnWriteStart, SkipWriteStart, OnWriteComplete, OnWriteFailed,
                DorisCommits, vars, rayVars, loadVars
  <2>2. QED
    BY <2>1 DEF Sent, LoadsOf, Started, Current
<1>2. CASE Reuse
  <2>1. begun' = begun /\ write' = write + 1
        /\ \A t \in Tasks : worker'[t].pc \in {"absent", "waiting"}
    BY <1>2, NewPlace DEF Reuse, loadVars
  <2>2. \A l \in begun : l[1] <= write /\ l[1] \in Nat /\ write \in Nat
    BY LoadNumbers DEF Sent
  <2>3. \A l \in begun' : l[1] <= write' /\ l[1] # write'
    BY <2>1, <2>2
  <2>4. QED
    BY <2>1, <2>3 DEF Sent, LoadsOf
<1>3. CASE \E t \in Tasks : Step(t) \/ Die(t)
  BY <1>3, StepDoes, TaskKeepsSent
<1>4. QED
  BY <1>1, <1>2, <1>3 DEF Next, Ended

-----------------------------------------------------------------------------
(* What the loads have become.                                             *)

\* A load that was sent stays sent, a commit is not undone, and a report that a load
\* is in Doris is the last one.
LEMMA ReportsAreFinal ==
  ASSUME TypeOK, Place, [Next]_vars
  PROVE  /\ begun \subseteq begun'
         /\ \A l \in Loads :
               /\ committed[l] => committed'[l] /\ filtered'[l] = filtered[l]
               /\ outcome[l] \in Load!Loaded => outcome'[l] = outcome[l]
<1>0. committed \in [Loads -> BOOLEAN] /\ outcome \in [Loads -> Load!Outcomes]
      /\ filtered \in [Loads -> 0..Rows]
  BY DEF TypeOK, Load!TypeOK
<1>1. CASE Driver \/ Reuse \/ UNCHANGED vars
  BY <1>1 DEF Driver, Prepare, OnWriteStart, SkipWriteStart, OnWriteComplete, OnWriteFailed,
              Reuse, vars, loadVars
<1>2. CASE \E l \in Loads : DorisCommits(l)
  <2>1. PICK m \in Loads : DorisCommits(m)
    BY <1>2
  <2>2. PICK n \in Filtered : filtered' = [filtered EXCEPT ![m] = n]
    BY <2>1 DEF DorisCommits
  <2>3. /\ ~committed[m] /\ committed' = [committed EXCEPT ![m] = TRUE]
        /\ outcome' = outcome /\ begun' = begun
    BY <2>1 DEF DorisCommits, Load!Commit
  <2>4. QED
    BY <1>0, <2>2, <2>3
<1>3. CASE \E t \in Tasks : Step(t) \/ Die(t)
  <2>1. PICK t \in Tasks : Step(t) \/ Die(t)
    BY <1>3
  <2>2. /\ begun' = begun \/ begun' = begun \cup {Current(t)}
        /\ UNCHANGED <<filtered, committed>>
        /\ \/ outcome' = outcome
           \/ /\ outcome[Current(t)] = "pending"
              /\ \E o \in Load!Outcomes : outcome' = [outcome EXCEPT ![Current(t)] = o]
    BY <2>1, StepDoes DEF Starts, Takes, Leaves, Begins, Counts, Drops, Ends, loadVars,
                          Load!Outcomes
  <2>3. QED
    BY <1>0, <2>2 DEF Load!Loaded
<1>4. QED
  BY <1>1, <1>2, <1>3 DEF Next, Ended

\* What CountedIsLoaded says of one worker.
CountedBy(t) ==
    /\ \A k \in 1..worker[t].total.batches :
          /\ LoadOf(t, k) \in begun /\ committed[LoadOf(t, k)]
          /\ outcome[LoadOf(t, k)] \in Load!Loaded
    /\ worker[t].total.statuses =
          {outcome[LoadOf(t, k)] : k \in 1..worker[t].total.batches}

\* A worker whose attempt and total stay keeps what it has counted.
LEMMA CountedStays ==
  ASSUME TypeOK, Place, [Next]_vars, NEW t \in Tasks, CountedBy(t),
         write' = write, worker'[t].attempt = worker[t].attempt,
         worker'[t].total = worker[t].total
  PROVE  CountedBy(t)'
<1> DEFINE n == worker[t].total.batches
<1>1. \A k \in 1..n : LoadOf(t, k)' = LoadOf(t, k)
  BY DEF LoadOf
<1>2. \A k \in 1..n : /\ LoadOf(t, k) \in Loads
                      /\ LoadOf(t, k) \in begun' /\ committed'[LoadOf(t, k)]
                      /\ outcome'[LoadOf(t, k)] = outcome[LoadOf(t, k)]
                      /\ outcome[LoadOf(t, k)] \in Load!Loaded
  BY ReportsAreFinal DEF CountedBy, TypeOK
<1>3. {outcome'[LoadOf(t, k)'] : k \in 1..n} = {outcome[LoadOf(t, k)] : k \in 1..n}
  BY <1>1, <1>2
<1>4. QED
  BY <1>1, <1>2, <1>3 DEF CountedBy

\* A load() that returned is counted.
LEMMA CountsOne ==
  ASSUME TypeOK, Place, Sent, [Next]_vars, NEW t \in Tasks, CountedBy(t), Counts(t)
  PROVE  CountedBy(t)'
<1> DEFINE n == worker[t].total.batches
           o == outcome'[Current(t)]
<1>1. /\ worker[t].pc = "loading" /\ write' = write
      /\ worker'[t].attempt = worker[t].attempt /\ begun' = begun /\ committed' = committed
      /\ committed[Current(t)]
  BY DEF Counts, Moves, SameAttempt, rayVars
<1>2. n \in Nat /\ Current(t) \in begun /\ begun \subseteq Loads /\ outcome \in [Loads -> Load!Outcomes]
  BY <1>1, LoadNumbers DEF Sent, TypeOK, Load!TypeOK
<1>3. /\ worker'[t].total.batches = n + 1
      /\ worker'[t].total.statuses = worker[t].total.statuses \cup {o}
      /\ o \in Load!Loaded
  BY <1>2 DEF Counts, Counted
<1>4. Current(t) = LoadOf(t, n + 1) /\ \A k \in Nat : LoadOf(t, k)' = LoadOf(t, k)
  BY <1>1 DEF Current, LoadOf
<1>5. \A k \in 1..n : /\ LoadOf(t, k) \in begun' /\ committed'[LoadOf(t, k)]
                      /\ outcome'[LoadOf(t, k)] = outcome[LoadOf(t, k)]
                      /\ outcome[LoadOf(t, k)] \in Load!Loaded
  BY <1>2, ReportsAreFinal DEF CountedBy
<1>6. \A k \in 1..(n + 1) : k \in 1..n \/ k = n + 1
  BY <1>2
<1>7. 1..(n + 1) = 1..n \cup {n + 1}
  BY <1>2
<1> HIDE DEF o, n
<1>8. \A k \in 1..(n + 1) : /\ LoadOf(t, k)' \in begun' /\ committed'[LoadOf(t, k)']
                            /\ outcome'[LoadOf(t, k)'] \in Load!Loaded
  BY <1>1, <1>2, <1>3, <1>4, <1>5, <1>6 DEF o
<1>9. {outcome'[LoadOf(t, k)'] : k \in 1..(n + 1)} = {outcome[LoadOf(t, k)] : k \in 1..n} \cup {o}
  BY <1>2, <1>4, <1>5, <1>7 DEF o
<1>10. worker[t].total.statuses = {outcome[LoadOf(t, k)] : k \in 1..n}
  BY DEF CountedBy, n
<1>11. QED
  BY <1>3, <1>8, <1>9, <1>10 DEF CountedBy

\* Before the first step, no worker has started.
LEMMA InitCountedIsLoaded == Init => CountedIsLoaded
  BY InitDriverLeads DEF CountedIsLoaded, DriverLeads, Init

\* The count stays right over every step.
LEMMA NextCountedIsLoaded ==
  ASSUME TypeOK, Place, DriverLeads, Sent, CountedIsLoaded, [Next]_vars
  PROVE  CountedIsLoaded'
<1>1. ASSUME NEW u \in Tasks, Started(u)' PROVE CountedBy(u)'
  <2>1. CASE \/ Driver \/ (\E l \in Loads : DorisCommits(l)) \/ UNCHANGED vars
    <3>1. UNCHANGED <<worker, write>>
      BY <2>1 DEF Driver, Prepare, OnWriteStart, SkipWriteStart, OnWriteComplete,
                  OnWriteFailed, DorisCommits, vars, rayVars
    <3>2. CountedBy(u)
      BY <1>1, <3>1 DEF CountedIsLoaded, CountedBy, Started
    <3>3. QED
      BY <3>1, <3>2, CountedStays
  <2>2. CASE Reuse
    BY <1>1, <2>2, NewPlace DEF Reuse, Started
  <2>3. CASE \E t \in Tasks : Step(t) \/ Die(t)
    <3>1. PICK t \in Tasks : Step(t) \/ Die(t)
      BY <2>3
    <3> DEFINE Kinds == Starts(t) \/ Takes(t) \/ Leaves(t) \/ Begins(t) \/ Counts(t)
                           \/ Drops(t) \/ Ends(t)
    <3>2. Kinds
      BY <3>1, StepDoes
    <3>3. /\ Started(t) \/ Starts(t)
          /\ UNCHANGED write
          /\ \A x \in Tasks \ {t} : worker'[x] = worker[x]
      BY <3>2, TaskRuns
    <3>4. CASE u # t
      <4>1. worker'[u] = worker[u] /\ UNCHANGED write
        BY <3>3, <3>4
      <4>2. CountedBy(u)
        BY <1>1, <4>1 DEF CountedIsLoaded, CountedBy, Started
      <4>3. QED
        BY <4>1, <4>2, CountedStays
    <3>5. CASE u = t /\ Starts(t)
      <4>1. worker'[u].total = NoCounters
        BY <3>5 DEF Starts
      <4>2. worker'[u].total.statuses = {} /\ worker'[u].total.batches = 0
        BY <4>1 DEF NoCounters
      <4>3. 1..0 = {}
        OBVIOUS
      <4>4. QED
        BY <4>2, <4>3 DEF CountedBy
    <3>6. CASE u = t /\ ~Starts(t)
      <4>1. CountedBy(u) /\ UNCHANGED write
        BY <3>3, <3>6 DEF CountedIsLoaded, CountedBy
      <4>2. CASE Counts(t)
        BY <3>6, <4>1, <4>2, CountsOne
      <4>3. CASE ~Counts(t)
        <5>1. worker'[u].attempt = worker[u].attempt /\ worker'[u].total = worker[u].total
          BY <1>1, <3>2, <3>6, <4>3 DEF Takes, Leaves, Begins, Drops, Ends, Moves, SameAttempt,
                                        SameTotal, Started
        <5>2. QED
          BY <4>1, <5>1, CountedStays
      <4>4. QED
        BY <4>2, <4>3
    <3>7. QED
      BY <3>4, <3>5, <3>6
  <2>4. QED
    BY <2>1, <2>2, <2>3 DEF Next, Ended
<1>2. QED
  BY <1>1 DEF CountedIsLoaded, CountedBy

\* A batch is sent when those before it are in Doris.
LEMMA NextInOrder ==
  ASSUME TypeOK, Place, DriverLeads, Sent, CountedIsLoaded, InOrder, [Next]_vars
  PROVE  InOrder'
<1> SUFFICES ASSUME NEW l \in begun', NEW m \in begun',
                    l[1] = m[1], l[2] = m[2], l[3] = m[3], l[4] < m[4]
             PROVE  outcome'[l] \in Load!Loaded /\ committed'[l]
  BY DEF InOrder
<1>1. begun \subseteq Loads
  BY DEF TypeOK
<1>2. CASE l \in begun /\ m \in begun
  <2>1. outcome[l] \in Load!Loaded /\ committed[l] /\ l \in Loads
    BY <1>1, <1>2 DEF InOrder
  <2>2. QED
    BY <2>1, ReportsAreFinal
<1>3. CASE ~(l \in begun /\ m \in begun)
  <2>1. PICK t \in Tasks : Begins(t) /\ begun' = begun \cup {Current(t)}
    <3>1. begun' # begun
      BY <1>3
    <3>2. CASE \E t \in Tasks : Step(t) \/ Die(t)
      <4>1. PICK t \in Tasks : Step(t) \/ Die(t)
        BY <3>2
      <4>2. Begins(t)
        BY <3>1, <4>1, StepDoes DEF Starts, Takes, Leaves, Begins, Counts, Drops, Ends, loadVars
      <4>3. QED
        BY <4>2 DEF Begins
    <3>3. QED
      BY <3>1, <3>2 DEF Next, Ended, Driver, Prepare, OnWriteStart, SkipWriteStart,
                        OnWriteComplete, OnWriteFailed, Reuse, DorisCommits, vars, loadVars
  <2> DEFINE n == worker[t].total.batches
             c == Current(t)
  <2>2. /\ worker[t].pc = "batch" /\ n \in Nat /\ write \in Nat
        /\ c[1] = write /\ c[2] = t /\ c[3] = worker[t].attempt /\ c[4] = n + 1
    BY <2>1, LoadNumbers DEF Begins, Moves, Current
  <2>3. ASSUME NEW x \in begun, x[1] = write, x[2] = t, x[3] = worker[t].attempt
        PROVE  x[4] <= n
    BY <2>2, <2>3, SentIs DEF SentBy, LoadsOf
  <2>4. l \in begun /\ m = c
    <3>1. l = c => m \in begun /\ m[4] <= n
      BY <2>1, <2>2, <2>3
    <3>2. m \in begun => m[4] \in Nat
      BY LoadNumbers
    <3> HIDE DEF c, n
    <3>3. l # c
      BY <2>2, <3>1, <3>2
    <3>4. QED
      BY <1>3, <2>1, <3>3 DEF c
  <2>5. l[1] = write /\ l[2] = t /\ l[3] = worker[t].attempt
    BY <2>2, <2>4
  <2>6. l = LoadOf(t, l[4]) /\ l[4] \in 1..n
    BY <2>2, <2>3, <2>4, <2>5, LoadNumbers DEF LoadOf
  <2>7. Started(t)
    BY <2>2 DEF Started
  <2>8. outcome[l] \in Load!Loaded /\ committed[l] /\ l \in Loads
    BY <1>1, <2>4, <2>6, <2>7 DEF CountedIsLoaded
  <2>9. QED
    BY <2>8, ReportsAreFinal
<1>4. QED
  BY <1>2, <1>3

-----------------------------------------------------------------------------
(* Schemas.                                                                *)

\* What SchemaKept says of one worker x with blocks to send, and of one load.
SchemaOfWorker(x, blocks) ==
    /\ caller.schema => sink.schema # NoSchema /\ x.schema = sink.schema
    /\ \A i \in 1..x.block :
          blocks[i].schema \in Accepted /\ blocks[i].schema = x.schema

SchemaOfLoad(l) ==
    /\ BlockOf(l).schema \in Accepted
    /\ caller.schema => BlockOf(l).schema = sink.schema
    /\ l[3] = worker[l[2]].attempt => BlockOf(l).schema = worker[l[2]].schema

\* In those words.
LEMMA SchemaKeptIs ==
  SchemaKept <=>
      /\ caller.schema /\ driver = "running" /\ Working # {} => sink.schema # NoSchema
      /\ \A t \in Tasks : Started(t) => SchemaOfWorker(worker[t], bundle[t])
      /\ \A l \in LoadsOf(write) : SchemaOfLoad(l)
      /\ \A l, m \in LoadsOf(write) :
            l[2] = m[2] /\ l[3] = m[3] => BlockOf(l).schema = BlockOf(m).schema
  BY DEF SchemaKept, SchemaOfWorker, SchemaOfLoad

\* No load of this write was sent before its first task started.
LEMMA NoLoadYet ==
  ASSUME TypeOK, DriverLeads, Sent, driver \in {"idle", "prepared"}
  PROVE  LoadsOf(write) = {}
<1>1. \A t \in Tasks : ~Started(t) /\ worker[t].attempt = 1
  BY DEF DriverLeads
<1>2. ASSUME NEW l \in LoadsOf(write) PROVE FALSE
  <2>1. l \in begun /\ l[2] \in Tasks
    BY <1>2, LoadNumbers DEF LoadsOf
  <2>2. l[3] <= 1 /\ l[3] # 1
    BY <1>1, <1>2, <2>1 DEF Sent
  <2>3. l[3] \in 1..MaxAttempts
    BY <2>1 DEF TypeOK, Loads
  <2>4. QED
    BY <2>2, <2>3, DatasinkAssumption
<1>3. QED
  BY <1>2

\* Nothing is decided before the first step.
LEMMA InitSchemaKept == Init => SchemaKept
<1> SUFFICES ASSUME Init PROVE SchemaKept
  OBVIOUS
<1>1. driver = "idle" /\ begun = {}
  BY DEF Init
<1>2. \A t \in Tasks : ~Started(t)
  BY <1>1, InitDriverLeads DEF DriverLeads
<1>3. QED
  BY <1>1, <1>2 DEF SchemaKept, LoadsOf

\* The load a worker begins is cut from the block it is in.
LEMMA CurrentBlock ==
  ASSUME TypeOK, Place, NEW t \in Tasks, worker[t].pc = "batch", worker[t].left > 0
  PROVE  /\ worker[t].block \in 1..Len(bundle[t])
         /\ BlockOf(Current(t)) = bundle[t][worker[t].block]
<1> DEFINE w == worker[t]
           blocks == bundle[t]
           i == w.block
           k == w.total.batches + 1
           upTo == BatchesUpTo(blocks)
<1>1. blocks \in Bundles /\ w.left \in Nat /\ w.total.batches \in Nat /\ i \in Nat
  BY DEF TypeOK, Workers, Counters
<1>2. /\ i \in 0..Len(blocks) /\ i # 0 /\ w.left <= blocks[i].batches
      /\ w.total.batches + w.left = upTo[i]
  BY DEF Place, Started
<1>3. /\ Len(blocks) \in Nat /\ \A j \in 0..Len(blocks) : upTo[j] \in Nat
      /\ \A j \in 1..Len(blocks) : blocks[j] \in Blocks /\ upTo[j] = upTo[j - 1] + blocks[j].batches
  BY <1>1, UpToCounts
<1>4. i \in 1..Len(blocks)
  BY <1>1, <1>2, <1>3
<1>5. upTo[i] = upTo[i - 1] + blocks[i].batches /\ upTo[i - 1] \in Nat
      /\ blocks[i].batches \in Nat
  BY <1>3, <1>4, DatasinkAssumption DEF Blocks
<1>6. upTo[i - 1] < k /\ k <= upTo[i]
  <2> DEFINE a == upTo[i - 1]
             b == blocks[i].batches
             c == w.total.batches
             d == w.left
  <2>1. a \in Nat /\ b \in Nat /\ c \in Nat /\ d \in Nat
    BY <1>1, <1>5
  <2>2. d > 0 /\ d <= b /\ c + d = a + b /\ upTo[i] = c + d
    BY <1>2, <1>5
  <2> HIDE DEF a, b, c, d
  <2>3. a < c + 1 /\ c + 1 <= c + d
    BY <2>1, <2>2
  <2>4. QED
    BY <2>2, <2>3 DEF a, c
<1> HIDE DEF upTo
<1>7. Current(t)[2] = t /\ Current(t)[4] = k /\ k \in Nat
  BY <1>1 DEF Current
<1>8. BlockOf(Current(t)) = blocks[i]
  BY <1>1, <1>4, <1>6, <1>7, BlockFound DEF upTo
<1>9. QED
  BY <1>4, <1>8

\* An attempt that runs keeps to one schema, the one on_write_start kept if it got one.
LEMMA TaskKeepsSchema ==
  ASSUME TypeOK, Place, DriverLeads, Sent, SchemaKept, NEW t \in Tasks,
         Starts(t) \/ Takes(t) \/ Leaves(t) \/ Begins(t) \/ Counts(t) \/ Drops(t) \/ Ends(t)
  PROVE  SchemaKept'
<1> DEFINE w == worker[t]
           v == worker'[t]
<1>1. /\ UNCHANGED <<driver, write, caller, bundle, sink>>
      /\ \A u \in Tasks \ {t} : worker'[u] = worker[u]
      /\ Started(t) \/ Starts(t)
  BY TaskRuns
<1>2. NoSchema \notin Accepted
  BY DatasinkAssumption
<1>3. w.block \in Nat /\ w.attempt \in Nat
  BY DEF TypeOK, Workers
<1>4. ASSUME v.pc \notin {"absent", "waiting"} PROVE SchemaOfWorker(v, bundle[t])
  <2>1. CASE Starts(t)
    <3>1. v.block = 0 /\ v.schema = sink.schema /\ driver = "running" /\ w.pc = "waiting"
      BY <2>1 DEF Starts, Moves
    <3>2. t \in Working
      BY <3>1 DEF Place, Working
    <3>3. caller.schema => sink.schema # NoSchema
      BY <3>1, <3>2, SchemaKeptIs
    <3>4. 1..0 = {}
      OBVIOUS
    <3>5. QED
      BY <3>1, <3>3, <3>4 DEF SchemaOfWorker
  <2>2. CASE Takes(t)
    <3>1. /\ v.block = w.block + 1 /\ v.schema = bundle[t][v.block].schema
          /\ v.schema \in Accepted /\ w.schema \in {NoSchema, v.schema} /\ Started(t)
      BY <2>2 DEF Takes, Moves, Started
    <3>2. SchemaOfWorker(w, bundle[t])
      BY <3>1, SchemaKeptIs
    <3>3. \A i \in 1..w.block : bundle[t][i].schema \in Accepted /\ bundle[t][i].schema = v.schema
      BY <1>2, <3>1, <3>2 DEF SchemaOfWorker
    <3>4. \A i \in 1..v.block : i \in 1..w.block \/ i = v.block
      BY <1>3, <3>1
    <3>5. caller.schema => sink.schema # NoSchema /\ v.schema = sink.schema
      BY <3>1, <3>2 DEF SchemaOfWorker
    <3>6. QED
      BY <3>1, <3>3, <3>4, <3>5 DEF SchemaOfWorker
  <2>3. CASE ~Starts(t) /\ ~Takes(t)
    <3>1. v.block = w.block /\ v.schema = w.schema /\ Started(t)
      BY <1>1, <2>3 DEF Leaves, Begins, Counts, Drops, Ends, SamePlace
    <3>2. QED
      BY <3>1, SchemaKeptIs DEF SchemaOfWorker
  <2>4. QED
    BY <2>1, <2>2, <2>3
<1>5. ASSUME NEW l \in LoadsOf(write), l[2] = t, l[3] = v.attempt
      PROVE  BlockOf(l).schema = v.schema
  <2>0. l \in begun /\ l[3] \in Nat
    BY <1>5, LoadNumbers DEF LoadsOf
  <2>1. /\ l[3] = w.attempt => BlockOf(l).schema = w.schema /\ Started(t)
        /\ l[3] <= w.attempt /\ BlockOf(l).schema \in Accepted
    BY <1>5, SchemaKeptIs DEF SchemaOfLoad, Sent
  <2>2. CASE Starts(t)
    BY <1>5, <2>1, <2>2 DEF Starts, Moves, SameAttempt, Started
  <2>3. CASE Takes(t)
    BY <1>2, <1>5, <2>1, <2>3 DEF Takes, SameAttempt
  <2>4. CASE ~Starts(t) /\ ~Takes(t)
    <3>1. v.schema = w.schema /\ v.attempt \in {w.attempt, w.attempt + 1}
      BY <2>4 DEF Leaves, Begins, Counts, Drops, Ends, SamePlace, SameAttempt
    <3>2. QED
      BY <1>3, <1>5, <2>0, <2>1, <3>1
  <2>5. QED
    BY <2>2, <2>3, <2>4
<1>6. ASSUME NEW l \in LoadsOf(write) PROVE SchemaOfLoad(l)'
  <2>1. SchemaOfLoad(l) /\ l[2] \in Tasks /\ BlockOf(l)' = BlockOf(l)
    <3>1. l \in begun
      BY DEF LoadsOf
    <3>2. QED
      BY <1>1, <3>1, SchemaKeptIs, LoadNumbers DEF BlockOf
  <2>2. CASE l[2] = t
    BY <1>1, <1>5, <2>1, <2>2 DEF SchemaOfLoad
  <2>3. CASE l[2] # t
    BY <1>1, <2>1, <2>3 DEF SchemaOfLoad
  <2>4. QED
    BY <2>2, <2>3
<1>7. ASSUME Begins(t)
      PROVE  /\ BlockOf(Current(t)).schema = v.schema /\ v.schema = w.schema
             /\ v.attempt = w.attempt
             /\ SchemaOfLoad(Current(t))'
  <2>1. w.pc = "batch" /\ w.left > 0 /\ v.schema = w.schema /\ v.attempt = w.attempt
    BY <1>7 DEF Begins, Moves, SamePlace, SameAttempt
  <2>2. w.block \in 1..Len(bundle[t]) /\ BlockOf(Current(t)) = bundle[t][w.block]
    BY <2>1, CurrentBlock
  <2>3. SchemaOfWorker(w, bundle[t])
    BY <2>1, SchemaKeptIs DEF Started
  <2>4. /\ BlockOf(Current(t)).schema = w.schema /\ w.schema \in Accepted
        /\ caller.schema => w.schema = sink.schema
    BY <1>3, <2>2, <2>3 DEF SchemaOfWorker
  <2>5. Current(t)[2] = t /\ Current(t)' = Current(t) /\ BlockOf(Current(t))' = BlockOf(Current(t))
    <3>1. Current(t)' = Current(t) /\ Current(t)[2] = t
      BY <1>1, <1>7 DEF Begins, SameAttempt, SameTotal, Current
    <3>2. QED
      BY <1>1, <3>1 DEF BlockOf
  <2>6. QED
    BY <1>1, <2>1, <2>4, <2>5 DEF SchemaOfLoad
<1>8. \A l \in LoadsOf(write)' : l \in LoadsOf(write) \/ (Begins(t) /\ l = Current(t))
  BY <1>1 DEF Starts, Takes, Leaves, Begins, Counts, Drops, Ends, loadVars, LoadsOf
<1>9. \A l \in LoadsOf(write)' : SchemaOfLoad(l)'
  <2> TAKE l \in LoadsOf(write)'
  <2>1. CASE l \in LoadsOf(write)
    BY <1>6, <2>1
  <2>2. CASE Begins(t) /\ l = Current(t)
    <3>1. Current(t)' = Current(t)
      BY <1>1, <2>2 DEF Begins, SameAttempt, SameTotal, Current
    <3>2. QED
      BY <1>7, <2>2, <3>1
  <2>3. QED
    BY <1>8, <2>1, <2>2
<1>10. ASSUME NEW l \in LoadsOf(write)', NEW m \in LoadsOf(write)', l[2] = m[2], l[3] = m[3]
       PROVE  BlockOf(l).schema = BlockOf(m).schema
  <2>1. CASE l \in LoadsOf(write) /\ m \in LoadsOf(write)
    BY <1>10, <2>1, SchemaKeptIs
  <2>2. ASSUME NEW x \in LoadsOf(write), Begins(t), x[2] = t, x[3] = w.attempt
        PROVE  BlockOf(x).schema = BlockOf(Current(t)).schema
    BY <1>5, <1>7, <2>2
  <2>3. Current(t)[2] = t /\ Current(t)[3] = w.attempt
    BY DEF Current
  <2>4. QED
    BY <1>8, <1>10, <2>1, <2>2, <2>3
<1>11. QED
  <2>1. caller'.schema /\ driver' = "running" /\ Working' # {} => sink'.schema # NoSchema
    BY <1>1, SchemaKeptIs DEF Working
  <2>2. ASSUME NEW u \in Tasks, Started(u)' PROVE SchemaOfWorker(worker[u], bundle[u])'
    <3>1. CASE u = t
      BY <1>1, <1>4, <2>2, <3>1 DEF Started, SchemaOfWorker
    <3>2. CASE u # t
      BY <1>1, <2>2, <3>2, SchemaKeptIs DEF Started, SchemaOfWorker
    <3>3. QED
      BY <3>1, <3>2
  <2>3. \A l, m \in LoadsOf(write)' :
            l[2] = m[2] /\ l[3] = m[3] => BlockOf(l)'.schema = BlockOf(m)'.schema
    <3>1. \A l : BlockOf(l)' = BlockOf(l)
      BY <1>1 DEF BlockOf
    <3>2. QED
      BY <1>10, <3>1
  <2> HIDE DEF w, v
  <2>4. QED
    BY <1>9, <2>1, <2>2, <2>3 DEF SchemaKept, SchemaOfWorker, SchemaOfLoad

\* The driver keeps a schema before the tasks start, and Doris none.
LEMMA NextSchemaKept ==
  ASSUME TypeOK, Place, DriverLeads, Sent, SchemaKept, [Next]_vars
  PROVE  SchemaKept'
<1>1. CASE \/ Prepare \/ SkipWriteStart \/ OnWriteComplete \/ OnWriteFailed
           \/ (\E l \in Loads : DorisCommits(l)) \/ UNCHANGED vars
  <2>1. UNCHANGED <<worker, bundle, write, begun, caller>> /\ sink'.schema = sink.schema
    <3>1. CASE OnWriteComplete
      BY <3>1 DEF OnWriteComplete, rayVars, loadVars, TypeOK
    <3>2. CASE ~OnWriteComplete
      BY <1>1, <3>2 DEF Prepare, SkipWriteStart, OnWriteFailed, DorisCommits, vars, rayVars,
                        loadVars
    <3>3. QED
      BY <3>1, <3>2
  <2>2. driver' = "running" => driver = "running" \/ Working = {}
    BY <1>1 DEF Prepare, SkipWriteStart, OnWriteComplete, OnWriteFailed, DorisCommits, vars
  <2>3. /\ LoadsOf(write)' = LoadsOf(write) /\ Working' = Working
        /\ \A l : BlockOf(l)' = BlockOf(l)
        /\ \A t \in Tasks : Started(t)' = Started(t)
    BY <2>1 DEF LoadsOf, Working, BlockOf, Started
  <2>4. QED
    BY <2>1, <2>2, <2>3 DEF SchemaKept
<1>2. CASE OnWriteStart
  <2>1. /\ driver = "prepared" /\ UNCHANGED <<worker, bundle, write, begun, caller>>
        /\ driver' = "running" /\ caller.schema => sink'.schema # NoSchema
    <3>1. \A s \in Accepted : s # NoSchema
      BY DatasinkAssumption
    <3>2. QED
      BY <1>2, <3>1 DEF OnWriteStart, rayVars, loadVars, TypeOK
  <2>2. LoadsOf(write)' = {} /\ \A t \in Tasks : ~Started(t)'
    BY <2>1, NoLoadYet DEF DriverLeads, LoadsOf, Started
  <2>3. QED
    BY <2>1, <2>2 DEF SchemaKept
<1>3. CASE Reuse
  <2>1. begun' = begun /\ write' = write + 1 /\ driver' = "idle"
        /\ \A t \in Tasks : worker'[t].pc \in {"absent", "waiting"}
    BY <1>3, NewPlace DEF Reuse, loadVars
  <2>2. \A l \in begun : l[1] <= write /\ l[1] \in Nat /\ write \in Nat
    BY LoadNumbers DEF Sent
  <2>3. LoadsOf(write)' = {}
    BY <2>1, <2>2 DEF LoadsOf
  <2>4. QED
    BY <2>1, <2>3 DEF SchemaKept, Started
<1>4. CASE \E t \in Tasks : Step(t) \/ Die(t)
  BY <1>4, StepDoes, TaskKeepsSchema
<1>5. QED
  BY <1>1, <1>2, <1>3, <1>4 DEF Next, Driver, Ended

-----------------------------------------------------------------------------
(* The account.                                                            *)

\* A total depends on the totals of the tasks of the write alone.
LEMMA TotalStays ==
  ASSUME NEW field, Working' = Working,
         \A u \in Working : worker'[u].total[field] = worker[u].total[field]
  PROVE  Total(field)' = Total(field)
<1>1. [u \in Working' |-> worker'[u].total[field]] = [u \in Working |-> worker[u].total[field]]
  OBVIOUS
<1>2. QED
  BY <1>1 DEF Total

\* When one task counts d more, so does the total.
LEMMA TotalGrows ==
  ASSUME TypeOK, NEW field \in Fields, NEW d \in Nat, NEW t \in Working, Working' = Working,
         \A u \in Working \ {t} : worker'[u] = worker[u],
         worker'[t].total[field] = worker[t].total[field] + d
  PROVE  Total(field)' = Total(field) + d
<1> DEFINE f == [u \in Working |-> worker[u].total[field]]
           g == [u \in Working |-> worker'[u].total[field]]
           rest == Working \ {t}
<1>1. IsFiniteSet(Working) /\ \A u \in Working : f[u] \in Nat
  BY TotalIsNat
<1>2. g[t] = f[t] + d /\ \A u \in rest : g[u] = f[u]
  OBVIOUS
<1>3. \A u \in Working : g[u] \in Nat
  <2>1. \A u \in Working : u = t \/ u \in rest
    OBVIOUS
  <2> HIDE DEF f, g
  <2>2. QED
    BY <1>1, <1>2, <2>1
<1>4. IsFiniteSet(rest) /\ \A u \in rest : f[u] \in Nat
  BY <1>1, FS_RemoveElement
<1>5. SumFunctionOnSet(g, rest) = SumFunctionOnSet(f, rest)
  BY <1>2, <1>4, SumSame
<1>6. /\ SumFunctionOnSet(f, Working) = f[t] + SumFunctionOnSet(f, rest)
      /\ SumFunctionOnSet(g, Working) = g[t] + SumFunctionOnSet(g, rest)
  BY <1>1, <1>3, SumRemoves
<1>7. SumFunctionOnSet(f, rest) \in Nat
  BY <1>4, SumRemoves
<1>8. f[t] \in Nat
  BY <1>1
<1> HIDE DEF f, g, rest
<1>9. SumFunctionOnSet(g, Working) = SumFunctionOnSet(f, Working) + d
  BY <1>2, <1>5, <1>6, <1>7, <1>8
<1>10. QED
  BY <1>9 DEF Total, f, g

\* The rows of one batch more.
LEMMA OneBatchMore == ASSUME NEW n \in Nat PROVE Rows * (n + 1) = Rows * n + Rows /\ Rows * 0 = 0
  BY DatasinkAssumption

\* The counted loads are sent ones, and the rows Doris filtered of them are numbers.
LEMMA CountedLoadsFinite ==
  ASSUME TypeOK, Sent
  PROVE  /\ IsFiniteSet(CountedLoads) /\ Cardinality(CountedLoads) \in Nat
         /\ CountedLoads \subseteq begun /\ begun \subseteq Loads
         /\ \A l \in CountedLoads : filtered[l] \in Nat
         /\ SumFunctionOnSet(filtered, CountedLoads) \in Nat
<1>1. CountedLoads \subseteq begun /\ begun \subseteq Loads
  BY DEF CountedLoads, LoadsOf, TypeOK
<1>2. IsFiniteSet(CountedLoads) /\ Cardinality(CountedLoads) \in Nat
  BY <1>1, FS_Subset, FS_CardinalityType DEF Sent
<1>3. \A l \in CountedLoads : filtered[l] \in Nat
  BY <1>1, DatasinkAssumption DEF TypeOK
<1>4. QED
  BY <1>1, <1>2, <1>3, SumRemoves

NothingSent == LoadsOf(write) = {} /\ \A t \in Tasks : worker[t].total = NoCounters

\* Before the tasks start there is nothing to account for.
LEMMA NothingCounted == TypeOK /\ NothingSent => RunningAccount
<1> SUFFICES ASSUME TypeOK, NothingSent PROVE RunningAccount
  OBVIOUS
<1>1. ASSUME NEW field \in Fields PROVE Total(field) = 0
  <2> DEFINE f == [u \in Working |-> worker[u].total[field]]
  <2>1. \A u \in Tasks : worker[u].total[field] = 0
    BY DEF Fields, NoCounters, NothingSent
  <2>2. \A u \in Working : f[u] = 0
    BY <2>1 DEF Working
  <2>3. IsFiniteSet(Working)
    BY TotalIsNat
  <2>4. SumFunctionOnSet(f, Working) = 0
    BY <2>2, <2>3, SumOfNothing
  <2>5. QED
    BY <2>4 DEF Total
<1>2. CountedLoads = {}
  BY DEF CountedLoads, NothingSent
<1>3. Cardinality(CountedLoads) = 0 /\ SumFunctionOnSet(filtered, CountedLoads) = 0
  BY <1>2, FS_EmptySet, SumEmpty
<1>4. Rows * 0 = 0
  BY OneBatchMore
<1>5. QED
  BY <1>1, <1>3, <1>4 DEF RunningAccount, Fields

\* The same account, of the same loads.
LEMMA AccountStays ==
  ASSUME TypeOK, Sent, RunningAccount, NoReplay' => NoReplay, CountedLoads' = CountedLoads,
         Working' = Working, \A u \in Working : worker'[u].total = worker[u].total,
         \A l \in CountedLoads : filtered'[l] = filtered[l]
  PROVE  RunningAccount'
<1>1. \A field \in Fields : Total(field)' = Total(field)
  BY TotalStays
<1>2. SumFunctionOnSet(filtered', CountedLoads) = SumFunctionOnSet(filtered, CountedLoads)
  BY CountedLoadsFinite, SumSame
<1>3. /\ Total("batches")' = Total("batches") /\ Total("attempted")' = Total("attempted")
      /\ Total("loaded")' = Total("loaded") /\ Total("filtered")' = Total("filtered")
  BY <1>1 DEF Fields
<1>4. QED
  BY <1>2, <1>3 DEF RunningAccount

\* A load that is counted enters the account once, with the rows Doris filtered.
LEMMA AccountGrows ==
  ASSUME TypeOK, TypeOK', Place, DriverLeads, Sent, NothingRetried, RunningAccount, NoReplay,
         NEW t \in Tasks, Counts(t)
  PROVE  RunningAccount'
<1> DEFINE w == worker[t]
           v == worker'[t]
           c == Current(t)
           r == filtered[c]
           n == w.total.batches
           loads == CountedLoads
<1>1. /\ UNCHANGED <<driver, write, caller, bundle, begun, filtered>>
      /\ \A u \in Tasks \ {t} : worker'[u] = worker[u]
      /\ w.pc = "loading" /\ v.attempt = w.attempt
      /\ \E o \in Load!Loaded : v.total = Counted(w.total, o, r)
  BY TaskRuns DEF Counts, Moves, SameAttempt
<1>2. /\ v.total.batches = n + 1 /\ v.total.attempted = w.total.attempted + Rows
      /\ v.total.loaded = w.total.loaded + (Rows - r) /\ v.total.filtered = w.total.filtered + r
  BY <1>1 DEF Counted
<1>3. c \in begun /\ c \in Loads /\ n \in Nat /\ c = <<write, t, w.attempt, n + 1>>
  BY <1>1, LoadNumbers DEF Sent, Current
<1>4. r \in Nat /\ Rows \in Nat /\ Rows - r \in Nat
  BY <1>3, DatasinkAssumption DEF TypeOK
<1>5. t \in Working /\ Working' = Working
  BY <1>1 DEF Place, Working
<1>6. c \notin loads
  BY <1>3 DEF CountedLoads
<1>7. CountedLoads' = loads \cup {c}
  <2>1. ASSUME NEW l \in begun
        PROVE  l \in CountedLoads' <=> l \in loads \/ l = c
    <3>1. /\ l = <<l[1], l[2], l[3], l[4]>> /\ l[2] \in Tasks /\ l[4] \in Nat
      BY LoadNumbers
    <3>2. CASE l[2] = t
      <4>1. l \in CountedLoads' <=> l[1] = write /\ l[3] = w.attempt /\ l[4] <= n + 1
        BY <1>1, <1>2, <3>2 DEF CountedLoads, LoadsOf
      <4>2. l \in loads <=> l[1] = write /\ l[3] = w.attempt /\ l[4] <= n
        BY <3>2 DEF CountedLoads, LoadsOf
      <4>3. l = c <=> l[1] = write /\ l[3] = w.attempt /\ l[4] = n + 1
        BY <1>3, <3>1, <3>2
      <4>4. l[4] <= n + 1 <=> l[4] <= n \/ l[4] = n + 1
        BY <1>3, <3>1
      <4>5. QED
        BY <4>1, <4>2, <4>3, <4>4
    <3>3. CASE l[2] # t
      <4>1. l # c
        BY <1>3, <3>3
      <4>2. worker'[l[2]] = worker[l[2]]
        BY <1>1, <3>1, <3>3
      <4>3. l \in CountedLoads' <=> l \in loads
        BY <1>1, <4>2 DEF CountedLoads, LoadsOf
      <4>4. QED
        BY <4>1, <4>3
    <3>4. QED
      BY <3>2, <3>3
  <2>2. CountedLoads' \subseteq begun /\ loads \subseteq begun
    BY <1>1 DEF CountedLoads, LoadsOf
  <2>3. QED
    BY <1>3, <2>1, <2>2
<1>8. /\ IsFiniteSet(loads) /\ Cardinality(loads) \in Nat
      /\ SumFunctionOnSet(filtered, loads) \in Nat /\ \A l \in loads : filtered[l] \in Nat
  BY CountedLoadsFinite
<1> HIDE DEF loads, c, r, n
<1>9. Cardinality(CountedLoads') = Cardinality(loads) + 1
  BY <1>6, <1>7, <1>8, FS_AddElement
<1>10. SumFunctionOnSet(filtered', CountedLoads') = r + SumFunctionOnSet(filtered, loads)
  <2>1. SumFunctionOnSet(filtered, loads \cup {c}) = filtered[c] + SumFunctionOnSet(filtered, loads)
    BY <1>4, <1>6, <1>8, SumAdds DEF r
  <2>2. QED
    BY <1>1, <1>7, <2>1 DEF r
<1>11. /\ \A u \in Working \ {t} : worker'[u] = worker[u]
       /\ 1 \in Nat
  BY <1>1 DEF Working
<1>12. Total("batches")' = Total("batches") + 1
  BY <1>2, <1>5, <1>11, TotalGrows DEF Fields, n
<1>13. Total("attempted")' = Total("attempted") + Rows
  BY <1>2, <1>4, <1>5, <1>11, TotalGrows DEF Fields
<1>14. Total("loaded")' = Total("loaded") + (Rows - r)
  BY <1>2, <1>4, <1>5, <1>11, TotalGrows DEF Fields
<1>15. Total("filtered")' = Total("filtered") + r
  BY <1>2, <1>4, <1>5, <1>11, TotalGrows DEF Fields
<1>16. /\ Total("batches") = Cardinality(loads)
       /\ Total("attempted") = Rows * Cardinality(loads)
       /\ Total("filtered") = SumFunctionOnSet(filtered, loads)
       /\ Total("loaded") + Total("filtered") = Total("attempted")
  BY DEF RunningAccount, loads
<1>17. /\ Total("batches") \in Nat /\ Total("attempted") \in Nat
       /\ Total("loaded") \in Nat /\ Total("filtered") \in Nat
  BY TotalIsNat DEF Fields
<1>18. Rows * (Cardinality(loads) + 1) = Rows * Cardinality(loads) + Rows
  BY <1>8, OneBatchMore
<1>19. Total("batches")' = Cardinality(CountedLoads')
  BY <1>9, <1>12, <1>16
<1>20. Total("attempted")' = Rows * Cardinality(CountedLoads')
  BY <1>9, <1>13, <1>16, <1>18
<1>21. Total("filtered")' = SumFunctionOnSet(filtered', CountedLoads')
  BY <1>4, <1>10, <1>15, <1>16, <1>17
<1>22. Total("loaded")' + Total("filtered")' = Total("attempted")'
  BY <1>4, <1>13, <1>14, <1>15, <1>16, <1>17
<1>23. QED
  BY <1>19, <1>20, <1>21, <1>22 DEF RunningAccount

\* Every other step of a task leaves the account as it is.
LEMMA TaskKeepsAccount ==
  ASSUME TypeOK, TypeOK', Place, DriverLeads, Sent, NothingRetried, RunningAccount, NoReplay,
         NEW t \in Tasks,
         Starts(t) \/ Takes(t) \/ Leaves(t) \/ Begins(t) \/ Counts(t) \/ Drops(t) \/ Ends(t)
  PROVE  RunningAccount'
<1>1. CASE Counts(t)
  BY <1>1, AccountGrows
<1>2. CASE ~Counts(t)
  <2> DEFINE w == worker[t]
             v == worker'[t]
  <2>1. /\ UNCHANGED <<write, caller, bundle>>
        /\ \A u \in Tasks \ {t} : worker'[u] = worker[u]
        /\ (driver \in {"running", "failed"} /\ Started(t)) \/ Starts(t)
    BY TaskRuns
  <2>2. filtered' = filtered /\ w.attempt = 1
    BY DEF Starts, Takes, Leaves, Begins, Counts, Drops, Ends, loadVars, NothingRetried
  <2>3. v.attempt = w.attempt /\ v.total = w.total
    <3>1. CASE Starts(t)
      BY <2>2, <3>1 DEF Starts, Moves, SameAttempt, Place, Started
    <3>2. CASE Drops(t)
      <4>1. w.pc \in {"block", "batch", "loading"}
        BY <3>2 DEF Drops
      <4>2. remote.max_retries = 0
        BY <4>1 DEF NothingRetried, Started
      <4>3. QED
        BY <2>2, <3>2, <4>2 DEF Drops, SameAttempt, SameTotal
    <3>3. CASE Takes(t) \/ Leaves(t) \/ Begins(t) \/ Ends(t)
      BY <3>3 DEF Takes, Leaves, Begins, Ends, SameAttempt, SameTotal
    <3>4. QED
      BY <1>2, <3>1, <3>2, <3>3
  <2>4. \A u \in Tasks : worker'[u].attempt = worker[u].attempt /\ worker'[u].total = worker[u].total
    BY <2>1, <2>3
  <2>5. begun' = begun \/ begun' = begun \cup {Current(t)}
    BY DEF Starts, Takes, Leaves, Begins, Counts, Drops, Ends, loadVars
  <2>6. /\ Current(t)[2] = t /\ ~(Current(t)[4] <= w.total.batches)
    BY LoadNumbers DEF Current
  <2>7. CountedLoads' = CountedLoads
    <3>1. \A l \in begun : worker'[l[2]].attempt = worker[l[2]].attempt
                           /\ worker'[l[2]].total = worker[l[2]].total
      BY <2>4, LoadNumbers
    <3>2. \A l : l \in CountedLoads' <=> l \in CountedLoads
      BY <2>1, <2>3, <2>5, <2>6, <3>1 DEF CountedLoads, LoadsOf
    <3>3. QED
      BY <3>2 DEF CountedLoads
  <2>8. Working' = Working /\ \A u \in Working : worker'[u].total = worker[u].total
    BY <2>1, <2>4 DEF Working
  <2>9. QED
    BY <2>2, <2>7, <2>8, AccountStays
<1>3. QED
  BY <1>1, <1>2

\* No task has counted anything before the first step.
LEMMA InitRunningAccount == Init => RunningAccount
<1> SUFFICES ASSUME Init PROVE RunningAccount
  OBVIOUS
<1>1. LoadsOf(write) = {} /\ \A t \in Tasks : worker[t].total = NoCounters
  BY DEF Init, LoadsOf, NewWorker
<1>2. QED
  BY <1>1, InitTypeOK, NothingCounted DEF NothingSent

\* The driver starts a write with an account of nothing, and Doris commits only loads
\* nobody has counted.
LEMMA NextRunningAccount ==
  ASSUME TypeOK, TypeOK', Place, DriverLeads, Sent, Sent', NothingRetried, CountedIsLoaded,
         RunningAccount, [Next]_vars
  PROVE  RunningAccount'
<1> SUFFICES ASSUME NoReplay' PROVE RunningAccount'
  BY DEF RunningAccount
<1>1. CASE Driver \/ UNCHANGED vars
  <2>1. UNCHANGED <<worker, bundle, write, begun, filtered, caller>>
    BY <1>1 DEF Driver, Prepare, OnWriteStart, SkipWriteStart, OnWriteComplete, OnWriteFailed,
                vars, rayVars, loadVars
  <2>2. CountedLoads' = CountedLoads /\ Working' = Working /\ NoReplay
    BY <2>1 DEF CountedLoads, LoadsOf, Working, NoReplay
  <2>3. QED
    BY <2>1, <2>2, AccountStays
<1>2. CASE \E l \in Loads : DorisCommits(l)
  <2>1. PICK m \in Loads : DorisCommits(m)
    BY <1>2
  <2>2. /\ UNCHANGED <<worker, bundle, write, begun, caller>> /\ ~committed[m]
        /\ \A l \in Loads \ {m} : filtered'[l] = filtered[l]
    BY <2>1 DEF DorisCommits, Load!Commit, rayVars, TypeOK
  <2>3. ASSUME NEW l \in CountedLoads PROVE l \in Loads /\ l # m
    <3>1. /\ l \in begun /\ l \in Loads /\ l[1] = write /\ l[3] = worker[l[2]].attempt
          /\ l[4] <= worker[l[2]].total.batches
      BY <2>3, LoadNumbers DEF CountedLoads, LoadsOf
    <3>2. /\ l = <<l[1], l[2], l[3], l[4]>> /\ l[2] \in Tasks /\ l[4] \in Nat /\ l[4] >= 1
          /\ worker[l[2]].total.batches \in Nat
      BY <3>1, LoadNumbers
    <3>3. l = LoadOf(l[2], l[4]) /\ l[4] \in 1..worker[l[2]].total.batches
      BY <3>1, <3>2 DEF LoadOf
    <3>4. Started(l[2])
      BY <3>1 DEF Sent, LoadsOf
    <3>5. committed[l]
      BY <3>2, <3>3, <3>4 DEF CountedIsLoaded
    <3>6. QED
      BY <2>2, <3>1, <3>5
  <2>4. CountedLoads' = CountedLoads /\ Working' = Working /\ NoReplay
    BY <2>2 DEF CountedLoads, LoadsOf, Working, NoReplay
  <2>5. \A l \in CountedLoads : filtered'[l] = filtered[l]
    BY <2>2, <2>3
  <2>6. QED
    BY <2>2, <2>4, <2>5, AccountStays
<1>3. CASE Reuse
  <2>1. /\ begun' = begun /\ write' = write + 1
        /\ \A t \in Tasks : worker'[t].total = NoCounters
    BY <1>3, NewPlace DEF Reuse, loadVars
  <2>2. \A l \in begun : l[1] <= write /\ l[1] \in Nat /\ write \in Nat
    BY LoadNumbers DEF Sent
  <2>3. LoadsOf(write)' = {}
    BY <2>1, <2>2 DEF LoadsOf
  <2>4. NothingSent'
    BY <2>1, <2>3 DEF NothingSent
  <2>5. (TypeOK /\ NothingSent)' => RunningAccount'
    BY NothingCounted, PTL
  <2>6. QED
    BY <2>4, <2>5
<1>4. CASE \E t \in Tasks : Step(t) \/ Die(t)
  <2>1. PICK t \in Tasks : Step(t) \/ Die(t)
    BY <1>4
  <2>2. NoReplay
    BY <2>1, StepDoes, TaskRuns DEF NoReplay
  <2>3. QED
    BY <2>1, <2>2, StepDoes, TaskKeepsAccount
<1>5. QED
  BY <1>1, <1>2, <1>3, <1>4 DEF Next, Ended

\* When every task has returned, the loads counted are the loads of the write, and the
\* totals of the tasks are the account of them.
LEMMA CompletedAccount ==
  ASSUME TypeOK, Place, DriverLeads, Sent, NothingRetried, CountedIsLoaded, RunningAccount,
         NoReplay, OnWriteComplete
  PROVE  ResultIsDorisAccount'
<1> DEFINE loads == LoadsOf(write)
           reported == {outcome[l] : l \in loads}
           statuses == UNION {worker[t].total.statuses : t \in Working}
           counts == [t \in Working |-> worker[t].total.batches]
           planned == [t \in Working |-> BatchesUpTo(bundle[t])[Len(bundle[t])]]
<1>1. /\ \A t \in Working : worker[t].pc = "finished"
      /\ UNCHANGED <<write, bundle, worker, begun, filtered, outcome, committed>>
      /\ completed' = write
      /\ sink'.result = [status |-> SummaryStatus(statuses), batches |-> Total("batches"),
                         attempted |-> Total("attempted"), loaded |-> Total("loaded"),
                         filtered |-> Total("filtered")]
  BY DEF OnWriteComplete, rayVars, loadVars, TypeOK
<1>2. ASSUME NEW l \in loads
      PROVE  /\ l \in CountedLoads /\ l[2] \in Working
             /\ l[4] \in 1..worker[l[2]].total.batches /\ l = LoadOf(l[2], l[4])
  <2>1. /\ l \in begun /\ l[1] = write /\ l[2] \in Tasks /\ l[3] = 1 /\ l[4] \in Nat /\ l[4] >= 1
        /\ worker[l[2]].attempt = 1 /\ l = <<l[1], l[2], l[3], l[4]>>
        /\ worker[l[2]].total.batches \in Nat
    BY LoadNumbers DEF LoadsOf, NothingRetried
  <2>2. Started(l[2]) /\ SentBy(l, worker[l[2]])
    BY <2>1, SentIs DEF Sent
  <2>3. l[2] \in Working
    BY <2>1, <2>2 DEF Started, Place, Working
  <2>4. worker[l[2]].pc = "finished"
    BY <1>1, <2>3
  <2>5. l[4] <= worker[l[2]].total.batches
    BY <2>1, <2>2, <2>4 DEF SentBy
  <2>6. QED
    BY <2>1, <2>3, <2>5 DEF CountedLoads, LoadOf
<1>3. CountedLoads = loads
  BY <1>2 DEF CountedLoads
<1>4. \A t \in Working : t \in Tasks /\ Started(t) /\ CountedBy(t)
  <2>1. \A t \in Working : t \in Tasks /\ Started(t)
    BY <1>1 DEF Working, Started
  <2>2. QED
    BY <2>1 DEF CountedIsLoaded, CountedBy
<1>5. \A l \in loads : committed[l]
  BY <1>2, <1>4 DEF CountedBy
<1>6. statuses = reported
  <2>1. ASSUME NEW s \in reported PROVE s \in statuses
    <3>1. PICK l \in loads : s = outcome[l]
      OBVIOUS
    <3>2. s \in worker[l[2]].total.statuses
      BY <1>2, <1>4, <3>1 DEF CountedBy
    <3>3. QED
      BY <1>2, <3>2
  <2>2. ASSUME NEW s \in statuses PROVE s \in reported
    <3>1. PICK t \in Working : s \in worker[t].total.statuses
      OBVIOUS
    <3>2. PICK k \in 1..worker[t].total.batches : s = outcome[LoadOf(t, k)] /\ LoadOf(t, k) \in begun
      BY <1>4, <3>1 DEF CountedBy
    <3>3. LoadOf(t, k) \in loads
      BY <3>2 DEF LoadOf, LoadsOf
    <3>4. QED
      BY <3>2, <3>3
  <2>3. QED
    BY <2>1, <2>2
<1>7. /\ Total("batches") = Cardinality(loads)
      /\ Total("attempted") = Rows * Cardinality(loads)
      /\ Total("filtered") = SumFunctionOnSet(filtered, loads)
      /\ Total("loaded") + Total("filtered") = Total("attempted")
  BY <1>3 DEF RunningAccount
<1>8. Total("loaded") = Total("attempted") - Total("filtered")
  <2>1. Total("loaded") \in Nat /\ Total("filtered") \in Nat /\ Total("attempted") \in Nat
    BY TotalIsNat DEF Fields
  <2>2. QED
    BY <1>7, <2>1
<1>9. Total("batches") = Planned
  <2>1. \A t \in Working : counts[t] = planned[t]
    BY <1>1 DEF Place, Working
  <2>2. counts = planned
    BY <2>1
  <2>3. QED
    BY <2>2 DEF Total, Planned
<1>10. /\ SummaryStatus(statuses) = "success" <=> reported \subseteq {"success"}
       /\ SummaryStatus(statuses) = "publish_timeout" <=> reported = {"publish_timeout"}
  BY <1>6 DEF SummaryStatus
<1>11. LoadsOf(completed)' = loads /\ Planned' = Planned
  BY <1>1 DEF LoadsOf, Planned, Working
<1> HIDE DEF loads, statuses
<1>12. QED
  BY <1>1, <1>5, <1>7, <1>8, <1>9, <1>10, <1>11 DEF ResultIsDorisAccount

\* What was completed stays: later writes, late commits and retries do not touch it.
LEMMA NextAccount ==
  ASSUME TypeOK, Place, DriverLeads, Sent, NothingRetried, CountedIsLoaded, RunningAccount,
         Account, [Next]_vars
  PROVE  Account'
<1> SUFFICES ASSUME NoReplay' PROVE ResultIsDorisAccount'
  BY DEF Account
<1> DEFINE loads == LoadsOf(completed)
<1>1. caller' = caller
  BY CallerStays
<1>2. NoReplay /\ ResultIsDorisAccount
  BY <1>1 DEF NoReplay, Account
<1>3. CASE OnWriteComplete
  BY <1>2, <1>3, CompletedAccount
<1>4. CASE ~OnWriteComplete
  <2>1. /\ sink'.result = sink.result /\ completed' = completed
        /\ driver' = "done" => driver = "done" /\ bundle' = bundle
    <3>1. CASE \E t \in Tasks : Step(t) \/ Die(t)
      BY <3>1, StepDoes, TaskRuns
    <3>2. CASE OnWriteStart
      BY <3>2 DEF OnWriteStart, TypeOK
    <3>3. QED
      BY <1>4, <3>1, <3>2 DEF Next, Driver, Ended, Prepare, SkipWriteStart, OnWriteFailed,
                              Reuse, DorisCommits, vars, rayVars
  <2>2. /\ LoadsOf(completed)' = loads
        /\ sink.result # NoResult => \A l \in loads : outcome'[l] = outcome[l]
    <3>1. CASE \E t \in Tasks : Step(t) \/ Die(t)
      <4>1. PICK t \in Tasks : Step(t) \/ Die(t)
        BY <3>1
      <4>2. driver \in {"running", "failed"}
        BY <4>1, StepDoes, TaskRuns DEF Starts
      <4>3. completed # write
        BY <4>2 DEF DriverLeads
      <4>4. /\ begun' = begun \/ begun' = begun \cup {Current(t)}
            /\ outcome' = outcome \/ \E o : outcome' = [outcome EXCEPT ![Current(t)] = o]
        BY <4>1, StepDoes DEF Starts, Takes, Leaves, Begins, Counts, Drops, Ends, loadVars
      <4>5. Current(t)[1] = write
        BY DEF Current
      <4>6. \A l \in loads : l # Current(t) /\ l \in Loads
        BY <4>3, <4>5 DEF LoadsOf, TypeOK
      <4>7. \A l \in loads : outcome'[l] = outcome[l]
        BY <4>4, <4>6 DEF TypeOK, Load!TypeOK
      <4>8. QED
        BY <2>1, <4>3, <4>4, <4>5, <4>7 DEF LoadsOf
    <3>2. CASE ~\E t \in Tasks : Step(t) \/ Die(t)
      <4>1. begun' = begun /\ outcome' = outcome
        BY <1>4, <3>2 DEF Next, Driver, Ended, Prepare, OnWriteStart, SkipWriteStart,
                          OnWriteFailed, Reuse, DorisCommits, Load!Commit, vars, loadVars
      <4>2. QED
        BY <2>1, <4>1 DEF LoadsOf
    <3>3. QED
      BY <3>1, <3>2
  <2>3. CASE sink.result # NoResult
    <3>1. /\ \A l \in loads : committed[l] /\ l \in Loads
          /\ IsFiniteSet(loads)
      BY <1>2, <2>3, FS_Subset DEF ResultIsDorisAccount, LoadsOf, TypeOK, Sent
    <3>2. \A l \in loads : committed'[l] /\ filtered'[l] = filtered[l]
      BY <3>1, ReportsAreFinal
    <3>3. SumFunctionOnSet(filtered', loads) = SumFunctionOnSet(filtered, loads)
      BY <3>1, <3>2, SumSame
    <3>4. {outcome'[l] : l \in loads} = {outcome[l] : l \in loads}
      BY <2>2, <2>3
    <3>5. driver' = "done" => driver = "done" /\ Planned' = Planned
      BY <2>1 DEF Planned, Working
    <3> HIDE DEF loads
    <3>6. /\ sink.result.batches = Cardinality(loads)
          /\ sink.result.attempted = Rows * Cardinality(loads)
          /\ sink.result.filtered = SumFunctionOnSet(filtered, loads)
          /\ sink.result.loaded = sink.result.attempted - sink.result.filtered
          /\ driver = "done" => sink.result.batches = Planned
          /\ sink.result.status = "success" <=> {outcome[l] : l \in loads} \subseteq {"success"}
          /\ sink.result.status = "publish_timeout" <=>
                {outcome[l] : l \in loads} = {"publish_timeout"}
      BY <1>2, <2>3 DEF ResultIsDorisAccount, loads
    <3>7. QED
      BY <2>1, <2>2, <3>2, <3>3, <3>4, <3>5, <3>6 DEF ResultIsDorisAccount
  <2>4. CASE sink.result = NoResult
    BY <2>1, <2>4 DEF ResultIsDorisAccount
  <2>5. QED
    BY <2>3, <2>4
<1>5. QED
  BY <1>3, <1>4

-----------------------------------------------------------------------------
(* The theorems.                                                           *)

\* The invariant holds before the first step.
LEMMA InitIInv == Init => IInv
<1> SUFFICES ASSUME Init PROVE IInv
  OBVIOUS
<1>1. InOrder /\ Account
  BY DEF Init, InOrder, Account, ResultIsDorisAccount
<1>2. QED
  BY <1>1, InitTypeOK, InitDriverLeads, InitNothingRetried, InitPlace, InitSent,
     InitCountedIsLoaded, InitSchemaKept, InitRunningAccount DEF IInv

\* And after each.
LEMMA NextIInv == IInv /\ [Next]_vars => IInv'
<1> SUFFICES ASSUME IInv, [Next]_vars PROVE IInv'
  OBVIOUS
<1>1. /\ TypeOK /\ DriverLeads /\ NothingRetried /\ Place /\ Sent /\ CountedIsLoaded
      /\ InOrder /\ SchemaKept /\ RunningAccount /\ Account
  BY DEF IInv
<1>2. TypeOK' /\ DriverLeads' /\ NothingRetried' /\ Place'
  BY <1>1, NextTypeOK, NextDriverLeads, NextNothingRetried, NextPlace
<1>3. Sent' /\ CountedIsLoaded' /\ InOrder'
  BY <1>1, NextSent, NextCountedIsLoaded, NextInOrder
<1>4. SchemaKept' /\ RunningAccount' /\ Account'
  BY <1>1, <1>2, <1>3, NextSchemaKept, NextRunningAccount, NextAccount
<1>5. QED
  BY <1>2, <1>3, <1>4 DEF IInv

\* The invariant holds in every state of every write.
THEOREM DatasinkInvariant == SafeSpec => []IInv
  BY InitIInv, NextIInv, PTL DEF SafeSpec

\* With the options write_doris forces, no batch is handed to load() twice, for every
\* number of tasks, blocks and batches, and whatever workers are lost.
THEOREM NeverReplayedSafe == SafeSpec => []NeverReplayed
<1>1. ASSUME IInv PROVE NeverReplayed
  <2> SUFFICES ASSUME caller.facade, NEW l \in begun, NEW m \in begun, Batch(l) = Batch(m)
               PROVE  l = m
    BY DEF NeverReplayed
  <2>1. l[3] = 1 /\ m[3] = 1
    BY <1>1 DEF IInv, NothingRetried, NoReplay
  <2>2. l[1] = m[1] /\ l[2] = m[2] /\ l[4] = m[4]
    BY DEF Batch
  <2>3. l = <<l[1], l[2], l[3], l[4]>> /\ m = <<m[1], m[2], m[3], m[4]>>
    BY <1>1, LoadNumbers DEF IInv
  <2>4. QED
    BY <2>1, <2>2, <2>3
<1>2. QED
  BY <1>1, DatasinkInvariant, PTL

\* An attempt stops at the first load that is not known to be in Doris.
THEOREM StopsAtFirstFailureSafe == SafeSpec => []StopsAtFirstFailure
<1>1. IInv => StopsAtFirstFailure
  BY DEF IInv, InOrder, StopsAtFirstFailure
<1>2. QED
  BY <1>1, DatasinkInvariant, PTL

\* Only blocks that fit the table are sent, an attempt keeps to one schema, and all tasks
\* of a write do where on_write_start got one.
THEOREM OneValidSchemaIsSentSafe == SafeSpec => []OneValidSchemaIsSent
<1>1. ASSUME IInv PROVE OneValidSchemaIsSent
  BY <1>1 DEF IInv, SchemaKept, OneValidSchemaIsSent
<1>2. QED
  BY <1>1, DatasinkInvariant, PTL

\* Where no task is replayed, which write_doris sees to and other callers are told to
\* (NoReplay, a condition on who writes), the result of a write is what its loads put
\* into the table.
THEOREM ResultIsDorisAccountSafe == SafeSpec /\ NoReplay => []ResultIsDorisAccount
<1>1. IInv /\ NoReplay => ResultIsDorisAccount
  BY DEF IInv, Account
<1>2. NoReplay /\ [Next]_vars => NoReplay'
  BY CallerStays DEF NoReplay
<1>3. QED
  BY <1>1, <1>2, DatasinkInvariant, PTL DEF SafeSpec

-----------------------------------------------------------------------------
(* The batches of a block.  Datasink takes any number of them;              *)
(* SerializeBatches cuts them, here for tables, limits and sizes of any     *)
(* kind.                                                                    *)

\* The slice being tried or yielded lies within the rows that are left, and a
\* yielded one is the last of batches.
SliceInTable ==
    /\ pc \in {"serialize", "measure", "load"} => length >= 1 /\ start + length <= numRows
    /\ pc = "load" =>
          /\ batches # <<>>
          /\ batches[Len(batches)].first = start
          /\ batches[Len(batches)].rows = length

\* Everything before start has been yielded.
YieldedToStart ==
    LET covered == IF pc = "load" THEN start + length ELSE start
    IN  /\ batches = <<>> => start = 0
        /\ batches # <<>> /\ pc # "failed" => End(batches[Len(batches)]) = covered
        /\ pc = "done" => start = numRows

\* Batches follow each other without gap or overlap.
Contiguous ==
    \A i \in DOMAIN batches :
        batches[i].first = IF i = 1 THEN 0 ELSE End(batches[i - 1])

BatchesInv ==
    /\ SerializeTypeOK /\ SliceInTable /\ YieldedToStart /\ Contiguous
    /\ BatchesWithinTargets

\* Halving a slice of more than one row leaves a shorter one with a row in it.
LEMMA HalvedShrinks ==
    ASSUME NEW n \in Nat, n >= 2
    PROVE  Halved(n) \in 1..(n - 1)
  BY DEF Halved

\* The first slice is neither empty nor longer than the limit or the table.
LEMMA FirstLengthFits ==
    ASSUME Limits, numRows \in Nat, start \in Nat, start < numRows
    PROVE  /\ FirstLength \in 1..MaxRows
           /\ start + FirstLength <= numRows
  BY DEF Limits, FirstLength, Smaller

LEMMA BatchesInit == Limits /\ SerializeInit => BatchesInv
  BY DEF Limits, SerializeInit, BatchesInv, SerializeTypeOK, SliceInTable, YieldedToStart,
     Contiguous, BatchesWithinTargets

LEMMA BatchesNext ==
    Limits /\ BatchesInv /\ [SerializeNext]_serializeVars => BatchesInv'
<1> SUFFICES ASSUME Limits, BatchesInv, [SerializeNext]_serializeVars
             PROVE  BatchesInv'
  OBVIOUS
<1> USE DEF Limits, BatchesInv, SerializeTypeOK, SliceInTable, YieldedToStart, Contiguous,
        BatchesWithinTargets
<1>1. CASE Slice
  BY <1>1, FirstLengthFits DEF Slice
<1>2. CASE Measure
  <2>1. CASE Fits(length, payload)
    <3> DEFINE b == [first |-> start, rows |-> length, bytes |-> payload]
    <3>1. /\ batches' = Append(batches, b) /\ pc' = "load" /\ pc = "measure"
          /\ UNCHANGED <<numRows, start, length, payload>>
      BY <1>2, <2>1 DEF Measure
    <3>2. b \in [first : Nat, rows : Nat, bytes : Nat]
      BY <3>1
    <3>3. /\ batches' \in Seq([first : Nat, rows : Nat, bytes : Nat])
          /\ Len(batches') = Len(batches) + 1
          /\ \A i \in DOMAIN batches : batches'[i] = batches[i]
          /\ batches'[Len(batches')] = b
          /\ DOMAIN batches' = DOMAIN batches \cup {Len(batches')}
      BY <3>1, <3>2
    <3>4. SerializeTypeOK' /\ SliceInTable' /\ YieldedToStart'
      BY <3>1, <3>3 DEF End
    <3>5. Contiguous'
      <4>1. SUFFICES ASSUME NEW i \in DOMAIN batches'
            PROVE  batches'[i].first = IF i = 1 THEN 0 ELSE End(batches'[i - 1])
        BY DEF End
      <4>2. CASE i \in DOMAIN batches
        <5>1. i # 1 => i - 1 \in DOMAIN batches
          BY <4>2
        <5>2. QED
          BY <3>3, <4>2, <5>1 DEF End
      <4>3. CASE i = Len(batches) + 1
        <5>1. batches'[i] = b
          BY <3>3, <4>3
        <5>2. CASE batches = <<>>
          BY <3>1, <4>3, <5>1, <5>2
        <5>3. CASE batches # <<>>
          <6>1. Len(batches) \in DOMAIN batches /\ i # 1
            BY <4>3, <5>3
          <6>2. End(batches'[i - 1]) = start
            BY <3>1, <3>3, <4>3, <5>3, <6>1 DEF End
          <6>3. QED
            BY <5>1, <6>1, <6>2
        <5>4. QED
          BY <5>2, <5>3
      <4>4. QED
        BY <3>3, <4>1, <4>2, <4>3
    <3>6. BatchesWithinTargets'
      BY <2>1, <3>1, <3>3 DEF Fits
    <3>7. QED
      BY <3>4, <3>5, <3>6
  <2>2. CASE ~Fits(length, payload)
    <3>1. length >= 2 /\ length \in Nat
      BY <1>2, <2>2 DEF Fits, Measure
    <3>2. Halved(length) \in 1..(length - 1)
      BY <3>1, HalvedShrinks
    <3>3. QED
      BY <1>2, <2>2, <3>1, <3>2 DEF Measure
  <2>3. QED
    BY <2>1, <2>2
<1>3. CASE SerializeRaises
  BY <1>3 DEF SerializeRaises
<1>4. CASE Serialize
  BY <1>4 DEF Serialize
<1>5. CASE Resume
  BY <1>5 DEF Resume
<1>6. CASE LoadFails
  BY <1>6 DEF LoadFails
<1>7. CASE UNCHANGED serializeVars
  BY <1>7 DEF serializeVars
<1>8. QED
  BY <1>1, <1>2, <1>3, <1>4, <1>5, <1>6, <1>7 DEF SerializeNext, Finished

\* The invariant holds in every reachable state.
LEMMA BatchesInvariance == SerializeSafeSpec => []BatchesInv
<1>1. SerializeInit => BatchesInv
  BY BatchesInit, LimitsArePositive
<1>2. BatchesInv /\ [SerializeNext]_serializeVars => BatchesInv'
  BY BatchesNext, LimitsArePositive
<1>3. QED
  BY <1>1, <1>2, PTL DEF SerializeSafeSpec

\* RowsInOrderOnce: for every table and every serialized size the batches are
\* the rows of the table, each once and in order.
THEOREM RowsInOrderOnceSafe == SerializeSafeSpec => []RowsInOrderOnce
<1>1. BatchesInv => RowsInOrderOnce
  BY LimitsArePositive DEF Limits, BatchesInv, SerializeTypeOK, SliceInTable, YieldedToStart, Contiguous,
     RowsInOrderOnce
<1>2. QED
  BY <1>1, BatchesInvariance, PTL

\* BatchesWithinTargets: row and byte targets bound every batch, one-row batches
\* excepted.
THEOREM BatchesWithinTargetsSafe == SerializeSafeSpec => []BatchesWithinTargets
<1>1. BatchesInv => BatchesWithinTargets
  BY DEF BatchesInv
<1>2. QED
  BY <1>1, BatchesInvariance, PTL
=============================================================================
