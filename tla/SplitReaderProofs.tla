-------------------------- MODULE SplitReaderProofs --------------------------
(***************************************************************************)
(* Proofs about SplitReader, for every set of configurations, any number   *)
(* of rows and any batch size.  The inductive invariant, IInv, says of     *)
(* every place in the generator which resources are open, what has been    *)
(* handed over, and what the exception on its way out is about.            *)
(***************************************************************************)
EXTENDS SplitReader, TLAPS

Reading == {"f_fetch", "f_yield", "f_close_reader"}
Cursor == Reading \cup {"f_execute", "f_close_cursor"}
Connection == Cursor \cup {"f_cursor", "f_close_connection"}

FlightStages == Connection \cup {"f_connect", "f_end"}
MysqlStages == {"m_connect", "m_execute", "m_fetch", "m_yield", "m_cleanup"}

\* A resource is open exactly between its own open and its own close.
WhatIsOpen ==
    /\ flight.connection = "open" <=> pc \in Connection
    /\ flight.cursor = "open" <=> pc \in Cursor
    /\ flight.reader = "open" <=> pc \in Reading
    /\ pc \in {"select", "f_connect", "f_cursor"} => flight.cursor = "none"
    /\ pc \notin MysqlStages \ {"m_connect"} =>
          mysql.connection # "open" /\ mysql.cursor # "open"

\* The reader that runs, and how it came to.
WhoReads ==
    /\ pc = "select" => source = "undecided"
    /\ pc \in FlightStages => source = "flight"
    /\ pc \in MysqlStages => source = "mysql"
    /\ status = "complete" => source \in Sources
    /\ source = "mysql" /\ config.transport = "auto" /\ config.installed =>
          raised = "unavailable" /\ ~config.tls

\* Every block is of the reader that runs and begins where the one before it ends.
Consecutive ==
    \A i \in DOMAIN blocks :
        /\ blocks[i].source = source
        /\ blocks[i].first = IF i = 1 THEN 0 ELSE blocks[i - 1].first + blocks[i - 1].rows

\* What is handed over is what is fetched, but for the rest of a record batch.
Progress ==
    /\ pc \in {"select", "f_connect", "f_cursor", "f_execute", "m_connect", "m_execute"} =>
          blocks = <<>> /\ fetched = 0
    /\ source \in Sources => fetched <= size[source]
    /\ pc \in {"f_fetch", "m_fetch", "m_yield"} => Emitted = fetched
    /\ Emitted <= fetched

\* An exception leaves Flight for the reason it says, and is not on its way before.
WhatIsRaised ==
    /\ pc \in {"select", "f_connect", "f_cursor", "f_execute", "f_fetch", "f_yield"} =>
          raised = "none"
    /\ raised = "unavailable" =>
          /\ cause \in {"import", "setup", "timeout"}
          /\ cause = "timeout" => flight.cursor = "none"
          /\ source = "flight" => blocks = <<>>
    /\ raised = "eof" =>
          /\ source = "flight" /\ Emitted = size["flight"]
          /\ config.external => blocks # <<>>

\* A read that is over, or has seen the end of its result, has handed over all of it.
WhatIsOver ==
    /\ pc \notin {"m_cleanup", "end"} => status = "reading"
    /\ status = "complete" => /\ Emitted = size[source]
                              /\ config.external => blocks # <<>>
    /\ reached_eof => /\ pc \in {"m_fetch", "m_yield", "m_cleanup", "end"}
                      /\ source = "mysql" /\ fetched = size["mysql"]
    /\ ~drained

IInv ==
    /\ TypeOK
    /\ WhatIsOpen
    /\ WhoReads
    /\ Consecutive
    /\ Progress
    /\ WhatIsRaised
    /\ WhatIsOver

-----------------------------------------------------------------------------
USE SplitReaderAssumption DEF ConfigType, Sources, Resource, inputs, flightVars, mysqlVars

Block == [source : Sources, first : 0..MaxRows, rows : 0..BatchSize]

LEMMA InitIInv == Init => IInv
<1> SUFFICES ASSUME Init PROVE IInv
  OBVIOUS
<1>1. TypeOK
  <2>1. flight \in [connection : Resource, cursor : Resource, reader : Resource]
        /\ mysql \in [connection : Resource, cursor : Resource \cup {"detached"}]
    BY DEF Init
  <2>2. blocks \in Seq([source : Sources, first : 0..MaxRows, rows : 0..BatchSize])
    BY DEF Init
  <2>3. config \in Configs /\ size \in [Sources -> 0..MaxRows] /\ fetched \in 0..MaxRows
    BY DEF Init
  <2>4. QED
    BY <2>1, <2>2, <2>3 DEF Init, TypeOK
<1>2. WhatIsOpen /\ WhoReads
  BY DEF Init, WhatIsOpen, WhoReads, Reading, Cursor, Connection, FlightStages, MysqlStages
<1>3. Consecutive /\ Progress /\ WhatIsRaised /\ WhatIsOver
  BY DEF Init, Consecutive, Progress, WhatIsRaised, WhatIsOver, Emitted
<1>4. QED
  BY <1>1, <1>2, <1>3 DEF IInv

\* The next slice of the rows from a to b is not empty, and fits.
LEMMA NextSlice ==
    ASSUME NEW a \in Nat, NEW b \in Nat, a < b
    PROVE  Smaller(BatchSize, b - a) \in 1..BatchSize /\ a + Smaller(BatchSize, b - a) <= b
  BY DEF Smaller

\* Emitted is a number of rows.
LEMMA EmittedNat == TypeOK => Emitted \in Nat
<1> SUFFICES ASSUME TypeOK, blocks # <<>> PROVE Last(blocks).first + Last(blocks).rows \in Nat
  BY DEF Emitted
<1>1. blocks \in Seq(Block)
  BY DEF TypeOK, Block
<1>2. Len(blocks) \in 1..Len(blocks)
  BY <1>1
<1>3. Last(blocks) \in Block
  BY <1>1, <1>2 DEF Last
<1>4. QED
  BY <1>3 DEF Block

\* A step that hands over nothing and keeps the reader.
LEMMA Quiet ==
    ASSUME IInv, UNCHANGED <<blocks, source>>
    PROVE  Consecutive' /\ Emitted' = Emitted
  BY DEF IInv, Consecutive, Emitted

\* A step that hands over n rows after those handed over before.
LEMMA Handover ==
    ASSUME IInv, NEW n \in 0..BatchSize, source \in Sources, Emitted <= MaxRows,
           Emit(source, Emitted, n), source' = source
    PROVE  /\ blocks' \in Seq(Block)
           /\ blocks' # <<>>
           /\ Emitted' = Emitted + n
           /\ Consecutive'
<1> DEFINE new == [source |-> source, first |-> Emitted, rows |-> n]
<1>1. Emitted \in 0..MaxRows
  BY EmittedNat DEF IInv
<1>2. blocks \in Seq(Block) /\ new \in Block
  BY <1>1 DEF IInv, TypeOK, Block
<1>3. blocks' = Append(blocks, new)
  BY DEF Emit
<1> HIDE DEF new
<1>4. /\ blocks' \in Seq(Block)
      /\ Len(blocks') = Len(blocks) + 1
      /\ blocks'[Len(blocks')] = new
      /\ \A i \in 1..Len(blocks) : blocks'[i] = blocks[i]
  BY <1>2, <1>3
<1>5. blocks' # <<>> /\ Last(blocks') = new
  BY <1>4 DEF Last
<1>6. Emitted' = Emitted + n
  BY <1>1, <1>5 DEF Emitted, new
<1>7. ASSUME NEW i \in DOMAIN blocks'
      PROVE  /\ blocks'[i].source = source'
             /\ blocks'[i].first = IF i = 1 THEN 0
                                   ELSE blocks'[i - 1].first + blocks'[i - 1].rows
  <2>1. CASE i \in 1..Len(blocks)
    <3>1. i # 1 => i - 1 \in 1..Len(blocks)
      BY <1>2, <2>1
    <3>2. QED
      BY <1>2, <1>4, <2>1, <3>1 DEF IInv, Consecutive
  <2>2. CASE i = Len(blocks) + 1
    <3>1. blocks'[i].source = source' /\ blocks'[i].first = Emitted
      BY <1>4, <2>2 DEF new
    <3>2. CASE blocks = <<>>
      BY <3>1, <3>2, <2>2 DEF Emitted
    <3>3. CASE blocks # <<>>
      <4>1. i - 1 = Len(blocks) /\ i # 1 /\ Len(blocks) \in 1..Len(blocks)
        BY <1>2, <2>2, <3>3
      <4>2. Emitted = blocks[i - 1].first + blocks[i - 1].rows
        BY <3>3, <4>1 DEF Emitted, Last
      <4>3. QED
        BY <1>4, <3>1, <4>1, <4>2
    <3>4. QED
      BY <3>2, <3>3
  <2>3. QED
    BY <1>2, <1>4, <2>1, <2>2
<1>8. QED
  BY <1>4, <1>5, <1>6, <1>7 DEF Consecutive

LEMMA NextIInv == IInv /\ [Next]_vars => IInv'
<1> SUFFICES ASSUME IInv, [Next]_vars PROVE IInv'
  OBVIOUS
<1> USE DEF Reading, Cursor, Connection, FlightStages, MysqlStages
<1> USE DEF IInv, TypeOK, WhatIsOpen, WhoReads, Progress, WhatIsRaised, WhatIsOver
<1>0. /\ \A s \in Sources : size[s] \in Nat /\ size[s] <= MaxRows
      /\ Emitted \in Nat /\ fetched \in Nat
  BY EmittedNat
<1>1. CASE Select
  <2>1. Consecutive' /\ Emitted' = Emitted
    BY <1>1 DEF Select, Consecutive, Emitted
  <2>2. QED
    BY <1>1, <2>1 DEF Select
<1>2. CASE FlightConnect
  BY <1>2, Quiet DEF FlightConnect, Unwind, SetupError
<1>3. CASE FlightCursor
  BY <1>3, Quiet DEF FlightCursor, Unwind, SetupError
<1>4. CASE FlightExecute
  <2>1. Consecutive' /\ Emitted' = Emitted
    BY <1>4, Quiet DEF FlightExecute
  <2>2. CASE flight' = [flight EXCEPT !.reader = "open"] /\ pc' = "f_fetch"
             /\ UNCHANGED <<raised, cause>>
    BY <1>4, <2>1, <2>2 DEF FlightExecute, Emitted
  <2>3. ASSUME NEW fault \in {"setup", "timeout", "other"},
               Unwind(IF QuerySetupError(fault) THEN "unavailable" ELSE "error", fault),
               UNCHANGED flight
        PROVE  IInv'
    BY <1>4, <2>1, <2>3 DEF FlightExecute, Unwind, QuerySetupError
  <2>4. QED
    BY <1>4, <2>2, <2>3 DEF FlightExecute
<1>5. CASE FlightStreamFails
  BY <1>5, Quiet DEF FlightStreamFails, Unwind
<1>6. CASE FlightClosed
  BY <1>6, Quiet DEF FlightClosed, Unwind
<1>7. CASE CloseReader
  BY <1>7, Quiet DEF CloseReader, Replaced
<1>8. CASE CloseCursor
  BY <1>8, Quiet DEF CloseCursor, Replaced
<1>9. CASE CloseConnection
  BY <1>9, Quiet DEF CloseConnection, Replaced
<1>10. CASE FlightEnd
  BY <1>10, Quiet DEF FlightEnd, FallsBack, Consecutive, Emitted
<1>11. CASE MysqlConnect
  BY <1>11, Quiet DEF MysqlConnect, Leave
<1>12. CASE MysqlExecute
  <2>1. Consecutive' /\ Emitted' = Emitted /\ Emitted = 0
    BY <1>12, Quiet DEF MysqlExecute, Emitted
  <2>2. QED
    BY <1>12, <2>1 DEF MysqlExecute, Leave
<1>13. CASE MysqlFetchFails
  <2>1. Consecutive' /\ Emitted' = Emitted
    BY <1>13, Quiet DEF MysqlFetchFails
  <2>2. fetched' \in Nat /\ fetched <= fetched' /\ fetched' <= size["mysql"]
    BY <1>13, <1>0 DEF MysqlFetchFails, Smaller
  <2>3. QED
    BY <1>13, <1>0, <2>1, <2>2 DEF MysqlFetchFails, Leave
<1>14. CASE MysqlResume
  BY <1>14, Quiet DEF MysqlResume
<1>15. CASE MysqlClosed
  BY <1>15, Quiet DEF MysqlClosed, Leave
<1>16. CASE MysqlCleanup
  BY <1>16, Quiet DEF MysqlCleanup, RowsLeft, Closed, Detached
<1>17. CASE UNCHANGED vars
  BY <1>17, Quiet DEF vars
<1>18. CASE FlightFetch
  <2>1. PICK n : n = Smaller(BatchSize, fetched' - fetched)
    OBVIOUS
  <2>2. fetched' \in Nat /\ fetched < fetched' /\ fetched' <= size["flight"]
    BY <1>18, <1>0 DEF FlightFetch
  <2>3. n \in 0..BatchSize /\ fetched + n <= fetched'
    BY <1>0, <2>1, <2>2, NextSlice
  <2>4. Emit("flight", fetched, n) /\ source = "flight" /\ source' = source /\ Emitted = fetched
    BY <1>18, <2>1 DEF FlightFetch
  <2>5. Consecutive' /\ Emitted' = Emitted + n /\ blocks' \in Seq(Block) /\ blocks' # <<>>
    BY <1>0, <2>3, <2>4, Handover
  <2>6. Emitted' <= fetched' /\ fetched' \in 0..MaxRows
    BY <1>0, <2>2, <2>3, <2>4, <2>5
  <2>7. QED
    BY <1>18, <2>2, <2>4, <2>5, <2>6 DEF FlightFetch, Block
<1>19. CASE FlightEof
  <2>1. CASE config.external /\ blocks = <<>>
    <3>1. Emitted = 0
      BY <2>1 DEF Emitted
    <3>2. Consecutive' /\ Emitted' = 0 /\ blocks' \in Seq(Block) /\ blocks' # <<>>
      BY <1>19, <2>1, <3>1, Handover DEF FlightEof, Emit
    <3>3. QED
      BY <1>19, <2>1, <3>2 DEF FlightEof, Block
  <2>2. CASE ~(config.external /\ blocks = <<>>)
    BY <1>19, <2>2, Quiet DEF FlightEof, Unwind
  <2>3. QED
    BY <2>1, <2>2
<1>20. CASE FlightResume
  <2>1. CASE Emitted < fetched
    <3> DEFINE n == Smaller(BatchSize, fetched - Emitted)
    <3>1. n \in 1..BatchSize /\ Emitted + n <= fetched
      BY <1>0, <2>1, NextSlice
    <3> HIDE DEF n
    <3>2. n \in 0..BatchSize /\ Emitted + n <= fetched
      BY <3>1
    <3>3. Emit("flight", Emitted, n) /\ source = "flight" /\ source' = source
      BY <1>20, <2>1 DEF FlightResume, n
    <3>4. Consecutive' /\ Emitted' = Emitted + n /\ blocks' \in Seq(Block) /\ blocks' # <<>>
      BY <1>0, <2>1, <3>2, <3>3, Handover
    <3>5. QED
      BY <1>20, <1>0, <2>1, <3>2, <3>4 DEF FlightResume, Block
  <2>2. CASE ~(Emitted < fetched)
    BY <1>20, <1>0, <2>2, Quiet DEF FlightResume
  <2>3. QED
    BY <2>1, <2>2
<1>21. CASE MysqlFetch
  <2>1. FetchedRows \in 0..BatchSize /\ fetched + FetchedRows <= size["mysql"]
    BY <1>21, <1>0, NextSlice DEF MysqlFetch, FetchedRows
  <2>2. Consecutive' /\ Emitted' = Emitted + FetchedRows /\ blocks' \in Seq(Block)
        /\ blocks' # <<>>
    <3>1. Emit("mysql", Emitted, FetchedRows) /\ source = "mysql" /\ source' = source
      BY <1>21 DEF MysqlFetch
    <3>2. QED
      BY <1>0, <2>1, <3>1, Handover
  <2>3. QED
    BY <1>21, <1>0, <2>1, <2>2 DEF MysqlFetch, Block
<1>22. CASE MysqlEof
  <2>1. CASE config.external /\ blocks = <<>>
    <3>1. Emitted = 0
      BY <2>1 DEF Emitted
    <3>2. Consecutive' /\ Emitted' = 0 /\ blocks' \in Seq(Block) /\ blocks' # <<>>
      BY <1>22, <2>1, <3>1, Handover DEF MysqlEof, Emit
    <3>3. QED
      BY <1>22, <2>1, <3>1, <3>2 DEF MysqlEof, Block
  <2>2. CASE ~(config.external /\ blocks = <<>>)
    BY <1>22, <2>2, Quiet DEF MysqlEof, Leave
  <2>3. QED
    BY <2>1, <2>2
<1>23. QED
  BY <1>1, <1>2, <1>3, <1>4, <1>5, <1>6, <1>7, <1>8, <1>9, <1>10, <1>11, <1>12, <1>13, <1>14,
     <1>15, <1>16, <1>17, <1>18, <1>19, <1>20, <1>21, <1>22
     DEF Next, Flight, Mysql, Ended

\* The invariant holds in every reachable state.
LEMMA SpecIInv == SafeSpec => []IInv
  BY InitIInv, NextIInv, PTL DEF SafeSpec

\* DeliversOneResult: the blocks are consecutive rows of one result, and all of it
\* when the read ends normally.
THEOREM DeliversOneResultSafe == SafeSpec => []DeliversOneResult
<1>1. IInv => DeliversOneResult
  BY DEF IInv, Consecutive, WhatIsOver, DeliversOneResult
<1>2. QED
  BY <1>1, SpecIInv, PTL

\* FallbackIsClean: MySQL takes over only from a Flight that could not be set up,
\* from which nothing was handed over and nothing is left open.
THEOREM FallbackIsCleanSafe == SafeSpec => []FallbackIsClean
<1>1. IInv => FallbackIsClean
  <2> SUFFICES ASSUME IInv, source = "mysql", config.transport = "auto", config.installed
      PROVE  FallbackIsClean
    BY DEF FallbackIsClean
  <2>1. ~config.tls /\ cause \in {"import", "setup", "timeout"}
        /\ (cause = "timeout" => flight.cursor = "none")
    BY DEF IInv, WhoReads, WhatIsRaised
  <2>2. \A i \in DOMAIN blocks : blocks[i].source = "mysql"
    BY DEF IInv, Consecutive
  <2>3. \A r \in DOMAIN flight : flight[r] # "open"
    <3>1. DOMAIN flight = {"connection", "cursor", "reader"} /\ pc \notin Connection
      BY DEF IInv, TypeOK, WhoReads, FlightStages
    <3>2. flight.connection # "open" /\ flight.cursor # "open" /\ flight.reader # "open"
      BY <3>1 DEF IInv, WhatIsOpen, Connection, Cursor, Reading
    <3>3. QED
      BY <3>1, <3>2
  <2>4. QED
    BY <2>1, <2>2, <2>3 DEF FallbackIsClean
<1>2. QED
  BY <1>1, SpecIInv, PTL

\* ResourcesReleased: nothing is open after the end, whichever closes failed, and no
\* MySQL cursor is closed with rows left.
THEOREM ResourcesReleasedSafe == SafeSpec => []ResourcesReleased
<1>1. IInv => ResourcesReleased
  <2> SUFFICES ASSUME IInv PROVE ResourcesReleased
    OBVIOUS
  <2>1. DOMAIN flight = {"connection", "cursor", "reader"}
        /\ DOMAIN mysql = {"connection", "cursor"}
    BY DEF IInv, TypeOK
  <2>2. ASSUME pc = "end"
        PROVE  /\ flight.connection # "open" /\ flight.cursor # "open" /\ flight.reader # "open"
               /\ mysql.connection # "open" /\ mysql.cursor # "open"
    BY <2>2 DEF IInv, WhatIsOpen, Connection, Cursor, Reading, MysqlStages
  <2>3. QED
    BY <2>1, <2>2 DEF ResourcesReleased, IInv, WhatIsOver
<1>2. QED
  BY <1>1, SpecIInv, PTL

-----------------------------------------------------------------------------
(* SplitReader implements SplitRead.                                       *)

\* The Flight reader goes on, hands over more of its result, or ends; or MySQL takes
\* over before anything was handed over.
LEMMA FlightStep ==
    ASSUME IInv, Flight
    PROVE  [Contract!Next]_(Contract!vars)
<1> USE DEF IInv, TypeOK, WhoReads, Progress, WhatIsOver, FlightStages, Connection, Cursor, Reading
<1>1. Emitted \in Nat /\ fetched \in Nat /\ size["flight"] \in Nat
  BY EmittedNat
<1>2. ASSUME UNCHANGED <<size, source, blocks, status>> PROVE Contract!vars' = Contract!vars
  BY <1>2, Quiet DEF Contract!vars
<1>3. ASSUME NEW n \in 1..BatchSize, Emit("flight", Emitted, n), source = "flight",
             Emitted + n <= size["flight"], UNCHANGED <<size, source, status>>,
             status = "reading"
      PROVE  Contract!Next
  <2>1. Emitted' = Emitted + n
    BY <1>1, <1>3, Handover
  <2>2. Emitted' \in (Emitted + 1)..size[source]
    BY <1>1, <1>3, <2>1
  <2>3. QED
    BY <1>3, <2>2 DEF Contract!Next, Contract!Deliver
<1>4. CASE FlightConnect \/ FlightCursor \/ FlightExecute \/ FlightStreamFails \/ FlightClosed
           \/ CloseReader \/ CloseCursor \/ CloseConnection
  BY <1>2, <1>4 DEF FlightConnect, FlightCursor, FlightExecute, FlightStreamFails, FlightClosed,
         CloseReader, CloseCursor, CloseConnection
<1>5. CASE FlightFetch
  <2>1. fetched' \in Nat /\ fetched < fetched' /\ fetched' <= size["flight"]
    BY <1>1, <1>5 DEF FlightFetch
  <2> DEFINE n == Smaller(BatchSize, fetched' - fetched)
  <2>2. n \in 1..BatchSize /\ fetched + n <= fetched'
    BY <1>1, <2>1, NextSlice
  <2>3. /\ Emit("flight", fetched, n) /\ source = "flight" /\ status = "reading"
        /\ UNCHANGED <<size, source, status>> /\ Emitted = fetched
    BY <1>5 DEF FlightFetch
  <2> HIDE DEF n
  <2>4. fetched + n <= size["flight"]
    BY <1>1, <2>1, <2>2
  <2>5. QED
    BY <1>3, <2>2, <2>3, <2>4
<1>6. CASE FlightEof
  <2>1. CASE config.external /\ blocks = <<>>
    <3>1. Emitted = 0 /\ Emit("flight", 0, 0) /\ UNCHANGED <<size, source, status>>
      BY <1>6, <2>1 DEF FlightEof, Emitted
    <3>2. Emitted' = 0
      BY <1>6, <3>1, Handover DEF FlightEof
    <3>3. QED
      BY <3>1, <3>2 DEF Contract!vars
  <2>2. CASE ~(config.external /\ blocks = <<>>)
    BY <1>2, <1>6, <2>2 DEF FlightEof
  <2>3. QED
    BY <2>1, <2>2
<1>7. CASE FlightResume
  <2>1. CASE Emitted < fetched
    <3> DEFINE n == Smaller(BatchSize, fetched - Emitted)
    <3>1. n \in 1..BatchSize /\ Emitted + n <= fetched
      BY <1>1, <2>1, NextSlice
    <3>2. /\ Emit("flight", Emitted, n) /\ source = "flight" /\ status = "reading"
          /\ UNCHANGED <<size, source, status>> /\ fetched <= size["flight"]
      BY <1>7, <2>1 DEF FlightResume
    <3> HIDE DEF n
    <3>3. Emitted + n <= size["flight"]
      BY <1>1, <3>1, <3>2
    <3>4. QED
      BY <1>3, <3>1, <3>2, <3>3
  <2>2. CASE ~(Emitted < fetched)
    BY <1>2, <1>7, <2>2 DEF FlightResume
  <2>3. QED
    BY <2>1, <2>2
<1>8. CASE FlightEnd
  <2>1. UNCHANGED <<size, blocks>> /\ status = "reading" /\ Emitted' = Emitted
    BY <1>8 DEF FlightEnd, Emitted
  <2>2. CASE FallsBack
    <3>1. source' = "mysql" /\ Emitted = 0 /\ UNCHANGED status
      BY <1>8, <2>2 DEF FlightEnd, FallsBack, WhatIsRaised, Emitted
    <3>2. QED
      BY <2>1, <3>1 DEF Contract!Next, Contract!Choose
  <2>3. CASE ~FallsBack
    <3>1. /\ source = "flight" /\ UNCHANGED source
          /\ status' \in {"complete", "failed", "closed"}
          /\ status' = "complete" => Emitted = size[source]
      BY <1>8, <2>3 DEF FlightEnd, WhatIsRaised
    <3>2. Contract!End(status')
      BY <2>1, <3>1 DEF Contract!End
    <3>3. QED
      BY <3>1, <3>2 DEF Contract!Next
  <2>4. QED
    BY <2>2, <2>3
<1>9. QED
  BY <1>4, <1>5, <1>6, <1>7, <1>8 DEF Flight

\* The MySQL reader goes on, hands over the next rows, or ends.
LEMMA MysqlStep ==
    ASSUME IInv, Mysql
    PROVE  [Contract!Next]_(Contract!vars)
<1> USE DEF IInv, TypeOK, WhoReads, Progress, WhatIsOver, MysqlStages
<1>1. Emitted \in Nat /\ fetched \in Nat /\ size["mysql"] \in Nat
  BY EmittedNat
<1>2. ASSUME UNCHANGED <<size, source, blocks, status>> PROVE Contract!vars' = Contract!vars
  BY <1>2, Quiet DEF Contract!vars
<1>3. ASSUME NEW s \in {"complete", "failed", "closed"}, status' = s, status = "reading",
             UNCHANGED <<size, source, blocks>>,
             s = "complete" => source \in Sources /\ Emitted = size[source]
      PROVE  Contract!Next
  <2>1. Emitted' = Emitted
    BY <1>3, Quiet
  <2>2. Contract!End(s)
    BY <1>3, <2>1 DEF Contract!End
  <2>3. QED
    BY <2>2 DEF Contract!Next
<1>4. CASE MysqlConnect \/ MysqlExecute \/ MysqlFetchFails \/ MysqlClosed
  BY <1>2, <1>3, <1>4 DEF MysqlConnect, MysqlExecute, MysqlFetchFails, MysqlClosed, Leave
<1>5. CASE MysqlResume \/ MysqlCleanup
  BY <1>2, <1>5 DEF MysqlResume, MysqlCleanup
<1>6. CASE MysqlFetch
  <2>1. FetchedRows \in 1..BatchSize /\ fetched + FetchedRows <= size["mysql"]
    BY <1>1, <1>6, NextSlice DEF MysqlFetch, FetchedRows
  <2>2. /\ Emit("mysql", Emitted, FetchedRows) /\ source = "mysql" /\ status = "reading"
        /\ UNCHANGED <<size, source, status>> /\ Emitted = fetched
    BY <1>6 DEF MysqlFetch
  <2>3. Emitted' = Emitted + FetchedRows
    BY <1>1, <2>1, <2>2, Handover
  <2>4. Emitted' \in (Emitted + 1)..size[source]
    BY <1>1, <2>1, <2>2, <2>3
  <2>5. QED
    BY <2>2, <2>4 DEF Contract!Next, Contract!Deliver
<1>7. CASE MysqlEof
  <2>1. CASE config.external /\ blocks = <<>>
    <3>1. Emitted = 0 /\ Emit("mysql", 0, 0) /\ UNCHANGED <<size, source, status>>
          /\ source = "mysql"
      BY <1>7, <2>1 DEF MysqlEof, Emitted
    <3>2. Emitted' = 0
      BY <3>1, Handover
    <3>3. QED
      BY <3>1, <3>2 DEF Contract!vars
  <2>2. CASE ~(config.external /\ blocks = <<>>)
    <3>1. /\ status' = "complete" /\ status = "reading" /\ source = "mysql"
          /\ UNCHANGED <<size, source, blocks>> /\ Emitted = size[source]
      BY <1>7, <2>2 DEF MysqlEof, Leave
    <3>2. QED
      BY <1>3, <3>1
  <2>3. QED
    BY <2>1, <2>2
<1>8. QED
  BY <1>4, <1>5, <1>6, <1>7 DEF Mysql

\* A split reader implements SplitRead, fairness aside: it hands over growing parts of
\* one result and changes its transport only before the first row.
THEOREM ImplementsSplitReadSafely == SafeSpec => Contract!SafeSpec
<1>1. Init => Contract!Init
  <2> SUFFICES ASSUME Init PROVE Contract!Init
    OBVIOUS
  <2>1. size \in [Sources -> Nat] /\ Emitted = 0
    BY DEF Init, Emitted
  <2>2. QED
    BY <2>1 DEF Init, Contract!Init
<1>2. IInv /\ [Next]_vars => [Contract!Next]_(Contract!vars)
  <2> SUFFICES ASSUME IInv, [Next]_vars PROVE [Contract!Next]_(Contract!vars)
    OBVIOUS
  <2>1. CASE Select
    <3>1. Emitted = 0 /\ Emitted' = 0 /\ status = "reading" /\ UNCHANGED size
      BY <2>1 DEF Select, Emitted, IInv, Progress, WhatIsOver
    <3>2. CASE source' \in Sources /\ UNCHANGED status
      BY <3>1, <3>2 DEF Contract!Next, Contract!Choose
    <3>3. CASE status' = "failed" /\ UNCHANGED source
      BY <3>1, <3>3 DEF Contract!Next, Contract!End
    <3>4. QED
      BY <2>1, <3>2, <3>3 DEF Select
  <2>2. CASE UNCHANGED vars
    BY <2>2, Quiet DEF vars, Contract!vars
  <2>3. QED
    BY <2>1, <2>2, FlightStep, MysqlStep DEF Next, Ended
<1>3. QED
  BY <1>1, <1>2, SpecIInv, PTL DEF SafeSpec, Contract!SafeSpec
=============================================================================
