----------------------------- MODULE SplitReader -----------------------------
(***************************************************************************)
(* read_split of _readers.py: the generator of Arrow blocks a read task    *)
(* runs for one split, over MySQL, over Flight SQL, or over Flight with a  *)
(* fallback to MySQL ("auto").  Every network operation may fail, every    *)
(* close may fail, and the consumer may close the generator at any yield.  *)
(*                                                                         *)
(* A row is a position in the result of one transport.  The two results    *)
(* are independent: the queries run at different times.  Faults are kept   *)
(* apart as far as the code tells them apart: "import", "setup" (OSError   *)
(* and the ADBC statuses the code names), "timeout", "other".              *)
(***************************************************************************)
EXTENDS Naturals, SequencesExt

CONSTANTS
    Configs,    \* transport, Flight installed, flight_scheme is TLS, external catalog
    MaxRows,    \* bound on the rows of a result
    BatchSize   \* config.batch_size

Sources == {"flight", "mysql"}

ConfigType == [transport : {"mysql", "flight", "auto"}, installed : BOOLEAN,
               tls : BOOLEAN, external : BOOLEAN]

ASSUME SplitReaderAssumption ==
    /\ Configs \subseteq ConfigType
    /\ MaxRows \in Nat
    /\ BatchSize \in Nat \ {0}

VARIABLES
    config,     \* the task's configuration
    size,       \* size[s]: rows the query of the split returns over s
    pc,         \* where the generator is
    source,     \* the reader that runs, "undecided" before
    flight,     \* Flight resources: none, open, or closed (close() was called)
    mysql,      \* MySQL resources, likewise; a detached cursor holds no result
    fetched,    \* rows taken from the server by the current reader
    blocks,     \* blocks handed over: source, first row, rows
    raised,     \* the exception on its way out of the Flight reader, or its EOF
    cause,      \* what made the Flight reader fail (history)
    drained,    \* the MySQL cursor was closed with rows left (history)
    reached_eof, \* read_mysql saw the end of its result
    status      \* "reading", then "complete", "failed" or "closed"

vars == <<config, size, pc, source, flight, mysql, fetched, blocks, raised, cause, drained,
          reached_eof, status>>
inputs == <<config, size>>
flightVars == <<flight, raised, cause>>
mysqlVars == <<mysql, drained, reached_eof>>

Resource == {"none", "open", "closed"}

TypeOK ==
    /\ config \in Configs
    /\ size \in [Sources -> 0..MaxRows]
    /\ pc \in {"select", "f_connect", "f_cursor", "f_execute", "f_fetch", "f_yield",
               "f_close_reader", "f_close_cursor", "f_close_connection", "f_end",
               "m_connect", "m_execute", "m_fetch", "m_yield", "m_cleanup", "end"}
    /\ source \in Sources \cup {"undecided"}
    /\ flight \in [connection : Resource, cursor : Resource, reader : Resource]
    /\ mysql \in [connection : Resource, cursor : Resource \cup {"detached"}]
    /\ fetched \in 0..MaxRows
    /\ blocks \in Seq([source : Sources, first : 0..MaxRows, rows : 0..BatchSize])
    /\ raised \in {"none", "eof", "unavailable", "error", "closed"}
    /\ cause \in {"none", "import", "setup", "timeout", "other", "stream"}
    /\ drained \in BOOLEAN
    /\ reached_eof \in BOOLEAN
    /\ status \in {"reading", "complete", "failed", "closed"}

Init ==
    /\ config \in Configs
    /\ size \in [Sources -> 0..MaxRows]
    /\ pc = "select"
    /\ source = "undecided"
    /\ flight = [connection |-> "none", cursor |-> "none", reader |-> "none"]
    /\ mysql = [connection |-> "none", cursor |-> "none"]
    /\ fetched = 0
    /\ blocks = <<>>
    /\ raised = "none"
    /\ cause = "none"
    /\ drained = FALSE
    /\ reached_eof = FALSE
    /\ status = "reading"

Smaller(a, b) == IF a <= b THEN a ELSE b

\* The row after the last one handed over.
Emitted == IF blocks = <<>> THEN 0 ELSE Last(blocks).first + Last(blocks).rows

\* Yield n rows of s, from the given one.
Emit(s, first, n) == blocks' = Append(blocks, [source |-> s, first |-> first, rows |-> n])

-----------------------------------------------------------------------------
(* read_split                                                              *)

\* The transport, as far as configuration and installation decide it.
Select ==
    /\ pc = "select"
    /\ \/ /\ \/ config.transport = "mysql"
             \/ config.transport = "auto" /\ ~config.installed /\ ~config.tls
          /\ pc' = "m_connect" /\ source' = "mysql" /\ UNCHANGED status
       \/ /\ config.transport # "mysql" /\ config.installed
          /\ pc' = "f_connect" /\ source' = "flight" /\ UNCHANGED status
       \/ /\ ~config.installed    \* ImportError
          /\ config.transport = "flight" \/ (config.transport = "auto" /\ config.tls)
          /\ pc' = "end" /\ status' = "failed" /\ UNCHANGED source
    /\ UNCHANGED <<inputs, flightVars, mysqlVars, fetched, blocks>>

-----------------------------------------------------------------------------
(* read_flight                                                             *)

\* _is_flight_setup_error, with the timeouts of the connect phase
SetupError(fault) == fault \in {"import", "setup", "timeout"}

\* Mutant: a query that timed out counts as a setup failure.
QuerySetupErrorWithTimeout(fault) == fault \in {"import", "setup", "timeout"}

\* _is_flight_setup_error(allow_timeout=False), for execute and fetch_record_batch
QuerySetupError(fault) == fault \in {"import", "setup"}

\* Leave the Flight reader with an exception, closing what it has opened.
Unwind(exception, fault) ==
    /\ raised' = exception
    /\ cause' = fault
    /\ pc' = IF flight.reader = "open" THEN "f_close_reader"
             ELSE IF flight.cursor = "open" THEN "f_close_cursor"
             ELSE IF flight.connection = "open" THEN "f_close_connection"
             ELSE "f_end"

\* _flight_connection
FlightConnect ==
    /\ pc = "f_connect"
    /\ \/ /\ flight' = [flight EXCEPT !.connection = "open"]
          /\ pc' = "f_cursor"
          /\ UNCHANGED <<raised, cause>>
       \/ /\ \E fault \in {"import", "setup", "timeout", "other"} :   \* other: no password
                Unwind(IF SetupError(fault) THEN "unavailable" ELSE "error", fault)
          /\ UNCHANGED flight
    /\ UNCHANGED <<inputs, source, mysqlVars, fetched, blocks, status>>

\* connection.cursor()
FlightCursor ==
    /\ pc = "f_cursor"
    /\ \/ /\ flight' = [flight EXCEPT !.cursor = "open"]
          /\ pc' = "f_execute"
          /\ UNCHANGED <<raised, cause>>
       \/ /\ \E fault \in {"setup", "timeout", "other"} :
                Unwind(IF SetupError(fault) THEN "unavailable" ELSE "error", fault)
          /\ UNCHANGED flight
    /\ UNCHANGED <<inputs, source, mysqlVars, fetched, blocks, status>>

\* cursor.execute and fetch_record_batch
FlightExecute ==
    /\ pc = "f_execute"
    /\ \/ /\ flight' = [flight EXCEPT !.reader = "open"]
          /\ pc' = "f_fetch"
          /\ UNCHANGED <<raised, cause>>
       \/ /\ \E fault \in {"setup", "timeout", "other"} :
                Unwind(IF QuerySetupError(fault) THEN "unavailable" ELSE "error", fault)
          /\ UNCHANGED flight
    /\ UNCHANGED <<inputs, source, mysqlVars, fetched, blocks, status>>

\* Mutant: a stream that breaks is treated like a setup failure.
FlightStreamFailsOver ==
    /\ pc = "f_fetch"
    /\ Unwind("unavailable", "stream")
    /\ UNCHANGED <<inputs, source, flight, mysqlVars, fetched, blocks, status>>

\* The stream breaks, or a record batch cannot be cast to the planned schema.
FlightStreamFails ==
    /\ pc = "f_fetch"
    /\ blocks # <<>> => Last(blocks).rows > 0    \* the empty block ends a stream
    /\ Unwind("error", "stream")
    /\ UNCHANGED <<inputs, source, flight, mysqlVars, fetched, blocks, status>>

\* The next record batch, of as many rows as the server likes, or none.
FlightFetch ==
    /\ pc = "f_fetch"
    /\ fetched < size["flight"]
    /\ fetched' \in (fetched + 1)..size["flight"]
    /\ pc' = "f_yield"
    /\ Emit("flight", fetched, Smaller(BatchSize, fetched' - fetched))
    /\ UNCHANGED <<inputs, source, flightVars, mysqlVars, status>>

\* The end of the stream; an external table without rows still yields its schema.
FlightEof ==
    /\ pc = "f_fetch"
    /\ fetched = size["flight"]
    /\ IF config.external /\ blocks = <<>>
       THEN /\ Emit("flight", 0, 0)
            /\ pc' = "f_yield"
            /\ UNCHANGED <<raised, cause>>
       ELSE /\ Unwind("eof", "none")
            /\ UNCHANGED blocks
    /\ UNCHANGED <<inputs, source, flight, mysqlVars, fetched, status>>

\* Mutant: only the first slice of a record batch is yielded.
FlightResumeDropsTail ==
    /\ pc = "f_yield"
    /\ pc' = "f_fetch"
    /\ UNCHANGED <<inputs, source, flightVars, mysqlVars, fetched, blocks, status>>

\* The consumer asks for more: the next slice of the record batch, or the next batch.
FlightResume ==
    /\ pc = "f_yield"
    /\ IF Emitted < fetched
       THEN /\ Emit("flight", Emitted, Smaller(BatchSize, fetched - Emitted))
            /\ UNCHANGED pc
       ELSE /\ pc' = "f_fetch"
            /\ UNCHANGED blocks
    /\ UNCHANGED <<inputs, source, flightVars, mysqlVars, fetched, status>>

\* GeneratorExit at a yield.
FlightClosed ==
    /\ pc = "f_yield"
    /\ Unwind("closed", "none")
    /\ UNCHANGED <<inputs, source, flight, mysqlVars, fetched, blocks, status>>

\* The nested finally blocks; a close that fails replaces the exception.
Replaced == raised' \in {raised, "error"}

CloseReader ==
    /\ pc = "f_close_reader"
    /\ flight' = [flight EXCEPT !.reader = "closed"]
    /\ Replaced
    /\ pc' = "f_close_cursor"
    /\ UNCHANGED <<inputs, source, mysqlVars, fetched, blocks, cause, status>>

\* Mutant: a cursor that fails to close leaves the connection to the interpreter.
CloseCursorGivesUp ==
    /\ pc = "f_close_cursor"
    /\ flight' = [flight EXCEPT !.cursor = "closed"]
    /\ \/ pc' = "f_close_connection" /\ UNCHANGED raised
       \/ pc' = "f_end" /\ raised' = "error"
    /\ UNCHANGED <<inputs, source, mysqlVars, fetched, blocks, cause, status>>

CloseCursor ==
    /\ pc = "f_close_cursor"
    /\ flight' = [flight EXCEPT !.cursor = "closed"]
    /\ Replaced
    /\ pc' = "f_close_connection"
    /\ UNCHANGED <<inputs, source, mysqlVars, fetched, blocks, cause, status>>

CloseConnection ==
    /\ pc = "f_close_connection"
    /\ flight' = [flight EXCEPT !.connection = "closed"]
    /\ Replaced
    /\ pc' = "f_end"
    /\ UNCHANGED <<inputs, source, mysqlVars, fetched, blocks, cause, status>>

\* auto_reader falls back on an unavailable Flight unless the scheme is TLS.
FallsBack == raised = "unavailable" /\ config.transport = "auto" /\ ~config.tls

FlightEnd ==
    /\ pc = "f_end"
    /\ IF FallsBack
       THEN pc' = "m_connect" /\ source' = "mysql" /\ fetched' = 0 /\ UNCHANGED status
       ELSE /\ pc' = "end"
            /\ status' = CASE raised = "eof" -> "complete"
                           [] raised = "closed" -> "closed"
                           [] OTHER -> "failed"
            /\ UNCHANGED <<source, fetched>>
    /\ UNCHANGED <<inputs, flightVars, mysqlVars, blocks>>

-----------------------------------------------------------------------------
(* read_mysql                                                              *)

\* Leave the MySQL reader; whatever it raises, cleanup cannot replace it.
Leave(s) == pc' = "m_cleanup" /\ status' = s

\* pymysql.connect, or no password
MysqlConnect ==
    /\ pc = "m_connect"
    /\ \/ /\ mysql' = [mysql EXCEPT !.connection = "open"]
          /\ pc' = "m_execute"
          /\ UNCHANGED status
       \/ Leave("failed") /\ UNCHANGED mysql
    /\ UNCHANGED <<inputs, source, flightVars, fetched, blocks, drained, reached_eof>>

\* connection.cursor(), execute, and the description of the columns
MysqlExecute ==
    /\ pc = "m_execute"
    /\ \/ mysql' = [mysql EXCEPT !.cursor = "open"] /\ pc' = "m_fetch" /\ UNCHANGED status
       \/ mysql' \in {mysql, [mysql EXCEPT !.cursor = "open"]} /\ Leave("failed")
    /\ UNCHANGED <<inputs, source, flightVars, fetched, blocks, drained, reached_eof>>

\* Mutant: every fetch is taken for a full one.
FetchedRowsFull == BatchSize

\* fetchmany(batch_size)
FetchedRows == Smaller(BatchSize, size["mysql"] - fetched)

MysqlFetch ==
    /\ pc = "m_fetch"
    /\ fetched < size["mysql"]
    /\ fetched' = fetched + FetchedRows
    /\ Emit("mysql", fetched, FetchedRows)
    /\ pc' = "m_yield"
    /\ UNCHANGED <<inputs, source, flightVars, mysqlVars, status>>

\* The connection breaks, or rows cannot be converted to the planned schema.
MysqlFetchFails ==
    /\ pc = "m_fetch"
    /\ ~reached_eof
    /\ Leave("failed")
    /\ fetched' \in {fetched, Smaller(fetched + BatchSize, size["mysql"])}
    /\ UNCHANGED <<inputs, source, flightVars, mysqlVars, blocks>>

\* Mutant: the schema block of an empty external table is yielded again and again.
MysqlEofForEver ==
    /\ pc = "m_fetch"
    /\ fetched = size["mysql"]
    /\ reached_eof' = TRUE
    /\ IF config.external /\ Emitted = 0
       THEN /\ blocks' = <<[source |-> "mysql", first |-> 0, rows |-> 0]>>
            /\ pc' = "m_yield"
            /\ UNCHANGED status
       ELSE Leave("complete") /\ UNCHANGED blocks
    /\ UNCHANGED <<inputs, source, flightVars, mysql, fetched, drained>>

\* No rows left; an external table without rows still yields its schema.
MysqlEof ==
    /\ pc = "m_fetch"
    /\ fetched = size["mysql"]
    /\ reached_eof' = TRUE
    /\ IF config.external /\ blocks = <<>>
       THEN Emit("mysql", 0, 0) /\ pc' = "m_yield" /\ UNCHANGED status
       ELSE Leave("complete") /\ UNCHANGED blocks
    /\ UNCHANGED <<inputs, source, flightVars, mysql, fetched, drained>>

MysqlResume ==
    /\ pc = "m_yield"
    /\ pc' = "m_fetch"
    /\ UNCHANGED <<inputs, source, flightVars, mysqlVars, fetched, blocks, status>>

\* GeneratorExit at a yield.
MysqlClosed ==
    /\ pc = "m_yield"
    /\ Leave("closed")
    /\ UNCHANGED <<inputs, source, flightVars, mysqlVars, fetched, blocks>>

\* PyMySQL's SSCursor.close() reads the rest of its result first.
RowsLeft == mysql.cursor = "open" /\ fetched < size["mysql"]

Closed(resource) == IF resource = "open" THEN "closed" ELSE resource
Detached(cursor) == IF cursor = "open" THEN "detached" ELSE cursor

\* Mutant: the cursor is closed first, however the reader ends.
MysqlCleanupInOrder ==
    /\ pc = "m_cleanup"
    /\ mysql' = [connection |-> Closed(mysql.connection), cursor |-> Closed(mysql.cursor)]
    /\ drained' = RowsLeft
    /\ pc' = "end"
    /\ UNCHANGED <<inputs, source, flightVars, fetched, blocks, reached_eof, status>>

\* _cleanup_mysql_reader: after EOF the cursor is closed, then the connection;
\* otherwise the connection is closed and the result detached from both.
MysqlCleanup ==
    /\ pc = "m_cleanup"
    /\ LET release(cursor) == IF reached_eof THEN Closed(cursor) ELSE Detached(cursor)
       IN  mysql' = [connection |-> Closed(mysql.connection),
                     cursor |-> release(mysql.cursor)]
    /\ drained' = (reached_eof /\ RowsLeft)
    /\ pc' = "end"
    /\ UNCHANGED <<inputs, source, flightVars, fetched, blocks, reached_eof, status>>

-----------------------------------------------------------------------------

Flight ==
    \/ FlightConnect \/ FlightCursor \/ FlightExecute
    \/ FlightFetch \/ FlightEof \/ FlightStreamFails
    \/ FlightResume \/ FlightClosed
    \/ CloseReader \/ CloseCursor \/ CloseConnection \/ FlightEnd

Mysql ==
    \/ MysqlConnect \/ MysqlExecute
    \/ MysqlFetch \/ MysqlEof \/ MysqlFetchFails
    \/ MysqlResume \/ MysqlClosed
    \/ MysqlCleanup

Ended == pc = "end" /\ UNCHANGED vars

Next == Select \/ Flight \/ Mysql \/ Ended

SafeSpec == Init /\ [][Next]_vars

\* Network operations end, by connect_timeout and query_timeout if by nothing
\* else, and the consumer of a block asks for the next one or closes the reader.
Spec == SafeSpec /\ WF_vars(Select \/ Flight \/ Mysql)

-----------------------------------------------------------------------------
(* Correctness.                                                            *)

\* Whatever failed and whichever transport took over, the blocks handed to Ray are
\* consecutive rows of one result of one transport, and a read that ends normally
\* has handed over all of them; an external table always yields its schema.
DeliversOneResult ==
    /\ TypeOK
    /\ \A i \in DOMAIN blocks :
          /\ blocks[i].source = source
          /\ blocks[i].first = IF i = 1 THEN 0 ELSE blocks[i - 1].first + blocks[i - 1].rows
    /\ status = "complete" =>
          /\ Emitted = size[source]
          /\ config.external => blocks # <<>>

\* "auto" falls back only on "import and explicitly identified setup failures" and
\* never "after RecordBatch data has been emitted", after a query that timed out or
\* from TLS (architecture.md, configure-transports.md); nothing of Flight is left.
FallbackIsClean ==
    source = "mysql" /\ config.transport = "auto" /\ config.installed =>
        /\ ~config.tls
        /\ cause \in {"import", "setup", "timeout"}
        /\ cause = "timeout" => flight.cursor = "none"
        /\ \A i \in DOMAIN blocks : blocks[i].source = "mysql"
        /\ \A r \in DOMAIN flight : flight[r] # "open"

\* However the read ends, in the middle of a close that failed as well, no
\* connection, cursor or stream stays open; and leaving a MySQL read early never reads
\* the rest of its result: the SSCursor is closed only when the result is exhausted.
ResourcesReleased ==
    /\ pc = "end" => /\ \A r \in DOMAIN flight : flight[r] # "open"
                     /\ \A r \in DOMAIN mysql : mysql[r] # "open"
    /\ ~drained

\* A read ends, normally or not, if its consumer goes on or closes it.
Terminates == <>(pc = "end")

\* A split reader is a read of one result of one transport.
Contract == INSTANCE SplitRead WITH delivered <- Emitted
ImplementsSplitRead == Contract!Spec
=============================================================================
