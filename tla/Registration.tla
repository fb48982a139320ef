--------------------------- MODULE Registration ---------------------------
(***************************************************************************)
(* The database under the server: gorm's AutoMigrate at the start, Create  *)
(* (a registration) and Find (a login) of the users controller, over       *)
(* database/sql's pool of lib/pq connections to a PostgreSQL server.        *)
(*                                                                         *)
(* database/sql and the server are not in the repository: their actions    *)
(* are the ones lib/pq and gorm are written against.                        *)
(***************************************************************************)
EXTENDS PqConn, FiniteSets

CONSTANTS
  Creates,   \* the registrations
  Finds,     \* the logins
  Migration, \* main's migrate
  Email,
  Conn,      \* identities of connections; a closed one is used again
  None,
  Settings,  \* what DATABASE_MAX_CONNECTIONS may give (0 is no limit), whether the
             \* server asks for a password, and a bound on the faults: failed dials
             \* and statements, refused sessions, broken sockets
  IdleShare  \* SetMaxIdleConns(max / 5): the 5

Requests == Creates \cup Finds \cup {Migration}

ASSUME RequestsAssumption == Creates \cap Finds = {} /\ Migration \notin Creates \cup Finds
ASSUME ConnsAssumption == None \notin Conn \cup Requests
ASSUME SettingsAssumption ==
  /\ Settings \subseteq [maxOpen : Nat, password : BOOLEAN, faults : Nat]
  /\ IdleShare \in Nat \ {0}

VARIABLES
  maxOpen,  \* of the pool
  password, \* whether the server wants one
  emailOf,  \* the email in each form
  open,     \* database/sql: the connections that count against maxOpen
  free,     \* freeConn
  conn,     \* each connection as lib/pq sees it
  asked,    \* the command on its way to the server, or None
  session,  \* of the server: its transaction status and uncommitted rows
  schema,   \* what there is: the table and its unique index
  table,    \* the committed rows; a row is named by the Create that inserted it
  request,  \* where each Create, Find or the migration is
  faults    \* those that may still happen

settings == <<maxOpen, password, emailOf>>
data == <<schema, table>>
vars == <<settings, open, free, conn, asked, session, data, request, faults>>

\* The statements without arguments, which the driver sends as a simple query.
Simple == {"createTable", "addColumn", "createIndex"}
Statement == Simple \cup {"insert", "find", "hasTable", "hasColumn", "hasIndex"}

Call == {"BEGIN", "PARSE", "EXEC", "SCAN", "ROWS", "QUERY", "COMMIT", "ROLLBACK", "DONE"}
Request ==
  [call : Call, doing : Statement, conn : Conn \cup {None}, sent : BOOLEAN,
   opening : {"no", "startup", "auth"},  \* DialOpen: where it waits
   started : BOOLEAN,                    \* gorm:started_transaction
   failed : BOOLEAN,                     \* scope.HasError()
   seen : SUBSET Error]                  \* every error a call returned, the ignored ones too

ASSUME NoneAssumption == None \notin Call \cup {"STARTUP", "PASSWORD"}

NoSession == [status |-> "gone", rows |-> {}]
NewSession == [status |-> "startup", rows |-> {}]

-----------------------------------------------------------------------------

FirstCall(doing) ==
  CASE doing = "insert" -> "BEGIN" [] doing \in Simple -> "QUERY" [] OTHER -> "PARSE"

Doing(r) ==
  CASE r \in Creates -> "insert" [] r \in Finds -> "find" [] r = Migration -> "hasTable"

\* The process starts; an earlier one may have made the table, with the index or without.
Init ==
  /\ \E s \in Settings : maxOpen = s.maxOpen /\ password = s.password /\ faults = s.faults
  /\ emailOf \in [Creates \cup Finds -> Email]
  /\ open = {} /\ free = {} /\ table = {}
  /\ schema \in {{}, {"table"}, {"table", "index"}}
  /\ conn = [c \in Conn |-> Fresh]
  /\ asked = [c \in Conn |-> None]
  /\ session = [c \in Conn |-> NoSession]
  /\ request = [r \in Requests |->
       [call |-> FirstCall(Doing(r)), doing |-> Doing(r), conn |-> None, sent |-> FALSE,
        opening |-> "no", started |-> FALSE, failed |-> FALSE, seen |-> {}]]

-----------------------------------------------------------------------------
(* database/sql's pool                                                       *)

\* main serves requests once migrate has returned.
Served(r) == r = Migration \/ request[Migration].call = "DONE"

Waits(r) == Served(r) /\ request[r].call # "DONE" /\ request[r].conn = None

AtLimit == maxOpen # 0 /\ Cardinality(open) >= maxOpen

\* DB.conn: a free connection,
Take(r) ==
  /\ Waits(r)
  /\ \E c \in free :
       /\ free' = free \ {c}
       /\ request' = [request EXCEPT ![r].conn = c]
  /\ UNCHANGED <<settings, open, conn, asked, session, data, faults>>

\* or a new one below the limit.  Waiting for one is not being able to do either.
Unused == {c \in Conn \ open : session[c] = NoSession}

\* DialOpen has a socket and sends its startup packet.
Open(r) ==
  /\ Waits(r) /\ free = {} /\ ~AtLimit /\ Unused # {}
  /\ LET c == CHOOSE c \in Unused : TRUE
     IN /\ open' = open \cup {c}
        /\ session' = [session EXCEPT ![c] = NewSession]
        /\ asked' = [asked EXCEPT ![c] = "STARTUP"]
        /\ request' = [request EXCEPT ![r].conn = c, ![r].opening = "startup"]
  /\ UNCHANGED <<settings, free, conn, data, faults>>

\* putConn(c, err) with the connection as lib/pq leaves it: a bad one is closed, a
\* good one is kept for a waiter or as long as there is room.
Kept(err) ==
  /\ err # "ErrBadConn"
  /\ \/ Cardinality(free) < maxOpen \div IdleShare
     \/ AtLimit /\ (\E r \in Requests : Waits(r))

\* conn.Close returns before it closes the socket of a bad connection.
PutConn(c, cn, err) ==
  IF Kept(err)
  THEN /\ free' = free \cup {c}
       /\ conn' = [conn EXCEPT ![c] = cn]
       /\ UNCHANGED <<open, session, asked>>
  ELSE /\ open' = open \ {c}
       /\ conn' = [conn EXCEPT ![c] = Fresh]
       /\ session' = IF cn.bad THEN session ELSE [session EXCEPT ![c] = NoSession]
       /\ asked' = [asked EXCEPT ![c] = None]
       /\ UNCHANGED free

KeepConn(c, cn) ==
  /\ conn' = [conn EXCEPT ![c] = cn]
  /\ UNCHANGED <<open, free, session, asked>>

-----------------------------------------------------------------------------
(* gorm: what follows a call, by what it returned                            *)

\* Fault: a Create that failed leaves its transaction alone.
EndUnlessFailed(q) ==
  IF ~q.started \/ q.failed THEN "DONE" ELSE "COMMIT"

\* CommitOrRollback; without a transaction there is nothing to end.
EndOf(q) ==
  IF ~q.started THEN "DONE" ELSE IF q.failed THEN "ROLLBACK" ELSE "COMMIT"

After(q) == [q EXCEPT !.call = EndOf(q), !.sent = FALSE]

\* Begin's error is dropped: the Create goes on without a transaction.
Began(q, err) == [q EXCEPT !.call = "PARSE", !.started = err = "none"]

HasRow(result) == result.said \cap Row # {}

\* QueryRow(...).Scan wants a row and a response without error.
Inserted(q, result) == After([q EXCEPT !.failed = result.err # "none" \/ ~HasRow(result)])

\* The loop over the rows looks at no error of theirs, only whether there was one.
Found(q, result) == After([q EXCEPT !.failed = ~HasRow(result)])

\* The count of HasTable, HasColumn and HasIndex; their errors are dropped.
Counts(result) == "D" \in result.said

Executes(q, doing) == [q EXCEPT !.doing = doing, !.call = FirstCall(doing), !.sent = FALSE]

\* addIndex; Exec does nothing in a scope with an error.
addIndex(q, counts) ==
  IF counts \/ q.failed THEN [q EXCEPT !.call = "DONE"] ELSE Executes(q, "createIndex")

\* autoMigrate after one of its statements.  The columns of the table are one.
autoMigrate(q, result) ==
  LET p == [q EXCEPT !.failed = @ \/ (q.doing \in Simple /\ result.err # "none")]
  IN CASE q.doing = "hasTable" ->
            Executes(p, IF Counts(result) THEN "hasColumn" ELSE "createTable")
       [] q.doing = "hasColumn" ->
            Executes(p, IF Counts(result) THEN "hasIndex" ELSE "addColumn")
       [] q.doing \in {"createTable", "addColumn"} -> Executes(p, "hasIndex")
       [] q.doing = "hasIndex"    -> addIndex(p, Counts(result))
       [] q.doing = "createIndex" -> [p EXCEPT !.call = "DONE"]

\* What follows a statement that is over.
Concludes(q, result) ==
  CASE q.doing = "insert" -> Inserted(q, result)
    [] q.doing = "find"   -> Found(q, result)
    [] OTHER              -> autoMigrate(q, result)

NextCall(q, result) ==
  CASE q.call = "BEGIN" -> Began(q, result.err)
    [] q.call \in {"COMMIT", "ROLLBACK"} -> [q EXCEPT !.call = "DONE"]
    [] q.call = "PARSE" /\ result.err = "none" -> [q EXCEPT !.call = "EXEC"]
    [] q.call = "EXEC" /\ result.err = "none" ->
         [q EXCEPT !.call = IF q.doing = "find" THEN "ROWS" ELSE "SCAN", !.sent = TRUE]
    [] OTHER -> Concludes(q, result)

-----------------------------------------------------------------------------
(* database/sql around a driver call                                         *)

\* DB.Begin, DB.Query and DB.Exec try again on another connection after ErrBadConn.
Retried(q, err) ==
  err = "ErrBadConn" /\ ~q.started /\ q.call \in {"BEGIN", "PARSE", "EXEC", "QUERY"}

Again(q) == [q EXCEPT !.call = IF @ = "EXEC" THEN "PARSE" ELSE @]

\* Tx.Commit and Tx.Rollback put the connection back whatever the driver said.
PutError(q, err) == IF q.call \in {"COMMIT", "ROLLBACK"} THEN "none" ELSE err

\* The connection goes back: with the end of its transaction, or, without one, when
\* the statement is over.
Over(q, next, err) ==
  \/ q.call \in {"COMMIT", "ROLLBACK"}
  \/ ~next.started /\ (err # "none" \/ q.call \in {"SCAN", "ROWS", "QUERY"})

Noting(q, err) == [q EXCEPT !.sent = FALSE, !.seen = IF err = "none" THEN @ ELSE @ \cup {err}]

Returns(r, result) ==
  LET c == request[r].conn
      q == Noting(request[r], result.err)
  IN \E next \in {IF Retried(q, result.err) THEN Again(q) ELSE NextCall(q, result)} :
       IF Over(q, next, result.err)
       THEN /\ request' = [request EXCEPT ![r] = [next EXCEPT !.conn = None]]
            /\ PutConn(c, result.cn, PutError(q, result.err))
       ELSE /\ request' = [request EXCEPT ![r] = next]
            /\ KeepConn(c, result.cn)

\* The call of q goes on with the error of opening a connection, which is none that is
\* tried again.
Unopened(q, err) ==
  [NextCall(Noting(q, err), Result(Fresh, err, {})) EXCEPT !.conn = None, !.opening = "no"]

\* dial returns an error.
DialFails(r) ==
  /\ Waits(r) /\ free = {} /\ ~AtLimit
  /\ faults > 0 /\ faults' = faults - 1
  /\ request' = [request EXCEPT ![r] = Unopened(@, "other")]
  /\ UNCHANGED <<settings, open, free, conn, asked, session, data>>

-----------------------------------------------------------------------------
(* lib/pq: a call begins with what it refuses, then writes                   *)

\* DialOpen reads: it answers the challenge,
SendPassword(r) ==
  LET c == request[r].conn
  IN /\ request[r].opening = "startup" /\ Challenged(conn[c])
     /\ conn' = [conn EXCEPT ![c].inbox = Tail(@)]
     /\ asked' = IF session[c] = NoSession THEN asked ELSE [asked EXCEPT ![c] = "PASSWORD"]
     /\ request' = [request EXCEPT ![r].opening = "auth"]
     /\ UNCHANGED <<settings, open, free, session, data, faults>>

\* or has a session, or returns its error and leaves the socket as it is.
OpenReturns(r) ==
  LET q == request[r]
      c == q.conn
      result == IF q.opening = "auth" THEN auth(conn[c]) ELSE startup(conn[c])
  IN /\ q.opening # "no" /\ conn[c].inbox # <<>> /\ ~Challenged(conn[c])
     /\ IF result.err = "none"
        THEN /\ request' = [request EXCEPT ![r].opening = "no"]
             /\ conn' = [conn EXCEPT ![c] = result.cn]
             /\ UNCHANGED <<open, asked>>
        ELSE /\ request' = [request EXCEPT ![r] = Unopened(@, result.err)]
             /\ conn' = [conn EXCEPT ![c] = Fresh]
             /\ open' = open \ {c}
             /\ asked' = [asked EXCEPT ![c] = None]
     /\ UNCHANGED <<settings, free, session, data, faults>>

Ready(r) ==
  LET q == request[r]
  IN q.conn # None /\ q.opening = "no" /\ ~q.sent /\ q.call # "DONE"

Send(r) ==
  LET q == request[r]
      cn == conn[q.conn]
  IN /\ Ready(r)
     /\ \/ /\ cn.bad
           /\ Returns(r, Result(cn, "ErrBadConn", {}))
        \/ /\ ~cn.bad /\ ~Expects(cn, q.call)
           /\ Returns(r, Broken(cn))
        \/ /\ ~cn.bad /\ Expects(cn, q.call)
           /\ request' = [request EXCEPT ![r].sent = TRUE]
           /\ asked' = IF session[q.conn] = NoSession THEN asked
                       ELSE [asked EXCEPT ![q.conn] = Wire(cn, q.call)]
           /\ UNCHANGED <<open, free, conn, session>>
     /\ UNCHANGED <<settings, data, faults>>

\* The write itself meets the end of the socket: a *net.OpError.
WriteFails(r) ==
  LET cn == conn[request[r].conn]
  IN /\ Ready(r) /\ session[request[r].conn] = NoSession
     /\ ~cn.bad /\ Expects(cn, request[r].call)
     /\ Returns(r, Recovered(cn, "reset", {}))
     /\ UNCHANGED <<settings, data, faults>>

Receive(r) ==
  LET q == request[r]
  IN /\ q.sent
     /\ Answered(conn[q.conn])
     /\ \E result \in {Concluded(conn[q.conn], q.call)} : Returns(r, result)
     /\ UNCHANGED <<settings, data, faults>>

-----------------------------------------------------------------------------
(* The server                                                                *)

InTransaction(c) == session[c].status \in {"inTransaction", "failed"}

Replies(c, msgs, status, rows) ==
  /\ conn' = [conn EXCEPT ![c].inbox = @ \o Append(msgs, status)]
  /\ session' = [session EXCEPT ![c] = [status |-> status, rows |-> rows]]
  /\ asked' = [asked EXCEPT ![c] = None]
  /\ UNCHANGED <<settings, open, free, request>>

\* A new session, perhaps after a password.
Welcomes(c) ==
  \/ /\ asked[c] = "STARTUP" /\ password
     /\ conn' = [conn EXCEPT ![c].inbox = Append(@, "R5")]
     /\ asked' = [asked EXCEPT ![c] = None]
     /\ UNCHANGED <<settings, open, free, session, data, request>>
  \/ /\ asked[c] = IF password THEN "PASSWORD" ELSE "STARTUP"
     /\ Replies(c, <<"R0", "K">>, "idle", {})
     /\ UNCHANGED data

\* Whose statement session c runs.
Asker(c) == CHOOSE r \in Requests : request[r].conn = c

Begins(c) ==
  /\ asked[c] = "BEGIN"
  /\ Replies(c, <<"BEGIN">>, "inTransaction", session[c].rows)
  /\ UNCHANGED data

Commits(c) ==
  /\ asked[c] = "COMMIT"
  /\ IF session[c].status = "failed"
     THEN Replies(c, <<"ROLLBACK">>, "idle", {}) /\ UNCHANGED table
     ELSE /\ Replies(c, <<"COMMIT">>, "idle", {})
          /\ table' = table \cup session[c].rows
  /\ UNCHANGED schema

RollsBack(c) ==
  /\ asked[c] = "ROLLBACK"
  /\ Replies(c, <<"ROLLBACK">>, "idle", {})
  /\ UNCHANGED data

\* The users table is known, or the statement is about the catalogue.
Parses(c) ==
  /\ asked[c] = "PARSE"
  /\ IF \/ session[c].status = "failed"
        \/ Asker(c) # Migration /\ "table" \notin schema
     THEN Replies(c, <<"E">>, IF InTransaction(c) THEN "failed" ELSE "idle", {})
     ELSE Replies(c, <<"1", "T">>, session[c].status, session[c].rows)
  /\ UNCHANGED data

SameEmail(r) == {s \in Creates : emailOf[s] = emailOf[r]}

\* With the index an INSERT conflicts with the rows of its email, and waits for an
\* uncommitted one of another session.
Inserts(c) ==
  LET r == Asker(c)
      taken == IF "index" \in schema THEN SameEmail(r) ELSE {}
  IN /\ asked[c] = "EXEC" /\ r \in Creates
     /\ \A d \in Conn \ {c} : session[d].rows \cap taken = {}
     /\ CASE table \cap taken # {} \/ session[c].status = "failed" ->
               /\ Replies(c, <<"2", "E">>, IF InTransaction(c) THEN "failed" ELSE "idle", {})
               /\ UNCHANGED table
          [] table \cap taken = {} /\ session[c].status = "inTransaction" ->
               /\ Replies(c, <<"2", "D", "INSERT">>, "inTransaction", session[c].rows \cup {r})
               /\ UNCHANGED table
          [] table \cap taken = {} /\ session[c].status = "idle" ->
               /\ Replies(c, <<"2", "D", "INSERT">>, "idle", {})
               /\ table' = table \cup {r}
     /\ UNCHANGED schema

\* A Find has a row or none, a count of the catalogue has one.
Selects(c) ==
  LET doing == request[Asker(c)].doing
      rows == CASE doing = "find" -> IF table \cap SameEmail(Asker(c)) = {} THEN <<>> ELSE <<"D">>
                [] doing \in {"hasTable", "hasColumn"} -> IF "table" \in schema THEN <<"D">> ELSE <<"0">>
                [] doing = "hasIndex" -> IF "index" \in schema THEN <<"D">> ELSE <<"0">>
  IN /\ asked[c] = "EXEC" /\ Asker(c) \notin Creates
     /\ Replies(c, <<"2">> \o rows \o <<"SELECT">>, session[c].status, session[c].rows)
     /\ UNCHANGED data

\* CREATE TABLE, ADD and CREATE UNIQUE INDEX; the table has its column.
Defines(c) ==
  LET doing == request[Asker(c)].doing
      made == CASE doing = "createTable" -> {"table"}
                [] doing = "createIndex" -> {"index"}
                [] doing = "addColumn"   -> {}
  IN /\ asked[c] = "QUERY"
     /\ IF made \subseteq schema \/ (made = {"index"} /\ "table" \notin schema)
        THEN Replies(c, <<"E">>, "idle", {}) /\ UNCHANGED schema
        ELSE /\ Replies(c, <<"CREATE">>, "idle", {})
             /\ schema' = schema \cup made
     /\ UNCHANGED table

Answer(c) ==
  /\ \/ Welcomes(c) \/ Begins(c) \/ Commits(c) \/ RollsBack(c)
     \/ Parses(c) \/ Inserts(c) \/ Selects(c) \/ Defines(c)
  /\ UNCHANGED faults

\* A statement the server cannot carry out; a transaction it belongs to is aborted.
Fails(c) ==
  /\ asked[c] \notin {None, "ROLLBACK", "STARTUP", "PASSWORD"}
  /\ faults > 0 /\ faults' = faults - 1
  /\ Replies(c, <<"E">>,
             IF InTransaction(c) /\ asked[c] # "COMMIT" THEN "failed" ELSE "idle", {})
  /\ UNCHANGED data

\* A session it does not want: the server says why and closes the socket.
Refuses(c) ==
  /\ asked[c] \in {"STARTUP", "PASSWORD"}
  /\ faults > 0 /\ faults' = faults - 1
  /\ conn' = [conn EXCEPT ![c].inbox = @ \o <<"E", "eof">>]
  /\ session' = [session EXCEPT ![c] = NoSession]
  /\ asked' = [asked EXCEPT ![c] = None]
  /\ UNCHANGED <<settings, open, free, data, request>>

\* The socket breaks after some of what was sent on it, perhaps within a message; the
\* server aborts what is not committed.  (A reader cannot tell "reset" from "eof".)
Break(c) ==
  /\ session[c] # NoSession
  /\ faults > 0 /\ faults' = faults - 1
  /\ \E n \in 0..Len(conn[c].inbox), end \in {"eof", "partial"} :
       /\ end = "partial" => n < Len(conn[c].inbox)
       /\ conn' = [conn EXCEPT ![c].inbox = Append(SubSeq(@, 1, n), end)]
  /\ session' = [session EXCEPT ![c] = NoSession]
  /\ asked' = [asked EXCEPT ![c] = None]
  /\ UNCHANGED <<settings, open, free, data, request>>

-----------------------------------------------------------------------------

Works ==
  \/ \E c \in Conn : Answer(c)
  \/ \E r \in Requests :
       Take(r) \/ Open(r) \/ SendPassword(r) \/ OpenReturns(r) \/ Send(r) \/ Receive(r)

Faults ==
  \/ \E r \in Requests : DialFails(r) \/ WriteFails(r)
  \/ \E c \in Conn : Fails(c) \/ Refuses(c) \/ Break(c)

Next == Works \/ Faults

Spec == Init /\ [][Next]_vars

\* As long as some goroutine or the server can go on, one of them does.
FairSpec == Spec /\ WF_vars(Works)

-----------------------------------------------------------------------------
(* Properties                                                                *)

\* A transaction on the server always belongs to a Create that is between its Begin and
\* its Commit or Rollback, so no connection that went back to the pool, or that was
\* dropped without closing its socket (conn.Close of a bad connection), keeps rows
\* locked; and a connection that waits in the pool and is not marked bad has
\* nothing left to read and agrees with the server (conn.go:463-468 is about this).
TransactionsAreHeld ==
  /\ \A c \in Conn : InTransaction(c) =>
       \E r \in Creates : request[r].conn = c /\ (request[r].started \/ request[r].call = "BEGIN")
  /\ \A c \in free : ~conn[c].bad /\ session[c] # NoSession =>
       /\ conn[c].txnStatus = session[c].status
       /\ conn[c].inbox = <<>> /\ conn[c].saved = "none"

\* What a Create makes of the answers is true of the table, though gorm ignores what
\* Begin, Commit and Rollback return and database/sql repeats an INSERT sent outside
\* a transaction: a Create without an error of any call has its row; one that failed
\* and lost no answer has none.  No email has two rows as long as there is the index
\* model/user.go asks for, and it is there unless a call of migrate failed, which main
\* does not look at.
ResultsAreTrue ==
  /\ "index" \in schema => \A r, s \in table : emailOf[r] = emailOf[s] => r = s
  /\ LET m == request[Migration]
     IN m.call = "DONE" /\ "index" \notin schema => m.seen # {}
  /\ \A r \in Creates : request[r].call = "DONE" =>
       /\ request[r].seen = {} => ~request[r].failed /\ r \in table
       /\ request[r].failed /\ request[r].seen \subseteq {"server"} => r \notin table

\* The migration, every registration and every login come back from the database, also
\* when all wait for connections and for each other's rows: no path keeps a connection.
RequestsReturn == <>(\A r \in Requests : request[r].call = "DONE")
=============================================================================
