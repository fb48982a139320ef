------------------------------ MODULE PqConn ------------------------------
(***************************************************************************)
(* lib/pq's side of one connection: what a driver call makes of the        *)
(* messages it reads, and what it leaves on the connection.                *)
(*                                                                         *)
(* inbox holds what the server sent, message by message, and what the      *)
(* reader meets after it when the socket has come to an end.  Notices and  *)
(* parameter settings, which every reader skips, are left out.             *)
(***************************************************************************)
EXTENDS Naturals, Sequences, SequencesExt

\* txnStatus; a ReadyForQuery message is named by the status it carries.
Status == {"idle", "inTransaction", "failed"}

\* io.EOF; a *net.OpError; io.ErrUnexpectedEOF, the end within a message.
Ending == {"eof", "reset", "partial"}

\* CommandComplete, by its tag.
Tag == {"BEGIN", "COMMIT", "ROLLBACK", "INSERT", "SELECT", "CREATE"}

\* DataRow; "0" is the row of a count that is 0.
Row == {"D", "0"}

\* AuthenticationOk and AuthenticationMD5Password, BackendKeyData, ParseComplete,
\* RowDescription, BindComplete and ErrorResponse.
Message == Status \cup Tag \cup Row \cup {"R0", "R5", "K", "1", "T", "2", "E"}

\* What a call returns: no error, what the server said, driver.ErrBadConn, any other.
Error == {"none", "server", "ErrBadConn", "other"}

Connection ==
  [bad : BOOLEAN, txnStatus : Status, saved : Message \cup {"none"},
   inbox : Seq(Message \cup Ending)]

Fresh == [bad |-> FALSE, txnStatus |-> "idle", saved |-> "none", inbox |-> <<>>]

isInTransaction(cn) == cn.txnStatus \in {"inTransaction", "failed"}

\* A call or a part of it: the connection after it, its error, what was read.
Result(cn, err, said) == [cn |-> cn, err |-> err, said |-> said]

\* errRecover after a panic with the error of a read or of a write.
Recovered(cn, ending, said) ==
  Result([cn EXCEPT !.bad = @ \/ ending # "partial"],
         IF ending = "partial" THEN "other" ELSE "ErrBadConn", said)

\* An errorf panic that follows cn.bad = true.
Broken(cn) == Result([cn EXCEPT !.bad = TRUE], "other", {})

\* checkIsInTransaction before anything is written.
Expects(cn, call) ==
  CASE call = "BEGIN" -> ~isInTransaction(cn)
    [] call \in {"COMMIT", "ROLLBACK"} -> isInTransaction(cn)
    [] OTHER -> TRUE

-----------------------------------------------------------------------------
(* Reading one message.                                                      *)

\* The socket after the message at the head was read; an end is met again.
Rest(inbox) == IF Head(inbox) \in Ending THEN <<"eof">> ELSE Tail(inbox)

\* recvMessage: the saved message first.
recvMessage(cn) ==
  IF cn.saved # "none"
  THEN [t |-> cn.saved, cn |-> [cn EXCEPT !.saved = "none"]]
  ELSE [t |-> Head(cn.inbox), cn |-> [cn EXCEPT !.inbox = Rest(@)]]

\* processReadyForQuery
Settled(cn, status) == [cn EXCEPT !.txnStatus = status]

readReadyForQuery(cn, err) ==
  LET r == recvMessage(cn)
  IN CASE r.t \in Status -> Result(Settled(r.cn, r.t), err, {})
       [] r.t \in Ending -> Recovered(r.cn, r.t, {})
       [] OTHER          -> Broken(r.cn)

\* What the readers of the extended protocol share: the answer they want, or an error,
\* which is given once ReadyForQuery has been read.
Response(cn, wanted) ==
  LET r == recvMessage(cn)
  IN CASE r.t \in wanted -> Result(r.cn, "none", {r.t})
       [] r.t = "E"      -> readReadyForQuery(r.cn, "server")
       [] r.t \in Ending -> Recovered(r.cn, r.t, {})
       [] OTHER          -> Broken(r.cn)

readParseResponse(cn) == Response(cn, {"1"})
readStatementDescribeResponse(cn) == Response(cn, {"T"})
readBindResponse(cn) == Response(cn, {"2"})

saveMessage(r) == [r EXCEPT !.cn.saved = CHOOSE t \in r.said : TRUE]

\* Fault: the ReadyForQuery after an error is not waited for.
postExecuteWorkaroundNoSync(cn) ==
  LET r == recvMessage(cn)
      answer == Response(cn, Tag \cup Row)
  IN IF r.t = "E" THEN Result(r.cn, "server", {"E"})
     ELSE IF answer.err = "none" THEN saveMessage(answer) ELSE answer

\* The first message after BindComplete is looked at and left for rows.Next.
postExecuteWorkaround(cn) ==
  LET answer == Response(cn, Tag \cup Row)
  IN IF answer.err = "none" THEN saveMessage(answer) ELSE answer

\* A call goes on with the next reader unless one panicked.
Then(r, Reader(_)) == IF r.err = "none" THEN Reader(r.cn) ELSE r

prepareTo(cn) ==
  LET ready(c) == readReadyForQuery(c, "none")
  IN Then(Then(readParseResponse(cn), readStatementDescribeResponse), ready)

exec(cn) == Then(readBindResponse(cn), postExecuteWorkaround)

-----------------------------------------------------------------------------
(* Reading up to ReadyForQuery.                                              *)

\* The messages a loop passes over, and the one it stops at.
Passed == Tag \cup Row \cup {"E"}

ReadOn(cn, Unexpected(_)) ==
  LET all  == (IF cn.saved = "none" THEN <<>> ELSE <<cn.saved>>) \o cn.inbox
      stop == SelectInSeq(all, LAMBDA t : t \notin Passed)
      said == ToSet(SubSeq(all, 1, stop - 1))
      left == [cn EXCEPT !.saved = "none", !.inbox = Rest(SubSeq(all, stop, Len(all)))]
  IN CASE all[stop] \in Status ->
            Result(Settled(left, all[stop]), IF "E" \in said THEN "server" ELSE "none", said)
       [] all[stop] \in Ending -> Recovered(left, all[stop], said)
       [] OTHER -> Unexpected(left)

simpleExec(cn) == ReadOn(cn, Broken)

\* rows.Next until it has no more; a message out of place does not mark the connection.
RowsNext(cn) == ReadOn(cn, LAMBDA c : Result(c, "other", {}))

\* rows.Close after Next has returned its error: unless the response is over it reads on.
RowsClosed(r) ==
  CASE r.err \in {"none", "server"} -> r
    [] r.err = "ErrBadConn"         -> r
    [] OTHER                        -> [RowsNext(r.cn) EXCEPT !.said = r.said]

\* Row.Scan takes one row, and it is Close that reads what follows; the loop over Rows
\* has read everything when it closes.
RowScan(cn) == IF cn.saved \in Row THEN RowsNext(cn) ELSE RowsClosed(RowsNext(cn))
RowsLoop(cn) == RowsClosed(RowsNext(cn))

\* Begin, Commit and Rollback, once simpleExec is over.
Begun(cn) ==
  LET r == simpleExec(cn)
  IN IF r.err = "none" /\ ("BEGIN" \notin r.said \/ r.cn.txnStatus # "inTransaction")
     THEN Broken(r.cn) ELSE r

\* Fault: an answer is an answer.
CommittedAnyhow(cn) ==
  [simpleExec(cn) EXCEPT !.err = IF @ = "server" THEN "none" ELSE @]

Committed(cn) ==
  LET r == simpleExec(cn)
  IN CASE r.err = "server" /\ isInTransaction(r.cn) -> [Broken(r.cn) EXCEPT !.err = r.err]
       [] r.err = "none" /\ ("COMMIT" \notin r.said \/ isInTransaction(r.cn)) -> Broken(r.cn)
       [] OTHER -> r

RolledBack(cn) ==
  LET r == simpleExec(cn)
  IN CASE r.err = "server" /\ isInTransaction(r.cn) -> [Broken(r.cn) EXCEPT !.err = r.err]
       [] r.err = "none" /\ "ROLLBACK" \notin r.said -> [r EXCEPT !.err = "other"]
       [] r.err = "none" /\ "ROLLBACK" \in r.said /\ isInTransaction(r.cn) -> Broken(r.cn)
       [] OTHER -> r

\* The command written for a call: Commit of a failed transaction is a Rollback,
Wire(cn, call) ==
  IF call = "COMMIT" /\ cn.txnStatus = "failed" THEN "ROLLBACK" ELSE call

\* which returns ErrInFailedTransaction.
NotCommitted(r) == IF r.err = "none" THEN [r EXCEPT !.err = "other"] ELSE r

\* A call that was written is answered up to a ReadyForQuery or the end of the socket.
Answered(cn) == \E i \in DOMAIN cn.inbox : cn.inbox[i] \in Status \cup Ending

Concluded(cn, call) ==
  CASE call = "BEGIN"    -> Begun(cn)
    [] call = "COMMIT" /\ Wire(cn, call) = "COMMIT" -> Committed(cn)
    [] call = "COMMIT" /\ Wire(cn, call) # "COMMIT" -> NotCommitted(RolledBack(cn))
    [] call = "ROLLBACK" -> RolledBack(cn)
    [] call = "PARSE"    -> prepareTo(cn)
    [] call = "EXEC"     -> exec(cn)
    [] call = "SCAN"     -> RowScan(cn)
    [] call = "ROWS"     -> RowsLoop(cn)
    [] call = "QUERY"    -> simpleExec(cn)

-----------------------------------------------------------------------------
(* DialOpen: its panics are returned as they are, never as ErrBadConn.        *)

\* The server wants a password.
Challenged(cn) == cn.inbox # <<>> /\ Head(cn.inbox) = "R5"

startup(cn) ==
  LET stop == SelectInSeq(cn.inbox, LAMBDA t : t \notin {"R0", "K"})
      t    == cn.inbox[stop]
      left == [cn EXCEPT !.inbox = Rest(SubSeq(@, stop, Len(@)))]
  IN CASE t \in Status -> Result(Settled(left, t), "none", {})
       [] t = "E"      -> Result(left, "server", {})
       [] OTHER        -> Result(left, "other", {})

\* auth, once the password is sent: AuthenticationOk comes first.
auth(cn) ==
  IF Head(cn.inbox) \in {"R0", "E"} THEN startup(cn) ELSE Result(cn, "other", {})
=============================================================================
