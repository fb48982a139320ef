----------------------------- MODULE RedisConn -----------------------------
(***************************************************************************)
(* One connection to Redis (redigo's conn) and what the commands sent on   *)
(* it leave behind: replies nobody has read, and the modes of the server.  *)
(* A connection has one user at a time, so an exchange is one value of its *)
(* record.  The write buffer is left out: the server has answered what was *)
(* written, and a Receive comes after the Flush it needs.                  *)
(***************************************************************************)
EXTENDS Sequences, Naturals

CONSTANT Command   \* the commands in use, among the names below or others

Sentinel == "ECHO sentinel"

ASSUME SentinelAssumption == Sentinel \notin Command   \* it is random

(* err: c.err is set and the socket is closed; pending: commands sent with   *)
(* Send whose replies were not read; replies: what the server has sent; mode: *)
(* what it keeps for the connection.                                           *)
State == {"watch", "multi", "subscribe", "monitor"}
Mode  == {"watch", "multi", "channels", "patterns", "monitor"}
Reply == {"reply", "message", "echo"}

Traffic == [err : BOOLEAN, pending : Nat, replies : Seq(Reply), mode : SUBSET Mode]

Fresh  == [err |-> FALSE, pending |-> 0, replies |-> <<>>, mode |-> {}]
Broken == [Fresh EXCEPT !.err = TRUE]

-----------------------------------------------------------------------------
(* What the client notes of a command before it sends it. *)

StateSet(cmd) ==
  CASE cmd = "WATCH"                     -> {"watch"}
    [] cmd = "MULTI"                     -> {"multi"}
    [] cmd \in {"SUBSCRIBE", "PSUBSCRIBE"} -> {"subscribe"}
    [] cmd = "MONITOR"                   -> {"monitor"}
    [] OTHER                             -> {}

StateCleared(cmd) ==
  CASE cmd = "UNWATCH"             -> {"watch"}
    [] cmd \in {"EXEC", "DISCARD"} -> {"watch", "multi"}
    [] OTHER                       -> {}

Noted(state, cmd) == (state \cup StateSet(cmd)) \ StateCleared(cmd)

-----------------------------------------------------------------------------
(* The server (external). *)

Subscribed(mode) == mode \cap {"channels", "patterns"} # {}

\* What a user who knows Redis sends: an end for a transaction that was begun,
\* and a subscription on a connection that is not in the middle of one.
Expected(mode, cmd) ==
  /\ cmd \in {"EXEC", "DISCARD"} => "multi" \in mode
  /\ cmd \in {"SUBSCRIBE", "PSUBSCRIBE"} => mode \cap {"watch", "multi"} = {}

Resubscribes == {"SUBSCRIBE", "PSUBSCRIBE", "UNSUBSCRIBE", "PUNSUBSCRIBE"}

\* A subscribed connection takes nothing but more or fewer subscriptions, and
\* between MULTI and its end commands only wait.
Ignored(mode, cmd) ==
  /\ cmd \notin Resubscribes
  /\ Subscribed(mode) \/ ("multi" \in mode /\ cmd \notin {"EXEC", "DISCARD"})

ModeAfter(mode, cmd) ==
  IF Ignored(mode, cmd) THEN mode
  ELSE CASE cmd = "UNSUBSCRIBE"         -> mode \ {"channels"}
         [] cmd = "PUNSUBSCRIBE"        -> mode \ {"patterns"}
         [] cmd = "SUBSCRIBE"           -> mode \cup {"channels"}
         [] cmd = "PSUBSCRIBE"          -> mode \cup {"patterns"}
         [] cmd \in {"EXEC", "DISCARD"} -> mode \ {"watch", "multi"}
         [] cmd = "MULTI"               -> mode \cup {"multi"}
         [] cmd = "WATCH"               -> mode \cup {"watch"}
         [] cmd = "UNWATCH"             -> mode \ {"watch"}
         [] cmd = "MONITOR"             -> mode \cup {"monitor"}
         [] OTHER                       -> mode

Answer(c, cmd) ==
  [c EXCEPT !.mode    = ModeAfter(@, cmd),
            !.replies = Append(@, IF cmd = Sentinel THEN "echo" ELSE "reply")]

\* A message of a subscription, or of MONITOR, that no command asked for.
Push(c) == [c EXCEPT !.replies = Append(@, "message")]

-----------------------------------------------------------------------------
(* The client. *)

Less(m, n) == IF m > n THEN m - n ELSE 0

Skip(replies, n) == SubSeq(replies, n + 1, Len(replies))

Send(c, cmd) == Answer([c EXCEPT !.pending = @ + 1], cmd)

Receive(c) == [c EXCEPT !.replies = Tail(@), !.pending = Less(@, 1)]

\* Reads the replies of the commands before it, and one more.
Do(c, cmd) ==
  [Answer(c, cmd) EXCEPT !.pending = 0, !.replies = Skip(@, c.pending + 1)]

\* Do(""): the replies pending, no command.
DoPending(c) == [c EXCEPT !.pending = 0, !.replies = Skip(@, c.pending)]

\* The replies up to the echo of the sentinel, which nobody else has sent.
UpToEcho(replies) == CHOOSE n \in 1 .. Len(replies) : replies[n] = "echo"

ReceiveEcho(c) ==
  [c EXCEPT !.pending = Less(@, UpToEcho(c.replies)),
            !.replies = Skip(@, UpToEcho(@))]

-----------------------------------------------------------------------------
(* pooledConnection.Close: what it sends to leave the connection as new. *)

EndTransaction(c, state) ==
  IF "multi" \in state THEN Send(c, "DISCARD")
  ELSE IF "watch" \in state THEN Send(c, "UNWATCH")
  ELSE c

\* Fault: patterns are not subscriptions of UNSUBSCRIBE.
EndChannels(c, state) ==
  IF "subscribe" \in state
  THEN ReceiveEcho(Send(Send(c, "UNSUBSCRIBE"), Sentinel))
  ELSE c

EndSubscriptions(c, state) ==
  IF "subscribe" \in state
  THEN ReceiveEcho(Send(Send(Send(c, "UNSUBSCRIBE"), "PUNSUBSCRIBE"), Sentinel))
  ELSE c

Cleaned(c, state) == DoPending(EndSubscriptions(EndTransaction(c, state), state))

\* What is left of the state decides whether the connection is used again.
StateLeft(state) == state \cap {"monitor"}
=============================================================================
