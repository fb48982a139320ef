----------------------------- MODULE RedisPool -----------------------------
(***************************************************************************)
(* redigo's Pool and the connections it hands out.  An action is what a    *)
(* goroutine does while it holds p.mu, with what follows up to its next    *)
(* lock, dial, test or close.                                               *)
(***************************************************************************)
EXTENDS RedisConn, FiniteSets, SequencesExt

CONSTANTS
  User,       \* goroutines that get and close connections
  Conn,       \* identities of connections; a closed one is used again
  Config,     \* the settings of the Pool struct to check
  None,       \* in place of a connection, a user or traffic
  MaxReplies, \* bound: unread replies a user lets come
  MaxBusy     \* bound: connections with something left on them at a time

Settings ==
  [MaxIdle : Nat, MaxActive : Nat, Wait : BOOLEAN, Test : BOOLEAN, Timeout : BOOLEAN]

ASSUME ConfigAssumption == Config \subseteq Settings
ASSUME ConnAssumption == IsFiniteSet(Conn) /\ None \notin Conn \cup User
ASSUME NoTrafficAssumption == None \notin Traffic
ASSUME UserAssumption == IsFiniteSet(User)
ASSUME BoundsAssumption == MaxReplies \in Nat /\ MaxBusy \in Nat

VARIABLES
  config,    \* the exported fields of the Pool; Test and Timeout: set or not
  idle,      \* p.idle, most recently used first
  active,    \* p.active
  closed,    \* p.closed
  waiting,   \* p.cond: the users that wait for a signal, in the order they came
  leftover,  \* idle connections that Pool.Close has yet to close
  pc,        \* where each user is
  conn,      \* the connection each user has in hand
  left,      \* rounds left in the loop a user is in
  state,     \* pooledConnection.state
  traffic    \* of each open connection

poolVars == <<idle, active, closed, waiting, leftover>>
userVars == <<pc, conn, left, state>>
vars == <<config, poolVars, userVars, traffic>>

\* Get waits or runs ("pruning", "testing", "dialing", "waiting"), the caller has
\* an error connection or none ("out"), a connection ("using"), or put is about to
\* close one ("discarding").
Stage == {"out", "pruning", "testing", "dialing", "waiting", "using", "discarding"}

-----------------------------------------------------------------------------

Init ==
  /\ config \in Config
  /\ idle = <<>>
  /\ active = 0
  /\ closed = FALSE
  /\ waiting = <<>>
  /\ leftover = <<>>
  /\ pc = [u \in User |-> "out"]
  /\ conn = [u \in User |-> None]
  /\ left = [u \in User |-> 0]
  /\ state = [u \in User |-> {}]
  /\ traffic = [c \in Conn |-> None]

\* The user goes on at stage to with connection c in hand.
Goes(u, to, c, rounds) ==
  /\ pc'    = [pc EXCEPT ![u] = to]
  /\ conn'  = [conn EXCEPT ![u] = c]
  /\ left'  = [left EXCEPT ![u] = rounds]
  /\ state' = [state EXCEPT ![u] = {}]

Signalled(queue) == IF queue = <<>> THEN <<>> ELSE Tail(queue)

\* traffic once c is closed.
Closed(c) == [traffic EXCEPT ![c] = None]

-----------------------------------------------------------------------------
(* get: the body of the for loop, from a counter and a queue that may have   *)
(* changed under the same lock.                                                *)

TakeIdle(u, act, queue, rounds) ==
  /\ rounds > 0 /\ idle # <<>>
  /\ Goes(u, IF config.Test THEN "testing" ELSE "using", Head(idle), rounds - 1)
  /\ idle' = Tail(idle)
  /\ active' = act
  /\ waiting' = queue

AtLimit(act) == config.MaxActive # 0 /\ act >= config.MaxActive

DialOrWait(u, act, queue, rounds) ==
  /\ rounds = 0 \/ idle = <<>>
  /\ \/ /\ closed
        /\ Goes(u, "out", None, 0)
        /\ active' = act
        /\ waiting' = queue
     \/ /\ ~closed /\ ~AtLimit(act)
        /\ Goes(u, "dialing", None, 0)
        /\ active' = act + 1
        /\ waiting' = queue
     \/ /\ ~closed /\ AtLimit(act) /\ ~config.Wait
        /\ Goes(u, "out", None, 0)
        /\ active' = act
        /\ waiting' = queue
     \/ /\ ~closed /\ AtLimit(act) /\ config.Wait
        /\ Goes(u, "waiting", None, 0)
        /\ active' = act
        /\ waiting' = Append(queue, u)
  /\ UNCHANGED idle

Look(u, act, queue, rounds) ==
  /\ \/ TakeIdle(u, act, queue, rounds)
     \/ DialOrWait(u, act, queue, rounds)
  /\ UNCHANGED <<config, closed, leftover>>

\* The oldest idle connection has expired; the ones before it may have, too.
Prune(u, rounds) ==
  /\ config.Timeout /\ rounds > 0 /\ idle # <<>>
  /\ Goes(u, "pruning", Last(idle), rounds - 1)
  /\ idle' = Front(idle)
  /\ active' = active - 1
  /\ waiting' = Signalled(waiting)
  /\ UNCHANGED <<config, closed, leftover>>

Get(u) ==
  /\ pc[u] = "out"
  /\ Prune(u, Len(idle)) \/ Look(u, active, waiting, Len(idle))
  /\ UNCHANGED traffic

\* ic.c.Close() of the connection just removed, and the loop goes on.
GetPruned(u) ==
  /\ pc[u] = "pruning"
  /\ Prune(u, left[u]) \/ Look(u, active, waiting, Len(idle))
  /\ traffic' = Closed(conn[u])

TestPassed(u) ==
  /\ pc[u] = "testing"
  /\ Goes(u, "using", conn[u], 0)
  /\ UNCHANGED <<config, poolVars, traffic>>

\* Fault: the connection that failed the test is dropped and not closed.
TestFailedOpen(u) ==
  /\ pc[u] = "testing"
  /\ Look(u, active - 1, Signalled(waiting), left[u])
  /\ UNCHANGED traffic

TestFailed(u) ==
  /\ pc[u] = "testing"
  /\ Look(u, active - 1, Signalled(waiting), left[u])
  /\ traffic' = Closed(conn[u])

\* cond.Wait has returned.
GetAwake(u) ==
  /\ pc[u] = "waiting" /\ u \notin ToSet(waiting)
  /\ Look(u, active, waiting, Len(idle))
  /\ UNCHANGED traffic

-----------------------------------------------------------------------------
(* dial: the count was raised before. *)

Dialed(u, c) ==
  /\ pc[u] = "dialing"
  /\ traffic[c] = None
  /\ Goes(u, "using", c, 0)
  /\ traffic' = [traffic EXCEPT ![c] = Fresh]
  /\ UNCHANGED <<config, poolVars>>

\* Fault: the count stays raised.
DialFailedUncounted(u) ==
  /\ pc[u] = "dialing"
  /\ Goes(u, "out", None, 0)
  /\ waiting' = Signalled(waiting)
  /\ UNCHANGED <<config, idle, active, closed, leftover, traffic>>

DialFailed(u) ==
  /\ pc[u] = "dialing"
  /\ Goes(u, "out", None, 0)
  /\ active' = active - 1
  /\ waiting' = Signalled(waiting)
  /\ UNCHANGED <<config, idle, closed, leftover, traffic>>

-----------------------------------------------------------------------------
(* The connection in use. *)

\* Bound: what a user may leave on its connection while others do so.
Room(c) ==
  /\ Len(traffic[c].replies) < MaxReplies
  /\ Cardinality({d \in Conn : traffic[d] \notin {None, Fresh, Broken}} \cup {c}) <= MaxBusy

\* An exchange that gives the traffic t, or fails: then fatal closes the socket.
Exchange(u, t) ==
  /\ \E result \in {t, Broken} : traffic' = [traffic EXCEPT ![conn[u]] = result]
  /\ UNCHANGED <<config, poolVars, pc, conn, left>>

InUse(u) == pc[u] = "using" /\ ~traffic[conn[u]].err

UserSend(u, cmd) ==
  /\ InUse(u) /\ Room(conn[u]) /\ Expected(traffic[conn[u]].mode, cmd)
  /\ state' = [state EXCEPT ![u] = Noted(@, cmd)]
  /\ Exchange(u, Send(traffic[conn[u]], cmd))

UserDo(u, cmd) ==
  /\ InUse(u) /\ Room(conn[u]) /\ Expected(traffic[conn[u]].mode, cmd)
  /\ state' = [state EXCEPT ![u] = Noted(@, cmd)]
  /\ Exchange(u, Do(traffic[conn[u]], cmd))

UserReceive(u) ==
  /\ InUse(u) /\ traffic[conn[u]].replies # <<>>
  /\ Exchange(u, Receive(traffic[conn[u]]))
  /\ UNCHANGED state

ServerPush(c) ==
  /\ traffic[c] # None
  /\ traffic[c].mode \cap {"channels", "patterns", "monitor"} # {}
  /\ Room(c)
  /\ traffic' = [traffic EXCEPT ![c] = Push(@)]
  /\ UNCHANGED <<config, poolVars, userVars>>

-----------------------------------------------------------------------------
(* pooledConnection.Close and put. *)

\* The connection is not kept: put counts it out and closes it when it has unlocked.
Release(u, c) ==
  /\ Goes(u, "discarding", c, 0)
  /\ active' = active - 1
  /\ waiting' = Signalled(waiting)

\* Fault: only a released connection is worth a signal.
KeepSilently(u) ==
  /\ Goes(u, "out", None, 0)
  /\ UNCHANGED <<active, waiting>>

Keep(u) ==
  /\ Goes(u, "out", None, 0)
  /\ waiting' = Signalled(waiting)
  /\ UNCHANGED active

\* Fault: a connection whose exchange failed is kept.
putBroken(u, t, forceClose) ==
  LET pushed == <<conn[u]>> \o idle
  IN  /\ \/ /\ closed \/ forceClose \/ Len(pushed) > config.MaxIdle
            /\ Release(u, conn[u])
            /\ UNCHANGED idle
         \/ /\ ~(closed \/ forceClose)
            /\ Len(pushed) <= config.MaxIdle
            /\ Keep(u)
            /\ idle' = pushed
      /\ UNCHANGED <<config, closed, leftover>>

\* Fault: forgets that a closed pool keeps nothing.
putOpen(u, t, forceClose) ==
  LET pushed == <<conn[u]>> \o idle
  IN  /\ \/ /\ t.err \/ forceClose \/ Len(pushed) > config.MaxIdle
            /\ Release(u, conn[u])
            /\ UNCHANGED idle
         \/ /\ ~(t.err \/ forceClose)
            /\ Len(pushed) <= config.MaxIdle
            /\ Keep(u)
            /\ idle' = pushed
      /\ UNCHANGED <<config, closed, leftover>>

put(u, t, forceClose) ==
  LET pushed == <<conn[u]>> \o idle
  IN  /\ \/ /\ closed \/ t.err \/ forceClose
            /\ Release(u, conn[u])
            /\ UNCHANGED idle
         \/ /\ ~(closed \/ t.err \/ forceClose)
            /\ Len(pushed) > config.MaxIdle
            /\ Release(u, Last(pushed))
            /\ idle' = Front(pushed)
         \/ /\ ~(closed \/ t.err \/ forceClose)
            /\ Len(pushed) <= config.MaxIdle
            /\ Keep(u)
            /\ idle' = pushed
      /\ UNCHANGED <<config, closed, leftover>>

GiveBack(u, t) ==
  /\ put(u, t, StateLeft(state[u]) # {})
  /\ traffic' = [traffic EXCEPT ![conn[u]] = t]

\* The connection is broken before, or while it is cleaned up, or it is not.
Close(u) ==
  /\ pc[u] = "using"
  /\ \/ GiveBack(u, Broken)
     \/ /\ ~traffic[conn[u]].err
        /\ GiveBack(u, Cleaned(traffic[conn[u]], state[u]))

Discarded(u) ==
  /\ pc[u] = "discarding"
  /\ Goes(u, "out", None, 0)
  /\ traffic' = Closed(conn[u])
  /\ UNCHANGED <<config, poolVars>>

-----------------------------------------------------------------------------
(* Pool.Close. *)

\* Fault: counts the connections in use as closed.
PoolCloseAll ==
  /\ ~closed
  /\ closed' = TRUE
  /\ leftover' = idle
  /\ idle' = <<>>
  /\ active' = 0
  /\ waiting' = <<>>
  /\ UNCHANGED <<config, userVars, traffic>>

PoolClose ==
  /\ ~closed
  /\ closed' = TRUE
  /\ leftover' = idle
  /\ idle' = <<>>
  /\ active' = active - Len(idle)
  /\ waiting' = <<>>
  /\ UNCHANGED <<config, userVars, traffic>>

CloseLeftover ==
  /\ leftover # <<>>
  /\ leftover' = Tail(leftover)
  /\ traffic' = Closed(Head(leftover))
  /\ UNCHANGED <<config, idle, active, closed, waiting, userVars>>

-----------------------------------------------------------------------------

GetGoesOn(u) == GetPruned(u) \/ TestPassed(u) \/ TestFailed(u) \/ GetAwake(u)

DialReturns(u) == DialFailed(u) \/ \E c \in Conn : Dialed(u, c)

Exchanges(u) ==
  UserReceive(u) \/ \E cmd \in Command : UserSend(u, cmd) \/ UserDo(u, cmd)

\* The steps a user that has called Get does not put off.
GoesOn(u) == GetGoesOn(u) \/ DialReturns(u) \/ Close(u) \/ Discarded(u)

UserNext(u) == Get(u) \/ Exchanges(u) \/ GoesOn(u)

Next ==
  \/ \E u \in User : UserNext(u)
  \/ \E c \in Conn : ServerPush(c)
  \/ PoolClose \/ CloseLeftover

Spec == Init /\ [][Next]_vars

\* A goroutine that can go on does, a dial and a test return, and a user closes the
\* connection it got (defer conn.Close()).  Nobody has to call Get or Pool.Close.
Fairness == WF_vars(CloseLeftover) /\ \A u \in User : WF_vars(GoesOn(u))

FairSpec == Spec /\ Fairness

-----------------------------------------------------------------------------
(* Properties. *)

\* The fields have the values the code gives them, and only a user that runs has
\* something in hand.
TypeOK ==
  /\ config \in Config
  /\ idle \in Seq(Conn) /\ leftover \in Seq(Conn)
  /\ active \in Nat
  /\ closed \in BOOLEAN
  /\ waiting \in Seq(User)
  /\ pc \in [User -> Stage]
  /\ conn \in [User -> Conn \cup {None}]
  /\ left \in [User -> Nat]
  /\ state \in [User -> SUBSET State]
  /\ traffic \in [Conn -> Traffic \cup {None}]

Holding == {"pruning", "testing", "using", "discarding"}

\* An open connection is in one place: on the idle list, on that of a closing pool,
\* or in the hand of one user.  Nothing else is open, so none is lost.
OneOwner ==
  /\ \A c \in Conn : traffic[c] # None <=>
       c \in ToSet(idle) \cup ToSet(leftover) \cup {conn[u] : u \in User}
  /\ \A u \in User : pc[u] \in Holding <=> conn[u] # None
  /\ \A u, v \in User : conn[u] = conn[v] => u = v \/ conn[u] = None
  /\ \A u \in User : conn[u] \notin ToSet(idle) \cup ToSet(leftover)
  /\ ToSet(idle) \cap ToSet(leftover) = {}
  /\ IsInjective(idle) /\ IsInjective(leftover)

\* p.active is the number of connections that are idle, dialed, tested or used, whatever
\* fails on the way, and stays within MaxActive.
ActiveCounts ==
  /\ active = Len(idle)
               + Cardinality({u \in User : pc[u] \in {"testing", "dialing", "using"}})
  /\ config.MaxActive # 0 => active <= config.MaxActive

Awake == {u \in User : pc[u] = "waiting" /\ u \notin ToSet(waiting)}

\* While users wait, each connection that is idle or could be dialed is matched by a
\* user that was woken for it: no signal of release, put or Close is missing.
NoLostWakeup ==
  waiting # <<>> => Len(idle) + config.MaxActive - active <= Cardinality(Awake)

\* What is on the idle list is as good as new: whatever a user began (a transaction,
\* a watch, a subscription, commands without their replies) Close has ended.
IdleIsFresh == \A c \in ToSet(idle) : traffic[c] = Fresh

\* A connection is its user's from the return of get to Close.
holder ==
  [c \in Conn |-> IF \E u \in User : pc[u] = "using" /\ conn[u] = c
                  THEN CHOOSE u \in User : pc[u] = "using" /\ conn[u] = c
                  ELSE None]

clean == [c \in Conn |-> traffic[c] \in {None, Fresh}]

Promise == INSTANCE PoolPromise WITH Nobody <- None

\* The pool keeps what PoolPromise says.
KeepsPromise == Promise!Spec

\* A user that waits is woken, if the users that have connections close them.
WaitersWoken == \A u \in User : u \in ToSet(waiting) ~> u \notin ToSet(waiting)

\* A closed pool gets rid of every connection, those in use and those being dialed or
\* tested when it was closed included.
ClosedPoolDrains == closed ~> \A c \in Conn : traffic[c] = None
=============================================================================
