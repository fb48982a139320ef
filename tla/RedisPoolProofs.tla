-------------------------- MODULE RedisPoolProofs --------------------------
(***************************************************************************)
(* Proofs about the pool: for any number of users and connections and any  *)
(* settings, an open connection has one place, the count of the pool is    *)
(* the connections in use, and no wakeup is lost.                           *)
(***************************************************************************)
EXTENDS RedisPool, FiniteSetTheorems, SequenceTheorems, TLAPS

-----------------------------------------------------------------------------
(* Lists: a connection leaves idle at either end and enters at the front. *)

\* What a sequence without its first entry has lost.
LEMMA TailOf ==
  ASSUME NEW S, NEW s \in Seq(S), s # <<>>
  PROVE  /\ Tail(s) \in Seq(S) /\ Head(s) \in S
         /\ Len(s) \in Nat /\ Len(Tail(s)) = Len(s) - 1
         /\ ToSet(s) = ToSet(Tail(s)) \cup {Head(s)}
         /\ IsInjective(s) => IsInjective(Tail(s)) /\ Head(s) \notin ToSet(Tail(s))
<1>1. /\ Len(s) \in Nat \ {0} /\ DOMAIN s = 1 .. Len(s) /\ s \in [1 .. Len(s) -> S]
  BY LenProperties, EmptySeq
<1>2. /\ Head(s) \in S
      /\ Tail(s) \in Seq(S)
      /\ Len(Tail(s)) = Len(s) - 1
      /\ \A i \in 1 .. Len(Tail(s)) : Tail(s)[i] = s[i + 1]
  BY HeadTailProperties
<1>3. DOMAIN Tail(s) = 1 .. Len(s) - 1
  BY <1>2, LenProperties
<1>4. Head(s) = s[1]
  OBVIOUS
<1>5. \A i \in 1 .. Len(s) : i = 1 \/ (i - 1 \in 1 .. Len(s) - 1 /\ s[i] = Tail(s)[i - 1])
  BY <1>1, <1>2
<1>6. ToSet(s) = ToSet(Tail(s)) \cup {Head(s)}
  <2>1. ASSUME NEW x \in ToSet(s) PROVE x \in ToSet(Tail(s)) \cup {Head(s)}
    <3>1. PICK i \in 1 .. Len(s) : x = s[i]
      BY <1>1 DEF ToSet
    <3>2. i = 1 \/ (i - 1 \in DOMAIN Tail(s) /\ x = Tail(s)[i - 1])
      BY <3>1, <1>3, <1>5
    <3> QED BY <3>1, <3>2, <1>4 DEF ToSet
  <2>2. ASSUME NEW x \in ToSet(Tail(s)) \cup {Head(s)} PROVE x \in ToSet(s)
    <3>1. CASE x = Head(s)
      BY <3>1, <1>1, <1>4 DEF ToSet
    <3>2. CASE x \in ToSet(Tail(s))
      <4>1. PICK i \in 1 .. Len(s) - 1 : x = Tail(s)[i]
        BY <3>2, <1>3 DEF ToSet
      <4>2. i + 1 \in 1 .. Len(s) /\ x = s[i + 1]
        BY <4>1, <1>1, <1>2
      <4> QED BY <4>2, <1>1 DEF ToSet
    <3> QED BY <2>2, <3>1, <3>2
  <2> QED BY <2>1, <2>2
<1>7. ASSUME IsInjective(s)
      PROVE  IsInjective(Tail(s)) /\ Head(s) \notin ToSet(Tail(s))
  <2>1. \A i \in 1 .. Len(s) - 1 : i + 1 \in 1 .. Len(s) /\ Tail(s)[i] = s[i + 1] /\ i + 1 # 1
    BY <1>1, <1>2
  <2>2. \A a, b \in 1 .. Len(s) : s[a] = s[b] => a = b
    BY <1>1, <1>7 DEF IsInjective
  <2>3. \A a, b \in 1 .. Len(s) - 1 : Tail(s)[a] = Tail(s)[b] => a = b
    BY <2>1, <2>2, <1>1
  <2>4. \A a \in 1 .. Len(s) - 1 : Tail(s)[a] # s[1]
    BY <2>1, <2>2, <1>1
  <2> QED BY <2>3, <2>4, <1>3, <1>4 DEF IsInjective, ToSet
<1> QED BY <1>1, <1>2, <1>6, <1>7

\* What a sequence without its last entry has lost.
LEMMA FrontOf ==
  ASSUME NEW S, NEW s \in Seq(S), s # <<>>
  PROVE  /\ Front(s) \in Seq(S) /\ Last(s) \in S
         /\ Len(s) \in Nat /\ Len(Front(s)) = Len(s) - 1
         /\ ToSet(s) = ToSet(Front(s)) \cup {Last(s)}
         /\ IsInjective(s) => IsInjective(Front(s)) /\ Last(s) \notin ToSet(Front(s))
<1>1. /\ Len(s) \in Nat \ {0} /\ DOMAIN s = 1 .. Len(s) /\ s \in [1 .. Len(s) -> S]
  BY LenProperties, EmptySeq
<1>2. /\ Front(s) \in Seq(S)
      /\ Len(Front(s)) = Len(s) - 1
      /\ \A i \in 1 .. Len(s) - 1 : Front(s)[i] = s[i]
  <2>1. \A i \in 1 .. Len(s) - 1 : s[i] \in S
    BY <1>1
  <2>2. \A i \in 1 .. Len(s) - 1 : 1 + i - 1 = i
    BY <1>1
  <2> QED BY <2>1, <2>2, <1>1, SubSeqProperties DEF Front
<1>3. DOMAIN Front(s) = 1 .. Len(s) - 1
  BY <1>2, LenProperties
<1>4. Last(s) = s[Len(s)] /\ Last(s) \in S
  BY <1>1 DEF Last
<1>5. ToSet(s) = ToSet(Front(s)) \cup {Last(s)}
  BY <1>1, <1>2, <1>3, <1>4 DEF ToSet
<1>6. ASSUME IsInjective(s)
      PROVE  IsInjective(Front(s)) /\ Last(s) \notin ToSet(Front(s))
  BY <1>6, <1>1, <1>2, <1>3, <1>4 DEF IsInjective, ToSet
<1> QED BY <1>1, <1>2, <1>4, <1>5, <1>6

\* What a sequence with one more entry at the front has gained.
LEMMA PushedOn ==
  ASSUME NEW S, NEW s \in Seq(S), NEW x \in S
  PROVE  /\ <<x>> \o s \in Seq(S) /\ <<x>> \o s # <<>>
         /\ Len(s) \in Nat /\ Len(<<x>> \o s) = Len(s) + 1
         /\ ToSet(<<x>> \o s) = ToSet(s) \cup {x}
         /\ IsInjective(s) /\ x \notin ToSet(s) => IsInjective(<<x>> \o s)
<1>1. /\ Len(s) \in Nat /\ DOMAIN s = 1 .. Len(s)
  BY LenProperties
<1>2. <<x>> \in Seq(S) /\ Len(<<x>>) = 1 /\ <<x>>[1] = x
  OBVIOUS
<1>3. /\ <<x>> \o s \in Seq(S)
      /\ Len(<<x>> \o s) = Len(s) + 1
      /\ \A i \in 1 .. Len(s) + 1 :
           (<<x>> \o s)[i] = IF i <= 1 THEN <<x>>[i] ELSE s[i - 1]
  BY <1>1, <1>2, ConcatProperties
<1> DEFINE t == <<x>> \o s
<1> HIDE DEF t
<1>4. /\ t \in Seq(S) /\ Len(t) = Len(s) + 1 /\ DOMAIN t = 1 .. Len(s) + 1
  <2>1. t \in Seq(S) /\ Len(t) = Len(s) + 1
    BY <1>3 DEF t
  <2> QED BY <2>1, LenProperties
<1>5. /\ t[1] = x
      /\ \A i \in 1 .. Len(s) : i + 1 \in 1 .. Len(s) + 1 /\ t[i + 1] = s[i]
      /\ \A i \in 1 .. Len(s) + 1 : i = 1 \/ (i - 1 \in 1 .. Len(s) /\ t[i] = s[i - 1])
  BY <1>1, <1>2, <1>3 DEF t
<1>6. t # <<>>
  BY <1>1, <1>4, EmptySeq
<1>7. ToSet(t) = ToSet(s) \cup {x}
  <2>1. ToSet(t) \subseteq ToSet(s) \cup {x}
    BY <1>1, <1>4, <1>5 DEF ToSet
  <2>2. ASSUME NEW y \in ToSet(s) PROVE y \in ToSet(t)
    <3>1. PICK i \in 1 .. Len(s) : y = s[i]
      BY <1>1 DEF ToSet
    <3>2. i + 1 \in DOMAIN t /\ y = t[i + 1]
      BY <3>1, <1>4, <1>5
    <3> QED BY <3>2 DEF ToSet
  <2>3. x \in ToSet(t)
    BY <1>1, <1>4, <1>5 DEF ToSet
  <2> QED BY <2>1, <2>2, <2>3
<1>8. ASSUME IsInjective(s), x \notin ToSet(s) PROVE IsInjective(t)
  <2>1. \A i \in 1 .. Len(s) : s[i] # x
    BY <1>8, <1>1 DEF ToSet
  <2>2. \A i, j \in 1 .. Len(s) : s[i] = s[j] => i = j
    BY <1>8, <1>1 DEF IsInjective
  <2>3. \A i, j \in 1 .. Len(s) + 1 : t[i] = t[j] => i = j
    BY <2>1, <2>2, <1>1, <1>5
  <2> QED BY <2>3, <1>4 DEF IsInjective
<1> QED BY <1>1, <1>4, <1>6, <1>7, <1>8 DEF t

\* A signal takes the first of the queue, if there is one.
LEMMA SignalledOf ==
  ASSUME NEW S, NEW s \in Seq(S)
  PROVE  /\ Signalled(s) \in Seq(S)
         /\ ToSet(Signalled(s)) \subseteq ToSet(s)
         /\ IsInjective(s) => IsInjective(Signalled(s))
<1>1. CASE s = <<>>
  BY <1>1 DEF Signalled
<1>2. CASE s # <<>>
  BY <1>2, TailOf DEF Signalled
<1> QED BY <1>1, <1>2

\* The empty list has no entries.
LEMMA EmptyList == ToSet(<<>>) = {} /\ IsInjective(<<>>) /\ Len(<<>>) = 0
<1>1. DOMAIN <<>> = {} /\ Len(<<>>) = 0
  OBVIOUS
<1> QED BY <1>1 DEF ToSet, IsInjective

-----------------------------------------------------------------------------
(* Connections: every exchange leaves a connection's record well formed. *)

\* A record of traffic is not the mark of a closed connection.
LEMMA TrafficIsOpen == \A t \in Traffic : t # None
BY NoTrafficAssumption

\* A new connection and a failed one are records of traffic.
LEMMA FreshBroken == Fresh \in Traffic /\ Broken \in Traffic
BY EmptySeq DEF Fresh, Broken, Traffic, Mode

\* What the server makes of a command is a mode again.
LEMMA ModeAfterType ==
  ASSUME NEW mode \in SUBSET Mode, NEW cmd
  PROVE  ModeAfter(mode, cmd) \in SUBSET Mode
BY DEF ModeAfter, Mode

\* An answered command, with or without a Receive to come.
LEMMA SendType ==
  ASSUME NEW c \in Traffic, NEW cmd
  PROVE  /\ Answer(c, cmd) \in Traffic
         /\ Send(c, cmd) \in Traffic
         /\ Send(c, cmd).replies =
              Append(c.replies, IF cmd = Sentinel THEN "echo" ELSE "reply")
<1>1. /\ c.err \in BOOLEAN /\ c.pending \in Nat /\ c.replies \in Seq(Reply)
      /\ c.mode \in SUBSET Mode
  BY DEF Traffic
<1>2. ModeAfter(c.mode, cmd) \in SUBSET Mode
  BY <1>1, ModeAfterType
<1>3. Append(c.replies, IF cmd = Sentinel THEN "echo" ELSE "reply") \in Seq(Reply)
  BY <1>1, AppendProperties DEF Reply
<1>4. Answer(c, cmd) \in Traffic
  BY <1>1, <1>2, <1>3 DEF Answer, Traffic
<1>5. [c EXCEPT !.pending = @ + 1] \in Traffic
  BY <1>1 DEF Traffic
<1>6. /\ [c EXCEPT !.pending = @ + 1].replies = c.replies
      /\ [c EXCEPT !.pending = @ + 1].mode = c.mode
  BY DEF Traffic
<1> DEFINE d == [c EXCEPT !.pending = @ + 1]
<1> HIDE DEF d
<1>7. d \in Traffic /\ d.replies = c.replies /\ d.mode = c.mode
  BY <1>5, <1>6 DEF d
<1>8. /\ Answer(d, cmd) \in Traffic
      /\ Answer(d, cmd).replies =
           Append(d.replies, IF cmd = Sentinel THEN "echo" ELSE "reply")
  BY <1>1, <1>2, <1>3, <1>7 DEF Answer, Traffic
<1>9. Send(c, cmd) = Answer(d, cmd)
  BY DEF Send, d
<1> QED BY <1>4, <1>7, <1>8, <1>9

\* Reading some replies leaves replies.
LEMMA SkipType ==
  ASSUME NEW S, NEW s \in Seq(S), NEW n \in Nat
  PROVE  Skip(s, n) \in Seq(S)
<1>1. Len(s) \in Nat /\ \A i \in n + 1 .. Len(s) : s[i] \in S
  BY LenProperties
<1> QED BY <1>1, SubSeqProperties DEF Skip

\* Receive, Do and the exchanges of Close leave a record of traffic.
LEMMA ReadTypes ==
  ASSUME NEW c \in Traffic, NEW cmd
  PROVE  /\ c.replies # <<>> => Receive(c) \in Traffic
         /\ Do(c, cmd) \in Traffic
         /\ DoPending(c) \in Traffic
         /\ Push(c) \in Traffic
<1>1. /\ c.err \in BOOLEAN /\ c.pending \in Nat /\ c.replies \in Seq(Reply)
      /\ c.mode \in SUBSET Mode
  BY DEF Traffic
<1>2. ASSUME c.replies # <<>> PROVE Receive(c) \in Traffic
  <2>1. Tail(c.replies) \in Seq(Reply)
    BY <1>1, <1>2, HeadTailProperties
  <2>2. Less(c.pending, 1) \in Nat
    BY <1>1 DEF Less
  <2> QED BY <2>1, <2>2 DEF Receive, Traffic
<1>3. Do(c, cmd) \in Traffic
  <2>1. Answer(c, cmd) \in Traffic
    BY SendType
  <2>2. Answer(c, cmd).replies \in Seq(Reply)
    BY <2>1 DEF Traffic
  <2>3. Skip(Answer(c, cmd).replies, c.pending + 1) \in Seq(Reply)
    <3>1. c.pending + 1 \in Nat
      BY <1>1
    <3> QED BY <2>2, <3>1, SkipType
  <2> QED BY <2>1, <2>3 DEF Do, Traffic
<1>4. DoPending(c) \in Traffic
  <2>1. Skip(c.replies, c.pending) \in Seq(Reply)
    BY <1>1, SkipType
  <2> QED BY <2>1 DEF DoPending, Traffic
<1>5. Push(c) \in Traffic
  <2>1. Append(c.replies, "message") \in Seq(Reply)
    BY <1>1, AppendProperties DEF Reply
  <2> QED BY <2>1 DEF Push, Traffic
<1> QED BY <1>2, <1>3, <1>4, <1>5

\* After the sentinel there is an echo to read up to.
LEMMA ReceiveEchoType ==
  ASSUME NEW c \in Traffic
  PROVE  ReceiveEcho(Send(c, Sentinel)) \in Traffic
<1> DEFINE s == Send(c, Sentinel)
<1>1. s \in Traffic /\ s.replies = Append(c.replies, "echo")
  BY SendType
<1>2. c.replies \in Seq(Reply) /\ Len(c.replies) \in Nat
  BY LenProperties DEF Traffic
<1>3. Len(s.replies) = Len(c.replies) + 1 /\ s.replies[Len(c.replies) + 1] = "echo"
  BY <1>1, <1>2, AppendProperties DEF Reply
<1> HIDE DEF s
<1>4. UpToEcho(s.replies) \in 1 .. Len(s.replies)
  <2>1. \E n \in 1 .. Len(s.replies) : s.replies[n] = "echo"
    BY <1>2, <1>3
  <2> QED BY <2>1 DEF UpToEcho
<1>5. s.pending \in Nat /\ s.replies \in Seq(Reply) /\ UpToEcho(s.replies) \in Nat
  BY <1>1, <1>2, <1>3, <1>4 DEF Traffic
<1>6. Less(s.pending, UpToEcho(s.replies)) \in Nat
  BY <1>5 DEF Less
<1>7. Skip(s.replies, UpToEcho(s.replies)) \in Seq(Reply)
  BY <1>5, SkipType
<1>8. ReceiveEcho(s) \in Traffic
  BY <1>1, <1>6, <1>7 DEF ReceiveEcho, Traffic
<1> QED BY <1>8 DEF s

\* What Close hands to put.
LEMMA CleanedType ==
  ASSUME NEW c \in Traffic, NEW st
  PROVE  Cleaned(c, st) \in Traffic
<1>1. EndTransaction(c, st) \in Traffic
  BY SendType DEF EndTransaction
<1>2. EndSubscriptions(EndTransaction(c, st), st) \in Traffic
  <2> DEFINE d == Send(Send(EndTransaction(c, st), "UNSUBSCRIBE"), "PUNSUBSCRIBE")
  <2>1. d \in Traffic
    BY <1>1, SendType
  <2>2. ReceiveEcho(Send(d, Sentinel)) \in Traffic
    BY <2>1, ReceiveEchoType
  <2> QED BY <1>1, <2>2 DEF EndSubscriptions
<1> QED BY <1>2, ReadTypes DEF Cleaned

-----------------------------------------------------------------------------
(* Types.  That the count stays natural takes ActiveCounts: here it is an     *)
(* integer.                                                                    *)

Typed ==
  /\ config \in Settings
  /\ idle \in Seq(Conn) /\ leftover \in Seq(Conn)
  /\ active \in Int
  /\ closed \in BOOLEAN
  /\ waiting \in Seq(User)
  /\ pc \in [User -> Stage]
  /\ conn \in [User -> Conn \cup {None}]
  /\ left \in [User -> Nat]
  /\ state \in [User -> SUBSET State]
  /\ traffic \in [Conn -> Traffic \cup {None}]

\* A user that goes on somewhere.
LEMMA GoesTyped ==
  ASSUME Typed, NEW u \in User, NEW to \in Stage, NEW c \in Conn \cup {None},
         NEW rounds \in Nat, Goes(u, to, c, rounds)
  PROVE  /\ pc' \in [User -> Stage] /\ conn' \in [User -> Conn \cup {None}]
         /\ left' \in [User -> Nat] /\ state' \in [User -> SUBSET State]
BY DEF Typed, Goes

\* traffic after a close, and after an exchange that left t.
LEMMA TrafficTyped ==
  ASSUME Typed, NEW c, NEW t \in Traffic
  PROVE  /\ Closed(c) \in [Conn -> Traffic \cup {None}]
         /\ [traffic EXCEPT ![c] = t] \in [Conn -> Traffic \cup {None}]
         /\ \A d \in Conn : Closed(c)[d] = IF d = c THEN None ELSE traffic[d]
         /\ \A d \in Conn : [traffic EXCEPT ![c] = t][d] = IF d = c THEN t ELSE traffic[d]
BY DEF Typed, Closed

\* What a step of the loop in get is, after what came before it.
LEMMA LookTyped ==
  ASSUME Typed, NEW u \in User, NEW act \in Int, NEW queue \in Seq(User),
         NEW rounds \in Nat, Look(u, act, queue, rounds),
         traffic' \in [Conn -> Traffic \cup {None}]
  PROVE  Typed'
<1>1. config' = config /\ closed' = closed /\ leftover' = leftover
  BY DEF Look
<1>2. CASE TakeIdle(u, act, queue, rounds)
  <2>1. idle # <<>> /\ rounds - 1 \in Nat
    BY <1>2 DEF TakeIdle
  <2>2. Head(idle) \in Conn /\ Tail(idle) \in Seq(Conn)
    BY <2>1, TailOf DEF Typed
  <2>3. PICK to \in {"testing", "using"} : Goes(u, to, Head(idle), rounds - 1)
    BY <1>2 DEF TakeIdle
  <2>4. /\ pc' \in [User -> Stage] /\ conn' \in [User -> Conn \cup {None}]
        /\ left' \in [User -> Nat] /\ state' \in [User -> SUBSET State]
    <3>1. to \in Stage
      BY DEF Stage
    <3> QED BY <3>1, <2>1, <2>2, <2>3, GoesTyped
  <2> QED BY <1>1, <1>2, <2>2, <2>4 DEF TakeIdle, Typed
<1>3. CASE DialOrWait(u, act, queue, rounds)
  <2>1. PICK to \in {"out", "dialing", "waiting"} : Goes(u, to, None, 0)
    BY <1>3 DEF DialOrWait
  <2>2. /\ pc' \in [User -> Stage] /\ conn' \in [User -> Conn \cup {None}]
        /\ left' \in [User -> Nat] /\ state' \in [User -> SUBSET State]
    <3>1. to \in Stage
      BY DEF Stage
    <3> QED BY <3>1, <2>1, GoesTyped
  <2>3. idle' = idle /\ active' \in Int
    BY <1>3 DEF DialOrWait
  <2>4. waiting' \in Seq(User)
    BY <1>3, AppendProperties, SMTT(30) DEF DialOrWait
  <2> QED BY <1>1, <2>2, <2>3, <2>4 DEF Typed
<1> QED BY <1>2, <1>3 DEF Look

\* Pruning in get.
LEMMA PruneTyped ==
  ASSUME Typed, NEW u \in User, NEW rounds \in Nat, Prune(u, rounds),
         traffic' \in [Conn -> Traffic \cup {None}]
  PROVE  Typed'
<1>1. idle # <<>> /\ rounds - 1 \in Nat
  BY DEF Prune
<1>2. Last(idle) \in Conn /\ Front(idle) \in Seq(Conn)
  BY <1>1, FrontOf DEF Typed
<1>3. /\ pc' \in [User -> Stage] /\ conn' \in [User -> Conn \cup {None}]
      /\ left' \in [User -> Nat] /\ state' \in [User -> SUBSET State]
  <2>1. "pruning" \in Stage
    BY DEF Stage
  <2> QED BY <2>1, <1>1, <1>2, GoesTyped DEF Prune
<1>4. Signalled(waiting) \in Seq(User)
  BY SignalledOf DEF Typed
<1> QED BY <1>2, <1>3, <1>4 DEF Prune, Typed

\* put, with the connection of a user.
LEMMA PutTyped ==
  ASSUME Typed, NEW u \in User, conn[u] \in Conn, NEW t \in Traffic, NEW force,
         put(u, t, force), traffic' \in [Conn -> Traffic \cup {None}]
  PROVE  Typed'
<1> DEFINE pushed == <<conn[u]>> \o idle
<1>1. pushed \in Seq(Conn) /\ pushed # <<>>
  BY PushedOn DEF Typed
<1>2. Last(pushed) \in Conn /\ Front(pushed) \in Seq(Conn)
  BY <1>1, FrontOf
<1>3. Signalled(waiting) \in Seq(User)
  BY SignalledOf DEF Typed
<1>4. config' = config /\ closed' = closed /\ leftover' = leftover
  BY DEF put
<1>5. /\ active' \in Int /\ waiting' = Signalled(waiting)
      /\ idle' \in {idle, pushed, Front(pushed)}
  BY DEF put, Release, Keep, Typed
<1>6. \E to \in {"discarding", "out"}, c \in {conn[u], Last(pushed), None} : Goes(u, to, c, 0)
  BY DEF put, Release, Keep
<1> HIDE DEF pushed
<1>7. /\ pc' \in [User -> Stage] /\ conn' \in [User -> Conn \cup {None}]
      /\ left' \in [User -> Nat] /\ state' \in [User -> SUBSET State]
  <2>1. PICK to \in {"discarding", "out"}, c \in {conn[u], Last(pushed), None} :
          Goes(u, to, c, 0)
    BY <1>6
  <2>2. to \in Stage /\ c \in Conn \cup {None}
    BY <1>2 DEF Stage
  <2> QED BY <2>1, <2>2, GoesTyped
<1> QED BY <1>1, <1>2, <1>3, <1>4, <1>5, <1>7 DEF Typed

-----------------------------------------------------------------------------
(* Owners. *)

\* An open connection has exactly one of the three places.
LEMMA Places ==
  ASSUME Typed, OneOwner
  PROVE  /\ \A d \in ToSet(idle) \cup ToSet(leftover) : d \in Conn /\ traffic[d] # None
         /\ \A v \in User : conn[v] # None => conn[v] \in Conn /\ traffic[conn[v]] # None
<1>1. \A S : \A s \in Seq(S) : ToSet(s) \subseteq S
  <2> SUFFICES ASSUME NEW S, NEW s \in Seq(S) PROVE ToSet(s) \subseteq S
    OBVIOUS
  <2> QED BY LenProperties DEF ToSet
<1>2. ToSet(idle) \subseteq Conn /\ ToSet(leftover) \subseteq Conn
  BY <1>1 DEF Typed
<1>3. \A v \in User : conn[v] \in Conn \cup {None}
  BY DEF Typed
<1> QED BY <1>2, <1>3 DEF OneOwner

\* A user u whose hand goes from one connection to another, while the idle list keeps,
\* loses or gains the ones it had or gets: all others stay where they are.
LEMMA Moved ==
  ASSUME Typed, OneOwner, NEW u \in User, NEW to, NEW c \in Conn \cup {None},
         pc' = [pc EXCEPT ![u] = to], conn' = [conn EXCEPT ![u] = c],
         to \in Holding <=> c # None,
         leftover' = leftover, IsInjective(idle'), c \notin ToSet(idle'),
         None \notin ToSet(idle'),
         \A d \in ToSet(idle') \cup {c} :
           d \in ToSet(idle) \/ d = conn[u] \/ d = None \/ traffic[d] = None,
         \A d \in Conn : traffic'[d] # None <=>
           \/ d \in ToSet(idle') \cup {c}
           \/ traffic[d] # None /\ d \notin ToSet(idle) /\ d # conn[u]
  PROVE  OneOwner'
<1>0. None \notin Conn /\ pc \in [User -> Stage] /\ conn \in [User -> Conn \cup {None}]
  BY ConnAssumption DEF Typed
<1>1. /\ \A v \in User : conn'[v] = IF v = u THEN c ELSE conn[v]
      /\ \A v \in User : pc'[v] = IF v = u THEN to ELSE pc[v]
  BY <1>0
<1>2. /\ \A d \in ToSet(idle) \cup ToSet(leftover) : d \in Conn /\ traffic[d] # None
      /\ \A v \in User : conn[v] # None => conn[v] \in Conn /\ traffic[conn[v]] # None
  BY Places
<1>3. /\ \A d \in Conn : traffic[d] # None <=>
           \/ d \in ToSet(idle) \/ d \in ToSet(leftover)
           \/ \E v \in User : conn[v] = d
      /\ \A v \in User : pc[v] \in Holding <=> conn[v] # None
      /\ \A v, w \in User : conn[v] = conn[w] => v = w \/ conn[v] = None
      /\ \A v \in User : conn[v] \notin ToSet(idle) /\ conn[v] \notin ToSet(leftover)
      /\ \A d \in ToSet(idle) : d \notin ToSet(leftover)
      /\ IsInjective(leftover)
  BY DEF OneOwner
<1>4. \A d \in ToSet(idle') \cup {c} :
        /\ d \notin ToSet(leftover)
        /\ \A v \in User \ {u} : conn[v] # d \/ d = None
  <2> SUFFICES ASSUME NEW d \in ToSet(idle') \cup {c}
               PROVE  /\ d \notin ToSet(leftover)
                      /\ \A v \in User \ {u} : conn[v] # d \/ d = None
    OBVIOUS
  <2>1. CASE d \in ToSet(idle)
    BY <2>1, <1>3
  <2>2. CASE d = conn[u]
    BY <2>2, <1>3
  <2>3. CASE d = None
    BY <2>3, <1>0, <1>2
  <2>4. CASE traffic[d] = None
    BY <2>4, <1>2
  <2> QED BY <2>1, <2>2, <2>3, <2>4
<1>5. \A d \in Conn : traffic'[d] # None <=>
        \/ d \in ToSet(idle') \/ d \in ToSet(leftover)
        \/ \E v \in User : conn'[v] = d
  <2> SUFFICES ASSUME NEW d \in Conn
               PROVE  traffic'[d] # None <=>
                        \/ d \in ToSet(idle') \/ d \in ToSet(leftover)
                        \/ \E v \in User : conn'[v] = d
    OBVIOUS
  <2>1. CASE d \in ToSet(idle') \cup {c}
    BY <2>1, <1>1
  <2>2. CASE d \notin ToSet(idle') \cup {c}
    <3>1. traffic'[d] # None <=> traffic[d] # None /\ d \notin ToSet(idle) /\ d # conn[u]
      BY <2>2
    <3>2. (\E v \in User : conn'[v] = d) <=> \E v \in User \ {u} : conn[v] = d
      BY <2>2, <1>1
    <3>3. d = conn[u] => d \notin ToSet(leftover) /\ ~\E v \in User \ {u} : conn[v] = d
      BY <1>0, <1>3
    <3>4. d \in ToSet(idle) => d \notin ToSet(leftover) /\ ~\E v \in User : conn[v] = d
      BY <1>3
    <3> QED BY <2>2, <3>1, <3>2, <3>3, <3>4, <1>3
  <2> QED BY <2>1, <2>2
<1>6. \A v \in User : pc'[v] \in Holding <=> conn'[v] # None
  BY <1>1, <1>3
<1>7. \A v, w \in User : conn'[v] = conn'[w] => v = w \/ conn'[v] = None
  BY <1>1, <1>3, <1>4
<1>8. \A v \in User : conn'[v] \notin ToSet(idle') /\ conn'[v] \notin ToSet(leftover)
  <2>1. conn[u] \notin ToSet(leftover) /\ None \notin ToSet(leftover)
    BY <1>0, <1>2, <1>3
  <2> QED BY <1>1, <1>3, <1>4, <2>1
<1>9. ToSet(idle') \cap ToSet(leftover) = {}
  BY <1>4
<1> QED BY <1>3, <1>5, <1>6, <1>7, <1>8, <1>9 DEF OneOwner, Holding

\* Closing nothing is no change.
LEMMA ClosedNone == Typed => traffic = Closed(None)
BY ConnAssumption DEF Typed, Closed

\* A step of the loop in get, after the close of what the user had in hand.
LEMMA LookOwner ==
  ASSUME Typed, OneOwner, NEW u \in User, NEW act, NEW queue, NEW rounds \in Nat,
         Look(u, act, queue, rounds), traffic' = Closed(conn[u])
  PROVE  OneOwner'
<1>0. None \notin Conn /\ leftover' = leftover /\ IsInjective(idle)
  BY ConnAssumption DEF Look, OneOwner
<1>1. \A d \in Conn : traffic'[d] # None <=> traffic[d] # None /\ d # conn[u]
  BY DEF Typed, Closed
<1>2. /\ \A d \in ToSet(idle) : d \in Conn /\ traffic[d] # None /\ d # conn[u]
      /\ None \notin ToSet(idle)
  BY <1>0, Places DEF OneOwner
<1>3. CASE TakeIdle(u, act, queue, rounds)
  <2>1. idle # <<>> /\ idle \in Seq(Conn) /\ idle' = Tail(idle)
    BY <1>3 DEF TakeIdle, Typed
  <2>2. PICK to \in {"testing", "using"} : Goes(u, to, Head(idle), rounds - 1)
    BY <1>3 DEF TakeIdle
  <2>3. /\ Head(idle) \in Conn
        /\ ToSet(idle) = ToSet(idle') \cup {Head(idle)}
        /\ IsInjective(idle') /\ Head(idle) \notin ToSet(idle')
    BY <2>1, <1>0, TailOf
  <2>4. /\ pc' = [pc EXCEPT ![u] = to] /\ conn' = [conn EXCEPT ![u] = Head(idle)]
        /\ to \in Holding
    BY <2>2 DEF Goes, Holding
  <2> QED BY <1>0, <1>1, <1>2, <2>3, <2>4, Moved
<1>4. CASE DialOrWait(u, act, queue, rounds)
  <2>1. PICK to \in {"out", "dialing", "waiting"} : Goes(u, to, None, 0)
    BY <1>4 DEF DialOrWait
  <2>2. idle' = idle
    BY <1>4 DEF DialOrWait
  <2>3. /\ pc' = [pc EXCEPT ![u] = to] /\ conn' = [conn EXCEPT ![u] = None]
        /\ to \notin Holding
    BY <2>1 DEF Goes, Holding
  <2>4. \A d \in Conn : traffic'[d] # None <=>
          \/ d \in ToSet(idle') \cup {None}
          \/ traffic[d] # None /\ d \notin ToSet(idle) /\ d # conn[u]
    BY <1>0, <1>1, <1>2, <2>2
  <2>5. /\ \A d \in ToSet(idle') \cup {None} : d \in ToSet(idle) \/ d = None
        /\ IsInjective(idle') /\ None \notin ToSet(idle')
    BY <1>0, <1>2, <2>2
  <2> QED BY <1>0, <2>3, <2>4, <2>5, Moved
<1> QED BY <1>3, <1>4 DEF Look

\* The oldest idle connection goes from the list to the user that prunes it.
LEMMA PruneOwner ==
  ASSUME Typed, OneOwner, NEW u \in User, NEW rounds \in Nat, Prune(u, rounds),
         traffic' = Closed(conn[u])
  PROVE  OneOwner'
<1>0. None \notin Conn /\ leftover' = leftover /\ IsInjective(idle)
  BY ConnAssumption DEF Prune, OneOwner
<1>1. \A d \in Conn : traffic'[d] # None <=> traffic[d] # None /\ d # conn[u]
  BY DEF Typed, Closed
<1>2. /\ \A d \in ToSet(idle) : d \in Conn /\ traffic[d] # None /\ d # conn[u]
      /\ None \notin ToSet(idle)
  BY <1>0, Places DEF OneOwner
<1>3. idle # <<>> /\ idle \in Seq(Conn) /\ idle' = Front(idle)
  BY DEF Prune, Typed
<1>4. /\ Last(idle) \in Conn
      /\ ToSet(idle) = ToSet(idle') \cup {Last(idle)}
      /\ IsInjective(idle') /\ Last(idle) \notin ToSet(idle')
  BY <1>3, <1>0, FrontOf
<1>5. /\ pc' = [pc EXCEPT ![u] = "pruning"] /\ conn' = [conn EXCEPT ![u] = Last(idle)]
      /\ "pruning" \in Holding
  BY DEF Prune, Goes, Holding
<1> QED BY <1>0, <1>1, <1>2, <1>4, <1>5, Moved

\* The connection of a user becomes idle, or it or the oldest idle one is to be closed.
LEMMA PutOwner ==
  ASSUME Typed, OneOwner, NEW u \in User, conn[u] \in Conn, NEW t \in Traffic, NEW force,
         put(u, t, force), traffic' = [traffic EXCEPT ![conn[u]] = t]
  PROVE  OneOwner'
<1> DEFINE c == conn[u]
           pushed == <<c>> \o idle
<1>0. None \notin Conn /\ leftover' = leftover /\ IsInjective(idle) /\ idle \in Seq(Conn)
  BY ConnAssumption DEF put, OneOwner, Typed
<1>1. \A d \in Conn : traffic'[d] # None <=> d = c \/ traffic[d] # None
  BY TrafficIsOpen DEF Typed
<1>2. /\ \A d \in ToSet(idle) : d \in Conn /\ traffic[d] # None
      /\ c \notin ToSet(idle) /\ traffic[c] # None /\ c # None
  BY <1>0, Places DEF OneOwner
<1>3. /\ pushed \in Seq(Conn) /\ pushed # <<>>
      /\ ToSet(pushed) = ToSet(idle) \cup {c} /\ IsInjective(pushed)
  BY <1>0, <1>2, PushedOn
<1>4. /\ Last(pushed) \in Conn
      /\ ToSet(pushed) = ToSet(Front(pushed)) \cup {Last(pushed)}
      /\ IsInjective(Front(pushed)) /\ Last(pushed) \notin ToSet(Front(pushed))
  BY <1>3, FrontOf
<1>5. "discarding" \in Holding /\ "out" \notin Holding
  BY DEF Holding
<1>6. CASE Release(u, c) /\ idle' = idle
  <2>1. pc' = [pc EXCEPT ![u] = "discarding"] /\ conn' = [conn EXCEPT ![u] = c]
    BY <1>6 DEF Release, Goes
  <2> HIDE DEF pushed
  <2>2. \A d \in ToSet(idle') \cup {c} : d \in ToSet(idle) \/ d = conn[u]
    BY <1>6
  <2>3. \A d \in Conn : traffic'[d] # None <=>
          \/ d \in ToSet(idle') \cup {c}
          \/ traffic[d] # None /\ d \notin ToSet(idle) /\ d # conn[u]
    BY <1>6, <1>1, <1>2
  <2> QED BY <1>0, <1>2, <1>5, <1>6, <2>1, <2>2, <2>3, Moved
<1>7. CASE Release(u, Last(pushed)) /\ idle' = Front(pushed)
  <2>1. /\ pc' = [pc EXCEPT ![u] = "discarding"]
        /\ conn' = [conn EXCEPT ![u] = Last(pushed)]
    BY <1>7 DEF Release, Goes
  <2> DEFINE e == Last(pushed)
  <2> HIDE DEF pushed, e
  <2>2. ToSet(idle') \cup {e} = ToSet(idle) \cup {c}
    BY <1>7, <1>3, <1>4 DEF e
  <2>3. \A d \in Conn : traffic'[d] # None <=>
          \/ d \in ToSet(idle') \cup {e}
          \/ traffic[d] # None /\ d \notin ToSet(idle) /\ d # conn[u]
    BY <2>2, <1>1, <1>2
  <2>4. \A d \in ToSet(idle') \cup {e} : d \in ToSet(idle) \/ d = conn[u]
    BY <2>2
  <2>5. /\ e \in Conn /\ e # None /\ e \notin ToSet(idle') /\ IsInjective(idle')
        /\ None \notin ToSet(idle') /\ conn' = [conn EXCEPT ![u] = e]
    BY <1>0, <1>2, <1>4, <1>7, <2>1, <2>2 DEF e
  <2> QED BY <1>0, <1>5, <2>1, <2>3, <2>4, <2>5, Moved
<1>8. CASE Keep(u) /\ idle' = pushed
  <2>1. pc' = [pc EXCEPT ![u] = "out"] /\ conn' = [conn EXCEPT ![u] = None]
    BY <1>8 DEF Keep, Goes
  <2> HIDE DEF pushed
  <2>2. ToSet(idle') = ToSet(idle) \cup {c} /\ IsInjective(idle') /\ None \notin ToSet(idle')
    BY <1>0, <1>2, <1>3, <1>8
  <2>3. \A d \in Conn : traffic'[d] # None <=>
          \/ d \in ToSet(idle') \cup {None}
          \/ traffic[d] # None /\ d \notin ToSet(idle) /\ d # conn[u]
    BY <2>2, <1>0, <1>1, <1>2
  <2>4. \A d \in ToSet(idle') \cup {None} : d \in ToSet(idle) \/ d = conn[u] \/ d = None
    BY <2>2
  <2> QED BY <1>0, <1>5, <2>1, <2>2, <2>3, <2>4, Moved
<1> QED BY <1>6, <1>7, <1>8 DEF put

\* Nothing moves.
LEMMA Stayed ==
  ASSUME Typed, OneOwner, pc' = pc, conn' = conn, idle' = idle, leftover' = leftover,
         \A d \in Conn : traffic'[d] # None <=> traffic[d] # None
  PROVE  OneOwner'
BY DEF OneOwner, Holding

-----------------------------------------------------------------------------
(* The count. *)

Counted == {"testing", "dialing", "using"}
Busy == {u \in User : pc[u] \in Counted}

\* The stages in which a user has nothing that counts.
LEMMA Uncounted ==
  \A to \in {"out", "pruning", "waiting", "discarding"} : to \notin Counted
BY DEF Counted

\* One user that goes on changes the number of busy users by what it was and will be.
LEMMA BusyMoves ==
  ASSUME Typed, NEW u \in User, NEW to, pc' = [pc EXCEPT ![u] = to]
  PROVE  /\ Cardinality(Busy) \in Nat /\ Cardinality(Busy') \in Nat
         /\ Cardinality(Busy') = Cardinality(Busy)
                                  + (IF to \in Counted THEN 1 ELSE 0)
                                  - (IF pc[u] \in Counted THEN 1 ELSE 0)
<1> DEFINE others == Busy \ {u}
<1>1. IsFiniteSet(Busy) /\ Cardinality(Busy) \in Nat
  BY UserAssumption, FS_Subset, FS_CardinalityType DEF Busy
<1>2. /\ IsFiniteSet(others) /\ Cardinality(others) \in Nat
      /\ Cardinality(Busy) = Cardinality(others) + (IF pc[u] \in Counted THEN 1 ELSE 0)
  <2>1. u \in Busy <=> pc[u] \in Counted
    BY DEF Busy
  <2>2. /\ IsFiniteSet(others)
        /\ Cardinality(others) = IF u \in Busy THEN Cardinality(Busy) - 1 ELSE Cardinality(Busy)
    BY <1>1, FS_RemoveElement
  <2>3. Cardinality(others) \in Nat
    BY <2>2, FS_CardinalityType
  <2> HIDE DEF others
  <2> QED BY <1>1, <2>1, <2>2, <2>3
<1>3. Busy' = IF to \in Counted THEN others \cup {u} ELSE others
  BY DEF Busy, Typed
<1>4. /\ Cardinality(others \cup {u}) = Cardinality(others) + 1
  BY <1>2, FS_AddElement
<1> HIDE DEF others
<1> QED BY <1>1, <1>2, <1>3, <1>4

\* One user that goes on to such a stage.
LEMMA BusyLeaves ==
  ASSUME Typed, NEW u \in User, NEW to \in {"out", "pruning", "waiting", "discarding"},
         pc' = [pc EXCEPT ![u] = to]
  PROVE  /\ Cardinality(Busy) \in Nat /\ Cardinality(Busy') \in Nat
         /\ Cardinality(Busy') = Cardinality(Busy) - (IF pc[u] \in Counted THEN 1 ELSE 0)
<1>1. to \notin Counted
  BY Uncounted
<1>2. /\ Cardinality(Busy) \in Nat /\ Cardinality(Busy') \in Nat
      /\ Cardinality(Busy') = Cardinality(Busy) + (IF to \in Counted THEN 1 ELSE 0)
                               - (IF pc[u] \in Counted THEN 1 ELSE 0)
  BY BusyMoves
<1> QED BY <1>1, <1>2

\* What ActiveCounts says, in numbers.
LEMMA CountFacts ==
  ASSUME Typed, ActiveCounts
  PROVE  /\ Len(idle) \in Nat /\ active \in Int /\ config.MaxActive \in Nat
         /\ Cardinality(Busy) \in Nat
         /\ active = Len(idle) + Cardinality(Busy)
         /\ config.MaxActive # 0 => active <= config.MaxActive
<1>1. IsFiniteSet(Busy) /\ Cardinality(Busy) \in Nat
  BY UserAssumption, FS_Subset, FS_CardinalityType DEF Busy
<1>2. /\ active = Len(idle) + Cardinality(Busy)
      /\ config.MaxActive # 0 => active <= config.MaxActive
  BY DEF ActiveCounts, Busy, Counted
<1>3. Len(idle) \in Nat /\ active \in Int /\ config.MaxActive \in Nat
  BY LenProperties DEF Typed, Settings
<1> QED BY <1>1, <1>2, <1>3

\* The loop in get counts up what it dials, after what was closed was counted down.
LEMMA LookCounts ==
  ASSUME Typed, Typed', ActiveCounts, NEW u \in User, NEW act, NEW queue,
         NEW rounds, Look(u, act, queue, rounds),
         act = active - (IF pc[u] \in Counted THEN 1 ELSE 0)
  PROVE  ActiveCounts'
<1>1. config' = config
  BY DEF Look
<1>2. /\ Len(idle) \in Nat /\ active \in Int /\ config.MaxActive \in Nat
      /\ Cardinality(Busy) \in Nat
      /\ active = Len(idle) + Cardinality(Busy)
      /\ config.MaxActive # 0 => active <= config.MaxActive
  BY CountFacts
<1>3. CASE TakeIdle(u, act, queue, rounds)
  <2>1. PICK to \in {"testing", "using"} : pc' = [pc EXCEPT ![u] = to]
    BY <1>3 DEF TakeIdle, Goes
  <2>2. Len(idle') = Len(idle) - 1 /\ active' = act
    BY <1>3, TailOf DEF TakeIdle, Typed
  <2>3. Cardinality(Busy') = Cardinality(Busy) + 1 - (IF pc[u] \in Counted THEN 1 ELSE 0)
    BY <2>1, BusyMoves DEF Counted
  <2>4. active' = Len(idle') + Cardinality(Busy')
    BY <1>2, <2>2, <2>3
  <2>5. active' <= active
    BY <1>2, <2>2
  <2>6. config.MaxActive # 0 => active' <= config.MaxActive
    BY <1>2, <2>2, <2>5
  <2> QED BY <1>1, <2>4, <2>6 DEF ActiveCounts, Busy, Counted
<1>4. CASE DialOrWait(u, act, queue, rounds)
  <2>1. idle' = idle
    BY <1>4 DEF DialOrWait
  <2>2. CASE Goes(u, "dialing", None, 0) /\ ~AtLimit(act) /\ active' = act + 1
    <3>1. Cardinality(Busy') = Cardinality(Busy) + 1 - (IF pc[u] \in Counted THEN 1 ELSE 0)
      BY <2>2, BusyMoves DEF Counted, Goes
    <3>2. active' = Len(idle') + Cardinality(Busy')
      BY <1>2, <2>1, <2>2, <3>1
    <3>3. config.MaxActive # 0 => active' <= config.MaxActive
      BY <1>2, <2>2 DEF AtLimit
    <3> QED BY <1>1, <3>2, <3>3 DEF ActiveCounts, Busy, Counted
  <2>3. CASE active' = act /\ \E to \in {"out", "waiting"} : Goes(u, to, None, 0)
    <3>1. Cardinality(Busy') = Cardinality(Busy) - (IF pc[u] \in Counted THEN 1 ELSE 0)
      <4>1. PICK to \in {"out", "waiting"} : pc' = [pc EXCEPT ![u] = to]
        BY <2>3 DEF Goes
      <4>2. to \in {"out", "pruning", "waiting", "discarding"}
        OBVIOUS
      <4> QED BY <4>1, <4>2, BusyLeaves
    <3>2. active' = Len(idle') + Cardinality(Busy')
      BY <1>2, <2>1, <2>3, <3>1
    <3>3. active' <= active
      BY <1>2, <2>3
    <3>4. config.MaxActive # 0 => active' <= config.MaxActive
      BY <1>2, <2>3, <3>3
    <3> QED BY <1>1, <3>2, <3>4 DEF ActiveCounts, Busy, Counted
  <2> QED BY <1>4, <2>2, <2>3 DEF DialOrWait
<1> QED BY <1>3, <1>4 DEF Look

\* Steps that take one from the count and from the idle connections or the busy users.
LEMMA CountedDown ==
  ASSUME Typed, ActiveCounts, config' = config, active' = active - 1,
         Len(idle') + Cardinality(Busy') = Len(idle) + Cardinality(Busy) - 1,
         Len(idle') \in Nat, Cardinality(Busy') \in Nat
  PROVE  ActiveCounts'
<1>1. /\ Len(idle) \in Nat /\ active \in Int /\ config.MaxActive \in Nat
      /\ Cardinality(Busy) \in Nat
      /\ active = Len(idle) + Cardinality(Busy)
      /\ config.MaxActive # 0 => active <= config.MaxActive
  BY CountFacts
<1>2. /\ active' = Len(idle') + Cardinality(Busy')
      /\ config.MaxActive # 0 => active' <= config.MaxActive
  BY <1>1
<1> QED BY <1>2 DEF ActiveCounts, Busy, Counted

\* Pruning counts the idle connection out.
LEMMA PruneCounts ==
  ASSUME Typed, ActiveCounts, NEW u \in User, NEW rounds, Prune(u, rounds),
         pc[u] \notin Counted
  PROVE  ActiveCounts'
<1>1. /\ config' = config /\ active' = active - 1 /\ idle' = Front(idle) /\ idle # <<>>
      /\ pc' = [pc EXCEPT ![u] = "pruning"]
  BY DEF Prune, Goes
<1>2. Len(idle') = Len(idle) - 1 /\ Front(idle) \in Seq(Conn)
  BY <1>1, FrontOf DEF Typed
<1>3. Len(idle') \in Nat
  BY <1>1, <1>2, LenProperties
<1>4. Cardinality(Busy') = Cardinality(Busy) /\ Cardinality(Busy') \in Nat
  <2>1. /\ Cardinality(Busy) \in Nat /\ Cardinality(Busy') \in Nat
        /\ Cardinality(Busy') = Cardinality(Busy) - (IF pc[u] \in Counted THEN 1 ELSE 0)
    BY <1>1, BusyLeaves
  <2> QED BY <2>1
<1>5. Len(idle) \in Nat
  BY CountFacts
<1> QED BY <1>1, <1>2, <1>3, <1>4, <1>5, CountedDown

\* put moves one from the busy users to the idle list, or counts one out.
LEMMA PutCounts ==
  ASSUME Typed, ActiveCounts, NEW u \in User, conn[u] \in Conn, pc[u] = "using",
         NEW t, NEW force, put(u, t, force)
  PROVE  ActiveCounts'
<1> DEFINE pushed == <<conn[u]>> \o idle
<1>1. /\ Len(idle) \in Nat /\ active \in Int /\ config.MaxActive \in Nat
      /\ Cardinality(Busy) \in Nat
      /\ active = Len(idle) + Cardinality(Busy)
      /\ config.MaxActive # 0 => active <= config.MaxActive
  BY CountFacts
<1>2. /\ pushed \in Seq(Conn) /\ pushed # <<>> /\ Len(pushed) = Len(idle) + 1
  BY PushedOn DEF Typed
<1>3. Len(Front(pushed)) = Len(idle)
  <2>1. Len(Front(pushed)) = Len(pushed) - 1
    BY <1>2, FrontOf
  <2> HIDE DEF pushed
  <2> QED BY <2>1, <1>1, <1>2
<1>4. config' = config /\ pc[u] \in Counted
  BY DEF put, Counted
<1>5. CASE \E c \in {conn[u], Last(pushed)} : Release(u, c) /\ idle' \in {idle, Front(pushed)}
  <2>1. pc' = [pc EXCEPT ![u] = "discarding"] /\ active' = active - 1
    BY <1>5 DEF Release, Goes
  <2>2. Cardinality(Busy') = Cardinality(Busy) - 1 /\ Cardinality(Busy') \in Nat
    BY <1>1, <1>4, <2>1, BusyLeaves
  <2>3. Len(idle') = Len(idle)
    BY <1>5, <1>3
  <2> QED BY <1>1, <1>4, <2>1, <2>2, <2>3, CountedDown
<1>6. CASE Keep(u) /\ idle' = pushed
  <2>1. pc' = [pc EXCEPT ![u] = "out"] /\ active' = active
    BY <1>6 DEF Keep, Goes
  <2>2. Cardinality(Busy') = Cardinality(Busy) - 1
    BY <1>1, <1>4, <2>1, BusyLeaves
  <2>3. active' = Len(idle') + Cardinality(Busy')
    BY <1>1, <1>2, <1>6, <2>1, <2>2
  <2> QED BY <1>1, <1>4, <2>1, <2>3 DEF ActiveCounts, Busy, Counted
<1> QED BY <1>5, <1>6 DEF put

-----------------------------------------------------------------------------
(* The queue and the users woken from it. *)

\* Who is in the queue waits, once, for a pool that is open, limited and waits.
Queue ==
  /\ IsInjective(waiting)
  /\ \A v \in ToSet(waiting) : v \in User /\ pc[v] = "waiting"
  /\ waiting # <<>> => ~closed /\ config.MaxActive # 0 /\ config.Wait

\* The users woken are some of the users.
LEMMA AwakeFinite ==
  /\ IsFiniteSet(Awake) /\ Cardinality(Awake) \in Nat
  /\ IsFiniteSet(Awake') /\ Cardinality(Awake') \in Nat
<1>1. Awake \in SUBSET User /\ Awake' \in SUBSET User
  BY DEF Awake
<1> QED BY <1>1, UserAssumption, FS_Subset, FS_CardinalityType

\* A step of a user that was not in the queue and does not enter it.
LEMMA QueueKept ==
  ASSUME Typed, Queue, NEW u \in User, u \notin ToSet(waiting), NEW to,
         pc' = [pc EXCEPT ![u] = to],
         waiting' \in {waiting, Signalled(waiting)}, closed' = closed, config' = config
  PROVE  Queue'
<1>1. /\ ToSet(waiting') \subseteq ToSet(waiting) /\ IsInjective(waiting')
      /\ waiting' # <<>> => waiting # <<>>
  <2>1. waiting \in Seq(User)
    BY DEF Typed
  <2> QED BY <2>1, SignalledOf DEF Queue, Signalled
<1>2. \A v \in User : v # u => pc'[v] = pc[v]
  BY DEF Typed
<1> QED BY <1>1, <1>2 DEF Queue

\* A user that leaves its wait, or never was in one, wakes nobody and leaves the rest.
LEMMA AwakeLeft ==
  ASSUME Typed, NEW u \in User, NEW to, to # "waiting",
         pc' = [pc EXCEPT ![u] = to], waiting' = waiting
  PROVE  /\ Cardinality(Awake') >= Cardinality(Awake) - 1
         /\ pc[u] # "waiting" => Awake' = Awake
<1>1. Awake' = Awake \ {u}
  BY DEF Awake, Typed
<1>2. Cardinality(Awake \ {u}) >= Cardinality(Awake) - 1
  BY AwakeFinite, FS_RemoveElement, SMTT(30)
<1>3. pc[u] # "waiting" => Awake \ {u} = Awake
  BY DEF Awake
<1> QED BY <1>1, <1>2, <1>3

\* A signal wakes one more, unless nobody was there to wake.
LEMMA SignalWakes ==
  ASSUME Typed, Queue, NEW u \in User, NEW to, to # "waiting", pc[u] # "waiting",
         pc' = [pc EXCEPT ![u] = to], waiting' = Signalled(waiting), waiting' # <<>>
  PROVE  /\ Cardinality(Awake') = Cardinality(Awake) + 1
         /\ waiting # <<>>
<1>1. waiting # <<>> /\ waiting' = Tail(waiting) /\ waiting \in Seq(User)
  BY DEF Signalled, Typed
<1> DEFINE h == Head(waiting)
<1>2. /\ h \in User /\ ToSet(waiting) = ToSet(waiting') \cup {h}
      /\ h \notin ToSet(waiting')
  BY <1>1, TailOf DEF Queue
<1> HIDE DEF h
<1>3. h # u /\ pc[h] = "waiting" /\ h \notin Awake
  BY <1>2 DEF Queue, Awake
<1>4. \A v \in User : pc'[v] = "waiting" <=> pc[v] = "waiting"
  BY DEF Typed
<1>5. Awake' = Awake \cup {h}
  BY <1>2, <1>3, <1>4 DEF Awake
<1>6. Cardinality(Awake \cup {h}) = Cardinality(Awake) + 1
  BY <1>3, AwakeFinite, FS_AddElement
<1> QED BY <1>1, <1>5, <1>6

\* What NoLostWakeup compares are numbers.
LEMMA WakeFacts ==
  ASSUME Typed, ActiveCounts, Queue, NoLostWakeup, waiting # <<>>
  PROVE  /\ Len(idle) \in Nat /\ active \in Int /\ config.MaxActive \in Nat
         /\ Cardinality(Awake) \in Nat
         /\ active <= config.MaxActive
         /\ Len(idle) + config.MaxActive - active <= Cardinality(Awake)
         /\ ~closed /\ config.Wait /\ config.MaxActive # 0
BY CountFacts, AwakeFinite DEF Queue, NoLostWakeup

\* Steps with a signal: at most one more connection is idle or could be dialed.
LEMMA SignalSuffices ==
  ASSUME Typed, ActiveCounts, Queue, NoLostWakeup,
         NEW u \in User, NEW to, to # "waiting", pc[u] # "waiting",
         pc' = [pc EXCEPT ![u] = to], waiting' = Signalled(waiting), config' = config,
         Len(idle') \in Nat, active' \in Int,
         Len(idle') - active' <= Len(idle) - active + 1
  PROVE  NoLostWakeup'
<1> SUFFICES ASSUME waiting' # <<>>
             PROVE  Len(idle') + config.MaxActive - active' <= Cardinality(Awake')
  BY DEF NoLostWakeup
<1>1. Cardinality(Awake') = Cardinality(Awake) + 1 /\ waiting # <<>>
  BY SignalWakes
<1> QED BY <1>1, WakeFacts, SMTT(30)

\* Steps without a signal make no connection available, and one less if a woken user
\* is served.
LEMMA NothingToWakeFor ==
  ASSUME Typed, ActiveCounts, Queue, NoLostWakeup,
         NEW u \in User, NEW to, to # "waiting",
         pc' = [pc EXCEPT ![u] = to], waiting' = waiting, config' = config,
         Len(idle') \in Nat, active' \in Int,
         Len(idle') - active' <= Len(idle) - active - (IF pc[u] = "waiting" THEN 1 ELSE 0)
  PROVE  NoLostWakeup'
<1> SUFFICES ASSUME waiting' # <<>>
             PROVE  Len(idle') + config.MaxActive - active' <= Cardinality(Awake')
  BY DEF NoLostWakeup
<1>1. /\ Len(idle) \in Nat /\ active \in Int /\ config.MaxActive \in Nat
      /\ Cardinality(Awake) \in Nat
      /\ Len(idle) + config.MaxActive - active <= Cardinality(Awake)
  BY WakeFacts
<1>2. Cardinality(Awake') \in Nat
  BY AwakeFinite
<1>3. /\ Cardinality(Awake') >= Cardinality(Awake) - 1
      /\ pc[u] # "waiting" => Awake' = Awake
  BY AwakeLeft
<1>4. CASE pc[u] = "waiting"
  <2>1. Len(idle') - active' <= Len(idle) - active - 1
    BY <1>4
  <2> QED BY <1>1, <1>2, <1>3, <2>1, SMTT(30)
<1>5. CASE pc[u] # "waiting"
  <2>1. Len(idle') - active' <= Len(idle) - active
    BY <1>5, <1>1
  <2>2. Cardinality(Awake') = Cardinality(Awake)
    BY <1>3, <1>5
  <2> QED BY <1>1, <1>2, <2>1, <2>2
<1> QED BY <1>4, <1>5

\* A user that enters the queue behind the others.
LEMMA Appended ==
  ASSUME NEW S, NEW s \in Seq(S), NEW e \in S, e \notin ToSet(s), IsInjective(s)
  PROVE  /\ IsInjective(Append(s, e))
         /\ ToSet(Append(s, e)) = ToSet(s) \cup {e}
<1> DEFINE t == Append(s, e)
<1>1. /\ Len(s) \in Nat /\ DOMAIN s = 1 .. Len(s)
      /\ Len(t) = Len(s) + 1 /\ DOMAIN t = 1 .. Len(s) + 1
      /\ \A i \in 1 .. Len(s) : t[i] = s[i]
      /\ t[Len(s) + 1] = e
  BY LenProperties, AppendProperties
<1> HIDE DEF t
<1>2. \A i \in 1 .. Len(s) : s[i] # e
  BY <1>1 DEF ToSet
<1>3. IsInjective(t)
  BY <1>1, <1>2 DEF IsInjective
<1>4. ToSet(t) = ToSet(s) \cup {e}
  BY <1>1 DEF ToSet
<1> QED BY <1>3, <1>4 DEF t

\* A step of the loop in get that no signal came before: a user takes an idle
\* connection, dials one, or enters the queue when there is neither.
LEMMA LookWakes ==
  ASSUME Typed, Typed', ActiveCounts, Queue, NoLostWakeup,
         NEW u \in User, u \notin ToSet(waiting), pc[u] \notin Counted,
         Look(u, active, waiting, Len(idle))
  PROVE  Queue' /\ NoLostWakeup'
<1>0. config' = config /\ closed' = closed /\ waiting \in Seq(User) /\ idle \in Seq(Conn)
  BY DEF Look, Typed
<1>1. Len(idle) \in Nat /\ active \in Int /\ config.MaxActive \in Nat
  BY CountFacts
<1>2. CASE TakeIdle(u, active, waiting, Len(idle))
  <2>1. PICK to \in {"testing", "using"} : pc' = [pc EXCEPT ![u] = to]
    BY <1>2 DEF TakeIdle, Goes
  <2>2. waiting' = waiting /\ active' = active /\ Len(idle') = Len(idle) - 1 /\ Len(idle') \in Nat
    BY <1>0, <1>1, <1>2, TailOf DEF TakeIdle
  <2>3. to # "waiting"
    BY <2>1
  <2>4. Len(idle') - active' <= Len(idle) - active - (IF pc[u] = "waiting" THEN 1 ELSE 0)
    BY <1>1, <2>2
  <2>5. Queue'
    BY <1>0, <2>1, <2>2, QueueKept
  <2>6. NoLostWakeup'
    BY <1>0, <1>1, <2>1, <2>2, <2>3, <2>4, NothingToWakeFor
  <2> QED BY <2>5, <2>6
<1>3. CASE DialOrWait(u, active, waiting, Len(idle))
  <2>1. idle' = idle /\ Len(idle) = 0
    BY <1>0, <1>3, EmptyList DEF DialOrWait
  <2>2. CASE waiting' = waiting /\ Goes(u, "out", None, 0) /\ (closed \/ ~config.Wait)
    <3>1. pc' = [pc EXCEPT ![u] = "out"] /\ waiting' = <<>>
      BY <2>2 DEF Goes, Queue
    <3>2. Queue'
      BY <1>0, <2>2, <3>1, QueueKept
    <3> QED BY <3>1, <3>2 DEF NoLostWakeup
  <2>3. CASE waiting' = waiting /\ Goes(u, "dialing", None, 0) /\ active' = active + 1
    <3>1. pc' = [pc EXCEPT ![u] = "dialing"]
      BY <2>3 DEF Goes
    <3>2. Len(idle') - active' <= Len(idle) - active - (IF pc[u] = "waiting" THEN 1 ELSE 0)
      BY <1>1, <2>1, <2>3
    <3>3. Queue'
      BY <1>0, <2>3, <3>1, QueueKept
    <3>4. active' \in Int /\ Len(idle') \in Nat
      BY <1>1, <2>1, <2>3
    <3>5. NoLostWakeup'
      BY <1>0, <2>3, <3>1, <3>2, <3>4, NothingToWakeFor
    <3> QED BY <3>3, <3>5
  <2>4. CASE /\ waiting' = Append(waiting, u) /\ Goes(u, "waiting", None, 0)
             /\ active' = active /\ ~closed /\ AtLimit(active) /\ config.Wait
    <3>1. pc' = [pc EXCEPT ![u] = "waiting"] /\ config.MaxActive # 0
      BY <2>4 DEF Goes, AtLimit
    <3>2. IsInjective(waiting') /\ ToSet(waiting') = ToSet(waiting) \cup {u}
      BY <1>0, <2>4, Appended DEF Queue
    <3>3. \A v \in User : pc'[v] = IF v = u THEN "waiting" ELSE pc[v]
      BY <3>1 DEF Typed
    <3>4. Queue'
      BY <1>0, <2>4, <3>1, <3>2, <3>3 DEF Queue
    <3>5. Cardinality(Awake') \in Nat
      BY AwakeFinite
    <3>6. Len(idle') + config.MaxActive - active' <= Cardinality(Awake')
      BY <1>1, <2>1, <2>4, <3>5 DEF AtLimit
    <3> QED BY <1>0, <3>4, <3>6 DEF NoLostWakeup
  <2> QED BY <1>3, <2>2, <2>3, <2>4 DEF DialOrWait
<1> QED BY <1>2, <1>3 DEF Look

\* The step after a failed test, which has freed a place and has signalled it: the
\* pool is not at its limit, so the user does not wait.
LEMMA TestFailedWakes ==
  ASSUME Typed, Typed', ActiveCounts, Queue, NoLostWakeup,
         NEW u \in User, pc[u] = "testing", TestFailed(u)
  PROVE  Queue' /\ NoLostWakeup'
<1>0. /\ config' = config /\ closed' = closed /\ idle \in Seq(Conn)
      /\ Look(u, active - 1, Signalled(waiting), left[u])
  BY DEF TestFailed, Look, Typed
<1>1. /\ Len(idle) \in Nat /\ active \in Int /\ config.MaxActive \in Nat
      /\ config.MaxActive # 0 => active <= config.MaxActive
  BY CountFacts
<1>2. u \notin ToSet(waiting) /\ pc[u] # "waiting"
  BY DEF Queue
<1>3. ~AtLimit(active - 1)
  BY <1>1 DEF AtLimit
<1>4. /\ \E to \in {"testing", "using", "out", "dialing"} : pc' = [pc EXCEPT ![u] = to]
      /\ waiting' = Signalled(waiting)
  BY <1>0, <1>3 DEF Look, TakeIdle, DialOrWait, Goes
<1>5. /\ Len(idle') \in Nat /\ active' \in Int
      /\ Len(idle') - active' <= Len(idle) - active + 1
  <2>1. CASE TakeIdle(u, active - 1, Signalled(waiting), left[u])
    <3>1. Len(idle') = Len(idle) - 1 /\ Len(idle') \in Nat /\ active' = active - 1
      BY <1>0, <1>1, <2>1, TailOf DEF TakeIdle
    <3> QED BY <1>1, <3>1
  <2>2. CASE DialOrWait(u, active - 1, Signalled(waiting), left[u])
    <3>1. idle' = idle /\ active' \in {active - 1, active}
      BY <1>1, <1>3, <2>2 DEF DialOrWait
    <3> QED BY <1>1, <3>1
  <2> QED BY <1>0, <2>1, <2>2 DEF Look
<1>6. PICK to \in {"testing", "using", "out", "dialing"} : pc' = [pc EXCEPT ![u] = to]
  BY <1>4
<1>7. to # "waiting"
  BY <1>6
<1>8. Queue'
  BY <1>0, <1>2, <1>4, <1>6, QueueKept
<1>9. NoLostWakeup'
  BY <1>0, <1>2, <1>4, <1>5, <1>6, <1>7, SignalSuffices
<1> QED BY <1>8, <1>9

\* Pruning frees a place and signals it.
LEMMA PruneWakes ==
  ASSUME Typed, ActiveCounts, Queue, NoLostWakeup, NEW u \in User, NEW rounds,
         pc[u] \in {"out", "pruning"}, Prune(u, rounds)
  PROVE  Queue' /\ NoLostWakeup'
<1>1. /\ config' = config /\ closed' = closed /\ waiting' = Signalled(waiting)
      /\ active' = active - 1 /\ idle' = Front(idle) /\ idle # <<>> /\ idle \in Seq(Conn)
      /\ pc' = [pc EXCEPT ![u] = "pruning"]
  BY DEF Prune, Goes, Typed
<1>2. u \notin ToSet(waiting) /\ pc[u] # "waiting"
  BY DEF Queue
<1>3. Len(idle') = Len(idle) - 1 /\ Front(idle) \in Seq(Conn)
  BY <1>1, FrontOf
<1>4. Len(idle') \in Nat /\ Len(idle) \in Nat /\ active \in Int
  BY <1>1, <1>3, LenProperties, CountFacts
<1>5. /\ active' \in Int
      /\ Len(idle') - active' <= Len(idle) - active + 1
  BY <1>1, <1>3, <1>4
<1>6. Queue'
  BY <1>1, <1>2, QueueKept
<1>7. NoLostWakeup'
  BY <1>1, <1>2, <1>4, <1>5, SignalSuffices
<1> QED BY <1>6, <1>7

\* put makes one connection idle, or frees the place of one, and signals it.
LEMMA PutWakes ==
  ASSUME Typed, ActiveCounts, Queue, NoLostWakeup, NEW u \in User, conn[u] \in Conn,
         pc[u] = "using", NEW t, NEW force, put(u, t, force)
  PROVE  Queue' /\ NoLostWakeup'
<1> DEFINE pushed == <<conn[u]>> \o idle
<1>1. /\ config' = config /\ closed' = closed /\ waiting' = Signalled(waiting)
      /\ \E to \in {"out", "discarding"} : pc' = [pc EXCEPT ![u] = to]
  BY DEF put, Release, Keep, Goes
<1>2. u \notin ToSet(waiting) /\ pc[u] # "waiting"
  BY DEF Queue
<1>3. /\ pushed \in Seq(Conn) /\ pushed # <<>> /\ Len(pushed) = Len(idle) + 1
      /\ Len(idle) \in Nat /\ active \in Int
  BY PushedOn, CountFacts DEF Typed
<1>4. Len(Front(pushed)) = Len(idle)
  <2>1. Len(Front(pushed)) = Len(pushed) - 1
    BY <1>3, FrontOf
  <2> HIDE DEF pushed
  <2> QED BY <2>1, <1>3
<1>5. \/ active' = active - 1 /\ idle' \in {idle, Front(pushed)}
      \/ active' = active /\ idle' = pushed
  BY DEF put, Release, Keep
<1>6. /\ Len(idle') \in Nat /\ active' \in Int
      /\ Len(idle') - active' <= Len(idle) - active + 1
  <2> HIDE DEF pushed
  <2>1. CASE active' = active - 1 /\ idle' \in {idle, Front(pushed)}
    <3>1. Len(idle') = Len(idle)
      BY <1>4, <2>1
    <3> QED BY <1>3, <2>1, <3>1
  <2>2. CASE active' = active /\ idle' = pushed
    BY <1>3, <2>2
  <2> QED BY <1>5, <2>1, <2>2
<1>7. PICK to \in {"out", "discarding"} : pc' = [pc EXCEPT ![u] = to]
  BY <1>1
<1>8. to # "waiting"
  BY <1>7
<1>9. Queue'
  BY <1>1, <1>2, <1>7, QueueKept
<1>10. NoLostWakeup'
  BY <1>1, <1>2, <1>6, <1>7, <1>8, SignalSuffices
<1> QED BY <1>9, <1>10

-----------------------------------------------------------------------------
(* The inductive invariant, one lemma for each kind of step. *)

\* What keeps: the count as an integer and its meaning, the owners, the queue; and a
\* list of connections to close only once the pool is closed.
PoolInv ==
  /\ Typed /\ config \in Config
  /\ OneOwner /\ ActiveCounts /\ Queue /\ NoLostWakeup
  /\ leftover # <<>> => closed

\* The invariant makes a user that holds a connection hold one.
LEMMA InHand ==
  ASSUME PoolInv, NEW u \in User
  PROVE  /\ pc[u] \in Holding => conn[u] \in Conn /\ traffic[conn[u]] \in Traffic
         /\ pc[u] \notin Holding => conn[u] = None
         /\ pc[u] # "waiting" => u \notin ToSet(waiting)
<1>1. pc[u] \in Holding => conn[u] \in Conn /\ traffic[conn[u]] # None
  BY Places DEF PoolInv, Typed, OneOwner
<1>2. pc[u] \notin Holding => conn[u] = None
  BY DEF PoolInv, OneOwner
<1> QED BY <1>1, <1>2 DEF PoolInv, Typed, Queue

\* Get: the first look at the idle list, or the first step of pruning.
LEMMA GetStep ==
  ASSUME PoolInv, NEW u \in User, NEW stage \in {"out", "pruning", "waiting"},
         pc[u] = stage, u \notin ToSet(waiting), traffic' = Closed(conn[u]),
         NEW rounds \in Nat, stage # "waiting" \/ ~Prune(u, rounds),
         Prune(u, rounds) \/ Look(u, active, waiting, Len(idle))
  PROVE  PoolInv'
<1>1. Typed /\ OneOwner /\ ActiveCounts /\ Queue /\ NoLostWakeup /\ pc[u] \notin Counted
  BY DEF PoolInv, Counted
<1>2. traffic' \in [Conn -> Traffic \cup {None}]
  BY <1>1, FreshBroken, TrafficTyped
<1>3. Len(idle) \in Nat /\ active \in Int /\ waiting \in Seq(User)
  BY <1>1, CountFacts DEF Typed
<1>4. config' = config /\ closed' = closed /\ leftover' = leftover
  BY DEF Prune, Look
<1>5. CASE Prune(u, rounds)
  <2>1. pc[u] \in {"out", "pruning"}
    BY <1>5
  <2>2. Typed' /\ OneOwner' /\ ActiveCounts' /\ Queue' /\ NoLostWakeup'
    BY <1>1, <1>2, <1>5, <2>1, PruneTyped, PruneOwner, PruneCounts, PruneWakes
  <2> QED BY <1>4, <2>2 DEF PoolInv
<1>6. CASE Look(u, active, waiting, Len(idle))
  <2>1. Typed'
    BY <1>1, <1>2, <1>3, <1>6, LookTyped
  <2>2. OneOwner'
    BY <1>1, <1>3, <1>6, LookOwner
  <2>3. active = active - (IF pc[u] \in Counted THEN 1 ELSE 0)
    BY <1>1, <1>3
  <2>4. ActiveCounts'
    BY <1>1, <1>6, <2>1, <2>3, LookCounts
  <2>5. Queue' /\ NoLostWakeup'
    BY <1>1, <1>6, <2>1, LookWakes
  <2> QED BY <1>4, <2>1, <2>2, <2>4, <2>5 DEF PoolInv
<1> QED BY <1>5, <1>6

\* A test that failed.
LEMMA TestFailedStep ==
  ASSUME PoolInv, NEW u \in User, TestFailed(u)
  PROVE  PoolInv'
<1>1. /\ Typed /\ OneOwner /\ ActiveCounts /\ Queue /\ NoLostWakeup
      /\ pc[u] = "testing" /\ pc[u] \in Counted
      /\ Look(u, active - 1, Signalled(waiting), left[u]) /\ traffic' = Closed(conn[u])
  BY DEF PoolInv, TestFailed, Counted
<1>2. traffic' \in [Conn -> Traffic \cup {None}]
  BY <1>1, FreshBroken, TrafficTyped
<1>3. active - 1 \in Int /\ Signalled(waiting) \in Seq(User) /\ left[u] \in Nat
  BY <1>1, CountFacts, SignalledOf DEF Typed
<1>4. config' = config /\ closed' = closed /\ leftover' = leftover
  BY <1>1 DEF Look
<1>5. Typed'
  BY <1>1, <1>2, <1>3, LookTyped
<1>6. OneOwner'
  BY <1>1, <1>3, LookOwner
<1>7. active - 1 = active - (IF pc[u] \in Counted THEN 1 ELSE 0)
  BY <1>1
<1>8. ActiveCounts'
  BY <1>1, <1>5, <1>7, LookCounts
<1>9. Queue' /\ NoLostWakeup'
  BY <1>1, <1>5, TestFailedWakes
<1> QED BY <1>4, <1>5, <1>6, <1>8, <1>9 DEF PoolInv

\* Steps of a user that leave the lists and the count as they are: what it holds is
\* counted before and after, or neither.
LEMMA OwnStep ==
  ASSUME PoolInv, NEW u \in User, NEW to \in Stage, NEW c \in Conn \cup {None},
         Goes(u, to, c, 0), UNCHANGED <<config, poolVars>>,
         pc[u] # "waiting", to # "waiting",
         (IF to \in Counted THEN 1 ELSE 0) = (IF pc[u] \in Counted THEN 1 ELSE 0),
         traffic' \in [Conn -> Traffic \cup {None}], OneOwner'
  PROVE  PoolInv'
<1>0. /\ config' = config /\ idle' = idle /\ active' = active /\ closed' = closed
      /\ waiting' = waiting /\ leftover' = leftover /\ pc' = [pc EXCEPT ![u] = to]
  BY DEF poolVars, Goes
<1>1. Typed /\ ActiveCounts /\ Queue /\ NoLostWakeup /\ u \notin ToSet(waiting)
  BY InHand DEF PoolInv
<1>2. Typed'
  BY <1>0, <1>1, GoesTyped DEF Typed
<1>3. ActiveCounts'
  <2>1. /\ Cardinality(Busy) \in Nat /\ Cardinality(Busy') \in Nat
        /\ Cardinality(Busy') = Cardinality(Busy)
                                 + (IF to \in Counted THEN 1 ELSE 0)
                                 - (IF pc[u] \in Counted THEN 1 ELSE 0)
    BY <1>0, <1>1, BusyMoves
  <2>2. Cardinality(Busy') = Cardinality(Busy)
    BY <2>1
  <2>3. active = Len(idle) + Cardinality(Busy)
    BY <1>1, CountFacts
  <2> QED BY <1>0, <1>1, <2>2, <2>3 DEF ActiveCounts, Busy, Counted
<1>4. Queue'
  BY <1>0, <1>1, QueueKept
<1>5. NoLostWakeup'
  <2>1. Len(idle) \in Nat /\ active \in Int
    BY <1>1, CountFacts
  <2>2. Len(idle') - active' <= Len(idle) - active - (IF pc[u] = "waiting" THEN 1 ELSE 0)
    BY <1>0, <2>1
  <2> QED BY <1>0, <1>1, <2>1, <2>2, NothingToWakeFor
<1> QED BY <1>0, <1>2, <1>3, <1>4, <1>5 DEF PoolInv

\* A test that passed, a dial that did, and the close of what put did not keep.
LEMMA TestPassedStep ==
  ASSUME PoolInv, NEW u \in User, TestPassed(u)
  PROVE  PoolInv'
<1>1. /\ Goes(u, "using", conn[u], 0) /\ UNCHANGED <<config, poolVars, traffic>>
      /\ pc[u] = "testing" /\ Typed
  BY DEF TestPassed, PoolInv
<1>2. "using" \in Counted /\ "testing" \in Counted /\ "using" \in Stage
      /\ "using" \in Holding /\ "testing" \in Holding
  BY DEF Counted, Stage, Holding
<1>3. conn[u] \in Conn /\ traffic \in [Conn -> Traffic \cup {None}]
  BY <1>1, <1>2, InHand DEF Typed
<1>4. /\ conn' = conn /\ idle' = idle /\ leftover' = leftover /\ traffic' = traffic
      /\ pc' = [pc EXCEPT ![u] = "using"]
  BY <1>1, <1>3 DEF Goes, poolVars, Typed
<1>5. \A v \in User : pc'[v] = IF v = u THEN "using" ELSE pc[v]
  BY <1>1, <1>4 DEF Typed
<1>6. OneOwner'
  BY <1>1, <1>2, <1>4, <1>5 DEF OneOwner, Holding, PoolInv
<1> QED BY <1>1, <1>2, <1>3, <1>4, <1>6, OwnStep

\* A new connection is in no place, and goes to its user.
LEMMA DialedStep ==
  ASSUME PoolInv, NEW u \in User, NEW c \in Conn, Dialed(u, c)
  PROVE  PoolInv'
<1>1. /\ Goes(u, "using", c, 0) /\ UNCHANGED <<config, poolVars>>
      /\ pc[u] = "dialing" /\ traffic[c] = None /\ traffic' = [traffic EXCEPT ![c] = Fresh]
      /\ Typed /\ OneOwner
  BY DEF Dialed, PoolInv
<1>2. "using" \in Counted /\ "dialing" \in Counted /\ "using" \in Stage
      /\ "using" \in Holding /\ "dialing" \notin Holding
  BY DEF Counted, Stage, Holding
<1>3. /\ traffic' \in [Conn -> Traffic \cup {None}]
      /\ \A d \in Conn : traffic'[d] # None <=> d = c \/ traffic[d] # None
  BY <1>1, FreshBroken, TrafficIsOpen, TrafficTyped
<1>4. /\ idle' = idle /\ leftover' = leftover
      /\ pc' = [pc EXCEPT ![u] = "using"] /\ conn' = [conn EXCEPT ![u] = c]
  BY <1>1 DEF Goes, poolVars
<1>5. conn[u] = None /\ c # None
  BY <1>1, <1>2, InHand, ConnAssumption
<1>6. /\ c \notin ToSet(idle') /\ None \notin ToSet(idle') /\ IsInjective(idle')
      /\ \A d \in ToSet(idle') : d \in Conn /\ traffic[d] # None
  BY <1>1, <1>4, Places, ConnAssumption DEF OneOwner
<1>7. /\ \A d \in ToSet(idle') \cup {c} :
           d \in ToSet(idle) \/ d = conn[u] \/ d = None \/ traffic[d] = None
      /\ \A d \in Conn : traffic'[d] # None <=>
           \/ d \in ToSet(idle') \cup {c}
           \/ traffic[d] # None /\ d \notin ToSet(idle) /\ d # conn[u]
  BY <1>1, <1>3, <1>4, <1>5, <1>6, ConnAssumption
<1>8. OneOwner'
  BY <1>1, <1>2, <1>4, <1>5, <1>6, <1>7, Moved
<1> QED BY <1>1, <1>2, <1>3, <1>8, OwnStep

\* A connection that was counted out is closed.
LEMMA DiscardedStep ==
  ASSUME PoolInv, NEW u \in User, Discarded(u)
  PROVE  PoolInv'
<1>1. /\ Goes(u, "out", None, 0) /\ UNCHANGED <<config, poolVars>>
      /\ pc[u] = "discarding" /\ traffic' = Closed(conn[u])
      /\ Typed /\ OneOwner
  BY DEF Discarded, PoolInv
<1>2. "out" \notin Counted /\ "discarding" \notin Counted /\ "out" \in Stage
      /\ "out" \notin Holding
  BY DEF Counted, Stage, Holding
<1>3. /\ traffic' \in [Conn -> Traffic \cup {None}]
      /\ \A d \in Conn : traffic'[d] # None <=> d # conn[u] /\ traffic[d] # None
  BY <1>1, FreshBroken, TrafficTyped
<1>4. /\ idle' = idle /\ leftover' = leftover
      /\ pc' = [pc EXCEPT ![u] = "out"] /\ conn' = [conn EXCEPT ![u] = None]
  BY <1>1 DEF Goes, poolVars
<1>5. /\ None \notin ToSet(idle') /\ IsInjective(idle')
      /\ \A d \in ToSet(idle') : d \in Conn /\ traffic[d] # None /\ d # conn[u]
  BY <1>1, <1>4, Places, ConnAssumption DEF OneOwner
<1>6. /\ \A d \in ToSet(idle') \cup {None} :
           d \in ToSet(idle) \/ d = conn[u] \/ d = None \/ traffic[d] = None
      /\ \A d \in Conn : traffic'[d] # None <=>
           \/ d \in ToSet(idle') \cup {None}
           \/ traffic[d] # None /\ d \notin ToSet(idle) /\ d # conn[u]
  BY <1>3, <1>4, <1>5, ConnAssumption
<1>7. OneOwner'
  BY <1>1, <1>2, <1>4, <1>5, <1>6, Moved
<1> QED BY <1>1, <1>2, <1>3, <1>7, OwnStep

\* A dial that failed counts out what was counted before it.
LEMMA DialFailedStep ==
  ASSUME PoolInv, NEW u \in User, DialFailed(u)
  PROVE  PoolInv'
<1>1. /\ Goes(u, "out", None, 0) /\ pc[u] = "dialing" /\ active' = active - 1
      /\ waiting' = Signalled(waiting) /\ config' = config /\ closed' = closed
      /\ idle' = idle /\ leftover' = leftover /\ traffic' = traffic
      /\ Typed /\ OneOwner /\ ActiveCounts /\ Queue /\ NoLostWakeup
      /\ u \notin ToSet(waiting)
  BY InHand DEF DialFailed, PoolInv
<1>2. "dialing" \in Counted /\ "out" \in Stage /\ "out" \notin Holding /\ "dialing" \notin Holding
  BY DEF Counted, Stage, Holding
<1>3. /\ pc' = [pc EXCEPT ![u] = "out"] /\ conn' = conn
  BY <1>1, <1>2, InHand DEF Goes, Typed
<1>4. /\ Cardinality(Busy) \in Nat /\ Cardinality(Busy') \in Nat
      /\ Cardinality(Busy') = Cardinality(Busy) - 1
  BY <1>1, <1>2, <1>3, BusyLeaves
<1>5. Len(idle) \in Nat /\ active \in Int
  BY <1>1, CountFacts
<1>6. Typed'
  <2>1. Signalled(waiting) \in Seq(User)
    BY <1>1, SignalledOf DEF Typed
  <2>2. /\ pc' \in [User -> Stage] /\ conn' \in [User -> Conn \cup {None}]
        /\ left' \in [User -> Nat] /\ state' \in [User -> SUBSET State]
    BY <1>1, <1>2, GoesTyped
  <2>3. active' \in Int
    BY <1>1, <1>5
  <2> QED BY <1>1, <2>1, <2>2, <2>3 DEF Typed
<1>7. OneOwner'
  <2>1. \A v \in User : pc'[v] = IF v = u THEN "out" ELSE pc[v]
    BY <1>1, <1>3 DEF Typed
  <2> QED BY <1>1, <1>2, <1>3, <2>1 DEF OneOwner, Holding
<1>8. ActiveCounts'
  BY <1>1, <1>4, <1>5, CountedDown
<1>9. Queue'
  BY <1>1, <1>3, QueueKept
<1>10. NoLostWakeup'
  <2>1. Len(idle') - active' <= Len(idle) - active + 1 /\ active' \in Int
    BY <1>1, <1>5
  <2> QED BY <1>1, <1>3, <1>5, <2>1, SignalSuffices
<1> QED BY <1>1, <1>6, <1>7, <1>8, <1>9, <1>10 DEF PoolInv

\* A user that closes its connection.
LEMMA CloseStep ==
  ASSUME PoolInv, NEW u \in User, Close(u)
  PROVE  PoolInv'
<1>1. pc[u] = "using" /\ "using" \in Holding
  BY DEF Close, Holding
<1>2. conn[u] \in Conn /\ traffic[conn[u]] \in Traffic
  BY <1>1, InHand
<1>3. PICK t \in Traffic : GiveBack(u, t)
  BY <1>2, FreshBroken, CleanedType DEF Close
<1> DEFINE force == StateLeft(state[u]) # {}
<1>4. put(u, t, force) /\ traffic' = [traffic EXCEPT ![conn[u]] = t]
  BY <1>3 DEF GiveBack
<1> HIDE DEF force
<1>5. Typed /\ OneOwner /\ ActiveCounts /\ Queue /\ NoLostWakeup
  BY DEF PoolInv
<1>6. traffic' \in [Conn -> Traffic \cup {None}]
  BY <1>4, <1>5, TrafficTyped
<1>7. Typed'
  BY <1>2, <1>4, <1>5, <1>6, PutTyped
<1>8. OneOwner'
  BY <1>2, <1>4, <1>5, PutOwner
<1>9. ActiveCounts'
  BY <1>1, <1>2, <1>4, <1>5, PutCounts
<1>10. Queue' /\ NoLostWakeup'
  BY <1>1, <1>2, <1>4, <1>5, PutWakes
<1>11. config' = config /\ closed' = closed /\ leftover' = leftover
  BY <1>4 DEF put
<1> QED BY <1>7, <1>8, <1>9, <1>10, <1>11 DEF PoolInv

\* Traffic on an open connection, that stays open.
LEMMA TrafficStep ==
  ASSUME PoolInv, NEW c \in Conn, traffic[c] # None, NEW t \in Traffic,
         traffic' = [traffic EXCEPT ![c] = t], state' \in [User -> SUBSET State],
         UNCHANGED <<config, poolVars, pc, conn, left>>
  PROVE  PoolInv'
<1>1. /\ config' = config /\ idle' = idle /\ active' = active /\ closed' = closed
      /\ waiting' = waiting /\ leftover' = leftover /\ pc' = pc /\ conn' = conn
      /\ left' = left
      /\ Typed /\ OneOwner /\ ActiveCounts /\ Queue /\ NoLostWakeup
  BY DEF poolVars, PoolInv
<1>2. /\ traffic' \in [Conn -> Traffic \cup {None}]
      /\ \A d \in Conn : traffic'[d] # None <=> traffic[d] # None
  BY <1>1, TrafficTyped, TrafficIsOpen
<1>3. Typed'
  BY <1>1, <1>2 DEF Typed
<1>4. OneOwner'
  BY <1>1, <1>2, Stayed
<1>5. ActiveCounts' /\ Queue' /\ NoLostWakeup'
  BY <1>1 DEF ActiveCounts, Queue, NoLostWakeup, Awake
<1> QED BY <1>1, <1>3, <1>4, <1>5 DEF PoolInv

\* Exchanges of a user, and what the server sends of itself.
LEMMA ExchangeStep ==
  ASSUME PoolInv, NEW u \in User, Exchanges(u)
  PROVE  PoolInv'
<1>1. /\ pc[u] = "using" \/ UserReceive(u)
      /\ "using" \in Holding
  BY DEF Exchanges, UserSend, UserDo, InUse, Holding
<1>2. pc[u] = "using"
  BY <1>1 DEF UserReceive, InUse
<1>3. conn[u] \in Conn /\ traffic[conn[u]] \in Traffic /\ traffic[conn[u]] # None
  BY <1>1, <1>2, InHand, TrafficIsOpen
<1>4. state \in [User -> SUBSET State]
  BY DEF PoolInv, Typed
<1>5. ASSUME NEW t \in Traffic, Exchange(u, t), state' \in [User -> SUBSET State]
      PROVE  PoolInv'
  <2>1. PICK result \in Traffic : traffic' = [traffic EXCEPT ![conn[u]] = result]
    BY <1>5, FreshBroken DEF Exchange
  <2> QED BY <1>3, <1>5, <2>1, TrafficStep DEF Exchange
<1>6. CASE UserReceive(u)
  <2>1. Receive(traffic[conn[u]]) \in Traffic
    BY <1>3, <1>6, ReadTypes DEF UserReceive
  <2>2. Exchange(u, Receive(traffic[conn[u]])) /\ state' = state
    BY <1>6 DEF UserReceive
  <2> QED BY <1>4, <1>5, <2>1, <2>2
<1>7. ASSUME NEW cmd \in Command, UserSend(u, cmd) \/ UserDo(u, cmd)
      PROVE  PoolInv'
  <2>1. Send(traffic[conn[u]], cmd) \in Traffic /\ Do(traffic[conn[u]], cmd) \in Traffic
    BY <1>3, SendType, ReadTypes
  <2>2. PICK t \in Traffic : Exchange(u, t)
    BY <1>7, <2>1 DEF UserSend, UserDo
  <2>3. state' = [state EXCEPT ![u] = Noted(@, cmd)]
    BY <1>7 DEF UserSend, UserDo
  <2>4. Noted(state[u], cmd) \in SUBSET State
    <3>1. state[u] \in SUBSET State
      BY <1>4
    <3> QED BY <3>1 DEF Noted, StateSet, State
  <2>5. state' \in [User -> SUBSET State]
    BY <1>4, <2>3, <2>4
  <2> QED BY <1>5, <2>2, <2>5
<1> QED BY <1>6, <1>7 DEF Exchanges

\* A message of the server, on any open connection.
LEMMA PushStep ==
  ASSUME PoolInv, NEW c \in Conn, ServerPush(c)
  PROVE  PoolInv'
<1>1. traffic[c] # None /\ traffic[c] \in Traffic /\ state \in [User -> SUBSET State]
  BY DEF ServerPush, PoolInv, Typed
<1>2. Push(traffic[c]) \in Traffic
  BY <1>1, ReadTypes
<1>3. /\ traffic' = [traffic EXCEPT ![c] = Push(traffic[c])] /\ state' = state
      /\ UNCHANGED <<config, poolVars, pc, conn, left>>
  BY DEF ServerPush, userVars
<1> QED BY <1>1, <1>2, <1>3, TrafficStep

\* Closing the pool: its idle connections are only listed to be closed, and counted out.
LEMMA PoolCloseStep ==
  ASSUME PoolInv, PoolClose
  PROVE  PoolInv'
<1>1. /\ config' = config /\ idle' = <<>> /\ leftover' = idle /\ closed' = TRUE
      /\ active' = active - Len(idle) /\ waiting' = <<>> /\ pc' = pc /\ conn' = conn
      /\ left' = left /\ state' = state /\ traffic' = traffic
      /\ Typed /\ OneOwner /\ ActiveCounts /\ leftover = <<>>
  BY DEF PoolClose, userVars, PoolInv
<1>2. /\ Len(idle) \in Nat /\ active \in Int /\ config.MaxActive \in Nat
      /\ active = Len(idle) + Cardinality(Busy) /\ Cardinality(Busy) \in Nat
      /\ config.MaxActive # 0 => active <= config.MaxActive
  BY <1>1, CountFacts
<1>3. Typed'
  BY <1>1, <1>2, EmptySeq DEF Typed
<1>4. OneOwner'
  BY <1>1, EmptyList DEF OneOwner, Holding
<1>5. ActiveCounts'
  <2>1. /\ active' = Len(idle') + Cardinality(Busy)
        /\ config.MaxActive # 0 => active' <= config.MaxActive
    BY <1>1, <1>2, EmptyList
  <2> QED BY <1>1, <2>1 DEF ActiveCounts, Busy, Counted
<1>6. Queue' /\ NoLostWakeup'
  BY <1>1, EmptyList DEF Queue, NoLostWakeup
<1> QED BY <1>1, <1>3, <1>4, <1>5, <1>6 DEF PoolInv

\* The next of the connections that Pool.Close found idle.
LEMMA CloseLeftoverStep ==
  ASSUME PoolInv, CloseLeftover
  PROVE  PoolInv'
<1> DEFINE c == Head(leftover)
<1>1. /\ config' = config /\ idle' = idle /\ active' = active /\ closed' = closed
      /\ waiting' = waiting /\ leftover # <<>> /\ leftover' = Tail(leftover) /\ pc' = pc
      /\ conn' = conn /\ left' = left /\ state' = state /\ traffic' = Closed(c)
      /\ Typed /\ OneOwner /\ ActiveCounts /\ Queue /\ NoLostWakeup /\ closed
  BY DEF CloseLeftover, userVars, PoolInv
<1>2. /\ leftover \in Seq(Conn) /\ IsInjective(leftover)
  BY <1>1 DEF Typed, OneOwner
<1>3. /\ c \in Conn /\ Tail(leftover) \in Seq(Conn)
      /\ ToSet(leftover) = ToSet(leftover') \cup {c}
      /\ IsInjective(leftover') /\ c \notin ToSet(leftover')
  BY <1>1, <1>2, TailOf
<1> HIDE DEF c
<1>4. /\ traffic' \in [Conn -> Traffic \cup {None}]
      /\ \A d \in Conn : traffic'[d] # None <=> d # c /\ traffic[d] # None
  BY <1>1, FreshBroken, TrafficTyped
<1>5. Typed'
  BY <1>1, <1>3, <1>4 DEF Typed
<1>6. OneOwner'
  <2>1. c \notin ToSet(idle) /\ \A v \in User : conn[v] # c
    BY <1>1, <1>3 DEF OneOwner
  <2> QED BY <1>1, <1>3, <1>4, <2>1 DEF OneOwner, Holding
<1>7. ActiveCounts' /\ Queue' /\ NoLostWakeup'
  BY <1>1 DEF ActiveCounts, Queue, NoLostWakeup, Awake
<1> QED BY <1>1, <1>5, <1>6, <1>7 DEF PoolInv

-----------------------------------------------------------------------------
(* The invariant holds, and with it the properties. *)

\* A new pool has no connection, no user and nobody that waits.
LEMMA PoolInvInit == Init => PoolInv
<1> SUFFICES ASSUME Init PROVE PoolInv
  OBVIOUS
<1>1. config \in Config /\ config \in Settings /\ config.MaxActive \in Nat
  BY ConfigAssumption DEF Init, Settings
<1>2. Typed
  <2>1. /\ idle \in Seq(Conn) /\ leftover \in Seq(Conn) /\ waiting \in Seq(User)
    BY EmptySeq DEF Init
  <2>2. active \in Int
    BY DEF Init
  <2>3. closed \in BOOLEAN
    BY Zenon DEF Init
  <2>4. /\ pc \in [User -> Stage] /\ conn \in [User -> Conn \cup {None}]
        /\ left \in [User -> Nat]
    BY DEF Init, Stage
  <2>5. state \in [User -> SUBSET State] /\ traffic \in [Conn -> Traffic \cup {None}]
    BY DEF Init
  <2> QED BY <1>1, <2>1, <2>2, <2>3, <2>4, <2>5 DEF Typed
<1>3. OneOwner
  BY EmptyList, ConnAssumption DEF Init, OneOwner, Holding
<1>4. ActiveCounts
  <2>1. {u \in User : pc[u] \in {"testing", "dialing", "using"}} = {}
    BY DEF Init
  <2> QED BY <1>1, <2>1, EmptyList, FS_EmptySet DEF Init, ActiveCounts
<1>5. Queue /\ NoLostWakeup
  BY EmptyList DEF Init, Queue, NoLostWakeup
<1> QED BY <1>1, <1>2, <1>3, <1>4, <1>5 DEF Init, PoolInv

\* Every step of a user, of the server and of Pool.Close keeps the invariant.
LEMMA PoolInvStep == PoolInv /\ [Next]_vars => PoolInv'
<1> SUFFICES ASSUME PoolInv, [Next]_vars PROVE PoolInv'
  OBVIOUS
<1>1. ASSUME NEW u \in User, Get(u) PROVE PoolInv'
  <2>1. /\ pc[u] = "out" /\ traffic' = traffic /\ "out" \notin Holding /\ Len(idle) \in Nat
        /\ Prune(u, Len(idle)) \/ Look(u, active, waiting, Len(idle))
    BY <1>1, CountFacts DEF Get, Holding, PoolInv
  <2>2. conn[u] = None /\ u \notin ToSet(waiting) /\ traffic = Closed(None)
    BY <2>1, InHand, ClosedNone DEF PoolInv
  <2> QED BY <2>1, <2>2, GetStep
<1>2. ASSUME NEW u \in User, GetPruned(u) PROVE PoolInv'
  <2>1. /\ pc[u] = "pruning" /\ traffic' = Closed(conn[u]) /\ left[u] \in Nat
        /\ Prune(u, left[u]) \/ Look(u, active, waiting, Len(idle))
    BY <1>2 DEF GetPruned, PoolInv, Typed
  <2>2. u \notin ToSet(waiting)
    BY <2>1, InHand
  <2> QED BY <2>1, <2>2, GetStep
<1>3. ASSUME NEW u \in User, GetAwake(u) PROVE PoolInv'
  <2>1. /\ pc[u] = "waiting" /\ u \notin ToSet(waiting) /\ traffic' = traffic
        /\ "waiting" \notin Holding /\ Look(u, active, waiting, Len(idle))
    BY <1>3 DEF GetAwake, Holding
  <2>2. conn[u] = None /\ traffic = Closed(None) /\ ~Prune(u, 0)
    BY <2>1, InHand, ClosedNone DEF PoolInv, Prune
  <2> QED BY <2>1, <2>2, GetStep
<1>4. ASSUME NEW u \in User, GoesOn(u) PROVE PoolInv'
  BY <1>2, <1>3, <1>4, TestPassedStep, TestFailedStep, DialFailedStep, DialedStep,
     CloseStep, DiscardedStep
     DEF GoesOn, GetGoesOn, DialReturns
<1>5. ASSUME NEW c \in Conn, ServerPush(c) PROVE PoolInv'
  BY <1>5, PushStep
<1>6. CASE PoolClose \/ CloseLeftover
  BY <1>6, PoolCloseStep, CloseLeftoverStep
<1>7. CASE UNCHANGED vars
  BY <1>7 DEF vars, poolVars, userVars, PoolInv, Typed, OneOwner, Holding, ActiveCounts,
              Queue, NoLostWakeup, Awake
<1> QED BY <1>1, <1>4, <1>5, <1>6, <1>7, ExchangeStep DEF Next, UserNext

\* In every reachable state the invariant holds.
THEOREM PoolInvariant == Spec => []PoolInv
BY PoolInvInit, PoolInvStep, PTL DEF Spec

\* The pool's fields, the lists and the connections keep their types: the count p.active
\* never drops below zero, whatever fails.
THEOREM PoolTypeOK == Spec => []TypeOK
<1>1. PoolInv => TypeOK
  <2> SUFFICES ASSUME PoolInv PROVE TypeOK
    OBVIOUS
  <2>1. active \in Nat
    BY CountFacts DEF PoolInv
  <2> QED BY <2>1 DEF PoolInv, Typed, TypeOK
<1> QED BY <1>1, PoolInvariant, PTL

\* get, put, Close of a connection and of the pool, a failed test and a failed dial hand
\* each open connection to one owner, for any number of users and connections.
THEOREM PoolOneOwner == Spec => []OneOwner
<1>1. PoolInv => OneOwner
  BY DEF PoolInv
<1> QED BY <1>1, PoolInvariant, PTL

\* p.active is what is idle or in use, and MaxActive bounds it, whatever fails or is
\* closed between two locks.
THEOREM PoolActiveCounts == Spec => []ActiveCounts
<1>1. PoolInv => ActiveCounts
  BY DEF PoolInv
<1> QED BY <1>1, PoolInvariant, PTL

\* No signal is missing: nobody waits for a connection that is to be had, unless enough
\* others were woken to take it.
THEOREM PoolNoLostWakeup == Spec => []NoLostWakeup
<1>1. PoolInv => NoLostWakeup
  BY DEF PoolInv
<1> QED BY <1>1, PoolInvariant, PTL
=============================================================================
