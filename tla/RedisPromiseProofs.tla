------------------------- MODULE RedisPromiseProofs -------------------------
(***************************************************************************)
(* Proofs that the pool keeps what PoolPromise says: what is on the idle   *)
(* list is as good as new, whatever commands, users and settings.          *)
(***************************************************************************)
EXTENDS RedisPoolProofs

-----------------------------------------------------------------------------
(* What is left on a connection. *)

\* The modes of the server that Close has no mark for, or a wrong one, do not occur.
ModeMarked(mode, marks) ==
  /\ "monitor" \notin mode
  /\ Subscribed(mode) => "subscribe" \in marks /\ mode \cap {"watch", "multi"} = {}
  /\ "multi" \in mode => "multi" \in marks
  /\ "watch" \in mode => "watch" \in marks \/ "multi" \in mode

\* Every reply is pending unless messages come of themselves, and none is an echo.
RepliesMarked(t, marks) ==
  /\ "subscribe" \notin marks => t.pending = Len(t.replies)
  /\ t.pending <= Len(t.replies)
  /\ \A i \in 1 .. Len(t.replies) : t.replies[i] # "echo"

\* What Close knows of the traffic t of a connection from the state it noted.
Noticed(t, marks) ==
  ~t.err /\ "monitor" \notin marks => ModeMarked(t.mode, marks) /\ RepliesMarked(t, marks)

\* What a user gets is as good as new, and what it leaves is noticed.
FreshInv ==
  /\ IdleIsFresh
  /\ \A u \in User :
       /\ pc[u] \in {"pruning", "testing"} => traffic[conn[u]] = Fresh
       /\ pc[u] = "using" => Noticed(traffic[conn[u]], state[u])

\* The fields of a record of traffic.
LEMMA Fields ==
  ASSUME NEW t \in Traffic
  PROVE  /\ t.err \in BOOLEAN /\ t.pending \in Nat /\ t.replies \in Seq(Reply)
         /\ t.mode \in SUBSET Mode /\ Len(t.replies) \in Nat
         /\ t = [err |-> t.err, pending |-> t.pending, replies |-> t.replies, mode |-> t.mode]
<1>1. t.replies \in Seq(Reply)
  BY DEF Traffic
<1> QED BY <1>1, LenProperties DEF Traffic

\* A new connection has nothing on it.
LEMMA FreshNoticed == Noticed(Fresh, {})
<1>1. Len(<<>>) = 0
  BY EmptyList
<1> QED BY <1>1 DEF Noticed, Fresh, ModeMarked, RepliesMarked, Subscribed

\* A failed one needs no cleaning.
LEMMA BrokenNoticed == \A marks : Noticed(Broken, marks)
BY DEF Noticed, Broken, Fresh

\* What noting a command does to the marks that are never cleared.
LEMMA MarksStay ==
  ASSUME NEW marks, NEW cmd
  PROVE  /\ "subscribe" \in marks => "subscribe" \in Noted(marks, cmd)
         /\ "monitor" \in marks => "monitor" \in Noted(marks, cmd)
BY DEF Noted, StateCleared

\* The marks follow the modes through every command a user who knows Redis sends.
LEMMA ModeStaysMarked ==
  ASSUME NEW mode \in SUBSET Mode, NEW marks \in SUBSET State, NEW cmd, Expected(mode, cmd),
         ModeMarked(mode, marks), "monitor" \notin Noted(marks, cmd)
  PROVE  ModeMarked(ModeAfter(mode, cmd), Noted(marks, cmd))
<1>1. CASE Ignored(mode, cmd)
  <2>1. ModeAfter(mode, cmd) = mode
    BY <1>1 DEF ModeAfter
  <2>2. "watch" \in marks /\ "watch" \in mode /\ "multi" \notin mode =>
          "watch" \in Noted(marks, cmd)
    BY <1>1 DEF ModeMarked, Ignored
  <2>3. "multi" \in mode => "multi" \in Noted(marks, cmd)
    BY <1>1 DEF ModeMarked, Ignored, Noted, StateCleared
  <2> QED BY <2>1, <2>2, <2>3, MarksStay DEF ModeMarked
<1>2. CASE cmd \in {"UNSUBSCRIBE", "PUNSUBSCRIBE"}
  BY <1>2 DEF ModeMarked, Noted, StateSet, StateCleared, ModeAfter, Ignored,
              Resubscribes, Subscribed
<1>3. CASE cmd \in {"SUBSCRIBE", "PSUBSCRIBE"}
  BY <1>3 DEF ModeMarked, Noted, StateSet, StateCleared, ModeAfter, Ignored, Resubscribes,
              Subscribed, Expected
<1>4. CASE ~Ignored(mode, cmd) /\ cmd \notin Resubscribes
  <2>1. /\ "monitor" \notin mode /\ ~Subscribed(mode)
        /\ "multi" \in mode => cmd \in {"EXEC", "DISCARD"}
        /\ "watch" \in mode => "watch" \in marks \/ "multi" \in mode
    BY <1>4 DEF ModeMarked, Ignored
  <2>2. CASE cmd \in {"EXEC", "DISCARD"}
    <3>1. ModeAfter(mode, cmd) = mode \ {"watch", "multi"}
      BY <1>4, <2>2 DEF ModeAfter
    <3> QED BY <2>1, <3>1 DEF ModeMarked, Subscribed
  <2>3. CASE cmd = "MULTI"
    <3>1. ModeAfter(mode, cmd) = mode \cup {"multi"}
      BY <1>4, <2>3 DEF ModeAfter
    <3>2. Noted(marks, cmd) = marks \cup {"multi"}
      BY <2>3 DEF Noted, StateSet, StateCleared
    <3> QED BY <2>1, <3>1, <3>2 DEF ModeMarked, Subscribed
  <2>4. CASE cmd = "WATCH"
    <3>1. ModeAfter(mode, cmd) = mode \cup {"watch"}
      BY <1>4, <2>4 DEF ModeAfter
    <3>2. Noted(marks, cmd) = marks \cup {"watch"}
      BY <2>4 DEF Noted, StateSet, StateCleared
    <3> QED BY <2>1, <2>4, <3>1, <3>2 DEF ModeMarked, Subscribed
  <2>5. CASE cmd = "UNWATCH"
    <3>1. ModeAfter(mode, cmd) = mode \ {"watch"}
      BY <1>4, <2>5 DEF ModeAfter
    <3> QED BY <2>1, <2>5, <3>1 DEF ModeMarked, Subscribed
  <2>6. CASE cmd = "MONITOR"
    BY <2>6 DEF Noted, StateSet, StateCleared
  <2>7. CASE cmd \notin {"EXEC", "DISCARD", "MULTI", "WATCH", "UNWATCH", "MONITOR"}
    <3>1. ModeAfter(mode, cmd) = mode
      BY <1>4, <2>7 DEF ModeAfter, Resubscribes
    <3>2. "watch" \in marks => "watch" \in Noted(marks, cmd)
      BY <2>7 DEF Noted, StateCleared
    <3> QED BY <2>1, <2>7, <3>1, <3>2 DEF ModeMarked, Subscribed
  <2> QED BY <2>2, <2>3, <2>4, <2>5, <2>6, <2>7
<1> QED BY <1>1, <1>2, <1>3, <1>4 DEF Resubscribes

\* A command adds a reply and may change the mode.
LEMMA OfAnswer ==
  ASSUME NEW c \in Traffic, NEW cmd
  PROVE  LET reply == IF cmd = Sentinel THEN "echo" ELSE "reply"
         IN  Answer(c, cmd) = [err |-> c.err, pending |-> c.pending,
                               replies |-> Append(c.replies, reply),
                               mode |-> ModeAfter(c.mode, cmd)]
<1> DEFINE m == ModeAfter(c.mode, cmd)
           all == Append(c.replies, IF cmd = Sentinel THEN "echo" ELSE "reply")
           d == [c EXCEPT !.mode = m, !.replies = all]
<1>1. Answer(c, cmd) = d
  BY DEF Answer
<1>2. /\ d = [i \in DOMAIN c |-> d[i]] /\ DOMAIN c = {"err", "pending", "replies", "mode"}
      /\ d.err = c.err /\ d.pending = c.pending /\ d.replies = all /\ d.mode = m
  BY DEF Traffic
<1> HIDE DEF d, m, all
<1>3. d = [err |-> c.err, pending |-> c.pending, replies |-> all, mode |-> m]
  BY <1>2
<1> QED BY <1>1, <1>3 DEF m, all

\* Send counts its reply as pending.
LEMMA OfSend ==
  ASSUME NEW c \in Traffic, NEW cmd
  PROVE  LET reply == IF cmd = Sentinel THEN "echo" ELSE "reply"
         IN  Send(c, cmd) = [err |-> c.err, pending |-> c.pending + 1,
                             replies |-> Append(c.replies, reply),
                             mode |-> ModeAfter(c.mode, cmd)]
<1> DEFINE d == [c EXCEPT !.pending = @ + 1]
<1>1. d \in Traffic
  BY Fields DEF Traffic
<1>2. d.err = c.err /\ d.pending = c.pending + 1 /\ d.replies = c.replies /\ d.mode = c.mode
  BY DEF Traffic
<1>3. Send(c, cmd) = Answer(d, cmd)
  BY DEF Send
<1> HIDE DEF d
<1> QED BY <1>1, <1>2, <1>3, OfAnswer

\* Do reads what was pending and its own reply.
LEMMA OfDo ==
  ASSUME NEW c \in Traffic, NEW cmd, cmd # Sentinel
  PROVE  Do(c, cmd) = [err |-> c.err, pending |-> 0,
                       replies |-> Skip(Append(c.replies, "reply"), c.pending + 1),
                       mode |-> ModeAfter(c.mode, cmd)]
<1> DEFINE a == Answer(c, cmd)
<1>1. a = [err |-> c.err, pending |-> c.pending, replies |-> Append(c.replies, "reply"),
           mode |-> ModeAfter(c.mode, cmd)]
  BY OfAnswer
<1>2. Do(c, cmd) = [a EXCEPT !.pending = 0, !.replies = Skip(a.replies, c.pending + 1)]
  BY DEF Do
<1> HIDE DEF a
<1> QED BY <1>1, <1>2

\* What is left after n replies are read.
LEMMA SkipOf ==
  ASSUME NEW S, NEW s \in Seq(S), NEW n \in Nat
  PROVE  /\ Skip(s, n) \in Seq(S)
         /\ Len(Skip(s, n)) = (IF n < Len(s) THEN Len(s) - n ELSE 0)
         /\ \A i \in 1 .. Len(Skip(s, n)) : Skip(s, n)[i] = s[n + i] /\ n + i \in 1 .. Len(s)
         /\ n >= Len(s) => Skip(s, n) = <<>>
<1>1. Len(s) \in Nat /\ \A i \in n + 1 .. Len(s) : s[i] \in S
  BY LenProperties
<1>2. /\ SubSeq(s, n + 1, Len(s)) \in Seq(S)
      /\ Len(SubSeq(s, n + 1, Len(s))) = IF n + 1 <= Len(s) THEN Len(s) - (n + 1) + 1 ELSE 0
      /\ \A i \in 1 .. Len(s) - (n + 1) + 1 : SubSeq(s, n + 1, Len(s))[i] = s[n + 1 + i - 1]
  BY <1>1, SubSeqProperties
<1>3. n >= Len(s) => SubSeq(s, n + 1, Len(s)) = <<>>
  BY <1>1, SubSeqEmpty
<1> DEFINE k == Skip(s, n)
<1>4. k = SubSeq(s, n + 1, Len(s))
  BY DEF Skip
<1> HIDE DEF k
<1>5. /\ k \in Seq(S) /\ Len(k) = (IF n < Len(s) THEN Len(s) - n ELSE 0)
      /\ n >= Len(s) => k = <<>>
  BY <1>1, <1>2, <1>3, <1>4
<1>6. ASSUME NEW i \in 1 .. Len(k) PROVE k[i] = s[n + i] /\ n + i \in 1 .. Len(s)
  <2>1. n < Len(s) /\ Len(k) = Len(s) - n
    BY <1>1, <1>5
  <2>2. i \in 1 .. Len(s) - (n + 1) + 1 /\ n + 1 + i - 1 = n + i /\ n + i \in 1 .. Len(s)
    BY <1>1, <2>1
  <2> QED BY <1>2, <1>4, <2>2
<1> QED BY <1>5, <1>6 DEF k

-----------------------------------------------------------------------------
(* The exchanges of a user. *)

\* A command leaves its reply, pending, behind those there are.
LEMMA SendReplies ==
  ASSUME NEW t \in Traffic, NEW marks, RepliesMarked(t, marks), NEW cmd, cmd # Sentinel
  PROVE  RepliesMarked(Send(t, cmd), marks)
<1> DEFINE s == Send(t, cmd)
<1>1. s.pending = t.pending + 1 /\ s.replies = Append(t.replies, "reply")
  BY OfSend
<1>2. t.pending \in Nat /\ t.replies \in Seq(Reply) /\ Len(t.replies) \in Nat
  BY Fields
<1>3. /\ Len(Append(t.replies, "reply")) = Len(t.replies) + 1
      /\ \A i \in 1 .. Len(t.replies) : Append(t.replies, "reply")[i] = t.replies[i]
      /\ Append(t.replies, "reply")[Len(t.replies) + 1] = "reply"
  BY <1>2, AppendProperties DEF Reply
<1> HIDE DEF s
<1>4. Len(s.replies) = Len(t.replies) + 1
  BY <1>1, <1>3
<1>5. \A i \in 1 .. Len(s.replies) : s.replies[i] # "echo"
  BY <1>1, <1>2, <1>3, <1>4 DEF RepliesMarked
<1> QED BY <1>1, <1>2, <1>4, <1>5 DEF RepliesMarked, s

\* A Send is known by its mark and its pending reply.
LEMMA SendNoticed ==
  ASSUME NEW t \in Traffic, ~t.err, NEW marks \in SUBSET State, NEW cmd \in Command,
         Expected(t.mode, cmd), Noticed(t, marks)
  PROVE  Noticed(Send(t, cmd), Noted(marks, cmd))
<1> DEFINE s == Send(t, cmd)
           noted == Noted(marks, cmd)
<1>1. cmd # Sentinel
  BY SentinelAssumption
<1>2. s.mode = ModeAfter(t.mode, cmd)
  BY OfSend
<1>3. SUFFICES ASSUME "monitor" \notin noted
               PROVE  ModeMarked(s.mode, noted) /\ RepliesMarked(s, noted)
  BY DEF Noticed
<1>4. ModeMarked(t.mode, marks) /\ RepliesMarked(t, marks) /\ t.mode \in SUBSET Mode
  BY <1>3, MarksStay, Fields DEF Noticed
<1>5. ModeMarked(s.mode, noted)
  BY <1>2, <1>3, <1>4, ModeStaysMarked
<1>6. RepliesMarked(s, noted)
  <2>1. RepliesMarked(s, marks)
    BY <1>1, <1>4, SendReplies
  <2> QED BY <2>1, MarksStay DEF RepliesMarked
<1> QED BY <1>5, <1>6

\* A Do is known by its mark, and leaves less behind.
LEMMA DoNoticed ==
  ASSUME NEW t \in Traffic, ~t.err, NEW marks \in SUBSET State, NEW cmd \in Command,
         Expected(t.mode, cmd), Noticed(t, marks)
  PROVE  Noticed(Do(t, cmd), Noted(marks, cmd))
<1> DEFINE s == Do(t, cmd)
           all == Append(t.replies, "reply")
<1>1. s = [err |-> t.err, pending |-> 0, replies |-> Skip(all, t.pending + 1),
           mode |-> ModeAfter(t.mode, cmd)]
  BY OfDo, SentinelAssumption
<1>2. SUFFICES ASSUME "monitor" \notin Noted(marks, cmd)
               PROVE  /\ ModeMarked(s.mode, Noted(marks, cmd))
                      /\ RepliesMarked(s, Noted(marks, cmd))
  BY DEF Noticed
<1>3. ModeMarked(t.mode, marks) /\ RepliesMarked(t, marks)
  BY <1>2, MarksStay DEF Noticed
<1>4. /\ t.pending \in Nat /\ t.replies \in Seq(Reply) /\ t.mode \in SUBSET Mode
      /\ Len(t.replies) \in Nat
  BY Fields
<1>5. ModeMarked(s.mode, Noted(marks, cmd))
  BY <1>1, <1>2, <1>3, <1>4, ModeStaysMarked
<1>6. /\ all \in Seq(Reply)
      /\ Len(all) = Len(t.replies) + 1
      /\ \A i \in 1 .. Len(t.replies) : all[i] = t.replies[i]
      /\ all[Len(t.replies) + 1] = "reply"
  BY <1>4, AppendProperties DEF Reply
<1> HIDE DEF all
<1>7. \A i \in 1 .. Len(all) : all[i] # "echo"
  BY <1>3, <1>4, <1>6 DEF RepliesMarked
<1>8. /\ Len(Skip(all, t.pending + 1)) =
           IF t.pending + 1 < Len(all) THEN Len(all) - (t.pending + 1) ELSE 0
      /\ \A i \in 1 .. Len(Skip(all, t.pending + 1)) :
           /\ Skip(all, t.pending + 1)[i] = all[t.pending + 1 + i]
           /\ t.pending + 1 + i \in 1 .. Len(all)
  <2>1. t.pending + 1 \in Nat
    BY <1>4
  <2> QED BY <1>6, <2>1, SkipOf
<1>9. RepliesMarked(s, Noted(marks, cmd))
  <2>1. s.pending = 0 /\ s.replies = Skip(all, t.pending + 1)
    BY <1>1
  <2> HIDE DEF s
  <2>2. \A i \in 1 .. Len(s.replies) : s.replies[i] # "echo"
    BY <1>7, <1>8, <2>1
  <2>3. Len(s.replies) \in Nat /\ (t.pending = Len(t.replies) => Len(s.replies) = 0)
    BY <1>4, <1>6, <1>8, <2>1
  <2> QED BY <1>3, <1>4, <2>1, <2>2, <2>3, MarksStay DEF RepliesMarked
<1> QED BY <1>5, <1>9

\* A Receive leaves fewer replies, and as many fewer pending.
LEMMA ReceiveNoticed ==
  ASSUME NEW t \in Traffic, t.replies # <<>>, NEW marks, Noticed(t, marks)
  PROVE  Noticed(Receive(t), marks)
<1> DEFINE s == Receive(t)
<1>1. /\ s.err = t.err /\ s.mode = t.mode /\ s.replies = Tail(t.replies)
      /\ s.pending = Less(t.pending, 1)
  BY DEF Receive, Traffic
<1>2. t.pending \in Nat /\ t.replies \in Seq(Reply) /\ Len(t.replies) \in Nat \ {0}
  BY Fields, EmptySeq
<1>3. /\ Len(Tail(t.replies)) = Len(t.replies) - 1
      /\ \A i \in 1 .. Len(Tail(t.replies)) : Tail(t.replies)[i] = t.replies[i + 1]
  BY <1>2, HeadTailProperties
<1> HIDE DEF s
<1>4. RepliesMarked(t, marks) => RepliesMarked(s, marks)
  <2> SUFFICES ASSUME RepliesMarked(t, marks)
               PROVE  RepliesMarked(s, marks)
    OBVIOUS
  <2>1. \A i \in 1 .. Len(s.replies) : i + 1 \in 1 .. Len(t.replies) /\ s.replies[i] # "echo"
    BY <1>1, <1>2, <1>3 DEF RepliesMarked
  <2> QED BY <1>1, <1>2, <1>3, <2>1 DEF RepliesMarked, Less
<1> QED BY <1>1, <1>4 DEF Noticed, s

\* A message that no command asked for comes on a connection whose marks tell of it.
LEMMA PushNoticed ==
  ASSUME NEW t \in Traffic, t.mode \cap {"channels", "patterns", "monitor"} # {}, NEW marks,
         Noticed(t, marks)
  PROVE  Noticed(Push(t), marks)
<1> DEFINE s == Push(t)
<1>1. /\ s.err = t.err /\ s.mode = t.mode /\ s.replies = Append(t.replies, "message")
      /\ s.pending = t.pending
  BY DEF Push, Traffic
<1>2. t.pending \in Nat /\ t.replies \in Seq(Reply) /\ Len(t.replies) \in Nat
  BY Fields
<1>3. /\ Len(Append(t.replies, "message")) = Len(t.replies) + 1
      /\ \A i \in 1 .. Len(t.replies) : Append(t.replies, "message")[i] = t.replies[i]
      /\ Append(t.replies, "message")[Len(t.replies) + 1] = "message"
  BY <1>2, AppendProperties DEF Reply
<1>4. ModeMarked(t.mode, marks) => "subscribe" \in marks
  BY DEF ModeMarked, Subscribed
<1> HIDE DEF s
<1>5. ModeMarked(t.mode, marks) /\ RepliesMarked(t, marks) => RepliesMarked(s, marks)
  <2> SUFFICES ASSUME ModeMarked(t.mode, marks), RepliesMarked(t, marks)
               PROVE  RepliesMarked(s, marks)
    OBVIOUS
  <2>1. \A i \in 1 .. Len(s.replies) : s.replies[i] # "echo"
    BY <1>1, <1>2, <1>3 DEF RepliesMarked
  <2> QED BY <1>1, <1>2, <1>3, <1>4, <2>1 DEF RepliesMarked
<1> QED BY <1>1, <1>5 DEF Noticed, s

-----------------------------------------------------------------------------
(* What Close sends leaves the connection as new, if it is kept. *)

\* What is left of a connection in no mode once its replies are read.
LEMMA ReadUp ==
  ASSUME NEW c \in Traffic, ~c.err, c.mode = {}
  PROVE  [c EXCEPT !.pending = 0, !.replies = <<>>] = Fresh
<1> DEFINE d == [c EXCEPT !.pending = 0, !.replies = <<>>]
<1>1. /\ d = [i \in DOMAIN c |-> d[i]] /\ DOMAIN c = {"err", "pending", "replies", "mode"}
      /\ d.err = c.err /\ c.err = FALSE /\ d.pending = 0 /\ d.replies = <<>> /\ d.mode = {}
  BY DEF Traffic
<1> HIDE DEF d
<1>2. d = [err |-> FALSE, pending |-> 0, replies |-> <<>>, mode |-> {}]
  BY <1>1
<1> QED BY <1>2 DEF d, Fresh

\* DISCARD or UNWATCH ends what there is to end of a transaction.
LEMMA TransactionEnds ==
  ASSUME NEW t \in Traffic, ~t.err, NEW marks \in SUBSET State,
         ModeMarked(t.mode, marks), RepliesMarked(t, marks)
  PROVE  LET e == EndTransaction(t, marks)
         IN  /\ e \in Traffic /\ ~e.err /\ RepliesMarked(e, marks)
             /\ e.mode \cap {"watch", "multi", "monitor"} = {}
             /\ Subscribed(e.mode) => "subscribe" \in marks
<1> DEFINE e == EndTransaction(t, marks)
<1>0. /\ "monitor" \notin t.mode /\ t.mode \in SUBSET Mode
      /\ Subscribed(t.mode) => "subscribe" \in marks /\ t.mode \cap {"watch", "multi"} = {}
  BY Fields DEF ModeMarked
<1>1. ASSUME NEW cmd \in {"DISCARD", "UNWATCH"}, e = Send(t, cmd),
             cmd = "UNWATCH" => "multi" \notin t.mode
      PROVE  /\ e \in Traffic /\ ~e.err /\ RepliesMarked(e, marks)
             /\ e.mode \cap {"watch", "multi", "monitor"} = {}
             /\ Subscribed(e.mode) => "subscribe" \in marks
  <2>1. cmd # Sentinel
    BY DEF Sentinel
  <2>2. e \in Traffic /\ RepliesMarked(e, marks)
    BY <1>1, <2>1, SendType, SendReplies
  <2>3. e.err = t.err /\ e.mode = ModeAfter(t.mode, cmd)
    BY <1>1, OfSend
  <2>4. CASE Subscribed(t.mode)
    <3>1. ModeAfter(t.mode, cmd) = t.mode
      BY <2>4 DEF ModeAfter, Ignored, Resubscribes
    <3> QED BY <1>0, <2>2, <2>3, <2>4, <3>1
  <2>5. CASE ~Subscribed(t.mode) /\ cmd = "DISCARD"
    <3>1. ModeAfter(t.mode, cmd) = t.mode \ {"watch", "multi"}
      BY <2>5 DEF ModeAfter, Ignored
    <3> QED BY <1>0, <2>2, <2>3, <2>5, <3>1 DEF Subscribed
  <2>6. CASE ~Subscribed(t.mode) /\ cmd = "UNWATCH"
    <3>1. ModeAfter(t.mode, cmd) = t.mode \ {"watch"}
      BY <1>1, <2>6 DEF ModeAfter, Ignored
    <3> QED BY <1>0, <1>1, <2>2, <2>3, <2>6, <3>1 DEF Subscribed
  <2> QED BY <2>4, <2>5, <2>6
<1>2. CASE "multi" \in marks
  <2>1. e = Send(t, "DISCARD")
    BY <1>2 DEF EndTransaction
  <2> HIDE DEF e
  <2>2. "DISCARD" \in {"DISCARD", "UNWATCH"} /\ "DISCARD" # "UNWATCH"
    OBVIOUS
  <2> QED BY <1>1, <2>1, <2>2 DEF e
<1>3. CASE "multi" \notin marks /\ "watch" \in marks
  <2>1. e = Send(t, "UNWATCH") /\ "multi" \notin t.mode
    BY <1>3 DEF EndTransaction, ModeMarked
  <2> HIDE DEF e
  <2> QED BY <1>1, <2>1 DEF e
<1>4. CASE "multi" \notin marks /\ "watch" \notin marks
  <2>1. e = t
    BY <1>4 DEF EndTransaction
  <2> QED BY <1>0, <1>4, <2>1 DEF ModeMarked
<1> QED BY <1>2, <1>3, <1>4

\* UNSUBSCRIBE and PUNSUBSCRIBE end the subscriptions; the echo is the last reply.
LEMMA SubscriptionsEnd ==
  ASSUME NEW c \in Traffic, ~c.err, NEW marks, RepliesMarked(c, marks),
         c.mode \cap {"watch", "multi", "monitor"} = {}
  PROVE  ReceiveEcho(Send(Send(Send(c, "UNSUBSCRIBE"), "PUNSUBSCRIBE"), Sentinel)) = Fresh
<1> DEFINE d == Send(c, "UNSUBSCRIBE")
           g == Send(d, "PUNSUBSCRIBE")
           s == Send(g, Sentinel)
<1>1. "UNSUBSCRIBE" # Sentinel /\ "PUNSUBSCRIBE" # Sentinel /\ Sentinel \notin Resubscribes
  BY DEF Sentinel, Resubscribes
<1>2. /\ d \in Traffic /\ RepliesMarked(d, marks)
      /\ d.err = c.err /\ d.mode = ModeAfter(c.mode, "UNSUBSCRIBE")
  BY <1>1, SendType, SendReplies, OfSend
<1> HIDE DEF d
<1>3. /\ g \in Traffic /\ RepliesMarked(g, marks)
      /\ g.err = d.err /\ g.mode = ModeAfter(d.mode, "PUNSUBSCRIBE")
  BY <1>1, <1>2, SendType, SendReplies, OfSend
<1> HIDE DEF g
<1>4. s = [err |-> g.err, pending |-> g.pending + 1, replies |-> Append(g.replies, "echo"),
           mode |-> ModeAfter(g.mode, Sentinel)]
  BY <1>3, OfSend
<1>5. ModeAfter(g.mode, Sentinel) = {}
  <2>1. d.mode = c.mode \ {"channels"}
    BY <1>2 DEF ModeAfter, Ignored, Resubscribes
  <2>2. g.mode = d.mode \ {"patterns"}
    BY <1>3 DEF ModeAfter, Ignored, Resubscribes
  <2>3. g.mode = {}
    BY <2>1, <2>2, Fields DEF Mode
  <2>4. ModeAfter({}, Sentinel) = {}
    BY DEF ModeAfter, Ignored, Subscribed, Sentinel
  <2> QED BY <2>3, <2>4
<1>0. s \in Traffic
  BY <1>3, SendType
<1> DEFINE all == Append(g.replies, "echo")
           n == Len(g.replies) + 1
<1>6. g.pending \in Nat /\ g.replies \in Seq(Reply) /\ Len(g.replies) \in Nat
  BY <1>3, Fields
<1>7. /\ all \in Seq(Reply) /\ Len(all) = n /\ all[n] = "echo"
      /\ \A i \in 1 .. Len(g.replies) : all[i] = g.replies[i]
  BY <1>6, AppendProperties DEF Reply
<1>8. n \in 1 .. Len(all) /\ n \in Nat /\ n >= Len(all) /\ g.pending + 1 <= n
  BY <1>3, <1>6, <1>7 DEF RepliesMarked
<1>9. \A i \in 1 .. Len(all) : all[i] = "echo" => i = n
  BY <1>3, <1>6, <1>7 DEF RepliesMarked
<1> HIDE DEF all, n, s
<1>10. UpToEcho(all) = n
  BY <1>7, <1>8, <1>9 DEF UpToEcho
<1>11. s.replies = all /\ s.pending = g.pending + 1 /\ s.mode = {} /\ ~s.err
  BY <1>2, <1>3, <1>4, <1>5 DEF all
<1>12. Skip(all, n) = <<>> /\ Less(g.pending + 1, n) = 0
  BY <1>6, <1>7, <1>8, SkipOf DEF Less
<1>13. ReceiveEcho(s) = [s EXCEPT !.pending = 0, !.replies = <<>>]
  BY <1>10, <1>11, <1>12 DEF ReceiveEcho
<1>14. [s EXCEPT !.pending = 0, !.replies = <<>>] = Fresh
  BY <1>0, <1>11, ReadUp
<1> QED BY <1>13, <1>14 DEF s, g, d

\* A connection that Close cleans and put keeps is as good as new.
LEMMA CleanedIsFresh ==
  ASSUME NEW t \in Traffic, ~t.err, NEW marks \in SUBSET State, "monitor" \notin marks,
         Noticed(t, marks)
  PROVE  Cleaned(t, marks) = Fresh
<1> DEFINE e == EndTransaction(t, marks)
<1>1. /\ e \in Traffic /\ ~e.err /\ RepliesMarked(e, marks)
      /\ e.mode \cap {"watch", "multi", "monitor"} = {}
      /\ Subscribed(e.mode) => "subscribe" \in marks
  BY TransactionEnds DEF Noticed
<1>2. Cleaned(t, marks) = DoPending(EndSubscriptions(e, marks))
  BY DEF Cleaned
<1> HIDE DEF e
<1>3. CASE "subscribe" \in marks
  <2>1. EndSubscriptions(e, marks) = Fresh
    BY <1>1, <1>3, SubscriptionsEnd DEF EndSubscriptions
  <2>2. Fresh.pending = 0 /\ Fresh.replies = <<>>
    BY DEF Fresh
  <2>3. Skip(<<>>, 0) = <<>>
    <3> DEFINE s == <<>>
    <3>1. s \in Seq(Reply) /\ 0 \in Nat /\ 0 >= Len(s)
      BY EmptyList, EmptySeq
    <3> HIDE DEF s
    <3>2. Skip(s, 0) = <<>>
      BY <3>1, SkipOf, SMTT(30)
    <3> QED BY <3>2 DEF s
  <2>4. DoPending(Fresh) = [Fresh EXCEPT !.pending = 0, !.replies = <<>>]
    BY <2>2, <2>3 DEF DoPending
  <2> QED BY <1>2, <2>1, <2>4 DEF Fresh
<1>4. CASE "subscribe" \notin marks
  <2>1. EndSubscriptions(e, marks) = e
    BY <1>4 DEF EndSubscriptions
  <2>2. e.mode = {} /\ e.err = FALSE
    BY <1>1, <1>4, Fields DEF Subscribed, Mode
  <2>3. e.pending = Len(e.replies) /\ e.replies \in Seq(Reply) /\ Len(e.replies) \in Nat
    BY <1>1, <1>4, Fields DEF RepliesMarked
  <2>4. Skip(e.replies, e.pending) = <<>>
    BY <2>3, SkipOf
  <2>5. DoPending(e) = [e EXCEPT !.pending = 0, !.replies = <<>>]
    BY <2>4 DEF DoPending
  <2> QED BY <1>1, <1>2, <2>1, <2>2, <2>5, ReadUp
<1> QED BY <1>3, <1>4

-----------------------------------------------------------------------------
(* What the steps of the pool leave. *)

\* A user u goes on; the connections of the others are as they were.
LEMMA FreshMoved ==
  ASSUME Typed, OneOwner, FreshInv, NEW u \in User, NEW to, NEW c, NEW marks,
         pc' = [pc EXCEPT ![u] = to], conn' = [conn EXCEPT ![u] = c],
         state' = [state EXCEPT ![u] = marks],
         \A d \in ToSet(idle') : traffic'[d] = Fresh,
         \A v \in User \ {u} : conn[v] # None => traffic'[conn[v]] = traffic[conn[v]],
         to \in {"pruning", "testing"} => traffic'[c] = Fresh,
         to = "using" => Noticed(traffic'[c], marks)
  PROVE  FreshInv'
<1>1. IdleIsFresh'
  BY DEF IdleIsFresh
<1>2. ASSUME NEW v \in User
      PROVE  /\ pc'[v] \in {"pruning", "testing"} => traffic'[conn'[v]] = Fresh
             /\ pc'[v] = "using" => Noticed(traffic'[conn'[v]], state'[v])
  <2>1. CASE v = u
    <3>1. pc'[v] = to /\ conn'[v] = c /\ state'[v] = marks
      BY <2>1 DEF Typed
    <3> QED BY <3>1
  <2>2. CASE v # u
    <3>1. pc'[v] = pc[v] /\ conn'[v] = conn[v] /\ state'[v] = state[v]
      BY <2>2 DEF Typed
    <3>2. pc[v] \in {"pruning", "testing", "using"} => traffic'[conn[v]] = traffic[conn[v]]
      BY <2>2 DEF OneOwner, Holding
    <3> QED BY <3>1, <3>2 DEF FreshInv
  <2> QED BY <2>1, <2>2
<1> QED BY <1>1, <1>2 DEF FreshInv

\* The connections of the others, and the idle ones, are not the one a user has in hand.
LEMMA Others ==
  ASSUME Typed, OneOwner, NEW u \in User
  PROVE  /\ \A v \in User \ {u} : conn[v] # None => conn[v] \in Conn /\ conn[v] # conn[u]
         /\ \A d \in ToSet(idle) : d \in Conn /\ d # conn[u] /\ d # None
BY Places, ConnAssumption DEF OneOwner

\* A look at the idle list, after the close of what the user had in hand.
LEMMA LookFresh ==
  ASSUME Typed, OneOwner, FreshInv, NEW u \in User, NEW act, NEW queue, NEW rounds,
         Look(u, act, queue, rounds), traffic' = Closed(conn[u])
  PROVE  FreshInv'
<1>1. /\ \A v \in User \ {u} : conn[v] # None => traffic'[conn[v]] = traffic[conn[v]]
      /\ \A d \in ToSet(idle) : traffic'[d] = Fresh
  BY FreshBroken, TrafficTyped, Others DEF FreshInv, IdleIsFresh
<1>2. CASE TakeIdle(u, act, queue, rounds)
  <2>1. PICK to \in {"testing", "using"} : Goes(u, to, Head(idle), rounds - 1)
    BY <1>2 DEF TakeIdle
  <2>2. idle # <<>> /\ idle' = Tail(idle) /\ idle \in Seq(Conn)
    BY <1>2 DEF TakeIdle, Typed
  <2>3. ToSet(idle) = ToSet(idle') \cup {Head(idle)}
    BY <2>2, TailOf
  <2>4. /\ \A d \in ToSet(idle') : traffic'[d] = Fresh
        /\ traffic'[Head(idle)] = Fresh /\ Noticed(traffic'[Head(idle)], {})
    BY <1>1, <2>3, FreshNoticed
  <2>5. /\ pc' = [pc EXCEPT ![u] = to] /\ conn' = [conn EXCEPT ![u] = Head(idle)]
        /\ state' = [state EXCEPT ![u] = {}]
    BY <2>1 DEF Goes
  <2> QED BY <1>1, <2>4, <2>5, FreshMoved
<1>3. CASE DialOrWait(u, act, queue, rounds)
  <2>1. PICK to \in {"out", "dialing", "waiting"} : Goes(u, to, None, 0)
    BY <1>3 DEF DialOrWait
  <2>2. /\ idle' = idle /\ to \notin {"pruning", "testing", "using"}
        /\ pc' = [pc EXCEPT ![u] = to] /\ conn' = [conn EXCEPT ![u] = None]
        /\ state' = [state EXCEPT ![u] = {}]
    BY <1>3, <2>1 DEF DialOrWait, Goes
  <2>3. \A d \in ToSet(idle') : traffic'[d] = Fresh
    BY <1>1, <2>2
  <2> QED BY <1>1, <2>2, <2>3, FreshMoved
<1> QED BY <1>2, <1>3 DEF Look

\* The idle connection to be pruned.
LEMMA PruneFresh ==
  ASSUME Typed, OneOwner, FreshInv, NEW u \in User, NEW rounds, Prune(u, rounds),
         traffic' = Closed(conn[u])
  PROVE  FreshInv'
<1>1. /\ \A v \in User \ {u} : conn[v] # None => traffic'[conn[v]] = traffic[conn[v]]
      /\ \A d \in ToSet(idle) : traffic'[d] = Fresh
  BY FreshBroken, TrafficTyped, Others DEF FreshInv, IdleIsFresh
<1>2. /\ idle # <<>> /\ idle' = Front(idle) /\ idle \in Seq(Conn)
      /\ pc' = [pc EXCEPT ![u] = "pruning"] /\ conn' = [conn EXCEPT ![u] = Last(idle)]
      /\ state' = [state EXCEPT ![u] = {}]
  BY DEF Prune, Goes, Typed
<1>3. ToSet(idle) = ToSet(idle') \cup {Last(idle)}
  BY <1>2, FrontOf
<1>4. (\A d \in ToSet(idle') : traffic'[d] = Fresh) /\ traffic'[Last(idle)] = Fresh
  BY <1>1, <1>3
<1> QED BY <1>1, <1>2, <1>4, FreshMoved

\* The steps of get, in the form GetStep takes them.
LEMMA GetFresh ==
  ASSUME PoolInv, FreshInv, NEW u \in User,
         Get(u) \/ GetPruned(u) \/ GetAwake(u) \/ TestFailed(u)
  PROVE  FreshInv'
<1>1. Typed /\ OneOwner
  BY DEF PoolInv
<1>2. traffic' = Closed(conn[u])
  <2>1. CASE GetPruned(u) \/ TestFailed(u)
    BY <2>1 DEF GetPruned, TestFailed
  <2>2. CASE Get(u) \/ GetAwake(u)
    <3>1. traffic' = traffic /\ pc[u] \notin Holding
      BY <2>2 DEF Get, GetAwake, Holding
    <3> QED BY <1>1, <3>1, InHand, ClosedNone
  <2> QED BY <2>1, <2>2
<1>3. \/ \E rounds : Prune(u, rounds)
      \/ \E act, queue, rounds : Look(u, act, queue, rounds)
  BY Zenon DEF Get, GetPruned, GetAwake, TestFailed
<1> QED BY <1>1, <1>2, <1>3, LookFresh, PruneFresh

\* A test that passed and a dial that did give the user a connection as good as new.
LEMMA ReadyFresh ==
  ASSUME PoolInv, FreshInv, NEW u \in User,
         TestPassed(u) \/ \E c \in Conn : Dialed(u, c)
  PROVE  FreshInv'
<1>1. Typed /\ OneOwner
  BY DEF PoolInv
<1>2. CASE TestPassed(u)
  <2>1. /\ idle' = idle /\ traffic' = traffic /\ traffic[conn[u]] = Fresh
        /\ pc' = [pc EXCEPT ![u] = "using"] /\ conn' = [conn EXCEPT ![u] = conn[u]]
        /\ state' = [state EXCEPT ![u] = {}]
    BY <1>2 DEF TestPassed, Goes, poolVars, FreshInv
  <2>2. \A d \in ToSet(idle') : traffic'[d] = Fresh
    BY <2>1 DEF FreshInv, IdleIsFresh
  <2> QED BY <1>1, <2>1, <2>2, FreshNoticed, FreshMoved
<1>3. ASSUME NEW c \in Conn, Dialed(u, c) PROVE FreshInv'
  <2>1. /\ idle' = idle /\ traffic' = [traffic EXCEPT ![c] = Fresh] /\ traffic[c] = None
        /\ pc' = [pc EXCEPT ![u] = "using"] /\ conn' = [conn EXCEPT ![u] = c]
        /\ state' = [state EXCEPT ![u] = {}]
    BY <1>3 DEF Dialed, Goes, poolVars
  <2>2. \A d \in Conn : traffic'[d] = IF d = c THEN Fresh ELSE traffic[d]
    BY <1>1, <2>1, FreshBroken, TrafficTyped
  <2>3. /\ \A d \in ToSet(idle') : traffic'[d] = Fresh
        /\ \A v \in User \ {u} : conn[v] # None => traffic'[conn[v]] = traffic[conn[v]]
    BY <1>1, <2>1, <2>2, Places DEF FreshInv, IdleIsFresh
  <2>4. traffic'[c] = Fresh
    BY <2>2
  <2> QED BY <1>1, <2>1, <2>3, <2>4, FreshNoticed, FreshMoved
<1> QED BY <1>2, <1>3

\* A dial that failed, and the close of what put did not keep.
LEMMA NothingLeft ==
  ASSUME PoolInv, FreshInv, NEW u \in User, DialFailed(u) \/ Discarded(u)
  PROVE  FreshInv'
<1>1. Typed /\ OneOwner
  BY DEF PoolInv
<1>2. /\ idle' = idle /\ pc' = [pc EXCEPT ![u] = "out"] /\ conn' = [conn EXCEPT ![u] = None]
      /\ state' = [state EXCEPT ![u] = {}]
      /\ traffic' = traffic \/ traffic' = Closed(conn[u])
  BY DEF DialFailed, Discarded, Goes, poolVars
<1>3. /\ \A v \in User \ {u} : conn[v] # None => traffic'[conn[v]] = traffic[conn[v]]
      /\ \A d \in ToSet(idle') : traffic'[d] = Fresh
  BY <1>1, <1>2, FreshBroken, TrafficTyped, Others DEF FreshInv, IdleIsFresh
<1> QED BY <1>1, <1>2, <1>3, FreshMoved

\* Close keeps a connection only if it is cleaned, and then it is as good as new.
LEMMA CloseFresh ==
  ASSUME PoolInv, FreshInv, NEW u \in User, Close(u)
  PROVE  FreshInv'
<1> DEFINE c == conn[u]
           force == StateLeft(state[u]) # {}
<1>1. Typed /\ OneOwner /\ idle \in Seq(Conn) /\ pc[u] = "using" /\ "using" \in Holding
  BY DEF PoolInv, Typed, Close, Holding
<1>2. /\ c \in Conn /\ traffic[c] \in Traffic /\ state[u] \in SUBSET State
      /\ Noticed(traffic[c], state[u])
  BY <1>1, InHand DEF FreshInv, Typed
<1>3. PICK t \in Traffic : /\ put(u, t, force) /\ traffic' = [traffic EXCEPT ![c] = t]
                           /\ t.err \/ (~traffic[c].err /\ t = Cleaned(traffic[c], state[u]))
  <2>1. Cleaned(traffic[c], state[u]) \in Traffic /\ Broken.err
    BY <1>2, CleanedType DEF Broken, Fresh
  <2> QED BY <2>1, FreshBroken DEF Close, GiveBack
<1>4. t.err \/ force \/ t = Fresh
  BY <1>2, <1>3, CleanedIsFresh DEF StateLeft
<1>5. /\ \A d \in Conn : traffic'[d] = IF d = c THEN t ELSE traffic[d]
      /\ \A v \in User \ {u} : conn[v] # None => traffic'[conn[v]] = traffic[conn[v]]
      /\ \A d \in ToSet(idle) : traffic'[d] = Fresh
  BY <1>1, <1>3, TrafficTyped, Others DEF FreshInv, IdleIsFresh
<1> DEFINE pushed == <<c>> \o idle
<1>6. pushed \in Seq(Conn) /\ pushed # <<>> /\ ToSet(pushed) = ToSet(idle) \cup {c}
  BY <1>1, <1>2, PushedOn
<1>7. /\ idle' = idle \/ (t = Fresh /\ idle' \in {pushed, Front(pushed)})
      /\ \E to \in {"discarding", "out"} : \E d : Goes(u, to, d, 0)
  BY <1>3, <1>4 DEF put, Release, Keep
<1> HIDE DEF force, pushed
<1>8. ToSet(Front(pushed)) \subseteq ToSet(pushed)
  BY <1>6, FrontOf
<1>9. PICK to \in {"discarding", "out"} : \E d : Goes(u, to, d, 0)
  BY <1>7
<1>12. PICK d : Goes(u, to, d, 0)
  BY <1>9
<1>10. \A e \in ToSet(idle') : traffic'[e] = Fresh
  BY <1>2, <1>5, <1>6, <1>7, <1>8
<1>11. /\ pc' = [pc EXCEPT ![u] = to] /\ conn' = [conn EXCEPT ![u] = d]
       /\ state' = [state EXCEPT ![u] = {}] /\ to \notin {"pruning", "testing", "using"}
  BY <1>9, <1>12 DEF Goes
<1> QED BY <1>1, <1>5, <1>10, <1>11, FreshMoved

\* Traffic on the connection in the hand of a user.
LEMMA TrafficFresh ==
  ASSUME Typed, OneOwner, FreshInv, NEW u \in User, pc[u] = "using", conn[u] \in Conn,
         NEW t \in Traffic, traffic' = [traffic EXCEPT ![conn[u]] = t],
         NEW marks, state' = [state EXCEPT ![u] = marks], Noticed(t, marks),
         idle' = idle, pc' = pc, conn' = conn
  PROVE  FreshInv'
<1>1. pc' = [pc EXCEPT ![u] = "using"] /\ conn' = [conn EXCEPT ![u] = conn[u]]
  BY DEF Typed
<1>2. \A d \in Conn : traffic'[d] = IF d = conn[u] THEN t ELSE traffic[d]
  BY TrafficTyped
<1>3. /\ \A v \in User \ {u} : conn[v] # None => traffic'[conn[v]] = traffic[conn[v]]
      /\ \A d \in ToSet(idle') : traffic'[d] = Fresh
  BY <1>2, Others DEF FreshInv, IdleIsFresh
<1>4. Noticed(traffic'[conn[u]], marks)
  BY <1>2
<1> DEFINE c == conn[u]
<1> HIDE DEF c
<1> QED BY <1>1, <1>3, <1>4, FreshMoved DEF c

\* Exchanges of a user: whatever is left on the connection, Close will know.
LEMMA ExchangeFresh ==
  ASSUME PoolInv, FreshInv, NEW u \in User, Exchanges(u)
  PROVE  FreshInv'
<1> DEFINE t == traffic[conn[u]]
           marks == state[u]
<1>1. /\ Typed /\ OneOwner /\ pc[u] = "using" /\ "using" \in Holding /\ ~t.err
      /\ state \in [User -> SUBSET State]
  BY DEF PoolInv, Typed, Exchanges, UserReceive, UserSend, UserDo, InUse, Holding
<1>2. conn[u] \in Conn /\ t \in Traffic /\ Noticed(t, marks) /\ marks \in SUBSET State
  BY <1>1, InHand DEF FreshInv
<1>3. ASSUME NEW s \in Traffic, Exchange(u, s), NEW noted, Noticed(s, noted),
             state' = [state EXCEPT ![u] = noted]
      PROVE  FreshInv'
  <2>1. PICK result \in {s, Broken} : traffic' = [traffic EXCEPT ![conn[u]] = result]
    BY <1>3 DEF Exchange
  <2>2. result \in Traffic /\ Noticed(result, noted)
    BY <1>3, FreshBroken, BrokenNoticed
  <2>3. idle' = idle /\ pc' = pc /\ conn' = conn
    BY <1>3 DEF Exchange, poolVars
  <2> QED BY <1>1, <1>2, <1>3, <2>1, <2>2, <2>3, TrafficFresh
<1>4. CASE UserReceive(u)
  <2>1. t.replies # <<>> /\ Exchange(u, Receive(t)) /\ state' = [state EXCEPT ![u] = marks]
    BY <1>1, <1>4 DEF UserReceive
  <2>2. Receive(t) \in Traffic /\ Noticed(Receive(t), marks)
    BY <1>2, <2>1, ReadTypes, ReceiveNoticed
  <2> QED BY <1>3, <2>1, <2>2
<1>5. ASSUME NEW cmd \in Command, UserSend(u, cmd) \/ UserDo(u, cmd)
      PROVE  FreshInv'
  <2>1. /\ Expected(t.mode, cmd)
        /\ state' = [state EXCEPT ![u] = Noted(marks, cmd)]
        /\ Exchange(u, Send(t, cmd)) \/ Exchange(u, Do(t, cmd))
    BY <1>5 DEF UserSend, UserDo
  <2>2. Send(t, cmd) \in Traffic /\ Do(t, cmd) \in Traffic
    BY <1>2, SendType, ReadTypes
  <2>3. Noticed(Send(t, cmd), Noted(marks, cmd)) /\ Noticed(Do(t, cmd), Noted(marks, cmd))
    BY <1>1, <1>2, <2>1, SendNoticed, DoNoticed
  <2> QED BY <1>3, <2>1, <2>2, <2>3
<1> QED BY <1>4, <1>5 DEF Exchanges

\* What is idle, pruned or tested is in no mode in which messages come of themselves.
LEMMA PushFresh ==
  ASSUME PoolInv, FreshInv, NEW c \in Conn, ServerPush(c)
  PROVE  FreshInv'
<1>1. /\ Typed /\ OneOwner /\ traffic[c] \in Traffic /\ Push(traffic[c]) \in Traffic
      /\ traffic[c].mode \cap {"channels", "patterns", "monitor"} # {}
      /\ traffic' = [traffic EXCEPT ![c] = Push(traffic[c])]
      /\ idle' = idle /\ pc' = pc /\ conn' = conn /\ state' = state
  BY ReadTypes DEF ServerPush, PoolInv, Typed, poolVars, userVars
<1>2. traffic[c] # Fresh
  BY <1>1 DEF Fresh
<1>3. CASE \E u \in User : pc[u] = "using" /\ conn[u] = c
  <2>1. PICK u \in User : pc[u] = "using" /\ conn[u] = c
    BY <1>3
  <2>2. Noticed(Push(traffic[c]), state[u])
    BY <1>1, <2>1, PushNoticed DEF FreshInv
  <2>3. state' = [state EXCEPT ![u] = state[u]]
    BY <1>1 DEF Typed
  <2> QED BY <1>1, <2>1, <2>2, <2>3, TrafficFresh
<1>4. CASE ~\E u \in User : pc[u] = "using" /\ conn[u] = c
  <2>1. \A d \in Conn : traffic'[d] = IF d = c THEN Push(traffic[c]) ELSE traffic[d]
    BY <1>1, TrafficTyped
  <2>2. IdleIsFresh'
    BY <1>1, <1>2, <2>1, Places DEF FreshInv, IdleIsFresh
  <2>3. ASSUME NEW v \in User, pc[v] \in {"pruning", "testing", "using"}
        PROVE  traffic'[conn[v]] = traffic[conn[v]]
    <3>1. conn[v] \in Conn /\ conn[v] # c
      BY <1>2, <1>4, <2>3, InHand DEF FreshInv, Holding
    <3> QED BY <2>1, <3>1
  <2> QED BY <1>1, <2>2, <2>3 DEF FreshInv
<1> QED BY <1>3, <1>4

\* Closing the pool touches no connection that is idle or in a hand.
LEMMA PoolCloseFresh ==
  ASSUME PoolInv, FreshInv, PoolClose \/ CloseLeftover
  PROVE  FreshInv'
<1>1. Typed /\ OneOwner /\ pc' = pc /\ conn' = conn /\ state' = state
  BY DEF PoolInv, PoolClose, CloseLeftover, userVars
<1>2. CASE PoolClose
  BY <1>1, <1>2, EmptyList DEF PoolClose, FreshInv, IdleIsFresh
<1>3. CASE CloseLeftover
  <2>1. idle' = idle /\ traffic' = Closed(Head(leftover)) /\ Head(leftover) \in ToSet(leftover)
    BY <1>1, <1>3, TailOf DEF CloseLeftover, Typed
  <2>2. \A d \in Conn : d # Head(leftover) => traffic'[d] = traffic[d]
    BY <1>1, <2>1, FreshBroken, TrafficTyped
  <2>3. \A d \in ToSet(idle) : d \in Conn /\ d # Head(leftover)
    BY <1>1, <2>1, Places DEF OneOwner
  <2>4. \A v \in User : pc[v] \in {"pruning", "testing", "using"} =>
          conn[v] \in Conn /\ conn[v] # Head(leftover)
    BY <1>1, <2>1, InHand DEF OneOwner, Holding
  <2> QED BY <1>1, <2>1, <2>2, <2>3, <2>4 DEF FreshInv, IdleIsFresh
<1> QED BY <1>2, <1>3

\* A new pool has no connection that is not as good as new.
LEMMA FreshInvInit == Init => FreshInv
BY EmptyList DEF Init, FreshInv, IdleIsFresh

\* Every step keeps what is idle as good as new and what is used known.
LEMMA FreshInvStep == PoolInv /\ FreshInv /\ [Next]_vars => FreshInv'
<1> SUFFICES ASSUME PoolInv, FreshInv, [Next]_vars PROVE FreshInv'
  OBVIOUS
<1>1. CASE UNCHANGED vars
  BY <1>1 DEF vars, poolVars, userVars, FreshInv, IdleIsFresh
<1>2. ASSUME NEW u \in User, UserNext(u) PROVE FreshInv'
  BY <1>2, GetFresh, ReadyFresh, NothingLeft, CloseFresh, ExchangeFresh
     DEF UserNext, GoesOn, GetGoesOn, DialReturns
<1> QED BY <1>1, <1>2, PushFresh, PoolCloseFresh DEF Next

\* Both invariants hold in every reachable state.
LEMMA FreshInvariant == Spec => [](PoolInv /\ FreshInv)
<1>1. Init => PoolInv /\ FreshInv
  BY PoolInvInit, FreshInvInit
<1>2. (PoolInv /\ FreshInv) /\ [Next]_vars => (PoolInv /\ FreshInv)'
  BY PoolInvStep, FreshInvStep
<1> QED BY <1>1, <1>2, PTL DEF Spec

\* A pooled connection goes back to the idle list as good as new, whatever its user did
\* with it: a transaction, a watch, a subscription, commands without their replies.
THEOREM PoolIdleIsFresh == Spec => []IdleIsFresh
<1>1. FreshInv => IdleIsFresh
  BY DEF FreshInv
<1> QED BY <1>1, FreshInvariant, PTL

-----------------------------------------------------------------------------
(* The refinement: each step of the pool is one of PoolPromise, or none. *)

\* With one owner, the holder of a connection is the user that uses it.
LEMMA HolderIs ==
  ASSUME OneOwner, NEW c \in Conn
  PROVE  /\ holder[c] \in User \cup {None}
         /\ \A u \in User : holder[c] = u <=> pc[u] = "using" /\ conn[u] = c
<1>1. \A u, v \in User : conn[u] = c /\ conn[v] = c => u = v
  BY ConnAssumption DEF OneOwner
<1> QED BY <1>1, ConnAssumption DEF holder

\* The same after a step.
LEMMA HolderBecomes ==
  ASSUME OneOwner', NEW c \in Conn
  PROVE  /\ holder'[c] \in User \cup {None}
         /\ \A u \in User : holder'[c] = u <=> pc'[u] = "using" /\ conn'[u] = c
<1>1. \A u, v \in User : conn'[u] = c /\ conn'[v] = c => u = v
  BY ConnAssumption DEF OneOwner
<1> QED BY <1>1, ConnAssumption DEF holder

\* The holders are compared one by one.
LEMMA HoldersOf ==
  /\ holder = [c \in Conn |-> holder[c]] /\ holder' = [c \in Conn |-> holder'[c]]
  /\ clean = [c \in Conn |-> clean[c]] /\ clean' = [c \in Conn |-> clean'[c]]
  /\ \A c \in Conn : /\ clean[c] = (traffic[c] \in {None, Fresh})
                     /\ clean'[c] = (traffic'[c] \in {None, Fresh})
BY DEF holder, clean

\* Nobody gets or gives back a connection.
LEMMA HoldersStay ==
  ASSUME OneOwner, OneOwner',
         \A u \in User, c \in Conn :
           pc'[u] = "using" /\ conn'[u] = c <=> pc[u] = "using" /\ conn[u] = c
  PROVE  holder' = holder
<1>1. \A c \in Conn : holder'[c] = holder[c]
  BY HolderIs, HolderBecomes, ConnAssumption
<1> QED BY <1>1, HoldersOf

\* One connection goes from nobody to u, or from u to nobody.
LEMMA HolderChanges ==
  ASSUME OneOwner, OneOwner', NEW c \in Conn,
         \A d \in Conn \ {c}, v \in User :
           pc'[v] = "using" /\ conn'[v] = d <=> pc[v] = "using" /\ conn[v] = d
  PROVE  holder' = [holder EXCEPT ![c] = holder'[c]]
<1>1. \A d \in Conn \ {c} : holder'[d] = holder[d]
  BY HolderIs, HolderBecomes, ConnAssumption
<1> QED BY <1>1, HoldersOf

\* What is as good as new, or closed, stays so, or one connection changes.
LEMMA CleanStays ==
  ASSUME \A d \in Conn : traffic'[d] \in {None, Fresh} <=> traffic[d] \in {None, Fresh}
  PROVE  clean' = clean
BY DEF clean

\* One connection changes.
LEMMA CleanChanges ==
  ASSUME NEW c \in Conn, \A d \in Conn \ {c} : traffic'[d] = traffic[d]
  PROVE  /\ clean' = [clean EXCEPT ![c] = clean'[c]] /\ clean'[c] \in BOOLEAN
         /\ traffic'[c] = None => clean'[c] = TRUE
<1>1. \A d \in Conn \ {c} : clean'[d] = clean[d]
  BY DEF clean
<1>2. clean'[c] \in BOOLEAN
  BY DEF clean
<1>3. clean' = [clean EXCEPT ![c] = clean'[c]]
  BY <1>1, HoldersOf
<1>4. traffic'[c] = None => clean'[c] = TRUE
  BY DEF clean
<1> QED BY <1>2, <1>3, <1>4

\* The pool's step is a step of PoolPromise.
Kept == [Promise!Next]_<<holder, clean>>

\* A user that had no connection goes on, to one as good as new or to none; what is
\* closed on the way was as good as new.
LEMMA Borrows ==
  ASSUME Typed, OneOwner, OneOwner', NEW u \in User, pc[u] # "using", NEW to, NEW c,
         pc' = [pc EXCEPT ![u] = to], conn' = [conn EXCEPT ![u] = c],
         \A d \in Conn : traffic'[d] \in {None, Fresh} <=> traffic[d] \in {None, Fresh},
         to = "using" => c \in Conn /\ traffic'[c] = Fresh
  PROVE  Kept
<1>1. /\ \A v \in User : pc'[v] = (IF v = u THEN to ELSE pc[v])
      /\ \A v \in User : conn'[v] = (IF v = u THEN c ELSE conn[v])
  BY DEF Typed
<1>2. clean' = clean
  BY CleanStays
<1>3. CASE to # "using"
  <2>1. holder' = holder
    BY <1>1, <1>3, HoldersStay
  <2> QED BY <1>2, <2>1 DEF Kept
<1>4. CASE to = "using"
  <2>1. \A v \in User : ~(pc[v] = "using" /\ conn[v] = c)
    BY <1>1, <1>4, ConnAssumption DEF OneOwner
  <2>2. holder[c] = None /\ holder'[c] = u
    BY <1>1, <1>4, <2>1, HolderIs, HolderBecomes
  <2>3. \A d \in Conn : holder[d] # u
    BY HolderIs
  <2>4. holder' = [holder EXCEPT ![c] = u]
    <3>1. holder' = [holder EXCEPT ![c] = holder'[c]]
      BY <1>1, <1>4, HolderChanges
    <3> QED BY <2>2, <3>1
  <2>5. clean[c]
    BY <1>4 DEF clean
  <2>6. Promise!Borrow(u, c)
    BY <1>2, <2>2, <2>3, <2>4, <2>5 DEF Promise!Borrow
  <2> QED BY <1>4, <2>6 DEF Kept, Promise!Next
<1> QED BY <1>3, <1>4

\* Traffic on the connection a user has.
LEMMA Talks ==
  ASSUME Typed, OneOwner, OneOwner', NEW u \in User, pc[u] = "using", conn[u] \in Conn,
         pc' = pc, conn' = conn, \A d \in Conn \ {conn[u]} : traffic'[d] = traffic[d]
  PROVE  Kept
<1> DEFINE c == conn[u]
<1>1. holder' = holder /\ holder[c] = u
  BY HoldersStay, HolderIs
<1>2. clean' = [clean EXCEPT ![c] = clean'[c]] /\ clean'[c] \in BOOLEAN
  BY CleanChanges
<1>3. Promise!Talk(u, c)
  BY <1>1, <1>2 DEF Promise!Talk
<1> QED BY <1>3 DEF Kept, Promise!Next

\* A user gives its connection back, whatever becomes of it.
LEMMA GivesBack ==
  ASSUME Typed, OneOwner, OneOwner', NEW u \in User, pc[u] = "using", conn[u] \in Conn,
         NEW to, to # "using", NEW e, pc' = [pc EXCEPT ![u] = to],
         conn' = [conn EXCEPT ![u] = e], \A d \in Conn \ {conn[u]} : traffic'[d] = traffic[d]
  PROVE  Kept
<1> DEFINE c == conn[u]
<1>1. /\ \A v \in User : pc'[v] = (IF v = u THEN to ELSE pc[v])
      /\ \A v \in User : conn'[v] = (IF v = u THEN e ELSE conn[v])
      /\ \A v \in User : conn[v] = c => v = u
  BY ConnAssumption DEF Typed, OneOwner
<1>2. holder[c] = u /\ holder'[c] = None
  BY <1>1, HolderIs, HolderBecomes
<1>3. holder' = [holder EXCEPT ![c] = None]
  <2>1. holder' = [holder EXCEPT ![c] = holder'[c]]
    BY <1>1, HolderChanges
  <2> QED BY <1>2, <2>1
<1>4. clean' = [clean EXCEPT ![c] = clean'[c]] /\ clean'[c] \in BOOLEAN
  BY CleanChanges
<1>5. Promise!GiveBack(u, c)
  BY <1>2, <1>3, <1>4 DEF Promise!GiveBack
<1> QED BY <1>5 DEF Kept, Promise!Next

\* A connection that nobody uses is closed.
LEMMA Discards ==
  ASSUME Typed, OneOwner, OneOwner', NEW c \in Conn,
         \A v \in User : pc[v] = "using" => conn[v] # c,
         \A v \in User, d \in Conn :
           pc'[v] = "using" /\ conn'[v] = d <=> pc[v] = "using" /\ conn[v] = d,
         traffic' = Closed(c)
  PROVE  Kept
<1>1. holder' = holder /\ holder[c] = None
  BY HoldersStay, HolderIs
<1>2. (\A d \in Conn \ {c} : traffic'[d] = traffic[d]) /\ traffic'[c] = None
  BY FreshBroken, TrafficTyped
<1>3. clean' = [clean EXCEPT ![c] = TRUE]
  <2>1. clean' = [clean EXCEPT ![c] = clean'[c]] /\ clean'[c] = TRUE
    BY <1>2, CleanChanges
  <2> QED BY <2>1
<1>4. Promise!Discard(c)
  BY <1>1, <1>3 DEF Promise!Discard
<1> QED BY <1>4 DEF Kept, Promise!Next

\* Which of them a step is.
LEMMA UserKeeps ==
  ASSUME PoolInv, FreshInv, PoolInv', NEW u \in User, UserNext(u)
  PROVE  Kept
<1>1. Typed /\ OneOwner /\ OneOwner'
  BY DEF PoolInv
<1>2. pc[u] \in {"pruning", "testing"} => traffic[conn[u]] = Fresh /\ conn[u] \in Conn
  BY InHand DEF FreshInv, Holding
<1>3. CASE Get(u) \/ GetPruned(u) \/ GetAwake(u) \/ TestFailed(u)
  <2>1. pc[u] # "using"
    BY <1>3 DEF Get, GetPruned, GetAwake, TestFailed
  <2>2. /\ traffic' = Closed(conn[u])
        /\ conn[u] # None => traffic[conn[u]] = Fresh
    <3>1. CASE GetPruned(u) \/ TestFailed(u)
      BY <1>2, <3>1 DEF GetPruned, TestFailed
    <3>2. CASE Get(u) \/ GetAwake(u)
      <4>1. traffic' = traffic /\ pc[u] \notin Holding
        BY <3>2 DEF Get, GetAwake, Holding
      <4> QED BY <1>1, <4>1, InHand, ClosedNone
    <3> QED BY <1>3, <3>1, <3>2
  <2>3. \A d \in Conn : traffic'[d] = IF d = conn[u] THEN None ELSE traffic[d]
    BY <1>1, <2>2, FreshBroken, TrafficTyped
  <2>4. \A d \in Conn : traffic'[d] \in {None, Fresh} <=> traffic[d] \in {None, Fresh}
    BY <2>2, <2>3, ConnAssumption
  <2>5. \A d \in ToSet(idle) : d \in Conn /\ traffic'[d] = Fresh
    BY <1>1, <2>3, Others DEF FreshInv, IdleIsFresh
  <2>6. \E to, c : /\ pc' = [pc EXCEPT ![u] = to] /\ conn' = [conn EXCEPT ![u] = c]
                   /\ to = "using" => c \in Conn /\ traffic'[c] = Fresh
    <3>1. ASSUME NEW rounds, Prune(u, rounds)
          PROVE  pc' = [pc EXCEPT ![u] = "pruning"] /\ conn' = [conn EXCEPT ![u] = Last(idle)]
      BY <3>1 DEF Prune, Goes
    <3>2. ASSUME NEW act, NEW queue, NEW rounds, TakeIdle(u, act, queue, rounds)
          PROVE  /\ \E to : pc' = [pc EXCEPT ![u] = to]
                 /\ conn' = [conn EXCEPT ![u] = Head(idle)]
                 /\ Head(idle) \in ToSet(idle)
      <4>1. idle # <<>> /\ idle \in Seq(Conn)
        BY <1>1, <3>2 DEF TakeIdle, Typed
      <4>2. Head(idle) \in ToSet(idle)
        BY <4>1, TailOf
      <4> QED BY <3>2, <4>2 DEF TakeIdle, Goes
    <3>3. ASSUME NEW act, NEW queue, NEW rounds, DialOrWait(u, act, queue, rounds)
          PROVE  \E to \in {"out", "dialing", "waiting"} :
                   pc' = [pc EXCEPT ![u] = to] /\ conn' = [conn EXCEPT ![u] = None]
      BY <3>3 DEF DialOrWait, Goes
    <3>4. \/ \E rounds : Prune(u, rounds)
          \/ \E act, queue, rounds : TakeIdle(u, act, queue, rounds)
          \/ \E act, queue, rounds : DialOrWait(u, act, queue, rounds)
      BY <1>3, Zenon DEF Get, GetPruned, GetAwake, TestFailed, Look
    <3>5. CASE \E rounds : Prune(u, rounds)
      BY <3>1, <3>5
    <3>6. CASE \E act, queue, rounds : TakeIdle(u, act, queue, rounds)
      BY <2>5, <3>2, <3>6
    <3>7. CASE \E act, queue, rounds : DialOrWait(u, act, queue, rounds)
      <4>1. PICK to \in {"out", "dialing", "waiting"} :
              pc' = [pc EXCEPT ![u] = to] /\ conn' = [conn EXCEPT ![u] = None]
        BY <3>3, <3>7
      <4> QED BY <4>1
    <3> QED BY <3>4, <3>5, <3>6, <3>7
  <2> QED BY <1>1, <2>1, <2>4, <2>6, Borrows
<1>4. CASE TestPassed(u)
  <2>1. /\ pc[u] = "testing" /\ traffic' = traffic
        /\ pc' = [pc EXCEPT ![u] = "using"] /\ conn' = [conn EXCEPT ![u] = conn[u]]
    BY <1>4 DEF TestPassed, Goes
  <2>2. conn[u] \in Conn /\ traffic'[conn[u]] = Fresh
    BY <1>2, <2>1
  <2> QED BY <1>1, <2>1, <2>2, Borrows
<1>5. ASSUME NEW c \in Conn, Dialed(u, c) PROVE Kept
  <2>1. /\ pc[u] = "dialing" /\ traffic[c] = None /\ traffic' = [traffic EXCEPT ![c] = Fresh]
        /\ pc' = [pc EXCEPT ![u] = "using"] /\ conn' = [conn EXCEPT ![u] = c]
    BY <1>5 DEF Dialed, Goes
  <2>2. \A d \in Conn : traffic'[d] = IF d = c THEN Fresh ELSE traffic[d]
    BY <1>1, <2>1, FreshBroken, TrafficTyped
  <2>3. \A d \in Conn : traffic'[d] \in {None, Fresh} <=> traffic[d] \in {None, Fresh}
    BY <2>1, <2>2
  <2> QED BY <1>1, <2>1, <2>2, <2>3, Borrows
<1>6. CASE DialFailed(u)
  <2>1. /\ pc[u] = "dialing" /\ traffic' = traffic
        /\ pc' = [pc EXCEPT ![u] = "out"] /\ conn' = [conn EXCEPT ![u] = None]
    BY <1>6 DEF DialFailed, Goes
  <2> QED BY <1>1, <2>1, Borrows
<1>7. CASE Close(u)
  <2>1. pc[u] = "using" /\ conn[u] \in Conn
    BY <1>7, InHand DEF Close, Holding
  <2>2. PICK t, force : put(u, t, force) /\ traffic' = [traffic EXCEPT ![conn[u]] = t]
    BY <1>7, Zenon DEF Close, GiveBack
  <2>3. \E to \in {"discarding", "out"} : \E e :
          pc' = [pc EXCEPT ![u] = to] /\ conn' = [conn EXCEPT ![u] = e]
    BY <2>2 DEF put, Release, Keep, Goes
  <2>4. \A d \in Conn \ {conn[u]} : traffic'[d] = traffic[d]
    BY <1>1, <2>2 DEF Typed
  <2> QED BY <1>1, <2>1, <2>3, <2>4, GivesBack
<1>8. CASE Discarded(u)
  <2>1. /\ pc[u] = "discarding" /\ traffic' = Closed(conn[u])
        /\ pc' = [pc EXCEPT ![u] = "out"] /\ conn' = [conn EXCEPT ![u] = None]
    BY <1>8 DEF Discarded, Goes
  <2>2. conn[u] \in Conn /\ \A v \in User : pc[v] = "using" => conn[v] # conn[u]
    BY <1>1, <2>1, InHand, ConnAssumption DEF OneOwner, Holding
  <2>3. \A v \in User, d \in Conn :
          pc'[v] = "using" /\ conn'[v] = d <=> pc[v] = "using" /\ conn[v] = d
    BY <1>1, <2>1 DEF Typed
  <2> QED BY <1>1, <2>1, <2>2, <2>3, Discards
<1>9. CASE Exchanges(u)
  <2>1. PICK t : Exchange(u, t) /\ pc[u] = "using"
    BY <1>9, Zenon DEF Exchanges, UserReceive, UserSend, UserDo, InUse
  <2>2. conn[u] \in Conn /\ pc' = pc /\ conn' = conn
    BY <2>1, InHand DEF Exchange, Holding
  <2>3. \A d \in Conn \ {conn[u]} : traffic'[d] = traffic[d]
    BY <1>1, <2>1 DEF Exchange, Typed
  <2> QED BY <1>1, <2>1, <2>2, <2>3, Talks
<1> QED BY <1>3, <1>4, <1>5, <1>6, <1>7, <1>8, <1>9
        DEF UserNext, GoesOn, GetGoesOn, DialReturns

\* A message of the server, and the closing of the pool.
LEMMA OthersKeep ==
  ASSUME PoolInv, FreshInv, PoolInv',
         (\E c \in Conn : ServerPush(c)) \/ PoolClose \/ CloseLeftover
  PROVE  Kept
<1>1. Typed /\ OneOwner /\ OneOwner' /\ pc' = pc /\ conn' = conn
  BY DEF PoolInv, ServerPush, PoolClose, CloseLeftover, userVars
<1>2. ASSUME NEW c \in Conn, ServerPush(c) PROVE Kept
  <2>1. /\ traffic[c] \in Traffic /\ Push(traffic[c]) \in Traffic
        /\ traffic[c].mode \cap {"channels", "patterns", "monitor"} # {}
        /\ traffic' = [traffic EXCEPT ![c] = Push(traffic[c])]
    BY <1>2, ReadTypes DEF ServerPush, PoolInv, Typed
  <2>2. \A d \in Conn : traffic'[d] = IF d = c THEN Push(traffic[c]) ELSE traffic[d]
    BY <1>1, <2>1, TrafficTyped
  <2>3. CASE \E u \in User : pc[u] = "using" /\ conn[u] = c
    BY <1>1, <2>2, <2>3, Talks
  <2>4. CASE ~\E u \in User : pc[u] = "using" /\ conn[u] = c
    <3>1. traffic[c] \notin {None, Fresh}
      BY <2>1, TrafficIsOpen DEF Fresh
    <3>2. Push(traffic[c]) \notin {None, Fresh}
      <4>1. Push(traffic[c]).mode = traffic[c].mode
        BY <2>1 DEF Push, Traffic
      <4> QED BY <2>1, <4>1, TrafficIsOpen DEF Fresh
    <3>3. clean' = clean
      BY <2>2, <3>1, <3>2, CleanStays
    <3>4. holder' = holder
      BY <1>1, HoldersStay
    <3> QED BY <3>3, <3>4 DEF Kept
  <2> QED BY <2>3, <2>4
<1>3. CASE PoolClose
  <2>1. traffic' = traffic
    BY <1>3 DEF PoolClose
  <2>2. clean' = clean /\ holder' = holder
    BY <1>1, <2>1, CleanStays, HoldersStay
  <2> QED BY <2>2 DEF Kept
<1>4. CASE CloseLeftover
  <2>1. traffic' = Closed(Head(leftover)) /\ Head(leftover) \in ToSet(leftover)
    BY <1>1, <1>4, TailOf DEF CloseLeftover, Typed
  <2>2. Head(leftover) \in Conn /\ \A v \in User : conn[v] # Head(leftover)
    BY <1>1, <2>1, Places DEF OneOwner
  <2> QED BY <1>1, <2>1, <2>2, Discards
<1> QED BY <1>2, <1>3, <1>4

\* Whatever the users, the settings and the order of their steps, the pool keeps what
\* PoolPromise says: one user at a time for a connection, one connection at a time for a
\* user, and each as good as new when it gets it.
THEOREM PoolKeepsPromise == Spec => KeepsPromise
<1>1. Init => Promise!Init
  BY DEF Init, Promise!Init, holder, clean
<1>2. PoolInv /\ FreshInv /\ PoolInv' /\ [Next]_vars => [Promise!Next]_(Promise!vars)
  <2> SUFFICES ASSUME PoolInv, FreshInv, PoolInv', [Next]_vars
               PROVE  [Promise!Next]_(Promise!vars)
    OBVIOUS
  <2>1. CASE UNCHANGED vars
    <3>1. holder' = holder /\ clean' = clean
      BY <2>1 DEF vars, userVars, holder, clean
    <3> QED BY <3>1 DEF Promise!vars
  <2>2. Kept => [Promise!Next]_(Promise!vars)
    BY DEF Kept, Promise!vars
  <2> QED BY <2>1, <2>2, UserKeeps, OthersKeep DEF Next
<1> QED BY <1>1, <1>2, FreshInvariant, PTL DEF Spec, KeepsPromise, Promise!Spec
=============================================================================
