------------------------ MODULE RegistrationProofs ------------------------
(***************************************************************************)
(* Proofs that gorm, database/sql and lib/pq leave no transaction behind   *)
(* and free no connection that is out of step with its session, and that   *)
(* what a registration and the migration make of the answers is true of    *)
(* the table, whatever requests, connections, settings and faults.         *)
(***************************************************************************)
EXTENDS Registration, SequenceTheorems, WellFoundedInduction, TLAPS

-----------------------------------------------------------------------------
(* What lib/pq reads. *)

\* A connection that is not marked bad.
Sound(txn, saved, inbox) ==
  [bad |-> FALSE, txnStatus |-> txn, saved |-> saved, inbox |-> inbox]

\* The kinds of messages do not overlap.
LEMMA Kinds ==
  /\ Passed \cap Status = {} /\ Passed \cap Ending = {} /\ Status \cap Ending = {}
  /\ "none" \notin Passed /\ "none" \notin Status
BY DEF Passed, Status, Ending, Tag, Row

\* The loops that read on stop at the first ReadyForQuery.
LEMMA StopsAtStatus ==
  ASSUME NEW s \in Seq(Passed), NEW st \in Status
  PROVE  /\ SelectInSeq(Append(s, st), LAMBDA t : t \notin Passed) = Len(s) + 1
         /\ Append(s, st)[Len(s) + 1] = st
         /\ SubSeq(Append(s, st), 1, Len(s)) = s
         /\ SubSeq(Append(s, st), Len(s) + 1, Len(Append(s, st))) = <<st>>
<1> DEFINE all == Append(s, st)
           I == {i \in 1 .. Len(all) : all[i] \notin Passed}
<1>1. s \in Seq(Passed \cup Status) /\ st \in Passed \cup Status /\ Len(s) \in Nat
  BY SeqMonotonic, LenProperties
<1>2. /\ all \in Seq(Passed \cup Status) /\ Len(all) = Len(s) + 1
      /\ \A i \in 1 .. Len(s) : all[i] = s[i]
      /\ all[Len(s) + 1] = st
  BY <1>1, AppendProperties
<1>3. \A i \in 1 .. Len(s) : s[i] \in Passed
  BY ElementOfSeq
<1>4. I = {Len(s) + 1}
  BY <1>1, <1>2, <1>3, Kinds
<1>5. Min(I) = Len(s) + 1
  BY <1>1, <1>4 DEF Min
<1>6. SelectInSeq(all, LAMBDA t : t \notin Passed) = Len(s) + 1
  BY <1>4, <1>5 DEF SelectInSeq
<1>7. SubSeq(all, 1, Len(s)) = s
  <2>1. /\ SubSeq(all, 1, Len(s)) \in Seq(Passed \cup Status)
        /\ Len(SubSeq(all, 1, Len(s))) = Len(s)
        /\ \A i \in 1 .. Len(s) : SubSeq(all, 1, Len(s))[i] = all[i]
    <3>1. \A i \in 1 .. Len(s) : all[i] \in Passed \cup Status
      BY <1>2, <1>3
    <3> HIDE DEF all
    <3> QED BY <1>1, <3>1, SubSeqProperties
  <2> HIDE DEF all
  <2> QED BY <1>1, <1>2, <2>1, SeqEqual
<1>8. SubSeq(all, Len(s) + 1, Len(all)) = <<st>>
  <2> HIDE DEF all
  <2>1. /\ SubSeq(all, Len(s) + 1, Len(all)) \in Seq(Passed \cup Status)
        /\ Len(SubSeq(all, Len(s) + 1, Len(all))) = 1
        /\ SubSeq(all, Len(s) + 1, Len(all))[1] = st
    <3>1. \A i \in Len(s) + 1 .. Len(all) : all[i] \in Passed \cup Status
      BY <1>1, <1>2
    <3> QED BY <1>1, <1>2, <3>1, SubSeqProperties
  <2>2. /\ <<st>> \in Seq(Passed \cup Status) /\ Len(<<st>>) = 1 /\ <<st>>[1] = st
    BY <1>1
  <2> DEFINE end == SubSeq(all, Len(s) + 1, Len(all))
             one == <<st>>
  <2>3. /\ end \in Seq(Passed \cup Status) /\ one \in Seq(Passed \cup Status)
        /\ Len(end) = Len(one) /\ Len(end) = 1 /\ end[1] = one[1]
    BY <2>1, <2>2
  <2> HIDE DEF end, one
  <2>4. \A i \in 1 .. Len(end) : end[i] = one[i]
    BY <2>3
  <2>5. end = one
    BY <2>3, <2>4, SeqEqual
  <2> QED BY <2>5 DEF end, one
<1> QED BY <1>2, <1>6, <1>7, <1>8

\* What a connection has still to read: the message it kept, and the inbox.
Waiting(cn) == (IF cn.saved = "none" THEN <<>> ELSE <<cn.saved>>) \o cn.inbox

\* They end with the transaction status it carries and nothing left to read.
LEMMA ReadsUpToStatus ==
  ASSUME NEW txn, NEW saved, NEW inbox, NEW s \in Seq(Passed), NEW st \in Status,
         Waiting(Sound(txn, saved, inbox)) = Append(s, st)
  PROVE  /\ simpleExec(Sound(txn, saved, inbox))
              = Result(Sound(st, "none", <<>>),
                       IF "E" \in ToSet(s) THEN "server" ELSE "none", ToSet(s))
         /\ RowsNext(Sound(txn, saved, inbox))
              = Result(Sound(st, "none", <<>>),
                       IF "E" \in ToSet(s) THEN "server" ELSE "none", ToSet(s))
<1> DEFINE cn == Sound(txn, saved, inbox)
           all == Append(s, st)
           stop == SelectInSeq(all, LAMBDA t : t \notin Passed)
           left == [cn EXCEPT !.saved = "none",
                              !.inbox = Rest(SubSeq(all, stop, Len(all)))]
<1>1. /\ stop = Len(s) + 1 /\ all[stop] = st
      /\ SubSeq(all, 1, Len(s)) = s
      /\ SubSeq(all, stop, Len(all)) = <<st>>
  BY StopsAtStatus
<1>2. Len(s) \in Nat /\ stop - 1 = Len(s)
  BY <1>1, LenProperties
<1>3. Rest(<<st>>) = <<>>
  BY Kinds DEF Rest
<1>4. Settled(left, st) = Sound(st, "none", <<>>)
  <2> DEFINE d == Settled(left, st)
  <2>1. /\ DOMAIN d = {"bad", "txnStatus", "saved", "inbox"}
        /\ d = [f \in DOMAIN d |-> d[f]]
    BY DEF Sound, Settled
  <2>2. d.bad = FALSE /\ d.txnStatus = st /\ d.saved = "none" /\ d.inbox = <<>>
    BY <1>1, <1>3 DEF Sound, Settled
  <2> HIDE DEF d
  <2>3. d = Sound(st, "none", <<>>)
    BY <2>1, <2>2 DEF Sound
  <2> QED BY <2>3 DEF d
<1> HIDE DEF cn, all, stop, left
<1>6. (IF cn.saved = "none" THEN <<>> ELSE <<cn.saved>>) \o cn.inbox = all
  BY DEF Waiting, cn, all
<1>7. all[stop] \in Status /\ all[stop] = st
  BY <1>1
<1>8. SubSeq(all, 1, stop - 1) = s
  BY <1>1, <1>2
<1>9. simpleExec(cn) = Result(Settled(left, st),
                              IF "E" \in ToSet(s) THEN "server" ELSE "none", ToSet(s))
  BY <1>6, <1>7, <1>8, Kinds DEF simpleExec, ReadOn, left, stop
<1>10. RowsNext(cn) = Result(Settled(left, st),
                             IF "E" \in ToSet(s) THEN "server" ELSE "none", ToSet(s))
  BY <1>6, <1>7, <1>8, Kinds DEF RowsNext, ReadOn, left, stop
<1> QED BY <1>4, <1>9, <1>10 DEF cn

\* Append is known by its entries.
LEMMA AppendIs ==
  ASSUME NEW S, NEW s \in Seq(S), NEW e \in S, NEW u \in Seq(S),
         Len(u) = Len(s) + 1, \A i \in 1 .. Len(s) : u[i] = s[i], u[Len(s) + 1] = e
  PROVE  Append(s, e) = u
<1> DEFINE v == Append(s, e)
<1>1. /\ v \in Seq(S) /\ Len(v) = Len(s) + 1 /\ v[Len(s) + 1] = e
      /\ \A i \in 1 .. Len(s) : v[i] = s[i]
  BY AppendProperties
<1>2. Len(s) \in Nat
  BY LenProperties
<1> HIDE DEF v
<1>3. \A i \in 1 .. Len(v) : v[i] = u[i]
  BY <1>1, <1>2
<1>4. v = u
  BY <1>1, <1>3, SeqEqual
<1> QED BY <1>4 DEF v

\* Appending to one entry.
LEMMA AppendToOne ==
  ASSUME NEW a, NEW b
  PROVE  Append(<<a>>, b) = <<a, b>>
<1> DEFINE S == {a, b}  s == <<a>>  u == <<a, b>>
<1>1. /\ s \in Seq(S) /\ u \in Seq(S) /\ b \in S
      /\ Len(u) = Len(s) + 1 /\ u[Len(s) + 1] = b
      /\ \A i \in 1 .. Len(s) : u[i] = s[i]
  OBVIOUS
<1> HIDE DEF s, u, S
<1>2. Append(s, b) = u
  BY <1>1, AppendIs
<1> QED BY <1>2 DEF s, u

\* Short sequences, written out: their entries,
LEMMA EntriesOf ==
  ASSUME NEW a, NEW b
  PROVE  ToSet(<<>>) = {} /\ ToSet(<<a>>) = {a} /\ ToSet(<<a, b>>) = {a, b}
BY DEF ToSet

\* the first and the others,
LEMMA FirstOfTwo ==
  ASSUME NEW a, NEW b
  PROVE  /\ Head(<<a>>) = a /\ Tail(<<a>>) = <<>> /\ <<a>> # <<>>
         /\ Head(<<a, b>>) = a /\ Tail(<<a, b>>) = <<b>> /\ <<a, b>> # <<>>
OBVIOUS

\* sequences of two entries,
LEMMA TwoEntries ==
  ASSUME NEW a, NEW b
  PROVE  /\ Append(<<>>, a) = <<a>> /\ Append(<<a>>, b) = <<a, b>>
         /\ <<>> \o <<a>> = <<a>> /\ <<>> \o <<a, b>> = <<a, b>> /\ <<a>> \o <<b>> = <<a, b>>
<1>1. Append(<<>>, a) = <<a>>
  OBVIOUS
<1>2. Append(<<a>>, b) = <<a, b>>
  BY AppendToOne
<1>3. <<>> \o <<a>> = <<a>> /\ <<>> \o <<a, b>> = <<a, b>>
  OBVIOUS
<1>4. <<a>> \o <<b>> = <<a, b>>
  <2> DEFINE S == {a, b}
  <2>1. <<a>> \in Seq(S) /\ b \in S
    OBVIOUS
  <2> QED BY <1>2, <2>1, AppendIsConcat
<1> QED BY <1>1, <1>2, <1>3, <1>4

\* of three,
LEMMA ThreeEntries ==
  ASSUME NEW a, NEW b, NEW c
  PROVE  /\ Append(<<a, b>>, c) = <<a, b, c>>
         /\ <<>> \o <<a, b, c>> = <<a, b, c>> /\ <<a>> \o <<b, c>> = <<a, b, c>>
         /\ Head(<<a, b, c>>) = a /\ Tail(<<a, b, c>>) = <<b, c>> /\ <<a, b, c>> # <<>>
<1> DEFINE S == {a, b, c}
<1>1. Append(<<a, b>>, c) = <<a, b, c>>
  <2> DEFINE s == <<a, b>>  u == <<a, b, c>>
  <2>1. /\ s \in Seq(S) /\ u \in Seq(S) /\ c \in S
        /\ Len(u) = Len(s) + 1 /\ u[Len(s) + 1] = c
        /\ \A i \in 1 .. Len(s) : u[i] = s[i]
    OBVIOUS
  <2> HIDE DEF s, u, S
  <2>2. Append(s, c) = u
    BY <2>1, AppendIs
  <2> QED BY <2>2 DEF s, u
<1>2. <<a>> \o <<b, c>> = <<a, b, c>>
  <2> DEFINE x == <<a>>  y == <<b>>  z == <<c>>
  <2>1. <<a, b>> \in Seq(S) /\ x \in Seq(S) /\ y \in Seq(S) /\ z \in Seq(S) /\ c \in S
    OBVIOUS
  <2>2. (x \o y) \o z = x \o (y \o z)
    <3> HIDE DEF x, y, z, S
    <3> QED BY <2>1, ConcatAssociative
  <2>3. <<a>> \o <<b>> = <<a, b>> /\ <<b>> \o <<c>> = <<b, c>>
    <3>1. <<a>> \o <<b>> = <<a, b>>
      BY TwoEntries
    <3>2. <<b>> \o <<c>> = <<b, c>>
      BY TwoEntries
    <3> QED BY <3>1, <3>2
  <2>4. <<a, b>> \o z = <<a, b, c>>
    BY <1>1, <2>1, AppendIsConcat
  <2> QED BY <2>2, <2>3, <2>4
<1>3. <<>> \o <<a, b, c>> = <<a, b, c>>
  OBVIOUS
<1>4. Head(<<a, b, c>>) = a /\ Tail(<<a, b, c>>) = <<b, c>> /\ <<a, b, c>> # <<>>
  OBVIOUS
<1> QED BY <1>1, <1>2, <1>3, <1>4

\* Appending to three entries.
LEMMA AppendToThree ==
  ASSUME NEW a, NEW b, NEW c, NEW d
  PROVE  /\ Append(<<a, b, c>>, d) = <<a, b, c, d>>
         /\ <<>> \o Append(<<a, b, c>>, d) = <<a, b, c, d>>
<1> DEFINE S == {a, b, c, d}  s == <<a, b, c>>  u == <<a, b, c, d>>
<1>1. /\ s \in Seq(S) /\ u \in Seq(S) /\ d \in S
      /\ Len(u) = Len(s) + 1 /\ u[Len(s) + 1] = d
      /\ \A i \in 1 .. Len(s) : u[i] = s[i]
  OBVIOUS
<1>2. <<>> \o u = u
  OBVIOUS
<1> HIDE DEF s, u, S
<1>3. Append(s, d) = u
  BY <1>1, AppendIs
<1>4. <<>> \o Append(s, d) = u
  BY <1>2, <1>3
<1> QED BY <1>3, <1>4 DEF s, u

\* of four.
LEMMA FourEntries ==
  ASSUME NEW a, NEW b, NEW c, NEW d
  PROVE  /\ Append(<<a, b, c>>, d) = <<a, b, c, d>>
         /\ <<>> \o <<a, b, c, d>> = <<a, b, c, d>>
         /\ Head(<<a, b, c, d>>) = a /\ Tail(<<a, b, c, d>>) = <<b, c, d>>
         /\ <<a, b, c, d>> # <<>>
<1>1. Append(<<a, b, c>>, d) = <<a, b, c, d>>
  BY AppendToThree
<1>2. <<>> \o <<a, b, c, d>> = <<a, b, c, d>>
  OBVIOUS
<1>3. /\ Head(<<a, b, c, d>>) = a /\ Tail(<<a, b, c, d>>) = <<b, c, d>>
      /\ <<a, b, c, d>> # <<>>
  OBVIOUS
<1> QED BY <1>1, <1>2, <1>3

\* A message that is read leaves the ones behind it.
LEMMA ReadsMessage ==
  ASSUME NEW txn, NEW inbox, inbox # <<>>, Head(inbox) \notin Ending
  PROVE  recvMessage(Sound(txn, "none", inbox))
           = [t |-> Head(inbox), cn |-> Sound(txn, "none", Tail(inbox))]
<1> DEFINE d == [Sound(txn, "none", inbox) EXCEPT !.inbox = Rest(@)]
<1>1. d = Sound(txn, "none", Tail(inbox))
  <2>1. /\ DOMAIN d = {"bad", "txnStatus", "saved", "inbox"}
        /\ d = [f \in DOMAIN d |-> d[f]]
    BY DEF Sound
  <2>2. /\ d.bad = FALSE /\ d.txnStatus = txn /\ d.saved = "none"
        /\ d.inbox = Tail(inbox)
    BY DEF Sound, Rest
  <2> HIDE DEF d
  <2> QED BY <2>1, <2>2 DEF Sound
<1> QED BY <1>1 DEF recvMessage, Sound

\* The ReadyForQuery that ends an answer.
LEMMA ReadsReady ==
  ASSUME NEW txn, NEW st \in Status, NEW err
  PROVE  readReadyForQuery(Sound(txn, "none", <<st>>), err)
           = Result(Sound(st, "none", <<>>), err, {})
<1>1. Head(<<st>>) = st /\ Tail(<<st>>) = <<>> /\ <<st>> # <<>> /\ st \notin Ending
  BY Kinds
<1>2. recvMessage(Sound(txn, "none", <<st>>))
        = [t |-> st, cn |-> Sound(txn, "none", <<>>)]
  BY <1>1, ReadsMessage
<1>3. Settled(Sound(txn, "none", <<>>), st) = Sound(st, "none", <<>>)
  <2> DEFINE d == Settled(Sound(txn, "none", <<>>), st)
  <2>1. /\ DOMAIN d = {"bad", "txnStatus", "saved", "inbox"}
        /\ d = [f \in DOMAIN d |-> d[f]]
    BY DEF Sound, Settled
  <2>2. d.bad = FALSE /\ d.txnStatus = st /\ d.saved = "none" /\ d.inbox = <<>>
    BY DEF Sound, Settled
  <2> HIDE DEF d
  <2>3. d = Sound(st, "none", <<>>)
    BY <2>1, <2>2 DEF Sound
  <2> QED BY <2>3 DEF d
<1> QED BY <1>2, <1>3, Kinds DEF readReadyForQuery

\* The message that is wanted is read.
LEMMA ReadsResponse ==
  ASSUME NEW txn, NEW inbox, inbox # <<>>, NEW wanted, Head(inbox) \in wanted,
         "E" \notin wanted, Head(inbox) \notin Ending
  PROVE  Response(Sound(txn, "none", inbox), wanted)
           = Result(Sound(txn, "none", Tail(inbox)), "none", {Head(inbox)})
<1> DEFINE cn == Sound(txn, "none", inbox)
           r == recvMessage(cn)
<1>1. r.t = Head(inbox) /\ r.cn = Sound(txn, "none", Tail(inbox))
  BY ReadsMessage
<1> HIDE DEF r, cn
<1>2. Response(cn, wanted)
        = Result(Sound(txn, "none", Tail(inbox)), "none", {Head(inbox)})
  BY <1>1 DEF Response, r
<1> QED BY <1>2 DEF cn

\* Such a reader and the sequence it reads, written out.
LEMMA ReadsOne ==
  ASSUME NEW txn, NEW wanted, NEW t \in wanted, "E" \notin wanted,
         wanted \cap Ending = {}
  PROVE  /\ \A b : Response(Sound(txn, "none", <<t, b>>), wanted)
                     = Result(Sound(txn, "none", <<b>>), "none", {t})
         /\ \A b, c : Response(Sound(txn, "none", <<t, b, c>>), wanted)
                        = Result(Sound(txn, "none", <<b, c>>), "none", {t})
         /\ \A b, c, d : Response(Sound(txn, "none", <<t, b, c, d>>), wanted)
                           = Result(Sound(txn, "none", <<b, c, d>>), "none", {t})
<1>1. t \notin Ending
  OBVIOUS
<1>2. ASSUME NEW b PROVE Response(Sound(txn, "none", <<t, b>>), wanted)
                           = Result(Sound(txn, "none", <<b>>), "none", {t})
  <2> DEFINE inbox == <<t, b>>
  <2>1. Head(inbox) = t /\ Tail(inbox) = <<b>> /\ inbox # <<>>
    BY FirstOfTwo
  <2> HIDE DEF inbox
  <2> QED BY <1>1, <2>1, ReadsResponse DEF inbox
<1>3. ASSUME NEW b, NEW c
      PROVE  Response(Sound(txn, "none", <<t, b, c>>), wanted)
               = Result(Sound(txn, "none", <<b, c>>), "none", {t})
  <2> DEFINE inbox == <<t, b, c>>
  <2>1. Head(inbox) = t /\ Tail(inbox) = <<b, c>> /\ inbox # <<>>
    BY ThreeEntries
  <2> HIDE DEF inbox
  <2> QED BY <1>1, <2>1, ReadsResponse DEF inbox
<1>4. ASSUME NEW b, NEW c, NEW d
      PROVE  Response(Sound(txn, "none", <<t, b, c, d>>), wanted)
               = Result(Sound(txn, "none", <<b, c, d>>), "none", {t})
  <2> DEFINE inbox == <<t, b, c, d>>
  <2>1. Head(inbox) = t /\ Tail(inbox) = <<b, c, d>> /\ inbox # <<>>
    BY FourEntries
  <2> HIDE DEF inbox
  <2> QED BY <1>1, <2>1, ReadsResponse DEF inbox
<1> QED BY <1>2, <1>3, <1>4

\* And the error it meets instead.
LEMMA ReadsError ==
  ASSUME NEW txn, NEW wanted, "E" \notin wanted, NEW st \in Status
  PROVE  Response(Sound(txn, "none", <<"E", st>>), wanted)
           = Result(Sound(st, "none", <<>>), "server", {})
<1> DEFINE cn == Sound(txn, "none", <<"E", st>>)
           r == recvMessage(cn)
<1>1. r.t = "E" /\ r.cn = Sound(txn, "none", <<st>>)
  <2> DEFINE inbox == <<"E", st>>
  <2>1. Head(inbox) = "E" /\ Tail(inbox) = <<st>> /\ inbox # <<>> /\ "E" \notin Ending
    BY FirstOfTwo DEF Ending
  <2> HIDE DEF inbox
  <2>2. recvMessage(Sound(txn, "none", inbox))
          = [t |-> Head(inbox), cn |-> Sound(txn, "none", Tail(inbox))]
    BY <2>1, ReadsMessage
  <2> QED BY <2>1, <2>2 DEF inbox
<1> HIDE DEF r, cn
<1>2. Response(cn, wanted) = readReadyForQuery(r.cn, "server")
  BY <1>1 DEF Response, r, Ending
<1> QED BY <1>1, <1>2, ReadsReady DEF cn

\* Parse and Describe.
LEMMA ReadsPrepared ==
  ASSUME NEW txn, NEW st \in Status
  PROVE  /\ prepareTo(Sound(txn, "none", <<"1", "T", st>>))
              = Result(Sound(st, "none", <<>>), "none", {})
         /\ prepareTo(Sound(txn, "none", <<"E", st>>))
              = Result(Sound(st, "none", <<>>), "server", {})
<1>1. readParseResponse(Sound(txn, "none", <<"1", "T", st>>))
        = Result(Sound(txn, "none", <<"T", st>>), "none", {"1"})
  BY ReadsOne DEF readParseResponse, Ending
<1>2. readStatementDescribeResponse(Sound(txn, "none", <<"T", st>>))
        = Result(Sound(txn, "none", <<st>>), "none", {"T"})
  BY ReadsOne DEF readStatementDescribeResponse, Ending
<1>3. readParseResponse(Sound(txn, "none", <<"E", st>>))
        = Result(Sound(st, "none", <<>>), "server", {})
  BY ReadsError DEF readParseResponse
<1>4. prepareTo(Sound(txn, "none", <<"1", "T", st>>))
        = Result(Sound(st, "none", <<>>), "none", {})
  BY <1>1, <1>2, ReadsReady DEF prepareTo, Then, Result
<1>5. prepareTo(Sound(txn, "none", <<"E", st>>))
        = Result(Sound(st, "none", <<>>), "server", {})
  BY <1>3 DEF prepareTo, Then, Result
<1> QED BY <1>4, <1>5

\* What follows BindComplete is kept for rows.Next.
LEMMA ReadsKept ==
  ASSUME NEW txn, NEW t \in Tag \cup Row, NEW inbox, NEW answer, NEW rest,
         inbox # <<>>, Head(inbox) = "2", Tail(inbox) = answer,
         answer # <<>>, Head(answer) = t, Tail(answer) = rest
  PROVE  exec(Sound(txn, "none", inbox)) = Result(Sound(txn, t, rest), "none", {t})
<1> DEFINE first == Tag \cup Row
<1>1. "E" \notin first /\ t \notin Ending /\ "2" \notin Ending /\ t \in first
  BY DEF Tag, Row, Ending
<1> HIDE DEF first
<1>2. readBindResponse(Sound(txn, "none", inbox))
        = Result(Sound(txn, "none", answer), "none", {"2"})
  BY <1>1, ReadsResponse DEF readBindResponse
<1>3. Response(Sound(txn, "none", answer), first)
        = Result(Sound(txn, "none", rest), "none", {t})
  BY <1>1, ReadsResponse
<1>4. saveMessage(Result(Sound(txn, "none", rest), "none", {t}))
        = Result(Sound(txn, t, rest), "none", {t})
  <2> DEFINE r == Result(Sound(txn, "none", rest), "none", {t})
             d == saveMessage(r)
             cn == [Sound(txn, "none", rest) EXCEPT !.saved = t]
  <2>1. (CHOOSE x \in {t} : TRUE) = t
    OBVIOUS
  <2>2. cn = Sound(txn, t, rest)
    <3>1. /\ DOMAIN cn = {"bad", "txnStatus", "saved", "inbox"}
          /\ cn = [f \in DOMAIN cn |-> cn[f]]
      BY DEF Sound
    <3>2. /\ cn.bad = FALSE /\ cn.txnStatus = txn /\ cn.saved = t
          /\ cn.inbox = rest
      BY DEF Sound
    <3> HIDE DEF cn
    <3> QED BY <3>1, <3>2 DEF Sound
  <2>3. /\ DOMAIN d = {"cn", "err", "said"} /\ d = [f \in DOMAIN d |-> d[f]]
        /\ d.err = "none" /\ d.said = {t}
    BY DEF saveMessage, Result
  <2>4. d.cn = cn
    BY <2>1 DEF saveMessage, Result
  <2> HIDE DEF d, cn
  <2>5. d = Result(cn, "none", {t})
    BY <2>3, <2>4 DEF Result
  <2> QED BY <2>2, <2>5 DEF d
<1>5. postExecuteWorkaround(Sound(txn, "none", answer))
        = Result(Sound(txn, t, rest), "none", {t})
  <2> DEFINE a == Response(Sound(txn, "none", answer), first)
  <2>1. a = Result(Sound(txn, "none", rest), "none", {t}) /\ a.err = "none"
    BY <1>3 DEF Result
  <2>2. postExecuteWorkaround(Sound(txn, "none", answer))
          = IF a.err = "none" THEN saveMessage(a) ELSE a
    BY DEF postExecuteWorkaround, first
  <2> HIDE DEF a
  <2> QED BY <1>4, <2>1, <2>2
<1>6. exec(Sound(txn, "none", inbox)) = postExecuteWorkaround(Sound(txn, "none", answer))
  BY <1>2 DEF exec, Then, Result
<1> QED BY <1>5, <1>6

\* The row of a query is kept,
LEMMA ReadsRow ==
  ASSUME NEW txn, NEW st, NEW t \in Row
  PROVE  exec(Sound(txn, "none", <<"2", t, "SELECT", st>>))
           = Result(Sound(txn, t, <<"SELECT", st>>), "none", {t})
<1> DEFINE inbox == <<"2", t, "SELECT", st>>
           answer == <<t, "SELECT", st>>
           rest == <<"SELECT", st>>
<1>1. /\ inbox # <<>> /\ Head(inbox) = "2" /\ Tail(inbox) = answer
      /\ answer # <<>> /\ Head(answer) = t /\ Tail(answer) = rest
  OBVIOUS
<1>2. t \in Tag \cup Row
  OBVIOUS
<1> HIDE DEF inbox, answer, rest
<1>3. exec(Sound(txn, "none", inbox)) = Result(Sound(txn, t, rest), "none", {t})
  BY <1>1, <1>2, ReadsKept
<1> QED BY <1>3 DEF inbox, rest

\* and so is what else comes first; an error is the end of the call.
LEMMA ReadsExecuted ==
  ASSUME NEW txn, NEW st \in Status
  PROVE  /\ exec(Sound(txn, "none", <<"2", "D", "INSERT", st>>))
              = Result(Sound(txn, "D", <<"INSERT", st>>), "none", {"D"})
         /\ exec(Sound(txn, "none", <<"2", "SELECT", st>>))
              = Result(Sound(txn, "SELECT", <<st>>), "none", {"SELECT"})
         /\ exec(Sound(txn, "none", <<"2", "E", st>>))
              = Result(Sound(st, "none", <<>>), "server", {})
         /\ exec(Sound(txn, "none", <<"E", st>>))
              = Result(Sound(st, "none", <<>>), "server", {})
<1>1. exec(Sound(txn, "none", <<"2", "D", "INSERT", st>>))
        = Result(Sound(txn, "D", <<"INSERT", st>>), "none", {"D"})
  <2> DEFINE inbox == <<"2", "D", "INSERT", st>>
             answer == <<"D", "INSERT", st>>
             rest == <<"INSERT", st>>
  <2>1. /\ inbox # <<>> /\ Head(inbox) = "2" /\ Tail(inbox) = answer
        /\ answer # <<>> /\ Head(answer) = "D" /\ Tail(answer) = rest
    OBVIOUS
  <2>2. "D" \in Tag \cup Row
    BY DEF Row
  <2> HIDE DEF inbox, answer, rest
  <2>3. exec(Sound(txn, "none", inbox)) = Result(Sound(txn, "D", rest), "none", {"D"})
    BY <2>1, <2>2, ReadsKept
  <2> QED BY <2>3 DEF inbox, rest
<1>2. exec(Sound(txn, "none", <<"2", "SELECT", st>>))
        = Result(Sound(txn, "SELECT", <<st>>), "none", {"SELECT"})
  <2> DEFINE inbox == <<"2", "SELECT", st>>
             answer == <<"SELECT", st>>
             rest == <<st>>
  <2>1. /\ inbox # <<>> /\ Head(inbox) = "2" /\ Tail(inbox) = answer
        /\ answer # <<>> /\ Head(answer) = "SELECT" /\ Tail(answer) = rest
    OBVIOUS
  <2>2. "SELECT" \in Tag \cup Row
    BY DEF Tag
  <2> HIDE DEF inbox, answer, rest
  <2>3. exec(Sound(txn, "none", inbox)) = Result(Sound(txn, "SELECT", rest), "none", {"SELECT"})
    BY <2>1, <2>2, ReadsKept
  <2> QED BY <2>3 DEF inbox, rest
<1>3. "E" \notin Tag \cup Row /\ (Tag \cup Row) \cap Ending = {} /\ {"2"} \cap Ending = {}
  BY DEF Tag, Row, Ending
<1>4. postExecuteWorkaround(Sound(txn, "none", <<"E", st>>))
        = Result(Sound(st, "none", <<>>), "server", {})
  BY <1>3, ReadsError DEF postExecuteWorkaround, Result
<1>5. exec(Sound(txn, "none", <<"2", "E", st>>))
        = Result(Sound(st, "none", <<>>), "server", {})
  <2>1. readBindResponse(Sound(txn, "none", <<"2", "E", st>>))
          = Result(Sound(txn, "none", <<"E", st>>), "none", {"2"})
    BY <1>3, ReadsOne DEF readBindResponse
  <2> QED BY <1>4, <2>1 DEF exec, Then, Result
<1>6. exec(Sound(txn, "none", <<"E", st>>))
        = Result(Sound(st, "none", <<>>), "server", {})
  <2>1. readBindResponse(Sound(txn, "none", <<"E", st>>))
          = Result(Sound(st, "none", <<>>), "server", {})
    BY ReadsError DEF readBindResponse
  <2> QED BY <2>1 DEF exec, Then, Result
<1> QED BY <1>1, <1>2, <1>5, <1>6

\* A simple query is answered by a tag, or by an error, and ReadyForQuery.
LEMMA ReadsSimple ==
  ASSUME NEW txn, NEW st \in Status, NEW t \in Passed
  PROVE  simpleExec(Sound(txn, "none", <<t, st>>))
           = Result(Sound(st, "none", <<>>), IF t = "E" THEN "server" ELSE "none", {t})
<1> DEFINE s == <<t>>
           inbox == <<t, st>>
<1>1. s \in Seq(Passed)
  OBVIOUS
<1>2. Waiting(Sound(txn, "none", inbox)) = Append(s, st)
  <2>1. inbox = Append(s, st) /\ <<>> \o inbox = inbox
    BY TwoEntries
  <2> HIDE DEF inbox, s
  <2> QED BY <2>1 DEF Waiting, Sound
<1>3. ToSet(s) = {t}
  BY EntriesOf
<1> HIDE DEF s, inbox
<1>4. simpleExec(Sound(txn, "none", inbox))
        = Result(Sound(st, "none", <<>>),
                 IF "E" \in ToSet(s) THEN "server" ELSE "none", ToSet(s))
  BY <1>1, <1>2, ReadsUpToStatus
<1>5. "E" \in {t} <=> t = "E"
  OBVIOUS
<1> QED BY <1>3, <1>4, <1>5 DEF inbox

\* What Scan and Rows make of the rest of an answer.
LEMMA ReadsRest ==
  ASSUME NEW txn, NEW st \in Status, NEW t \in Tag \cup Row,
         NEW inbox \in {<<"INSERT", st>>, <<"SELECT", st>>, <<st>>}
  PROVE  /\ RowScan(Sound(txn, t, inbox)).cn = Sound(st, "none", <<>>)
         /\ RowsLoop(Sound(txn, t, inbox)).cn = Sound(st, "none", <<>>)
<1> DEFINE cn == Sound(txn, t, inbox)
           tag == IF inbox = <<"INSERT", st>> THEN "INSERT" ELSE "SELECT"
           s == IF inbox = <<st>> THEN <<t>> ELSE <<t, tag>>
<1>1. t \in Passed /\ tag \in Passed /\ t # "none"
  BY DEF Passed, Tag, Row
<1>2. s \in Seq(Passed)
  BY <1>1
<1>3. <<t>> \o inbox = Append(s, st)
  <2>1. CASE inbox = <<st>>
    BY <1>1, <2>1, TwoEntries
  <2>2. CASE inbox # <<st>>
    <3>1. inbox = <<tag, st>>
      BY <2>2
    <3>2. s = <<t, tag>>
      BY <2>2
    <3> HIDE DEF tag, s
    <3> QED BY <1>1, <3>1, <3>2, TwoEntries, ThreeEntries
  <2> QED BY <2>1, <2>2
<1> HIDE DEF s, tag
<1>a. Waiting(Sound(txn, t, inbox)) = Append(s, st)
  BY <1>1, <1>3 DEF Waiting, Sound
<1>4. RowsNext(Sound(txn, t, inbox))
        = Result(Sound(st, "none", <<>>),
                 IF "E" \in ToSet(s) THEN "server" ELSE "none", ToSet(s))
  BY <1>2, <1>a, ReadsUpToStatus
<1>5. RowsNext(cn).cn = Sound(st, "none", <<>>) /\ RowsNext(cn).err \in {"none", "server"}
  BY <1>4 DEF Result
<1> HIDE DEF cn
<1>6. RowsClosed(RowsNext(cn)) = RowsNext(cn)
  BY <1>5 DEF RowsClosed
<1>7. RowScan(cn).cn = Sound(st, "none", <<>>)
  BY <1>5, <1>6 DEF RowScan
<1>8. RowsLoop(cn).cn = Sound(st, "none", <<>>)
  BY <1>5, <1>6 DEF RowsLoop
<1> QED BY <1>7, <1>8 DEF cn

\* Begin is told of its transaction, or of none.
LEMMA ReadsBegun ==
  ASSUME NEW txn
  PROVE  /\ Begun(Sound(txn, "none", <<"BEGIN", "inTransaction">>))
              = Result(Sound("inTransaction", "none", <<>>), "none", {"BEGIN"})
         /\ Begun(Sound(txn, "none", <<"E", "idle">>))
              = Result(Sound("idle", "none", <<>>), "server", {"E"})
<1>1. simpleExec(Sound(txn, "none", <<"BEGIN", "inTransaction">>))
        = Result(Sound("inTransaction", "none", <<>>), "none", {"BEGIN"})
  BY ReadsSimple DEF Passed, Tag, Status
<1>2. simpleExec(Sound(txn, "none", <<"E", "idle">>))
        = Result(Sound("idle", "none", <<>>), "server", {"E"})
  BY ReadsSimple DEF Passed, Status
<1> QED BY <1>1, <1>2 DEF Begun, Result, Sound

\* Commit and Rollback are answered outside the transaction.
LEMMA ReadsEnded ==
  ASSUME NEW txn
  PROVE  /\ Committed(Sound(txn, "none", <<"COMMIT", "idle">>))
              = Result(Sound("idle", "none", <<>>), "none", {"COMMIT"})
         /\ Committed(Sound(txn, "none", <<"E", "idle">>))
              = Result(Sound("idle", "none", <<>>), "server", {"E"})
         /\ RolledBack(Sound(txn, "none", <<"ROLLBACK", "idle">>))
              = Result(Sound("idle", "none", <<>>), "none", {"ROLLBACK"})
<1>1. simpleExec(Sound(txn, "none", <<"COMMIT", "idle">>))
        = Result(Sound("idle", "none", <<>>), "none", {"COMMIT"})
  BY ReadsSimple DEF Passed, Tag, Status
<1>2. simpleExec(Sound(txn, "none", <<"E", "idle">>))
        = Result(Sound("idle", "none", <<>>), "server", {"E"})
  BY ReadsSimple DEF Passed, Status
<1>3. simpleExec(Sound(txn, "none", <<"ROLLBACK", "idle">>))
        = Result(Sound("idle", "none", <<>>), "none", {"ROLLBACK"})
  BY ReadsSimple DEF Passed, Tag, Status
<1>4. ~isInTransaction(Sound("idle", "none", <<>>))
  BY DEF isInTransaction, Sound
<1>5. Committed(Sound(txn, "none", <<"COMMIT", "idle">>))
        = Result(Sound("idle", "none", <<>>), "none", {"COMMIT"})
  BY <1>1, <1>4 DEF Committed, Result
<1>6. Committed(Sound(txn, "none", <<"E", "idle">>))
        = Result(Sound("idle", "none", <<>>), "server", {"E"})
  BY <1>2, <1>4 DEF Committed, Result
<1>7. RolledBack(Sound(txn, "none", <<"ROLLBACK", "idle">>))
        = Result(Sound("idle", "none", <<>>), "none", {"ROLLBACK"})
  BY <1>3, <1>4 DEF RolledBack, Result
<1> QED BY <1>5, <1>6, <1>7

-----------------------------------------------------------------------------
(* The order of the calls of a request. *)

Catalogue == {"hasTable", "hasColumn", "hasIndex"}

RequestFields ==
  {"call", "doing", "conn", "sent", "opening", "started", "failed", "seen"}

\* A request makes the calls of its kind,
Role(r, q) ==
  \/ /\ r \in Creates /\ q.doing = "insert"
     /\ q.call \in {"BEGIN", "PARSE", "EXEC", "SCAN", "COMMIT", "ROLLBACK", "DONE"}
  \/ /\ r \in Finds /\ q.doing = "find"
     /\ q.call \in {"PARSE", "EXEC", "ROWS", "DONE"}
  \/ /\ r = Migration
     /\ \/ q.doing \in Simple /\ q.call \in {"QUERY", "DONE"}
        \/ q.doing \in Catalogue /\ q.call \in {"PARSE", "EXEC", "SCAN", "DONE"}

\* and it has a connection as long as it needs one: to read, to execute what it
\* prepared, and to end the transaction it began.
InOrder(r, q) ==
  /\ DOMAIN q = RequestFields
  /\ q.started \in BOOLEAN /\ q.sent \in BOOLEAN
  /\ Role(r, q)
  /\ q.started => r \in Creates /\ q.call # "BEGIN"
  /\ q.call \in {"COMMIT", "ROLLBACK"} => q.started
  /\ q.call = "DONE" => q.conn = None
  /\ q.call \in {"SCAN", "ROWS"} => q.sent
  /\ q.call = "EXEC" => q.conn # None
  /\ q.sent => q.conn # None /\ q.opening = "no"
  /\ q.opening # "no" =>
       q.conn # None /\ q.call \in {"BEGIN", "PARSE", "QUERY"} /\ ~q.started
  /\ q.conn = None /\ q.started => q.call = "DONE"

\* What a request does after a call.
Goes(q, result) ==
  LET p == Noting(q, result.err)
  IN IF Retried(p, result.err) THEN Again(p) ELSE NextCall(p, result)

\* The roles are told apart.
LEMMA Roles ==
  /\ \A r \in Requests : \/ r \in Creates /\ r \notin Finds /\ r # Migration
                         \/ r \notin Creates /\ r \in Finds /\ r # Migration
                         \/ r \notin Creates /\ r \notin Finds /\ r = Migration
BY RequestsAssumption DEF Requests

\* What is noted of a result changes neither the call nor the connection.
LEMMA Notes ==
  ASSUME NEW q, DOMAIN q = RequestFields, NEW err
  PROVE  LET p == Noting(q, err)
         IN /\ DOMAIN p = RequestFields /\ p.sent = FALSE
            /\ p.call = q.call /\ p.doing = q.doing /\ p.conn = q.conn
            /\ p.opening = q.opening /\ p.started = q.started /\ p.failed = q.failed
BY DEF Noting, RequestFields

\* The request after a call, without its connection if it was put back.
Freed(n, over) == IF over THEN [n EXCEPT !.conn = None] ELSE n

\* Putting the connection back changes nothing else.
LEMMA FreedFields ==
  ASSUME NEW n, DOMAIN n = RequestFields, NEW over \in BOOLEAN
  PROVE  LET m == Freed(n, over)
         IN /\ DOMAIN m = RequestFields
            /\ m.call = n.call /\ m.doing = n.doing /\ m.sent = n.sent
            /\ m.opening = n.opening /\ m.started = n.started
            /\ m.conn = IF over THEN None ELSE n.conn
BY DEF Freed, RequestFields

\* The call q goes to next, by the kind of request and what it returned.
GoesTo(r, q, result) ==
  LET n == Goes(q, result)
      over == Over(Noting(q, result.err), n, result.err)
      more == q.call = "EXEC" /\ result.err = "none"
  IN /\ DOMAIN n = RequestFields
     /\ n.conn = q.conn /\ n.opening = "no"
     /\ n.started = IF q.call = "BEGIN" THEN result.err = "none" ELSE q.started
     /\ n.sent = more /\ (n.call \in {"SCAN", "ROWS"} <=> more)
     /\ over \in BOOLEAN
     /\ over => q.call \in {"COMMIT", "ROLLBACK"} \/ ~n.started
     /\ over /\ q.call = "EXEC" => result.err # "none"
     /\ InOrder(r, Freed(n, over))

\* A registration goes from Begin to Commit or Rollback, or without a transaction
\* to its end; with one it keeps the connection.
LEMMA CreateGoes ==
  ASSUME NEW r \in Creates, NEW q, InOrder(r, q), q.conn # None, q.opening = "no",
         q.call # "DONE", NEW result
  PROVE  GoesTo(r, q, result)
<1> DEFINE p == Noting(q, result.err)
           n == Goes(q, result)
           over == Over(p, n, result.err)
           m == Freed(n, over)
<1>1. /\ DOMAIN p = RequestFields /\ p.sent = FALSE
      /\ p.call = q.call /\ p.doing = q.doing /\ p.conn = q.conn
      /\ p.opening = q.opening /\ p.started = q.started /\ p.failed = q.failed
  BY Notes DEF InOrder
<1>2. /\ r \notin Finds /\ r # Migration /\ q.doing = "insert"
      /\ q.call \in {"BEGIN", "PARSE", "EXEC", "SCAN", "COMMIT", "ROLLBACK"}
      /\ q.started \in BOOLEAN
  BY Roles DEF InOrder, Role, Requests
<1>3. n = IF Retried(p, result.err) THEN Again(p) ELSE NextCall(p, result)
  BY DEF Goes
<1>4. over \in BOOLEAN
  BY DEF Over
<1> HIDE DEF p, n, over, m
<1>5. DOMAIN n = RequestFields =>
        /\ DOMAIN m = RequestFields
        /\ m.call = n.call /\ m.doing = n.doing /\ m.sent = n.sent
        /\ m.opening = n.opening /\ m.started = n.started
        /\ m.conn = IF over THEN None ELSE n.conn
  BY <1>4, FreedFields DEF m
<1>6. CASE q.call = "BEGIN"
  <2>1. ~q.started
    BY <1>6 DEF InOrder
  <2>2. /\ DOMAIN n = RequestFields /\ n.conn = q.conn /\ n.opening = "no"
        /\ n.doing = "insert" /\ n.sent = FALSE
        /\ \/ n.call = "BEGIN" /\ n.started = FALSE /\ result.err # "none"
           \/ n.call = "PARSE" /\ n.started = (result.err = "none")
    BY <1>1, <1>2, <1>3, <1>6, <2>1 DEF Retried, Again, NextCall, Began, RequestFields
  <2>3. over <=> result.err # "none"
    BY <1>1, <1>6, <2>2 DEF Over, over
  <2>4. InOrder(r, m)
    BY <1>5, <2>2, <2>3 DEF InOrder, Role
  <2> QED BY <1>4, <1>6, <2>2, <2>3, <2>4 DEF GoesTo, n, over, m, p
<1>7. CASE q.call = "PARSE"
  <2>2. /\ DOMAIN n = RequestFields /\ n.conn = q.conn /\ n.opening = "no"
        /\ n.doing = "insert" /\ n.sent = FALSE /\ n.started = q.started
        /\ \/ result.err = "none" /\ n.call = "EXEC"
           \/ result.err # "none" /\ ~q.started /\ n.call \in {"PARSE", "DONE"}
           \/ result.err # "none" /\ q.started /\ n.call \in {"COMMIT", "ROLLBACK"}
    BY <1>1, <1>2, <1>3, <1>7 DEF Retried, Again, NextCall, Concludes, Inserted, After,
                                       EndOf, RequestFields
  <2>3. over <=> result.err # "none" /\ ~q.started
    BY <1>1, <1>7, <2>2 DEF Over, over
  <2>4. InOrder(r, m)
    BY <1>2, <1>5, <2>2, <2>3 DEF InOrder, Role
  <2> QED BY <1>4, <1>7, <2>2, <2>3, <2>4 DEF GoesTo, n, over, m, p
<1>8. CASE q.call = "EXEC"
  <2>2. /\ DOMAIN n = RequestFields /\ n.conn = q.conn /\ n.opening = "no"
        /\ n.doing = "insert" /\ n.started = q.started
        /\ \/ result.err = "none" /\ n.call = "SCAN" /\ n.sent = TRUE
           \/ /\ result.err # "none" /\ ~q.started /\ n.call \in {"PARSE", "DONE"}
              /\ n.sent = FALSE
           \/ /\ result.err # "none" /\ q.started /\ n.call \in {"COMMIT", "ROLLBACK"}
              /\ n.sent = FALSE
    BY <1>1, <1>2, <1>3, <1>8 DEF Retried, Again, NextCall, Concludes, Inserted, After,
                                       EndOf, RequestFields
  <2>3. over <=> result.err # "none" /\ ~q.started
    BY <1>1, <1>8, <2>2 DEF Over, over
  <2>4. InOrder(r, m)
    BY <1>2, <1>5, <2>2, <2>3 DEF InOrder, Role
  <2> QED BY <1>4, <1>8, <2>2, <2>3, <2>4 DEF GoesTo, n, over, m, p
<1>9. CASE q.call = "SCAN"
  <2>2. /\ DOMAIN n = RequestFields /\ n.conn = q.conn /\ n.opening = "no"
        /\ n.doing = "insert" /\ n.started = q.started /\ n.sent = FALSE
        /\ \/ ~q.started /\ n.call = "DONE"
           \/ q.started /\ n.call \in {"COMMIT", "ROLLBACK"}
    BY <1>1, <1>2, <1>3, <1>9 DEF Retried, Again, NextCall, Concludes, Inserted, After,
                                       EndOf, RequestFields
  <2>3. over <=> ~q.started
    BY <1>1, <1>9, <2>2 DEF Over, over
  <2>4. InOrder(r, m)
    BY <1>2, <1>5, <2>2, <2>3 DEF InOrder, Role
  <2> QED BY <1>4, <1>9, <2>2, <2>3, <2>4 DEF GoesTo, n, over, m, p
<1>10. CASE q.call \in {"COMMIT", "ROLLBACK"}
  <2>2. /\ DOMAIN n = RequestFields /\ n.conn = q.conn /\ n.opening = "no"
        /\ n.doing = "insert" /\ n.started = q.started /\ n.sent = FALSE
        /\ n.call = "DONE"
    BY <1>1, <1>2, <1>3, <1>10 DEF Retried, Again, NextCall, RequestFields
  <2>3. over = TRUE
    BY <1>1, <1>4, <1>10, <2>2 DEF Over, over
  <2>4. InOrder(r, m)
    BY <1>2, <1>5, <2>2, <2>3 DEF InOrder, Role
  <2> QED BY <1>4, <1>10, <2>2, <2>3, <2>4 DEF GoesTo, n, over, m, p
<1> QED BY <1>2, <1>6, <1>7, <1>8, <1>9, <1>10

\* A login prepares, executes and reads its rows, on one connection.
LEMMA FindGoes ==
  ASSUME NEW r \in Finds, NEW q, InOrder(r, q), q.conn # None, q.opening = "no",
         q.call # "DONE", NEW result
  PROVE  GoesTo(r, q, result)
<1> DEFINE p == Noting(q, result.err)
           n == Goes(q, result)
           over == Over(p, n, result.err)
           m == Freed(n, over)
<1>1. /\ DOMAIN p = RequestFields /\ p.sent = FALSE
      /\ p.call = q.call /\ p.doing = q.doing /\ p.conn = q.conn
      /\ p.opening = q.opening /\ p.started = q.started /\ p.failed = q.failed
  BY Notes DEF InOrder
<1>2. /\ r \notin Creates /\ r # Migration /\ q.doing = "find"
      /\ q.call \in {"PARSE", "EXEC", "ROWS"}
      /\ q.started = FALSE
  BY Roles DEF InOrder, Role, Requests
<1>3. n = IF Retried(p, result.err) THEN Again(p) ELSE NextCall(p, result)
  BY DEF Goes
<1>4. over \in BOOLEAN
  BY DEF Over
<1> HIDE DEF p, n, over, m
<1>5. DOMAIN n = RequestFields =>
        /\ DOMAIN m = RequestFields
        /\ m.call = n.call /\ m.doing = n.doing /\ m.sent = n.sent
        /\ m.opening = n.opening /\ m.started = n.started
        /\ m.conn = IF over THEN None ELSE n.conn
  BY <1>4, FreedFields DEF m
<1>6. /\ DOMAIN n = RequestFields /\ n.conn = q.conn /\ n.opening = "no"
      /\ n.doing = "find" /\ n.started = FALSE
      /\ \/ /\ result.err = "none" /\ q.call = "PARSE"
            /\ n.call = "EXEC" /\ n.sent = FALSE
         \/ /\ result.err = "none" /\ q.call = "EXEC"
            /\ n.call = "ROWS" /\ n.sent = TRUE
         \/ /\ result.err # "none" /\ q.call \in {"PARSE", "EXEC"}
            /\ n.call \in {"PARSE", "DONE"} /\ n.sent = FALSE
         \/ q.call = "ROWS" /\ n.call = "DONE" /\ n.sent = FALSE
  BY <1>1, <1>2, <1>3
     DEF Retried, Again, NextCall, Concludes, Found, After, EndOf, RequestFields
<1>7. over <=> result.err # "none" \/ q.call = "ROWS"
  BY <1>1, <1>2, <1>6 DEF Over, over
<1>8. InOrder(r, m)
  BY <1>2, <1>5, <1>6, <1>7 DEF InOrder, Role
<1> QED BY <1>2, <1>4, <1>6, <1>7, <1>8 DEF GoesTo, n, over, m, p

\* What autoMigrate does next is a statement of its own, or nothing.
LEMMA Migrates ==
  ASSUME NEW p, DOMAIN p = RequestFields, p.sent = FALSE, NEW result,
         p.doing \in Simple \cup Catalogue
  PROVE  LET n == autoMigrate(p, result)
         IN /\ DOMAIN n = RequestFields
            /\ n.conn = p.conn /\ n.opening = p.opening /\ n.started = p.started
            /\ n.sent = FALSE
            /\ \/ n.call = "DONE" /\ n.doing \in Simple \cup Catalogue
               \/ n.call = "PARSE" /\ n.doing \in Catalogue
               \/ n.call = "QUERY" /\ n.doing \in Simple
<1> DEFINE m == [p EXCEPT !.failed = @ \/ (p.doing \in Simple /\ result.err # "none")]
           n == autoMigrate(p, result)
<1>1. /\ DOMAIN m = RequestFields /\ m.sent = FALSE /\ m.doing = p.doing
      /\ m.conn = p.conn /\ m.opening = p.opening /\ m.started = p.started
  BY DEF RequestFields
<1> HIDE DEF m
<1>2. \A d \in Simple : /\ DOMAIN Executes(m, d) = RequestFields
                        /\ Executes(m, d).call = "QUERY" /\ Executes(m, d).doing = d
                        /\ Executes(m, d).conn = p.conn /\ Executes(m, d).sent = FALSE
                        /\ Executes(m, d).opening = p.opening
                        /\ Executes(m, d).started = p.started
  BY <1>1 DEF Executes, FirstCall, Simple, RequestFields
<1>3. \A d \in Catalogue : /\ DOMAIN Executes(m, d) = RequestFields
                           /\ Executes(m, d).call = "PARSE" /\ Executes(m, d).doing = d
                           /\ Executes(m, d).conn = p.conn /\ Executes(m, d).sent = FALSE
                           /\ Executes(m, d).opening = p.opening
                           /\ Executes(m, d).started = p.started
  BY <1>1 DEF Executes, FirstCall, Simple, Catalogue, RequestFields
<1>4. LET e == [m EXCEPT !.call = "DONE"]
      IN /\ DOMAIN e = RequestFields /\ e.call = "DONE" /\ e.doing = p.doing
         /\ e.conn = p.conn /\ e.sent = FALSE /\ e.opening = p.opening
         /\ e.started = p.started
  BY <1>1 DEF RequestFields
<1>5. \/ n = [m EXCEPT !.call = "DONE"]
      \/ \E d \in Simple : n = Executes(m, d)
      \/ \E d \in Catalogue : n = Executes(m, d)
  <2>1. CASE p.doing = "hasTable"
    <3>1. n = Executes(m, IF Counts(result) THEN "hasColumn" ELSE "createTable")
      BY <1>1, <2>1 DEF autoMigrate, m, Simple
    <3> QED BY <3>1 DEF Simple, Catalogue
  <2>2. CASE p.doing = "hasColumn"
    <3>1. n = Executes(m, IF Counts(result) THEN "hasIndex" ELSE "addColumn")
      BY <1>1, <2>2 DEF autoMigrate, m, Simple
    <3> QED BY <3>1 DEF Simple, Catalogue
  <2>3. CASE p.doing \in {"createTable", "addColumn"}
    <3>1. n = Executes(m, "hasIndex")
      BY <1>1, <2>3 DEF autoMigrate, m, Simple
    <3> QED BY <3>1 DEF Catalogue
  <2>4. CASE p.doing = "hasIndex"
    <3>1. n = addIndex(m, Counts(result))
      BY <1>1, <2>4 DEF autoMigrate, m, Simple
    <3> QED BY <3>1 DEF addIndex, Simple
  <2>5. CASE p.doing = "createIndex"
    BY <1>1, <2>5 DEF autoMigrate, m, Simple
  <2> QED BY <2>1, <2>2, <2>3, <2>4, <2>5 DEF Simple, Catalogue
<1>6. Simple \cap Catalogue = {} /\ p.doing \in Simple \cup Catalogue
  BY DEF Simple, Catalogue
<1> HIDE DEF n
<1>7. CASE n = [m EXCEPT !.call = "DONE"]
  BY <1>1, <1>4, <1>6, <1>7 DEF n
<1>8. CASE \E d \in Simple : n = Executes(m, d)
  BY <1>2, <1>8 DEF n
<1>9. CASE \E d \in Catalogue : n = Executes(m, d)
  BY <1>3, <1>9 DEF n
<1> QED BY <1>5, <1>7, <1>8, <1>9

\* The migration makes its statements one by one, each on a connection of its own.
LEMMA MigrationGoes ==
  ASSUME NEW q, InOrder(Migration, q), q.conn # None, q.opening = "no",
         q.call # "DONE", NEW result
  PROVE  GoesTo(Migration, q, result)
<1> DEFINE p == Noting(q, result.err)
           n == Goes(q, result)
           over == Over(p, n, result.err)
           m == Freed(n, over)
<1>1. /\ DOMAIN p = RequestFields /\ p.sent = FALSE
      /\ p.call = q.call /\ p.doing = q.doing /\ p.conn = q.conn
      /\ p.opening = q.opening /\ p.started = q.started /\ p.failed = q.failed
  BY Notes DEF InOrder
<1>2. /\ Migration \notin Creates /\ Migration \notin Finds
      /\ \/ q.doing \in Simple /\ q.call = "QUERY"
         \/ q.doing \in Catalogue /\ q.call \in {"PARSE", "EXEC", "SCAN"}
      /\ q.started = FALSE
  BY RequestsAssumption DEF InOrder, Role
<1>3. n = IF Retried(p, result.err) THEN Again(p) ELSE NextCall(p, result)
  BY DEF Goes
<1>4. over \in BOOLEAN
  BY DEF Over
<1> DEFINE e == autoMigrate(p, result)
<1>9. /\ DOMAIN e = RequestFields
      /\ e.conn = p.conn /\ e.opening = p.opening /\ e.started = p.started
      /\ e.sent = FALSE
      /\ \/ e.call = "DONE" /\ e.doing \in Simple \cup Catalogue
         \/ e.call = "PARSE" /\ e.doing \in Catalogue
         \/ e.call = "QUERY" /\ e.doing \in Simple
  <2> HIDE DEF p
  <2> QED BY <1>1, <1>2, Migrates
<1> HIDE DEF p, n, over, m, e
<1>5. DOMAIN n = RequestFields =>
        /\ DOMAIN m = RequestFields
        /\ m.call = n.call /\ m.doing = n.doing /\ m.sent = n.sent
        /\ m.opening = n.opening /\ m.started = n.started
        /\ m.conn = IF over THEN None ELSE n.conn
  BY <1>4, FreedFields DEF m
<1>10. p.doing \notin {"insert", "find"}
  BY <1>1, <1>2 DEF Simple, Catalogue
<1>6. /\ DOMAIN n = RequestFields /\ n.conn = q.conn /\ n.opening = "no"
      /\ n.started = FALSE
      /\ \/ /\ result.err = "none" /\ q.call = "PARSE" /\ n.doing \in Catalogue
            /\ n.call = "EXEC" /\ n.sent = FALSE
         \/ /\ result.err = "none" /\ q.call = "EXEC" /\ n.doing \in Catalogue
            /\ n.call = "SCAN" /\ n.sent = TRUE
         \/ /\ result.err # "none" \/ q.call \in {"SCAN", "QUERY"}
            /\ n.sent = FALSE
            /\ \/ n.call = "DONE" /\ n.doing \in Simple \cup Catalogue
               \/ n.call = "PARSE" /\ n.doing \in Catalogue
               \/ n.call = "QUERY" /\ n.doing \in Simple
  <2>1. CASE Retried(p, result.err)
    BY <1>1, <1>2, <1>3, <2>1 DEF Retried, Again, RequestFields
  <2>2. CASE ~Retried(p, result.err) /\ result.err = "none" /\ q.call \in {"PARSE", "EXEC"}
    BY <1>1, <1>2, <1>3, <1>10, <2>2 DEF NextCall, RequestFields
  <2>3. CASE ~Retried(p, result.err) /\ ~(result.err = "none" /\ q.call \in {"PARSE", "EXEC"})
    <3>1. n = e
      BY <1>1, <1>2, <1>3, <1>10, <2>3 DEF NextCall, Concludes, e
    <3> QED BY <1>1, <1>2, <1>9, <2>3, <3>1
  <2> QED BY <2>1, <2>2, <2>3
<1>7. over <=> result.err # "none" \/ q.call \in {"SCAN", "QUERY"}
  BY <1>1, <1>2, <1>6 DEF Over, over
<1>8. InOrder(Migration, m)
  BY <1>2, <1>5, <1>6, <1>7 DEF InOrder, Role
<1> QED BY <1>2, <1>4, <1>6, <1>7, <1>8 DEF GoesTo, n, over, m, p

\* Every request goes from call to call in its order.
LEMMA RequestGoes ==
  ASSUME NEW r \in Requests, NEW q, InOrder(r, q), q.conn # None, q.opening = "no",
         q.call # "DONE", NEW result
  PROVE  GoesTo(r, q, result)
BY CreateGoes, FindGoes, MigrationGoes DEF Requests

-----------------------------------------------------------------------------
(* What is on a connection whose session lives. *)

\* The server is in a transaction when the request has begun one, and an error in it
\* leaves it failed.
TxOf(q) == IF q.started THEN {"inTransaction", "failed"} ELSE {"idle"}
ErrorIn(q) == IF q.started THEN "failed" ELSE "idle"

\* While the connection is opened the server is asked, or asks for the password, or
\* has let the client in.
Opening(q, cn, status, command) ==
  \/ /\ status = "startup" /\ cn = Fresh
     /\ command = IF q.opening = "startup" THEN "STARTUP" ELSE "PASSWORD"
  \/ /\ status = "startup" /\ cn = Sound("idle", "none", <<"R5">>)
     /\ command = None /\ q.opening = "startup"
  \/ status = "idle" /\ cn = Sound("idle", "none", <<"R0", "K", "idle">>) /\ command = None

\* The call is not made yet, or on its way.
Unanswered(q, cn, status, command) ==
  /\ status \in TxOf(q) /\ cn = Sound(status, "none", <<>>)
  /\ command = IF q.sent THEN Wire(cn, q.call) ELSE None

\* What the server says to a call, made in the status before, and its status then.
Answers(q, before, inbox, st) ==
  \/ q.call = "BEGIN" /\ st = "inTransaction" /\ inbox = <<"BEGIN", st>>
  \/ q.call = "BEGIN" /\ st = "idle" /\ inbox = <<"E", st>>
  \/ q.call = "PARSE" /\ st = before /\ inbox = <<"1", "T", st>>
  \/ q.call \in {"PARSE", "EXEC"} /\ st = ErrorIn(q) /\ inbox = <<"E", st>>
  \/ q.call = "EXEC" /\ st = ErrorIn(q) /\ inbox = <<"2", "E", st>>
  \/ q.call = "EXEC" /\ st = before /\ inbox = <<"2", "D", "INSERT", st>>
  \/ q.call = "EXEC" /\ st = before /\ inbox = <<"2", "SELECT", st>>
  \/ q.call = "EXEC" /\ st = before /\ \E t \in Row : inbox = <<"2", t, "SELECT", st>>
  \/ q.call = "COMMIT" /\ before # "failed" /\ st = "idle" /\ inbox = <<"COMMIT", st>>
  \/ q.call = "COMMIT" /\ before # "failed" /\ st = "idle" /\ inbox = <<"E", st>>
  \/ q.call = "COMMIT" /\ before = "failed" /\ st = "idle" /\ inbox = <<"ROLLBACK", st>>
  \/ q.call = "ROLLBACK" /\ st = "idle" /\ inbox = <<"ROLLBACK", st>>
  \/ q.call = "QUERY" /\ st = "idle" /\ inbox = <<"E", st>>
  \/ q.call = "QUERY" /\ st = "idle" /\ inbox = <<"CREATE", st>>

Replied(q, cn, status, command) ==
  /\ q.sent /\ command = None
  /\ cn.txnStatus \in TxOf(q) /\ cn = Sound(cn.txnStatus, "none", cn.inbox)
  /\ Answers(q, cn.txnStatus, cn.inbox, status)

\* The first row, or the end of the rows, is kept, and the rest not read.
HasRows(cn, status) ==
  \E before \in Status, t \in Tag \cup Row,
     rest \in {<<"INSERT", status>>, <<"SELECT", status>>, <<status>>} :
    cn = Sound(before, t, rest)

Fetching(q, cn, status, command) ==
  /\ q.call \in {"SCAN", "ROWS"} /\ command = None
  /\ status \in TxOf(q) /\ HasRows(cn, status)

Stage(q, cn, status, command) ==
  IF q.opening # "no" THEN Opening(q, cn, status, command)
  ELSE \/ /\ q.call \notin {"SCAN", "ROWS"}
          /\ Unanswered(q, cn, status, command) \/ Replied(q, cn, status, command)
       \/ Fetching(q, cn, status, command)

\* What a call leaves on the connection: rows, or the server's status and nothing more.
Leaves(q, result, st) ==
  /\ q.call = "EXEC" /\ result.err = "none" => st \in TxOf(q) /\ HasRows(result.cn, st)
  /\ ~(q.call = "EXEC" /\ result.err = "none") => result.cn = Sound(st, "none", <<>>)
  /\ q.call = "BEGIN" => st = IF result.err = "none" THEN "inTransaction" ELSE "idle"
  /\ q.call \in {"COMMIT", "ROLLBACK"} => st = "idle"
  /\ q.call \notin {"BEGIN", "COMMIT", "ROLLBACK"} => st \in TxOf(q)

\* A request that is answered leaves its connection so.
LEMMA RepliedLeaves ==
  ASSUME NEW r \in Requests, NEW q, InOrder(r, q), NEW cn, NEW st, NEW command,
         Replied(q, cn, st, command), q.call \notin {"SCAN", "ROWS"}
  PROVE  Leaves(q, Concluded(cn, q.call), st)
<1> DEFINE result == Concluded(cn, q.call)
<1>1. PICK before, inbox : /\ before \in TxOf(q) /\ cn = Sound(before, "none", inbox)
                           /\ Answers(q, before, inbox, st)
  BY DEF Replied
<1>2. /\ q.call = "QUERY" => q.started = FALSE
      /\ q.call = "BEGIN" => q.started = FALSE
      /\ q.call \in {"COMMIT", "ROLLBACK"} => q.started = TRUE
      /\ q.started \in BOOLEAN
  BY Roles DEF InOrder, Role
<1>3. /\ before \in Status /\ st \in Status /\ "idle" \in Status /\ ErrorIn(q) \in TxOf(q)
      /\ cn.txnStatus = before
  BY <1>1 DEF TxOf, ErrorIn, Answers, Status, Sound
<1>4. CASE q.call = "BEGIN"
  <2>1. result = Begun(cn)
    BY <1>4 DEF Concluded
  <2>2. CASE st = "inTransaction" /\ inbox = <<"BEGIN", st>>
    <3>1. result = Result(Sound("inTransaction", "none", <<>>), "none", {"BEGIN"})
      BY <1>1, <2>1, <2>2, ReadsBegun
    <3> QED BY <1>4, <2>2, <3>1 DEF Leaves, Result
  <2>3. CASE st = "idle" /\ inbox = <<"E", st>>
    <3>1. result = Result(Sound("idle", "none", <<>>), "server", {"E"})
      BY <1>1, <2>1, <2>3, ReadsBegun
    <3> QED BY <1>4, <2>3, <3>1 DEF Leaves, Result
  <2> QED BY <1>1, <1>4, <2>2, <2>3 DEF Answers
<1>5. CASE q.call = "PARSE"
  <2>1. result = prepareTo(cn)
    BY <1>5 DEF Concluded
  <2>2. result.cn = Sound(st, "none", <<>>)
    <3>1. inbox = <<"1", "T", st>> \/ inbox = <<"E", st>>
      BY <1>1, <1>5 DEF Answers
    <3>2. CASE inbox = <<"1", "T", st>>
      <4>1. result = Result(Sound(st, "none", <<>>), "none", {})
        BY <1>1, <1>3, <2>1, <3>2, ReadsPrepared
      <4> QED BY <4>1 DEF Result
    <3>3. CASE inbox = <<"E", st>>
      <4>1. result = Result(Sound(st, "none", <<>>), "server", {})
        BY <1>1, <1>3, <2>1, <3>3, ReadsPrepared
      <4> QED BY <4>1 DEF Result
    <3> QED BY <3>1, <3>2, <3>3
  <2>3. st \in TxOf(q)
    BY <1>1, <1>3, <1>5 DEF Answers
  <2> QED BY <1>5, <2>2, <2>3 DEF Leaves
<1>6. CASE q.call = "EXEC"
  <2>1. result = exec(cn)
    BY <1>6 DEF Concluded
  <2>2. CASE inbox = <<"E", st>> \/ inbox = <<"2", "E", st>>
    <3>1. result = Result(Sound(st, "none", <<>>), "server", {})
      <4>1. CASE inbox = <<"E", st>>
        BY <1>1, <1>3, <2>1, <4>1, ReadsExecuted
      <4>2. CASE inbox = <<"2", "E", st>>
        BY <1>1, <1>3, <2>1, <4>2, ReadsExecuted
      <4> QED BY <2>2, <4>1, <4>2
    <3>2. st \in TxOf(q)
      BY <1>1, <1>3, <1>6 DEF Answers
    <3> QED BY <1>6, <3>1, <3>2 DEF Leaves, Result
  <2>3. CASE /\ st = before
             /\ \/ inbox = <<"2", "D", "INSERT", st>>
                \/ inbox = <<"2", "SELECT", st>>
                \/ \E t \in Row : inbox = <<"2", t, "SELECT", st>>
    <3>1. \E t \in Tag \cup Row, rest \in {<<"INSERT", st>>, <<"SELECT", st>>, <<st>>} :
            result.cn = Sound(before, t, rest) /\ result.err = "none"
      <4>1. CASE inbox = <<"2", "D", "INSERT", st>>
        <5>1. result = Result(Sound(before, "D", <<"INSERT", st>>), "none", {"D"})
          BY <1>1, <1>3, <2>1, <4>1, ReadsExecuted
        <5> QED BY <5>1 DEF Result, Row
      <4>2. CASE inbox = <<"2", "SELECT", st>>
        <5>1. result = Result(Sound(before, "SELECT", <<st>>), "none", {"SELECT"})
          BY <1>1, <1>3, <2>1, <4>2, ReadsExecuted
        <5> QED BY <5>1 DEF Result, Tag
      <4>3. CASE \E t \in Row : inbox = <<"2", t, "SELECT", st>>
        <5>1. PICK t \in Row : inbox = <<"2", t, "SELECT", st>>
          BY <4>3
        <5>2. result = Result(Sound(before, t, <<"SELECT", st>>), "none", {t})
          BY <1>1, <2>1, <5>1, ReadsRow
        <5> QED BY <5>2 DEF Result
      <4> QED BY <2>3, <4>1, <4>2, <4>3
    <3>2. st \in TxOf(q)
      BY <1>1, <2>3
    <3>3. HasRows(result.cn, st) /\ result.err = "none"
      BY <1>3, <3>1 DEF HasRows
    <3> QED BY <1>6, <3>2, <3>3 DEF Leaves
  <2> QED BY <1>1, <1>6, <2>2, <2>3 DEF Answers
<1>7. CASE q.call = "COMMIT"
  <2>1. st = "idle"
    BY <1>1, <1>7 DEF Answers
  <2>2. CASE before = "failed"
    <3>1. inbox = <<"ROLLBACK", "idle">>
      BY <1>1, <1>7, <2>1, <2>2 DEF Answers
    <3>2. result = NotCommitted(RolledBack(cn))
      BY <1>3, <1>7, <2>2 DEF Concluded, Wire
    <3>3. RolledBack(cn) = Result(Sound("idle", "none", <<>>), "none", {"ROLLBACK"})
      BY <1>1, <3>1, ReadsEnded
    <3>4. result.cn = Sound("idle", "none", <<>>)
      BY <3>2, <3>3 DEF NotCommitted, Result
    <3> QED BY <1>7, <2>1, <3>4 DEF Leaves
  <2>3. CASE before # "failed"
    <3>1. inbox = <<"COMMIT", "idle">> \/ inbox = <<"E", "idle">>
      BY <1>1, <1>7, <2>1, <2>3 DEF Answers
    <3>2. result = Committed(cn)
      BY <1>3, <1>7, <2>3 DEF Concluded, Wire
    <3>3. result.cn = Sound("idle", "none", <<>>)
      BY <1>1, <3>1, <3>2, ReadsEnded DEF Result
    <3> QED BY <1>7, <2>1, <3>3 DEF Leaves
  <2> QED BY <2>2, <2>3
<1>8. CASE q.call = "ROLLBACK"
  <2>1. st = "idle" /\ inbox = <<"ROLLBACK", "idle">>
    BY <1>1, <1>8 DEF Answers
  <2>2. result = RolledBack(cn)
    BY <1>8 DEF Concluded
  <2>3. result.cn = Sound("idle", "none", <<>>)
    BY <1>1, <2>1, <2>2, ReadsEnded DEF Result
  <2> QED BY <1>8, <2>1, <2>3 DEF Leaves
<1>9. CASE q.call = "QUERY"
  <2>1. st = "idle" /\ (inbox = <<"E", st>> \/ inbox = <<"CREATE", st>>)
    BY <1>1, <1>9 DEF Answers
  <2>2. result = simpleExec(cn)
    BY <1>9 DEF Concluded
  <2>3. "E" \in Passed /\ "CREATE" \in Passed
    BY DEF Passed, Tag
  <2>4. PICK t \in Passed : inbox = <<t, st>>
    BY <2>1, <2>3
  <2>5. simpleExec(Sound(before, "none", <<t, st>>))
          = Result(Sound(st, "none", <<>>), IF t = "E" THEN "server" ELSE "none", {t})
    BY <1>3, ReadsSimple
  <2>6. result.cn = Sound(st, "none", <<>>)
    BY <1>1, <2>2, <2>4, <2>5 DEF Result
  <2> QED BY <1>2, <1>9, <2>1, <2>6 DEF Leaves, TxOf
<1> QED BY <1>1, <1>4, <1>5, <1>6, <1>7, <1>8, <1>9 DEF Answers

\* And so does one that reads its rows.
LEMMA FetchingLeaves ==
  ASSUME NEW q, NEW cn, NEW st, NEW command, Fetching(q, cn, st, command)
  PROVE  Leaves(q, Concluded(cn, q.call), st)
<1>1. PICK before \in Status, t \in Tag \cup Row,
            rest \in {<<"INSERT", st>>, <<"SELECT", st>>, <<st>>} :
        cn = Sound(before, t, rest)
  BY DEF Fetching, HasRows
<1>2. st \in Status /\ st \in TxOf(q) /\ q.call \in {"SCAN", "ROWS"}
  BY DEF Fetching, TxOf, Status
<1>3. RowScan(cn).cn = Sound(st, "none", <<>>) /\ RowsLoop(cn).cn = Sound(st, "none", <<>>)
  BY <1>1, <1>2, ReadsRest
<1>4. Concluded(cn, q.call).cn = Sound(st, "none", <<>>)
  BY <1>2, <1>3 DEF Concluded
<1> QED BY <1>2, <1>4 DEF Leaves

\* A session is opened with ReadyForQuery, after a password or without one.
LEMMA OpensReady ==
  LET cn == Sound("idle", "none", <<"R0", "K", "idle">>)
      result == Result(Sound("idle", "none", <<>>), "none", {})
  IN startup(cn) = result /\ auth(cn) = result
<1> DEFINE inbox == <<"R0", "K", "idle">>
           cn == Sound("idle", "none", inbox)
           I == {i \in 1 .. Len(inbox) : inbox[i] \notin {"R0", "K"}}
           stop == SelectInSeq(inbox, LAMBDA t : t \notin {"R0", "K"})
           left == [cn EXCEPT !.inbox = Rest(SubSeq(inbox, stop, Len(inbox)))]
<1>1. /\ Len(inbox) = 3 /\ inbox[1] = "R0" /\ inbox[2] = "K" /\ inbox[3] = "idle"
      /\ inbox \in Seq({"R0", "K", "idle"}) /\ Head(inbox) = "R0"
  OBVIOUS
<1> HIDE DEF inbox
<1>2. I = {3}
  BY <1>1
<1>3. stop = 3
  <2>1. Min({3}) = 3
    BY DEF Min
  <2> QED BY <1>2, <2>1 DEF SelectInSeq
<1>4. SubSeq(inbox, 3, 3) = <<"idle">>
  <2> DEFINE end == SubSeq(inbox, 3, 3)
             one == <<"idle">>
  <2>1. /\ end \in Seq({"R0", "K", "idle"}) /\ Len(end) = 1 /\ end[1] = "idle"
    <3>1. \A i \in 3 .. 3 : inbox[i] \in {"R0", "K", "idle"}
      BY <1>1
    <3> QED BY <1>1, <3>1, SubSeqProperties
  <2>2. one \in Seq({"R0", "K", "idle"}) /\ Len(one) = 1 /\ one[1] = "idle"
    OBVIOUS
  <2> HIDE DEF end, one
  <2>3. \A i \in 1 .. Len(end) : end[i] = one[i]
    BY <2>1, <2>2
  <2>4. end = one
    BY <2>1, <2>2, <2>3, SeqEqual
  <2> QED BY <2>4 DEF end, one
<1>5. Rest(<<"idle">>) = <<>>
  BY DEF Rest, Ending
<1>6. SubSeq(inbox, stop, Len(inbox)) = <<"idle">>
  BY <1>1, <1>3, <1>4
<1> HIDE DEF stop
<1>7. Settled(left, "idle") = Sound("idle", "none", <<>>)
  <2> DEFINE d == Settled(left, "idle")
  <2>1. /\ DOMAIN d = {"bad", "txnStatus", "saved", "inbox"}
        /\ d = [f \in DOMAIN d |-> d[f]]
    BY DEF Sound, Settled
  <2>2. d.bad = FALSE /\ d.txnStatus = "idle" /\ d.saved = "none" /\ d.inbox = <<>>
    BY <1>5, <1>6 DEF Sound, Settled
  <2> HIDE DEF d
  <2>3. d = Sound("idle", "none", <<>>)
    BY <2>1, <2>2 DEF Sound
  <2> QED BY <2>3 DEF d
<1>8. cn.inbox = inbox
  BY DEF Sound
<1> HIDE DEF cn, left
<1>9. startup(cn) = Result(Sound("idle", "none", <<>>), "none", {})
  BY <1>1, <1>3, <1>7, <1>8 DEF startup, left, stop, Status
<1>10. auth(cn) = startup(cn)
  BY <1>1, <1>8 DEF auth
<1> QED BY <1>9, <1>10 DEF cn, inbox

-----------------------------------------------------------------------------
(* The invariant. *)

Live(c) == session[c] # NoSession

\* What is open is either free or with one request, and the requests keep their order.
HoldInv ==
  /\ DOMAIN request = Requests /\ DOMAIN conn = Conn /\ DOMAIN asked = Conn
  /\ DOMAIN session = Conn
  /\ open \subseteq Conn /\ free \subseteq open
  /\ \A r \in Requests : request[r].conn # None => request[r].conn \in open \ free
  /\ \A c \in open \ free : \E r \in Requests : request[r].conn = c
  /\ \A r, s \in Requests : request[r].conn = request[s].conn /\ request[r].conn # None => r = s
  /\ \A r \in Requests : InOrder(r, request[r])

\* Only a session is asked; what is closed has none, and a free one is at rest.
ConnOk(c) ==
  /\ asked[c] # None => Live(c)
  /\ c \notin open => ~Live(c) /\ conn[c] = Fresh
  /\ c \in free /\ Live(c) =>
       conn[c] = Sound("idle", "none", <<>>) /\ session[c].status = "idle" /\ asked[c] = None

\* As long as the session lives, the connection is where its request is.
HeldOk(r) ==
  LET c == request[r].conn
  IN c # None /\ Live(c) => Stage(request[r], conn[c], session[c].status, asked[c])

RegistrationInv ==
  HoldInv /\ (\A c \in Conn : ConnOk(c)) /\ (\A r \in Requests : HeldOk(r))

\* The connection of a request is its own.
LEMMA OwnConn ==
  ASSUME RegistrationInv, NEW r \in Requests, request[r].conn # None
  PROVE  /\ request[r].conn \in Conn /\ request[r].conn \in open /\ request[r].conn \notin free
         /\ \A s \in Requests \ {r} : request[s].conn # request[r].conn
         /\ InOrder(r, request[r]) /\ HeldOk(r) /\ ConnOk(request[r].conn)
BY DEF RegistrationInv, HoldInv

\* A step of a request changes it and one connection, which is its own or nobody's.
LEMMA OneMoves ==
  ASSUME RegistrationInv, NEW r \in Requests, NEW c \in Conn, NEW q,
         request' = [request EXCEPT ![r] = q], InOrder(r, q),
         DOMAIN conn' = Conn, DOMAIN asked' = Conn, DOMAIN session' = Conn,
         open' \subseteq Conn, free' \subseteq open',
         \A d \in Conn \ {c} :
           /\ conn'[d] = conn[d] /\ session'[d] = session[d] /\ asked'[d] = asked[d]
           /\ d \in open' <=> d \in open
           /\ d \in free' <=> d \in free,
         request[r].conn \in {None, c}, q.conn \in {None, c},
         \A s \in Requests \ {r} : request[s].conn # c,
         c \in open' \ free' <=> q.conn = c,
         ConnOk(c)',
         q.conn = c /\ session'[c] # NoSession =>
           Stage(q, conn'[c], session'[c].status, asked'[c])
  PROVE  RegistrationInv'
<1>1. /\ DOMAIN request' = Requests /\ request'[r] = q
      /\ \A s \in Requests \ {r} : request'[s] = request[s]
  BY DEF RegistrationInv, HoldInv
<1>2. None \notin Conn
  BY ConnsAssumption
<1>3. HoldInv'
  <2>1. \A s \in Requests : request'[s].conn # None => request'[s].conn \in open' \ free'
    <3> SUFFICES ASSUME NEW s \in Requests, request'[s].conn # None
                 PROVE  request'[s].conn \in open' \ free'
      OBVIOUS
    <3>1. CASE s = r
      BY <1>1, <3>1
    <3>2. CASE s # r
      BY <1>1, <3>2 DEF RegistrationInv, HoldInv
    <3> QED BY <3>1, <3>2
  <2>2. \A d \in open' \ free' : \E s \in Requests : request'[s].conn = d
    <3> SUFFICES ASSUME NEW d \in open' \ free'
                 PROVE  \E s \in Requests : request'[s].conn = d
      OBVIOUS
    <3>1. CASE d = c
      BY <1>1, <3>1
    <3>2. CASE d # c
      <4>1. PICK s \in Requests : request[s].conn = d
        BY <3>2 DEF RegistrationInv, HoldInv
      <4>2. s # r
        BY <1>2, <3>2, <4>1
      <4> QED BY <1>1, <4>1, <4>2
    <3> QED BY <3>1, <3>2
  <2>3. \A s, t \in Requests :
         request'[s].conn = request'[t].conn /\ request'[s].conn # None => s = t
    BY <1>1 DEF RegistrationInv, HoldInv
  <2>4. \A s \in Requests : InOrder(s, request'[s])
    BY <1>1 DEF RegistrationInv, HoldInv
  <2>5. (\A s \in Requests : InOrder(s, request[s]))'
    BY <2>4 DEF InOrder, Role
  <2> QED BY <1>1, <2>1, <2>2, <2>3, <2>5 DEF HoldInv
<1>4. ASSUME NEW d \in Conn PROVE ConnOk(d)'
  BY DEF RegistrationInv, ConnOk, Live
<1>5. ASSUME NEW s \in Requests PROVE HeldOk(s)'
  <2>1. CASE s = r
    <3>1. q.conn # None => q.conn = c
      OBVIOUS
    <3> QED BY <1>1, <2>1, <3>1 DEF HeldOk, Live
  <2>2. CASE s # r
    <3>1. /\ request'[s] = request[s] /\ HeldOk(s)
          /\ request[s].conn # None => request[s].conn \in Conn \ {c}
      BY <1>1, <2>2 DEF RegistrationInv, HoldInv
    <3> QED BY <3>1 DEF HeldOk, Live
  <2> QED BY <2>1, <2>2
<1> QED BY <1>3, <1>4, <1>5 DEF RegistrationInv

\* A step of the server or of the network changes one connection.
LEMMA ConnMoves ==
  ASSUME RegistrationInv, NEW c \in Conn, UNCHANGED <<request, open, free>>,
         DOMAIN conn' = Conn, DOMAIN asked' = Conn, DOMAIN session' = Conn,
         \A d \in Conn \ {c} :
           conn'[d] = conn[d] /\ session'[d] = session[d] /\ asked'[d] = asked[d],
         ConnOk(c)',
         \A r \in Requests : request[r].conn = c /\ session'[c] # NoSession =>
           Stage(request[r], conn'[c], session'[c].status, asked'[c])
  PROVE  RegistrationInv'
<1>1. HoldInv'
  BY DEF RegistrationInv, HoldInv, InOrder, Role
<1>2. ASSUME NEW d \in Conn PROVE ConnOk(d)'
  BY DEF RegistrationInv, ConnOk, Live
<1>3. ASSUME NEW s \in Requests PROVE HeldOk(s)'
  <2>1. CASE request[s].conn = c
    BY <2>1 DEF HeldOk, Live
  <2>2. CASE request[s].conn # c
    <3>1. HeldOk(s) /\ (request[s].conn # None => request[s].conn \in Conn \ {c})
      BY <2>2 DEF RegistrationInv, HoldInv
    <3> QED BY <3>1 DEF HeldOk, Live
  <2> QED BY <2>1, <2>2
<1> QED BY <1>1, <1>2, <1>3 DEF RegistrationInv

-----------------------------------------------------------------------------
(* The requests' steps. *)

\* A call that returns, with what it left on the connection.
LEMMA ReturnsKeeps ==
  ASSUME RegistrationInv, NEW r \in Requests, NEW result, Returns(r, result),
         request[r].conn # None, request[r].opening = "no", request[r].call # "DONE",
         Live(request[r].conn) =>
           /\ Leaves(request[r], result, session[request[r].conn].status)
           /\ asked[request[r].conn] = None
  PROVE  RegistrationInv'
<1> DEFINE q == request[r]
           n == Goes(q, result)
           p == Noting(q, result.err)
           over == Over(p, n, result.err)
           m == Freed(n, over)
<1>0. PICK c \in Conn : c = q.conn
  BY OwnConn
<1>1. /\ c \in Conn /\ c \in open /\ c \notin free
      /\ \A s \in Requests \ {r} : request[s].conn # c
      /\ InOrder(r, q) /\ ConnOk(c)
  BY <1>0, OwnConn
<1>2. GoesTo(r, q, result)
  BY <1>0, <1>1, RequestGoes
<1>3. /\ request' = [request EXCEPT ![r] = m]
      /\ over => PutConn(c, result.cn, PutError(p, result.err))
      /\ ~over => KeepConn(c, result.cn)
  BY <1>0 DEF Returns, Goes, Freed
<1>4. /\ DOMAIN n = RequestFields /\ n.conn = c /\ n.opening = "no"
      /\ n.started = IF q.call = "BEGIN" THEN result.err = "none" ELSE q.started
      /\ n.sent = (q.call = "EXEC" /\ result.err = "none")
      /\ n.call \in {"SCAN", "ROWS"} <=> q.call = "EXEC" /\ result.err = "none"
      /\ over \in BOOLEAN
      /\ over => q.call \in {"COMMIT", "ROLLBACK"} \/ ~n.started
      /\ over /\ q.call = "EXEC" => result.err # "none"
      /\ InOrder(r, m)
  BY <1>0, <1>2 DEF GoesTo
<1>5. q.call \in {"COMMIT", "ROLLBACK"} => over
  <2>1. p.call = q.call
    BY <1>1, Notes DEF InOrder
  <2> QED BY <2>1 DEF Over
<1>6. /\ m.conn = IF over THEN None ELSE c
      /\ ~over => m = n
  BY <1>4, FreedFields DEF Freed
<1>7. /\ DOMAIN conn = Conn /\ DOMAIN asked = Conn /\ DOMAIN session = Conn
      /\ open \subseteq Conn /\ free \subseteq open
  BY DEF RegistrationInv, HoldInv
<1>8. None \notin Conn
  BY ConnsAssumption
<1> DEFINE st == session[c].status
<1>9. Live(c) => Leaves(q, result, st) /\ asked[c] = None
  BY <1>0
<1> HIDE DEF n, over, m, p, q
<1>10. q = request[r] /\ q.conn = c
  BY <1>0 DEF q
<1> HIDE DEF st
<1>11. CASE over
  <2>1. Live(c) => result.cn = Sound("idle", "none", <<>>) /\ st = "idle"
    <3> SUFFICES ASSUME Live(c) PROVE result.cn = Sound("idle", "none", <<>>) /\ st = "idle"
      OBVIOUS
    <3>1. result.cn = Sound(st, "none", <<>>)
      BY <1>4, <1>9, <1>11 DEF Leaves
    <3>2. st = "idle"
      <4>1. CASE q.call \in {"COMMIT", "ROLLBACK"}
        BY <1>9, <4>1 DEF Leaves
      <4>2. CASE q.call = "BEGIN"
        BY <1>4, <1>9, <1>11, <4>2 DEF Leaves
      <4>3. CASE q.call \notin {"BEGIN", "COMMIT", "ROLLBACK"}
        <5>1. ~q.started /\ st \in TxOf(q)
          BY <1>4, <1>9, <1>11, <4>3 DEF Leaves
        <5> QED BY <5>1 DEF TxOf
      <4> QED BY <4>1, <4>2, <4>3
    <3> QED BY <3>1, <3>2
  <2>2. m.conn = None
    BY <1>6, <1>11
  <2>3. CASE Kept(PutError(p, result.err))
    <3>1. /\ free' = free \cup {c} /\ conn' = [conn EXCEPT ![c] = result.cn]
          /\ open' = open /\ session' = session /\ asked' = asked
      BY <1>3, <1>11, <2>3 DEF PutConn
    <3>2. ConnOk(c)'
      BY <1>1, <1>7, <1>9, <2>1, <3>1 DEF ConnOk, Live, st
    <3> QED BY <1>1, <1>3, <1>4, <1>7, <1>8, <1>10, <2>2, <3>1, <3>2, OneMoves
  <2>4. CASE ~Kept(PutError(p, result.err))
    <3>1. /\ open' = open \ {c} /\ conn' = [conn EXCEPT ![c] = Fresh]
          /\ session' = IF result.cn.bad THEN session ELSE [session EXCEPT ![c] = NoSession]
          /\ asked' = [asked EXCEPT ![c] = None] /\ free' = free
      BY <1>3, <1>11, <2>4 DEF PutConn
    <3>2. session'[c] = NoSession
      BY <1>1, <1>7, <2>1, <3>1 DEF Live, Sound
    <3>3. ConnOk(c)'
      BY <1>1, <1>7, <3>1, <3>2 DEF ConnOk, Live
    <3>4. DOMAIN session' = Conn /\ \A d \in Conn \ {c} : session'[d] = session[d]
      BY <1>7, <3>1
    <3> QED BY <1>1, <1>3, <1>4, <1>7, <1>8, <1>10, <2>2, <3>1, <3>3, <3>4, OneMoves
  <2> QED BY <2>3, <2>4
<1>12. CASE ~over
  <2>1. conn' = [conn EXCEPT ![c] = result.cn] /\ UNCHANGED <<open, free, session, asked>>
    BY <1>3, <1>12 DEF KeepConn
  <2>2. m = n /\ m.conn = c
    BY <1>6, <1>12
  <2>3. ConnOk(c)'
    BY <1>1, <1>7, <2>1 DEF ConnOk, Live
  <2>4. session'[c] # NoSession => Stage(m, conn'[c], session'[c].status, asked'[c])
    <3> SUFFICES ASSUME Live(c) PROVE Stage(m, result.cn, st, None)
      BY <1>1, <1>7, <1>9, <2>1 DEF Live, st
    <3>1. q.call \notin {"COMMIT", "ROLLBACK"}
      BY <1>5, <1>12
    <3>2. st \in TxOf(n)
      <4>1. CASE q.call = "BEGIN"
        BY <1>4, <1>9, <4>1 DEF Leaves, TxOf
      <4>2. CASE q.call # "BEGIN"
        BY <1>4, <1>9, <3>1, <4>2 DEF Leaves, TxOf
      <4> QED BY <4>1, <4>2
    <3>3. CASE q.call = "EXEC" /\ result.err = "none"
      BY <1>4, <1>9, <2>2, <3>2, <3>3 DEF Leaves, Stage, Fetching
    <3>4. CASE ~(q.call = "EXEC" /\ result.err = "none")
      BY <1>4, <1>9, <2>2, <3>2, <3>4 DEF Leaves, Stage, Unanswered
    <3> QED BY <3>3, <3>4
  <2> QED BY <1>1, <1>3, <1>4, <1>7, <1>8, <1>10, <2>1, <2>2, <2>3, <2>4, OneMoves
<1> QED BY <1>4, <1>11, <1>12

\* A request that waits for a connection is before its first call or between two.
LEMMA WaitsFor ==
  ASSUME RegistrationInv, NEW r \in Requests, Waits(r)
  PROVE  /\ InOrder(r, request[r]) /\ request[r].conn = None /\ request[r].opening = "no"
         /\ ~request[r].sent /\ request[r].started = FALSE
         /\ request[r].call \in {"BEGIN", "PARSE", "QUERY"}
<1>1. InOrder(r, request[r]) /\ request[r].conn = None /\ request[r].call # "DONE"
  BY DEF RegistrationInv, HoldInv, Waits
<1> QED BY <1>1 DEF InOrder, Role

\* It takes a free connection.
LEMMA TakeKeeps ==
  ASSUME RegistrationInv, NEW r \in Requests, Take(r)
  PROVE  RegistrationInv'
<1>1. PICK c \in free : free' = free \ {c} /\ request' = [request EXCEPT ![r].conn = c]
  BY DEF Take
<1> DEFINE m == [request[r] EXCEPT !.conn = c]
<1>2. /\ InOrder(r, request[r]) /\ request[r].conn = None /\ request[r].opening = "no"
      /\ ~request[r].sent /\ request[r].started = FALSE
      /\ request[r].call \in {"BEGIN", "PARSE", "QUERY"}
  BY WaitsFor DEF Take
<1>3. /\ DOMAIN m = RequestFields /\ m.conn = c /\ m.opening = "no" /\ m.sent = FALSE
      /\ m.started = FALSE /\ m.call = request[r].call /\ m.doing = request[r].doing
  BY <1>2 DEF InOrder, RequestFields
<1>4. /\ DOMAIN conn = Conn /\ DOMAIN asked = Conn /\ DOMAIN session = Conn
      /\ DOMAIN request = Requests /\ open \subseteq Conn /\ free \subseteq open
      /\ ConnOk(c) /\ \A s \in Requests : request[s].conn # c
  BY <1>1, ConnsAssumption DEF RegistrationInv, HoldInv
<1>5. request' = [request EXCEPT ![r] = m]
  BY <1>1
<1> HIDE DEF m
<1>6. c \in Conn /\ None \notin Conn
  BY <1>4, ConnsAssumption
<1>7. InOrder(r, m)
  BY <1>2, <1>3, <1>6 DEF InOrder, Role
<1>8. UNCHANGED <<open, conn, asked, session>>
  BY DEF Take
<1>9. ConnOk(c)'
  BY <1>1, <1>4, <1>8 DEF ConnOk, Live
<1>10. session'[c] # NoSession => Stage(m, conn'[c], session'[c].status, asked'[c])
  BY <1>1, <1>2, <1>3, <1>4, <1>8 DEF ConnOk, Live, Stage, Unanswered, TxOf
<1> QED BY <1>1, <1>2, <1>3, <1>4, <1>5, <1>6, <1>7, <1>8, <1>9, <1>10, OneMoves

\* Or it has one opened.
LEMMA OpenKeeps ==
  ASSUME RegistrationInv, NEW r \in Requests, Open(r)
  PROVE  RegistrationInv'
<1>1. PICK c \in Unused :
        /\ open' = open \cup {c} /\ session' = [session EXCEPT ![c] = NewSession]
        /\ asked' = [asked EXCEPT ![c] = "STARTUP"]
        /\ request' = [request EXCEPT ![r].conn = c, ![r].opening = "startup"]
        /\ UNCHANGED <<free, conn>>
  BY DEF Open
<1> DEFINE m == [request[r] EXCEPT !.conn = c, !.opening = "startup"]
<1>2. /\ InOrder(r, request[r]) /\ request[r].conn = None /\ request[r].opening = "no"
      /\ ~request[r].sent /\ request[r].started = FALSE
      /\ request[r].call \in {"BEGIN", "PARSE", "QUERY"}
  BY WaitsFor DEF Open
<1>3. /\ DOMAIN m = RequestFields /\ m.conn = c /\ m.opening = "startup"
      /\ m.sent = request[r].sent
      /\ m.started = FALSE /\ m.call = request[r].call /\ m.doing = request[r].doing
  BY <1>2 DEF InOrder, RequestFields
<1>4. /\ DOMAIN conn = Conn /\ DOMAIN asked = Conn /\ DOMAIN session = Conn
      /\ DOMAIN request = Requests /\ open \subseteq Conn /\ free \subseteq open
      /\ c \in Conn /\ c \notin open /\ ConnOk(c) /\ \A s \in Requests : request[s].conn # c
  BY <1>1, ConnsAssumption DEF RegistrationInv, HoldInv, Unused
<1>5. request' = [request EXCEPT ![r] = m]
  BY <1>1, <1>4
<1> HIDE DEF m
<1>6. None \notin Conn /\ None # "STARTUP"
  BY ConnsAssumption, NoneAssumption
<1>7. InOrder(r, m)
  BY <1>2, <1>3, <1>4, <1>6 DEF InOrder, Role
<1>8. session'[c] = NewSession /\ NewSession # NoSession /\ NewSession.status = "startup"
  BY <1>1, <1>4 DEF NewSession, NoSession
<1>9. ConnOk(c)'
  BY <1>1, <1>4, <1>8 DEF ConnOk, Live
<1>10. Stage(m, conn'[c], session'[c].status, asked'[c])
  BY <1>1, <1>3, <1>4, <1>8 DEF ConnOk, Stage, Opening
<1>11. c \in open' \ free'
  BY <1>1, <1>4
<1> QED BY <1>1, <1>2, <1>3, <1>4, <1>5, <1>6, <1>7, <1>9, <1>10, <1>11, OneMoves

\* A request that gets no connection goes on with the error, without one.
LEMMA UnopenedInOrder ==
  ASSUME NEW r \in Requests, NEW q, InOrder(r, q), q.call \in {"BEGIN", "PARSE", "QUERY"},
         q.started = FALSE, q.sent = FALSE, NEW err, err # "none"
  PROVE  InOrder(r, Unopened(q, err)) /\ Unopened(q, err).conn = None
<1> DEFINE p == Noting(q, err)
           result == Result(Fresh, err, {})
           n == NextCall(p, result)
           m == [n EXCEPT !.conn = None, !.opening = "no"]
<1>1. /\ DOMAIN p = RequestFields /\ p.sent = FALSE
      /\ p.call = q.call /\ p.doing = q.doing /\ p.conn = q.conn
      /\ p.opening = q.opening /\ p.started = FALSE
  BY Notes DEF InOrder
<1>2. result.err # "none"
  BY DEF Result
<1>3. Unopened(q, err) = m
  BY DEF Unopened
<1> DEFINE e == autoMigrate(p, result)
<1>4. p.doing \in Simple \cup Catalogue =>
        /\ DOMAIN e = RequestFields /\ e.started = FALSE /\ e.sent = FALSE
        /\ \/ e.call = "DONE" /\ e.doing \in Simple \cup Catalogue
           \/ e.call = "PARSE" /\ e.doing \in Catalogue
           \/ e.call = "QUERY" /\ e.doing \in Simple
  <2> HIDE DEF p, result
  <2> QED BY <1>1, Migrates
<1> HIDE DEF p, n, result, m, e
<1>5. DOMAIN n = RequestFields =>
        /\ DOMAIN m = RequestFields /\ m.conn = None /\ m.opening = "no"
        /\ m.call = n.call /\ m.doing = n.doing /\ m.started = n.started /\ m.sent = n.sent
  BY DEF m, RequestFields
<1>6. CASE r \in Creates
  <2>1. q.doing = "insert" /\ q.call \in {"BEGIN", "PARSE"} /\ r \notin Finds /\ r # Migration
    BY <1>6, Roles DEF InOrder, Role
  <2>2. /\ DOMAIN n = RequestFields /\ n.doing = "insert" /\ n.started = FALSE
        /\ n.sent = FALSE /\ n.call \in {"PARSE", "DONE"}
    <3>1. CASE q.call = "BEGIN"
      BY <1>1, <1>2, <2>1, <3>1 DEF NextCall, Began, RequestFields, n
    <3>2. CASE q.call = "PARSE"
      BY <1>1, <1>2, <2>1, <3>2
         DEF NextCall, Concludes, Inserted, After, EndOf, RequestFields, n
    <3> QED BY <2>1, <3>1, <3>2
  <2>3. InOrder(r, m)
    BY <1>5, <1>6, <2>1, <2>2 DEF InOrder, Role
  <2> QED BY <1>3, <1>5, <2>2, <2>3
<1>7. CASE r \in Finds
  <2>1. q.doing = "find" /\ q.call = "PARSE" /\ r \notin Creates /\ r # Migration
    BY <1>7, Roles DEF InOrder, Role
  <2>2. /\ DOMAIN n = RequestFields /\ n.doing = "find" /\ n.started = FALSE
        /\ n.sent = FALSE /\ n.call = "DONE"
    BY <1>1, <1>2, <2>1 DEF NextCall, Concludes, Found, After, EndOf, RequestFields, n
  <2>3. InOrder(r, m)
    BY <1>5, <1>7, <2>1, <2>2 DEF InOrder, Role
  <2> QED BY <1>3, <1>5, <2>2, <2>3
<1>8. CASE r = Migration
  <2>1. /\ r \notin Creates /\ r \notin Finds
        /\ q.doing \in Simple \cup Catalogue /\ q.call \in {"PARSE", "QUERY"}
    BY <1>8, Roles DEF InOrder, Role
  <2>2. n = e
    <3>1. q.doing \notin {"insert", "find"}
      BY <2>1 DEF Simple, Catalogue
    <3> QED BY <1>1, <1>2, <2>1, <3>1 DEF NextCall, Concludes, n, e
  <2>3. InOrder(r, m)
    BY <1>1, <1>4, <1>5, <1>8, <2>1, <2>2 DEF InOrder, Role
  <2> QED BY <1>1, <1>3, <1>4, <1>5, <2>1, <2>2, <2>3
<1> QED BY <1>6, <1>7, <1>8 DEF Requests

\* No socket.
LEMMA DialFailsKeeps ==
  ASSUME RegistrationInv, NEW r \in Requests, DialFails(r)
  PROVE  RegistrationInv'
<1> DEFINE m == Unopened(request[r], "other")
<1>1. request' = [request EXCEPT ![r] = m]
      /\ UNCHANGED <<open, free, conn, asked, session>>
  BY DEF DialFails
<1>2. /\ InOrder(r, request[r]) /\ request[r].conn = None
      /\ ~request[r].sent /\ request[r].started = FALSE
      /\ request[r].call \in {"BEGIN", "PARSE", "QUERY"}
  BY WaitsFor DEF DialFails
<1>3. InOrder(r, m) /\ m.conn = None
  BY <1>2, UnopenedInOrder DEF InOrder
<1> HIDE DEF m
<1>4. DOMAIN request' = Requests /\ request'[r] = m
      /\ \A s \in Requests \ {r} : request'[s] = request[s]
  BY <1>1 DEF RegistrationInv, HoldInv
<1>5. \A s \in Requests : request'[s].conn = request[s].conn
  BY <1>2, <1>3, <1>4
<1>6. HoldInv'
  <2>1. (\A s \in Requests : InOrder(s, request[s]))'
    BY <1>3, <1>4 DEF RegistrationInv, HoldInv, InOrder, Role
  <2> QED BY <1>1, <1>4, <1>5, <2>1 DEF RegistrationInv, HoldInv
<1>7. ASSUME NEW c \in Conn PROVE ConnOk(c)'
  BY <1>1 DEF RegistrationInv, ConnOk, Live
<1>8. ASSUME NEW s \in Requests PROVE HeldOk(s)'
  BY <1>1, <1>2, <1>3, <1>4, <1>5 DEF RegistrationInv, HeldOk, Live
<1> QED BY <1>6, <1>7, <1>8 DEF RegistrationInv

\* The password is sent.
LEMMA SendPasswordKeeps ==
  ASSUME RegistrationInv, NEW r \in Requests, SendPassword(r)
  PROVE  RegistrationInv'
<1>1. InOrder(r, request[r]) /\ request[r].opening = "startup"
  BY DEF SendPassword, RegistrationInv, HoldInv
<1>2. request[r].conn # None
  BY <1>1 DEF InOrder
<1>3. PICK c \in Conn : c = request[r].conn
  BY <1>2, OwnConn
<1>4. /\ c \in open /\ c \notin free /\ ConnOk(c) /\ HeldOk(r)
      /\ \A s \in Requests \ {r} : request[s].conn # c
  BY <1>2, <1>3, OwnConn
<1> DEFINE m == [request[r] EXCEPT !.opening = "auth"]
<1>5. /\ conn' = [conn EXCEPT ![c].inbox = Tail(@)]
      /\ asked' = IF session[c] = NoSession THEN asked ELSE [asked EXCEPT ![c] = "PASSWORD"]
      /\ request' = [request EXCEPT ![r] = m]
      /\ UNCHANGED <<open, free, session>> /\ Challenged(conn[c])
  BY <1>3 DEF SendPassword
<1>6. /\ DOMAIN m = RequestFields /\ m.conn = c /\ m.opening = "auth"
      /\ m.sent = request[r].sent /\ m.started = request[r].started
      /\ m.call = request[r].call /\ m.doing = request[r].doing
  BY <1>1, <1>3 DEF InOrder, RequestFields
<1>7. /\ DOMAIN conn = Conn /\ DOMAIN asked = Conn /\ DOMAIN session = Conn
      /\ open \subseteq Conn /\ free \subseteq open
  BY DEF RegistrationInv, HoldInv
<1> HIDE DEF m
<1>8. InOrder(r, m)
  BY <1>1, <1>2, <1>3, <1>6 DEF InOrder, Role
<1>9. ConnOk(c)'
  BY <1>4, <1>5, <1>7 DEF ConnOk, Live
<1>10. session'[c] # NoSession => Stage(m, conn'[c], session'[c].status, asked'[c])
  <2> SUFFICES ASSUME Live(c) PROVE Stage(m, conn'[c], session[c].status, "PASSWORD")
    BY <1>5, <1>7 DEF Live
  <2>1. Opening(request[r], conn[c], session[c].status, asked[c])
    BY <1>1, <1>2, <1>3, <1>4 DEF HeldOk, Stage
  <2>2. session[c].status = "startup" /\ conn[c] = Sound("idle", "none", <<"R5">>)
    <3>1. conn[c].inbox # <<>> /\ Head(conn[c].inbox) = "R5"
      BY <1>5 DEF Challenged
    <3>2. conn[c] # Fresh
      BY <3>1 DEF Fresh
    <3>3. conn[c] # Sound("idle", "none", <<"R0", "K", "idle">>)
      BY <3>1 DEF Sound
    <3> QED BY <2>1, <3>2, <3>3 DEF Opening
  <2>3. conn'[c] = Fresh
    <3>1. conn'[c] = [conn[c] EXCEPT !.inbox = Tail(@)] /\ Tail(<<"R5">>) = <<>>
      BY <1>5, <1>7
    <3> DEFINE d == conn'[c]
    <3>2. /\ DOMAIN d = {"bad", "txnStatus", "saved", "inbox"}
          /\ d = [f \in DOMAIN d |-> d[f]]
          /\ d.bad = FALSE /\ d.txnStatus = "idle" /\ d.saved = "none" /\ d.inbox = <<>>
      BY <2>2, <3>1 DEF Sound
    <3> HIDE DEF d
    <3>3. d = Fresh
      BY <3>2 DEF Fresh
    <3> QED BY <3>3 DEF d
  <2> QED BY <1>6, <2>2, <2>3 DEF Stage, Opening
<1>11. /\ DOMAIN conn' = Conn /\ DOMAIN asked' = Conn
       /\ \A d \in Conn \ {c} : conn'[d] = conn[d] /\ asked'[d] = asked[d]
  BY <1>5, <1>7
<1> QED BY <1>3, <1>4, <1>5, <1>6, <1>7, <1>8, <1>9, <1>10, <1>11, OneMoves

\* DialOpen returns.
LEMMA OpenReturnsKeeps ==
  ASSUME RegistrationInv, NEW r \in Requests, OpenReturns(r)
  PROVE  RegistrationInv'
<1> DEFINE q == request[r]
<1>1. InOrder(r, q) /\ q.opening # "no"
  BY DEF OpenReturns, RegistrationInv, HoldInv
<1>2. /\ q.conn # None /\ q.started = FALSE /\ q.sent = FALSE
      /\ q.call \in {"BEGIN", "PARSE", "QUERY"}
  BY <1>1 DEF InOrder
<1>3. PICK c \in Conn : c = q.conn
  BY <1>2, OwnConn
<1>4. /\ c \in open /\ c \notin free /\ ConnOk(c) /\ HeldOk(r)
      /\ \A s \in Requests \ {r} : request[s].conn # c
  BY <1>2, <1>3, OwnConn
<1> DEFINE result == IF q.opening = "auth" THEN auth(conn[c]) ELSE startup(conn[c])
           m == [q EXCEPT !.opening = "no"]
           u == Unopened(q, result.err)
<1>5. /\ conn[c].inbox # <<>> /\ ~Challenged(conn[c]) /\ UNCHANGED <<free, session>>
      /\ result.err = "none" => /\ request' = [request EXCEPT ![r] = m]
                                /\ conn' = [conn EXCEPT ![c] = result.cn]
                                /\ UNCHANGED <<open, asked>>
      /\ result.err # "none" => /\ request' = [request EXCEPT ![r] = u]
                                /\ conn' = [conn EXCEPT ![c] = Fresh]
                                /\ open' = open \ {c}
                                /\ asked' = [asked EXCEPT ![c] = None]
  BY <1>3 DEF OpenReturns
<1>6. /\ DOMAIN conn = Conn /\ DOMAIN asked = Conn /\ DOMAIN session = Conn
      /\ open \subseteq Conn /\ free \subseteq open
  BY DEF RegistrationInv, HoldInv
<1>7. Live(c) => /\ result = Result(Sound("idle", "none", <<>>), "none", {})
                 /\ session[c].status = "idle" /\ asked[c] = None
  <2> SUFFICES ASSUME Live(c)
               PROVE  /\ result = Result(Sound("idle", "none", <<>>), "none", {})
                      /\ session[c].status = "idle" /\ asked[c] = None
    OBVIOUS
  <2>1. Opening(q, conn[c], session[c].status, asked[c])
    BY <1>1, <1>2, <1>3, <1>4 DEF HeldOk, Stage
  <2>2. conn[c] # Fresh
    BY <1>5 DEF Fresh
  <2>3. conn[c] # Sound("idle", "none", <<"R5">>)
    BY <1>5 DEF Sound, Challenged
  <2>4. /\ conn[c] = Sound("idle", "none", <<"R0", "K", "idle">>)
        /\ session[c].status = "idle" /\ asked[c] = None
    BY <2>1, <2>2, <2>3 DEF Opening
  <2> QED BY <2>4, OpensReady
<1> HIDE DEF result
<1>8. CASE result.err = "none"
  <2>1. /\ DOMAIN m = RequestFields /\ m.conn = c /\ m.opening = "no" /\ m.sent = FALSE
        /\ m.started = FALSE /\ m.call = q.call /\ m.doing = q.doing
    BY <1>1, <1>2, <1>3 DEF InOrder, RequestFields
  <2> HIDE DEF m
  <2>2. InOrder(r, m)
    BY <1>1, <1>2, <1>3, <2>1 DEF InOrder, Role
  <2>3. ConnOk(c)'
    BY <1>4, <1>5, <1>6, <1>8 DEF ConnOk, Live
  <2>4. session'[c] # NoSession => Stage(m, conn'[c], session'[c].status, asked'[c])
    <3> SUFFICES ASSUME Live(c) PROVE Stage(m, conn'[c], session[c].status, asked[c])
      BY <1>5, <1>8 DEF Live
    <3>1. conn'[c] = Sound("idle", "none", <<>>)
      BY <1>5, <1>6, <1>7, <1>8 DEF Result
    <3> QED BY <1>2, <1>7, <2>1, <3>1 DEF Stage, Unanswered, TxOf
  <2> QED BY <1>3, <1>4, <1>5, <1>6, <1>8, <2>1, <2>2, <2>3, <2>4, OneMoves
<1>9. CASE result.err # "none"
  <2>1. InOrder(r, u) /\ u.conn = None
    BY <1>1, <1>2, <1>9, UnopenedInOrder
  <2> HIDE DEF u
  <2>2. session'[c] = NoSession
    BY <1>5, <1>7, <1>9 DEF Live, Result
  <2>3. ConnOk(c)'
    BY <1>4, <1>5, <1>6, <1>9, <2>2 DEF ConnOk, Live
  <2>4. c \notin open' /\ u.conn # c
    BY <1>5, <1>9, <2>1, ConnsAssumption
  <2> QED BY <1>3, <1>4, <1>5, <1>6, <1>9, <2>1, <2>2, <2>3, <2>4, OneMoves
<1> QED BY <1>8, <1>9

\* A call that nobody has answered, with its session alive.
LEMMA ReadyStage ==
  ASSUME RegistrationInv, NEW r \in Requests, Ready(r)
  PROVE  LET q == request[r]
             c == q.conn
         IN /\ InOrder(r, q) /\ q.call \notin {"SCAN", "ROWS"}
            /\ Live(c) => /\ session[c].status \in TxOf(q) /\ asked[c] = None
                          /\ conn[c] = Sound(session[c].status, "none", <<>>)
                          /\ conn[c].bad = FALSE /\ Expects(conn[c], q.call)
<1> DEFINE q == request[r]
           c == q.conn
<1>1. InOrder(r, q) /\ q.conn # None /\ q.opening = "no" /\ q.sent = FALSE /\ HeldOk(r)
  BY OwnConn DEF Ready, RegistrationInv, HoldInv, InOrder
<1>2. q.call \notin {"SCAN", "ROWS"}
  BY <1>1 DEF InOrder
<1>3. ASSUME Live(c)
      PROVE  /\ session[c].status \in TxOf(q) /\ asked[c] = None
             /\ conn[c] = Sound(session[c].status, "none", <<>>)
  BY <1>1, <1>2, <1>3 DEF HeldOk, Stage, Unanswered, Replied, Fetching
<1>4. ASSUME Live(c) PROVE conn[c].bad = FALSE /\ Expects(conn[c], q.call)
  <2>1. conn[c].bad = FALSE /\ conn[c].txnStatus \in TxOf(q)
    BY <1>3, <1>4 DEF Sound
  <2>2. /\ q.call = "BEGIN" => q.started = FALSE
        /\ q.call \in {"COMMIT", "ROLLBACK"} => q.started = TRUE
    BY <1>1 DEF InOrder
  <2> QED BY <2>1, <2>2 DEF Expects, isInTransaction, TxOf
<1> QED BY <1>1, <1>2, <1>3, <1>4

\* A call is made, or refused on a connection that is bad or in another status.
LEMMA SendKeeps ==
  ASSUME RegistrationInv, NEW r \in Requests, Send(r)
  PROVE  RegistrationInv'
<1> DEFINE q == request[r]
<1>1. Ready(r) /\ q.conn # None /\ q.opening = "no" /\ q.call # "DONE"
  BY DEF Send, Ready
<1>2. PICK c \in Conn : c = q.conn
  BY <1>1, OwnConn
<1>3. /\ InOrder(r, q) /\ q.call \notin {"SCAN", "ROWS"}
      /\ Live(c) => /\ session[c].status \in TxOf(q) /\ asked[c] = None
                    /\ conn[c] = Sound(session[c].status, "none", <<>>)
                    /\ conn[c].bad = FALSE /\ Expects(conn[c], q.call)
  BY <1>1, <1>2, ReadyStage
<1>4. ASSUME NEW result, Returns(r, result), conn[c].bad \/ ~Expects(conn[c], q.call)
      PROVE  RegistrationInv'
  BY <1>1, <1>2, <1>3, <1>4, ReturnsKeeps
<1>5. CASE /\ request' = [request EXCEPT ![r].sent = TRUE]
           /\ asked' = IF session[c] = NoSession THEN asked
                       ELSE [asked EXCEPT ![c] = Wire(conn[c], q.call)]
           /\ UNCHANGED <<open, free, conn, session>>
  <2>1. /\ c \in open /\ c \notin free /\ ConnOk(c)
        /\ \A s \in Requests \ {r} : request[s].conn # c
    BY <1>1, <1>2, OwnConn
  <2> DEFINE m == [q EXCEPT !.sent = TRUE]
  <2>2. /\ DOMAIN m = RequestFields /\ m.conn = c /\ m.opening = "no" /\ m.sent = TRUE
        /\ m.started = q.started /\ m.call = q.call /\ m.doing = q.doing
    BY <1>1, <1>2, <1>3 DEF InOrder, RequestFields
  <2>3. request' = [request EXCEPT ![r] = m]
    BY <1>5
  <2> HIDE DEF m
  <2>4. InOrder(r, m)
    BY <1>1, <1>2, <1>3, <2>2 DEF InOrder, Role
  <2>5. /\ DOMAIN conn = Conn /\ DOMAIN asked = Conn /\ DOMAIN session = Conn
        /\ open \subseteq Conn /\ free \subseteq open
    BY DEF RegistrationInv, HoldInv
  <2>6. /\ DOMAIN asked' = Conn /\ \A d \in Conn \ {c} : asked'[d] = asked[d]
        /\ session[c] = NoSession => asked'[c] = asked[c]
        /\ session[c] # NoSession => asked'[c] = Wire(conn[c], q.call)
    BY <1>5, <2>5
  <2>7. ConnOk(c)'
    BY <1>5, <2>1, <2>6 DEF ConnOk, Live
  <2>8. session'[c] # NoSession => Stage(m, conn'[c], session'[c].status, asked'[c])
    BY <1>3, <1>5, <2>2, <2>6 DEF Live, Stage, Unanswered, TxOf
  <2>9. /\ request[r].conn \in {None, c} /\ m.conn \in {None, c}
        /\ open' \subseteq Conn /\ free' \subseteq open'
        /\ c \in open' \ free' <=> m.conn = c
    BY <1>2, <1>5, <2>1, <2>2, <2>5
  <2>10. /\ DOMAIN conn' = Conn /\ DOMAIN session' = Conn
         /\ \A d \in Conn \ {c} :
              /\ conn'[d] = conn[d] /\ session'[d] = session[d] /\ asked'[d] = asked[d]
              /\ d \in open' <=> d \in open
              /\ d \in free' <=> d \in free
    BY <1>5, <2>5, <2>6
  <2> HIDE DEF q
  <2> QED BY <2>1, <2>3, <2>4, <2>6, <2>7, <2>8, <2>9, <2>10, OneMoves
<1>6. \/ \E result : Returns(r, result) /\ (conn[c].bad \/ ~Expects(conn[c], q.call))
      \/ /\ request' = [request EXCEPT ![r].sent = TRUE]
         /\ asked' = IF session[c] = NoSession THEN asked
                     ELSE [asked EXCEPT ![c] = Wire(conn[c], q.call)]
         /\ UNCHANGED <<open, free, conn, session>>
  BY <1>2, Zenon DEF Send
<1> QED BY <1>4, <1>5, <1>6

\* A write meets the end of the socket.
LEMMA WriteFailsKeeps ==
  ASSUME RegistrationInv, NEW r \in Requests, WriteFails(r)
  PROVE  RegistrationInv'
<1>1. /\ request[r].conn # None /\ request[r].opening = "no" /\ request[r].call # "DONE"
      /\ ~Live(request[r].conn)
      /\ \E result : Returns(r, result)
  BY DEF WriteFails, Ready, Live
<1> QED BY <1>1, ReturnsKeeps

\* A call has its answer.
LEMMA ReceiveKeeps ==
  ASSUME RegistrationInv, NEW r \in Requests, Receive(r)
  PROVE  RegistrationInv'
<1> DEFINE q == request[r]
           c == q.conn
           result == Concluded(conn[c], q.call)
<1>1. q.sent /\ Answered(conn[c]) /\ Returns(r, result)
  BY DEF Receive
<1>2. InOrder(r, q) /\ q.sent
  BY <1>1 DEF RegistrationInv, HoldInv
<1>3. q.conn # None /\ q.opening = "no" /\ q.call # "DONE"
  BY <1>2 DEF InOrder
<1>4. HeldOk(r)
  BY DEF RegistrationInv
<1>5. ASSUME Live(c) PROVE Leaves(q, result, session[c].status) /\ asked[c] = None
  <2>1. Stage(q, conn[c], session[c].status, asked[c])
    BY <1>3, <1>4, <1>5 DEF HeldOk
  <2>2. conn[c].inbox # <<>>
    BY <1>1 DEF Answered
  <2>3. ~Unanswered(q, conn[c], session[c].status, asked[c])
    BY <2>2 DEF Unanswered, Sound
  <2>4. CASE Replied(q, conn[c], session[c].status, asked[c]) /\ q.call \notin {"SCAN", "ROWS"}
    <3>1. asked[c] = None
      BY <2>4 DEF Replied
    <3> QED BY <1>2, <2>4, <3>1, RepliedLeaves
  <2>5. CASE Fetching(q, conn[c], session[c].status, asked[c])
    <3>1. asked[c] = None
      BY <2>5 DEF Fetching
    <3> QED BY <2>5, <3>1, FetchingLeaves
  <2> QED BY <1>3, <2>1, <2>3, <2>4, <2>5 DEF Stage
<1> HIDE DEF result
<1> QED BY <1>1, <1>3, <1>5, ReturnsKeeps

-----------------------------------------------------------------------------
(* The server's steps. *)

\* What is asked on a connection is asked by the one request that has it: to open it,
\* or with its call.
LEMMA AskerHolds ==
  ASSUME RegistrationInv, NEW c \in Conn, asked[c] # None
  PROVE  LET q == request[Asker(c)]
         IN /\ Asker(c) \in Requests /\ q.conn = c /\ c \in open /\ c \notin free /\ Live(c)
            /\ \A s \in Requests : request[s].conn = c => s = Asker(c)
            /\ InOrder(Asker(c), q)
            /\ Stage(q, conn[c], session[c].status, asked[c])
<1>1. Live(c) /\ c \in open /\ c \notin free
  BY DEF RegistrationInv, ConnOk
<1>2. \E r \in Requests : request[r].conn = c
  BY <1>1 DEF RegistrationInv, HoldInv
<1>3. Asker(c) \in Requests /\ request[Asker(c)].conn = c
  BY <1>2 DEF Asker
<1> HIDE DEF Asker
<1>4. None \notin Conn
  BY ConnsAssumption
<1>5. HeldOk(Asker(c)) /\ InOrder(Asker(c), request[Asker(c)])
  BY <1>3 DEF RegistrationInv, HoldInv
<1>6. \A s \in Requests : request[s].conn = c => s = Asker(c)
  BY <1>3, <1>4 DEF RegistrationInv, HoldInv
<1> QED BY <1>1, <1>3, <1>4, <1>5, <1>6 DEF HeldOk

\* A session that is asked for a welcome has a request that is opening its connection.
LEMMA AskedOpening ==
  ASSUME RegistrationInv, NEW c \in Conn, asked[c] \in {"STARTUP", "PASSWORD"}
  PROVE  LET q == request[Asker(c)]
         IN /\ q.opening # "no" /\ conn[c] = Sound("idle", "none", <<>>)
            /\ session[c].status = "startup"
            /\ asked[c] = "STARTUP" => q.opening = "startup"
<1> DEFINE q == request[Asker(c)]
<1>1. /\ Asker(c) \in Requests /\ InOrder(Asker(c), q) /\ asked[c] # None /\ q.conn = c
      /\ Stage(q, conn[c], session[c].status, asked[c])
  BY AskerHolds, NoneAssumption
<1> HIDE DEF q
<1>2. q.call \in Call /\ Wire(conn[c], q.call) \notin {"STARTUP", "PASSWORD"}
  BY <1>1 DEF InOrder, Role, Call, Wire
<1>3. q.opening # "no"
  BY <1>1, <1>2 DEF Stage, Unanswered, Replied, Fetching
<1>4. Opening(q, conn[c], session[c].status, asked[c])
  BY <1>1, <1>3 DEF Stage
<1> QED BY <1>1, <1>3, <1>4 DEF Opening, Fresh, Sound, q

\* The call that is asked is the request's, and Rollback that of a failed transaction.
LEMMA AskedCall ==
  ASSUME RegistrationInv, NEW c \in Conn, asked[c] \notin {None, "STARTUP", "PASSWORD"}
  PROVE  LET q == request[Asker(c)]
         IN /\ q.opening = "no" /\ q.sent /\ InOrder(Asker(c), q) /\ q.conn = c
            /\ q.call \in {"BEGIN", "PARSE", "EXEC", "QUERY", "COMMIT", "ROLLBACK"}
            /\ session[c].status \in TxOf(q)
            /\ conn[c] = Sound(session[c].status, "none", <<>>)
            /\ asked[c] # "ROLLBACK" => asked[c] = q.call
            /\ asked[c] = "ROLLBACK" => \/ q.call = "ROLLBACK"
                                        \/ q.call = "COMMIT" /\ session[c].status = "failed"
            /\ asked[c] = "COMMIT" => session[c].status # "failed"
<1> DEFINE q == request[Asker(c)]
<1>1. /\ Asker(c) \in Requests /\ InOrder(Asker(c), q) /\ q.conn = c
      /\ Stage(q, conn[c], session[c].status, asked[c])
  BY AskerHolds
<1> HIDE DEF q
<1>2. q.opening = "no"
  BY <1>1 DEF Stage, Opening
<1>3. q.call \notin {"SCAN", "ROWS"} /\ Unanswered(q, conn[c], session[c].status, asked[c])
  BY <1>1, <1>2 DEF Stage, Replied, Fetching
<1>4. /\ session[c].status \in TxOf(q) /\ conn[c] = Sound(session[c].status, "none", <<>>)
      /\ q.sent /\ asked[c] = Wire(conn[c], q.call)
  BY <1>3 DEF Unanswered
<1>5. conn[c].txnStatus = session[c].status
  BY <1>4 DEF Sound
<1>6. q.call \in {"BEGIN", "PARSE", "EXEC", "QUERY", "COMMIT", "ROLLBACK"}
  BY <1>1, <1>3, ConnsAssumption DEF InOrder, Role
<1> QED BY <1>1, <1>2, <1>4, <1>5, <1>6 DEF Wire, q

\* An answer that brings the connection where its request may be.
LEMMA RepliesKeep ==
  ASSUME RegistrationInv, NEW c \in Conn, asked[c] # None, NEW txn,
         conn[c] = Sound(txn, "none", <<>>), NEW msgs, NEW st, NEW rows, NEW inbox,
         Replies(c, msgs, st, rows), <<>> \o Append(msgs, st) = inbox,
         Stage(request[Asker(c)], Sound(txn, "none", inbox), st, None)
  PROVE  RegistrationInv'
<1>1. /\ c \in open /\ c \notin free
      /\ \A s \in Requests : request[s].conn = c => s = Asker(c)
  BY AskerHolds
<1>2. DOMAIN conn = Conn /\ DOMAIN asked = Conn /\ DOMAIN session = Conn
  BY DEF RegistrationInv, HoldInv
<1>3. conn'[c] = Sound(txn, "none", inbox)
  <2> DEFINE d == [Sound(txn, "none", <<>>) EXCEPT !.inbox = inbox]
  <2>1. conn'[c] = d
    <3>1. conn[c].inbox = <<>>
      BY DEF Sound
    <3> QED BY <1>2, <3>1 DEF Replies
  <2>2. /\ DOMAIN d = {"bad", "txnStatus", "saved", "inbox"}
        /\ d = [f \in DOMAIN d |-> d[f]]
        /\ d.bad = FALSE /\ d.txnStatus = txn /\ d.saved = "none" /\ d.inbox = inbox
    BY DEF Sound
  <2> HIDE DEF d
  <2>3. d = Sound(txn, "none", inbox)
    BY <2>2 DEF Sound
  <2> QED BY <2>1, <2>3
<1>4. session'[c].status = st /\ asked'[c] = None
  BY <1>2 DEF Replies
<1>5. /\ DOMAIN conn' = Conn /\ DOMAIN asked' = Conn /\ DOMAIN session' = Conn
      /\ \A d \in Conn \ {c} :
           conn'[d] = conn[d] /\ session'[d] = session[d] /\ asked'[d] = asked[d]
      /\ UNCHANGED <<request, open, free>>
  BY <1>2 DEF Replies
<1>6. ConnOk(c)'
  BY <1>1, <1>4, <1>5 DEF ConnOk
<1>7. \A r \in Requests : request[r].conn = c /\ session'[c] # NoSession =>
        Stage(request[r], conn'[c], session'[c].status, asked'[c])
  BY <1>1, <1>3, <1>4
<1> QED BY <1>5, <1>6, <1>7, ConnMoves

\* An answer to a call.
LEMMA AnswersKeep ==
  ASSUME RegistrationInv, NEW c \in Conn, asked[c] \notin {None, "STARTUP", "PASSWORD"},
         NEW msgs, NEW st, NEW rows, NEW inbox,
         Replies(c, msgs, st, rows), <<>> \o Append(msgs, st) = inbox,
         Answers(request[Asker(c)], session[c].status, inbox, st)
  PROVE  RegistrationInv'
<1> DEFINE q == request[Asker(c)]
           txn == session[c].status
           cn == Sound(txn, "none", inbox)
<1>1. /\ q.opening = "no" /\ q.sent
      /\ q.call \in {"BEGIN", "PARSE", "EXEC", "QUERY", "COMMIT", "ROLLBACK"}
      /\ txn \in TxOf(q) /\ conn[c] = Sound(txn, "none", <<>>)
  BY AskedCall
<1>2. Answers(q, txn, inbox, st)
  OBVIOUS
<1>3. cn.txnStatus = txn /\ cn.inbox = inbox /\ cn = Sound(txn, "none", inbox)
  BY DEF Sound
<1> HIDE DEF q, txn, cn
<1>4. Replied(q, cn, st, None)
  BY <1>1, <1>2, <1>3 DEF Replied
<1>5. Stage(q, Sound(txn, "none", inbox), st, None)
  BY <1>1, <1>3, <1>4 DEF Stage
<1> QED BY <1>1, <1>5, RepliesKeep DEF q, txn

\* What an answer and the status behind it make of an empty inbox.
LEMMA AnswerIn ==
  ASSUME NEW a, NEW b, NEW c, NEW d
  PROVE  /\ <<>> \o Append(<<a, b>>, c) = <<a, b, c>>
         /\ <<>> \o Append(<<a, b, c>>, d) = <<a, b, c, d>>
<1>1. <<>> \o Append(<<a, b>>, c) = <<a, b, c>>
  <2>1. Append(<<a, b>>, c) = <<a, b, c>>
    BY ThreeEntries
  <2>2. <<>> \o <<a, b, c>> = <<a, b, c>>
    BY ThreeEntries
  <2> QED BY <2>1, <2>2
<1>2. <<>> \o Append(<<a, b, c>>, d) = <<a, b, c, d>>
  BY AppendToThree
<1> QED BY <1>1, <1>2

\* A session is welcomed, or asked for its password.
LEMMA WelcomesKeeps ==
  ASSUME RegistrationInv, NEW c \in Conn, Welcomes(c)
  PROVE  RegistrationInv'
<1> DEFINE q == request[Asker(c)]
<1>1. asked[c] \in {"STARTUP", "PASSWORD"} /\ asked[c] # None
  BY NoneAssumption DEF Welcomes
<1>2. /\ q.opening # "no" /\ conn[c] = Sound("idle", "none", <<>>)
      /\ session[c].status = "startup"
      /\ asked[c] = "STARTUP" => q.opening = "startup"
  BY <1>1, AskedOpening
<1>3. /\ c \in open /\ c \notin free
      /\ \A s \in Requests : request[s].conn = c => s = Asker(c)
  BY <1>1, AskerHolds
<1>4. DOMAIN conn = Conn /\ DOMAIN asked = Conn /\ DOMAIN session = Conn
  BY DEF RegistrationInv, HoldInv
<1>5. CASE /\ asked[c] = "STARTUP"
           /\ conn' = [conn EXCEPT ![c].inbox = Append(@, "R5")]
           /\ asked' = [asked EXCEPT ![c] = None]
           /\ UNCHANGED <<open, free, session, request>>
  <2>1. conn'[c] = Sound("idle", "none", <<"R5">>)
    <3> DEFINE d == [Sound("idle", "none", <<>>) EXCEPT !.inbox = <<"R5">>]
    <3>1. conn'[c] = d
      <4>1. conn[c].inbox = <<>> /\ Append(<<>>, "R5") = <<"R5">>
        BY <1>2, TwoEntries DEF Sound
      <4> QED BY <1>2, <1>4, <1>5, <4>1
    <3>2. /\ DOMAIN d = {"bad", "txnStatus", "saved", "inbox"}
          /\ d = [f \in DOMAIN d |-> d[f]]
          /\ d.bad = FALSE /\ d.txnStatus = "idle" /\ d.saved = "none"
          /\ d.inbox = <<"R5">>
      BY DEF Sound
    <3> HIDE DEF d
    <3>3. d = Sound("idle", "none", <<"R5">>)
      BY <3>2 DEF Sound
    <3> QED BY <3>1, <3>3
  <2>2. /\ DOMAIN conn' = Conn /\ DOMAIN asked' = Conn /\ DOMAIN session' = Conn
        /\ \A d \in Conn \ {c} :
             conn'[d] = conn[d] /\ session'[d] = session[d] /\ asked'[d] = asked[d]
        /\ asked'[c] = None /\ session'[c].status = "startup"
    BY <1>2, <1>4, <1>5
  <2>3. ConnOk(c)'
    BY <1>3, <1>5, <2>2 DEF ConnOk
  <2>4. Stage(q, conn'[c], session'[c].status, asked'[c])
    BY <1>2, <1>5, <2>1, <2>2 DEF Stage, Opening
  <2> HIDE DEF q
  <2>5. \A r \in Requests : request[r].conn = c /\ session'[c] # NoSession =>
          Stage(request[r], conn'[c], session'[c].status, asked'[c])
    BY <1>3, <2>4 DEF q
  <2> QED BY <1>5, <2>2, <2>3, <2>5, ConnMoves
<1>6. CASE Replies(c, <<"R0", "K">>, "idle", {})
  <2>1. <<>> \o Append(<<"R0", "K">>, "idle") = <<"R0", "K", "idle">>
    BY AnswerIn
  <2>2. Stage(q, Sound("idle", "none", <<"R0", "K", "idle">>), "idle", None)
    BY <1>2 DEF Stage, Opening
  <2> QED BY <1>1, <1>2, <1>6, <2>1, <2>2, RepliesKeep
<1> QED BY <1>5, <1>6 DEF Welcomes

\* Begin, Commit and Rollback.
LEMMA EndsKeep ==
  ASSUME RegistrationInv, NEW c \in Conn, Begins(c) \/ Commits(c) \/ RollsBack(c)
  PROVE  RegistrationInv'
<1> DEFINE q == request[Asker(c)]
           txn == session[c].status
<1>1. /\ asked[c] \in {"BEGIN", "COMMIT", "ROLLBACK"}
      /\ asked[c] \notin {None, "STARTUP", "PASSWORD"}
  BY NoneAssumption DEF Begins, Commits, RollsBack, Call
<1>2. /\ asked[c] # "ROLLBACK" => asked[c] = q.call
      /\ asked[c] = "ROLLBACK" => \/ q.call = "ROLLBACK"
                                  \/ q.call = "COMMIT" /\ txn = "failed"
      /\ asked[c] = "COMMIT" => txn # "failed"
  BY <1>1, AskedCall
<1>3. CASE Begins(c)
  <2>1. <<>> \o Append(<<"BEGIN">>, "inTransaction") = <<"BEGIN", "inTransaction">>
    BY TwoEntries
  <2>2. Answers(q, txn, <<"BEGIN", "inTransaction">>, "inTransaction")
    BY <1>2, <1>3 DEF Answers, Begins
  <2>3. Replies(c, <<"BEGIN">>, "inTransaction", session[c].rows)
    BY <1>3 DEF Begins
  <2> QED BY <1>1, <2>1, <2>2, <2>3, AnswersKeep
<1>4. CASE Commits(c)
  <2>1. <<>> \o Append(<<"COMMIT">>, "idle") = <<"COMMIT", "idle">>
    BY TwoEntries
  <2>2. Answers(q, txn, <<"COMMIT", "idle">>, "idle")
    BY <1>2, <1>4 DEF Answers, Commits
  <2>3. Replies(c, <<"COMMIT">>, "idle", {})
    BY <1>2, <1>4 DEF Commits
  <2> QED BY <1>1, <2>1, <2>2, <2>3, AnswersKeep
<1>5. CASE RollsBack(c)
  <2>1. <<>> \o Append(<<"ROLLBACK">>, "idle") = <<"ROLLBACK", "idle">>
    BY TwoEntries
  <2>2. Answers(q, txn, <<"ROLLBACK", "idle">>, "idle")
    BY <1>2, <1>5 DEF Answers, RollsBack
  <2>3. Replies(c, <<"ROLLBACK">>, "idle", {})
    BY <1>5 DEF RollsBack
  <2> QED BY <1>1, <2>1, <2>2, <2>3, AnswersKeep
<1> QED BY <1>3, <1>4, <1>5

\* The status an error leaves is the one of the asker's transaction.
LEMMA ErrorStatus ==
  ASSUME RegistrationInv, NEW c \in Conn, asked[c] \notin {None, "STARTUP", "PASSWORD"}
  PROVE  (IF InTransaction(c) THEN "failed" ELSE "idle") = ErrorIn(request[Asker(c)])
<1>1. session[c].status \in TxOf(request[Asker(c)])
  BY AskedCall
<1> QED BY <1>1 DEF TxOf, ErrorIn, InTransaction

\* Parse.
LEMMA ParsesKeeps ==
  ASSUME RegistrationInv, NEW c \in Conn, Parses(c)
  PROVE  RegistrationInv'
<1> DEFINE q == request[Asker(c)]
           txn == session[c].status
<1>1. asked[c] = "PARSE" /\ asked[c] \notin {None, "STARTUP", "PASSWORD"}
  BY NoneAssumption DEF Parses, Call
<1>2. q.call = "PARSE"
  BY <1>1, AskedCall
<1>3. CASE Replies(c, <<"E">>, IF InTransaction(c) THEN "failed" ELSE "idle", {})
  <2>1. PICK st : st = IF InTransaction(c) THEN "failed" ELSE "idle"
    OBVIOUS
  <2>2. <<>> \o Append(<<"E">>, st) = <<"E", st>>
    BY TwoEntries
  <2>3. Answers(q, txn, <<"E", st>>, st)
    BY <1>1, <1>2, <2>1, ErrorStatus DEF Answers
  <2> QED BY <1>1, <1>3, <2>1, <2>2, <2>3, AnswersKeep
<1>4. CASE Replies(c, <<"1", "T">>, txn, session[c].rows)
  <2>1. PICK st : st = txn
    OBVIOUS
  <2>2. <<>> \o Append(<<"1", "T">>, st) = <<"1", "T", st>>
    BY AnswerIn
  <2>3. Answers(q, txn, <<"1", "T", st>>, st)
    BY <1>2, <2>1 DEF Answers
  <2> QED BY <1>1, <1>4, <2>1, <2>2, <2>3, AnswersKeep
<1> QED BY <1>3, <1>4 DEF Parses

\* An INSERT.
LEMMA InsertsKeeps ==
  ASSUME RegistrationInv, NEW c \in Conn, Inserts(c)
  PROVE  RegistrationInv'
<1> DEFINE q == request[Asker(c)]
           txn == session[c].status
<1>1. asked[c] = "EXEC" /\ asked[c] \notin {None, "STARTUP", "PASSWORD"}
  BY NoneAssumption DEF Inserts, Call
<1>2. q.call = "EXEC" /\ txn \in {"inTransaction", "failed", "idle"}
  BY <1>1, AskedCall DEF TxOf
<1>3. CASE Replies(c, <<"2", "E">>, IF InTransaction(c) THEN "failed" ELSE "idle", {})
  <2>1. PICK st : st = IF InTransaction(c) THEN "failed" ELSE "idle"
    OBVIOUS
  <2>2. <<>> \o Append(<<"2", "E">>, st) = <<"2", "E", st>>
    BY AnswerIn
  <2>3. Answers(q, txn, <<"2", "E", st>>, st)
    BY <1>1, <1>2, <2>1, ErrorStatus DEF Answers
  <2> QED BY <1>1, <1>3, <2>1, <2>2, <2>3, AnswersKeep
<1>4. ASSUME NEW rows, Replies(c, <<"2", "D", "INSERT">>, txn, rows) PROVE RegistrationInv'
  <2>1. PICK st : st = txn
    OBVIOUS
  <2>2. <<>> \o Append(<<"2", "D", "INSERT">>, st) = <<"2", "D", "INSERT", st>>
    BY AnswerIn
  <2>3. Answers(q, txn, <<"2", "D", "INSERT", st>>, st)
    BY <1>2, <2>1 DEF Answers
  <2> QED BY <1>1, <1>4, <2>1, <2>2, <2>3, AnswersKeep
<1>5. \/ Replies(c, <<"2", "E">>, IF InTransaction(c) THEN "failed" ELSE "idle", {})
      \/ \E rows : Replies(c, <<"2", "D", "INSERT">>, txn, rows)
  BY <1>2, Zenon DEF Inserts
<1> QED BY <1>3, <1>4, <1>5

\* A query, for rows or for a count.
LEMMA SelectsKeeps ==
  ASSUME RegistrationInv, NEW c \in Conn, Selects(c)
  PROVE  RegistrationInv'
<1> DEFINE q == request[Asker(c)]
           txn == session[c].status
<1>1. asked[c] = "EXEC" /\ asked[c] \notin {None, "STARTUP", "PASSWORD"}
  BY NoneAssumption DEF Selects, Call
<1>2. q.call = "EXEC" /\ InOrder(Asker(c), q) /\ Asker(c) \notin Creates
  BY <1>1, AskedCall DEF Selects
<1>3. q.doing \in {"find"} \cup Catalogue
  BY <1>2 DEF InOrder, Role
<1>4. ASSUME NEW rows \in {<<>>, <<"D">>, <<"0">>},
             Replies(c, <<"2">> \o rows \o <<"SELECT">>, txn, session[c].rows)
      PROVE  RegistrationInv'
  <2>1. PICK st : st = txn
    OBVIOUS
  <2>2. CASE rows = <<>>
    <3>1. <<"2">> \o <<>> = <<"2">>
      OBVIOUS
    <3>2. <<"2">> \o <<"SELECT">> = <<"2", "SELECT">>
      BY TwoEntries
    <3>3. Replies(c, <<"2", "SELECT">>, st, session[c].rows)
      BY <1>4, <2>1, <2>2, <3>1, <3>2
    <3>4. <<>> \o Append(<<"2", "SELECT">>, st) = <<"2", "SELECT", st>>
      BY AnswerIn
    <3>5. Answers(q, txn, <<"2", "SELECT", st>>, st)
      BY <1>2, <2>1 DEF Answers
    <3> QED BY <1>1, <3>3, <3>4, <3>5, AnswersKeep
  <2>3. ASSUME NEW t \in Row, rows = <<t>> PROVE RegistrationInv'
    <3>1. <<"2">> \o <<t>> = <<"2", t>>
      BY TwoEntries
    <3>2. <<"2", t>> \o <<"SELECT">> = <<"2", t, "SELECT">>
      <4> DEFINE S == {"2", t, "SELECT"}
      <4>1. <<"2", t>> \in Seq(S) /\ "SELECT" \in S
        OBVIOUS
      <4>2. Append(<<"2", t>>, "SELECT") = <<"2", t, "SELECT">>
        BY ThreeEntries
      <4> QED BY <4>1, <4>2, AppendIsConcat
    <3>3. Replies(c, <<"2", t, "SELECT">>, st, session[c].rows)
      BY <1>4, <2>1, <2>3, <3>1, <3>2
    <3>4. <<>> \o Append(<<"2", t, "SELECT">>, st) = <<"2", t, "SELECT", st>>
      BY AnswerIn
    <3>5. Answers(q, txn, <<"2", t, "SELECT", st>>, st)
      BY <1>2, <2>1 DEF Answers
    <3> QED BY <1>1, <3>3, <3>4, <3>5, AnswersKeep
  <2> QED BY <2>2, <2>3 DEF Row
<1>5. \E rows \in {<<>>, <<"D">>, <<"0">>} :
        Replies(c, <<"2">> \o rows \o <<"SELECT">>, txn, session[c].rows)
  BY <1>3 DEF Selects, Catalogue
<1> QED BY <1>4, <1>5

\* A statement of the migration.
LEMMA DefinesKeeps ==
  ASSUME RegistrationInv, NEW c \in Conn, Defines(c)
  PROVE  RegistrationInv'
<1> DEFINE q == request[Asker(c)]
           txn == session[c].status
<1>1. asked[c] = "QUERY" /\ asked[c] \notin {None, "STARTUP", "PASSWORD"}
  BY NoneAssumption DEF Defines, Call
<1>2. q.call = "QUERY"
  BY <1>1, AskedCall
<1>3. ASSUME NEW t \in {"E", "CREATE"}, Replies(c, <<t>>, "idle", {}) PROVE RegistrationInv'
  <2>1. <<>> \o Append(<<t>>, "idle") = <<t, "idle">>
    BY TwoEntries
  <2>2. Answers(q, txn, <<t, "idle">>, "idle")
    BY <1>2 DEF Answers
  <2> QED BY <1>1, <1>3, <2>1, <2>2, AnswersKeep
<1> QED BY <1>3 DEF Defines

\* A statement fails.
LEMMA FailsKeeps ==
  ASSUME RegistrationInv, NEW c \in Conn, Fails(c)
  PROVE  RegistrationInv'
<1> DEFINE q == request[Asker(c)]
           txn == session[c].status
<1>1. /\ asked[c] \notin {None, "ROLLBACK", "STARTUP", "PASSWORD"}
      /\ Replies(c, <<"E">>,
                 IF InTransaction(c) /\ asked[c] # "COMMIT" THEN "failed" ELSE "idle", {})
  BY DEF Fails
<1>2. PICK st : st = IF InTransaction(c) /\ asked[c] # "COMMIT" THEN "failed" ELSE "idle"
  OBVIOUS
<1>3. /\ q.call \in {"BEGIN", "PARSE", "EXEC", "QUERY", "COMMIT"} /\ asked[c] = q.call
      /\ asked[c] = "COMMIT" => txn # "failed"
      /\ InOrder(Asker(c), q) /\ Asker(c) \in Requests
  BY <1>1, AskedCall, AskerHolds
<1>4. q.call \in {"BEGIN", "QUERY"} => q.started = FALSE
  BY <1>3, Roles DEF InOrder, Role
<1>5. st = IF asked[c] = "COMMIT" THEN "idle" ELSE ErrorIn(q)
  BY <1>1, <1>2, ErrorStatus
<1>6. q.call \in {"BEGIN", "QUERY"} => st = "idle"
  BY <1>3, <1>4, <1>5 DEF ErrorIn
<1>7. Answers(q, txn, <<"E", st>>, st)
  BY <1>3, <1>5, <1>6 DEF Answers
<1>8. <<>> \o Append(<<"E">>, st) = <<"E", st>>
  BY TwoEntries
<1> QED BY <1>1, <1>2, <1>7, <1>8, AnswersKeep

\* A socket comes to its end.
LEMMA EndKeeps ==
  ASSUME RegistrationInv, NEW c \in Conn, Refuses(c) \/ Break(c)
  PROVE  RegistrationInv'
<1>1. Live(c)
  BY NoneAssumption DEF Refuses, Break, Live, RegistrationInv, ConnOk
<1>2. c \in open /\ DOMAIN conn = Conn /\ DOMAIN asked = Conn /\ DOMAIN session = Conn
  BY <1>1 DEF RegistrationInv, HoldInv, ConnOk
<1>3. /\ session' = [session EXCEPT ![c] = NoSession] /\ asked' = [asked EXCEPT ![c] = None]
      /\ UNCHANGED <<open, free, request>>
  BY DEF Refuses, Break
<1>4. DOMAIN conn' = Conn /\ \A d \in Conn \ {c} : conn'[d] = conn[d]
  <2>1. \E x : conn' = [conn EXCEPT ![c] = x]
    <3>1. CASE Refuses(c)
      BY <3>1 DEF Refuses
    <3>2. CASE Break(c)
      BY <3>2 DEF Break
    <3> QED BY <3>1, <3>2
  <2> QED BY <1>2, <2>1
<1>5. session'[c] = NoSession /\ asked'[c] = None
  BY <1>2, <1>3
<1>6. ConnOk(c)'
  BY <1>2, <1>3, <1>5 DEF ConnOk, Live
<1> QED BY <1>2, <1>3, <1>4, <1>5, <1>6, ConnMoves

-----------------------------------------------------------------------------
(* The theorem about transactions. *)

\* Nothing is open, and every request is before its first call.
LEMMA RegistrationInit == Init => RegistrationInv
<1> SUFFICES ASSUME Init PROVE RegistrationInv
  OBVIOUS
<1>1. /\ open = {} /\ free = {} /\ conn = [c \in Conn |-> Fresh]
      /\ asked = [c \in Conn |-> None] /\ session = [c \in Conn |-> NoSession]
      /\ DOMAIN request = Requests
  BY DEF Init
<1>2. ASSUME NEW r \in Requests
      PROVE  request[r].conn = None /\ InOrder(r, request[r])
  <2>1. request[r] = [call |-> FirstCall(Doing(r)), doing |-> Doing(r), conn |-> None,
                      sent |-> FALSE, opening |-> "no", started |-> FALSE,
                      failed |-> FALSE, seen |-> {}]
    BY DEF Init
  <2>2. Role(r, request[r]) /\ request[r].call # "DONE"
    <3>1. \/ r \in Creates /\ Doing(r) = "insert"
          \/ r \in Finds /\ Doing(r) = "find"
          \/ r = Migration /\ Doing(r) = "hasTable"
      BY Roles DEF Doing, Requests
    <3> QED BY <2>1, <3>1 DEF Role, FirstCall, Simple, Catalogue
  <2>3. request[r].call \in {"BEGIN", "PARSE", "QUERY"}
    BY <2>1 DEF FirstCall
  <2> QED BY <2>1, <2>2, <2>3 DEF InOrder, RequestFields
<1>3. HoldInv
  BY <1>1, <1>2 DEF HoldInv
<1>4. (\A c \in Conn : ConnOk(c)) /\ (\A r \in Requests : HeldOk(r))
  BY <1>1, <1>2 DEF ConnOk, HeldOk, Live
<1> QED BY <1>3, <1>4 DEF RegistrationInv

\* Every step of a request, of a session and of a fault keeps the invariant.
LEMMA RegistrationStep == RegistrationInv /\ [Next]_vars => RegistrationInv'
<1> SUFFICES ASSUME RegistrationInv, [Next]_vars PROVE RegistrationInv'
  OBVIOUS
<1>1. CASE UNCHANGED vars
  BY <1>1 DEF vars, RegistrationInv, HoldInv, InOrder, Role, ConnOk, HeldOk, Live
<1>2. ASSUME NEW c \in Conn, Answer(c) PROVE RegistrationInv'
  BY <1>2, WelcomesKeeps, EndsKeep, ParsesKeeps, InsertsKeeps, SelectsKeeps, DefinesKeeps
     DEF Answer
<1>3. ASSUME NEW r \in Requests,
             Take(r) \/ Open(r) \/ SendPassword(r) \/ OpenReturns(r) \/ Send(r) \/ Receive(r)
      PROVE  RegistrationInv'
  BY <1>3, TakeKeeps, OpenKeeps, SendPasswordKeeps, OpenReturnsKeeps, SendKeeps, ReceiveKeeps
<1>4. ASSUME NEW r \in Requests, DialFails(r) \/ WriteFails(r) PROVE RegistrationInv'
  BY <1>4, DialFailsKeeps, WriteFailsKeeps
<1>5. ASSUME NEW c \in Conn, Fails(c) \/ Refuses(c) \/ Break(c) PROVE RegistrationInv'
  BY <1>5, FailsKeeps, EndKeeps
<1> QED BY <1>1, <1>2, <1>3, <1>4, <1>5 DEF Next, Works, Faults

\* So it holds of every reachable state.
LEMMA RegistrationInvariant == Spec => []RegistrationInv
BY RegistrationInit, RegistrationStep, PTL DEF Spec

\* Whatever fails, a transaction on the server belongs to a Create that will end it, and a
\* free connection has nothing left to read and agrees with the server.
THEOREM TransactionsHeld == Spec => []TransactionsAreHeld
<1>1. RegistrationInv => TransactionsAreHeld
  <2> SUFFICES ASSUME RegistrationInv PROVE TransactionsAreHeld
    OBVIOUS
  <2>1. ASSUME NEW c \in Conn, InTransaction(c)
        PROVE  \E r \in Creates :
                 request[r].conn = c /\ (request[r].started \/ request[r].call = "BEGIN")
    <3>1. Live(c) /\ ConnOk(c)
      BY <2>1 DEF InTransaction, NoSession, Live, RegistrationInv
    <3>2. c \in open /\ c \notin free
      BY <2>1, <3>1 DEF ConnOk, InTransaction
    <3>3. PICK r \in Requests : request[r].conn = c
      BY <3>2 DEF RegistrationInv, HoldInv
    <3> DEFINE q == request[r]
               st == session[c].status
    <3>4. q.conn # None /\ InOrder(r, q) /\ HeldOk(r)
      BY <3>3, ConnsAssumption DEF RegistrationInv, HoldInv
    <3>5. Stage(q, conn[c], st, asked[c]) /\ st \in {"inTransaction", "failed"}
      BY <2>1, <3>1, <3>3, <3>4 DEF HeldOk, InTransaction
    <3> HIDE DEF q, st
    <3>6. q.started \/ q.call = "BEGIN"
      <4>1. ~Opening(q, conn[c], st, asked[c])
        BY <3>5 DEF Opening
      <4>2. CASE st \in TxOf(q)
        BY <3>5, <4>2 DEF TxOf
      <4>3. CASE Replied(q, conn[c], st, asked[c])
        <5>1. Answers(q, conn[c].txnStatus, conn[c].inbox, st) /\ conn[c].txnStatus \in TxOf(q)
          BY <4>3 DEF Replied
        <5> QED BY <3>5, <5>1 DEF Answers, TxOf, ErrorIn
      <4> QED BY <3>5, <4>1, <4>2, <4>3 DEF Stage, Unanswered, Fetching
    <3>7. r \in Creates
      BY <3>4, <3>6 DEF InOrder, Role
    <3> QED BY <3>3, <3>6, <3>7 DEF q
  <2>2. ASSUME NEW c \in free, ~conn[c].bad, session[c] # NoSession
        PROVE  /\ conn[c].txnStatus = session[c].status
               /\ conn[c].inbox = <<>> /\ conn[c].saved = "none"
    <3>1. c \in Conn /\ ConnOk(c)
      BY DEF RegistrationInv, HoldInv
    <3> QED BY <2>2, <3>1 DEF ConnOk, Live, Sound
  <2> QED BY <2>1, <2>2 DEF TransactionsAreHeld
<1> QED BY <1>1, RegistrationInvariant, PTL

-----------------------------------------------------------------------------
(* What is read of an answer that may have been cut off. *)

\* A set of numbers has its minimum.
LEMMA SmallestIndex ==
  ASSUME NEW I \in SUBSET Nat, I # {}
  PROVE  Min(I) \in I /\ \A i \in I : Min(I) <= i
<1> DEFINE R == {p \in Nat \X Nat : p[1] < p[2]}
<1>1. IsWellFoundedOn(R, Nat)
  BY NatLessThanWellFounded DEF OpToRel
<1>2. PICK m \in I : \A i \in I : ~ (<<i, m>> \in R)
  <2> HIDE DEF R
  <2> QED BY <1>1, WFMin
<1>3. \A i \in I : m <= i
  <2>1. ASSUME NEW i \in I, ~ (m <= i) PROVE FALSE
    <3>1. i \in Nat /\ m \in Nat
      OBVIOUS
    <3>2. <<i, m>> \in R
      BY <2>1, <3>1
    <3> QED BY <1>2, <3>2
  <2> QED BY <2>1
<1> QED BY <1>3 DEF Min

\* Nothing but the end of the socket follows a ReadyForQuery: no answer is behind
\* another one.
InOneAnswer(inbox) ==
  /\ inbox \in Seq(Message \cup Ending)
  /\ \A i, j \in 1 .. Len(inbox) :
       i < j /\ inbox[i] \in Status => inbox[j] \in Ending

HasEnd(inbox) == \E i \in 1 .. Len(inbox) : inbox[i] \in Status \cup Ending

IsSound(cn) == cn = Sound(cn.txnStatus, cn.saved, cn.inbox)

\* Only the end of the socket is left to read,
Rests(cn) == IsSound(cn) /\ cn.saved = "none" /\ cn.inbox \in Seq(Ending)

\* or nothing will be read.
Quiet(cn) == cn.bad = TRUE \/ Rests(cn)

\* All there is to read.
Heard(cn) == {cn.saved} \cup ToSet(cn.inbox)

\* A sound connection with its fields.
LEMMA FieldsOf ==
  ASSUME NEW cn, IsSound(cn)
  PROVE  /\ cn.bad = FALSE /\ DOMAIN cn = {"bad", "txnStatus", "saved", "inbox"}
         /\ cn = Sound(cn.txnStatus, cn.saved, cn.inbox)
<1> DEFINE txn == cn.txnStatus  saved == cn.saved  inbox == cn.inbox
<1>1. cn = Sound(txn, saved, inbox)
  BY DEF IsSound
<1> HIDE DEF txn, saved, inbox
<1>2. cn.bad = FALSE /\ DOMAIN cn = {"bad", "txnStatus", "saved", "inbox"}
  BY <1>1 DEF Sound
<1> QED BY <1>1, <1>2 DEF txn, saved, inbox

\* Its transaction status set.
LEMMA SettledSound ==
  ASSUME NEW txn, NEW saved, NEW inbox, NEW st
  PROVE  Settled(Sound(txn, saved, inbox), st) = Sound(st, saved, inbox)
<1> DEFINE d == Settled(Sound(txn, saved, inbox), st)
<1>1. /\ DOMAIN d = {"bad", "txnStatus", "saved", "inbox"} /\ d = [f \in DOMAIN d |-> d[f]]
      /\ d.bad = FALSE /\ d.txnStatus = st /\ d.saved = saved /\ d.inbox = inbox
  BY DEF Sound, Settled
<1> HIDE DEF d
<1>2. d = Sound(st, saved, inbox)
  BY <1>1 DEF Sound
<1> QED BY <1>2 DEF d

\* After the end of the socket a connection is bad, or has only that end to read again.
LEMMA RecoveredQuiet ==
  ASSUME NEW txn, NEW ending \in Ending, NEW said
  PROVE  LET r == Recovered(Sound(txn, "none", <<"eof">>), ending, said)
         IN /\ Quiet(r.cn) /\ r.err \in {"other", "ErrBadConn"} /\ r.said = said
            /\ r.err = "other" => r.cn = Sound(txn, "none", <<"eof">>)
            /\ DOMAIN r = {"cn", "err", "said"}
<1> DEFINE r == Recovered(Sound(txn, "none", <<"eof">>), ending, said)
           d == [Sound(txn, "none", <<"eof">>) EXCEPT !.bad = @ \/ ending # "partial"]
<1>1. /\ r.cn = d /\ r.said = said
      /\ r.err = IF ending = "partial" THEN "other" ELSE "ErrBadConn"
      /\ DOMAIN r = {"cn", "err", "said"}
  BY DEF Recovered, Result
<1>2. /\ DOMAIN d = {"bad", "txnStatus", "saved", "inbox"} /\ d = [f \in DOMAIN d |-> d[f]]
      /\ d.bad = (ending # "partial") /\ d.txnStatus = txn /\ d.saved = "none"
      /\ d.inbox = <<"eof">>
  BY DEF Sound
<1>3. <<"eof">> \in Seq(Ending)
  BY DEF Ending
<1> HIDE DEF d, r
<1>4. CASE ending # "partial"
  BY <1>1, <1>2, <1>4 DEF Quiet, r
<1>5. CASE ending = "partial"
  <2>1. d = Sound(txn, "none", <<"eof">>)
    BY <1>2, <1>5 DEF Sound
  <2> DEFINE end == <<"eof">>
  <2>2. d = Sound(txn, "none", end) /\ end \in Seq(Ending)
    BY <1>3, <2>1
  <2> HIDE DEF end
  <2>3. IsSound(d) /\ d.saved = "none" /\ d.inbox = end
    BY <2>2 DEF Sound, IsSound
  <2>4. Rests(d)
    BY <2>2, <2>3 DEF Rests
  <2> QED BY <1>1, <1>5, <2>1, <2>4 DEF Quiet, r
<1> QED BY <1>4, <1>5

\* A message out of place marks the connection.
LEMMA BrokenQuiet ==
  ASSUME NEW txn, NEW saved, NEW inbox
  PROVE  LET r == Broken(Sound(txn, saved, inbox))
         IN Quiet(r.cn) /\ r.err = "other" /\ r.said = {}
<1> DEFINE d == [Sound(txn, saved, inbox) EXCEPT !.bad = TRUE]
<1>1. d.bad = TRUE
  BY DEF Sound
<1> HIDE DEF d
<1>2. LET r == Broken(Sound(txn, saved, inbox))
      IN r.cn = d /\ r.err = "other" /\ r.said = {}
  BY DEF Broken, Result, d
<1> QED BY <1>1, <1>2 DEF Quiet

\* What is behind a message of an answer.
LEMMA AnswerTail ==
  ASSUME NEW inbox, InOneAnswer(inbox), inbox # <<>>
  PROVE  /\ Head(inbox) = inbox[1] /\ Head(inbox) \in Message \cup Ending
         /\ Len(inbox) \in Nat \ {0} /\ Len(Tail(inbox)) = Len(inbox) - 1
         /\ \A i \in 1 .. Len(Tail(inbox)) : Tail(inbox)[i] = inbox[i + 1]
         /\ InOneAnswer(Tail(inbox))
         /\ HasEnd(inbox) /\ Head(inbox) \notin Status \cup Ending => HasEnd(Tail(inbox))
         /\ Head(inbox) \in Status => Tail(inbox) \in Seq(Ending)
         /\ ToSet(Tail(inbox)) \subseteq ToSet(inbox) /\ Head(inbox) \in ToSet(inbox)
<1> DEFINE S == Message \cup Ending
           t == Tail(inbox)
<1>1. /\ inbox \in Seq(S) /\ Len(inbox) \in Nat
      /\ \A i \in 1 .. Len(inbox) : inbox[i] \in S
      /\ \A i, j \in 1 .. Len(inbox) :
           i < j /\ inbox[i] \in Status => inbox[j] \in Ending
  BY ElementOfSeq, LenProperties DEF InOneAnswer
<1> HIDE DEF S
<1>2. /\ Head(inbox) = inbox[1] /\ Head(inbox) \in S /\ t \in Seq(S)
      /\ Len(inbox) \in Nat \ {0} /\ Len(t) = Len(inbox) - 1 /\ Len(t) \in Nat
      /\ \A i \in 1 .. Len(t) : t[i] = inbox[i + 1]
  BY <1>1, HeadTailProperties, LenProperties, EmptySeq
<1> HIDE DEF t
<1>3. \A i, j \in 1 .. Len(t) : i < j /\ t[i] \in Status => t[j] \in Ending
  <2> TAKE i, j \in 1 .. Len(t)
  <2>1. i + 1 \in 1 .. Len(inbox) /\ j + 1 \in 1 .. Len(inbox) /\ (i < j => i + 1 < j + 1)
    BY <1>2
  <2> QED BY <1>1, <1>2, <2>1
<1>4. HasEnd(inbox) /\ Head(inbox) \notin Status \cup Ending => HasEnd(t)
  <2> SUFFICES ASSUME HasEnd(inbox), Head(inbox) \notin Status \cup Ending PROVE HasEnd(t)
    OBVIOUS
  <2>1. PICK i \in 1 .. Len(inbox) : inbox[i] \in Status \cup Ending
    BY DEF HasEnd
  <2>2. i # 1
    BY <1>2, <2>1
  <2>3. i - 1 \in 1 .. Len(t) /\ t[i - 1] = inbox[i]
    BY <1>2, <2>2
  <2> QED BY <2>1, <2>3 DEF HasEnd
<1>5. Head(inbox) \in Status => t \in Seq(Ending)
  <2> SUFFICES ASSUME Head(inbox) \in Status PROVE t \in Seq(Ending)
    OBVIOUS
  <2>1. \A i \in 1 .. Len(t) : t[i] \in Ending
    BY <1>1, <1>2
  <2>2. t = [i \in 1 .. Len(t) |-> t[i]]
    BY <1>2
  <2> QED BY <1>2, <2>1, <2>2
<1>6. ToSet(t) \subseteq ToSet(inbox) /\ Head(inbox) \in ToSet(inbox)
  BY <1>1, <1>2 DEF ToSet
<1>7. InOneAnswer(t)
  BY <1>2, <1>3 DEF InOneAnswer, S
<1> QED BY <1>2, <1>4, <1>5, <1>6, <1>7 DEF S, t

\* Reading the message at the head.
LEMMA ReadsHead ==
  ASSUME NEW txn, NEW inbox
  PROVE  recvMessage(Sound(txn, "none", inbox))
           = [t |-> Head(inbox), cn |-> Sound(txn, "none", Rest(inbox))]
<1> DEFINE cn == Sound(txn, "none", inbox)
<1>1. cn.saved = "none" /\ cn.inbox = inbox
  BY DEF Sound
<1> DEFINE d == [cn EXCEPT !.inbox = Rest(@)]
<1>2. /\ DOMAIN d = {"bad", "txnStatus", "saved", "inbox"} /\ d = [f \in DOMAIN d |-> d[f]]
      /\ d.bad = FALSE /\ d.txnStatus = txn /\ d.saved = "none" /\ d.inbox = Rest(inbox)
  BY DEF Sound
<1>3. recvMessage(cn) = [t |-> Head(inbox), cn |-> d]
  BY <1>1 DEF recvMessage
<1> HIDE DEF d
<1>4. d = Sound(txn, "none", Rest(inbox))
  BY <1>2 DEF Sound
<1> QED BY <1>3, <1>4

\* ReadyForQuery is waited for: the connection rests after it.
LEMMA ReadyTells ==
  ASSUME NEW txn, NEW inbox, InOneAnswer(inbox), inbox # <<>>, NEW err
  PROVE  LET r == readReadyForQuery(Sound(txn, "none", inbox), err)
         IN Quiet(r.cn) /\ r.err \in {err, "other", "ErrBadConn"}
<1> DEFINE t == Head(inbox)
           m == recvMessage(Sound(txn, "none", inbox))
           r == readReadyForQuery(Sound(txn, "none", inbox), err)
<1>1. m.t = t /\ m.cn = Sound(txn, "none", Rest(inbox))
  BY ReadsHead
<1>2. /\ t \in Message \cup Ending
      /\ t \in Status => Tail(inbox) \in Seq(Ending)
  BY AnswerTail
<1>3. Rest(inbox) = IF t \in Ending THEN <<"eof">> ELSE Tail(inbox)
  BY DEF Rest
<1>4. r = CASE m.t \in Status -> Result(Settled(m.cn, m.t), err, {})
            [] m.t \in Ending -> Recovered(m.cn, m.t, {})
            [] OTHER          -> Broken(m.cn)
  BY DEF readReadyForQuery
<1> HIDE DEF t, m, r
<1>5. CASE t \in Status
  <2>1. Rest(inbox) = Tail(inbox) /\ Tail(inbox) \in Seq(Ending)
    BY <1>2, <1>3, <1>5, Kinds
  <2>2. Settled(m.cn, t) = Sound(t, "none", Tail(inbox))
    BY <1>1, <2>1, SettledSound
  <2>3. Rests(Sound(t, "none", Tail(inbox)))
    BY <2>1 DEF Rests, IsSound, Sound
  <2>4. r = Result(Sound(t, "none", Tail(inbox)), err, {})
    BY <1>1, <1>4, <1>5, <2>2, Kinds
  <2> QED BY <2>3, <2>4 DEF Quiet, Result, r
<1>6. CASE t \in Ending
  <2>1. r = Recovered(Sound(txn, "none", <<"eof">>), t, {})
    BY <1>1, <1>3, <1>4, <1>6, Kinds
  <2> QED BY <1>6, <2>1, RecoveredQuiet DEF r
<1>7. CASE t \notin Status \cup Ending
  <2>1. r = Broken(Sound(txn, "none", Rest(inbox)))
    BY <1>1, <1>4, <1>7
  <2> QED BY <2>1, BrokenQuiet DEF r
<1> QED BY <1>5, <1>6, <1>7

\* A call that ends with an error; one of the server is one that was read.
Ends(inbox, r) == Quiet(r.cn) /\ r.err # "none" /\ (r.err = "server" => "E" \in ToSet(inbox))

\* A reader goes on behind the message it wants, or ends the call.
LEMMA ResponseTells ==
  ASSUME NEW txn, NEW inbox, InOneAnswer(inbox), HasEnd(inbox),
         NEW wanted, wanted \cap (Status \cup Ending \cup {"E"}) = {}
  PROVE  LET r == Response(Sound(txn, "none", inbox), wanted)
         IN \/ Ends(inbox, r)
            \/ /\ r = Result(Sound(txn, "none", Tail(inbox)), "none", {Head(inbox)})
               /\ Head(inbox) \in wanted /\ inbox # <<>>
               /\ InOneAnswer(Tail(inbox)) /\ HasEnd(Tail(inbox))
               /\ ToSet(Tail(inbox)) \subseteq ToSet(inbox)
<1> DEFINE t == Head(inbox)
           m == recvMessage(Sound(txn, "none", inbox))
           r == Response(Sound(txn, "none", inbox), wanted)
<1>1. m.t = t /\ m.cn = Sound(txn, "none", Rest(inbox))
  BY ReadsHead
<1>2. inbox # <<>>
  <2>1. Len(<<>>) = 0
    OBVIOUS
  <2> QED BY <2>1 DEF HasEnd
<1>3. /\ t \in Message \cup Ending /\ t \in ToSet(inbox)
      /\ InOneAnswer(Tail(inbox))
      /\ t \notin Status \cup Ending => HasEnd(Tail(inbox))
      /\ ToSet(Tail(inbox)) \subseteq ToSet(inbox)
  BY <1>2, AnswerTail
<1>4. Rest(inbox) = IF t \in Ending THEN <<"eof">> ELSE Tail(inbox)
  BY DEF Rest
<1>5. r = CASE m.t \in wanted -> Result(m.cn, "none", {m.t})
            [] m.t = "E"      -> readReadyForQuery(m.cn, "server")
            [] m.t \in Ending -> Recovered(m.cn, m.t, {})
            [] OTHER          -> Broken(m.cn)
  BY DEF Response
<1>6. "E" \notin Status \cup Ending
  BY DEF Status, Ending
<1> HIDE DEF t, m, r
<1>7. CASE t \in wanted
  <2>1. r = Result(Sound(txn, "none", Tail(inbox)), "none", {t})
    BY <1>1, <1>4, <1>5, <1>6, <1>7
  <2> QED BY <1>2, <1>3, <1>7, <2>1 DEF t, r
<1>8. CASE t = "E"
  <2>1. r = readReadyForQuery(Sound(txn, "none", Tail(inbox)), "server")
    BY <1>1, <1>4, <1>5, <1>6, <1>8
  <2>2. Tail(inbox) # <<>>
    <3>1. HasEnd(Tail(inbox)) /\ Len(<<>>) = 0
      BY <1>3, <1>6, <1>8
    <3> QED BY <3>1 DEF HasEnd
  <2>3. Quiet(r.cn) /\ r.err \in {"server", "other", "ErrBadConn"}
    BY <1>3, <2>1, <2>2, ReadyTells
  <2> QED BY <1>3, <1>8, <2>3 DEF Ends, r
<1>9. CASE t \in Ending
  <2>1. r = Recovered(Sound(txn, "none", <<"eof">>), t, {})
    BY <1>1, <1>4, <1>5, <1>6, <1>9
  <2> QED BY <1>9, <2>1, RecoveredQuiet DEF r, Ends
<1>10. CASE t \notin wanted \cup {"E"} \cup Ending
  <2>1. r = Broken(Sound(txn, "none", Rest(inbox)))
    BY <1>1, <1>5, <1>10
  <2> QED BY <2>1, BrokenQuiet DEF r, Ends
<1> QED BY <1>7, <1>8, <1>9, <1>10

\* Parse and Describe leave nothing to read.
LEMMA PrepareTells ==
  ASSUME NEW txn, NEW inbox, InOneAnswer(inbox), HasEnd(inbox)
  PROVE  LET r == prepareTo(Sound(txn, "none", inbox))
         IN Quiet(r.cn) /\ (r.err = "server" => "E" \in ToSet(inbox))
<1> DEFINE r1 == readParseResponse(Sound(txn, "none", inbox))
           r2 == readStatementDescribeResponse(r1.cn)
           r3 == readReadyForQuery(r2.cn, "none")
           r == prepareTo(Sound(txn, "none", inbox))
<1>1. r = IF r1.err # "none" THEN r1
          ELSE IF r2.err # "none" THEN r2 ELSE r3
  BY DEF prepareTo, Then
<1>2. /\ {"1"} \cap (Status \cup Ending \cup {"E"}) = {}
      /\ {"T"} \cap (Status \cup Ending \cup {"E"}) = {}
  BY DEF Status, Ending
<1>3. \/ Ends(inbox, r1)
      \/ /\ r1.err = "none" /\ r1.cn = Sound(txn, "none", Tail(inbox))
         /\ InOneAnswer(Tail(inbox)) /\ HasEnd(Tail(inbox))
         /\ ToSet(Tail(inbox)) \subseteq ToSet(inbox)
  BY <1>2, ResponseTells DEF readParseResponse, Result
<1> DEFINE inbox2 == Tail(inbox)
<1> HIDE DEF r1, inbox2
<1>4. r1.err = "none" =>
        \/ Ends(inbox2, r2)
        \/ /\ r2.err = "none" /\ r2.cn = Sound(txn, "none", Tail(inbox2))
           /\ InOneAnswer(Tail(inbox2)) /\ HasEnd(Tail(inbox2))
  <2>1. r1.err = "none" => /\ r1.cn = Sound(txn, "none", inbox2)
                           /\ InOneAnswer(inbox2) /\ HasEnd(inbox2)
    BY <1>3 DEF Ends, inbox2
  <2>2. r1.err = "none" => r2 = Response(Sound(txn, "none", inbox2), {"T"})
    BY <2>1 DEF readStatementDescribeResponse
  <2>3. r1.err = "none" =>
          \/ Ends(inbox2, Response(Sound(txn, "none", inbox2), {"T"}))
          \/ /\ Response(Sound(txn, "none", inbox2), {"T"})
                  = Result(Sound(txn, "none", Tail(inbox2)), "none", {Head(inbox2)})
             /\ InOneAnswer(Tail(inbox2)) /\ HasEnd(Tail(inbox2))
    BY <1>2, <2>1, ResponseTells
  <2> HIDE DEF r2
  <2> QED BY <2>2, <2>3 DEF Result
<1> DEFINE inbox3 == Tail(inbox2)
<1> HIDE DEF r2, inbox3
<1>5. r1.err = "none" /\ r2.err = "none" =>
        Quiet(r3.cn) /\ r3.err \in {"none", "other", "ErrBadConn"}
  <2> SUFFICES ASSUME r1.err = "none", r2.err = "none"
               PROVE  Quiet(r3.cn) /\ r3.err \in {"none", "other", "ErrBadConn"}
    OBVIOUS
  <2>1. /\ r2.cn = Sound(txn, "none", inbox3)
        /\ InOneAnswer(inbox3) /\ HasEnd(inbox3)
    BY <1>4 DEF Ends, inbox3
  <2>2. inbox3 # <<>>
    <3>1. Len(<<>>) = 0
      OBVIOUS
    <3> QED BY <2>1, <3>1 DEF HasEnd
  <2> QED BY <2>1, <2>2, ReadyTells
<1>6. ToSet(inbox2) \subseteq ToSet(inbox) \/ Ends(inbox, r1)
  BY <1>3 DEF inbox2
<1> HIDE DEF r3, r
<1> QED BY <1>1, <1>3, <1>4, <1>5, <1>6 DEF Ends, r

\* Bind and Execute keep the first row, or the end of the rows, and leave what follows.
LEMMA ExecTells ==
  ASSUME NEW txn, NEW inbox, InOneAnswer(inbox), HasEnd(inbox)
  PROVE  LET r == exec(Sound(txn, "none", inbox))
             rest == Tail(Tail(inbox))
         IN \/ Ends(inbox, r)
            \/ /\ r.err = "none" /\ r.cn = Sound(txn, inbox[2], rest)
               /\ 2 \in 1 .. Len(inbox) /\ inbox[2] \in Tag \cup Row
               /\ InOneAnswer(rest) /\ HasEnd(rest) /\ Len(rest) = Len(inbox) - 2
               /\ \A i \in 1 .. Len(rest) : rest[i] = inbox[i + 2]
               /\ ToSet(rest) \subseteq ToSet(inbox) /\ inbox[2] \in ToSet(inbox)
<1> DEFINE r1 == readBindResponse(Sound(txn, "none", inbox))
           r2 == postExecuteWorkaround(r1.cn)
           r == exec(Sound(txn, "none", inbox))
           in2 == Tail(inbox)
           rest == Tail(in2)
<1>1. r = IF r1.err # "none" THEN r1 ELSE r2
  BY DEF exec, Then
<1>2. /\ {"2"} \cap (Status \cup Ending \cup {"E"}) = {}
      /\ (Tag \cup Row) \cap (Status \cup Ending \cup {"E"}) = {}
  BY DEF Status, Ending, Tag, Row
<1>3. \/ Ends(inbox, r1)
      \/ /\ r1.err = "none" /\ r1.cn = Sound(txn, "none", in2) /\ inbox # <<>>
         /\ InOneAnswer(in2) /\ HasEnd(in2) /\ ToSet(in2) \subseteq ToSet(inbox)
  BY <1>2, ResponseTells DEF readBindResponse, Result
<1> DEFINE answer == Response(Sound(txn, "none", in2), Tag \cup Row)
<1> HIDE DEF r1
<1>4. CASE Ends(inbox, r1)
  BY <1>1, <1>4 DEF Ends
<1>5. CASE ~Ends(inbox, r1)
  <2>1. /\ r = r2 /\ r1.cn = Sound(txn, "none", in2) /\ inbox # <<>>
        /\ InOneAnswer(in2) /\ HasEnd(in2) /\ ToSet(in2) \subseteq ToSet(inbox)
    BY <1>1, <1>3, <1>5
  <2>2. r = IF answer.err = "none" THEN saveMessage(answer) ELSE answer
    BY <2>1 DEF postExecuteWorkaround
  <2>3. \/ Ends(in2, answer)
        \/ /\ answer = Result(Sound(txn, "none", rest), "none", {Head(in2)})
           /\ Head(in2) \in Tag \cup Row /\ in2 # <<>>
           /\ InOneAnswer(rest) /\ HasEnd(rest) /\ ToSet(rest) \subseteq ToSet(in2)
    <3> HIDE DEF in2
    <3> QED BY <1>2, <2>1, ResponseTells
  <2> HIDE DEF r, r2, answer
  <2>4. CASE Ends(in2, answer)
    BY <2>1, <2>2, <2>4 DEF Ends, r
  <2>5. CASE ~Ends(in2, answer)
    <3>1. /\ Head(in2) = in2[1] /\ Len(rest) = Len(in2) - 1 /\ Len(in2) \in Nat \ {0}
          /\ \A i \in 1 .. Len(rest) : rest[i] = in2[i + 1]
          /\ Head(in2) \in ToSet(in2)
      <4> HIDE DEF in2
      <4> QED BY <2>1, <2>3, <2>5, AnswerTail
    <3>2. /\ Len(in2) = Len(inbox) - 1 /\ Len(inbox) \in Nat \ {0}
          /\ \A i \in 1 .. Len(in2) : in2[i] = inbox[i + 1]
      BY <2>1, AnswerTail
    <3> HIDE DEF in2, rest
    <3>3. /\ Head(in2) = inbox[2] /\ 2 \in 1 .. Len(inbox) /\ Len(rest) = Len(inbox) - 2
          /\ \A i \in 1 .. Len(rest) : rest[i] = inbox[i + 2]
      <4>1. 1 \in 1 .. Len(in2) /\ \A i \in 1 .. Len(rest) : i + 1 \in 1 .. Len(in2)
        BY <3>1
      <4> QED BY <3>1, <3>2, <4>1
    <3> DEFINE t == inbox[2]
    <3>4. r = saveMessage(Result(Sound(txn, "none", rest), "none", {t}))
      <4>1. answer = Result(Sound(txn, "none", rest), "none", {t})
        BY <2>3, <2>5, <3>3 DEF rest
      <4>2. answer.err = "none"
        BY <4>1 DEF Result
      <4> QED BY <2>2, <4>1, <4>2
    <3> HIDE DEF t
    <3> DEFINE d == r.cn
    <3>5. /\ r.err = "none" /\ DOMAIN d = {"bad", "txnStatus", "saved", "inbox"}
          /\ d = [f \in DOMAIN d |-> d[f]]
          /\ d.bad = FALSE /\ d.txnStatus = txn /\ d.saved = t /\ d.inbox = rest
      BY <3>4 DEF saveMessage, Result, Sound
    <3> HIDE DEF d
    <3>6. d = Sound(txn, t, rest)
      BY <3>5 DEF Sound
    <3>7. t = Head(in2) /\ t = inbox[2]
      BY <3>3 DEF t
    <3>8. r.cn = Sound(txn, inbox[2], rest) /\ inbox[2] \in Tag \cup Row
      BY <2>3, <2>5, <3>6, <3>7 DEF d
    <3>9. ToSet(rest) \subseteq ToSet(inbox) /\ inbox[2] \in ToSet(inbox)
      BY <2>1, <2>3, <2>5, <3>1, <3>7
    <3> QED BY <2>3, <2>5, <3>3, <3>5, <3>8, <3>9 DEF r, rest, in2
  <2> QED BY <2>4, <2>5
<1> QED BY <1>4, <1>5

\* A loop stops at the first message it does not pass over.
LEMMA StopsFirst ==
  ASSUME NEW all, InOneAnswer(all),
         NEW P, P \cap (Status \cup Ending) = {}, NEW stop \in 1 .. Len(all),
         all[stop] \notin P, \A i \in 1 .. Len(all) : all[i] \notin P => stop <= i
  PROVE  LET said == ToSet(SubSeq(all, 1, stop - 1))
             rest == SubSeq(all, stop, Len(all))
         IN /\ stop \in 1 .. Len(all) /\ Len(all) \in Nat /\ all[stop] \in Message \cup Ending
            /\ all[stop] \notin P /\ \A i \in 1 .. stop - 1 : all[i] \in P
            /\ said \subseteq ToSet(all)
            /\ all[1] \in P => all[1] \in said
            /\ all[1] \notin P => stop = 1
            /\ Head(rest) = all[stop]
            /\ all[stop] \in Status => Tail(rest) \in Seq(Ending)
<1> DEFINE S == Message \cup Ending
           before == SubSeq(all, 1, stop - 1)
           rest == SubSeq(all, stop, Len(all))
<1>1. /\ all \in Seq(S) /\ Len(all) \in Nat
      /\ \A i \in 1 .. Len(all) : all[i] \in S
      /\ \A i, j \in 1 .. Len(all) : i < j /\ all[i] \in Status => all[j] \in Ending
  BY ElementOfSeq, LenProperties DEF InOneAnswer
<1> HIDE DEF S
<1>6. stop \in 1 .. Len(all) /\ all[stop] \notin P /\ stop \in Nat
  BY <1>1
<1>7. \A i \in 1 .. stop - 1 : all[i] \in P /\ i \in 1 .. Len(all)
  BY <1>1, <1>6
<1>8. /\ Len(before) = stop - 1 /\ \A i \in 1 .. stop - 1 : before[i] = all[i]
      /\ before \in Seq(S)
  <2>1. \A i \in 1 .. stop - 1 : all[i] \in S
    BY <1>1, <1>7
  <2>2. stop - 1 \in Int /\ 1 \in Int /\ stop - 1 \in Nat
    BY <1>6
  <2> QED BY <1>1, <1>6, <2>1, <2>2, SubSeqProperties
<1>9. /\ Len(rest) = Len(all) - stop + 1 /\ rest \in Seq(S)
      /\ \A i \in 1 .. Len(all) - stop + 1 : rest[i] = all[stop + i - 1]
  <2>1. \A i \in stop .. Len(all) : all[i] \in S
    BY <1>1, <1>6
  <2> QED BY <1>1, <1>6, <2>1, SubSeqProperties
<1> HIDE DEF before, rest
<1>10. ToSet(before) \subseteq ToSet(all)
  BY <1>1, <1>7, <1>8 DEF ToSet
<1>11. all[1] \in P => all[1] \in ToSet(before)
  <2> SUFFICES ASSUME all[1] \in P PROVE all[1] \in ToSet(before)
    OBVIOUS
  <2>1. 1 \in 1 .. stop - 1
    BY <1>6
  <2> QED BY <1>8, <2>1 DEF ToSet
<1>12. all[1] \notin P => stop = 1
  BY <1>1, <1>6
<1>14. /\ rest # <<>> /\ Head(rest) = rest[1] /\ Len(Tail(rest)) = Len(rest) - 1
       /\ \A i \in 1 .. Len(Tail(rest)) : Tail(rest)[i] = rest[i + 1]
       /\ Tail(rest) \in Seq(S)
  <2>1. rest # <<>>
    <3>1. Len(<<>>) = 0 /\ Len(rest) > 0
      BY <1>1, <1>6, <1>9
    <3> QED BY <3>1
  <2> QED BY <1>9, <2>1, HeadTailProperties
<1>15. Head(rest) = all[stop]
  BY <1>1, <1>6, <1>9, <1>14
<1>16. all[stop] \in Status => Tail(rest) \in Seq(Ending)
  <2> SUFFICES ASSUME all[stop] \in Status PROVE Tail(rest) \in Seq(Ending)
    OBVIOUS
  <2> DEFINE u == Tail(rest)
  <2>1. \A i \in 1 .. Len(u) : u[i] \in Ending
    <3> SUFFICES ASSUME NEW i \in 1 .. Len(u) PROVE u[i] \in Ending
      OBVIOUS
    <3>1. /\ i + 1 \in 1 .. Len(all) - stop + 1 /\ stop + i \in 1 .. Len(all) /\ stop < stop + i
          /\ stop + (i + 1) - 1 = stop + i
      BY <1>1, <1>6, <1>9, <1>14
    <3>2. u[i] = all[stop + i]
      BY <1>9, <1>14, <3>1
    <3> QED BY <1>1, <1>6, <3>1, <3>2
  <2>2. u \in Seq(S)
    BY <1>14
  <2> HIDE DEF u
  <2>3. u = [i \in 1 .. Len(u) |-> u[i]] /\ Len(u) \in Nat
    BY <2>2
  <2>4. u \in Seq(Ending)
    BY <2>1, <2>3
  <2> QED BY <2>4 DEF u
<1> QED BY <1>1, <1>6, <1>7, <1>10, <1>11, <1>12, <1>15, <1>16 DEF S, before, rest

\* Such a message there is.
LEMMA StopsSomewhere ==
  ASSUME NEW all, InOneAnswer(all), HasEnd(all), NEW P, P \cap (Status \cup Ending) = {},
         NEW I, I = {i \in 1 .. Len(all) : all[i] \notin P}
  PROVE  /\ I # {} /\ Min(I) \in 1 .. Len(all) /\ all[Min(I)] \notin P
         /\ \A i \in 1 .. Len(all) : all[i] \notin P => Min(I) <= i
<1>1. PICK e \in 1 .. Len(all) : all[e] \in Status \cup Ending
  BY DEF HasEnd
<1>2. e \in I
  BY <1>1
<1>3. I \in SUBSET Nat /\ I # {}
  BY <1>2, LenProperties DEF InOneAnswer
<1>4. Min(I) \in I /\ \A i \in I : Min(I) <= i
  BY <1>3, SmallestIndex
<1> QED BY <1>3, <1>4

\* What there is to read, the kept message first.
LEMMA WaitingIs ==
  ASSUME NEW txn, NEW saved, saved \in Passed \cup {"none"},
         NEW inbox, InOneAnswer(inbox), HasEnd(inbox)
  PROVE  LET cn == Sound(txn, saved, inbox)
             all == Waiting(cn)
         IN /\ InOneAnswer(all) /\ HasEnd(all) /\ ToSet(all) \subseteq Heard(cn)
            /\ all[1] = IF saved = "none" THEN inbox[1] ELSE saved
            /\ \A S : (saved = "none" \/ saved \in S) /\ inbox \in Seq(S) => all \in Seq(S)
<1> DEFINE cn == Sound(txn, saved, inbox)
           all == Waiting(cn)
<1>1. cn.saved = saved /\ cn.inbox = inbox
  BY DEF Sound
<1>2. inbox \in Seq(Message \cup Ending) /\ Len(inbox) \in Nat
  BY LenProperties DEF InOneAnswer
<1>3. /\ all = (IF saved = "none" THEN <<>> ELSE <<saved>>) \o inbox
      /\ Heard(cn) = {saved} \cup ToSet(inbox)
  BY <1>1 DEF Waiting, Heard
<1> HIDE DEF cn, all
<1>4. CASE saved = "none"
  <2>1. all = inbox
    BY <1>2, <1>3, <1>4, ConcatEmptySeq
  <2> QED BY <1>3, <1>4, <2>1 DEF all, cn
<1>5. CASE saved # "none"
  <2> DEFINE one == <<saved>>
  <2>1. all = one \o inbox /\ saved \in Passed /\ saved \in Message \cup Ending
    BY <1>3, <1>5 DEF Passed, Message
  <2>2. Len(one) = 1 /\ one[1] = saved /\ \A S : saved \in S => one \in Seq(S)
    OBVIOUS
  <2> HIDE DEF one
  <2>3. \A S : saved \in S /\ inbox \in Seq(S) => all \in Seq(S)
    BY <2>1, <2>2, ConcatProperties
  <2>4. /\ Len(all) = Len(inbox) + 1 /\ all \in Seq(Message \cup Ending)
        /\ all[1] = saved /\ \A i \in 1 .. Len(inbox) : all[i + 1] = inbox[i]
    <3> DEFINE M == Message \cup Ending
    <3>1. one \in Seq(M) /\ inbox \in Seq(M)
      BY <1>2, <2>1, <2>2
    <3> HIDE DEF M
    <3>2. /\ all \in Seq(M) /\ Len(all) = 1 + Len(inbox)
          /\ \A i \in 1 .. 1 + Len(inbox) : all[i] = IF i <= 1 THEN one[i] ELSE inbox[i - 1]
      <4>1. /\ one \o inbox \in Seq(M) /\ Len(one \o inbox) = Len(one) + Len(inbox)
            /\ \A i \in 1 .. Len(one) + Len(inbox) :
                 (one \o inbox)[i] = IF i <= Len(one) THEN one[i] ELSE inbox[i - Len(one)]
        BY <3>1, ConcatProperties
      <4> QED BY <2>1, <2>2, <4>1
    <3>3. \A i \in 1 .. Len(inbox) : all[i + 1] = inbox[i]
      <4> TAKE i \in 1 .. Len(inbox)
      <4>1. i + 1 \in 1 .. 1 + Len(inbox) /\ ~ (i + 1 <= 1) /\ i + 1 - 1 = i
        BY <1>2
      <4> QED BY <3>2, <4>1
    <3> QED BY <1>2, <2>2, <3>2, <3>3 DEF M
  <2>5. \A i \in 1 .. Len(all) : i = 1 \/ (i - 1 \in 1 .. Len(inbox) /\ all[i] = inbox[i - 1])
    <3> TAKE i \in 1 .. Len(all)
    <3>1. i # 1 => i - 1 \in 1 .. Len(inbox) /\ i - 1 + 1 = i
      BY <1>2, <2>4
    <3> QED BY <2>4, <3>1
  <2>6. InOneAnswer(all)
    <3>1. ASSUME NEW i \in 1 .. Len(all), NEW j \in 1 .. Len(all), i < j, all[i] \in Status
          PROVE  all[j] \in Ending
      <4>1. i # 1
        BY <2>1, <2>4, <3>1, Kinds
      <4>2. j # 1
        BY <1>2, <2>4, <3>1
      <4>3. i - 1 < j - 1
        BY <1>2, <2>4, <3>1
      <4> QED BY <2>5, <3>1, <4>1, <4>2, <4>3 DEF InOneAnswer
    <3> QED BY <2>4, <3>1 DEF InOneAnswer
  <2>7. HasEnd(all)
    <3>1. PICK i \in 1 .. Len(inbox) : inbox[i] \in Status \cup Ending
      BY DEF HasEnd
    <3>2. i + 1 \in 1 .. Len(all) /\ all[i + 1] = inbox[i]
      BY <1>2, <2>4
    <3> QED BY <3>1, <3>2 DEF HasEnd
  <2>8. ToSet(all) \subseteq {saved} \cup ToSet(inbox)
    BY <2>4, <2>5 DEF ToSet
  <2> QED BY <1>3, <1>5, <2>3, <2>4, <2>6, <2>7, <2>8 DEF all, cn
<1> QED BY <1>4, <1>5

\* What a loop that read as far as it could returns: it leaves nothing to read behind
\* it, and no error only with the first message passed over, if it was one to pass.
ReadTells(cn, r) ==
  /\ DOMAIN r = {"cn", "err", "said"} /\ Quiet(r.cn) /\ r.err \in Error
  /\ r.said \subseteq Heard(cn) /\ (r.err = "server" => "E" \in r.said)
  /\ r.err \in {"none", "server"} => Rests(r.cn)
  /\ r.err = "none" => LET first == Waiting(cn)[1]
                       IN /\ first \notin Ending \cup {"E"}
                          /\ first \in Passed => first \in r.said

\* The loop of Exec, and that of the rows.
LEMMA LoopTells ==
  ASSUME NEW txn, NEW saved, saved \in Passed \cup {"none"},
         NEW inbox, InOneAnswer(inbox), HasEnd(inbox)
  PROVE  LET cn == Sound(txn, saved, inbox)
         IN /\ ReadTells(cn, simpleExec(cn))
            /\ inbox \in Seq(Passed \cup Status \cup Ending) =>
                 /\ ReadTells(cn, RowsNext(cn))
                 /\ RowsNext(cn).err = "other" =>
                      RowsNext(cn).cn = Sound(txn, "none", <<"eof">>)
<1> DEFINE cn == Sound(txn, saved, inbox)
           all == Waiting(cn)
           stop == SelectInSeq(all, LAMBDA t : t \notin Passed)
           said == ToSet(SubSeq(all, 1, stop - 1))
           rest == SubSeq(all, stop, Len(all))
           left == [cn EXCEPT !.saved = "none", !.inbox = Rest(rest)]
           t == all[stop]
<1>1. /\ InOneAnswer(all) /\ HasEnd(all) /\ ToSet(all) \subseteq Heard(cn)
      /\ \A S : (saved = "none" \/ saved \in S) /\ inbox \in Seq(S) => all \in Seq(S)
  BY WaitingIs
<1>2. /\ stop \in 1 .. Len(all) /\ Len(all) \in Nat /\ t \in Message \cup Ending
      /\ t \notin Passed /\ \A i \in 1 .. stop - 1 : all[i] \in Passed
      /\ said \subseteq ToSet(all)
      /\ all[1] \in Passed => all[1] \in said
      /\ all[1] \notin Passed => stop = 1
      /\ "E" = all[1] => "E" \in said
      /\ Head(rest) = t /\ (t \in Status => Tail(rest) \in Seq(Ending))
  <2>1. Passed \cap (Status \cup Ending) = {} /\ "E" \in Passed
    BY Kinds DEF Passed
  <2> DEFINE I == {i \in 1 .. Len(all) : all[i] \notin Passed}
  <2>2. stop = IF I # {} THEN Min(I) ELSE 0
    BY DEF SelectInSeq
  <2> HIDE DEF all, stop
  <2>3. /\ I # {} /\ Min(I) \in 1 .. Len(all) /\ all[Min(I)] \notin Passed
        /\ \A i \in 1 .. Len(all) : all[i] \notin Passed => Min(I) <= i
    BY <1>1, <2>1, StopsSomewhere
  <2> HIDE DEF I
  <2> QED BY <1>1, <2>1, <2>2, <2>3, StopsFirst
<1>3. left = Sound(txn, "none", Rest(rest))
  <2> DEFINE d == left
  <2>1. /\ DOMAIN d = {"bad", "txnStatus", "saved", "inbox"} /\ d = [f \in DOMAIN d |-> d[f]]
        /\ d.bad = FALSE /\ d.txnStatus = txn /\ d.saved = "none" /\ d.inbox = Rest(rest)
    BY DEF Sound
  <2> HIDE DEF d
  <2>2. d = Sound(txn, "none", Rest(rest))
    BY <2>1 DEF Sound
  <2> QED BY <2>2 DEF d
<1>4. Rest(rest) = IF t \in Ending THEN <<"eof">> ELSE Tail(rest)
  BY <1>2 DEF Rest
<1>5. (IF cn.saved = "none" THEN <<>> ELSE <<cn.saved>>) \o cn.inbox = all
  BY DEF Waiting
<1>6. inbox \in Seq(Passed \cup Status \cup Ending) => t \in Status \cup Ending
  <2> SUFFICES ASSUME inbox \in Seq(Passed \cup Status \cup Ending)
               PROVE  t \in Status \cup Ending
    OBVIOUS
  <2> DEFINE S == Passed \cup Status \cup Ending
  <2>1. (saved = "none" \/ saved \in S) /\ inbox \in Seq(S)
    OBVIOUS
  <2> HIDE DEF S, all
  <2>2. all \in Seq(S)
    BY <1>1, <2>1
  <2>3. t \in S
    BY <1>2, <2>2, ElementOfSeq
  <2> QED BY <1>2, <2>3 DEF S
<1> HIDE DEF cn, left, rest, said, stop, t, all
<1> DEFINE ok == Result(Settled(left, t), IF "E" \in said THEN "server" ELSE "none", said)
           ended == Recovered(left, t, said)
<1>7. simpleExec(cn) = CASE t \in Status -> ok [] t \in Ending -> ended [] OTHER -> Broken(left)
  BY <1>5 DEF simpleExec, ReadOn, left, rest, said, stop, t
<1>8. t \in Status \cup Ending => RowsNext(cn) = IF t \in Status THEN ok ELSE ended
  BY <1>5, Kinds DEF RowsNext, ReadOn, left, rest, said, stop, t
<1>9. t \in Status => ReadTells(cn, ok) /\ ok.err # "other"
  <2> SUFFICES ASSUME t \in Status PROVE ReadTells(cn, ok) /\ ok.err # "other"
    OBVIOUS
  <2> DEFINE end == Tail(rest)
  <2>1. left = Sound(txn, "none", end) /\ end \in Seq(Ending)
    BY <1>2, <1>3, <1>4, Kinds
  <2> HIDE DEF end
  <2>2. Settled(left, t) = Sound(t, "none", end)
    BY <2>1, SettledSound
  <2>3. Rests(Sound(t, "none", end))
    BY <2>1 DEF Rests, IsSound, Sound
  <2>4. /\ DOMAIN ok = {"cn", "err", "said"} /\ ok.cn = Sound(t, "none", end) /\ ok.said = said
        /\ ok.err = IF "E" \in said THEN "server" ELSE "none"
    BY <2>2 DEF Result
  <2> HIDE DEF ok
  <2>5. all[1] \notin Ending \/ (stop = 1 /\ all[1] = t)
    BY <1>2, Kinds DEF t
  <2>6. all[1] \notin Ending
    BY <2>5, Kinds
  <2> QED BY <1>1, <1>2, <2>3, <2>4, <2>6 DEF ReadTells, Quiet, all, Error
<1>10. t \in Ending => /\ ReadTells(cn, ended)
                       /\ ended.err = "other" => ended.cn = Sound(txn, "none", <<"eof">>)
  <2> SUFFICES ASSUME t \in Ending
               PROVE  /\ ReadTells(cn, ended)
                      /\ ended.err = "other" => ended.cn = Sound(txn, "none", <<"eof">>)
    OBVIOUS
  <2>1. left = Sound(txn, "none", <<"eof">>)
    BY <1>3, <1>4
  <2>2. /\ Quiet(ended.cn) /\ ended.err \in {"other", "ErrBadConn"} /\ ended.said = said
        /\ ended.err = "other" => ended.cn = Sound(txn, "none", <<"eof">>)
        /\ DOMAIN ended = {"cn", "err", "said"}
    BY <2>1, RecoveredQuiet
  <2> HIDE DEF ended
  <2> QED BY <1>1, <1>2, <2>2 DEF ReadTells, Error
<1>11. ReadTells(cn, Broken(left))
  <2> DEFINE in2 == Rest(rest)
             b == Broken(left)
  <2>1. left = Sound(txn, "none", in2)
    BY <1>3
  <2> HIDE DEF in2
  <2>2. Quiet(b.cn) /\ b.err = "other" /\ b.said = {}
    BY <2>1, BrokenQuiet
  <2>3. DOMAIN b = {"cn", "err", "said"}
    BY DEF Broken, Result
  <2> HIDE DEF b
  <2>4. ReadTells(cn, b)
    BY <2>2, <2>3 DEF ReadTells, Error
  <2> QED BY <2>4 DEF b
<1> HIDE DEF ok, ended
<1>12. ReadTells(cn, simpleExec(cn))
  BY <1>7, <1>9, <1>10, <1>11
<1>13. t \in Status \cup Ending =>
         /\ ReadTells(cn, RowsNext(cn))
         /\ RowsNext(cn).err = "other" => RowsNext(cn).cn = Sound(txn, "none", <<"eof">>)
  BY <1>8, <1>9, <1>10
<1> QED BY <1>6, <1>12, <1>13 DEF cn

\* Commit, Rollback and Begin tell their answer from another one.
LEMMA EndTells ==
  ASSUME NEW txn, NEW inbox, InOneAnswer(inbox), HasEnd(inbox)
  PROVE  LET cn == Sound(txn, "none", inbox)
         IN /\ \A r \in {Begun(cn), Committed(cn), RolledBack(cn),
                         NotCommitted(RolledBack(cn))} :
                 Quiet(r.cn) /\ (r.err = "server" => "E" \in Heard(cn))
            /\ Committed(cn).err = "none" => "COMMIT" \in Heard(cn)
            /\ NotCommitted(RolledBack(cn)).err # "none"
<1> DEFINE cn == Sound(txn, "none", inbox)
           s == simpleExec(cn)
           bad == Broken(s.cn)
<1>1. ReadTells(cn, s)
  BY LoopTells
<1> HIDE DEF cn, s
<1>2. /\ DOMAIN s = {"cn", "err", "said"} /\ Quiet(s.cn)
      /\ s.said \subseteq Heard(cn) /\ (s.err = "server" => "E" \in Heard(cn))
      /\ s.err \in {"none", "server"} => IsSound(s.cn)
  BY <1>1 DEF ReadTells, Rests
<1>3. /\ bad.err = "other" /\ DOMAIN bad = {"cn", "err", "said"}
      /\ s.err \in {"none", "server"} => Quiet(bad.cn)
  <2>1. bad.err = "other" /\ DOMAIN bad = {"cn", "err", "said"}
    BY DEF Broken, Result
  <2>2. ASSUME s.err \in {"none", "server"} PROVE Quiet(bad.cn)
    <3>1. "bad" \in DOMAIN s.cn
      BY <1>2, <2>2, FieldsOf
    <3>2. bad.cn.bad = TRUE
      BY <3>1 DEF Broken, Result
    <3> QED BY <3>2 DEF Quiet
  <2> QED BY <2>1, <2>2
<1> HIDE DEF bad
<1>4. /\ [bad EXCEPT !.err = s.err].cn = bad.cn /\ [bad EXCEPT !.err = s.err].err = s.err
      /\ [s EXCEPT !.err = "other"].cn = s.cn /\ [s EXCEPT !.err = "other"].err = "other"
  BY <1>2, <1>3
<1> DEFINE fine(r) == Quiet(r.cn) /\ (r.err = "server" => "E" \in Heard(cn))
           b == Begun(cn)
           c == Committed(cn)
           k == RolledBack(cn)
           n == NotCommitted(k)
<1>5. fine(b)
  BY <1>2, <1>3 DEF Begun, s, bad
<1>6. fine(c) /\ (c.err = "none" => "COMMIT" \in Heard(cn))
  <2>1. c = CASE s.err = "server" /\ isInTransaction(s.cn) -> [bad EXCEPT !.err = s.err]
              [] s.err = "none" /\ ("COMMIT" \notin s.said \/ isInTransaction(s.cn)) -> bad
              [] OTHER -> s
    BY DEF Committed, s, bad
  <2> HIDE DEF c
  <2> QED BY <1>2, <1>3, <1>4, <2>1
<1>7. fine(k) /\ DOMAIN k = {"cn", "err", "said"}
  <2>1. k = CASE s.err = "server" /\ isInTransaction(s.cn) -> [bad EXCEPT !.err = s.err]
              [] s.err = "none" /\ "ROLLBACK" \notin s.said -> [s EXCEPT !.err = "other"]
              [] s.err = "none" /\ "ROLLBACK" \in s.said /\ isInTransaction(s.cn) -> bad
              [] OTHER -> s
    BY DEF RolledBack, s, bad
  <2> HIDE DEF k
  <2> QED BY <1>2, <1>3, <1>4, <2>1
<1>8. fine(n) /\ n.err # "none"
  <2>1. n = IF k.err = "none" THEN [k EXCEPT !.err = "other"] ELSE k
    BY DEF NotCommitted
  <2> HIDE DEF n, k
  <2> QED BY <1>7, <2>1
<1> QED BY <1>5, <1>6, <1>7, <1>8 DEF cn

\* Scan and the loop over the rows read the answer to its end, wherever it was cut off.
LEMMA RowsTell ==
  ASSUME NEW txn, NEW saved \in Tag \cup Row, NEW inbox, InOneAnswer(inbox), HasEnd(inbox),
         inbox \in Seq(Passed \cup Status \cup Ending)
  PROVE  LET cn == Sound(txn, saved, inbox)
         IN \A r \in {RowScan(cn), RowsLoop(cn)} :
              /\ Quiet(r.cn) /\ r.said \subseteq Heard(cn)
              /\ r.err = "server" => "E" \in Heard(cn)
              /\ r.err = "none" => saved \in r.said
<1> DEFINE cn == Sound(txn, saved, inbox)
           r == RowsNext(cn)
           end == <<"eof">>
           again == RowsNext(r.cn)
<1>1. /\ ReadTells(cn, r) /\ (r.err = "other" => r.cn = Sound(txn, "none", end))
      /\ Waiting(cn)[1] = saved /\ saved \in Passed
  <2>1. saved \in Passed /\ saved # "none"
    BY Kinds DEF Passed
  <2> QED BY <2>1, LoopTells, WaitingIs
<1>2. /\ InOneAnswer(end) /\ HasEnd(end) /\ end \in Seq(Passed \cup Status \cup Ending)
      /\ end[1] = "eof" /\ "eof" \in Ending
  BY DEF InOneAnswer, HasEnd, Ending
<1> HIDE DEF cn, r, end
<1>3. r.err = "other" => /\ DOMAIN again = {"cn", "err", "said"} /\ Quiet(again.cn)
                         /\ again.err \notin {"none", "server"}
  <2> SUFFICES ASSUME r.err = "other"
               PROVE  /\ DOMAIN again = {"cn", "err", "said"} /\ Quiet(again.cn)
                      /\ again.err \notin {"none", "server"}
    OBVIOUS
  <2> DEFINE cn2 == Sound(txn, "none", end)
  <2>1. again = RowsNext(cn2)
    BY <1>1
  <2>2. ReadTells(cn2, RowsNext(cn2)) /\ Waiting(cn2)[1] = "eof" /\ Heard(cn2) = {"none", "eof"}
    <3>1. ReadTells(cn2, RowsNext(cn2)) /\ Waiting(cn2)[1] = "eof"
      BY <1>2, LoopTells, WaitingIs
    <3>2. ToSet(end) = {"eof"}
      BY EntriesOf DEF end
    <3> QED BY <3>1, <3>2 DEF Heard, Sound
  <2> HIDE DEF cn2, again
  <2> QED BY <1>2, <2>1, <2>2 DEF ReadTells
<1> HIDE DEF again
<1> DEFINE closed == RowsClosed(r)
           tells(x) == /\ Quiet(x.cn) /\ x.said \subseteq Heard(cn)
                       /\ x.err = "server" => "E" \in Heard(cn)
                       /\ x.err = "none" => saved \in x.said
<1>4. tells(r)
  BY <1>1 DEF ReadTells
<1>5. tells(closed)
  <2>1. closed = CASE r.err \in {"none", "server"} -> r
                   [] r.err = "ErrBadConn"         -> r
                   [] OTHER                        -> [again EXCEPT !.said = r.said]
    BY DEF RowsClosed, again
  <2>2. CASE closed = r
    BY <1>4, <2>2
  <2>3. CASE closed # r
    <3>1. /\ r.err \notin {"none", "server", "ErrBadConn"}
          /\ closed = [again EXCEPT !.said = r.said]
      BY <2>1, <2>3
    <3>2. r.err = "other"
      BY <1>1, <3>1 DEF ReadTells, Error
    <3> HIDE DEF closed
    <3>3. closed.cn = again.cn /\ closed.err = again.err /\ closed.said = r.said
      BY <1>3, <3>1, <3>2
    <3> QED BY <1>3, <1>4, <3>2, <3>3
  <2> QED BY <2>2, <2>3
<1>6. RowsLoop(cn) = closed /\ RowScan(cn) \in {r, closed}
  BY DEF RowsLoop, RowScan, r
<1> HIDE DEF closed
<1> QED BY <1>4, <1>5, <1>6 DEF cn

\* What a call makes of what is on its connection, be it cut off: rows that are kept, with
\* no error, or nothing to read behind it; an error of the server that it said; a COMMIT
\* that it said; of a count what it said; and of a statement no error only with its tag.
ResultTells(cn, call, r) ==
  /\ IF call = "EXEC" /\ r.err = "none"
     THEN LET rest == Tail(Tail(cn.inbox))
          IN /\ r.cn = Sound(cn.txnStatus, cn.inbox[2], rest)
             /\ 2 \in 1 .. Len(cn.inbox) /\ cn.inbox[2] \in Tag \cup Row
             /\ InOneAnswer(rest) /\ HasEnd(rest) /\ Len(rest) = Len(cn.inbox) - 2
             /\ \A i \in 1 .. Len(rest) : rest[i] = cn.inbox[i + 2]
             /\ Heard(r.cn) \subseteq Heard(cn)
     ELSE Quiet(r.cn)
  /\ r.err = "server" => "E" \in Heard(cn)
  /\ call = "COMMIT" /\ r.err = "none" => "COMMIT" \in Heard(cn)
  /\ call \in {"SCAN", "ROWS"} =>
       r.said \subseteq Heard(cn) /\ (r.err = "none" => cn.saved \in r.said)
  /\ call = "QUERY" /\ r.err = "none" =>
       LET first == cn.inbox[1]
       IN /\ 1 \in 1 .. Len(cn.inbox) /\ first \notin Ending \cup {"E"}
          /\ first \in Passed => first \in Heard(cn)

\* So a call that is answered, by a whole answer or one that was cut off, returns no more
\* than it was told.
LEMMA ConcludedTells ==
  ASSUME NEW call \in Call \ {"DONE"}, NEW txn, NEW saved, NEW inbox,
         InOneAnswer(inbox), HasEnd(inbox),
         IF call \in {"SCAN", "ROWS"}
         THEN saved \in Tag \cup Row /\ inbox \in Seq(Passed \cup Status \cup Ending)
         ELSE saved = "none"
  PROVE  LET cn == Sound(txn, saved, inbox) IN ResultTells(cn, call, Concluded(cn, call))
<1> DEFINE cn == Sound(txn, saved, inbox)
           r == Concluded(cn, call)
<1>0. /\ cn.txnStatus = txn /\ cn.saved = saved /\ cn.inbox = inbox
      /\ Heard(cn) = {saved} \cup ToSet(inbox)
  BY DEF Sound, Heard
<1>1. CASE call \in {"BEGIN", "COMMIT", "ROLLBACK"}
  <2>1. cn = Sound(txn, "none", inbox)
    BY <1>1
  <2>2. /\ r \in {Begun(cn), Committed(cn), RolledBack(cn), NotCommitted(RolledBack(cn))}
        /\ call = "COMMIT" => r \in {Committed(cn), NotCommitted(RolledBack(cn))}
    BY <1>1 DEF Concluded
  <2>3. /\ Quiet(r.cn) /\ (r.err = "server" => "E" \in Heard(cn))
        /\ call = "COMMIT" /\ r.err = "none" => "COMMIT" \in Heard(cn)
    <3> HIDE DEF r
    <3> QED BY <2>1, <2>2, EndTells
  <2> HIDE DEF r, cn
  <2>4. ResultTells(cn, call, r)
    BY <1>1, <2>3 DEF ResultTells
  <2> QED BY <2>4 DEF r, cn
<1>2. CASE call = "PARSE"
  <2>1. cn = Sound(txn, "none", inbox) /\ r = prepareTo(cn)
    BY <1>2 DEF Concluded
  <2>2. Quiet(r.cn) /\ (r.err = "server" => "E" \in ToSet(inbox))
    <3> HIDE DEF r
    <3> QED BY <2>1, PrepareTells
  <2> HIDE DEF r, cn
  <2>4. ResultTells(cn, call, r)
    BY <1>0, <1>2, <2>2 DEF ResultTells
  <2> QED BY <2>4 DEF r, cn
<1>3. CASE call = "EXEC"
  <2> DEFINE rest == Tail(Tail(inbox))
  <2>1. cn = Sound(txn, "none", inbox) /\ r = exec(cn)
    BY <1>3 DEF Concluded
  <2>2. \/ Ends(inbox, r)
        \/ /\ r.err = "none" /\ r.cn = Sound(txn, inbox[2], rest)
           /\ 2 \in 1 .. Len(inbox) /\ inbox[2] \in Tag \cup Row
           /\ InOneAnswer(rest) /\ HasEnd(rest) /\ Len(rest) = Len(inbox) - 2
           /\ \A i \in 1 .. Len(rest) : rest[i] = inbox[i + 2]
           /\ ToSet(rest) \subseteq ToSet(inbox) /\ inbox[2] \in ToSet(inbox)
    <3> HIDE DEF r
    <3> QED BY <2>1, ExecTells
  <2>3. Heard(Sound(txn, inbox[2], rest)) = {inbox[2]} \cup ToSet(rest)
    BY DEF Heard, Sound
  <2> HIDE DEF r, cn, rest
  <2>4. CASE Ends(inbox, r)
    <3>1. ResultTells(cn, call, r)
      BY <1>0, <1>3, <2>4 DEF ResultTells, Ends
    <3> QED BY <3>1 DEF r, cn
  <2>5. CASE ~Ends(inbox, r)
    <3>1. ResultTells(cn, call, r)
      BY <1>0, <1>3, <2>2, <2>3, <2>5 DEF ResultTells, rest
    <3> QED BY <3>1 DEF r, cn
  <2> QED BY <2>4, <2>5
<1>4. CASE call \in {"SCAN", "ROWS"}
  <2>1. r \in {RowScan(cn), RowsLoop(cn)}
    BY <1>4 DEF Concluded
  <2>2. /\ Quiet(r.cn) /\ r.said \subseteq Heard(cn)
        /\ r.err = "server" => "E" \in Heard(cn)
        /\ r.err = "none" => saved \in r.said
    <3> HIDE DEF r
    <3> QED BY <1>4, <2>1, RowsTell
  <2> HIDE DEF r, cn
  <2>4. ResultTells(cn, call, r)
    BY <1>0, <1>4, <2>2 DEF ResultTells
  <2> QED BY <2>4 DEF r, cn
<1>5. CASE call = "QUERY"
  <2>1. cn = Sound(txn, "none", inbox) /\ r = simpleExec(cn) /\ saved = "none"
    BY <1>5 DEF Concluded
  <2>2. ReadTells(cn, r) /\ Waiting(cn)[1] = inbox[1]
    <3>1. ReadTells(Sound(txn, "none", inbox), simpleExec(Sound(txn, "none", inbox)))
      BY LoopTells
    <3>2. Waiting(Sound(txn, "none", inbox))[1] = inbox[1]
      BY WaitingIs
    <3> HIDE DEF r, cn
    <3> QED BY <2>1, <3>1, <3>2
  <2> HIDE DEF r, cn
  <2>4. ResultTells(cn, call, r)
    <3>1. 1 \in 1 .. Len(inbox)
      BY LenProperties DEF HasEnd, InOneAnswer
    <3> QED BY <1>0, <1>5, <2>2, <3>1 DEF ResultTells, ReadTells
  <2> QED BY <2>4 DEF r, cn
<1> QED BY <1>1, <1>2, <1>3, <1>4, <1>5 DEF Call

\* DialOpen has a session only with its ReadyForQuery, which it read.
LEMMA OpeningTells ==
  ASSUME NEW txn, NEW inbox, InOneAnswer(inbox), HasEnd(inbox)
  PROVE  LET cn == Sound(txn, "none", inbox)
         IN \A r \in {startup(cn), auth(cn)} : r.err = "none" => Rests(r.cn)
<1> DEFINE cn == Sound(txn, "none", inbox)
           stop == SelectInSeq(inbox, LAMBDA t : t \notin {"R0", "K"})
           t == inbox[stop]
           rest == SubSeq(inbox, stop, Len(inbox))
           left == [cn EXCEPT !.inbox = Rest(rest)]
           end == Tail(rest)
           r == startup(cn)
<1>1. Head(rest) = t /\ (t \in Status => end \in Seq(Ending))
  <2> DEFINE P == {"R0", "K"}
             I == {i \in 1 .. Len(inbox) : inbox[i] \notin P}
  <2>1. P \cap (Status \cup Ending) = {}
    BY DEF Status, Ending
  <2>2. stop = IF I # {} THEN Min(I) ELSE 0
    BY DEF SelectInSeq
  <2> HIDE DEF stop
  <2>3. /\ I # {} /\ Min(I) \in 1 .. Len(inbox) /\ inbox[Min(I)] \notin P
        /\ \A i \in 1 .. Len(inbox) : inbox[i] \notin P => Min(I) <= i
    BY <2>1, StopsSomewhere
  <2> HIDE DEF I, P
  <2> QED BY <2>1, <2>2, <2>3, StopsFirst
<1>2. cn.inbox = inbox
  BY DEF Sound
<1>3. left = Sound(txn, "none", Rest(rest))
  <2> DEFINE d == left
  <2>1. /\ DOMAIN d = {"bad", "txnStatus", "saved", "inbox"} /\ d = [f \in DOMAIN d |-> d[f]]
        /\ d.bad = FALSE /\ d.txnStatus = txn /\ d.saved = "none" /\ d.inbox = Rest(rest)
    BY DEF Sound
  <2> HIDE DEF d
  <2>2. d = Sound(txn, "none", Rest(rest))
    BY <2>1 DEF Sound
  <2> QED BY <2>2 DEF d
<1>4. Rest(rest) = IF t \in Ending THEN <<"eof">> ELSE end
  BY <1>1 DEF Rest
<1> HIDE DEF cn, stop, t, rest, left, end, r
<1>5. r = CASE t \in Status -> Result(Settled(left, t), "none", {})
            [] t = "E"      -> Result(left, "server", {})
            [] OTHER        -> Result(left, "other", {})
  BY <1>2 DEF startup, r, left, rest, t, stop
<1>6. r.err = "none" => Rests(r.cn)
  <2> SUFFICES ASSUME r.err = "none" PROVE Rests(r.cn)
    OBVIOUS
  <2>1. t \in Status /\ r.cn = Settled(left, t)
    BY <1>5 DEF Result, Status
  <2>2. left = Sound(txn, "none", end) /\ end \in Seq(Ending)
    BY <1>1, <1>3, <1>4, <2>1, Kinds
  <2>3. Settled(left, t) = Sound(t, "none", end)
    BY <2>2, SettledSound
  <2>4. Rests(Sound(t, "none", end))
    BY <2>2 DEF Rests, IsSound, Sound
  <2> QED BY <2>1, <2>3, <2>4
<1>7. auth(cn).err = "none" => auth(cn) = r
  BY DEF auth, Result, r
<1> QED BY <1>6, <1>7 DEF r, cn

-----------------------------------------------------------------------------
(* What is true of the table while an answer is on its way. *)

\* The messages a call may read,
Reads(q, cn) ==
  /\ IsSound(cn) /\ InOneAnswer(cn.inbox)
  /\ IF q.call \in {"SCAN", "ROWS"}
     THEN cn.saved \in Tag \cup Row /\ cn.inbox \in Seq(Passed \cup Status \cup Ending)
     ELSE cn.saved = "none"
  /\ q.call = "EXEC" =>
       \A i \in 1 .. Len(cn.inbox) : i > 1 => cn.inbox[i] \in Passed \cup Status \cup Ending

\* and what they say to a Create: an INSERT that did not fail has a row, and COMMIT was
\* said of one that is in the table;
CreateHears(r, q, cn, rows) ==
  /\ q.call = "EXEC" => \A i \in 1 .. Len(cn.inbox) : i = 2 => cn.inbox[i] \notin Tag \cup {"0"}
  /\ q.call = "SCAN" => cn.saved = "D"
  /\ q.call = "COMMIT" /\ "COMMIT" \in Heard(cn) /\ q.seen = {} => r \in rows

\* to the migration: the index is there when it is counted or created.
MigrationHears(q, cn, made) ==
  /\ q.call = "QUERY" =>
       \A i \in 1 .. Len(cn.inbox) : i = 1 => cn.inbox[i] \in {"CREATE", "E"} \cup Ending
  /\ q.doing = "createIndex" /\ "CREATE" \in Heard(cn) => "index" \in made
  /\ q.doing = "hasIndex" /\ "D" \in Heard(cn) => "index" \in made

\* A connection that is opened is cut off with an end; one between two calls has nothing
\* to read but an end; one with a call on its way has its answer.
Hears(r, q, cn, live, rows, made) ==
  /\ q.opening # "no" =>
       /\ IsSound(cn) /\ cn.saved = "none" /\ InOneAnswer(cn.inbox)
       /\ ~live => HasEnd(cn.inbox)
  /\ q.opening = "no" /\ ~q.sent => Quiet(cn)
  /\ q.opening = "no" /\ q.sent =>
       /\ Reads(q, cn)
       /\ r \in Creates => CreateHears(r, q, cn, rows)
       /\ r = Migration => MigrationHears(q, cn, made)

\* A Create has failed only with an error, and without one it has begun a transaction
\* and ends with its row.
NoError(r, q, rows) ==
  /\ q.call \notin {"DONE", "ROLLBACK"} => q.failed = FALSE
  /\ q.seen = {} => /\ q.failed = FALSE /\ q.call # "ROLLBACK"
                    /\ q.started \/ q.call = "BEGIN"
                    /\ q.call = "DONE" => r \in rows

\* A row that is committed outside a transaction is one whose answer was lost, or was
\* heard, or is on its way and no error.
InsertedAlone(q, cn, command) ==
  \/ ~ (q.seen \subseteq {"server"}) /\ q.call # "BEGIN"
  \/ q.call = "DONE" /\ q.failed = FALSE
  \/ q.call \in {"EXEC", "SCAN"} /\ q.sent /\ command = None /\ "E" \notin Heard(cn)

InTable(q, cn, command) ==
  \/ q.started /\ q.failed = FALSE /\ q.call \in {"COMMIT", "DONE"}
  \/ ~q.started /\ InsertedAlone(q, cn, command)

\* The session of a Create without an error has its row from the INSERT to the COMMIT.
RowHeld(r, q, se, command) ==
  /\ q.seen = {} /\ q.conn # None /\ se.status = "inTransaction"
  /\ q.call \in {"SCAN", "COMMIT"} \/ (q.call = "EXEC" /\ q.sent /\ command = None)
  => r \in se.rows

\* The migration without an error ends with the index.
Migrated(q, made) ==
  q.seen = {} => q.failed = FALSE /\ (q.call = "DONE" => "index" \in made)

\* A request and its connection.
Truth(r, q, cn, se, command, rows, made) ==
  /\ q.conn # None => Hears(r, q, cn, se # NoSession, rows, made)
  /\ r \in Creates =>
       /\ NoError(r, q, rows)
       /\ r \in rows => InTable(q, cn, command)
       /\ RowHeld(r, q, se, command)
  /\ r = Migration => Migrated(q, made)

\* Uncommitted rows are those of the request that has the connection.
RowsOk(c) ==
  \A x \in session[c].rows :
    x \in Creates /\ request[x].conn = c /\ session[c].status = "inTransaction"

Uncommitted == UNION {session[c].rows : c \in Conn}

Distinct ==
  "index" \in schema => \A r, s \in table \cup Uncommitted : emailOf[r] = emailOf[s] => r = s

\* Nothing is served before the migration is over.
Unserved ==
  request[Migration].call # "DONE" =>
    table = {} /\ \A r \in Requests \ {Migration} : request[r].conn = None

TruthOf(r) ==
  LET c == request[r].conn
  IN Truth(r, request[r], conn[c], session[c], asked[c], table, schema)

TruthInv ==
  /\ \A r \in Requests : TruthOf(r)
  /\ \A c \in Conn : RowsOk(c)
  /\ \A c \in free : Quiet(conn[c])
  /\ table \subseteq Creates /\ Distinct /\ Unserved

\* A connection that rests has nothing to say to a call.
LEMMA RestsHears ==
  ASSUME NEW r, NEW q, NEW cn, Rests(cn), q.opening = "no", q.call \notin {"SCAN", "ROWS"},
         NEW live, NEW rows, NEW made
  PROVE  Hears(r, q, cn, live, rows, made)
<1>1. /\ IsSound(cn) /\ cn.saved = "none" /\ Len(cn.inbox) \in Nat
      /\ \A i \in 1 .. Len(cn.inbox) : cn.inbox[i] \in Ending
  BY ElementOfSeq, LenProperties DEF Rests
<1>2. cn.inbox \in Seq(Message \cup Ending)
  BY SeqMonotonic DEF Rests
<1>3. InOneAnswer(cn.inbox)
  BY <1>1, <1>2 DEF InOneAnswer
<1>4. Heard(cn) \subseteq {"none"} \cup Ending
  BY <1>1 DEF Heard, ToSet
<1>5. Ending \cap (Tag \cup {"0", "D", "none"}) = {} /\ "none" \notin Tag
  BY DEF Ending, Tag
<1>6. Quiet(cn)
  BY DEF Quiet
<1>7. Reads(q, cn)
  BY <1>1, <1>3 DEF Reads
<1>8. CreateHears(r, q, cn, rows)
  BY <1>1, <1>4, <1>5 DEF CreateHears, Tag
<1>9. MigrationHears(q, cn, made)
  BY <1>1, <1>4, <1>5 DEF MigrationHears, Tag
<1> QED BY <1>6, <1>7, <1>8, <1>9 DEF Hears

\* What is noted of an error.
LEMMA NotesSeen ==
  ASSUME NEW q, DOMAIN q = RequestFields, NEW err
  PROVE  LET p == Noting(q, err)
         IN p.seen = (IF err = "none" THEN q.seen ELSE q.seen \cup {err}) /\ p.failed = q.failed
BY DEF Noting, RequestFields

\* What a registration makes of a result.
CreateMakes(q, n, result) ==
  /\ n.seen = IF result.err = "none" THEN q.seen ELSE q.seen \cup {result.err}
  /\ q.call = "BEGIN" =>
       /\ n.failed = q.failed /\ n.call \in {"BEGIN", "PARSE"}
       /\ result.err = "none" => n.call = "PARSE"
  /\ q.call \in {"PARSE", "EXEC"} /\ result.err = "none" =>
       n.failed = q.failed /\ n.call = IF q.call = "PARSE" THEN "EXEC" ELSE "SCAN"
  /\ q.call \in {"PARSE", "EXEC"} /\ result.err # "none" =>
       \/ n.call = "PARSE" /\ n.failed = q.failed
       \/ n.failed = TRUE /\ n.call = IF q.started THEN "ROLLBACK" ELSE "DONE"
  /\ q.call = "SCAN" =>
       /\ n.failed = (result.err # "none" \/ ~HasRow(result))
       /\ n.call = IF ~q.started THEN "DONE" ELSE IF n.failed THEN "ROLLBACK" ELSE "COMMIT"
  /\ q.call \in {"COMMIT", "ROLLBACK"} => n.failed = q.failed /\ n.call = "DONE"

\* Its next call follows from what it heard.
LEMMA CreateTells ==
  ASSUME NEW r \in Creates, NEW q, InOrder(r, q), q.call # "DONE", NEW result
  PROVE  CreateMakes(q, Goes(q, result), result)
<1> DEFINE p == Noting(q, result.err)
           n == Goes(q, result)
<1>1. /\ DOMAIN p = RequestFields /\ p.sent = FALSE
      /\ p.call = q.call /\ p.doing = q.doing /\ p.conn = q.conn
      /\ p.opening = q.opening /\ p.started = q.started /\ p.failed = q.failed
      /\ p.seen = (IF result.err = "none" THEN q.seen ELSE q.seen \cup {result.err})
  <2>1. DOMAIN q = RequestFields
    BY DEF InOrder
  <2>2. p.seen = (IF result.err = "none" THEN q.seen ELSE q.seen \cup {result.err})
    BY <2>1, NotesSeen
  <2>3. /\ DOMAIN p = RequestFields /\ p.sent = FALSE
        /\ p.call = q.call /\ p.doing = q.doing /\ p.conn = q.conn
        /\ p.opening = q.opening /\ p.started = q.started /\ p.failed = q.failed
    BY <2>1, Notes
  <2> HIDE DEF p
  <2> QED BY <2>2, <2>3
<1>2. /\ q.doing = "insert" /\ q.started \in BOOLEAN
      /\ q.call \in {"BEGIN", "PARSE", "EXEC", "SCAN", "COMMIT", "ROLLBACK"}
  BY Roles DEF InOrder, Role, Requests
<1>3. n = IF Retried(p, result.err) THEN Again(p) ELSE NextCall(p, result)
  BY DEF Goes
<1> HIDE DEF p, n
<1>4. CASE q.call = "BEGIN"
  <2>1. n.seen = p.seen /\ n.failed = p.failed /\ n.call \in {"BEGIN", "PARSE"}
        /\ (result.err = "none" => n.call = "PARSE")
    BY <1>1, <1>2, <1>3, <1>4 DEF Retried, Again, NextCall, Began, RequestFields
  <2> QED BY <1>1, <1>4, <2>1 DEF CreateMakes, n
<1>5. CASE q.call \in {"PARSE", "EXEC"} /\ Retried(p, result.err)
  <2>1. n.seen = p.seen /\ n.failed = p.failed /\ n.call = "PARSE" /\ result.err # "none"
    BY <1>1, <1>3, <1>5 DEF Retried, Again, RequestFields
  <2> QED BY <1>1, <1>5, <2>1 DEF CreateMakes, n
<1>6. CASE q.call \in {"PARSE", "EXEC"} /\ ~Retried(p, result.err) /\ result.err = "none"
  <2>1. /\ n.seen = p.seen /\ n.failed = p.failed
        /\ n.call = IF q.call = "PARSE" THEN "EXEC" ELSE "SCAN"
    BY <1>1, <1>2, <1>3, <1>6 DEF NextCall, RequestFields
  <2> QED BY <1>1, <1>6, <2>1 DEF CreateMakes, n
<1> DEFINE f == [p EXCEPT !.failed = result.err # "none" \/ ~HasRow(result)]
           i == Inserted(p, result)
<1>7. /\ i.seen = p.seen /\ i.failed = (result.err # "none" \/ ~HasRow(result))
      /\ i.call = IF ~q.started THEN "DONE" ELSE IF i.failed THEN "ROLLBACK" ELSE "COMMIT"
  <2>1. /\ DOMAIN f = RequestFields /\ f.seen = p.seen /\ f.started = p.started
        /\ f.failed = (result.err # "none" \/ ~HasRow(result))
    BY <1>1 DEF RequestFields
  <2>2. i = After(f)
    BY DEF Inserted
  <2> HIDE DEF f, i
  <2> QED BY <1>1, <2>1, <2>2 DEF After, EndOf, RequestFields
<1>8. CASE q.call \in {"PARSE", "EXEC"} /\ ~Retried(p, result.err) /\ result.err # "none"
  <2>1. n = i
    BY <1>1, <1>2, <1>3, <1>8 DEF NextCall, Concludes
  <2> HIDE DEF i
  <2>2. n.seen = p.seen /\ n.failed = TRUE /\ n.call = IF q.started THEN "ROLLBACK" ELSE "DONE"
    BY <1>7, <1>8, <2>1
  <2> QED BY <1>1, <1>8, <2>2 DEF CreateMakes, n
<1>9. CASE q.call = "SCAN"
  <2>1. n = i
    BY <1>1, <1>2, <1>3, <1>9 DEF Retried, NextCall, Concludes
  <2> HIDE DEF i
  <2> QED BY <1>1, <1>7, <1>9, <2>1 DEF CreateMakes, n
<1>10. CASE q.call \in {"COMMIT", "ROLLBACK"}
  <2>1. n.seen = p.seen /\ n.failed = p.failed /\ n.call = "DONE"
    BY <1>1, <1>2, <1>3, <1>10 DEF Retried, NextCall, RequestFields
  <2> QED BY <1>1, <1>10, <2>1 DEF CreateMakes, n
<1> QED BY <1>2, <1>4, <1>5, <1>6, <1>8, <1>9, <1>10

\* What the migration makes of one.
MigrationMakes(q, n, result) ==
  /\ n.seen = IF result.err = "none" THEN q.seen ELSE q.seen \cup {result.err}
  /\ result.err = "none" =>
       /\ q.failed = FALSE => n.failed = FALSE
       /\ q.call = "EXEC" => n.doing = q.doing
       /\ q.failed = FALSE /\ n.call = "DONE" =>
            \/ q.doing = "hasIndex" /\ q.call = "SCAN" /\ Counts(result)
            \/ q.doing = "createIndex" /\ q.call = "QUERY"

\* autoMigrate ends without an error only behind the index,
LEMMA autoMigrateTells ==
  ASSUME NEW p, DOMAIN p = RequestFields, NEW result, p.doing \in Simple \cup Catalogue
  PROVE  LET n == autoMigrate(p, result)
         IN /\ n.seen = p.seen
            /\ result.err = "none" /\ p.failed = FALSE =>
                 /\ n.failed = FALSE
                 /\ n.call = "DONE" => \/ p.doing = "hasIndex" /\ Counts(result)
                                       \/ p.doing = "createIndex"
<1> DEFINE m == [p EXCEPT !.failed = @ \/ (p.doing \in Simple /\ result.err # "none")]
           n == autoMigrate(p, result)
           e == [m EXCEPT !.call = "DONE"]
<1>1. /\ DOMAIN m = RequestFields /\ m.doing = p.doing /\ m.seen = p.seen
      /\ result.err = "none" /\ p.failed = FALSE => m.failed = FALSE
  BY DEF RequestFields
<1> HIDE DEF m
<1>2. \A d \in Simple \cup Catalogue :
        /\ Executes(m, d).seen = p.seen /\ Executes(m, d).failed = m.failed
        /\ Executes(m, d).call # "DONE"
  BY <1>1 DEF Executes, FirstCall, RequestFields
<1>3. e.seen = p.seen /\ e.failed = m.failed
  BY <1>1 DEF RequestFields
<1>4. \/ \E d \in Simple \cup Catalogue : n = Executes(m, d)
      \/ /\ n = e
         /\ \/ p.doing = "hasIndex" /\ (Counts(result) \/ m.failed)
            \/ p.doing = "createIndex"
  <2>1. CASE p.doing = "hasTable"
    <3>1. n = Executes(m, IF Counts(result) THEN "hasColumn" ELSE "createTable")
      BY <1>1, <2>1 DEF autoMigrate, m, Simple
    <3> QED BY <3>1 DEF Simple, Catalogue
  <2>2. CASE p.doing = "hasColumn"
    <3>1. n = Executes(m, IF Counts(result) THEN "hasIndex" ELSE "addColumn")
      BY <1>1, <2>2 DEF autoMigrate, m, Simple
    <3> QED BY <3>1 DEF Simple, Catalogue
  <2>3. CASE p.doing \in {"createTable", "addColumn"}
    <3>1. n = Executes(m, "hasIndex")
      BY <1>1, <2>3 DEF autoMigrate, m, Simple
    <3> QED BY <3>1 DEF Catalogue
  <2>4. CASE p.doing = "hasIndex"
    <3>1. n = addIndex(m, Counts(result))
      BY <1>1, <2>4 DEF autoMigrate, m, Simple
    <3> QED BY <2>4, <3>1 DEF addIndex, Simple
  <2>5. CASE p.doing = "createIndex"
    BY <1>1, <2>5 DEF autoMigrate, m, Simple
  <2> QED BY <2>1, <2>2, <2>3, <2>4, <2>5 DEF Simple, Catalogue
<1> HIDE DEF n, e
<1> QED BY <1>1, <1>2, <1>3, <1>4 DEF n

\* and so does the migration.
LEMMA MigrationTells ==
  ASSUME NEW q, InOrder(Migration, q), q.call # "DONE", NEW result
  PROVE  MigrationMakes(q, Goes(q, result), result)
<1> DEFINE p == Noting(q, result.err)
           n == Goes(q, result)
           e == autoMigrate(p, result)
<1>1. /\ DOMAIN p = RequestFields /\ p.sent = FALSE
      /\ p.call = q.call /\ p.doing = q.doing /\ p.started = q.started /\ p.failed = q.failed
      /\ p.seen = (IF result.err = "none" THEN q.seen ELSE q.seen \cup {result.err})
  BY Notes, NotesSeen DEF InOrder
<1>2. /\ \/ q.doing \in Simple /\ q.call = "QUERY"
         \/ q.doing \in Catalogue /\ q.call \in {"PARSE", "EXEC", "SCAN"}
      /\ q.started = FALSE
  BY RequestsAssumption DEF InOrder, Role
<1>3. n = IF Retried(p, result.err) THEN Again(p) ELSE NextCall(p, result)
  BY DEF Goes
<1>4. /\ e.seen = p.seen
      /\ result.err = "none" /\ p.failed = FALSE =>
           /\ e.failed = FALSE
           /\ e.call = "DONE" => \/ p.doing = "hasIndex" /\ Counts(result)
                                 \/ p.doing = "createIndex"
  <2> HIDE DEF p
  <2> QED BY <1>1, <1>2, autoMigrateTells
<1> HIDE DEF p, n, e
<1>5. /\ p.doing \notin {"insert", "find"}
      /\ "hasIndex" \notin Simple /\ "createIndex" \notin Catalogue
  BY <1>1, <1>2 DEF Simple, Catalogue
<1>6. CASE Retried(p, result.err)
  <2>1. n.seen = p.seen /\ result.err # "none"
    BY <1>1, <1>3, <1>6 DEF Retried, Again, RequestFields
  <2> QED BY <1>1, <2>1 DEF MigrationMakes, n
<1>7. CASE ~Retried(p, result.err) /\ result.err = "none" /\ q.call \in {"PARSE", "EXEC"}
  <2>1. /\ n.seen = p.seen /\ n.failed = q.failed /\ n.doing = q.doing /\ n.call # "DONE"
    BY <1>1, <1>2, <1>3, <1>5, <1>7 DEF NextCall, RequestFields
  <2> QED BY <1>1, <1>7, <2>1 DEF MigrationMakes, n
<1>8. CASE ~Retried(p, result.err) /\ ~(result.err = "none" /\ q.call \in {"PARSE", "EXEC"})
  <2>1. n = e
    BY <1>1, <1>2, <1>3, <1>5, <1>8 DEF NextCall, Concludes, e
  <2>2. /\ result.err = "none" => q.call \in {"SCAN", "QUERY"}
        /\ q.doing = "hasIndex" => q.call # "QUERY"
        /\ q.doing = "createIndex" => q.call = "QUERY"
    BY <1>2, <1>5, <1>8
  <2>3. MigrationMakes(q, n, result)
    BY <1>1, <1>4, <2>1, <2>2 DEF MigrationMakes
  <2> QED BY <2>3 DEF n
<1> QED BY <1>6, <1>7, <1>8

\* A call is refused or breaks before it is made, or it has read its answer.
Brings(q, cn, result) ==
  \/ ~q.sent /\ Quiet(result.cn) /\ result.err \notin {"none", "server"}
  \/ q.sent /\ ResultTells(cn, q.call, result)

\* After a call the connection is quiet or has the rows of the answer.
LEMMA HearsAfter ==
  ASSUME NEW r \in Requests, NEW q, InOrder(r, q), q.conn # None, q.opening = "no",
         q.call # "DONE", NEW cn, NEW live, NEW rows, NEW made,
         Hears(r, q, cn, live, rows, made),
         NEW result, Brings(q, cn, result)
  PROVE  /\ Hears(r, Goes(q, result), result.cn, live, rows, made)
         /\ ~ (q.call = "EXEC" /\ result.err = "none") => Quiet(result.cn)
<1> DEFINE n == Goes(q, result)
           more == q.call = "EXEC" /\ result.err = "none"
<1>1. /\ DOMAIN n = RequestFields /\ n.opening = "no" /\ n.sent = more
      /\ (n.call \in {"SCAN", "ROWS"} <=> more)
  BY RequestGoes DEF GoesTo
<1>2. r = Migration => MigrationMakes(q, n, result)
  BY MigrationTells
<1>3. q.sent \in BOOLEAN
  BY DEF InOrder
<1> HIDE DEF n
<1>4. ~more => Quiet(result.cn)
  BY DEF Brings, ResultTells
<1>5. CASE ~more
  BY <1>1, <1>4, <1>5 DEF Hears, n
<1>6. CASE more
  <2> DEFINE rest == Tail(Tail(cn.inbox))
             t == cn.inbox[2]
             cn2 == Sound(cn.txnStatus, t, rest)
  <2>1. q.sent /\ ResultTells(cn, q.call, result)
    BY <1>6 DEF Brings
  <2>2. /\ result.cn = cn2 /\ 2 \in 1 .. Len(cn.inbox) /\ t \in Tag \cup Row
        /\ InOneAnswer(rest) /\ Len(rest) = Len(cn.inbox) - 2
        /\ \A i \in 1 .. Len(rest) : rest[i] = cn.inbox[i + 2]
        /\ Heard(cn2) \subseteq Heard(cn)
    BY <1>6, <2>1 DEF ResultTells
  <2>3. /\ Reads(q, cn) /\ (r \in Creates => CreateHears(r, q, cn, rows))
        /\ (r = Migration => MigrationHears(q, cn, made))
    BY <2>1 DEF Hears
  <2>4. cn2.saved = t /\ cn2.inbox = rest /\ IsSound(cn2)
    BY DEF Sound, IsSound
  <2>5. Len(cn.inbox) \in Nat /\ \A i \in 1 .. Len(cn.inbox) : i > 1 =>
          cn.inbox[i] \in Passed \cup Status \cup Ending
    BY <1>6, <2>3, LenProperties DEF Reads, InOneAnswer
  <2> HIDE DEF rest, cn2, t
  <2>6. rest \in Seq(Passed \cup Status \cup Ending)
    <3>1. ASSUME NEW i \in 1 .. Len(rest) PROVE rest[i] \in Passed \cup Status \cup Ending
      <4>1. i + 2 \in 1 .. Len(cn.inbox) /\ i + 2 > 1
        BY <2>2, <2>5
      <4> QED BY <2>2, <2>5, <4>1
    <3>2. rest \in Seq(Message \cup Ending)
      BY <2>2 DEF InOneAnswer
    <3>3. rest = [i \in 1 .. Len(rest) |-> rest[i]] /\ Len(rest) \in Nat
      BY <3>2
    <3> QED BY <3>1, <3>3
  <2>7. Reads(n, cn2)
    BY <1>1, <1>6, <2>2, <2>4, <2>6 DEF Reads
  <2>8. r \in Creates => CreateHears(r, n, cn2, rows)
    <3> SUFFICES ASSUME r \in Creates PROVE CreateHears(r, n, cn2, rows)
      OBVIOUS
    <3>1. t = "D"
      <4>1. t \notin Tag \cup {"0"}
        BY <1>6, <2>2, <2>3 DEF CreateHears, t
      <4> QED BY <2>2, <4>1 DEF Row
    <3> QED BY <1>1, <1>6, <2>4, <3>1 DEF CreateHears
  <2>9. r = Migration => MigrationHears(n, cn2, made)
    <3> SUFFICES ASSUME r = Migration PROVE MigrationHears(n, cn2, made)
      OBVIOUS
    <3>1. n.doing = q.doing
      BY <1>2, <1>6 DEF MigrationMakes
    <3>2. n.call # "QUERY"
      BY <1>1, <1>6
    <3> QED BY <2>2, <2>3, <3>1, <3>2 DEF MigrationHears
  <2> QED BY <1>1, <1>6, <2>2, <2>7, <2>8, <2>9 DEF Hears, n
<1> QED BY <1>5, <1>6

\* What is true of a Create stays true when a call of it returns.
LEMMA CreateAfter ==
  ASSUME NEW r \in Creates, NEW q, InOrder(r, q), q.conn # None, q.opening = "no",
         q.call # "DONE", NEW cn, NEW se, NEW command, NEW rows, NEW made,
         Truth(r, q, cn, se, command, rows, made),
         NEW result, Brings(q, cn, result), q.sent => command = None
  PROVE  LET n == Goes(q, result)
         IN /\ NoError(r, n, rows)
            /\ r \in rows => InTable(n, result.cn, command)
            /\ RowHeld(r, n, se, command)
<1> DEFINE n == Goes(q, result)
<1>1. /\ CreateMakes(q, n, result)
      /\ DOMAIN n = RequestFields /\ n.conn = q.conn
      /\ n.started = IF q.call = "BEGIN" THEN result.err = "none" ELSE q.started
      /\ n.sent = (q.call = "EXEC" /\ result.err = "none")
  BY CreateTells, RequestGoes DEF GoesTo, Requests
<1>2. /\ NoError(r, q, rows) /\ (r \in rows => InTable(q, cn, command))
      /\ RowHeld(r, q, se, command) /\ Hears(r, q, cn, se # NoSession, rows, made)
  BY DEF Truth
<1>3. /\ q.call \in {"BEGIN", "PARSE", "EXEC", "SCAN", "COMMIT", "ROLLBACK"}
      /\ q.started \in BOOLEAN /\ q.sent \in BOOLEAN
      /\ (q.call = "BEGIN" => ~q.started) /\ (q.call \in {"COMMIT", "ROLLBACK"} => q.started)
      /\ (q.call = "SCAN" => q.sent)
  BY Roles DEF InOrder, Role, Requests
<1>4. q.sent => ResultTells(cn, q.call, result) /\ CreateHears(r, q, cn, rows)
  BY <1>2 DEF Brings, Hears
<1>5. ~q.sent => result.err \notin {"none", "server"}
  BY DEF Brings
<1>6. q.call = "SCAN" /\ result.err = "none" => HasRow(result)
  BY <1>3, <1>4 DEF ResultTells, CreateHears, HasRow, Row
<1>7. q.call = "COMMIT" /\ result.err = "none" /\ q.seen = {} => r \in rows
  BY <1>4, <1>5 DEF ResultTells, CreateHears
<1>8. q.sent /\ "E" \notin Heard(cn) => result.err # "server"
  BY <1>4 DEF ResultTells
<1>9. q.call = "EXEC" /\ result.err = "none" => Heard(result.cn) \subseteq Heard(cn) /\ q.sent
  BY <1>4, <1>5 DEF ResultTells, Heard
<1> HIDE DEF n
<1>10. NoError(r, n, rows)
  BY <1>1, <1>2, <1>3, <1>6, <1>7 DEF NoError, CreateMakes
<1>11. r \in rows => InTable(n, result.cn, command)
  <2> SUFFICES ASSUME r \in rows PROVE InTable(n, result.cn, command)
    OBVIOUS
  <2>1. CASE q.started /\ q.failed = FALSE /\ q.call \in {"COMMIT", "DONE"}
    BY <1>1, <2>1 DEF InTable, CreateMakes
  <2>2. CASE ~q.started /\ ~ (q.seen \subseteq {"server"}) /\ q.call # "BEGIN"
    <3>1. ~n.started /\ ~ (n.seen \subseteq {"server"})
      BY <1>1, <2>2 DEF CreateMakes
    <3>2. n.call # "BEGIN"
      BY <1>1, <1>3, <2>2 DEF CreateMakes
    <3> QED BY <3>1, <3>2 DEF InTable, InsertedAlone
  <2>3. CASE /\ ~q.started /\ q.call \in {"EXEC", "SCAN"} /\ q.sent
             /\ command = None /\ "E" \notin Heard(cn)
    <3>1. ~n.started /\ result.err # "server"
      BY <1>1, <1>8, <2>3
    <3>2. CASE result.err # "none"
      <4>1. n.call # "BEGIN" /\ ~ (n.seen \subseteq {"server"})
        BY <1>1, <2>3, <3>1, <3>2 DEF CreateMakes
      <4> QED BY <3>1, <4>1 DEF InTable, InsertedAlone
    <3>3. CASE result.err = "none" /\ q.call = "EXEC"
      <4>1. n.call = "SCAN" /\ n.sent /\ "E" \notin Heard(result.cn)
        BY <1>1, <1>9, <2>3, <3>3 DEF CreateMakes
      <4> QED BY <2>3, <3>1, <4>1 DEF InTable, InsertedAlone
    <3>4. CASE result.err = "none" /\ q.call = "SCAN"
      <4>1. n.call = "DONE" /\ n.failed = FALSE
        BY <1>1, <1>6, <2>3, <3>4 DEF CreateMakes
      <4> QED BY <3>1, <4>1 DEF InTable, InsertedAlone
    <3> QED BY <2>3, <3>2, <3>3, <3>4
  <2> QED BY <1>2, <2>1, <2>2, <2>3 DEF InTable, InsertedAlone
<1>12. RowHeld(r, n, se, command)
  <2> SUFFICES ASSUME n.seen = {}, se.status = "inTransaction",
                      n.call \in {"SCAN", "COMMIT"} \/ (n.call = "EXEC" /\ n.sent)
               PROVE  r \in se.rows
    BY DEF RowHeld
  <2>1. result.err = "none" /\ q.seen = {}
    BY <1>1 DEF CreateMakes
  <2>2. q.sent /\ command = None
    BY <1>5, <2>1
  <2>3. q.call \in {"EXEC", "SCAN"}
    BY <1>1, <1>3, <2>1 DEF CreateMakes
  <2> QED BY <1>2, <2>1, <2>2, <2>3 DEF RowHeld
<1> QED BY <1>10, <1>11, <1>12 DEF n

\* And of the migration.
LEMMA MigrationAfter ==
  ASSUME NEW q, InOrder(Migration, q), q.opening = "no", q.call # "DONE", NEW cn, NEW live,
         NEW rows, NEW made, Hears(Migration, q, cn, live, rows, made), Migrated(q, made),
         NEW result, Brings(q, cn, result)
  PROVE  Migrated(Goes(q, result), made)
<1> DEFINE n == Goes(q, result)
<1>1. MigrationMakes(q, n, result)
  BY MigrationTells
<1>2. q.sent \in BOOLEAN
  BY DEF InOrder
<1> HIDE DEF n
<1> SUFFICES ASSUME n.seen = {}
             PROVE  n.failed = FALSE /\ (n.call = "DONE" => "index" \in made)
  BY DEF Migrated, n
<1>3. result.err = "none" /\ q.seen = {} /\ q.failed = FALSE
  BY <1>1 DEF MigrationMakes, Migrated
<1>4. q.sent /\ ResultTells(cn, q.call, result)
  BY <1>3 DEF Brings
<1>5. MigrationHears(q, cn, made) /\ Reads(q, cn)
  BY <1>4, RequestsAssumption DEF Hears
<1>6. n.failed = FALSE
  BY <1>1, <1>3 DEF MigrationMakes
<1>7. ASSUME n.call = "DONE" PROVE "index" \in made
  <2>1. CASE q.doing = "hasIndex" /\ q.call = "SCAN" /\ Counts(result)
    <3>1. "D" \in Heard(cn)
      BY <1>4, <2>1 DEF ResultTells, Counts
    <3> QED BY <1>5, <2>1, <3>1 DEF MigrationHears
  <2>2. CASE q.doing = "createIndex" /\ q.call = "QUERY"
    <3> DEFINE first == cn.inbox[1]
    <3>1. /\ 1 \in 1 .. Len(cn.inbox) /\ first \notin Ending \cup {"E"}
          /\ (first \in Passed => first \in Heard(cn))
      BY <1>3, <1>4, <2>2 DEF ResultTells
    <3>2. first \in {"CREATE", "E"} \cup Ending
      BY <1>5, <2>2, <3>1 DEF MigrationHears
    <3>3. first = "CREATE" /\ "CREATE" \in Heard(cn)
      BY <3>1, <3>2 DEF Passed, Tag
    <3> QED BY <1>5, <2>2, <3>3 DEF MigrationHears
  <2> QED BY <1>1, <1>3, <1>7, <2>1, <2>2 DEF MigrationMakes
<1> QED BY <1>6, <1>7

\* Putting the connection back changes no more.
LEMMA FreedNotes ==
  ASSUME NEW n, DOMAIN n = RequestFields, NEW over \in BOOLEAN
  PROVE  Freed(n, over).seen = n.seen /\ Freed(n, over).failed = n.failed
BY DEF Freed, RequestFields

\* What is true of a request that has no connection says nothing of one.
LEMMA TruthAlone ==
  ASSUME NEW r, NEW q, NEW m, q.opening = "no", q.sent = FALSE,
         m.conn = None, m.sent = FALSE, m.call = q.call, m.started = q.started,
         m.failed = q.failed, m.seen = q.seen,
         NEW cn, NEW se, NEW command, NEW rows, NEW made,
         Truth(r, q, cn, se, command, rows, made),
         NEW cn2, NEW se2, NEW command2
  PROVE  Truth(r, m, cn2, se2, command2, rows, made)
BY DEF Truth, NoError, InTable, InsertedAlone, RowHeld, Migrated

\* The rows and the schema grow, and not by the row of the request.
LEMMA TruthGrows ==
  ASSUME NEW r, NEW q, NEW cn, NEW se, NEW command, NEW rows, NEW made, NEW more, NEW built,
         Truth(r, q, cn, se, command, rows, made),
         rows \subseteq more, made \subseteq built, r \in more => r \in rows
  PROVE  Truth(r, q, cn, se, command, more, built)
<1>1. q.conn # None => Hears(r, q, cn, se # NoSession, more, built)
  BY DEF Truth, Hears, CreateHears, MigrationHears
<1> QED BY <1>1 DEF Truth, NoError, Migrated

\* A request after a call, with its connection or without.
LEMMA TruthAfter ==
  ASSUME NEW r \in Requests, NEW q, InOrder(r, q), q.conn # None, q.opening = "no",
         q.call # "DONE", NEW cn, NEW se, NEW command, NEW rows, NEW made,
         Truth(r, q, cn, se, command, rows, made),
         NEW result, Brings(q, cn, result), q.sent => command = None
  PROVE  LET n == Goes(q, result)
             over == Over(Noting(q, result.err), n, result.err)
         IN /\ ~over => Truth(r, Freed(n, over), result.cn, se, command, rows, made)
            /\ over => /\ Quiet(result.cn)
                       /\ \A cn2, se2, command2 :
                            Truth(r, Freed(n, over), cn2, se2, command2, rows, made)
<1> DEFINE n == Goes(q, result)
           over == Over(Noting(q, result.err), n, result.err)
           m == Freed(n, over)
<1>1. /\ DOMAIN n = RequestFields /\ n.conn = q.conn /\ n.opening = "no" /\ over \in BOOLEAN
      /\ n.sent = (q.call = "EXEC" /\ result.err = "none")
      /\ over /\ q.call = "EXEC" => result.err # "none"
  BY RequestGoes DEF GoesTo
<1>2. /\ Hears(r, q, cn, se # NoSession, rows, made)
      /\ r = Migration => Migrated(q, made)
  BY DEF Truth
<1>3. /\ Hears(r, n, result.cn, se # NoSession, rows, made)
      /\ ~ (q.call = "EXEC" /\ result.err = "none") => Quiet(result.cn)
  BY <1>2, HearsAfter
<1>4. r \in Creates => /\ NoError(r, n, rows)
                       /\ r \in rows => InTable(n, result.cn, command)
                       /\ RowHeld(r, n, se, command)
  BY CreateAfter
<1>5. r = Migration => Migrated(n, made)
  BY <1>2, MigrationAfter
<1> HIDE DEF n, over
<1>6. Truth(r, n, result.cn, se, command, rows, made)
  BY <1>3, <1>4, <1>5 DEF Truth
<1>7. /\ m.call = n.call /\ m.sent = n.sent /\ m.started = n.started
      /\ m.conn = (IF over THEN None ELSE n.conn) /\ m.seen = n.seen /\ m.failed = n.failed
      /\ ~over => m = n
  BY <1>1, FreedFields, FreedNotes DEF Freed
<1> HIDE DEF m
<1>8. over => \A cn2, se2, command2 : Truth(r, m, cn2, se2, command2, rows, made)
  <2> SUFFICES ASSUME over, NEW cn2, NEW se2, NEW command2
               PROVE  Truth(r, m, cn2, se2, command2, rows, made)
    OBVIOUS
  <2>1. n.sent = FALSE /\ m.sent = FALSE /\ m.conn = None
    BY <1>1, <1>7
  <2> QED BY <1>1, <1>6, <1>7, <2>1, TruthAlone
<1> QED BY <1>1, <1>3, <1>6, <1>7, <1>8 DEF n, over, m

-----------------------------------------------------------------------------
(* What the requests' steps keep of the truth. *)

\* A request goes on as q, and changes the connection c alone.
Moves(r, c, q) ==
  /\ request' = [request EXCEPT ![r] = q] /\ UNCHANGED <<table, schema, emailOf>>
  /\ request[r].call # "DONE"
  /\ request[r].conn \in {None, c} /\ q.conn \in {None, c}
  /\ q.conn = None => q.sent = FALSE /\ q.opening = "no"
  /\ r = Migration \/ q.conn = None \/ request[Migration].call = "DONE"
  /\ \A s \in Requests \ {r} : request[s].conn # c
  /\ \A d \in Conn \ {c} :
       /\ conn'[d] = conn[d] /\ session'[d] = session[d] /\ asked'[d] = asked[d]
       /\ d \in free' <=> d \in free
  /\ session'[c] = session[c] \/ session'[c].rows = {}

\* That keeps what is true of the others.
LEMMA TruthOneMoves ==
  ASSUME RegistrationInv, RegistrationInv', TruthInv, NEW r \in Requests, NEW c \in Conn, NEW q,
         Moves(r, c, q), Truth(r, q, conn'[c], session'[c], asked'[c], table, schema),
         c \in free' => Quiet(conn'[c])
  PROVE  TruthInv'
<1>0. /\ request' = [request EXCEPT ![r] = q] /\ UNCHANGED <<table, schema, emailOf>>
      /\ request[r].call # "DONE"
      /\ request[r].conn \in {None, c} /\ q.conn \in {None, c}
      /\ q.conn = None => q.sent = FALSE /\ q.opening = "no"
      /\ r = Migration \/ q.conn = None \/ request[Migration].call = "DONE"
      /\ \A s \in Requests \ {r} : request[s].conn # c
      /\ \A d \in Conn \ {c} :
           /\ conn'[d] = conn[d] /\ session'[d] = session[d] /\ asked'[d] = asked[d]
           /\ d \in free' <=> d \in free
      /\ session'[c] = session[c] \/ session'[c].rows = {}
  BY DEF Moves
<1> USE <1>0
<1>1. /\ DOMAIN request' = Requests /\ request'[r] = q
      /\ \A s \in Requests \ {r} : request'[s] = request[s]
      /\ free' \subseteq Conn
  BY DEF RegistrationInv, HoldInv
<1>2. None \notin Conn /\ Migration \in Requests
  BY ConnsAssumption DEF Requests
<1>3. ASSUME NEW s \in Requests PROVE TruthOf(s)'
  <2>1. CASE s = r /\ q.conn = c
    BY <1>1, <2>1 DEF TruthOf
  <2>2. CASE s = r /\ q.conn = None
    <3>1. Truth(r, q, conn'[None], session'[None], asked'[None], table, schema)
      BY <2>2, TruthAlone
    <3> QED BY <1>1, <2>2, <3>1 DEF TruthOf
  <2>3. CASE s # r /\ request[s].conn # None
    <3>1. /\ request'[s] = request[s] /\ TruthOf(s) /\ request[s].conn \in Conn \ {c}
      BY <1>1, <2>3 DEF TruthInv, RegistrationInv, HoldInv
    <3> QED BY <3>1 DEF TruthOf
  <2>4. CASE s # r /\ request[s].conn = None
    <3>1. /\ request'[s] = request[s] /\ TruthOf(s) /\ InOrder(s, request[s])
      BY <1>1, <2>4 DEF TruthInv, RegistrationInv, HoldInv
    <3> DEFINE p == request[s]
    <3>2. p.sent = FALSE /\ p.opening = "no" /\ p.conn = None
      BY <2>4, <3>1 DEF InOrder
    <3>3. Truth(s, p, conn[None], session[None], asked[None], table, schema)
      BY <3>1, <3>2 DEF TruthOf
    <3> HIDE DEF p
    <3>4. Truth(s, p, conn'[None], session'[None], asked'[None], table, schema)
      BY <3>2, <3>3, TruthAlone
    <3> QED BY <3>1, <3>2, <3>4 DEF TruthOf, p
  <2> QED BY <2>1, <2>2, <2>3, <2>4
<1>4. ASSUME NEW d \in Conn PROVE RowsOk(d)'
  <2> SUFFICES ASSUME NEW x \in session'[d].rows
               PROVE  /\ x \in Creates /\ request'[x].conn = d
                      /\ session'[d].status = "inTransaction"
    BY DEF RowsOk
  <2>1. session'[d] = session[d]
    BY <1>2
  <2>2. x \in Creates /\ request[x].conn = d /\ session[d].status = "inTransaction"
    BY <2>1 DEF TruthInv, RowsOk
  <2>3. x \in Requests
    BY <2>2 DEF Requests
  <2>4. InTransaction(d)'
    BY <2>1, <2>2 DEF InTransaction
  <2>5. PICK s \in Requests : request'[s].conn = d
    <3>1. HoldInv' /\ ConnOk(d)'
      BY DEF RegistrationInv
    <3>2. d \in open' /\ d \notin free'
      BY <2>4, <3>1 DEF ConnOk, Live, InTransaction, NoSession
    <3> QED BY <3>1, <3>2 DEF HoldInv
  <2>6. request[s].conn = d
    <3>1. CASE s = r
      BY <1>1, <1>2, <2>2, <2>3, <2>5, <3>1
    <3>2. CASE s # r
      BY <1>1, <2>5, <3>2
    <3> QED BY <3>1, <3>2
  <2>7. x = s
    BY <1>2, <2>2, <2>3, <2>6 DEF RegistrationInv, HoldInv
  <2> QED BY <2>1, <2>2, <2>5, <2>7
<1>5. \A d \in free' : Quiet(conn'[d])
  BY <1>1 DEF TruthInv
<1>6. Distinct'
  <2>1. Uncommitted' \subseteq Uncommitted
    BY DEF Uncommitted
  <2> QED BY <2>1 DEF TruthInv, Distinct
<1>7. Unserved'
  <2> SUFFICES ASSUME request'[Migration].call # "DONE"
               PROVE  table' = {} /\ \A s \in Requests \ {Migration} : request'[s].conn = None
    BY DEF Unserved
  <2>1. request[Migration].call # "DONE"
    BY <1>1, <1>2
  <2>2. table = {} /\ \A s \in Requests \ {Migration} : request[s].conn = None
    BY <2>1 DEF TruthInv, Unserved
  <2> QED BY <1>1, <2>1, <2>2
<1> QED BY <1>3, <1>4, <1>5, <1>6, <1>7 DEF TruthInv

\* A call that returns keeps what is true of its request.
LEMMA TruthReturns ==
  ASSUME RegistrationInv, RegistrationInv', TruthInv, NEW r \in Requests, NEW result,
         Returns(r, result), UNCHANGED <<table, schema, emailOf>>,
         request[r].conn # None, request[r].opening = "no", request[r].call # "DONE",
         Brings(request[r], conn[request[r].conn], result),
         request[r].sent => asked[request[r].conn] = None
  PROVE  TruthInv'
<1> DEFINE q == request[r]
           n == Goes(q, result)
           p == Noting(q, result.err)
           over == Over(p, n, result.err)
           m == Freed(n, over)
<1>0. PICK c \in Conn : c = q.conn
  BY OwnConn
<1>1. /\ c \in open /\ c \notin free /\ InOrder(r, q)
      /\ \A s \in Requests \ {r} : request[s].conn # c
  BY <1>0, OwnConn
<1>2. GoesTo(r, q, result)
  BY <1>0, <1>1, RequestGoes
<1>3. /\ request' = [request EXCEPT ![r] = m]
      /\ over => PutConn(c, result.cn, PutError(p, result.err))
      /\ ~over => KeepConn(c, result.cn)
  BY <1>0 DEF Returns, Goes, Freed
<1>4. /\ DOMAIN n = RequestFields /\ n.conn = c /\ n.opening = "no"
      /\ n.sent = (q.call = "EXEC" /\ result.err = "none") /\ over \in BOOLEAN
      /\ over /\ q.call = "EXEC" => result.err # "none"
  BY <1>0, <1>2 DEF GoesTo
<1>5. /\ ~over => Truth(r, m, result.cn, session[c], asked[c], table, schema)
      /\ over => /\ Quiet(result.cn)
                 /\ \A cn2, se2, command2 : Truth(r, m, cn2, se2, command2, table, schema)
  <2>1. Truth(r, q, conn[c], session[c], asked[c], table, schema)
    BY <1>0 DEF TruthInv, TruthOf
  <2>2. Brings(q, conn[c], result) /\ (q.sent => asked[c] = None) /\ q.conn # None
        /\ q.opening = "no" /\ q.call # "DONE"
    BY <1>0
  <2> HIDE DEF q
  <2> QED BY <1>1, <2>1, <2>2, TruthAfter
<1> HIDE DEF n, p, over
<1>6. /\ m.conn = (IF over THEN None ELSE c) /\ m.opening = "no" /\ m.sent = n.sent
  BY <1>4, FreedFields
<1> HIDE DEF m
<1>7. m.conn = None => m.sent = FALSE /\ m.opening = "no"
  BY <1>4, <1>6, ConnsAssumption
<1>8. /\ DOMAIN conn = Conn /\ DOMAIN asked = Conn /\ DOMAIN session = Conn
      /\ open \subseteq Conn /\ free \subseteq open /\ NoSession.rows = {}
  BY DEF RegistrationInv, HoldInv, NoSession
<1>9. r = Migration \/ request[Migration].call = "DONE"
  BY DEF TruthInv, Unserved
<1>10. q.call # "DONE" /\ q.conn = c
  BY <1>0
<1>11. CASE over /\ Kept(PutError(p, result.err))
  <2>1. /\ free' = free \cup {c} /\ conn' = [conn EXCEPT ![c] = result.cn]
        /\ session' = session /\ asked' = asked
    BY <1>3, <1>11 DEF PutConn
  <2>2. /\ Truth(r, m, conn'[c], session'[c], asked'[c], table, schema) /\ Quiet(conn'[c])
        /\ \A d \in Conn \ {c} : /\ conn'[d] = conn[d] /\ session'[d] = session[d]
                                 /\ asked'[d] = asked[d]
                                 /\ d \in free' <=> d \in free
    BY <1>5, <1>8, <1>11, <2>1
  <2>3. Moves(r, c, m)
    BY <1>1, <1>3, <1>6, <1>7, <1>9, <1>10, <1>11, <2>1, <2>2 DEF Moves
  <2> QED BY <1>1, <2>1, <2>2, <2>3, TruthOneMoves
<1>12. CASE over /\ ~Kept(PutError(p, result.err))
  <2>1. /\ conn' = [conn EXCEPT ![c] = Fresh] /\ free' = free
        /\ session' = IF result.cn.bad THEN session ELSE [session EXCEPT ![c] = NoSession]
        /\ asked' = [asked EXCEPT ![c] = None]
    BY <1>3, <1>12 DEF PutConn
  <2>2. /\ Truth(r, m, conn'[c], session'[c], asked'[c], table, schema)
        /\ session'[c] = session[c] \/ session'[c].rows = {}
        /\ \A d \in Conn \ {c} : /\ conn'[d] = conn[d] /\ session'[d] = session[d]
                                 /\ asked'[d] = asked[d]
                                 /\ d \in free' <=> d \in free
    BY <1>5, <1>8, <1>12, <2>1
  <2>3. Moves(r, c, m)
    BY <1>1, <1>3, <1>6, <1>7, <1>9, <1>10, <1>12, <2>1, <2>2 DEF Moves
  <2> QED BY <1>1, <2>1, <2>2, <2>3, TruthOneMoves
<1>13. CASE ~over
  <2>1. conn' = [conn EXCEPT ![c] = result.cn] /\ UNCHANGED <<open, free, session, asked>>
    BY <1>3, <1>13 DEF KeepConn
  <2>2. /\ Truth(r, m, conn'[c], session'[c], asked'[c], table, schema)
        /\ \A d \in Conn \ {c} : /\ conn'[d] = conn[d] /\ session'[d] = session[d]
                                 /\ asked'[d] = asked[d]
                                 /\ d \in free' <=> d \in free
    BY <1>5, <1>8, <1>13, <2>1
  <2>3. Moves(r, c, m)
    BY <1>1, <1>3, <1>6, <1>7, <1>9, <1>10, <1>13, <2>1, <2>2 DEF Moves
  <2> QED BY <1>1, <2>1, <2>2, <2>3, TruthOneMoves
<1> QED BY <1>11, <1>12, <1>13

\* A connection that is free has nothing to say to the request that takes it.
LEMMA TakeTruth ==
  ASSUME RegistrationInv, RegistrationInv', TruthInv, NEW r \in Requests, Take(r)
  PROVE  TruthInv'
<1>1. PICK c \in free : free' = free \ {c} /\ request' = [request EXCEPT ![r].conn = c]
  BY DEF Take
<1> DEFINE q == request[r]
           m == [q EXCEPT !.conn = c]
<1>2. /\ InOrder(r, q) /\ q.conn = None /\ q.opening = "no" /\ ~q.sent /\ q.started = FALSE
      /\ q.call \in {"BEGIN", "PARSE", "QUERY"} /\ Served(r)
  BY WaitsFor DEF Take, Waits
<1>3. /\ m.conn = c /\ m.opening = "no" /\ m.sent = FALSE /\ m.seen = q.seen
      /\ m.started = q.started /\ m.call = q.call /\ m.doing = q.doing /\ m.failed = q.failed
  BY <1>2 DEF InOrder, RequestFields
<1>4. /\ c \in Conn /\ \A s \in Requests : request[s].conn # c
  BY <1>1, ConnsAssumption DEF RegistrationInv, HoldInv
<1>5. request' = [request EXCEPT ![r] = m] /\ Quiet(conn[c])
  BY <1>1 DEF TruthInv
<1>6. UNCHANGED <<open, conn, asked, session, table, schema, emailOf>>
  BY DEF Take, data, settings
<1>7. Truth(r, q, conn[None], session[None], asked[None], table, schema)
  BY <1>2 DEF TruthInv, TruthOf
<1> HIDE DEF m, q
<1>8. Truth(r, m, conn[c], session[c], asked[c], table, schema)
  <2>1. Hears(r, m, conn[c], session[c] # NoSession, table, schema)
    BY <1>3, <1>5 DEF Hears
  <2> QED BY <1>2, <1>3, <1>7, <2>1
             DEF Truth, NoError, InTable, InsertedAlone, RowHeld, Migrated
<1>9. r = Migration \/ request[Migration].call = "DONE"
  BY <1>2 DEF Served
<1>10. q.conn = None /\ q = request[r] /\ q.call # "DONE" /\ m.conn # None
  BY <1>2, <1>3, <1>4, ConnsAssumption DEF q
<1>11. Moves(r, c, m)
  BY <1>1, <1>3, <1>4, <1>5, <1>6, <1>9, <1>10 DEF Moves
<1> QED BY <1>1, <1>4, <1>5, <1>6, <1>8, <1>11, TruthOneMoves

\* A call is refused on a quiet connection, or it is made on one that rests.
LEMMA SendTruth ==
  ASSUME RegistrationInv, RegistrationInv', TruthInv, NEW r \in Requests, Send(r)
  PROVE  TruthInv'
<1> DEFINE q == request[r]
           cn == conn[q.conn]
<1>1. Ready(r) /\ q.conn # None /\ q.opening = "no" /\ q.call # "DONE" /\ ~q.sent
  BY DEF Send, Ready
<1>2. PICK c \in Conn : c = q.conn
  BY <1>1, OwnConn
<1>3. UNCHANGED <<table, schema, emailOf>>
  BY DEF Send, data, settings
<1>4. Truth(r, q, cn, session[c], asked[c], table, schema)
  BY <1>2 DEF TruthInv, TruthOf
<1>5. Quiet(cn)
  BY <1>1, <1>4 DEF Truth, Hears
<1>6. CASE cn.bad /\ Returns(r, Result(cn, "ErrBadConn", {}))
  <2> DEFINE result == Result(cn, "ErrBadConn", {})
  <2>1. result.cn = cn /\ result.err = "ErrBadConn"
    BY DEF Result
  <2>2. Brings(q, cn, result)
    BY <1>1, <1>5, <2>1 DEF Brings
  <2> HIDE DEF result
  <2>3. Returns(r, result)
    BY <1>6 DEF result
  <2> QED BY <1>1, <1>3, <2>2, <2>3, TruthReturns
<1>7. CASE ~cn.bad /\ Returns(r, Broken(cn))
  <2> DEFINE result == Broken(cn)
  <2>1. cn = Sound(cn.txnStatus, cn.saved, cn.inbox)
    BY <1>5, <1>7 DEF Quiet, Rests, IsSound
  <2>2. Quiet(result.cn) /\ result.err = "other"
    <3> DEFINE txn == cn.txnStatus  saved == cn.saved  inbox == cn.inbox
               made == Broken(Sound(txn, saved, inbox))
    <3>1. result = made
      BY <2>1
    <3> HIDE DEF txn, saved, inbox
    <3>2. Quiet(made.cn) /\ made.err = "other"
      BY BrokenQuiet
    <3> HIDE DEF made, result
    <3> QED BY <3>1, <3>2
  <2>3. Brings(q, cn, result)
    <3> HIDE DEF result, cn, q
    <3> QED BY <1>1, <2>2 DEF Brings
  <2> HIDE DEF result
  <2>4. Returns(r, result)
    BY <1>7 DEF result
  <2> QED BY <1>1, <1>3, <2>3, <2>4, TruthReturns
<1>8. CASE /\ ~cn.bad /\ request' = [request EXCEPT ![r].sent = TRUE]
           /\ asked' = IF session[c] = NoSession THEN asked
                       ELSE [asked EXCEPT ![c] = Wire(cn, q.call)]
           /\ UNCHANGED <<open, free, conn, session>>
  <2> DEFINE m == [q EXCEPT !.sent = TRUE]
  <2>1. InOrder(r, q) /\ q.call \notin {"SCAN", "ROWS"}
    BY <1>1, ReadyStage
  <2>2. /\ m.conn = c /\ m.opening = "no" /\ m.sent = TRUE /\ m.seen = q.seen
        /\ m.started = q.started /\ m.call = q.call /\ m.doing = q.doing /\ m.failed = q.failed
    BY <1>1, <1>2, <2>1 DEF InOrder, RequestFields
  <2>3. request' = [request EXCEPT ![r] = m]
    BY <1>8
  <2>4. \A s \in Requests \ {r} : request[s].conn # c
    BY <1>1, <1>2, OwnConn
  <2>5. DOMAIN asked = Conn /\ c \notin free
    BY <1>1, <1>2, OwnConn DEF RegistrationInv, HoldInv
  <2>6. /\ \A d \in Conn \ {c} : asked'[d] = asked[d]
        /\ session[c] # NoSession => asked'[c] # None
    <3>1. Wire(cn, q.call) \in Call
      BY <2>1 DEF Wire, InOrder, Role, Call
    <3> QED BY <1>8, <2>5, <3>1, NoneAssumption
  <2>7. Rests(cn)
    BY <1>5, <1>8 DEF Quiet
  <2>8. r = Migration \/ request[Migration].call = "DONE"
    BY <1>1 DEF TruthInv, Unserved
  <2>9. cn = conn[c] /\ q = request[r] /\ q.conn = c
    BY <1>2
  <2> HIDE DEF m, q, cn
  <2>10. Hears(r, m, cn, session[c] # NoSession, table, schema)
    BY <2>1, <2>2, <2>7, RestsHears
  <2>11. RowHeld(r, q, session[c], asked[c]) => RowHeld(r, m, session[c], asked'[c])
    <3>1. session[c].status = "inTransaction" => session[c] # NoSession
      BY DEF NoSession
    <3> QED BY <1>1, <2>1, <2>2, <2>6, <3>1 DEF RowHeld
  <2>12. Truth(r, m, conn'[c], session'[c], asked'[c], table, schema)
    <3>1. Truth(r, m, cn, session[c], asked'[c], table, schema)
      BY <1>1, <1>4, <2>2, <2>10, <2>11 DEF Truth, NoError, InTable, InsertedAlone, Migrated
    <3> QED BY <1>8, <2>9, <3>1
  <2>13. Moves(r, c, m)
    BY <1>1, <1>3, <1>8, <2>2, <2>3, <2>4, <2>6, <2>8, <2>9 DEF Moves
  <2> QED BY <1>8, <2>5, <2>12, <2>13, TruthOneMoves
<1>9. \/ cn.bad /\ Returns(r, Result(cn, "ErrBadConn", {}))
      \/ ~cn.bad /\ Returns(r, Broken(cn))
      \/ /\ ~cn.bad /\ request' = [request EXCEPT ![r].sent = TRUE]
         /\ asked' = IF session[c] = NoSession THEN asked
                     ELSE [asked EXCEPT ![c] = Wire(cn, q.call)]
         /\ UNCHANGED <<open, free, conn, session>>
  BY <1>2, Zenon DEF Send
<1> QED BY <1>6, <1>7, <1>8, <1>9

\* A write that meets the end of the socket leaves the connection bad.
LEMMA WriteFailsTruth ==
  ASSUME RegistrationInv, RegistrationInv', TruthInv, NEW r \in Requests, WriteFails(r)
  PROVE  TruthInv'
<1> DEFINE q == request[r]
           cn == conn[q.conn]
           result == Recovered(cn, "reset", {})
<1>1. /\ q.conn # None /\ q.opening = "no" /\ q.call # "DONE" /\ ~q.sent /\ ~cn.bad
      /\ Returns(r, result) /\ UNCHANGED <<table, schema, emailOf>>
  BY DEF WriteFails, Ready, data, settings
<1>2. PICK c \in Conn : c = q.conn
  BY <1>1, OwnConn
<1>3. Truth(r, q, cn, session[c], asked[c], table, schema)
  BY <1>2 DEF TruthInv, TruthOf
<1>4. Rests(cn)
  BY <1>1, <1>3 DEF Truth, Hears, Quiet
<1>5. Quiet(result.cn) /\ result.err = "ErrBadConn"
  <2>1. DOMAIN cn = {"bad", "txnStatus", "saved", "inbox"}
    BY <1>4, FieldsOf DEF Rests
  <2> HIDE DEF cn
  <2>2. result.cn.bad = TRUE /\ result.err = "ErrBadConn"
    BY <2>1 DEF Recovered, Result
  <2> QED BY <2>2 DEF Quiet
<1>6. Brings(q, cn, result)
  <2> HIDE DEF result, cn, q
  <2> QED BY <1>1, <1>5 DEF Brings
<1> HIDE DEF result
<1> QED BY <1>1, <1>6, TruthReturns

\* A call reads its answer.
LEMMA ReceiveTruth ==
  ASSUME RegistrationInv, RegistrationInv', TruthInv, NEW r \in Requests, Receive(r)
  PROVE  TruthInv'
<1> DEFINE q == request[r]
           c == q.conn
           cn == conn[c]
           result == Concluded(cn, q.call)
<1>1. /\ q.sent /\ Answered(cn) /\ Returns(r, result) /\ InOrder(r, q)
      /\ UNCHANGED <<table, schema, emailOf>>
  BY DEF Receive, data, settings, RegistrationInv, HoldInv
<1>2. q.conn # None /\ q.opening = "no" /\ q.call # "DONE" /\ q.call \in Call
  BY <1>1 DEF InOrder, Role, Call
<1>3. c \in Conn /\ ConnOk(c) /\ HeldOk(r)
  BY <1>2, OwnConn
<1>4. asked[c] = None
  <2>1. CASE Live(c)
    <3>1. Stage(q, cn, session[c].status, asked[c])
      BY <1>2, <1>3, <2>1 DEF HeldOk
    <3>2. cn.inbox # <<>>
      BY <1>1 DEF Answered
    <3>3. ~Unanswered(q, cn, session[c].status, asked[c])
      BY <3>2 DEF Unanswered, Sound
    <3> HIDE DEF cn, c, q
    <3> QED BY <1>2, <3>1, <3>3 DEF Stage, Replied, Fetching
  <2>2. CASE ~Live(c)
    BY <1>3, <2>2 DEF ConnOk
  <2> QED BY <2>1, <2>2
<1>5. Truth(r, q, cn, session[c], asked[c], table, schema)
  BY DEF TruthInv, TruthOf
<1>6. Reads(q, cn)
  BY <1>1, <1>2, <1>5 DEF Truth, Hears
<1>7. ResultTells(cn, q.call, result)
  <2> DEFINE txn == cn.txnStatus  saved == cn.saved  inbox == cn.inbox  call == q.call
  <2>1. /\ cn = Sound(txn, saved, inbox) /\ InOneAnswer(inbox)
        /\ IF call \in {"SCAN", "ROWS"}
           THEN saved \in Tag \cup Row /\ inbox \in Seq(Passed \cup Status \cup Ending)
           ELSE saved = "none"
    BY <1>6 DEF Reads, IsSound
  <2>2. HasEnd(inbox)
    <3>1. DOMAIN inbox = 1 .. Len(inbox)
      BY <2>1, LenProperties DEF InOneAnswer
    <3> QED BY <1>1, <3>1 DEF Answered, HasEnd
  <2>3. call \in Call \ {"DONE"}
    BY <1>2
  <2> HIDE DEF txn, saved, inbox, call
  <2>4. LET s == Sound(txn, saved, inbox) IN ResultTells(s, call, Concluded(s, call))
    BY <2>1, <2>2, <2>3, ConcludedTells
  <2> HIDE DEF cn
  <2> QED BY <2>1, <2>4 DEF call
<1>8. Brings(q, cn, result)
  <2> HIDE DEF result, cn
  <2> QED BY <1>1, <1>7 DEF Brings
<1> HIDE DEF result
<1> QED BY <1>1, <1>2, <1>4, <1>8, TruthReturns

\* What a request that gets no connection goes on with.
LEMMA UnopenedMakes ==
  ASSUME NEW r \in Requests, NEW q, InOrder(r, q), q.call \in {"BEGIN", "PARSE", "QUERY"},
         q.started = FALSE, q.sent = FALSE, NEW err, err # "none"
  PROVE  LET u == Unopened(q, err)
         IN /\ u.conn = None /\ u.sent = FALSE /\ u.opening = "no"
            /\ u.seen = q.seen \cup {err}
            /\ r \in Creates =>
                 /\ u.started = FALSE
                 /\ q.call = "BEGIN" => u.call = "PARSE" /\ u.failed = q.failed
                 /\ q.call = "PARSE" => u.call = "DONE" /\ u.failed = TRUE
                 /\ q.call \in {"BEGIN", "PARSE"}
<1> DEFINE p == Noting(q, err)
           result == Result(Fresh, err, {})
           n == NextCall(p, result)
           m == [n EXCEPT !.conn = None, !.opening = "no"]
           u == Unopened(q, err)
           e == autoMigrate(p, result)
<1>1. /\ DOMAIN p = RequestFields /\ p.sent = FALSE /\ p.call = q.call /\ p.doing = q.doing
      /\ p.started = FALSE /\ p.failed = q.failed /\ p.seen = q.seen \cup {err}
  BY Notes, NotesSeen DEF InOrder
<1>2. result.err # "none"
  BY DEF Result
<1>3. u = m
  BY DEF Unopened
<1>4. InOrder(r, u) /\ u.conn = None
  BY UnopenedInOrder
<1>5. p.doing \in Simple \cup Catalogue => DOMAIN e = RequestFields /\ e.seen = p.seen
  <2>1. p.doing \in Simple \cup Catalogue => DOMAIN e = RequestFields
    <3> HIDE DEF p, result
    <3> QED BY <1>1, Migrates
  <2>2. p.doing \in Simple \cup Catalogue => e.seen = p.seen
    <3> HIDE DEF p, result
    <3> QED BY <1>1, autoMigrateTells
  <2> QED BY <2>1, <2>2
<1> HIDE DEF p, n, result, m, e, u
<1>6. u.sent = FALSE
  BY <1>4 DEF InOrder
<1>7. DOMAIN n = RequestFields =>
        /\ m.opening = "no" /\ m.seen = n.seen /\ m.call = n.call /\ m.failed = n.failed
        /\ m.started = n.started
  BY DEF m, RequestFields
<1>8. CASE r \in Creates
  <2>1. q.doing = "insert" /\ q.call \in {"BEGIN", "PARSE"}
    BY <1>8, Roles DEF InOrder, Role
  <2>2. CASE q.call = "BEGIN"
    <3>1. /\ DOMAIN n = RequestFields /\ n.started = FALSE /\ n.call = "PARSE"
          /\ n.failed = q.failed /\ n.seen = p.seen
      BY <1>1, <1>2, <2>2 DEF NextCall, Began, RequestFields, n
    <3> QED BY <1>1, <1>3, <1>4, <1>6, <1>7, <2>1, <2>2, <3>1 DEF u
  <2>3. CASE q.call = "PARSE"
    <3> DEFINE f == [p EXCEPT !.failed = result.err # "none" \/ ~HasRow(result)]
    <3>1. /\ DOMAIN f = RequestFields /\ f.seen = p.seen /\ f.started = FALSE /\ f.failed = TRUE
      BY <1>1, <1>2 DEF RequestFields
    <3>2. n = After(f)
      BY <1>1, <1>2, <2>1, <2>3 DEF NextCall, Concludes, Inserted, n
    <3> HIDE DEF f
    <3>3. /\ DOMAIN n = RequestFields /\ n.started = FALSE /\ n.call = "DONE"
          /\ n.failed = TRUE /\ n.seen = p.seen
      BY <3>1, <3>2 DEF After, EndOf, RequestFields
    <3> QED BY <1>1, <1>3, <1>4, <1>6, <1>7, <2>3, <3>3 DEF u
  <2> QED BY <2>1, <2>2, <2>3
<1>9. CASE r \in Finds
  <2>1. q.doing = "find" /\ q.call = "PARSE" /\ r \notin Creates
    BY <1>9, Roles DEF InOrder, Role
  <2> DEFINE f == [p EXCEPT !.failed = ~HasRow(result)]
  <2>2. DOMAIN f = RequestFields /\ f.seen = p.seen
    BY <1>1 DEF RequestFields
  <2>3. n = After(f)
    BY <1>1, <1>2, <2>1 DEF NextCall, Concludes, Found, n
  <2> HIDE DEF f
  <2>4. DOMAIN n = RequestFields /\ n.seen = p.seen
    BY <2>2, <2>3 DEF After, RequestFields
  <2> QED BY <1>1, <1>3, <1>4, <1>6, <1>7, <2>1, <2>4 DEF u
<1>10. CASE r = Migration
  <2>1. r \notin Creates /\ q.doing \in Simple \cup Catalogue /\ q.call \in {"PARSE", "QUERY"}
    BY <1>10, Roles DEF InOrder, Role
  <2>2. n = e
    <3>1. q.doing \notin {"insert", "find"}
      BY <2>1 DEF Simple, Catalogue
    <3> QED BY <1>1, <1>2, <2>1, <3>1 DEF NextCall, Concludes, n, e
  <2> QED BY <1>1, <1>3, <1>4, <1>5, <1>6, <1>7, <2>1, <2>2 DEF u
<1> QED BY <1>8, <1>9, <1>10 DEF Requests

\* It has an error, and of a Create no row is in the table that was not there before.
LEMMA UnopenedTruth ==
  ASSUME NEW r \in Requests, NEW q, NEW cn, NEW se, NEW command, NEW rows, NEW made,
         Truth(r, q, cn, se, command, rows, made), NEW cn2, NEW se2, NEW command2,
         InOrder(r, q), q.call \in {"BEGIN", "PARSE", "QUERY"},
         q.started = FALSE, q.sent = FALSE, NEW err, err # "none"
  PROVE  Truth(r, Unopened(q, err), cn2, se2, command2, rows, made)
<1> DEFINE u == Unopened(q, err)
<1>1. /\ u.conn = None /\ u.sent = FALSE /\ u.opening = "no" /\ u.seen = q.seen \cup {err}
      /\ r \in Creates =>
           /\ u.started = FALSE /\ q.call \in {"BEGIN", "PARSE"}
           /\ q.call = "BEGIN" => u.call = "PARSE" /\ u.failed = q.failed
           /\ q.call = "PARSE" => u.call = "DONE" /\ u.failed = TRUE
  BY UnopenedMakes
<1> HIDE DEF u
<1>2. ASSUME r \in Creates PROVE NoError(r, u, rows)
  BY <1>1, <1>2 DEF Truth, NoError
<1>3. ASSUME r \in Creates, r \in rows PROVE InTable(u, cn2, command2)
  <2>1. InTable(q, cn, command)
    BY <1>3 DEF Truth
  <2>2. ~ (q.seen \subseteq {"server"})
    BY <1>1, <1>3, <2>1 DEF InTable, InsertedAlone
  <2> QED BY <1>1, <1>3, <2>2 DEF InTable, InsertedAlone
<1>4. RowHeld(r, u, se2, command2)
  BY <1>1 DEF RowHeld
<1>5. Migrated(u, made)
  BY <1>1 DEF Migrated
<1>6. Truth(r, u, cn2, se2, command2, rows, made)
  BY <1>1, <1>2, <1>3, <1>4, <1>5 DEF Truth
<1> QED BY <1>6 DEF u

\* A request that waits or opens its connection has made no call on it.
LEMMA OpeningTruth ==
  ASSUME NEW r \in Requests, NEW q, NEW m, NEW cn, NEW se, NEW command, NEW rows, NEW made,
         NEW cn2, NEW se2, NEW command2, Truth(r, q, cn, se, command, rows, made),
         q.call \in {"BEGIN", "PARSE", "QUERY"}, q.started = FALSE,
         m.call = q.call, m.started = q.started, m.failed = q.failed, m.seen = q.seen
  PROVE  /\ r \in Creates => NoError(r, m, rows) /\ RowHeld(r, m, se2, command2)
         /\ r \in Creates /\ r \in rows => InTable(m, cn2, command2)
         /\ r = Migration => Migrated(m, made)
<1>1. ASSUME r \in Creates
      PROVE  /\ NoError(r, m, rows) /\ RowHeld(r, m, se2, command2)
             /\ r \in rows => InTable(m, cn2, command2)
  <2>1. NoError(r, q, rows) /\ (r \in rows => InTable(q, cn, command))
    BY <1>1 DEF Truth
  <2> QED BY <2>1 DEF NoError, InTable, InsertedAlone, RowHeld
<1>2. ASSUME r = Migration PROVE Migrated(m, made)
  BY <1>2 DEF Truth, Migrated
<1> QED BY <1>1, <1>2

\* DialOpen begins, with nothing to read.
LEMMA OpenTruth ==
  ASSUME RegistrationInv, RegistrationInv', TruthInv, NEW r \in Requests, Open(r)
  PROVE  TruthInv'
<1>1. PICK c \in Unused :
        /\ open' = open \cup {c} /\ session' = [session EXCEPT ![c] = NewSession]
        /\ asked' = [asked EXCEPT ![c] = "STARTUP"]
        /\ request' = [request EXCEPT ![r].conn = c, ![r].opening = "startup"]
        /\ UNCHANGED <<free, conn>>
  BY DEF Open
<1> DEFINE q == request[r]
           m == [q EXCEPT !.conn = c, !.opening = "startup"]
<1>2. /\ InOrder(r, q) /\ q.conn = None /\ q.opening = "no" /\ ~q.sent /\ q.started = FALSE
      /\ q.call \in {"BEGIN", "PARSE", "QUERY"} /\ Served(r)
  BY WaitsFor DEF Open, Waits
<1>3. /\ m.conn = c /\ m.opening = "startup" /\ m.sent = q.sent /\ m.seen = q.seen
      /\ m.started = q.started /\ m.call = q.call /\ m.failed = q.failed
  BY <1>2 DEF InOrder, RequestFields
<1>4. /\ DOMAIN asked = Conn /\ DOMAIN session = Conn /\ DOMAIN request = Requests
      /\ free \subseteq open
      /\ c \in Conn /\ c \notin open /\ ConnOk(c) /\ \A s \in Requests : request[s].conn # c
  BY <1>1, ConnsAssumption DEF RegistrationInv, HoldInv, Unused
<1>5. request' = [request EXCEPT ![r] = m]
  BY <1>1, <1>4
<1>6. UNCHANGED <<table, schema, emailOf>>
  BY DEF Open, data, settings
<1>7. session'[c] = NewSession /\ NewSession # NoSession /\ NewSession.rows = {}
  BY <1>1, <1>4 DEF NewSession, NoSession
<1>8. /\ q = request[r] /\ q.call # "DONE"
      /\ Truth(r, q, conn[None], session[None], asked[None], table, schema)
  BY <1>2 DEF TruthInv, TruthOf
<1>9. r = Migration \/ request[Migration].call = "DONE"
  BY <1>2 DEF Served
<1> HIDE DEF m, q
<1>10. Hears(r, m, conn'[c], session'[c] # NoSession, table, schema)
  <2>1. conn'[c] = Fresh
    BY <1>1, <1>4 DEF ConnOk
  <2>2. IsSound(Fresh) /\ Fresh.saved = "none" /\ Fresh.inbox = <<>>
    BY DEF Fresh, IsSound, Sound
  <2>3. InOneAnswer(<<>>)
    BY DEF InOneAnswer
  <2> QED BY <1>3, <1>7, <2>1, <2>2, <2>3 DEF Hears
<1>11. Truth(r, m, conn'[c], session'[c], asked'[c], table, schema)
  <2>1. /\ r \in Creates => NoError(r, m, table) /\ RowHeld(r, m, session'[c], asked'[c])
        /\ r \in Creates /\ r \in table => InTable(m, conn'[c], asked'[c])
        /\ r = Migration => Migrated(m, schema)
    <3>1. Truth(r, q, conn[None], session[None], asked[None], table, schema)
      BY <1>8
    <3>2. q.call \in {"BEGIN", "PARSE", "QUERY"} /\ q.started = FALSE
      BY <1>2
    <3>3. m.call = q.call /\ m.started = q.started /\ m.failed = q.failed /\ m.seen = q.seen
      BY <1>3
    <3> QED BY <3>1, <3>2, <3>3, OpeningTruth
  <2> QED BY <1>10, <2>1 DEF Truth
<1>12. /\ c \notin free'
       /\ \A d \in Conn \ {c} :
            /\ conn'[d] = conn[d] /\ session'[d] = session[d] /\ asked'[d] = asked[d]
            /\ d \in free' <=> d \in free
  BY <1>1, <1>4
<1>13. Moves(r, c, m)
  BY <1>2, <1>3, <1>4, <1>5, <1>6, <1>7, <1>8, <1>9, <1>12, ConnsAssumption DEF Moves
<1> QED BY <1>4, <1>11, <1>12, <1>13, TruthOneMoves

\* No socket: an error of the call.
LEMMA DialFailsTruth ==
  ASSUME RegistrationInv, RegistrationInv', TruthInv, NEW r \in Requests, DialFails(r)
  PROVE  TruthInv'
<1> DEFINE q == request[r]
           m == Unopened(q, "other")
<1>1. /\ request' = [request EXCEPT ![r] = m] /\ UNCHANGED <<table, schema, emailOf>>
      /\ UNCHANGED <<open, free, conn, asked, session>>
  BY DEF DialFails, data, settings
<1>2. /\ InOrder(r, q) /\ q.conn = None /\ q.sent = FALSE /\ q.started = FALSE
      /\ q.call \in {"BEGIN", "PARSE", "QUERY"} /\ Served(r)
  BY WaitsFor DEF DialFails, Waits, InOrder
<1>3. m.conn = None /\ m.sent = FALSE /\ m.opening = "no"
  BY <1>2, UnopenedMakes
<1>4. Truth(r, q, conn[None], session[None], asked[None], table, schema)
  BY <1>2 DEF TruthInv, TruthOf
<1>5. \A cn2, se2, command2 : Truth(r, m, cn2, se2, command2, table, schema)
  <2> TAKE cn2, se2, command2
  <2> HIDE DEF q
  <2> QED BY <1>2, <1>4, UnopenedTruth
<1> HIDE DEF m
<1>6. /\ DOMAIN request' = Requests /\ request'[r] = m
      /\ \A s \in Requests \ {r} : request'[s] = request[s]
  BY <1>1 DEF RegistrationInv, HoldInv
<1>7. ASSUME NEW s \in Requests PROVE TruthOf(s)'
  <2>1. CASE s = r
    <3>1. Truth(r, m, conn'[m.conn], session'[m.conn], asked'[m.conn], table, schema)
      BY <1>5
    <3> QED BY <1>1, <1>6, <2>1, <3>1 DEF TruthOf
  <2>2. CASE s # r
    <3>1. TruthOf(s) /\ request'[s] = request[s]
      BY <1>6, <2>2 DEF TruthInv
    <3> QED BY <1>1, <3>1 DEF TruthOf
  <2> QED BY <2>1, <2>2
<1>8. ASSUME NEW d \in Conn PROVE RowsOk(d)'
  <2> SUFFICES ASSUME NEW x \in session[d].rows
               PROVE  /\ x \in Creates /\ request'[x].conn = d
                      /\ session[d].status = "inTransaction"
    BY <1>1 DEF RowsOk
  <2>1. x \in Creates /\ request[x].conn = d /\ session[d].status = "inTransaction"
    BY DEF TruthInv, RowsOk
  <2>2. x # r /\ x \in Requests
    BY <1>2, <2>1, ConnsAssumption DEF Requests
  <2> QED BY <1>6, <2>1, <2>2
<1>9. Unserved'
  <2>1. Migration \in Requests
    BY DEF Requests
  <2> SUFFICES ASSUME request'[Migration].call # "DONE"
               PROVE  table' = {} /\ \A s \in Requests \ {Migration} : request'[s].conn = None
    BY DEF Unserved
  <2>2. request[Migration].call # "DONE"
    BY <1>2, <1>6, <2>1
  <2>3. table = {} /\ \A s \in Requests \ {Migration} : request[s].conn = None
    BY <2>2 DEF TruthInv, Unserved
  <2> QED BY <1>1, <1>3, <1>6, <2>3
<1>10. (\A d \in free' : Quiet(conn'[d])) /\ (table' \subseteq Creates) /\ Distinct'
  BY <1>1 DEF TruthInv, Distinct, Uncommitted
<1> QED BY <1>7, <1>8, <1>9, <1>10 DEF TruthInv

\* The challenge is read.
LEMMA SendPasswordTruth ==
  ASSUME RegistrationInv, RegistrationInv', TruthInv, NEW r \in Requests, SendPassword(r)
  PROVE  TruthInv'
<1> DEFINE q == request[r]
           m == [q EXCEPT !.opening = "auth"]
<1>1. InOrder(r, q) /\ q.opening = "startup" /\ q.conn # None
  BY DEF SendPassword, RegistrationInv, HoldInv, InOrder
<1>2. PICK c \in Conn : c = q.conn
  BY <1>1, OwnConn
<1>3. /\ c \notin free /\ \A s \in Requests \ {r} : request[s].conn # c
  BY <1>1, <1>2, OwnConn
<1>4. /\ conn' = [conn EXCEPT ![c].inbox = Tail(@)]
      /\ asked' = IF session[c] = NoSession THEN asked ELSE [asked EXCEPT ![c] = "PASSWORD"]
      /\ request' = [request EXCEPT ![r] = m] /\ Challenged(conn[c])
      /\ UNCHANGED <<open, free, session, table, schema, emailOf>>
  BY <1>2 DEF SendPassword, data, settings
<1>5. /\ m.conn = c /\ m.opening = "auth" /\ m.sent = q.sent /\ m.seen = q.seen
      /\ m.started = q.started /\ m.call = q.call /\ m.failed = q.failed
  BY <1>1, <1>2 DEF InOrder, RequestFields
<1>6. q.call \in {"BEGIN", "PARSE", "QUERY"} /\ q.started = FALSE
  BY <1>1 DEF InOrder
<1>7. DOMAIN conn = Conn /\ DOMAIN asked = Conn
  BY DEF RegistrationInv, HoldInv
<1>8. Truth(r, q, conn[c], session[c], asked[c], table, schema)
  BY <1>2 DEF TruthInv, TruthOf
<1>9. r = Migration \/ request[Migration].call = "DONE"
  BY <1>1 DEF TruthInv, Unserved
<1>10. q = request[r] /\ q.conn = c
  BY <1>2
<1> HIDE DEF m, q
<1> DEFINE inbox == conn[c].inbox
           d == conn'[c]
<1>11. /\ IsSound(conn[c]) /\ conn[c].saved = "none" /\ InOneAnswer(inbox)
       /\ session[c] = NoSession => HasEnd(inbox)
  BY <1>1, <1>8, <1>10 DEF Truth, Hears
<1>12. /\ InOneAnswer(Tail(inbox)) /\ (session[c] = NoSession => HasEnd(Tail(inbox)))
  <2>1. inbox # <<>> /\ Head(inbox) \notin Status \cup Ending
    BY <1>4 DEF Challenged, Status, Ending
  <2> HIDE DEF inbox
  <2> QED BY <1>11, <2>1, AnswerTail
<1>13. d.inbox = Tail(inbox) /\ IsSound(d) /\ d.saved = "none"
  <2>1. conn[c].bad = FALSE /\ DOMAIN conn[c] = {"bad", "txnStatus", "saved", "inbox"}
    BY <1>11, FieldsOf
  <2>2. d = [conn[c] EXCEPT !.inbox = Tail(@)]
    BY <1>4, <1>7
  <2>3. /\ DOMAIN d = {"bad", "txnStatus", "saved", "inbox"} /\ d = [f \in DOMAIN d |-> d[f]]
        /\ d.bad = FALSE /\ d.saved = "none" /\ d.inbox = Tail(inbox)
    BY <1>11, <2>1, <2>2
  <2> HIDE DEF d
  <2> QED BY <2>3 DEF IsSound, Sound
<1> HIDE DEF d, inbox
<1>14. Hears(r, m, d, session[c] # NoSession, table, schema)
  BY <1>5, <1>12, <1>13 DEF Hears
<1>15. Truth(r, m, conn'[c], session'[c], asked'[c], table, schema)
  <2>1. /\ r \in Creates => NoError(r, m, table) /\ RowHeld(r, m, session[c], asked'[c])
        /\ r \in Creates /\ r \in table => InTable(m, d, asked'[c])
        /\ r = Migration => Migrated(m, schema)
    BY <1>5, <1>6, <1>8, OpeningTruth
  <2>2. Truth(r, m, d, session[c], asked'[c], table, schema)
    BY <1>14, <2>1 DEF Truth
  <2> QED BY <1>4, <2>2 DEF d
<1>16. Moves(r, c, m)
  <2>1. \A e \in Conn \ {c} :
          /\ conn'[e] = conn[e] /\ session'[e] = session[e] /\ asked'[e] = asked[e]
          /\ e \in free' <=> e \in free
    BY <1>4, <1>7
  <2> QED BY <1>3, <1>4, <1>5, <1>6, <1>9, <1>10, <2>1, ConnsAssumption DEF Moves
<1> QED BY <1>3, <1>4, <1>15, <1>16, TruthOneMoves

\* DialOpen returns a connection that rests, or its error.
LEMMA OpenReturnsTruth ==
  ASSUME RegistrationInv, RegistrationInv', TruthInv, NEW r \in Requests, OpenReturns(r)
  PROVE  TruthInv'
<1> DEFINE q == request[r]
<1>1. InOrder(r, q) /\ q.opening # "no"
  BY DEF OpenReturns, RegistrationInv, HoldInv
<1>2. /\ q.conn # None /\ q.started = FALSE /\ q.sent = FALSE
      /\ q.call \in {"BEGIN", "PARSE", "QUERY"}
  BY <1>1 DEF InOrder
<1>3. PICK c \in Conn : c = q.conn
  BY <1>2, OwnConn
<1>4. /\ c \notin free /\ HeldOk(r) /\ \A s \in Requests \ {r} : request[s].conn # c
  BY <1>2, <1>3, OwnConn
<1> DEFINE result == IF q.opening = "auth" THEN auth(conn[c]) ELSE startup(conn[c])
           m == [q EXCEPT !.opening = "no"]
           u == Unopened(q, result.err)
<1>5. /\ conn[c].inbox # <<>> /\ ~Challenged(conn[c])
      /\ UNCHANGED <<free, session, table, schema, emailOf>>
      /\ result.err = "none" => /\ request' = [request EXCEPT ![r] = m]
                                /\ conn' = [conn EXCEPT ![c] = result.cn]
                                /\ asked' = asked
      /\ result.err # "none" => /\ request' = [request EXCEPT ![r] = u]
                                /\ conn' = [conn EXCEPT ![c] = Fresh]
                                /\ asked' = [asked EXCEPT ![c] = None]
  BY <1>3 DEF OpenReturns, data, settings
<1>6. DOMAIN conn = Conn /\ DOMAIN asked = Conn
  BY DEF RegistrationInv, HoldInv
<1>7. Truth(r, q, conn[c], session[c], asked[c], table, schema)
  BY <1>3 DEF TruthInv, TruthOf
<1>8. /\ IsSound(conn[c]) /\ conn[c].saved = "none" /\ InOneAnswer(conn[c].inbox)
      /\ session[c] = NoSession => HasEnd(conn[c].inbox)
  BY <1>1, <1>2, <1>7 DEF Truth, Hears
<1>9. result.err = "none" => Rests(result.cn)
  <2>1. CASE Live(c)
    <3>1. Opening(q, conn[c], session[c].status, asked[c])
      BY <1>1, <1>2, <1>3, <1>4, <2>1 DEF HeldOk, Stage
    <3>2. conn[c] # Fresh
      BY <1>5 DEF Fresh
    <3>3. conn[c] # Sound("idle", "none", <<"R5">>)
      BY <1>5 DEF Sound, Challenged
    <3>4. conn[c] = Sound("idle", "none", <<"R0", "K", "idle">>)
      BY <3>1, <3>2, <3>3 DEF Opening
    <3>5. result.cn = Sound("idle", "none", <<>>)
      BY <3>4, OpensReady DEF Result
    <3>6. Rests(Sound("idle", "none", <<>>))
      BY DEF Rests, IsSound, Sound
    <3> QED BY <3>5, <3>6
  <2>2. CASE ~Live(c)
    <3> DEFINE txn == conn[c].txnStatus  inbox == conn[c].inbox
    <3>1. conn[c] = Sound(txn, "none", inbox) /\ InOneAnswer(inbox) /\ HasEnd(inbox)
      BY <1>8, <2>2 DEF IsSound, Live
    <3> HIDE DEF txn, inbox
    <3>2. LET cn == Sound(txn, "none", inbox)
          IN \A x \in {startup(cn), auth(cn)} : x.err = "none" => Rests(x.cn)
      BY <3>1, OpeningTells
    <3> QED BY <3>1, <3>2
  <2> QED BY <2>1, <2>2
<1>10. r = Migration \/ request[Migration].call = "DONE"
  BY <1>2 DEF TruthInv, Unserved
<1>11. q = request[r] /\ q.conn = c
  BY <1>3
<1> HIDE DEF result
<1>12. CASE result.err = "none"
  <2>1. /\ m.conn = c /\ m.opening = "no" /\ m.sent = FALSE /\ m.seen = q.seen
        /\ m.started = q.started /\ m.call = q.call /\ m.failed = q.failed
    BY <1>1, <1>2, <1>3 DEF InOrder, RequestFields
  <2> HIDE DEF m, q
  <2>2. conn'[c] = result.cn /\ Quiet(conn'[c]) /\ asked' = asked
    BY <1>5, <1>6, <1>9, <1>12 DEF Quiet
  <2>3. Hears(r, m, conn'[c], session[c] # NoSession, table, schema)
    BY <2>1, <2>2 DEF Hears
  <2>4. /\ r \in Creates => NoError(r, m, table) /\ RowHeld(r, m, session[c], asked[c])
        /\ r \in Creates /\ r \in table => InTable(m, conn'[c], asked[c])
        /\ r = Migration => Migrated(m, schema)
    BY <1>2, <1>7, <2>1, OpeningTruth
  <2>5. Truth(r, m, conn'[c], session[c], asked[c], table, schema)
    BY <2>3, <2>4 DEF Truth
  <2>6. Truth(r, m, conn'[c], session'[c], asked'[c], table, schema)
    BY <1>5, <2>2, <2>5
  <2>7. \A e \in Conn \ {c} :
          /\ conn'[e] = conn[e] /\ session'[e] = session[e] /\ asked'[e] = asked[e]
          /\ e \in free' <=> e \in free
    BY <1>5, <1>6, <1>12
  <2>8. Moves(r, c, m)
    BY <1>2, <1>4, <1>5, <1>10, <1>11, <1>12, <2>1, <2>7, ConnsAssumption DEF Moves
  <2> QED BY <1>4, <1>5, <2>6, <2>8, TruthOneMoves
<1>13. CASE result.err # "none"
  <2>1. u.conn = None /\ u.sent = FALSE /\ u.opening = "no"
    BY <1>1, <1>2, <1>13, UnopenedMakes
  <2>2. Truth(r, u, conn'[c], session'[c], asked'[c], table, schema)
    <3> HIDE DEF q
    <3> QED BY <1>1, <1>2, <1>7, <1>13, UnopenedTruth
  <2> HIDE DEF u, q
  <2>3. \A e \in Conn \ {c} :
          /\ conn'[e] = conn[e] /\ session'[e] = session[e] /\ asked'[e] = asked[e]
          /\ e \in free' <=> e \in free
    BY <1>5, <1>6, <1>13
  <2>4. Moves(r, c, u)
    BY <1>2, <1>4, <1>5, <1>10, <1>11, <1>13, <2>1, <2>3 DEF Moves
  <2> QED BY <1>4, <1>5, <2>2, <2>4, TruthOneMoves
<1> QED BY <1>12, <1>13

-----------------------------------------------------------------------------
(* What the server's steps keep of the truth. *)

\* A step of the server or of the network changes the connection c, and adds no row but
\* those of the request that has it.
Serves(c) ==
  /\ UNCHANGED <<request, open, free, emailOf>>
  /\ \A d \in Conn \ {c} :
       conn'[d] = conn[d] /\ session'[d] = session[d] /\ asked'[d] = asked[d]
  /\ table \subseteq table' /\ schema \subseteq schema'
  /\ \A x \in table' \ table : x \in Creates /\ request[x].conn = c

\* That keeps what is true of the other connections.
LEMMA TruthServes ==
  ASSUME RegistrationInv, TruthInv, NEW c \in Conn, Serves(c), RowsOk(c)', Distinct',
         c \in free => Quiet(conn'[c]),
         \A r \in Requests : request[r].conn = c =>
           Truth(r, request[r], conn'[c], session'[c], asked'[c], table', schema')
  PROVE  TruthInv'
<1>1. /\ UNCHANGED <<request, open, free, emailOf>>
      /\ \A d \in Conn \ {c} :
           conn'[d] = conn[d] /\ session'[d] = session[d] /\ asked'[d] = asked[d]
      /\ table \subseteq table' /\ schema \subseteq schema'
      /\ \A x \in table' \ table : x \in Creates /\ request[x].conn = c
  BY DEF Serves
<1>2. None \notin Conn /\ free \subseteq Conn
  BY ConnsAssumption DEF RegistrationInv, HoldInv
<1>3. ASSUME NEW r \in Requests PROVE TruthOf(r)'
  <2> DEFINE q == request[r]
             d == q.conn
  <2>1. CASE d = c
    BY <1>1, <2>1 DEF TruthOf
  <2>2. CASE d # c
    <3>1. InOrder(r, q) /\ (d # None => d \in Conn \ {c})
      BY <2>2 DEF RegistrationInv, HoldInv
    <3>2. Truth(r, q, conn[d], session[d], asked[d], table, schema)
      BY DEF TruthInv, TruthOf
    <3>3. r \in table' => r \in table
      BY <1>1, <2>2
    <3>4. Truth(r, q, conn'[d], session'[d], asked'[d], table, schema)
      <4>1. CASE d = None
        <5>1. q.opening = "no" /\ q.sent = FALSE /\ q.conn = None
          BY <3>1, <4>1 DEF InOrder
        <5>2. Truth(r, q, conn[None], session[None], asked[None], table, schema)
          BY <3>2, <4>1
        <5> HIDE DEF q
        <5>3. Truth(r, q, conn'[None], session'[None], asked'[None], table, schema)
          BY <5>1, <5>2, TruthAlone
        <5> QED BY <4>1, <5>3
      <4>2. CASE d # None
        BY <1>1, <3>1, <3>2, <4>2
      <4> QED BY <4>1, <4>2
    <3> HIDE DEF q
    <3>5. Truth(r, q, conn'[d], session'[d], asked'[d], table', schema')
      BY <1>1, <3>3, <3>4, TruthGrows
    <3> QED BY <1>1, <3>5 DEF TruthOf, q
  <2> QED BY <2>1, <2>2
<1>4. ASSUME NEW d \in Conn PROVE RowsOk(d)'
  BY <1>1 DEF TruthInv, RowsOk
<1>5. \A d \in free' : Quiet(conn'[d])
  BY <1>1, <1>2 DEF TruthInv
<1>6. Unserved'
  <2> SUFFICES ASSUME request[Migration].call # "DONE"
               PROVE  table' = {} /\ \A s \in Requests \ {Migration} : request[s].conn = None
    BY <1>1 DEF Unserved
  <2>1. table = {} /\ \A s \in Requests \ {Migration} : request[s].conn = None
    BY DEF TruthInv, Unserved
  <2>2. ASSUME NEW x \in table' PROVE FALSE
    <3>1. x \in Requests \ {Migration} /\ request[x].conn = c
      BY <1>1, <2>1, RequestsAssumption DEF Requests
    <3> QED BY <1>2, <2>1, <3>1
  <2> QED BY <2>1, <2>2
<1>7. table' \subseteq Creates
  BY <1>1 DEF TruthInv
<1> QED BY <1>3, <1>4, <1>5, <1>6, <1>7 DEF TruthInv

\* Rows that are gone or moved to the table conflict no more than before.
LEMMA DistinctKept ==
  ASSUME TruthInv, UNCHANGED <<schema, emailOf>>,
         table' \cup Uncommitted' \subseteq table \cup Uncommitted
  PROVE  Distinct'
BY DEF TruthInv, Distinct

\* What the server says on a connection with nothing left to read.
LEMMA RepliesSay ==
  ASSUME RegistrationInv, NEW c \in Conn, NEW txn, conn[c] = Sound(txn, "none", <<>>),
         NEW msgs, msgs \in Seq(Message \ Status), NEW st \in Status, NEW rows,
         Replies(c, msgs, st, rows)
  PROVE  LET cn == conn'[c]
         IN /\ IsSound(cn) /\ cn.saved = "none" /\ InOneAnswer(cn.inbox)
            /\ Len(cn.inbox) = Len(msgs) + 1 /\ cn.inbox[Len(msgs) + 1] = st
            /\ \A i \in 1 .. Len(msgs) : cn.inbox[i] = msgs[i]
            /\ Heard(cn) \subseteq {"none", st} \cup ToSet(msgs)
            /\ session'[c].status = st /\ session'[c].rows = rows /\ asked'[c] = None
            /\ UNCHANGED <<request, open, free, emailOf>>
            /\ \A d \in Conn \ {c} :
                 conn'[d] = conn[d] /\ session'[d] = session[d] /\ asked'[d] = asked[d]
<1> DEFINE S == Message \cup Ending
           inbox == Append(msgs, st)
           cn == conn'[c]
<1>1. /\ DOMAIN conn = Conn /\ DOMAIN asked = Conn /\ DOMAIN session = Conn
  BY DEF RegistrationInv, HoldInv
<1>2. /\ conn' = [conn EXCEPT ![c].inbox = @ \o inbox] /\ asked' = [asked EXCEPT ![c] = None]
      /\ session' = [session EXCEPT ![c] = [status |-> st, rows |-> rows]]
      /\ UNCHANGED <<request, open, free, emailOf>>
  BY DEF Replies, settings
<1>3. /\ st \in S /\ msgs \in Seq(S) /\ Len(msgs) \in Nat
      /\ \A i \in 1 .. Len(msgs) : msgs[i] \in Message \ Status
  BY SeqMonotonic, ElementOfSeq, LenProperties DEF Message
<1> HIDE DEF S
<1>4. /\ inbox \in Seq(S) /\ Len(inbox) = Len(msgs) + 1 /\ inbox[Len(msgs) + 1] = st
      /\ \A i \in 1 .. Len(msgs) : inbox[i] = msgs[i]
  BY <1>3, AppendProperties
<1> HIDE DEF inbox
<1>5. <<>> \o inbox = inbox
  BY <1>4, ConcatEmptySeq
<1>6. cn = Sound(txn, "none", inbox)
  <2> DEFINE d == [Sound(txn, "none", <<>>) EXCEPT !.inbox = inbox]
  <2>1. cn = d
    <3>1. conn[c].inbox = <<>>
      BY DEF Sound
    <3> QED BY <1>1, <1>2, <1>5, <3>1
  <2>2. /\ DOMAIN d = {"bad", "txnStatus", "saved", "inbox"} /\ d = [f \in DOMAIN d |-> d[f]]
        /\ d.bad = FALSE /\ d.txnStatus = txn /\ d.saved = "none" /\ d.inbox = inbox
    BY DEF Sound
  <2> HIDE DEF d
  <2>3. d = Sound(txn, "none", inbox)
    BY <2>2 DEF Sound
  <2> QED BY <2>1, <2>3
<1> HIDE DEF cn
<1>7. IsSound(cn) /\ cn.saved = "none" /\ cn.inbox = inbox
  BY <1>6 DEF IsSound, Sound
<1>8. InOneAnswer(inbox)
  <2>1. ASSUME NEW i \in 1 .. Len(inbox), NEW j \in 1 .. Len(inbox), i < j
        PROVE  inbox[i] \notin Status
    <3>1. i \in 1 .. Len(msgs)
      BY <1>3, <1>4, <2>1
    <3> QED BY <1>3, <1>4, <3>1
  <2> QED BY <1>4, <2>1 DEF InOneAnswer, S
<1>9. Heard(cn) \subseteq {"none", st} \cup ToSet(msgs)
  <2>1. \A i \in 1 .. Len(inbox) : inbox[i] \in {st} \cup ToSet(msgs)
    <3> TAKE i \in 1 .. Len(inbox)
    <3>1. i \in 1 .. Len(msgs) \/ i = Len(msgs) + 1
      BY <1>3, <1>4
    <3>2. i \in 1 .. Len(msgs) => inbox[i] \in ToSet(msgs)
      BY <1>3, <1>4 DEF ToSet
    <3> QED BY <1>4, <3>1, <3>2
  <2>2. \A x \in ToSet(inbox) : \E i \in 1 .. Len(inbox) : x = inbox[i]
    BY <1>3, <1>4 DEF ToSet
  <2> QED BY <1>7, <2>1, <2>2 DEF Heard
<1>10. session'[c].status = st /\ session'[c].rows = rows /\ asked'[c] = None
  BY <1>1, <1>2
<1>11. \A d \in Conn \ {c} :
         conn'[d] = conn[d] /\ session'[d] = session[d] /\ asked'[d] = asked[d]
  BY <1>1, <1>2
<1> QED BY <1>2, <1>4, <1>7, <1>8, <1>9, <1>10, <1>11 DEF cn

\* What may be said to a call of a Create, and to one of the migration.
Says(r, q, msgs, rows, made) ==
  /\ msgs \in Seq(Message \ Status) /\ Len(msgs) > 0
  /\ q.call = "EXEC" => \A i \in 1 .. Len(msgs) : i > 1 => msgs[i] \in Passed
  /\ r \in Creates =>
       /\ q.call = "EXEC" => \A i \in 1 .. Len(msgs) : i = 2 => msgs[i] \notin Tag \cup {"0"}
       /\ q.call = "COMMIT" /\ "COMMIT" \in ToSet(msgs) /\ q.seen = {} => r \in rows
  /\ r = Migration =>
       /\ q.call = "QUERY" => msgs[1] \in {"CREATE", "E"}
       /\ q.doing = "createIndex" /\ "CREATE" \in ToSet(msgs) => "index" \in made
       /\ q.doing = "hasIndex" /\ "D" \in ToSet(msgs) => "index" \in made

\* With it the request has its answer.
LEMMA SaysHears ==
  ASSUME NEW r, NEW q, NEW msgs, NEW rows, NEW made, Says(r, q, msgs, rows, made),
         NEW cn, IsSound(cn), cn.saved = "none", InOneAnswer(cn.inbox), NEW st \in Status,
         Len(cn.inbox) = Len(msgs) + 1, cn.inbox[Len(msgs) + 1] = st,
         \A i \in 1 .. Len(msgs) : cn.inbox[i] = msgs[i],
         Heard(cn) \subseteq {"none", st} \cup ToSet(msgs),
         q.opening = "no", q.sent, q.call \notin {"SCAN", "ROWS"}, NEW live
  PROVE  Hears(r, q, cn, live, rows, made)
<1>1. Len(msgs) \in Nat /\ Len(msgs) > 0
  BY LenProperties DEF Says
<1>2. \A i \in 1 .. Len(cn.inbox) :
        i = Len(msgs) + 1 \/ (i \in 1 .. Len(msgs) /\ cn.inbox[i] = msgs[i])
  BY <1>1
<1>3. st \notin Tag \cup {"0", "none", "D", "COMMIT", "CREATE"}
  BY DEF Status, Tag
<1>4. Reads(q, cn)
  <2>1. q.call = "EXEC" =>
          \A i \in 1 .. Len(cn.inbox) : i > 1 => cn.inbox[i] \in Passed \cup Status \cup Ending
    BY <1>2 DEF Says
  <2> QED BY <2>1 DEF Reads
<1>5. ASSUME r \in Creates PROVE CreateHears(r, q, cn, rows)
  <2>1. q.call = "EXEC" =>
          \A i \in 1 .. Len(cn.inbox) : i = 2 => cn.inbox[i] \notin Tag \cup {"0"}
    BY <1>2, <1>3, <1>5 DEF Says
  <2>2. q.call = "COMMIT" /\ "COMMIT" \in Heard(cn) /\ q.seen = {} => r \in rows
    BY <1>3, <1>5 DEF Says
  <2> QED BY <2>1, <2>2 DEF CreateHears
<1>6. ASSUME r = Migration PROVE MigrationHears(q, cn, made)
  <2>1. cn.inbox[1] = msgs[1]
    BY <1>1
  <2>2. "CREATE" \in Heard(cn) => "CREATE" \in ToSet(msgs)
    BY <1>3
  <2>3. "D" \in Heard(cn) => "D" \in ToSet(msgs)
    BY <1>3
  <2> QED BY <1>6, <2>1, <2>2, <2>3 DEF Says, MigrationHears
<1> QED BY <1>4, <1>5, <1>6 DEF Hears

\* A row keeps its reason to be in the table while the request is answered.
LEMMA TableKept ==
  ASSUME NEW q, NEW cn, NEW command, InTable(q, cn, command), command # None, NEW cn2,
         NEW command2
  PROVE  InTable(q, cn2, command2)
BY DEF InTable, InsertedAlone

\* An answer of the server keeps the truth, with the rows it leaves uncommitted and those
\* it adds to the table.
LEMMA SaysTruth ==
  ASSUME RegistrationInv, TruthInv, NEW c \in Conn, NEW msgs, NEW st \in Status, NEW rows,
         Replies(c, msgs, st, rows), Says(Asker(c), request[Asker(c)], msgs, table', schema'),
         asked[c] \notin {None, "STARTUP", "PASSWORD"},
         table \subseteq table', table' \ table \subseteq {Asker(c)}, schema \subseteq schema',
         table' # table => /\ Asker(c) \in Creates
                           /\ InTable(request[Asker(c)], conn'[c], None),
         rows \subseteq session[c].rows \cup {Asker(c)},
         rows # {} => Asker(c) \in Creates /\ st = "inTransaction",
         RowHeld(Asker(c), request[Asker(c)], session'[c], None), Distinct'
  PROVE  TruthInv'
<1> DEFINE r == Asker(c)
           q == request[r]
           cn == conn'[c]
           txn == session[c].status
<1>1. /\ q.opening = "no" /\ q.sent /\ InOrder(r, q) /\ q.conn = c
      /\ q.call \in {"BEGIN", "PARSE", "EXEC", "QUERY", "COMMIT", "ROLLBACK"}
      /\ conn[c] = Sound(txn, "none", <<>>)
  BY AskedCall
<1>2. /\ r \in Requests /\ c \in open /\ c \notin free
      /\ \A s \in Requests : request[s].conn = c => s = r
  BY AskerHolds
<1>3. Truth(r, q, conn[c], session[c], asked[c], table, schema)
  BY <1>1, <1>2 DEF TruthInv, TruthOf
<1>4. /\ IsSound(cn) /\ cn.saved = "none" /\ InOneAnswer(cn.inbox)
      /\ Len(cn.inbox) = Len(msgs) + 1 /\ cn.inbox[Len(msgs) + 1] = st
      /\ \A i \in 1 .. Len(msgs) : cn.inbox[i] = msgs[i]
      /\ Heard(cn) \subseteq {"none", st} \cup ToSet(msgs)
      /\ session'[c].status = st /\ session'[c].rows = rows /\ asked'[c] = None
      /\ UNCHANGED <<request, open, free, emailOf>>
      /\ \A d \in Conn \ {c} :
           conn'[d] = conn[d] /\ session'[d] = session[d] /\ asked'[d] = asked[d]
  <2>1. msgs \in Seq(Message \ Status)
    BY DEF Says
  <2> QED BY <1>1, <2>1, RepliesSay
<1>5. RowHeld(r, q, session'[c], None) /\ Says(r, q, msgs, table', schema')
  OBVIOUS
<1>6. table' # table => r \in Creates /\ InTable(q, cn, None)
  OBVIOUS
<1>7. table' \ table \subseteq {r} /\ rows \subseteq session[c].rows \cup {r}
      /\ (rows # {} => r \in Creates /\ st = "inTransaction")
  OBVIOUS
<1> HIDE DEF r, q, cn, txn
<1>8. Serves(c)
  <2>1. \A x \in table' \ table : x \in Creates /\ request[x].conn = c
    BY <1>1, <1>6, <1>7 DEF q
  <2> QED BY <1>4, <2>1 DEF Serves
<1>9. RowsOk(c)'
  <2> SUFFICES ASSUME NEW x \in rows
               PROVE  x \in Creates /\ request[x].conn = c /\ st = "inTransaction"
    BY <1>4 DEF RowsOk
  <2>1. CASE x = r
    BY <1>1, <1>7, <2>1 DEF q
  <2>2. CASE x # r
    BY <1>7, <2>2 DEF TruthInv, RowsOk
  <2> QED BY <2>1, <2>2
<1>10. Truth(r, q, cn, session'[c], asked'[c], table', schema')
  <2>1. \A live : Hears(r, q, cn, live, table', schema')
    <3> TAKE live
    <3>1. q.call \notin {"SCAN", "ROWS"}
      BY <1>1
    <3> QED BY <1>1, <1>4, <1>5, <3>1, SaysHears
  <2>2. ASSUME r \in Creates, r \in table' PROVE InTable(q, cn, None)
    <3>1. CASE r \in table
      <4>1. InTable(q, conn[c], asked[c])
        BY <1>3, <2>2, <3>1 DEF Truth
      <4> QED BY <4>1, TableKept
    <3>2. CASE r \notin table
      BY <1>6, <2>2, <3>2
    <3> QED BY <3>1, <3>2
  <2>3. r \in Creates => NoError(r, q, table')
    BY <1>3 DEF Truth, NoError
  <2>4. r = Migration => Migrated(q, schema')
    BY <1>3 DEF Truth, Migrated
  <2> QED BY <1>4, <1>5, <2>1, <2>2, <2>3, <2>4 DEF Truth
<1>11. \A s \in Requests : request[s].conn = c =>
         Truth(s, request[s], conn'[c], session'[c], asked'[c], table', schema')
  BY <1>2, <1>10 DEF q, cn
<1> QED BY <1>2, <1>8, <1>9, <1>11, TruthServes

\* One, two or three messages of an answer.
LEMMA Messages ==
  ASSUME NEW a \in Message \ Status, NEW b \in Message \ Status, NEW c \in Message \ Status
  PROVE  /\ <<a>> \in Seq(Message \ Status) /\ Len(<<a>>) = 1 /\ <<a>>[1] = a
         /\ <<a, b>> \in Seq(Message \ Status) /\ Len(<<a, b>>) = 2
         /\ <<a, b>>[1] = a /\ <<a, b>>[2] = b
         /\ <<a, b, c>> \in Seq(Message \ Status) /\ Len(<<a, b, c>>) = 3
         /\ <<a, b, c>>[1] = a /\ <<a, b, c>>[2] = b /\ <<a, b, c>>[3] = c
         /\ ToSet(<<a>>) = {a} /\ ToSet(<<a, b>>) = {a, b} /\ ToSet(<<a, b, c>>) = {a, b, c}
BY EntriesOf DEF ToSet

\* The request that is answered, and the rows of its session.
LEMMA Asked ==
  ASSUME RegistrationInv, TruthInv, NEW c \in Conn,
         asked[c] \notin {None, "STARTUP", "PASSWORD"}
  PROVE  LET r == Asker(c)
             q == request[r]
         IN /\ r \in Requests /\ q.conn = c /\ q.opening = "no" /\ q.sent
            /\ q.started \in BOOLEAN
            /\ q.started => r \in Creates
            /\ q.call \in {"BEGIN", "PARSE", "EXEC", "QUERY", "COMMIT", "ROLLBACK"}
            /\ asked[c] # "ROLLBACK" => asked[c] = q.call
            /\ session[c].status \in TxOf(q)
            /\ Role(r, q) /\ (q.call \in {"COMMIT", "ROLLBACK"} => q.started /\ r \in Creates)
            /\ Truth(r, q, conn[c], session[c], asked[c], table, schema)
            /\ session[c].rows \subseteq {r}
            /\ session[c].rows # {} => r \in Creates /\ session[c].status = "inTransaction"
            /\ session[c].rows \subseteq Uncommitted
<1> DEFINE r == Asker(c)
           q == request[r]
<1>1. /\ q.opening = "no" /\ q.sent /\ InOrder(r, q) /\ q.conn = c
      /\ q.call \in {"BEGIN", "PARSE", "EXEC", "QUERY", "COMMIT", "ROLLBACK"}
      /\ session[c].status \in TxOf(q) /\ (asked[c] # "ROLLBACK" => asked[c] = q.call)
  BY AskedCall
<1>2. r \in Requests /\ \A s \in Requests : request[s].conn = c => s = r
  BY AskerHolds
<1>3. Truth(r, q, conn[c], session[c], asked[c], table, schema)
  BY <1>1, <1>2 DEF TruthInv, TruthOf
<1>4. \A x \in session[c].rows : x = r /\ r \in Creates /\ session[c].status = "inTransaction"
  BY <1>2 DEF TruthInv, RowsOk, Requests
<1>5. session[c].rows \subseteq Uncommitted
  BY DEF Uncommitted
<1> HIDE DEF r
<1>6. /\ q.started \in BOOLEAN /\ Role(r, q) /\ (q.started => r \in Creates)
      /\ q.call \in {"COMMIT", "ROLLBACK"} => q.started /\ r \in Creates
  BY <1>1 DEF InOrder
<1> QED BY <1>1, <1>2, <1>3, <1>4, <1>5, <1>6 DEF r

\* What is uncommitted after an answer.
LEMMA UncommittedAfter ==
  ASSUME RegistrationInv, NEW c \in Conn, NEW msgs, NEW st, NEW rows, Replies(c, msgs, st, rows)
  PROVE  /\ session'[c].status = st /\ session'[c].rows = rows /\ emailOf' = emailOf
         /\ \A d \in Conn \ {c} : session'[d] = session[d]
         /\ Uncommitted' \subseteq Uncommitted \cup rows
<1>1. /\ session' = [session EXCEPT ![c] = [status |-> st, rows |-> rows]]
      /\ emailOf' = emailOf /\ DOMAIN session = Conn
  BY DEF Replies, settings, RegistrationInv, HoldInv
<1>2. /\ session'[c].status = st /\ session'[c].rows = rows
      /\ \A d \in Conn \ {c} : session'[d] = session[d]
  BY <1>1
<1> QED BY <1>1, <1>2 DEF Uncommitted

\* An answer that leaves no new row, to a call that is no INSERT.
LEMMA PlainTruth ==
  ASSUME RegistrationInv, TruthInv, NEW c \in Conn, NEW msgs, NEW st \in Status, NEW rows,
         Replies(c, msgs, st, rows), Says(Asker(c), request[Asker(c)], msgs, table, schema),
         asked[c] \notin {None, "STARTUP", "PASSWORD"}, UNCHANGED data,
         rows \subseteq session[c].rows, rows # {} => st = "inTransaction",
         st = "inTransaction" => request[Asker(c)].call \in {"BEGIN", "PARSE"}
  PROVE  TruthInv'
<1> DEFINE r == Asker(c)
           q == request[r]
<1>1. table' = table /\ schema' = schema
  BY DEF data
<1>2. session[c].rows \subseteq Uncommitted /\ (session[c].rows # {} => r \in Creates)
  BY Asked
<1>3. /\ session'[c].status = st /\ emailOf' = emailOf
      /\ Uncommitted' \subseteq Uncommitted \cup rows
  BY UncommittedAfter
<1>4. Distinct'
  BY <1>1, <1>2, <1>3, DistinctKept
<1>5. RowHeld(r, q, session'[c], None)
  BY <1>3 DEF RowHeld
<1>6. Says(r, q, msgs, table', schema')
  BY <1>1
<1>7. rows # {} => r \in Creates /\ st = "inTransaction"
  BY <1>2
<1> QED BY <1>1, <1>4, <1>5, <1>6, <1>7, SaysTruth

\* BEGIN brings no row.
LEMMA BeginsTruth ==
  ASSUME RegistrationInv, TruthInv, NEW c \in Conn, Begins(c)
  PROVE  TruthInv'
<1> DEFINE r == Asker(c)
           q == request[r]
           msgs == <<"BEGIN">>
<1>1. /\ asked[c] = "BEGIN" /\ asked[c] \notin {None, "STARTUP", "PASSWORD"}
      /\ Replies(c, msgs, "inTransaction", session[c].rows) /\ UNCHANGED data
  BY NoneAssumption DEF Begins, Call
<1>2. q.call = "BEGIN"
  BY <1>1, Asked
<1>3. /\ msgs \in Seq(Message \ Status) /\ Len(msgs) = 1 /\ ToSet(msgs) = {"BEGIN"}
      /\ "inTransaction" \in Status
  BY Messages DEF Message, Status, Tag
<1> HIDE DEF q, r, msgs
<1>4. Says(r, q, msgs, table, schema)
  BY <1>2, <1>3 DEF Says
<1> QED BY <1>1, <1>2, <1>3, <1>4, PlainTruth DEF q, r

\* COMMIT moves the rows of the session to the table, and with them that of a Create that
\* had no error.
LEMMA CommitsTruth ==
  ASSUME RegistrationInv, TruthInv, NEW c \in Conn, Commits(c)
  PROVE  TruthInv'
<1> DEFINE r == Asker(c)
           q == request[r]
           msgs == <<"COMMIT">>
           held == session[c].rows
<1>1. asked[c] = "COMMIT" /\ asked[c] \notin {None, "STARTUP", "PASSWORD"}
  BY NoneAssumption DEF Commits, Call
<1>2. session[c].status # "failed"
  BY <1>1, AskedCall
<1>3. /\ Replies(c, msgs, "idle", {}) /\ table' = table \cup held /\ schema' = schema
  BY <1>1, <1>2 DEF Commits
<1>4. /\ q.call = "COMMIT" /\ q.conn = c /\ q.started = TRUE /\ r \in Creates
      /\ session[c].status \in TxOf(q) /\ held \subseteq {r} /\ held \subseteq Uncommitted
      /\ Truth(r, q, conn[c], session[c], asked[c], table, schema)
  BY <1>1, Asked
<1>5. session[c].status = "inTransaction"
  BY <1>2, <1>4 DEF TxOf
<1>6. NoError(r, q, table) /\ RowHeld(r, q, session[c], asked[c])
  BY <1>4 DEF Truth
<1>7. q.seen = {} => r \in held
  BY <1>4, <1>5, <1>6, ConnsAssumption DEF RowHeld
<1>8. /\ msgs \in Seq(Message \ Status) /\ Len(msgs) = 1 /\ "idle" \in Status
      /\ ToSet(msgs) = {"COMMIT"}
  BY Messages DEF Message, Status, Tag
<1>9. /\ session'[c].status = "idle" /\ emailOf' = emailOf
      /\ Uncommitted' \subseteq Uncommitted
  BY <1>3, UncommittedAfter
<1>10. r # Migration
  BY <1>4, RequestsAssumption
<1> HIDE DEF q, r, msgs, held
<1>11. Says(r, q, msgs, table', schema')
  BY <1>3, <1>4, <1>7, <1>8, <1>10 DEF Says
<1>12. InTable(q, conn'[c], None)
  BY <1>4, <1>6 DEF InTable, NoError
<1>13. Distinct'
  BY <1>3, <1>4, <1>9, DistinctKept
<1>14. RowHeld(r, q, session'[c], None)
  BY <1>9 DEF RowHeld
<1>15. table' \ table \subseteq {r}
  BY <1>3, <1>4
<1> QED BY <1>1, <1>3, <1>4, <1>8, <1>11, <1>12, <1>13, <1>14, <1>15, SaysTruth DEF q, r, held

\* ROLLBACK brings none.
LEMMA RollsBackTruth ==
  ASSUME RegistrationInv, TruthInv, NEW c \in Conn, RollsBack(c)
  PROVE  TruthInv'
<1> DEFINE r == Asker(c)
           q == request[r]
           msgs == <<"ROLLBACK">>
<1>1. /\ asked[c] = "ROLLBACK" /\ asked[c] \notin {None, "STARTUP", "PASSWORD"}
      /\ Replies(c, msgs, "idle", {}) /\ UNCHANGED data
  BY NoneAssumption DEF RollsBack, Call
<1>2. q.call \in {"COMMIT", "ROLLBACK"} /\ r # Migration
  BY <1>1, AskedCall, Asked, RequestsAssumption
<1>3. /\ msgs \in Seq(Message \ Status) /\ Len(msgs) = 1 /\ ToSet(msgs) = {"ROLLBACK"}
      /\ "idle" \in Status
  BY Messages DEF Message, Status, Tag
<1> HIDE DEF q, r, msgs
<1>4. Says(r, q, msgs, table, schema)
  BY <1>2, <1>3 DEF Says
<1> QED BY <1>1, <1>3, <1>4, PlainTruth DEF q, r

\* An error is said to any call,
LEMMA ErrorSays ==
  ASSUME NEW r, NEW q, NEW rows, NEW made
  PROVE  /\ Says(r, q, <<"E">>, rows, made)
         /\ q.call = "EXEC" => Says(r, q, <<"2", "E">>, rows, made)
<1> DEFINE one == <<"E">>
           two == <<"2", "E">>
<1>1. /\ "2" \in Message \ Status /\ "E" \in Message \ Status
      /\ "E" \in Passed /\ "E" \notin Tag \cup {"0"}
  BY DEF Message, Status, Passed, Tag
<1>2. one \in Seq(Message \ Status) /\ Len(one) = 1 /\ one[1] = "E" /\ ToSet(one) = {"E"}
  BY <1>1, Messages
<1>3. two \in Seq(Message \ Status) /\ Len(two) = 2 /\ two[2] = "E"
  BY <1>1, Messages
<1>4. ToSet(two) = {"2", "E"}
  BY EntriesOf
<1> HIDE DEF one, two
<1>5. Says(r, q, one, rows, made)
  BY <1>2 DEF Says
<1>6. q.call = "EXEC" => Says(r, q, two, rows, made)
  BY <1>1, <1>3, <1>4 DEF Says
<1> QED BY <1>5, <1>6 DEF one, two

\* and brings no row.
LEMMA ErrorTruth ==
  ASSUME RegistrationInv, TruthInv, NEW c \in Conn, NEW st, NEW msgs,
         Replies(c, msgs, st, {}), Says(Asker(c), request[Asker(c)], msgs, table, schema),
         asked[c] \notin {None, "STARTUP", "PASSWORD"}, UNCHANGED data,
         st \in {"failed", "idle"}
  PROVE  TruthInv'
<1>1. st \in Status /\ st # "inTransaction"
  BY DEF Status
<1> QED BY <1>1, PlainTruth

\* Neither does what is parsed.
LEMMA ParsesTruth ==
  ASSUME RegistrationInv, TruthInv, NEW c \in Conn, Parses(c)
  PROVE  TruthInv'
<1> DEFINE r == Asker(c)
           q == request[r]
           msgs == <<"1", "T">>
           st == session[c].status
<1>1. asked[c] = "PARSE" /\ asked[c] \notin {None, "STARTUP", "PASSWORD"} /\ UNCHANGED data
  BY NoneAssumption DEF Parses, Call
<1>2. /\ q.call = "PARSE" /\ st \in Status
      /\ session[c].rows # {} => st = "inTransaction"
  BY <1>1, Asked DEF TxOf, Status
<1>3. CASE Replies(c, <<"E">>, IF InTransaction(c) THEN "failed" ELSE "idle", {})
  <2>1. PICK st2 \in {"failed", "idle"} : Replies(c, <<"E">>, st2, {})
    BY <1>3
  <2>2. Says(r, q, <<"E">>, table, schema)
    BY ErrorSays
  <2> QED BY <1>1, <2>1, <2>2, ErrorTruth
<1>4. CASE Replies(c, msgs, st, session[c].rows)
  <2>1. /\ msgs \in Seq(Message \ Status) /\ Len(msgs) = 2 /\ ToSet(msgs) = {"1", "T"}
    BY Messages DEF Message, Status, Tag
  <2> HIDE DEF q, r, msgs, st
  <2>2. Says(r, q, msgs, table, schema)
    BY <1>2, <2>1 DEF Says
  <2> QED BY <1>1, <1>2, <1>4, <2>2, PlainTruth DEF q, r
<1> QED BY <1>3, <1>4 DEF Parses

\* A statement that fails brings none.
LEMMA FailsTruth ==
  ASSUME RegistrationInv, TruthInv, NEW c \in Conn, Fails(c)
  PROVE  TruthInv'
<1>1. asked[c] \notin {None, "STARTUP", "PASSWORD"} /\ UNCHANGED data
  BY DEF Fails
<1>2. PICK st \in {"failed", "idle"} : Replies(c, <<"E">>, st, {})
  BY DEF Fails
<1>3. Says(Asker(c), request[Asker(c)], <<"E">>, table, schema)
  BY ErrorSays
<1> QED BY <1>1, <1>2, <1>3, ErrorTruth

\* An INSERT that conflicts with nothing leaves the emails distinct.
LEMMA InsertDistinct ==
  ASSUME RegistrationInv, TruthInv, NEW c \in Conn, Inserts(c),
         "index" \in schema => table \cap SameEmail(Asker(c)) = {},
         UNCHANGED <<schema, emailOf>>,
         table' \cup Uncommitted' \subseteq table \cup Uncommitted \cup {Asker(c)}
  PROVE  Distinct'
<1> DEFINE r == Asker(c)
           all == table \cup Uncommitted
<1>1. asked[c] = "EXEC" /\ asked[c] \notin {None, "STARTUP", "PASSWORD"} /\ r \in Creates
  BY NoneAssumption DEF Inserts, Call
<1>2. session[c].rows \subseteq {r}
  BY <1>1, Asked
<1>3. ASSUME "index" \in schema, NEW x \in all, emailOf[x] = emailOf[r] PROVE x = r
  <2>1. x \in Creates
    BY DEF TruthInv, RowsOk, Uncommitted
  <2>2. x \in SameEmail(r)
    BY <1>3, <2>1 DEF SameEmail
  <2>3. CASE x \in table
    BY <1>3, <2>2, <2>3
  <2>4. CASE x \in Uncommitted
    <3>1. PICK d \in Conn : x \in session[d].rows
      BY <2>4 DEF Uncommitted
    <3>2. \A e \in Conn \ {c} : session[e].rows \cap SameEmail(r) = {}
      BY <1>3 DEF Inserts
    <3> QED BY <1>2, <2>2, <3>1, <3>2
  <2> QED BY <2>3, <2>4
<1>4. ASSUME "index" \in schema, NEW x \in all \cup {r}, NEW y \in all \cup {r},
             emailOf[x] = emailOf[y]
      PROVE  x = y
  <2>1. "index" \in schema => \A a, b \in all : emailOf[a] = emailOf[b] => a = b
    BY DEF TruthInv, Distinct
  <2> HIDE DEF r, all
  <2> QED BY <1>3, <1>4, <2>1
<1> HIDE DEF r
<1>5. table' \cup Uncommitted' \subseteq all \cup {r}
  BY DEF r
<1> QED BY <1>4, <1>5 DEF Distinct

\* An INSERT leaves its row in the session or, outside a transaction, in the table.
LEMMA InsertsTruth ==
  ASSUME RegistrationInv, TruthInv, NEW c \in Conn, Inserts(c)
  PROVE  TruthInv'
<1> DEFINE r == Asker(c)
           q == request[r]
           msgs == <<"2", "D", "INSERT">>
           held == session[c].rows
           taken == IF "index" \in schema THEN SameEmail(r) ELSE {}
<1>1. /\ asked[c] = "EXEC" /\ asked[c] \notin {None, "STARTUP", "PASSWORD"}
      /\ r \in Creates /\ schema' = schema
  BY NoneAssumption DEF Inserts, Call
<1>2. /\ q.call = "EXEC" /\ q.sent /\ q.started \in BOOLEAN /\ session[c].status \in TxOf(q)
      /\ held \subseteq {r}
  BY <1>1, Asked
<1>3. /\ msgs \in Seq(Message \ Status) /\ Len(msgs) = 3 /\ ToSet(msgs) = {"2", "D", "INSERT"}
      /\ msgs[2] = "D" /\ msgs[3] = "INSERT"
  <2>1. /\ "2" \in Message \ Status /\ "D" \in Message \ Status
        /\ "INSERT" \in Message \ Status
    BY DEF Message, Status, Tag, Row
  <2>2. msgs \in Seq(Message \ Status) /\ Len(msgs) = 3
    BY <2>1, Messages
  <2>3. ToSet(msgs) = {"2", "D", "INSERT"}
    BY DEF ToSet
  <2> QED BY <2>2, <2>3
<1>4. {"D", "INSERT"} \subseteq Passed /\ "D" \notin Tag \cup {"0"}
  BY DEF Passed, Tag, Row
<1>5. r # Migration
  BY <1>1, RequestsAssumption
<1>6. \A rows, made : Says(r, q, msgs, rows, made)
  <2> HIDE DEF q, r, msgs
  <2> QED BY <1>1, <1>2, <1>3, <1>4, <1>5 DEF Says
<1>7. \/ /\ Replies(c, <<"2", "E">>, IF InTransaction(c) THEN "failed" ELSE "idle", {})
         /\ UNCHANGED table
      \/ /\ table \cap taken = {} /\ session[c].status = "inTransaction"
         /\ Replies(c, msgs, "inTransaction", held \cup {r}) /\ UNCHANGED table
      \/ /\ table \cap taken = {} /\ session[c].status = "idle"
         /\ Replies(c, msgs, "idle", {}) /\ table' = table \cup {r}
  <2>1. session[c].status \in {"inTransaction", "failed", "idle"}
    BY <1>2 DEF TxOf
  <2> QED BY <2>1, Zenon DEF Inserts
<1>8. CASE /\ Replies(c, <<"2", "E">>, IF InTransaction(c) THEN "failed" ELSE "idle", {})
           /\ UNCHANGED table
  <2>1. PICK st \in {"failed", "idle"} : Replies(c, <<"2", "E">>, st, {})
    BY <1>8
  <2>2. Says(r, q, <<"2", "E">>, table, schema)
    BY <1>2, ErrorSays
  <2>3. UNCHANGED data
    BY <1>1, <1>8 DEF data
  <2> QED BY <1>1, <2>1, <2>2, <2>3, ErrorTruth
<1>9. CASE /\ table \cap taken = {} /\ session[c].status = "inTransaction"
           /\ Replies(c, msgs, "inTransaction", held \cup {r}) /\ UNCHANGED table
  <2>1. PICK rows : rows = held \cup {r}
    OBVIOUS
  <2>2. Replies(c, msgs, "inTransaction", rows) /\ table' = table
    BY <1>9, <2>1
  <2>3. /\ session'[c].rows = rows /\ emailOf' = emailOf
        /\ Uncommitted' \subseteq Uncommitted \cup rows
    BY <2>2, UncommittedAfter
  <2>4. held \subseteq Uncommitted
    BY DEF Uncommitted
  <2>5. Distinct'
    BY <1>1, <1>9, <2>1, <2>2, <2>3, <2>4, InsertDistinct
  <2>6. RowHeld(r, q, session'[c], None)
    BY <2>1, <2>3 DEF RowHeld
  <2>7. Says(r, q, msgs, table', schema') /\ "inTransaction" \in Status
    BY <1>6 DEF Status
  <2> HIDE DEF q, r, msgs, held
  <2> QED BY <1>1, <2>1, <2>2, <2>5, <2>6, <2>7, SaysTruth DEF q, r, held
<1>10. CASE /\ table \cap taken = {} /\ session[c].status = "idle"
            /\ Replies(c, msgs, "idle", {}) /\ table' = table \cup {r}
  <2>1. /\ session'[c].status = "idle" /\ emailOf' = emailOf
        /\ Uncommitted' \subseteq Uncommitted
    BY <1>10, UncommittedAfter
  <2>2. Distinct'
    BY <1>1, <1>10, <2>1, InsertDistinct
  <2>3. RowHeld(r, q, session'[c], None)
    BY <2>1 DEF RowHeld
  <2>4. Says(r, q, msgs, table', schema') /\ "idle" \in Status
    BY <1>6 DEF Status
  <2>5. InTable(q, conn'[c], None)
    <3>1. Heard(conn'[c]) \subseteq {"none", "idle"} \cup ToSet(msgs)
      <4>1. conn[c] = Sound(session[c].status, "none", <<>>)
        BY <1>1, AskedCall
      <4>2. Replies(c, msgs, "idle", {}) /\ msgs \in Seq(Message \ Status)
        BY <1>3, <1>10
      <4> HIDE DEF msgs
      <4> QED BY <2>4, <4>1, <4>2, RepliesSay
    <3>2. "E" \notin Heard(conn'[c])
      BY <1>3, <3>1
    <3>3. q.started = FALSE
      BY <1>2, <1>10 DEF TxOf
    <3> QED BY <1>2, <3>2, <3>3 DEF InTable, InsertedAlone
  <2> HIDE DEF q, r, msgs, held
  <2> QED BY <1>1, <1>10, <2>2, <2>3, <2>4, <2>5, SaysTruth DEF q, r
<1> QED BY <1>7, <1>8, <1>9, <1>10

\* A query adds no row, and counts the index when it is there.
LEMMA SelectsTruth ==
  ASSUME RegistrationInv, TruthInv, NEW c \in Conn, Selects(c)
  PROVE  TruthInv'
<1> DEFINE r == Asker(c)
           q == request[r]
           st == session[c].status
           held == session[c].rows
<1>1. /\ asked[c] = "EXEC" /\ asked[c] \notin {None, "STARTUP", "PASSWORD"}
      /\ r \notin Creates /\ UNCHANGED data
  BY NoneAssumption DEF Selects, Call
<1>2. /\ q.call = "EXEC" /\ st \in TxOf(q) /\ Role(r, q) /\ held = {} /\ q.started = FALSE
  BY <1>1, Asked
<1>3. st = "idle" /\ st \in Status /\ q.doing \in {"find"} \cup Catalogue
  BY <1>1, <1>2 DEF TxOf, Status, Role
<1>4. \E rows \in {<<>>, <<"D">>, <<"0">>} :
        /\ Replies(c, <<"2">> \o rows \o <<"SELECT">>, st, held)
        /\ q.doing = "hasIndex" /\ rows = <<"D">> => "index" \in schema
  BY <1>3 DEF Selects, Catalogue
<1>5. {"D", "0", "SELECT"} \subseteq Passed
  BY DEF Passed, Row, Tag
<1>6. ASSUME NEW msgs, msgs \in Seq(Message \ Status), Len(msgs) > 0,
             \A i \in 1 .. Len(msgs) : i > 1 => msgs[i] \in Passed,
             q.doing = "hasIndex" /\ "D" \in ToSet(msgs) => "index" \in schema,
             "CREATE" \notin ToSet(msgs), Replies(c, msgs, st, held)
      PROVE  TruthInv'
  <2> HIDE DEF q, r, st, held
  <2>1. Says(r, q, msgs, table, schema)
    BY <1>1, <1>2, <1>6 DEF Says
  <2> QED BY <1>1, <1>2, <1>3, <1>6, <2>1, PlainTruth DEF q, r, held
<1>7. /\ "2" \in Message \ Status /\ "SELECT" \in Message \ Status
      /\ "D" \in Message \ Status /\ "0" \in Message \ Status
  BY DEF Message, Status, Row, Tag
<1>8. CASE Replies(c, <<"2">> \o <<>> \o <<"SELECT">>, st, held)
  <2> DEFINE msgs == <<"2", "SELECT">>
  <2>1. <<"2">> \o <<>> = <<"2">> /\ <<"2">> \o <<"SELECT">> = msgs
    BY TwoEntries
  <2>2. msgs \in Seq(Message \ Status) /\ Len(msgs) = 2 /\ msgs[2] = "SELECT"
    BY <1>7, Messages
  <2>3. Replies(c, msgs, st, held)
    BY <1>8, <2>1
  <2>4. ToSet(msgs) = {"2", "SELECT"}
    BY EntriesOf
  <2> HIDE DEF msgs, st, held, q
  <2> QED BY <1>5, <1>6, <2>2, <2>3, <2>4
<1>9. ASSUME NEW t \in Row, Replies(c, <<"2">> \o <<t>> \o <<"SELECT">>, st, held),
             q.doing = "hasIndex" /\ t = "D" => "index" \in schema
      PROVE  TruthInv'
  <2> DEFINE msgs == <<"2", t, "SELECT">>
  <2>1. <<"2">> \o <<t>> \o <<"SELECT">> = msgs
    <3>1. <<"2">> \o <<t>> = <<"2", t>>
      BY TwoEntries
    <3>2. Append(<<"2", t>>, "SELECT") = msgs
      BY ThreeEntries
    <3> DEFINE S == {"2", t, "SELECT"}
    <3>3. <<"2", t>> \in Seq(S) /\ "SELECT" \in S
      OBVIOUS
    <3>4. <<"2", t>> \o <<"SELECT">> = Append(<<"2", t>>, "SELECT")
      BY <3>3, AppendIsConcat
    <3> QED BY <3>1, <3>2, <3>4
  <2>2. t \in Message \ Status /\ t \in Passed
    BY <1>5, <1>7 DEF Row
  <2>3. msgs \in Seq(Message \ Status) /\ Len(msgs) = 3 /\ msgs[2] = t /\ msgs[3] = "SELECT"
    BY <1>7, <2>2, Messages
  <2>4. ToSet(msgs) = {"2", t, "SELECT"}
    BY DEF ToSet
  <2>5. Replies(c, msgs, st, held)
    BY <1>9, <2>1
  <2>6. t \in {"D", "0"}
    BY DEF Row
  <2> HIDE DEF msgs, st, held, q
  <2> QED BY <1>5, <1>6, <1>9, <2>2, <2>3, <2>4, <2>5, <2>6
<1>10. PICK rows \in {<<>>, <<"D">>, <<"0">>} :
         /\ Replies(c, <<"2">> \o rows \o <<"SELECT">>, st, held)
         /\ q.doing = "hasIndex" /\ rows = <<"D">> => "index" \in schema
  BY <1>4
<1>11. "D" \in Row /\ "0" \in Row
  BY DEF Row
<1> HIDE DEF q, st, held
<1>12. CASE rows = <<>>
  BY <1>8, <1>10, <1>12
<1>13. CASE rows = <<"D">>
  BY <1>9, <1>10, <1>11, <1>13
<1>14. CASE rows = <<"0">>
  <2>1. Replies(c, <<"2">> \o <<"0">> \o <<"SELECT">>, st, held)
    BY <1>10, <1>14
  <2> QED BY <1>9, <1>11, <2>1
<1> QED BY <1>10, <1>12, <1>13, <1>14

\* The index is made before there is a row.
LEMMA DefinesTruth ==
  ASSUME RegistrationInv, TruthInv, NEW c \in Conn, Defines(c)
  PROVE  TruthInv'
<1> DEFINE r == Asker(c)
           q == request[r]
           msgs == <<"CREATE">>
           made == CASE q.doing = "createTable" -> {"table"}
                     [] q.doing = "createIndex" -> {"index"}
                     [] q.doing = "addColumn"   -> {}
<1>1. asked[c] = "QUERY" /\ asked[c] \notin {None, "STARTUP", "PASSWORD"} /\ table' = table
  BY NoneAssumption DEF Defines, Call
<1>2. q.call = "QUERY" /\ Role(r, q)
  BY <1>1, Asked
<1>3. r = Migration /\ r \notin Creates /\ q.doing \in Simple
  BY <1>2, RequestsAssumption DEF Role
<1>4. CASE Replies(c, <<"E">>, "idle", {}) /\ UNCHANGED schema
  <2>1. Says(r, q, <<"E">>, table, schema)
    BY ErrorSays
  <2>2. UNCHANGED data
    BY <1>1, <1>4 DEF data
  <2> QED BY <1>1, <1>4, <2>1, <2>2, ErrorTruth
<1>5. CASE Replies(c, msgs, "idle", {}) /\ schema' = schema \cup made
  <2>1. /\ session'[c].status = "idle" /\ emailOf' = emailOf
        /\ Uncommitted' \subseteq Uncommitted
    BY <1>5, UncommittedAfter
  <2>2. table = {} /\ \A s \in Requests \ {Migration} : request[s].conn = None
    BY <1>2, <1>3 DEF TruthInv, Unserved
  <2>3. Uncommitted = {}
    <3> SUFFICES ASSUME NEW x \in Uncommitted PROVE FALSE
      OBVIOUS
    <3>1. PICK d \in Conn : x \in session[d].rows
      BY DEF Uncommitted
    <3>2. x \in Creates /\ request[x].conn = d
      BY <3>1 DEF TruthInv, RowsOk
    <3>3. x \in Requests \ {Migration}
      BY <3>2, RequestsAssumption DEF Requests
    <3> QED BY <2>2, <3>2, <3>3, ConnsAssumption
  <2>4. Distinct'
    BY <1>1, <2>1, <2>2, <2>3 DEF Distinct
  <2>5. /\ msgs \in Seq(Message \ Status) /\ Len(msgs) = 1 /\ msgs[1] = "CREATE"
        /\ "idle" \in Status
    BY Messages DEF Message, Status, Tag
  <2>6. q.doing = "createIndex" => "index" \in schema'
    BY <1>5
  <2>7. q.doing # "hasIndex"
    BY <1>3 DEF Simple
  <2>8. RowHeld(r, q, session'[c], None)
    BY <2>1 DEF RowHeld
  <2>9. schema \subseteq schema'
    BY <1>5
  <2> HIDE DEF q, r, msgs, made
  <2>10. Says(r, q, msgs, table', schema')
    BY <1>2, <1>3, <2>5, <2>6, <2>7 DEF Says
  <2> QED BY <1>1, <1>5, <2>4, <2>5, <2>8, <2>9, <2>10, SaysTruth DEF q, r
<1> QED BY <1>4, <1>5 DEF Defines

-----------------------------------------------------------------------------
(* What the ends of a socket keep of the truth. *)

\* A session that is being opened brings nothing but what opens it.
LEMMA OpeningServes ==
  ASSUME RegistrationInv, TruthInv, NEW c \in Conn, Serves(c), UNCHANGED data,
         session'[c].rows = {}, IsSound(conn'[c]), conn'[c].saved = "none",
         InOneAnswer(conn'[c].inbox), session'[c] = NoSession => HasEnd(conn'[c].inbox),
         asked[c] \in {"STARTUP", "PASSWORD"}
  PROVE  TruthInv'
<1> DEFINE r == Asker(c)
           q == request[r]
<1>1. /\ r \in Requests /\ q.conn = c /\ c \notin free /\ InOrder(r, q) /\ q.opening # "no"
      /\ \A s \in Requests : request[s].conn = c => s = r
  BY AskerHolds, AskedOpening, NoneAssumption
<1>2. Truth(r, q, conn[c], session[c], asked[c], table, schema)
  BY <1>1 DEF TruthInv, TruthOf
<1>3. /\ q.call \in {"BEGIN", "PARSE", "QUERY"} /\ q.started = FALSE /\ q.sent = FALSE
  BY <1>1 DEF InOrder
<1>4. table' = table /\ schema' = schema
  BY DEF data
<1>5. Uncommitted' \subseteq Uncommitted
  BY DEF Uncommitted, Serves
<1>6. Distinct'
  BY <1>4, <1>5, DistinctKept DEF Serves
<1>7. RowsOk(c)'
  BY DEF RowsOk
<1> HIDE DEF q, r
<1>8. /\ r \in Creates => NoError(r, q, table) /\ RowHeld(r, q, session'[c], asked'[c])
      /\ r \in Creates /\ r \in table => InTable(q, conn'[c], asked'[c])
      /\ r = Migration => Migrated(q, schema)
  BY <1>1, <1>2, <1>3, OpeningTruth
<1>9. Hears(r, q, conn'[c], session'[c] # NoSession, table, schema)
  BY <1>1, <1>3 DEF Hears
<1>10. Truth(r, q, conn'[c], session'[c], asked'[c], table', schema')
  BY <1>4, <1>8, <1>9 DEF Truth
<1>11. \A s \in Requests : request[s].conn = c =>
         Truth(s, request[s], conn'[c], session'[c], asked'[c], table', schema')
  BY <1>1, <1>10 DEF q
<1> QED BY <1>1, <1>6, <1>7, <1>11, TruthServes

\* The challenge, and the welcome.
LEMMA WelcomesTruth ==
  ASSUME RegistrationInv, TruthInv, NEW c \in Conn, Welcomes(c)
  PROVE  TruthInv'
<1>1. asked[c] \in {"STARTUP", "PASSWORD"} /\ asked[c] # None
  BY NoneAssumption DEF Welcomes
<1>2. conn[c] = Sound("idle", "none", <<>>) /\ session[c].status = "startup"
  BY <1>1, AskedOpening
<1>3. DOMAIN conn = Conn /\ DOMAIN asked = Conn /\ DOMAIN session = Conn /\ Live(c)
  BY <1>1, AskerHolds DEF RegistrationInv, HoldInv
<1>4. CASE /\ conn' = [conn EXCEPT ![c].inbox = Append(@, "R5")]
           /\ asked' = [asked EXCEPT ![c] = None]
           /\ UNCHANGED <<settings, open, free, session, data, request>>
  <2> DEFINE inbox == <<"R5">>
  <2>1. conn'[c] = Sound("idle", "none", inbox)
    <3> DEFINE d == [Sound("idle", "none", <<>>) EXCEPT !.inbox = inbox]
    <3>1. conn'[c] = d
      <4>1. conn[c].inbox = <<>> /\ Append(<<>>, "R5") = inbox
        BY <1>2, TwoEntries DEF Sound
      <4> QED BY <1>2, <1>3, <1>4, <4>1
    <3>2. /\ DOMAIN d = {"bad", "txnStatus", "saved", "inbox"} /\ d = [f \in DOMAIN d |-> d[f]]
          /\ d.bad = FALSE /\ d.txnStatus = "idle" /\ d.saved = "none" /\ d.inbox = inbox
      BY DEF Sound
    <3> HIDE DEF d
    <3>3. d = Sound("idle", "none", inbox)
      BY <3>2 DEF Sound
    <3> QED BY <3>1, <3>3
  <2>2. InOneAnswer(inbox)
    <3>1. "R5" \in Message \cup Ending
      BY DEF Message
    <3> QED BY <3>1 DEF InOneAnswer
  <2> HIDE DEF inbox
  <2>3. IsSound(conn'[c]) /\ conn'[c].saved = "none" /\ InOneAnswer(conn'[c].inbox)
    BY <2>1, <2>2 DEF IsSound, Sound
  <2>4. session'[c].rows = {} /\ session'[c] # NoSession
    BY <1>2, <1>3, <1>4 DEF TruthInv, RowsOk, Live
  <2>5. Serves(c) /\ UNCHANGED data
    BY <1>3, <1>4 DEF Serves, settings, data
  <2> QED BY <1>1, <2>3, <2>4, <2>5, OpeningServes
<1>5. CASE Replies(c, <<"R0", "K">>, "idle", {}) /\ UNCHANGED data
  <2> DEFINE msgs == <<"R0", "K">>
  <2>1. msgs \in Seq(Message \ Status) /\ "idle" \in Status
    <3>1. "R0" \in Message \ Status /\ "K" \in Message \ Status
      BY DEF Message, Status
    <3> QED BY <3>1, Messages DEF Status
  <2>2. Replies(c, msgs, "idle", {})
    BY <1>5
  <2> HIDE DEF msgs
  <2>3. /\ IsSound(conn'[c]) /\ conn'[c].saved = "none" /\ InOneAnswer(conn'[c].inbox)
        /\ session'[c].status = "idle" /\ session'[c].rows = {}
        /\ UNCHANGED <<request, open, free, emailOf>>
        /\ \A d \in Conn \ {c} :
             conn'[d] = conn[d] /\ session'[d] = session[d] /\ asked'[d] = asked[d]
    BY <1>2, <2>1, <2>2, RepliesSay
  <2>4. session'[c] # NoSession
    BY <2>3 DEF NoSession
  <2>5. Serves(c)
    BY <1>5, <2>3 DEF Serves, data
  <2> QED BY <1>1, <1>5, <2>3, <2>4, <2>5, OpeningServes
<1> QED BY <1>4, <1>5 DEF Welcomes

\* A session that is refused.
LEMMA RefusesTruth ==
  ASSUME RegistrationInv, TruthInv, NEW c \in Conn, Refuses(c)
  PROVE  TruthInv'
<1>1. asked[c] \in {"STARTUP", "PASSWORD"}
  BY DEF Refuses
<1>2. conn[c] = Sound("idle", "none", <<>>)
  BY <1>1, AskedOpening
<1>3. DOMAIN conn = Conn /\ DOMAIN asked = Conn /\ DOMAIN session = Conn
  BY DEF RegistrationInv, HoldInv
<1>4. /\ conn' = [conn EXCEPT ![c].inbox = @ \o <<"E", "eof">>]
      /\ session' = [session EXCEPT ![c] = NoSession] /\ asked' = [asked EXCEPT ![c] = None]
      /\ UNCHANGED <<settings, open, free, data, request>>
  BY DEF Refuses
<1> DEFINE inbox == <<"E", "eof">>
<1>5. conn'[c] = Sound("idle", "none", inbox)
  <2> DEFINE d == [Sound("idle", "none", <<>>) EXCEPT !.inbox = inbox]
  <2>1. conn'[c] = d
    <3>1. conn[c].inbox = <<>> /\ <<>> \o <<"E", "eof">> = inbox
      BY <1>2, TwoEntries DEF Sound
    <3> QED BY <1>2, <1>3, <1>4, <3>1
  <2>2. /\ DOMAIN d = {"bad", "txnStatus", "saved", "inbox"} /\ d = [f \in DOMAIN d |-> d[f]]
        /\ d.bad = FALSE /\ d.txnStatus = "idle" /\ d.saved = "none" /\ d.inbox = inbox
    BY DEF Sound
  <2> HIDE DEF d
  <2>3. d = Sound("idle", "none", inbox)
    BY <2>2 DEF Sound
  <2> QED BY <2>1, <2>3
<1>6. InOneAnswer(inbox) /\ HasEnd(inbox)
  <2>1. "E" \in Message \cup Ending /\ "eof" \in Ending /\ "E" \notin Status
    BY DEF Message, Ending, Status
  <2> QED BY <2>1 DEF InOneAnswer, HasEnd
<1> HIDE DEF inbox
<1>7. /\ IsSound(conn'[c]) /\ conn'[c].saved = "none" /\ InOneAnswer(conn'[c].inbox)
      /\ HasEnd(conn'[c].inbox)
  BY <1>5, <1>6 DEF IsSound, Sound
<1>8. session'[c].rows = {}
  BY <1>3, <1>4 DEF NoSession
<1>9. Serves(c) /\ UNCHANGED data
  BY <1>3, <1>4 DEF Serves, settings, data
<1> QED BY <1>1, <1>7, <1>8, <1>9, OpeningServes

\* What is left of the inbox when the socket breaks.
Cut(inbox, n, end) == Append(SubSeq(inbox, 1, n), end)

\* It is a part of what was there, and the end.
LEMMA CutLeaves ==
  ASSUME NEW inbox, InOneAnswer(inbox), NEW n, n \in 0 .. Len(inbox), NEW end \in Ending
  PROVE  LET left == Cut(inbox, n, end)
         IN /\ Len(left) = n + 1 /\ left[n + 1] = end
            /\ \A i \in 1 .. n : left[i] = inbox[i] /\ i \in 1 .. Len(inbox)
            /\ InOneAnswer(left) /\ HasEnd(left)
            /\ ToSet(left) \subseteq ToSet(inbox) \cup Ending
            /\ \A S : inbox \in Seq(S) /\ Ending \subseteq S => left \in Seq(S)
<1> DEFINE A == Message \cup Ending
           before == SubSeq(inbox, 1, n)
           left == Cut(inbox, n, end)
<1>1. /\ inbox \in Seq(A) /\ end \in A /\ Len(inbox) \in Nat /\ n \in Nat
      /\ \A i \in 1 .. Len(inbox) : inbox[i] \in A
      /\ \A i, j \in 1 .. Len(inbox) : i < j /\ inbox[i] \in Status => inbox[j] \in Ending
  BY ElementOfSeq, LenProperties DEF InOneAnswer
<1> HIDE DEF A
<1>2. /\ before \in Seq(A) /\ Len(before) = n
      /\ \A i \in 1 .. n : before[i] = inbox[i] /\ i \in 1 .. Len(inbox)
  BY <1>1, SubSeqProperties
<1> HIDE DEF before
<1>3. /\ left \in Seq(A) /\ Len(left) = n + 1 /\ left[n + 1] = end
      /\ \A i \in 1 .. n : left[i] = inbox[i] /\ i \in 1 .. Len(inbox)
  BY <1>1, <1>2, AppendProperties DEF Cut, before
<1> HIDE DEF left
<1>4. InOneAnswer(left)
  <2>1. \A i, j \in 1 .. Len(left) : i < j /\ left[i] \in Status => left[j] \in Ending
    <3> TAKE i, j \in 1 .. Len(left)
    <3>1. CASE j = n + 1
      BY <1>3, <3>1
    <3>2. CASE j # n + 1
      <4>1. i < j => i \in 1 .. n /\ j \in 1 .. n
        BY <1>1, <1>3, <3>2
      <4> QED BY <1>1, <1>3, <4>1
    <3> QED BY <3>1, <3>2
  <2> QED BY <1>3, <2>1 DEF InOneAnswer, A
<1>5. HasEnd(left)
  BY <1>1, <1>3 DEF HasEnd
<1>6. ToSet(left) \subseteq ToSet(inbox) \cup Ending
  <2> SUFFICES ASSUME NEW x \in ToSet(left) PROVE x \in ToSet(inbox) \cup Ending
    OBVIOUS
  <2>1. PICK i \in 1 .. Len(left) : x = left[i]
    BY <1>3, LenProperties DEF ToSet
  <2>2. CASE i = n + 1
    BY <1>3, <2>1, <2>2
  <2>3. CASE i # n + 1
    <3>1. i \in 1 .. n
      BY <1>1, <1>3, <2>3
    <3>2. x = inbox[i] /\ i \in 1 .. Len(inbox)
      BY <1>3, <2>1, <3>1
    <3> QED BY <1>1, <3>2 DEF ToSet
  <2> QED BY <2>2, <2>3
<1>7. ASSUME NEW S, inbox \in Seq(S), Ending \subseteq S PROVE left \in Seq(S)
  <2>1. end \in S /\ \A i \in 1 .. Len(inbox) : inbox[i] \in S
    BY <1>7, ElementOfSeq
  <2>2. \A i \in 1 .. Len(left) : left[i] \in S
    <3> TAKE i \in 1 .. Len(left)
    <3>1. i = n + 1 \/ i \in 1 .. n
      BY <1>1, <1>3
    <3> QED BY <1>3, <2>1, <3>1
  <2>3. left = [i \in 1 .. Len(left) |-> left[i]]
    BY <1>3
  <2>4. Len(left) \in Nat
    BY <1>1, <1>3
  <2> QED BY <2>2, <2>3, <2>4
<1> QED BY <1>3, <1>4, <1>5, <1>6, <1>7 DEF left

\* The request hears no more than was said, and its connection is cut off with an end.
LEMMA CutHears ==
  ASSUME NEW r, NEW q, NEW cn, NEW live, NEW rows, NEW made, Hears(r, q, cn, live, rows, made),
         NEW cn2, NEW live2, NEW n, NEW end \in Ending, IsSound(cn), IsSound(cn2),
         InOneAnswer(cn.inbox), cn2.inbox = Cut(cn.inbox, n, end), cn2.saved = cn.saved,
         n \in 0 .. Len(cn.inbox), q.sent \in BOOLEAN
  PROVE  Hears(r, q, cn2, live2, rows, made) /\ Heard(cn2) \subseteq Heard(cn) \cup Ending
<1> DEFINE left == cn2.inbox
<1>1. /\ Len(left) = n + 1 /\ left[n + 1] = end
      /\ \A i \in 1 .. n : left[i] = cn.inbox[i] /\ i \in 1 .. Len(cn.inbox)
      /\ InOneAnswer(left) /\ HasEnd(left) /\ ToSet(left) \subseteq ToSet(cn.inbox) \cup Ending
      /\ \A S : cn.inbox \in Seq(S) /\ Ending \subseteq S => left \in Seq(S)
  BY CutLeaves
<1>2. Heard(cn2) \subseteq Heard(cn) \cup Ending
  BY <1>1 DEF Heard
<1>3. \A i \in 1 .. Len(left) :
        left[i] = end \/ (left[i] = cn.inbox[i] /\ i \in 1 .. Len(cn.inbox))
  <2>1. Len(cn.inbox) \in Nat
    BY LenProperties DEF InOneAnswer
  <2> QED BY <1>1, <2>1
<1>4. end \notin Tag \cup {"0", "COMMIT", "CREATE", "D"} /\ end \in {"CREATE", "E"} \cup Ending
      /\ "COMMIT" \notin Ending /\ "CREATE" \notin Ending /\ "D" \notin Ending
  BY DEF Ending, Tag
<1> HIDE DEF left
<1>5. CASE q.opening # "no"
  <2>1. cn2.saved = "none"
    BY <1>5 DEF Hears
  <2> QED BY <1>1, <1>2, <1>5, <2>1 DEF Hears, left
<1>6. CASE q.opening = "no" /\ q.sent = FALSE
  <2>1. Quiet(cn)
    BY <1>6 DEF Hears
  <2>2. Rests(cn)
    BY <2>1, FieldsOf DEF Quiet
  <2>3. left \in Seq(Ending) /\ cn2.saved = "none"
    BY <1>1, <2>2 DEF Rests
  <2>4. Quiet(cn2)
    BY <2>3 DEF Quiet, Rests, left
  <2> QED BY <1>2, <1>6, <2>4 DEF Hears
<1>7. CASE q.opening = "no" /\ q.sent = TRUE
  <2>1. /\ Reads(q, cn)
        /\ r \in Creates => CreateHears(r, q, cn, rows)
        /\ r = Migration => MigrationHears(q, cn, made)
    BY <1>7 DEF Hears
  <2>2. Reads(q, cn2)
    <3>1. q.call \in {"SCAN", "ROWS"} => left \in Seq(Passed \cup Status \cup Ending)
      BY <1>1, <2>1 DEF Reads
    <3>2. q.call = "EXEC" =>
            \A i \in 1 .. Len(left) : i > 1 => left[i] \in Passed \cup Status \cup Ending
      BY <1>3, <2>1 DEF Reads
    <3> QED BY <1>1, <2>1, <3>1, <3>2 DEF Reads, left
  <2>3. ASSUME r \in Creates PROVE CreateHears(r, q, cn2, rows)
    <3>1. CreateHears(r, q, cn, rows)
      BY <2>1, <2>3
    <3>2. q.call = "EXEC" => \A i \in 1 .. Len(left) : i = 2 => left[i] \notin Tag \cup {"0"}
      BY <1>3, <1>4, <3>1 DEF CreateHears
    <3>3. "COMMIT" \in Heard(cn2) => "COMMIT" \in Heard(cn)
      BY <1>2, <1>4
    <3> QED BY <3>1, <3>2, <3>3 DEF CreateHears, left
  <2>4. ASSUME r = Migration PROVE MigrationHears(q, cn2, made)
    <3>1. MigrationHears(q, cn, made)
      BY <2>1, <2>4
    <3>2. q.call = "QUERY" =>
            \A i \in 1 .. Len(left) : i = 1 => left[i] \in {"CREATE", "E"} \cup Ending
      BY <1>3, <1>4, <3>1 DEF MigrationHears
    <3>3. /\ "CREATE" \in Heard(cn2) => "CREATE" \in Heard(cn)
          /\ "D" \in Heard(cn2) => "D" \in Heard(cn)
      BY <1>2, <1>4
    <3> QED BY <3>1, <3>2, <3>3 DEF MigrationHears, left
  <2> QED BY <1>2, <1>7, <2>2, <2>3, <2>4 DEF Hears
<1> QED BY <1>5, <1>6, <1>7

\* A broken socket.
LEMMA BreakTruth ==
  ASSUME RegistrationInv, TruthInv, NEW c \in Conn, Break(c)
  PROVE  TruthInv'
<1>1. PICK n \in 0 .. Len(conn[c].inbox), end \in {"eof", "partial"} :
        conn' = [conn EXCEPT ![c].inbox = Append(SubSeq(@, 1, n), end)]
  BY DEF Break
<1> DEFINE cn == conn[c]
           cn2 == conn'[c]
<1>2. /\ DOMAIN conn = Conn /\ DOMAIN asked = Conn /\ DOMAIN session = Conn
      /\ Live(c) /\ c \in open /\ ConnOk(c) /\ end \in Ending
      /\ session' = [session EXCEPT ![c] = NoSession] /\ asked' = [asked EXCEPT ![c] = None]
      /\ UNCHANGED <<settings, open, free, data, request>>
  BY DEF RegistrationInv, HoldInv, ConnOk, Break, Live, Ending
<1>3. cn2 = [cn EXCEPT !.inbox = Cut(cn.inbox, n, end)]
  BY <1>1, <1>2 DEF Cut
<1>4. session'[c] = NoSession /\ NoSession.rows = {} /\ NoSession.status = "gone"
  BY <1>2 DEF NoSession
<1>5. Serves(c) /\ RowsOk(c)' /\ Uncommitted' \subseteq Uncommitted
  <2>1. \A d \in Conn \ {c} :
          conn'[d] = conn[d] /\ session'[d] = session[d] /\ asked'[d] = asked[d]
    BY <1>1, <1>2
  <2> QED BY <1>2, <1>4, <2>1 DEF Serves, RowsOk, Uncommitted, settings, data
<1>6. Distinct'
  BY <1>2, <1>5, DistinctKept DEF data, settings
<1>7. ASSUME IsSound(cn)
      PROVE  IsSound(cn2) /\ cn2.saved = cn.saved /\ cn2.inbox = Cut(cn.inbox, n, end)
  <2> DEFINE txn == cn.txnStatus  saved == cn.saved  inbox == cn.inbox
             left == Cut(inbox, n, end)
             d == [Sound(txn, saved, inbox) EXCEPT !.inbox = left]
  <2>1. cn2 = d
    BY <1>3, <1>7 DEF IsSound
  <2> HIDE DEF cn2, txn, saved, inbox, left
  <2>2. /\ DOMAIN d = {"bad", "txnStatus", "saved", "inbox"} /\ d = [f \in DOMAIN d |-> d[f]]
        /\ d.bad = FALSE /\ d.txnStatus = txn /\ d.saved = saved /\ d.inbox = left
    BY DEF Sound
  <2> HIDE DEF d
  <2>3. d = Sound(txn, saved, left)
    BY <2>2 DEF Sound
  <2>4. IsSound(cn2) /\ cn2.saved = saved /\ cn2.inbox = left
    BY <2>1, <2>3 DEF IsSound, Sound
  <2> QED BY <2>4 DEF saved, inbox, left
<1>8. c \in free => Quiet(cn2)
  <2> SUFFICES ASSUME c \in free PROVE Quiet(cn2)
    OBVIOUS
  <2>1. cn = Sound("idle", "none", <<>>)
    BY <1>2 DEF ConnOk
  <2>2. IsSound(cn) /\ cn.saved = "none" /\ cn.inbox = <<>>
    BY <2>1 DEF IsSound, Sound
  <2>3. InOneAnswer(<<>>) /\ <<>> \in Seq(Ending) /\ n \in 0 .. Len(<<>>)
    BY <2>2 DEF InOneAnswer
  <2> HIDE DEF cn, cn2
  <2>4. Cut(<<>>, n, end) \in Seq(Ending)
    BY <1>2, <2>3, CutLeaves
  <2> QED BY <1>7, <2>2, <2>4 DEF Quiet, Rests
<1>9. ASSUME NEW r \in Requests, request[r].conn = c
      PROVE  Truth(r, request[r], cn2, session'[c], asked'[c], table', schema')
  <2> DEFINE q == request[r]
  <2>1. /\ InOrder(r, q) /\ Stage(q, cn, session[c].status, asked[c]) /\ q.conn # None
        /\ Truth(r, q, cn, session[c], asked[c], table, schema)
    BY <1>2, <1>9, ConnsAssumption DEF RegistrationInv, HoldInv, HeldOk, TruthInv, TruthOf
  <2>2. asked'[c] = None /\ table' = table /\ schema' = schema
    BY <1>2 DEF data
  <2> HIDE DEF q, cn, cn2
  <2>3. IsSound(cn)
    <3>1. \E txn, saved, inbox : cn = Sound(txn, saved, inbox)
      <4>1. Fresh = Sound("idle", "none", <<>>)
        BY DEF Fresh, Sound
      <4> QED BY <2>1, <4>1 DEF Stage, Opening, Unanswered, Replied, Fetching, HasRows
    <3> QED BY <3>1 DEF IsSound, Sound
  <2>4. Hears(r, q, cn, session[c] # NoSession, table, schema) /\ q.sent \in BOOLEAN
    BY <2>1 DEF Truth, InOrder
  <2>5. InOneAnswer(cn.inbox)
    <3>1. CASE q.opening # "no"
      BY <2>4, <3>1 DEF Hears
    <3>2. CASE q.opening = "no" /\ q.sent
      BY <2>4, <3>2 DEF Hears, Reads
    <3>3. CASE q.opening = "no" /\ ~q.sent
      <4>1. Rests(cn)
        BY <2>3, <2>4, <3>3, FieldsOf DEF Hears, Quiet
      <4>2. \A i \in 1 .. Len(cn.inbox) : cn.inbox[i] \in Ending
        BY <4>1, ElementOfSeq DEF Rests
      <4>3. cn.inbox \in Seq(Message \cup Ending)
        BY <4>1, SeqMonotonic DEF Rests
      <4> QED BY <4>2, <4>3 DEF InOneAnswer
    <3> QED BY <3>1, <3>2, <3>3
  <2>6. Hears(r, q, cn2, FALSE, table, schema) /\ Heard(cn2) \subseteq Heard(cn) \cup Ending
    <3>1. n \in 0 .. Len(cn.inbox)
      BY DEF cn
    <3>2. IsSound(cn2) /\ cn2.saved = cn.saved /\ cn2.inbox = Cut(cn.inbox, n, end)
      BY <1>7, <2>3
    <3>3. \A live : Hears(r, q, cn, live, table, schema) =>
            Hears(r, q, cn2, FALSE, table, schema) /\ Heard(cn2) \subseteq Heard(cn) \cup Ending
      BY <1>2, <2>3, <2>4, <2>5, <3>1, <3>2, CutHears
    <3> QED BY <2>4, <3>3
  <2>7. r \in Creates /\ r \in table => InTable(q, cn2, None)
    <3>1. "E" \in Heard(cn2) => "E" \in Heard(cn)
      BY <2>6 DEF Ending
    <3> QED BY <2>1, <3>1, NoneAssumption DEF Truth, InTable, InsertedAlone
  <2>8. RowHeld(r, q, session'[c], None)
    BY <1>4 DEF RowHeld
  <2>9. Hears(r, q, cn2, session'[c] # NoSession, table, schema)
    BY <1>4, <2>6 DEF Hears
  <2>10. Truth(r, q, cn2, session'[c], None, table, schema)
    BY <2>1, <2>7, <2>8, <2>9 DEF Truth
  <2> QED BY <2>2, <2>10 DEF q
<1> QED BY <1>5, <1>6, <1>8, <1>9, TruthServes

-----------------------------------------------------------------------------
(* The theorem about the results. *)

\* At the start nothing is asked, and nothing in the table.
LEMMA TruthInit == Init => TruthInv
<1> SUFFICES ASSUME Init PROVE TruthInv
  OBVIOUS
<1>1. /\ free = {} /\ table = {} /\ session = [c \in Conn |-> NoSession]
  BY DEF Init
<1>2. ASSUME NEW r \in Requests
      PROVE  LET q == request[r]
             IN /\ q.call = FirstCall(Doing(r)) /\ q.conn = None /\ q.sent = FALSE
                /\ q.opening = "no" /\ q.started = FALSE /\ q.failed = FALSE /\ q.seen = {}
  BY DEF Init
<1>3. ASSUME NEW r \in Requests PROVE TruthOf(r)
  <2> DEFINE q == request[r]
  <2>1. /\ q.call \notin {"DONE", "ROLLBACK"}
        /\ r \in Creates => q.call = "BEGIN"
    <3>1. \/ r \in Creates /\ Doing(r) = "insert"
          \/ r \in Finds /\ Doing(r) = "find" /\ r \notin Creates
          \/ r = Migration /\ Doing(r) = "hasTable" /\ r \notin Creates
      BY Roles DEF Doing, Requests
    <3> QED BY <1>2, <3>1 DEF FirstCall, Simple
  <2> HIDE DEF q
  <2>2. q.conn = None /\ q.failed = FALSE
    BY <1>2 DEF q
  <2> QED BY <1>1, <2>1, <2>2 DEF TruthOf, Truth, NoError, RowHeld, Migrated, q
<1>4. /\ \A c \in Conn : session[c].rows = {}
  BY <1>1 DEF NoSession
<1>5. Uncommitted = {} /\ \A c \in Conn : RowsOk(c)
  BY <1>4 DEF Uncommitted, RowsOk
<1>6. Unserved
  BY <1>1, <1>2 DEF Unserved
<1> QED BY <1>1, <1>3, <1>5, <1>6 DEF TruthInv, Distinct

\* Every step keeps the truth.
LEMMA TruthStep == RegistrationInv /\ RegistrationInv' /\ TruthInv /\ [Next]_vars => TruthInv'
<1> SUFFICES ASSUME RegistrationInv, RegistrationInv', TruthInv, [Next]_vars PROVE TruthInv'
  OBVIOUS
<1>1. CASE UNCHANGED vars
  BY <1>1 DEF vars, settings, data, TruthInv, TruthOf, RowsOk, Distinct, Uncommitted, Unserved
<1>2. ASSUME NEW c \in Conn, Answer(c) PROVE TruthInv'
  BY <1>2, WelcomesTruth, BeginsTruth, CommitsTruth, RollsBackTruth, ParsesTruth, InsertsTruth,
     SelectsTruth, DefinesTruth DEF Answer
<1>3. ASSUME NEW r \in Requests,
             Take(r) \/ Open(r) \/ SendPassword(r) \/ OpenReturns(r) \/ Send(r) \/ Receive(r)
      PROVE  TruthInv'
  BY <1>3, TakeTruth, OpenTruth, SendPasswordTruth, OpenReturnsTruth, SendTruth, ReceiveTruth
<1>4. ASSUME NEW r \in Requests, DialFails(r) \/ WriteFails(r) PROVE TruthInv'
  BY <1>4, DialFailsTruth, WriteFailsTruth
<1>5. ASSUME NEW c \in Conn, Fails(c) \/ Refuses(c) \/ Break(c) PROVE TruthInv'
  BY <1>5, FailsTruth, RefusesTruth, BreakTruth
<1> QED BY <1>1, <1>2, <1>3, <1>4, <1>5 DEF Next, Works, Faults

\* So the truth holds in every reachable state.
LEMMA TruthInvariant == Spec => []TruthInv
<1>1. Init => TruthInv
  BY TruthInit
<1>2. RegistrationInv /\ RegistrationInv' /\ TruthInv /\ [Next]_vars => TruthInv'
  BY TruthStep
<1> QED BY <1>1, <1>2, RegistrationInvariant, PTL DEF Spec

\* Whatever fails, a Create that met no error has its row and one that failed and lost no
\* answer has none; the emails are distinct as soon as there is the index, which is there
\* after a migration that met no error (ResultsAreTrue).
THEOREM ResultsTrue == Spec => []ResultsAreTrue
<1>1. TruthInv => ResultsAreTrue
  <2> SUFFICES ASSUME TruthInv PROVE ResultsAreTrue
    OBVIOUS
  <2>1. "index" \in schema => \A r, s \in table : emailOf[r] = emailOf[s] => r = s
    BY DEF TruthInv, Distinct
  <2>2. ASSUME request[Migration].call = "DONE", "index" \notin schema
        PROVE  request[Migration].seen # {}
    <3>1. TruthOf(Migration)
      BY DEF TruthInv, Requests
    <3> QED BY <2>2, <3>1 DEF TruthOf, Truth, Migrated
  <2>3. ASSUME NEW r \in Creates, request[r].call = "DONE"
        PROVE  /\ request[r].seen = {} => ~request[r].failed /\ r \in table
               /\ request[r].failed /\ request[r].seen \subseteq {"server"} => r \notin table
    <3> DEFINE q == request[r]
    <3>1. TruthOf(r)
      BY DEF TruthInv, Requests
    <3>2. /\ NoError(r, q, table)
          /\ r \in table => InTable(q, conn[q.conn], asked[q.conn])
      BY <3>1 DEF TruthOf, Truth
    <3> HIDE DEF q
    <3>3. q.call = "DONE"
      BY <2>3 DEF q
    <3>4. q.seen = {} => ~q.failed /\ r \in table
      BY <3>2, <3>3 DEF NoError
    <3>5. q.failed /\ q.seen \subseteq {"server"} => r \notin table
      BY <3>2, <3>3 DEF InTable, InsertedAlone
    <3> QED BY <3>4, <3>5 DEF q
  <2> QED BY <2>1, <2>2, <2>3 DEF ResultsAreTrue
<1> QED BY <1>1, TruthInvariant, PTL
=============================================================================
