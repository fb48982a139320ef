-------------------------- MODULE ImageItemProofs --------------------------
(***************************************************************************)
(* Proofs about the rows, for any number of rows, URLs and files.          *)
(***************************************************************************)
EXTENDS ImageItem, TLAPS

-----------------------------------------------------------------------------
(* The inductive invariant. *)

\* An entity that was not constructed is untouched; a queued event of a live row
\* tells how the decoding ended; without a src there is nothing to mark.
RowInv ==
  /\ ItemTypeOK
  /\ \A e \in Entity :
       /\ life[e] = "none" =>
            /\ pending[e] = {}
            /\ blob[e] = Nothing
            /\ img[e] = "none"
            /\ imgEvent[e] = "none"
            /\ completed[e] = FALSE
            /\ error[e] = "none"
       /\ img[e] = "loading" => imgEvent[e] = "none"
       /\ img[e] # "none" => blob[e] # Nothing
       /\ img[e] = "available" => blob[e] \in Source
       /\ Mounted(e) /\ imgEvent[e] = "load" => img[e] = "available"
       /\ Mounted(e) /\ imgEvent[e] = "error" => img[e] = "broken"
  /\ StatusTruthful

\* An initial list of rows satisfies the invariant.
LEMMA RowInvInit == ASSUME NEW mounted, ItemInit(mounted) PROVE RowInv
BY NothingAssumption
   DEF ItemInit, RowInv, ItemTypeOK, StatusTruthful, Mounted, AtRest, Source, Blob

\* Every step of a row, of each of its handlers and of the browser, keeps it.
LEMMA RowInvStep == RowInv /\ [ItemNext]_itemVars => RowInv'
<1> SUFFICES ASSUME RowInv, [ItemNext]_itemVars PROVE RowInv'
  OBVIOUS
<1> USE NothingAssumption, GarbageAssumption
    DEF RowInv, ItemTypeOK, StatusTruthful, Mounted, AtRest, Source, Blob
<1>1. CASE UNCHANGED itemVars
  BY <1>1 DEF itemVars
<1>2. ASSUME NEW e \in Entity, Construct(e) PROVE RowInv'
  BY <1>2 DEF Construct
<1>3. ASSUME NEW e \in Entity, Input(e) PROVE RowInv'
  <2>1. ASSUME NEW u \in Url, EnterUrl(e, u) PROVE RowInv'
    BY <2>1 DEF EnterUrl
  <2>2. ASSUME RejectUrl(e) PROVE RowInv'
    BY <2>2 DEF RejectUrl, SetStatus
  <2>3. ASSUME NEW f \in File, ChooseFile(e, f) PROVE RowInv'
    BY <2>3 DEF ChooseFile
  <2> HIDE DEF RowInv, ItemTypeOK, StatusTruthful, Source, Blob
  <2> QED BY <1>3, <2>1, <2>2, <2>3 DEF Input
<1>4. ASSUME NEW e \in Entity, Answer(e) PROVE RowInv'
  <2>1. ASSUME NEW u \in Url, NEW b \in {u, Garbage}, UrlAnswered(e, u, b) PROVE RowInv'
    BY <2>1 DEF UrlAnswered, Answered, Set, SetStatus
  <2>2. ASSUME NEW u \in Url, UrlFailed(e, u) PROVE RowInv'
    BY <2>2 DEF UrlFailed, Answered, SetStatus
  <2>3. ASSUME NEW f \in File, NEW b \in {f, Garbage}, FileRead(e, f, b) PROVE RowInv'
    BY <2>3 DEF FileRead, Answered, Set
  <2>4. ASSUME NEW f \in File, FileUnreadable(e, f) PROVE RowInv'
    BY <2>4 DEF FileUnreadable, Answered
  <2> HIDE DEF RowInv, ItemTypeOK, StatusTruthful, Source, Blob
  <2> QED BY <1>4, <2>1, <2>2, <2>3, <2>4 DEF Answer
<1>5. ASSUME NEW e \in Entity, Decoded(e) PROVE RowInv'
  BY <1>5 DEF Decoded
<1>6. ASSUME NEW e \in Entity, SettleRow(e) PROVE RowInv'
  <2>1. CASE ~Mounted(e)
    BY <1>6, <2>1 DEF SettleRow, SetStatus
  <2>2. CASE Mounted(e) /\ imgEvent[e] = "load"
    <3>1. /\ completed' = [completed EXCEPT ![e] = TRUE]
          /\ error'     = [error EXCEPT ![e] = "none"]
          /\ imgEvent'  = [imgEvent EXCEPT ![e] = "none"]
          /\ UNCHANGED <<life, chosen, pending, blob, img>>
      BY <1>6, <2>2 DEF SettleRow, SetStatus
    <3>2. ItemTypeOK'
      BY <3>1
    <3>3. completed'[e] = TRUE /\ img'[e] = "available"
      BY <3>1, <2>2
    <3>4. StatusTruthful'
      BY <3>1, <3>2, <3>3
    <3> QED BY <3>1, <3>2, <3>4, <2>2
  <2>3. CASE Mounted(e) /\ imgEvent[e] = "error"
    <3>1. /\ completed' = [completed EXCEPT ![e] = FALSE]
          /\ error'     = [error EXCEPT ![e] = "loadFailed"]
          /\ imgEvent'  = [imgEvent EXCEPT ![e] = "none"]
          /\ UNCHANGED <<life, chosen, pending, blob, img>>
      BY <1>6, <2>3 DEF SettleRow, SetStatus
    <3>2. ItemTypeOK'
      BY <3>1
    <3>3. completed'[e] = FALSE /\ img'[e] = "broken"
      BY <3>1, <2>3
    <3>4. StatusTruthful'
      BY <3>1, <3>2, <3>3
    <3> QED BY <3>1, <3>2, <3>4, <2>3
  <2> QED BY <1>6, <2>1, <2>2, <2>3 DEF SettleRow
<1>7. ASSUME NEW e \in Entity, Destroy(e) PROVE RowInv'
  BY <1>7 DEF Destroy
<1> QED BY <1>1, <1>2, <1>3, <1>4, <1>5, <1>6, <1>7 DEF ItemNext

\* The mark of a row at rest says whether its image can be drawn, whatever the
\* order of input, answers, decodings and events.
THEOREM RowsTruthful == ItemSpec => [](ItemTypeOK /\ StatusTruthful)
<1>1. RowInv => ItemTypeOK /\ StatusTruthful
  BY DEF RowInv
<1>2. ItemInit({}) => RowInv
  BY RowInvInit
<1> QED BY <1>1, <1>2, RowInvStep, PTL DEF ItemSpec

\* The fields of a row keep their shape through every handler and event, and a row never
\* holds a blob but of a source or garbage.
THEOREM RowsTyped == ItemSpec => []ItemTypeOK
BY RowsTruthful, PTL

-----------------------------------------------------------------------------
(* The rows keep the promise of RowPromise. *)

\* The phase of a row depends on that row alone.
LEMMA PhaseFrame ==
  ASSUME NEW x \in Entity,
         life'[x] = life[x], img'[x] = img[x], imgEvent'[x] = imgEvent[x]
  PROVE  Phase(x)' = Phase(x)
BY DEF Phase, Mounted, AtRest

\* A step that moves one row from one phase to another, and no other row, is a
\* step of the phases as a whole.
LEMMA PhaseMove ==
  ASSUME NEW e \in Entity,
         \A x \in Entity \ {e} : /\ life'[x] = life[x]
                                 /\ img'[x] = img[x]
                                 /\ imgEvent'[x] = imgEvent[x]
  PROVE  [x \in Entity |-> Phase(x)]' =
           [[x \in Entity |-> Phase(x)] EXCEPT ![e] = Phase(e)']
BY PhaseFrame

\* No row is there at first.
LEMMA PromiseInit == ItemInit({}) => Promise!Init
BY DEF ItemInit, Promise!Init, Phase, Mounted, AtRest

\* Every step of the rows is a step of RowPromise or changes nothing it sees.
LEMMA PromiseStep ==
  RowInv /\ RowInv' /\ [ItemNext]_itemVars => [Promise!Next]_(Promise!vars)
<1> SUFFICES ASSUME RowInv, RowInv', [ItemNext]_itemVars
             PROVE  [Promise!Next]_(Promise!vars)
  OBVIOUS
<1> DEFINE P == [x \in Entity |-> Phase(x)]
<1>a. ASSUME \A x \in Entity : Phase(x)' = Phase(x), completed' = completed
      PROVE  UNCHANGED Promise!vars
  BY <1>a DEF Promise!vars
<1>b. ASSUME life' = life, img' = img, imgEvent' = imgEvent, completed' = completed
      PROVE  UNCHANGED Promise!vars
  BY <1>a, <1>b, PhaseFrame
<1>1. CASE UNCHANGED itemVars
  BY <1>1, <1>b DEF itemVars
<1>2. ASSUME NEW e \in Entity, Construct(e) PROVE Promise!Next
  <2>1. P' = [P EXCEPT ![e] = Phase(e)']
    BY <1>2, PhaseMove DEF Construct, RowInv, ItemTypeOK
  <2>2. Phase(e) = "unborn" /\ Phase(e)' = "empty"
    BY <1>2 DEF Construct, RowInv, ItemTypeOK, Phase, Mounted, AtRest
  <2>3. Promise!Open(e)
    BY <1>2, <2>1, <2>2 DEF Promise!Open, Promise!Becomes, Construct
  <2> QED BY <2>3 DEF Promise!Next
<1>3. ASSUME NEW e \in Entity, Input(e) PROVE UNCHANGED Promise!vars
  BY <1>3, <1>b
     DEF Input, EnterUrl, RejectUrl, ChooseFile, SetStatus, RowInv, ItemTypeOK
<1>4. ASSUME NEW e \in Entity, Answer(e) PROVE [Promise!Next]_(Promise!vars)
  <2>1. CASE /\ life' = life /\ img' = img /\ imgEvent' = imgEvent
             /\ completed' = completed
    BY <2>1, <1>b
  <2>2. CASE /\ life' = life /\ completed' = completed
             /\ img' = [img EXCEPT ![e] = "loading"]
             /\ imgEvent' = [imgEvent EXCEPT ![e] = "none"]
             /\ pending[e] # {}
    <3>1. P' = [P EXCEPT ![e] = Phase(e)']
      BY <2>2, PhaseMove DEF RowInv, ItemTypeOK
    <3>2. life[e] \in {"live", "closed"}
      BY <2>2 DEF RowInv, ItemTypeOK
    <3>3. CASE life[e] = "closed" \/ ~AtRest(e)
      <4>1. Phase(e)' = Phase(e)
        BY <2>2, <3>2, <3>3 DEF Phase, Mounted, AtRest, RowInv, ItemTypeOK
      <4> QED BY <4>1, <3>1, <2>2 DEF Promise!vars
    <3>4. CASE life[e] = "live" /\ AtRest(e)
      <4>1. Phase(e) \in {"empty", "shown", "failed"} /\ Phase(e)' = "loading"
        BY <2>2, <3>4 DEF Phase, Mounted, AtRest, RowInv, ItemTypeOK
      <4>2. Promise!Load(e)
        BY <4>1, <3>1, <2>2 DEF Promise!Load, Promise!Becomes
      <4> QED BY <4>2 DEF Promise!Next
    <3> QED BY <3>2, <3>3, <3>4
  <2> QED
    BY <1>4, <2>1, <2>2
       DEF Answer, UrlAnswered, UrlFailed, FileRead, FileUnreadable, Answered, Set,
           SetStatus, RowInv, ItemTypeOK
<1>5. ASSUME NEW e \in Entity, Decoded(e) PROVE UNCHANGED Promise!vars
  <2>1. Phase(e)' = Phase(e)
    BY <1>5 DEF Decoded, RowInv, ItemTypeOK, Phase, Mounted, AtRest
  <2>2. \A x \in Entity \ {e} : Phase(x)' = Phase(x)
    BY <1>5, PhaseFrame DEF Decoded, RowInv, ItemTypeOK
  <2> QED BY <1>5, <1>a, <2>1, <2>2 DEF Decoded
<1>6. ASSUME NEW e \in Entity, SettleRow(e) PROVE [Promise!Next]_(Promise!vars)
  <2>1. P' = [P EXCEPT ![e] = Phase(e)']
    BY <1>6, PhaseMove DEF SettleRow, RowInv, ItemTypeOK
  <2>2. CASE ~Mounted(e)
    <3>1. life[e] # "none"
      BY <1>6 DEF SettleRow, RowInv
    <3>2. Phase(e)' = Phase(e)
      BY <1>6, <2>2, <3>1 DEF SettleRow, RowInv, ItemTypeOK, Phase, Mounted
    <3> QED BY <1>6, <2>1, <2>2, <3>2 DEF SettleRow, SetStatus, Promise!vars
  <2>3. CASE Mounted(e) /\ imgEvent[e] = "load"
    <3>1. Phase(e) = "loading" /\ Phase(e)' = "shown"
      BY <1>6, <2>3 DEF SettleRow, RowInv, ItemTypeOK, Phase, Mounted, AtRest
    <3>2. Promise!Show(e)
      BY <1>6, <2>1, <2>3, <3>1 DEF SettleRow, SetStatus, Promise!Show, Promise!Becomes
    <3> QED BY <3>2 DEF Promise!Next
  <2>4. CASE Mounted(e) /\ imgEvent[e] = "error"
    <3>1. Phase(e) = "loading" /\ Phase(e)' = "failed"
      BY <1>6, <2>4 DEF SettleRow, RowInv, ItemTypeOK, Phase, Mounted, AtRest
    <3>2. Promise!Fail(e)
      BY <1>6, <2>1, <2>4, <3>1 DEF SettleRow, SetStatus, Promise!Fail, Promise!Becomes
    <3> QED BY <3>2 DEF Promise!Next
  <2> QED BY <1>6, <2>2, <2>3, <2>4 DEF SettleRow, RowInv, ItemTypeOK
<1>7. ASSUME NEW e \in Entity, Destroy(e) PROVE Promise!Next
  <2>1. P' = [P EXCEPT ![e] = Phase(e)']
    BY <1>7, PhaseMove DEF Destroy, RowInv, ItemTypeOK
  <2>2. /\ Phase(e) \in {"empty", "loading", "shown", "failed"}
        /\ Phase(e)' = "closed"
    BY <1>7 DEF Destroy, RowInv, ItemTypeOK, Phase, Mounted, AtRest
  <2>3. Promise!Close(e)
    BY <1>7, <2>1, <2>2 DEF Promise!Close, Promise!Becomes, Destroy
  <2> QED BY <2>3 DEF Promise!Next
<1> QED BY <1>1, <1>2, <1>3, <1>4, <1>5, <1>6, <1>7 DEF ItemNext

\* The rows implement RowPromise, for any number of rows and of sources.
THEOREM RowsKeepPromise == ItemSpec => KeepsRowPromise
<1>1. ItemInit({}) => RowInv
  BY RowInvInit
<1> QED
  BY <1>1, RowInvStep, PromiseInit, PromiseStep, PTL
     DEF ItemSpec, KeepsRowPromise, Promise!Spec
=============================================================================
