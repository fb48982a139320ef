----------------------------- MODULE AppProofs -----------------------------
(***************************************************************************)
(* Proofs about the application: what holds of the list, the timers and    *)
(* the canvas for any number of rows, sources, settings and timers.        *)
(***************************************************************************)
EXTENDS App, PreviewProofs

-----------------------------------------------------------------------------
(* The rows inside the application. *)

\* Every step of the application is a step of the rows or leaves them alone.
LEMMA NextRows == images \in Seq(Entity) /\ [Next]_vars => [ItemNext]_itemVars
<1> SUFFICES ASSUME images \in Seq(Entity), [Next]_vars PROVE [ItemNext]_itemVars
  OBVIOUS
<1>1. CASE UNCHANGED vars
  BY <1>1 DEF vars, itemVars
<1>2. CASE UserStep
  <2>1. ASSUME NEW e \in Entity, handleAddInput(e) \/ RowInput(e) PROVE ItemNext
    BY <2>1 DEF handleAddInput, RowInput, ItemNext
  <2>2. ASSUME NEW i \in 1 .. Len(images), handleClose(i)
        PROVE  ItemNext
    <3>1. images[i] \in Entity
      BY ElementOfSeq
    <3> QED BY <2>2, <3>1 DEF handleClose, ItemNext
  <2>3. ASSUME NEW i \in 1 .. Len(images), NEW d \in {-1, 1}, handleMove(i, d)
        PROVE  UNCHANGED itemVars
    BY <2>3 DEF handleMove, itemVars
  <2>4. ASSUME NEW p \in Padding, handlePaddingChange(p) PROVE UNCHANGED itemVars
    BY <2>4 DEF handlePaddingChange, RefreshLater, itemVars
  <2>5. ASSUME NEW c \in Color, handleBackgroundChange(c) PROVE UNCHANGED itemVars
    BY <2>5 DEF handleBackgroundChange, RefreshLater, itemVars
  <2>6. ASSUME handleExport PROVE UNCHANGED itemVars
    BY <2>6 DEF handleExport, itemVars
  <2> QED BY <1>2, <2>1, <2>2, <2>3, <2>4, <2>5, <2>6 DEF UserStep
<1>3. ASSUME NEW e \in Entity, RowAnswer(e) \/ RowDecoded(e) \/ ImageEvent(e)
      PROVE  ItemNext
  BY <1>3 DEF RowAnswer, RowDecoded, ImageEvent, ItemNext
<1>4. CASE RunTimer
  BY <1>4 DEF RunTimer, RunRefresh, RunPaint, itemVars
<1> QED BY <1>1, <1>2, <1>3, <1>4 DEF Next

-----------------------------------------------------------------------------
(* Lists: what splice and the swap of handleMove do to one. *)

\* splice(i, 1) gives a list with the same entries in the same order, less the i-th.
LEMMA RemoveAtProperties ==
  ASSUME NEW S, NEW s \in Seq(S), NEW i \in 1 .. Len(s)
  PROVE  /\ RemoveAt(s, i) \in Seq(S)
         /\ Len(RemoveAt(s, i)) = Len(s) - 1
         /\ \A j \in 1 .. Len(s) - 1 :
              RemoveAt(s, i)[j] = IF j < i THEN s[j] ELSE s[j + 1]
<1> DEFINE left == SubSeq(s, 1, i - 1)
           right == SubSeq(s, i + 1, Len(s))
<1>0. Len(s) \in Nat /\ \A k \in 1 .. Len(s) : s[k] \in S
  BY LenProperties
<1>1. /\ left \in Seq(S) /\ Len(left) = i - 1
      /\ \A j \in 1 .. i - 1 : left[j] = s[j]
  BY <1>0, SubSeqProperties
<1>2. /\ right \in Seq(S) /\ Len(right) = Len(s) - i
      /\ \A j \in 1 .. Len(s) - i : right[j] = s[i + j]
  BY <1>0, SubSeqProperties
<1> HIDE DEF left, right
<1>3. /\ left \o right \in Seq(S)
      /\ Len(left \o right) = Len(left) + Len(right)
      /\ \A j \in 1 .. Len(left) + Len(right) :
           (left \o right)[j] = IF j <= Len(left) THEN left[j] ELSE right[j - Len(left)]
  BY <1>1, <1>2, ConcatProperties
<1>4. RemoveAt(s, i) = left \o right
  BY DEF RemoveAt, left, right
<1>5. Len(RemoveAt(s, i)) = Len(s) - 1
  BY <1>0, <1>1, <1>2, <1>3, <1>4
<1>6. ASSUME NEW j \in 1 .. Len(s) - 1
      PROVE  RemoveAt(s, i)[j] = IF j < i THEN s[j] ELSE s[j + 1]
  <2>1. CASE j < i
    BY <1>0, <1>1, <1>2, <1>3, <1>4, <2>1
  <2>2. CASE j >= i
    <3>1. /\ j - (i - 1) \in 1 .. Len(s) - i
          /\ i + (j - (i - 1)) = j + 1
          /\ j \in 1 .. Len(left) + Len(right)
          /\ ~(j <= Len(left))
      BY <1>0, <1>1, <1>2, <2>2
    <3>2. RemoveAt(s, i)[j] = right[j - (i - 1)]
      BY <1>1, <1>3, <1>4, <3>1
    <3>3. right[j - (i - 1)] = s[j + 1]
      BY <1>2, <3>1
    <3> QED BY <1>0, <2>2, <3>2, <3>3
  <2> QED BY <1>0, <2>1, <2>2
<1> QED BY <1>3, <1>4, <1>5, <1>6

-----------------------------------------------------------------------------
(* The list of rows. *)

ListInv ==
  /\ images \in Seq(Entity)
  /\ ListedOnce

\* The constructor lists different entities, each of them live.
LEMMA ListInvInit == Init => ListInv
<1> SUFFICES ASSUME Init PROVE ListInv
  OBVIOUS
<1>1. images = Initial /\ images \in Seq(Entity)
  BY InitialAssumption DEF Init
<1>2. \A e \in Entity : Mounted(e) <=> e \in ToSet(images)
  BY <1>1 DEF Init, ItemInit, Mounted
<1> QED BY <1>1, <1>2, InitialAssumption DEF ListInv, ListedOnce

\* Adding, closing and moving rows keep the list and the lives in agreement; no
\* other handler touches either.
LEMMA ListInvStep == RowInv /\ ListInv /\ [Next]_vars => ListInv'
<1> SUFFICES ASSUME RowInv, ListInv, [Next]_vars PROVE ListInv'
  OBVIOUS
<1>a. /\ Len(images) \in Nat
      /\ \A i \in 1 .. Len(images) : images[i] \in Entity
      /\ \A e : e \in ToSet(images) <=> \E i \in 1 .. Len(images) : e = images[i]
  BY LenProperties, ListFinite DEF ListInv
<1>b. ASSUME images' = images, life' = life PROVE ListInv'
  BY <1>b DEF ListInv, ListedOnce, Mounted
<1>c. ASSUME images' \in Seq(Entity)
      PROVE  \A e : e \in ToSet(images)' <=> \E i \in 1 .. Len(images') : e = images'[i]
  BY <1>c, ListFinite
<1>1. CASE UNCHANGED vars
  BY <1>1, <1>b DEF vars, itemVars, appVars
<1>2. ASSUME NEW e \in Entity, handleAddInput(e) PROVE ListInv'
  <2>1. /\ life[e] = "none" /\ life' = [life EXCEPT ![e] = "live"]
        /\ images' = Append(images, e)
    BY <1>2 DEF handleAddInput, Construct
  <2>2. /\ images' \in Seq(Entity)
        /\ Len(images') = Len(images) + 1
        /\ \A i \in 1 .. Len(images) : images'[i] = images[i]
        /\ images'[Len(images) + 1] = e
    BY <2>1, AppendProperties DEF ListInv
  <2>3. \A i \in 1 .. Len(images) : images[i] # e
    BY <1>a, <2>1 DEF ListInv, ListedOnce, Mounted
  <2>4. \A i, j \in 1 .. Len(images') : images'[i] = images'[j] => i = j
    BY <1>a, <2>2, <2>3 DEF ListInv, ListedOnce
  <2>5. \A x \in Entity : Mounted(x)' <=> x \in ToSet(images)'
    BY <1>a, <1>c, <2>1, <2>2 DEF ListInv, ListedOnce, Mounted, RowInv, ItemTypeOK
  <2> QED BY <2>2, <2>4, <2>5 DEF ListInv, ListedOnce
<1>3. ASSUME NEW k \in 1 .. Len(images), handleClose(k) PROVE ListInv'
  <2>1. /\ images[k] \in Entity
        /\ life' = [life EXCEPT ![images[k]] = "closed"]
        /\ images' = RemoveAt(images, k)
    BY <1>a, <1>3 DEF handleClose, Destroy
  <2>2. /\ images' \in Seq(Entity)
        /\ Len(images') = Len(images) - 1
        /\ \A j \in 1 .. Len(images) - 1 :
             images'[j] = IF j < k THEN images[j] ELSE images[j + 1]
    BY <2>1, RemoveAtProperties DEF ListInv
  <2>3. \A i, j \in 1 .. Len(images') : images'[i] = images'[j] => i = j
    <3> DEFINE old(i) == IF i < k THEN i ELSE i + 1
    <3>1. \A i \in 1 .. Len(images') :
            old(i) \in 1 .. Len(images) /\ images'[i] = images[old(i)]
      BY <1>a, <2>2
    <3>2. \A i, j \in 1 .. Len(images') : old(i) = old(j) => i = j
      BY <1>a, <2>2
    <3> HIDE DEF old
    <3> QED BY <3>1, <3>2 DEF ListInv, ListedOnce
  <2>4. \A x \in Entity :
          (\E i \in 1 .. Len(images') : x = images'[i]) <=>
          (\E i \in 1 .. Len(images) : x = images[i] /\ i # k)
    <3> TAKE x \in Entity
    <3>1. ASSUME NEW i \in 1 .. Len(images'), x = images'[i]
          PROVE  \E j \in 1 .. Len(images) : x = images[j] /\ j # k
      BY <1>a, <2>2, <3>1
    <3>2. ASSUME NEW i \in 1 .. Len(images), x = images[i], i # k
          PROVE  \E j \in 1 .. Len(images') : x = images'[j]
      <4>1. CASE i < k
        BY <1>a, <2>2, <3>2, <4>1
      <4>2. CASE i > k
        <5>1. i - 1 \in 1 .. Len(images') /\ images'[i - 1] = images[i]
          BY <1>a, <2>2, <4>2
        <5> QED BY <5>1, <3>2
      <4> QED BY <1>a, <3>2, <4>1, <4>2
    <3> QED BY <3>1, <3>2
  <2>5. \A x \in Entity : Mounted(x)' <=> x \in ToSet(images)'
    <3>1. \A x \in Entity : Mounted(x)' <=> Mounted(x) /\ x # images[k]
      BY <2>1 DEF Mounted, RowInv, ItemTypeOK
    <3>2. \A i \in 1 .. Len(images) : images[i] # images[k] <=> i # k
      BY DEF ListInv, ListedOnce
    <3> QED BY <1>a, <1>c, <2>2, <2>4, <3>1, <3>2 DEF ListInv, ListedOnce
  <2> QED BY <2>2, <2>3, <2>5 DEF ListInv, ListedOnce
<1>4. ASSUME NEW k \in 1 .. Len(images), NEW d \in {-1, 1}, handleMove(k, d)
      PROVE  ListInv'
  <2>1. /\ k + d \in 1 .. Len(images)
        /\ images' = [images EXCEPT ![k] = images[k + d], ![k + d] = images[k]]
        /\ life' = life
    BY <1>4 DEF handleMove, itemVars
  <2>2. /\ images' \in Seq(Entity)
        /\ Len(images') = Len(images)
        /\ \A j \in 1 .. Len(images) :
             images'[j] = IF j = k THEN images[k + d]
                          ELSE IF j = k + d THEN images[k] ELSE images[j]
    <3> DEFINE first == [images EXCEPT ![k] = images[k + d]]
    <3>1. /\ first \in Seq(Entity) /\ Len(first) = Len(images)
          /\ \A j \in 1 .. Len(images) : first[j] = IF j = k THEN images[k + d] ELSE images[j]
      BY <1>a, <2>1, ExceptSeq DEF ListInv
    <3>2. images' = [first EXCEPT ![k + d] = images[k]]
      BY <2>1
    <3> HIDE DEF first
    <3>3. /\ images' \in Seq(Entity) /\ Len(images') = Len(first)
          /\ \A j \in 1 .. Len(first) : images'[j] = IF j = k + d THEN images[k] ELSE first[j]
      <4>1. k + d \in 1 .. Len(first) /\ images[k] \in Entity
        BY <1>a, <2>1, <3>1
      <4> QED BY <3>1, <3>2, <4>1, ExceptSeq
    <3>4. k # k + d /\ Len(images') = Len(images)
      BY <1>a, <3>1, <3>3
    <3>5. ASSUME NEW j \in 1 .. Len(images)
          PROVE  images'[j] = IF j = k THEN images[k + d]
                              ELSE IF j = k + d THEN images[k] ELSE images[j]
      BY <3>1, <3>3, <3>4
    <3> QED BY <3>3, <3>4, <3>5
  <2>3. \A i, j \in 1 .. Len(images') : images'[i] = images'[j] => i = j
    BY <1>a, <2>1, <2>2 DEF ListInv, ListedOnce
  <2>4. \A x : (\E i \in 1 .. Len(images') : x = images'[i]) <=>
               (\E i \in 1 .. Len(images) : x = images[i])
    BY <1>a, <2>1, <2>2
  <2>5. \A x \in Entity : Mounted(x)' <=> x \in ToSet(images)'
    <3>1. \A x \in Entity : Mounted(x)' <=> x \in ToSet(images)
      BY <2>1 DEF ListInv, ListedOnce, Mounted
    <3>2. \A x : x \in ToSet(images)' <=> x \in ToSet(images)
      BY <1>a, <1>c, <2>2, <2>4
    <3> QED BY <3>1, <3>2
  <2> QED BY <2>2, <2>3, <2>5 DEF ListInv, ListedOnce
<1>5. ASSUME NEW e \in Entity, RowInput(e) \/ RowAnswer(e) \/ RowDecoded(e) \/ ImageEvent(e)
      PROVE  ListInv'
  <2>1. images' = images
    BY <1>5 DEF RowInput, RowAnswer, RowDecoded, ImageEvent, appVars
  <2>2. life' = life
    BY <1>5 DEF RowInput, Input, EnterUrl, RejectUrl, ChooseFile, RowAnswer, Answer,
                UrlAnswered, UrlFailed, FileRead, FileUnreadable, RowDecoded, Decoded,
                ImageEvent, SettleRow
  <2> QED BY <2>1, <2>2, <1>b
<1>6. ASSUME NEW p \in Padding, handlePaddingChange(p) PROVE ListInv'
  BY <1>6, <1>b DEF handlePaddingChange, RefreshLater, itemVars
<1>7. ASSUME NEW c \in Color, handleBackgroundChange(c) PROVE ListInv'
  BY <1>7, <1>b DEF handleBackgroundChange, RefreshLater, itemVars
<1>8. ASSUME handleExport PROVE ListInv'
  BY <1>8, <1>b DEF handleExport, appVars, itemVars
<1>9. CASE RunTimer
  BY <1>9, <1>b DEF RunTimer, RunRefresh, RunPaint, appVars, itemVars
<1> QED
  BY <1>1, <1>2, <1>3, <1>4, <1>5, <1>6, <1>7, <1>8, <1>9 DEF Next, UserStep

-----------------------------------------------------------------------------
(* The kinds of steps, as the preview sees them. *)

\* The canvas, the timers and the settings stay.
KeepsPreview ==
  /\ UNCHANGED <<canvas, timers, errors, padding, bgColor>>
  /\ download' \in {download, Nothing}

\* A setting changes and a refresh is left to a timer.
ChangesSettings ==
  /\ padding' \in Padding
  /\ bgColor' \in Color
  /\ timers' = Append(timers, RefreshTimer)
  /\ download' = Nothing
  /\ UNCHANGED <<canvas, errors, images, itemVars>>

\* draw is called, behind the timers `waiting`.
Draws(waiting, export) ==
  /\ StartDraw(waiting, images, padding, bgColor, export)
  /\ download' = Nothing
  /\ UNCHANGED <<errors, padding, bgColor, blob, img>>

\* What a step does to the preview is one of four things: it draws, it paints, it
\* leaves a redraw to a timer, or it leaves the preview alone.
LEMMA StepKinds ==
  ASSUME [Next]_vars, padding \in Padding, bgColor \in Color
  PROVE  \/ KeepsPreview
         \/ ChangesSettings
         \/ \E export \in BOOLEAN : Draws(timers, export)
         \/ NextTimer("refresh") /\ Draws(Tail(timers), FALSE)
         \/ RunPaint
<1>1. CASE UNCHANGED vars
  BY <1>1 DEF vars, previewVars, appVars, KeepsPreview
<1>2. ASSUME NEW e \in Entity, \/ handleAddInput(e) \/ RowInput(e)
                               \/ RowAnswer(e) \/ RowDecoded(e)
      PROVE  KeepsPreview
  BY <1>2 DEF handleAddInput, RowInput, RowAnswer, RowDecoded, PreviewIdle, NoDownload,
              appVars, KeepsPreview
<1>3. ASSUME NEW i \in 1 .. Len(images), handleClose(i) PROVE KeepsPreview
  BY <1>3 DEF handleClose, PreviewIdle, NoDownload, KeepsPreview
<1>4. ASSUME NEW i \in 1 .. Len(images), NEW d \in {-1, 1}, handleMove(i, d)
      PROVE  Draws(timers, FALSE)
  BY <1>4 DEF handleMove, handleRefresh, NoDownload, itemVars, Draws
<1>5. ASSUME NEW p \in Padding, NEW c \in Color,
             handlePaddingChange(p) \/ handleBackgroundChange(c)
      PROVE  ChangesSettings
  BY <1>5 DEF handlePaddingChange, handleBackgroundChange, RefreshLater, NoDownload,
              ChangesSettings
<1>6. ASSUME handleExport PROVE Draws(timers, TRUE)
  BY <1>6 DEF handleExport, NoDownload, itemVars, appVars, Draws
<1>7. ASSUME NEW e \in Entity, ImageEvent(e) PROVE Draws(timers, FALSE)
  BY <1>7 DEF ImageEvent, SettleRow, handleRefresh, NoDownload, appVars, Draws
<1>8. ASSUME RunRefresh PROVE NextTimer("refresh") /\ Draws(Tail(timers), FALSE)
  BY <1>8 DEF RunRefresh, handleRefresh, NoDownload, itemVars, appVars, Draws
<1> QED
  BY <1>1, <1>2, <1>3, <1>4, <1>5, <1>6, <1>7, <1>8 DEF Next, UserStep, RunTimer

-----------------------------------------------------------------------------
(* Type correctness. *)

SettingsInv == padding \in Padding /\ bgColor \in Color

\* What is written to the canvas and the timers by draw has the right type.
LEMMA DrawType ==
  ASSUME RowInv, ListInv, SettingsInv, PreviewTypeOK,
         NEW waiting \in Seq(Timer), NEW export \in BOOLEAN, Draws(waiting, export)
  PROVE  canvas' \in Canvas /\ timers' \in Seq(Timer)
<1> DEFINE h == Height(images, padding)
<1>1. h \in Int \cup {NaN}
  BY HeightType, PaddingAssumption DEF ListInv, SettingsInv
<1> HIDE DEF h
<1>2. Blank(h) \in Canvas
  BY <1>1 DEF Blank, Canvas
<1>3. PaintTimer(h, padding, bgColor, export) \in Timer
  BY <1>1 DEF PaintTimer, Timer, SettingsInv
<1>4. /\ canvas' \in {canvas, Blank(h)}
      /\ timers' = Append(waiting, PaintTimer(h, padding, bgColor, export))
  BY DEF Draws, StartDraw, h
<1> QED BY <1>2, <1>3, <1>4, AppendProperties DEF PreviewTypeOK

\* There is one message, shown once or not at all.
MessageInv == errors \in {<<>>, <<TooTall>>}

\* Reporting the message leaves it shown once, whether it was there or not.
LEMMA AppendedOnce == MessageInv => Appended(errors, TooTall) = <<TooTall>>
<1>1. CASE errors = <<>>
  BY <1>1 DEF Appended, ToSet
<1>2. CASE errors = <<TooTall>>
  <2>1. TooTall \in ToSet(errors)
    BY <1>2 DEF ToSet
  <2>2. Len(errors) = 1 /\ errors[1] = TooTall
    BY <1>2
  <2>3. (CHOOSE i \in 1 .. Len(errors) : errors[i] = TooTall) = 1
    BY <2>2
  <2>4. RemoveAt(errors, 1) = <<>>
    <3>1. errors \in Seq({TooTall}) /\ 1 \in 1 .. Len(errors)
      BY <1>2, <2>2
    <3>2. /\ RemoveAt(errors, 1) \in Seq({TooTall})
          /\ Len(RemoveAt(errors, 1)) = Len(errors) - 1
      BY <3>1, RemoveAtProperties
    <3>3. Len(RemoveAt(errors, 1)) = 0
      BY <2>2, <3>2
    <3> QED BY <3>2, <3>3, EmptySeq
  <2>5. Appended(errors, TooTall) = <<TooTall>> \o <<>>
    BY <2>1, <2>3, <2>4 DEF Appended
  <2> QED BY <2>5
<1> QED BY <1>1, <1>2 DEF MessageInv

\* What a paint leaves on the canvas and in the messages has the right type.
LEMMA PaintType ==
  ASSUME RowInv, ListInv, PreviewTypeOK, MessageInv, RunPaint
  PROVE  PreviewTypeOK' /\ MessageInv'
<1> DEFINE t == Head(timers)
<1>1. /\ timers # <<>> /\ t \in Timer /\ t.kind = "paint"
      /\ timers' = Tail(timers) /\ timers' \in Seq(Timer)
  BY HeadTailProperties DEF RunPaint, Paint, NextTimer, PreviewTypeOK
<1>2. t.height \in Int \cup {NaN} /\ t.padding \in Int /\ t.bg \in Color
  <2>1. t # RefreshTimer
    BY <1>1 DEF RefreshTimer
  <2>2. t \in [kind : {"paint"}, height : Int \cup {NaN}, padding : Padding,
              bg : Color, export : BOOLEAN]
    BY <1>1, <2>1 DEF Timer
  <2> QED BY <2>2, PaddingAssumption
<1>3. Pictures(images, t.padding) \in SUBSET [pic : Source, top : Int]
  BY <1>2, PicturesType DEF ListInv
<1>a. Remaining(t.height) \in SUBSET [pic : Source, top : Int]
  BY DEF Remaining, PreviewTypeOK, Canvas
<1>4. Painted(t, images) \in Canvas
  BY <1>2, <1>3, <1>a DEF Painted, Canvas, PreviewTypeOK
<1>5. canvas' = Painted(t, images) /\ download' \in {canvas', Nothing}
  BY DEF RunPaint, Paint
<1>6. MessageInv'
  BY AppendedOnce DEF RunPaint, Paint, Report, MessageInv
<1>7. errors' \in Seq({TooTall})
  <2>1. <<>> \in Seq({TooTall}) /\ <<TooTall>> \in Seq({TooTall})
    OBVIOUS
  <2> QED BY <1>6, <2>1 DEF MessageInv
<1> QED BY <1>1, <1>4, <1>5, <1>6, <1>7 DEF PreviewTypeOK

\* The part of the invariant that types, the list and the messages need.
BaseInv == RowInv /\ ListInv /\ SettingsInv /\ PreviewTypeOK /\ MessageInv

\* The page starts with it.
LEMMA BaseInvInit == Init => BaseInv
<1> SUFFICES ASSUME Init PROVE BaseInv
  OBVIOUS
<1>1. RowInv
  BY RowInvInit DEF Init
<1>2. SettingsInv
  BY DefaultsAssumption DEF Init, SettingsInv
<1>3. PreviewTypeOK /\ MessageInv
  BY DEF Init, PreviewInit, PreviewTypeOK, MessageInv, Blank, Canvas
<1> QED BY <1>1, <1>2, <1>3, ListInvInit DEF BaseInv

\* Every callback keeps it.
LEMMA BaseInvStep == BaseInv /\ [Next]_vars => BaseInv'
<1> SUFFICES ASSUME BaseInv, [Next]_vars PROVE BaseInv'
  OBVIOUS
<1>1. RowInv' /\ ListInv'
  BY NextRows, RowInvStep, ListInvStep DEF BaseInv, ListInv
<1>2. CASE KeepsPreview
  BY <1>1, <1>2 DEF KeepsPreview, BaseInv, SettingsInv, PreviewTypeOK, MessageInv
<1>3. CASE ChangesSettings
  <2>1. timers' \in Seq(Timer)
    BY <1>3, AppendProperties DEF ChangesSettings, BaseInv, PreviewTypeOK, Timer
  <2> QED
    BY <1>1, <1>3, <2>1
       DEF ChangesSettings, BaseInv, SettingsInv, PreviewTypeOK, MessageInv
<1>4. ASSUME NEW waiting \in Seq(Timer), NEW export \in BOOLEAN, Draws(waiting, export)
      PROVE  BaseInv'
  <2>1. canvas' \in Canvas /\ timers' \in Seq(Timer)
    BY <1>4, DrawType DEF BaseInv
  <2> QED
    BY <1>1, <1>4, <2>1 DEF Draws, BaseInv, SettingsInv, PreviewTypeOK, MessageInv
<1>5. CASE RunPaint
  BY <1>1, <1>5, PaintType DEF BaseInv, RunPaint, appVars, SettingsInv
<1>6. ASSUME NextTimer("refresh") PROVE Tail(timers) \in Seq(Timer)
  BY <1>6, HeadTailProperties DEF NextTimer, BaseInv, PreviewTypeOK
<1>7. timers \in Seq(Timer)
  BY DEF BaseInv, PreviewTypeOK
<1> QED BY <1>2, <1>3, <1>4, <1>5, <1>6, <1>7, StepKinds DEF BaseInv, SettingsInv

\* The state of the application keeps its type.
THEOREM AppTypes == Spec => []TypeOK
<1>1. BaseInv => TypeOK
  BY DEF BaseInv, RowInv, ListInv, SettingsInv, TypeOK
<1> QED BY <1>1, BaseInvInit, BaseInvStep, PTL DEF Spec

\* Every row is listed once, exactly while its entity is live, whatever rows are
\* added, closed and moved.
THEOREM RowsListedOnce == Spec => []ListedOnce
<1>1. BaseInv => ListedOnce
  BY DEF BaseInv, ListInv
<1> QED BY <1>1, BaseInvInit, BaseInvStep, PTL DEF Spec

-----------------------------------------------------------------------------
(* The layout depends on the list, the images and the padding alone. *)

\* The height and the test for broken images only look at the ready images.
LEMMA SameHeight ==
  ASSUME blob' = blob, img' = img, padding' = padding,
         ReadyIn(ToSet(images))' = ReadyIn(ToSet(images))
  PROVE  /\ Height(images, padding)' = Height(images, padding)
         /\ Broken(images)' = Broken(images)
<1>1. Broken(images)' = Broken(images)
  BY DEF Broken
<1> DEFINE S == ReadyIn(ToSet(images))
<1>2. Offset(S, padding)' = Offset(S, padding)
  BY DEF Offset, PixelRows
<1> QED BY <1>1, <1>2 DEF Height

\* So do the pictures, and whether a broken image stops the paint.
LEMMA SameLayout ==
  ASSUME blob' = blob, img' = img, padding' = padding, images' = images
  PROVE  /\ Height(images, padding)' = Height(images, padding)
         /\ Broken(images)' = Broken(images)
         /\ Pictures(images, padding)' = Pictures(images, padding)
<1>1. ReadyIn(ToSet(images))' = ReadyIn(ToSet(images))
  BY DEF ReadyIn, ready, complete
<1>2. Pictures(images, padding)' = Pictures(images, padding)
  BY DEF Pictures, Offset, PixelRows, ReadyIn, Above, DrawnAt, ready, complete
<1> QED BY <1>1, <1>2, SameHeight

\* A new row has no image: it changes nothing of what there is to draw.
LEMMA GrownLayout ==
  ASSUME images \in Seq(Entity), blob' = blob, img' = img, padding' = padding,
         NEW e \in Entity, images' = Append(images, e), ~ready(e)
  PROVE  /\ Height(images, padding)' = Height(images, padding)
         /\ Broken(images)' = Broken(images)
         /\ Pictures(images, padding)' = Pictures(images, padding)
<1>1. /\ Len(images) \in Nat /\ Len(images') = Len(images) + 1
      /\ images' \in Seq(Entity)
      /\ \A i \in 1 .. Len(images) : images'[i] = images[i]
      /\ images'[Len(images) + 1] = e
  BY LenProperties, AppendProperties
<1>2. \A x : ready(x)' = ready(x)
  BY DEF ready, complete
<1>3. /\ ToSet(images) = {images[i] : i \in 1 .. Len(images)}
      /\ ToSet(images)' = {images'[i] : i \in 1 .. Len(images')}
  BY <1>1, ListFinite
<1>4. ToSet(images)' = ToSet(images) \cup {e}
  BY <1>1, <1>3
<1>5. ReadyIn(ToSet(images))' = ReadyIn(ToSet(images))
  BY <1>2, <1>4 DEF ReadyIn
<1>6. DrawnAt(images)' = DrawnAt(images)
  <2>1. ASSUME NEW i \in 1 .. Len(images)
        PROVE  i \in DrawnAt(images)' <=> i \in DrawnAt(images)
    BY <1>1, <1>2 DEF DrawnAt
  <2>2. Len(images) + 1 \notin DrawnAt(images)'
    BY <1>1, <1>2 DEF DrawnAt
  <2>3. /\ DrawnAt(images) \subseteq 1 .. Len(images)
        /\ DrawnAt(images)' \subseteq 1 .. Len(images) + 1
    BY <1>1 DEF DrawnAt
  <2>4. \A i \in 1 .. Len(images) + 1 : i \in 1 .. Len(images) \/ i = Len(images) + 1
    BY <1>1
  <2> HIDE DEF DrawnAt
  <2> QED BY <2>1, <2>2, <2>3, <2>4
<1>7. ASSUME NEW i \in DrawnAt(images)
      PROVE  /\ images'[i] = images[i]
             /\ Offset(ReadyIn(Above(images, i)), padding)'
                  = Offset(ReadyIn(Above(images, i)), padding)
  <2>1. i \in 1 .. Len(images)
    BY DEF DrawnAt
  <2>2. Above(images, i)' = Above(images, i)
    BY <1>1, <2>1 DEF Above
  <2>3. ReadyIn(Above(images, i))' = ReadyIn(Above(images, i))
    BY <1>2, <2>2 DEF ReadyIn
  <2> QED BY <1>1, <2>1, <2>3 DEF Offset, PixelRows
<1>8. Pictures(images, padding)' = Pictures(images, padding)
  BY <1>6, <1>7 DEF Pictures
<1> QED BY <1>5, <1>8, SameHeight

-----------------------------------------------------------------------------
(* No redraw is forgotten. *)

AllAtRest == \A e \in Entity : AtRest(e)

\* The newest timer will draw the list of now with the settings of now.
NewestDraws ==
  LET t == timers[Len(timers)] IN
  \/ t.kind = "refresh"
  \/ /\ t.kind = "paint"
     /\ t.height = Height(images, padding)
     /\ t.padding = padding
     /\ t.bg = bgColor
     /\ canvas.height = t.height

\* The canvas and the message are those of the list.
ShowsAndWarns ==
  /\ ShowsList
  /\ errors # <<>> <=> Height(images, padding) - padding > MaxHeight

\* Once no image is at work, the canvas shows the list, or a timer that will make
\* it do so is the newest one.  The guard is needed: a late answer or a close
\* changes the list without a draw, and the event of the image brings it.
RedrawDue ==
  AllAtRest =>
    IF timers = <<>> THEN Broken(images) \/ ShowsAndWarns ELSE NewestDraws

\* The empty canvas shows the list of rows without an image.
LEMMA RedrawDueInit == Init => RedrawDue
<1> SUFFICES ASSUME Init PROVE RedrawDue
  OBVIOUS
<1>1. \A e \in ToSet(images) : ~ready(e)
  <2>1. ToSet(images) \subseteq Entity
    BY InitialAssumption, ListFinite DEF Init
  <2> QED BY <2>1 DEF Init, ItemInit, ready
<1>2. ReadyIn(ToSet(images)) = {}
  BY <1>1 DEF ReadyIn
<1>3. Height(images, padding) = 0
  BY <1>2 DEF Height, Broken
<1>4. DrawnAt(images) = {}
  BY <1>1, InitialAssumption, ListFinite DEF DrawnAt, Init
<1>5. Pictures(images, padding) = {}
  BY <1>4 DEF Pictures
<1>6. timers = <<>> /\ canvas.height = 0 /\ canvas.pictures = {} /\ errors = <<>>
  BY DEF Init, PreviewInit, Blank
<1>7. ~(0 - padding > MaxHeight)
  BY MaxHeightAssumption DEF Init
<1> QED BY <1>3, <1>5, <1>6, <1>7 DEF RedrawDue, ShowsAndWarns, ShowsList

\* A step that neither draws nor paints leaves the redraw due, or sets an image
\* to work.
LEMMA RedrawDueKept ==
  ASSUME RedrawDue, UNCHANGED <<canvas, timers, errors, padding, bgColor>>,
         /\ Height(images, padding)' = Height(images, padding)
         /\ Broken(images)' = Broken(images)
         /\ Pictures(images, padding)' = Pictures(images, padding),
         AllAtRest' => AllAtRest
  PROVE  RedrawDue'
<1>1. ShowsAndWarns' <=> ShowsAndWarns
  BY DEF ShowsAndWarns, ShowsList
<1>2. NewestDraws' <=> NewestDraws
  BY DEF NewestDraws
<1> QED BY <1>1, <1>2 DEF RedrawDue

\* A draw makes its own timer the newest one.
LEMMA RedrawDueDrawn ==
  ASSUME BaseInv, NEW waiting \in Seq(Timer), NEW export \in BOOLEAN,
         Draws(waiting, export),
         ReadyIn(ToSet(images))' = ReadyIn(ToSet(images))
  PROVE  RedrawDue'
<1> DEFINE h == Height(images, padding)
           t == PaintTimer(h, padding, bgColor, export)
<1>1. h \in Int \cup {NaN}
  BY HeightType, PaddingAssumption DEF BaseInv, ListInv, SettingsInv
<1>2. Height(images, padding)' = h
  BY SameHeight DEF Draws
<1> HIDE DEF h
<1>3. t \in Timer
  BY <1>1 DEF PaintTimer, Timer, BaseInv, SettingsInv
<1>4. timers' = Append(waiting, t) /\ canvas'.height = h
  BY DEF Draws, StartDraw, Blank, h
<1>5. timers' # <<>> /\ timers'[Len(timers')] = t
  BY <1>3, <1>4, AppendProperties
<1>6. t.kind = "paint" /\ t.height = h /\ t.padding = padding /\ t.bg = bgColor
  BY DEF PaintTimer
<1>7. padding' = padding /\ bgColor' = bgColor
  BY DEF Draws
<1> QED BY <1>2, <1>4, <1>5, <1>6, <1>7 DEF RedrawDue, NewestDraws

\* clearRect over the whole height of the canvas leaves no row of a picture.
LEMMA WipedClean ==
  ASSUME NEW height \in Nat, canvas.height = height
  PROVE  Remaining(height) = {}
<1>1. BitmapRows(canvas.height) = height
  BY DEF BitmapRows
<1>2. \A row \in 0 .. height - 1 : height # NaN /\ ~(height <= row)
  BY NaNAssumption
<1> QED BY <1>1, <1>2 DEF Remaining

\* The last paint shows what it was set for; an earlier one leaves the newest.
LEMMA RedrawDuePainted ==
  ASSUME BaseInv, RedrawDue, RunPaint PROVE RedrawDue'
<1> DEFINE t == Head(timers)
<1>1. /\ timers \in Seq(Timer) /\ timers # <<>> /\ t.kind = "paint"
      /\ timers' = Tail(timers) /\ canvas' = Painted(t, images)
  BY DEF RunPaint, Paint, NextTimer, BaseInv, PreviewTypeOK
<1>2. /\ Len(timers) \in Nat \ {0} /\ timers' \in Seq(Timer)
      /\ Len(timers') = Len(timers) - 1
      /\ \A i \in 1 .. Len(timers') : timers'[i] = timers[i + 1]
  BY <1>1, HeadTailProperties, EmptySeq
<1>3. UNCHANGED <<images, padding, bgColor, blob, img, imgEvent>>
  BY DEF RunPaint, appVars, itemVars
<1>4. /\ Height(images, padding)' = Height(images, padding)
      /\ Broken(images)' = Broken(images)
      /\ Pictures(images, padding)' = Pictures(images, padding)
  BY <1>3, SameLayout
<1>5. canvas'.height = canvas.height
  BY <1>1 DEF Painted, BaseInv, PreviewTypeOK, Canvas
<1>6. AllAtRest' => AllAtRest
  BY <1>3 DEF AllAtRest, AtRest
<1> SUFFICES ASSUME AllAtRest
             PROVE  IF timers' = <<>> THEN Broken(images)' \/ ShowsAndWarns'
                                      ELSE NewestDraws'
  BY <1>6 DEF RedrawDue
<1>7. NewestDraws
  BY <1>1 DEF RedrawDue
<1>8. CASE timers' # <<>>
  <2>1. Len(timers') \in Nat \ {0}
    BY <1>2, <1>8, EmptySeq
  <2>2. timers'[Len(timers')] = timers[Len(timers)]
    BY <1>2, <2>1
  <2> QED BY <1>3, <1>4, <1>5, <1>7, <1>8, <2>2 DEF NewestDraws
<1>9. CASE timers' = <<>> /\ ~Broken(images)
  <2>1. Len(timers) = 1
    BY <1>2, <1>9, EmptySeq
  <2>2. timers[Len(timers)] = t
    BY <1>1, <2>1
  <2>3. /\ t.height = Height(images, padding) /\ t.padding = padding
        /\ t.bg = bgColor /\ canvas.height = t.height
    BY <1>1, <1>7, <2>2 DEF NewestDraws
  <2>4. t.height # NaN
    BY <1>9, <2>3, HeightType, PaddingAssumption DEF BaseInv, ListInv, SettingsInv
  <2>5. /\ canvas'.pictures = Remaining(t.height) \cup Pictures(images, padding)
        /\ canvas'.filled = t.height /\ canvas'.bg = bgColor
    BY <1>1, <2>3, <2>4 DEF Painted, BaseInv, PreviewTypeOK, Canvas
  <2>a. canvas'.height \in Nat => canvas'.pictures = Pictures(images, padding)
    BY <1>5, <2>3, <2>5, WipedClean
  <2>6. ShowsList'
    BY <1>3, <1>4, <1>5, <2>3, <2>5, <2>a DEF ShowsList
  <2>7. errors' # <<>> <=> t.height - t.padding > MaxHeight
    BY <1>9, <2>4, AppendedOnce DEF RunPaint, Paint, Report, BaseInv
  <2>8. ShowsAndWarns'
    BY <1>3, <1>4, <2>3, <2>6, <2>7 DEF ShowsAndWarns
  <2> QED BY <1>9, <2>8
<1> QED BY <1>4, <1>8, <1>9

\* Every callback keeps the redraw due.
LEMMA RedrawDueStep == BaseInv /\ RedrawDue /\ [Next]_vars => RedrawDue'
<1> SUFFICES ASSUME BaseInv, RedrawDue, [Next]_vars PROVE RedrawDue'
  OBVIOUS
<1>a. /\ RowInv /\ ItemTypeOK /\ images \in Seq(Entity) /\ ListedOnce
      /\ timers \in Seq(Timer) /\ Len(images) \in Nat
  BY LenProperties DEF BaseInv, RowInv, ListInv, PreviewTypeOK
<1>b. ASSUME PreviewIdle, UNCHANGED <<appVars, blob, img, imgEvent>> PROVE RedrawDue'
  <2>1. AllAtRest' => AllAtRest
    BY <1>b DEF AllAtRest, AtRest
  <2> QED BY <1>b, <2>1, SameLayout, RedrawDueKept DEF PreviewIdle, appVars
<1>c. ASSUME blob' = blob, img' = img, images' = images
      PROVE  ReadyIn(ToSet(images))' = ReadyIn(ToSet(images))
  BY <1>c DEF ReadyIn, ready, complete
<1>1. CASE UNCHANGED vars
  <2>1. AllAtRest' => AllAtRest
    BY <1>1 DEF vars, itemVars, AllAtRest, AtRest
  <2> QED BY <1>1, <2>1, SameLayout, RedrawDueKept DEF vars, itemVars, previewVars, appVars
<1>2. ASSUME NEW e \in Entity, handleAddInput(e) PROVE RedrawDue'
  <2>1. /\ life[e] = "none" /\ images' = Append(images, e)
        /\ UNCHANGED <<blob, img, imgEvent, canvas, timers, errors, padding, bgColor>>
    BY <1>2 DEF handleAddInput, Construct, PreviewIdle
  <2>2. ~ready(e)
    BY <1>a, <2>1 DEF RowInv, ready
  <2>3. AllAtRest' => AllAtRest
    BY <2>1 DEF AllAtRest, AtRest
  <2> QED BY <1>a, <2>1, <2>2, <2>3, GrownLayout, RedrawDueKept
<1>3. ASSUME NEW e \in Entity, RowInput(e) PROVE RedrawDue'
  BY <1>3, <1>b DEF RowInput, Input, EnterUrl, RejectUrl, ChooseFile
<1>4. ASSUME NEW e \in Entity, RowAnswer(e) PROVE RedrawDue'
  <2>1. UNCHANGED <<blob, img, imgEvent>> \/ img' = [img EXCEPT ![e] = "loading"]
    BY <1>4 DEF RowAnswer, Answer, UrlAnswered, UrlFailed, FileRead, FileUnreadable, Set
  <2>2. CASE UNCHANGED <<blob, img, imgEvent>>
    BY <1>4, <1>b, <2>2 DEF RowAnswer
  <2>3. CASE img' = [img EXCEPT ![e] = "loading"]
    <3>1. img'[e] = "loading"
      BY <1>a, <2>3 DEF ItemTypeOK
    <3> QED BY <3>1 DEF RedrawDue, AllAtRest, AtRest
  <2> QED BY <2>1, <2>2, <2>3
<1>5. ASSUME NEW e \in Entity, RowDecoded(e) PROVE RedrawDue'
  <2>1. imgEvent'[e] # "none"
    BY <1>5, <1>a DEF RowDecoded, Decoded, ItemTypeOK
  <2> QED BY <2>1 DEF RedrawDue, AllAtRest, AtRest
<1>6. ASSUME NEW k \in 1 .. Len(images), handleClose(k) PROVE RedrawDue'
  <2>1. images[k] \in Entity /\ imgEvent'[images[k]] = "error"
    BY <1>6, <1>a, ElementOfSeq DEF handleClose, Destroy, ItemTypeOK
  <2> QED BY <2>1 DEF RedrawDue, AllAtRest, AtRest
<1>7. ASSUME NEW k \in 1 .. Len(images), NEW d \in {-1, 1}, handleMove(k, d)
      PROVE  RedrawDue'
  <2>1. /\ k + d \in 1 .. Len(images)
        /\ images' = [images EXCEPT ![k] = images[k + d], ![k + d] = images[k]]
        /\ blob' = blob /\ img' = img
        /\ Draws(timers, FALSE)
    BY <1>7 DEF handleMove, handleRefresh, NoDownload, itemVars, Draws
  <2>3. ToSet(images)' = ToSet(images)
    <3>1. /\ images \in [1 .. Len(images) -> Entity]
          /\ DOMAIN images = 1 .. Len(images)
      BY <1>a, LenProperties
    <3>2. /\ DOMAIN images' = 1 .. Len(images)
          /\ \A j \in 1 .. Len(images) :
               images'[j] = IF j = k + d THEN images[k]
                            ELSE IF j = k THEN images[k + d] ELSE images[j]
      BY <2>1, <3>1
    <3>3. \A x : (\E j \in 1 .. Len(images) : x = images'[j]) <=>
                 (\E j \in 1 .. Len(images) : x = images[j])
      BY <2>1, <3>2
    <3> QED BY <3>1, <3>2, <3>3 DEF ToSet
  <2>4. ReadyIn(ToSet(images))' = ReadyIn(ToSet(images))
    BY <2>1, <2>3 DEF ReadyIn, ready, complete
  <2> QED BY <1>a, <2>1, <2>4, RedrawDueDrawn
<1>8. ASSUME ChangesSettings PROVE RedrawDue'
  <2>1. RefreshTimer \in Timer /\ RefreshTimer.kind = "refresh"
    BY DEF Timer, RefreshTimer
  <2>2. timers' # <<>> /\ timers'[Len(timers')] = RefreshTimer
    BY <1>a, <1>8, <2>1, AppendProperties DEF ChangesSettings
  <2> QED BY <2>1, <2>2 DEF RedrawDue, NewestDraws
<1>9. ASSUME handleExport PROVE RedrawDue'
  <2>1. Draws(timers, TRUE) /\ blob' = blob /\ img' = img /\ images' = images
    BY <1>9 DEF handleExport, NoDownload, itemVars, appVars, Draws
  <2> QED BY <1>a, <1>c, <2>1, RedrawDueDrawn
<1>10. ASSUME NEW e \in Entity, ImageEvent(e) PROVE RedrawDue'
  <2>1. Draws(timers, FALSE) /\ blob' = blob /\ img' = img /\ images' = images
    BY <1>10 DEF ImageEvent, SettleRow, handleRefresh, NoDownload, appVars, Draws
  <2> QED BY <1>a, <1>c, <2>1, RedrawDueDrawn
<1>11. ASSUME RunRefresh PROVE RedrawDue'
  <2>1. /\ Draws(Tail(timers), FALSE)
        /\ blob' = blob /\ img' = img /\ images' = images
    BY <1>11 DEF RunRefresh, handleRefresh, NoDownload, itemVars, appVars, Draws
  <2>2. Tail(timers) \in Seq(Timer)
    BY <1>11, <1>a, HeadTailProperties DEF RunRefresh, NextTimer
  <2> QED BY <1>c, <2>1, <2>2, RedrawDueDrawn
<1>12. ASSUME RunPaint PROVE RedrawDue'
  BY <1>12, RedrawDuePainted
<1>13. ASSUME NEW p \in Padding, handlePaddingChange(p) PROVE ChangesSettings
  BY <1>13 DEF handlePaddingChange, RefreshLater, NoDownload, ChangesSettings, BaseInv,
               SettingsInv
<1>14. ASSUME NEW c \in Color, handleBackgroundChange(c) PROVE ChangesSettings
  BY <1>14 DEF handleBackgroundChange, RefreshLater, NoDownload, ChangesSettings, BaseInv,
               SettingsInv
<1> QED
  BY <1>1, <1>2, <1>3, <1>4, <1>5, <1>6, <1>7, <1>8, <1>9, <1>10, <1>11, <1>12, <1>13,
     <1>14
     DEF Next, UserStep, RunTimer

\* Whenever all is quiet the canvas shows the list, in the order and with the
\* settings of now, whatever was typed, answered, decoded, closed, moved and
\* exported before, and however the timers and the events were interleaved.
THEOREM PreviewSettles == Spec => []SettledPreview
<1>1. BaseInv /\ RedrawDue => SettledPreview
  BY DEF RedrawDue, ShowsAndWarns, SettledPreview, Quiet, AllAtRest
<1> QED
  BY <1>1, BaseInvInit, BaseInvStep, RedrawDueInit, RedrawDueStep, PTL DEF Spec

\* Whenever all is quiet the message is there exactly when the height of the list
\* of now says so, whatever older paints reported and in whatever order.
THEOREM WarningSettles == Spec => []SettledWarning
<1>1. BaseInv /\ RedrawDue => SettledWarning
  BY DEF RedrawDue, ShowsAndWarns, SettledWarning, Quiet, AllAtRest
<1> QED
  BY <1>1, BaseInvInit, BaseInvStep, RedrawDueInit, RedrawDueStep, PTL DEF Spec

-----------------------------------------------------------------------------
(* Messages and downloads. *)

\* A message is shown once, however often paints report it and take it back.
THEOREM MessagesNotRepeated == Spec => []NoRepeatedMessage
<1>1. BaseInv => NoRepeatedMessage
  <2> SUFFICES ASSUME MessageInv, NEW i \in 1 .. Len(errors), NEW j \in 1 .. Len(errors)
               PROVE  i = j
    BY DEF BaseInv, NoRepeatedMessage
  <2>1. 1 .. Len(errors) \in {1 .. 0, 1 .. 1}
    BY DEF MessageInv
  <2>2. 1 .. 0 = {} /\ 1 .. 1 = {1}
    OBVIOUS
  <2>3. 1 .. Len(errors) \subseteq {1}
    BY <2>1, <2>2
  <2> QED BY <2>3
<1> QED BY <1>1, BaseInvInit, BaseInvStep, PTL DEF Spec

\* Only a paint hands a picture to the browser.
LEMMA OnlyPaintsDownload == ASSUME Next, download' # Nothing PROVE RunPaint
BY DEF Next, UserStep, RunTimer, handleAddInput, RowInput, RowAnswer, RowDecoded,
       PreviewIdle, NoDownload, handleClose, handleMove, handleRefresh,
       handlePaddingChange, handleBackgroundChange, RefreshLater, handleExport,
       ImageEvent, RunRefresh

\* Every download has all the ready images of the list, at the offsets the list
\* gives them at the padding of the click, and none is handed out when a broken
\* image cut the paint short.  A picture of an earlier paint is on it only when a
\* broken image was listed at the click, or below the height of the click on a
\* canvas that a later draw has given another one.
THEOREM CompleteDownloads == Spec => DownloadsComplete
<1> DEFINE t == Head(timers)
           list == Pictures(images, t.padding)
           Complete ==
             download' # Nothing =>
               /\ ~Broken(images)
               /\ t.export
               /\ list \subseteq download'.pictures
               /\ \A p \in download'.pictures \ list :
                    t.height \in Nat => /\ canvas.height # t.height
                                       /\ p.top + Scaled[p.pic] > t.height
<1>1. BaseInv /\ [Next]_vars => [Complete]_vars
  <2> SUFFICES ASSUME BaseInv, Next, download' # Nothing PROVE Complete
    OBVIOUS
  <2>1. RunPaint
    BY OnlyPaintsDownload
  <2>2. ~Broken(images) /\ t.export /\ download' = Painted(t, images)
    BY <2>1 DEF RunPaint, Paint
  <2>3. Painted(t, images).pictures = Remaining(t.height) \cup list
    BY DEF Painted, BaseInv, PreviewTypeOK, Canvas
  <2>4. ASSUME NEW p \in Remaining(t.height), t.height \in Nat
        PROVE  canvas.height # t.height /\ p.top + Scaled[p.pic] > t.height
    <3>1. canvas.height # t.height
      BY <2>4, WipedClean
    <3>2. PICK row \in 0 .. BitmapRows(canvas.height) - 1 :
            row < p.top + Scaled[p.pic] /\ (t.height = NaN \/ t.height <= row)
      BY DEF Remaining
    <3>3. t.height <= row /\ row \in Int
      BY <2>4, <3>2, NaNAssumption
    <3>4. p.top \in Int /\ Scaled[p.pic] \in Nat
      BY ScaledAssumption DEF Remaining, BaseInv, PreviewTypeOK, Canvas
    <3> QED BY <2>4, <3>1, <3>2, <3>3, <3>4
  <2> QED BY <2>2, <2>3, <2>4
<1> QED BY <1>1, BaseInvInit, BaseInvStep, PTL DEF Spec, DownloadsComplete
=============================================================================
