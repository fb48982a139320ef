------------------------------ MODULE Preview ------------------------------
(***************************************************************************)
(* The Preview component (draw and the timer it sets), the Notifications   *)
(* it reports to, and the download an export ends with.  The actions take  *)
(* the props and the arguments of the code as parameters; App supplies     *)
(* them.                                                                   *)
(*                                                                         *)
(* A picture keeps the number of pixel rows it has once it is scaled to    *)
(* Guide.MAX_WIDTH.  Heights and offsets count such rows.                  *)
(***************************************************************************)
EXTENDS ImageItem, Integers, FiniteSets, SequencesExt

CONSTANTS
  Scaled,     \* Scaled[s]: rows of the picture of source s at MAX_WIDTH
  MaxHeight,  \* Guide.MAX_HEIGHT
  DefaultHeight,  \* rows of a <canvas> with no natural number as its height (HTML)
  Padding,    \* values of the padding input
  Color,      \* values Color.valid accepts
  NaN         \* JavaScript's: the height of a list with a broken image

ASSUME ScaledAssumption  == Scaled \in [Source -> Nat \ {0}]
ASSUME PaddingAssumption == Padding \subseteq Int
ASSUME MaxHeightAssumption == MaxHeight \in Nat
ASSUME DefaultHeightAssumption == DefaultHeight \in Nat
ASSUME NaNAssumption     == NaN \notin Int
ASSUME ColorAssumption   == Nothing \notin Color

VARIABLES
  canvas,    \* the <canvas>: the height of Preview.state, how far down the last
             \* paint filled it and with which colour, the pictures the last paint
             \* drew and those of earlier paints that it did not wipe out
  timers,    \* callbacks of setTimeout(..., 0), first in first out
  errors,    \* Notifications.state.errors
  download   \* the picture the last step handed to the browser, or Nothing

previewVars == <<canvas, timers, errors, download>>

-----------------------------------------------------------------------------
(* The layout of a list of images, as draw computes it. *)

ReadyIn(entities) == {e \in entities : ready(e)}

Broken(images) == \E e \in ReadyIn(ToSet(images)) : img[e] = "broken"

PixelRows(entities) ==
  UNION {{e} \X (1 .. Scaled[blob[e]]) : e \in entities}

\* `offset` of the drawing loop once the entities are drawn: each of them adds
\* its rows and the padding.
Offset(entities, padding) ==
  Cardinality(PixelRows(entities)) + padding * Cardinality(entities)

\* Fault: the first image is padded as the others are (no isFirst).
HeightPadsFirst(images, padding) ==
  IF Broken(images) THEN NaN ELSE Offset(ReadyIn(ToSet(images)), padding)

\* The height that the reduce computes: every ready image but the first adds the
\* padding, too.  A broken image has width and height 0: 0 * (640 / 0) is NaN.
Height(images, padding) ==
  LET shown == ReadyIn(ToSet(images)) IN
  IF Broken(images) THEN NaN
  ELSE IF shown = {} THEN 0
  ELSE Offset(shown, padding) - padding

Above(images, i) == {images[j] : j \in 1 .. i - 1}

\* Fault: an image that is not ready ends the loop, instead of being passed over.
DrawnAtStopping(images) ==
  {i \in 1 .. Len(images) :
     \A j \in 1 .. i : ready(images[j]) /\ img[images[j]] # "broken"}

\* Fault: the loop does not ask ready().
DrawnAtUnready(images) ==
  {i \in 1 .. Len(images) : \A j \in 1 .. i : img[images[j]] # "broken"}

\* The images drawn: drawImage throws at the first broken one and ends the loop.
DrawnAt(images) ==
  {i \in 1 .. Len(images) :
     /\ ready(images[i])
     /\ \A j \in 1 .. i : ready(images[j]) => img[images[j]] # "broken"}

Pictures(images, padding) ==
  {[pic |-> blob[images[i]], top |-> Offset(ReadyIn(Above(images, i)), padding)] :
     i \in DrawnAt(images)}

-----------------------------------------------------------------------------
(* The canvas and the timers. *)

Canvas ==
  [height : Int \cup {NaN}, filled : Int, bg : Color \cup {Nothing},
   pictures : SUBSET [pic : Source, top : Int]]

Blank(height) == [height |-> height, filled |-> 0, bg |-> Nothing, pictures |-> {}]

RefreshTimer == [kind |-> "refresh"]

PaintTimer(height, padding, bg, export) ==
  [kind |-> "paint", height |-> height, padding |-> padding, bg |-> bg,
   export |-> export]

Timer ==
  {RefreshTimer} \cup
  [kind : {"paint"}, height : Int \cup {NaN}, padding : Padding, bg : Color,
   export : BOOLEAN]

PreviewInit ==
  /\ canvas   = Blank(0)
  /\ timers   = <<>>
  /\ errors   = <<>>
  /\ download = Nothing

\* draw, with `waiting` the timers set before: the height is computed now and
\* kept for the timer.  Setting another height attribute clears the bitmap; React
\* always sets NaN again.
StartDraw(waiting, images, padding, bg, export) ==
  LET height == Height(images, padding) IN
  /\ canvas' = IF height = canvas.height /\ height # NaN THEN canvas
                                                        ELSE Blank(height)
  /\ timers' = Append(waiting, PaintTimer(height, padding, bg, export))

\* The next callback of the timer queue is one that `kind` names.
NextTimer(kind) == timers # <<>> /\ Head(timers).kind = kind

-----------------------------------------------------------------------------
(* Notifications. *)

TooTall == "tooTall"

\* Fault: append does not look for the message.
AppendedAgain(messages, m) == Append(messages, m)

\* append moves a message that is there to the front.
Appended(messages, m) ==
  IF m \in ToSet(messages)
    THEN LET idx == CHOOSE i \in 1 .. Len(messages) : messages[i] = m
         IN  <<m>> \o RemoveAt(messages, idx)
    ELSE Append(messages, m)

\* Fault: nothing takes the message back.
ReportNoReset(height, padding) ==
  errors' = IF height # NaN /\ height - padding > MaxHeight
              THEN Appended(errors, TooTall)
              ELSE errors

\* handlePreviewError.  The comparison with NaN is false.
Report(height, padding) ==
  errors' = IF height # NaN /\ height - padding > MaxHeight
              THEN Appended(errors, TooTall)
              ELSE <<>>

-----------------------------------------------------------------------------

BitmapRows(height) == IF height \in Nat THEN height ELSE DefaultHeight

\* The pictures that clearRect and fillRect leave a row of, when they are given
\* this height: NaN is ignored, and a negative height reaches above the canvas.
Remaining(height) ==
  {p \in canvas.pictures :
     \E row \in 0 .. BitmapRows(canvas.height) - 1 :
       /\ p.top <= row /\ row < p.top + Scaled[p.pic]
       /\ height = NaN \/ height <= row}

\* What a paint leaves on the canvas.  It clears and fills the height that was
\* computed when its timer was set, with the colour of that time, and draws the
\* images that are ready now.  `filled` and `bg` tell of the last fill.
Painted(t, images) ==
  [canvas EXCEPT
     !.filled   = IF t.height = NaN THEN @ ELSE t.height,
     !.bg       = IF t.height = NaN THEN @ ELSE t.bg,
     !.pictures = Remaining(t.height) \cup Pictures(images, t.padding)]

\* Fault: the promise is resolved after an exception, too.
PaintResolvesAlways(images) ==
  LET t == Head(timers) IN
  /\ NextTimer("paint")
  /\ timers' = Tail(timers)
  /\ canvas' = Painted(t, images)
  /\ download' = IF t.export THEN canvas' ELSE Nothing
  /\ IF Broken(images) THEN UNCHANGED errors ELSE Report(t.height, t.padding)

\* Fault: a picture that is too tall is reported and not exported.
PaintRefusesTall(images) ==
  LET t == Head(timers) IN
  /\ NextTimer("paint")
  /\ timers' = Tail(timers)
  /\ canvas' = Painted(t, images)
  /\ IF Broken(images)
       THEN download' = Nothing /\ UNCHANGED errors
       ELSE /\ Report(t.height, t.padding)
            /\ download' = IF t.export /\ errors' = <<>> THEN canvas' ELSE Nothing

\* Fault: the report redraws the preview.
PaintRedraws(images) ==
  LET t == Head(timers) IN
  /\ NextTimer("paint")
  /\ timers' = Append(Tail(timers), RefreshTimer)
  /\ canvas' = Painted(t, images)
  /\ IF Broken(images)
       THEN download' = Nothing /\ UNCHANGED errors
       ELSE /\ Report(t.height, t.padding)
            /\ download' = IF t.export THEN canvas' ELSE Nothing

\* The timer of draw.  A broken image ends it with the exception of drawImage: no
\* report, and the promise that handleExport waits for is rejected.
Paint(images) ==
  LET t == Head(timers) IN
  /\ NextTimer("paint")
  /\ timers' = Tail(timers)
  /\ canvas' = Painted(t, images)
  /\ IF Broken(images)
       THEN download' = Nothing /\ UNCHANGED errors
       ELSE /\ Report(t.height, t.padding)
            /\ download' = IF t.export THEN canvas' ELSE Nothing

PreviewTypeOK ==
  /\ canvas \in Canvas
  /\ timers \in Seq(Timer)
  /\ errors \in Seq({TooTall})
  /\ download \in Canvas \cup {Nothing}
=============================================================================
