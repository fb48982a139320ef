-------------------------------- MODULE App --------------------------------
(***************************************************************************)
(* The App component: the list of images, the two settings, and what its   *)
(* handlers make of the rows (ImageItem) and the preview (Preview).  One   *)
(* action is one callback of the browser's event loop.                     *)
(***************************************************************************)
EXTENDS Preview

CONSTANTS
  Initial,        \* the entities of the constructor's loop, in order
  DefaultColor,   \* '#ffffff'
  MoveControls,   \* does something call the onMove prop?  No button does
  MaxTimers       \* bound: timers waiting at a time

ASSUME InitialAssumption ==
  /\ Initial \in Seq(Entity)
  /\ \A i, j \in 1 .. Len(Initial) : Initial[i] = Initial[j] => i = j
ASSUME DefaultsAssumption == 0 \in Padding /\ DefaultColor \in Color
ASSUME MoveControlsAssumption == MoveControls \in BOOLEAN
ASSUME MaxTimersAssumption == MaxTimers \in Nat \ {0}

VARIABLES
  images,    \* App.state.images
  padding,   \* App.state.padding
  bgColor    \* App.state.bgColor

appVars == <<images, padding, bgColor>>
vars == <<itemVars, previewVars, appVars>>

-----------------------------------------------------------------------------

Init ==
  /\ ItemInit(ToSet(Initial))
  /\ PreviewInit
  /\ images  = Initial
  /\ padding = 0
  /\ bgColor = DefaultColor

TimerFree == Len(timers) < MaxTimers

NoDownload == download' = Nothing

\* The action leaves the preview's canvas, timers and messages alone.
PreviewIdle == NoDownload /\ UNCHANGED <<canvas, timers, errors>>

\* draw with the settings of now.
handleRefresh(waiting) ==
  /\ StartDraw(waiting, images, padding, bgColor, FALSE)
  /\ NoDownload
  /\ UNCHANGED errors

-----------------------------------------------------------------------------
(* The list. *)

handleAddInput(e) ==
  /\ Construct(e)
  /\ images' = Append(images, e)
  /\ PreviewIdle
  /\ UNCHANGED <<padding, bgColor>>

\* Fault: indexOf finds nothing, and splice(-1, 1) takes the last row.
handleCloseLast(i) ==
  /\ Destroy(images[i])
  /\ images' = RemoveAt(images, Len(images))
  /\ PreviewIdle
  /\ UNCHANGED <<padding, bgColor>>

\* No redraw here: the error event of the emptied src brings it.
handleClose(i) ==
  /\ Destroy(images[i])
  /\ images' = RemoveAt(images, i)
  /\ PreviewIdle
  /\ UNCHANGED <<padding, bgColor>>

\* The early return of an index out of range is the guard.  The draw computes the
\* height of the props of before, which have the same images.
handleMove(i, direction) ==
  /\ MoveControls
  /\ TimerFree
  /\ i + direction \in 1 .. Len(images)
  /\ images' = [images EXCEPT ![i] = images[i + direction],
                              ![i + direction] = images[i]]
  /\ handleRefresh(timers)
  /\ UNCHANGED <<itemVars, padding, bgColor>>

-----------------------------------------------------------------------------
(* The settings: the redraw is left to a timer. *)

RefreshLater ==
  /\ TimerFree
  /\ timers' = Append(timers, RefreshTimer)
  /\ NoDownload
  /\ UNCHANGED <<canvas, errors, images, itemVars>>

handlePaddingChange(p) ==
  /\ padding' = p
  /\ RefreshLater
  /\ UNCHANGED bgColor

\* Fault: the redraw is not left to a timer, and setState has not taken effect.
handleBackgroundChangeNow(c) ==
  /\ TimerFree
  /\ bgColor' = c
  /\ handleRefresh(timers)
  /\ UNCHANGED <<images, padding, itemVars>>

handleBackgroundChange(c) ==
  /\ bgColor' = c
  /\ RefreshLater
  /\ UNCHANGED padding

-----------------------------------------------------------------------------

\* The draw of handleExport; the rest of it is in the paint that resolves it.
handleExport ==
  /\ TimerFree
  /\ StartDraw(timers, images, padding, bgColor, TRUE)
  /\ NoDownload
  /\ UNCHANGED <<errors, appVars, itemVars>>

RowInput(e) == Input(e) /\ PreviewIdle /\ UNCHANGED appVars

RowAnswer(e) == Answer(e) /\ PreviewIdle /\ UNCHANGED appVars

RowDecoded(e) == Decoded(e) /\ PreviewIdle /\ UNCHANGED appVars

\* The load or error event: getEntity's listener redraws, then the promise of
\* set() is settled.
ImageEvent(e) ==
  /\ TimerFree
  /\ SettleRow(e)
  /\ handleRefresh(timers)
  /\ UNCHANGED appVars

RunRefresh ==
  /\ NextTimer("refresh")
  /\ handleRefresh(Tail(timers))
  /\ UNCHANGED <<appVars, itemVars>>

RunPaint == Paint(images) /\ UNCHANGED <<appVars, itemVars>>

-----------------------------------------------------------------------------

UserStep ==
  \/ \E e \in Entity : handleAddInput(e) \/ RowInput(e)
  \/ \E i \in 1 .. Len(images) : handleClose(i)
  \/ \E i \in 1 .. Len(images), direction \in {-1, 1} : handleMove(i, direction)
  \/ \E p \in Padding : handlePaddingChange(p)
  \/ \E c \in Color : handleBackgroundChange(c)
  \/ handleExport

RunTimer == RunRefresh \/ RunPaint

Next ==
  \/ UserStep
  \/ \E e \in Entity : RowAnswer(e) \/ RowDecoded(e) \/ ImageEvent(e)
  \/ RunTimer

Spec == Init /\ [][Next]_vars

\* The event loop runs the timers, the decoder ends and its events are delivered.
\* Neither the user nor the network has to do anything.
Fairness ==
  /\ WF_vars(RunTimer)
  /\ \A e \in Entity : WF_vars(RowDecoded(e)) /\ WF_vars(ImageEvent(e))

FairSpec == Spec /\ Fairness

-----------------------------------------------------------------------------
(* Properties. *)

\* App's state and that of the modules it composes keep their shape.
TypeOK ==
  /\ ItemTypeOK
  /\ PreviewTypeOK
  /\ images \in Seq(Entity)
  /\ padding \in Padding
  /\ bgColor \in Color

\* The list and the life of the entities agree: a row is listed once, exactly
\* while its entity is live.  handleClose finds its row by identity, among rows
\* that were added, closed and moved.
ListedOnce ==
  /\ \A i, j \in 1 .. Len(images) : images[i] = images[j] => i = j
  /\ \A e \in Entity : Mounted(e) <=> e \in ToSet(images)

\* Nothing is decoding, no event of an image and no timer is queued; closed
\* entities count, late answers set them loading again.
Quiet == timers = <<>> /\ \A e \in Entity : AtRest(e)

\* The canvas shows the list: the height is the one of the list, the pictures
\* are those of the ready images, each where the list puts it, and the rest is
\* filled with the background of the settings.  Only a negative height, which a
\* negative padding typed by the user leads to, leaves pictures of before there.
ShowsList ==
  /\ canvas.height = Height(images, padding)
  /\ Pictures(images, padding) \subseteq canvas.pictures
  /\ canvas.height \in Nat => canvas.pictures = Pictures(images, padding)
  /\ canvas.height # 0 => canvas.filled = canvas.height /\ canvas.bg = bgColor

\* No redraw is forgotten.  draw is called in some handlers, left to timers in
\* others and left to image events in handleClose and the rows; the paint uses
\* the settings of one moment and the images of another.  Whenever all is quiet
\* the canvas shows the list of now with the settings of now (a broken image in
\* the list excepted: it stops the paint; on a canvas whose height came out negative
\* pictures of earlier paints may be left beside those of the list).
SettledPreview == Quiet /\ ~Broken(images) => ShowsList

\* Once quiet, the 1200px message is there exactly when the list, less one
\* padding, is higher than that (Preview.draw): an older, slower paint does not
\* overwrite what a newer one reported.
SettledWarning ==
  Quiet /\ ~Broken(images) =>
    (errors # <<>> <=> Height(images, padding) - padding > MaxHeight)

\* The reduce that computes the height and the loop that draws agree: once quiet
\* the lowest picture ends where the canvas does, and no two pictures overlap
\* when the padding is not negative.
PicturesFillCanvas ==
  Quiet /\ ~Broken(images) /\ padding >= 0 =>
    /\ \A p \in canvas.pictures : p.top + Scaled[p.pic] <= canvas.height
    /\ canvas.pictures # {} =>
         \E p \in canvas.pictures : p.top + Scaled[p.pic] = canvas.height
    /\ \A p, q \in canvas.pictures :
         p.top < q.top => p.top + Scaled[p.pic] + padding <= q.top

\* A message is shown once however often a paint reports it (Notifications).
NoRepeatedMessage ==
  \A i, j \in 1 .. Len(errors) : errors[i] = errors[j] => i = j

\* What is downloaded is complete: every ready image of the list is on it, at
\* the place the list gives it at the padding of the click, and an export whose
\* paint a broken image cuts short hands out nothing.  Pictures of earlier paints
\* are on it in two cases only: no height was known at the click (a broken image
\* was listed then), or a draw since the click has given the canvas another
\* height, and they reach below the one of the click.
DownloadsComplete ==
  [][download' # Nothing =>
       LET t    == Head(timers)
           list == Pictures(images, t.padding)
       IN  /\ ~Broken(images)
           /\ t.export
           /\ list \subseteq download'.pictures
           /\ \A p \in download'.pictures \ list :
                t.height \in Nat => /\ canvas.height # t.height
                                   /\ p.top + Scaled[p.pic] > t.height]_vars

\* Once the user leaves the page alone it comes to rest, whatever answers arrive
\* late or never: redraws do not set off one another for ever.
SettlesWhenIdle == <>[][~UserStep]_vars => <>[]Quiet

\* A click on the export button leads to a download or finds a broken image.
ExportWaiting ==
  \E i \in 1 .. Len(timers) : timers[i].kind = "paint" /\ timers[i].export

ExportsFinish == ExportWaiting ~> (download # Nothing \/ Broken(images))

-----------------------------------------------------------------------------
(* What the repository says of the program and the code does not do. *)

\* index.tpl:4, the images are joined from top to bottom: once quiet, every
\* image that loaded is on the canvas.
LoadedImagesJoined ==
  Quiet => \A e \in ToSet(images) :
             img[e] = "available" => \E p \in canvas.pictures : p.pic = blob[e]

\* app.jsx:314, the message says that the image is larger than 1200px: once
\* quiet it is shown when the picture is.
WarnsWhenTooTall ==
  Quiet /\ ~Broken(images) => (errors # <<>> <=> canvas.height > MaxHeight)

\* app.jsx:509, a redraw is forced and then the picture is downloaded: the
\* canvas has the height of the pictures on it.
DownloadsRedrawn ==
  [][download' # Nothing =>
       download'.height = Height(images, Head(timers).padding)]_vars
=============================================================================
