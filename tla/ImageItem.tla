----------------------------- MODULE ImageItem -----------------------------
(***************************************************************************)
(* One row of the resource list: an ImgEntity (its uid, its blob and its   *)
(* Image element) and the ImageItem component that shows it, with the      *)
(* browser objects they drive: XMLHttpRequest, FileReader and the loading  *)
(* of the Image.  Every callback of the event loop, with the promise       *)
(* continuations it sets off, is one action.                               *)
(***************************************************************************)

CONSTANTS
  Entity,    \* the entities the page can create: getEntity takes an unused one
  Url,       \* URLs the input accepts (checkValidity); the picture of u is u
  File,      \* files the user can choose; the picture of f is f
  Garbage,   \* bytes no decoder accepts: a proxy error page, a text file
  Nothing    \* null: no blob yet, nothing chosen yet

Source == Url \cup File
Blob   == Source \cup {Garbage}

ASSUME NothingAssumption == Nothing \notin Blob
ASSUME GarbageAssumption == Garbage \notin Source

VARIABLES
  life,       \* "none": not constructed, "live": in the list, "closed": removed
  chosen,     \* the source of the user's last valid choice in the row
  pending,    \* sources whose XMLHttpRequest or FileReader has not answered
  blob,       \* ImgEntity.blob
  img,        \* ImgEntity.img: "none" (no src), "loading", "available", "broken"
  imgEvent,   \* the event of the element that is queued: "none", "load", "error"
  completed,  \* ImageItem.state.completed: the row is marked has-success
  error       \* ImageItem.state.error: "none", "badUrl" or "loadFailed"

itemVars == <<life, chosen, pending, blob, img, imgEvent, completed, error>>

-----------------------------------------------------------------------------
(* What the code asks of an entity. *)

\* `complete` is true of an image that failed to decode, too.
complete(e) == img[e] # "loading"

ready(e) == blob[e] # Nothing /\ img[e] # "none" /\ complete(e)

Mounted(e) == life[e] = "live"

\* Neither a decoding nor an event of the element is outstanding.
AtRest(e) == img[e] # "loading" /\ imgEvent[e] = "none"

-----------------------------------------------------------------------------
(* Initial state: the rows in `mounted` are there, the others are not. *)

ItemInit(mounted) ==
  /\ life      = [e \in Entity |-> IF e \in mounted THEN "live" ELSE "none"]
  /\ chosen    = [e \in Entity |-> Nothing]
  /\ pending   = [e \in Entity |-> {}]
  /\ blob      = [e \in Entity |-> Nothing]
  /\ img       = [e \in Entity |-> "none"]
  /\ imgEvent  = [e \in Entity |-> "none"]
  /\ completed = [e \in Entity |-> FALSE]
  /\ error     = [e \in Entity |-> "none"]

\* Fault: the promise of set() writes the status of a closed row, too.
SetStatusAlways(e, done, err) ==
  /\ completed' = [completed EXCEPT ![e] = done]
  /\ error'     = [error EXCEPT ![e] = err]

\* setState of an ImageItem: without effect once the component is unmounted.
SetStatus(e, done, err) ==
  IF Mounted(e)
    THEN /\ completed' = [completed EXCEPT ![e] = done]
         /\ error'     = [error EXCEPT ![e] = err]
    ELSE UNCHANGED <<completed, error>>

Construct(e) ==
  /\ life[e] = "none"
  /\ life' = [life EXCEPT ![e] = "live"]
  /\ UNCHANGED <<chosen, pending, blob, img, imgEvent, completed, error>>

-----------------------------------------------------------------------------
(* The user's input. *)

\* handleUrlChange with a valid URL, up to xhr.send().  Bound: a row has at
\* most one outstanding request for the same source.
EnterUrl(e, u) ==
  /\ Mounted(e)
  /\ u \notin pending[e]
  /\ chosen'  = [chosen EXCEPT ![e] = u]
  /\ pending' = [pending EXCEPT ![e] = @ \cup {u}]
  /\ UNCHANGED <<life, blob, img, imgEvent, completed, error>>

\* handleUrlChange with an invalid or (handleClear) an empty URL: the early
\* return.  The image the entity holds stays.
RejectUrl(e) ==
  /\ Mounted(e)
  /\ SetStatus(e, completed[e], "badUrl")
  /\ UNCHANGED <<life, chosen, pending, blob, img, imgEvent>>

ChooseFile(e, f) ==
  /\ Mounted(e)
  /\ f \notin pending[e]
  /\ chosen'  = [chosen EXCEPT ![e] = f]
  /\ pending' = [pending EXCEPT ![e] = @ \cup {f}]
  /\ UNCHANGED <<life, blob, img, imgEvent, completed, error>>

-----------------------------------------------------------------------------
(* The answers, in any order, also after the row was closed. *)

\* ImgEntity.set: a new src starts a load and cancels the queued event of the
\* previous one.
Set(e, b) ==
  /\ blob'     = [blob EXCEPT ![e] = b]
  /\ img'      = [img EXCEPT ![e] = "loading"]
  /\ imgEvent' = [imgEvent EXCEPT ![e] = "none"]

Answered(e, s) == pending' = [pending EXCEPT ![e] = @ \ {s}]

\* xhr.onload fires whatever the HTTP status: the body may be no image.
UrlAnswered(e, u, b) ==
  /\ u \in pending[e]
  /\ Answered(e, u)
  /\ Set(e, b)
  /\ SetStatus(e, completed[e], "none")
  /\ UNCHANGED <<life, chosen>>

\* Fault: the event itself is shown as the error.
UrlFailedShowsEvent(e, u) ==
  /\ u \in pending[e]
  /\ Answered(e, u)
  /\ SetStatus(e, completed[e], "[object ProgressEvent]")
  /\ UNCHANGED <<life, chosen, blob, img, imgEvent>>

\* xhr.onerror rejects with a ProgressEvent, which has no message: the row
\* shows no error.
UrlFailed(e, u) ==
  /\ u \in pending[e]
  /\ Answered(e, u)
  /\ SetStatus(e, completed[e], "none")
  /\ UNCHANGED <<life, chosen, blob, img, imgEvent>>

FileRead(e, f, b) ==
  /\ f \in pending[e]
  /\ Answered(e, f)
  /\ Set(e, b)
  /\ UNCHANGED <<life, chosen, completed, error>>

\* No onerror handler: the failure is lost.
FileUnreadable(e, f) ==
  /\ f \in pending[e]
  /\ Answered(e, f)
  /\ UNCHANGED <<life, chosen, blob, img, imgEvent, completed, error>>

-----------------------------------------------------------------------------
(* The Image element. *)

\* The decoder is done: `complete` turns true, the event is still queued.
Decoded(e) ==
  /\ img[e] = "loading"
  /\ img'      = [img EXCEPT ![e] = IF blob[e] = Garbage THEN "broken" ELSE "available"]
  /\ imgEvent' = [imgEvent EXCEPT ![e] = IF blob[e] = Garbage THEN "error" ELSE "load"]
  /\ UNCHANGED <<life, chosen, pending, blob, completed, error>>

\* Fault: the catch does not take the mark back.
SettleRowKeepsMark(e) ==
  /\ imgEvent[e] # "none"
  /\ imgEvent' = [imgEvent EXCEPT ![e] = "none"]
  /\ IF imgEvent[e] = "load" THEN SetStatus(e, TRUE, "none")
                             ELSE SetStatus(e, completed[e], "loadFailed")
  /\ UNCHANGED <<life, chosen, pending, blob, img>>

\* Fault: the catch sets the blob again.
SettleRowRetries(e) ==
  /\ imgEvent[e] # "none"
  /\ IF imgEvent[e] = "load" THEN SetStatus(e, TRUE, "none") /\ UNCHANGED img
                             ELSE /\ SetStatus(e, FALSE, "loadFailed")
                                  /\ img' = [img EXCEPT ![e] = "loading"]
  /\ imgEvent' = [imgEvent EXCEPT ![e] = "none"]
  /\ UNCHANGED <<life, chosen, pending, blob>>

\* The event reaches the listeners that settle the promise of set().
SettleRow(e) ==
  /\ imgEvent[e] # "none"
  /\ imgEvent' = [imgEvent EXCEPT ![e] = "none"]
  /\ IF imgEvent[e] = "load" THEN SetStatus(e, TRUE, "none")
                             ELSE SetStatus(e, FALSE, "loadFailed")
  /\ UNCHANGED <<life, chosen, pending, blob, img>>

\* Fault: destroy revokes the object URL and leaves the src.
DestroyKeepsSrc(e) ==
  /\ Mounted(e)
  /\ life' = [life EXCEPT ![e] = "closed"]
  /\ UNCHANGED <<chosen, pending, blob, img, imgEvent, completed, error>>

\* destroy: an empty src drops the image and queues an error event.
Destroy(e) ==
  /\ Mounted(e)
  /\ life'     = [life EXCEPT ![e] = "closed"]
  /\ img'      = [img EXCEPT ![e] = "none"]
  /\ imgEvent' = [imgEvent EXCEPT ![e] = "error"]
  /\ UNCHANGED <<chosen, pending, blob, completed, error>>

-----------------------------------------------------------------------------

\* What the user and the network do to the row e.
Input(e) ==
  \/ \E u \in Url : EnterUrl(e, u)
  \/ RejectUrl(e)
  \/ \E f \in File : ChooseFile(e, f)

Answer(e) ==
  \/ \E u \in Url : \E b \in {u, Garbage} : UrlAnswered(e, u, b)
  \/ \E u \in Url : UrlFailed(e, u)
  \/ \E f \in File : \E b \in {f, Garbage} : FileRead(e, f, b)
  \/ \E f \in File : FileUnreadable(e, f)

ItemNext ==
  \E e \in Entity :
    \/ Construct(e)
    \/ Input(e)
    \/ Answer(e)
    \/ Decoded(e)
    \/ SettleRow(e)
    \/ Destroy(e)

ItemSpec == ItemInit({}) /\ [][ItemNext]_itemVars

\* The browser decodes what was set and delivers the events it has queued.
\* Nothing makes the user act or the network answer.
ItemFairness ==
  \A e \in Entity : WF_itemVars(Decoded(e)) /\ WF_itemVars(SettleRow(e))

ItemFairSpec == ItemSpec /\ ItemFairness

-----------------------------------------------------------------------------
(* Properties. *)

\* Every variable of the rows (ImgEntity, ImageItem) keeps its shape.
ItemTypeOK ==
  /\ life      \in [Entity -> {"none", "live", "closed"}]
  /\ chosen    \in [Entity -> Source \cup {Nothing}]
  /\ pending   \in [Entity -> SUBSET Source]
  /\ blob      \in [Entity -> Blob \cup {Nothing}]
  /\ img       \in [Entity -> {"none", "loading", "available", "broken"}]
  /\ imgEvent  \in [Entity -> {"none", "load", "error"}]
  /\ completed \in [Entity -> BOOLEAN]
  /\ error     \in [Entity -> {"none", "badUrl", "loadFailed"}]

\* The mark of a row tells the truth: once the element of a live row is at
\* rest, the row is marked has-success exactly when its image can be drawn, and
\* a row that reports a failed load holds a broken image.  It has to survive
\* answers that overtake each other and a src set while an event is queued.
StatusTruthful ==
  \A e \in Entity :
    Mounted(e) /\ AtRest(e) =>
      /\ completed[e] <=> (img[e] = "available")
      /\ error[e] = "loadFailed" => img[e] = "broken"

\* A row whose requests have all been answered comes to rest: no order of
\* answers, decodings and events leaves it loading for ever.
SettlesWhenAnswered ==
  \A e \in Entity : <>[](pending[e] = {}) => <>[]AtRest(e)

\* The rows keep the promise of RowPromise: whatever the order of answers,
\* decodings and events, a row that was closed stays closed, and its mark only
\* changes when a load of it ends, to say whether the image can be drawn.
Phase(e) ==
  CASE life[e] = "none"   -> "unborn"
    [] life[e] = "closed" -> "closed"
    [] Mounted(e) /\ ~AtRest(e) -> "loading"
    [] Mounted(e) /\ AtRest(e) /\ img[e] = "none" -> "empty"
    [] Mounted(e) /\ AtRest(e) /\ img[e] = "available" -> "shown"
    [] Mounted(e) /\ AtRest(e) /\ img[e] = "broken" -> "failed"

Promise == INSTANCE RowPromise WITH phase <- [e \in Entity |-> Phase(e)],
                                    mark  <- completed

KeepsRowPromise == Promise!Spec

\* index.tpl:4 says that the images of the URL entered or the file chosen are
\* joined: at rest, with nothing outstanding, a row marked has-success shows
\* the source chosen last.
LatestChoiceShown ==
  \A e \in Entity :
    Mounted(e) /\ AtRest(e) /\ pending[e] = {} /\ completed[e] /\ error[e] = "none"
      => blob[e] = chosen[e]
=============================================================================
