---------------------------- MODULE PreviewLoops ----------------------------
(***************************************************************************)
(* The two loops of Preview.draw as they are written, over the list from   *)
(* top to bottom with their accumulators, as the reference for the layout  *)
(* that Preview states over sets (Height and Pictures).  The machine only  *)
(* chooses lists and paddings: every list of rows in every state a row can *)
(* be in when the loops run.                                               *)
(***************************************************************************)
EXTENDS Preview

CONSTANT Lists  \* lists of rows to draw

\* App lists no row twice.
ASSUME ListsAssumption == \A list \in Lists : list \in Seq(Entity) /\ IsInjective(list)

VARIABLES
  rows,  \* the props.images of the draw
  gap    \* its padding argument

loopVars == <<itemVars, previewVars, rows, gap>>

-----------------------------------------------------------------------------

\* scaled height of an image: NaN for a broken one
ScaledHeight(e) == IF img[e] = "broken" THEN NaN ELSE Scaled[blob[e]]

\* `memo` and `isFirst` of the reduce.
ReduceStep(pad, memo, e) ==
  IF ~ready(e) THEN memo
  ELSE [height  |-> IF NaN \in {memo.height, ScaledHeight(e)} THEN NaN
                    ELSE memo.height + ScaledHeight(e) + (IF memo.isFirst THEN 0 ELSE pad),
        isFirst |-> FALSE]

\* The memo after each position.
Reduce(list, pad) ==
  LET memo[i \in 0 .. Len(list)] ==
        IF i = 0 THEN [height |-> 0, isFirst |-> TRUE]
                 ELSE ReduceStep(pad, memo[i - 1], list[i])
  IN  memo

ReduceHeight(list, pad) == Reduce(list, pad)[Len(list)].height

\* `offset`, and what drawImage has put on the canvas until it threw.
DrawStep(pad, acc, e) ==
  IF acc.thrown \/ ~ready(e) THEN acc
  ELSE IF img[e] = "broken"
    THEN [offset |-> acc.offset, pictures |-> acc.pictures, thrown |-> TRUE]
  ELSE [offset   |-> acc.offset + Scaled[blob[e]] + pad,
        pictures |-> acc.pictures \cup {[pic |-> blob[e], top |-> acc.offset]},
        thrown   |-> FALSE]

\* The same after each position.
DrawLoop(list, pad) ==
  LET acc[i \in 0 .. Len(list)] ==
        IF i = 0 THEN [offset |-> 0, pictures |-> {}, thrown |-> FALSE]
                 ELSE DrawStep(pad, acc[i - 1], list[i])
  IN  acc

DrawnPictures(list, pad) == DrawLoop(list, pad)[Len(list)].pictures

-----------------------------------------------------------------------------

LoopInit ==
  /\ PreviewInit
  /\ life      = [e \in Entity |-> "live"]
  /\ chosen    = [e \in Entity |-> Nothing]
  /\ pending   = [e \in Entity |-> {}]
  /\ imgEvent  = [e \in Entity |-> "none"]
  /\ error     = [e \in Entity |-> "none"]
  /\ blob \in [Entity -> Blob \cup {Nothing}]
  /\ img  \in [Entity -> {"none", "loading", "available", "broken"}]
  /\ \A e \in Entity :
       /\ blob[e] = Nothing <=> img[e] = "none"
       /\ img[e] = "available" => blob[e] # Garbage
       /\ img[e] = "broken" => blob[e] = Garbage
  /\ completed = [e \in Entity |-> img[e] = "available"]
  /\ rows \in Lists
  /\ gap = 0

ChoosePadding ==
  /\ gap' \in Padding
  /\ UNCHANGED <<itemVars, previewVars, rows>>

LoopSpec == LoopInit /\ [][ChoosePadding]_loopVars

\* The reduce of draw computes the height of Preview's layout: the rows of the
\* ready images and a padding between any two of them, in whatever order they
\* are listed and wherever rows that are not ready stand between them.
HeightIsReduce == Height(rows, gap) = ReduceHeight(rows, gap)

\* The forEach of the paint puts the pictures where Preview's layout does and
\* stops at the same one.
PicturesAreDrawn == Pictures(rows, gap) = DrawnPictures(rows, gap)
=============================================================================
