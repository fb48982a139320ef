--------------------------- MODULE CanvasProofs ---------------------------
(***************************************************************************)
(* Proofs about the canvas.  The reduce of draw, which computes the        *)
(* height, and its loop, which places the pictures, agree on it: for any   *)
(* list of rows, any pictures and any padding that is not negative.  And   *)
(* the two loops, as they are written (PreviewLoops), compute what Preview *)
(* states over sets.                                                       *)
(***************************************************************************)
EXTENDS AppProofs, PreviewLoops

-----------------------------------------------------------------------------
(* Offsets. *)

\* An entity whose picture can be drawn.
Drawable(e) == ready(e) /\ img[e] # "broken"

\* Drawing one more image moves the offset by its rows and the padding.
LEMMA OffsetAdds ==
  ASSUME RowInv, NEW S \in SUBSET Entity, IsFiniteSet(S), \A x \in S : Drawable(x),
         NEW e \in Entity, Drawable(e), e \notin S, NEW p \in Int
  PROVE  Offset(S \cup {e}, p) = Offset(S, p) + Scaled[blob[e]] + p
<1> DEFINE n == Scaled[blob[e]]
           own == {e} \X (1 .. n)
<1>1. n \in Nat \ {0} /\ \A x \in S : Scaled[blob[x]] \in Nat
  BY ReadyHasPicture DEF Drawable
<1>2. /\ IsFiniteSet(PixelRows(S))
      /\ Cardinality(PixelRows(S)) \in Nat
      /\ Cardinality(S) \in Nat
  BY <1>1, PixelRowsFinite
<1>3. IsFiniteSet(own) /\ Cardinality(own) = n
  <2>1. IsFiniteSet({e}) /\ Cardinality({e}) = 1
    BY FS_Singleton
  <2>2. IsFiniteSet(1 .. n) /\ Cardinality(1 .. n) = n
    <3>1. /\ 1 \in Int /\ n \in Int
          /\ (IF 1 > n THEN 0 ELSE n - 1 + 1) = n
      BY <1>1
    <3> HIDE DEF n
    <3> QED BY <3>1, FS_Interval
  <2>3. IsFiniteSet(own) /\ Cardinality(own) = Cardinality({e}) * Cardinality(1 .. n)
    BY <2>1, <2>2, FS_Product
  <2> QED BY <1>1, <2>1, <2>2, <2>3
<1>4. PixelRows(S \cup {e}) = PixelRows(S) \cup own
  BY DEF PixelRows
<1>5. PixelRows(S) \cap own = {}
  BY DEF PixelRows
<1>6. Cardinality(PixelRows(S \cup {e})) = Cardinality(PixelRows(S)) + n
  <2> HIDE DEF own, n
  <2>1. Cardinality(PixelRows(S) \cup own)
          = Cardinality(PixelRows(S)) + Cardinality(own)
              - Cardinality(PixelRows(S) \cap own)
    BY <1>2, <1>3, FS_Union
  <2>2. Cardinality(PixelRows(S) \cap own) = 0
    BY <1>5, FS_EmptySet DEF own
  <2>3. Cardinality(PixelRows(S) \cup own) = Cardinality(PixelRows(S)) + n
    <3> DEFINE r == Cardinality(PixelRows(S))
    <3>1. Cardinality(PixelRows(S) \cup own) = r + n - 0
      BY <1>3, <2>1, <2>2
    <3>2. r + n - 0 = r + n
      BY <1>1, <1>2 DEF n
    <3> QED BY <3>1, <3>2
  <2> QED BY <1>4, <2>3
<1>7. Cardinality(S \cup {e}) = Cardinality(S) + 1
  BY FS_AddElement
<1> HIDE DEF n
<1>8. \A c, r \in Int : r + n + p * (c + 1) = (r + p * c) + n + p
  BY <1>1
<1>9. Offset(S \cup {e}, p)
        = Cardinality(PixelRows(S)) + n + p * (Cardinality(S) + 1)
  BY <1>6, <1>7 DEF Offset
<1>10. Offset(S \cup {e}, p)
         = (Cardinality(PixelRows(S)) + p * Cardinality(S)) + n + p
  <2> DEFINE r == Cardinality(PixelRows(S))
             c == Cardinality(S)
  <2>1. r \in Int /\ c \in Int
    BY <1>2
  <2> HIDE DEF r, c
  <2>2. r + n + p * (c + 1) = (r + p * c) + n + p
    BY <1>8, <2>1
  <2> QED BY <1>9, <2>2 DEF r, c
<1> QED BY <1>10 DEF Offset, n

\* The product of a padding that is not negative grows with the other factor.
LEMMA ProductGrows ==
  ASSUME NEW p \in Nat, NEW c \in Nat, NEW d \in Nat, c <= d
  PROVE  p * c <= p * d
<1>1. d - c \in Nat /\ p * d = p * c + p * (d - c)
  OBVIOUS
<1>2. p * (d - c) \in Nat /\ p * c \in Int
  BY <1>1
<1> QED BY <1>1, <1>2

\* With such a padding no image moves the offset up.
LEMMA OffsetGrows ==
  ASSUME RowInv, NEW T \in SUBSET Entity, IsFiniteSet(T), \A x \in T : Drawable(x),
         NEW S \in SUBSET T, NEW p \in Int, p >= 0
  PROVE  Offset(S, p) <= Offset(T, p)
<1>1. \A x \in T : Scaled[blob[x]] \in Nat
  BY ReadyHasPicture DEF Drawable
<1>2. /\ IsFiniteSet(PixelRows(T))
      /\ Cardinality(PixelRows(T)) \in Nat /\ Cardinality(T) \in Nat
  BY <1>1, PixelRowsFinite
<1>3. IsFiniteSet(S) /\ Cardinality(S) <= Cardinality(T)
  BY FS_Subset
<1>4. Cardinality(PixelRows(S)) \in Nat /\ Cardinality(S) \in Nat
  BY <1>1, <1>3, PixelRowsFinite
<1>5. Cardinality(PixelRows(S)) <= Cardinality(PixelRows(T))
  <2>1. PixelRows(S) \in SUBSET PixelRows(T)
    BY DEF PixelRows
  <2> QED BY <1>2, <2>1, FS_Subset
<1>6. p * Cardinality(S) <= p * Cardinality(T)
  BY <1>2, <1>3, <1>4, ProductGrows
<1>7. p * Cardinality(S) \in Int /\ p * Cardinality(T) \in Int
  BY <1>2, <1>4
<1> QED BY <1>2, <1>4, <1>5, <1>6, <1>7 DEF Offset

-----------------------------------------------------------------------------
(* Lists. *)

\* A set of positions that is not empty has a last one.
LEMMA LastPosition ==
  ASSUME NEW n \in Nat, NEW D \in SUBSET (1 .. n), D # {}
  PROVE  \E i \in D : \A j \in D : j <= i
<1> DEFINE R == OpToRel(<, Nat)
           T == {n - i : i \in D}
<1>1. T \subseteq Nat /\ T # {}
  <2>1. \A i \in D : n - i \in Nat
    OBVIOUS
  <2>2. PICK i \in D : TRUE
    OBVIOUS
  <2>3. n - i \in T
    OBVIOUS
  <2> QED BY <2>1, <2>3
<1>2. PICK x \in T : \A y \in T : <<y, x>> \notin R
  BY <1>1, NatLessThanWellFounded, WFMin
<1>3. \A y \in T : ~(y < x)
  BY <1>1, <1>2 DEF OpToRel
<1>4. PICK i \in D : x = n - i
  OBVIOUS
<1>5. \A j \in D : n - j \in T
  OBVIOUS
<1>6. \A j \in D : ~(n - j < n - i)
  BY <1>3, <1>4, <1>5
<1> QED BY <1>4, <1>6

\* With no broken image in the list, what is drawn above a position, and what is
\* drawn at all, are finite sets of images that can be drawn.
LEMMA ShownAbove ==
  ASSUME NEW list \in Seq(Entity), ~Broken(list), NEW i \in 1 .. Len(list)
  PROVE  /\ ReadyIn(ToSet(list)) \in SUBSET Entity
         /\ IsFiniteSet(ReadyIn(ToSet(list)))
         /\ \A x \in ReadyIn(ToSet(list)) : Drawable(x)
         /\ ReadyIn(Above(list, i)) \in SUBSET ReadyIn(ToSet(list))
<1>1. Len(list) \in Nat
  BY LenProperties
<1>2. ReadyIn(ToSet(list)) \in SUBSET ToSet(list)
  BY DEF ReadyIn
<1>3. \A x \in ReadyIn(ToSet(list)) : Drawable(x)
  BY DEF Broken, ReadyIn, Drawable
<1>4. Above(list, i) \subseteq ToSet(list)
  BY <1>1, ListFinite DEF Above
<1>5. ReadyIn(Above(list, i)) \in SUBSET ReadyIn(ToSet(list))
  BY <1>4 DEF ReadyIn
<1> QED BY <1>2, <1>3, <1>5, ListFinite, FS_Subset

\* A picture ends a padding above the next one at the latest, when a list has no
\* image twice.
LEMMA PicturesApart ==
  ASSUME RowInv, NEW list \in Seq(Entity), ~Broken(list),
         \A k, l \in 1 .. Len(list) : list[k] = list[l] => k = l,
         NEW p \in Int, p >= 0,
         NEW i \in 1 .. Len(list), NEW j \in 1 .. Len(list), i < j, ready(list[i])
  PROVE  Offset(ReadyIn(Above(list, i)), p) + Scaled[blob[list[i]]] + p
           <= Offset(ReadyIn(Above(list, j)), p)
<1> DEFINE S == ReadyIn(Above(list, i))
           T == ReadyIn(Above(list, j))
           e == list[i]
<1>1. Len(list) \in Nat /\ e \in Entity
  BY LenProperties
<1>2. /\ S \in SUBSET Entity /\ IsFiniteSet(S) /\ \A x \in S : Drawable(x)
      /\ T \in SUBSET Entity /\ IsFiniteSet(T) /\ \A x \in T : Drawable(x)
  BY ShownAbove, FS_Subset
<1>3. e \notin S
  BY <1>1 DEF ReadyIn, Above
<1>4. S \cup {e} \in SUBSET T
  BY <1>1 DEF ReadyIn, Above
<1>5. Drawable(e)
  BY <1>2, <1>4
<1> HIDE DEF S, T, e
<1>6. Offset(S \cup {e}, p) = Offset(S, p) + Scaled[blob[e]] + p
  BY <1>1, <1>2, <1>3, <1>5, OffsetAdds
<1>7. Offset(S \cup {e}, p) <= Offset(T, p)
  BY <1>2, <1>4, OffsetGrows
<1> QED BY <1>6, <1>7 DEF S, T, e

\* No picture goes below the height that is computed for the list.
LEMMA PictureWithinHeight ==
  ASSUME RowInv, NEW list \in Seq(Entity), ~Broken(list),
         \A k, l \in 1 .. Len(list) : list[k] = list[l] => k = l,
         NEW p \in Int, p >= 0,
         NEW i \in 1 .. Len(list), ready(list[i])
  PROVE  Offset(ReadyIn(Above(list, i)), p) + Scaled[blob[list[i]]] <= Height(list, p)
<1> DEFINE S == ReadyIn(Above(list, i))
           T == ReadyIn(ToSet(list))
           e == list[i]
<1>1. Len(list) \in Nat /\ e \in Entity
  BY LenProperties
<1>2. /\ S \in SUBSET Entity /\ IsFiniteSet(S) /\ \A x \in S : Drawable(x)
      /\ T \in SUBSET Entity /\ IsFiniteSet(T) /\ \A x \in T : Drawable(x)
      /\ S \in SUBSET T
  BY ShownAbove, FS_Subset
<1>3. e \notin S
  BY <1>1 DEF ReadyIn, Above
<1>4. e \in T
  BY ListFinite DEF ReadyIn
<1>5. Drawable(e) /\ S \cup {e} \in SUBSET T
  BY <1>2, <1>4
<1>6. Height(list, p) = Offset(T, p) - p
  BY <1>4 DEF Height
<1> HIDE DEF S, T, e
<1>7. Offset(S \cup {e}, p) = Offset(S, p) + Scaled[blob[e]] + p
  BY <1>1, <1>2, <1>3, <1>5, OffsetAdds
<1>8. Offset(S \cup {e}, p) <= Offset(T, p)
  BY <1>2, <1>5, OffsetGrows
<1>9. Offset(S, p) \in Int /\ Offset(T, p) \in Int /\ Scaled[blob[e]] \in Int
  <2>1. Scaled[blob[e]] \in Int
    BY <1>1, <1>5, ReadyHasPicture DEF Drawable
  <2>2. Offset(S, p) \in Int /\ Offset(T, p) \in Int
    BY <1>2, OffsetType DEF Drawable
  <2> QED BY <2>1, <2>2
<1>10. Offset(S, p) + Scaled[blob[e]] <= Offset(T, p) - p
  BY <1>7, <1>8, <1>9
<1> QED BY <1>6, <1>10 DEF S, T, e

\* The last picture ends exactly there.
LEMMA LastPictureEndsCanvas ==
  ASSUME RowInv, NEW list \in Seq(Entity), ~Broken(list),
         \A k, l \in 1 .. Len(list) : list[k] = list[l] => k = l,
         NEW p \in Int,
         NEW i \in 1 .. Len(list), ready(list[i]),
         \A j \in 1 .. Len(list) : ready(list[j]) => j <= i
  PROVE  Offset(ReadyIn(Above(list, i)), p) + Scaled[blob[list[i]]] = Height(list, p)
<1> DEFINE S == ReadyIn(Above(list, i))
           T == ReadyIn(ToSet(list))
           e == list[i]
<1>1. Len(list) \in Nat /\ e \in Entity
  BY LenProperties
<1>2. /\ S \in SUBSET Entity /\ IsFiniteSet(S) /\ \A x \in S : Drawable(x)
      /\ \A x \in T : Drawable(x)
      /\ S \in SUBSET T
  BY ShownAbove, FS_Subset
<1>3. e \notin S
  BY <1>1 DEF ReadyIn, Above
<1>4. e \in T /\ Drawable(e)
  BY <1>2, ListFinite DEF ReadyIn
<1>5. ASSUME NEW x \in T PROVE x \in S \cup {e}
  <2>1. PICK j \in 1 .. Len(list) : x = list[j] /\ ready(list[j])
    BY <1>5, ListFinite DEF ReadyIn
  <2>2. j = i \/ j \in 1 .. i - 1
    BY <1>1, <2>1
  <2> QED BY <2>1, <2>2 DEF ReadyIn, Above
<1>6. T = S \cup {e}
  BY <1>2, <1>4, <1>5
<1>7. Height(list, p) = Offset(T, p) - p
  BY <1>4 DEF Height
<1> HIDE DEF S, T, e
<1>8. Offset(S \cup {e}, p) = Offset(S, p) + Scaled[blob[e]] + p
  BY <1>1, <1>2, <1>3, <1>4, OffsetAdds
<1>9. Offset(S, p) \in Int /\ Scaled[blob[e]] \in Int
  BY <1>1, <1>2, <1>4, OffsetType, ReadyHasPicture DEF Drawable
<1>10. Offset(T, p) - p = Offset(S, p) + Scaled[blob[e]]
  BY <1>6, <1>8, <1>9
<1> QED BY <1>7, <1>10 DEF S, T, e

-----------------------------------------------------------------------------
(* The canvas. *)

\* The pictures of a list lie apart, inside the height computed for it, and the
\* last of them ends where the canvas does.
LEMMA PicturesFill ==
  ASSUME RowInv, NEW list \in Seq(Entity), ~Broken(list),
         \A k, l \in 1 .. Len(list) : list[k] = list[l] => k = l,
         NEW p \in Int, p >= 0
  PROVE  /\ \A x \in Pictures(list, p) : x.top + Scaled[x.pic] <= Height(list, p)
         /\ Pictures(list, p) # {} =>
              \E x \in Pictures(list, p) : x.top + Scaled[x.pic] = Height(list, p)
         /\ \A x, y \in Pictures(list, p) :
              x.top < y.top => x.top + Scaled[x.pic] + p <= y.top
<1> DEFINE top(i) == Offset(ReadyIn(Above(list, i)), p)
           of(i) == [pic |-> blob[list[i]], top |-> top(i)]
           D == DrawnAt(list)
<1>1. /\ Len(list) \in Nat /\ D \in SUBSET (1 .. Len(list))
      /\ \A i \in D : list[i] \in Entity /\ ready(list[i])
  BY LenProperties DEF DrawnAt
<1>2. \A i \in 1 .. Len(list) : ready(list[i]) => i \in D
  <2> TAKE i \in 1 .. Len(list)
  <2> HAVE ready(list[i])
  <2>1. \A j \in 1 .. i : list[j] \in ToSet(list)
    BY <1>1, ListFinite
  <2> QED BY <2>1 DEF DrawnAt, Broken, ReadyIn
<1>3. Pictures(list, p) = {of(i) : i \in D}
  BY DEF Pictures
<1>4. ASSUME NEW i \in D
      PROVE  top(i) \in Int /\ Scaled[blob[list[i]]] \in Nat \ {0}
  <2>1. /\ ReadyIn(Above(list, i)) \in SUBSET Entity
        /\ IsFiniteSet(ReadyIn(Above(list, i)))
        /\ \A x \in ReadyIn(Above(list, i)) : Drawable(x)
        /\ Drawable(list[i])
    <3>1. list[i] \in ReadyIn(ToSet(list))
      BY <1>1, ListFinite DEF ReadyIn
    <3> QED BY <1>1, <3>1, ShownAbove, FS_Subset
  <2>2. Scaled[blob[list[i]]] \in Nat \ {0}
    BY <1>1, <2>1, ReadyHasPicture DEF Drawable
  <2>3. top(i) \in Int
    BY <2>1, OffsetType DEF Drawable
  <2> QED BY <2>2, <2>3
<1>5. ASSUME NEW x \in Pictures(list, p)
      PROVE  x.top + Scaled[x.pic] <= Height(list, p)
  BY <1>1, <1>3, PictureWithinHeight
<1>6. ASSUME Pictures(list, p) # {}
      PROVE  \E x \in Pictures(list, p) : x.top + Scaled[x.pic] = Height(list, p)
  <2>1. D # {}
    BY <1>3, <1>6
  <2>2. PICK i \in D : \A j \in D : j <= i
    BY <1>1, <2>1, LastPosition
  <2>3. \A j \in 1 .. Len(list) : ready(list[j]) => j <= i
    BY <1>2, <2>2
  <2>4. top(i) + Scaled[blob[list[i]]] = Height(list, p)
    BY <1>1, <2>3, LastPictureEndsCanvas
  <2>5. /\ of(i) \in Pictures(list, p)
        /\ of(i).top = top(i) /\ of(i).pic = blob[list[i]]
    BY <1>3
  <2> HIDE DEF of, top
  <2> QED BY <2>4, <2>5
<1>7. ASSUME NEW x \in Pictures(list, p), NEW y \in Pictures(list, p), x.top < y.top
      PROVE  x.top + Scaled[x.pic] + p <= y.top
  <2>1. PICK i \in D, j \in D : x = of(i) /\ y = of(j)
    BY <1>3
  <2>2. /\ x.top = top(i) /\ x.pic = blob[list[i]]
        /\ y.top = top(j) /\ y.pic = blob[list[j]]
    BY <2>1
  <2>3. CASE i < j
    <3>1. top(i) + Scaled[blob[list[i]]] + p <= top(j)
      BY <1>1, <2>3, PicturesApart
    <3> QED BY <2>2, <3>1
  <2>4. CASE j < i
    <3>1. top(j) + Scaled[blob[list[j]]] + p <= top(i)
      BY <1>1, <2>4, PicturesApart
    <3>2. top(i) \in Int /\ top(j) \in Int /\ Scaled[blob[list[j]]] \in Nat
      BY <1>4
    <3> HIDE DEF top
    <3>3. top(j) <= top(i)
      BY <3>1, <3>2
    <3> QED BY <1>7, <2>2, <3>2, <3>3
  <2>5. CASE i = j
    <3>1. top(i) \in Int
      BY <1>4
    <3> HIDE DEF top
    <3> QED BY <1>7, <2>2, <2>5, <3>1
  <2> QED BY <1>1, <2>3, <2>4, <2>5
<1> QED BY <1>5, <1>6, <1>7

\* Before the first image is drawn the offset is 0.
LEMMA OffsetOfNone == ASSUME NEW p \in Int PROVE Offset({}, p) = 0
<1>1. PixelRows({}) = {}
  BY DEF PixelRows
<1> QED BY <1>1, FS_EmptySet DEF Offset

\* The height computed for a list without a broken image is a height of a canvas.
LEMMA HeightNatural ==
  ASSUME RowInv, NEW list \in Seq(Entity), ~Broken(list), NEW p \in Int, p >= 0
  PROVE  Height(list, p) \in Nat
<1> DEFINE T == ReadyIn(ToSet(list))
<1>1. CASE T = {}
  BY <1>1 DEF Height
<1>2. CASE T # {}
  <2>1. PICK e \in T : TRUE
    BY <1>2
  <2>a. PICK i \in 1 .. Len(list) : e = list[i]
    BY <2>1, ListFinite DEF ReadyIn
  <2>2. /\ T \in SUBSET Entity /\ IsFiniteSet(T) /\ \A x \in T : Drawable(x)
        /\ {e} \in SUBSET T /\ IsFiniteSet({e}) /\ IsFiniteSet({})
    BY <2>1, <2>a, ShownAbove, FS_Singleton, FS_EmptySet
  <2>3. Height(list, p) = Offset(T, p) - p
    BY <1>2 DEF Height
  <2> HIDE DEF T
  <2>4. Offset({} \cup {e}, p) = Offset({}, p) + Scaled[blob[e]] + p
    BY <2>1, <2>2, OffsetAdds
  <2>5. Offset({e}, p) <= Offset(T, p)
    BY <2>2, OffsetGrows
  <2>6. Offset({}, p) = 0 /\ Offset(T, p) \in Int /\ Scaled[blob[e]] \in Nat
    <3>1. e \in Entity /\ Drawable(e)
      BY <2>1, <2>2
    <3>2. Scaled[blob[e]] \in Nat
      BY <3>1, ReadyHasPicture DEF Drawable
    <3>3. Offset(T, p) \in Int
      BY <2>2, OffsetType DEF Drawable
    <3> QED BY <3>2, <3>3, OffsetOfNone
  <2>7. {} \cup {e} = {e}
    OBVIOUS
  <2> QED BY <2>3, <2>4, <2>5, <2>6, <2>7
<1> QED BY <1>1, <1>2

\* Whenever all is quiet, no image is broken and the padding is not negative, the
\* height and the drawing loop of draw agree: the pictures are apart, none is cut
\* off at the bottom, and the lowest one ends where the canvas does.
THEOREM CanvasFilled == Spec => []PicturesFillCanvas
<1>1. BaseInv /\ RedrawDue => PicturesFillCanvas
  <2> SUFFICES ASSUME BaseInv, RedrawDue, Quiet, ~Broken(images), padding >= 0
               PROVE  /\ \A p \in canvas.pictures : p.top + Scaled[p.pic] <= canvas.height
                      /\ canvas.pictures # {} =>
                           \E p \in canvas.pictures :
                             p.top + Scaled[p.pic] = canvas.height
                      /\ \A p, q \in canvas.pictures :
                           p.top < q.top => p.top + Scaled[p.pic] + padding <= q.top
    BY DEF PicturesFillCanvas
  <2>1. /\ canvas.height = Height(images, padding)
        /\ canvas.height \in Nat => canvas.pictures = Pictures(images, padding)
    BY DEF RedrawDue, ShowsAndWarns, ShowsList, Quiet, AllAtRest
  <2>2. /\ RowInv /\ images \in Seq(Entity) /\ padding \in Int
        /\ \A k, l \in 1 .. Len(images) : images[k] = images[l] => k = l
    BY PaddingAssumption DEF BaseInv, ListInv, ListedOnce, SettingsInv
  <2>3. canvas.pictures = Pictures(images, padding)
    BY <2>1, <2>2, HeightNatural
  <2> QED BY <2>1, <2>2, <2>3, PicturesFill
<1> QED
  BY <1>1, BaseInvInit, BaseInvStep, RedrawDueInit, RedrawDueStep, PTL DEF Spec

-----------------------------------------------------------------------------
(* The loops as they are written. *)

\* Two functions on positions start alike and make the same steps.
StepAlike(f, g, n) ==
  /\ f[0] = g[0]
  /\ \A i \in 1 .. n : f[i - 1] = g[i - 1] => f[i] = g[i]

\* Then they are alike.
LEMMA SameSteps ==
  ASSUME NEW n \in Nat, NEW f, NEW g, StepAlike(f, g, n)
  PROVE  f[n] = g[n]
<1> DEFINE T == {i \in 0 .. n : f[i] # g[i]}
           R == OpToRel(<, Nat)
<1> SUFFICES ASSUME f[n] # g[n] PROVE FALSE
  OBVIOUS
<1>1. T \subseteq Nat /\ n \in T
  OBVIOUS
<1>2. PICK x \in T : \A y \in T : <<y, x>> \notin R
  BY <1>1, NatLessThanWellFounded, WFMin
<1>3. \A y \in T : ~(y < x)
  BY <1>1, <1>2 DEF OpToRel
<1>4. x \in 0 .. n /\ x # 0 /\ f[x] # g[x]
  BY DEF StepAlike
<1>5. x \in 1 .. n /\ x - 1 \in 0 .. n /\ x - 1 < x
  BY <1>4
<1>6. f[x - 1] = g[x - 1]
  BY <1>3, <1>5
<1> QED BY <1>4, <1>5, <1>6 DEF StepAlike

\* The images ready at the first i positions.
Shown(list, i) == ReadyIn(Above(list, i + 1))

\* One position more shows one image more, when that one is ready.
LEMMA ShownGrows ==
  ASSUME NEW list \in Seq(Entity), NEW i \in 1 .. Len(list)
  PROVE  /\ list[i] \in Entity
         /\ Shown(list, i - 1) = ReadyIn(Above(list, i))
         /\ Shown(list, i) = IF ready(list[i]) THEN Shown(list, i - 1) \cup {list[i]}
                                               ELSE Shown(list, i - 1)
         /\ (\A k, l \in 1 .. Len(list) : list[k] = list[l] => k = l)
              => list[i] \notin Shown(list, i - 1)
<1>1. Len(list) \in Nat /\ list[i] \in Entity
  BY LenProperties
<1>2. i - 1 + 1 = i /\ i + 1 - 1 = i
  BY <1>1
<1>3. Shown(list, i - 1) = ReadyIn({list[j] : j \in 1 .. i - 1})
  BY <1>2 DEF Shown, Above
<1>4. Shown(list, i) = ReadyIn({list[j] : j \in 1 .. i})
  BY <1>2 DEF Shown, Above
<1>5. {list[j] : j \in 1 .. i} = {list[j] : j \in 1 .. i - 1} \cup {list[i]}
  <2>1. \A j : j \in 1 .. i <=> j \in 1 .. i - 1 \/ j = i
    BY <1>1
  <2> QED BY <2>1
<1>6. \A j \in 1 .. i - 1 : j \in 1 .. Len(list) /\ j # i
  BY <1>1
<1> QED BY <1>1, <1>2, <1>3, <1>4, <1>5, <1>6 DEF ReadyIn, Shown

\* Nothing is shown above the first position, and at the last one the ready images
\* of the list are.
LEMMA ShownEnds ==
  ASSUME NEW list \in Seq(Entity)
  PROVE  /\ Shown(list, 0) = {}
         /\ Shown(list, Len(list)) = ReadyIn(ToSet(list))
         /\ \A i \in 0 .. Len(list) :
              /\ Shown(list, i) \in SUBSET Entity
              /\ IsFiniteSet(Shown(list, i))
              /\ Shown(list, i) = {e \in {list[j] : j \in 1 .. i} : ready(e)}
<1>1. /\ Len(list) \in Nat
      /\ \A i \in 0 .. Len(list) : i + 1 - 1 = i
  BY LenProperties
<1>2. \A i \in 0 .. Len(list) : Shown(list, i) = {e \in {list[j] : j \in 1 .. i} : ready(e)}
  BY <1>1 DEF Shown, Above, ReadyIn
<1>3. Shown(list, 0) = {}
  BY <1>1, <1>2
<1>4. Shown(list, Len(list)) = ReadyIn(ToSet(list))
  BY <1>1, <1>2, ListFinite DEF ReadyIn
<1>5. \A i \in 0 .. Len(list) : Shown(list, i) \in SUBSET ToSet(list)
  <2> TAKE i \in 0 .. Len(list)
  <2>1. \A j \in 1 .. i : j \in 1 .. Len(list)
    BY <1>1
  <2> QED BY <1>2, <2>1, ListFinite
<1> QED BY <1>2, <1>3, <1>4, <1>5, ListFinite, FS_Subset

\* The offset is 0 as long as nothing is drawn.
\* What reduce returns after i positions, in terms of the images shown there.
MemoAt(list, p, i) ==
  LET shown == Shown(list, i) IN
  [height  |-> IF \E e \in shown : img[e] = "broken" THEN NaN
               ELSE IF shown = {} THEN 0 ELSE Offset(shown, p) - p,
   isFirst |-> shown = {}]

\* The callback of reduce goes from the memo of one position to that of the next.
LEMMA ReduceStepIs ==
  ASSUME RowInv, NEW list \in Seq(Entity),
         \A k, l \in 1 .. Len(list) : list[k] = list[l] => k = l,
         NEW p \in Int, NEW i \in 1 .. Len(list)
  PROVE  MemoAt(list, p, i) = ReduceStep(p, MemoAt(list, p, i - 1), list[i])
<1> DEFINE S == Shown(list, i - 1)
           T == Shown(list, i)
           e == list[i]
           memo == MemoAt(list, p, i - 1)
<1>1. /\ e \in Entity /\ e \notin S
      /\ T = IF ready(e) THEN S \cup {e} ELSE S
  BY ShownGrows
<1>2. /\ S \in SUBSET Entity /\ IsFiniteSet(S)
      /\ \A x \in S : ready(x)
  <2>1. i - 1 \in 0 .. Len(list)
    BY LenProperties
  <2>2. /\ Shown(list, i - 1) \in SUBSET Entity
        /\ IsFiniteSet(Shown(list, i - 1))
        /\ Shown(list, i - 1) = {x \in {list[j] : j \in 1 .. i - 1} : ready(x)}
    BY <2>1, ShownEnds
  <2> QED BY <2>2
<1>3. /\ memo = [height  |-> IF \E x \in S : img[x] = "broken" THEN NaN
                             ELSE IF S = {} THEN 0 ELSE Offset(S, p) - p,
                 isFirst |-> S = {}]
      /\ MemoAt(list, p, i)
           = [height  |-> IF \E x \in T : img[x] = "broken" THEN NaN
                          ELSE IF T = {} THEN 0 ELSE Offset(T, p) - p,
              isFirst |-> T = {}]
  BY DEF MemoAt
<1> HIDE DEF S, T, e, memo
<1>4. CASE ~ready(e)
  <2>1. T = S
    BY <1>1, <1>4
  <2>2. MemoAt(list, p, i) = memo
    BY <1>3, <2>1
  <2> QED BY <1>4, <2>2 DEF ReduceStep, e, memo
<1>5. CASE ready(e) /\ \E x \in T : img[x] = "broken"
  <2>1. T = S \cup {e}
    BY <1>1, <1>5
  <2>2. MemoAt(list, p, i) = [height |-> NaN, isFirst |-> FALSE]
    <3>1. (T = {}) = FALSE
      BY <2>1
    <3> QED BY <1>3, <1>5, <3>1
  <2>3. NaN \in {memo.height, ScaledHeight(e)}
    <3>1. CASE img[e] = "broken"
      BY <3>1 DEF ScaledHeight
    <3>2. CASE \E x \in S : img[x] = "broken"
      BY <1>3, <3>2
    <3> QED BY <1>5, <2>1, <3>1, <3>2
  <2> QED BY <1>5, <2>2, <2>3 DEF ReduceStep, e, memo
<1>6. CASE ready(e) /\ ~ \E x \in T : img[x] = "broken"
  <2>1. T = S \cup {e}
    BY <1>1, <1>6
  <2>2. Drawable(e) /\ \A x \in S : Drawable(x)
    BY <1>2, <1>6, <2>1 DEF Drawable
  <2>3. /\ Scaled[blob[e]] \in Int
        /\ Offset(S, p) \in Int
        /\ ScaledHeight(e) = Scaled[blob[e]]
    BY <1>1, <1>2, <2>2, ReadyHasPicture, OffsetType DEF Drawable, ScaledHeight
  <2>4. Offset(T, p) = Offset(S, p) + Scaled[blob[e]] + p
    BY <1>1, <1>2, <2>1, <2>2, OffsetAdds
  <2>5. MemoAt(list, p, i) = [height |-> Offset(T, p) - p, isFirst |-> FALSE]
    <3>1. (T = {}) = FALSE
      BY <2>1
    <3> QED BY <1>3, <1>6, <3>1
  <2>6. memo.height = IF S = {} THEN 0 ELSE Offset(S, p) - p
    BY <1>3, <1>6, <2>1
  <2>7. memo.isFirst = (S = {})
    BY <1>3
  <2>8. ~ NaN \in {memo.height, ScaledHeight(e)}
    BY <2>3, <2>6, NaNAssumption
  <2>9. ReduceStep(p, memo, e)
          = [height  |-> memo.height + Scaled[blob[e]] + (IF memo.isFirst THEN 0 ELSE p),
             isFirst |-> FALSE]
    BY <1>6, <2>3, <2>8 DEF ReduceStep
  <2>10. memo.height + Scaled[blob[e]] + (IF memo.isFirst THEN 0 ELSE p)
           = Offset(T, p) - p
    <3>1. CASE S = {}
      <4>1. Offset(S, p) = 0
        BY <3>1, OffsetOfNone
      <4>2. memo.height = 0 /\ memo.isFirst
        BY <2>6, <2>7, <3>1
      <4>3. Offset(T, p) = 0 + Scaled[blob[e]] + p
        BY <2>4, <4>1
      <4> QED BY <2>3, <4>2, <4>3
    <3>2. CASE S # {}
      <4>1. memo.height = Offset(S, p) - p /\ ~memo.isFirst
        BY <2>6, <2>7, <3>2
      <4> QED BY <2>3, <2>4, <4>1
    <3> QED BY <3>1, <3>2
  <2> QED BY <2>5, <2>9, <2>10 DEF e, memo
<1> QED BY <1>4, <1>5, <1>6

\* The reduce computes the height of the layout.
LEMMA ReduceIsHeight ==
  ASSUME RowInv, NEW list \in Seq(Entity),
         \A k, l \in 1 .. Len(list) : list[k] = list[l] => k = l,
         NEW p \in Int
  PROVE  ReduceHeight(list, p) = Height(list, p)
<1> DEFINE n == Len(list)
           f == Reduce(list, p)
           g == [i \in 0 .. n |-> MemoAt(list, p, i)]
           after(h) == [i \in 0 .. n |-> IF i = 0 THEN [height |-> 0, isFirst |-> TRUE]
                                         ELSE ReduceStep(p, h[i - 1], list[i])]
<1>1. n \in Nat
  BY LenProperties
<1>2. MemoAt(list, p, 0) = [height |-> 0, isFirst |-> TRUE]
  <2>1. Shown(list, 0) = {}
    BY ShownEnds
  <2>2. (Shown(list, 0) = {}) = TRUE /\ ~ \E e \in Shown(list, 0) : img[e] = "broken"
    BY <2>1
  <2> QED BY <2>2 DEF MemoAt
<1>3. \A i \in 1 .. n : MemoAt(list, p, i) = ReduceStep(p, MemoAt(list, p, i - 1), list[i])
  BY ReduceStepIs
<1>4. g = after(g)
  <2>1. ASSUME NEW i \in 0 .. n PROVE g[i] = after(g)[i]
    <3>1. CASE i = 0
      BY <1>2, <3>1
    <3>2. CASE i # 0
      <4>1. i \in 1 .. n /\ i - 1 \in 0 .. n
        BY <1>1, <3>2
      <4> QED BY <1>3, <3>2, <4>1
    <3> QED BY <3>1, <3>2
  <2> QED BY <2>1
<1>5. f = after(f)
  <2>1. f = CHOOSE h : h = after(h)
    BY DEF Reduce
  <2> HIDE DEF f, g, after
  <2> QED BY <1>4, <2>1
<1>6. f[0] = g[0]
  BY <1>1, <1>2, <1>5
<1>7. ASSUME NEW i \in 1 .. n, f[i - 1] = g[i - 1] PROVE f[i] = g[i]
  <2>1. i \in 0 .. n /\ i # 0 /\ i - 1 \in 0 .. n
    BY <1>1
  <2>2. f[i] = ReduceStep(p, f[i - 1], list[i])
    <3> HIDE DEF f
    <3> QED BY <1>5, <2>1
  <2>3. g[i] = ReduceStep(p, g[i - 1], list[i])
    BY <1>3, <2>1
  <2> HIDE DEF f, g
  <2> QED BY <1>7, <2>2, <2>3
<1>8. f[n] = g[n]
  <2> HIDE DEF f, g, n
  <2>1. StepAlike(f, g, n)
    BY <1>6, <1>7 DEF StepAlike
  <2> QED BY <1>1, <2>1, SameSteps
<1>9. f[n] = MemoAt(list, p, n)
  BY <1>1, <1>8
<1>10. Shown(list, n) = ReadyIn(ToSet(list))
  BY ShownEnds
<1>11. MemoAt(list, p, n).height = Height(list, p)
  BY <1>10 DEF MemoAt, Height, Broken
<1> QED BY <1>9, <1>11 DEF ReduceHeight

\* The positions drawn among the first i, and the images there.
DrawnTo(list, i) == {j \in DrawnAt(list) : j <= i}

DrawnImages(list, i) == {list[j] : j \in DrawnTo(list, i)}

\* Until a broken image is met, what is drawn is what is shown.
LEMMA DrawnGrows ==
  ASSUME NEW list \in Seq(Entity), NEW i \in 1 .. Len(list)
  PROVE  LET S    == Shown(list, i - 1)
             ends == \E x \in S : img[x] = "broken"
         IN /\ ends \/ ~Drawable(list[i]) => DrawnTo(list, i) = DrawnTo(list, i - 1)
            /\ ~ends /\ Drawable(list[i]) =>
                 /\ DrawnTo(list, i) = DrawnTo(list, i - 1) \cup {i}
                 /\ DrawnImages(list, i - 1) = S
<1> DEFINE S == Shown(list, i - 1)
           ends == \E x \in S : img[x] = "broken"
<1>1. /\ Len(list) \in Nat /\ i - 1 \in 0 .. Len(list) /\ i \in 1 .. Len(list)
      /\ \A j : j \in 1 .. i <=> j \in 1 .. i - 1 \/ j = i
  BY LenProperties
<1>2. S = {e \in {list[j] : j \in 1 .. i - 1} : ready(e)}
  BY <1>1, ShownEnds
<1>3. ends <=> \E j \in 1 .. i - 1 : ready(list[j]) /\ img[list[j]] = "broken"
  BY <1>2
<1> HIDE DEF S, ends
<1>4. i \in DrawnAt(list) <=> ~ends /\ Drawable(list[i])
  BY <1>1, <1>3 DEF DrawnAt, Drawable
<1>5. /\ i \in DrawnAt(list) => DrawnTo(list, i) = DrawnTo(list, i - 1) \cup {i}
      /\ i \notin DrawnAt(list) => DrawnTo(list, i) = DrawnTo(list, i - 1)
  <2>1. \A j \in DrawnAt(list) : j \in Int
    BY <1>1 DEF DrawnAt
  <2>2. \A j \in DrawnAt(list) : j <= i <=> j <= i - 1 \/ j = i
    BY <1>1, <2>1
  <2>3. i <= i /\ ~(i <= i - 1)
    BY <1>1
  <2> QED BY <2>2, <2>3 DEF DrawnTo
<1>6. ASSUME ~ends PROVE DrawnImages(list, i - 1) = S
  <2>1. \A j \in 1 .. i - 1 :
          /\ j \in 1 .. Len(list)
          /\ \A k \in 1 .. j : k \in 1 .. i - 1
    BY <1>1
  <2>2. \A j \in 1 .. i - 1 : j \in DrawnAt(list) <=> ready(list[j])
    BY <1>3, <1>6, <2>1 DEF DrawnAt
  <2>3. \A j : j \in DrawnTo(list, i - 1) <=> j \in 1 .. i - 1 /\ ready(list[j])
    <3>1. \A j \in DrawnAt(list) : j <= i - 1 <=> j \in 1 .. i - 1
      BY <1>1 DEF DrawnAt
    <3>2. \A j : j \in DrawnTo(list, i - 1) <=> j \in DrawnAt(list) /\ j \in 1 .. i - 1
      BY <3>1, <2>1, <2>2, <1>1 DEF DrawnTo
    <3> QED BY <2>2, <3>2
  <2> QED BY <1>2, <2>3 DEF DrawnImages
<1> QED BY <1>4, <1>5, <1>6 DEF S, ends

\* What forEach has done after i positions.
AccAt(list, p, i) ==
  [offset   |-> Offset(DrawnImages(list, i), p),
   pictures |-> {[pic |-> blob[list[j]], top |-> Offset(ReadyIn(Above(list, j)), p)] :
                   j \in DrawnTo(list, i)},
   thrown   |-> \E e \in Shown(list, i) : img[e] = "broken"]

\* The callback of forEach goes from one position to the next.
LEMMA DrawStepIs ==
  ASSUME RowInv, NEW list \in Seq(Entity),
         \A k, l \in 1 .. Len(list) : list[k] = list[l] => k = l,
         NEW p \in Int, NEW i \in 1 .. Len(list)
  PROVE  AccAt(list, p, i) = DrawStep(p, AccAt(list, p, i - 1), list[i])
<1> DEFINE S == Shown(list, i - 1)
           T == Shown(list, i)
           D == DrawnTo(list, i - 1)
           e == list[i]
           acc == AccAt(list, p, i - 1)
           of(j) == [pic |-> blob[list[j]], top |-> Offset(ReadyIn(Above(list, j)), p)]
           pics(U) == {of(j) : j \in U}
           ends == \E x \in S : img[x] = "broken"
           ended == \E x \in T : img[x] = "broken"
<1>1. /\ e \in Entity /\ e \notin S
      /\ S = ReadyIn(Above(list, i))
      /\ T = IF ready(e) THEN S \cup {e} ELSE S
  BY ShownGrows
<1>2. /\ S \in SUBSET Entity /\ IsFiniteSet(S)
      /\ \A x \in S : ready(x)
  <2>1. i - 1 \in 0 .. Len(list)
    BY LenProperties
  <2>2. /\ Shown(list, i - 1) \in SUBSET Entity
        /\ IsFiniteSet(Shown(list, i - 1))
        /\ Shown(list, i - 1) = {x \in {list[j] : j \in 1 .. i - 1} : ready(x)}
    BY <2>1, ShownEnds
  <2> QED BY <2>2
<1>3. /\ ends \/ ~Drawable(e) => DrawnTo(list, i) = D
      /\ ~ends /\ Drawable(e) => DrawnTo(list, i) = D \cup {i} /\ DrawnImages(list, i - 1) = S
  BY DrawnGrows
<1>4. /\ acc = [offset   |-> Offset(DrawnImages(list, i - 1), p),
                pictures |-> pics(D), thrown |-> ends]
      /\ AccAt(list, p, i)
           = [offset   |-> Offset(DrawnImages(list, i), p),
              pictures |-> pics(DrawnTo(list, i)),
              thrown   |-> ended]
  BY DEF AccAt
<1>5. DrawnTo(list, i) = D => DrawnImages(list, i) = DrawnImages(list, i - 1)
  BY DEF DrawnImages
<1>6. of(i) = [pic |-> blob[e], top |-> Offset(S, p)]
  BY <1>1
<1>7. DrawnImages(list, i - 1) = {list[j] : j \in D}
      /\ DrawnImages(list, i) = {list[j] : j \in DrawnTo(list, i)}
  BY DEF DrawnImages
<1> HIDE DEF S, T, D, acc, of, pics, ends, ended
<1>8. acc.thrown = ends
  BY <1>4
<1>9. CASE ends \/ ~ready(e)
  <2>1. DrawnTo(list, i) = D
    BY <1>3, <1>9 DEF Drawable
  <2>2. ended = ends
    BY <1>1, <1>9 DEF ends, ended
  <2>3. AccAt(list, p, i) = acc
    BY <1>4, <1>5, <2>1, <2>2
  <2>4. DrawStep(p, acc, e) = acc
    BY <1>8, <1>9 DEF DrawStep
  <2> QED BY <2>3, <2>4 DEF acc
<1>10. CASE ~ends /\ ready(e) /\ img[e] = "broken"
  <2>1. DrawnTo(list, i) = D
    BY <1>3, <1>10 DEF Drawable
  <2>2. ended = TRUE
    BY <1>1, <1>10 DEF ended
  <2>3. DrawStep(p, acc, e)
          = [offset |-> acc.offset, pictures |-> acc.pictures, thrown |-> TRUE]
    BY <1>8, <1>10 DEF DrawStep
  <2>4. AccAt(list, p, i) = [offset   |-> Offset(DrawnImages(list, i - 1), p),
                             pictures |-> pics(D), thrown |-> TRUE]
    BY <1>4, <1>5, <2>1, <2>2
  <2>5. acc.offset = Offset(DrawnImages(list, i - 1), p) /\ acc.pictures = pics(D)
    BY <1>4
  <2> QED BY <2>3, <2>4, <2>5 DEF acc
<1>11. CASE ~ends /\ Drawable(e)
  <2>1. DrawnTo(list, i) = D \cup {i} /\ DrawnImages(list, i - 1) = S
    BY <1>3, <1>11
  <2>2. DrawnImages(list, i) = S \cup {e}
    BY <1>7, <2>1
  <2>3. \A x \in S : Drawable(x)
    BY <1>2, <1>11 DEF Drawable, ends
  <2>4. Offset(S \cup {e}, p) = Offset(S, p) + Scaled[blob[e]] + p
    BY <1>1, <1>2, <1>11, <2>3, OffsetAdds
  <2>5. ended = FALSE
    BY <1>1, <1>11 DEF Drawable, ends, ended
  <2>6. pics(DrawnTo(list, i))
          = pics(D) \cup {[pic |-> blob[e], top |-> Offset(S, p)]}
    BY <1>6, <2>1 DEF pics
  <2>7. acc.offset = Offset(S, p) /\ acc.pictures = pics(D)
    BY <1>4, <2>1
  <2>8. DrawStep(p, acc, e)
          = [offset   |-> acc.offset + Scaled[blob[e]] + p,
             pictures |-> acc.pictures \cup {[pic |-> blob[e], top |-> acc.offset]},
             thrown   |-> FALSE]
    BY <1>8, <1>11 DEF DrawStep, Drawable
  <2>9. AccAt(list, p, i) = [offset   |-> Offset(S \cup {e}, p),
                             pictures |-> pics(DrawnTo(list, i)),
                             thrown   |-> FALSE]
    BY <1>4, <2>2, <2>5
  <2> QED BY <2>4, <2>6, <2>7, <2>8, <2>9 DEF acc
<1> QED BY <1>9, <1>10, <1>11 DEF Drawable

\* The forEach draws the pictures of the layout.
LEMMA LoopDrawsPictures ==
  ASSUME RowInv, NEW list \in Seq(Entity),
         \A k, l \in 1 .. Len(list) : list[k] = list[l] => k = l,
         NEW p \in Int
  PROVE  DrawnPictures(list, p) = Pictures(list, p)
<1> DEFINE n == Len(list)
           f == DrawLoop(list, p)
           g == [i \in 0 .. n |-> AccAt(list, p, i)]
           start == [offset |-> 0, pictures |-> {}, thrown |-> FALSE]
           after(h) == [i \in 0 .. n |-> IF i = 0 THEN start
                                         ELSE DrawStep(p, h[i - 1], list[i])]
<1>1. n \in Nat
  BY LenProperties
<1>2. AccAt(list, p, 0) = start
  <2>1. Shown(list, 0) = {}
    BY ShownEnds
  <2>2. (\E e \in Shown(list, 0) : img[e] = "broken") = FALSE
    BY <2>1
  <2>3. DrawnTo(list, 0) = {}
    BY <1>1 DEF DrawnTo, DrawnAt
  <2>4. DrawnImages(list, 0) = {}
    BY <2>3 DEF DrawnImages
  <2> QED BY <2>2, <2>3, <2>4, OffsetOfNone DEF AccAt
<1>3. \A i \in 1 .. n : AccAt(list, p, i) = DrawStep(p, AccAt(list, p, i - 1), list[i])
  BY DrawStepIs
<1> HIDE DEF start
<1>4. g = after(g)
  <2>1. ASSUME NEW i \in 0 .. n PROVE g[i] = after(g)[i]
    <3>1. CASE i = 0
      BY <1>2, <3>1
    <3>2. CASE i # 0
      <4>1. i \in 1 .. n /\ i - 1 \in 0 .. n
        BY <1>1, <3>2
      <4> QED BY <1>3, <3>2, <4>1
    <3> QED BY <3>1, <3>2
  <2> QED BY <2>1
<1>5. f = after(f)
  <2>1. f = CHOOSE h : h = after(h)
    BY DEF DrawLoop, start
  <2> HIDE DEF f, g, after
  <2> QED BY <1>4, <2>1
<1>6. f[0] = g[0]
  BY <1>1, <1>2, <1>5
<1>7. ASSUME NEW i \in 1 .. n, f[i - 1] = g[i - 1] PROVE f[i] = g[i]
  <2>1. i \in 0 .. n /\ i # 0 /\ i - 1 \in 0 .. n
    BY <1>1
  <2>2. f[i] = DrawStep(p, f[i - 1], list[i])
    <3> HIDE DEF f
    <3> QED BY <1>5, <2>1
  <2>3. g[i] = DrawStep(p, g[i - 1], list[i])
    BY <1>3, <2>1
  <2> HIDE DEF f, g
  <2> QED BY <1>7, <2>2, <2>3
<1>8. f[n] = g[n]
  <2> HIDE DEF f, g, n
  <2>1. StepAlike(f, g, n)
    BY <1>6, <1>7 DEF StepAlike
  <2> QED BY <1>1, <2>1, SameSteps
<1>9. f[n] = AccAt(list, p, n)
  BY <1>1, <1>8
<1>10. DrawnTo(list, n) = DrawnAt(list)
  BY <1>1 DEF DrawnTo, DrawnAt
<1>11. AccAt(list, p, n).pictures = Pictures(list, p)
  BY <1>10 DEF AccAt, Pictures
<1> QED BY <1>9, <1>11 DEF DrawnPictures

-----------------------------------------------------------------------------
(* The layout is the loops', for any list and in every state of the page. *)

\* The rows and the list that the loops are given.
LoopInv ==
  /\ RowInv
  /\ rows \in Seq(Entity)
  /\ \A k, l \in 1 .. Len(rows) : rows[k] = rows[l] => k = l
  /\ gap \in Int

\* LoopSpec chooses nothing else.
LEMMA LoopInvariant == LoopSpec => []LoopInv
<1>1. LoopInit => LoopInv
  <2> SUFFICES ASSUME LoopInit PROVE LoopInv
    OBVIOUS
  <2>1. ItemTypeOK
    BY NothingAssumption DEF LoopInit, ItemTypeOK, Blob
  <2>2. RowInv
    <3>1. \A e \in Entity : Mounted(e)
      BY DEF LoopInit, Mounted
    <3>2. StatusTruthful
      BY DEF LoopInit, StatusTruthful
    <3> QED BY <2>1, <3>1, <3>2 DEF RowInv, LoopInit, ItemTypeOK, Mounted, Blob
  <2>3. rows \in Seq(Entity) /\ IsInjective(rows)
    BY ListsAssumption DEF LoopInit
  <2>4. \A k, l \in 1 .. Len(rows) : rows[k] = rows[l] => k = l
    BY <2>3, LenProperties DEF IsInjective
  <2> QED BY <2>2, <2>3, <2>4 DEF LoopInv, LoopInit
<1>2. LoopInv /\ [ChoosePadding]_loopVars => LoopInv'
  <2> SUFFICES ASSUME LoopInv, [ChoosePadding]_loopVars PROVE LoopInv'
    OBVIOUS
  <2>1. UNCHANGED <<itemVars, rows>> /\ gap' \in Int
    BY PaddingAssumption DEF ChoosePadding, loopVars, LoopInv
  <2>2. RowInv'
    BY <2>1
       DEF LoopInv, RowInv, ItemTypeOK, StatusTruthful, Mounted, AtRest, itemVars
  <2> QED BY <2>1, <2>2 DEF LoopInv
<1> QED BY <1>1, <1>2, PTL DEF LoopSpec

\* The reduce of draw, as it is written, computes the height of the layout: for any
\* list of rows, in whatever states they are, and any padding.
THEOREM ReduceComputesHeight == LoopSpec => []HeightIsReduce
<1>1. LoopInv => HeightIsReduce
  BY ReduceIsHeight DEF LoopInv, HeightIsReduce
<1> QED BY <1>1, LoopInvariant, PTL

\* The forEach of the paint, as it is written, draws the pictures of the layout and
\* stops at the same one.
THEOREM ForEachDrawsPictures == LoopSpec => []PicturesAreDrawn
<1>1. LoopInv => PicturesAreDrawn
  BY LoopDrawsPictures DEF LoopInv, PicturesAreDrawn
<1> QED BY <1>1, LoopInvariant, PTL

\* So whatever is shown of the layout in the application is true of the loops: in
\* every state of the page a draw would compute this height and a paint these
\* pictures.
THEOREM PageDrawsByLoops ==
  Spec => [](/\ Height(images, padding) = ReduceHeight(images, padding)
             /\ Pictures(images, padding) = DrawnPictures(images, padding))
<1>1. BaseInv => /\ Height(images, padding) = ReduceHeight(images, padding)
                 /\ Pictures(images, padding) = DrawnPictures(images, padding)
  <2> SUFFICES ASSUME BaseInv
               PROVE  /\ Height(images, padding) = ReduceHeight(images, padding)
                      /\ Pictures(images, padding) = DrawnPictures(images, padding)
    OBVIOUS
  <2>1. /\ RowInv /\ images \in Seq(Entity) /\ padding \in Int
        /\ \A k, l \in 1 .. Len(images) : images[k] = images[l] => k = l
    BY PaddingAssumption DEF BaseInv, ListInv, ListedOnce, SettingsInv
  <2> QED BY <2>1, ReduceIsHeight, LoopDrawsPictures
<1> QED BY <1>1, BaseInvInit, BaseInvStep, PTL DEF Spec
=============================================================================
