--------------------------- MODULE PreviewProofs ---------------------------
(***************************************************************************)
(* Proofs about the layout: what the height and the places of the pictures *)
(* are, for any list of rows.                                              *)
(***************************************************************************)
EXTENDS Preview, ImageItemProofs, FiniteSetTheorems, SequenceTheorems

\* The rows of a finite set of images can be counted.
LEMMA PixelRowsFinite ==
  ASSUME NEW S, IsFiniteSet(S), \A e \in S : Scaled[blob[e]] \in Nat
  PROVE  /\ IsFiniteSet(PixelRows(S))
         /\ Cardinality(PixelRows(S)) \in Nat
         /\ Cardinality(S) \in Nat
<1> DEFINE rowsOf(e) == {e} \X (1 .. Scaled[blob[e]])
           f == [e \in S |-> rowsOf(e)]
           T == {rowsOf(e) : e \in S}
<1>1. \A e \in S : IsFiniteSet(rowsOf(e))
  <2> TAKE e \in S
  <2>1. IsFiniteSet({e})
    BY FS_Singleton
  <2>2. 1 \in Int /\ Scaled[blob[e]] \in Int
    OBVIOUS
  <2>3. IsFiniteSet(1 .. Scaled[blob[e]])
    BY <2>2, FS_Interval
  <2> QED BY <2>1, <2>3, FS_Product
<1>2. IsFiniteSet(T)
  <2>1. f \in Surjection(S, T)
    BY DEF Surjection
  <2> QED BY <2>1, FS_Surjection
<1>3. \A X \in T : IsFiniteSet(X)
  BY <1>1
<1>4. IsFiniteSet(PixelRows(S))
  BY <1>2, <1>3, FS_UNION DEF PixelRows
<1> QED BY <1>4, FS_CardinalityType

\* A list has finitely many entities.
LEMMA ListFinite ==
  ASSUME NEW list \in Seq(Entity)
  PROVE  /\ ToSet(list) \in SUBSET Entity
         /\ IsFiniteSet(ToSet(list))
         /\ ToSet(list) = {list[i] : i \in 1 .. Len(list)}
<1>1. /\ Len(list) \in Nat /\ DOMAIN list = 1 .. Len(list)
      /\ list \in [1 .. Len(list) -> Entity]
  BY LenProperties
<1>2. list \in Surjection(1 .. Len(list), ToSet(list))
  BY <1>1 DEF Surjection, ToSet
<1>3. IsFiniteSet(1 .. Len(list))
  BY <1>1, FS_Interval
<1> QED BY <1>1, <1>2, <1>3, FS_Surjection DEF ToSet

\* An image that is ready and not broken has a picture of known height.
LEMMA ReadyHasPicture ==
  ASSUME RowInv, NEW e \in Entity, ready(e), img[e] # "broken"
  PROVE  /\ img[e] = "available"
         /\ blob[e] \in Source
         /\ Scaled[blob[e]] \in Nat \ {0}
BY ScaledAssumption DEF RowInv, ItemTypeOK, ready, complete

\* The offset below a finite set of such images is an integer.
LEMMA OffsetType ==
  ASSUME RowInv, NEW S \in SUBSET Entity, IsFiniteSet(S),
         \A e \in S : ready(e) /\ img[e] # "broken",
         NEW p \in Int
  PROVE  Offset(S, p) \in Int
<1>1. \A e \in S : Scaled[blob[e]] \in Nat
  BY ReadyHasPicture
<1> QED BY <1>1, PixelRowsFinite DEF Offset

\* A height is an integer, unless a broken image is listed: then it is NaN.
LEMMA HeightType ==
  ASSUME RowInv, NEW list \in Seq(Entity), NEW p \in Int
  PROVE  /\ Height(list, p) \in Int \cup {NaN}
         /\ Height(list, p) = NaN <=> Broken(list)
<1>1. CASE Broken(list)
  BY <1>1 DEF Height
<1>2. CASE ~Broken(list)
  <2> DEFINE S == ReadyIn(ToSet(list))
  <2>1. S \in SUBSET Entity /\ IsFiniteSet(S)
    BY ListFinite, FS_Subset DEF ReadyIn
  <2>2. \A e \in S : ready(e) /\ img[e] # "broken"
    BY <1>2 DEF Broken, ReadyIn
  <2>3. Offset(S, p) \in Int
    BY <2>1, <2>2, OffsetType
  <2> QED BY <1>2, <2>3, NaNAssumption DEF Height
<1> QED BY <1>1, <1>2

\* What a paint draws are pictures at integer offsets.
LEMMA PicturesType ==
  ASSUME RowInv, NEW list \in Seq(Entity), NEW p \in Int
  PROVE  Pictures(list, p) \in SUBSET [pic : Source, top : Int]
<1> SUFFICES ASSUME NEW i \in DrawnAt(list)
             PROVE  /\ blob[list[i]] \in Source
                    /\ Offset(ReadyIn(Above(list, i)), p) \in Int
  BY DEF Pictures
<1>0. /\ Len(list) \in Nat /\ i \in 1 .. Len(list)
      /\ \A j \in 1 .. Len(list) : list[j] \in Entity
  BY LenProperties DEF DrawnAt
<1>1. ready(list[i]) /\ img[list[i]] # "broken"
  BY <1>0 DEF DrawnAt
<1>2. blob[list[i]] \in Source
  BY <1>0, <1>1, ReadyHasPicture
<1> DEFINE S == ReadyIn(Above(list, i))
<1>3. S \in SUBSET ToSet(list)
  BY <1>0, ListFinite DEF ReadyIn, Above
<1>4. S \in SUBSET Entity /\ IsFiniteSet(S)
  BY <1>3, ListFinite, FS_Subset
<1>5. \A e \in S : ready(e) /\ img[e] # "broken"
  BY <1>0 DEF ReadyIn, Above, DrawnAt
<1> QED BY <1>2, <1>4, <1>5, OffsetType
=============================================================================
