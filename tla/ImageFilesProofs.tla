--------------------------- MODULE ImageFilesProofs ---------------------------
(***************************************************************************)
(* The invariants of ImageFiles for any number of files, pieces, scans,    *)
(* units, people and handlers of portraits.  A step that writes pieces and *)
(* scans cannot touch the files of units and people, and the other way     *)
(* round, because the two never name the same file: so there is a lemma    *)
(* for the steps of either kind, and each handler is shown to be one.      *)
(***************************************************************************)
EXTENDS ImageFiles, SequenceTheorems, TLAPS

-----------------------------------------------------------------------------
(* Lists of pictures *)

LEMMA ShortSeqIsSeq ==
  ASSUME NEW s
  PROVE  s \in ShortSeq <=> s \in Seq(Files) /\ Len(s) <= MaxImages
<1>1. ASSUME s \in ShortSeq PROVE s \in Seq(Files) /\ Len(s) <= MaxImages
  <2>1. PICK n \in 0..MaxImages : s \in [1..n -> Files]
    BY <1>1 DEF ShortSeq
  <2>2. n \in Nat /\ n <= MaxImages
    BY <2>1, ImagesAssumption
  <2>3. s \in Seq(Files)
    BY <2>1, <2>2, SeqDef
  <2>4. DOMAIN s = 1..Len(s) /\ Len(s) \in Nat
    BY <2>3, LenProperties
  <2>5. Len(s) = n
    BY <2>1, <2>2, <2>4
  <2>. QED BY <2>2, <2>3, <2>5
<1>2. ASSUME s \in Seq(Files), Len(s) <= MaxImages PROVE s \in ShortSeq
  <2>1. Len(s) \in Nat /\ s \in [1..Len(s) -> Files]
    BY <1>2, LenProperties
  <2>2. Len(s) \in 0..MaxImages
    BY <1>2, <2>1, ImagesAssumption
  <2>. QED BY <2>1, <2>2 DEF ShortSeq
<1>. QED BY <1>1, <1>2

LEMMA HasRoom ==
  ASSUME NEW s \in ShortSeq, Len(s) < MaxImages
  PROVE  0 < MaxImages
<1>1. Len(s) \in Nat
  BY ShortSeqIsSeq, LenProperties
<1>. QED BY <1>1, ImagesAssumption

LEMMA InSeqOfConcat ==
  ASSUME NEW s \in Seq(Files), NEW t \in Seq(Files)
  PROVE  InSeq(s \o t) = InSeq(s) \cup InSeq(t)
<1>1. /\ Len(s \o t) = Len(s) + Len(t) /\ Len(s) \in Nat /\ Len(t) \in Nat
      /\ DOMAIN s = 1..Len(s) /\ DOMAIN t = 1..Len(t)
      /\ DOMAIN (s \o t) = 1..(Len(s) + Len(t))
      /\ \A i \in 1..(Len(s) + Len(t)) :
            (s \o t)[i] = IF i <= Len(s) THEN s[i] ELSE t[i - Len(s)]
  BY ConcatProperties, LenProperties
<1>2. InSeq(s) \subseteq InSeq(s \o t)
  BY <1>1 DEF InSeq
<1>3. InSeq(t) \subseteq InSeq(s \o t)
  <2>. SUFFICES ASSUME NEW i \in 1..Len(t) PROVE t[i] \in InSeq(s \o t)
    BY <1>1 DEF InSeq
  <2>1. Len(s) + i \in 1..(Len(s) + Len(t)) /\ (s \o t)[Len(s) + i] = t[i]
    BY <1>1
  <2>. QED BY <1>1, <2>1 DEF InSeq
<1>4. InSeq(s \o t) \subseteq InSeq(s) \cup InSeq(t)
  <2>. SUFFICES ASSUME NEW i \in 1..(Len(s) + Len(t))
                PROVE  (s \o t)[i] \in InSeq(s) \cup InSeq(t)
    BY <1>1 DEF InSeq
  <2>1. CASE i <= Len(s)
    BY <1>1, <2>1 DEF InSeq
  <2>2. CASE ~(i <= Len(s))
    <3>1. i - Len(s) \in 1..Len(t) /\ (s \o t)[i] = t[i - Len(s)]
      BY <1>1, <2>2
    <3>. QED BY <1>1, <3>1 DEF InSeq
  <2>. QED BY <2>1, <2>2
<1>. QED BY <1>2, <1>3, <1>4

(* A list has at least its first picture, and the rest of an upload leaves   *)
(* room for it.                                                              *)
LEMMA HeadAndTail ==
  ASSUME NEW s \in ShortSeq, s # << >>
  PROVE  /\ Head(s) \in Files /\ Tail(s) \in ShortSeq /\ Len(Tail(s)) < MaxImages
         /\ Head(s) \in InSeq(s) /\ InSeq(Tail(s)) \subseteq InSeq(s)
<1>1. s \in Seq(Files) /\ Len(s) <= MaxImages /\ Len(s) \in Nat
  BY ShortSeqIsSeq, LenProperties
<1>2. /\ Head(s) \in Files /\ Tail(s) \in Seq(Files) /\ Len(Tail(s)) = Len(s) - 1
      /\ \A i \in 1..Len(Tail(s)) : Tail(s)[i] = s[i + 1]
      /\ Len(s) >= 1 /\ Head(s) = s[1]
  BY <1>1, HeadTailProperties, EmptySeq
<1>3. Tail(s) \in ShortSeq /\ Len(Tail(s)) < MaxImages
  <2>1. Len(s) - 1 <= MaxImages /\ Len(s) - 1 < MaxImages
    BY <1>1, <1>2, ImagesAssumption
  <2>. QED BY <1>2, <2>1, ShortSeqIsSeq
<1>4. DOMAIN s = 1..Len(s) /\ DOMAIN Tail(s) = 1..Len(Tail(s))
  BY <1>1, <1>2, LenProperties
<1>. QED BY <1>1, <1>2, <1>3, <1>4 DEF InSeq

LEMMA NoPictures == << >> \in ShortSeq /\ Len(<< >>) = 0 /\ InSeq(<< >>) = {}
<1>1. << >> \in Seq(Files) /\ Len(<< >>) = 0
  OBVIOUS
<1>2. 0 <= MaxImages
  BY ImagesAssumption
<1>3. << >> \in ShortSeq
  BY <1>1, <1>2, ShortSeqIsSeq
<1>4. InSeq(<< >>) = {}
  BY DEF InSeq
<1>. QED BY <1>1, <1>3, <1>4

LEMMA OnePicture ==
  ASSUME NEW f \in Files
  PROVE  <<f>> \in Seq(Files) /\ Len(<<f>>) = 1 /\ InSeq(<<f>>) = {f}
BY DEF InSeq

(* A picture at the end of a list that has room. *)
LEMMA Appended ==
  ASSUME NEW s \in ShortSeq, NEW f \in Files, Len(s) < MaxImages
  PROVE  Append(s, f) \in ShortSeq /\ InSeq(Append(s, f)) = InSeq(s) \cup {f}
<1>1. s \in Seq(Files) /\ Len(s) \in Nat
  BY ShortSeqIsSeq, LenProperties
<1>2. Append(s, f) = s \o <<f>> /\ Append(s, f) \in Seq(Files)
      /\ Len(Append(s, f)) = Len(s) + 1
  BY <1>1, AppendIsConcat, AppendProperties
<1>3. Len(Append(s, f)) <= MaxImages
  BY <1>1, <1>2, ImagesAssumption
<1>4. InSeq(s \o <<f>>) = InSeq(s) \cup {f}
  BY <1>1, OnePicture, InSeqOfConcat
<1>. QED BY <1>2, <1>3, <1>4, ShortSeqIsSeq

(* A new piece shows all that its scan has. *)
LEMMA Gathered ==
  ASSUME NEW f \in Files, NEW s \in ShortSeq, Len(s) < MaxImages
  PROVE  <<f>> \o s \in ShortSeq /\ InSeq(<<f>> \o s) = {f} \cup InSeq(s)
<1>1. s \in Seq(Files) /\ Len(s) \in Nat
  BY ShortSeqIsSeq, LenProperties
<1>2. <<f>> \o s \in Seq(Files) /\ Len(<<f>> \o s) = 1 + Len(s)
  BY <1>1, OnePicture, ConcatProperties
<1>3. Len(<<f>> \o s) <= MaxImages
  BY <1>1, <1>2, ImagesAssumption
<1>4. InSeq(<<f>> \o s) = {f} \cup InSeq(s)
  BY <1>1, OnePicture, InSeqOfConcat
<1>. QED BY <1>2, <1>3, <1>4, ShortSeqIsSeq

LEMMA WithoutOne ==
  ASSUME NEW s \in ShortSeq, NEW i \in DOMAIN s
  PROVE  /\ WithoutAt(s, i) \in ShortSeq /\ Len(WithoutAt(s, i)) < MaxImages
         /\ InSeq(WithoutAt(s, i)) \subseteq InSeq(s)
         /\ s[i] \in Files
<1>1. s \in Seq(Files) /\ Len(s) \in Nat /\ Len(s) <= MaxImages /\ DOMAIN s = 1..Len(s)
  BY ShortSeqIsSeq, LenProperties
<1>2. i \in 1..Len(s) /\ s[i] \in Files
  BY <1>1, ElementOfSeq
<1>. DEFINE before == SubSeq(s, 1, i - 1)
            after == SubSeq(s, i + 1, Len(s))
<1>3. /\ before \in Seq(Files) /\ Len(before) = i - 1
      /\ \A k \in 1..(i - 1) : before[k] = s[k]
  BY <1>1, <1>2
<1>4. /\ after \in Seq(Files) /\ Len(after) = Len(s) - i
      /\ \A k \in 1..(Len(s) - i) : after[k] = s[i + k]
  BY <1>1, <1>2
<1>. HIDE DEF before, after
<1>5. InSeq(before) \subseteq InSeq(s)
  <2>1. DOMAIN before = 1..(i - 1)
    BY <1>3, LenProperties
  <2>. QED BY <1>1, <1>2, <1>3, <2>1 DEF InSeq
<1>6. InSeq(after) \subseteq InSeq(s)
  <2>1. DOMAIN after = 1..(Len(s) - i)
    BY <1>4, LenProperties
  <2>2. \A k \in 1..(Len(s) - i) : i + k \in 1..Len(s)
    BY <1>1, <1>2
  <2>. QED BY <1>1, <1>2, <1>4, <2>1, <2>2 DEF InSeq
<1>7. WithoutAt(s, i) = before \o after
  BY DEF WithoutAt, before, after
<1>8. before \o after \in Seq(Files) /\ Len(before \o after) = Len(s) - 1
  <2>1. before \o after \in Seq(Files) /\ Len(before \o after) = Len(before) + Len(after)
    BY <1>3, <1>4, ConcatProperties
  <2>2. (i - 1) + (Len(s) - i) = Len(s) - 1
    BY <1>1, <1>2
  <2>. QED BY <1>3, <1>4, <2>1, <2>2
<1>9. Len(s) - 1 < MaxImages /\ Len(s) - 1 <= MaxImages
  BY <1>1, ImagesAssumption
<1>10. InSeq(before \o after) \subseteq InSeq(s)
  BY <1>3, <1>4, <1>5, <1>6, InSeqOfConcat
<1>. QED BY <1>2, <1>7, <1>8, <1>9, <1>10, ShortSeqIsSeq

(* A picture moves to the front. *)
LEMMA Promoted ==
  ASSUME NEW s \in ShortSeq, NEW i \in DOMAIN s
  PROVE  /\ <<s[i]>> \o WithoutAt(s, i) \in ShortSeq
         /\ InSeq(<<s[i]>> \o WithoutAt(s, i)) \subseteq InSeq(s)
BY WithoutOne, Gathered DEF InSeq

-----------------------------------------------------------------------------
(* Rows *)

(* A table keeps its type when one of its rows is replaced. *)
LEMMA EditRowType ==
  ASSUME NEW T, NEW K, NEW R, IsTable(T, K, R),
         NEW k \in DOMAIN T, NEW r \in R
  PROVE  /\ IsTable([T EXCEPT ![k] = r], K, R)
         /\ DOMAIN [T EXCEPT ![k] = r] = DOMAIN T
         /\ [T EXCEPT ![k] = r][k] = r
         /\ \A l \in DOMAIN T \ {k} : [T EXCEPT ![k] = r][l] = T[l]
BY DEF IsTable

(* And when one is added or some are taken away. *)
LEMMA NewRowType ==
  ASSUME NEW T, NEW K, NEW R, IsTable(T, K, R),
         NEW k \in K, k \notin DOMAIN T, NEW r \in R
  PROVE  /\ IsTable(WithRow(T, k, r), K, R)
         /\ DOMAIN WithRow(T, k, r) = DOMAIN T \cup {k}
         /\ WithRow(T, k, r)[k] = r
         /\ \A l \in DOMAIN T : WithRow(T, k, r)[l] = T[l]
BY DEF IsTable, WithRow, With

LEMMA WithoutType ==
  ASSUME NEW T, NEW K, NEW R, IsTable(T, K, R), NEW gone
  PROVE  /\ IsTable(Without(T, gone), K, R)
         /\ DOMAIN Without(T, gone) = DOMAIN T \ gone
         /\ \A l \in DOMAIN T \ gone : Without(T, gone)[l] = T[l]
BY DEF IsTable, Without

-----------------------------------------------------------------------------
(* The two kinds of steps *)

(* A step of pieces and scans: what they name then they named before or is   *)
(* new, and no file goes that they did not name.  That unsaved scans keep    *)
(* their pictures to themselves is left to the handlers.                     *)
LEMMA PictureStepInv ==
  ASSUME IInv, UNCHANGED OtherPictures,
         disk' \subseteq Files,
         IsTable(images', Pieces, ShortSeq), IsTable(scan', ScanIds, ScanRow),
         NEW new \in SUBSET New,
         (Shown \cup InScans)' \subseteq (Shown \cup InScans) \cup new,
         disk \ disk' \subseteq Shown \cup InScans,
         NewScansHavePictures', NewScansAreApart'
  PROVE  IInv'
<1>1. /\ photo' = photo /\ portrait' = portrait /\ held' = held /\ torn' = torn
      /\ Portraits' = Portraits
  BY DEF OtherPictures, Portraits
<1>2. TypeOK'
  BY <1>1 DEF IInv, TypeOK
<1>3. (DOMAIN photo \cup Portraits) \cap (disk \ disk') = {}
  BY DEF IInv, KindsAreApart
<1>4. PhotosAndPortraitsOnDisk'
  BY <1>1, <1>3 DEF IInv, PhotosAndPortraitsOnDisk, Portraits
<1>5. (DOMAIN photo \cup Portraits) \cap new = {}
  BY DEF New, Named, Portraits
<1>6. KindsAreApart'
  <2>1. ((Shown \cup InScans) \cup new) \cap (DOMAIN photo \cup Portraits) = {}
    BY <1>5 DEF IInv, KindsAreApart
  <2>2. (Shown \cup InScans)' \cap (DOMAIN photo \cup Portraits) = {}
    BY <2>1
  <2>. QED BY <1>1, <2>2 DEF IInv, KindsAreApart
<1>. QED BY <1>2, <1>4, <1>6 DEF IInv

(* A step of photos or portraits takes no file of a piece or a scan. *)
LEMMA OtherStepInv ==
  ASSUME IInv, UNCHANGED PiecePictures,
         disk \ disk' \subseteq DOMAIN photo \cup Portraits,
         TypeOK', PhotosAndPortraitsOnDisk', KindsAreApart'
  PROVE  IInv'
<1>1. /\ images' = images /\ scan' = scan
      /\ Shown' = Shown
      /\ \A s \in DOMAIN scan : Pictures(s)' = Pictures(s)
  BY DEF PiecePictures, Shown, Pictures
<1>2. NewScansAreApart'
  BY <1>1 DEF IInv, NewScansAreApart
<1>3. NewScansHavePictures'
  <2>. SUFFICES ASSUME NEW s \in DOMAIN scan, scan[s].own
                PROVE  Pictures(s) \subseteq disk'
    BY <1>1 DEF NewScansHavePictures
  <2>1. Pictures(s) \subseteq disk
    BY DEF IInv, NewScansHavePictures
  <2>2. Pictures(s) \subseteq InScans
    BY DEF InScans
  <2>3. Pictures(s) \cap (DOMAIN photo \cup Portraits) = {}
    BY <2>2 DEF IInv, KindsAreApart
  <2>. QED BY <2>1, <2>3
<1>. QED BY <1>2, <1>3 DEF IInv

(* What the handlers of pieces and scans need of a scan's row. *)
LEMMA RowOfScan ==
  ASSUME IInv, NEW s \in DOMAIN scan
  PROVE  /\ s \in ScanIds /\ scan[s] \in ScanRow
         /\ scan[s].main \in Files /\ scan[s].extras \in ShortSeq
         /\ scan[s].own \in BOOLEAN
         /\ Len(scan[s].extras) < MaxImages
         /\ Pictures(s) \subseteq InScans
         /\ scan[s].main \in Pictures(s) /\ InSeq(scan[s].extras) \subseteq Pictures(s)
<1>1. scan[s] \in ScanRow /\ s \in ScanIds /\ Len(scan[s].extras) < MaxImages
  BY DEF IInv, TypeOK, IsTable, NewScansAreApart
<1>. QED BY <1>1 DEF ScanRow, InScans, Pictures

LEMMA RowOfPiece ==
  ASSUME IInv, NEW m \in DOMAIN images
  PROVE  m \in Pieces /\ images[m] \in ShortSeq /\ InSeq(images[m]) \subseteq Shown
BY DEF IInv, TypeOK, IsTable, Shown

(* Handlers that add no file and no scan: every scan keeps its pictures, and *)
(* of those that are still unsaved no piece shows any and no file goes.      *)
LEMMA KeepScansInv ==
  ASSUME IInv, UNCHANGED OtherPictures,
         disk' \subseteq disk,
         disk \ disk' \subseteq Shown \cup InScans,
         IsTable(images', Pieces, ShortSeq), IsTable(scan', ScanIds, ScanRow),
         Shown' \subseteq Shown \cup InScans,
         DOMAIN scan' \subseteq DOMAIN scan,
         \A s \in DOMAIN scan' :
            /\ scan'[s].main = scan[s].main /\ scan'[s].extras = scan[s].extras
            /\ scan'[s].own => /\ scan[s].own
                               /\ Pictures(s) \cap (disk \ disk') = {}
                               /\ Pictures(s) \cap (Shown' \ Shown) = {}
  PROVE  IInv'
<1>1. \A s \in DOMAIN scan' : Pictures(s)' = Pictures(s)
  BY DEF Pictures
<1>2. InScans' \subseteq InScans
  BY <1>1 DEF InScans
<1>3. NewScansHavePictures'
  BY <1>1 DEF IInv, NewScansHavePictures
<1>4. NewScansAreApart'
  <2>. SUFFICES ASSUME NEW s \in DOMAIN scan'
                PROVE  /\ Len(scan'[s].extras) < MaxImages
                       /\ scan'[s].own =>
                             /\ Pictures(s)' \cap Shown' = {}
                             /\ \A t \in DOMAIN scan' \ {s} : Pictures(s)' \cap Pictures(t)' = {}
    BY DEF NewScansAreApart
  <2>1. Len(scan'[s].extras) < MaxImages
    BY DEF IInv, NewScansAreApart
  <2>2. ASSUME scan'[s].own
        PROVE  /\ Pictures(s)' \cap Shown' = {}
               /\ \A t \in DOMAIN scan' \ {s} : Pictures(s)' \cap Pictures(t)' = {}
    BY <1>1, <2>2 DEF IInv, NewScansAreApart
  <2>. QED BY <2>1, <2>2
<1>5. disk' \subseteq Files
  BY DEF IInv, TypeOK
<1>6. (Shown \cup InScans)' \subseteq (Shown \cup InScans) \cup {}
  BY <1>2
<1>. QED BY <1>3, <1>4, <1>5, <1>6, PictureStepInv

-----------------------------------------------------------------------------
(* Handlers of scans and pieces *)

(* A scan comes with new pictures; the commit of the further ones may fail.  *)
LEMMA UploadScanInv ==
  ASSUME IInv, NEW s \in ScanIds, NEW files \in ShortSeq, files # << >>,
         UploadScan(s, files)
  PROVE  IInv'
<1>1. /\ Head(files) \in Files /\ Head(files) \in InSeq(files)
      /\ Tail(files) \in ShortSeq /\ Len(Tail(files)) < MaxImages
      /\ InSeq(Tail(files)) \subseteq InSeq(files)
  BY HeadAndTail
<1>2. PICK extras \in {Tail(files), << >>} :
         scan' = WithRow(scan, s, [main |-> Head(files), extras |-> extras,
                                   target |-> None, result |-> None, own |-> TRUE])
  BY DEF UploadScan
<1>3. /\ extras \in ShortSeq /\ Len(extras) < MaxImages
      /\ InSeq(extras) \subseteq InSeq(files)
  <2>1. CASE extras = Tail(files)
    BY <1>1, <2>1
  <2>2. CASE extras = << >>
    <3>1. 0 < MaxImages
      BY <1>1, HasRoom
    <3>. QED BY <2>2, <3>1, NoPictures
  <2>. QED BY <2>1, <2>2
<1>. DEFINE row == [main |-> Head(files), extras |-> extras,
                    target |-> None, result |-> None, own |-> TRUE]
<1>4. /\ row \in ScanRow /\ row.main = Head(files) /\ row.extras = extras
      /\ s \notin DOMAIN scan /\ InSeq(files) \subseteq New
      /\ disk' = disk \cup InSeq(files) /\ images' = images /\ UNCHANGED OtherPictures
  BY <1>1, <1>3 DEF ScanRow, UploadScan
<1>5. scan' = WithRow(scan, s, row) /\ IsTable(scan, ScanIds, ScanRow)
  BY <1>2 DEF IInv, TypeOK
<1>. HIDE DEF row
<1>6. /\ IsTable(scan', ScanIds, ScanRow)
      /\ DOMAIN scan' = DOMAIN scan \cup {s} /\ scan'[s] = row
      /\ \A t \in DOMAIN scan : scan'[t] = scan[t]
  <2>1. row \in ScanRow /\ s \notin DOMAIN scan
    BY <1>4
  <2>. QED BY <1>5, <2>1 DEF IsTable, WithRow, With
<1>7. /\ \A t \in DOMAIN scan : Pictures(t)' = Pictures(t)
      /\ Pictures(s)' \subseteq InSeq(files)
  BY <1>1, <1>3, <1>4, <1>6 DEF Pictures
<1>8. Shown' = Shown
  BY <1>4 DEF Shown
<1>9. InScans' \subseteq InScans \cup InSeq(files)
  BY <1>6, <1>7 DEF InScans
<1>10. InSeq(files) \cap (Shown \cup InScans) = {}
  BY <1>4 DEF New, Named
<1>11. NewScansHavePictures'
  BY <1>4, <1>6, <1>7 DEF IInv, NewScansHavePictures
<1>12. NewScansAreApart'
  <2>. SUFFICES ASSUME NEW t \in DOMAIN scan'
                PROVE  /\ Len(scan'[t].extras) < MaxImages
                       /\ scan'[t].own =>
                             /\ Pictures(t)' \cap Shown' = {}
                             /\ \A v \in DOMAIN scan' \ {t} : Pictures(t)' \cap Pictures(v)' = {}
    BY DEF NewScansAreApart
  <2>1. \A v \in DOMAIN scan : Pictures(v) \subseteq InScans
    BY DEF InScans
  <2>2. CASE t = s
    BY <1>3, <1>4, <1>6, <1>7, <1>8, <1>10, <2>1, <2>2
  <2>3. CASE t # s
    BY <1>6, <1>7, <1>8, <1>10, <2>1, <2>3 DEF IInv, NewScansAreApart
  <2>. QED BY <2>2, <2>3
<1>13. disk' \subseteq Files /\ IsTable(images', Pieces, ShortSeq) /\ disk \ disk' = {}
  BY <1>4 DEF IInv, TypeOK, New
<1>14. (Shown \cup InScans)' \subseteq (Shown \cup InScans) \cup InSeq(files)
  BY <1>8, <1>9
<1>. QED BY <1>4, <1>6, <1>11, <1>12, <1>13, <1>14, PictureStepInv

(* The scan of a re-OCR shares the cover; a new scan is as yet nobody's.     *)
LEMMA ReOcrPieceInv ==
  ASSUME IInv, NEW s \in ScanIds, NEW m \in Pieces, ReOcrPiece(s, m)
  PROVE  IInv'
<1>. DEFINE row == [main |-> Head(images[m]), extras |-> << >>,
                    target |-> m, result |-> None, own |-> FALSE]
<1>1. /\ s \notin DOMAIN scan /\ m \in DOMAIN images /\ images[m] # << >>
      /\ scan' = WithRow(scan, s, row)
      /\ disk' = disk /\ images' = images /\ UNCHANGED OtherPictures
  BY DEF ReOcrPiece
<1>2. images[m] \in ShortSeq /\ InSeq(images[m]) \subseteq Shown
  BY <1>1, RowOfPiece
<1>3. Head(images[m]) \in Files /\ Head(images[m]) \in Shown /\ 0 < MaxImages
  <2>1. /\ Head(images[m]) \in Files /\ Head(images[m]) \in InSeq(images[m])
        /\ Tail(images[m]) \in ShortSeq /\ Len(Tail(images[m])) < MaxImages
    BY <1>1, <1>2, HeadAndTail
  <2>. QED BY <1>2, <2>1, HasRoom
<1>4. << >> \in ShortSeq /\ Len(<< >>) = 0 /\ InSeq(<< >>) = {}
  BY NoPictures
<1>5. /\ row \in ScanRow /\ row.main = Head(images[m]) /\ row.extras = << >> /\ ~row.own
  BY <1>3, <1>4 DEF ScanRow
<1>. HIDE DEF row
<1>6. /\ IsTable(scan', ScanIds, ScanRow)
      /\ DOMAIN scan' = DOMAIN scan \cup {s} /\ scan'[s] = row
      /\ \A t \in DOMAIN scan : scan'[t] = scan[t]
  <2>1. IsTable(scan, ScanIds, ScanRow)
    BY DEF IInv, TypeOK
  <2>2. row \in ScanRow /\ s \notin DOMAIN scan /\ scan' = WithRow(scan, s, row)
    BY <1>1, <1>5
  <2>. QED BY <2>1, <2>2 DEF IsTable, WithRow, With
<1>7. /\ \A t \in DOMAIN scan : Pictures(t)' = Pictures(t)
      /\ Pictures(s)' \subseteq Shown
  BY <1>3, <1>4, <1>5, <1>6 DEF Pictures
<1>8. Shown' = Shown
  BY <1>1 DEF Shown
<1>9. InScans' \subseteq InScans \cup Shown
  BY <1>6, <1>7 DEF InScans
<1>10. NewScansHavePictures'
  BY <1>1, <1>5, <1>6, <1>7 DEF IInv, NewScansHavePictures
<1>11. NewScansAreApart'
  <2>. SUFFICES ASSUME NEW t \in DOMAIN scan'
                PROVE  /\ Len(scan'[t].extras) < MaxImages
                       /\ scan'[t].own =>
                             /\ Pictures(t)' \cap Shown' = {}
                             /\ \A v \in DOMAIN scan' \ {t} : Pictures(t)' \cap Pictures(v)' = {}
    BY DEF NewScansAreApart
  <2>1. CASE t = s
    BY <1>3, <1>4, <1>5, <1>6, <2>1
  <2>2. CASE t # s
    BY <1>6, <1>7, <1>8, <2>2 DEF IInv, NewScansAreApart
  <2>. QED BY <2>1, <2>2
<1>12. disk' \subseteq Files /\ IsTable(images', Pieces, ShortSeq) /\ disk \ disk' = {}
  BY <1>1 DEF IInv, TypeOK
<1>13. (Shown \cup InScans)' \subseteq (Shown \cup InScans) \cup {}
  BY <1>8, <1>9
<1>. QED BY <1>1, <1>6, <1>10, <1>11, <1>12, <1>13, PictureStepInv

(* A scan is noted as the one a piece came from. *)
LEMMA ResultNoted ==
  ASSUME IInv, NEW s \in DOMAIN scan, NEW m \in Pieces,
         scan' = [scan EXCEPT ![s].result = m, ![s].own = FALSE]
  PROVE  /\ IsTable(scan', ScanIds, ScanRow)
         /\ DOMAIN scan' = DOMAIN scan
         /\ ~scan'[s].own
         /\ scan'[s].main = scan[s].main /\ scan'[s].extras = scan[s].extras
         /\ \A t \in DOMAIN scan \ {s} : scan'[t] = scan[t]
<1>. DEFINE row == [scan[s] EXCEPT !.result = m, !.own = FALSE]
<1>1. scan[s] \in ScanRow
  BY RowOfScan
<1>2. row \in ScanRow /\ row.main = scan[s].main /\ row.extras = scan[s].extras /\ ~row.own
  BY <1>1 DEF ScanRow
<1>3. scan' = [scan EXCEPT ![s] = row]
  OBVIOUS
<1>. HIDE DEF row
<1>4. IsTable(scan, ScanIds, ScanRow)
  BY DEF IInv, TypeOK
<1>5. /\ IsTable(scan', ScanIds, ScanRow)
      /\ DOMAIN scan' = DOMAIN scan
      /\ scan'[s] = row
      /\ \A t \in DOMAIN scan \ {s} : scan'[t] = scan[t]
  <2>1. row \in ScanRow
    BY <1>2
  <2>. QED BY <1>3, <1>4, <2>1 DEF IsTable
<1>. QED BY <1>2, <1>5

LEMMA SavePieceInv ==
  ASSUME IInv, NEW s \in ScanIds, NEW m \in Pieces, SavePiece(s, m)
  PROVE  IInv'
<1>1. /\ s \in DOMAIN scan /\ disk' = disk /\ UNCHANGED OtherPictures
      /\ scan' = [scan EXCEPT ![s].result = m, ![s].own = FALSE]
  BY DEF SavePiece
<1>2. /\ scan[s].main \in Files /\ scan[s].extras \in ShortSeq
      /\ Len(scan[s].extras) < MaxImages
      /\ Pictures(s) \subseteq InScans
  BY <1>1, RowOfScan
<1>3. /\ IsTable(scan', ScanIds, ScanRow) /\ DOMAIN scan' = DOMAIN scan
      /\ ~scan'[s].own
      /\ scan'[s].main = scan[s].main /\ scan'[s].extras = scan[s].extras
      /\ \A t \in DOMAIN scan \ {s} : scan'[t] = scan[t]
  BY <1>1, ResultNoted
<1>4. IsTable(images', Pieces, ShortSeq) /\ Shown' \subseteq Shown \cup Pictures(s)
  <2>1. CASE images' = images
    BY <2>1 DEF IInv, TypeOK, Shown
  <2>2. CASE /\ m \notin DOMAIN images
             /\ images' = WithRow(images, m, <<scan[s].main>> \o scan[s].extras)
    <3>. DEFINE pics == <<scan[s].main>> \o scan[s].extras
    <3>1. pics \in ShortSeq /\ InSeq(pics) = Pictures(s)
      BY <1>2, Gathered DEF Pictures
    <3>2. images' = WithRow(images, m, pics)
      BY <2>2
    <3>. HIDE DEF pics
    <3>3. /\ IsTable(images', Pieces, ShortSeq)
          /\ DOMAIN images' = DOMAIN images \cup {m} /\ images'[m] = pics
          /\ \A n \in DOMAIN images : images'[n] = images[n]
      <4>1. IsTable(images, Pieces, ShortSeq)
        BY DEF IInv, TypeOK
      <4>. QED BY <2>2, <3>1, <3>2, <4>1, NewRowType
    <3>. QED BY <3>1, <3>3 DEF Shown
  <2>. QED BY <2>1, <2>2 DEF SavePiece
<1>5. \A t \in DOMAIN scan \ {s} :
         scan[t].own => Pictures(t) \cap (Shown' \ Shown) = {}
  BY <1>1, <1>4 DEF IInv, NewScansAreApart
<1>. QED BY <1>1, <1>2, <1>3, <1>4, <1>5, KeepScansInv

LEMMA AddToExistingInv ==
  ASSUME IInv, NEW s \in ScanIds, NEW m \in Pieces, NEW withImage \in BOOLEAN,
         AddToExisting(s, m, withImage)
  PROVE  IInv'
<1>1. /\ s \in DOMAIN scan /\ m \in DOMAIN images /\ Len(images[m]) < MaxImages
      /\ disk' = disk /\ UNCHANGED OtherPictures
      /\ scan' = [scan EXCEPT ![s].result = m, ![s].own = FALSE]
  BY DEF AddToExisting
<1>2. scan[s].main \in Files /\ scan[s].main \in Pictures(s) /\ Pictures(s) \subseteq InScans
  BY <1>1, RowOfScan
<1>3. /\ IsTable(scan', ScanIds, ScanRow) /\ DOMAIN scan' = DOMAIN scan
      /\ ~scan'[s].own
      /\ scan'[s].main = scan[s].main /\ scan'[s].extras = scan[s].extras
      /\ \A t \in DOMAIN scan \ {s} : scan'[t] = scan[t]
  BY <1>1, ResultNoted
<1>4. IsTable(images', Pieces, ShortSeq) /\ Shown' \subseteq Shown \cup Pictures(s)
  <2>1. CASE images' = images
    BY <2>1 DEF IInv, TypeOK, Shown
  <2>2. CASE images' = [images EXCEPT ![m] = Append(@, scan[s].main)]
    <3>. DEFINE pics == Append(images[m], scan[s].main)
    <3>1. pics \in ShortSeq /\ InSeq(pics) \subseteq InSeq(images[m]) \cup Pictures(s)
      BY <1>1, <1>2, RowOfPiece, Appended
    <3>2. images' = [images EXCEPT ![m] = pics]
      BY <2>2
    <3>. HIDE DEF pics
    <3>3. /\ IsTable(images', Pieces, ShortSeq)
          /\ DOMAIN images' = DOMAIN images /\ images'[m] = pics
          /\ \A n \in DOMAIN images \ {m} : images'[n] = images[n]
      BY <1>1, <3>1, <3>2, EditRowType DEF IInv, TypeOK
    <3>. QED BY <1>1, <3>1, <3>3 DEF Shown
  <2>. QED BY <2>1, <2>2 DEF AddToExisting
<1>5. \A t \in DOMAIN scan \ {s} :
         scan[t].own => Pictures(t) \cap (Shown' \ Shown) = {}
  BY <1>1, <1>4 DEF IInv, NewScansAreApart
<1>. QED BY <1>1, <1>2, <1>3, <1>4, <1>5, KeepScansInv

LEMMA DeleteScanInv ==
  ASSUME IInv, NEW s \in ScanIds, DeleteScan(s)
  PROVE  IInv'
<1>1. /\ s \in DOMAIN scan /\ scan' = Without(scan, {s})
      /\ images' = images /\ UNCHANGED OtherPictures
      /\ disk' \subseteq disk /\ disk \ disk' \subseteq Pictures(s)
  BY DEF DeleteScan, Unlinks
<1>2. Pictures(s) \subseteq InScans
  BY <1>1, RowOfScan
<1>3. /\ IsTable(scan', ScanIds, ScanRow) /\ DOMAIN scan' = DOMAIN scan \ {s}
      /\ \A t \in DOMAIN scan \ {s} : scan'[t] = scan[t]
  BY <1>1, WithoutType DEF IInv, TypeOK
<1>4. IsTable(images', Pieces, ShortSeq) /\ Shown' = Shown
  BY <1>1 DEF IInv, TypeOK, Shown
<1>5. \A t \in DOMAIN scan \ {s} : scan[t].own => Pictures(t) \cap (disk \ disk') = {}
  BY <1>1 DEF IInv, NewScansAreApart
<1>. QED BY <1>1, <1>2, <1>3, <1>4, <1>5, KeepScansInv

(* The list of one piece changes without a file that is not a piece's. *)
LEMMA EditPieceInv ==
  ASSUME IInv, NEW m \in DOMAIN images, NEW pics \in ShortSeq,
         InSeq(pics) \subseteq InSeq(images[m]),
         images' = images \/ images' = [images EXCEPT ![m] = pics],
         disk' \subseteq disk, disk \ disk' \subseteq InSeq(images[m]),
         scan' = scan, UNCHANGED OtherPictures
  PROVE  IInv'
<1>1. IsTable(images', Pieces, ShortSeq) /\ Shown' \subseteq Shown
  <2>1. CASE images' = images
    BY <2>1 DEF IInv, TypeOK, Shown
  <2>2. CASE images' = [images EXCEPT ![m] = pics]
    <3>1. /\ IsTable(images', Pieces, ShortSeq)
          /\ DOMAIN images' = DOMAIN images /\ images'[m] = pics
          /\ \A n \in DOMAIN images \ {m} : images'[n] = images[n]
      BY <2>2, EditRowType DEF IInv, TypeOK
    <3>. QED BY <3>1 DEF Shown
  <2>. QED BY <2>1, <2>2
<1>2. InSeq(images[m]) \subseteq Shown
  BY RowOfPiece
<1>3. \A t \in DOMAIN scan : scan[t].own => Pictures(t) \cap Shown = {}
  BY DEF IInv, NewScansAreApart
<1>4. IsTable(scan', ScanIds, ScanRow)
  BY DEF IInv, TypeOK
<1>. QED BY <1>1, <1>2, <1>3, <1>4, KeepScansInv

LEMMA PromoteImageInv ==
  ASSUME IInv, NEW m \in Pieces, NEW i, PromoteImage(m, i)
  PROVE  IInv'
<1>1. /\ m \in DOMAIN images /\ i \in DOMAIN images[m]
      /\ images' = [images EXCEPT ![m] = <<images[m][i]>> \o WithoutAt(images[m], i)]
      /\ disk' = disk /\ scan' = scan /\ UNCHANGED OtherPictures
  BY DEF PromoteImage
<1>. QED BY <1>1, RowOfPiece, Promoted, EditPieceInv

LEMMA DeleteImageInv ==
  ASSUME IInv, NEW m \in Pieces, NEW i, DeleteImage(m, i)
  PROVE  IInv'
<1>1. /\ m \in DOMAIN images /\ i \in DOMAIN images[m]
      /\ images' = images \/ images' = [images EXCEPT ![m] = WithoutAt(images[m], i)]
      /\ disk' = disk \ {images[m][i]} /\ scan' = scan /\ UNCHANGED OtherPictures
  BY DEF DeleteImage
<1>2. images[m][i] \in InSeq(images[m])
  BY <1>1 DEF InSeq
<1>3. disk' \subseteq disk /\ disk \ disk' \subseteq InSeq(images[m])
  BY <1>1, <1>2
<1>. QED BY <1>1, <1>3, RowOfPiece, WithoutOne, EditPieceInv

LEMMA AddImageInv ==
  ASSUME IInv, NEW m \in Pieces, NEW f \in Files, AddImage(m, f)
  PROVE  IInv'
<1>. DEFINE pics == Append(images[m], f)
<1>1. /\ m \in DOMAIN images /\ f \in New /\ Len(images[m]) < MaxImages
      /\ disk' = disk \cup {f} /\ scan' = scan /\ UNCHANGED OtherPictures
      /\ images' = [images EXCEPT ![m] = pics]
  BY DEF AddImage
<1>2. images[m] \in ShortSeq
  BY <1>1, RowOfPiece
<1>3. pics \in ShortSeq /\ InSeq(pics) = InSeq(images[m]) \cup {f}
  BY <1>1, <1>2, Appended
<1>. HIDE DEF pics
<1>4. /\ IsTable(images', Pieces, ShortSeq)
      /\ DOMAIN images' = DOMAIN images /\ images'[m] = pics
      /\ \A n \in DOMAIN images \ {m} : images'[n] = images[n]
  BY <1>1, <1>3 DEF IInv, TypeOK, IsTable
<1>5. Shown' \subseteq Shown \cup {f}
  BY <1>1, <1>3, <1>4 DEF Shown
<1>6. InScans' = InScans /\ \A t \in DOMAIN scan : Pictures(t)' = Pictures(t)
  BY <1>1 DEF InScans, Pictures
<1>7. f \notin InScans
  BY <1>1 DEF New, Named
<1>8. NewScansHavePictures'
  BY <1>1, <1>6 DEF IInv, NewScansHavePictures
<1>9. NewScansAreApart'
  <2>. SUFFICES ASSUME NEW t \in DOMAIN scan, scan[t].own
                PROVE  Pictures(t) \cap Shown' = {}
    BY <1>1, <1>6 DEF IInv, NewScansAreApart
  <2>1. Pictures(t) \subseteq InScans
    BY DEF InScans
  <2>2. Pictures(t) \cap Shown = {}
    BY DEF IInv, NewScansAreApart
  <2>. QED BY <1>5, <1>7, <2>1, <2>2
<1>10. disk' \subseteq Files /\ IsTable(scan', ScanIds, ScanRow) /\ disk \ disk' = {}
  BY <1>1 DEF IInv, TypeOK
<1>11. (Shown \cup InScans)' \subseteq (Shown \cup InScans) \cup {f} /\ {f} \subseteq New
  BY <1>1, <1>5, <1>6
<1>. QED BY <1>1, <1>4, <1>8, <1>9, <1>10, <1>11, PictureStepInv

(* What delete_piece does, without the choice of files. *)
LEMMA DeletePieceFacts ==
  ASSUME IInv, NEW m \in Pieces, DeletePiece(m)
  PROVE  /\ m \in DOMAIN images /\ UNCHANGED OtherPictures
         /\ IsTable(images', Pieces, ShortSeq)
         /\ DOMAIN images' = DOMAIN images \ {m}
         /\ \A n \in DOMAIN images' : images'[n] = images[n]
         /\ IsTable(scan', ScanIds, ScanRow)
         /\ DOMAIN scan' = DOMAIN scan
         /\ \A s \in DOMAIN scan : /\ scan'[s].main = scan[s].main
                                   /\ scan'[s].extras = scan[s].extras
                                   /\ scan'[s].own = scan[s].own
         /\ disk' \subseteq disk
         /\ disk \ disk' \subseteq InSeq(images[m])
         /\ \A n \in DOMAIN images' : InSeq(images'[n]) \cap (disk \ disk') = {}
         /\ \A s \in DOMAIN scan : scan[s].main \notin disk \ disk'
<1>. DEFINE freed(p) == IF p = m THEN None ELSE p
            rest == Without(images, {m})
            used == {scan[s].main : s \in DOMAIN scan} \cup UNION {InSeq(rest[n]) : n \in DOMAIN rest}
<1>1. /\ m \in DOMAIN images /\ UNCHANGED OtherPictures
      /\ images' = rest
      /\ scan' = [s \in DOMAIN scan |->
                    [scan[s] EXCEPT !.target = freed(@), !.result = freed(@)]]
      /\ Unlinks(InSeq(images[m]) \ used)
  BY DEF DeletePiece
<1>2. /\ IsTable(images', Pieces, ShortSeq)
      /\ DOMAIN images' = DOMAIN images \ {m}
      /\ \A n \in DOMAIN images' : images'[n] = images[n]
  BY <1>1 DEF IInv, TypeOK, IsTable, Without
<1>3. ASSUME NEW s \in DOMAIN scan
      PROVE  /\ scan'[s] \in ScanRow
             /\ scan'[s].main = scan[s].main
             /\ scan'[s].extras = scan[s].extras
             /\ scan'[s].own = scan[s].own
  <2>1. scan[s] \in ScanRow
    BY RowOfScan
  <2>2. \A p \in Pieces \cup {None} : freed(p) \in Pieces \cup {None}
    OBVIOUS
  <2>3. scan'[s] = [scan[s] EXCEPT !.target = freed(@), !.result = freed(@)]
    BY <1>1
  <2>. HIDE DEF freed
  <2>. QED BY <2>1, <2>2, <2>3 DEF ScanRow
<1>4. DOMAIN scan' = DOMAIN scan /\ IsTable(scan', ScanIds, ScanRow)
  <2>. HIDE DEF freed
  <2>1. DOMAIN scan' = DOMAIN scan /\ scan' = [s \in DOMAIN scan |-> scan'[s]]
    BY <1>1
  <2>. QED BY <1>3, <2>1 DEF IInv, TypeOK, IsTable
<1>5. /\ disk' \subseteq disk
      /\ disk \ disk' \subseteq InSeq(images[m]) \ used
  <2>. HIDE DEF used
  <2>. QED BY <1>1 DEF Unlinks
<1>6. \A n \in DOMAIN images' : InSeq(images'[n]) \subseteq used
  BY <1>1
<1>7. \A s \in DOMAIN scan : scan[s].main \in used
  <2>. HIDE DEF rest
  <2>. QED OBVIOUS
<1>. HIDE DEF used, rest, freed
<1>. QED BY <1>1, <1>2, <1>3, <1>4, <1>5, <1>6, <1>7

LEMMA DeletePieceInv ==
  ASSUME IInv, NEW m \in Pieces, DeletePiece(m)
  PROVE  IInv'
<1>1. InSeq(images[m]) \subseteq Shown
  BY DeletePieceFacts, RowOfPiece
<1>2. \A s \in DOMAIN scan : scan[s].own => Pictures(s) \cap Shown = {}
  BY DEF IInv, NewScansAreApart
<1>3. Shown' \subseteq Shown
  <2>1. \A n \in DOMAIN images' : n \in DOMAIN images /\ images'[n] = images[n]
    BY DeletePieceFacts
  <2>. QED BY <2>1 DEF Shown
<1>. QED BY <1>1, <1>2, <1>3, DeletePieceFacts, KeepScansInv

-----------------------------------------------------------------------------
(* Photos and portraits *)

LEMMA AddPhotoInv ==
  ASSUME IInv, NEW u \in Units, NEW f \in Files, AddPhoto(u, f)
  PROVE  IInv'
<1>1. /\ f \in New /\ disk' = disk \cup {f} /\ photo' = WithRow(photo, f, u)
      /\ UNCHANGED <<PiecePictures, portrait, held, torn>>
  BY DEF AddPhoto
<1>2. /\ images' = images /\ scan' = scan /\ Portraits' = Portraits
      /\ (Shown \cup InScans)' = Shown \cup InScans
  BY <1>1 DEF PiecePictures, Portraits, Shown, InScans, Pictures
<1>3. DOMAIN photo' = DOMAIN photo \cup {f} /\ IsTable(photo', Files, Units)
  BY <1>1 DEF IInv, TypeOK, IsTable, WithRow, With
<1>4. f \notin Shown \cup InScans /\ f \notin Portraits
  BY <1>1 DEF New, Named, Portraits
<1>5. TypeOK'
  BY <1>1, <1>2, <1>3 DEF IInv, TypeOK
<1>6. PhotosAndPortraitsOnDisk'
  BY <1>1, <1>3 DEF IInv, PhotosAndPortraitsOnDisk
<1>7. KindsAreApart'
  BY <1>1, <1>2, <1>3, <1>4 DEF IInv, KindsAreApart
<1>. QED BY <1>1, <1>5, <1>6, <1>7, OtherStepInv

LEMMA DropPhotosInv ==
  ASSUME IInv, NEW gone \in SUBSET DOMAIN photo, DropPhotos(gone)
  PROVE  IInv'
<1>1. /\ disk' \subseteq disk /\ disk \ disk' \subseteq gone
      /\ photo' = Without(photo, gone)
      /\ UNCHANGED <<PiecePictures, portrait, held, torn>>
  BY DEF DropPhotos, Unlinks
<1>2. /\ images' = images /\ scan' = scan /\ Portraits' = Portraits
      /\ (Shown \cup InScans)' = Shown \cup InScans
  BY <1>1 DEF PiecePictures, Portraits, Shown, InScans, Pictures
<1>3. DOMAIN photo' = DOMAIN photo \ gone /\ IsTable(photo', Files, Units)
  BY <1>1 DEF IInv, TypeOK, IsTable, Without
<1>4. gone \cap Portraits = {}
  BY DEF IInv, KindsAreApart
<1>5. TypeOK'
  BY <1>1, <1>2, <1>3 DEF IInv, TypeOK
<1>6. PhotosAndPortraitsOnDisk'
  BY <1>1, <1>3, <1>4 DEF IInv, PhotosAndPortraitsOnDisk, Portraits
<1>7. KindsAreApart'
  BY <1>1, <1>2, <1>3 DEF IInv, KindsAreApart
<1>. QED BY <1>1, <1>5, <1>6, <1>7, OtherStepInv

(* A handler reads the portrait that it may unlink later. *)
LEMMA PortraitReadsInv ==
  ASSUME IInv, NEW way \in Ways, NEW p \in People, PortraitReads(way, p)
  PROVE  IInv'
<1>. DEFINE h == [way |-> way, person |-> p, old |-> portrait[p]]
<1>1. /\ held' = held \cup {h} /\ disk' = disk /\ photo' = photo
      /\ portrait' = portrait /\ torn' = torn /\ UNCHANGED PiecePictures
  BY DEF PortraitReads
<1>2. h \in HeldRow /\ h.person = p /\ h.old = portrait[p]
  BY DEF HeldRow, IInv, TypeOK
<1>. HIDE DEF h
<1>3. TypeOK'
  BY <1>1, <1>2 DEF IInv, TypeOK, PiecePictures
<1>4. PhotosAndPortraitsOnDisk'
  BY <1>1 DEF IInv, PhotosAndPortraitsOnDisk
<1>5. Portraits' = Portraits
  BY <1>1, <1>2 DEF Portraits
<1>6. (Shown \cup InScans)' = Shown \cup InScans
  BY <1>1 DEF PiecePictures, Shown, InScans, Pictures
<1>7. KindsAreApart'
  BY <1>1, <1>2, <1>5, <1>6 DEF IInv, KindsAreApart
<1>. QED BY <1>1, <1>3, <1>4, <1>7, OtherStepInv

(* A handler that has read h.old and saved f: f is the portrait of its       *)
(* person, or the commit has failed; all that may go from the disk is h.old. *)
LEMMA PortraitWritesInv ==
  ASSUME IInv, NEW h \in held, NEW f \in Files, PortraitWrites(h, f)
  PROVE  IInv'
<1>1. /\ f \in New /\ held' = held \ {h} /\ photo' = photo /\ UNCHANGED PiecePictures
      /\ PortraitOver(h, f) \/ PortraitReplaced(h, f) \/ PortraitFilled(h, f)
  BY DEF PortraitWrites
<1>2. h.person \in People /\ h.old \in Files \cup {None}
  BY DEF IInv, TypeOK, HeldRow
<1>3. /\ f \notin disk /\ f \notin Shown \cup InScans /\ f \notin DOMAIN photo
      /\ f \notin Portraits /\ f # None /\ f # h.old
      /\ \A q \in People : portrait[q] # f
      /\ \A g \in held : g.old # f
  BY <1>1 DEF New, Named, Portraits
<1>4. /\ disk' \subseteq disk \cup {f} /\ disk \ disk' \subseteq {h.old}
      /\ \/ /\ portrait' = [portrait EXCEPT ![h.person] = f]
            /\ torn' = torn \ {h.person}
            /\ f \in disk'
         \/ /\ portrait' = portrait
            /\ torn' = IF portrait[h.person] = h.old THEN torn \cup {h.person} ELSE torn
  BY <1>1, <1>3 DEF PortraitOver, PortraitReplaced, PortraitFilled
<1>5. /\ \A q \in People \ {h.person} : portrait'[q] = portrait[q]
      /\ portrait'[h.person] \in {f, portrait[h.person]}
      /\ portrait' \in [People -> Files \cup {None}]
  BY <1>2, <1>4 DEF IInv, TypeOK
<1>6. TypeOK'
  <2>1. disk' \subseteq Files
    BY <1>4 DEF IInv, TypeOK
  <2>2. torn' \subseteq People
    BY <1>2, <1>4 DEF IInv, TypeOK
  <2>3. IsTable(images', Pieces, ShortSeq) /\ IsTable(scan', ScanIds, ScanRow)
        /\ IsTable(photo', Files, Units)
    BY <1>1 DEF IInv, TypeOK, PiecePictures
  <2>4. held' \subseteq HeldRow
    BY <1>1 DEF IInv, TypeOK
  <2>. QED BY <1>5, <2>1, <2>2, <2>3, <2>4 DEF TypeOK
<1>7. \A q \in People \ {h.person} : portrait[q] # h.old \/ h.old = None
  BY DEF IInv, KindsAreApart
<1>8. h.old # None => h.old \in Portraits
  BY DEF Portraits
<1>9. None \notin disk
  BY FilesAssumption DEF IInv, TypeOK
<1>10. disk \ disk' \subseteq DOMAIN photo \cup Portraits
  BY <1>4, <1>8, <1>9
<1>11. PhotosAndPortraitsOnDisk'
  <2>1. DOMAIN photo' \subseteq disk'
    BY <1>1, <1>4, <1>8, <1>9 DEF IInv, PhotosAndPortraitsOnDisk, KindsAreApart
  <2>2. ASSUME NEW q \in People \ torn', portrait'[q] # None
        PROVE  portrait'[q] \in disk'
    <3>1. CASE q = h.person /\ portrait' = [portrait EXCEPT ![h.person] = f] /\ f \in disk'
      BY <1>2, <3>1 DEF IInv, TypeOK
    <3>2. CASE q # h.person
      BY <1>4, <1>5, <1>7, <2>2, <3>2 DEF IInv, PhotosAndPortraitsOnDisk
    <3>3. CASE /\ q = h.person
               /\ portrait' = portrait
               /\ torn' = IF portrait[h.person] = h.old THEN torn \cup {h.person} ELSE torn
      BY <1>4, <2>2, <3>3 DEF IInv, PhotosAndPortraitsOnDisk
    <3>. QED BY <1>4, <3>1, <3>2, <3>3
  <2>. QED BY <2>1, <2>2 DEF PhotosAndPortraitsOnDisk
<1>12. KindsAreApart'
  <2>1. Portraits' \subseteq Portraits \cup {f}
    BY <1>1, <1>5 DEF Portraits
  <2>2. (Shown \cup InScans)' = Shown \cup InScans
    BY <1>1 DEF PiecePictures, Shown, InScans, Pictures
  <2>3. \A p, q \in People : portrait'[p] = portrait'[q] /\ portrait'[p] # None => p = q
    BY <1>3, <1>5 DEF IInv, KindsAreApart
  <2>4. \A g \in held', q \in People : g.old = portrait'[q] /\ g.old # None => g.person = q
    BY <1>1, <1>3, <1>5 DEF IInv, KindsAreApart
  <2>5. (Shown \cup InScans)' \cap (DOMAIN photo' \cup Portraits') = {}
    BY <1>1, <1>3, <2>1, <2>2 DEF IInv, KindsAreApart
  <2>6. DOMAIN photo' \cap Portraits' = {}
    BY <1>1, <1>3, <2>1 DEF IInv, KindsAreApart
  <2>. QED BY <2>3, <2>4, <2>5, <2>6 DEF KindsAreApart
<1>. QED BY <1>1, <1>6, <1>10, <1>11, <1>12, OtherStepInv

LEMMA PortraitGivesUpInv ==
  ASSUME IInv, NEW h \in held, PortraitGivesUp(h)
  PROVE  IInv'
<1>1. /\ held' = held \ {h} /\ disk' = disk /\ photo' = photo
      /\ portrait' = portrait /\ torn' = torn /\ UNCHANGED PiecePictures
  BY DEF PortraitGivesUp
<1>2. TypeOK'
  BY <1>1 DEF IInv, TypeOK, PiecePictures
<1>3. PhotosAndPortraitsOnDisk'
  BY <1>1 DEF IInv, PhotosAndPortraitsOnDisk
<1>4. Portraits' \subseteq Portraits
  BY <1>1 DEF Portraits
<1>5. (Shown \cup InScans)' = Shown \cup InScans
  BY <1>1 DEF PiecePictures, Shown, InScans, Pictures
<1>6. KindsAreApart'
  BY <1>1, <1>4, <1>5 DEF IInv, KindsAreApart
<1>. QED BY <1>1, <1>2, <1>3, <1>6, OtherStepInv

(* The portrait of a person goes, from the row or at least from the disk.    *)
LEMMA PortraitGoesInv ==
  ASSUME IInv, NEW p \in People, portrait[p] # None,
         disk' \subseteq disk, disk \ disk' \subseteq {portrait[p]},
         \/ portrait' = [portrait EXCEPT ![p] = None] /\ torn' = torn \ {p}
         \/ portrait' = portrait /\ torn' = torn \cup {p},
         UNCHANGED <<PiecePictures, photo, held>>
  PROVE  IInv'
<1>1. /\ \A q \in People \ {p} : portrait'[q] = portrait[q]
      /\ portrait'[p] = None \/ (portrait'[p] = portrait[p] /\ p \in torn')
      /\ portrait' \in [People -> Files \cup {None}]
      /\ torn' \subseteq People /\ torn \subseteq torn' \cup {p}
  BY DEF IInv, TypeOK
<1>2. /\ portrait[p] \in Portraits
      /\ \A q \in People \ {p} : portrait[q] # portrait[p]
  BY DEF Portraits, IInv, KindsAreApart
<1>3. TypeOK'
  BY <1>1 DEF IInv, TypeOK, PiecePictures
<1>4. PhotosAndPortraitsOnDisk'
  <2>1. DOMAIN photo' \subseteq disk'
    BY <1>2 DEF IInv, PhotosAndPortraitsOnDisk, KindsAreApart
  <2>2. ASSUME NEW q \in People \ torn', portrait'[q] # None
        PROVE  portrait'[q] \in disk'
    BY <1>1, <1>2, <2>2 DEF IInv, PhotosAndPortraitsOnDisk
  <2>. QED BY <2>1, <2>2 DEF PhotosAndPortraitsOnDisk
<1>5. Portraits' \subseteq Portraits
  BY <1>1 DEF Portraits
<1>6. (Shown \cup InScans)' = Shown \cup InScans
  BY DEF PiecePictures, Shown, InScans, Pictures
<1>7. KindsAreApart'
  <2>1. \A a, q \in People : portrait'[a] = portrait'[q] /\ portrait'[a] # None => a = q
    BY <1>1 DEF IInv, KindsAreApart
  <2>2. \A g \in held', q \in People : g.old = portrait'[q] /\ g.old # None => g.person = q
    BY <1>1 DEF IInv, KindsAreApart
  <2>. QED BY <1>5, <1>6, <2>1, <2>2 DEF IInv, KindsAreApart
<1>8. disk \ disk' \subseteq DOMAIN photo \cup Portraits
  BY <1>2
<1>. QED BY <1>3, <1>4, <1>7, <1>8, OtherStepInv

-----------------------------------------------------------------------------
(* The whole *)

LEMMA ScanStepInv == IInv /\ ScanStep => IInv'
<1>. SUFFICES ASSUME IInv, ScanStep PROVE IInv'
  OBVIOUS
<1>1. ASSUME NEW s \in ScanIds, NEW files \in ShortSeq, files # << >>, UploadScan(s, files)
      PROVE  IInv'
  BY <1>1, UploadScanInv
<1>2. ASSUME NEW s \in ScanIds, NEW m \in Pieces, ReOcrPiece(s, m) \/ SavePiece(s, m)
      PROVE  IInv'
  BY <1>2, ReOcrPieceInv, SavePieceInv
<1>3. ASSUME NEW s \in ScanIds, DeleteScan(s)
      PROVE  IInv'
  BY <1>3, DeleteScanInv
<1>. QED BY <1>1, <1>2, <1>3 DEF ScanStep

LEMMA PieceStepInv == IInv /\ PieceStep => IInv'
<1>. SUFFICES ASSUME IInv, PieceStep PROVE IInv'
  OBVIOUS
<1>1. ASSUME NEW s \in ScanIds, NEW m \in Pieces, NEW b \in BOOLEAN, AddToExisting(s, m, b)
      PROVE  IInv'
  BY <1>1, AddToExistingInv
<1>2. ASSUME NEW m \in Pieces, NEW f \in Files, AddImage(m, f)
      PROVE  IInv'
  BY <1>2, AddImageInv
<1>3. ASSUME NEW m \in Pieces, NEW i \in 1..MaxImages, PromoteImage(m, i) \/ DeleteImage(m, i)
      PROVE  IInv'
  BY <1>3, PromoteImageInv, DeleteImageInv
<1>4. ASSUME NEW m \in Pieces, DeletePiece(m)
      PROVE  IInv'
  BY <1>4, DeletePieceInv
<1>. QED BY <1>1, <1>2, <1>3, <1>4 DEF PieceStep

LEMMA PhotoStepInv == IInv /\ PhotoStep => IInv'
<1>. SUFFICES ASSUME IInv, PhotoStep PROVE IInv'
  OBVIOUS
<1>1. ASSUME NEW u \in Units, NEW f \in Files, AddPhoto(u, f)
      PROVE  IInv'
  BY <1>1, AddPhotoInv
<1>2. ASSUME NEW f \in Files, DeleteUnitImage(f)
      PROVE  IInv'
  BY <1>2, DropPhotosInv DEF DeleteUnitImage
<1>3. ASSUME NEW u \in Units, DeleteUnit(u)
      PROVE  IInv'
  BY <1>3, DropPhotosInv DEF DeleteUnit
<1>. QED BY <1>1, <1>2, <1>3 DEF PhotoStep

LEMMA PortraitStepInv == IInv /\ PortraitStep => IInv'
<1>. SUFFICES ASSUME IInv, PortraitStep PROVE IInv'
  OBVIOUS
<1>1. ASSUME NEW way \in Ways, NEW p \in People, PortraitReads(way, p)
      PROVE  IInv'
  BY <1>1, PortraitReadsInv
<1>2. ASSUME NEW h \in held, PortraitGivesUp(h)
      PROVE  IInv'
  BY <1>2, PortraitGivesUpInv
<1>3. ASSUME NEW h \in held, NEW f \in Files, PortraitWrites(h, f)
      PROVE  IInv'
  BY <1>3, PortraitWritesInv
<1>4. ASSUME NEW p \in People, DeletePortrait(p) \/ DeletePerson(p)
      PROVE  IInv'
  <2>1. /\ portrait[p] # None
        /\ disk' \subseteq disk /\ disk \ disk' \subseteq {portrait[p]}
        /\ \/ portrait' = [portrait EXCEPT ![p] = None] /\ torn' = torn \ {p}
           \/ portrait' = portrait /\ torn' = torn \cup {p}
        /\ UNCHANGED <<PiecePictures, photo, held>>
    BY <1>4 DEF DeletePortrait, DeletePerson, Unlinks
  <2>. QED BY <2>1, PortraitGoesInv
<1>. QED BY <1>1, <1>2, <1>3, <1>4 DEF PortraitStep

(* No rows and no files. *)
LEMMA InitInv == Init => IInv
<1>. SUFFICES ASSUME Init PROVE IInv
  OBVIOUS
<1>1. TypeOK
  BY DEF Init, Empty, TypeOK, IsTable
<1>2. /\ DOMAIN images = {} /\ DOMAIN scan = {} /\ DOMAIN photo = {} /\ held = {}
      /\ \A p \in People : portrait[p] = None
  BY DEF Init, Empty
<1>3. Portraits = {} /\ Shown = {} /\ InScans = {}
  BY <1>2 DEF Portraits, Shown, InScans
<1>. QED BY <1>1, <1>2, <1>3 DEF IInv, NewScansHavePictures, NewScansAreApart,
            PhotosAndPortraitsOnDisk, KindsAreApart

LEMMA NextInv == IInv /\ [Next]_vars => IInv'
<1>. SUFFICES ASSUME IInv, [Next]_vars PROVE IInv'
  OBVIOUS
<1>1. CASE Next
  BY <1>1, ScanStepInv, PieceStepInv, PhotoStepInv, PortraitStepInv DEF Next
<1>2. CASE UNCHANGED vars
  <2>1. /\ disk' = disk /\ images' = images /\ scan' = scan /\ photo' = photo
        /\ portrait' = portrait /\ held' = held /\ torn' = torn
    BY <1>2 DEF vars
  <2>2. TypeOK' /\ PhotosAndPortraitsOnDisk'
    BY <2>1 DEF IInv, TypeOK, PhotosAndPortraitsOnDisk
  <2>3. Shown' = Shown /\ InScans' = InScans /\ Portraits' = Portraits
        /\ \A s \in DOMAIN scan : Pictures(s)' = Pictures(s)
    BY <2>1 DEF Pictures, Shown, InScans, Portraits
  <2>4. NewScansHavePictures' /\ NewScansAreApart' /\ KindsAreApart'
    BY <2>1, <2>3 DEF IInv, NewScansHavePictures, NewScansAreApart, KindsAreApart
  <2>. QED BY <2>2, <2>4 DEF IInv
<1>. QED BY <1>1, <1>2

(* All the invariants together hold in every reachable state. *)
THEOREM InvariantHolds == Spec => []IInv
BY InitInv, NextInv, PTL DEF Spec

(* Rows keep their shape, lists of pictures their bound. *)
THEOREM TypeCorrect == Spec => []TypeOK
BY InvariantHolds, PTL DEF IInv

(* The pictures of an unsaved scan stay on disk until it is saved or         *)
(* deleted, whatever the handlers of pieces and other scans unlink.          *)
THEOREM NewScansHavePicturesThm == Spec => []NewScansHavePictures
BY InvariantHolds, PTL DEF IInv

(* Photos of units and portraits are on disk, for any number of handlers     *)
(* that overtake each other while they wait for a picture.                   *)
THEOREM PhotosAndPortraitsOnDiskThm == Spec => []PhotosAndPortraitsOnDisk
BY InvariantHolds, PTL DEF IInv

-----------------------------------------------------------------------------
(* Steps that delete a piece *)

(* No handler but delete_piece takes a row out of the table of pieces.       *)
LEMMA OnlyDeletePiece ==
  ASSUME IInv, [Next]_vars, DOMAIN images \ DOMAIN images' # {}
  PROVE  \E m \in Pieces : DeletePiece(m)
<1>1. ASSUME UNCHANGED images PROVE FALSE
  BY <1>1
<1>2. CASE ScanStep
  <2>1. ASSUME NEW s \in ScanIds, NEW m \in Pieces, SavePiece(s, m) PROVE FALSE
    BY <2>1 DEF SavePiece, WithRow, With
  <2>2. ASSUME NEW s \in ScanIds, NEW files \in ShortSeq, UploadScan(s, files) PROVE FALSE
    BY <1>1, <2>2 DEF UploadScan
  <2>3. ASSUME NEW s \in ScanIds, NEW m \in Pieces, ReOcrPiece(s, m) PROVE FALSE
    BY <1>1, <2>3 DEF ReOcrPiece
  <2>4. ASSUME NEW s \in ScanIds, DeleteScan(s) PROVE FALSE
    BY <1>1, <2>4 DEF DeleteScan
  <2>. QED BY <1>2, <2>1, <2>2, <2>3, <2>4 DEF ScanStep
<1>3. CASE PieceStep
  <2>1. ASSUME NEW s \in ScanIds, NEW m \in Pieces, NEW b \in BOOLEAN, AddToExisting(s, m, b)
        PROVE  FALSE
    BY <2>1 DEF AddToExisting
  <2>2. ASSUME NEW m \in Pieces, NEW f \in Files, AddImage(m, f) PROVE FALSE
    BY <2>2 DEF AddImage
  <2>3. ASSUME NEW m \in Pieces, NEW i \in 1..MaxImages, PromoteImage(m, i) PROVE FALSE
    BY <2>3 DEF PromoteImage
  <2>4. ASSUME NEW m \in Pieces, NEW i \in 1..MaxImages, DeleteImage(m, i) PROVE FALSE
    BY <2>4 DEF DeleteImage
  <2>. QED BY <1>3, <2>1, <2>2, <2>3, <2>4 DEF PieceStep
<1>4. CASE PhotoStep
  <2>1. UNCHANGED PiecePictures
    BY <1>4 DEF PhotoStep, AddPhoto, DeleteUnitImage, DeleteUnit, DropPhotos
  <2>. QED BY <1>1, <2>1 DEF PiecePictures
<1>5. CASE PortraitStep
  <2>1. UNCHANGED PiecePictures
    BY <1>5 DEF PortraitStep, PortraitReads, PortraitGivesUp, PortraitWrites, DeletePortrait,
       DeletePerson
  <2>. QED BY <1>1, <2>1 DEF PiecePictures
<1>6. CASE UNCHANGED vars
  BY <1>1, <1>6 DEF vars
<1>. QED BY <1>2, <1>3, <1>4, <1>5, <1>6 DEF Next

(* Deleting a piece takes no picture that another piece shows, nor one that  *)
(* is the main picture of a scan.                                            *)
THEOREM DeletePieceSparesOthersThm == Spec => DeletePieceSparesOthers
<1>1. IInv /\ [Next]_vars =>
        [DOMAIN images \ DOMAIN images' # {} =>
            /\ \A m \in DOMAIN images' : InSeq(images'[m]) \cap disk \subseteq disk'
            /\ \A s \in DOMAIN scan' : scan'[s].main \in disk => scan'[s].main \in disk']_vars
  <2>. SUFFICES ASSUME IInv, [Next]_vars, DOMAIN images \ DOMAIN images' # {}
                PROVE  /\ \A m \in DOMAIN images' : InSeq(images'[m]) \cap disk \subseteq disk'
                       /\ \A s \in DOMAIN scan' :
                             scan'[s].main \in disk => scan'[s].main \in disk'
    OBVIOUS
  <2>1. PICK m \in Pieces : DeletePiece(m)
    BY OnlyDeletePiece
  <2>2. /\ \A n \in DOMAIN images' : InSeq(images'[n]) \cap (disk \ disk') = {}
        /\ DOMAIN scan' = DOMAIN scan
        /\ \A s \in DOMAIN scan : scan'[s].main = scan[s].main
        /\ \A s \in DOMAIN scan : scan[s].main \notin disk \ disk'
    BY <2>1, DeletePieceFacts
  <2>. QED BY <2>2
<1>. QED BY <1>1, InvariantHolds, PTL DEF Spec, DeletePieceSparesOthers
=============================================================================
