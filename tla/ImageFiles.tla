----------------------------- MODULE ImageFiles -----------------------------
(***************************************************************************)
(* Pictures on disk and the rows that name them: app/utils/images.py and   *)
(* the handlers of scans, pieces, storage units and people that save and   *)
(* unlink files.  A file gets a random name (uuid4) when it is saved, so a *)
(* name that is in use nowhere stands for a new one.                       *)
(*                                                                         *)
(* The database knows nothing of the files.  Where a handler unlinks       *)
(* before its commit, the commit may fail (another request holds SQLite's  *)
(* write lock while it waits for MusicBrainz) or the process may stop;     *)
(* where it unlinks after it, the process may stop before it has unlinked  *)
(* everything.                                                             *)
(***************************************************************************)
EXTENDS Integers, Sequences, FiniteSets, Tables

CONSTANTS
    Files,      \* names of files
    Pieces,     \* primary keys of pieces
    ScanIds,    \* primary keys of scan_sessions
    Units,      \* storage units
    People,     \* people
    None,       \* NULL
    MaxImages,  \* bound: pictures of a scan or a piece
    MaxHeld     \* bound: portrait handlers under way

ASSUME FilesAssumption == None \notin Files \cup Pieces
ASSUME ImagesAssumption == MaxImages \in Nat

VARIABLES
    disk,      \* files there are
    images,    \* piece_images of each piece, by sort_order
    scan,      \* table scan_sessions with scan_session_images
    photo,     \* storage_unit_images: the unit of each file named
    portrait,  \* portrait_image_path of each person
    held,      \* portrait handlers that have read the row and await a picture
    torn       \* history: people whose portrait was unlinked but not replaced

vars == <<disk, images, scan, photo, portrait, held, torn>>

PiecePictures == <<images, scan>>
OtherPictures == <<photo, portrait, held, torn>>

InSeq(s) == {s[i] : i \in DOMAIN s}
ShortSeq == UNION {[1..n -> Files] : n \in 0..MaxImages}

ScanRow == [main   : Files,
            extras : ShortSeq,
            target : Pieces \cup {None},  \* the piece a re-OCR is for
            result : Pieces \cup {None},  \* resulting_piece_id
            own    : BOOLEAN]             \* history: uploaded and not saved yet

Ways == {"upload", "replace", "refresh", "fill"}
HeldRow == [way : Ways, person : People, old : Files \cup {None}]

Init ==
    /\ disk = {}
    /\ images = Empty
    /\ scan = Empty
    /\ photo = Empty
    /\ portrait = [p \in People |-> None]
    /\ held = {}
    /\ torn = {}

-----------------------------------------------------------------------------
Shown == UNION {InSeq(images[m]) : m \in DOMAIN images}
Pictures(s) == {scan[s].main} \cup InSeq(scan[s].extras)
InScans == UNION {Pictures(s) : s \in DOMAIN scan}
Named == Shown \cup InScans \cup DOMAIN photo \cup {portrait[p] : p \in People}
         \cup {h.old : h \in held} \cup {None}
New == (Files \ disk) \ Named

(* delete_saved_image for each of S after a commit: missing_ok, and as far  *)
(* as the process gets.                                                     *)
Unlinks(S) == \E done \in SUBSET S : disk' = disk \ done

(* Fault: only the first file is saved. *)
UploadScanFirst(s, files) ==
    /\ s \notin DOMAIN scan
    /\ InSeq(files) \subseteq New
    /\ disk' = disk \cup {Head(files)}
    /\ scan' = WithRow(scan, s, [main |-> Head(files), extras |-> Tail(files),
                                 target |-> None, result |-> None, own |-> TRUE])
    /\ UNCHANGED <<images, OtherPictures>>

(* upload_scan and quick_scan_upload: the files, the scan, and in a second  *)
(* transaction its further pictures.                                        *)
UploadScan(s, files) ==
    /\ s \notin DOMAIN scan
    /\ InSeq(files) \subseteq New
    /\ disk' = disk \cup InSeq(files)
    /\ \E extras \in {Tail(files), << >>} :
          scan' = WithRow(scan, s, [main |-> Head(files), extras |-> extras,
                                    target |-> None, result |-> None, own |-> TRUE])
    /\ UNCHANGED <<images, OtherPictures>>

(* re_ocr_piece: the scan shares the first picture of the piece. *)
ReOcrPiece(s, m) ==
    /\ s \notin DOMAIN scan
    /\ m \in DOMAIN images /\ images[m] # << >>
    /\ scan' = WithRow(scan, s, [main |-> Head(images[m]), extras |-> << >>,
                                 target |-> m, result |-> None, own |-> FALSE])
    /\ UNCHANGED <<disk, images, OtherPictures>>

(* save_piece: a re-OCR updates its piece, any other scan makes a new one,  *)
(* also when the form of a saved scan is sent again.                        *)
SavePiece(s, m) ==
    /\ s \in DOMAIN scan
    /\ \/ /\ scan[s].target = m
          /\ m \in DOMAIN images
          /\ images' = images
       \/ /\ scan[s].target = None
          /\ m \notin DOMAIN images
          /\ images' = WithRow(images, m, <<scan[s].main>> \o scan[s].extras)
    /\ scan' = [scan EXCEPT ![s].result = m, ![s].own = FALSE]
    /\ UNCHANGED <<disk, OtherPictures>>

(* add_placement_to_existing, with the picture or without. *)
AddToExisting(s, m, withImage) ==
    /\ s \in DOMAIN scan /\ m \in DOMAIN images
    /\ Len(images[m]) < MaxImages
    /\ images' = IF withImage THEN [images EXCEPT ![m] = Append(@, scan[s].main)] ELSE images
    /\ scan' = [scan EXCEPT ![s].result = m, ![s].own = FALSE]
    /\ UNCHANGED <<disk, OtherPictures>>

(* delete_scan: not of a saved scan; whoever else names the pictures.       *)
DeleteScan(s) ==
    /\ s \in DOMAIN scan
    /\ scan[s].result = None
    /\ scan' = Without(scan, {s})
    /\ Unlinks(Pictures(s))
    /\ UNCHANGED <<images, OtherPictures>>

AddImage(m, f) ==
    /\ m \in DOMAIN images /\ f \in New
    /\ Len(images[m]) < MaxImages
    /\ disk' = disk \cup {f}
    /\ images' = [images EXCEPT ![m] = Append(@, f)]
    /\ UNCHANGED <<scan, OtherPictures>>

WithoutAt(s, i) == SubSeq(s, 1, i - 1) \o SubSeq(s, i + 1, Len(s))

(* Fault: the picture stays in its old place, too. *)
PromoteImageAgain(m, i) ==
    /\ m \in DOMAIN images /\ i \in DOMAIN images[m]
    /\ images' = [images EXCEPT ![m] = <<@[i]>> \o @]
    /\ UNCHANGED <<disk, scan, OtherPictures>>

(* promote_image *)
PromoteImage(m, i) ==
    /\ m \in DOMAIN images /\ i \in DOMAIN images[m]
    /\ images' = [images EXCEPT ![m] = <<@[i]>> \o WithoutAt(@, i)]
    /\ UNCHANGED <<disk, scan, OtherPictures>>

(* delete_image of metadata.py unlinks first; the row stays if it fails. *)
DeleteImage(m, i) ==
    /\ m \in DOMAIN images /\ i \in DOMAIN images[m]
    /\ Len(images[m]) > 1
    /\ disk' = disk \ {images[m][i]}
    /\ \/ images' = [images EXCEPT ![m] = WithoutAt(@, i)]
       \/ images' = images
    /\ UNCHANGED <<scan, OtherPictures>>

(* Fault: only the other pieces are asked for the files. *)
DeletePieceSparesPieces(m) ==
    LET freed(p) == IF p = m THEN None ELSE p
        rest == Without(images, {m})
    IN
    /\ m \in DOMAIN images
    /\ images' = rest
    /\ scan' = [s \in DOMAIN scan |-> [scan[s] EXCEPT !.target = freed(@), !.result = freed(@)]]
    /\ Unlinks(InSeq(images[m]) \ UNION {InSeq(rest[n]) : n \in DOMAIN rest})
    /\ UNCHANGED OtherPictures

(* delete_piece lets the scans go and keeps the files that a piece shows or *)
(* a scan has as its main picture.                                          *)
DeletePiece(m) ==
    LET freed(p) == IF p = m THEN None ELSE p
        rest == Without(images, {m})
        used == {scan[s].main : s \in DOMAIN scan}
                \cup UNION {InSeq(rest[n]) : n \in DOMAIN rest}
    IN
    /\ m \in DOMAIN images
    /\ images' = rest
    /\ scan' = [s \in DOMAIN scan |-> [scan[s] EXCEPT !.target = freed(@), !.result = freed(@)]]
    /\ Unlinks(InSeq(images[m]) \ used)
    /\ UNCHANGED OtherPictures

-----------------------------------------------------------------------------
(* Photos of storage units: rows first, files after the commit. *)

AddPhoto(u, f) ==
    /\ f \in New
    /\ disk' = disk \cup {f}
    /\ photo' = WithRow(photo, f, u)
    /\ UNCHANGED <<PiecePictures, portrait, held, torn>>

DropPhotos(gone) ==
    /\ gone # {}
    /\ photo' = Without(photo, gone)
    /\ Unlinks(gone)
    /\ UNCHANGED <<PiecePictures, portrait, held, torn>>

(* delete_unit_image, and delete_unit with the cascade. *)
DeleteUnitImage(f) == f \in DOMAIN photo /\ DropPhotos({f})
DeleteUnit(u) == DropPhotos({f \in DOMAIN photo : photo[f] = u})

-----------------------------------------------------------------------------
(* Portraits: what a handler does when its picture has come rests on the    *)
(* row it read before the await.                                            *)

PortraitReads(way, p) ==
    /\ Cardinality(held) < MaxHeld
    /\ way = "fill" => portrait[p] = None
    /\ held' = held \cup {[way |-> way, person |-> p, old |-> portrait[p]]}
    /\ UNCHANGED <<disk, PiecePictures, photo, portrait, torn>>

(* upload_portrait, and refresh_person_mb: save, unlink the old, commit. *)
PortraitOver(h, f) ==
    /\ h.way \in {"upload", "refresh"}
    /\ disk' = (disk \cup {f}) \ {h.old}
    /\ \/ /\ portrait' = [portrait EXCEPT ![h.person] = f]
          /\ torn' = torn \ {h.person}
       \/ /\ portrait' = portrait
          /\ torn' = IF portrait[h.person] = h.old THEN torn \cup {h.person} ELSE torn

(* Fault: a handler that finds another portrait than it read leaves it to    *)
(* the person, and unlinks it in place of its own picture.                  *)
PortraitReplacedIfSame(h, f) ==
    /\ h.way = "replace"
    /\ \/ /\ portrait[h.person] = h.old
          /\ portrait' = [portrait EXCEPT ![h.person] = f]
          /\ torn' = torn \ {h.person}
          /\ \E done \in SUBSET {h.old} : disk' = (disk \cup {f}) \ done
       \/ /\ portrait[h.person] # h.old
          /\ disk' = disk \ {portrait[h.person]}
          /\ UNCHANGED <<portrait, torn>>

(* apply_mb_portrait: save, commit, unlink the old. *)
PortraitReplaced(h, f) ==
    /\ h.way = "replace"
    /\ portrait' = [portrait EXCEPT ![h.person] = f]
    /\ torn' = torn \ {h.person}
    /\ \E done \in SUBSET {h.old} : disk' = (disk \cup {f}) \ done

(* The imports that give a portrait to who had none when they looked. *)
PortraitFilled(h, f) ==
    /\ h.way = "fill"
    /\ disk' = disk \cup {f}
    /\ portrait' = [portrait EXCEPT ![h.person] = f]
    /\ torn' = torn \ {h.person}

PortraitWrites(h, f) ==
    /\ h \in held /\ f \in New
    /\ PortraitOver(h, f) \/ PortraitReplaced(h, f) \/ PortraitFilled(h, f)
    /\ held' = held \ {h}
    /\ UNCHANGED <<PiecePictures, photo>>

(* No picture came: nothing is saved. *)
PortraitGivesUp(h) ==
    /\ h \in held
    /\ held' = held \ {h}
    /\ UNCHANGED <<disk, PiecePictures, photo, portrait, torn>>

(* delete_portrait unlinks before its commit. *)
DeletePortrait(p) ==
    /\ portrait[p] # None
    /\ disk' = disk \ {portrait[p]}
    /\ \/ portrait' = [portrait EXCEPT ![p] = None] /\ torn' = torn \ {p}
       \/ portrait' = portrait /\ torn' = torn \cup {p}
    /\ UNCHANGED <<PiecePictures, photo, held>>

(* delete_orphaned_people unlinks after its commit, delete_person never.    *)
(* The key may then be a new person's.                                      *)
DeletePerson(p) ==
    /\ portrait[p] # None
    /\ portrait' = [portrait EXCEPT ![p] = None]
    /\ torn' = torn \ {p}
    /\ Unlinks({portrait[p]})
    /\ UNCHANGED <<PiecePictures, photo, held>>

-----------------------------------------------------------------------------
ScanStep ==
    \/ \E s \in ScanIds, files \in ShortSeq :
          files # << >> /\ Cardinality(InSeq(files)) = Len(files) /\ UploadScan(s, files)
    \/ \E s \in ScanIds, m \in Pieces : ReOcrPiece(s, m) \/ SavePiece(s, m)
    \/ \E s \in ScanIds : DeleteScan(s)
PieceStep ==
    \/ \E s \in ScanIds, m \in Pieces, b \in BOOLEAN : AddToExisting(s, m, b)
    \/ \E m \in Pieces, f \in Files : AddImage(m, f)
    \/ \E m \in Pieces, i \in 1..MaxImages : PromoteImage(m, i) \/ DeleteImage(m, i)
    \/ \E m \in Pieces : DeletePiece(m)
PhotoStep ==
    \/ \E u \in Units, f \in Files : AddPhoto(u, f)
    \/ \E f \in Files : DeleteUnitImage(f)
    \/ \E u \in Units : DeleteUnit(u)
PortraitStep ==
    \/ \E way \in Ways, p \in People : PortraitReads(way, p)
    \/ \E h \in held : PortraitGivesUp(h) \/ \E f \in Files : PortraitWrites(h, f)
    \/ \E p \in People : DeletePortrait(p) \/ DeletePerson(p)

Next == ScanStep \/ PieceStep \/ PhotoStep \/ PortraitStep

Spec == Init /\ [][Next]_vars

-----------------------------------------------------------------------------
(* Properties *)

(* Rows keep their shape, and only saved files are on disk. *)
TypeOK ==
    /\ disk \subseteq Files
    /\ IsTable(images, Pieces, ShortSeq)
    /\ IsTable(scan, ScanIds, ScanRow)
    /\ IsTable(photo, Files, Units)
    /\ portrait \in [People -> Files \cup {None}]
    /\ held \subseteq HeldRow
    /\ torn \subseteq People

(* The review form and the OCR job read the pictures of a scan: those of an  *)
(* uploaded scan are there until it is saved or deleted, whatever happens to *)
(* pieces, to other scans and to re-OCR scans in the meantime.               *)
NewScansHavePictures ==
    \A s \in DOMAIN scan : scan[s].own => Pictures(s) \subseteq disk

(* storage.py:348 and 598 unlink after the commit: the photo of a unit is on *)
(* disk, also when the process stops half-way.  Handlers of portraits act on *)
(* the path they read before they waited for a picture: however they         *)
(* overtake each other, the portrait a person has is on disk, unless it was  *)
(* unlinked before a commit that never came.                                 *)
PhotosAndPortraitsOnDisk ==
    /\ DOMAIN photo \subseteq disk
    /\ \A p \in People \ torn : portrait[p] # None => portrait[p] \in disk

(* A scan that is not saved yet shares its pictures with nobody, and what a  *)
(* scan may have beside its main picture fits into a piece.                  *)
NewScansAreApart ==
    \A s \in DOMAIN scan :
        /\ Len(scan[s].extras) < MaxImages
        /\ scan[s].own =>
              /\ Pictures(s) \cap Shown = {}
              /\ \A t \in DOMAIN scan \ {s} : Pictures(s) \cap Pictures(t) = {}

(* Files that somebody's portrait is, or was when a handler read it. *)
Portraits == ({portrait[p] : p \in People} \cup {h.old : h \in held}) \ {None}

(* Units and people share their files with nothing else, and what a handler  *)
(* is going to unlink is the portrait of no other person than its own.       *)
KindsAreApart ==
    /\ (Shown \cup InScans) \cap (DOMAIN photo \cup Portraits) = {}
    /\ DOMAIN photo \cap Portraits = {}
    /\ \A p, q \in People : portrait[p] = portrait[q] /\ portrait[p] # None => p = q
    /\ \A h \in held, p \in People : h.old = portrait[p] /\ h.old # None => h.person = p

(* The inductive invariant. *)
IInv ==
    /\ TypeOK
    /\ NewScansHavePictures
    /\ NewScansAreApart
    /\ PhotosAndPortraitsOnDisk
    /\ KindsAreApart

(* crud.py:692 "bara de som inte refereras av andra pieces": deleting a      *)
(* piece takes no picture from another piece, nor the main one of a scan,    *)
(* though re-OCR, duplicates and forms sent twice share files.               *)
DeletePieceSparesOthers ==
    [][DOMAIN images \ DOMAIN images' # {} =>
          /\ \A m \in DOMAIN images' : InSeq(images'[m]) \cap disk \subseteq disk'
          /\ \A s \in DOMAIN scan' : scan'[s].main \in disk => scan'[s].main \in disk']_vars

(* crud.py:603 (re_ocr_piece) "Original-piecen påverkas inte förrän          *)
(* användaren sparar granskningen": a scan that is thrown away leaves the    *)
(* pictures of the pieces on disk.                                           *)
DeletedScanLeavesPieces ==
    [][DOMAIN scan \ DOMAIN scan' # {} =>
          \A m \in DOMAIN images : InSeq(images[m]) \cap disk \subseteq disk']_vars
=============================================================================
