------------------------------- MODULE Catalogue -------------------------------
(***************************************************************************)
(* Publishers and tags, and the forms of a piece that name them:           *)
(* app/routes/publishers.py, app/services/publishers.py,                   *)
(* app/routes/tags.py, the tags of app/routes/pieces/metadata.py, and what *)
(* the forms of crud.py and scan.py write of both.                         *)
(*                                                                         *)
(* A piece names its publisher twice: as the text of the form, and by the  *)
(* key of the row that find_or_create_publisher found for the text.  The   *)
(* handlers run in one step each, except apply_musicbrainz, which awaits   *)
(* MusicBrainz between reading a publisher and writing it.  A form is as   *)
(* old as its page, so the keys in it are any keys.                        *)
(***************************************************************************)
EXTENDS Integers, FiniteSets, Tables

CONSTANTS
    PubIds,     \* primary keys of publishers
    TagIds,     \* primary keys of tags
    Pieces,
    Names,      \* the spellings of publishers' names
    Normal,     \* services/publishers.py _normalize: what spellings share
    FormKinds,  \* the kinds of tags the form sets: voicing and accompaniment
    OtherKinds, \* the others, which are toggled one by one
    None,
    MaxFetches  \* bound: apply_musicbrainz calls at a time

ASSUME NoneAssumption == None \notin PubIds \cup TagIds \cup Names
ASSUME NormalAssumption == DOMAIN Normal = Names

VARIABLES
    pub,      \* table publishers: the name
    tag,      \* table tags
    piece,    \* table pieces with piece_tags
    fetching  \* apply_musicbrainz while it awaits: of whom, and the name it gets

vars == <<pub, tag, piece, fetching>>

Kinds == FormKinds \cup OtherKinds
TagRow == [kind : Kinds, parent : TagIds \cup {None}]
PieceRow == [text      : Names \cup {None},
             publisher : PubIds \cup {None},
             tags      : SUBSET TagIds]
Fetch == [pub : PubIds, gets : Names]

Init ==
    /\ pub = Empty /\ tag = Empty /\ piece = Empty
    /\ fetching = {}

-----------------------------------------------------------------------------
(* Publishers *)

FreePubs == PubIds \ DOMAIN pub
Named(n) == {p \in DOMAIN pub : pub[p] = n}
Alike(n) == {p \in DOMAIN pub : Normal[pub[p]] = Normal[n]}
PiecesOf(p) == {m \in DOMAIN piece : piece[m].publisher = p}

(* find_or_create_publisher(text) returns p and leaves the table pubs. *)
FindsOrCreates(text, p, pubs) ==
    \/ text = None /\ p = None /\ pubs = pub
    \/ text # None /\ p \in Alike(text) /\ pubs = pub
    \/ text # None /\ Alike(text) = {} /\ p \in FreePubs /\ pubs = WithRow(pub, p, text)

(* create_publisher *)
CreatePublisher(p, n) ==
    /\ p \in FreePubs /\ Named(n) = {}
    /\ pub' = WithRow(pub, p, n)
    /\ UNCHANGED <<tag, piece, fetching>>

(* update_publisher *)
UpdatePublisher(p, n) ==
    /\ p \in DOMAIN pub /\ Named(n) \subseteq {p}
    /\ pub' = [pub EXCEPT ![p] = n]
    /\ UNCHANGED <<tag, piece, fetching>>

Relinked(p, q) ==
    [m \in DOMAIN piece |-> IF m \in PiecesOf(p) THEN [piece[m] EXCEPT !.publisher = q] ELSE piece[m]]

(* merge_publishers: the pieces keep the text. *)
MergePublishers(source, target) ==
    /\ source # target /\ {source, target} \subseteq DOMAIN pub
    /\ piece' = Relinked(source, target)
    /\ pub' = Without(pub, {source})
    /\ UNCHANGED <<tag, fetching>>

(* Fault: the pieces are released. *)
DeletePublisherInUse(p) ==
    /\ p \in DOMAIN pub
    /\ piece' = Relinked(p, None)
    /\ pub' = Without(pub, {p})
    /\ UNCHANGED <<tag, fetching>>

(* delete_publisher *)
DeletePublisher(p) ==
    /\ p \in DOMAIN pub /\ PiecesOf(p) = {}
    /\ pub' = Without(pub, {p})
    /\ UNCHANGED <<tag, piece, fetching>>

Unmatched == {m \in DOMAIN piece : piece[m].text # None /\ piece[m].publisher = None}

(* match_existing: one after the other, so one of several unmatched pieces   *)
(* with names that are alike creates the publisher that all of them get.     *)
MatchExisting ==
    /\ Unmatched # {}
    /\ \E created \in SUBSET FreePubs :
          \E from \in [created -> Unmatched] :
             LET pubs == With(pub, [p \in created |-> piece[from[p]].text])
                 Found(m) == {p \in DOMAIN pubs : Normal[pubs[p]] = Normal[piece[m].text]}
             IN /\ \A p \in created : Found(from[p]) = {p}
                /\ \E link \in [Unmatched -> DOMAIN pubs] :
                      /\ \A m \in Unmatched : link[m] \in Found(m)
                      /\ piece' = [m \in DOMAIN piece |->
                            IF m \in Unmatched THEN [piece[m] EXCEPT !.publisher = link[m]] ELSE piece[m]]
                /\ pub' = pubs
    /\ UNCHANGED <<tag, fetching>>

(* apply_musicbrainz reads the publisher and asks for the label, which is    *)
(* called n there.  (If that was its name already, nothing is renamed.)      *)
ApplyReads(p, n) ==
    /\ Cardinality(fetching) < MaxFetches
    /\ p \in DOMAIN pub /\ pub[p] # n
    /\ fetching' = fetching \cup {[pub |-> p, gets |-> n]}
    /\ UNCHANGED <<pub, tag, piece>>

(* Fault: whether the name is taken is not asked again after the call. *)
TakesNameAnyway(f) == f.pub \in DOMAIN pub

(* enrich_publisher_from_mb: the name is taken over unless another has it.   *)
TakesName(f) == f.pub \in DOMAIN pub /\ Named(f.gets) \subseteq {f.pub}

(* The answer comes.  The row that has the key now is written; if there is   *)
(* none the handler fails.                                                   *)
ApplyWrites(f) ==
    /\ f \in fetching
    /\ fetching' = fetching \ {f}
    /\ pub' = IF TakesName(f) THEN [pub EXCEPT ![f.pub] = f.gets] ELSE pub
    /\ UNCHANGED <<tag, piece>>

-----------------------------------------------------------------------------
(* Tags *)

Children(t) == {c \in DOMAIN tag : tag[c].parent = t}
OfKind(k) == {t \in DOMAIN tag : tag[t].kind = k}
TagsOfForm == UNION {OfKind(k) : k \in FormKinds}

(* A parent in the form counts only if it has the kind of the tag. *)
ParentGiven(t, k, p) == p = None \/ p \in OfKind(k) \ {t}

(* create_tag, create_tag_inline *)
CreateTag(t, k, p) ==
    /\ t \in TagIds \ DOMAIN tag
    /\ ParentGiven(t, k, p)
    /\ tag' = WithRow(tag, t, [kind |-> k, parent |-> p])
    /\ UNCHANGED <<pub, piece, fetching>>

(* update_tag: the children stay, whatever becomes of the kind. *)
UpdateTag(t, k, p) ==
    /\ t \in DOMAIN tag
    /\ ParentGiven(t, k, p)
    /\ tag' = [tag EXCEPT ![t] = [kind |-> k, parent |-> p]]
    /\ UNCHANGED <<pub, piece, fetching>>

(* Fault: the children of a deleted tag become roots. *)
LiftedToTheTop(t) ==
    [c \in DOMAIN tag |-> IF c \in Children(t) THEN [tag[c] EXCEPT !.parent = None] ELSE tag[c]]

(* The children of t are lifted to the parent of t. *)
Lifted(t) ==
    [c \in DOMAIN tag |-> IF c \in Children(t) THEN [tag[c] EXCEPT !.parent = tag[t].parent] ELSE tag[c]]

(* Fault: the links of pieces to the tag stay. *)
Untagged(t) == piece

(* Every piece loses the tag. *)
WithoutTag(t) == [m \in DOMAIN piece |-> [piece[m] EXCEPT !.tags = @ \ {t}]]

(* delete_tag.  In a cycle the parent of a child may be the child itself,    *)
(* and then it becomes its own parent: the foreign key refuses its deletion  *)
(* as long as other children stay with it.                                   *)
DeleteTag(t) ==
    /\ t \in DOMAIN tag
    /\ tag[t].parent = t => Children(t) = {t}
    /\ tag' = Without(Lifted(t), {t})
    /\ piece' = WithoutTag(t)
    /\ UNCHANGED <<pub, fetching>>

(* toggle_tag *)
ToggleTag(m, t) ==
    /\ m \in DOMAIN piece /\ t \in DOMAIN tag
    /\ piece' = [piece EXCEPT ![m].tags = IF t \in @ THEN @ \ {t} ELSE @ \cup {t}]
    /\ UNCHANGED <<pub, tag, fetching>>

(* create_and_attach_tag: a tag of that name, or a new one of that kind. *)
CreateAndAttachTag(m, t, k) ==
    /\ m \in DOMAIN piece
    /\ tag' = IF t \in DOMAIN tag THEN tag ELSE WithRow(tag, t, [kind |-> k, parent |-> None])
    /\ piece' = [piece EXCEPT ![m].tags = @ \cup {t}]
    /\ UNCHANGED <<pub, fetching>>

-----------------------------------------------------------------------------
(* The forms of a piece.  T are the tags chosen for the kinds of the form.   *)

(* _set_kind_tags for every kind of the form *)
SetKindTags(m, T) == (piece[m].tags \ TagsOfForm) \cup (T \cap TagsOfForm)

(* new_piece_save *)
NewPieceSave(m, text, T) ==
    /\ m \in Pieces \ DOMAIN piece
    /\ \E p \in PubIds \cup {None} :
          /\ FindsOrCreates(text, p, pub')
          /\ piece' = WithRow(piece, m, [text |-> text, publisher |-> p, tags |-> T \cap TagsOfForm])
    /\ UNCHANGED <<tag, fetching>>

(* save_piece for a scan: nobody looks for the publisher until               *)
(* match_existing does.                                                      *)
SaveScannedPiece(m, text, T) ==
    /\ m \in Pieces \ DOMAIN piece
    /\ piece' = WithRow(piece, m, [text |-> text, publisher |-> None, tags |-> T \cap TagsOfForm])
    /\ UNCHANGED <<pub, tag, fetching>>

(* edit_piece_save *)
EditPieceSave(m, text, T) ==
    /\ m \in DOMAIN piece
    /\ \E p \in PubIds \cup {None} :
          /\ FindsOrCreates(text, p, pub')
          /\ piece' = [piece EXCEPT ![m] = [text |-> text, publisher |-> p, tags |-> SetKindTags(m, T)]]
    /\ UNCHANGED <<tag, fetching>>

(* save_piece for a re-OCR scan: the tags are added to those there are.      *)
ReOcrSave(m, text, T) ==
    /\ m \in DOMAIN piece
    /\ T \cap TagsOfForm \cap piece[m].tags = {}
    /\ \E p \in PubIds \cup {None} :
          /\ FindsOrCreates(text, p, pub')
          /\ piece' = [piece EXCEPT ![m].text = text, ![m].publisher = p,
                                    ![m].tags = @ \cup (T \cap TagsOfForm)]
    /\ UNCHANGED <<tag, fetching>>

(* The same with a tag the piece has: the primary key of piece_tags refuses  *)
(* it.  If the publisher was new, its commit took along what the handler had *)
(* written so far, which is the text and not yet the publisher.              *)
ReOcrSaveFails(m, text, T) ==
    /\ m \in DOMAIN piece
    /\ T \cap TagsOfForm \cap piece[m].tags # {}
    /\ \E p \in PubIds \cup {None} : FindsOrCreates(text, p, pub')
    /\ piece' = IF pub' = pub THEN piece ELSE [piece EXCEPT ![m].text = text]
    /\ UNCHANGED <<tag, fetching>>

(* delete_piece: piece_tags cascade. *)
DeletePiece(m) ==
    /\ m \in DOMAIN piece
    /\ piece' = Without(piece, {m})
    /\ UNCHANGED <<pub, tag, fetching>>

-----------------------------------------------------------------------------
PublisherStep ==
    \/ \E p \in PubIds, n \in Names : CreatePublisher(p, n) \/ UpdatePublisher(p, n) \/ ApplyReads(p, n)
    \/ \E p, q \in PubIds : MergePublishers(p, q)
    \/ \E p \in PubIds : DeletePublisher(p)
    \/ MatchExisting
    \/ \E f \in fetching : ApplyWrites(f)
TagStep ==
    \/ \E t \in TagIds, k \in Kinds, p \in TagIds \cup {None} : CreateTag(t, k, p) \/ UpdateTag(t, k, p)
    \/ \E t \in TagIds : DeleteTag(t)
    \/ \E m \in Pieces, t \in TagIds : ToggleTag(m, t)
    \/ \E m \in Pieces, t \in TagIds, k \in Kinds : CreateAndAttachTag(m, t, k)
PieceStep ==
    \/ \E m \in Pieces, text \in Names \cup {None}, T \in SUBSET TagIds :
          \/ NewPieceSave(m, text, T) \/ SaveScannedPiece(m, text, T)
          \/ EditPieceSave(m, text, T)
          \/ ReOcrSave(m, text, T) \/ ReOcrSaveFails(m, text, T)
    \/ \E m \in Pieces : DeletePiece(m)

Next == PublisherStep \/ TagStep \/ PieceStep

Spec == Init /\ [][Next]_vars

-----------------------------------------------------------------------------
(* Properties *)

(* The tables keep their types, and whatever a piece or a tag names exists:  *)
(* no handler meets a foreign key that refuses it.                           *)
TypeOK ==
    /\ IsTable(pub, PubIds, Names)
    /\ IsTable(tag, TagIds, TagRow)
    /\ IsTable(piece, Pieces, PieceRow)
    /\ fetching \subseteq Fetch
    /\ \A t \in DOMAIN tag : tag[t].parent \in DOMAIN tag \cup {None}
    /\ \A m \in DOMAIN piece :
          /\ piece[m].publisher \in DOMAIN pub \cup {None}
          /\ piece[m].tags \subseteq DOMAIN tag

(* Publisher.name is UNIQUE, and every handler asks first whether a name is  *)
(* taken.  With names that arrive from MusicBrainz while publishers are      *)
(* created, renamed, merged and found, the asking is enough: the constraint  *)
(* never fires.                                                              *)
NamesAreUnique == \A p, q \in DOMAIN pub : pub[p] = pub[q] => p = q

(* services/publishers.py and publishers.py: a piece that is linked to a     *)
(* publisher stays linked to one, through renames, merges, deletions, forms  *)
(* and failures, until its own text is changed.                              *)
LinkedStaysLinked ==
    [][\A m \in DOMAIN piece \cap DOMAIN piece' :
          piece[m].publisher # None /\ piece'[m].text = piece[m].text
          => piece'[m].publisher # None]_vars

(* The tags that a filter on t finds: t and what is below it, whatever the   *)
(* kinds, and also in a cycle (helpers.py _descendant_tag_ids).              *)
Below(t) ==
    {u \in DOMAIN tag :
        \A S \in SUBSET DOMAIN tag :
            t \in S /\ (\A c \in DOMAIN tag : tag[c].parent \in S => c \in S) => u \in S}

(* tags.py:232: the children of a deleted tag are lifted "so that they do    *)
(* not become orphans".  When a tag is deleted, every filter on another tag  *)
(* goes on finding what it found, the deleted tag excepted.                  *)
DeletionKeepsFamilies ==
    [][\A t \in DOMAIN tag \ DOMAIN tag' :
          \A a \in DOMAIN tag' : Below(a)' = Below(a) \ {t}]_vars
=============================================================================
