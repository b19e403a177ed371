--------------------------- MODULE CatalogueProofs ---------------------------
(***************************************************************************)
(* Catalogue for every number of publishers, tags and pieces: what a piece *)
(* or a tag names exists, no two publishers bear one name, and a piece     *)
(* that is linked to a publisher stays linked.  TypeOK and NamesAreUnique  *)
(* are inductive together; the lemmas follow the tables a handler writes.  *)
(* Deleting a tag leaves the families of the others as they were.          *)
(***************************************************************************)
EXTENDS Catalogue, TLAPS

-----------------------------------------------------------------------------
(* The invariant by tables *)

(* The row of a piece that may name the publishers P and the tags T. *)
FineRow(row, P, T) ==
    /\ row \in PieceRow
    /\ row.publisher \in P \cup {None}
    /\ row.tags \subseteq T

FinePieces(table, P, T) ==
    /\ DOMAIN table \subseteq Pieces
    /\ table \in [DOMAIN table -> PieceRow]
    /\ \A m \in DOMAIN table : FineRow(table[m], P, T)

FineTags(table) ==
    /\ IsTable(table, TagIds, TagRow)
    /\ \A t \in DOMAIN table : table[t].parent \in DOMAIN table \cup {None}

FinePubs(table) ==
    /\ IsTable(table, PubIds, Names)
    /\ \A p, q \in DOMAIN table : table[p] = table[q] => p = q

IInv ==
    /\ FinePubs(pub)
    /\ FineTags(tag)
    /\ FinePieces(piece, DOMAIN pub, DOMAIN tag)
    /\ fetching \subseteq Fetch

(* IInv says no more and no less than TypeOK and NamesAreUnique. *)
LEMMA IInvIs == IInv <=> TypeOK /\ NamesAreUnique
BY DEF IInv, FinePubs, FineTags, FinePieces, FineRow, TypeOK, NamesAreUnique, IsTable

(* A piece's row stays fine when publishers and tags are added. *)
LEMMA MoreIsFine ==
    ASSUME NEW table, NEW P, NEW T, FinePieces(table, P, T), NEW Q, NEW U, P \subseteq Q, T \subseteq U
    PROVE  FinePieces(table, Q, U)
BY DEF FinePieces, FineRow

(* One row is added or replaced. *)
LEMMA OneMoreIsFine ==
    ASSUME NEW table, NEW P, NEW T, FinePieces(table, P, T), NEW m \in Pieces, NEW row,
           FineRow(row, P, T)
    PROVE  /\ FinePieces(WithRow(table, m, row), P, T)
           /\ m \in DOMAIN table => FinePieces([table EXCEPT ![m] = row], P, T)
<1>1. row \in PieceRow
  BY DEF FineRow
<1>2. FinePieces(WithRow(table, m, row), P, T)
  BY <1>1 DEF FinePieces, With, WithRow
<1>3. m \in DOMAIN table => FinePieces([table EXCEPT ![m] = row], P, T)
  BY <1>1 DEF FinePieces
<1>4. QED
  BY <1>2, <1>3

-----------------------------------------------------------------------------
(* Publishers *)

(* The publisher found or made for a text exists, and the names remain       *)
(* unique: one is made only if no name is even alike.                        *)
LEMMA FoundOrMade ==
    ASSUME IInv, NEW text \in Names \cup {None}, NEW p \in PubIds \cup {None}, NEW pubs,
           FindsOrCreates(text, p, pubs)
    PROVE  /\ FinePubs(pubs)
           /\ DOMAIN pub \subseteq DOMAIN pubs
           /\ p \in DOMAIN pubs \cup {None}
           /\ text # None => p # None
<1>1. CASE \/ text = None /\ p = None /\ pubs = pub
           \/ text # None /\ p \in Alike(text) /\ pubs = pub
  <2>1. None \notin DOMAIN pub
    BY NoneAssumption DEF IInv, FinePubs, IsTable
  <2>2. QED
    BY <1>1, <2>1 DEF IInv, Alike
<1>2. CASE text # None /\ Alike(text) = {} /\ p \in FreePubs /\ pubs = WithRow(pub, p, text)
  <2>1. text \in Names /\ p \in PubIds /\ p \notin DOMAIN pub
    BY <1>2 DEF FreePubs
  <2>2. /\ DOMAIN pubs = DOMAIN pub \cup {p}
        /\ pubs[p] = text
        /\ \A q \in DOMAIN pub : pubs[q] = pub[q]
        /\ IsTable(pubs, PubIds, Names)
    BY <1>2, <2>1 DEF WithRow, With, IsTable, IInv, FinePubs
  <2>3. \A q \in DOMAIN pub : pub[q] # text
    BY <1>2 DEF Alike
  <2>4. FinePubs(pubs)
    BY <2>2, <2>3 DEF FinePubs, IInv
  <2>5. QED
    BY <2>1, <2>2, <2>4, NoneAssumption
<1>3. QED
  BY <1>1, <1>2 DEF FindsOrCreates

(* A publisher takes a name that no other has. *)
LEMMA RenamedPubs ==
    ASSUME IInv, NEW p \in DOMAIN pub, NEW n \in Names, Named(n) \subseteq {p}
    PROVE  /\ FinePubs([pub EXCEPT ![p] = n])
           /\ DOMAIN [pub EXCEPT ![p] = n] = DOMAIN pub
BY DEF IInv, FinePubs, IsTable, Named

(* A publisher goes, and the pieces that had it have gone to another.        *)
LEMMA RelinkedPieces ==
    ASSUME IInv, NEW p \in DOMAIN pub, NEW q \in DOMAIN pub \ {p}
    PROVE  FinePieces(Relinked(p, q), DOMAIN pub \ {p}, DOMAIN tag)
<1> DEFINE table == Relinked(p, q)
<1>1. q \in PubIds
  BY DEF IInv, FinePubs, IsTable
<1>2. DOMAIN table = DOMAIN piece
  BY DEF Relinked
<1>3. ASSUME NEW m \in DOMAIN piece
      PROVE  FineRow(table[m], DOMAIN pub \ {p}, DOMAIN tag)
  <2>1. FineRow(piece[m], DOMAIN pub, DOMAIN tag)
    BY DEF IInv, FinePieces
  <2>2. CASE piece[m].publisher = p
    <3>1. table[m] = [piece[m] EXCEPT !.publisher = q]
      BY <2>2 DEF Relinked, PiecesOf
    <3>2. QED
      BY <1>1, <2>1, <3>1 DEF FineRow, PieceRow
  <2>3. CASE piece[m].publisher # p
    <3>1. table[m] = piece[m]
      BY <2>3 DEF Relinked, PiecesOf
    <3>2. QED
      BY <2>1, <2>3, <3>1 DEF FineRow
  <2>4. QED
    BY <2>2, <2>3
<1>4. table \in [DOMAIN table -> PieceRow]
  <2>1. \A m \in DOMAIN piece : table[m] \in PieceRow
    BY <1>3 DEF FineRow
  <2>2. QED
    BY <1>2, <2>1 DEF Relinked
<1>5. QED
  BY <1>2, <1>3, <1>4 DEF FinePieces, IInv

(* Fewer publishers still have different names. *)
LEMMA FewerPubs ==
    ASSUME IInv, NEW p \in DOMAIN pub
    PROVE  /\ FinePubs(Without(pub, {p}))
           /\ DOMAIN Without(pub, {p}) = DOMAIN pub \ {p}
BY DEF IInv, FinePubs, IsTable, Without

(* match_existing: who is made is found by nobody else, so its name is new,  *)
(* and every piece without a publisher gets one that exists.                 *)
LEMMA MatchExistingStep ==
    ASSUME IInv, MatchExisting
    PROVE  IInv'
<1>1. PICK created \in SUBSET FreePubs :
         \E from \in [created -> Unmatched] :
            LET pubs == With(pub, [p \in created |-> piece[from[p]].text])
                Found(m) == {p \in DOMAIN pubs : Normal[pubs[p]] = Normal[piece[m].text]}
            IN /\ \A p \in created : Found(from[p]) = {p}
               /\ \E link \in [Unmatched -> DOMAIN pubs] :
                     /\ \A m \in Unmatched : link[m] \in Found(m)
                     /\ piece' = [m \in DOMAIN piece |->
                           IF m \in Unmatched THEN [piece[m] EXCEPT !.publisher = link[m]] ELSE piece[m]]
               /\ pub' = pubs
  BY DEF MatchExisting
<1>2. PICK from \in [created -> Unmatched] :
         LET pubs == With(pub, [p \in created |-> piece[from[p]].text])
             Found(m) == {p \in DOMAIN pubs : Normal[pubs[p]] = Normal[piece[m].text]}
         IN /\ \A p \in created : Found(from[p]) = {p}
            /\ \E link \in [Unmatched -> DOMAIN pubs] :
                  /\ \A m \in Unmatched : link[m] \in Found(m)
                  /\ piece' = [m \in DOMAIN piece |->
                        IF m \in Unmatched THEN [piece[m] EXCEPT !.publisher = link[m]] ELSE piece[m]]
            /\ pub' = pubs
  BY <1>1
<1> DEFINE pubs == With(pub, [p \in created |-> piece[from[p]].text])
<1>3. /\ DOMAIN pubs = DOMAIN pub \cup created
      /\ \A p \in created : pubs[p] = piece[from[p]].text
      /\ \A p \in DOMAIN pub : p \notin created /\ pubs[p] = pub[p]
      /\ pubs \in [DOMAIN pub \cup created -> {pubs[p] : p \in DOMAIN pub \cup created}]
  BY DEF With, FreePubs
<1>4. pub' = pubs
  BY <1>2
<1>5. PICK link \in [Unmatched -> DOMAIN pubs] :
         piece' = [m \in DOMAIN piece |->
            IF m \in Unmatched THEN [piece[m] EXCEPT !.publisher = link[m]] ELSE piece[m]]
  BY <1>2
<1>6. \A p \in created : \A q \in DOMAIN pubs : pubs[q] = pubs[p] => q = p
  <2> SUFFICES ASSUME NEW p \in created, NEW q \in DOMAIN pubs, pubs[q] = pubs[p]
               PROVE  q = p
    OBVIOUS
  <2>1. {r \in DOMAIN pubs : Normal[pubs[r]] = Normal[piece[from[p]].text]} = {p}
    BY <1>2
  <2>2. Normal[pubs[q]] = Normal[piece[from[p]].text]
    BY <1>3
  <2>3. QED
    BY <2>1, <2>2
<1> HIDE DEF pubs
<1>7. FinePubs(pubs)
  <2>1. \A m \in Unmatched : piece[m].text \in Names
    BY DEF Unmatched, IInv, FinePieces, PieceRow
  <2>2. \A p \in DOMAIN pubs : p \in PubIds /\ pubs[p] \in Names
    BY <1>3, <2>1 DEF FreePubs, IInv, FinePubs, IsTable
  <2>3. IsTable(pubs, PubIds, Names)
    BY <1>3, <2>2 DEF IsTable
  <2>4. \A p, q \in DOMAIN pubs : pubs[p] = pubs[q] => p = q
    BY <1>3, <1>6 DEF IInv, FinePubs
  <2>5. QED
    BY <2>3, <2>4 DEF FinePubs
<1>8. FinePieces(piece', DOMAIN pubs, DOMAIN tag)
  <2>1. DOMAIN piece' = DOMAIN piece
    BY <1>5
  <2>2. ASSUME NEW m \in DOMAIN piece
        PROVE  FineRow(piece'[m], DOMAIN pubs, DOMAIN tag)
    <3>1. FineRow(piece[m], DOMAIN pubs, DOMAIN tag)
      BY <1>3 DEF IInv, FinePieces, FineRow
    <3>2. CASE m \in Unmatched
      <4>1. piece'[m] = [piece[m] EXCEPT !.publisher = link[m]] /\ link[m] \in DOMAIN pubs
        BY <1>5, <3>2
      <4>2. link[m] \in PubIds
        BY <1>7, <4>1 DEF FinePubs, IsTable
      <4>3. QED
        BY <3>1, <4>1, <4>2 DEF FineRow, PieceRow
    <3>3. CASE m \notin Unmatched
      BY <1>5, <3>1, <3>3
    <3>4. QED
      BY <3>2, <3>3
  <2>3. \A m \in DOMAIN piece : piece'[m] \in PieceRow
    BY <2>2 DEF FineRow
  <2>4. piece' \in [DOMAIN piece' -> PieceRow]
    BY <1>5, <2>1, <2>3
  <2>5. QED
    BY <2>1, <2>2, <2>4 DEF FinePieces, IInv
<1>9. UNCHANGED <<tag, fetching>>
  BY DEF MatchExisting
<1>10. QED
  BY <1>4, <1>7, <1>8, <1>9 DEF IInv

(* Every handler of publishers keeps the invariant. *)
LEMMA PublisherStepIInv ==
    ASSUME IInv, PublisherStep
    PROVE  IInv'
<1>1. ASSUME NEW p \in PubIds, NEW n \in Names, CreatePublisher(p, n)
      PROVE  IInv'
  <2>1. /\ p \notin DOMAIN pub /\ pub' = WithRow(pub, p, n)
        /\ \A q \in DOMAIN pub : pub[q] # n
        /\ UNCHANGED <<tag, piece, fetching>>
    BY <1>1 DEF CreatePublisher, FreePubs, Named
  <2>2. /\ DOMAIN pub' = DOMAIN pub \cup {p}
        /\ pub'[p] = n
        /\ \A q \in DOMAIN pub : pub'[q] = pub[q]
        /\ IsTable(pub', PubIds, Names)
    BY <2>1 DEF WithRow, With, IsTable, IInv, FinePubs
  <2>3. FinePubs(pub')
    BY <2>1, <2>2 DEF FinePubs, IInv
  <2>4. FinePieces(piece, DOMAIN pub', DOMAIN tag)
    BY <2>2, MoreIsFine DEF IInv
  <2>5. QED
    BY <2>1, <2>3, <2>4 DEF IInv
<1>2. ASSUME NEW p \in PubIds, NEW n \in Names, UpdatePublisher(p, n)
      PROVE  IInv'
  <2>1. FinePubs(pub') /\ DOMAIN pub' = DOMAIN pub
    BY <1>2, RenamedPubs DEF UpdatePublisher
  <2>2. QED
    BY <1>2, <2>1 DEF UpdatePublisher, IInv
<1>3. ASSUME NEW p \in PubIds, NEW n \in Names, ApplyReads(p, n)
      PROVE  IInv'
  <2>1. fetching' \subseteq Fetch
    BY <1>3 DEF ApplyReads, Fetch, IInv
  <2>2. QED
    BY <1>3, <2>1 DEF ApplyReads, IInv
<1>4. ASSUME NEW p \in PubIds, NEW q \in PubIds, MergePublishers(p, q)
      PROVE  IInv'
  <2>1. p \in DOMAIN pub /\ q \in DOMAIN pub \ {p}
    BY <1>4 DEF MergePublishers
  <2>2. FinePubs(pub') /\ DOMAIN pub' = DOMAIN pub \ {p}
    BY <1>4, <2>1, FewerPubs DEF MergePublishers
  <2>3. FinePieces(piece', DOMAIN pub', DOMAIN tag)
    BY <1>4, <2>1, <2>2, RelinkedPieces DEF MergePublishers
  <2>4. QED
    BY <1>4, <2>2, <2>3 DEF MergePublishers, IInv
<1>5. ASSUME NEW p \in PubIds, DeletePublisher(p)
      PROVE  IInv'
  <2>1. p \in DOMAIN pub /\ PiecesOf(p) = {} /\ UNCHANGED <<tag, piece, fetching>>
    BY <1>5 DEF DeletePublisher
  <2>2. FinePubs(pub') /\ DOMAIN pub' = DOMAIN pub \ {p}
    BY <1>5, <2>1, FewerPubs DEF DeletePublisher
  <2>3. FinePieces(piece, DOMAIN pub', DOMAIN tag)
    BY <2>1, <2>2 DEF IInv, FinePieces, FineRow, PiecesOf
  <2>4. QED
    BY <2>1, <2>2, <2>3 DEF IInv
<1>6. ASSUME NEW f \in fetching, ApplyWrites(f)
      PROVE  IInv'
  <2>1. f.pub \in PubIds /\ f.gets \in Names
    BY DEF IInv, Fetch
  <2>2. FinePubs(pub') /\ DOMAIN pub' = DOMAIN pub
    <3>1. CASE TakesName(f)
      BY <1>6, <2>1, <3>1, RenamedPubs DEF ApplyWrites, TakesName
    <3>2. CASE ~TakesName(f)
      BY <1>6, <3>2 DEF ApplyWrites, IInv
    <3>3. QED
      BY <3>1, <3>2
  <2>3. QED
    BY <1>6, <2>2 DEF ApplyWrites, IInv
<1>7. QED
  BY <1>1, <1>2, <1>3, <1>4, <1>5, <1>6, MatchExistingStep DEF PublisherStep

-----------------------------------------------------------------------------
(* Tags *)

(* A new or changed tag lies under one of its kind, or under none.           *)
LEMMA TagWritten ==
    ASSUME IInv, NEW t \in TagIds, NEW k \in Kinds, NEW p \in TagIds \cup {None}, ParentGiven(t, k, p)
    PROVE  /\ FineTags(WithRow(tag, t, [kind |-> k, parent |-> p]))
           /\ t \in DOMAIN tag => FineTags([tag EXCEPT ![t] = [kind |-> k, parent |-> p]])
           /\ DOMAIN WithRow(tag, t, [kind |-> k, parent |-> p]) = DOMAIN tag \cup {t}
<1> DEFINE row == [kind |-> k, parent |-> p]
<1>1. row \in TagRow /\ row.parent \in DOMAIN tag \cup {None}
  BY DEF TagRow, ParentGiven, OfKind
<1> HIDE DEF row
<1>2. DOMAIN WithRow(tag, t, row) = DOMAIN tag \cup {t}
  BY DEF WithRow, With
<1>3. FineTags(WithRow(tag, t, row))
  BY <1>1 DEF WithRow, With, FineTags, IsTable, IInv
<1>4. t \in DOMAIN tag => FineTags([tag EXCEPT ![t] = row])
  BY <1>1 DEF FineTags, IsTable, IInv
<1>5. QED
  BY <1>2, <1>3, <1>4 DEF row

(* The children of a deleted tag go to its parent, which remains, unless a   *)
(* tag is its own parent and goes with nothing below it.                     *)
LEMMA TagDeleted ==
    ASSUME IInv, NEW t \in DOMAIN tag, tag[t].parent = t => Children(t) = {t}
    PROVE  FineTags(Without(Lifted(t), {t})) /\ DOMAIN Without(Lifted(t), {t}) = DOMAIN tag \ {t}
<1> DEFINE table == Without(Lifted(t), {t})
<1>1. DOMAIN table = DOMAIN tag \ {t}
  BY DEF Without, Lifted
<1>2. ASSUME NEW u \in DOMAIN tag \ {t}
      PROVE  table[u] \in TagRow /\ table[u].parent \in (DOMAIN tag \ {t}) \cup {None}
  <2>1. /\ tag[u] \in TagRow /\ tag[u].parent \in DOMAIN tag \cup {None}
        /\ tag[t] \in TagRow /\ tag[t].parent \in DOMAIN tag \cup {None}
    BY DEF IInv, FineTags, IsTable
  <2>2. CASE tag[u].parent = t
    <3>1. tag[t].parent # t
      BY <2>2 DEF Children
    <3>2. table[u] = [tag[u] EXCEPT !.parent = tag[t].parent]
      BY <2>2 DEF Without, Lifted, Children
    <3>3. QED
      BY <2>1, <3>1, <3>2 DEF TagRow
  <2>3. CASE tag[u].parent # t
    <3>1. table[u] = tag[u]
      BY <2>3 DEF Without, Lifted, Children
    <3>2. QED
      BY <2>1, <2>3, <3>1
  <2>4. QED
    BY <2>2, <2>3
<1>3. table \in [DOMAIN table -> TagRow]
  BY <1>1, <1>2 DEF Without
<1>4. QED
  BY <1>1, <1>2, <1>3 DEF FineTags, IsTable, IInv

(* Without the tag in any piece. *)
LEMMA UntaggedPieces ==
    ASSUME IInv, NEW t \in TagIds
    PROVE  FinePieces(WithoutTag(t), DOMAIN pub, DOMAIN tag \ {t})
<1> DEFINE table == WithoutTag(t)
<1>1. ASSUME NEW m \in DOMAIN piece
      PROVE  FineRow(table[m], DOMAIN pub, DOMAIN tag \ {t})
  <2>1. FineRow(piece[m], DOMAIN pub, DOMAIN tag)
    BY DEF IInv, FinePieces
  <2>2. table[m] = [piece[m] EXCEPT !.tags = piece[m].tags \ {t}]
    BY DEF WithoutTag
  <2>3. QED
    BY <2>1, <2>2 DEF FineRow, PieceRow
<1>2. DOMAIN table = DOMAIN piece
  BY DEF WithoutTag
<1>3. \A m \in DOMAIN piece : table[m] \in PieceRow
  BY <1>1 DEF FineRow
<1>4. table \in [DOMAIN table -> PieceRow]
  BY <1>2, <1>3 DEF WithoutTag
<1>5. QED
  BY <1>1, <1>2, <1>4 DEF FinePieces, IInv

(* A piece gets other tags, of those there are. *)
LEMMA Retagged ==
    ASSUME IInv, NEW m \in DOMAIN piece, NEW T \in SUBSET TagIds
    PROVE  /\ FineRow(piece[m], DOMAIN pub, DOMAIN tag)
           /\ \A U : DOMAIN tag \subseteq U /\ T \subseteq U
                     => FinePieces([piece EXCEPT ![m].tags = T], DOMAIN pub, U)
<1> DEFINE row == [piece[m] EXCEPT !.tags = T]
<1>1. FineRow(piece[m], DOMAIN pub, DOMAIN tag) /\ m \in Pieces
  BY DEF IInv, FinePieces
<1>2. ASSUME NEW U, DOMAIN tag \subseteq U, T \subseteq U
      PROVE  FinePieces([piece EXCEPT ![m] = row], DOMAIN pub, U)
  <2>1. FineRow(row, DOMAIN pub, U)
    BY <1>1, <1>2 DEF FineRow, PieceRow
  <2>2. FinePieces(piece, DOMAIN pub, U)
    BY <1>2, MoreIsFine DEF IInv
  <2>3. QED
    BY <1>1, <2>1, <2>2, OneMoreIsFine
<1>3. QED
  BY <1>1, <1>2

(* Every handler of tags keeps the invariant. *)
LEMMA TagStepIInv ==
    ASSUME IInv, TagStep
    PROVE  IInv'
<1>1. ASSUME NEW t \in TagIds, NEW k \in Kinds, NEW p \in TagIds \cup {None},
             CreateTag(t, k, p) \/ UpdateTag(t, k, p)
      PROVE  IInv'
  <2>1. FineTags(tag') /\ DOMAIN tag \subseteq DOMAIN tag' /\ UNCHANGED <<pub, piece, fetching>>
    <3>1. CASE CreateTag(t, k, p)
      BY <3>1, TagWritten DEF CreateTag
    <3>2. CASE UpdateTag(t, k, p)
      <4>1. FineTags(tag') /\ UNCHANGED <<pub, piece, fetching>>
        BY <3>2, TagWritten DEF UpdateTag
      <4>2. DOMAIN tag' = DOMAIN tag
        BY <3>2 DEF UpdateTag
      <4>3. QED
        BY <4>1, <4>2
    <3>3. QED
      BY <1>1, <3>1, <3>2
  <2>2. FinePieces(piece, DOMAIN pub, DOMAIN tag')
    BY <2>1, MoreIsFine DEF IInv
  <2>3. QED
    BY <2>1, <2>2 DEF IInv
<1>2. ASSUME NEW t \in TagIds, DeleteTag(t)
      PROVE  IInv'
  <2>1. /\ t \in DOMAIN tag /\ (tag[t].parent = t => Children(t) = {t})
        /\ tag' = Without(Lifted(t), {t}) /\ piece' = WithoutTag(t)
        /\ UNCHANGED <<pub, fetching>>
    BY <1>2 DEF DeleteTag
  <2>2. FineTags(tag') /\ DOMAIN tag' = DOMAIN tag \ {t}
    BY <2>1, TagDeleted
  <2>3. FinePieces(piece', DOMAIN pub, DOMAIN tag')
    BY <2>1, <2>2, UntaggedPieces
  <2>4. QED
    BY <2>1, <2>2, <2>3 DEF IInv
<1>3. ASSUME NEW m \in Pieces, NEW t \in TagIds, ToggleTag(m, t)
      PROVE  IInv'
  <2> DEFINE T == IF t \in piece[m].tags THEN piece[m].tags \ {t} ELSE piece[m].tags \cup {t}
  <2>1. /\ m \in DOMAIN piece /\ t \in DOMAIN tag
        /\ piece' = [piece EXCEPT ![m].tags = T]
        /\ UNCHANGED <<pub, tag, fetching>>
    BY <1>3 DEF ToggleTag
  <2>2. piece[m].tags \subseteq DOMAIN tag /\ DOMAIN tag \subseteq TagIds
    BY <2>1 DEF IInv, FinePieces, FineRow, FineTags, IsTable
  <2>3. T \in SUBSET TagIds /\ T \subseteq DOMAIN tag
    BY <2>1, <2>2
  <2> HIDE DEF T
  <2>4. FinePieces(piece', DOMAIN pub, DOMAIN tag)
    BY <2>1, <2>3, Retagged
  <2>5. QED
    BY <2>1, <2>4 DEF IInv
<1>4. ASSUME NEW m \in Pieces, NEW t \in TagIds, NEW k \in Kinds, CreateAndAttachTag(m, t, k)
      PROVE  IInv'
  <2> DEFINE T == piece[m].tags \cup {t}
  <2>1. /\ m \in DOMAIN piece
        /\ piece' = [piece EXCEPT ![m].tags = T]
        /\ UNCHANGED <<pub, fetching>>
    BY <1>4 DEF CreateAndAttachTag
  <2>2. ParentGiven(t, k, None)
    BY DEF ParentGiven
  <2>3. FineTags(tag') /\ DOMAIN tag' = DOMAIN tag \cup {t}
    BY <1>4, <2>2, TagWritten DEF CreateAndAttachTag, IInv
  <2>4. piece[m].tags \subseteq DOMAIN tag /\ DOMAIN tag \subseteq TagIds
    BY <2>1 DEF IInv, FinePieces, FineRow, FineTags, IsTable
  <2>5. T \in SUBSET TagIds /\ T \subseteq DOMAIN tag'
    BY <2>3, <2>4
  <2> HIDE DEF T
  <2>6. FinePieces(piece', DOMAIN pub, DOMAIN tag')
    BY <2>1, <2>3, <2>5, Retagged
  <2>7. QED
    BY <2>1, <2>3, <2>6 DEF IInv
<1>5. QED
  BY <1>1, <1>2, <1>3, <1>4 DEF TagStep

-----------------------------------------------------------------------------
(* The forms *)

(* What a form writes over the row of a piece, or into a new one. *)
LEMMA FormWrites ==
    ASSUME IInv, FinePubs(pub'), DOMAIN pub \subseteq DOMAIN pub', NEW m \in Pieces, NEW row,
           FineRow(row, DOMAIN pub', DOMAIN tag), UNCHANGED <<tag, fetching>>,
           \/ piece' = WithRow(piece, m, row)
           \/ m \in DOMAIN piece /\ piece' = [piece EXCEPT ![m] = row]
    PROVE  IInv'
<1>1. FinePieces(piece, DOMAIN pub', DOMAIN tag)
  BY MoreIsFine DEF IInv
<1> DEFINE P == DOMAIN pub'
<1>2. FinePieces(piece, P, DOMAIN tag) /\ FineRow(row, P, DOMAIN tag)
  BY <1>1
<1> HIDE DEF P
<1>3. /\ FinePieces(WithRow(piece, m, row), P, DOMAIN tag)
      /\ m \in DOMAIN piece => FinePieces([piece EXCEPT ![m] = row], P, DOMAIN tag)
  BY <1>2, OneMoreIsFine
<1>4. FinePieces(piece', P, DOMAIN tag)
  <2>1. CASE piece' = WithRow(piece, m, row)
    BY <1>3, <2>1
  <2>2. CASE m \in DOMAIN piece /\ piece' = [piece EXCEPT ![m] = row]
    BY <1>3, <2>2
  <2>3. QED
    BY <2>1, <2>2
<1>5. QED
  BY <1>4 DEF IInv, P

(* Every form of a piece keeps the invariant. *)
LEMMA PieceStepIInv ==
    ASSUME IInv, PieceStep
    PROVE  IInv'
<1>0. TagsOfForm \subseteq DOMAIN tag /\ DOMAIN tag \subseteq TagIds
  BY DEF TagsOfForm, OfKind, IInv, FineTags, IsTable
<1>1. ASSUME NEW m \in Pieces, NEW text \in Names \cup {None}, NEW T \in SUBSET TagIds,
             NewPieceSave(m, text, T)
      PROVE  IInv'
  <2>1. PICK p \in PubIds \cup {None} :
           /\ FindsOrCreates(text, p, pub')
           /\ piece' = WithRow(piece, m, [text |-> text, publisher |-> p, tags |-> T \cap TagsOfForm])
    BY <1>1 DEF NewPieceSave
  <2>2. FinePubs(pub') /\ DOMAIN pub \subseteq DOMAIN pub' /\ p \in DOMAIN pub' \cup {None}
    BY <2>1, FoundOrMade
  <2> DEFINE row == [text |-> text, publisher |-> p, tags |-> T \cap TagsOfForm]
  <2>3. FineRow(row, DOMAIN pub', DOMAIN tag)
    BY <1>0, <2>2 DEF FineRow, PieceRow
  <2> HIDE DEF row
  <2>4. piece' = WithRow(piece, m, row) /\ UNCHANGED <<tag, fetching>>
    BY <1>1, <2>1 DEF row, NewPieceSave
  <2>5. QED
    BY <2>2, <2>3, <2>4, FormWrites
<1>2. ASSUME NEW m \in Pieces, NEW text \in Names \cup {None}, NEW T \in SUBSET TagIds,
             SaveScannedPiece(m, text, T)
      PROVE  IInv'
  <2> DEFINE row == [text |-> text, publisher |-> None, tags |-> T \cap TagsOfForm]
  <2>1. FineRow(row, DOMAIN pub, DOMAIN tag)
    BY <1>0 DEF FineRow, PieceRow
  <2>2. piece' = WithRow(piece, m, row) /\ UNCHANGED <<pub, tag, fetching>>
    BY <1>2 DEF SaveScannedPiece
  <2> HIDE DEF row
  <2>3. FinePubs(pub') /\ DOMAIN pub' = DOMAIN pub
    BY <2>2 DEF IInv
  <2>4. QED
    BY <2>1, <2>2, <2>3, FormWrites
<1>3. ASSUME NEW m \in Pieces, NEW text \in Names \cup {None}, NEW T \in SUBSET TagIds,
             EditPieceSave(m, text, T)
      PROVE  IInv'
  <2>1. PICK p \in PubIds \cup {None} :
           /\ FindsOrCreates(text, p, pub')
           /\ piece' = [piece EXCEPT ![m] = [text |-> text, publisher |-> p, tags |-> SetKindTags(m, T)]]
    BY <1>3 DEF EditPieceSave
  <2>2. FinePubs(pub') /\ DOMAIN pub \subseteq DOMAIN pub' /\ p \in DOMAIN pub' \cup {None}
    BY <2>1, FoundOrMade
  <2>3. m \in DOMAIN piece /\ UNCHANGED <<tag, fetching>>
    BY <1>3 DEF EditPieceSave
  <2>4. SetKindTags(m, T) \subseteq DOMAIN tag
    BY <1>0, <2>3 DEF SetKindTags, IInv, FinePieces, FineRow
  <2> DEFINE row == [text |-> text, publisher |-> p, tags |-> SetKindTags(m, T)]
  <2>5. FineRow(row, DOMAIN pub', DOMAIN tag)
    BY <1>0, <2>2, <2>4 DEF FineRow, PieceRow
  <2>6. piece' = [piece EXCEPT ![m] = row]
    BY <2>1
  <2> HIDE DEF row
  <2>7. QED
    BY <2>2, <2>3, <2>5, <2>6, FormWrites
<1>4. ASSUME NEW m \in Pieces, NEW text \in Names \cup {None}, NEW T \in SUBSET TagIds,
             ReOcrSave(m, text, T)
      PROVE  IInv'
  <2>1. PICK p \in PubIds \cup {None} :
           /\ FindsOrCreates(text, p, pub')
           /\ piece' = [piece EXCEPT ![m].text = text, ![m].publisher = p,
                                     ![m].tags = @ \cup (T \cap TagsOfForm)]
    BY <1>4 DEF ReOcrSave
  <2>2. FinePubs(pub') /\ DOMAIN pub \subseteq DOMAIN pub' /\ p \in DOMAIN pub' \cup {None}
    BY <2>1, FoundOrMade
  <2>3. m \in DOMAIN piece /\ UNCHANGED <<tag, fetching>>
    BY <1>4 DEF ReOcrSave
  <2>4. FineRow(piece[m], DOMAIN pub, DOMAIN tag)
    BY <2>3 DEF IInv, FinePieces
  <2> DEFINE row == [text |-> text, publisher |-> p, tags |-> piece[m].tags \cup (T \cap TagsOfForm)]
  <2>5. FineRow(row, DOMAIN pub', DOMAIN tag)
    BY <1>0, <2>2, <2>4 DEF FineRow, PieceRow
  <2>6. piece' = [piece EXCEPT ![m] = row]
    <3>1. piece' = [piece EXCEPT ![m] = [[[piece[m] EXCEPT !.text = text] EXCEPT !.publisher = p]
                                            EXCEPT !.tags = piece[m].tags \cup (T \cap TagsOfForm)]]
      BY <2>1, <2>3, <2>4 DEF FineRow, PieceRow, IInv, FinePieces
    <3>2. [[[piece[m] EXCEPT !.text = text] EXCEPT !.publisher = p]
             EXCEPT !.tags = piece[m].tags \cup (T \cap TagsOfForm)] = row
      <4> DEFINE old == piece[m]
                 tags == old.tags \cup (T \cap TagsOfForm)
                 new == [[[old EXCEPT !.text = text] EXCEPT !.publisher = p] EXCEPT !.tags = tags]
      <4>1. old \in PieceRow /\ tags \in SUBSET TagIds
        BY <1>0, <2>4 DEF FineRow, PieceRow
      <4> HIDE DEF old, tags
      <4>2. [old EXCEPT !.text = text] \in PieceRow
        BY <4>1 DEF PieceRow
      <4>3. [[old EXCEPT !.text = text] EXCEPT !.publisher = p] \in PieceRow
        BY <4>2 DEF PieceRow
      <4>4. new \in PieceRow /\ new.text = text /\ new.publisher = p /\ new.tags = tags
        BY <4>1, <4>3 DEF PieceRow
      <4> HIDE DEF new
      <4>5. new = [text |-> text, publisher |-> p, tags |-> tags]
        BY <4>4 DEF PieceRow
      <4>6. QED
        BY <4>5 DEF new, tags, old, row
    <3>3. QED
      BY <3>1, <3>2
  <2> HIDE DEF row
  <2>7. QED
    BY <2>2, <2>3, <2>5, <2>6, FormWrites
<1>5. ASSUME NEW m \in Pieces, NEW text \in Names \cup {None}, NEW T \in SUBSET TagIds,
             ReOcrSaveFails(m, text, T)
      PROVE  IInv'
  <2>1. PICK p \in PubIds \cup {None} : FindsOrCreates(text, p, pub')
    BY <1>5 DEF ReOcrSaveFails
  <2>2. FinePubs(pub') /\ DOMAIN pub \subseteq DOMAIN pub'
    BY <2>1, FoundOrMade
  <2>3. m \in DOMAIN piece /\ UNCHANGED <<tag, fetching>>
    BY <1>5 DEF ReOcrSaveFails
  <2>4. FineRow(piece[m], DOMAIN pub, DOMAIN tag)
    BY <2>3 DEF IInv, FinePieces
  <2>5. CASE pub' = pub
    BY <1>5, <2>3, <2>5 DEF ReOcrSaveFails, IInv
  <2>6. CASE pub' # pub
    <3> DEFINE row == [piece[m] EXCEPT !.text = text]
    <3>1. FineRow(row, DOMAIN pub', DOMAIN tag)
      BY <2>2, <2>4 DEF FineRow, PieceRow
    <3>2. piece' = [piece EXCEPT ![m] = row]
      BY <1>5, <2>3, <2>6 DEF ReOcrSaveFails
    <3> HIDE DEF row
    <3>3. QED
      BY <2>2, <2>3, <3>1, <3>2, FormWrites
  <2>7. QED
    BY <2>5, <2>6
<1>6. ASSUME NEW m \in Pieces, DeletePiece(m)
      PROVE  IInv'
  BY <1>6 DEF DeletePiece, Without, IInv, FinePieces
<1>7. QED
  BY <1>1, <1>2, <1>3, <1>4, <1>5, <1>6 DEF PieceStep

-----------------------------------------------------------------------------
(* The specification *)

(* Empty tables satisfy the invariant. *)
LEMMA InitIInv == Init => IInv
BY DEF Init, IInv, FinePubs, FineTags, FinePieces, IsTable, Empty

(* Every step keeps the invariant. *)
LEMMA NextIInv == IInv /\ [Next]_vars => IInv'
<1>1. IInv /\ UNCHANGED vars => IInv'
  BY DEF vars, IInv
<1>2. QED
  BY <1>1, PublisherStepIInv, TagStepIInv, PieceStepIInv DEF Next

(* The invariant holds in every reachable state. *)
LEMMA IInvHolds == Spec => []IInv
BY InitIInv, NextIInv, PTL DEF Spec

(* Whatever a piece or a tag names exists. *)
THEOREM TypeCorrect == Spec => []TypeOK
BY IInvHolds, IInvIs, PTL

(* The unique names of publishers are never violated. *)
THEOREM NamesAreUniqueThm == Spec => []NamesAreUnique
BY IInvHolds, IInvIs, PTL

-----------------------------------------------------------------------------
(* Links to publishers *)

(* Who is linked has a text: that is why a form with the same text finds     *)
(* the publisher again.                                                      *)
LinkedHaveText == \A m \in DOMAIN piece : piece[m].publisher # None => piece[m].text # None

(* What a step may make of the row old of a piece. *)
StaysLinked(old, new) ==
    /\ new.publisher # None => new.text # None
    /\ old.publisher # None /\ new.text = old.text => new.publisher # None

(* Handlers of publishers move links from one publisher to another.          *)
LEMMA PublisherStepLinks ==
    ASSUME IInv, LinkedHaveText, PublisherStep, NEW m \in DOMAIN piece'
    PROVE  m \in DOMAIN piece /\ StaysLinked(piece[m], piece'[m])
<1>1. CASE UNCHANGED piece
  BY <1>1 DEF LinkedHaveText, StaysLinked
<1>2. ASSUME NEW p \in PubIds, NEW q \in PubIds, MergePublishers(p, q)
      PROVE  m \in DOMAIN piece /\ StaysLinked(piece[m], piece'[m])
  <2>1. q \in DOMAIN pub /\ q # None /\ piece' = Relinked(p, q)
    BY <1>2, NoneAssumption DEF MergePublishers
  <2>2. m \in DOMAIN piece
    BY <2>1 DEF Relinked
  <2>3. piece[m] \in PieceRow
    BY <2>2 DEF IInv, FinePieces
  <2>4. CASE piece[m].publisher = p
    <3>1. piece'[m] = [piece[m] EXCEPT !.publisher = q]
      BY <2>1, <2>2, <2>4 DEF Relinked, PiecesOf
    <3>2. p # None
      BY NoneAssumption
    <3>3. QED
      BY <2>1, <2>2, <2>3, <2>4, <3>1, <3>2 DEF PieceRow, StaysLinked, LinkedHaveText
  <2>5. CASE piece[m].publisher # p
    <3>1. piece'[m] = piece[m]
      BY <2>1, <2>2, <2>5 DEF Relinked, PiecesOf
    <3>2. QED
      BY <2>2, <3>1 DEF LinkedHaveText, StaysLinked
  <2>6. QED
    BY <2>4, <2>5
<1>3. CASE MatchExisting
  <2>1. PICK link : piece' = [n \in DOMAIN piece |->
               IF n \in Unmatched THEN [piece[n] EXCEPT !.publisher = link[n]] ELSE piece[n]]
    BY <1>3 DEF MatchExisting
  <2>2. m \in DOMAIN piece
    BY <2>1
  <2>3. piece[m] \in PieceRow
    BY <2>2 DEF IInv, FinePieces
  <2>4. CASE m \in Unmatched
    <3>1. piece'[m] = [piece[m] EXCEPT !.publisher = link[m]]
      BY <2>1, <2>2, <2>4
    <3>2. piece[m].text # None /\ piece[m].publisher = None
      BY <2>4 DEF Unmatched
    <3>3. piece'[m].text = piece[m].text
      BY <2>3, <3>1 DEF PieceRow
    <3>4. QED
      BY <2>2, <3>2, <3>3 DEF StaysLinked
  <2>5. CASE m \notin Unmatched
    BY <2>1, <2>2, <2>5 DEF LinkedHaveText, StaysLinked
  <2>6. QED
    BY <2>4, <2>5
<1>4. QED
  BY <1>1, <1>2, <1>3 DEF PublisherStep, CreatePublisher, UpdatePublisher, ApplyReads, DeletePublisher,
                          ApplyWrites

(* Handlers of tags leave them alone. *)
LEMMA TagStepLinks ==
    ASSUME IInv, LinkedHaveText, TagStep, NEW m \in DOMAIN piece'
    PROVE  m \in DOMAIN piece /\ StaysLinked(piece[m], piece'[m])
<1>1. ASSUME DOMAIN piece' = DOMAIN piece, NEW T, piece'[m] = [piece[m] EXCEPT !.tags = T]
      PROVE  m \in DOMAIN piece /\ StaysLinked(piece[m], piece'[m])
  <2>1. m \in DOMAIN piece /\ piece[m] \in PieceRow
    BY <1>1 DEF IInv, FinePieces
  <2>2. piece'[m].publisher = piece[m].publisher /\ piece'[m].text = piece[m].text
    BY <1>1, <2>1 DEF PieceRow
  <2>3. QED
    BY <2>1, <2>2 DEF LinkedHaveText, StaysLinked
<1>2. CASE UNCHANGED piece
  BY <1>2 DEF LinkedHaveText, StaysLinked
<1>3. ASSUME NEW t \in TagIds, DeleteTag(t)
      PROVE  m \in DOMAIN piece /\ StaysLinked(piece[m], piece'[m])
  <2>1. DOMAIN piece' = DOMAIN piece /\ piece'[m] = [piece[m] EXCEPT !.tags = piece[m].tags \ {t}]
    BY <1>3 DEF DeleteTag, WithoutTag
  <2>2. QED
    BY <1>1, <2>1
<1>4. ASSUME NEW n \in Pieces, NEW T, piece' = [piece EXCEPT ![n].tags = T]
      PROVE  m \in DOMAIN piece /\ StaysLinked(piece[m], piece'[m])
  <2>1. DOMAIN piece' = DOMAIN piece
    BY <1>4
  <2>2. piece'[m] = [piece[m] EXCEPT !.tags = T] \/ piece'[m] = piece[m]
    BY <1>4, <2>1
  <2>3. CASE piece'[m] = piece[m]
    BY <2>1, <2>3 DEF LinkedHaveText, StaysLinked
  <2>4. QED
    BY <1>1, <2>1, <2>2, <2>3
<1>5. ASSUME NEW n \in Pieces, NEW t \in TagIds, ToggleTag(n, t)
      PROVE  m \in DOMAIN piece /\ StaysLinked(piece[m], piece'[m])
  <2>1. PICK T : piece' = [piece EXCEPT ![n].tags = T]
    BY <1>5 DEF ToggleTag
  <2>2. QED
    BY <1>4, <2>1
<1>6. ASSUME NEW n \in Pieces, NEW t \in TagIds, NEW k \in Kinds, CreateAndAttachTag(n, t, k)
      PROVE  m \in DOMAIN piece /\ StaysLinked(piece[m], piece'[m])
  <2>1. PICK T : piece' = [piece EXCEPT ![n].tags = T]
    BY <1>6 DEF CreateAndAttachTag
  <2>2. QED
    BY <1>4, <2>1
<1>7. QED
  BY <1>2, <1>3, <1>5, <1>6 DEF TagStep, CreateTag, UpdateTag

(* A form that leaves the text as it was finds a publisher for it, and one   *)
(* that fails changes the link of no piece.                                  *)
LEMMA PieceStepLinks ==
    ASSUME IInv, LinkedHaveText, PieceStep, NEW m \in DOMAIN piece'
    PROVE  /\ m \in DOMAIN piece => StaysLinked(piece[m], piece'[m])
           /\ piece'[m].publisher # None => piece'[m].text # None
<1> DEFINE Goal == /\ m \in DOMAIN piece => StaysLinked(piece[m], piece'[m])
                   /\ piece'[m].publisher # None => piece'[m].text # None
<1>1. ASSUME m \in DOMAIN piece, piece'[m] = piece[m]
      PROVE  Goal
  BY <1>1 DEF LinkedHaveText, StaysLinked
<1>2. ASSUME NEW text \in Names \cup {None}, NEW p \in PubIds \cup {None},
             FindsOrCreates(text, p, pub'), piece'[m].text = text, piece'[m].publisher = p
      PROVE  Goal
  <2>1. text = None <=> p = None
    BY <1>2, FoundOrMade DEF FindsOrCreates
  <2>2. QED
    BY <1>2, <2>1 DEF LinkedHaveText, StaysLinked
<1>3. ASSUME NEW n \in Pieces, NEW text \in Names \cup {None}, NEW T \in SUBSET TagIds,
             NewPieceSave(n, text, T) \/ SaveScannedPiece(n, text, T)
      PROVE  Goal
  <2>1. DOMAIN piece' = DOMAIN piece \cup {n} /\ \A o \in DOMAIN piece : piece'[o] = piece[o]
    BY <1>3 DEF NewPieceSave, SaveScannedPiece, WithRow, With
  <2>2. CASE m \in DOMAIN piece
    BY <1>1, <2>1, <2>2
  <2>3. CASE m \notin DOMAIN piece
    <3>1. m = n
      BY <2>1, <2>3
    <3>2. CASE NewPieceSave(n, text, T)
      <4>1. PICK p \in PubIds \cup {None} :
               /\ FindsOrCreates(text, p, pub')
               /\ piece' = WithRow(piece, n, [text |-> text, publisher |-> p, tags |-> T \cap TagsOfForm])
        BY <3>2 DEF NewPieceSave
      <4>2. piece'[m] = [text |-> text, publisher |-> p, tags |-> T \cap TagsOfForm]
        BY <3>1, <4>1 DEF WithRow, With
      <4>3. QED
        BY <1>2, <4>1, <4>2
    <3>3. CASE SaveScannedPiece(n, text, T)
      <4>1. piece'[m] = [text |-> text, publisher |-> None, tags |-> T \cap TagsOfForm]
        BY <3>1, <3>3 DEF SaveScannedPiece, WithRow, With
      <4>2. QED
        BY <2>3, <4>1
    <3>4. QED
      BY <1>3, <3>2, <3>3
  <2>4. QED
    BY <2>2, <2>3
<1>4. ASSUME NEW n \in Pieces, NEW text \in Names \cup {None}, NEW T \in SUBSET TagIds,
             EditPieceSave(n, text, T) \/ ReOcrSave(n, text, T)
      PROVE  Goal
  <2>1. PICK p \in PubIds \cup {None} :
           /\ FindsOrCreates(text, p, pub')
           /\ \/ piece' = [piece EXCEPT ![n] = [text |-> text, publisher |-> p, tags |-> SetKindTags(n, T)]]
              \/ piece' = [piece EXCEPT ![n].text = text, ![n].publisher = p,
                                        ![n].tags = @ \cup (T \cap TagsOfForm)]
    BY <1>4 DEF EditPieceSave, ReOcrSave
  <2>2. DOMAIN piece' = DOMAIN piece
    BY <2>1
  <2>3. CASE m # n
    <3>1. piece'[m] = piece[m]
      BY <2>1, <2>2, <2>3
    <3>2. QED
      BY <1>1, <2>2, <3>1
  <2>4. CASE m = n
    <3>1. piece[m] \in PieceRow
      BY <2>2 DEF IInv, FinePieces
    <3>2. piece'[m].text = text /\ piece'[m].publisher = p
      <4>1. CASE piece' = [piece EXCEPT ![n] = [text |-> text, publisher |-> p, tags |-> SetKindTags(n, T)]]
        BY <2>2, <2>4, <4>1
      <4>2. CASE piece' = [piece EXCEPT ![n].text = text, ![n].publisher = p,
                                        ![n].tags = @ \cup (T \cap TagsOfForm)]
        BY <2>2, <2>4, <3>1, <4>2 DEF PieceRow
      <4>3. QED
        BY <2>1, <4>1, <4>2
    <3>3. QED
      BY <1>2, <2>1, <3>2
  <2>5. QED
    BY <2>3, <2>4
<1>5. ASSUME NEW n \in Pieces, NEW text \in Names \cup {None}, NEW T \in SUBSET TagIds,
             ReOcrSaveFails(n, text, T)
      PROVE  Goal
  <2>1. PICK p \in PubIds \cup {None} : FindsOrCreates(text, p, pub')
    BY <1>5 DEF ReOcrSaveFails
  <2>2. DOMAIN piece' = DOMAIN piece
    BY <1>5 DEF ReOcrSaveFails
  <2>3. CASE m = n /\ pub' # pub
    <3>1. text # None
      BY <2>1, <2>3 DEF FindsOrCreates
    <3>2. piece[m] \in PieceRow /\ piece'[m] = [piece[m] EXCEPT !.text = text]
      BY <1>5, <2>2, <2>3 DEF ReOcrSaveFails, IInv, FinePieces
    <3>3. piece'[m].text = text /\ piece'[m].publisher = piece[m].publisher
      BY <3>2 DEF PieceRow
    <3>4. QED
      BY <3>1, <3>3 DEF StaysLinked
  <2>4. CASE ~(m = n /\ pub' # pub)
    <3>1. piece'[m] = piece[m]
      BY <1>5, <2>2, <2>4 DEF ReOcrSaveFails
    <3>2. QED
      BY <1>1, <2>2, <3>1
  <2>5. QED
    BY <2>3, <2>4
<1>6. ASSUME NEW n \in Pieces, DeletePiece(n)
      PROVE  Goal
  BY <1>1, <1>6 DEF DeletePiece, Without
<1>7. QED
  BY <1>3, <1>4, <1>5, <1>6 DEF PieceStep

(* Every step. *)
LEMMA NextLinks ==
    ASSUME IInv, LinkedHaveText, Next
    PROVE  /\ LinkedHaveText'
           /\ \A m \in DOMAIN piece \cap DOMAIN piece' : StaysLinked(piece[m], piece'[m])
<1>1. ASSUME NEW m \in DOMAIN piece'
      PROVE  /\ piece'[m].publisher # None => piece'[m].text # None
             /\ m \in DOMAIN piece => StaysLinked(piece[m], piece'[m])
  BY PublisherStepLinks, TagStepLinks, PieceStepLinks DEF Next, StaysLinked
<1>2. QED
  BY <1>1 DEF LinkedHaveText

(* A link to a publisher survives everything but a new text. *)
THEOREM LinkedStaysLinkedThm == Spec => LinkedStaysLinked
<1>1. Init => LinkedHaveText
  BY DEF Init, LinkedHaveText, Empty
<1>2. IInv /\ LinkedHaveText /\ [Next]_vars => LinkedHaveText'
  BY NextLinks DEF vars, LinkedHaveText
<1>3. IInv /\ LinkedHaveText /\ [Next]_vars
      => [\A m \in DOMAIN piece \cap DOMAIN piece' :
             piece[m].publisher # None /\ piece'[m].text = piece[m].text
             => piece'[m].publisher # None]_vars
  BY NextLinks DEF StaysLinked
<1>4. QED
  BY <1>1, <1>2, <1>3, IInvHolds, PTL DEF Spec, LinkedStaysLinked

-----------------------------------------------------------------------------
(* Families of tags *)

(* A set of tags that has the children of its members. *)
Closed(S, table) == \A c \in DOMAIN table : table[c].parent \in S => c \in S

(* What is below a tag in a table: what no closed set with the tag is without. *)
FamilyIn(a, table) ==
    {u \in DOMAIN table : \A S \in SUBSET DOMAIN table : a \in S /\ Closed(S, table) => u \in S}

LEMMA BelowIsFamily ==
    ASSUME NEW a
    PROVE  Below(a) = FamilyIn(a, tag) /\ Below(a)' = FamilyIn(a, tag')
BY DEF Below, FamilyIn, Closed

(* Of the table less, t is gone and its children have gone to its parent. *)
IsLifted(table, t, less) ==
    /\ t \in DOMAIN table /\ DOMAIN less = DOMAIN table \ {t}
    /\ \A c \in DOMAIN less :
          less[c].parent = IF table[c].parent = t THEN table[t].parent ELSE table[c].parent

(* The closed sets before and after the children of t were lifted: t may be  *)
(* left out of one, and belongs to one that has its parent.                  *)
LEMMA LiftedFamilies ==
    ASSUME NEW table, NEW t, NEW less, IsLifted(table, t, less), NEW a \in DOMAIN less
    PROVE  FamilyIn(a, less) = FamilyIn(a, table) \ {t}
<1>0. /\ t \in DOMAIN table /\ DOMAIN less = DOMAIN table \ {t}
      /\ \A c \in DOMAIN less :
            less[c].parent = IF table[c].parent = t THEN table[t].parent ELSE table[c].parent
  BY DEF IsLifted
<1>1. ASSUME NEW u \in FamilyIn(a, less), NEW S \in SUBSET DOMAIN table,
             a \in S, Closed(S, table)
      PROVE  u \in S
  <2>1. Closed(S \ {t}, less)
    BY <1>0, <1>1 DEF Closed
  <2>2. S \ {t} \in SUBSET DOMAIN less /\ a \in S \ {t}
    BY <1>0, <1>1
  <2>3. QED
    BY <2>1, <2>2 DEF FamilyIn
<1>2. ASSUME NEW u \in FamilyIn(a, table) \ {t}, NEW S \in SUBSET DOMAIN less,
             a \in S, Closed(S, less)
      PROVE  u \in S
  <2>1. CASE table[t].parent \notin S
    <3>1. Closed(S, table)
      BY <1>0, <1>2, <2>1 DEF Closed
    <3>2. S \in SUBSET DOMAIN table /\ a \in S
      BY <1>0, <1>2
    <3>3. QED
      BY <3>1, <3>2 DEF FamilyIn
  <2>2. CASE table[t].parent \in S
    <3>1. Closed(S \cup {t}, table)
      BY <1>0, <1>2, <2>2 DEF Closed
    <3>2. S \cup {t} \in SUBSET DOMAIN table /\ a \in S \cup {t}
      BY <1>0, <1>2
    <3>3. QED
      BY <3>1, <3>2 DEF FamilyIn
  <2>3. QED
    BY <2>1, <2>2
<1>3. FamilyIn(a, less) \subseteq FamilyIn(a, table) \ {t}
  BY <1>0, <1>1 DEF FamilyIn
<1>4. FamilyIn(a, table) \ {t} \subseteq FamilyIn(a, less)
  BY <1>0, <1>2 DEF FamilyIn
<1>5. QED
  BY <1>3, <1>4

(* Nothing but delete_tag takes a tag away. *)
LEMMA OnlyDeletedGo ==
    ASSUME Next, NEW t \in DOMAIN tag \ DOMAIN tag'
    PROVE  \E u \in TagIds : DeleteTag(u)
<1>1. CASE PublisherStep
  BY <1>1 DEF PublisherStep, CreatePublisher, UpdatePublisher, ApplyReads, MergePublishers,
              DeletePublisher, MatchExisting, ApplyWrites
<1>2. CASE TagStep
  BY <1>2 DEF TagStep, CreateTag, UpdateTag, ToggleTag, CreateAndAttachTag, WithRow, With
<1>3. CASE PieceStep
  BY <1>3 DEF PieceStep, NewPieceSave, SaveScannedPiece, EditPieceSave, ReOcrSave,
              ReOcrSaveFails, DeletePiece
<1>4. QED
  BY <1>1, <1>2, <1>3 DEF Next

(* A filter on a tag goes on finding what it found when another is deleted,  *)
(* also where tags of different kinds have come below each other, and in a   *)
(* cycle.                                                                    *)
THEOREM DeletionKeepsFamiliesThm == Spec => DeletionKeepsFamilies
<1>1. IInv /\ [Next]_vars =>
        [\A t \in DOMAIN tag \ DOMAIN tag' :
            \A a \in DOMAIN tag' : Below(a)' = Below(a) \ {t}]_vars
  <2> SUFFICES ASSUME IInv, Next, NEW t \in DOMAIN tag \ DOMAIN tag', NEW a \in DOMAIN tag'
               PROVE  Below(a)' = Below(a) \ {t}
    OBVIOUS
  <2>1. PICK u \in TagIds : DeleteTag(u)
    BY OnlyDeletedGo
  <2>2. u \in DOMAIN tag /\ tag' = Without(Lifted(u), {u})
    BY <2>1 DEF DeleteTag
  <2>3. DOMAIN tag' = DOMAIN tag \ {u} /\ t = u
    BY <2>2 DEF Without, Lifted
  <2>4. ASSUME NEW c \in DOMAIN tag'
        PROVE  tag'[c].parent = IF tag[c].parent = u THEN tag[u].parent ELSE tag[c].parent
    <3>1. tag[c] \in TagRow /\ c # u
      BY <2>3 DEF IInv, FineTags, IsTable
    <3>2. CASE tag[c].parent = u
      <4>1. tag'[c] = [tag[c] EXCEPT !.parent = tag[u].parent]
        BY <2>2, <2>3, <3>2 DEF Without, Lifted, Children
      <4>2. QED
        BY <3>1, <3>2, <4>1 DEF TagRow
    <3>3. CASE tag[c].parent # u
      BY <2>2, <2>3, <3>3 DEF Without, Lifted, Children
    <3>4. QED
      BY <3>2, <3>3
  <2>5. FamilyIn(a, tag') = FamilyIn(a, tag) \ {u}
    <3>1. IsLifted(tag, u, tag')
      BY <2>2, <2>3, <2>4 DEF IsLifted
    <3>2. QED
      BY <3>1, LiftedFamilies
  <2>6. QED
    BY <2>3, <2>5, BelowIsFamily
<1>2. QED
  BY <1>1, IInvHolds, PTL DEF Spec, DeletionKeepsFamilies
=============================================================================
