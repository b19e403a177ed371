---------------------------- MODULE PeopleProofs ----------------------------
(***************************************************************************)
(* People for every number of people, pieces and names: whoever is         *)
(* credited exists, and the search line of a piece has its credits.  The   *)
(* three invariants are inductive together, for the line is written from   *)
(* the rows of the people credited.  On them rest the two results at the   *)
(* end: what a search line may have of old names, and who is a new person. *)
(***************************************************************************)
EXTENDS People, TLAPS

-----------------------------------------------------------------------------
(* The invariant by tables *)

(* The credits of a piece and its search line, with the people P.            *)
FineLine(credits, line, P) ==
    /\ credits \subseteq Credit /\ line \subseteq Entry
    /\ {[person |-> e.person, role |-> e.role] : e \in line} = credits
    /\ \A c \in credits : c.person \in P

FineLines(credits, lines, P) ==
    /\ IsTable(credits, Pieces, SUBSET Credit) /\ IsTable(lines, Pieces, SUBSET Entry)
    /\ DOMAIN lines = DOMAIN credits
    /\ \A m \in DOMAIN credits : FineLine(credits[m], lines[m], P)

FinePeople(table) == IsTable(table, PersonIds, PersonRow)

HeldOK ==
    /\ queued \subseteq PersonIds
    /\ importing \subseteq Import /\ applying \subseteq Application
    /\ renamed \subseteq PersonIds /\ applied \subseteq Pieces

IInv == FinePeople(person) /\ FineLines(contrib, cache, DOMAIN person) /\ HeldOK

(* IInv says no more and no less than the three invariants. *)
LEMMA IInvIs == IInv <=> TypeOK /\ CreditedExist /\ CacheHasTheCredits
<1>1. IInv => TypeOK /\ CreditedExist /\ CacheHasTheCredits
  BY DEF IInv, FineLines, FineLine, FinePeople, HeldOK, TypeOK, CreditedExist, CacheHasTheCredits, IsTable
<1>2. TypeOK /\ CreditedExist /\ CacheHasTheCredits => IInv
  <2> SUFFICES ASSUME TypeOK, CreditedExist, CacheHasTheCredits
               PROVE  IInv
    OBVIOUS
  <2>1. ASSUME NEW m \in DOMAIN contrib
        PROVE  FineLine(contrib[m], cache[m], DOMAIN person)
    BY DEF FineLine, TypeOK, CreditedExist, CacheHasTheCredits, IsTable
  <2>2. QED
    BY <2>1 DEF IInv, FineLines, FinePeople, HeldOK, TypeOK
<1>3. QED
  BY <1>1, <1>2

(* New people take no credit away. *)
LEMMA MorePeople ==
    ASSUME NEW credits, NEW lines, NEW P, NEW Q, FineLines(credits, lines, P), P \subseteq Q
    PROVE  FineLines(credits, lines, Q)
BY DEF FineLines, FineLine

(* The line written from the credits has just those credits. *)
LEMMA EntriesFine ==
    ASSUME NEW credits \in SUBSET Credit, NEW table, FinePeople(table),
           \A c \in credits : c.person \in DOMAIN table
    PROVE  FineLine(credits, Entries(credits, table), DOMAIN table)
<1> DEFINE line == Entries(credits, table)
<1>1. ASSUME NEW c \in credits
      PROVE  [person |-> c.person, role |-> c.role, name |-> table[c.person].name] \in Entry
  <2>1. c \in Credit /\ table[c.person] \in PersonRow
    BY DEF FinePeople, IsTable
  <2>2. QED
    BY <2>1 DEF Credit, Entry, PersonRow
<1>2. line \subseteq Entry
  BY <1>1 DEF Entries
<1>3. ASSUME NEW c \in credits
      PROVE  [person |-> c.person, role |-> c.role] = c
  BY DEF Credit
<1>4. {[person |-> e.person, role |-> e.role] : e \in line} = credits
  <2>1. ASSUME NEW c \in credits
        PROVE  \E e \in line : c = [person |-> e.person, role |-> e.role]
    <3>1. [person |-> c.person, role |-> c.role, name |-> table[c.person].name] \in line
      BY DEF Entries
    <3>2. QED
      BY <1>3, <3>1
  <2>2. ASSUME NEW e \in line
        PROVE  [person |-> e.person, role |-> e.role] \in credits
    <3>1. PICK c \in credits :
             e = [person |-> c.person, role |-> c.role, name |-> table[c.person].name]
      BY DEF Entries
    <3>2. [person |-> e.person, role |-> e.role] = [person |-> c.person, role |-> c.role]
      BY <3>1
    <3>3. QED
      BY <1>3, <3>2
  <2>3. QED
    BY <2>1, <2>2
<1>5. QED
  BY <1>2, <1>4 DEF FineLine

(* Naming the composers as the form does changes no credit. *)
LEMMA AppliedFine ==
    ASSUME NEW credits \in SUBSET Credit, NEW table, FinePeople(table), NEW name \in Names,
           \A c \in credits : c.person \in DOMAIN table
    PROVE  FineLine(credits, CacheAsApplied(credits, table, name), DOMAIN table)
<1> DEFINE old == Entries(credits, table)
           Applied(e) == IF e.role = "composer" THEN [e EXCEPT !.name = name] ELSE e
           line == {Applied(e) : e \in old}
<1>1. FineLine(credits, old, DOMAIN table)
  BY EntriesFine
<1> HIDE DEF old
<1>2. ASSUME NEW e \in Entry
      PROVE  /\ Applied(e) \in Entry
             /\ Applied(e).person = e.person /\ Applied(e).role = e.role
  BY DEF Entry
<1> HIDE DEF Applied
<1>3. old \subseteq Entry /\ {[person |-> e.person, role |-> e.role] : e \in old} = credits
  BY <1>1 DEF FineLine
<1>4. line \subseteq Entry
  BY <1>2, <1>3
<1>5. {[person |-> e.person, role |-> e.role] : e \in line}
      = {[person |-> e.person, role |-> e.role] : e \in old}
  BY <1>2, <1>3
<1>6. FineLine(credits, line, DOMAIN table)
  BY <1>1, <1>3, <1>4, <1>5 DEF FineLine
<1>7. CacheAsApplied(credits, table, name) = line
  BY DEF CacheAsApplied, Applied, old
<1>8. QED
  BY <1>6, <1>7

(* The credits and the line of one piece are written. *)
LEMMA LineWritten ==
    ASSUME NEW P, FineLines(contrib, cache, P), NEW m \in Pieces, NEW credits, NEW line,
           FineLine(credits, line, P)
    PROVE  FineLines(WithRow(contrib, m, credits), WithRow(cache, m, line), P)
<1>1. credits \in SUBSET Credit /\ line \in SUBSET Entry
  BY DEF FineLine
<1>2. /\ IsTable(WithRow(contrib, m, credits), Pieces, SUBSET Credit)
      /\ IsTable(WithRow(cache, m, line), Pieces, SUBSET Entry)
  BY <1>1 DEF FineLines, IsTable, With, WithRow
<1>3. ASSUME NEW n \in DOMAIN WithRow(contrib, m, credits)
      PROVE  FineLine(WithRow(contrib, m, credits)[n], WithRow(cache, m, line)[n], P)
  BY DEF FineLines, With, WithRow
<1>4. DOMAIN WithRow(cache, m, line) = DOMAIN WithRow(contrib, m, credits)
  BY DEF FineLines, With, WithRow
<1>5. QED
  BY <1>2, <1>3, <1>4 DEF FineLines

(* What apply_musicbrainz writes: credits are added, and the line is made    *)
(* anew from the people as the handler sees them.                            *)
LEMMA LineApplied ==
    ASSUME NEW table, FinePeople(table), FineLines(contrib, cache, DOMAIN table),
           NEW m \in DOMAIN contrib, NEW name \in Names,
           NEW more \in SUBSET Credit, \A c \in more : c.person \in DOMAIN table,
           NEW credits, credits = contrib[m] \cup more
    PROVE  FineLines([contrib EXCEPT ![m] = credits],
                     [cache EXCEPT ![m] = CacheAsApplied(credits, table, name)], DOMAIN table)
<1> DEFINE P == DOMAIN table
           line == CacheAsApplied(credits, table, name)
<1>1. FineLine(contrib[m], cache[m], P)
  BY DEF FineLines
<1>2. credits \in SUBSET Credit /\ \A c \in credits : c.person \in P
  BY <1>1 DEF FineLine
<1>3. FineLine(credits, line, P)
  BY <1>2, AppliedFine
<1> HIDE DEF line
<1>4. credits \in SUBSET Credit /\ line \in SUBSET Entry
  BY <1>3 DEF FineLine
<1>5. /\ IsTable([contrib EXCEPT ![m] = credits], Pieces, SUBSET Credit)
      /\ IsTable([cache EXCEPT ![m] = line], Pieces, SUBSET Entry)
  BY <1>4 DEF FineLines, IsTable
<1>6. ASSUME NEW n \in DOMAIN contrib
      PROVE  FineLine([contrib EXCEPT ![m] = credits][n], [cache EXCEPT ![m] = line][n], P)
  BY <1>3 DEF FineLines
<1> HIDE DEF P
<1>7. FineLines([contrib EXCEPT ![m] = credits], [cache EXCEPT ![m] = line], P)
  BY <1>5, <1>6 DEF FineLines, P
<1>8. QED
  BY <1>7 DEF P, line

(* One person is written. *)
LEMMA PersonWritten ==
    ASSUME FinePeople(person), NEW p \in PersonIds, NEW row \in PersonRow
    PROVE  /\ FinePeople(With(person, [q \in {p} |-> row]))
           /\ DOMAIN With(person, [q \in {p} |-> row]) = DOMAIN person \cup {p}
           /\ p \in DOMAIN person => /\ FinePeople([person EXCEPT ![p] = row])
                                     /\ DOMAIN [person EXCEPT ![p] = row] = DOMAIN person
BY DEF FinePeople, IsTable, With

-----------------------------------------------------------------------------
(* The steps *)

(* A step that writes one person, and no credit. *)
LEMMA OnePersonStep ==
    ASSUME IInv, NEW p \in PersonIds, NEW row \in PersonRow, HeldOK',
           UNCHANGED pieces,
           \/ person' = With(person, [q \in {p} |-> row])
           \/ p \in DOMAIN person /\ person' = [person EXCEPT ![p] = row]
    PROVE  IInv'
<1>1. FinePeople(person') /\ DOMAIN person \subseteq DOMAIN person'
  <2>1. CASE person' = With(person, [q \in {p} |-> row])
    BY <2>1, PersonWritten DEF IInv
  <2>2. CASE p \in DOMAIN person /\ person' = [person EXCEPT ![p] = row]
    BY <2>2, PersonWritten DEF IInv
  <2>3. QED
    BY <2>1, <2>2
<1>2. FineLines(contrib, cache, DOMAIN person')
  BY <1>1, MorePeople DEF IInv
<1>3. QED
  BY <1>1, <1>2 DEF IInv, pieces

(* The people a form names exist once it is saved. *)
LEMMA FormPeople ==
    ASSUME IInv, NEW m \in Pieces, NEW form \in Forms, ReplaceContributors(m, form)
    PROVE  /\ FinePeople(person')
           /\ FineLines(contrib', cache', DOMAIN person')
<1> DEFINE names == {f[1] : f \in form}
<1>0. form \in SUBSET (Names \X Roles)
  BY DEF Forms
<1>1. PICK who \in [names -> PersonIds] :
         \E made \in [{who[n] : n \in {n \in names : Named(n) = {}}} -> NewRows(names)] :
           /\ Resolves(names, who, made)
           /\ person' = With(person, made)
           /\ contrib' = With(contrib, [k \in {m} |-> {[person |-> who[f[1]], role |-> f[2]] : f \in form}])
           /\ cache' = With(cache, [k \in {m} |->
                 Entries({[person |-> who[f[1]], role |-> f[2]] : f \in form}, person')])
  BY DEF ReplaceContributors
<1> DEFINE fresh == {who[n] : n \in {n \in names : Named(n) = {}}}
           credits == {[person |-> who[f[1]], role |-> f[2]] : f \in form}
<1>2. PICK made \in [fresh -> NewRows(names)] :
           /\ Resolves(names, who, made)
           /\ person' = With(person, made)
           /\ contrib' = With(contrib, [k \in {m} |-> credits])
           /\ cache' = With(cache, [k \in {m} |-> Entries(credits, person')])
  BY <1>1
<1>3. names \subseteq Names /\ fresh \subseteq PersonIds
  BY <1>0
<1>4. \A p \in fresh : made[p] \in PersonRow
  BY <1>3 DEF NewRows, PersonRow, Identity
<1>5. DOMAIN made = fresh /\ DOMAIN person' = DOMAIN person \cup fresh
  BY <1>2 DEF With
<1>6. FinePeople(person')
  BY <1>2, <1>3, <1>4, <1>5 DEF FinePeople, IsTable, With, IInv
<1>7. \A n \in names : who[n] \in DOMAIN person'
  BY <1>2, <1>5 DEF Resolves, Named
<1>8. credits \in SUBSET Credit /\ \A c \in credits : c.person \in DOMAIN person'
  <2> SUFFICES ASSUME NEW f \in form
               PROVE  /\ [person |-> who[f[1]], role |-> f[2]] \in Credit
                      /\ who[f[1]] \in DOMAIN person'
    BY DEF credits
  <2>1. f[1] \in names /\ f[2] \in Roles
    BY <1>0
  <2>2. QED
    BY <1>7, <2>1 DEF Credit
<1> HIDE DEF names, fresh, credits
<1>9. FineLine(credits, Entries(credits, person'), DOMAIN person')
  BY <1>6, <1>8, EntriesFine
<1>10. FineLines(contrib, cache, DOMAIN person')
  BY <1>5, MorePeople DEF IInv
<1> DEFINE P == DOMAIN person'
           line == Entries(credits, person')
<1>11. FineLine(credits, line, P) /\ FineLines(contrib, cache, P)
  BY <1>9, <1>10
<1>12. contrib' = WithRow(contrib, m, credits) /\ cache' = WithRow(cache, m, line)
  BY <1>2 DEF WithRow
<1> HIDE DEF P, line
<1>13. FineLines(contrib', cache', P)
  BY <1>11, <1>12, LineWritten
<1>14. QED
  BY <1>6, <1>13 DEF P

(* A form saved. *)
LEMMA SavePieceStep ==
    ASSUME IInv, NEW m \in Pieces, NEW form \in Forms, SavePiece(m, form)
    PROVE  IInv'
<1>1. FinePeople(person') /\ FineLines(contrib', cache', DOMAIN person')
  BY FormPeople DEF SavePiece
<1>2. queued' \subseteq PersonIds
  <2>1. PICK asked \in SUBSET {c.person : c \in contrib'[m]} : queued' = queued \cup asked
    BY DEF SavePiece, EnqueueEnrich
  <2>2. m \in DOMAIN contrib'
    BY DEF SavePiece, ReplaceContributors, With
  <2>3. {c.person : c \in contrib'[m]} \subseteq PersonIds
    BY <1>1, <2>2 DEF FineLines, FineLine, Credit
  <2>4. QED
    BY <2>1, <2>3 DEF IInv, HeldOK
<1>3. HeldOK'
  BY <1>2 DEF SavePiece, held, IInv, HeldOK
<1>4. QED
  BY <1>1, <1>3 DEF IInv

(* Deleting a piece, or a person that no piece credits. *)
LEMMA DeleteStep ==
    ASSUME IInv, (\E m \in Pieces : DeletePiece(m)) \/ (\E p \in PersonIds : DeletePerson(p))
    PROVE  IInv'
<1>1. ASSUME NEW m \in Pieces, DeletePiece(m)
      PROVE  IInv'
  <2>1. /\ contrib' = Without(contrib, {m}) /\ cache' = Without(cache, {m})
        /\ UNCHANGED person /\ HeldOK'
    BY <1>1 DEF DeletePiece, held, IInv, HeldOK
  <2>2. FineLines(contrib', cache', DOMAIN person)
    BY <2>1 DEF Without, IInv, FineLines, IsTable
  <2>3. QED
    BY <2>1, <2>2 DEF IInv
<1>2. ASSUME NEW p \in PersonIds, DeletePerson(p)
      PROVE  IInv'
  <2>1. person' = Without(person, {p}) /\ UNCHANGED <<contrib, cache>> /\ HeldOK' /\ PiecesWith(p) = {}
    BY <1>2 DEF DeletePerson, Orphan, pieces, held, IInv, HeldOK
  <2>2. FinePeople(person') /\ DOMAIN person' = DOMAIN person \ {p}
    BY <2>1 DEF Without, IInv, FinePeople, IsTable
  <2>3. \A m \in DOMAIN contrib : \A c \in contrib[m] : c.person # p
    BY <2>1 DEF PiecesWith
  <2>4. FineLines(contrib, cache, DOMAIN person')
    BY <2>2, <2>3 DEF IInv, FineLines, FineLine
  <2>5. QED
    BY <2>1, <2>2, <2>4 DEF IInv
<1>3. QED
  BY <1>1, <1>2

(* The form of a person: the lines of the pieces are written anew. *)
LEMMA UpdatePersonStep ==
    ASSUME IInv, NEW p \in PersonIds, NEW row \in PersonRow, UpdatePerson(p, row)
    PROVE  IInv'
<1>1. /\ p \in DOMAIN person /\ person' = [person EXCEPT ![p] = row]
      /\ cache' = [m \in DOMAIN cache |->
                      IF m \in PiecesWith(p) THEN Entries(contrib[m], person') ELSE cache[m]]
      /\ UNCHANGED contrib /\ HeldOK'
  BY DEF UpdatePerson, held, IInv, HeldOK
<1>2. FinePeople(person') /\ DOMAIN person' = DOMAIN person
  BY <1>1, PersonWritten DEF IInv
<1>3. ASSUME NEW m \in DOMAIN contrib
      PROVE  FineLine(contrib[m], cache'[m], DOMAIN person')
  <2>1. FineLine(contrib[m], cache[m], DOMAIN person) /\ m \in DOMAIN cache
    BY DEF IInv, FineLines
  <2>2. FineLine(contrib[m], Entries(contrib[m], person'), DOMAIN person')
    BY <1>2, <2>1, EntriesFine DEF FineLine
  <2>3. QED
    BY <1>1, <1>2, <2>1, <2>2
<1>4. DOMAIN cache' = DOMAIN contrib
  BY <1>1 DEF IInv, FineLines
<1>5. \A m \in DOMAIN contrib : cache'[m] \in SUBSET Entry
  BY <1>3 DEF FineLine
<1>6. IsTable(cache', Pieces, SUBSET Entry)
  BY <1>1, <1>4, <1>5 DEF IInv, FineLines, IsTable
<1>7. FineLines(contrib, cache', DOMAIN person')
  BY <1>3, <1>4, <1>6 DEF IInv, FineLines
<1>8. QED
  BY <1>1, <1>2, <1>7 DEF IInv

(* What a person's row becomes is a row. *)
LEMMA RowTypes ==
    ASSUME IInv, NEW p \in PersonIds, NEW name \in Names, NEW a \in Identity
    PROVE  /\ FilledIn(p, name, a) \in PersonRow
           /\ \A row \in PersonRow : /\ Enriched(row, a) \in PersonRow
                                     /\ [row EXCEPT !.name = name] \in PersonRow
                                     /\ [row EXCEPT !.mbid = a] \in PersonRow
           /\ p \in DOMAIN person => person[p] \in PersonRow
BY DEF FilledIn, Enriched, PersonRow, Identity, IInv, FinePeople, IsTable

(* What is kept for after an await is a change, and makes a row of a row. *)
LEMMA ChangeTypes ==
    ASSUME NEW old \in PersonRow, NEW new \in PersonRow
    PROVE  Changes(old, new) \in Change
BY DEF Changes, Change, PersonRow

(* A handler that has waited writes a row of the table's shape. *)
LEMMA ChangedTypes ==
    ASSUME NEW row \in PersonRow, NEW change \in Change
    PROVE  Changed(row, change) \in PersonRow
BY DEF Changed, Change, PersonRow

(* A handler that waits changes no table. *)
LEMMA ImportsStep ==
    ASSUME IInv, NEW p \in PersonIds, NEW row \in PersonRow, Imports(p, row)
    PROVE  IInv'
<1> DEFINE change == Changes(person[p], row)
<1>1. change \in Change
  BY ChangeTypes DEF Imports, IInv, FinePeople, IsTable
<1>2. importing' = importing \cup {[person |-> p, change |-> change]}
  BY DEF Imports
<1> HIDE DEF change
<1>3. importing' \subseteq Import
  BY <1>1, <1>2 DEF Import, IInv, HeldOK
<1>4. QED
  BY <1>3 DEF Imports, pieces, history, IInv, HeldOK

(* A person that the review page finds or makes. *)
LEMMA ImportsOrMakesStep ==
    ASSUME IInv, NEW p \in PersonIds, NEW row \in PersonRow, ImportsOrMakes(p, row)
    PROVE  IInv'
<1>1. CASE Imports(p, row)
  BY <1>1, ImportsStep
<1>2. CASE person' = WithRow(person, p, row) /\ UNCHANGED <<pieces, queued, held, history>>
  <2>1. person' = With(person, [q \in {p} |-> row])
    BY <1>2 DEF WithRow
  <2>2. HeldOK'
    BY <1>2 DEF held, history, IInv, HeldOK
  <2>3. QED
    BY <1>2, <2>1, <2>2, OnePersonStep
<1>3. QED
  BY <1>1, <1>2 DEF ImportsOrMakes

(* The pages that take a person from MusicBrainz or Wikidata. *)
LEMMA ImportStep ==
    ASSUME IInv, NEW p \in PersonIds,
           \/ \E a \in Artists : ApplyArtist(p, a) \/ ApplyWikidata(p, a)
           \/ ClearMbid(p) \/ RefreshPerson(p)
           \/ \E name \in Names, a \in Artists : ReviewArtist(name, a, p)
           \/ \E name \in Names, a \in Identity : ReviewWikidata(name, a, p)
    PROVE  IInv'
<1>0. \A a \in Artists : ArtistName[a] \in Names /\ a \in Identity
  BY NamesAssumption DEF Identity
<1>1. ASSUME NEW a \in Artists, ApplyArtist(p, a)
      PROVE  IInv'
  <2>1. [name |-> ArtistName[a], mbid |-> a] \in PersonRow
    BY <1>0 DEF PersonRow
  <2>2. QED
    BY <1>1, <2>1, ImportsStep DEF ApplyArtist
<1>2. ASSUME NEW a \in Artists, ApplyWikidata(p, a)
      PROVE  IInv'
  <2>1. [person[p] EXCEPT !.mbid = a] \in PersonRow
    BY <1>0, <1>2 DEF ApplyWikidata, PersonRow, IInv, FinePeople, IsTable
  <2>2. QED
    BY <1>2, <2>1, ImportsStep DEF ApplyWikidata
<1>3. ASSUME ClearMbid(p)
      PROVE  IInv'
  <2>1. [person[p] EXCEPT !.mbid = NoArtist] \in PersonRow
    BY <1>3 DEF ClearMbid, PersonRow, Identity, IInv, FinePeople, IsTable
  <2>2. HeldOK'
    BY <1>3 DEF ClearMbid, held, history, IInv, HeldOK
  <2>3. QED
    BY <1>3, <2>1, <2>2, OnePersonStep DEF ClearMbid
<1>4. ASSUME RefreshPerson(p)
      PROVE  IInv'
  <2>1. p \in DOMAIN person /\ person[p] \in PersonRow /\ person[p].mbid # NoArtist
    BY <1>4 DEF RefreshPerson, IInv, FinePeople, IsTable
  <2>2. person[p].mbid \in Artists
    BY <2>1 DEF PersonRow, Identity
  <2>3. ArtistName[person[p].mbid] \in Names
    BY <1>0, <2>2
  <2>4. [person[p] EXCEPT !.name = ArtistName[person[p].mbid]] \in PersonRow
    BY <2>1, <2>3 DEF PersonRow
  <2>5. QED
    BY <1>4, <2>4, ImportsStep DEF RefreshPerson
<1>5. ASSUME NEW name \in Names, NEW a \in Artists, ReviewArtist(name, a, p)
      PROVE  IInv'
  <2>1. [FilledIn(p, name, a) EXCEPT !.name = ArtistName[a]] \in PersonRow
    BY <1>0, RowTypes
  <2>2. QED
    BY <1>5, <2>1, ImportsOrMakesStep DEF ReviewArtist
<1>6. ASSUME NEW name \in Names, NEW a \in Identity, ReviewWikidata(name, a, p)
      PROVE  IInv'
  <2>1. FilledIn(p, name, a) \in PersonRow
    BY RowTypes
  <2>2. QED
    BY <1>6, <2>1, ImportsOrMakesStep DEF ReviewWikidata
<1>7. QED
  BY <1>1, <1>2, <1>3, <1>4, <1>5, <1>6

(* The answers that come, and the job. *)
LEMMA AnswerAndWorkerStep ==
    ASSUME IInv, AnswerStep \/ WorkerStep
    PROVE  IInv'
<1>1. ASSUME NEW r \in importing, ImportEnds(r)
      PROVE  IInv'
  <2>1. r.person \in PersonIds /\ r.change \in Change
    BY DEF IInv, HeldOK, Import
  <2>2. HeldOK'
    BY <1>1, <2>1 DEF ImportEnds, IInv, HeldOK
  <2>3. CASE r.person \in DOMAIN person /\ person' = [person EXCEPT ![r.person] = Changed(@, r.change)]
    <3> DEFINE p == r.person
               row == Changed(person[p], r.change)
    <3>1. row \in PersonRow
      BY <2>1, <2>3, ChangedTypes DEF IInv, FinePeople, IsTable
    <3>2. p \in PersonIds /\ p \in DOMAIN person /\ person' = [person EXCEPT ![p] = row]
      BY <2>1, <2>3
    <3>3. UNCHANGED pieces
      BY <1>1 DEF ImportEnds
    <3> HIDE DEF p, row
    <3>4. QED
      BY <2>2, <3>1, <3>2, <3>3, OnePersonStep
  <2>4. CASE UNCHANGED person
    BY <1>1, <2>2, <2>4 DEF ImportEnds, pieces, IInv
  <2>5. QED
    BY <1>1, <2>3, <2>4 DEF ImportEnds
<1>2. ASSUME NEW r \in applying, ApplyWrites(r)
      PROVE  IInv'
  <2>1. /\ r.piece \in Pieces /\ r.person \in PersonIds /\ r.change \in Change
        /\ r.name \in Names /\ r.seen \in Names
    BY DEF IInv, HeldOK, Application
  <2>2. HeldOK'
    BY <1>2, <2>1 DEF ApplyWrites, history, IInv, HeldOK
  <2> DEFINE p == r.person
             m == r.piece
             name == r.name
             adds == IF r.adds THEN {[person |-> p, role |-> "composer"]} ELSE {}
             seen == [q \in DOMAIN person' |->
                         IF q = p THEN [person'[q] EXCEPT !.name = r.seen] ELSE person'[q]]
             credits == contrib[m] \cup adds
  <2>3. CASE /\ m \in DOMAIN contrib
             /\ p \in DOMAIN person \/ ~r.adds
             /\ person' = [q \in DOMAIN person |->
                             IF q = p THEN Changed(person[q], r.change) ELSE person[q]]
             /\ contrib' = [contrib EXCEPT ![m] = @ \cup adds]
             /\ cache' = [cache EXCEPT ![m] = CacheAsApplied(contrib'[m], seen, name)]
    <3>1. FinePeople(person') /\ DOMAIN person' = DOMAIN person
      BY <2>1, <2>3, ChangedTypes DEF IInv, FinePeople, IsTable
    <3>2. FinePeople(seen) /\ DOMAIN seen = DOMAIN person
      <4>1. \A q \in DOMAIN person : seen[q] \in PersonRow
        BY <2>1, <3>1 DEF FinePeople, IsTable, PersonRow
      <4>2. QED
        BY <3>1, <4>1 DEF FinePeople, IsTable
    <3>3. adds \in SUBSET Credit /\ \A c \in adds : c.person \in DOMAIN person
      BY <2>1, <2>3 DEF Credit, Roles
    <3>4. contrib' = [contrib EXCEPT ![m] = credits] /\ contrib'[m] = credits
      BY <2>3 DEF IInv, FineLines, IsTable
    <3>5. cache' = [cache EXCEPT ![m] = CacheAsApplied(credits, seen, name)]
      BY <2>3, <3>4
    <3>6. FineLines(contrib, cache, DOMAIN seen)
      BY <3>2 DEF IInv
    <3>7. m \in DOMAIN contrib /\ name \in Names /\ \A c \in adds : c.person \in DOMAIN seen
      BY <2>1, <2>3, <3>2, <3>3
    <3>8. credits = contrib[m] \cup adds
      OBVIOUS
    <3> HIDE DEF seen, adds, credits, m, p, name
    <3>9. FineLines([contrib EXCEPT ![m] = credits],
                    [cache EXCEPT ![m] = CacheAsApplied(credits, seen, name)], DOMAIN seen)
      BY <3>2, <3>3, <3>6, <3>7, <3>8, LineApplied
    <3>10. FineLines(contrib', cache', DOMAIN person')
      BY <3>1, <3>2, <3>4, <3>5, <3>9
    <3>11. QED
      BY <2>2, <3>1, <3>10 DEF IInv
  <2>4. CASE UNCHANGED <<person, pieces, history>>
    BY <1>2, <2>2, <2>4 DEF pieces, IInv
  <2>5. QED
    BY <1>2, <2>3, <2>4 DEF ApplyWrites
<1>3. ASSUME NEW p \in PersonIds, NEW a \in Identity, EnrichPerson(p, a)
      PROVE  IInv'
  <2>1. HeldOK'
    BY <1>3 DEF EnrichPerson, held, history, IInv, HeldOK
  <2>2. CASE p \in DOMAIN person
    <3>1. Enriched(person[p], a) \in PersonRow
      BY <2>2 DEF Enriched, PersonRow, Identity, IInv, FinePeople, IsTable
    <3>2. QED
      BY <1>3, <2>1, <2>2, <3>1, OnePersonStep DEF EnrichPerson
  <2>3. CASE p \notin DOMAIN person
    BY <1>3, <2>1, <2>3 DEF EnrichPerson, pieces, IInv
  <2>4. QED
    BY <2>2, <2>3
<1>4. QED
  BY <1>1, <1>2, <1>3 DEF AnswerStep, WorkerStep

(* apply_musicbrainz of a piece without a composer, for a new name. *)
LEMMA ApplyCreditsStep ==
    ASSUME IInv, NEW m \in Pieces, NEW name \in Names, NEW a \in Identity, NEW p \in PersonIds,
           ApplyCredits(m, name, a, p)
    PROVE  IInv'
<1> DEFINE row == [name |-> name, mbid |-> a]
           more == {[person |-> p, role |-> "composer"]}
           credits == contrib[m] \cup more
<1>1. row \in PersonRow
  BY DEF PersonRow
<1> HIDE DEF row
<1>2. /\ m \in DOMAIN contrib
      /\ person' = With(person, [q \in {p} |-> row])
      /\ contrib' = [contrib EXCEPT ![m] = credits]
      /\ cache' = [cache EXCEPT ![m] = CacheAsApplied(contrib'[m], person', name)]
      /\ HeldOK'
  BY DEF ApplyCredits, WithRow, row, held, IInv, HeldOK
<1>3. FinePeople(person') /\ DOMAIN person' = DOMAIN person \cup {p}
  BY <1>1, <1>2, PersonWritten DEF IInv
<1>4. more \in SUBSET Credit /\ \A c \in more : c.person \in DOMAIN person'
  BY <1>3 DEF Credit, Roles
<1>5. contrib'[m] = credits
  BY <1>2 DEF IInv, FineLines, IsTable
<1>6. credits = contrib[m] \cup more
  OBVIOUS
<1> HIDE DEF credits, more
<1>7. FineLines(contrib, cache, DOMAIN person')
  BY <1>3, MorePeople DEF IInv
<1>8. FineLines([contrib EXCEPT ![m] = credits],
                [cache EXCEPT ![m] = CacheAsApplied(credits, person', name)], DOMAIN person')
  BY <1>2, <1>3, <1>4, <1>6, <1>7, LineApplied
<1>9. FineLines(contrib', cache', DOMAIN person')
  BY <1>2, <1>5, <1>8
<1>10. QED
  BY <1>2, <1>3, <1>9 DEF IInv

(* What waits for an answer keeps its shape. *)
LEMMA WaitsStep ==
    ASSUME IInv, NEW m \in Pieces, NEW p \in DOMAIN person, NEW name \in Names,
           NEW row \in PersonRow, NEW adds \in BOOLEAN, ApplyWaits(m, p, name, row, adds)
    PROVE  IInv'
<1> DEFINE change == Changes(person[p], row)
           r == [piece |-> m, person |-> p, name |-> name, seen |-> row.name,
                 adds |-> adds, change |-> change]
<1>1. p \in PersonIds /\ person[p] \in PersonRow
  BY DEF IInv, FinePeople, IsTable
<1>2. change \in Change /\ row.name \in Names
  BY <1>1, ChangeTypes DEF PersonRow
<1>3. applying' = applying \cup {r}
  BY DEF ApplyWaits
<1> HIDE DEF change
<1>4. r \in Application
  BY <1>1, <1>2 DEF Application
<1> HIDE DEF r
<1>5. applying' \subseteq Application
  BY <1>3, <1>4 DEF IInv, HeldOK
<1>6. QED
  BY <1>5 DEF ApplyWaits, pieces, history, IInv, HeldOK

(* Reading before an answer changes no table. *)
LEMMA ReadsStep ==
    ASSUME IInv, NEW m \in Pieces, NEW p \in PersonIds, NEW name \in Names, NEW a \in Identity,
           ApplyReads(m, p, name, a)
    PROVE  IInv'
<1>1. p \in DOMAIN person
  <2>1. FineLine(contrib[m], cache[m], DOMAIN person)
    BY DEF ApplyReads, IInv, FineLines
  <2>2. QED
    BY <2>1 DEF ApplyReads, Composers, FineLine, Named
<1>2. /\ Enriched([person[p] EXCEPT !.name = name], a) \in PersonRow
      /\ Enriched(person[p], a) \in PersonRow
  BY <1>1, RowTypes
<1>3. QED
  BY <1>1, <1>2, WaitsStep DEF ApplyReads

-----------------------------------------------------------------------------
(* The specification *)

(* The empty tables are fine, and every step leaves fine ones. *)
LEMMA InitIInv == Init => IInv
BY DEF Init, IInv, FinePeople, FineLines, HeldOK, IsTable, Empty

(* Every step keeps the invariant: one lemma above for each kind of action. *)
LEMMA NextIInv == IInv /\ [Next]_vars => IInv'
<1> SUFFICES ASSUME IInv, [Next]_vars
             PROVE  IInv'
  OBVIOUS
<1>1. CASE UNCHANGED vars
  BY <1>1 DEF vars, pieces, held, history, IInv, HeldOK
<1>2. CASE EditorStep
  BY <1>2, SavePieceStep, DeleteStep, UpdatePersonStep, ImportStep, ReadsStep, ApplyCreditsStep
     DEF EditorStep
<1>3. QED
  BY <1>1, <1>2, AnswerAndWorkerStep DEF Next

(* The invariant holds in every reachable state. *)
LEMMA IInvHolds == Spec => []IInv
BY InitIInv, NextIInv, PTL DEF Spec

(* People, credits and search lines keep their shape. *)
THEOREM TypeCorrect == Spec => []TypeOK
BY IInvHolds, IInvIs, PTL

(* Whoever is credited exists, whatever old page of orphans is sent. *)
THEOREM CreditedExistThm == Spec => []CreditedExist
BY IInvHolds, IInvIs, PTL

(* The search line of a piece has its credits, and nobody else. *)
THEOREM CacheHasTheCreditsThm == Spec => []CacheHasTheCredits
BY IInvHolds, IInvIs, PTL

-----------------------------------------------------------------------------
(* Names that are out of date *)

(* Whom a line names has a row. *)
LEMMA LinesNamePeople ==
    ASSUME IInv, NEW m \in DOMAIN cache, NEW e \in cache[m]
    PROVE  e.person \in DOMAIN person
<1>1. FineLine(contrib[m], cache[m], DOMAIN person)
  BY DEF IInv, FineLines
<1>2. PICK c \in contrib[m] : c = [person |-> e.person, role |-> e.role]
  BY <1>1 DEF FineLine
<1>3. QED
  BY <1>1, <1>2 DEF FineLine

(* A line is up to date for everybody in the table. *)
UpToDate(line, table) ==
    \A e \in line : e.person \in DOMAIN table => e.name = table[e.person].name

(* What a step may do: write a line from the rows there are, or leave it     *)
(* while nobody on it gets another name, unless by an import.                *)
LEMMA OldNamesStep ==
    ASSUME IInv, OldNamesAreImported,
           \A m \in DOMAIN cache' \ applied' :
              \/ UpToDate(cache'[m], person')
              \/ /\ m \in DOMAIN cache \ applied /\ cache'[m] = cache[m]
                 /\ \A e \in cache[m] :
                       e.person \in DOMAIN person' \ renamed' =>
                          /\ e.person \notin renamed
                          /\ person'[e.person].name = person[e.person].name
    PROVE  OldNamesAreImported'
<1> SUFFICES ASSUME NEW m \in DOMAIN cache' \ applied', NEW e \in cache'[m],
                    e.person \in DOMAIN person' \ renamed'
             PROVE  e.name = person'[e.person].name
  BY DEF OldNamesAreImported
<1>1. CASE UpToDate(cache'[m], person')
  BY <1>1 DEF UpToDate
<1>2. CASE /\ m \in DOMAIN cache \ applied /\ cache'[m] = cache[m]
           /\ e.person \notin renamed
           /\ person'[e.person].name = person[e.person].name
  <2>1. e.person \in DOMAIN person
    BY <1>2, LinesNamePeople
  <2>2. QED
    BY <1>2, <2>1 DEF OldNamesAreImported
<1>3. QED
  BY <1>1, <1>2

(* The steps that leave the lines alone. *)
LEMMA NamesStep ==
    ASSUME IInv, OldNamesAreImported, UNCHANGED <<pieces, applied>>,
           \A q \in DOMAIN person \cap DOMAIN person' :
              q \notin renamed' => q \notin renamed /\ person'[q].name = person[q].name
    PROVE  OldNamesAreImported'
<1>1. cache' = cache /\ applied' = applied
  BY DEF pieces
<1>2. ASSUME NEW m \in DOMAIN cache' \ applied', NEW e \in cache[m],
             e.person \in DOMAIN person' \ renamed'
      PROVE  /\ e.person \notin renamed
             /\ person'[e.person].name = person[e.person].name
  BY <1>1, <1>2, LinesNamePeople
<1>3. QED
  BY <1>1, <1>2, OldNamesStep

(* A line that was written from the rows is up to date. *)
LEMMA EntriesUpToDate ==
    ASSUME NEW credits, NEW table
    PROVE  UpToDate(Entries(credits, table), table)
BY DEF UpToDate, Entries

(* A form saved: the new people are on the line of its piece alone. *)
LEMMA SavePieceNames ==
    ASSUME IInv, OldNamesAreImported, NEW m \in Pieces, NEW form \in Forms, SavePiece(m, form)
    PROVE  OldNamesAreImported'
<1>1. PICK credits, made :
         /\ DOMAIN made \cap DOMAIN person = {}
         /\ person' = With(person, made)
         /\ cache' = With(cache, [k \in {m} |-> Entries(credits, person')])
  BY DEF SavePiece, ReplaceContributors, Resolves
<1>2. renamed' = renamed /\ applied' = applied \ {m}
  BY DEF SavePiece
<1>3. UpToDate(cache'[m], person')
  BY <1>1, EntriesUpToDate DEF With
<1>4. \A q \in DOMAIN person : person'[q] = person[q]
  BY <1>1 DEF With
<1>5. ASSUME NEW n \in DOMAIN cache' \ applied', n # m
      PROVE  /\ n \in DOMAIN cache \ applied /\ cache'[n] = cache[n]
             /\ \A e \in cache[n] : person'[e.person] = person[e.person]
  <2>1. n \in DOMAIN cache \ applied /\ cache'[n] = cache[n]
    BY <1>1, <1>2, <1>5 DEF With
  <2>2. QED
    BY <1>4, <2>1, LinesNamePeople
<1>6. QED
  BY <1>2, <1>3, <1>5, OldNamesStep

LEMMA DeleteNames ==
    ASSUME IInv, OldNamesAreImported,
           (\E m \in Pieces : DeletePiece(m)) \/ (\E p \in PersonIds : DeletePerson(p))
    PROVE  OldNamesAreImported'
<1>1. ASSUME NEW m \in Pieces, DeletePiece(m)
      PROVE  OldNamesAreImported'
  BY <1>1, OldNamesStep DEF DeletePiece, Without
<1>2. ASSUME NEW p \in PersonIds, DeletePerson(p)
      PROVE  OldNamesAreImported'
  BY <1>2, NamesStep DEF DeletePerson, Without
<1>3. QED
  BY <1>1, <1>2

(* The form of a person: whoever bears the new name, every line is written. *)
LEMMA UpdatePersonNames ==
    ASSUME IInv, OldNamesAreImported, NEW p \in PersonIds, NEW row \in PersonRow,
           UpdatePerson(p, row)
    PROVE  OldNamesAreImported'
<1>1. /\ p \in DOMAIN person /\ person' = [person EXCEPT ![p] = row]
      /\ cache' = [m \in DOMAIN cache |->
                      IF m \in PiecesWith(p) THEN Entries(contrib[m], person') ELSE cache[m]]
      /\ renamed' = renamed \ {p} /\ applied' = applied \ PiecesWith(p)
  BY DEF UpdatePerson
<1>2. ASSUME NEW m \in DOMAIN cache' \ applied', m \in PiecesWith(p)
      PROVE  UpToDate(cache'[m], person')
  BY <1>1, <1>2, EntriesUpToDate
<1>3. ASSUME NEW m \in DOMAIN cache' \ applied', m \notin PiecesWith(p)
      PROVE  /\ m \in DOMAIN cache \ applied /\ cache'[m] = cache[m]
             /\ \A e \in cache[m] : e.person # p
  <2>1. m \in DOMAIN cache \ applied /\ cache'[m] = cache[m]
    BY <1>1, <1>3
  <2>2. FineLine(contrib[m], cache[m], DOMAIN person) /\ m \in DOMAIN contrib
    BY <2>1 DEF IInv, FineLines
  <2>3. ASSUME NEW e \in cache[m]
        PROVE  e.person # p
    <3>1. PICK c \in contrib[m] : c = [person |-> e.person, role |-> e.role]
      BY <2>2 DEF FineLine
    <3>2. QED
      BY <1>3, <2>2, <3>1 DEF PiecesWith
  <2>4. QED
    BY <2>1, <2>3
<1>4. QED
  BY <1>1, <1>2, <1>3, OldNamesStep

(* A row that is written where there was none, or without a new name. *)
LEMMA NameKept ==
    ASSUME IInv, OldNamesAreImported, NEW p \in PersonIds, NEW row \in PersonRow,
           \/ person' = With(person, [q \in {p} |-> row])
           \/ p \in DOMAIN person /\ person' = [person EXCEPT ![p] = row],
           p \in DOMAIN person => row.name = person[p].name,
           UNCHANGED <<pieces, renamed, applied>>
    PROVE  OldNamesAreImported'
<1>1. \A q \in DOMAIN person : person'[q] = IF q = p THEN row ELSE person[q]
  BY DEF With, IInv, FinePeople, IsTable
<1>2. QED
  BY <1>1, NamesStep

LEMMA ImportNames ==
    ASSUME IInv, OldNamesAreImported, NEW p \in PersonIds,
           \/ \E a \in Artists : ApplyArtist(p, a) \/ ApplyWikidata(p, a)
           \/ ClearMbid(p) \/ RefreshPerson(p)
           \/ \E name \in Names, a \in Artists : ReviewArtist(name, a, p)
           \/ \E name \in Names, a \in Identity : ReviewWikidata(name, a, p)
    PROVE  OldNamesAreImported'
<1>0. \A a \in Artists : ArtistName[a] \in Names /\ a \in Identity
  BY NamesAssumption DEF Identity
<1>1. ASSUME NEW row, Imports(p, row)
      PROVE  OldNamesAreImported'
  BY <1>1, NamesStep DEF Imports, history
<1>2. CASE ClearMbid(p)
  <2>1. /\ [person[p] EXCEPT !.mbid = NoArtist] \in PersonRow
        /\ [person[p] EXCEPT !.mbid = NoArtist].name = person[p].name
    BY <1>2 DEF ClearMbid, PersonRow, Identity, IInv, FinePeople, IsTable
  <2>2. QED
    BY <1>2, <2>1, NameKept DEF ClearMbid, history
<1>3. ASSUME NEW row \in PersonRow, ImportsOrMakes(p, row)
      PROVE  OldNamesAreImported'
  BY <1>1, <1>3, NameKept DEF ImportsOrMakes, WithRow, history
<1>4. ASSUME NEW name \in Names, NEW a \in Artists, ReviewArtist(name, a, p)
      PROVE  OldNamesAreImported'
  <2>1. [FilledIn(p, name, a) EXCEPT !.name = ArtistName[a]] \in PersonRow
    BY <1>0, RowTypes
  <2>2. QED
    BY <1>3, <1>4, <2>1 DEF ReviewArtist
<1>5. ASSUME NEW name \in Names, NEW a \in Identity, ReviewWikidata(name, a, p)
      PROVE  OldNamesAreImported'
  BY <1>3, <1>5, RowTypes DEF ReviewWikidata
<1>6. QED
  BY <1>1, <1>2, <1>4, <1>5 DEF ApplyArtist, ApplyWikidata, RefreshPerson

(* What has waited for MusicBrainz marks whom it renames. *)
LEMMA AnswerNames ==
    ASSUME IInv, OldNamesAreImported, AnswerStep \/ WorkerStep
    PROVE  OldNamesAreImported'
<1>0. ASSUME NEW row \in PersonRow, NEW change \in Change, change.name = Kept
      PROVE  Changed(row, change).name = row.name
  BY <1>0 DEF Changed
<1>1. ASSUME NEW r \in importing, ImportEnds(r)
      PROVE  OldNamesAreImported'
  <2>1. r.person \in PersonIds /\ r.change \in Change
    BY DEF IInv, HeldOK, Import
  <2>2. UNCHANGED <<pieces, applied>>
    BY <1>1 DEF ImportEnds
  <2>3. CASE /\ r.person \in DOMAIN person
             /\ person' = [person EXCEPT ![r.person] = Changed(@, r.change)]
             /\ renamed' = IF r.change.name = Kept THEN renamed ELSE renamed \cup {r.person}
    <3>1. person[r.person] \in PersonRow
      BY <2>3 DEF IInv, FinePeople, IsTable
    <3>2. QED
      BY <1>0, <2>1, <2>2, <2>3, <3>1, NamesStep
  <2>4. CASE UNCHANGED <<person, renamed>>
    BY <2>2, <2>4, NamesStep
  <2>5. QED
    BY <1>1, <2>3, <2>4 DEF ImportEnds
<1>2. ASSUME NEW r \in applying, ApplyWrites(r)
      PROVE  OldNamesAreImported'
  <2>1. r.person \in PersonIds /\ r.change \in Change
    BY DEF IInv, HeldOK, Application
  <2>2. CASE /\ person' = [q \in DOMAIN person |->
                             IF q = r.person THEN Changed(person[q], r.change) ELSE person[q]]
             /\ \A m \in DOMAIN cache' \ applied' :
                   m \in DOMAIN cache \ applied /\ cache'[m] = cache[m]
             /\ renamed' = IF r.change.name = Kept THEN renamed ELSE renamed \cup {r.person}
    <3>1. \A q \in DOMAIN person : person[q] \in PersonRow
      BY DEF IInv, FinePeople, IsTable
    <3>2. \A q \in DOMAIN person' :
             q \notin renamed' => q \notin renamed /\ person'[q].name = person[q].name
      BY <1>0, <2>1, <2>2, <3>1
    <3>3. QED
      BY <2>2, <3>2, OldNamesStep
  <2>3. CASE UNCHANGED <<person, pieces, history>>
    BY <2>3 DEF pieces, history, OldNamesAreImported
  <2>4. QED
    BY <1>2, <2>2, <2>3 DEF ApplyWrites
<1>3. ASSUME NEW p \in PersonIds, NEW a \in Identity, EnrichPerson(p, a)
      PROVE  OldNamesAreImported'
  <2>1. CASE p \in DOMAIN person
    <3>1. /\ Enriched(person[p], a) \in PersonRow
          /\ Enriched(person[p], a).name = person[p].name
      BY <2>1 DEF Enriched, PersonRow, Identity, IInv, FinePeople, IsTable
    <3>2. QED
      BY <1>3, <2>1, <3>1, NameKept DEF EnrichPerson, history
  <2>2. CASE p \notin DOMAIN person
    BY <1>3, <2>2 DEF EnrichPerson, pieces, history, OldNamesAreImported
  <2>3. QED
    BY <2>1, <2>2
<1>4. QED
  BY <1>1, <1>2, <1>3 DEF AnswerStep, WorkerStep

(* apply_musicbrainz writes the line of its piece alone, and whom it makes   *)
(* nobody's line names yet.                                                  *)
LEMMA ApplyNames ==
    ASSUME IInv, OldNamesAreImported,
           NEW m \in Pieces, NEW name \in Names, NEW a \in Identity, NEW p \in PersonIds,
           ApplyCredits(m, name, a, p) \/ ApplyReads(m, p, name, a)
    PROVE  OldNamesAreImported'
<1>1. CASE ApplyReads(m, p, name, a)
  BY <1>1, NamesStep DEF ApplyReads, ApplyWaits, history
<1>2. CASE ApplyCredits(m, name, a, p)
  <2> DEFINE row == [name |-> name, mbid |-> a]
  <2>1. p \notin DOMAIN person
    BY <1>2 DEF ApplyCredits
  <2>2. /\ person' = With(person, [q \in {p} |-> row])
        /\ renamed' = renamed
        /\ \A n \in DOMAIN cache' \ applied' :
              n \in DOMAIN cache \ applied /\ cache'[n] = cache[n]
    BY <1>2 DEF ApplyCredits, WithRow
  <2> HIDE DEF row
  <2>3. \A q \in DOMAIN person : person'[q].name = person[q].name
    BY <2>1, <2>2 DEF With
  <2>4. ASSUME NEW n \in DOMAIN cache' \ applied', NEW e \in cache[n]
        PROVE  person'[e.person].name = person[e.person].name
    BY <2>2, <2>3, LinesNamePeople
  <2>5. QED
    BY <2>2, <2>4, OldNamesStep
<1>3. QED
  BY <1>1, <1>2

(* An outdated name in a search line comes from MusicBrainz, after any       *)
(* sequence of forms, answers and deletions.                                 *)
THEOREM OldNamesAreImportedThm == Spec => []OldNamesAreImported
<1>1. Init => OldNamesAreImported
  BY DEF Init, OldNamesAreImported, Empty
<1>2. IInv /\ OldNamesAreImported /\ [Next]_vars => OldNamesAreImported'
  <2> SUFFICES ASSUME IInv, OldNamesAreImported, [Next]_vars
               PROVE  OldNamesAreImported'
    OBVIOUS
  <2>1. CASE UNCHANGED vars
    BY <2>1 DEF vars, pieces, history, OldNamesAreImported
  <2>2. CASE EditorStep
    BY <2>2, SavePieceNames, DeleteNames, UpdatePersonNames, ImportNames, ApplyNames
       DEF EditorStep
  <2>3. QED
    BY <2>1, <2>2, AnswerNames DEF Next
<1>3. QED
  BY <1>1, <1>2, IInvHolds, PTL DEF Spec

-----------------------------------------------------------------------------
(* New people *)

(* Nobody but p has the name in any case of its letters, or nobody had the   *)
(* MBID.                                                                     *)
IsNew(p) ==
    \/ \A q \in DOMAIN person' \ {p} : Fold[person'[q].name] # Fold[person'[p].name]
    \/ person'[p].mbid # NoArtist /\ Identified(person'[p].mbid) = {}

(* The rows that a form adds: two names that differ in the case of a letter  *)
(* alone stand for one person.                                               *)
LEMMA FormPeopleAreNew ==
    ASSUME NEW m, NEW form, ReplaceContributors(m, form), NEW p \in DOMAIN person' \ DOMAIN person
    PROVE  IsNew(p)
<1> DEFINE names == {f[1] : f \in form}
<1>1. PICK who \in [names -> PersonIds] :
        \E made \in [{who[n] : n \in {n \in names : Named(n) = {}}} -> NewRows(names)] :
           Resolves(names, who, made) /\ person' = With(person, made)
  BY DEF ReplaceContributors
<1> HIDE DEF names
<1> DEFINE fresh == {n \in names : Named(n) = {}}
<1>2. PICK made \in [{who[n] : n \in fresh} -> NewRows(names)] :
           Resolves(names, who, made) /\ person' = With(person, made)
  BY <1>1
<1>3. DOMAIN made = {who[n] : n \in fresh}
  OBVIOUS
<1>4. PICK n \in fresh : p = who[n]
  BY <1>2, <1>3 DEF With
<1>5. \A o \in fresh : person'[who[o]] = made[who[o]] /\ Fold[made[who[o]].name] = Fold[o]
  BY <1>2, <1>3 DEF With, Resolves
<1>6. ASSUME NEW q \in DOMAIN person' \ {p}, Fold[person'[q].name] = Fold[person'[p].name]
      PROVE  FALSE
  <2>1. Fold[person'[q].name] = Fold[n] /\ Named(n) = {}
    BY <1>4, <1>5, <1>6
  <2>2. CASE q \in DOMAIN made
    <3>1. PICK o \in fresh : q = who[o]
      BY <1>3, <2>2
    <3>2. Fold[o] = Fold[n]
      BY <1>5, <2>1, <3>1
    <3>3. who[o] = who[n]
      BY <1>2, <3>2 DEF Resolves
    <3>4. QED
      BY <1>4, <1>6, <3>1, <3>3
  <2>3. CASE q \notin DOMAIN made
    <3>1. q \in DOMAIN person /\ person'[q] = person[q]
      BY <1>2, <2>3 DEF With
    <3>2. QED
      BY <2>1, <3>1 DEF Named
  <2>4. QED
    BY <2>2, <2>3
<1>7. QED
  BY <1>6 DEF IsNew

(* The row that an import makes: its MBID is nobody's, or its name.          *)
LEMMA ImportedPeopleAreNew ==
    ASSUME NEW name \in Names, NEW a \in Identity, NEW p \in PersonIds \ DOMAIN person,
           FoundFor(name, a, p), NEW row \in PersonRow, person' = WithRow(person, p, row),
           \/ a # NoArtist /\ row.mbid = a
           \/ a = NoArtist /\ row.name = name
    PROVE  IsNew(p)
<1>1. /\ DOMAIN person' = DOMAIN person \cup {p} /\ person'[p] = row
      /\ \A q \in DOMAIN person : person'[q] = person[q]
  BY DEF WithRow, With
<1>2. CASE a # NoArtist /\ row.mbid = a
  <2>1. Identified(a) = {}
    BY <1>2 DEF FoundFor, Identified
  <2>2. QED
    BY <1>1, <1>2, <2>1 DEF IsNew
<1>3. CASE a = NoArtist /\ row.name = name
  <2>1. Named(name) = {}
    BY <1>3 DEF FoundFor, Named
  <2>2. QED
    BY <1>1, <1>3, <2>1 DEF IsNew, Named
<1>4. QED
  BY <1>2, <1>3

(* The steps that add nobody, and those that add one person. *)
LEMMA EditorsAddNew ==
    ASSUME IInv, EditorStep, NEW k \in DOMAIN person' \ DOMAIN person
    PROVE  IsNew(k)
<1>0. \A a \in Artists : ArtistName[a] \in Names /\ a \in Identity /\ a # NoArtist
  BY NamesAssumption DEF Identity
<1>1. ASSUME NEW m \in Pieces, NEW form \in Forms, SavePiece(m, form)
      PROVE  IsNew(k)
  BY <1>1, FormPeopleAreNew DEF SavePiece
<1>2. ASSUME NEW p \in PersonIds, NEW row, ImportsOrMakes(p, row)
      PROVE  k = p /\ p \in PersonIds \ DOMAIN person /\ person' = WithRow(person, p, row)
  BY <1>2 DEF ImportsOrMakes, Imports, WithRow, With
<1>3. ASSUME NEW name \in Names, NEW a \in Artists, NEW p \in PersonIds, ReviewArtist(name, a, p)
      PROVE  IsNew(k)
  <2> DEFINE row == [FilledIn(p, name, a) EXCEPT !.name = ArtistName[a]]
  <2>1. FoundFor(name, a, p) /\ ImportsOrMakes(p, row)
    BY <1>3 DEF ReviewArtist
  <2>2. row \in PersonRow
    BY <1>0, RowTypes
  <2>3. p \notin DOMAIN person => row.mbid = a
    BY DEF FilledIn
  <2> HIDE DEF row
  <2>4. QED
    BY <1>0, <1>2, <2>1, <2>2, <2>3, ImportedPeopleAreNew
<1>4. ASSUME NEW name \in Names, NEW a \in Identity, NEW p \in PersonIds, ReviewWikidata(name, a, p)
      PROVE  IsNew(k)
  <2> DEFINE row == FilledIn(p, name, a)
  <2>1. FoundFor(name, a, p) /\ ImportsOrMakes(p, row)
    BY <1>4 DEF ReviewWikidata
  <2>2. row \in PersonRow
    BY RowTypes
  <2>3. p \notin DOMAIN person => row.mbid = a /\ row.name = name
    BY DEF FilledIn
  <2> HIDE DEF row
  <2>4. QED
    BY <1>2, <2>1, <2>2, <2>3, ImportedPeopleAreNew
<1>5. ASSUME NEW m \in Pieces, NEW name \in Names, NEW a \in Identity, NEW p \in PersonIds,
             ApplyCredits(m, name, a, p)
      PROVE  IsNew(k)
  <2> DEFINE row == [name |-> name, mbid |-> a]
  <2>1. /\ FoundFor(name, NoArtist, p) /\ p \in PersonIds \ DOMAIN person
        /\ person' = WithRow(person, p, row)
    BY <1>5 DEF ApplyCredits, FoundFor
  <2>2. row \in PersonRow /\ row.name = name /\ NoArtist \in Identity
    BY DEF PersonRow, Identity
  <2> HIDE DEF row
  <2>3. k = p
    BY <2>1 DEF WithRow, With
  <2>4. QED
    BY <2>1, <2>2, <2>3, ImportedPeopleAreNew
<1>6. ASSUME NEW p \in PersonIds,
             \/ DeletePerson(p) \/ ClearMbid(p) \/ RefreshPerson(p)
             \/ \E row \in PersonRow : UpdatePerson(p, row)
             \/ \E a \in Artists : ApplyArtist(p, a) \/ ApplyWikidata(p, a)
      PROVE  FALSE
  BY <1>6 DEF DeletePerson, Without, ClearMbid, RefreshPerson, UpdatePerson, ApplyArtist,
              ApplyWikidata, Imports
<1>7. ASSUME NEW m \in Pieces, DeletePiece(m)
      PROVE  FALSE
  BY <1>7 DEF DeletePiece
<1>8. ASSUME NEW m \in Pieces, NEW p \in PersonIds, NEW name \in Names, NEW a \in Identity,
             ApplyReads(m, p, name, a)
      PROVE  FALSE
  BY <1>8 DEF ApplyReads, ApplyWaits
<1>9. QED
  BY <1>1, <1>3, <1>4, <1>5, <1>6, <1>7, <1>8 DEF EditorStep

(* A new row means that nobody had the MBID, or nobody the name in any case  *)
(* of its letters, the other people of the same form included.               *)
THEOREM NewPeopleAreNewThm == Spec => NewPeopleAreNew
<1>1. IInv /\ [Next]_vars =>
        [\A p \in DOMAIN person' \ DOMAIN person :
            \/ \A q \in DOMAIN person' \ {p} : Fold[person'[q].name] # Fold[person'[p].name]
            \/ person'[p].mbid # NoArtist /\ Identified(person'[p].mbid) = {}]_vars
  <2> SUFFICES ASSUME IInv, Next, NEW p \in DOMAIN person' \ DOMAIN person
               PROVE  IsNew(p)
    BY DEF IsNew
  <2>1. CASE EditorStep
    BY <2>1, EditorsAddNew
  <2>2. CASE AnswerStep \/ WorkerStep
    BY <2>2 DEF AnswerStep, WorkerStep, ImportEnds, ApplyWrites, EnrichPerson, history
  <2>3. QED
    BY <2>1, <2>2 DEF Next
<1>2. QED
  BY <1>1, IInvHolds, PTL DEF Spec, NewPeopleAreNew
=============================================================================
