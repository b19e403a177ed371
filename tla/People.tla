------------------------------- MODULE People -------------------------------
(***************************************************************************)
(* People, the contributors of pieces, and the search line each piece has  *)
(* of them: app/services/people.py, app/routes/people.py, the forms of     *)
(* app/routes/pieces/crud.py and app/routes/scan.py, and the arq job of    *)
(* app/tasks/person_jobs.py.                                               *)
(*                                                                         *)
(* A handler is one step up to an await; what it will write afterwards is  *)
(* kept in importing and applying.  SQLAlchemy writes the columns that a   *)
(* handler has changed from what it read.  A handler that has flushed a    *)
(* row holds SQLite's write lock until it commits, so what it awaits in    *)
(* between lets no other writer in: those handlers are one step.           *)
(***************************************************************************)
EXTENDS Integers, FiniteSets, Tables

CONSTANTS
    PersonIds,   \* primary keys of people
    Pieces,      \* primary keys of pieces
    Names,       \* what a form may say
    Fold,        \* a name as SQL lower() has it
    Artists,     \* MusicBrainz artists
    ArtistName,  \* the canonical name of an artist
    NoArtist,    \* musicbrainz_artist_id = NULL
    Kept,        \* of a column that a handler leaves as it read it
    MaxCredits,  \* bound: names in one field of a form
    MaxHeld      \* bound: handlers and jobs that wait for MusicBrainz

(* A lyricist is handled like an arranger. *)
Roles == {"composer", "arranger"}

ASSUME NamesAssumption == /\ DOMAIN Fold = Names
                          /\ ArtistName \in [Artists -> Names]
                          /\ NoArtist \notin Artists
                          /\ Kept \notin Names \cup Artists \cup {NoArtist}

VARIABLES
    person,      \* table people
    contrib,     \* table piece_contributors, by piece
    cache,       \* contributors_cache of a piece, one entry for each credit
    queued,      \* enrich_person_job is queued, or searches, for these people
    importing,   \* handlers that import into a person, at their awaits
    applying,    \* apply_musicbrainz of a piece, at its awaits
    renamed,     \* history: name taken from MusicBrainz since its form was saved
    applied      \* history: cache last written by apply_musicbrainz

pieces == <<contrib, cache>>
held == <<importing, applying>>
history == <<renamed, applied>>
vars == <<person, pieces, queued, held, history>>

Identity == Artists \cup {NoArtist}
PersonRow == [name : Names, mbid : Identity]
Change == [name : Names \cup {Kept}, mbid : Identity \cup {Kept}]
Credit == [person : PersonIds, role : Roles]
Entry == [person : PersonIds, role : Roles, name : Names]
Import == [person : PersonIds, change : Change]
Application == [piece  : Pieces,
                person : PersonIds,
                name   : Names,    \* of the composer, as the form has it
                seen   : Names,    \* of the person, as the handler has it
                adds   : BOOLEAN,  \* the person is to be credited
                change : Change]

Init ==
    /\ person = Empty
    /\ contrib = Empty
    /\ cache = Empty
    /\ queued = {}
    /\ importing = {} /\ applying = {}
    /\ renamed = {} /\ applied = {}

-----------------------------------------------------------------------------
Named(name) == {p \in DOMAIN person : Fold[person[p].name] = Fold[name]}
Identified(a) == {p \in DOMAIN person : person[p].mbid = a}
PiecesWith(p) == {m \in DOMAIN contrib : \E c \in contrib[m] : c.person = p}
Orphan(p) == PiecesWith(p) = {}

Held == Cardinality(queued) + Cardinality(importing) + Cardinality(applying)

Entries(credits, table) ==
    {[person |-> c.person, role |-> c.role, name |-> table[c.person].name] : c \in credits}

(* find_or_create_person for each name, the rows flushed as they come: the  *)
(* people the names stand for, and the rows of those not there before.      *)
Resolves(names, who, made) ==
    /\ who \in [names -> PersonIds]
    /\ \A n \in names :
          IF Named(n) # {} THEN who[n] \in Named(n)
          ELSE who[n] \in DOMAIN made /\ Fold[made[who[n]].name] = Fold[n]
    /\ \A n, o \in names : Fold[n] = Fold[o] => who[n] = who[o]
    /\ DOMAIN made \cap DOMAIN person = {}
    /\ \A p \in DOMAIN made :
          \E n \in names : who[n] = p /\ made[p] = [name |-> n, mbid |-> NoArtist]

NewRows(names) == [name : names, mbid : {NoArtist}]

Forms ==
    {form \in SUBSET (Names \X Roles) :
        \A r \in Roles : Cardinality({f \in form : f[2] = r}) <= MaxCredits}

(* replace_contributors: the credits of the piece are the form's, and the   *)
(* cache has the names of the people found.                                 *)
ReplaceContributors(m, form) ==
    LET names == {f[1] : f \in form} IN
    \E who \in [names -> PersonIds] :
      LET fresh == {who[n] : n \in {n \in names : Named(n) = {}}} IN
      \E made \in [fresh -> NewRows(names)] :
        LET credits == {[person |-> who[f[1]], role |-> f[2]] : f \in form} IN
        /\ Resolves(names, who, made)
        /\ person' = With(person, made)
        /\ contrib' = With(contrib, [k \in {m} |-> credits])
        /\ cache' = With(cache, [k \in {m} |-> Entries(credits, person')])

(* enqueue_enrich_for_piece: jobs for the contributors without an MBID,     *)
(* unless Redis is away or Wikidata knows them.                             *)
EnqueueEnrich(m) ==
    \E asked \in SUBSET {c.person : c \in contrib'[m]} :
        /\ \A p \in asked : person'[p].mbid = NoArtist
        /\ Held + Cardinality(asked \ queued) <= MaxHeld
        /\ queued' = queued \cup asked

(* new_piece_save, edit_piece_save and save_piece. *)
SavePiece(m, form) ==
    /\ ReplaceContributors(m, form)
    /\ EnqueueEnrich(m)
    /\ applied' = applied \ {m}
    /\ UNCHANGED <<held, renamed>>

(* Fault: the credits stay behind. *)
DeletePieceRow(m) ==
    /\ m \in DOMAIN contrib
    /\ cache' = Without(cache, {m})
    /\ applied' = applied \ {m}
    /\ UNCHANGED <<person, contrib, queued, held, renamed>>

(* delete_piece: piece_contributors go with it (ON DELETE CASCADE). *)
DeletePiece(m) ==
    /\ m \in DOMAIN contrib
    /\ contrib' = Without(contrib, {m})
    /\ cache' = Without(cache, {m})
    /\ applied' = applied \ {m}
    /\ UNCHANGED <<person, queued, held, renamed>>

(* Fault: whoever was an orphan when the page was made may go. *)
DeletePersonOfPage(p) ==
    /\ p \in DOMAIN person
    /\ person' = Without(person, {p})
    /\ renamed' = renamed \ {p}
    /\ UNCHANGED <<pieces, queued, held, applied>>

(* delete_person, and one person of delete_orphaned_people: the ids of the  *)
(* page are as old as the page.                                             *)
DeletePerson(p) ==
    /\ p \in DOMAIN person
    /\ Orphan(p)
    /\ person' = Without(person, {p})
    /\ renamed' = renamed \ {p}
    /\ UNCHANGED <<pieces, queued, held, applied>>

(* Fault: the caches are left alone. *)
UpdatePersonOnly(p, row) ==
    /\ p \in DOMAIN person
    /\ person' = [person EXCEPT ![p] = row]
    /\ renamed' = renamed \ {p}
    /\ UNCHANGED <<pieces, queued, held, applied>>

(* update_person: the row, then the cache of every piece the person is on.  *)
(* (It commits in between; a process that stops there is left out.)         *)
UpdatePerson(p, row) ==
    /\ p \in DOMAIN person
    /\ person' = [person EXCEPT ![p] = row]
    /\ cache' = [m \in DOMAIN cache |->
                    IF m \in PiecesWith(p) THEN Entries(contrib[m], person') ELSE cache[m]]
    /\ renamed' = renamed \ {p}
    /\ applied' = applied \ PiecesWith(p)
    /\ UNCHANGED <<contrib, queued, held>>

-----------------------------------------------------------------------------
(* What MusicBrainz and Wikidata say. *)

Changes(old, new) == [name |-> IF new.name = old.name THEN Kept ELSE new.name,
                      mbid |-> IF new.mbid = old.mbid THEN Kept ELSE new.mbid]

(* The row is not written: its other columns stay, too. *)
Unchanged == [name |-> Kept, mbid |-> Kept]

Changed(row, change) == [name |-> IF change.name = Kept THEN row.name ELSE change.name,
                         mbid |-> IF change.mbid = Kept THEN row.mbid ELSE change.mbid]

(* A handler has read p, will make it row, and waits for an answer. *)
Imports(p, row) ==
    /\ p \in DOMAIN person
    /\ Held < MaxHeld
    /\ importing' = importing \cup {[person |-> p, change |-> Changes(person[p], row)]}
    /\ UNCHANGED <<person, pieces, queued, applying, history>>

(* Its answer comes and it commits; it fails if the row is gone, or if the  *)
(* answer is an error.                                                      *)
ImportEnds(r) ==
    /\ r \in importing
    /\ importing' = importing \ {r}
    /\ \/ /\ r.person \in DOMAIN person
          /\ person' = [person EXCEPT ![r.person] = Changed(@, r.change)]
          /\ renamed' = IF r.change.name = Kept THEN renamed ELSE renamed \cup {r.person}
       \/ UNCHANGED <<person, renamed>>
    /\ UNCHANGED <<pieces, queued, applying, applied>>

(* apply_person_mb of the page of a person. *)
ApplyArtist(p, a) == Imports(p, [name |-> ArtistName[a], mbid |-> a])

(* apply_wikidata: an MBID only where there is none. *)
ApplyWikidata(p, a) ==
    /\ p \in DOMAIN person
    /\ person[p].mbid = NoArtist
    /\ Imports(p, [person[p] EXCEPT !.mbid = a])

ClearMbid(p) ==
    /\ p \in DOMAIN person
    /\ person' = [person EXCEPT ![p].mbid = NoArtist]
    /\ UNCHANGED <<pieces, queued, held, history>>

(* refresh_person_mb asks for the artist that the person is, and writes the *)
(* name over.                                                               *)
RefreshPerson(p) ==
    /\ p \in DOMAIN person
    /\ person[p].mbid # NoArtist
    /\ Imports(p, [person[p] EXCEPT !.name = ArtistName[person[p].mbid]])

(* Fault: a name that is there already is not looked for. *)
FoundByMbidOnly(name, a, p) ==
    IF a # NoArtist /\ Identified(a) # {} THEN p \in Identified(a)
    ELSE p \notin DOMAIN person

(* The two find_or_create_person calls of the review page, by MBID first.   *)
FoundFor(name, a, p) ==
    IF a # NoArtist /\ Identified(a) # {} THEN p \in Identified(a)
    ELSE IF Named(name) # {} THEN p \in Named(name)
    ELSE p \notin DOMAIN person

FilledIn(p, name, a) ==
    IF p \notin DOMAIN person THEN [name |-> name, mbid |-> a]
    ELSE IF person[p].mbid = NoArtist THEN [person[p] EXCEPT !.mbid = a]
    ELSE person[p]

(* A person found is imported into, a new one is written in one step.       *)
ImportsOrMakes(p, row) ==
    \/ Imports(p, row)
    \/ /\ p \notin DOMAIN person
       /\ person' = WithRow(person, p, row)
       /\ UNCHANGED <<pieces, queued, held, history>>

(* apply_person_mb of scan.py: the name becomes the canonical one. *)
ReviewArtist(name, a, p) ==
    /\ FoundFor(name, a, p)
    /\ ImportsOrMakes(p, [FilledIn(p, name, a) EXCEPT !.name = ArtistName[a]])

(* apply_person_wd of scan.py; the entity has an MBID or not. *)
ReviewWikidata(name, a, p) ==
    /\ FoundFor(name, a, p)
    /\ ImportsOrMakes(p, FilledIn(p, name, a))

Composers(m) == {c.person : c \in {c \in contrib[m] : c.role = "composer"}}

(* Fault: the line is made of the composers alone. *)
CacheOfComposers(credits, table, name) ==
    {[e EXCEPT !.name = name] : e \in {e \in Entries(credits, table) : e.role = "composer"}}

(* The end of apply_musicbrainz: every composer entry gets the name of the  *)
(* form, whoever it is.                                                     *)
CacheAsApplied(credits, table, name) ==
    {IF e.role = "composer" THEN [e EXCEPT !.name = name] ELSE e : e \in Entries(credits, table)}

(* What enrich_person_from_mb does here: an MBID where there is none. *)
Enriched(row, a) == IF row.mbid = NoArtist THEN [row EXCEPT !.mbid = a] ELSE row

(* apply_musicbrainz of a piece has its composer p in hand, who will be row, *)
(* and waits for MusicBrainz.                                               *)
ApplyWaits(m, p, name, row, adds) ==
    /\ Held < MaxHeld
    /\ applying' = applying \cup {[piece |-> m, person |-> p, name |-> name, seen |-> row.name,
                                   adds |-> adds, change |-> Changes(person[p], row)]}
    /\ UNCHANGED <<person, pieces, queued, importing, history>>

(* It picks the first composer, and will rename and enrich that person; if  *)
(* there is none, it will credit and enrich whoever has the name ...        *)
ApplyReads(m, p, name, a) ==
    /\ m \in DOMAIN contrib
    /\ \/ /\ p \in Composers(m)
          /\ ApplyWaits(m, p, name, Enriched([person[p] EXCEPT !.name = name], a), FALSE)
       \/ /\ Composers(m) = {} /\ p \in Named(name)
          /\ ApplyWaits(m, p, name, Enriched(person[p], a), TRUE)

(* ... which it does when MusicBrainz has answered, or failed; then it      *)
(* rebuilds the cache from the credits there are now.  It fails if the      *)
(* piece is gone, or if the person is whom it has something to write of.    *)
ApplyWrites(r) ==
    LET adds == IF r.adds THEN {[person |-> r.person, role |-> "composer"]} ELSE {}
        seen == [q \in DOMAIN person' |->
                    IF q = r.person THEN [person'[q] EXCEPT !.name = r.seen] ELSE person'[q]]
    IN
    /\ r \in applying
    /\ applying' = applying \ {r}
    /\ \/ /\ r.piece \in DOMAIN contrib
          /\ r.person \in DOMAIN person \/ (r.change = Unchanged /\ ~r.adds)
          /\ person' = [q \in DOMAIN person |->
                          IF q = r.person THEN Changed(person[q], r.change) ELSE person[q]]
          /\ contrib' = [contrib EXCEPT ![r.piece] = @ \cup adds]
          /\ cache' = [cache EXCEPT ![r.piece] = CacheAsApplied(contrib'[r.piece], seen, r.name)]
          /\ renamed' = IF r.change.name = Kept THEN renamed ELSE renamed \cup {r.person}
          /\ applied' = applied \cup {r.piece}
       \/ /\ r.piece \notin DOMAIN contrib \/ r.person \notin DOMAIN person
          /\ UNCHANGED <<person, pieces, history>>
    /\ UNCHANGED <<queued, importing>>

(* apply_musicbrainz of a piece without a composer, for a name that nobody  *)
(* has: the person is made, credited and enriched under the write lock.     *)
ApplyCredits(m, name, a, p) ==
    /\ m \in DOMAIN contrib
    /\ Composers(m) = {}
    /\ Named(name) = {} /\ p \notin DOMAIN person
    /\ person' = WithRow(person, p, [name |-> name, mbid |-> a])
    /\ contrib' = [contrib EXCEPT ![m] = @ \cup {[person |-> p, role |-> "composer"]}]
    /\ cache' = [cache EXCEPT ![m] = CacheAsApplied(contrib'[m], person', name)]
    /\ applied' = applied \cup {m}
    /\ UNCHANGED <<queued, held, renamed>>

-----------------------------------------------------------------------------
(* enrich_person_job: after its search it enriches the row there is then, if *)
(* there is a match.  What it saw of the row at first only makes it stop     *)
(* where it would now write nothing.                                         *)
EnrichPerson(p, a) ==
    /\ p \in queued
    /\ queued' = queued \ {p}
    /\ person' = IF p \in DOMAIN person
                 THEN [person EXCEPT ![p] = Enriched(@, a)] ELSE person
    /\ UNCHANGED <<pieces, held, history>>

-----------------------------------------------------------------------------
EditorStep ==
    \/ \E m \in Pieces, form \in Forms : SavePiece(m, form)
    \/ \E m \in Pieces : DeletePiece(m)
    \/ \E p \in PersonIds : DeletePerson(p) \/ ClearMbid(p) \/ RefreshPerson(p)
    \/ \E p \in PersonIds, row \in PersonRow : UpdatePerson(p, row)
    \/ \E p \in PersonIds, a \in Artists : ApplyArtist(p, a) \/ ApplyWikidata(p, a)
    \/ \E name \in Names, a \in Artists, p \in PersonIds : ReviewArtist(name, a, p)
    \/ \E name \in Names, a \in Identity, p \in PersonIds : ReviewWikidata(name, a, p)
    \/ \E m \in Pieces, p \in PersonIds, name \in Names, a \in Identity :
          ApplyReads(m, p, name, a)
    \/ \E m \in Pieces, name \in Names, a \in Identity, p \in PersonIds :
          ApplyCredits(m, name, a, p)

AnswerStep ==
    \/ \E r \in importing : ImportEnds(r)
    \/ \E r \in applying : ApplyWrites(r)

WorkerStep == \E p \in PersonIds, a \in Identity : EnrichPerson(p, a)

Next == EditorStep \/ AnswerStep \/ WorkerStep

Spec == Init /\ [][Next]_vars

-----------------------------------------------------------------------------
(* Properties *)

(* People, credits and cache entries keep their shape; a piece has a cache   *)
(* exactly while it has credits.                                             *)
TypeOK ==
    /\ IsTable(person, PersonIds, PersonRow)
    /\ IsTable(contrib, Pieces, SUBSET Credit)
    /\ IsTable(cache, Pieces, SUBSET Entry)
    /\ DOMAIN cache = DOMAIN contrib
    /\ queued \subseteq PersonIds
    /\ importing \subseteq Import /\ applying \subseteq Application
    /\ renamed \subseteq PersonIds /\ applied \subseteq Pieces

(* people.py:193 "aldrig ta bort en kopplad": whoever is credited on a piece *)
(* exists, whatever old page of orphans is sent and however pages, answers   *)
(* of MusicBrainz and forms overtake each other.                             *)
CreditedExist ==
    \A m \in DOMAIN contrib : \A c \in contrib[m] : c.person \in DOMAIN person

(* The search line of a piece has an entry for each of its credits and for   *)
(* nobody else: no handler adds, moves or drops a credit behind its back.    *)
CacheHasTheCredits ==
    \A m \in DOMAIN contrib :
        {[person |-> e.person, role |-> e.role] : e \in cache[m]} = contrib[m]

(* An outdated name in a search line comes from MusicBrainz: after any       *)
(* sequence of saved forms each entry has the name its person bears, unless  *)
(* the name, or the line, was last written by an import.                     *)
OldNamesAreImported ==
    \A m \in DOMAIN cache \ applied : \A e \in cache[m] :
        e.person \in DOMAIN person \ renamed => e.name = person[e.person].name

(* find_or_create_person: a new row means that nobody had the MBID, or that  *)
(* nobody, the other people of the same form included, had the name in any   *)
(* case of its letters.                                                      *)
NewPeopleAreNew ==
    [][\A p \in DOMAIN person' \ DOMAIN person :
          \/ \A q \in DOMAIN person' \ {p} : Fold[person'[q].name] # Fold[person'[p].name]
          \/ person'[p].mbid # NoArtist /\ Identified(person'[p].mbid) = {}]_vars
=============================================================================
