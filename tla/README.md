# A verification development for Notarkiv

Notarkiv is a sheet-music archive: a FastAPI web application over one SQLite
database, an arq worker that reads photographed covers, and a Redis queue
between them. These modules model the parts in which the order of events
decides whether the data stays right. Paths are relative to the repository's
`src/app` unless they start with `docs/`.

## How the program runs

* One web process (uvicorn, one event loop). Handlers are `async def` but use
  the database synchronously: a handler can be overtaken only where it awaits
  something, which almost always is Redis (`get_pool`, `enqueue_job`). A
  handler without such an await is one atomic step, and modelled as one action.
* One arq worker, a second process, which runs up to four jobs at once on its
  own event loop. A job opens a short transaction, awaits a service, opens the
  next one: it can be overtaken by anything between its transactions.
* SQLite in WAL mode with `foreign_keys=ON`. Columns with `ON DELETE CASCADE`
  delete dependants silently, the key of a deleted last row is handed out again.
* Redis holds the queue. arq delivers at least once: a job whose worker died is
  run again, at most `max_tries` (5) times.
* Kiosks are browsers with a session cookie; a kiosk session may also carry a
  borrower who logged in with PIN or QR code.

## Inventory

| Component | State | Operations | What makes it correct | Module |
|---|---|---|---|---|
| Lending (`routes/loans.py`, `models/loan*.py`) | `loan_batches`, `loans` | single loan, return, delete; cart: add, add all of a unit, update, remove, clear, checkout; batch: pickup, not found, activate, return at kiosk, return all, add more | a batch goes cart, picking, active, returned and never back; one cart per user; no reservation beyond the stock; what is fetched is not lost | `Loans`, `BatchLifecycle` |
| Placements (`routes/pieces/metadata.py`, `crud.py`, `scan.py`) | `piece_placements` | add, add copies, change, move, merge, delete, delete piece | a placement's loans go with it and leave their batch consistent | `Placements` |
| Scan pipeline (`routes/scan.py`, `routes/admin/jobs.py`, `tasks/ocr_jobs.py`) | `scan_sessions`, arq queue | upload, enqueue, retry, retry all failed, requeue stuck, discard, restore, save, delete; start, extracted, enriched, failed, cancelled | every scan is finished some day, with the result of its own picture | `ScanPipeline` |
| Inventory (`routes/inventory.py`, `routes/kiosk_inventory.py`) | `inventory_sessions`, `inventory_checks`, the kiosk's active session | start, end, change unit, check, count at kiosk | one active session per user; nothing is counted in a session that has ended | `Inventory` |
| People and contributors (`routes/people.py`, `services/people.py`, `tasks/person_jobs.py`, the forms of pieces) | `people`, `piece_contributors`, `contributors_cache` | save forms, edit, import from MusicBrainz and Wikidata, enrich in the background, delete orphans | whoever is credited exists; the search line of a piece agrees with its credits; no person is made twice | `People` |
| Publishers and tags (`routes/publishers.py`, `services/publishers.py`, `routes/tags.py`, the forms of pieces) | `publishers`, `tags`, `piece_tags`, publisher's text and key of a piece | create, rename, merge, match, import, delete; move, toggle, lift the children, set from a form | names are unique, links and tags are not lost | `Catalogue` |
| Storage (`routes/storage.py`, `services/storage.py`, kinds and kiosks of `routes/admin`) | locations, kinds, units, kiosks | create, move, archive, delete; the walks over the tree | no cycle, nothing that is used is deleted, no live unit is lost from the tree | `Storage` |
| Image files (`utils/images.py` and its callers) | files on disk, paths in four tables | save, share, promote, replace, unlink | the path in a row names a file | `ImageFiles` |
| Kiosk session and throttling (`routes/pieces/kiosk.py`, `deps.py`, `routes/auth.py`, `utils/ratelimit.py`) | session cookie, failed attempts per address | activate, PIN/QR login, logout, act, time out; attempt, success, lockout | nobody acts as a borrower after the timeout; attempts stay few, a lockout ends | `KioskSession` |
| Lists (`routes/lists.py`), MusicBrainz, Wikidata and OCR clients, administration, help, start-up | - | - | - | see *Not modelled* |

The components meet in few places, which is where most hazards are:

* catalogue handlers delete or merge placements that loans (cascade) and
  inventory checks (no cascade) refer to;
* kiosk and desk act on the same cart, batch and rows;
* the web process commits a scan and then asks Redis for a job, and may retry,
  discard, delete or save the scan while the worker is at it;
* inventory sessions are named by scans and by kiosks;
* people, publishers, tags, units and pictures are named by the forms of pieces
  and scans, which are as old as the page they were filled in on.

`PROJECT.json` lists the hazards that weigh most, each at its line, with the
properties that would catch it, or a note that says why none does.

## Modules

| Module | What it is |
|---|---|
| `Tables` | a database table as a function from keys in use to rows; insert, delete. A key outside the domain is free, also when it was used before, as in SQLite |
| `Placements` | the table of placements and what the catalogue handlers do to it, shared by the modules whose tables refer to placements |
| `Loans` | lending, the kiosk checkout, and what placement handlers do to loans |
| `BatchLifecycle` | abstract specification of a batch: what a borrower may rely on |
| `LoansProofs` | the inductive invariant of `Loans`, the cap on reservations, what a step may do to a row, and that `Loans` implements `BatchLifecycle` |
| `ScanPipeline`, `ScanPipelineProofs` | scans and their jobs; that a scan which is worked on has a job, and a finished one its own result |
| `Inventory`, `InventoryProofs` | taking stock: sessions, check lists, counting at kiosks; its inductive invariant, and that ended sessions are left alone |
| `People`, `PeopleProofs` | people, credits and search lines, with handlers and jobs that wait for MusicBrainz; that they stay in agreement and nobody is made twice |
| `Catalogue`, `CatalogueProofs` | publishers and tags and the forms that name them; that names stay unique, links stay and filters lose nothing |
| `Storage`, `StorageProofs` | locations and the tree of units; that it is a forest in which everything named exists, and that the views and the form show it right |
| `ImageFiles`, `ImageFilesProofs` | files on disk and the rows that name them; which rows can rely on their file |
| `KioskSession`, `KioskSessionProofs` | the cookie of a kiosk's browser and the throttling of logins; that the timeout holds and attempts stay few |
| `MC...` | an instance of the module for TLC: values of constants, symmetry, bounds |

Operators with a comment that starts with *Fault* are not used by the
specifications. Each is an existing definition with one plausible slip, and
`PROJECT.json` names the property that notices it (`mutants`).

The modules are not composed with one another: each has what the others may do
to the tables it reads, at least as freely as they do it. `Loans` and
`Inventory` meet in `placement` only, and each lets the catalogue do to
placements all that it may do beside the other; `Storage` has placements, scans
and inventories as whatever names a unit; `Loans` takes any user and `KioskSession`
any page. What holds in such a module therefore holds in the whole.

### Loans

`placement`, `loan` and `batch` are the three tables, reduced to the columns
that decide something. Times that the code compares with NULL only are
booleans (`picked_up_at`, `returned_at`); the borrower's name and account are
one value, with `Nobody` for the empty name of a row in a cart;
`PiecePlacement.copies = NULL` is `Unlimited`. Each handler is an action named
after it; guards that only produce a message and leave the tables alone are
not steps, except that a handler which gives up after having created a cart is
`OpenCart`. `add_placement`, `save_piece`, `create_piece` and
`add_placement_to_existing` (when the unit is new) insert a placement in the
same way and share `AddPlacement`. What these handlers do to `placement` is
said in `Placements`; the actions of `Loans` add the cascade into `loan`.

`return_loan` commits twice. `ReturnLoan` has both commits, and
`ReturnLoanInterrupted` only the first, for a process that dies or a database
that is busy in between.

A placement key belongs to one piece (`PieceOf`), because SQLite's next key is
arbitrary anyway and no handler changes the piece of a placement.

In the program an inventory check blocks the deletion of its placement (its
foreign key does not cascade). `Loans` lets every deletion go through: it has
more behaviours than the program, so what holds in it holds there.

### BatchLifecycle

A batch appears as a cart, is registered once, with a borrower who then never
changes, goes to `picking` or straight to `active`, loses rows at activation,
and closes with no row open, after which nothing happens to it. `Loans`
implements it under the mapping at the end of `Loans.tla`
(`ImplementsLifecycle`); a wrong guard in any handler that touches a batch, its
rows or its placements shows as a step the life cycle does not have.

### ScanPipeline

`scan` is the table, `job` the jobs from the commit of a handler that is about
to ask for one (`"sending"`) through the queue (`"queued"`) to the two awaits
of `extract_metadata_job` (`"extracting"`: the OCR call, `"enriching"`: the
MusicBrainz call). The picture a result was read from stands for the result, so
that a result in the wrong scan shows. `retry` is `retry_failed` between its
first await and its commit; one such request is modelled at a time.

`Shutdown` is a worker stopping in order: the job is cancelled, `_mark_failed`
runs, and arq puts the job back. `Crash` is a worker dying: nothing is written,
and the job is found again. `Fails` is an error of the provider or the
`job_timeout`; both end the job, since arq retries neither. `GiveUp` is arq's
`max_tries`. `EnqueueFails` is Redis failing, or the web process dying, after
the handler's commit.

Left out: the age of a pending scan (`requeue_stuck` is modelled for a scan of
any age), ordering within the queue, and what the review form writes.

### Inventory

`session` is the table of sessions, `check` the latest row of
`inventory_checks` for each session and placement: the program never looks at an
earlier one. `link` is what a kiosk has as its active session, and `page` the
piece whose page the browser at a kiosk is redirected to after a correction:
`adjust_piece` answers with a redirect, and the browser's request for the page
is a step of its own (`FollowRedirect`), before which other editors may act.
A page may also be scanned or reloaded (`ShowPiece`). Storage is static here:
a unit with its subunits, and a location, are sets of units (`Areas`), so that
`_allowed_unit_ids` is a choice among sets. `Answers` is what check lists send:
a status together with a number or without one, as the form has both.

A session is never deleted by the program, so the cascade from it is not
modelled, and neither are the log text and the scans that are filed under a
session. `Unchecked` is the foreign key of a check on its placement: without
`ON DELETE`, the deletion fails and the handler's transaction with it.

### People

`person` is the table with the two columns that others look for, the name and
the MusicBrainz id. `contrib` is `piece_contributors` by piece; `cache` is
`contributors_cache`, a set of entries instead of a joined text, each with the
credit it stands for and the name it shows, so that it can be seen to be
outdated. `Fold` says which names SQLite's `lower()` takes to be the same.

A handler that awaits MusicBrainz or Wikidata is in two halves: the first
leaves in `importing` or `applying` which person it read and what it will
write, the second writes it. SQLAlchemy writes
only the columns that were changed, so a change holds `Kept` for the others, and
what was edited in between stays. A handler that has flushed a row before it
awaits holds SQLite's write lock meanwhile: nobody else can write, and it is one
step (`routes/scan.py:816`). `apply_musicbrainz` of a piece is in halves when the
piece has its work id and title already, since then nothing is flushed before its
awaits: the composer, found on the piece or by name, may be taken off it, or be gone, when it
writes (`ApplyWrites`). A composer who has to be made is flushed (`ApplyCredits`). `queued` is `enrich_person_job`, which
reads the row again after its search and only fills an empty id.

`renamed` and `applied` are history: which names and lines were last written by
an import, which does not touch the search lines of the person's other pieces.
`OldNamesAreImported` says that this is the only way a line gets outdated.

### Catalogue

A piece names its publisher as the text of the form and as the key that
`find_or_create_publisher` found for it; `Normal` is `_normalize`, by which
spellings are alike. `FindsOrCreates` is relational because the function takes
the first row that is alike. It commits when it creates, so `ReOcrSaveFails`
leaves half of a form behind. `MatchExisting` is the whole loop of
`match_existing`: the pieces it creates publishers from are chosen so that each
later piece finds them. `fetching` is `apply_musicbrainz` of a publisher across its await.

Tags have a kind and a parent. `update_tag` refuses only the tag itself as
parent, so the model, like the code, has cycles of tags, and tags below a
parent of another kind; `Below` is what `_descendant_tag_ids` finds in either case.

### Storage

One action per handler. `wanted` stands for both kinds of rows that refuse the
deletion of a unit without being asked first: the pre-placement of a scan and
the planned unit of an inventory. `AtOrAbove` is the walk of `unit_path` and of
the check in `update_unit`, as the least set that is closed upwards; `Below`,
`Listed` and `ValidParents` are the breadth-first loops of the views, level by
level, so that comparing the two says something of the code. `delete_unit`
archives a unit with music in it, and units may be created in an archived one:
`TreeShowsLiveChains` says exactly which units the trees then leave out.

### ImageFiles

A name of a file that nothing names and that is not on disk stands for the next
`uuid4`. Four tables name files: `images` (in their order), `scan`, `photo` and
`portrait`. Where a handler unlinks after its commit, it gets as far as the
process lives (`Unlinks`); where it unlinks before, the commit may fail, and
the row then names a file that is gone. `torn` remembers the people this
happened to, `own` the scans that have uploaded their pictures and not been
saved. The portrait handlers read the old path, await the picture and then act
on what they read (`held`); they differ in what they do first (`Ways`).
Thumbnails go with their pictures; rotation rewrites a file in place.

### KioskSession

The server keeps nothing: it acts on the cookie of the request and sends another
one. `jar` is the cookie the browser holds, `answers` those on their way, which
arrive in any order or not at all. A handler acts when its request is sent; one
that is delayed on its way reads what a request sent after a late answer reads.
`silent` is history: how long ago a borrower was last let in or found active. A
timeout of zero switches the check off, and `Timeout` is positive. Time passes
in ticks, and ages stop at the first value that makes no difference any more.

`acted` says whom the last step acted for, and by which check. `CartAddLoggedIn`
is in the model and takes the borrower unchecked, as the code does;
`IdleBorrowersAreOut` speaks of the other handlers.

## Runs

| Run | Question | Instance | Result |
|---|---|---|---|
| `loans` | Do the invariants and the cap survive every order of lending and catalogue handlers? | one administrator, two placements of one piece in two units, one kiosk, two rows, two batches, requests of one copy, stock up to two | holds |
| `lending` | Do batches keep the promises of their life cycle, with two borrowers and three rows? | stock fixed (one copy in each of two units), an editor, a reader and an outsider, three rows, no administrator | holds |
| `scan_pipeline` | Does a scan that is worked on have a job, and a finished one the result of its own picture? | two scans, two jobs, two pictures, two tries, two stops of the worker, no scan deleted | holds |
| `scan_settles` | Is every scan finished some day, also when keys of deleted scans are used again? | one scan key, two jobs, one stop, Redis answers, `retry_failed` not used | holds |
| `inventory` | Are checks about placements that exist, is one session open per editor, and nothing counted in one that has ended? | an editor, two sessions, a kiosk, two placements of a piece in two units, counts and stock up to one | holds |
| `people` | Do people, credits and search lines stay in agreement? | two people, two pieces, one artist, three names of which two fold alike, one name per field, one handler or job that waits | holds |
| `catalogue` | Are publishers' names unique, and are links and tags kept? | two publishers, three spellings of which two are alike, three tags of two kinds, two pieces, one call to MusicBrainz | holds |
| `storage` | Is the tree a forest that the views can walk, and does all that is named exist? | two locations, three units, a kind, a kiosk, a piece | holds |
| `image_files` | Which rows can rely on their file? | three files, two pieces, two scans, a unit, a person, two pictures a row, two portrait handlers at once | holds |
| `kiosk_session` | Is a silent borrower out in time, and a kiosk let in again? | a user, a kiosk, timeout and window of two ticks, lockout of one, two attempts, two answers on their way | holds |
| `lost_retry` | Does every scan settle when `retry_failed` is used? | one scan, `retry_failed` | violated |
| `reocr_loses_cover` | Does throwing away a re-OCR leave the piece its picture? | as `image_files` | violated |

The violated ones state what a document or a comment says; `findings` in
`PROJECT.json` quotes it. `retry_failed` enqueues before it commits, so it may
overwrite a finished job with *pending* for good; and `delete_scan` unlinks the
path that a re-OCR scan shares with its piece.

### Disagreements seen in reading

Where code and its comments or documents differ and no run is made of it. The
models follow the code.

Lending and inventory:

* `routes/loans.py:53-55` says no row reserves more than there is at home;
  `add_loan` (238-284) does not use the cap, which is why `NoCartOverbooks`
  speaks of the rows of carts and batches only.
* `models/loan.py:33` says `picked_up_at` is null in a cart; `mark_picked_up`
  (`routes/loans.py:755-767`) does not look at the status of the batch.
* The comment at `loans.py:313` has a batch closed when all of it is back. Rows that were
  returned while the batch was still being picked do not count at
  `loans.py:317` and 805, and such a batch stays active for good.
* `batch_add_more` may lower the number of a row that has been fetched
  (`loans.py:1053`), although by the comment at 1027 such a row is left alone, when the stock has
  shrunk since.
* `cart_add` with somebody logged in reads `kiosk_borrower_id` unchecked
  (`loans.py:377`), against the docstring at `deps.py:77-84`.
* `docs/help/editor.md:96-97` lets an editor have several inventory sessions at
  once, `docs/datamodell.md:425` and `models/inventory.py:10-11` one for all
  users; `create_session` keeps one per user (`routes/inventory.py:89-91`).
* The redirect that answers `adjust_piece` shows the piece, and showing it
  counts one more (`kiosk_inventory.py:207`, against 199-200).

Scans and pictures:

* A job that outlives its scan writes into the next scan with the same key
  (`routes/scan.py:349` leaves the job, `tasks/ocr_jobs.py:46` reads by key).
* `docs/help/admin.md:77` promises that stuck scans are listed; `routes/admin/jobs.py:72` lists
  pending ones, and not those whose job arq has given up.
* `delete_person` leaves the portrait on disk (`routes/people.py:1093`);
  `delete_orphaned_people` unlinks it.
* `apply_wikidata` of a person calls `save_uploaded_cover` with two arguments
  (`routes/people.py:751`); the function takes one (`utils/images.py:15`).

Catalogue:

* `apply_musicbrainz` of a piece writes the form's name over every composer in
  the search line, also over one it did not rename (`routes/pieces/crud.py:927-928`).
* `docs/datamodell.md:115` has `contributors_cache` made anew whenever a person is
  saved; an import that renames a person leaves the lines of their pieces as they
  were.
* After `merge_publishers` the pieces keep the old text, and the next save of
  such a piece makes the merged publisher anew.
* A re-OCR that is saved with a tag the piece has already fails at the primary
  key of `piece_tags`, and a publisher that was new for it stays (`services/publishers.py:67`).
* Tags may form a cycle, and deleting one of a cycle may make a child its own
  parent, which then cannot be deleted while it has other children.

Kiosk:

* `routes/pieces/kiosk.py:190` (`kiosk_checkout`) says it logs the borrower out;
  238 and 268 keep one who came by PIN. Line 65 says activation clears the user's
  login, 75 keeps it.
* `utils/ratelimit.py:4` speaks of a lockout of five minutes; since the counter is kept
  until its window ends, a kiosk stays out until then.

### Bounds

Two placements are what a merge needs, and what it takes for a batch to have
rows in and outside a kiosk's location. Two rows show every conflict over one
placement, three let a batch be returned in part while another row is added.
Two batches are a user's cart beside a registered batch, or two users' carts.
A stock of at most two with requests of one puts each number at, below and above
the cap; it varies in `loans`. Borrowers differ in `lending`, where the stock
does not. Two jobs on one scan are needed for, and show, jobs overtaking one
another; two scans show a key being reused while the other scan goes on. In
`inventory`, a count of one reaches every way of a placement to be checked
before, while and after it is moved, merged or deleted, and two sessions are
what a kiosk needs to be linked to one that has ended while another is open.
With more copies, other statuses are recorded, but no handler reads a status
back; that editors do not disturb one another is left to the proof.

In `people`, two names that fold alike in one form are two roles, each with one
name; the third name is the artist's, so that an import renames. One waiting
handler meets every handler that does not wait, and the proof is for any number of them.
`Narrow` in `MCPeople` takes away repetition only: what is done to one of two
pieces is not done to the other too. `Narrow` in `MCCatalogue` lets several tags
exist only while there is no publisher and at most one piece, because no handler
makes the one depend on the other, or the tags of a piece on those of another; a
form still sets publisher and tag at once with one tag. Three tags are a
chain with a middle, and a cycle with a child. In `storage`, three
units are a chain in which the middle one is archived or moved, and the least in
which a cycle has a tail; in `image_files`, three files are a picture shared by
a piece and two scans beside the one that replaces it, and also the old portrait and
those that two handlers store; of two portrait handlers one stores its picture while
the other still waits with the path it read. In `kiosk_session` one user is enough, as
each property speaks of one; that there may be more is left to the proof.

`MCLoansLending.cfg` switches the deadlock check off: the program never deletes
a batch, and with two batch keys the instance comes to an end when both are
closed and no handler has anything to do.

### Fairness

`scan_settles` and `lost_retry` assume that the event loop resumes a
handler whose Redis call was answered (`Enqueue`, `RetryFailedEnqueue`,
`RetryFailedCommit`), the worker polls its queue (`Start`, `GiveUp`), and
`job_timeout = 120` ends a call that hangs (`Works`; which of success and
failure is not constrained). Users' actions are not fair. Without Redis
(`EnqueueFails`) a scan stays pending until an administrator requeues it: a
user's action, so liveness is claimed for an answering Redis only.

`kiosk_session` assumes that the clock goes on (`WF_vars(Tick)`) and nothing
else: `LockoutEnds` holds while somebody goes on trying.

## Proofs

Every safety property and every action property of the runs that hold is proved
for all values of the constants that satisfy the named assumptions of its module.

The assumptions are what the code and the encoding justify: the values that stand
for NULL are no keys, `Unlimited` is no number, users and outsiders differ,
bounds are natural numbers. Two say that something is finite: the keys of
`loans` (a table is finite, and the cap adds up rows) and the keys of storage
units (the loops over the tree end because units run out). No other set needs
to be. Properties whose invariant is not inductive as it stands are checked by TLC
in the strengthened form first: `IInv` in the runs `loans`, `image_files` and
`kiosk_session`; in the other runs the properties themselves, with `TypeOK`, make up
the invariant or most of it.

### Lending

`LoansProofs` shows `Spec => []IInv`. The invariants of interest are not
inductive one by one:

* that a returned batch has no open row needs that no row points to a batch
  that does not exist (`NoDanglingLoan`), or a new batch could be born with
  rows; likewise `BorrowerAgrees` and `ActiveBatchFetched`;
* `OneRowPerPlacement` needs `OneCartPerUser` and the types;
* `BorrowerAgrees` for single loans needs that a batch is never registered for
  `Nobody`.

So `IInv` is their conjunction with `TypeOK` and `NoDanglingLoan`, and the proof
goes action by action: lemmas about `Tables` give the rows of a table after an
insert or delete, a group of lemmas shows how each conjunct survives the
insertion of a row, the deletion of rows and an update of rows, and each action
is one of these with its guards.

From `IInv` follow the action properties. For `RowsKeepTheirStory` and
`FetchedRowsKept` each handler is seen to change a row in one of a few ways.
`LifecycleImplemented` is the refinement of `BatchLifecycle`: the initial states
map to its initial state, and each handler, seen through the mapping, is one
of its actions for one batch or leaves all batches alone; a handler that changes
rows only has to keep a closed batch closed, which is `ReturnedBatchClosed`, and
an active one fetched, which is `ActiveBatchFetched`.
`CartsStayWithinStock` counts: `Reserved` is the number of single copies that
open rows hold (`CopiesIn`), so that what a row adds is a cardinality. Most steps
are quiet (no row of a cart or batch is new or larger, so no reservation of a
batch grows); for those that ask the cap, the copies of the row and the copies of
all others are disjoint sets, and the cap bounds their sum.

### Scans

`ScanPipelineProofs` shows that a scan in `extracting` or `enriching` has a job
in the queue or running, until workers have been stopped `MaxTries` times.
Counting is the heart of it: a job of a busy scan must not be given up before, so
the invariant has the types and `tries <= stops` for queued jobs (`+ 1` for
running ones). The condition is needed: a worker that is stopped as often as arq
tries leaves a scan in `extracting` whose job is given up, the case of
`jobs.py:72` above; `scan_pipeline` has such behaviours (`GiveUp`).

`ResultIsOwn` is about `KeptSpec`, in which no scan is deleted: with deletion the
property is false, since a job may outlive its scan and find another one under
the key. Its invariant adds what is in the jobs' hands (`PicturesInHand`): a
running job holds the picture of its scan, and when it is past the OCR call, the
scan has been read from that picture, whatever retries and other jobs did
meanwhile.

### Inventory

`InventoryProofs` shows `Spec => []IInv` for `Inventory`, where `IInv` is the
types, one open session per editor, and no check without its session or
placement. The types need that `Max({0, n})` is a number; no dangling check
needs that counting reaches only placements that exist (`InScope`) and a session
that exists (`IsOpen`). `EndedStaysFrozen` needs the types only: every record
is for an open session, and only open sessions are replanned or ended.

### Storage

`StorageProofs` shows `TypeOK`, `ReferencesHold` and `Forest` together: that
`update_unit` keeps the forest needs that the parents it walks along exist, and
the walk is finite only in a forest. `Forest` is stated by sets (in every set
of units one does not lie in another of the set), which needs no induction over
paths: a set without `u` is no
cycle after the move of `u` under `p` because it was none before, and in a set
with both, those at or above `p` do not include `u` and were no cycle either.

That the trees and the form are right (`TreeShowsLiveChains`,
`FormOffersWhatIsTaken`) compares the loops that look down with the walk that
looks up. The loops are a recursive function over levels, so a lemma is needed
about all levels. `InductionTo` is induction up to a number for a *set* of
numbers: if one were missing, the intervals from 0 to a missing number would
have a least member, by the library's `WFMin` for the strict subset ordering of
finite sets. With it, `SearchExists` gives the recursive function its
equations, `BelowLeast` shows that a search finds only what every closed set
with the start has, and `BelowHolds` that what it finds is closed: while a level
adds something the number of units found grows, and there are no more than
`Cardinality(UnitIds)`. `DownIsUp` and `ListedIs` then use `Forest` to go from
one direction to the other.

### People

`PeopleProofs` takes the tables apart: `IInv` says of the table of people, of
each line of a piece and of what waits that they have their shape, that a line
has entries for just its credits, and that those name people in the table. A
step that only adds people keeps every line (`MorePeople`); one that rewrites
lines makes them from credits that are there (`EntriesFine`, `AppliedFine`);
and only `DeletePerson` takes people away, who are in no line. The answers of
MusicBrainz need nothing of when they were asked for, which is what makes them safe.

`OldNamesAreImported` is inductive beside `IInv`: a step gives each line it
writes the names that people have after it, or puts the piece in `applied`, or the
person in `renamed` (`OldNamesStep`). `NewPeopleAreNew` follows step by step from what
`Resolves` looks for before it makes a person, also for several names of one form.

### Catalogue

`CatalogueProofs` shows `TypeOK`, with its foreign keys, and `NamesAreUnique`.
For `LinkedStaysLinked` it also needs that a linked piece has a text
(`LinkedHaveText`), or a form that keeps an empty text could drop the link.
`DeletionKeepsFamilies` maps the closed sets of tags before a deletion to those
after it and back: the deleted tag may be left out of one, and belongs to one that
has its parent (`LiftedFamilies`). Cycles need no case of their own.

### Image files

`ImageFilesProofs` shows `IInv`: beside the types and the two properties about
files on disk, that no file of a scan which nobody has saved is named by a piece
or by another scan (`NewScansAreApart`), and that files of pieces and scans are
never those of units or people (`KindsAreApart`). The first is what keeps
`delete_image` and `delete_piece` away from pictures that still have to be
reviewed; the second lets a step for either kind of row be shown not to touch
the files of the other. `DeletePieceSparesOthers` follows from the guard of the
unlinking, which looks at the images of other pieces and the main pictures of scans.

### Kiosk

`KioskSessionProofs` shows the types, among them that the counter stays within
`MAX_ATTEMPTS`, for attempts that are turned away do not count; then that no
cookie is younger than its borrower's last visit, and from that the timeout.
`FailuresAreBounded` needs to know what the counter has to do with the failures
that are remembered (`EntryCountsFailures`): those since the
counter's window began are no more than the counter says, and those before it that
are still recent are fewer than `MAX_ATTEMPTS`, being of an earlier window.

### Only model-checked

`EveryScanSettles` and `LockoutEnds`: liveness under fairness is out of the prover's
reach. So are the two violations, of course.

## Not modelled

* Lists and favourites: the rows of one user, written by that user's requests,
  each in one transaction without an await.
* The clients of MusicBrainz, Wikidata and the OCR providers: one call each,
  whose outcomes (an answer, an error, no answer) are in the modules that call
  them. The limiter of MusicBrainz is a lock and a sleep per process.
* Presentation: listing, search, the duplicate finder, templates, help pages and
  client scripts read and do not write.
* Administration of settings, psalm books and roles: single rows.
* Start-up, seed data and scripts: run alone.
* Within the modelled parts: bibliographic text fields, dates, notes and
  messages; names and order of tags and units; aliases of tags;
  links of people and publishers; rotation of pictures; the CSRF token; the stop
  of a process between the two commits of `update_person`; more than one browser
  at a kiosk's address.
