# Filature in TLA+

Filature keeps the stock of filament spools of a 3D-printing workshop. It is one
Rust binary (axum, tokio, sqlx) over one PostgreSQL database: `crates/domain`
holds the aggregates, use cases and ports of each slice, `crates/app` the SQL
adapters, the web handlers, the machine probes and the services that cross
slices. The browser talks HTML fragments (htmx); there is no background job, no
queue and no cache, so that what can go wrong between two steps goes wrong
between two SQL statements of one request, or of two, between two packets of a
machine's session, or between two runs of the process.

This directory holds TLA+ modules translated from that code, the TLC
configurations that check them on small instances, and TLAPS proofs of the
results that hold for every instance.

## Inventory of the system

| Part | State | Operations | What is hard | What makes it correct |
|---|---|---|---|---|
| Spools (`domain/spools`, `persistence/spools.rs`, `web/spools.rs`) | `spools` rows: weights, status, location, tag | add, edit, set remaining, consume, archive, restore, assign location, memorize tag; list, count, value | each write is *find, change a copy, write the whole row*, with no lock and no version | a row's weight and status agree; served by one writer, each operation is what the documents say |
| Slot loading (`domain/printers/usecases.rs`, `persistence/printers.rs`) | `printer_slots.spool_id` | load (move), unload a slot, unload a spool | a check outside the transaction, then one that locks the spool's row; unloading on Empty or Archived is a second statement of the spool request | a spool is in at most one slot; only Sealed or Open spools are loaded; what becomes Empty or Archived leaves its slot |
| Printers (`domain/printers/model.rs`, `persistence/printers.rs`, `web/printers.rs`) | `printers`, `printer_ams_units`, `printer_head_feed_modes`, `printer_slots`, `machine_links` | add, edit, delete | slots are diffed against the derived set while loads of them are in flight; row locks in opposite orders; a form that sends a mark in place of the secret | the slots are those the topology derives; a kept slot keeps its spool; a link fits its printer |
| AMS reconciliation (`app/ams_reconciliation.rs`) | `printers.ams_sync_state`, and the open drawer in the browser | sync, confirm, align weight | three reads that do not form a snapshot, a confirmation applied row by row, an early return on the first error | a confirmation that completes is in effect; a look suggests a spool once |
| Machine probes (`domain/printers/machine.rs`, `machine_http.rs`, `machine_bambu.rs`) | a client sequence; the sessions | card, synchronization, test | one shared report topic, subscribe before asking, silent machines | only a fault makes a machine Offline; every probe ends |
| Credentials (`credentials.rs`, `persistence/machine_links.rs`) | the key of the process; sealed secrets | seal, open, check at boot | restarts with another key, several processes | a serving process opens every stored credential |
| Referentials (`locations`, `manufacturers`, `materials`) | one table each | add, rename, delete, list with counts, seed | count then delete; check a name then insert it; a manufacturer made before its spool | references lead to rows; names are unique; a typed name is the one attributed |
| Instance transfer (`domain/instance_transfer`, `app/instance_transfer.rs`, `persistence/instance_transfer.rs`) | all tables | export a snapshot, validate, replace everything | requests in flight across a replacement; two imports at once; files of older versions | export then import is the identity; what is accepted fits the schema; what the program wrote can be listed again |
| Instance configuration (`domain/instance_configuration`) | one threshold | read, update | nothing concurrent of its own | every page reads the same number |
| Dashboard (`domain/dashboard`) | none (read models) | summary, low stock, value | boundaries, and two computations of one value | its numbers add up and agree with the list |
| Authentication gate (`web/auth.rs`) | a token drawn at boot, four verification permits | login, logout, gate | stale cookies, permits and slow hashes | only a holder of the token passes; every login is answered |
| Boot (`main.rs`) | - | migrate, check credentials, seed, serve | two instances at once, a crash between two seeds | idempotent |
| Presentation (router, templates, i18n, theme, static) | cookies | render | several reads per page | what a page puts side by side fits |

The components interact by calls only. Interactions across slices, all in
`crates/app`: a spool handler empties the slot of the spool it finished
(`finish_op`); a spool form inserts a manufacturer; the reconciliation probes a
machine, reads slots and spools, and writes tags and slots; a printer form writes
a link sealed with the key of the process; the transfer reads and replaces every
table; pages read all of them.

## Modules

| Module | Models |
|---|---|
| `SpoolModel` | the spool aggregate (`domain/spools/model.rs`): statuses, `status_for`, the eight commands, when the domain accepts one, what the row is afterwards, and whether the handler then unloads |
| `Slots` | `printer_slots.spool_id`: moving, clearing, exclusivity |
| `Stock` | both tables together |
| `Inventory` | the abstract specification: every command and every load in one step |
| `SpoolRequests` | the requests as the server runs them, statement by statement; refines `Inventory` where the code allows |
| `AmsReconciliation` | one Bambu printer's sync, drawer and confirmation, statement by statement, while other requests take `Inventory`'s steps |
| `PrinterModel` | validation of a printer, the slots its topology derives, the kind of link its brand takes (`domain/printers/model.rs`) |
| `Printers` | loads, edits and deletions as transactions with row locks, and the links the forms leave |
| `ReadModels` | filters, counts, values, overview, offers and the edit form's prefill, as operators on the rows of `Stock` |
| `Pages` | `Inventory` composed with pages that read one number at a time, and the threshold |
| `Referentials` | materials, manufacturers and locations under forms, deletions, renames, counts and seeding |
| `TransferDocuments` | the content of an instance, its file in every version, `validate`, the schema |
| `InstanceTransfer` | imports and exports as transactions, among requests that add, save and load |
| `Service` | processes: boot, key, stored credentials, crash and restart, token, gate, permits |
| `Probes` | sessions with machines over MQTT and HTTP, with their deadlines |
| `StockProofs` | lemmas about the operators of `SpoolModel` and `Slots` |
| `InventoryProofs` | the theorems about `Inventory` and about the two modules that extend it, `AmsReconciliation` and `Pages` |
| `SpoolRequestsProofs`, `PrintersProofs`, `ReferentialsProofs`, `InstanceTransferProofs`, `ServiceProofs`, `ProbesProofs` | the theorems about the module they are named after |
| `MC...` | the instances TLC checks |

What composes what: `Stock` is under `Inventory`, `SpoolRequests`,
`AmsReconciliation` and `ReadModels`; `SpoolRequests` and `AmsReconciliation`
instantiate `Inventory` as their abstract specification; `Pages` extends
`Inventory` and `ReadModels`; `Printers` and `TransferDocuments` share
`PrinterModel`. `Printers` takes the status of spools as given and
`SpoolRequests` the slots: each leaves to the other what the lock on a spool's
row separates.

Definitions commented as a *variant* (`SetSlotUnchecked`, `ClientIdOfProcess` and
others) are not part of any specification. Each is a form the code could
mistakenly have, kept beside the definition it would replace; put in its place, it
violates the property named with it under `mutants` in `PROJECT.json`.

### SpoolModel

A spool is a record of its net weight, remaining weight, status, location and
AMS tag. The other columns (colour, price, notes, dates, references) travel in
the same find and the same update and no operation reads them to decide
anything: they are left out. Weights are an `f64` in the code; what the model
keeps of it is the order, zero and the subtraction with its floor, on the
natural numbers up to `MaxNet`.

A command is a record `[op |-> ..., ...]` with what the form sends. `Accepts`
gathers the early returns (an archived spool rejects weights, a remaining weight
above the net weight is rejected, only an archived spool is restored, a tag
already memorized returns before saving), `Apply` the assignments, `Unloads`
what the handler does afterwards. `Unloads` has the edit handler's test for
Empty although `EditSpool::status` never yields it, as the code does.

### SpoolRequests

| Action | Code |
|---|---|
| `Create` | `SqlxSpoolRepository::insert` |
| `Find` | `repo.find` and the domain method, in each use case of `spools/usecases.rs` |
| `Update` | `SqlxSpoolRepository::update`, the whole row |
| `UnloadSpool` | `unload_spool` called by `finish_op` and by the edit handler |
| `CheckLoadable` | `spool_is_loadable`, the first look of `load_slot` |
| `SetSlot`, `RefuseLoad` | the transaction of `set_slot_spool` |
| `UnloadSlot` | `set_slot_spool` with no spool |
| `Abort` | a failed statement, a dropped handler, a stopped process |

`reqs[r]` is what the task that serves request `r` is about to do and the values
it holds in memory; a request that answers goes back to idle, and the same `r`
stands for a later one. `Can[r]` says which operations a request may carry: the
instances use it to say who races with whom. A refused request reads and
answers, and is not a step. The transaction of `set_slot_spool` is one step
because `SELECT ... FOR UPDATE` holds the spool's row against any update until
the commit; two such transactions on different spools that meet on slot rows are
serialised by the row locks (or one is aborted, which is `Abort`).

### Inventory and the refinement

`Inventory` is what the documents promise: a command applies to the spool as it
stands, and a spool that becomes Empty or Archived leaves its slot in the same
step. `SpoolRequests` implements it under the mapping `VisibleSlots`, in which a
spool that some request is about to unload is already out of its slot: `Update`
is then `Operate`, `UnloadSpool` a stutter, `SetSlot` is `Load`. It holds when
one client writes spool rows and any number load them; with two writers the lost
updates below are exactly what breaks it.

### AmsReconciliation

A drawer `d` is a browser. `tasks[d]` is what it shows (`pc = "drawer"`, with its
rows and the choices each offers) or what the request it sent is about to do.

| Action | Code |
|---|---|
| `ListPrinters` | `printers.list()`, the slots with the tags of their spools |
| `FetchTrays`, `FetchFails`, `SetOffline` | `fetch_ams_trays`, and the badge when it fails |
| `MatchTrays` | `spools.reconcilable()`, then `reconcile_trays` in memory |
| `OpenDrawer` | the badge is saved and the drawer rendered |
| `Confirm` | the form posts a choice for each row that has a select |
| `KeepRow`, `UnloadRow` | the arms `Keep` and `Unload` of `confirm`'s loop |
| `FindSpool`, `SaveTag`, `SkipTag` | `memorize_ams_tag`: find, save the whole row, or return because the tag is there |
| `CheckRow`, `MoveRow`, `RefuseRow` | `load_slot`: first look, transaction, refusal by either |
| `Finish` | the badge is saved, the drawer closes |
| `Abort` | a failed statement, a dropped handler, a stopped process |

The matcher keeps its order: rows are computed in the order of the report, each
with the set of spools suggested above it. Material and CIEDE2000 colour distance
come in only through the order they give, `Closest[look]`. A tray that reports
nothing is `EmptyTray`; double-empty trays are rows of kind `Omitted` here and no
rows at all in the code. A slot key the printer is configured without is a
member of `TrayOrder` outside `SlotIds`.

The machine may report anything at any time, for rolls are swapped by hand;
what is assumed is that no two trays report one tag, which is a property of
genuine rolls (`docs/glossary.md:83`). After an error the page keeps the drawer
as it was, so that `RefuseRow` and `Abort` lead back to it and the same rows can
be posted again over those already applied.

`SerialSpec` serves one request at a time (spools and slots may change while a
drawer is open, never while its request runs); `AmsSpec` lets everything overlap
and cuts confirmations off. What other requests do to each other is
`SpoolRequests`' subject: here they take `Inventory`'s atomic steps.

A tray without a tag is never a `Match`: once its spool is loaded it is no longer
a candidate either, and the next sync shows `None` and drift again. That follows
ADR-0007 and is not counted as a divergence.

Left out is `align_ams_weight`: it syncs once more, computes grams from the
reported percentage and the net weight it read, and sends them as an ordinary
`set_remaining`, which `SpoolRequests` covers with any amount.

### PrinterModel and Printers

A topology is a record of brand, class of model, heads, module, AMS units and feed
modes. `Valid` is `Module::validate` with its per-brand rules, `DeriveSlots` the
sequence of slot keys, `Keys` their set. Models are classes, one per rule of the
code.

| Action | Code |
|---|---|
| `Create` | `insert`, with its slots and link |
| `BeginLoad`, `ClearOld`, `SetTarget`, `TargetMissing`, `CommitLoad` | the statements of `set_slot_spool`: the spool's row under `FOR UPDATE`, the slot it leaves, the slot it takes, no row found, the commit |
| `UnloadSlot`, `UnloadSpool` | the single statements that empty |
| `BeginEdit`, `LockSlot`, `CommitEdit`, `RefuseEdit` | `update`: the printer's row, then its slot rows one after another, then the commit or a link refused by `write_link` |
| `BeginDelete`, `CommitDelete` | `delete`, which cascades |
| `BreakDeadlock`, `Abort` | PostgreSQL ends one of a circle; an error, a dropped handler |

Transactions run at READ COMMITTED: writes are buffered in the transaction and
published at its commit, locks are kept until then. A transaction exists from its
first lock on; before, it has done nothing. `Written` and `Writable` are the
cases of `write_link`: the mark `__configured__` keeps the stored secret only if
a link of the same kind is there, a secret needs the key.

### ReadModels and Pages

`Listed`, `Count`, `StockValue`, `Total` are the list's SQL with `ToFilter`'s
reading of the query string; `Overview` is the dashboard's fold; `Offers` is
`loadable_spools` per slot; `EditForm` is the prefill. Ratios are kept exact as
integers over a common multiple of the net weights. A list is the set of the rows
it shows: the order of `ORDER BY`, rounding to a digit, lengths and names are display.
The total of a list keeps the status of its query and drops the other filters, for the
reason the code gives (`web/spools.rs:344`); the stock value drops archived spools
whatever the status asked for.

`Visit` opens a page with the reads its handler makes in order, `Read` answers one
of them, `Leave` closes it, `Write` is any step of `Inventory`, `Submit` the edit
form, `SetThreshold` the settings form. Nothing makes the reads of a page a
snapshot, so that `overlaps` counts the writes since it was opened and the
properties say by how much its numbers may disagree.

### Referentials

| Action | Code |
|---|---|
| `Add`, `Rename` | the settings forms; the unique index refuses a taken name |
| `Submit`, `ResolveAdd`, `ResolveList`, `Write` | a spool form: `resolve_manufacturer_id` inserts the typed name, lists when the insertion met another, then the spool is written and the foreign keys have their say |
| `Reassign` | a spool's location |
| `BeginDelete`, `Delete` | the count, then the `DELETE` the foreign keys may refuse |
| `BeginCounts`, `CountRow`, `ShowCounts` | `list_with_spool_counts`, one count per row |
| `BeginSeed`, `SeedCheck`, `SeedInsert`, `EndSeed` | seeding, name by name, as `main.rs` runs it |
| `Abort` | an error, a dropped handler, a process that dies |

### TransferDocuments and InstanceTransfer

`Decode` reads a printer of any version (module kinds that became heads or AMS
units, slots that are dropped or renamed), `Encode` writes the present one,
`Validates` is `InstanceDocument::validate`, `FitsSchema` the keys, unique names,
references and column checks of the migrations, `Acceptable` the checks of the upload
form. `Listable` is whether the list of printers can show a stored row: what
`Module::from_storage` makes of its columns (`FromStorage`, a count cut to a byte)
passes the rules of today. A file is anything the JSON reader takes
(`UploadsAssumption`); the text in it that no rule compares, its characters included,
is left out.

`BeginImport` checks the form and begins the transaction; `Aim` and `Delete` are
one `DELETE` of the sequence, first choosing the rows committed at that moment,
then, when no other import holds them, deleting them; `Commit` inserts and
publishes, or fails on a conflict with what others added. `BeginExport`,
`ReadTable` and `FinishExport` are the export at REPEATABLE READ. `Add`, `Find`,
`Save`, `GiveUp`, `Load`, `SetLink` and `SetThreshold` are other requests, each
atomic; what they do among themselves is the other modules' subject.

### Service

| Action | Code |
|---|---|
| `Start` | configuration, pool, migrations, the key; a malformed key ends the boot |
| `Validate` | `validate_credentials_at_boot` |
| `Protect` | seeds (`Referentials` has their statements) and the gate with a fresh token |
| `Stop` | any failure, a crash, a stop |
| `Reconfigure` | the operator sets the environment, while no process runs |
| `Send`, `Enforce` | a request with the browser's cookie, the gate |
| `Acquire`, `Verify` | a login waits for a permit, then hashes |
| `Logout`, `SavePrinter` | the two other handlers that matter: the cookie, the link a printer form leaves |

`granted` is a history variable: the tokens handed out after a right password.

### Probes

| Action | Code |
|---|---|
| `Begin` | the use case looks the link up and opens a session or starts its calls |
| `Connect`, `Subscribe`, `PushAll`, `PushChange` | external: the broker acknowledges, the machine answers the request for a full report or pushes a change by itself, to all who listen |
| `Poll` | `session`'s and `ams_session`'s loop on the next event |
| `Break`, `Deadline` | the connection is closed; the deadline around the session |
| `Respond`, `RespondUnknown`, `NoJob`, `TimeOut`, `Join` | the one or two HTTP calls and their join; `RespondUnknown` is an answer without a state `parse_state` knows, which is shown as Offline |
| `Leave`, `SaveLink` | the answer is shown or the client has gone; another request changes the link |

A session's `wire` holds what it has sent and the broker has not yet seen, its
`inbox` what it has not yet read. `struck` records that a fault reached this very
probe: a broken connection, a deadline, a refusal, an answer without a known state.

## Runs

| Run | Instance | Distinct states | Shows |
|---|---|---|---|
| `one_writer` | 2 spools, 2 slots, 1 writer of every command, 1 loader | 191 801 | `ImplementsInventory`: the statements refine the promise |
| `racing_writers` | 1 spool, 2 slots, 2 clients on the finishing operations and edit, 1 loader, fairness | 139 348 | `AutoUnload`: nobody forgets a loaded Empty or Archived spool; `EventuallyUnloaded`: it leaves its slot |
| `racing_faulty` | 2 spools, 2 slots, 2 clients on everything and loads, cut off anywhere | 1 938 101 | `TypeOK`, `Exclusive`, `RowsConsistent`, `LoadsOnlyLoadable` survive |
| `lost_consumption` | 1 spool, 2 clients consuming | - | violated: `ConsumeSubtracts` |
| `ams_serial` | 2 spools, 2 tags, 2 trays, 3 slots, serial | 325 399 | `RowsInEffect`, `NextSyncMatches`, `StepsAreAtomic`: a confirmation does what it shows, each statement as the promise allows |
| `ams_racing` | 2 spools, 1 tag, 3 trays of which 1 without a slot, 3 slots, anything overlaps, cut off anywhere | 561 604 | `Exclusive`, `AttributedOnce`, `LoadsOnlyLoadable` survive |
| `printers` | 1 printer, 2 spools, 2 transactions, 4 topologies of which 1 invalid, fairness | 29 899 | `SlotsFollowTopology`, `IndexNeverRefuses`, `LinksFit`, `LoadsMoveOrLeave`, `EditsKeepLoaded` under deadlocks and aborts; `EveryTransactionEnds` |
| `transfer` | 2 importers, 1 client, 3 requests in all, an instance with a row of each kind, 10 forms | 118 359 | `SchemaHolds`, `AcceptedFits`, `ImportedPrintersList`, `ExportsValidate`, `ExportsReadBack`, `ImportsReplace`, among files the list of printers or the database refuse |
| `pages` | 1 browser, 2 spools, 2 slots, 5 queries, 1 write within a page | 501 414 | `ListAdds`, `OverviewAdds`, `QuietOffersFit`, `UntouchedEditKeeps`, and `LoadedIsLoadable` of `Inventory` under them |
| `referentials` | 2 requests, 1 spool, 1 material, 2 manufacturers, 1 location at a time, 3 ids | 1 029 446 | `RefTypeOK`, `TypedNameAttributed`, `SeededHasBuiltins`, `CountsOffByWrites`, cut off anywhere |
| `service` | 2 processes, 2 boots, 2 keys, 1 printer, 2 requests, 1 permit, fairness | 166 458 | `ServingReadsLinks`, `HandledAfterLogin` across crashes, restarts and changes of the key; `LoginsAnswered` |
| `probes` | 2 requests, 2 MQTT sessions, inboxes of 2, fairness | 89 280 | `FailsOnlyWhenStruck`, `NeverStuck`; `ProbesEnd` |

**Why the bounds are enough.** *Stock.* Weights 0 to 2 are the smallest range with
an empty, a partly used and a full spool and with consumptions below, at and above
what remains. Two spools are needed to move one past another and two slots to move
a spool; a third of either adds states that permute the same situations. Two
writers are enough for every race the code has, since a row is only ever compared
with one earlier copy of itself; a third request is needed where a load has to
fall between the steps of both, and is there in `racing_writers`.

*Reconciliation.* One drawer: every other client of the stock is in `Others`, and a
second drawer's confirmation does to spools and slots what `Others` does. Two trays
are the least with a row above another, two spools the least that can be confused,
and the third slot belongs to another printer, so that a suggestion may be loaded
elsewhere. Weights are 0 and 1: the matcher looks at the status alone. One look
suffices, since the order of candidates within it is what matters; `Closest` and
`Newest` order the two spools differently.

*Printers.* Two transactions make every pair of load, edit and delete, and a
circle; the topologies share a slot key, so that an edit keeps one, deletes one and
adds one, change the brand and with it the kind of link, and one of them is no
valid printer. One printer with two slots has every pair of locks two
transactions can take in opposite orders.

*Referentials.* Two requests are the least for a check and a write of another in
between; two manufacturers let a typed name meet a row of that name or another, a
material list of one and a manufacturer list of two have a beginning, a middle and
an end. Three ids at a time are one more than the names need.

*Transfer.* Two imports meet on each other's deletions; three requests in all are
an import, what it overlaps, and what comes after. The files have the ids and names
of what is there, those of another instance, printers of each older version,
printers an earlier version admitted and this one does not, printers with each
column only the database checks, and one file for each kind of refusal.

*Pages.* One browser, since pages do not see one another; one write within a page,
since the bound of `ListAdds` is per write. The queries set each facet
and an unknown status.

*Service.* Two processes and two boots have a restart with another key, a restart
beside another process, and a cookie of either; one permit for two logins is the
least for which anyone waits.

*Probes.* Two requests share the topic; two sessions and inboxes of two have an
acknowledgement followed by a report of another's.

**Fairness.** *`SpoolRequests`*: `FairSpec` assumes weak fairness of a request's
next step: tokio polls a woken task again and the database answers each statement.
*`Printers`*: strong fairness of a transaction's step, for a row lock that is
taken and released again and again is granted in the order it was asked for.
*`Service`*: weak fairness of the gate, the permit and the verification; the
semaphore's queue is in the model, so that no strong fairness is needed.
*`Probes`*: weak fairness of what the process does by itself: reading an event that
has come, its timers, joining its calls; the machine and the broker owe nothing.
Nowhere is anything assumed of users, operators or crashes, and there is no
fairness in `FaultySpec`, where a request may be cut off.

**Deadlock.** It is checked everywhere but in `service` and `transfer`, which may
stop when their bounds (`MaxBoots`, `MaxRequests`) are used up.

## What the code does against its documents

*Lost consumption* (run `lost_consumption`). Two overlapping consumptions of one
spool: both find 500 g, both save, one is lost.
`docs/specs/03b-spools-ops.md:26`: the amount "is subtracted from Remaining". Every
command loses what was saved between its find and its save in this way: an
archiving undone by a consumption, a consumption undone when a confirmation
memorizes a tag.

The following were met while modelling. The modules have the code's behaviour, and
no run is devoted to them.

* *Relocation brings a status back.* A location reassignment saves the status it
  found. Archived at its find, restored and loaded by others, the spool is
  Archived again in its slot and the handler does not unload.
  `docs/glossary.md:59`: "automatically unloaded". `AutoUnload` is therefore
  checked and proved where nothing carries a status along.
* *Opened at zero.* A spool added or edited as opened with 0 g is Open
  (`spools/model.rs:287`). `docs/glossary.md:26`: "Zero => the Spool becomes Empty".
* *Edit of a finished spool.* The edit form of an Empty or Archived spool is
  prefilled with the condition New (`web/spools.rs:1299`): saved untouched it makes
  a full Sealed spool. `UntouchedEditKeeps` is about the other two statuses.
* *Suggested twice.* Candidates by look exclude what the rows above suggest,
  suggestions by tag do not: a spool suggested for an untagged tray is suggested
  again for a later tray that reports its tag.
  `docs/specs/23-ams-spool-sync.md:47`: "Une bobine n'est suggérée qu'une fois par
  réconciliation".
* *Uncertain tag.* A tag memorized on a second spool stays on the first.
  `docs/adr/0007-ams-reconciliation.md:41`: "turning every later sync of that roll
  into a certain match".
* *Unlisted tray.* A diverging tray without a slot is not posted, and confirming
  the rest saves Up to date. `docs/design.md:131`: drift "dès qu'un bac diverge".
* *Merged import.* A location, manufacturer or spool committed by others after the
  `DELETE` of its table has begun survives the import
  (`docs/specs/12-instance-export-import.md:14` has the import replace).
  `ImportsReplace` says exactly what may be left.
* *Link without a key.* `write_link` takes a Moonraker link with no key set
  (`persistence/printers.rs:86`), and the next boot refuses to start because there
  is a link and no key (`machine_links.rs:88`).
* *Demo erases links.* With `FILATURE_DEMO` the printer form has no link section and
  its edit removes the link that was stored.
* *Columns only the database checks.* A file whose printers have more than four AMS
  units, no heads, a feed mode or a sync state there is not passes `validate`
  (`instance_transfer/model.rs:199`) and fails on a constraint after everything was
  deleted; the transaction is rolled back and the answer is an error 500.
  `docs/security/accepted-risks.md:16`: the import "validates a closed
  `filature-instance` v1 schema before touching the DB". `AcceptedFits` says what does
  hold of accepted files, and the run `transfer` has such a file.
* *Older printers.* `docs/specs/15a-printers-core.md:39-44` had tool changers of 1 to 5
  heads and an INDX of 5 slots. A file with one is decoded, accepted and stored, and
  the page that lists printers then fails, for it validates each row
  (`persistence/printers.rs:218`). `docs/specs/16-printer-heads.md:127`: "old
  `tool_changer`/`indx`/`multi_colour` kinds import to the new representation".
  `validate` lets in other printers the rules of today refuse, with the same outcome.
  `ImportedPrintersList` says which printers do list, and the run `transfer` has a file
  with both.
* *Total of a list.* The counter of the spool list reads "shown of total", and the
  total is that of the status asked for. `docs/specs/07-spools-list-parity.md:42`:
  "`total` = all spools (unfiltered, non-archived)". The comment at
  `web/spools.rs:344` gives the reason for the code's choice, which `ListAdds` is
  about.
* *Value of the visible set.* Over the Archived list the stock value is 0: `list` shows
  archived spools when asked for them, `stock_value` never counts them. The comment at
  `persistence/spools.rs:469`: "so the Stock Value stat always reflects the
  currently-visible, filtered set". `docs/specs/03b-spools-ops.md:101` has the value of
  the non-archived spools, as `ListAdds` does.
* *Incremental report.* A pushed change that names the state or the trays ends a
  session as the complete report would (`machine_bambu.rs:303`);
  `docs/specs/22b-machine-link-bambu.md:46` asks for the first complete one. Trays
  are then read by their position.
* *Test of a configured link.* With the mark of a configured credential the test
  uses the kind and serial of the stored link, not those of the form
  (`domain/printers/machine.rs:136`).
* *Client ids.* The MQTT client id begins with the process id, which is commonly 1
  in a container: two processes probing one printer have the same ids. `Probes` is
  about one process.
* *Builtins come back.* A builtin renamed or deleted is added again at the next
  boot.
* *Left-over manufacturer.* A manufacturer typed in a spool form stays when the
  spool is then refused; a location reassignment that found a manufacturer since
  deleted ends in a foreign key error.

## Proofs

All theorems hold for every value of the constants that satisfies the assumptions
named in the modules; they are checked to the last leaf by TLAPS. Each is stated of
a specification without fairness.

**`InventoryProofs`**

| Theorem | Statement | Inductive invariant |
|---|---|---|
| `InventoryExclusivity` | `Spec => []Exclusive` | `Inv` |
| `LoadedStaysLoadable` | `Spec => []LoadedIsLoadable` | `Inv` |
| `AmsExclusivity` | `AmsSpec => []Exclusive` | `SlotsInv` |
| `AmsLoadingIsGuarded` | `AmsSpec => LoadsOnlyLoadable` | `SlotsInv` |
| `AttributedAtMostOnce` | `AmsSpec => []AttributedOnce` | `ReportInv` |
| `RowsTakeEffect` | `OneDrawer` implies `SerialSpec => []RowsInEffect` | `EffectInv` |
| `NextSyncIsMatch` | `OneDrawer` implies `SerialSpec => []NextSyncMatches` | `EffectInv` |
| `ConfirmationsAreAtomic` | `OneDrawer` implies `SerialSpec => StepsAreAtomic` | `CopyInv` |
| `PagesKeepInventory` | `PagesSpec => []LoadedIsLoadable` | `PagesInv` |
| `OffersFit` | `PagesSpec => []QuietOffersFit` | `PagesInv` |
| `UntouchedEdit` | `PagesSpec => UntouchedEditKeeps` | `PagesInv` |
| `ListAddsUp` | `PagesSpec => []ListAdds` | `NumbersInv` |
| `OverviewAddsUp` | `PagesSpec => []OverviewAdds` | `NumbersInv` |

*The promise.* `Inv` has the types, agreeing rows, `LoadedIsLoadable` and
`Exclusive`; rows have to agree for the types to hold, since a command computes a
weight within the net weight from one that is.

*The reconciliation* (any trays, slots, spools, tags, orders of candidates).
`StateInv` types the tables and what drawers hold: a drawer offers actions, none
for a tray without a slot, so that whatever is posted unloads and loads slots that
exist; the copy a tag is saved from carries the row's tag. *`ReportInv`* adds what
the matcher guarantees of its rows. The matcher is a recursion over the report, of
which `ReconcileRows` shows that it has a solution, each row being what the code
computes from those above it; `Attribution` and `FirstInOK`, that a row suggests for
a look only the first candidate, and that one among those not used above; no later
step changes rows. *`EffectInv`* adds, of
the rows that stand (applied, and not taken back by a later applied row that
loads the same spool), that they are in effect and that their spools carry the
tags of their trays. In the middle of a row that reloads a standing row's spool
the tag is already the new one while the slot is still the old one, so that
`Tagged` exempts that spool between the saved tag and the move, and `StandingNext`
shows that the move also ends the older row's standing. `OneDrawer` (all drawers
are the same one) is what serving without interference means for confirmations,
whose steps `SerialSpec` does not otherwise keep apart. *`CopyInv`* adds
that the copy of a spool a tag is about to be saved from is the stored row.

*The pages* (any number of browsers, spools, slots, queries; any number of
overlapping writes). `PagesInv` says that what a page has left to read is the end of
its handler's reads, that it has the answers to the others, and that while no write
has overlapped it the slots, choices and spool it has seen are those stored; a spool
being edited is never deleted. *`NumbersInv`* adds what a page knows of the stock.
For `ListAdds` it is not enough to compare the list with the total: between the two
reads the stored rows drift away from the total, and the invariant bounds that
drift, one spool in or out of the status scope per write (`OneRow`, `ScopeMoves`).
It also needs the total to be read first (`TotalBeforeList`), as both handlers do.
For `OverviewAdds` the sum over the spools has to be that of the sums by material:
`Regroup` shows it for any finite set, from `OnIs` (a sum may take its elements in
any order), by the set form of induction in `Inductive`.

**`SpoolRequestsProofs`** (any assignment `Can` of operations to requests)

| Theorem | Statement | Inductive invariant |
|---|---|---|
| `TypeCorrect` | `FaultySpec => []TypeOK` | `RowsInv` |
| `RowsStayConsistent` | `FaultySpec => []RowsConsistent` | `RowsInv` |
| `Exclusivity` | `FaultySpec => []Exclusive` | `RowsInv /\ Exclusive` |
| `LoadingIsGuarded` | `FaultySpec => LoadsOnlyLoadable` | `RefsInv` |
| `AutoUnloading` | `NoStatusCarrier` implies `Spec => []AutoUnload` | `UnloadInv` |
| `OneWriterIsAtomic` | `OneWriterAtATime` implies `Spec => ImplementsInventory` | `WriterInv` |

*Why `RowsConsistent` needs more.* An update stores the row a request computed
earlier: the stored rows agree only if the rows held in memory do. `RowsInv` says
so of both, and `ApplyOK` that each accepted command yields such a row from such
a row. *`RefsInv`* adds that ids held by slots and requests are ids of existing
rows (no spool is ever deleted by these operations). *`UnloadInv`* adds that a
request about to save a row it will not unload saves it loadable. That is false
of a request that reassigns a location or memorizes a tag, which is why the
theorem assumes `NoStatusCarrier`, and it is lost when a request is cut off,
which is why it is about `Spec`: the unload is a statement of its own, and nothing
takes it up again. With
`FaultySpec` in place of `Spec` the run `racing_writers` fails. *`WriterInv`* is what makes the find still
hold at the save: the command about to be saved is accepted by the stored row and
its result is what the row would become, and what is about to be unloaded cannot be
loaded meanwhile. `OneWriterAtATime` says that at most one request may carry
operations that write spool rows, which `lost_consumption` shows to be needed; then
`Update` maps to `Operate`, `SetSlot` to `Load`, and every other statement to a
stutter or to the same step of the promise (`StepImplements`).

**`PrintersProofs`** (`IInv`: `Types`, `RowsDerived`, `Exclusion`, `InOneSlot`,
`EditsAccepted`, `LinksFit`, `LeftHolds`)

| Theorem | Statement |
|---|---|
| `TopologyFollowed` | `Spec => []SlotsFollowTopology` |
| `IndexIdle` | `Spec => []IndexNeverRefuses` |
| `LinksAlwaysFit` | `Spec => []LinksFit` |
| `LoadMovesOrLeaves` | `Spec => LoadsMoveOrLeave` |
| `EditKeepsLoaded` | `Spec => EditsKeepLoaded` |

*`Exclusion`* is the point: no slot row is locked by two transactions, a locked row
exists, and two loads never name one spool. From it a row cannot be deleted under a
load that has it, nor filled under an edit that has it, so that *`RowsDerived`*
(there is a row exactly where a printer derives one) and *`InOneSlot`* (a spool
whose load has emptied its slot is nowhere else) survive the commits. *`LeftHolds`*
says that until its commit a load keeps, locked, the rows its spool has to leave, with
the spool still in them for everyone else: what the commit publishes is then the whole
move, and a load that does not get that far leaves every slot as it was
(`LoadMovesOrLeaves`).

**`ReferentialsProofs`** (`IInv`: `Tables`, `References`, `InFlight`; for the last
theorem `IInv /\ Sums`)

| Theorem | Statement |
|---|---|
| `TypesAndKeys` | `Spec => []RefTypeOK` |
| `TypedNamesHold` | `Spec => []TypedNameAttributed` |
| `SeedingsComplete` | `Spec => []SeededHasBuiltins` |
| `CountsHold` | `Spec => []CountsOffByWrites` |

*`NamesWell`* carries a typed name from its row's insertion to the spool's write:
ids of rows that requests still hold are not given again, as ULIDs never are. *`SeedsWell`* says
of a seeding that what is left to do is the end of its list and that what is done,
with the list before it, is in the tables unless a deletion or a rename disturbed
it. *`Sums`* follows a page that counts row by row: over `IInv`, what it has added up
differs from the number of assigned spools whose row has been counted, or is gone
(`Counted`), by at most the writes it overlapped, and neither number exceeds the bound
put on those. A row deleted before its turn had no spool, which the foreign keys see
to; one added since is not counted, and its spools were each assigned by a write.

**`InstanceTransferProofs`** (any content of the instance and of the files, any number
of imports and other requests)

| Theorem | Statement | Inductive invariant |
|---|---|---|
| `TheSchemaHolds` | `Spec => []SchemaHolds` | `IInv` |
| `ImportsLeaveTheirFile` | `Spec => ImportsReplace` | `IInv` |
| `AcceptedFilesFit` | `Spec => []AcceptedFits` | `IInv /\ ContentInv` |
| `PrintersCanBeListed` | `Spec => []ImportedPrintersList` | `IInv /\ ContentInv` |
| `ExportsAlwaysValid` | `Spec => []ExportsValidate` | `IInv /\ ContentInv` |
| `FilesReadBack` | `Spec => []ExportsReadBack` | `IInv /\ ContentInv` |

*`IInv`* is about the rows in the middle of imports: no row is deleted by two imports
(`Apart`, the row locks); what an import has deleted is there until it commits; what
was there when it began it has deleted by the time it is past that table; and no
spool it leaves refers to a row it has deleted (`NoneRefers`), which is what the
order of the `DELETE`s is for. From the last, a commit breaks no reference although
rows added meanwhile survive it. *`ContentInv`* is about the values: every stored row
is as the forms write it or as an accepted file has it, every document an
import carries is as an accepted file decodes, the rows an export has read are those
of one snapshot, and the file downloaded last decodes to such a document. Files are
arbitrary, so that a printer is either within the rules of today, with the slots its
topology derives, or has the shape of a printer in some upload that no version wrote
or that one wrote in a form the rules no longer have (`Fine`, `OddShapes`); its name,
sync state and loads may have changed since. The work is
in the printers of older versions: `Decode` turns their kinds of module into heads and
units whose slots are again those the topology derives. `AcceptedFilesFit` follows from
`Validates` alone and does not claim the columns of a printer, of which it would be
false.

**`ServiceProofs`** (`IInv`: `Types`, `KeyHeld`, `CookiesGranted`)

| Theorem | Statement |
|---|---|
| `CredentialsOpen` | `Spec => []ServingReadsLinks` |
| `GateHolds` | `Spec => []HandledAfterLogin` |

*`KeyHeld`*: every process that is up has the key of the environment, which changes
only while none is, and past the validation every stored secret is sealed with it.
*`CookiesGranted`*: a cookie is none or a granted token, a request past the gate
has shown the token of its process.

**`ProbesProofs`** (`IInv`: types, `InSession` of each session, `IdsDiffer`)

| Theorem | Statement |
|---|---|
| `OnlyTheStruckFail` | `Spec => []FailsOnlyWhenStruck` |
| `SessionsGoOn` | `Spec => []NeverStuck` |

*`Stages`* says where a session is: what it waits for is on its way to the broker or
back, and it has asked for nothing before it listens. *`IdsDiffer`*: the ids come
from one sequence, so that no connection closes another.

**Assumptions on constants.** `MaxNet \in Nat \ {0}`; marks such as `NoSpool`,
`NoRow`, `NoTag`, `NoLook`, `NoPrinter`, `NoSlot`, `NoSecret`, `Configured`,
`NoName`, `NoKey` are none of the values they stand beside; `Can` maps requests to
sets of operations; the trays have distinct slot keys, `Newest` and `Closest` order
spools; spools, slots and the ids of rows are finitely many, prices are natural
numbers, a query has the five filter fields; a valid topology derives at least one
slot; ids are positive, the builtin lists are not empty; there is at least one login
permit. The instance a transfer starts from fits the schema, and its rows are ones the
forms let through, as are the rows added meanwhile; of an accepted file it is only
assumed that the JSON reader takes it, every field being there and of its type
(`UploadsAssumption`); the mark of a field that is null or missing is no value of one.
TLC evaluates each on the runs.

**Only model-checked.** Liveness under fairness is out of the prover's reach:
`EventuallyUnloaded`, `EveryTransactionEnds`, `LoginsAnswered`, `ProbesEnd`. Every
other property of a passing run is a theorem. `ConsumeSubtracts` is false of the
code.

## Not modelled

* `align_ams_weight`, as said above, and the badge's second writer, the confirmation
  of a drawer other than the modelled one.
* What a report that is not complete leaves out: the sections it names are in
  `Probes`, their content is not.
* `list` of printers reads three tables by separate statements; an edit committed
  between two of them may make it fail once. Nothing is stored from it.
* Two server processes probing one machine; clocks that jump; partial writes of
  the database, which is taken to keep its transactions.
* The arithmetic of the stock value: the dashboard adds floating-point ratios turned
  into decimals (`dashboard/read_models.rs:90`), the list `NUMERIC`s in SQL
  (`docs/tech-debt.md:23` keeps the difference as TD-011). Both are the same exact
  sum here, so that `OverviewAdds` is about which spools are counted and how they are
  grouped, never about cents.
* Numbers and dates as text, decimals and their parsing, validation messages:
  represented by the values they let through. Rounding for display.
* Encryption, password hashing, TLS, the MQTT and HTTP clients: libraries, taken
  to do what they say. What the code does with their answers is modelled.
* Rendering, translation, routing, themes, the wizard's steps and static files
  have no state that matters here.
