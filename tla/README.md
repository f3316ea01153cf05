# A verification project for memeBucket

memeBucket keeps links to images and GIFs in buckets. One Rust process (`apps/server`) serves a JSON API,
the Discord interactions endpoint and the static dashboard, over one SQLite database and, when
configured, one Backblaze B2 bucket. A desktop application, the Picker (`apps/desktop`), shows the
dashboard in a window and pastes links into other programs. This directory holds TLA+ models of the parts
of both in which steps of several actors meet, TLC runs that check them on small instances, and proofs
that hold for every instance.

Paths below are relative to `apps/server/src/` unless they begin with `apps/`.

## 1. Inventory

Everything in the server runs on tokio: each request is a task that may be suspended at every `await`, in
particular before and after every SQL statement and every call of the object store. A client that hangs
up makes axum drop the handler's future where it waits. Nothing in the code holds a lock across an
`await`; a few repository functions use a transaction. So the natural unit of interleaving is *one
statement or one call of the object store*, and the natural failure is *a handler that stops between two
of them*.

| Component | State | Operations | Hard behaviour | Correct when | Status |
|---|---|---|---|---|---|
| Media permanence (`services/storage.rs`, `services/migration.rs`, the writing half of `api/images.rs`, two Discord commands) | `images.url/cdn_url/cdn_status`, the objects in B2, the dedup table `cdn_objects` | add, upload, repoint, delete images; re-host an expiring link; collect garbage; migrate at start-up | handlers, spawned tasks, the start-up job and collection passes interleave; partial failure between B2 and SQLite; lost answers; restarts | a row's copy exists as long as the row shows it; a shown link does not expire; no row is forgotten; the job ends | modelled |
| Bucket and image caches (`repositories/cached.rs` over `repositories/buckets.rs`, `api/buckets.rs`) | nine moka caches with a capacity and five minutes to live, in front of the tables | read through, write and invalidate before and after | a read fills an entry after a write overtook it; entries the writer cannot name or reach; swallowed errors | an entry differs from the database only for a known cause, and not for good; stale entries let nobody subscribe whom the database never would have | partly |
| Accounts, logins, sessions (`auth/*`, `api/account.rs`, `repositories/users.rs`) | `users`, `user_identities`, `sessions` | sign in, link, unlink, log out, expire, delete account | every check is a statement of its own; a failed read is taken for an empty answer | nobody loses the last login; one login per provider; nothing outlives its account | partly |
| Roles and permissions (`api/admin.rs`, `repositories/admin.rs`, `auth/permissions.rs`) | `users.role`, `user_permissions` | set role, set permission | root administrators are decided by linked logins; checks precede writes | only root administrators change roles | not modelled (section 7) |
| Admin statistics (`services/admin_stats.rs`, `repositories/admin_stats.rs`, the collector in `main.rs`) | one snapshot row per day, finalised or not | refresh, backfill, finalise, apply storage metrics | days missed while down; counts of several instants; a listing that ends after midnight | a finalised day says what happened that day and never changes | modelled |
| Library (`repositories/images.rs`, `api/images.rs`, `api/buckets.rs`, two Discord commands, export and import) | `buckets`, `images`, `image_tags` | add, edit, bulk edit, move, delete; create, rename, delete buckets; export, import | links resolve for seconds between a request's reads and its writes; requests write row, notes and tags in separate statements; nothing in the schema ties an image's owner to its bucket's | an image is in a bucket of its owner; all readers see the same ones; a post's words do not replace the user's; an export misses nothing that stayed, an import doubles nothing | modelled |
| Random selection, send history (`services/random.rs`, `repositories/send_history.rs`, `record_image_send`) | `send_history` | draw, record, debounce, limit | check and record are separate statements; rows lose image and bucket when those are deleted | limits are exceeded by no more than the requests in flight; a draw repeats no recent image if it can avoid it | modelled |
| Desktop Picker (`apps/desktop/src-tauri/src/main.rs`) | `config.json`, granted origins, global shortcuts, the tray's menu, the update pending, the clipboard | change server, save settings, check for and install updates, show, hide, paste | several effects one after the other, each may fail; grants cannot be taken back; threads sleep between two effects | grants, shortcuts, the offer in the menu and the link pasted are those that were configured, found or chosen | modelled |
| Fetching and conversion, GIF search, Discord parsing and signatures, routing, configuration, web dashboard | none of their own, or one map behind a mutex | | | | not modelled (section 7) |

How they interact: handlers call repositories, most of them through the caches; `api/images.rs` and the
Discord commands call `services/storage.rs` and spawn re-hosting tasks; the deletion handlers run a
collection pass; `main.rs` spawns the migration job and the statistics collector. The tables are the
shared state. Account deletion reaches all of them through foreign keys.

`PROJECT.json` lists under `hazards` each place where one of these behaviours bites, with the properties
that watch it.

## 2. Plan

| Order | Module | Question | State |
|---|---|---|---|
| 1 | `CdnPipeline` with `CdnPipelineProofs`, `CdnPipelineSafety` | does media stay reachable | done; every safety property proved |
| 2 | `BucketCache` with `BucketCacheProofs` | how stale may a cache be, and what may it cause | eight of nine caches (the ninth is in `Library`); every safety property proved |
| 3 | `Credentials` (abstract: logins and sessions lead to open accounts, and nothing ended comes back) and `Accounts` with `AccountsProofs`, shown to implement it | do people keep a way in, and only their own | done; every property proved |
| 4 | `DayLedger` (abstract: a day is open, then closed for good) and `AdminStats` with `AdminStatsProofs`, shown to implement it with `INSTANCE ... WITH` | do snapshots tell the truth about their day | done; every safety property proved |
| 5 | `Library` with `LibraryProofs` | whose are the images, who sees them, whose words are on them | done; every property proved |
| 6 | `Sends`, which composes the send history with `Library`, with `SendsProofs` | how far do racing requests exceed the limits; what does a draw repeat | done; every property proved |
| 7 | `DesktopPicker` with `DesktopPickerProofs` | do grants, shortcuts, offers and pastes follow the settings | done; every property proved |

Still wanted: object keys with an extension of their own.

## 3. The modules

### CdnPipeline

One variable per table column or in-memory object: `images` (a row or `None` per id), `store` (keys in
B2), `cdn_objects`, `configured` (`state.storage().is_some()`), and for the running code `proc`,
`garbage` (a pass's list), `batch` and `failed_this_run` (the migration job's locals). `proc[w]` says
where a handler or task stands and the values it holds across the await: a handler *becomes* the task it
spawns, since it ends there. The pseudo-process `Migrator` is the start-up job.

| Actions | Code |
|---|---|
| `CreateImage`, `UploadImage`, `DiscordAdd`, `PatchImage` up to their first effect | the handlers in `api/images.rs`; `discord/interactions.rs:822-943` |
| `InsertRow`, `UpdateRow`, `Finalize` | `create_with_metadata`, `update_metadata_partial`, `finalize_cdn_status` |
| `LookupHit`, `LookupMiss`, `PutObject`, `RecordObject`, `UploadFails` | `StorageService::store_bytes`, whoever runs it |
| `FetchFails`, `CommitRehost` | the outcomes of `rehost_discord_url`, in the spawned task and in the job |
| `DeleteImages`, `GcSelect`, `GcDeleteObject`, `GcDeleteFails`, `GcPurgeRow` | the delete handlers and `garbage_collect_orphaned_objects` |
| `FetchBatch`, `MigrateRow` | `run_cdn_migration` |
| `CascadeDelete`, `ImportImages` | bucket and account deletion, `import_user_data` |
| `Disconnect`, `Restart` | a dropped future; the process stops and `main` runs again |

Abstractions. A member of `Content` stands for the converted bytes, their hash, the key `{hash}.{ext}`
and the CDN URL built from it; the code computes each from the one before, given that equal bytes come
with equal extensions. `ContentOf` fixes what a Discord link leads to. Downloading and converting touch
nothing kept here and belong to the step after. Ids and failed uploads are unbounded in the code;
requests, faults and restarts are counted against `MaxRequests`, `MaxFaults`, `MaxRestarts`.

Two history variables record what the properties except. `excused`: rows that the code leaves to the next
start (their handler was dropped, their UPDATE or upload failed, or they came by upload, Discord or
import, which finalise nothing). `exposed`: contents that were ever *at risk*, in one of three ways that
section 5 explains. Neither decides what any action does.

### BucketCache

The tables are `buckets`, `bucket_subscriptions`, `bucket_whitelists` and the number of `images` in each
bucket; `cache` maps every key of the caches to the cached answer or `Miss`. `Answer(k)` is the query
behind a key: the state an entry *should* agree with. A read is `Get`, `Lookup`, `Fill`; the database
answers in `Lookup`, the answer is stored in `Fill`, and other requests act in between. A write is
`Request`, then, as `cached.rs` has it, `ReadBucket`, `DropEntries`, the statement, and `ReadBucket`,
`DropEntries` again (`Twice`), or another invalidation (`Finish`), or none. `subscribe_bucket` also reads
two entries first (`Answered`).

The statements of one repository call that do not interleave with anything modelled are one step (the
ownership check of `list_whitelist_users` and its list, the DELETE of `remove_whitelist_user` and its
ownership check). The drops of one invalidation are one step: no modelled operation reads two entries
whose order of disappearance it could notice. `excused` is a history variable: the keys that are stale
for a cause named at the action that adds them. `admitted` records which pairs of user and bucket the
database would ever have let in.

### Accounts

`identities` maps each possible login, a `(provider, provider_user_id)`, to its account or `None`; a
provider is the set of its logins. `sessions` maps ids to the account of a session that is still valid.
`proc` holds what a handler carries from statement to statement. The Telegram callback and
`unlink_identity` are followed statement by statement (`LookupSession`, `CheckCsrf`, `ReadIdentities`,
`Link`; `CheckRoot`, `CountIdentities`, `Unlink`), sign-in as its transaction (`Upsert`) and its session
(`CreateSession`). `ReadFails` is `unwrap_or_default` and `.ok()??`. Random ids are never drawn twice,
which makes the sets `Account` and `Session` the bounds of an instance: when they are used up, nobody can
sign in any more.

`raced` is a history variable: the accounts whose logins a handler changed while they were not what
*every* one of its reads had found, or without having read them. `seen` in `proc` keeps what those reads
found, for that comparison and for nothing else.

`Credentials` is the promise of the whole: an account is opened with a login, is granted more logins and
sessions while it is open and revoked some, one account at a time, and when it closes takes all of them
along; a session that has ended leads nowhere again. `Accounts!CredentialsSpec` instantiates it with
`users` as the open accounts, the accounts that were there before and are not now as the closed ones,
`identities` as the logins' owners, and as ended the sessions once issued that lead nowhere. That a
handler takes several statements, between which the account may be deleted, is what has to be hidden.

### Library

`buckets` and `images` map ids to rows, to `None` before the row exists and to `Gone` after its deletion;
`readers` are the pairs of user and bucket that are subscribed and let in by the whitelist; `file` is the
last export somebody downloaded. `proc[w]` is a request that takes several statements, with what it read
so far.

| Actions | Code |
|---|---|
| `CreateImage`, `UploadImage` | the handlers in `api/images.rs`: ownership check, `create_with_metadata` |
| `AddToBucket`, `CreateInbox`, `FindInbox`, `InsertAdded` | `handle_bucket_add` and `handle_add_to_bucket_message_command` up to `images.create`, with the conflict on the Inbox's name |
| `WriteNotes`, `WriteTags` | `update_notes` and the tags of a post after a row was inserted |
| `ReadExisting`, `FillExisting`, `RecallExisting`, `UpdateImage` | `update_image`: the row, read and stored in the cache or found in it, then the link, then `compute_notes_patch`, `merge_social_tags` and `update_metadata_partial` |
| `BulkUpdateImages`, `DeleteImages`, `MoveImages` | the three bulk transactions of `ImageRepository`, and the single-image routes that do the same for one id |
| `DropEntries` | the invalidations of `get_for_owner` after an update or a move |
| `CreateBucket`, `RenameBucket`, `DeleteBucket`, `AdmitOrExpel` | `BucketRepository` |
| `ExportStart`, `ExportBucket`, `ExportDone` | `export_user_data`: the list of buckets, one query for each, the answer |
| `ImportUserData` | `import_user_data`, one transaction |

Abstractions. A SQL transaction is one step, and so is a query together with the one for its rows' tags.
A request that is refused before its first write changes nothing and is left out. The link a client sends
is what it resolves to, a member of `Media`: the URL to store and what a post said, by the three kinds of
resolver the code has. Notes and tags are kept by who wrote them, `"own"` or a post's; a random weight is
zero or not (`enabled`); titles and favourites are written by the same statements as the weight and read
by nothing modelled. How old a cached list an export or a draw may read is `BucketCache`'s matter; here
both read the tables. `Traffics` says which requests the clients of one behaviour send and how many,
`Posts` and `Patches` with what in them.

`cached` is the cache of single images, `get_for_owner`. A miss is two steps, the query and the insert,
and an update or a move is two, the transaction and the invalidations. The other writers drop their
entries in the step that writes: what they leave in an entry is never less than the user's notes in the
row, which is all that is read from one. The drops of one invalidation are one step, since no request
reads two entries, and `finalize_cdn_status`, which drops an entry and changes nothing kept here, is left
out. Entries live for five minutes, so any read may miss. A client that hangs up is a request that never
takes its next step.

`during` is a history variable: what other requests did while one waited (the images that were edited,
the images and buckets that were moved, renamed or deleted). So is `late`, in an entry and in a request
that went by it: the image was edited or moved after the query and before the insert. `held` in an export
is what was there at its start and has stayed.

### Sends

`history` is the table, oldest row first, `now` the clock in seconds, `sender` the sends in flight. Every
step of `Library` is a step here (`LibraryStep`), and the `ON DELETE SET NULL` of the schema takes place
with it. The Picker's report is `PickDebounce`, `PickCount`, `PickRecord`, as `record_image_send` awaits;
a random draw is `DrawStart`, then `DrawFind` and `DrawList` for each bucket named, `DrawRecent`,
`DrawRecord`. `Record` keeps the `SELECT` of the `INSERT`: nothing is recorded when the image is gone or
can no longer be read. How the draw favours larger weights is left out: any candidate may be drawn. A
bucket's subscribers and whitelist are one relation, `readers`. Ids, rows and the clock are bounded by
the instance only.

### DesktopPicker

A Tauri command that is not `async` runs on the main thread, one at a time (`Command`), so each is one
step where nobody else can tell: `SetServerUrl`, `SaveWindowPosition`, `ToggleWindow`, `HideWindow`,
`CopyAndPasteLink`. `save_settings` is not: other programs are not on our main thread and may take or
release a shortcut between two of its calls. `save` says where it stands: `SaveBegins` lets go of the
configured shortcut (a failure is ignored and leaves it in force), then `SaveSettings` gets the new one
and writes the file, or `SaveFails` gets it but not the file or the start at login; or `SaveRefused`, and
then `RollBack` asks for the old one again, which may be refused in turn. What runs beside commands are the checks for updates
(`CheckForUpdates`, `NoUpdate`, `StoreUpdate`, `OfferUpdate`), the installation (`RestartToUpdate`,
`Installed`, `InstallFails`) and the pasting threads (`HideToPaste`, `PasteKeys`). `Start` and `Quit`
bound the life of a process: grants, shortcuts and the menu go with it, the file stays. A save that
changes the server restarts the process inside its step (`StartsOver`). `Torn` is a file that does not
parse, as a write that stopped half-way leaves it. `taken` holds the shortcuts that the system refuses us
at the moment, because another program has them or for a reason of its own; they change at any time
(`OtherProgram`, modelled from what `on_shortcut` may answer). `rebuild_tray_menu` runs on the main
thread, and whatever fails in it is ignored (`OfferUpdate`). An installer may end the process in any
state (`Installed`).

Left out: window positions and the start at login, which nothing reads back, and the pages the windows
show. The 250 ms a pasting thread waits are taken to be enough for the main thread to hide the window.
`past` is history of one process: origins replaced without a restart (`replaced`), how many causes left
a shortcut over (`strays`), whether the shortcuts last asked for to stay were refused (`refused`), whether
an installation failed (`failed`) and whether the menu could not be rebuilt (`unshown`); `crossed` in
`paste` is what happened while a thread waited.

### AdminStats and DayLedger

`snapshots` maps each day to its row of `admin_stats_snapshots` or `None`; `col` is the collector task
with its locals (`date` is `snapshot_date`, `day` and `counts` the snapshot being filled in). `born` and
`alive` are the counted tables as the queries see them: which rows there are and on which day their
`created_at` or `sent_at` falls. A run is `Finalize` (one UPDATE), `Earliest`, then for every day to
backfill and for the current one a `Count` per query and a write (`InsertHistorical`, `UpsertCurrent`),
then `List` and `Apply` for the storage metrics. `Create`, `Import`, `Delete` and `Tick` happen between
any two of them; a statement may fail (`RunFails`), the server stop and start.

`Tick` assumes that the clock does not go back, and that a run or a sleep past midnight notices it within
a day. A listing of the object store is one value for its two metrics. A database from before migration
0019, whose rows are finalised or open by that migration, is not an initial state here. An imported
`created_at` is a day; text that SQLite's `date` does not read as one would be in no count by day.

`DayLedger` is the promise: a day is open until it is over, is closed with an entry at most once, and
then stays. `AdminStats!LedgerSpec` instantiates it with the finalised rows as its entries.

## 4. Runs

| Run | Instance | Shows |
|---|---|---|
| `cdn_pipeline` | 2 rows, 2 contents, a Discord link and a CDN URL as submitted links, 2 workers and the job, 3 requests, 1 fault | every safety property of the pipeline but `NothingForgotten` |
| `cdn_live` | 1 worker and the job, 2 requests, 1 fault, 1 restart that may change whether B2 is configured | the job ends; pending rows are settled; none is forgotten |
| `cdn_garbage` | 2 rows, 1 content, no fault | **violation**: the collector takes an object a row still links to |
| `cdn_permanence` | 1 request, no fault | **violation**: a migrated row is given up as broken |
| `bucket_cache` | 2 users, 1 bucket, 2 names, 2 tokens, 2 handlers, 3 writes, every key | staleness has a named cause; subscribers were admitted |
| `bucket_cache_live` | a second bucket to create, strangers' requests, 1 write, 1 fault | after a fault too, caches agree with the database again |
| `accounts` | 2 accounts, 2 sessions, a Discord and two Telegram logins, one of them root, 2 handlers, 1 fault | the accounts' properties |
| `unlink` | the same without faults | **violation**: the last login is removed |
| `admin_stats` | 3 days; an account with a bucket, an image in it and a send; 1 fault | what finalised days say, and that they never change |
| `admin_stats_live` | 4 days, 1 account, 1 stop at any step and of any length | every row is closed, also after days without a run; a second run on one day loses no metrics |
| `library` | 2 users, 2 buckets of one user or of two and room for a third, 3 images and room for 2; 2 requests and 2 sends in flight; 11 mixes of 2 to 4 requests, and 4 mixes of 3 or 5 about one image | the properties of `Library` and `Sends` |
| `desktop` | any file; 2 servers and a URL that names none, 3 shortcuts, 2 links, 2 checks, 1 pasting thread, 5 steps of users and other programs | the properties of `DesktopPicker` |

Why the bounds are enough to be worth something. All races in this code are between two actors, over one
row, one object, one entry or one account; each instance has two of the former, or a worker and the job,
and one more of the latter than the race needs, so that it can also happen to the wrong one. Two rows let
one keep what the other deletes. A batch of 2 rows with 2 ids meets both "batch full" and "batch short".
Three writes are share, subscribe and protect in any order, which is the longest chain a stale gate
needs. Three days are one that is recounted, one that is backfilled and one that is current; one send is
enough for the two counts of sends to differ, and the fourth day of `admin_stats_live` lets one pass
without any run. The mixes of `library` put together the kinds of request that meet in one property: an
export with what moves, renames or deletes, and an import after it, also of a changed library, or twice,
or by the other user; adds to the Inbox with what creates, renames or deletes it; picks with picks, four
of them, so that a window of two fills, slides and fills again. Four more mixes put edits of one image to
edits of it. Five requests are what it takes for an image to leave the bucket an entry was read under, be
edited, and come back while a request that went by the entry waits. Five steps of `desktop` are a start,
two saves that fail in different ways, and two more, of another program in the middle of a save or of
whoever meets what the saves left; the calls of a save cost no step of the bound. One pasting thread is
enough there, for a copy without a thread crosses it just as well; the proof has any number. Keys of different caches
never influence each other except through `subscribe_bucket`, which reads its own two, so `Watch` lets
the clients of one behaviour read one key, and TLC takes every key in turn. A fault may strike at any
step; with one of them every error path is taken, and two faults do not meet inside one operation.
Symmetry is used in safety runs only, for ids that no operator orders or chooses among by value.
`CHECK_DEADLOCK FALSE` everywhere: with no request left, and nothing in flight, the server rightly does
nothing.

Each property of a passing run has a mutant, an operator just before the original that differs the way a
plausible slip would (a forgotten check, a lost reset, an off-by-one), and TLC finds the property
violated when it takes the original's place.

### Fairness

`CdnPipeline` assumes weak fairness of each worker's next step and of the job's: tokio polls every task
that is ready, and every `await` on these paths ends with an answer or an error: downloads have a timeout
of their own (`services/images.rs:569`), and for SQLite and the object store the clients' default
timeouts are taken to end a call. Requests, disconnects, faults and restarts are never forced.
`BucketCache` assumes the same of handlers, and that each entry expires at some time, which is what
`time_to_live` promises regardless of reads (the mutant of `Converges` is `time_to_idle`, under which it
does not). `Accounts`, `Library`, `Sends` and `DesktopPicker` have no liveness property: nothing there
must happen. `AdminStats` assumes that the clock goes on, a sleeper is woken, a query is answered, and
that somebody starts a stopped server again; `EveryRowCloses` needs two midnights because a run that
began before the first may sleep to the second.

## 5. What the checks show

**Pipeline, holds.** A re-hosted row keeps its object (`RehostedObjectKept`) except for contents at risk:
(a) an upload of the content overlapped a collection pass that had it on its list; (b) a pass stopped
after deleting the object and before deleting its dedup row, so that later uploads are answered with an
object that is gone; (c) some row carries the CDN URL as its own `url`, where the collector's query does
not look. These are real behaviours of the code, named in the property so that it says there is no
fourth. What is shown for a row never expires whatever late tasks write (`ServedLinkIsStable`): the
UPDATE of a task compares only the id, but all it can ever write is a stable URL. It may be the copy of
a link the row had before, and no property says otherwise. `FailedNotRetried` and
`MigrationTerminates` need `failed_this_run`; without it the job spins on a row whose upload keeps
failing. `NothingForgotten` and `PendingIsSettled` say that interleaving alone forgets no row.
`NoLostObjects` says that objects without a dedup row, which no pass would ever delete, come from faults
and overlapping passes only.

**Caches, holds.** The list of causes of staleness in `excused` is complete (`NoUnexplainedStaleness`):
fills overtaken by a write; the old token after `set_share_token`; what a deleted row named, once it
cannot be read any more; subscriber counts and image counts; what a whitelist edit changes for the edited
user; image lists after a change of the bucket, among them a subscriber's after the whitelist is enabled
(the test at `apps/server/tests/bucket_api.rs:347` expects otherwise, and runs on the repositories
without caches); the entries of a lost handler or a failed `get_by_id`. `SubscribersWereAdmitted` is the
property the two cached gates of `subscribe_bucket` are for. All entries but `whitelist_users` converge;
that one depends on who asks first, since its key does not name the caller. TLC takes the causes that
need a fault in the model's `Converges` run only; that nothing else makes an entry stale then either is
`EveryStaleEntryExplained`, which holds for any number of faults.

**Accounts, holds.** Up to the races that `raced` names, an account keeps a login and has one per
provider, and a root login stays; without exception, no login or session outlives its account and no
login moves between accounts.

**Statistics, holds.** The collector implements `DayLedger` (`LedgerSpec`), although
`upsert_current_snapshot` writes `finalized = 0` whatever was there: the date a run was started with,
carried through all its queries, is what protects closed days, also when the run straddles midnight. A
finalised day's counts lie between what is left of that day and what there ever was
(`FinalizedCountsAreTrue`; images are excepted because an import may backdate them), and its sends never
exceed all sends (`DailyWithinTotal`), which depends on the order of the two queries: a deleted account
between them would otherwise show. No row stays open past the next run that gets as far as its second
statement (`NoRowLeftOpen`, `EveryRowCloses`), and storage metrics are not lost (`MetricsNeverLost`). An
import with an early `created_at` makes the backfill start there, one row per day; the code has no bound
on that, and no property speaks of it.

**Library, holds.** Nothing in the schema ties an image's owner to its bucket's, and the listing, the
search and the send history each write the rule of who may read for themselves; still an image is always
in a bucket of its owner (`ImageInOwnersBucket`), and the three agree (`ReadersAgree`), whatever moves,
deletions, imports and late inserts cross. An export lists each image that stayed in place once
(`ExportComplete`); one that was moved meanwhile may be in it twice or not at all. An import adds exactly
what the bucket of that name has not (`ImportRestores`), also where the file repeats itself or names what
an earlier import added. Adds to the Inbox give up only when the user took the bucket away meanwhile
(`InboxAddLands`): the one that loses the race to create it finds the other's. `OwnWordsKept` names the
ways in which a post's words replace the user's, and says there is no other:
- a PATCH with a new link decides about the notes on those it read before the link was resolved. Notes
  written meanwhile are replaced, although `changelog.md:78` says that happens "unless the image already
  has notes";
- those it read may come from a cache entry that was stored after an edit or a move had overtaken its
  query. A request reads an image's row; the user's PATCH writes notes on it, is answered, and drops the
  entry, which is not there yet; then the first request stores the row it read. For five minutes a PATCH
  with a new link finds no notes in that entry and writes the post's over the user's, however long ago
  those were written. TLC shows it when `proc[w].late` is taken out of `OwnWordsKept`, and a second way:
  the entry is stored after the image has moved away, the image is edited in the other bucket, and comes
  back while a request that went by the entry resolves its link;
- `create_image` and the Discord commands insert the row first and write the post's notes (the commands
  its tags, too) after: what the user wrote in between is replaced;
- a PATCH with a new link and without tags drops the tags the user wrote for the post's. That is no race
  and the code's own choice, so the property excepts it by name.

An entry of that cache that lacks the user's notes, or shows an image where it no longer is, was
overtaken so, or a request that wrote is about to drop it (`StaleReadingsExplained`).

**Sends, holds.** Debounce and rate limit check and record in separate statements, so requests that race
pass them together: by at most the number in flight less one, however the window slides
(`PicksWithinLimits`). A draw whose reads still hold when it records repeats none of the recent images
(`DrawAvoidsRecent`), for the limit on the recent ones is less than the number of choices. A bucket named
twice in one draw counts its images twice; then every image may be recent, the filter gives up, and the
last one may come again. The property speaks of the number of different images and so leaves that out.

**Desktop Picker, holds.** The configured origin has its grant, and any other that has one was configured
in this process before (`GrantsFollowConfig`): `set_server_url`, and a save that clears the URL, leave
the old grant in force until the next start, where the comment at
`apps/desktop/src-tauri/src/main.rs:65-68` asks callers that change the URL to restart. Each start that
fell back to the default shortcut, each shortcut that was not let go, each save that failed after the
swap and each torn file leaves at most one shortcut that the settings do not name
(`ShortcutsAccountedFor`). A save whose new shortcut is refused asks for the old one again "so the app
isn't left with no hotkey" (`main.rs:510`), and may still leave it with none: the old one was released
first, another program may have it by then, and the refusal is ignored. The property says that a Picker
not in the middle of a save has none only after such a refusal, or after a start that was refused the
configured one and the default. The menu's offer to restart has an update behind it until an installation
fails (`OfferIsBacked`), and an update that waits is offered unless the menu could not be rebuilt. From a
failed installation on the offer is empty, and since it took the place of the check, the
process cannot look for updates again until it is restarted. A paste hits its own link and finds the
window hidden unless a second copy or the shortcut came while its thread slept (`PasteHitsItsTarget`).

**Does not hold**, each with a run and an entry under `findings`:

- `cdn_garbage`: an uploaded or Discord-added image has its CDN URL in `url` and nothing in `cdn_url`;
  deleting any image starts a pass that deletes its object.
- `cdn_permanence`: the job fetched a batch; the task of one of its rows re-hosts the link and commits;
  the job's own fetch of the link then fails and marks the row broken, though the copy exists.
- `unlink`: two unlink requests both count two logins and each deletes one. The same loss comes from one
  request, when two link callbacks gave the account two Telegram logins: the count is of identities and
  the deletion of a provider.

## 6. What is proved

`tlapm` checks the proofs below from the modules' assumptions, which TLC evaluates in every run:
`PipelineAssumption` (the kinds of links are disjoint, `None` is none of the values, `BatchSize` is
positive) and `LoginAssumption` (the two providers' logins are disjoint and not both empty, finitely many
logins, root logins are logins), `StatsAssumption` and `NullAssumption` (finitely many items, each of one
of the four tables; `None` is no number, no metric and no row). `LibraryAssumption` and
`StocksAssumption` (`None`, `Gone` and `Keep` are none of the values; the tables a server starts over are
as it may leave them), `SendsAssumption` (limits and windows are positive and the debounce's is not the
longer one; a draw names at least one bucket, as both its callers see to; finitely many buckets, images
and sends in flight, as a database holds them), `DesktopAssumption` (`None` and `Torn` are none of the
values, finitely many shortcuts), `CacheAssumption` (`None` is none of the values, the clients of one
behaviour read some set of keys). All sets may otherwise be of any size, and the bounds any number.

**CdnPipeline.** `Inv0` is `TypeOK` and `Shape`: each process holds, at each of its steps, the row, link
or content the step uses, and only the job's process runs the job. It is inductive (`StepKeepsInv0`) and
gives `TypeCorrect`. `ServedLinksStable`: with `Inv0`, `ServedLinkIsStable` is inductive as it stands,
because what tasks hold at `commit` is a content. `FailedRowsNotRetried` needs in addition what `JobRows`
says of the job's batch: it has one entry per id, and none for the row the job is uploading, so that a
row that fails is not in the batch any more. `RehostedObjectsKept` rests on `ObjInv`: whoever stands
between an upload and the row that will record it holds an object that is stored or exposed; a re-hosted
row on a pass's list was exposed; a CDN URL on its way from `url` to `cdn_url` was exposed; everything at
risk is exposed. The collector's delete then can only take objects of unreferenced or exposed contents.
`NoteRisk` is in every action for the sake of this argument. `NoRowForgotten` rests on `Accounted`: once
the job has made its last SELECT, a pending row that nobody gave up has a handler or task that still has
to settle it. Before that SELECT nothing need be said, since it will find the row; and when it finds
none, every pending row is one the run has tried already. `NoObjectLost` rests on `Findable`, which
adds to the property that the object whose row a pass is about to purge is gone, or was uploaded again
during the pass.

**Accounts.** `TypeInv` is `TypeOK` and `Handled`: a handler that stands before its INSERT or DELETE has
in `seen` a read that allowed it (no Telegram login; not a root login of the provider; more than one
login). `LoginInv` is `LoginMethodKept`, `OneLoginPerProvider` and `NoOrphans` together. For a handler
that did not race, `seen` holds the very logins it is about to change: more than one in all, and since
its account was never raced, one of each provider at most, so deleting one provider leaves a login of
another. This is why the two properties are only inductive together. Five theorems follow, one per
checked property: `TypeCorrect`, `LoginMethodsKept`, `OneLoginOfEach`, `NothingOrphaned`,
`RootLoginsKept`; and `LoginsNeverMove`, which TLC checks as a part of `CredentialsSpec`. Another,
`ImplementsCredentials`, maps each statement to a step of `Credentials` or a stutter: an INSERT to a grant, since the foreign keys let it through only for an account that is there;
a DELETE of logins or sessions to a revocation, and by `NoOrphans` to a stutter when the account is gone;
an account's deletion to its closing, since the cascade takes everything along in one statement. It needs
in addition that what was issued contains every session there is (`Issued`).

**AdminStats.** `Inv` is `TypeOK` and `Dated`: the date of a run has come, a backfilled day is before it,
and so is every finalised one. Hence the upsert of the current day cannot meet a finalised row, and
`ImplementsLedger` follows step by step: steps of a run map to `Close` or a stutter, `Tick` to `Tick`,
everything else stutters. `DailyIsWithinTotal` adds `Counted`: between a backfill's two counts of sends
the day's sends can only become fewer, because the day is over. `MetricsAreKept` and `RowsAreClosed`
follow from `Inv` and what each write does to the rows, which four lemmas state. `FinalizedCountsTrue` is
about days that are over: what is left of one only shrinks and what there ever was only grows
(`PastIsPast`), so a count taken once past midnight stays between the two, and so does each that a
backfill has taken so far (`CountedTruly`). Only backfills and finalisation close a day, and finalisation
counts again.

**Library and Sends.** The theorems are about `SendsSpec`, in which the library's steps occur among the
sends'. `Inv` is `TypeOK`, `ImageInOwnersBucket`, what each request holds at each of its steps
(`Requested`) and what an export holds (`Downloaded`); it is inductive (`InvAlways`) since inserts, moves
and imports each find or make the bucket in their own transaction. `ReadersAgree` follows from it by
unfolding the three rules. The properties about requests that others cross rest on one lemma per action
that says what the step tells (`Told`): which rows it may have changed and that every waiting request has
the event in `during`. With it three invariants are inductive: a waiting add's bucket is there, owned and
of its name, or `during` says that it was taken away (`BucketWaits`, for `InboxAddsLand`); what a request
is about to overwrite on its image is none of the user's, unless `during` says that the image was edited
or the request went by a `late` entry (`WordsWait`, for `OwnWordsAlwaysKept`); what an export has yet to
list is where it was, or moved (`ExportWaits` and `FileComplete`, for `ExportsAreComplete`). `WordsWait`
is inductive only together with `CacheExplained`, which is `StaleReadingsExplained` and gives
`ReadingsExplained`: what a request reads from the cache is as good as the entry, and an entry is as good
as what the request that stored it had waited with. A write that could make it stale is of a request that
has its key among those to drop (`WillDrop`), and a key stays there until the entry is gone (`DueStays`).
The attempt to prove this with edits alone in `late` failed, for a reason five requests show: an image
may move away, be edited in the other bucket, where nobody knows of the entry, and come back while a
request that went by it waits. `ImportsRestore` counts the copies of each URL before and after: the old
rows and buckets are as they were, and the only new row that counts for a name and a URL is the one the
import drew for that pair, if it drew one. `PicksStayWithinLimits` rests on `Paced`: what the window
counts and the requests that passed the check and have yet to record are together at most the limit and
the others in flight. Recording moves one from the second set to the first, so the sum stays; it only
grows at a check that found room. `DrawsAvoidTheRecent` needs no invariant but types: a row among the
last n has fewer than n after it, so the recent images are fewer than the choices, and by the pigeonhole
principle one choice rests.

**DesktopPicker.** `TypeCorrect` is inductive as it stands, with the shortcuts of the Picker and of other
programs apart because each registration looks at both. `GrantsFollowTheConfig`: grants only grow within
a process, and each command that replaces the URL notes the old origin in `past` or starts over.
`ShortcutsAreAccountedFor` counts: a step adds at most one shortcut the settings do not name and notes
it. The count alone is not inductive: between the calls of a save the shortcut in the settings is about
to be replaced, so by then it must be gone or counted too. `SaveCounted` says so, and `ShortcutInv` is
the two together while the process runs. `OffersAreBacked` and `PastesHitTheirTarget` follow each update
and each thread from step to step; the first depends on the update being stored before the menu offers
it.

**BucketCache.** `Inv` says what the tables, the handlers and the entries are: foreign keys (`Tables`),
what each await needs (`Handled`), answers of the right kind (`Cached`), and that nobody asks by id for a
bucket that was never there (`Fresh`). `EveryStaleEntryExplained` is `Inv` together with the property. Its
proof separates two questions. Which answers may a statement on bucket b change? Those of `Reach(b)`, if
it leaves the other buckets alone (`OnlyWhatReaches`): the keys of its row before and after, its
whitelist's and image lists, the subscribers' lists, and the names of whoever subscribes. And which of
them will the handler drop afterwards? `WriteExplained` asks of each statement that what it changed is
pending or in its gap, the set the action adds to `excused`; that other handlers' pending sets shrink
only within the gap is part of it, since `RowKeys` reads the row. So for each of the ten statements what
is left is to compare two sets of keys, and the gaps in the model are what no invalidation covers. Reads
only make an entry stale in `Fill`, and dropping entries never does.
`SubscribersWereLetIn` rests on `Gates`: an entry, or an answer a handler is about to store, that would
let somebody in was true once for that user or, for a bucket shared without a whitelist, for everybody;
`admitted` never shrinks, so the age of the answer does not matter. A handler that subscribes and has
passed both checks holds an admitted pair.

**Only model-checked.** Liveness (`MigrationTerminates`, `PendingIsSettled`, `Converges`,
`EveryRowCloses`): properties under fairness, and `ENABLED`, are out of the prover's reach. So is
induction over data, and nothing here needs it: no module uses recursion.

## 7. What is not modelled

- *Fetching and conversion* (`services/images.rs`, `services/video_converter.rs`): downloads, HLS
  playlists and ffmpeg keep no state between requests; the pipeline keeps their outcomes.
- *Discord parsing, signatures and command registration, routing, rate limiting, configuration, static
  files*: input, output and wiring. Signature and token checks appear as checks that pass or fail.
- *GIF search*: one map behind a mutex; a late answer may replace a newer one, and either is fine.
- *The dashboard* (`apps/web`) and the desktop's pages: clients whose requests the models accept in any
  order at any time.
- *Updates of images as writers of `list_for_bucket`*, which drop what inserts and deletes drop.
- *Roles and permissions* (`api/admin.rs`, `repositories/admin.rs`, `auth/permissions.rs`): single
  statements over one row behind an extractor that reads the caller's role on every request. The one
  check that precedes a write, that the target of `update_role` is no root administrator, changes nothing
  when it is overtaken: a root administrator's effective role is admin whatever is stored.
- *Profile columns and usernames*: written by single statements and read by nothing modelled.
- *Titles, favourites, the order of tags, search filters, weights above zero*: data of the library that
  its properties do not tell apart.
- *Window positions, the start at login, the tray's other entries* of the Picker.
- *Two objects for the same bytes under different extensions*: contents here include the extension.
