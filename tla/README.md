# Verification of the CMS blog

TLA+ models of the parts of this Laravel application in which concurrency,
crashes and stale data decide whether it is correct: the write path of a post,
the versioned cache, the token wallet with its payments, the orders of AI
analysis, reactions and comments with the browser tab that follows them, and the
pages of the front end that keep state of their own: the edit page with its editor,
the profile page with its avatar, slug and background of the post form. TLC checks
the models on small instances, TLAPS proves the safety properties for instances of
any size.

Paths below are relative to the root of the repository.

## The system

Controllers, Filament pages and console commands call services, services call
repositories; PostgreSQL (READ COMMITTED) holds the data, Redis holds caches and
counters. PHP serves every request in a worker of its own, Horizon runs queued
jobs in others, and the scheduler starts `posts:publish-scheduled` each minute.
Workers share nothing but PostgreSQL and Redis. Almost nothing takes a lock: an
Eloquent model is loaded, decided on and saved later, and a save writes the
columns that differ from the model *as it was loaded*. Every hard behaviour of
the server comes from that. In a browser tab every handler runs to its end, but
editors load, pictures are encoded, timers fire and answers arrive between any two
of them, and that is where the pages get hard.

| Component | State | Operations | Talks to | Hard behaviour | Must hold |
|---|---|---|---|---|---|
| Post pipeline and moderation (`PostMutationPipeline`, `PostRepository`) | `posts`, moderation log | create, edit (web, panel), approve, reject, delete, restore | versions, taxonomy, cache versions, events | stale saves, requests cut off half way | only vetted text is public; journal, date and `is_published` agree with the status |
| Post versions (`PostVersionService`) | `post_versions` | snapshot, prune, restore | pipeline | two edits at once | what an edit replaces can be restored |
| Scheduled publishing | `scheduled_publish_at` | publish what is due, clear the schedule | pipeline | runs that overlap, posts edited before their date | published once, eventually |
| Versioned cache (`CacheVersionManager`, `EloquentCache`) | version per domain, entries in Redis | read through, bump, expire | everything public | late fills, lost bumps, flushes | a read never misses a change bumped before it began |
| Token wallet (`UserTokenWalletRepository`) | balance, transactions, cached balance | read, grant, credit, debit | payments, AI orders | row lock against cache, grants without a transaction | every token is explained |
| Payments (`TokenWalletService`, `PaymentWebhookService`) | `payment_intents`, packages | purchase, webhook, package deletion | gateway, wallet | early, repeated and simultaneous webhooks | credited iff charged, once |
| AI orders (`AiAnalysisOrderService`) | `ai_analysis_orders`, cached result | request, approve, reject, execute | wallet, result cache | overlapping decisions and executions | completed iff paid, once |
| AI settings, gateway, `ai-service` | settings cache, HTTP service | save, analyse | AI orders | settings also cached in the process | a save reaches every worker |
| Comments (`CommentService`, `post-comments.js`), comment reactions | `comments`, section cache, block of a tab | create, hide, delete, load further pages and replies, react | engagement version | section rebuilt while it changes, pages by offset, answers that replace the block | a tab shows the first roots of one list, each once; a comment is written once |
| Post reactions, post views | tables, Redis hashes | toggle, count, flush | engagement version | Redis and database updated one after the other | counts are neither lost nor doubled |
| Engagement version, single-page client | counter in Redis, state of a browser tab | bump, stream, replace | comments, reactions | HTML older than the version it comes with | a tab ends up showing the latest |
| Search | index rows, search cache | index, query | post events | jobs out of order | the index follows the post |
| SEO, feeds, HTTP caching | SEO columns, listing timestamp, ETags | save, serve 304 | pipeline, cache | timestamp not refreshed by every change | 304 only for what has not changed |
| Preview, templates, site and mail settings | Redis payloads, settings rows | save, activate, clean up | panel | clean-up against use | |
| Users, roles, policies | `users`, roles | register, block, assign | sessions | blocked with a session open | |
| Site operational state, health | heartbeats, maintenance flag | assess, heartbeat | queue, scheduler | a heartbeat that is only late | |
| Post form and editor (`post-form.js`, `tinymce-editor.js`, `lib/*.ts`) | fields, editor, baseline, timers | load, edit, switch the mode, preview, save | pipeline | the editor loads and the form polls for it | Save tells what is unsaved; no text is lost |
| Profile page and avatar (`profile-*.js`, `UserService`) | dialog, cropper, form, avatar row and files | pick, crop, upload, remove, save | users, media | callbacks after the dialog is gone, overlapping uploads | one upload per picture; the disk holds the avatar and nothing else |
| Media, sanitizer, panel, tools | files | process, render | | pure input and output | |

`PROJECT.json` lists every component with its source files and whether it is
modelled, and every hazard with the line where it bites and the properties that
would show it.

## Modules

| Module | What it is |
|---|---|
| `PostPipeline` | one post and everyone who changes it |
| `VersionedCache` | one cache domain, its readers and its writers |
| `FreshReads` | what such a cache promises; `VersionedCache` implements it |
| `Wallet` | the wallet of one user; extended by the next two |
| `Payments` | purchases, webhooks and the wallet they credit |
| `AiOrders` | orders of analysis and the wallet they debit |
| `Engagement` | reactions in the table and in Redis, and the tab that shows them |
| `Comments` | comments in the table and in Redis, and the tab that scrolls through them |
| `PostEditor` | the edit page of a post: form, editor, baseline, Save |
| `ProfilePage` | the profile page, and the avatar requests on the server |
| `PostFields` | slug and background picture of the post form |
| `Pages` | composes the last two: a tab shows one page or the other |
| `PostPipelineProofs`, `VersionedCacheProofs`, `PaymentsProofs`, `AiOrdersProofs`, `EngagementProofs`, `CommentsProofs`, `PostEditorProofs`, `PagesProofs` | the theorems |
| `MC*` | instances for TLC |

### PostPipeline

`row` is the post (`NoPost` before it is created), restricted to the columns the
properties compare: status, `is_published`, text, whether `published_at` is set,
whether `scheduled_publish_at` has passed, and the soft delete. A worker's `req`
says which operation it runs, at which statement it is, and the model it loaded.
`Follow` gives the order of the statements of each operation as the pipeline has
them (snapshot, save, taxonomy, journal and events, bump; approvals and web edits
write the journal after the bump). `Saved` is Eloquent's save: a column is
written when it differs from the loaded value, so what another request wrote in
between survives in the other columns. The web edit is authorised on one fetch
of the post and applied to another (`AuthorizeWeb`, `LoadWeb`), both through the
cache; Filament requests work on the row as it is. A request may be killed
between any two statements (`Crash`), and a trashed post makes the taxonomy step
throw (`Taxonomy`).

Variables marked "observer" in the module exist for the properties and influence
nothing: the texts somebody entitled to it decided to publish (by approving them, or
by editing or restoring as staff), whether `PostPublished` was dispatched, whether a
bump was lost, and the number of the snapshot each edit `stored`. The scheduler
approves as the owner, but nobody has read what it publishes, so that does not count
as a decision.

### VersionedCache and FreshReads

Data is the number of the last commit. A reader takes four steps (version,
lookup, query, put) with anything in between. A writer commits and bumps. `Flush`
is `optimize:clear` with a restart of PHP, which brings the version back to `'1'`.
`EditPost` saves the SEO columns after the bump (`SaveSeo`).

`FreshReads` has only the database, what readers have been told about and what
each read returned. The refinement maps a reader's `floor` and value to a read.

### Wallet, Payments, AiOrders

A database transaction is one worker holding the wallet's row lock (`holder`)
with an amount nobody else sees (`draft`); COMMIT applies it together with its
`token_transactions` row. The cached balance is forgotten *before* the commit, as
the code does it, and a page may fill it again in between. A grant in the panel
is three statements with no transaction around them.

`Payments` adds the gateway: it may charge without an answer reaching us, and may
deliver the webhook early, repeatedly and to several workers at once. `Mock`
names the charges made with the mock gateway, which completes the intent inside
the purchase. Deleting a package cascades to its intents. A request's `seen` is an
observer: the credits of its charge that were committed when it read the intent.
`Credit` takes the lookup of the package together with the wait for the wallet's row.

`AiOrders` adds orders. `lock` is the row lock on an order, taken by the save of
"executing" inside the transaction. What the execution checks, the order's status
and the cached balance, it has read before the transaction begins, and the model
keeps those reads apart. `Allowed` is `assertStatus`, on the record the panel loaded;
a request remembers what that record said (`was`) until it saves. `missed` is an
observer of what others inserted after a request had looked for it. A page reads the
stored result and caches it (`PanelMisses` to `PanelPuts`); `overlap` and `doubt`
observe whether an execution was between forgetting that cache and its commit.

### Engagement

`votes` is the table, `totals` and `mine` the two Redis entries derived from it,
neither of which has a time to live, `version` the engagement version. A click
runs `ReactionService::toggle` statement by statement (`Lookup` to `Bump`) on what
Redis says of the user's own reaction, then renders the block (`ShowTotals`,
`ShowMine`), which fills what is missing, and reads the version *after* that. A
user outside `Watchers` reacts without the script and is redirected. A watcher's
`tab` shows what was rendered last and its version; `stream` is the version the
server last reported, `news` an event on its way. `Handle` is the client's handler:
nothing to do, its own change (`local`, for `LOCAL_IGNORE_MS`), or a refresh.

`disturbed` is an observer of the moments at which the code can lose track: an
old count or read put into Redis, a version newer than the block, an answer
overtaken by a newer one, a change between the page and the stream, a kill.
`TabShowsLatest` and `TabCatchesUp` promise the rest. One click and one view per
user are under way at a time (the button is disabled meanwhile), only reactions
raise the version, and Redis is up and keeps its keys.

### Comments

`roots` is what the table would list, newest first; `section` is the payload cached
for the first page and the total. Four slots can be busy at once: another user's
write, and the tab's comment, refresh and further page. Each takes the statements of
`CommentService` one by one: write, forget the section, bump; read the cache, the
rows, then the total (`hasMore` comes from a second statement), put. The tab keeps
what `post-comments.js` keeps: the offset of the next page, whether there is more,
and the list shown. An answer to a comment or to the stream replaces the block
(`Replace`), and with it drafts, loaded pages and open threads. `thread` is the first
thread, with the handlers bound to its button, `words` what is typed in the form.
`tab.torn` and `late` are observers: a page or a total read after the list changed; a
section put after a write it does not contain, or whose writer died before
forgetting it. `PageSize` stands for `ROOT_PAGE_SIZE`. How the stream and the
version bring a change to the tab is in `Engagement`; here `news` says that they will.

### PostEditor

Texts are "kept" (what the server stores), "edited" or "empty"; `clean` says whether
the HTML is as TinyMCE would write it, since loading a text into the editor rewrites
it. `area` is the textarea, `editor` what `tinymce.get('body')` returns and how far
it is: absent, starting, loading (registered but not initialised: its content is
empty and `save()` does nothing), ready. `baseline` is `baselineState`, `retries` the
timers by which the form looks for the editor, `frame` the animation frame after
which the baseline is taken, `submitting` the flag that silences the buttons.
`meant` is an observer: the text the user last wrote or was shown; `rebased` says
that a baseline was taken over a change, `unheard` that the last edit was one the
form is not told of. A missing TinyMCE is considered for a load in simple mode only.

### ProfilePage, PostFields and Pages

`ProfilePage` has the dialog with its transitions, the cropper, the encoding of a
picture in the background (`Blob`), the form with its button, and `requests`: every
avatar request runs `UserService` from authorisation to the row (`Begin`, `Drop`,
`Store`, `Update`) beside the others and may die in between. Its observer `mishap`
names what the code does not handle, and the properties say that all is well short
of it. `PostFields` has the slug, as a sequence of allowed and forbidden characters
with the handlers of every kind of input, the tip with its two timers, and the
background picture with a `FileReader` per file chosen. The three share no state;
`Pages` chooses one page at the start.

## Runs

| Run | Question | Bounds | States |
|---|---|---|---|
| `PostSerial` | is moderation complete when requests follow one another? | one worker, 4 requests from an empty table, 2 texts | 49,262 |
| `PostOverlap` | what do overlapping requests and the scheduler break, and only through what? | 2 workers, 2 requests and the scheduler, 2 texts, due post, up to 2 earlier snapshots | 1,126,200 |
| `PostCrash` | does what a killed request leaves behind mend? | 1 request, 2 overlapping scheduler runs, 1 crash | 108,468 |
| `VersionedCache` | does the cache implement its promise? | 2 readers, 2 writers, 3 writes, 1 death, 1 flush | 1,194,824 |
| `Payments` | do intents, credits and ledger agree; are charges credited? | 2 workers, a real and a mock charge, 1 grant, 1 crash | 82,000 |
| `PaymentDouble` | can a succeeded intent be credited again? (yes) | 2 workers, 1 charge | |
| `AiOverlap` | what do overlapping operations on orders break, and only through what? | 2 workers, 2 orders, 1 crash, a page | 622,940 |
| `Engagement` | what puts Redis or an open tab out of step with the table? | 2 users, 1 tab, 1 reaction type, 2 clicks, 1 fault | 173,046 |
| `Comments` | what does a tab that scrolls, posts and is refreshed show? | pages of 1 root, 1 root at the start, 2 writes, 1 fault | 381,681 |
| `PostEditor` | does the edit page keep the text, and tell what is unsaved? | 2 attempts to find the editor | 573,402 |
| `PostEditorHint` | does every changed field enable Save? (no) | 2 attempts to find the editor | |
| `Pages` | do avatar, dialog, slug, tip and preview keep their promises? | 2 pictures, 3 requests; slugs of 3 characters, 3 backgrounds | 358,001 |

Why these bounds show what they should. Two requests are enough for any pair of
operations to overlap at every statement, and the scheduler is a third party on
top. Nothing keeps two runs of the scheduler's command from overlapping
(`Crons`), and `PostCrash` has two of them; two texts are enough because texts are only compared. `MAX_VERSIONS` is the
code's own 2; `Earlier` lets the history of `PostOverlap` hold up to two snapshots
already, so that the first edit prunes. Two requests are too few for newer snapshots to
push an edit's own out before it saves; the theorem has that case, the run does not. Three writes let a change be made before,
during and after a read. Two orders let a second one be pending, approved or
executed at each step of the first; two workers deliver one webhook twice at
once. With one reaction type a click adds or removes; replacing one type by another
takes the statements of an addition. A crash more repeats what one does: nothing remembers it but the counters.
With pages of one root and two writes, the list changes before, between and after
two pages; with larger pages fewer offsets differ. The form of the edit page tries
fifty times to find its editor; with two attempts it already finds it before, between
and after them, or gives up. Three avatar requests let one be sent before, during and
after another (the instance was also run once with three pictures, 8.5 million
states), three backgrounds let two be read at once after a third.
Workers, readers, texts and orders are symmetric where only safety is checked.
Deadlock is not checked in any run: the bounds let a behaviour end, and the
system may rest.

`PostSerial` has one worker and an idle scheduler: `JournalAgrees` is what the pipeline
guarantees to those who work one after the other, and nothing more. Everywhere else
requests overlap, and a property that overlap breaks says through what, and that
nothing else breaks it: `UnvettedOnlyByStaleSaveOrSchedule` (a save of a model that is
not the row, or the scheduler), `DriftOnlyByStaleSave`, `RestorePointLostOnlyByOverlap`
(the row moved on between an edit's load and its save, or newer snapshots pushed its
own out), `DoubleCreditOnlyByOverlap` (the webhook read the intent before any credit of
its charge was committed), `FinalOnlyByStaleRecord` (the record was loaded before the
order was final), `SecondPendingOnlyByOverlap` and `CooldownMissedOnlyByOverlap` (what
the request had looked for was inserted after it looked), `OverdraftOnlyByStaleBalance`,
`StaleInsightOnlyByOverlap`, `TotalsDriftOnlyByLateCount` and `OwnDriftsOnlyByLateRead`.
The properties of the pages are of the same kind: each names the one thing that breaks
the promise. Such a property does not catch the case it names, which the code does not
handle; it catches a check, a reset or an invalidation that goes missing elsewhere.

### Fairness

Liveness is checked under `FairSpec`, which assumes no more than the way the
program is run: a request under way takes its next step (weak fairness on `Proceed`,
on `Toggle` and `Serve`); the scheduler looks for due posts every minute (`LoadDue`,
`ClearSchedule`); Redis drops an entry at its time to live (`Expire` of the section);
an open tab loads, connects its stream and handles its
events, and the stream looks every two seconds (`Load`, `Connect`, `Poll`, `Handle`);
an answer that arrives is shown (`Replace`, `AppendRoots`); an editor that was found
loads, timers fire and frames are drawn (`Register`, `Ready`, `Tick`, `Frame`). No
request is obliged to arrive, and no user to act. A gateway repeats a webhook until
it is answered with success and every now and then finds a worker free: strong
fairness on `Deliver`, external to this repository and needed for
`PendingIsCredited` only. Nobody is obliged to grant, approve or execute anything.
Two properties state what they assume of the user in themselves: `EndIsReached` is
about a reader who goes on scrolling (`WF_vars(Report)`), `PageSettles` about one
who does not switch modes or submit for ever.

## What disagrees with the code's own words

Two runs expect a violation and quote the line they refute ("findings" in
`PROJECT.json`). `PaymentDouble`: a succeeded intent is credited again by an
overlapping webhook. `PostEditorHint`: `lang/en/posts.php:73` says that changing a field
enables Save, but visibility, which the form shows and submits
(`resources/views/components/post/form.blade.php:23`), is not among the fields compared
(`resources/js/lib/form-dirty-state.ts:5`), so an author cannot change it alone.

Others were met while modelling and are part of the models, without a run of
their own. On the server:

- Restoring a version may publish the post without `PostPublished`
  (`app/Services/PostVersionService.php:73`), against
  `docs/adr/0003-domain-events.md:18`; `SilentOnlyByRestore` shows that, stale saves
  apart, nothing else does.
- Deleting a package takes the pending intents of charges already accepted along,
  whereas `lang/ru/tokens.php:25` promises that they will be credited;
  `PendingIsCredited` excludes it.
- Two executions of one order at once both charge, against
  `app/Services/Contracts/AiAnalysisOrderServiceContract.php:39`
  (`FinalOnlyByStaleRecord`, and `SerialChargesOnce` for what remains).
- The scheduler approves whatever a due post carries
  (`app/Services/ScheduledPublishService.php:44`), an author's edit that waits for
  moderation included: besides a stale save the only way text becomes public that
  nobody decided on (`UnvettedOnlyByStaleSaveOrSchedule`).
- `is_published` and `status` drift apart when saves overlap, whereas
  `docs/DATABASE_SCHEMA.md:45` calls the column synchronised
  (`DriftOnlyByStaleSave` bounds it).
- `PostSubmitted` is not dispatched when an author's edit resubmits a rejected or
  draft post (`app/Services/Post/PostMutationPipeline.php:291`), against
  `docs/adr/0003-domain-events.md:16`; the journal says "updated", which is why
  `JournalAgrees` claims nothing for that entry.
- Saving a trashed post in the panel writes the row and then fails in
  `app/Repositories/TagRepository.php:85`: neither journal nor bump follow
  (`Taxonomy`).
- Restoring a version overwrites the text without a snapshot of it
  (`app/Services/PostVersionService.php:72`), so `RestorePointLostOnlyByOverlap`
  speaks of edits only.
- The SEO columns of the edit page are saved after the bump
  (`app/Filament/Resources/Posts/Pages/EditPost.php:99`), against
  `docs/adr/0002-post-mutation-pipeline.md:18`; `ServesTheDatabase` excludes that window
  with `lost`.
- Every edit from the web or the API takes the post out of its category and
  drops its tags: `buildWebUpdateData`
  (`app/Services/Post/PostMutationPipeline.php:275`) passes neither on, although
  `fromValidatedUpdate` had kept the category (`app/DTO/PostData.php:116`). It
  happens without any overlap; category and tags are not columns of the model.
- `approve` and `reject` decide on the record the panel loaded
  (`app/Services/AiAnalysisOrderService.php:71`); two requests at once create two
  pending orders (line 50; `SecondPendingOnlyByOverlap`), against the docblock at line 42; an execution can take the balance below zero (line
  101), in a column the migration declares unsigned, which PostgreSQL does not
  enforce.
- Redis may keep wrong totals, or a user's reaction that is not in the table, for
  good: neither entry expires, and only the next toggle corrects it
  (`app/Repositories/ReactionRepository.php:271`, line 138).

In comments:

- The sentinel of the replies is never displayed
  (`resources/views/components/post/comment-thread.blade.php`), so replies beyond
  the first page do not load although the button counts them.
- Comments added by scrolling or by opening a thread are not bound by
  `bindEngagementForms`: their reaction buttons do nothing and their forms leave the
  page (`resources/js/post-engagement-spa.js:203`).
- A refresh for somebody else's change discards a typed draft (`Replace`).

On the edit page:

- Tab in the raw editor tells the form nothing
  (`resources/js/tinymce-editor.js:367`; `unheard`).
- Switching the mode takes a new baseline over whatever is unsaved
  (`resources/js/post-form.js:262`; `rebased`), and a page that comes back with refused
  input takes that for its baseline.
- Previewing sets `submitting` for ever (`resources/js/post-form.js:238`), since the
  answer goes to another tab: from then on the form refuses to be submitted.
- Leaving an editor that is still loading loses the text
  (`TextLostOnlyByEarlySwitch`).

On the profile page and in the fields:

- Pressing Save before the cropper is ready throws and leaves Save disabled ("early");
  a picture chosen while the dialog is open gets no cropper ("late"); the failed
  encoding of a dismissed picture gives Save back to the next one ("stale"), and an
  encoding under way uploads although its dialog was dismissed.
- The upload of an avatar reloads the page and discards what is typed in the form,
  which takes refused input for its baseline.
- The avatar's file is deleted before the row changes (`app/Services/UserService.php:123`);
  overlapping uploads leave files without a row ("overlap").
- The tip of the slug hides early when called up during its fade (`recalled`), a long
  paste into a full slug cuts off its end, and clearing the background leaves the old
  preview.

## Proofs

TLAPS checks every proof from nothing. Assumed are only the named `ASSUME`s on
constants: bounds are naturals, sentinels differ from values, the scheduler is
not one of the workers. The theorems hold for any number of workers, readers,
writers, texts, charges, orders, requests and crashes, for any size of page and
number of comments, for any number of attempts to find the editor, and for any number
of pictures and avatar requests and any length of slug. Those named `Serial...` say in
an ASSUME that there is one worker, and `SerialJournal` that nothing is scheduled.

**PostPipelineProofs.** `IInv` adds to the properties what a request under way
knows. The crux of `PublishedIsDated` is `HoldsRow`: a date in any loaded model, or
in the cached entry, is in the row too, because no operation takes `published_at`
back. Hence a save that writes "published" through a stale model that already had
a date leaves a dated row. `CacheIsCurrent` goes by cases on whether a step
changes the row, fills the entry or pays off a bump. From the same invariant:
types, `DeletionStands`, `ScheduleFiresOnce`, `DriftOnlyByStaleSave`,
`UnvettedOnlyByStaleSaveOrSchedule` and `SilentOnlyByRestore`. The last two need little
more than the step: a save through a model equal to the row leaves status and text,
publishes what its own actor decided on, or is the scheduler's, and the pipeline, which decides
on the event by the model it loaded, then announces it.

`SerialJournal` assumes a single worker and no schedule, and lets that worker be
killed anywhere. Its invariant `JournalInv` says of the request under way that the
model it holds has the row's status until it saves, and that from the save to the
journal's entry the entry it *will* write (`Writes`) agrees with the row; when nothing is
unsaid the journal itself does (`Agrees`). `CronsIdle` keeps the scheduler out.

`RestorePointNeedsOverlap` holds for any number of workers and kills. Its invariant
`Snapshotted` says that from its snapshot to its save an edit finds the model it loaded
in the history under the number it stored, or finds newer snapshots only; numbers grow,
and pruning takes the oldest (`PruningTakesTheOldest`), so no other request can make it
false. Where the row still is that model, what the edit replaces is therefore kept. A
model may lag behind the row without two requests meeting: a request killed between
its save and its bump leaves the cached post as it was, and the next edit loads that.

**VersionedCacheProofs.** One fact makes late fills harmless (`EntriesOK`):
whatever is stored under a version was read after that version was made. It is
inductive with `ReadersOK`, which says the same of a value on its way.
`Refinement` then shows that initial states map to initial states and each step
to a `FreshReads` step or a stutter; `ServesCurrentData` that the version in force
serves the database when no bump is owed.

**PaymentsProofs, AiOrdersProofs.** `LedgerHolds`: the balance is
what its transaction rows explain, for both users of the wallet, by the same lemmas on
the wallet's steps alone (`MoveKeeps` to `WalletNextKeeps`), which each states for itself. For payments the invariant needs `PurchaseIsFirst`: until a
purchase has stored its intent, webhooks about its charge get no further than the
lookup. For orders it needs `RequestsOK` (an execution in its transaction holds
the order's row and saw a sufficient balance, and no request acts on a record that was
final when loaded) and `DebitsAreHeld`. `DoubleCreditNeedsOverlap` rests on
`SawNoCredit`: an intent is read pending only while nothing has been credited for its
charge, so the checks for an intent that succeeded let only older reads through.
`SecondPendingNeedsOverlap` and `CooldownMissNeedsOverlap` rest on `LooksAreRecorded`:
until it inserts, what a request found when it looked for a pending order or a
cooldown still is so, or the request is recorded to have missed it.
`StaleInsightNeedsOverlap` rests on `ReadsAreRecorded`: what was read without an overlap
is the stored result, and no execution commits without having taken it away first.
`SerialCreditsOnce` and `SerialChargesOnce` assume a single worker and show that
repetition and crashes alone double nothing.

**EngagementProofs.** The invariant is `ClickOK`: from its write until it bumps, a
click knows what the table holds of its user, because nobody else writes that row.
`ClickMoves` and `Writers` say which steps move such a click and which write the
table and Redis; the two drift properties follow by cases on what a step wrote.
`LatestIsShown` needs a second invariant, `LatestInv`. A change of the table raises the
version after it has refreshed Redis, and a page reads the version after its data; so
whatever somebody holds that is not what the table says, Redis, a rendering, a tab or an
answer on its way, comes with a version that is not the last, or a click is still to
raise it (`Behind`), and a stream will tell. `Turns` and `TabTurns` list how a step can move
a rendering and a tab; the parts are then kept one by one (`RedisStep`, `BlockStep`,
`TabStep`, `StreamStep`), and once something was late or lost nothing more is claimed
(`DisturbedStays`).

**CommentsProofs.** First how many roots, writes and bumps there can be (`Counted`),
which bounds every list. `SectionHolds` needs of each request what it has read of
which list; `PrefixIsShown` that a page on its way was asked for at the tab's offset
and comes from the list the tab shows, or tears it, by lemmas on what appending a
page to a prefix gives. `RepliesAreListedOnce` counts handlers and fetches of the
thread, `WordsAreWrittenOnce` the form's words: while a post is under way the button
is disabled, so a second write needs a lost answer.

**PostEditorProofs.** `SubmissionsAreShown` and `TextIsKept` follow from where the body is kept in each
mode and step of the editor. `SaveIsTold`, with visibility as its named exception, takes `SaveInv`: there is one chain of
timers (`OneChain`), which ends when the editor is found and watched, and while the
page's editor loads there is neither frame nor baseline (`Polled`); what the baseline holds is what the server
stores, or the page knows that it is not (`BaselineStored`, `BaselineClean`); and the
button is the comparison with that baseline (`ButtonCompares`).

**PagesProofs.** The two pages share nothing, so each has its invariant, which the
other's steps leave alone. In `ProfileInv`, `AvatarOK` follows the one request that may
have work to do: how far it has got says what the disk holds, and a request is only sent
without overlap when the one before has ended (`OneByOne`), so that what a request
remembers as the file before is the file there is. `UploadsOK` follows each picture from
"may be saved" over "being encoded" to "sent", states that exclude each other, and
`PicturesOK` ties the cropper to the picture shown. In `FieldsInv` lemmas on what cutting,
inserting and filtering do to a sequence (`InsertKeeps`, `TypedKeeps`, `FilterKeeps`) give
`SlugIsUrlSafe` for every length; the tip and the preview need that both timers, or a
reader and another picture, are only there together when the observers say so.

Proved without a run of their own, since they say less than the rest: type
correctness of every module, `PublishedHasDate`, `ScheduleFiresOnce`,
`CreditedOnce`, `SendsWhatIsShown`.

Only model-checked: everything under fairness (`DueIsPublished`, `PendingIsCredited`,
`TabCatchesUp`, `EndIsReached`, `PageSettles`), which the prover
cannot do.

## What is left out

- Several posts. Operations on different posts share only the version of the
  cache, and a bump for another post can only empty this one's entry.
- `posts:publish-scheduled` picks up posts in a loop; the model has one post, so
  the loop has one turn, and its wait for the posts before it is the gap between
  `LoadDue` and `Commit`. An owner is assumed to exist: without one the command
  skips every post.
- The statements inside one snapshot, taken as one step here; two edits taking
  the same version number are listed as a hazard without a property.
- In `Comments`, a second comment sent while the first is still on its way: a refresh
  that replaces the block brings an empty form with an enabled button, and the code
  would let it be submitted; the model's `Submit` waits for the first answer. On the
  slug field, a drop that carries no data.
- Signatures of webhooks (those delivered carry a good one), prices, wording and
  layout.
- Comments with equal times of creation, whose order the query leaves open; the
  cache of a page of replies; who may comment.
- The author select, colours and opacity in the theme preview, and the highlighting of
  code on the edit page; the contents of pictures.
- An `IntersectionObserver` reports an element once when it comes into view: a page
  so short that its sentinel stays in view is not asked for again until it is
  scrolled. `Report` stands for the reports that do come.
- Components with status `not_modelled` in `PROJECT.json`, each with its reason.

## Plan

Written so far: the post pipeline with scheduling, the versioned cache and its
promise, wallet, payments, AI orders, reactions and comments with the tab that
follows them, the edit page, the profile page and the fields of the post form, with
the proofs listed above. In this order next:

1. `PostVersions`: snapshot, numbering and pruning interleaved, composed with the
   edit; abstractly a bounded history. Theorem: at most `MAX_VERSIONS` plus the
   edits under way remain, and the newest never goes.
2. `Views`: view counts between Redis and their flush, neither lost nor doubled
   except by a named failure; reactions to comments.
3. `SearchIndex`: index jobs out of order against post events; the search cache
   domain and the listing timestamp behind conditional requests.
4. `Settings`: settings cached in Redis and in the process (AI, site, mail),
   site templates and their activation.
5. `Accounts` and `Policies`: blocked accounts against open sessions; visibility
   and policies as operators compared with a reference table over all inputs.
6. `Operational`: heartbeats, automatic maintenance and recovery.
