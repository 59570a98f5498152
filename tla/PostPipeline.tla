---------------------------- MODULE PostPipeline ----------------------------
(***************************************************************************)
(* One row of the posts table and the requests that change it.             *)
(*                                                                         *)
(* PostMutationPipeline is the write path of a post: web, API and Filament *)
(* requests, version restores and the scheduled publisher load a model,    *)
(* decide on what they loaded and save it later.  Nothing locks the row    *)
(* and no transaction spans a request, so every database statement, cache  *)
(* bump and event dispatch is a step of its own and a request may die      *)
(* between any two of them.  An Eloquent save writes only the columns that *)
(* differ from the model as it was LOADED.                                 *)
(***************************************************************************)
EXTENDS Naturals, FiniteSets, FiniteSetsExt

CONSTANTS
    Workers,        \* PHP workers that serve web, API and Filament requests
    Crons,          \* runs of posts:publish-scheduled: nothing keeps two from overlapping
    Bodies,         \* texts a post may carry
    NoPost,         \* the row does not exist / the request holds no model
    NoEntry,        \* nothing is cached under the current posts version
    Starts,         \* status of the row a behaviour starts from; "absent" for none
    Schedules,      \* whether that row's scheduled_publish_at has passed
    Earlier,        \* snapshots that earlier edits of that row left
    MaxRequests,    \* bound: requests the workers serve in a behaviour
    MaxCrashes      \* bound: requests killed in a behaviour

Statuses == {"draft", "pending", "published", "rejected"}
MAX_VERSIONS == 2

ASSUME WorkersAssumption == Crons \cap Workers = {}
ASSUME BoundsAssumption == MaxRequests \in Nat /\ MaxCrashes \in Nat
ASSUME StartsAssumption == Starts \subseteq Statuses \cup {"absent"} /\ Schedules \subseteq BOOLEAN
ASSUME EarlierAssumption == Earlier \in 0..MAX_VERSIONS /\ ("absent" \in Starts => Earlier = 0)

\* The columns of posts the properties tell apart.  "dated": published_at is
\* set; "due": scheduled_publish_at is set and has passed.
PostRow == [status: Statuses, isPublished: BOOLEAN, body: Bodies,
            dated: BOOLEAN, due: BOOLEAN, deleted: BOOLEAN]

ASSUME SentinelAssumption == NoPost \notin PostRow /\ NoEntry \notin PostRow

\* What a signed-in user may do: posts.moderate and posts.manage.all.
Roles == {"author", "moderator", "manager"}
CanModerate(role) == role \in {"moderator", "manager"}
CanManageAll(role) == role = "manager"

Operations == {"none", "createForAuthor", "createFromAdmin", "updateFromWeb",
               "updateFromAdmin", "approve", "reject", "publishDue",
               "restoreVersion", "destroy", "restore"}
Steps == {"done", "load", "snapshot", "commit", "taxonomy", "record", "bump", "clear"}
Journal == {"none", "submitted", "updated", "approved", "rejected", "restored"}

VARIABLES
    row,        \* the posts row, or NoPost
    versions,   \* the post's post_versions rows
    entry,      \* model cached under the current posts version, or NoEntry
    req,        \* what each worker is doing
    journal,    \* newest post_moderation_logs action
    announced,  \* observer: PostPublished was dispatched since the row last turned published
    vetted,     \* observer: texts someone entitled to publish decided to make public
    stored,     \* observer: number of the snapshot the request of each worker stored
    lostBump,   \* observer: a request died owing a cache bump and no bump came since
    broken,     \* observer: some request was abandoned after it changed the row
    requests, crashes

vars == <<row, versions, entry, req, journal, announced, vetted, stored,
          lostBump, broken, requests, crashes>>
observers == <<journal, announced, vetted, stored>>

Everyone == Workers \cup Crons

\* model: the row as this request loaded it, until it is saved; was: its status;
\* status, body: what the request writes; all: a web request comes from someone with
\* posts.manage.all; publish: who asks for publication.
Request == [op: Operations, step: Steps, all: BOOLEAN, publish: BOOLEAN,
            model: PostRow \cup {NoPost}, was: Statuses,
            status: Statuses, body: Bodies \cup {NoPost}]
Resting == [op |-> "none", step |-> "done", all |-> FALSE, publish |-> FALSE,
            model |-> NoPost, was |-> "draft", status |-> "draft", body |-> NoPost]

Idle(w) == req[w].step = "done"
Quiet == \A w \in Everyone : Idle(w)

-----------------------------------------------------------------------------
(* Eloquent *)

\* One column of a save: written when it differs from the loaded model.
Column(new, loaded, current) == IF new # loaded THEN new ELSE current

\* Mutant: the saving hook forgets the legacy column.
SavingMutant(attrs) == attrs

\* Post::booted syncs is_published to the status on every save.
Saving(attrs) == [attrs EXCEPT !.isPublished = (attrs.status = "published")]

\* Mutant: every column is written, as a full-row save would.
SavedMutant(model, new) == new

\* The row after saving `new` through a model that was loaded as `model`.
Saved(model, new) ==
    [status |-> Column(new.status, model.status, row.status),
     isPublished |-> Column(new.isPublished, model.isPublished, row.isPublished),
     body |-> Column(new.body, model.body, row.body),
     dated |-> Column(new.dated, model.dated, row.dated),
     due |-> Column(new.due, model.due, row.due),
     deleted |-> Column(new.deleted, model.deleted, row.deleted)]

\* PostRepository::update, approve, reject, destroy, restore: the attributes
\* each of them fills in on the loaded model.
Updated(model, status, body) ==
    [model EXCEPT !.status = status, !.body = body,
                  !.dated = model.dated \/ status = "published"]
Approved(model) == [model EXCEPT !.status = "published", !.dated = TRUE]
Rejected(model) == [model EXCEPT !.status = "rejected"]

Filled(q) ==
    IF q.op \in {"approve", "publishDue"} THEN Approved(q.model)
    ELSE IF q.op = "reject" THEN Rejected(q.model)
    ELSE IF q.op \in {"destroy", "restore"} THEN [q.model EXCEPT !.deleted = (q.op = "destroy")]
    ELSE Updated(q.model, q.status, q.body)

\* A soft delete goes round the saving hook.
Attributes(q) == IF q.op = "destroy" THEN Filled(q) ELSE Saving(Filled(q))

\* EloquentCache::rememberModel under the current posts version.
Fetched == IF entry # NoEntry THEN entry ELSE row
Found == entry # NoEntry \/ (row # NoPost /\ ~row.deleted)

-----------------------------------------------------------------------------
(* The order in which each operation does its work *)

Creations == {"createForAuthor", "createFromAdmin"}
WithTaxonomy == Creations \cup {"updateFromWeb", "updateFromAdmin"}
RecordsBeforeBump == {"createForAuthor", "createFromAdmin", "updateFromAdmin", "restoreVersion"}
Unrecorded == {"destroy", "restore"}

Follow(op, step) ==
    CASE step = "load" -> "snapshot"
      [] step = "snapshot" -> "commit"
      [] step = "commit" -> IF op \in WithTaxonomy THEN "taxonomy"
                            ELSE IF op \in RecordsBeforeBump THEN "record" ELSE "bump"
      [] step = "taxonomy" -> IF op \in RecordsBeforeBump THEN "record" ELSE "bump"
      [] step = "record" -> IF op \in RecordsBeforeBump THEN "bump"
                            ELSE IF op = "publishDue" THEN "clear" ELSE "done"
      [] step = "bump" -> IF op \in RecordsBeforeBump \cup Unrecorded THEN "done" ELSE "record"
      [] OTHER -> "done"

At(w, step) == req[w].step = step
Advance(w) ==
    LET next == Follow(req[w].op, req[w].step)
    IN  req' = [req EXCEPT ![w] = IF next = "done" THEN Resting ELSE [@ EXCEPT !.step = next]]

\* The request has changed the row and has yet to bump the posts version.
Owes(q) == q.step \in {"taxonomy", "bump"} \/ (q.step = "record" /\ q.op \in RecordsBeforeBump)
OwesBump(w) == Owes(req[w])

-----------------------------------------------------------------------------
(* Requests begin *)

Begin(w, q) ==
    /\ Idle(w) /\ w \in Workers
    /\ requests < MaxRequests
    /\ requests' = requests + 1
    /\ req' = [req EXCEPT ![w] = q]

\* createForAuthor, createFromAdmin: the row is inserted.
Create(w, op, status, body) ==
    /\ row = NoPost
    /\ op = "createForAuthor" => status = "pending"
    /\ LET new == [status |-> status, isPublished |-> status = "published", body |-> body,
                   dated |-> status = "published", due |-> FALSE, deleted |-> FALSE]
       IN  /\ row' = new
           /\ Begin(w, [Resting EXCEPT !.op = op, !.step = "taxonomy", !.status = status])
    /\ vetted' = IF status = "published" THEN vetted \cup {body} ELSE vetted
    /\ announced' = FALSE
    /\ UNCHANGED <<versions, entry, journal, stored, lostBump, broken, crashes>>

\* PostPolicy::update for the author and for the two staff roles.
MayUpdate(role, model) ==
    \/ CanManageAll(role)
    \/ CanModerate(role) /\ model.status = "pending"
    \/ role = "author"

\* UpdatePostRequest::authorize: the post is fetched through the cache.
AuthorizeWeb(w, role, publish, body) ==
    /\ Found
    /\ MayUpdate(role, Fetched)
    /\ entry' = Fetched
    /\ Begin(w, [Resting EXCEPT !.op = "updateFromWeb", !.step = "load", !.body = body,
                                !.all = CanManageAll(role),
                                !.publish = CanManageAll(role) /\ publish])
    /\ UNCHANGED <<row, versions, observers, lostBump, broken, crashes>>

\* Mutant: an author's edit keeps the status the post had.
WebStatusMutant(all, publish, model) ==
    IF all /\ publish THEN "published" ELSE model.status

\* resolveWebUpdateStatus, decided on the model the controller fetched.
WebStatus(all, publish, model) ==
    IF all THEN IF publish THEN "published" ELSE model.status
    ELSE "pending"

\* PostController::update fetches the post again and hands it to the pipeline.
LoadWeb(w) ==
    /\ At(w, "load")
    /\ IF Found
       THEN /\ entry' = Fetched
            /\ req' = [req EXCEPT ![w].step = "snapshot", ![w].model = Fetched,
                          ![w].was = Fetched.status,
                          ![w].status = WebStatus(req[w].all, req[w].publish, Fetched),
                          ![w].publish = FALSE]
       ELSE /\ req' = [req EXCEPT ![w] = Resting]
            /\ UNCHANGED entry
    /\ UNCHANGED <<row, versions, observers, lostBump, broken, requests, crashes>>

\* A Filament request works on the row as it is when the request arrives.
BeginFilament(w, op, step, status, body) ==
    /\ row # NoPost
    /\ Begin(w, [Resting EXCEPT !.op = op, !.step = step, !.model = row, !.was = row.status,
                                !.status = status, !.body = body])
    /\ UNCHANGED <<row, versions, entry, observers, lostBump, broken, crashes>>

UpdateFromAdmin(w, status, body) ==
    BeginFilament(w, "updateFromAdmin", "snapshot", status, body)

\* PostPolicy::moderate shows approve and reject on pending posts only.
Moderate(w, op) ==
    /\ row # NoPost /\ row.status = "pending"
    /\ BeginFilament(w, op, "commit", row.status, row.body)

\* VersionsRelationManager, PostVersionService::restore.
RestoreVersion(w, v) ==
    /\ row # NoPost /\ ~row.deleted
    /\ BeginFilament(w, "restoreVersion", "commit", v.status, v.body)

RestoreDeleted(w) ==
    /\ row # NoPost /\ row.deleted
    /\ BeginFilament(w, "restore", "commit", row.status, row.body)

\* PostController::destroy deletes the model it fetched through the cache.
Destroy(w) ==
    /\ Found
    /\ entry' = Fetched
    /\ Begin(w, [Resting EXCEPT !.op = "destroy", !.step = "commit", !.model = Fetched,
                                !.was = Fetched.status, !.status = Fetched.status,
                                !.body = Fetched.body])
    /\ UNCHANGED <<row, versions, observers, lostBump, broken, crashes>>

\* EditPost's delete button.
DestroyFromAdmin(w) ==
    /\ row # NoPost /\ ~row.deleted
    /\ BeginFilament(w, "destroy", "commit", row.status, row.body)

\* Mutant: only posts that await moderation are picked up.
LoadDueMutant(c) ==
    /\ Idle(c)
    /\ row # NoPost /\ row.due /\ ~row.deleted /\ row.status = "pending"
    /\ req' = [req EXCEPT ![c] =
                 [Resting EXCEPT !.op = "publishDue", !.step = "commit", !.model = row,
                                 !.was = row.status, !.status = row.status, !.body = row.body]]
    /\ UNCHANGED <<row, versions, entry, observers, lostBump, broken, requests, crashes>>

\* ScheduledPublishService::publishDuePosts: any unpublished post that is due.
LoadDue(c) ==
    /\ Idle(c)
    /\ row # NoPost /\ row.due /\ ~row.deleted /\ row.status # "published"
    /\ req' = [req EXCEPT ![c] =
                 [Resting EXCEPT !.op = "publishDue", !.step = "commit", !.model = row,
                                 !.was = row.status, !.status = row.status, !.body = row.body]]
    /\ UNCHANGED <<row, versions, entry, observers, lostBump, broken, requests, crashes>>

-----------------------------------------------------------------------------
(* Steps of a request *)

\* Mutant: pruning keeps the oldest snapshots.
NewestMutant(vs) == {v \in vs : Cardinality({u \in vs : u.num < v.num}) < MAX_VERSIONS}

\* The MAX_VERSIONS highest-numbered snapshots.
Newest(vs) == {v \in vs : Cardinality({u \in vs : u.num > v.num}) < MAX_VERSIONS}

\* PostVersionService::snapshotBeforeUpdate stores the loaded model and prunes.
Snapshot(w) ==
    /\ At(w, "snapshot")
    /\ LET next == 1 + Max({0} \cup {v.num : v \in versions})
           m == req[w].model
       IN  /\ versions' = Newest(versions \cup
                              {[num |-> next, status |-> m.status, body |-> m.body]})
           /\ stored' = [stored EXCEPT ![w] = next]
    /\ Advance(w)
    /\ UNCHANGED <<row, entry, journal, announced, vetted, lostBump, broken, requests, crashes>>

\* The text this request's actor decided to have public, if any.  The scheduler
\* approves in an owner's name (ScheduledPublishService:44), but nobody looks at
\* the text the post carries by then: that is no decision.
Decision(q) ==
    IF q.op = "approve" THEN {q.model.body}
    ELSE IF /\ q.op \in {"updateFromAdmin", "restoreVersion"} \/ (q.op = "updateFromWeb" /\ q.all)
            /\ q.status = "published"
         THEN {q.body} ELSE {}

\* The row is written.
Commit(w) ==
    /\ At(w, "commit")
    /\ LET q == req[w]
           new == Attributes(q)
       IN  /\ row' = Saved(q.model, new)
           /\ vetted' = vetted \cup Decision(q)
           /\ announced' = (announced /\ (row'.status = "published" => row.status = "published"))
           /\ req' = [req EXCEPT ![w].step = Follow(q.op, "commit"),
                                  ![w].model = NoPost, ![w].body = NoPost, ![w].all = FALSE]
           /\ stored' = [stored EXCEPT ![w] = 0]
    /\ UNCHANGED <<versions, entry, journal, lostBump, broken, requests, crashes>>

\* syncTaxonomy looks the post up again and fails when it was deleted meanwhile.
Taxonomy(w) ==
    /\ At(w, "taxonomy")
    /\ IF row.deleted
       THEN /\ req' = [req EXCEPT ![w] = Resting]
            /\ lostBump' = TRUE /\ broken' = TRUE
       ELSE /\ Advance(w)
            /\ UNCHANGED <<lostBump, broken>>
    /\ UNCHANGED <<row, versions, entry, observers, requests, crashes>>

\* Mutant: the search version is bumped in place of the posts version.
BumpMutant(w) ==
    /\ At(w, "bump")
    /\ lostBump' = FALSE
    /\ Advance(w)
    /\ UNCHANGED <<row, versions, entry, observers, broken, requests, crashes>>

\* CacheVersionManager::bumpPosts.
Bump(w) ==
    /\ At(w, "bump")
    /\ entry' = NoEntry
    /\ lostBump' = FALSE
    /\ Advance(w)
    /\ UNCHANGED <<row, versions, observers, broken, requests, crashes>>

\* Mutant: a rejection leaves no trace in the journal.
RecordedMutant(q) ==
    CASE q.op \in {"approve", "publishDue"} -> "approved"
      [] q.op = "restoreVersion" -> "restored"
      [] q.op = "updateFromWeb" ->
            IF q.was = "published" /\ q.status = "pending" THEN "submitted" ELSE "updated"
      [] q.op = "updateFromAdmin" -> "updated"
      [] q.op \in Creations /\ q.status = "pending" -> "submitted"
      [] q.op \in Creations /\ q.status = "published" -> "approved"
      [] OTHER -> journal

\* What the operation writes to the moderation journal last, if anything.
Recorded(q) ==
    CASE q.op \in {"approve", "publishDue"} -> "approved"
      [] q.op = "reject" -> "rejected"
      [] q.op = "restoreVersion" -> "restored"
      [] q.op = "updateFromWeb" ->
            IF q.was = "published" /\ q.status = "pending" THEN "submitted" ELSE "updated"
      [] q.op = "updateFromAdmin" -> "updated"
      [] q.op \in Creations /\ q.status = "pending" -> "submitted"
      [] q.op \in Creations /\ q.status = "published" -> "approved"
      [] OTHER -> journal

\* Mutant: the scheduler publishes without the event.
PublishesMutant(q) ==
    \/ q.op = "approve"
    \/ q.op = "createFromAdmin" /\ q.status = "published"
    \/ /\ q.op \in {"updateFromWeb", "updateFromAdmin"}
       /\ q.was # "published" /\ q.status = "published"

\* PostPublished is dispatched on what the loaded model said before the save,
\* not on what the row went through.
Publishes(q) ==
    \/ q.op \in {"approve", "publishDue"}
    \/ q.op = "createFromAdmin" /\ q.status = "published"
    \/ /\ q.op \in {"updateFromWeb", "updateFromAdmin"}
       /\ q.was # "published" /\ q.status = "published"

\* The journal row and the domain events.
Record(w) ==
    /\ At(w, "record")
    /\ journal' = Recorded(req[w])
    /\ announced' = (announced \/ Publishes(req[w]))
    /\ Advance(w)
    /\ UNCHANGED <<row, versions, entry, vetted, stored, lostBump, broken, requests, crashes>>

\* clearScheduledPublishAt: a second save, of that column alone.
ClearSchedule(c) ==
    /\ At(c, "clear")
    /\ row' = [row EXCEPT !.due = FALSE]
    /\ Advance(c)
    /\ UNCHANGED <<versions, entry, observers, lostBump, broken, requests, crashes>>

-----------------------------------------------------------------------------
(* The environment *)

\* A public page fetches the post and fills the cache.
Read ==
    /\ entry = NoEntry /\ Found
    /\ entry' = row
    /\ UNCHANGED <<row, versions, req, observers, lostBump, broken, requests, crashes>>

\* The entry reaches its time to live of one hour.
Expire ==
    /\ entry # NoEntry
    /\ entry' = NoEntry
    /\ lostBump' = FALSE
    /\ UNCHANGED <<row, versions, req, observers, broken, requests, crashes>>

\* The worker is killed, or a statement throws, and the request is abandoned.
Crash(w) ==
    /\ ~Idle(w)
    /\ crashes < MaxCrashes
    /\ crashes' = crashes + 1
    /\ lostBump' = (lostBump \/ OwesBump(w))
    /\ broken' = (broken \/ req[w].step \in {"taxonomy", "record", "bump", "clear"})
    /\ req' = [req EXCEPT ![w] = Resting]
    /\ UNCHANGED <<row, versions, entry, observers, requests>>

\* A row as earlier, finished requests, a seeder or an import leave it; the
\* snapshots of the edits it has seen (Init) are of its time as a draft.
Settled == {[status |-> s, isPublished |-> s = "published", body |-> b, dated |-> s = "published",
             due |-> d, deleted |-> FALSE] :
               s \in Starts \ {"absent"}, b \in Bodies, d \in Schedules}

Init ==
    /\ row \in Settled \cup (IF "absent" \in Starts THEN {NoPost} ELSE {})
    /\ \E b \in Bodies : versions = {[num |-> n, status |-> "draft", body |-> b] : n \in 1..Earlier}
    /\ entry = NoEntry
    /\ stored = [w \in Everyone |-> 0]
    /\ req = [w \in Everyone |-> Resting]
    /\ journal = "none"
    /\ announced = (row # NoPost /\ row.status = "published")
    /\ vetted = IF row # NoPost /\ row.status = "published" THEN {row.body} ELSE {}
    /\ lostBump = FALSE /\ broken = FALSE
    /\ requests = 0 /\ crashes = 0

Arrive(w) ==
    \/ \E b \in Bodies : Create(w, "createForAuthor", "pending", b)
    \/ \E s \in Statuses, b \in Bodies : Create(w, "createFromAdmin", s, b)
    \/ \E role \in Roles, publish \in BOOLEAN, b \in Bodies : AuthorizeWeb(w, role, publish, b)
    \/ \E s \in Statuses, b \in Bodies : UpdateFromAdmin(w, s, b)
    \/ Moderate(w, "approve")
    \/ Moderate(w, "reject")
    \/ \E v \in versions : RestoreVersion(w, v)
    \/ RestoreDeleted(w)
    \/ Destroy(w)
    \/ DestroyFromAdmin(w)

Proceed(w) ==
    \/ LoadWeb(w) \/ Snapshot(w) \/ Commit(w) \/ Taxonomy(w) \/ Record(w) \/ Bump(w)

Next ==
    \/ \E w \in Workers : Arrive(w)
    \/ \E w \in Everyone : Proceed(w) \/ Crash(w)
    \/ \E c \in Crons : LoadDue(c) \/ ClearSchedule(c)
    \/ Read \/ Expire

Spec == Init /\ [][Next]_vars

\* Requests in flight run on, and the scheduler fires every minute.
Fairness ==
    /\ \A w \in Everyone : WF_vars(Proceed(w))
    /\ WF_vars(\E c \in Crons : LoadDue(c))
    /\ \A c \in Crons : WF_vars(ClearSchedule(c))

FairSpec == Spec /\ Fairness

-----------------------------------------------------------------------------
(* Properties *)

TypeOK ==
    /\ row \in PostRow \cup {NoPost}
    /\ IsFiniteSet(versions)
    /\ \A v \in versions : v.status \in Statuses /\ v.body \in Bodies
    /\ \E top \in Nat :
        /\ \A v \in versions : v.num \in 1..top
        /\ versions # {} => \E v \in versions : v.num = top
    /\ entry \in PostRow \cup {NoEntry}
    /\ req \in [Everyone -> Request]
    /\ journal \in Journal
    /\ announced \in BOOLEAN /\ lostBump \in BOOLEAN /\ broken \in BOOLEAN
    /\ vetted \subseteq Bodies /\ stored \in [Everyone -> Nat]
    /\ requests \in 0..MaxRequests /\ crashes \in 0..MaxCrashes

Exists == row # NoPost

\* Listings, feeds and sitemaps order public posts by published_at: whatever
\* saves race, a published row always carries a date.
PublishedHasDate == Exists /\ row.status = "published" => row.dated

\* A cached model that differs from the row in what readers see is served only
\* while a request is between its save and its bump, or lost that bump.
SameForReaders(a, b) == a.status = b.status /\ a.body = b.body /\ a.deleted = b.deleted
CacheServesCurrent ==
    entry # NoEntry => \/ SameForReaders(entry, row)
                       \/ lostBump
                       \/ \E w \in Everyone : OwesBump(w)

\* A request saves through a model that no longer matches the row.
SavesStale(w) ==
    /\ At(w, "commit") /\ ~(req'[w].step = "commit")
    /\ \/ req[w].model.status # row.status
       \/ req[w].model.isPublished # row.isPublished
       \/ req[w].model.body # row.body

\* Moderation: text nobody decided to publish becomes public in two ways only: a
\* save overlapped another one (an author's edit racing an approval), or the
\* scheduler approved whatever text the post carried when it fell due, an author's
\* pending edit included.
Exposed == Exists /\ row.status = "published" /\ row.body \notin vetted
PublishesUnread(w) ==
    At(w, "commit") /\ ~(req'[w].step = "commit") /\ req[w].op = "publishDue"
UnvettedOnlyByStaleSaveOrSchedule ==
    [][ ~Exposed /\ Exposed' =>
          \E w \in Everyone : SavesStale(w) \/ PublishesUnread(w) ]_vars

\* The legacy is_published column leaves its status only through a save whose
\* model was out of date.
InSync == Exists => (row.isPublished <=> row.status = "published")
DriftOnlyByStaleSave ==
    [][ InSync /\ ~InSync' => \E w \in Everyone : SavesStale(w) ]_vars

\* A deletion and a fired schedule stand: no racing save with an older model
\* brings the post or its schedule back.
DeletionStands ==
    [][ Exists /\ row.deleted /\ ~row'.deleted =>
          \E w \in Everyone : At(w, "commit") /\ req[w].op = "restore" ]_vars
ScheduleFiresOnce == [][ Exists /\ ~row.due => ~row'.due ]_vars

\* A step that makes a post public belongs to a request that goes on to dispatch
\* PostPublished, unless it restores a version or saves a model out of date.
TurnsPublic == Exists /\ row.status # "published" /\ row'.status = "published"
MakesPublic(w) ==
    /\ At(w, "commit") /\ req'[w].step # "commit"
    /\ Publishes(req[w]) \/ req[w].op = "restoreVersion" \/ SavesStale(w)
SilentOnlyByRestore == [][ TurnsPublic => \E w \in Everyone : MakesPublic(w) ]_vars

\* The text and status an edit replaces stay in the history.  Whatever runs beside
\* it, they are missing only when the row had moved on from the model the edit
\* stored, or when every snapshot still kept is newer than its own.
ReplacedIsKept == \E v \in versions : v.body = row.body /\ v.status = row.status
PushedOut(w) == versions # {} /\ \A v \in versions : v.num > stored[w]
EditsRow(w) ==
    /\ At(w, "commit") /\ ~(req'[w].step = "commit") /\ row' # row
    /\ req[w].op \in {"updateFromWeb", "updateFromAdmin"}
RestorePointLostOnlyByOverlap ==
    [][ \A w \in Workers :
          EditsRow(w) => ReplacedIsKept \/ SavesStale(w) \/ PushedOut(w) ]_vars

\* With one request at a time, the journal's newest verdict is the row's status,
\* and readers were told of a public post by PostPublished unless a restored
\* version made it public (edits may have followed).
JournalAgrees ==
    Quiet /\ ~broken /\ Exists =>
        /\ journal = "approved" => row.status = "published"
        /\ journal = "rejected" => row.status = "rejected"
        /\ journal = "submitted" => row.status = "pending"
        /\ row.status = "published" => announced \/ journal \in {"restored", "updated"}

\* The scheduler gets to every due post: it is published, deleted or unscheduled.
DueIsPublished ==
    (Exists /\ row.due /\ ~row.deleted) ~> (~row.due \/ row.deleted \/ row.status = "published")
=============================================================================
