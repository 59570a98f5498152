--------------------------- MODULE VersionedCache ---------------------------
(***************************************************************************)
(* The read-through cache of posts, listings, sitemaps and search pages.   *)
(*                                                                         *)
(* CacheVersionManager keeps a version string per domain and every cache   *)
(* key embeds it.  A writer commits to PostgreSQL and then replaces the    *)
(* version by a fresh UUID; old entries are left to expire.  A reader gets *)
(* the version, looks the entry up and on a miss queries the database and  *)
(* stores the result: three calls to Redis and one to the database with    *)
(* anything in between.                                                    *)
(***************************************************************************)
EXTENDS Integers

CONSTANTS
    Readers,    \* requests that read through the cache
    Writers,    \* requests that change the data
    MaxWrites,  \* bound: commits in a behaviour
    MaxDeaths,  \* bound: requests killed
    MaxFlushes  \* bound: optimize:clear followed by a restart

ASSUME BoundsAssumption == MaxWrites \in Nat /\ MaxDeaths \in Nat /\ MaxFlushes \in Nat

\* Versions are numbered in the order they are made: a UUID is never repeated,
\* and 0 stands for the '1' that get() answers when no version is stored.
Default == 0
None == -1

VARIABLES
    db,       \* number of commits: the data is what the last of them left
    version,  \* version stored in Redis
    last,     \* newest version ever made
    entries,  \* cached data under each version, or None
    reader,   \* [step, version, value] of each reader
    owes,     \* writers that have committed and not bumped yet
    late,     \* writers that have one more save to make after their bump
    bumped,   \* observer: newest commit when readers were last sent past the old entries
    since,    \* observer: `bumped` when each version came into force
    floor,    \* observer: `bumped` when each reader began
    lost,     \* observer: a commit nobody will bump for, and no bump came since
    deaths, flushes

vars == <<db, version, last, entries, reader, owes, late, bumped, since, floor,
          lost, deaths, flushes>>
redis == <<version, last, entries>>
writing == <<db, owes, late>>

ReaderSteps == {"idle", "lookup", "query", "put", "done"}
Idle == [step |-> "idle", version |-> Default, value |-> None]

-----------------------------------------------------------------------------
(* Readers: EloquentCache::rememberPayload *)

\* The cache key embeds CacheVersionManager::get.
GetVersion(r) ==
    /\ reader[r].step \in {"idle", "done"}
    /\ reader' = [reader EXCEPT ![r] = [step |-> "lookup", version |-> version, value |-> None]]
    /\ floor' = [floor EXCEPT ![r] = bumped]
    /\ UNCHANGED <<redis, writing, bumped, since, lost, deaths, flushes>>

Lookup(r) ==
    /\ reader[r].step = "lookup"
    /\ LET hit == entries[reader[r].version]
       IN  reader' = IF hit # None
                     THEN [reader EXCEPT ![r].step = "done", ![r].value = hit]
                     ELSE [reader EXCEPT ![r].step = "query"]
    /\ UNCHANGED <<redis, writing, bumped, since, floor, lost, deaths, flushes>>

Query(r) ==
    /\ reader[r].step = "query"
    /\ reader' = [reader EXCEPT ![r].step = "put", ![r].value = db]
    /\ UNCHANGED <<redis, writing, bumped, since, floor, lost, deaths, flushes>>

\* Mutant: the key is computed again, from the version of the moment.
PutMutant(r) ==
    /\ reader[r].step = "put"
    /\ entries' = [entries EXCEPT ![version] = reader[r].value]
    /\ reader' = [reader EXCEPT ![r].step = "done"]
    /\ UNCHANGED <<version, last, writing, bumped, since, floor, lost, deaths, flushes>>

Put(r) ==
    /\ reader[r].step = "put"
    /\ entries' = [entries EXCEPT ![reader[r].version] = reader[r].value]
    /\ reader' = [reader EXCEPT ![r].step = "done"]
    /\ UNCHANGED <<version, last, writing, bumped, since, floor, lost, deaths, flushes>>

ReaderDies(r) ==
    /\ reader[r].step \in {"lookup", "query", "put"}
    /\ deaths < MaxDeaths
    /\ deaths' = deaths + 1
    /\ reader' = [reader EXCEPT ![r] = Idle]
    /\ UNCHANGED <<redis, writing, bumped, since, floor, lost, flushes>>

-----------------------------------------------------------------------------
(* Writers: PostMutationPipeline saves, then bumps *)

\* seo: EditPost goes on to save the SEO columns once the pipeline is done.
Commit(w, seo) ==
    /\ w \notin owes \cup late
    /\ db < MaxWrites
    /\ db' = db + 1
    /\ owes' = owes \cup {w}
    /\ late' = IF seo THEN late \cup {w} ELSE late
    /\ UNCHANGED <<redis, reader, bumped, since, floor, lost, deaths, flushes>>

\* Mutant: the version in force is stored again.
BumpMutant(w) ==
    /\ w \in owes
    /\ owes' = owes \ {w}
    /\ bumped' = db
    /\ lost' = FALSE
    /\ UNCHANGED <<redis, db, late, since, reader, floor, deaths, flushes>>

\* CacheVersionManager::bump: a fresh version, under which nothing is stored.
Bump(w) ==
    /\ w \in owes
    /\ owes' = owes \ {w}
    /\ last' = last + 1
    /\ version' = last + 1
    /\ bumped' = db
    /\ entries' = [v \in 0..(last + 1) |-> IF v = last + 1 THEN None ELSE entries[v]]
    /\ since' = [v \in 0..(last + 1) |-> IF v = last + 1 THEN db ELSE since[v]]
    /\ lost' = FALSE
    /\ UNCHANGED <<db, late, reader, floor, deaths, flushes>>

\* EditPost: the SEO columns of the post are saved after the bump.
SaveSeo(w) ==
    /\ w \in late \ owes
    /\ late' = late \ {w}
    /\ db < MaxWrites
    /\ db' = db + 1
    /\ lost' = TRUE
    /\ UNCHANGED <<redis, owes, reader, bumped, since, floor, deaths, flushes>>

WriterDies(w) ==
    /\ w \in owes \cup late
    /\ deaths < MaxDeaths
    /\ deaths' = deaths + 1
    /\ owes' = owes \ {w}
    /\ late' = late \ {w}
    /\ lost' = (lost \/ w \in owes)
    /\ UNCHANGED <<redis, db, reader, bumped, since, floor, flushes>>

-----------------------------------------------------------------------------
(* Redis *)

\* An entry reaches its time to live.
Expire(v) ==
    /\ entries[v] # None
    /\ entries' = [entries EXCEPT ![v] = None]
    /\ UNCHANGED <<version, last, writing, reader, bumped, since, floor, lost, deaths, flushes>>

\* `php artisan optimize:clear`, then the restart of PHP that goes with it:
\* the cache, its version included, is gone and so are the requests in flight.
Flush ==
    /\ flushes < MaxFlushes
    /\ flushes' = flushes + 1
    /\ version' = Default
    /\ entries' = [v \in 0..last |-> None]
    /\ bumped' = db
    /\ since' = [since EXCEPT ![Default] = db]
    /\ reader' = [r \in Readers |-> IF reader[r].step = "done" THEN reader[r] ELSE Idle]
    /\ owes' = {} /\ late' = {} /\ lost' = FALSE
    /\ UNCHANGED <<db, last, floor, deaths>>

-----------------------------------------------------------------------------

Init ==
    /\ db = 0 /\ version = Default /\ last = Default
    /\ entries = [v \in 0..Default |-> None]
    /\ reader = [r \in Readers |-> Idle]
    /\ owes = {} /\ late = {}
    /\ bumped = 0
    /\ since = [v \in 0..Default |-> 0]
    /\ floor = [r \in Readers |-> 0]
    /\ lost = FALSE /\ deaths = 0 /\ flushes = 0

ReaderStep(r) == GetVersion(r) \/ Lookup(r) \/ Query(r) \/ Put(r) \/ ReaderDies(r)

WriterStep(w) ==
    \/ \E seo \in BOOLEAN : Commit(w, seo)
    \/ Bump(w) \/ SaveSeo(w) \/ WriterDies(w)

Next ==
    \/ \E r \in Readers : ReaderStep(r)
    \/ \E w \in Writers : WriterStep(w)
    \/ \E v \in 0..last : Expire(v)
    \/ Flush

Spec == Init /\ [][Next]_vars

-----------------------------------------------------------------------------
(* Properties *)

Data == 0..MaxWrites

TypeOK ==
    /\ db \in Data
    /\ last \in Nat /\ version \in 0..last
    /\ entries \in [0..last -> Data \cup {None}]
    /\ reader \in [Readers -> [step: ReaderSteps, version: 0..last, value: Data \cup {None}]]
    /\ \A r \in Readers : reader[r].step \in {"put", "done"} => reader[r].value # None
    /\ owes \subseteq Writers /\ late \subseteq Writers
    /\ bumped \in Data
    /\ since \in [0..last -> Data]
    /\ floor \in [Readers -> Data]
    /\ lost \in BOOLEAN /\ deaths \in 0..MaxDeaths /\ flushes \in 0..MaxFlushes

\* The cache implements FreshReads: no read misses a change that was bumped
\* before it began, whoever fills the cache late.
Promise == INSTANCE FreshReads WITH
    read <- [r \in Readers |->
               [floor |-> floor[r],
                value |-> IF reader[r].step = "done" THEN reader[r].value ELSE None]]
ReadsAreFresh == Promise!Spec

\* When no writer is between commit and bump and no commit went without one,
\* what the version in force serves is the data of the database.
ServesTheDatabase ==
    owes = {} /\ ~lost => entries[version] \in {None, db}
=============================================================================
