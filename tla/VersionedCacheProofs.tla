------------------------ MODULE VersionedCacheProofs ------------------------
(***************************************************************************)
(* Theorems about VersionedCache: for any number of readers and writers,   *)
(* the cache implements FreshReads.                                        *)
(***************************************************************************)
EXTENDS VersionedCache, TLAPS

InFlight(r) == reader[r].step \in {"lookup", "query", "put"}

\* The version in force is the one made by the newest bump, and no older.
VersionsOK ==
    /\ bumped <= db
    /\ since[version] = bumped
    /\ \A v \in 0..last : since[v] <= bumped

\* Whatever is stored under a version was read after that version was made:
\* the one fact that makes late fills harmless.
EntriesOK ==
    \A v \in 0..last : entries[v] # None => since[v] <= entries[v] /\ entries[v] <= db

\* The last conjunct of TypeOK on readers, by name.
Answered == \A r \in Readers : reader[r].step \in {"put", "done"} => reader[r].value # None

ReadersOK ==
    \A r \in Readers :
        /\ floor[r] <= bumped
        /\ InFlight(r) => floor[r] <= since[reader[r].version]
        /\ reader[r].step = "put" =>
              since[reader[r].version] <= reader[r].value /\ reader[r].value <= db

\* A commit the version in force does not know of is owed a bump or is lost.
BumpsOK == lost \/ owes # {} \/ bumped = db

IInv == TypeOK /\ VersionsOK /\ EntriesOK /\ ReadersOK /\ BumpsOK

-----------------------------------------------------------------------------

LEMMA InitOK == ASSUME Init PROVE IInv
<1> DEFINE R == [step: ReaderSteps, version: 0..0, value: Data \cup {None}]
<1>1. /\ db = 0 /\ version = 0 /\ last = 0 /\ owes = {} /\ late = {} /\ bumped = 0
      /\ entries = [v \in 0..0 |-> None] /\ since = [v \in 0..0 |-> 0]
      /\ reader = [r \in Readers |-> Idle] /\ floor = [r \in Readers |-> 0]
      /\ lost = FALSE /\ deaths = 0 /\ flushes = 0
      BY DEF Init, Default
<1>2. 0 \in Data  BY BoundsAssumption DEF Data
<1>3. Idle \in R /\ Idle.step = "idle"  BY DEF Idle, ReaderSteps, Default
<1>4. TypeOK
  <2>1. reader \in [Readers -> R]  BY <1>1, <1>3
  <2>2. entries \in [0..0 -> Data \cup {None}] /\ since \in [0..0 -> Data] /\ floor \in [Readers -> Data]
        BY <1>1, <1>2
  <2>3. /\ reader \in [Readers -> [step: ReaderSteps, version: 0..last, value: Data \cup {None}]]
        /\ entries \in [0..last -> Data \cup {None}] /\ since \in [0..last -> Data]
        BY <1>1, <2>1, <2>2
  <2>4. last \in Nat /\ version \in 0..last /\ deaths \in 0..MaxDeaths /\ flushes \in 0..MaxFlushes
        BY <1>1, BoundsAssumption
  <2>5. db \in Data /\ bumped \in Data /\ lost \in BOOLEAN /\ owes \subseteq Writers /\ late \subseteq Writers
        BY <1>1, <1>2
  <2>6. Answered  BY <1>1, <1>3 DEF Answered
  <2> QED BY <2>2, <2>3, <2>4, <2>5, <2>6 DEF TypeOK, Answered
<1>5. VersionsOK /\ EntriesOK /\ BumpsOK
      BY <1>1 DEF VersionsOK, EntriesOK, BumpsOK
<1>6. ReadersOK
  <2> SUFFICES ASSUME NEW r \in Readers PROVE floor[r] <= bumped /\ reader[r].step = "idle"
      BY DEF ReadersOK, InFlight
  <2> QED BY <1>1, <1>3
<1> QED BY <1>4, <1>5, <1>6 DEF IInv

LEMMA GetVersionOK == ASSUME IInv, NEW r \in Readers, GetVersion(r) PROVE IInv'
<1>0. /\ reader' = [reader EXCEPT ![r] = [step |-> "lookup", version |-> version, value |-> None]]
      /\ floor' = [floor EXCEPT ![r] = bumped]
      /\ UNCHANGED <<version, last, entries, db, owes, late, bumped, since, lost, deaths, flushes>>
      BY DEF GetVersion, redis, writing
<1>1. TypeOK'
  <2> DEFINE R == [step: ReaderSteps, version: 0..last, value: Data \cup {None}]
  <2>1. [step |-> "lookup", version |-> version, value |-> None] \in R
        BY DEF IInv, TypeOK, ReaderSteps
  <2>2. reader \in [Readers -> R] /\ floor \in [Readers -> Data] /\ bumped \in Data
        BY DEF IInv, TypeOK
  <2> HIDE DEF R
  <2>3. reader' \in [Readers -> R] /\ floor' \in [Readers -> Data]  BY <1>0, <2>1, <2>2
  <2> QED BY <1>0, <2>3 DEF IInv, TypeOK, R
<1>2. VersionsOK' /\ EntriesOK' /\ BumpsOK'
      BY <1>0 DEF IInv, VersionsOK, EntriesOK, BumpsOK
<1>3. ReadersOK'
  <2> SUFFICES ASSUME NEW u \in Readers
               PROVE  /\ floor'[u] <= bumped'
                      /\ InFlight(u)' => floor'[u] <= since'[reader'[u].version]
                      /\ reader'[u].step = "put" =>
                            since'[reader'[u].version] <= reader'[u].value /\ reader'[u].value <= db'
      BY DEF ReadersOK
  <2>1. CASE u = r
    <3>1. reader'[u] = [step |-> "lookup", version |-> version, value |-> None] /\ floor'[u] = bumped
          BY <1>0, <2>1 DEF IInv, TypeOK
    <3> QED BY <1>0, <3>1 DEF IInv, TypeOK, VersionsOK, Data, InFlight
  <2>2. CASE u # r
    <3>1. reader'[u] = reader[u] /\ floor'[u] = floor[u]  BY <1>0, <2>2 DEF IInv, TypeOK
    <3> QED BY <1>0, <3>1 DEF IInv, ReadersOK, InFlight
  <2> QED BY <2>1, <2>2
<1> QED BY <1>1, <1>2, <1>3 DEF IInv

\* A reader that goes on without touching what others see.
LEMMA ReaderChange ==
    ASSUME IInv, NEW r \in Readers,
           NEW q \in [step: ReaderSteps, version: 0..last, value: Data \cup {None}],
           reader' = [reader EXCEPT ![r] = q],
           q.step \in {"lookup", "query", "put"} => InFlight(r) /\ q.version = reader[r].version,
           q.step \in {"put", "done"} => q.value # None,
           q.step = "put" => since[q.version] <= q.value /\ q.value <= db,
           UNCHANGED <<last, db, bumped, since, floor>>
    PROVE  /\ ReadersOK' /\ Answered'
           /\ reader' \in [Readers -> [step: ReaderSteps, version: 0..last, value: Data \cup {None}]]
<1>1. reader \in [Readers -> [step: ReaderSteps, version: 0..last, value: Data \cup {None}]]
      BY DEF IInv, TypeOK
<1>2. reader'[r] = q /\ \A u \in Readers \ {r} : reader'[u] = reader[u]  BY <1>1
<1>3. ASSUME NEW u \in Readers
      PROVE  /\ floor[u] <= bumped
             /\ InFlight(u)' => floor[u] <= since[reader'[u].version]
             /\ reader'[u].step = "put" =>
                   since[reader'[u].version] <= reader'[u].value /\ reader'[u].value <= db
  <2>1. CASE u = r  BY <1>2, <2>1 DEF IInv, ReadersOK, InFlight
  <2>2. CASE u # r  BY <1>2, <2>2 DEF IInv, ReadersOK, InFlight
  <2> QED BY <2>1, <2>2
<1>4. Answered'  BY <1>1, <1>2 DEF IInv, TypeOK, Answered
<1> QED BY <1>1, <1>3, <1>4 DEF ReadersOK

LEMMA LookupOK == ASSUME IInv, NEW r \in Readers, Lookup(r) PROVE IInv'
<1> DEFINE hit == entries[reader[r].version]
           q == IF hit # None THEN [reader[r] EXCEPT !.step = "done", !.value = hit]
                ELSE [reader[r] EXCEPT !.step = "query"]
           R == [step: ReaderSteps, version: 0..last, value: Data \cup {None}]
<1>1. reader \in [Readers -> R] /\ reader[r] \in R /\ hit \in Data \cup {None}
      BY DEF IInv, TypeOK
<1>2. /\ q \in R /\ q.step \in {"done", "query"} /\ q.version = reader[r].version
      /\ q.step = "done" => q.value # None
      BY <1>1 DEF ReaderSteps
<1>3. reader' = [reader EXCEPT ![r] = q] /\ reader[r].step = "lookup"
      /\ UNCHANGED <<redis, writing, bumped, since, floor, lost, deaths, flushes>>
      BY <1>1 DEF Lookup
<1> HIDE DEF q
<1>4. ReadersOK' /\ Answered' /\ reader' \in [Readers -> R]
      BY <1>2, <1>3, ReaderChange DEF InFlight, redis, writing
<1>5. TypeOK'  BY <1>3, <1>4 DEF IInv, TypeOK, Answered, redis, writing
<1>6. VersionsOK' /\ EntriesOK' /\ BumpsOK'
      BY <1>3 DEF IInv, VersionsOK, EntriesOK, BumpsOK, redis, writing
<1> QED BY <1>4, <1>5, <1>6 DEF IInv

LEMMA QueryOK == ASSUME IInv, NEW r \in Readers, Query(r) PROVE IInv'
<1> DEFINE q == [reader[r] EXCEPT !.step = "put", !.value = db]
           R == [step: ReaderSteps, version: 0..last, value: Data \cup {None}]
<1>1. reader \in [Readers -> R] /\ reader[r] \in R /\ db \in Data
      BY DEF IInv, TypeOK
<1>2. q \in R /\ q.step = "put" /\ q.version = reader[r].version /\ q.value = db
      BY <1>1 DEF ReaderSteps
<1>3. reader' = [reader EXCEPT ![r] = q] /\ reader[r].step = "query"
      /\ UNCHANGED <<redis, writing, bumped, since, floor, lost, deaths, flushes>>
      BY <1>1 DEF Query
<1> HIDE DEF q
<1>4. db # None /\ since[q.version] <= db /\ db <= db
  <2>1. q.version \in 0..last  BY <1>1, <1>2
  <2>2. since[q.version] <= bumped /\ bumped <= db  BY <2>1 DEF IInv, VersionsOK
  <2>3. since[q.version] \in Data /\ bumped \in Data  BY <2>1 DEF IInv, TypeOK
  <2> QED BY <1>1, <2>2, <2>3, BoundsAssumption DEF Data, None
<1>5. ReadersOK' /\ Answered' /\ reader' \in [Readers -> R]
      BY <1>2, <1>3, <1>4, ReaderChange DEF InFlight, redis, writing
<1>6. TypeOK'  BY <1>3, <1>5 DEF IInv, TypeOK, Answered, redis, writing
<1>7. VersionsOK' /\ EntriesOK' /\ BumpsOK'
      BY <1>3 DEF IInv, VersionsOK, EntriesOK, BumpsOK, redis, writing
<1> QED BY <1>5, <1>6, <1>7 DEF IInv

LEMMA PutOK == ASSUME IInv, NEW r \in Readers, Put(r) PROVE IInv'
<1> DEFINE q == [reader[r] EXCEPT !.step = "done"]
           R == [step: ReaderSteps, version: 0..last, value: Data \cup {None}]
<1>1. reader \in [Readers -> R] /\ reader[r] \in R  BY DEF IInv, TypeOK
<1>2. q \in R /\ q.step = "done" /\ q.value = reader[r].value  BY <1>1 DEF ReaderSteps
<1>3. reader' = [reader EXCEPT ![r] = q] /\ reader[r].step = "put"
      /\ entries' = [entries EXCEPT ![reader[r].version] = reader[r].value]
      /\ UNCHANGED <<version, last, writing, bumped, since, floor, lost, deaths, flushes>>
      BY <1>1 DEF Put
<1> HIDE DEF q
<1>4. ReadersOK' /\ Answered' /\ reader' \in [Readers -> R]
  <2>1. q.value # None  BY <1>2, <1>3 DEF IInv, TypeOK
  <2> QED BY <1>2, <1>3, <2>1, ReaderChange DEF writing
<1>5. TypeOK'
  <2>1. entries' \in [0..last -> Data \cup {None}]  BY <1>1, <1>3 DEF IInv, TypeOK
  <2> QED BY <1>3, <1>4, <2>1 DEF IInv, TypeOK, Answered, writing
<1>6. EntriesOK'
  <2> SUFFICES ASSUME NEW v \in 0..last, entries'[v] # None
               PROVE  since[v] <= entries'[v] /\ entries'[v] <= db
      BY <1>3 DEF EntriesOK, writing
  <2>1. CASE v = reader[r].version  BY <1>3, <2>1 DEF IInv, TypeOK, ReadersOK
  <2>2. CASE v # reader[r].version  BY <1>3, <2>2 DEF IInv, TypeOK, EntriesOK
  <2> QED BY <2>1, <2>2
<1>7. VersionsOK' /\ BumpsOK'  BY <1>3 DEF IInv, VersionsOK, BumpsOK, writing
<1> QED BY <1>4, <1>5, <1>6, <1>7 DEF IInv

LEMMA ReaderDiesOK == ASSUME IInv, NEW r \in Readers, ReaderDies(r) PROVE IInv'
<1> DEFINE R == [step: ReaderSteps, version: 0..last, value: Data \cup {None}]
<1>1. Idle \in R /\ Idle.step = "idle"
      BY DEF IInv, TypeOK, Idle, ReaderSteps, Default
<1>2. reader' = [reader EXCEPT ![r] = Idle]
      /\ UNCHANGED <<redis, writing, bumped, since, floor, lost, flushes>>
      BY DEF ReaderDies
<1>3. ReadersOK' /\ Answered' /\ reader' \in [Readers -> R]
      BY <1>1, <1>2, ReaderChange DEF redis, writing
<1>4. deaths' \in 0..MaxDeaths  BY BoundsAssumption DEF ReaderDies, IInv, TypeOK
<1>5. TypeOK'  BY <1>2, <1>3, <1>4 DEF IInv, TypeOK, Answered, redis, writing
<1>6. VersionsOK' /\ EntriesOK' /\ BumpsOK'
      BY <1>2 DEF IInv, VersionsOK, EntriesOK, BumpsOK, redis, writing
<1> QED BY <1>3, <1>5, <1>6 DEF IInv

\* What a commit changes: only the data runs ahead.
LEMMA CommitKeeps ==
    ASSUME IInv, db < MaxWrites, db' = db + 1,
           UNCHANGED <<version, last, entries, reader, bumped, since, floor>>
    PROVE  db' \in Data /\ VersionsOK' /\ EntriesOK' /\ ReadersOK'
<1>1. db \in Data /\ bumped \in Data /\ db' \in Data
      BY BoundsAssumption DEF IInv, TypeOK, Data
<1>2. VersionsOK'  BY <1>1 DEF IInv, TypeOK, VersionsOK, Data
<1>3. EntriesOK'
  <2> SUFFICES ASSUME NEW v \in 0..last, entries[v] # None
               PROVE  since[v] <= entries[v] /\ entries[v] <= db + 1
      BY DEF EntriesOK
  <2>1. entries[v] \in Data  BY DEF IInv, TypeOK
  <2> QED BY <1>1, <2>1 DEF IInv, EntriesOK, Data
<1>4. ReadersOK'
  <2> SUFFICES ASSUME NEW r \in Readers
               PROVE  /\ floor[r] <= bumped
                      /\ InFlight(r) => floor[r] <= since[reader[r].version]
                      /\ reader[r].step = "put" =>
                            /\ since[reader[r].version] <= reader[r].value
                            /\ reader[r].value <= db + 1
      BY DEF ReadersOK, InFlight
  <2>1. reader[r].step = "put" => reader[r].value \in Data  BY DEF IInv, TypeOK
  <2> QED BY <1>1, <2>1 DEF IInv, ReadersOK, Data
<1> QED BY <1>1, <1>2, <1>3, <1>4

LEMMA CommitOK == ASSUME IInv, NEW w \in Writers, NEW seo \in BOOLEAN, Commit(w, seo) PROVE IInv'
<1>1. /\ db < MaxWrites /\ db' = db + 1 /\ owes' = owes \cup {w}
      /\ UNCHANGED <<version, last, entries, reader, bumped, since, floor, lost, deaths, flushes>>
      BY DEF Commit, redis
<1>2. late' \subseteq Writers  BY DEF Commit, IInv, TypeOK
<1>3. db' \in Data /\ VersionsOK' /\ EntriesOK' /\ ReadersOK'  BY <1>1, CommitKeeps
<1>4. TypeOK'  BY <1>1, <1>2, <1>3 DEF IInv, TypeOK
<1>5. BumpsOK'  BY <1>1 DEF BumpsOK
<1> QED BY <1>3, <1>4, <1>5 DEF IInv

LEMMA SaveSeoOK == ASSUME IInv, NEW w \in Writers, SaveSeo(w) PROVE IInv'
<1>1. /\ db < MaxWrites /\ db' = db + 1 /\ late' = late \ {w} /\ lost' = TRUE
      /\ UNCHANGED <<version, last, entries, owes, reader, bumped, since, floor, deaths, flushes>>
      BY DEF SaveSeo, redis
<1>2. db' \in Data /\ VersionsOK' /\ EntriesOK' /\ ReadersOK'  BY <1>1, CommitKeeps
<1>3. TypeOK'  BY <1>1, <1>2 DEF IInv, TypeOK
<1>4. BumpsOK'  BY <1>1 DEF BumpsOK
<1> QED BY <1>2, <1>3, <1>4 DEF IInv

LEMMA WriterDiesOK == ASSUME IInv, NEW w \in Writers, WriterDies(w) PROVE IInv'
<1>1. /\ owes' = owes \ {w} /\ late' = late \ {w} /\ lost' = (lost \/ w \in owes)
      /\ UNCHANGED <<version, last, entries, db, reader, bumped, since, floor, flushes>>
      BY DEF WriterDies, redis
<1>2. deaths' \in 0..MaxDeaths  BY BoundsAssumption DEF WriterDies, IInv, TypeOK
<1>3. lost' \in BOOLEAN  BY DEF WriterDies
<1>4. TypeOK'  BY <1>1, <1>2, <1>3 DEF IInv, TypeOK
<1>5. VersionsOK' /\ EntriesOK' /\ ReadersOK'
      BY <1>1 DEF IInv, VersionsOK, EntriesOK, ReadersOK, InFlight
<1>6. BumpsOK'
  <2>1. owes \subseteq {w} /\ w \notin owes => owes = {}  OBVIOUS
  <2> QED BY <1>1, <2>1 DEF IInv, BumpsOK
<1> QED BY <1>4, <1>5, <1>6 DEF IInv

LEMMA ExpireOK == ASSUME IInv, NEW v \in 0..last, Expire(v) PROVE IInv'
<1>1. /\ entries' = [entries EXCEPT ![v] = None]
      /\ UNCHANGED <<version, last, db, owes, late, reader, bumped, since, floor, lost, deaths, flushes>>
      BY DEF Expire, writing
<1>2. entries' \in [0..last -> Data \cup {None}]  BY <1>1 DEF IInv, TypeOK
<1>3. TypeOK'  BY <1>1, <1>2 DEF IInv, TypeOK
<1>4. EntriesOK'  BY <1>1 DEF IInv, TypeOK, EntriesOK
<1>5. VersionsOK' /\ ReadersOK' /\ BumpsOK'
      BY <1>1 DEF IInv, VersionsOK, ReadersOK, InFlight, BumpsOK
<1> QED BY <1>3, <1>4, <1>5 DEF IInv

LEMMA BumpOK == ASSUME IInv, NEW w \in Writers, Bump(w) PROVE IInv'
<1> DEFINE R(n) == [step: ReaderSteps, version: 0..n, value: Data \cup {None}]
<1>1. /\ owes' = owes \ {w} /\ last' = last + 1 /\ version' = last + 1 /\ bumped' = db
      /\ entries' = [v \in 0..(last + 1) |-> IF v = last + 1 THEN None ELSE entries[v]]
      /\ since' = [v \in 0..(last + 1) |-> IF v = last + 1 THEN db ELSE since[v]]
      /\ lost' = FALSE
      /\ UNCHANGED <<db, late, reader, floor, deaths, flushes>>
      BY DEF Bump
<1>2. last \in Nat /\ db \in Data /\ bumped \in Data /\ reader \in [Readers -> R(last)]
      /\ entries \in [0..last -> Data \cup {None}] /\ since \in [0..last -> Data]
      /\ floor \in [Readers -> Data]
      BY DEF IInv, TypeOK
<1>3. \A v \in 0..last : v # last + 1 /\ v \in 0..(last + 1)  BY <1>2
<1>4. \A v \in 0..last : entries'[v] = entries[v] /\ since'[v] = since[v]  BY <1>1, <1>3
<1>5. entries'[last + 1] = None /\ since'[last + 1] = db  BY <1>1, <1>2
<1>6. \A v \in 0..(last + 1) : v \in 0..last \/ v = last + 1  BY <1>2
<1>7. TypeOK'
  <2>1. R(last) \subseteq R(last + 1)  BY <1>3
  <2>2. reader' \in [Readers -> R(last + 1)]  BY <1>1, <1>2, <2>1
  <2>3. /\ entries' \in [0..(last + 1) -> Data \cup {None}]
        /\ since' \in [0..(last + 1) -> Data]
        BY <1>1, <1>2, <1>6
  <2>4. last' \in Nat /\ version' \in 0..last'  BY <1>1, <1>2
  <2> QED BY <1>1, <2>2, <2>3, <2>4 DEF IInv, TypeOK
<1>8. VersionsOK'
  <2>1. bumped' <= db' /\ since'[version'] = bumped'  BY <1>1, <1>2, <1>5 DEF Data
  <2>2. ASSUME NEW v \in 0..(last + 1) PROVE since'[v] <= db
    <3>1. CASE v = last + 1  BY <1>2, <1>5, <3>1 DEF Data
    <3>2. CASE v \in 0..last
          BY <1>2, <1>4, <3>2 DEF IInv, VersionsOK, Data
    <3> QED BY <1>6, <3>1, <3>2
  <2> QED BY <1>1, <2>1, <2>2 DEF VersionsOK
<1>9. EntriesOK'
  <2> SUFFICES ASSUME NEW v \in 0..(last + 1), entries'[v] # None
               PROVE  since'[v] <= entries'[v] /\ entries'[v] <= db
      BY <1>1 DEF EntriesOK
  <2>1. v \in 0..last  BY <1>5, <1>6
  <2> QED BY <1>4, <2>1 DEF IInv, EntriesOK
<1>10. ReadersOK'
  <2> SUFFICES ASSUME NEW r \in Readers
               PROVE  /\ floor[r] <= db
                      /\ InFlight(r) => floor[r] <= since'[reader[r].version]
                      /\ reader[r].step = "put" =>
                            /\ since'[reader[r].version] <= reader[r].value
                            /\ reader[r].value <= db
      BY <1>1 DEF ReadersOK, InFlight
  <2>1. reader[r].version \in 0..last  BY <1>2
  <2>2. since'[reader[r].version] = since[reader[r].version]  BY <1>4, <2>1
  <2>3. floor[r] <= db  BY <1>2 DEF IInv, ReadersOK, VersionsOK, Data
  <2> QED BY <2>2, <2>3 DEF IInv, ReadersOK
<1>11. BumpsOK'  BY <1>1 DEF BumpsOK
<1> QED BY <1>7, <1>8, <1>9, <1>10, <1>11 DEF IInv

LEMMA FlushOK == ASSUME IInv, Flush PROVE IInv'
<1> DEFINE R == [step: ReaderSteps, version: 0..last, value: Data \cup {None}]
<1>1. /\ version' = 0 /\ bumped' = db /\ owes' = {} /\ late' = {} /\ lost' = FALSE
      /\ entries' = [v \in 0..last |-> None]
      /\ since' = [since EXCEPT ![0] = db]
      /\ reader' = [r \in Readers |-> IF reader[r].step = "done" THEN reader[r] ELSE Idle]
      /\ UNCHANGED <<db, last, floor, deaths>>
      BY DEF Flush, Default
<1>2. last \in Nat /\ db \in Data /\ bumped \in Data /\ reader \in [Readers -> R]
      /\ since \in [0..last -> Data] /\ floor \in [Readers -> Data] /\ 0 \in 0..last
      BY DEF IInv, TypeOK
<1>3. flushes' \in 0..MaxFlushes  BY BoundsAssumption DEF Flush, IInv, TypeOK
<1>4. Idle \in R /\ Idle.step = "idle"  BY <1>2 DEF Idle, ReaderSteps, Default
<1>5. since'[0] = db /\ \A v \in 0..last : v # 0 => since'[v] = since[v]  BY <1>1, <1>2
<1>6. TypeOK'
  <2>1. reader' \in [Readers -> R]  BY <1>1, <1>2, <1>4
  <2>2. since' \in [0..last -> Data] /\ entries' \in [0..last -> Data \cup {None}]
        BY <1>1, <1>2
  <2>3. Answered'  BY <1>1, <1>4 DEF Answered, IInv, TypeOK
  <2> QED BY <1>1, <1>2, <1>3, <2>1, <2>2, <2>3 DEF IInv, TypeOK, Answered
<1>7. VersionsOK'
  <2>1. ASSUME NEW v \in 0..last PROVE since'[v] <= db
    <3>1. CASE v = 0  BY <1>2, <1>5, <3>1 DEF Data
    <3>2. CASE v # 0  BY <1>2, <1>5, <3>2 DEF IInv, VersionsOK, Data
    <3> QED BY <3>1, <3>2
  <2>2. db <= db  BY <1>2 DEF Data
  <2> QED BY <1>1, <1>5, <2>1, <2>2 DEF VersionsOK
<1>8. EntriesOK' /\ BumpsOK'  BY <1>1 DEF EntriesOK, BumpsOK
<1>9. ReadersOK'
  <2> SUFFICES ASSUME NEW r \in Readers
               PROVE  floor[r] <= db /\ reader'[r].step \in {"idle", "done"}
      BY <1>1 DEF ReadersOK, InFlight
  <2>1. floor[r] <= db  BY <1>2 DEF IInv, ReadersOK, VersionsOK, Data
  <2> QED BY <1>1, <1>4, <2>1
<1> QED BY <1>6, <1>7, <1>8, <1>9 DEF IInv

LEMMA StutterOK == ASSUME IInv, UNCHANGED vars PROVE IInv'
<1>1. TypeOK' /\ VersionsOK' /\ EntriesOK' /\ BumpsOK'
      BY DEF vars, IInv, TypeOK, VersionsOK, EntriesOK, BumpsOK
<1>2. ReadersOK'  BY DEF vars, IInv, ReadersOK, InFlight
<1> QED BY <1>1, <1>2 DEF IInv

LEMMA StepOK == ASSUME IInv, [Next]_vars PROVE IInv'
<1>1. CASE \E r \in Readers : ReaderStep(r)
      BY <1>1, GetVersionOK, LookupOK, QueryOK, PutOK, ReaderDiesOK DEF ReaderStep
<1>2. CASE \E w \in Writers : WriterStep(w)
      BY <1>2, CommitOK, BumpOK, SaveSeoOK, WriterDiesOK DEF WriterStep
<1>3. CASE \E v \in 0..last : Expire(v)  BY <1>3, ExpireOK
<1>4. CASE Flush  BY <1>4, FlushOK
<1>5. CASE UNCHANGED vars  BY <1>5, StutterOK
<1> QED BY <1>1, <1>2, <1>3, <1>4, <1>5 DEF Next

-----------------------------------------------------------------------------
(* Results *)

LEMMA Invariance == Spec => []IInv
<1>1. Init => IInv  BY InitOK
<1>2. IInv /\ [Next]_vars => IInv'  BY StepOK
<1> QED BY <1>1, <1>2, PTL DEF Spec

\* CacheVersionManager and EloquentCache keep their data well typed.
THEOREM TypeCorrect == Spec => []TypeOK
<1>1. IInv => TypeOK  BY DEF IInv
<1> QED BY <1>1, Invariance, PTL

\* When no writer is between its commit and CacheVersionManager::bump and none
\* skipped the bump, the entry in force is the data of the database.
THEOREM ServesCurrentData == Spec => []ServesTheDatabase
<1>1. ASSUME IInv PROVE ServesTheDatabase
  <2> SUFFICES ASSUME owes = {}, ~lost, entries[version] # None PROVE entries[version] = db
      BY DEF ServesTheDatabase
  <2>1. bumped = db  BY <1>1 DEF IInv, BumpsOK
  <2>2. version \in 0..last /\ entries[version] \in Data /\ db \in Data
        BY <1>1 DEF IInv, TypeOK
  <2>3. db <= entries[version] /\ entries[version] <= db
        BY <1>1, <2>1, <2>2 DEF IInv, VersionsOK, EntriesOK
  <2> QED BY <2>2, <2>3 DEF Data
<1> QED BY <1>1, Invariance, PTL

-----------------------------------------------------------------------------
(* The cache implements FreshReads *)

Shown(r) == [floor |-> floor[r],
             value |-> IF reader[r].step = "done" THEN reader[r].value ELSE None]
Reads == [r \in Readers |-> Shown(r)]

\* A step that leaves every reader's floor and result alone shows no read.
LEMMA SameReads ==
    ASSUME \A r \in Readers : Shown(r)' = Shown(r)
    PROVE  Reads' = Reads
BY DEF Reads

\* A reader's step that changes what it shows of one read.
LEMMA OneRead ==
    ASSUME NEW r \in Readers, NEW new, Shown(r)' = new,
           \A u \in Readers \ {r} : Shown(u)' = Shown(u)
    PROVE  Reads' = [Reads EXCEPT ![r] = new]
BY DEF Reads

LEMMA OthersKept ==
    ASSUME IInv, NEW r \in Readers, NEW q, reader' = [reader EXCEPT ![r] = q],
           \A u \in Readers \ {r} : floor'[u] = floor[u]
    PROVE  reader'[r] = q /\ \A u \in Readers \ {r} : Shown(u)' = Shown(u)
<1>1. reader'[r] = q /\ \A u \in Readers \ {r} : reader'[u] = reader[u]
      BY DEF IInv, TypeOK
<1> QED BY <1>1 DEF Shown

LEMMA PromiseInit == ASSUME Init PROVE Promise!Init
<1>1. db = 0 /\ bumped = 0 /\ reader = [r \in Readers |-> Idle] /\ floor = [r \in Readers |-> 0]
      BY DEF Init
<1>2. Reads = [r \in Readers |-> [floor |-> 0, value |-> None]]
      BY <1>1 DEF Reads, Shown, Idle
<1> QED BY <1>1, <1>2 DEF Promise!Init, Promise!Nothing, Reads, Shown, None

LEMMA StartsRead ==
    ASSUME IInv, NEW r \in Readers, GetVersion(r)
    PROVE  Promise!Start(r)
<1>1. /\ reader' = [reader EXCEPT ![r] = [step |-> "lookup", version |-> version, value |-> None]]
      /\ floor' = [floor EXCEPT ![r] = bumped] /\ db' = db /\ bumped' = bumped
      BY DEF GetVersion, writing
<1>2. floor \in [Readers -> Data]  BY DEF IInv, TypeOK
<1>3. floor'[r] = bumped /\ \A u \in Readers \ {r} : floor'[u] = floor[u]  BY <1>1, <1>2
<1> DEFINE q == [step |-> "lookup", version |-> version, value |-> None]
<1>4. reader'[r].step = "lookup" /\ \A u \in Readers \ {r} : Shown(u)' = Shown(u)
  <2>1. q.step = "lookup" /\ reader' = [reader EXCEPT ![r] = q]  BY <1>1
  <2> HIDE DEF q
  <2> QED BY <2>1, <1>3, OthersKept
<1>5. Shown(r)' = [floor |-> bumped, value |-> None]  BY <1>3, <1>4 DEF Shown
<1>6. Reads' = [Reads EXCEPT ![r] = [floor |-> bumped, value |-> None]]
      BY <1>4, <1>5, OneRead
<1> QED BY <1>1, <1>6 DEF Promise!Start, Promise!Nothing, Reads, Shown, None

\* Both ways to finish a read: a hit, and a miss once the entry is stored.
LEMMA ReturnsRead ==
    ASSUME IInv, NEW r \in Readers, NEW v \in Data, reader[r].step # "done",
           floor[r] <= v, v <= db, floor' = floor, db' = db, bumped' = bumped,
           NEW q, reader' = [reader EXCEPT ![r] = q], q.step = "done", q.value = v
    PROVE  Promise!Return(r)
<1>1. reader'[r] = q /\ \A u \in Readers \ {r} : Shown(u)' = Shown(u)
      BY OthersKept
<1>2. Shown(r)' = [floor |-> floor[r], value |-> v]  BY <1>1 DEF Shown
<1>3. Reads' = [Reads EXCEPT ![r] = [floor |-> floor[r], value |-> v]]
      BY <1>1, <1>2, OneRead
<1>4. Reads[r] = [floor |-> floor[r], value |-> None]  BY DEF Reads, Shown
<1>5. v \in Reads[r].floor..db
      BY <1>4, BoundsAssumption DEF IInv, TypeOK, Data
<1>6. Reads' = [Reads EXCEPT ![r].value = v]
  <2>1. [Reads[r] EXCEPT !.value = v] = [floor |-> floor[r], value |-> v]  BY <1>4
  <2>2. [Reads EXCEPT ![r].value = v] = [Reads EXCEPT ![r] = [Reads[r] EXCEPT !.value = v]]
        OBVIOUS
  <2> QED BY <1>3, <2>1, <2>2
<1>7. Reads[r].value = -1  BY <1>4 DEF None
<1> QED BY <1>5, <1>6, <1>7 DEF Promise!Return, Promise!Nothing, Reads, Shown

LEMMA ReaderRefines ==
    ASSUME IInv, NEW r \in Readers, ReaderStep(r)
    PROVE  [Promise!Next]_(Promise!vars)
<1>1. CASE GetVersion(r)  BY <1>1, StartsRead DEF Promise!Next
<1>2. CASE Lookup(r)
  <2>1. reader[r].step = "lookup" /\ floor' = floor /\ db' = db /\ bumped' = bumped
        BY <1>2 DEF Lookup, writing
  <2>2. CASE entries[reader[r].version] # None
    <3> DEFINE hit == entries[reader[r].version]
               q == [reader[r] EXCEPT !.step = "done", !.value = hit]
               R == [step: ReaderSteps, version: 0..last, value: Data \cup {None}]
    <3>1. reader \in [Readers -> R] /\ reader[r] \in R  BY DEF IInv, TypeOK
    <3>2. reader' = [reader EXCEPT ![r] = q] /\ q.step = "done" /\ q.value = hit
          BY <1>2, <2>2, <3>1 DEF Lookup
    <3>3. reader[r].version \in 0..last  BY <3>1
    <3>4. hit \in Data /\ since[reader[r].version] \in Data /\ floor[r] \in Data
          BY <2>2, <3>3 DEF IInv, TypeOK
    <3>5. floor[r] <= since[reader[r].version] /\ since[reader[r].version] <= hit /\ hit <= db
          BY <2>1, <2>2, <3>3 DEF IInv, ReadersOK, EntriesOK, InFlight
    <3>6. floor[r] <= hit  BY <3>4, <3>5 DEF Data
    <3> HIDE DEF q, hit
    <3>7. Promise!Return(r)  BY <2>1, <3>2, <3>4, <3>5, <3>6, ReturnsRead
    <3> QED BY <3>7 DEF Promise!Next
  <2>3. CASE entries[reader[r].version] = None
    <3> DEFINE q == [reader[r] EXCEPT !.step = "query"]
    <3>1. reader' = [reader EXCEPT ![r] = q] /\ q.step = "query"
          BY <1>2, <2>3 DEF Lookup, IInv, TypeOK
    <3> HIDE DEF q
    <3>2. \A u \in Readers : Shown(u)' = Shown(u)
          BY <2>1, <3>1, OthersKept DEF Shown
    <3> QED BY <2>1, <3>2, SameReads DEF Promise!vars, Reads, Shown
  <2> QED BY <2>2, <2>3
<1>3. CASE Query(r)
  <2> DEFINE q == [reader[r] EXCEPT !.step = "put", !.value = db]
  <2>1. /\ reader[r].step = "query" /\ floor' = floor /\ db' = db /\ bumped' = bumped
        /\ reader' = [reader EXCEPT ![r] = q] /\ q.step = "put"
        BY <1>3 DEF Query, writing, IInv, TypeOK
  <2> HIDE DEF q
  <2>2. \A u \in Readers : Shown(u)' = Shown(u)  BY <2>1, OthersKept DEF Shown
  <2> QED BY <2>1, <2>2, SameReads DEF Promise!vars, Reads, Shown
<1>4. CASE Put(r)
  <2> DEFINE q == [reader[r] EXCEPT !.step = "done"]
  <2>1. reader \in [Readers -> [step: ReaderSteps, version: 0..last, value: Data \cup {None}]]
        BY DEF IInv, TypeOK
  <2>2. /\ reader[r].step = "put" /\ floor' = floor /\ db' = db /\ bumped' = bumped
        /\ reader' = [reader EXCEPT ![r] = q] /\ q.step = "done" /\ q.value = reader[r].value
        BY <1>4, <2>1 DEF Put, writing
  <2> HIDE DEF q
  <2>3. reader[r].version \in 0..last /\ reader[r].value \in Data
        BY <2>1, <2>2 DEF IInv, TypeOK
  <2>4. since[reader[r].version] \in Data /\ floor[r] \in Data  BY <2>3 DEF IInv, TypeOK
  <2>5. floor[r] <= since[reader[r].version] /\ since[reader[r].version] <= reader[r].value
        /\ reader[r].value <= db
        BY <2>2 DEF IInv, ReadersOK, InFlight
  <2>6. floor[r] <= reader[r].value  BY <2>3, <2>4, <2>5 DEF Data
  <2>7. Promise!Return(r)  BY <2>2, <2>3, <2>5, <2>6, ReturnsRead
  <2> QED BY <2>7 DEF Promise!Next
<1>5. CASE ReaderDies(r)
  <2>1. /\ reader[r].step # "done" /\ floor' = floor /\ db' = db /\ bumped' = bumped
        /\ reader' = [reader EXCEPT ![r] = Idle] /\ Idle.step = "idle"
        BY <1>5 DEF ReaderDies, writing, Idle
  <2>2. \A u \in Readers : Shown(u)' = Shown(u)  BY <2>1, OthersKept DEF Shown
  <2> QED BY <2>1, <2>2, SameReads DEF Promise!vars, Reads, Shown
<1> QED BY <1>1, <1>2, <1>3, <1>4, <1>5 DEF ReaderStep

LEMMA WriterRefines ==
    ASSUME IInv, NEW w \in Writers, WriterStep(w)
    PROVE  [Promise!Next]_(Promise!vars)
<1>1. reader' = reader /\ floor' = floor
      BY DEF WriterStep, Commit, Bump, SaveSeo, WriterDies
<1>2. Reads' = Reads  BY <1>1 DEF Reads, Shown
<1>3. CASE (\E seo \in BOOLEAN : Commit(w, seo)) \/ SaveSeo(w)
  <2>1. db < MaxWrites /\ db' = db + 1 /\ bumped' = bumped  BY <1>3 DEF Commit, SaveSeo
  <2>2. Promise!Commit  BY <1>2, <2>1 DEF Promise!Commit, Reads, Shown
  <2> QED BY <2>2 DEF Promise!Next
<1>4. CASE Bump(w)
  <2>1. bumped' = db /\ db' = db  BY <1>4 DEF Bump
  <2>2. bumped' \in bumped..db
        BY <2>1 DEF IInv, TypeOK, VersionsOK, Data
  <2>3. Promise!Announce  BY <1>2, <2>1, <2>2 DEF Promise!Announce, Reads, Shown
  <2> QED BY <2>3 DEF Promise!Next
<1>5. CASE WriterDies(w)
      BY <1>2, <1>5 DEF WriterDies, Promise!vars, Reads, Shown
<1> QED BY <1>3, <1>4, <1>5 DEF WriterStep

LEMMA StepRefines ==
    ASSUME IInv, [Next]_vars
    PROVE  [Promise!Next]_(Promise!vars)
<1>1. CASE \E r \in Readers : ReaderStep(r)  BY <1>1, ReaderRefines
<1>2. CASE \E w \in Writers : WriterStep(w)  BY <1>2, WriterRefines
<1>3. CASE \E v \in 0..last : Expire(v)
      BY <1>3 DEF Expire, writing, Promise!vars
<1>4. CASE Flush
  <2>1. /\ bumped' = db /\ db' = db /\ floor' = floor
        /\ reader' = [r \in Readers |-> IF reader[r].step = "done" THEN reader[r] ELSE Idle]
        BY <1>4 DEF Flush
  <2>2. \A r \in Readers : Shown(r)' = Shown(r)  BY <2>1 DEF Shown, Idle
  <2>3. bumped' \in bumped..db  BY <2>1 DEF IInv, TypeOK, VersionsOK, Data
  <2>4. Promise!Announce  BY <2>1, <2>2, <2>3, SameReads DEF Promise!Announce, Reads, Shown
  <2> QED BY <2>4 DEF Promise!Next
<1>5. CASE UNCHANGED vars
      BY <1>5 DEF vars, Promise!vars
<1> QED BY <1>1, <1>2, <1>3, <1>4, <1>5 DEF Next

\* EloquentCache under CacheVersionManager implements FreshReads: no read that
\* begins after a bump returns what was there before the bumped change.
THEOREM Refinement == Spec => ReadsAreFresh
<1>1. Init => Promise!Init  BY PromiseInit
<1>2. IInv /\ [Next]_vars => [Promise!Next]_(Promise!vars)  BY StepRefines
<1> QED BY <1>1, <1>2, Invariance, PTL DEF Spec, ReadsAreFresh, Promise!Spec
=============================================================================
