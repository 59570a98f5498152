------------------------- MODULE PostPipelineProofs -------------------------
(***************************************************************************)
(* Theorems about PostPipeline: for any number of workers, texts, requests *)
(* and crashes.                                                            *)
(***************************************************************************)
EXTENDS PostPipeline, FiniteSetTheorems, TLAPS

\* The operations that reach the save of the row.
Saves == {"updateFromWeb", "updateFromAdmin", "approve", "reject", "publishDue",
          "restoreVersion", "destroy", "restore"}

\* What a request must hold at each of its steps before the row is written.
RequestOK(q) ==
    /\ q.step = "load" => q.op = "updateFromWeb" /\ q.body \in Bodies
    /\ q.step = "snapshot" => q.op \in {"updateFromWeb", "updateFromAdmin"}
    /\ q.step = "commit" => q.op \in Saves
    /\ q.step \in {"snapshot", "commit"} =>
          /\ q.model \in PostRow
          /\ q.body \in Bodies
          /\ q.was = q.model.status
          /\ q.model.status = "published" => q.model.dated
          /\ q.op = "updateFromWeb" /\ q.status = "published" => q.all

RequestsOK == \A w \in Everyone : RequestOK(req[w])

\* Requests and the cache presuppose the row, and published_at is never taken
\* back: whatever model was loaded, a date it carries is still in the row.
HoldsRow ==
    \A w \in Everyone :
        /\ req[w].step # "done" => row # NoPost
        /\ req[w].step \in {"snapshot", "commit"} => (req[w].model.dated => row.dated)

EntryOK ==
    entry # NoEntry =>
        /\ row # NoPost
        /\ entry.dated => row.dated
        /\ entry.status = "published" => entry.dated

IInv == /\ TypeOK
        /\ RequestsOK
        /\ HoldsRow
        /\ EntryOK
        /\ PublishedHasDate
        /\ CacheServesCurrent
-----------------------------------------------------------------------------
(* What one request's step needs to show *)

\* Worker w moves on to request q: requests stay well formed when q is and the
\* row keeps existing and keeps its date.
LEMMA RequestChange ==
    ASSUME IInv, NEW w \in Everyone, NEW q \in Request, req' = [req EXCEPT ![w] = q],
           RequestOK(q),
           row # NoPost => row' # NoPost /\ (row.dated => row'.dated),
           q.step # "done" => row' # NoPost,
           q.step \in {"snapshot", "commit"} => (q.model.dated => row'.dated)
    PROVE  req' \in [Everyone -> Request] /\ RequestsOK' /\ HoldsRow'
<1>1. req \in [Everyone -> Request]  BY DEF IInv, TypeOK
<1>2. req' \in [Everyone -> Request]  BY <1>1
<1>3. req'[w] = q /\ \A u \in Everyone \ {w} : req'[u] = req[u]  BY <1>1
<1>4. RequestsOK'
  <2> SUFFICES ASSUME NEW u \in Everyone PROVE RequestOK(req'[u])  BY DEF RequestsOK
  <2>1. CASE u = w  BY <2>1, <1>3
  <2>2. CASE u # w  BY <2>2, <1>3 DEF IInv, RequestsOK
  <2> QED BY <2>1, <2>2
<1>5. HoldsRow'
  <2> SUFFICES ASSUME NEW u \in Everyone
               PROVE  /\ req'[u].step # "done" => row' # NoPost
                      /\ req'[u].step \in {"snapshot", "commit"} => (req'[u].model.dated => row'.dated)
      BY DEF HoldsRow
  <2>1. CASE u = w  BY <2>1, <1>3
  <2>2. CASE u # w  BY <2>2, <1>3 DEF IInv, HoldsRow
  <2> QED BY <2>1, <2>2
<1> QED BY <1>2, <1>4, <1>5

\* The cache promise survives a step that leaves row and entry alone unless it
\* pays off a bump without making one.
LEMMA CacheKept ==
    ASSUME IInv, NEW w \in Everyone, NEW q \in Request, req' = [req EXCEPT ![w] = q],
           row' = row, entry' = entry, lostBump => lostBump', Owes(req[w]) => Owes(q) \/ lostBump'
    PROVE  CacheServesCurrent'
<1>1. req \in [Everyone -> Request]  BY DEF IInv, TypeOK
<1>2. req'[w] = q /\ \A u \in Everyone \ {w} : req'[u] = req[u]  BY <1>1
<1>3. SUFFICES ASSUME entry' # NoEntry, ~SameForReaders(entry, row), ~lostBump'
               PROVE  \E u \in Everyone : Owes(req'[u])
      BY DEF CacheServesCurrent, OwesBump
<1>4. PICK u \in Everyone : Owes(req[u])
      BY <1>3 DEF IInv, CacheServesCurrent, OwesBump
<1>5. CASE u = w  BY <1>2, <1>3, <1>4, <1>5
<1>6. CASE u # w  BY <1>2, <1>4, <1>6
<1> QED BY <1>5, <1>6

\* The next step of a request is one of the steps.
LEMMA FollowType ==
    ASSUME NEW op, NEW step
    PROVE  /\ Follow(op, step) \in Steps \ {"load"}
           /\ Follow(op, step) = "snapshot" => step = "load"
           /\ Follow(op, step) = "commit" => step = "snapshot"
BY DEF Follow, Steps

\* A save keeps the row a row, keeps a date the model had, and dates every
\* model it publishes.
LEMMA AttributesType ==
    ASSUME NEW q \in Request, q.op \in Saves, q.model \in PostRow, q.body \in Bodies,
           q.model.status = "published" => q.model.dated
    PROVE  /\ Attributes(q) \in PostRow
           /\ q.model.dated => Attributes(q).dated
           /\ Attributes(q).status = "published" => Attributes(q).dated
           /\ Attributes(q).due = q.model.due
           /\ q.op # "restore" /\ q.model.deleted => Attributes(q).deleted
<1>1. q.status \in Statuses  BY DEF Request
<1>2. /\ Filled(q) \in PostRow
      /\ q.model.dated => Filled(q).dated
      /\ Filled(q).status = "published" => Filled(q).dated
      /\ Filled(q).due = q.model.due
      /\ q.op # "restore" /\ q.model.deleted => Filled(q).deleted
  <2>1. CASE q.op \in {"approve", "publishDue"}
        BY <2>1 DEF Filled, Approved, PostRow, Statuses
  <2>2. CASE q.op = "reject"  BY <2>2 DEF Filled, Rejected, PostRow, Statuses
  <2>3. CASE q.op \in {"destroy", "restore"}  BY <2>3 DEF Filled, PostRow
  <2>4. CASE q.op \in {"updateFromWeb", "updateFromAdmin", "restoreVersion"}
        BY <1>1, <2>4 DEF Filled, Updated, PostRow
  <2> QED BY <2>1, <2>2, <2>3, <2>4 DEF Saves
<1>3. CASE q.op = "destroy"  BY <1>2, <1>3 DEF Attributes
<1>4. CASE q.op # "destroy"  BY <1>2, <1>4 DEF Attributes, Saving, PostRow
<1> QED BY <1>3, <1>4

\* The row after a save, whatever model it went through.
LEMMA SavedType ==
    ASSUME NEW model \in PostRow, NEW new \in PostRow, row \in PostRow,
           model.dated => row.dated, model.dated => new.dated,
           new.status = "published" => new.dated,
           row.status = "published" => row.dated
    PROVE  /\ Saved(model, new) \in PostRow
           /\ row.dated => Saved(model, new).dated
           /\ Saved(model, new).status = "published" => Saved(model, new).dated
BY DEF Saved, Column, PostRow

-----------------------------------------------------------------------------
(* Each action keeps the invariant *)

LEMMA InitOK == ASSUME Init PROVE IInv
<1>1. \A r \in Settled : r \in PostRow /\ (r.status = "published" => r.dated)
  <2> SUFFICES ASSUME NEW s \in Starts \ {"absent"}, NEW b \in Bodies, NEW d \in Schedules,
                      NEW r, r = [status |-> s, isPublished |-> s = "published", body |-> b,
                                  dated |-> s = "published", due |-> d, deleted |-> FALSE]
               PROVE  r \in PostRow /\ (r.status = "published" => r.dated)
      BY DEF Settled
  <2>1. s \in Statuses /\ d \in BOOLEAN  BY StartsAssumption
  <2> QED BY <2>1 DEF PostRow
<1>2. row = NoPost \/ (row \in PostRow /\ (row.status = "published" => row.dated))
      BY <1>1 DEF Init
<1>3. Resting \in Request  BY DEF Resting, Request, Operations, Steps, Statuses
<1>4. TypeOK
  <2>1. announced \in BOOLEAN  BY DEF Init
  <2>2. vetted \subseteq Bodies  BY <1>2 DEF Init, PostRow
  <2>3. req \in [Everyone -> Request]  BY <1>3 DEF Init
  <2>4. /\ row \in PostRow \cup {NoPost}
        /\ entry \in PostRow \cup {NoEntry}
        /\ journal \in Journal
        /\ requests \in 0..MaxRequests /\ crashes \in 0..MaxCrashes
        /\ stored \in [Everyone -> Nat]
        BY <1>2, BoundsAssumption DEF Init, Journal
  <2>5. lostBump \in BOOLEAN /\ broken \in BOOLEAN  BY DEF Init
  <2>6. /\ IsFiniteSet(versions)
        /\ \A v \in versions : v.status \in Statuses /\ v.body \in Bodies
        /\ \E top \in Nat :
              /\ \A v \in versions : v.num \in 1..top
              /\ versions # {} => \E v \in versions : v.num = top
    <3>1. PICK b \in Bodies :
            versions = {[num |-> n, status |-> "draft", body |-> b] : n \in 1..Earlier}
          BY DEF Init
    <3>2. Earlier \in Nat  BY EarlierAssumption DEF MAX_VERSIONS
    <3> DEFINE f == [n \in 1..Earlier |-> [num |-> n, status |-> "draft", body |-> b]]
    <3>3. IsFiniteSet(1..Earlier)  BY <3>2, FS_Interval
    <3>4. IsFiniteSet({f[n] : n \in 1..Earlier})
      <4> DEFINE T == {f[n] : n \in 1..Earlier}
      <4>1. f \in Surjection(1..Earlier, T)  BY DEF Surjection
      <4> QED BY <3>3, <4>1, FS_Surjection
    <3>5. versions = {f[n] : n \in 1..Earlier}  BY <3>1
    <3>6. \A v \in versions : v.status \in Statuses /\ v.body \in Bodies /\ v.num \in 1..Earlier
          BY <3>1 DEF Statuses
    <3>7. CASE Earlier = 0
      <4>1. versions = {}  BY <3>1, <3>7
      <4> QED BY <3>2, <3>4, <3>5, <3>6, <4>1
    <3>8. CASE Earlier # 0
      <4>1. [num |-> Earlier, status |-> "draft", body |-> b] \in versions
            BY <3>1, <3>2, <3>8
      <4>2. \E v \in versions : v.num = Earlier  BY <4>1
      <4> QED BY <3>2, <3>4, <3>5, <3>6, <4>2
    <3> QED BY <3>7, <3>8
  <2> QED BY <2>1, <2>2, <2>3, <2>4, <2>5, <2>6 DEF TypeOK
<1>5. RequestsOK /\ HoldsRow
      BY DEF Init, Resting, RequestsOK, RequestOK, HoldsRow
<1>6. EntryOK /\ PublishedHasDate /\ CacheServesCurrent
      BY <1>2 DEF Init, EntryOK, PublishedHasDate, CacheServesCurrent, Exists
<1> QED BY <1>4, <1>5, <1>6 DEF IInv

LEMMA CreateOK ==
    ASSUME IInv, NEW w \in Workers, NEW op \in {"createForAuthor", "createFromAdmin"},
           NEW status \in Statuses, NEW body \in Bodies, Create(w, op, status, body)
    PROVE  IInv'
<1> DEFINE q == [Resting EXCEPT !.op = op, !.step = "taxonomy", !.status = status]
<1>1. w \in Everyone  BY DEF Everyone
<1>2. q \in Request /\ RequestOK(q)
      BY DEF Resting, Request, RequestOK, Operations, Steps, Statuses
<1>3. row' \in PostRow /\ row' # NoPost /\ (row'.status = "published" => row'.dated)
  <2>1. row' = [status |-> status, isPublished |-> status = "published", body |-> body,
                dated |-> status = "published", due |-> FALSE, deleted |-> FALSE]
        BY DEF Create
  <2>2. (status = "published") \in BOOLEAN  OBVIOUS
  <2>3. row' \in PostRow  BY <2>1, <2>2 DEF PostRow
  <2>4. row'.status = "published" => row'.dated  BY <2>1
  <2> QED BY <2>3, <2>4, SentinelAssumption
<1>4. row = NoPost /\ entry' = entry /\ req' = [req EXCEPT ![w] = q]
      /\ requests' = requests + 1 /\ requests < MaxRequests
      BY DEF Create, Begin
<1>5. req' \in [Everyone -> Request] /\ RequestsOK' /\ HoldsRow'
  <2>1. q.step = "taxonomy"  BY DEF Resting
  <2> QED BY <1>1, <1>2, <1>3, <1>4, <2>1, RequestChange
<1>6. TypeOK'
  <2>1. vetted' \subseteq Bodies  BY DEF Create, IInv, TypeOK
  <2>2. announced' = FALSE
        /\ UNCHANGED <<versions, entry, journal, stored, lostBump, broken, crashes>>
        BY DEF Create
  <2>3. requests' \in 0..MaxRequests  BY <1>4, BoundsAssumption DEF IInv, TypeOK
  <2> QED BY <1>3, <1>5, <2>1, <2>2, <2>3 DEF IInv, TypeOK
<1>7. entry' = NoEntry  BY <1>4 DEF IInv, EntryOK
<1>8. EntryOK' /\ CacheServesCurrent'  BY <1>7 DEF EntryOK, CacheServesCurrent
<1>9. PublishedHasDate'  BY <1>3 DEF PublishedHasDate
<1> QED BY <1>5, <1>6, <1>8, <1>9 DEF IInv

\* The part of the invariant that only looks at row and entry.
LEMMA RowAndEntryKept ==
    ASSUME IInv, row' = row, entry' = entry
    PROVE  EntryOK' /\ PublishedHasDate'
BY DEF IInv, EntryOK, PublishedHasDate, Exists

LEMMA BeginFilamentOK ==
    ASSUME IInv, NEW w \in Workers, NEW op \in Saves, NEW step \in {"snapshot", "commit"},
           step = "snapshot" => op = "updateFromAdmin", op # "updateFromWeb",
           NEW status \in Statuses, NEW body \in Bodies, BeginFilament(w, op, step, status, body)
    PROVE  IInv'
<1> DEFINE q == [Resting EXCEPT !.op = op, !.step = step, !.model = row, !.was = row.status,
                                !.status = status, !.body = body]
<1>1. w \in Everyone  BY DEF Everyone
<1>2. row \in PostRow /\ row # NoPost /\ (row.status = "published" => row.dated)
      BY DEF BeginFilament, IInv, TypeOK, PublishedHasDate, Exists
<1>3. q \in Request /\ RequestOK(q) /\ q.model = row /\ q.step = step
  <2>1. row.status \in Statuses  BY <1>2 DEF PostRow
  <2>2. op \in Operations /\ step \in Steps  BY DEF Saves, Operations, Steps
  <2>3. q \in Request  BY <1>2, <2>1, <2>2 DEF Resting, Request
  <2>4. q.op = op /\ q.step = step /\ q.model = row /\ q.body = body  BY DEF Resting
  <2> QED BY <1>2, <2>3, <2>4 DEF RequestOK
<1>4. req' = [req EXCEPT ![w] = q] /\ requests' \in 0..MaxRequests
      BY BoundsAssumption DEF BeginFilament, Begin, IInv, TypeOK
<1>5. row' = row /\ entry' = entry /\ lostBump' = lostBump
      /\ UNCHANGED <<versions, observers, broken, crashes>>
      BY DEF BeginFilament
<1>6. req' \in [Everyone -> Request] /\ RequestsOK' /\ HoldsRow'
      BY <1>1, <1>2, <1>3, <1>4, <1>5, RequestChange
<1>7. TypeOK'  BY <1>4, <1>5, <1>6 DEF IInv, TypeOK, observers
<1>8. CacheServesCurrent'
  <2>1. ~Owes(req[w])  BY DEF BeginFilament, Begin, Idle, Owes
  <2> QED BY <1>1, <1>3, <1>4, <1>5, <2>1, CacheKept
<1> QED BY <1>5, <1>6, <1>7, <1>8, RowAndEntryKept DEF IInv

\* What a request gets from the cache or from the row.
LEMMA FetchedOK ==
    ASSUME IInv, Found
    PROVE  /\ row \in PostRow /\ row # NoPost
           /\ Fetched \in PostRow /\ Fetched # NoEntry
           /\ Fetched.dated => row.dated
           /\ Fetched.status = "published" => Fetched.dated
           /\ entry # NoEntry => Fetched = entry
           /\ entry = NoEntry => Fetched = row
<1>1. CASE entry # NoEntry
      BY <1>1 DEF Fetched, IInv, TypeOK, EntryOK
<1>2. CASE entry = NoEntry
      BY <1>2, SentinelAssumption DEF Fetched, Found, IInv, TypeOK, PublishedHasDate, Exists
<1> QED BY <1>1, <1>2

\* Worker w fills the cache with what it fetched and goes on to q.
LEMMA FetchKeeps ==
    ASSUME IInv, Found, entry' = Fetched, row' = row, lostBump' = lostBump,
           NEW w \in Everyone, ~Owes(req[w]), NEW q, req' = [req EXCEPT ![w] = q]
    PROVE  EntryOK' /\ PublishedHasDate' /\ CacheServesCurrent'
<1>1. EntryOK' /\ PublishedHasDate'
      BY FetchedOK DEF IInv, EntryOK, PublishedHasDate, Exists
<1>2. CacheServesCurrent'
  <2>1. CASE entry = NoEntry
        BY <2>1, FetchedOK DEF CacheServesCurrent, SameForReaders
  <2>2. CASE entry # NoEntry
    <3>1. entry' = entry  BY <2>2, FetchedOK
    <3>2. req \in [Everyone -> Request]  BY DEF IInv, TypeOK
    <3>3. ASSUME NEW u \in Everyone, Owes(req[u]) PROVE Owes(req'[u])
          BY <3>2, <3>3
    <3> QED BY <2>2, <3>1, <3>3 DEF IInv, CacheServesCurrent, OwesBump, SameForReaders
  <2> QED BY <2>1, <2>2
<1> QED BY <1>1, <1>2

LEMMA AuthorizeWebOK ==
    ASSUME IInv, NEW w \in Workers, NEW role \in Roles, NEW publish \in BOOLEAN,
           NEW body \in Bodies, AuthorizeWeb(w, role, publish, body)
    PROVE  IInv'
<1> DEFINE q == [Resting EXCEPT !.op = "updateFromWeb", !.step = "load", !.body = body,
                                !.all = CanManageAll(role),
                                !.publish = CanManageAll(role) /\ publish]
<1>1. w \in Everyone /\ ~Owes(req[w])
      BY DEF Everyone, AuthorizeWeb, Begin, Idle, Owes
<1>2. CanManageAll(role) \in BOOLEAN /\ (CanManageAll(role) /\ publish) \in BOOLEAN
      BY DEF CanManageAll
<1>3. q \in Request /\ RequestOK(q) /\ q.step = "load"
      BY <1>2 DEF Resting, Request, RequestOK, Operations, Steps, Statuses
<1>4. /\ Found /\ entry' = Fetched /\ req' = [req EXCEPT ![w] = q]
      /\ row' = row /\ lostBump' = lostBump
      /\ UNCHANGED <<versions, observers, broken, crashes>>
      BY DEF AuthorizeWeb, Begin
<1>5. requests' \in 0..MaxRequests
      BY BoundsAssumption DEF AuthorizeWeb, Begin, IInv, TypeOK
<1>6. row \in PostRow /\ row # NoPost /\ Fetched \in PostRow  BY <1>4, FetchedOK
<1>7. req' \in [Everyone -> Request] /\ RequestsOK' /\ HoldsRow'
      BY <1>1, <1>3, <1>4, <1>6, RequestChange
<1>8. TypeOK'  BY <1>4, <1>5, <1>6, <1>7 DEF IInv, TypeOK, observers
<1>9. EntryOK' /\ PublishedHasDate' /\ CacheServesCurrent'  BY <1>1, <1>4, FetchKeeps
<1> QED BY <1>7, <1>8, <1>9 DEF IInv

LEMMA DestroyOK ==
    ASSUME IInv, NEW w \in Workers, Destroy(w)
    PROVE  IInv'
<1> DEFINE q == [Resting EXCEPT !.op = "destroy", !.step = "commit", !.model = Fetched,
                                !.was = Fetched.status, !.status = Fetched.status,
                                !.body = Fetched.body]
<1>1. w \in Everyone /\ ~Owes(req[w])  BY DEF Everyone, Destroy, Begin, Idle, Owes
<1>2. /\ Found /\ entry' = Fetched /\ req' = [req EXCEPT ![w] = q]
      /\ row' = row /\ lostBump' = lostBump
      /\ UNCHANGED <<versions, observers, broken, crashes>>
      BY DEF Destroy, Begin
<1>3. /\ row \in PostRow /\ row # NoPost /\ Fetched \in PostRow
      /\ Fetched.dated => row.dated
      /\ Fetched.status = "published" => Fetched.dated
      BY <1>2, FetchedOK
<1>4. q \in Request /\ RequestOK(q) /\ q.model = Fetched /\ q.step = "commit"
  <2>1. Fetched.status \in Statuses /\ Fetched.body \in Bodies  BY <1>3 DEF PostRow
  <2>2. q \in Request  BY <1>3, <2>1 DEF Resting, Request, Operations, Steps
  <2>3. q.op = "destroy" /\ q.step = "commit" /\ q.model = Fetched /\ q.body = Fetched.body
        BY DEF Resting
  <2> QED BY <1>3, <2>1, <2>2, <2>3 DEF RequestOK, Saves
<1>5. requests' \in 0..MaxRequests
      BY BoundsAssumption DEF Destroy, Begin, IInv, TypeOK
<1>6. req' \in [Everyone -> Request] /\ RequestsOK' /\ HoldsRow'
      BY <1>1, <1>2, <1>3, <1>4, RequestChange
<1>7. TypeOK'  BY <1>2, <1>3, <1>5, <1>6 DEF IInv, TypeOK, observers
<1>8. EntryOK' /\ PublishedHasDate' /\ CacheServesCurrent'  BY <1>1, <1>2, FetchKeeps
<1> QED BY <1>6, <1>7, <1>8 DEF IInv

LEMMA LoadWebOK ==
    ASSUME IInv, NEW w \in Everyone, LoadWeb(w)
    PROVE  IInv'
<1>1. ~Owes(req[w]) /\ req[w] \in Request /\ req[w].body \in Bodies
      /\ req[w].op = "updateFromWeb"
      BY DEF LoadWeb, At, Owes, IInv, TypeOK, RequestsOK, RequestOK
<1>2. /\ row' = row /\ lostBump' = lostBump
      /\ UNCHANGED <<versions, observers, broken, requests, crashes>>
      BY DEF LoadWeb
<1>3. CASE Found
  <2> DEFINE q == [req[w] EXCEPT !.step = "snapshot", !.model = Fetched, !.was = Fetched.status,
                      !.status = WebStatus(req[w].all, req[w].publish, Fetched),
                      !.publish = FALSE]
  <2>1. req \in [Everyone -> Request]  BY DEF IInv, TypeOK
  <2>2. entry' = Fetched /\ req' = [req EXCEPT ![w] = q]  BY <1>3, <2>1 DEF LoadWeb
  <2>3. /\ row \in PostRow /\ row # NoPost /\ Fetched \in PostRow
        /\ Fetched.dated => row.dated
        /\ Fetched.status = "published" => Fetched.dated
        BY <1>3, FetchedOK
  <2>4. q \in Request /\ RequestOK(q) /\ q.model = Fetched /\ q.step = "snapshot"
    <3>1. Fetched.status \in Statuses  BY <2>3 DEF PostRow
    <3>2. WebStatus(req[w].all, req[w].publish, Fetched) \in Statuses
          BY <3>1 DEF WebStatus, Statuses
    <3>3. q \in Request  BY <1>1, <2>3, <3>1, <3>2 DEF Request, Steps
    <3>4. /\ q.op = req[w].op /\ q.step = "snapshot" /\ q.model = Fetched /\ q.body = req[w].body
          /\ q.was = Fetched.status /\ q.all = req[w].all
          /\ q.status = WebStatus(req[w].all, req[w].publish, Fetched)
          BY <1>1 DEF Request
    <3>5. WebStatus(req[w].all, req[w].publish, Fetched) = "published" => req[w].all
          BY DEF WebStatus
    <3> QED BY <1>1, <2>3, <3>3, <3>4, <3>5 DEF RequestOK
  <2>5. req' \in [Everyone -> Request] /\ RequestsOK' /\ HoldsRow'
        BY <1>2, <2>2, <2>3, <2>4, RequestChange
  <2>6. TypeOK'  BY <1>2, <2>2, <2>3, <2>5 DEF IInv, TypeOK, observers
  <2>7. EntryOK' /\ PublishedHasDate' /\ CacheServesCurrent'
        BY <1>1, <1>2, <1>3, <2>2, FetchKeeps
  <2> QED BY <2>5, <2>6, <2>7 DEF IInv
<1>4. CASE ~Found
  <2>1. entry' = entry /\ req' = [req EXCEPT ![w] = Resting]  BY <1>4 DEF LoadWeb
  <2>2. Resting \in Request /\ RequestOK(Resting) /\ Resting.step = "done"
        BY DEF Resting, Request, RequestOK, Operations, Steps, Statuses
  <2>3. req' \in [Everyone -> Request] /\ RequestsOK' /\ HoldsRow'
        BY <1>2, <2>1, <2>2, RequestChange
  <2>4. TypeOK'  BY <1>2, <2>1, <2>3 DEF IInv, TypeOK, observers
  <2>5. CacheServesCurrent'  BY <1>1, <1>2, <2>1, <2>2, CacheKept
  <2> QED BY <1>2, <2>1, <2>3, <2>4, <2>5, RowAndEntryKept DEF IInv
<1> QED BY <1>3, <1>4

\* Moving a request on without touching its data.
LEMMA AdvanceOK ==
    ASSUME IInv, NEW w \in Everyone, Advance(w), req[w].step # "load", row' = row
    PROVE  /\ req' \in [Everyone -> Request] /\ RequestsOK' /\ HoldsRow'
           /\ \E q \in Request :
                 /\ req' = [req EXCEPT ![w] = q]
                 /\ IF Follow(req[w].op, req[w].step) = "done" THEN q = Resting
                    ELSE q.step = Follow(req[w].op, req[w].step) /\ q.op = req[w].op
<1> DEFINE next == Follow(req[w].op, req[w].step)
           q == IF next = "done" THEN Resting ELSE [req[w] EXCEPT !.step = next]
<1>1. req \in [Everyone -> Request] /\ req[w] \in Request  BY DEF IInv, TypeOK
<1>2. req' = [req EXCEPT ![w] = q]  BY <1>1 DEF Advance
<1>3. /\ next \in Steps \ {"load"}
      /\ next # "snapshot"
      /\ next = "commit" => req[w].step = "snapshot"
      BY FollowType
<1>4. Resting \in Request /\ RequestOK(Resting) /\ Resting.step = "done"
      BY DEF Resting, Request, RequestOK, Operations, Steps, Statuses
<1>5. CASE next = "done"
  <2>1. q = Resting  BY <1>5
  <2> HIDE DEF q
  <2>2. req' \in [Everyone -> Request] /\ RequestsOK' /\ HoldsRow'
        BY <1>2, <1>4, <2>1, RequestChange
  <2> QED BY <1>2, <1>4, <1>5, <2>1, <2>2
<1>6. CASE next # "done"
  <2> HIDE DEF next
  <2>1. /\ q \in Request /\ q.step = next /\ q.op = req[w].op
        /\ q.model = req[w].model /\ q.body = req[w].body /\ q.was = req[w].was
        /\ q.status = req[w].status /\ q.all = req[w].all
        BY <1>1, <1>3, <1>6 DEF Request
  <2>2. RequestOK(q)
    <3>1. next # "load" /\ next # "snapshot"  BY <1>3
    <3>2. ASSUME next = "commit"
          PROVE  /\ req[w].step = "snapshot" /\ req[w].op \in {"updateFromWeb", "updateFromAdmin"}
                 /\ req[w].model \in PostRow /\ req[w].body \in Bodies
                 /\ req[w].was = req[w].model.status
                 /\ req[w].model.status = "published" => req[w].model.dated
                 /\ req[w].op = "updateFromWeb" /\ req[w].status = "published" => req[w].all
          BY <1>3, <3>2 DEF IInv, RequestsOK, RequestOK
    <3> QED BY <2>1, <3>1, <3>2 DEF RequestOK, Saves
  <2>3. req[w].step # "done"
    <3> USE DEF next
    <3> QED BY <1>6, Zenon DEF Follow
  <2>4. row # NoPost  BY <2>3 DEF IInv, HoldsRow
  <2>5. next \in {"snapshot", "commit"} => (req[w].model.dated => row.dated)
        BY <1>3 DEF IInv, HoldsRow
  <2> HIDE DEF q
  <2>6. req' \in [Everyone -> Request] /\ RequestsOK' /\ HoldsRow'
        BY <1>2, <2>1, <2>2, <2>4, <2>5, RequestChange
  <2> QED BY <1>2, <1>6, <2>1, <2>6 DEF next
<1> QED BY <1>5, <1>6

\* The snapshot a request stores: its number is above those in use, so that
\* pruning keeps it.
LEMMA SnapshotStored ==
    ASSUME IInv, NEW w \in Everyone, Snapshot(w)
    PROVE  \E x : /\ x.num \in Nat \ {0}
                  /\ x.status = req[w].model.status /\ x.body = req[w].model.body
                  /\ \A v \in versions : v.num \in Nat /\ v.num < x.num
                  /\ versions' = Newest(versions \cup {x}) /\ x \in versions'
                  /\ stored' = [stored EXCEPT ![w] = x.num]
<1> DEFINE S == {0} \cup {v.num : v \in versions}
           next == 1 + Max(S)
           x == [num |-> next, status |-> req[w].model.status, body |-> req[w].model.body]
<1>1. PICK n \in Nat : /\ \A v \in versions : v.num \in 1..n
                       /\ versions # {} => \E v \in versions : v.num = n
      BY DEF IInv, TypeOK
<1>2. next \in Nat \ {0} /\ \A v \in versions : v.num \in Nat /\ v.num < next
  <2>1. \E m \in S : \A y \in S : m >= y
    <3>1. CASE versions = {}  BY <3>1
    <3>2. CASE versions # {}
      <4>1. n \in S /\ \A y \in S : n >= y  BY <1>1, <3>2
      <4> QED BY <4>1
    <3> QED BY <3>1, <3>2
  <2>2. Max(S) \in S /\ \A y \in S : Max(S) >= y  BY <2>1 DEF Max
  <2>3. S \subseteq Nat /\ \A v \in versions : v.num \in S  BY <1>1
  <2> HIDE DEF S
  <2>4. Max(S) \in Nat  BY <2>2, <2>3
  <2>5. ASSUME NEW v \in versions PROVE v.num \in Nat /\ v.num < next
    <3>1. v.num \in S /\ v.num \in Nat  BY <2>3
    <3>2. Max(S) >= v.num  BY <2>2, <3>1
    <3> QED BY <2>4, <3>1, <3>2
  <2>6. next \in Nat \ {0}  BY <2>4
  <2> QED BY <2>5, <2>6
<1>3. versions' = Newest(versions \cup {x}) /\ stored' = [stored EXCEPT ![w] = next]
      BY DEF Snapshot
<1> HIDE DEF next
<1>4. x.num = next /\ x.status = req[w].model.status /\ x.body = req[w].model.body
      OBVIOUS
<1> HIDE DEF x
<1>5. x \in versions'
  <2>1. {u \in versions \cup {x} : u.num > x.num} = {}  BY <1>2, <1>4
  <2>2. Cardinality({u \in versions \cup {x} : u.num > x.num}) < MAX_VERSIONS
        BY <2>1, FS_EmptySet DEF MAX_VERSIONS
  <2> QED BY <1>3, <2>2 DEF Newest
<1> QED BY <1>2, <1>3, <1>4, <1>5

LEMMA SnapshotOK ==
    ASSUME IInv, NEW w \in Everyone, Snapshot(w)
    PROVE  IInv'
<1>1. /\ req[w].step = "snapshot" /\ Advance(w)
      /\ UNCHANGED <<row, entry, journal, announced, vetted, lostBump, broken, requests, crashes>>
      BY DEF Snapshot, At
<1>2. req[w].model.status \in Statuses /\ req[w].model.body \in Bodies
      BY <1>1 DEF IInv, RequestsOK, RequestOK, PostRow
<1>3. PICK x : /\ x.num \in Nat \ {0}
               /\ x.status = req[w].model.status /\ x.body = req[w].model.body
               /\ \A v \in versions : v.num \in Nat /\ v.num < x.num
               /\ versions' = Newest(versions \cup {x}) /\ x \in versions'
               /\ stored' = [stored EXCEPT ![w] = x.num]
      BY SnapshotStored
<1>4. versions' \subseteq versions \cup {x}  BY <1>3 DEF Newest
<1>5. IsFiniteSet(versions')
  <2>1. IsFiniteSet(versions \cup {x})  BY FS_AddElement DEF IInv, TypeOK
  <2> QED BY <1>4, <2>1, FS_Subset
<1>6. /\ \A v \in versions' : v.status \in Statuses /\ v.body \in Bodies
      /\ \A v \in versions' : v.num \in 1..x.num
      /\ x.num \in Nat /\ \E v \in versions' : v.num = x.num
  <2>1. \A v \in versions : v.status \in Statuses /\ v.body \in Bodies
        BY DEF IInv, TypeOK
  <2>2. \A v \in versions : v.num \in 1..x.num
    <3> SUFFICES ASSUME NEW v \in versions PROVE v.num \in 1..x.num  OBVIOUS
    <3>1. v.num \in Nat /\ v.num < x.num /\ x.num \in Nat  BY <1>3
    <3>2. v.num >= 1  BY DEF IInv, TypeOK
    <3> QED BY <3>1, <3>2
  <2>3. x.num \in 1..x.num  BY <1>3
  <2>4. \A v \in versions' : v \in versions \/ v = x  BY <1>4
  <2>5. /\ \A v \in versions' : v.status \in Statuses /\ v.body \in Bodies
        /\ \A v \in versions' : v.num \in 1..x.num
        BY <1>2, <1>3, <2>1, <2>2, <2>3, <2>4
  <2> QED BY <1>3, <2>5
<1>7. PICK q \in Request :
        /\ req' = [req EXCEPT ![w] = q]
        /\ IF Follow(req[w].op, req[w].step) = "done" THEN q = Resting
           ELSE q.step = Follow(req[w].op, req[w].step) /\ q.op = req[w].op
      BY <1>1, AdvanceOK
<1>8. req' \in [Everyone -> Request] /\ RequestsOK' /\ HoldsRow'  BY <1>1, AdvanceOK
<1>9. TypeOK'
  <2>1. stored' \in [Everyone -> Nat]  BY <1>3 DEF IInv, TypeOK
  <2> QED BY <1>1, <1>5, <1>6, <1>8, <2>1 DEF IInv, TypeOK
<1>10. CacheServesCurrent'
  <2>1. ~Owes(req[w])  BY <1>1 DEF Owes
  <2> QED BY <1>1, <1>7, <2>1, CacheKept
<1> QED BY <1>1, <1>8, <1>9, <1>10, RowAndEntryKept DEF IInv

LEMMA BumpOK ==
    ASSUME IInv, NEW w \in Everyone, Bump(w)
    PROVE  IInv'
<1>1. /\ req[w].step = "bump" /\ Advance(w) /\ entry' = NoEntry /\ lostBump' = FALSE
      /\ UNCHANGED <<row, versions, observers, broken, requests, crashes>>
      BY DEF Bump, At
<1>2. req' \in [Everyone -> Request] /\ RequestsOK' /\ HoldsRow'  BY <1>1, AdvanceOK
<1>3. TypeOK'  BY <1>1, <1>2 DEF IInv, TypeOK, observers
<1>4. EntryOK' /\ CacheServesCurrent'  BY <1>1 DEF EntryOK, CacheServesCurrent
<1>5. PublishedHasDate'  BY <1>1 DEF IInv, PublishedHasDate, Exists
<1> QED BY <1>2, <1>3, <1>4, <1>5 DEF IInv

LEMMA RecordOK ==
    ASSUME IInv, NEW w \in Everyone, Record(w)
    PROVE  IInv'
<1>1. /\ req[w].step = "record" /\ Advance(w)
      /\ UNCHANGED <<row, versions, entry, vetted, stored, lostBump, broken, requests, crashes>>
      BY DEF Record, At
<1>2. journal' \in Journal
      BY Zenon DEF Record, Recorded, Journal, IInv, TypeOK
<1>3. announced' \in BOOLEAN
      BY DEF Record
<1>4. PICK q \in Request :
        /\ req' = [req EXCEPT ![w] = q]
        /\ IF Follow(req[w].op, req[w].step) = "done" THEN q = Resting
           ELSE q.step = Follow(req[w].op, req[w].step) /\ q.op = req[w].op
      BY <1>1, AdvanceOK
<1>5. req' \in [Everyone -> Request] /\ RequestsOK' /\ HoldsRow'  BY <1>1, AdvanceOK
<1>6. TypeOK'  BY <1>1, <1>2, <1>3, <1>5 DEF IInv, TypeOK
<1>7. Owes(req[w]) => Owes(q)
  <2>1. SUFFICES ASSUME req[w].op \in RecordsBeforeBump PROVE Owes(q)
        BY <1>1 DEF Owes
  <2>2. Follow(req[w].op, "record") = "bump"  BY <2>1, Zenon DEF Follow
  <2> QED BY <1>1, <1>4, <2>2 DEF Owes
<1>8. CacheServesCurrent'  BY <1>1, <1>4, <1>7, CacheKept
<1> QED BY <1>1, <1>5, <1>6, <1>8, RowAndEntryKept DEF IInv

LEMMA TaxonomyOK ==
    ASSUME IInv, NEW w \in Everyone, Taxonomy(w)
    PROVE  IInv'
<1>1. /\ req[w].step = "taxonomy"
      /\ UNCHANGED <<row, versions, entry, observers, requests, crashes>>
      BY DEF Taxonomy, At
<1>2. CASE row.deleted
  <2>1. req' = [req EXCEPT ![w] = Resting] /\ lostBump' = TRUE /\ broken' = TRUE
        BY <1>2 DEF Taxonomy
  <2>2. Resting \in Request /\ RequestOK(Resting) /\ Resting.step = "done"
        BY DEF Resting, Request, RequestOK, Operations, Steps, Statuses
  <2>3. req' \in [Everyone -> Request] /\ RequestsOK' /\ HoldsRow'
        BY <1>1, <2>1, <2>2, RequestChange
  <2>4. TypeOK'  BY <1>1, <2>1, <2>3 DEF IInv, TypeOK, observers
  <2>5. CacheServesCurrent'  BY <2>1 DEF CacheServesCurrent
  <2> QED BY <1>1, <2>3, <2>4, <2>5, RowAndEntryKept DEF IInv
<1>3. CASE ~row.deleted
  <2>1. Advance(w) /\ lostBump' = lostBump /\ broken' = broken  BY <1>3 DEF Taxonomy
  <2>2. PICK q \in Request :
          /\ req' = [req EXCEPT ![w] = q]
          /\ IF Follow(req[w].op, req[w].step) = "done" THEN q = Resting
             ELSE q.step = Follow(req[w].op, req[w].step) /\ q.op = req[w].op
        BY <1>1, <2>1, AdvanceOK
  <2>3. req' \in [Everyone -> Request] /\ RequestsOK' /\ HoldsRow'
        BY <1>1, <2>1, AdvanceOK
  <2>4. TypeOK'  BY <1>1, <2>1, <2>3 DEF IInv, TypeOK, observers
  <2>5. Owes(q)
    <3>1. Follow(req[w].op, "taxonomy")
            = IF req[w].op \in RecordsBeforeBump THEN "record" ELSE "bump"
          BY Zenon DEF Follow
    <3> QED BY <1>1, <2>2, <3>1 DEF Owes
  <2>6. CacheServesCurrent'  BY <1>1, <2>1, <2>2, <2>5, CacheKept
  <2> QED BY <1>1, <2>3, <2>4, <2>6, RowAndEntryKept DEF IInv
<1> QED BY <1>2, <1>3

\* The row that a request about to save works on.
LEMMA CommitContext ==
    ASSUME IInv, NEW w \in Everyone, Commit(w)
    PROVE  /\ req[w] \in Request /\ req[w].op \in Saves
           /\ row \in PostRow /\ row # NoPost
           /\ req[w].model \in PostRow /\ req[w].body \in Bodies
           /\ req[w].model.dated => row.dated
           /\ req[w].model.status = "published" => req[w].model.dated
           /\ req[w].op = "updateFromWeb" /\ req[w].status = "published" => req[w].all
           /\ Attributes(req[w]) \in PostRow
           /\ row' = Saved(req[w].model, Attributes(req[w]))
<1>1. At(w, "commit") /\ row' = Saved(req[w].model, Attributes(req[w]))  BY DEF Commit
<1>2. req[w] \in Request  BY DEF IInv, TypeOK
<1>3. /\ req[w].op \in Saves
      /\ req[w].model \in PostRow /\ req[w].body \in Bodies
      /\ req[w].model.status = "published" => req[w].model.dated
      /\ req[w].op = "updateFromWeb" /\ req[w].status = "published" => req[w].all
      BY <1>1 DEF At, IInv, RequestsOK, RequestOK
<1>4. row \in PostRow /\ row # NoPost /\ (req[w].model.dated => row.dated)
      BY <1>1 DEF At, IInv, TypeOK, HoldsRow
<1> QED BY <1>1, <1>2, <1>3, <1>4, AttributesType

LEMMA CommitOK ==
    ASSUME IInv, NEW w \in Everyone, Commit(w)
    PROVE  IInv'
<1> DEFINE next == Follow(req[w].op, "commit")
           q == [req[w] EXCEPT !.step = next, !.model = NoPost, !.body = NoPost, !.all = FALSE]
<1>1. /\ req[w].step = "commit"
      /\ UNCHANGED <<versions, entry, journal, lostBump, broken, requests, crashes>>
      BY DEF Commit, At
<1>2. /\ row' \in PostRow /\ row' # NoPost
      /\ row.dated => row'.dated
      /\ row'.status = "published" => row'.dated
  <2>1. row.status = "published" => row.dated
        BY CommitContext DEF IInv, PublishedHasDate, Exists
  <2>2. /\ req[w].model.dated => Attributes(req[w]).dated
        /\ Attributes(req[w]).status = "published" => Attributes(req[w]).dated
        BY CommitContext, AttributesType
  <2> QED BY CommitContext, <2>1, <2>2, SavedType, SentinelAssumption
<1>3. next \in {"taxonomy", "record", "bump"} /\ (next = "record" => req[w].op \in RecordsBeforeBump)
  <2>1. next = IF req[w].op \in WithTaxonomy THEN "taxonomy"
               ELSE IF req[w].op \in RecordsBeforeBump THEN "record" ELSE "bump"
        BY Zenon DEF Follow
  <2> QED BY <2>1
<1> HIDE DEF next
<1>4. q \in Request /\ q.step = next /\ q.op = req[w].op
      BY <1>3, CommitContext DEF Request, Steps
<1>5. RequestOK(q)  BY <1>3, <1>4 DEF RequestOK
<1>6. Owes(q)  BY <1>3, <1>4 DEF Owes
<1>7. req' = [req EXCEPT ![w] = q]
  <2>1. req \in [Everyone -> Request]  BY DEF IInv, TypeOK
  <2>2. req' = [req EXCEPT ![w].step = next, ![w].model = NoPost, ![w].body = NoPost,
                           ![w].all = FALSE]
        BY DEF Commit, next
  <2> QED BY <2>1, <2>2
<1> HIDE DEF q
<1>8. req' \in [Everyone -> Request] /\ RequestsOK' /\ HoldsRow'
      BY <1>2, <1>3, <1>4, <1>5, <1>7, RequestChange
<1>9. TypeOK'
  <2>1. vetted' \subseteq Bodies
    <3>1. vetted' = vetted \cup Decision(req[w])  BY DEF Commit
    <3>2. Decision(req[w]) \subseteq Bodies  BY CommitContext DEF Decision, PostRow
    <3> QED BY <3>1, <3>2 DEF IInv, TypeOK
  <2>2. announced' \in BOOLEAN  BY DEF Commit
  <2>3. stored' \in [Everyone -> Nat]  BY DEF Commit, IInv, TypeOK
  <2> QED BY <1>1, <1>2, <1>8, <2>1, <2>2, <2>3 DEF IInv, TypeOK
<1>10. EntryOK'
  <2>1. entry # NoEntry /\ entry.dated => row.dated  BY DEF IInv, EntryOK
  <2> QED BY <1>1, <1>2, <2>1 DEF IInv, EntryOK
<1>11. PublishedHasDate'  BY <1>2 DEF PublishedHasDate
<1>12. CacheServesCurrent'
  <2>1. req'[w] = q  BY <1>7 DEF IInv, TypeOK
  <2> QED BY <1>6, <2>1 DEF CacheServesCurrent, OwesBump
<1> QED BY <1>8, <1>9, <1>10, <1>11, <1>12 DEF IInv

LEMMA LoadDueOK == ASSUME IInv, NEW c \in Crons, LoadDue(c) PROVE IInv'
<1> DEFINE q == [Resting EXCEPT !.op = "publishDue", !.step = "commit", !.model = row,
                                !.was = row.status, !.status = row.status, !.body = row.body]
<1>1. c \in Everyone /\ ~Owes(req[c])  BY DEF Everyone, LoadDue, Idle, Owes
<1>2. /\ req' = [req EXCEPT ![c] = q] /\ row # NoPost
      /\ UNCHANGED <<row, versions, entry, observers, lostBump, broken, requests, crashes>>
      BY DEF LoadDue
<1>3. row \in PostRow /\ (row.status = "published" => row.dated)
      BY <1>2 DEF IInv, TypeOK, PublishedHasDate, Exists
<1>4. q \in Request /\ RequestOK(q) /\ q.model = row /\ q.step = "commit"
  <2>1. row.status \in Statuses /\ row.body \in Bodies  BY <1>3 DEF PostRow
  <2>2. q \in Request  BY <1>3, <2>1 DEF Resting, Request, Operations, Steps
  <2>3. q.op = "publishDue" /\ q.step = "commit" /\ q.model = row /\ q.body = row.body
        BY DEF Resting
  <2> QED BY <1>3, <2>1, <2>2, <2>3 DEF RequestOK, Saves
<1> HIDE DEF q
<1>5. req' \in [Everyone -> Request] /\ RequestsOK' /\ HoldsRow'
      BY <1>1, <1>2, <1>4, RequestChange
<1>6. TypeOK'  BY <1>2, <1>5 DEF IInv, TypeOK, observers
<1>7. CacheServesCurrent'  BY <1>1, <1>2, <1>4, CacheKept
<1> QED BY <1>2, <1>5, <1>6, <1>7, RowAndEntryKept DEF IInv

LEMMA ClearScheduleOK == ASSUME IInv, NEW c \in Crons, ClearSchedule(c) PROVE IInv'
<1>1. /\ c \in Everyone /\ req[c].step = "clear" /\ Advance(c)
      /\ row' = [row EXCEPT !.due = FALSE]
      /\ UNCHANGED <<versions, entry, observers, lostBump, broken, requests, crashes>>
      BY DEF Everyone, ClearSchedule, At
<1>2. row \in PostRow /\ row # NoPost  BY <1>1 DEF IInv, TypeOK, HoldsRow
<1>3. /\ row' \in PostRow /\ row' # NoPost
      /\ row'.status = row.status /\ row'.dated = row.dated /\ row'.body = row.body
      /\ row'.deleted = row.deleted
      BY <1>1, <1>2, SentinelAssumption DEF PostRow
<1>4. req' = [req EXCEPT ![c] = Resting]
  <2>1. Follow(req[c].op, req[c].step) = "done"  BY <1>1, Zenon DEF Follow
  <2> QED BY <1>1, <2>1 DEF Advance
<1>5. Resting \in Request /\ RequestOK(Resting) /\ Resting.step = "done"
      BY DEF Resting, Request, RequestOK, Operations, Steps, Statuses
<1>6. req' \in [Everyone -> Request] /\ RequestsOK' /\ HoldsRow'
      BY <1>1, <1>2, <1>3, <1>4, <1>5, RequestChange
<1>7. TypeOK'  BY <1>1, <1>3, <1>6 DEF IInv, TypeOK, observers
<1>8. EntryOK' /\ PublishedHasDate'
      BY <1>1, <1>2, <1>3 DEF IInv, EntryOK, PublishedHasDate, Exists
<1>9. CacheServesCurrent'
  <2>1. SUFFICES ASSUME entry # NoEntry, ~SameForReaders(entry, row), ~lostBump
                 PROVE  \E u \in Everyone : Owes(req'[u])
        BY <1>1, <1>3 DEF CacheServesCurrent, OwesBump, SameForReaders
  <2>2. PICK u \in Everyone : Owes(req[u])
        BY <2>1 DEF IInv, CacheServesCurrent, OwesBump
  <2>3. u # c  BY <1>1, <2>2 DEF Owes
  <2>4. req'[u] = req[u]  BY <1>4, <2>3 DEF IInv, TypeOK
  <2> QED BY <2>2, <2>4
<1> QED BY <1>6, <1>7, <1>8, <1>9 DEF IInv

LEMMA CrashOK == ASSUME IInv, NEW w \in Everyone, Crash(w) PROVE IInv'
<1>1. /\ req' = [req EXCEPT ![w] = Resting]
      /\ lostBump' = (lostBump \/ OwesBump(w))
      /\ UNCHANGED <<row, versions, entry, observers, requests>>
      BY DEF Crash
<1>2. Resting \in Request /\ RequestOK(Resting) /\ Resting.step = "done"
      BY DEF Resting, Request, RequestOK, Operations, Steps, Statuses
<1>3. req' \in [Everyone -> Request] /\ RequestsOK' /\ HoldsRow'
      BY <1>1, <1>2, RequestChange
<1>4. TypeOK'
  <2>1. crashes' \in 0..MaxCrashes  BY BoundsAssumption DEF Crash, IInv, TypeOK
  <2>2. lostBump' \in BOOLEAN /\ broken' \in BOOLEAN  BY DEF Crash
  <2> QED BY <1>1, <1>3, <2>1, <2>2 DEF IInv, TypeOK, observers
<1>5. CacheServesCurrent'  BY <1>1, <1>2, CacheKept DEF OwesBump
<1> QED BY <1>1, <1>3, <1>4, <1>5, RowAndEntryKept DEF IInv

LEMMA ReadOK == ASSUME IInv, Read PROVE IInv'
<1>1. /\ Found /\ entry = NoEntry /\ entry' = row
      /\ UNCHANGED <<row, versions, req, observers, lostBump, broken, requests, crashes>>
      BY DEF Read
<1>2. row \in PostRow /\ row # NoPost  BY <1>1, FetchedOK
<1>3. TypeOK'  BY <1>1, <1>2 DEF IInv, TypeOK, observers
<1>4. RequestsOK' /\ HoldsRow'  BY <1>1 DEF IInv, RequestsOK, HoldsRow
<1>5. EntryOK' /\ PublishedHasDate'
      BY <1>1, <1>2 DEF IInv, EntryOK, PublishedHasDate, Exists
<1>6. CacheServesCurrent'  BY <1>1 DEF CacheServesCurrent, SameForReaders
<1> QED BY <1>3, <1>4, <1>5, <1>6 DEF IInv

LEMMA ExpireOK == ASSUME IInv, Expire PROVE IInv'
<1>1. /\ entry' = NoEntry /\ lostBump' = FALSE
      /\ UNCHANGED <<row, versions, req, observers, broken, requests, crashes>>
      BY DEF Expire
<1>2. TypeOK'  BY <1>1 DEF IInv, TypeOK, observers
<1>3. RequestsOK' /\ HoldsRow' /\ PublishedHasDate'
      BY <1>1 DEF IInv, RequestsOK, HoldsRow, PublishedHasDate, Exists
<1>4. EntryOK' /\ CacheServesCurrent'  BY <1>1 DEF EntryOK, CacheServesCurrent
<1> QED BY <1>2, <1>3, <1>4 DEF IInv

LEMMA ArriveOK == ASSUME IInv, NEW w \in Workers, Arrive(w) PROVE IInv'
<1>0. row # NoPost => row.status \in Statuses /\ row.body \in Bodies
      BY DEF IInv, TypeOK, PostRow
<1>1. CASE \E b \in Bodies : Create(w, "createForAuthor", "pending", b)
      BY <1>1, CreateOK DEF Statuses
<1>2. CASE \E s \in Statuses, b \in Bodies : Create(w, "createFromAdmin", s, b)
      BY <1>2, CreateOK
<1>3. CASE \E role \in Roles, publish \in BOOLEAN, b \in Bodies : AuthorizeWeb(w, role, publish, b)
      BY <1>3, AuthorizeWebOK
<1>4. CASE \E s \in Statuses, b \in Bodies : UpdateFromAdmin(w, s, b)
      BY <1>4, BeginFilamentOK DEF UpdateFromAdmin, Saves
<1>5. CASE Moderate(w, "approve") \/ Moderate(w, "reject")
      BY <1>0, <1>5, BeginFilamentOK DEF Moderate, Saves
<1>6. CASE \E v \in versions : RestoreVersion(w, v)
  <2>1. PICK v \in versions : RestoreVersion(w, v)  BY <1>6
  <2>2. v.status \in Statuses /\ v.body \in Bodies  BY DEF IInv, TypeOK
  <2> QED BY <2>1, <2>2, BeginFilamentOK DEF RestoreVersion, Saves
<1>7. CASE RestoreDeleted(w) \/ DestroyFromAdmin(w)
      BY <1>0, <1>7, BeginFilamentOK DEF RestoreDeleted, DestroyFromAdmin, Saves
<1>8. CASE Destroy(w)  BY <1>8, DestroyOK
<1> QED BY <1>1, <1>2, <1>3, <1>4, <1>5, <1>6, <1>7, <1>8 DEF Arrive

LEMMA StutterOK == ASSUME IInv, UNCHANGED vars PROVE IInv'
<1>1. TypeOK'  BY DEF vars, IInv, TypeOK
<1>2. RequestsOK' /\ HoldsRow' /\ EntryOK' /\ PublishedHasDate'
      BY DEF vars, IInv, RequestsOK, HoldsRow, EntryOK, PublishedHasDate, Exists
<1>3. CacheServesCurrent'
      BY DEF vars, IInv, CacheServesCurrent, SameForReaders, OwesBump
<1> QED BY <1>1, <1>2, <1>3 DEF IInv

LEMMA StepOK == ASSUME IInv, [Next]_vars PROVE IInv'
<1>1. CASE \E w \in Workers : Arrive(w)  BY <1>1, ArriveOK
<1>2. CASE \E w \in Everyone : Proceed(w)
      BY <1>2, LoadWebOK, SnapshotOK, CommitOK, TaxonomyOK, RecordOK, BumpOK DEF Proceed
<1>3. CASE \E w \in Everyone : Crash(w)  BY <1>3, CrashOK
<1>4. CASE \E c \in Crons : LoadDue(c) \/ ClearSchedule(c)
      BY <1>4, LoadDueOK, ClearScheduleOK
<1>5. CASE Read \/ Expire  BY <1>5, ReadOK, ExpireOK
<1>6. CASE UNCHANGED vars  BY <1>6, StutterOK
<1> QED BY <1>1, <1>2, <1>3, <1>4, <1>5, <1>6 DEF Next

-----------------------------------------------------------------------------
(* Results *)

LEMMA Invariance == Spec => []IInv
<1>1. Init => IInv  BY InitOK
<1>2. IInv /\ [Next]_vars => IInv'  BY StepOK
<1> QED BY <1>1, <1>2, PTL DEF Spec

\* Every variable keeps its type, however many workers, requests and crashes.
THEOREM TypeCorrect == Spec => []TypeOK
<1>1. IInv => TypeOK  BY DEF IInv
<1> QED BY <1>1, Invariance, PTL

\* PostRepository::update and approve set published_at from the loaded model;
\* a published row carries a date for any interleaving of stale saves.
THEOREM PublishedIsDated == Spec => []PublishedHasDate
<1>1. IInv => PublishedHasDate  BY DEF IInv
<1> QED BY <1>1, Invariance, PTL

\* EloquentCache serves what differs from the row only while some request is
\* between its save and bumpPosts, or after one that died there.
THEOREM CacheIsCurrent == Spec => []CacheServesCurrent
<1>1. IInv => CacheServesCurrent  BY DEF IInv
<1> QED BY <1>1, Invariance, PTL

-----------------------------------------------------------------------------
(* What a step may do to the row *)

LEMMA RowSteps ==
    ASSUME [Next]_vars
    PROVE  \/ row' = row /\ vetted' = vetted
           \/ \E w \in Workers, op \in {"createForAuthor", "createFromAdmin"},
                 status \in Statuses, body \in Bodies : Create(w, op, status, body)
           \/ \E w \in Everyone : Commit(w)
           \/ \E c \in Crons : ClearSchedule(c)
<1>1. CASE \E w \in Workers : Arrive(w)
  <2>1. PICK w \in Workers : Arrive(w)  BY <1>1
  <2>2. CASE \E b \in Bodies : Create(w, "createForAuthor", "pending", b)
        BY <2>2 DEF Statuses
  <2>3. CASE \E s \in Statuses, b \in Bodies : Create(w, "createFromAdmin", s, b)
        BY <2>3
  <2>4. CASE \E role \in Roles, publish \in BOOLEAN, b \in Bodies :
                AuthorizeWeb(w, role, publish, b)
        BY <2>4 DEF AuthorizeWeb, observers
  <2>5. CASE \/ \E s \in Statuses, b \in Bodies : UpdateFromAdmin(w, s, b)
             \/ Moderate(w, "approve") \/ Moderate(w, "reject")
             \/ \E v \in versions : RestoreVersion(w, v)
             \/ RestoreDeleted(w) \/ DestroyFromAdmin(w)
        BY <2>5 DEF UpdateFromAdmin, Moderate, RestoreVersion, RestoreDeleted, DestroyFromAdmin,
                    BeginFilament, observers
  <2>6. CASE Destroy(w)  BY <2>6 DEF Destroy, observers
  <2> QED BY <2>1, <2>2, <2>3, <2>4, <2>5, <2>6 DEF Arrive
<1>2. CASE \E w \in Everyone : Proceed(w) \/ Crash(w)
      BY <1>2 DEF Proceed, LoadWeb, Snapshot, Taxonomy, Record, Bump, Crash, observers
<1>3. CASE (\E c \in Crons : LoadDue(c)) \/ Read \/ Expire
      BY <1>3 DEF LoadDue, Read, Expire, observers
<1>4. CASE UNCHANGED vars  BY <1>4 DEF vars
<1> QED BY <1>1, <1>2, <1>3, <1>4 DEF Next

\* The second save of the scheduler touches its own column only.
LEMMA ClearScheduleRow ==
    ASSUME IInv, NEW c \in Crons, ClearSchedule(c)
    PROVE  /\ row \in PostRow /\ row # NoPost
           /\ row' = [row EXCEPT !.due = FALSE] /\ vetted' = vetted
<1>1. req[c].step = "clear" /\ c \in Everyone  BY DEF ClearSchedule, At, Everyone
<1> QED BY <1>1 DEF IInv, TypeOK, HoldsRow, ClearSchedule, observers

\* A created row is in order by itself.
LEMMA CreateRow ==
    ASSUME NEW w, NEW op, NEW status, NEW body, Create(w, op, status, body)
    PROVE  /\ row = NoPost
           /\ row'.status = status /\ row'.body = body
           /\ row'.isPublished = (status = "published")
           /\ status = "published" => body \in vetted'
BY DEF Create

\* What a save does to the row, column by column.
LEMMA CommitRow ==
    ASSUME IInv, NEW w \in Everyone, Commit(w)
    PROVE  LET m == req[w].model
               new == Attributes(req[w])
           IN  /\ row'.status = Column(new.status, m.status, row.status)
               /\ row'.isPublished = Column(new.isPublished, m.isPublished, row.isPublished)
               /\ row'.body = Column(new.body, m.body, row.body)
               /\ row'.due = Column(new.due, m.due, row.due)
               /\ row'.deleted = Column(new.deleted, m.deleted, row.deleted)
<1>1. row' = Saved(req[w].model, Attributes(req[w]))  BY CommitContext
<1> QED BY <1>1 DEF Saved

\* PostRepository::destroy stands against racing saves: only a restore writes
\* deleted_at back.
THEOREM DeletionIsFinal == Spec => DeletionStands
<1>1. ASSUME IInv, [Next]_vars, Exists, row.deleted, ~row'.deleted
      PROVE  \E w \in Everyone : At(w, "commit") /\ req[w].op = "restore"
  <2>1. CASE row' = row  BY <1>1, <2>1
  <2>2. CASE \E w \in Workers, op \in {"createForAuthor", "createFromAdmin"},
               status \in Statuses, body \in Bodies : Create(w, op, status, body)
        BY <1>1, <2>2, CreateRow DEF Exists
  <2>3. CASE \E c \in Crons : ClearSchedule(c)  BY <1>1, <2>3, ClearScheduleRow DEF PostRow
  <2>4. CASE \E w \in Everyone : Commit(w)
    <3>1. PICK w \in Everyone : Commit(w)  BY <2>4
    <3>2. /\ Attributes(req[w]).deleted \in BOOLEAN /\ req[w].model.deleted \in BOOLEAN
          BY <1>1, <3>1, CommitContext DEF PostRow
    <3>3. req[w].op # "restore" /\ req[w].model.deleted => Attributes(req[w]).deleted
          BY <1>1, <3>1, CommitContext, AttributesType
    <3>4. row'.deleted = Column(Attributes(req[w]).deleted, req[w].model.deleted, row.deleted)
          BY <1>1, <3>1, CommitRow
    <3>5. req[w].op = "restore"  BY <1>1, <3>2, <3>3, <3>4 DEF Column
    <3> QED BY <3>1, <3>5 DEF Commit
  <2> QED BY <1>1, <2>1, <2>2, <2>3, <2>4, RowSteps
<1> QED BY <1>1, Invariance, PTL DEF Spec, DeletionStands

\* No step writes scheduled_publish_at back.
LEMMA ScheduleStep == ASSUME IInv, [Next]_vars, Exists, ~row.due PROVE ~row'.due
<1>1. CASE row' = row  BY <1>1
<1>2. CASE \E w \in Workers, op \in {"createForAuthor", "createFromAdmin"},
             status \in Statuses, body \in Bodies : Create(w, op, status, body)
      BY <1>2, CreateRow DEF Exists
<1>3. CASE \E c \in Crons : ClearSchedule(c)  BY <1>3, ClearScheduleRow DEF PostRow
<1>4. CASE \E w \in Everyone : Commit(w)
  <2>1. PICK w \in Everyone : Commit(w)  BY <1>4
  <2>2. Attributes(req[w]).due = req[w].model.due
        BY <2>1, CommitContext, AttributesType
  <2> QED BY <2>1, <2>2, CommitRow DEF Column
<1> QED BY <1>1, <1>2, <1>3, <1>4, RowSteps

\* scheduled_publish_at, once cleared, is not written back by a save whose model
\* still carried it.
THEOREM ScheduleIsFinal == Spec => ScheduleFiresOnce
BY ScheduleStep, Invariance, PTL DEF Spec, ScheduleFiresOnce

\* After the save the request goes on.
LEMMA CommitLeaves == ASSUME IInv, NEW w \in Everyone, Commit(w) PROVE req'[w].step # "commit"
<1>1. req'[w].step = Follow(req[w].op, "commit")
      BY DEF Commit, IInv, TypeOK, Request
<1>2. Follow(req[w].op, "commit")
        = IF req[w].op \in WithTaxonomy THEN "taxonomy"
          ELSE IF req[w].op \in RecordsBeforeBump THEN "record" ELSE "bump"
      BY Zenon DEF Follow
<1> QED BY <1>1, <1>2

\* A save through a model that still matches the row, spelled out.
LEMMA FreshSave ==
    ASSUME IInv, NEW w \in Everyone, Commit(w), ~SavesStale(w)
    PROVE  /\ req[w].model.status = row.status
           /\ req[w].model.isPublished = row.isPublished
           /\ req[w].model.body = row.body
           /\ row'.status = Attributes(req[w]).status
           /\ row'.isPublished = Attributes(req[w]).isPublished
           /\ row'.body = Attributes(req[w]).body
<1>1. At(w, "commit")  BY DEF Commit
<1>2. req'[w].step # "commit"  BY CommitLeaves
<1>3. /\ req[w].model.status = row.status
      /\ req[w].model.isPublished = row.isPublished
      /\ req[w].model.body = row.body
      BY <1>1, <1>2 DEF SavesStale
<1> QED BY <1>3, CommitRow DEF Column

\* Post::booted keeps is_published in step with the status unless two saves
\* overlap.
THEOREM DriftNeedsStaleSave == Spec => DriftOnlyByStaleSave
<1>1. ASSUME IInv, [Next]_vars, InSync, ~InSync' PROVE \E w \in Everyone : SavesStale(w)
  <2>1. CASE row' = row  BY <1>1, <2>1 DEF InSync, Exists
  <2>2. CASE \E w \in Workers, op \in {"createForAuthor", "createFromAdmin"},
               status \in Statuses, body \in Bodies : Create(w, op, status, body)
        BY <1>1, <2>2, CreateRow DEF InSync
  <2>3. CASE \E c \in Crons : ClearSchedule(c)
        BY <1>1, <2>3, ClearScheduleRow DEF InSync, Exists, PostRow
  <2>4. CASE \E w \in Everyone : Commit(w)
    <3>1. PICK w \in Everyone : Commit(w)  BY <2>4
    <3>2. SUFFICES ASSUME ~SavesStale(w) PROVE FALSE  BY <3>1
    <3>3. req[w].model \in PostRow /\ row # NoPost  BY <1>1, <3>1, CommitContext
    <3>4. Attributes(req[w]).isPublished <=> Attributes(req[w]).status = "published"
      <4>1. CASE req[w].op = "destroy"
        <5>1. /\ Attributes(req[w]).status = req[w].model.status
              /\ Attributes(req[w]).isPublished = req[w].model.isPublished
              BY <3>3, <4>1 DEF Attributes, Filled, PostRow
        <5>2. row.isPublished <=> row.status = "published"
              BY <1>1, <3>3 DEF InSync, Exists
        <5>3. req[w].model.status = row.status /\ req[w].model.isPublished = row.isPublished
              BY <1>1, <3>1, <3>2, FreshSave
        <5> QED BY <5>1, <5>2, <5>3
      <4>2. CASE req[w].op # "destroy"
        <5>1. Attributes(req[w]) = Saving(Filled(req[w]))  BY <4>2 DEF Attributes
        <5>2. Attributes(req[w]) \in PostRow  BY <1>1, <3>1, CommitContext
        <5> HIDE DEF Filled
        <5> QED BY <5>1, <5>2 DEF Saving, PostRow
      <4> QED BY <4>1, <4>2
    <3> QED BY <1>1, <3>1, <3>2, <3>4, FreshSave DEF InSync
  <2> QED BY <1>1, <2>1, <2>2, <2>3, <2>4, RowSteps
<1> QED BY <1>1, Invariance, PTL DEF Spec, DriftOnlyByStaleSave

\* Moderation holds but for overlapping saves and for the scheduler, which approves
\* unread: all else that the pipeline publishes was decided on by someone entitled to.
THEOREM ExposureNeedsStaleSaveOrSchedule == Spec => UnvettedOnlyByStaleSaveOrSchedule
<1>1. ASSUME IInv, [Next]_vars, ~Exposed, Exposed'
      PROVE  \E w \in Everyone : SavesStale(w) \/ PublishesUnread(w)
  <2>1. CASE row' = row /\ vetted' = vetted  BY <1>1, <2>1 DEF Exposed, Exists
  <2>2. CASE \E w \in Workers, op \in {"createForAuthor", "createFromAdmin"},
               status \in Statuses, body \in Bodies : Create(w, op, status, body)
        BY <1>1, <2>2, CreateRow DEF Exposed
  <2>3. CASE \E c \in Crons : ClearSchedule(c)
        BY <1>1, <2>3, ClearScheduleRow DEF Exposed, Exists, PostRow
  <2>4. CASE \E w \in Everyone : Commit(w)
    <3>1. PICK w \in Everyone : Commit(w)  BY <2>4
    <3>2. SUFFICES ASSUME ~SavesStale(w), ~PublishesUnread(w) PROVE FALSE  BY <3>1
    <3> DEFINE q == req[w]
    <3>0. q.op # "publishDue"
          BY <1>1, <3>1, <3>2, CommitLeaves DEF PublishesUnread, Commit
    <3>3. /\ q.model \in PostRow /\ row # NoPost /\ q.op \in Saves
          /\ q.op = "updateFromWeb" /\ q.status = "published" => q.all
          BY <1>1, <3>1, CommitContext
    <3>4. /\ q.model.status = row.status /\ q.model.body = row.body
          /\ row'.status = Attributes(q).status /\ row'.body = Attributes(q).body
          BY <1>1, <3>1, <3>2, FreshSave
    <3>5. vetted' = vetted \cup Decision(q)  BY <3>1 DEF Commit
    <3>6. row'.status = "published" /\ row'.body \notin vetted'  BY <1>1 DEF Exposed
    <3>7. row.status = "published" => row.body \in vetted  BY <1>1, <3>3 DEF Exposed, Exists
    <3>8. Attributes(q).status = Filled(q).status /\ Attributes(q).body = Filled(q).body
      <4>1. CASE q.op = "destroy"  BY <4>1 DEF Attributes
      <4>2. CASE q.op # "destroy"
        <5>1. Attributes(q) = Saving(Filled(q))  BY <4>2 DEF Attributes
        <5>2. Attributes(q) \in PostRow  BY <1>1, <3>1, CommitContext
        <5> QED BY <5>1, <5>2 DEF Saving, PostRow
      <4> QED BY <4>1, <4>2
    <3> HIDE DEF q
    <3>9. CASE q.op = "approve"
          BY <3>3, <3>4, <3>5, <3>6, <3>8, <3>9 DEF Filled, Approved, Decision, PostRow
    <3>10. CASE q.op = "reject"
          BY <3>3, <3>4, <3>6, <3>8, <3>10 DEF Filled, Rejected, PostRow
    <3>11. CASE q.op \in {"destroy", "restore"}
          BY <3>3, <3>4, <3>5, <3>6, <3>7, <3>8, <3>11 DEF Filled, PostRow
    <3>12. CASE q.op \in {"updateFromWeb", "updateFromAdmin", "restoreVersion"}
          BY <3>3, <3>4, <3>5, <3>6, <3>8, <3>12 DEF Filled, Updated, Decision, PostRow
    <3> QED BY <3>0, <3>3, <3>9, <3>10, <3>11, <3>12 DEF Saves, q
  <2> QED BY <1>1, <2>1, <2>2, <2>3, <2>4, RowSteps
<1> QED BY <1>1, Invariance, PTL DEF Spec, UnvettedOnlyByStaleSaveOrSchedule

\* The pipeline decides on PostPublished before it saves; a publication it stays
\* silent about restores a version or overlapped another save.
THEOREM SilenceNeedsRestore == Spec => SilentOnlyByRestore
<1>1. ASSUME IInv, [Next]_vars, TurnsPublic PROVE \E w \in Everyone : MakesPublic(w)
  <2>0. Exists /\ row.status # "published" /\ row'.status = "published"
        BY <1>1 DEF TurnsPublic
  <2>1. CASE row' = row  BY <2>0, <2>1
  <2>2. CASE \E w \in Workers, op \in {"createForAuthor", "createFromAdmin"},
               status \in Statuses, body \in Bodies : Create(w, op, status, body)
        BY <2>0, <2>2, CreateRow DEF Exists
  <2>3. CASE \E c \in Crons : ClearSchedule(c)
        BY <1>1, <2>0, <2>3, ClearScheduleRow DEF PostRow
  <2>4. CASE \E w \in Everyone : Commit(w)
    <3>1. PICK w \in Everyone : Commit(w)  BY <2>4
    <3>2. CASE SavesStale(w)  BY <3>1, <3>2 DEF SavesStale, MakesPublic
    <3>3. CASE ~SavesStale(w)
      <4> DEFINE q == req[w]
      <4>1. /\ q.model \in PostRow /\ q.op \in Saves
            /\ q.was = q.model.status /\ At(w, "commit") /\ req'[w].step # "commit"
            BY <1>1, <3>1, CommitContext, CommitLeaves DEF IInv, RequestsOK, RequestOK, Commit, At
      <4>2. q.model.status = row.status /\ row'.status = Attributes(q).status
            BY <1>1, <3>1, <3>3, FreshSave
      <4>3. Attributes(q).status = Filled(q).status
        <5>1. CASE q.op = "destroy"  BY <5>1 DEF Attributes
        <5>2. CASE q.op # "destroy"
          <6>1. Attributes(q) = Saving(Filled(q))  BY <5>2 DEF Attributes
          <6>2. Attributes(q) \in PostRow  BY <1>1, <3>1, CommitContext
          <6> QED BY <6>1, <6>2 DEF Saving, PostRow
        <5> QED BY <5>1, <5>2
      <4> HIDE DEF q
      <4>4. Filled(q).status = "published" /\ q.was # "published"
            BY <2>0, <4>1, <4>2, <4>3
      <4>5. Publishes(q) \/ q.op = "restoreVersion"
        <5>1. CASE q.op \in {"approve", "publishDue"}  BY <5>1 DEF Publishes
        <5>2. CASE q.op = "reject"  BY <4>1, <4>4, <5>2 DEF Filled, Rejected, PostRow
        <5>3. CASE q.op \in {"destroy", "restore"}  BY <4>1, <4>4, <5>3 DEF Filled, PostRow
        <5>4. CASE q.op \in {"updateFromWeb", "updateFromAdmin"}
              BY <4>1, <4>4, <5>4 DEF Filled, Updated, Publishes, PostRow
        <5> QED BY <4>1, <5>1, <5>2, <5>3, <5>4 DEF Saves
      <4> QED BY <4>1, <4>5, Zenon DEF q, MakesPublic
    <3> QED BY <3>1, <3>2, <3>3
  <2> QED BY <1>1, <2>1, <2>2, <2>3, <2>4, RowSteps
<1> QED BY <1>1, Invariance, PTL DEF Spec, SilentOnlyByRestore

-----------------------------------------------------------------------------
(* One request after the other *)

\* Nothing is scheduled, and no run of the scheduler's command is under way.
CronsIdle == (\A c \in Crons : Idle(c)) /\ (Exists => ~row.due)

\* The request has saved the row and has yet to write its journal entry.
Unsaid(q) ==
    \/ q.step \in {"taxonomy", "record"}
    \/ q.step = "bump" /\ q.op \notin RecordsBeforeBump \cup Unrecorded

\* What it will say is what it has done.
Writes(q) ==
    /\ q.op \in Creations \cup (Saves \ Unrecorded)
    /\ q.op \in {"approve", "publishDue"} => row.status = "published"
    /\ q.op = "reject" => row.status = "rejected"
    /\ q.op \in Creations \cup {"updateFromWeb"} => row.status = q.status
    /\ q.op \in Creations => journal = "none"
    /\ q.op = "createForAuthor" => q.status = "pending"

\* JournalAgrees, for a row and a journal nobody is about to write.
Agrees ==
    /\ journal = "approved" => row.status = "published"
    /\ journal = "rejected" => row.status = "rejected"
    /\ journal = "submitted" => row.status = "pending"
    /\ row.status = "published" => announced \/ journal \in {"restored", "updated"}

\* A single worker saves through a model that has the row's status, and the journal
\* agrees whenever the worker does not owe it an entry.
JournalInv(w) ==
    /\ lostBump => broken
    /\ ~Exists => journal = "none" /\ Idle(w)
    /\ ~broken /\ req[w].step \in {"snapshot", "commit"} => req[w].model.status = row.status
    /\ ~broken /\ Exists => IF Unsaid(req[w]) THEN Writes(req[w]) ELSE Agrees

\* While nothing is due, only workers, readers and expiry act.
LEMMA OnlyWorkers ==
    ASSUME CronsIdle, [Next]_vars
    PROVE  \/ \E w \in Workers : Arrive(w) \/ Proceed(w) \/ Crash(w)
           \/ Read \/ Expire \/ UNCHANGED vars
<1>1. ASSUME NEW c \in Crons PROVE ~Proceed(c) /\ ~Crash(c) /\ ~LoadDue(c) /\ ~ClearSchedule(c)
  <2>1. req[c].step = "done"  BY DEF CronsIdle, Idle
  <2> QED BY <2>1 DEF CronsIdle, Exists, Proceed, LoadWeb, Snapshot, Commit, Taxonomy, Record, Bump,
                      Crash, LoadDue, ClearSchedule, At, Idle
<1> QED BY <1>1 DEF Next, Everyone

\* A step of a worker changes no other request.
LEMMA OthersKept ==
    ASSUME IInv, NEW w \in Workers, Arrive(w) \/ Proceed(w) \/ Crash(w)
    PROVE  \A u \in Everyone \ {w} : req'[u] = req[u]
<1>1. req \in [Everyone -> Request] /\ w \in Everyone  BY DEF IInv, TypeOK, Everyone
<1>2. \E q : req' = [req EXCEPT ![w] = q]
  <2>1. CASE Arrive(w)
        BY <2>1 DEF Arrive, Create, AuthorizeWeb, UpdateFromAdmin, Moderate, RestoreVersion,
                    RestoreDeleted, Destroy, DestroyFromAdmin, BeginFilament, Begin
  <2>2. CASE LoadWeb(w) \/ Commit(w)  BY <2>2 DEF LoadWeb, Commit
  <2>3. CASE Snapshot(w) \/ Taxonomy(w) \/ Record(w) \/ Bump(w) \/ Crash(w)
        BY <2>3 DEF Snapshot, Taxonomy, Record, Bump, Crash, Advance
  <2> QED BY <2>1, <2>2, <2>3 DEF Proceed
<1> QED BY <1>1, <1>2

\* What is not due never becomes so, and no run of the command begins.
LEMMA CronsStep ==
    ASSUME IInv, CronsIdle, [Next]_vars
    PROVE  CronsIdle'
<1>1. ASSUME Exists' PROVE ~row'.due
  <2>1. CASE Exists  BY <2>1, ScheduleStep DEF CronsIdle
  <2>2. CASE ~Exists
    <3>1. row = NoPost /\ row' # NoPost  BY <1>1, <2>2 DEF Exists
    <3>2. \A w \in Everyone : ~Commit(w)  BY <3>1, CommitContext
    <3>3. \A c \in Crons : ~ClearSchedule(c)  BY <3>1, ClearScheduleRow
    <3>4. PICK w \in Workers, op \in {"createForAuthor", "createFromAdmin"},
               status \in Statuses, body \in Bodies : Create(w, op, status, body)
          BY <3>1, <3>2, <3>3, RowSteps
    <3>5. row'.due = FALSE  BY <3>4 DEF Create
    <3> QED BY <3>5
  <2> QED BY <2>1, <2>2
<1>2. ASSUME NEW c \in Crons PROVE req'[c] = req[c]
  <2>1. c \in Everyone /\ c \notin Workers  BY WorkersAssumption DEF Everyone
  <2> QED BY <2>1, OnlyWorkers, OthersKept DEF Read, Expire, vars
<1> QED BY <1>1, <1>2 DEF CronsIdle, Idle

\* Where an advancing request goes, field by field.
LEMMA AdvanceTo ==
    ASSUME IInv, NEW w \in Everyone, Advance(w)
    PROVE  LET next == Follow(req[w].op, req[w].step)
           IN  IF next = "done" THEN req'[w] = Resting
               ELSE /\ req'[w].step = next /\ req'[w].op = req[w].op
                    /\ req'[w].status = req[w].status /\ req'[w].was = req[w].was
                    /\ req'[w].model = req[w].model /\ req'[w].body = req[w].body
<1> DEFINE next == Follow(req[w].op, req[w].step)
<1>1. req \in [Everyone -> Request]  BY DEF IInv, TypeOK
<1> HIDE DEF next
<1>2. req' = [req EXCEPT ![w] = IF next = "done" THEN Resting ELSE [@ EXCEPT !.step = next]]
      BY DEF Advance, next
<1>3. IF next = "done" THEN req'[w] = Resting
      ELSE /\ req'[w].step = next /\ req'[w].op = req[w].op
           /\ req'[w].status = req[w].status /\ req'[w].was = req[w].was
           /\ req'[w].model = req[w].model /\ req'[w].body = req[w].body
      BY <1>1, <1>2 DEF Request
<1> QED BY <1>3 DEF next

\* The status a save gives a row whose status its model had.
LEMMA SavedStatus ==
    ASSUME IInv, NEW w \in Everyone, Commit(w), req[w].model.status = row.status
    PROVE  LET q == req[w] IN
           /\ q.op \in {"approve", "publishDue"} => row'.status = "published"
           /\ q.op = "reject" => row'.status = "rejected"
           /\ q.op \in {"destroy", "restore"} => row'.status = row.status
           /\ q.op \in {"updateFromWeb", "updateFromAdmin", "restoreVersion"} =>
                 row'.status = q.status
<1> DEFINE q == req[w]
<1>1. q.model \in PostRow /\ row'.status = Attributes(q).status
      BY CommitContext, CommitRow DEF Column
<1>2. Attributes(q).status = Filled(q).status
  <2>1. CASE q.op = "destroy"  BY <2>1 DEF Attributes
  <2>2. CASE q.op # "destroy"
    <3>1. Attributes(q) = Saving(Filled(q))  BY <2>2 DEF Attributes
    <3>2. Attributes(q) \in PostRow  BY CommitContext
    <3> QED BY <3>1, <3>2 DEF Saving, PostRow
  <2> QED BY <2>1, <2>2
<1> HIDE DEF q
<1>3. /\ q.op \in {"approve", "publishDue"} => Filled(q).status = "published"
      /\ q.op = "reject" => Filled(q).status = "rejected"
      /\ q.op \in {"destroy", "restore"} => Filled(q).status = q.model.status
      /\ q.op \in {"updateFromWeb", "updateFromAdmin", "restoreVersion"} =>
            Filled(q).status = q.status
      BY <1>1 DEF Filled, Approved, Rejected, Updated, PostRow
<1> QED BY <1>1, <1>2, <1>3 DEF q

\* What a request of a single worker loads has the row's status.
LEMMA FetchedIsCurrent ==
    ASSUME IInv, CronsIdle, NEW w, Workers = {w}, ~lostBump, ~Owes(req[w]), Found
    PROVE  Exists /\ Fetched.status = row.status
<1>1. \A u \in Everyone : ~OwesBump(u)
  <2>1. \A c \in Crons : ~Owes(req[c])  BY DEF CronsIdle, Idle, Owes
  <2> QED BY <2>1 DEF Everyone, OwesBump
<1>2. row # NoPost  BY DEF Found, IInv, EntryOK
<1>3. entry # NoEntry => entry.status = row.status
      BY <1>1 DEF IInv, CacheServesCurrent, SameForReaders
<1> QED BY <1>2, <1>3 DEF Fetched, Exists

\* A request that begins finds the journal in agreement and leaves it so.
LEMMA ArriveAgrees ==
    ASSUME IInv, CronsIdle, NEW w, Workers = {w}, JournalInv(w), Arrive(w)
    PROVE  JournalInv(w)'
<1>1. w \in Everyone /\ req \in [Everyone -> Request]  BY DEF Everyone, IInv, TypeOK
<1>2. Idle(w) /\ ~Unsaid(req[w]) /\ ~Owes(req[w])
  <2>1. Idle(w)
        BY DEF Arrive, Create, AuthorizeWeb, UpdateFromAdmin, Moderate, RestoreVersion,
               RestoreDeleted, Destroy, DestroyFromAdmin, BeginFilament, Begin
  <2> QED BY <2>1 DEF Idle, Unsaid, Owes
<1>3. ASSUME NEW op \in Creations, NEW status, NEW body, Create(w, op, status, body)
      PROVE  JournalInv(w)'
  <2>1. /\ row = NoPost /\ row'.status = status
        /\ UNCHANGED <<journal, lostBump, broken>>
        /\ op = "createForAuthor" => status = "pending"
        BY <1>3 DEF Create
  <2>2. req'[w] = [Resting EXCEPT !.op = op, !.step = "taxonomy", !.status = status]
        BY <1>1, <1>3 DEF Create, Begin
  <2>3. req'[w].op = op /\ req'[w].step = "taxonomy" /\ req'[w].status = status
        BY <2>2 DEF Resting
  <2>4. row' # NoPost  BY <1>1, <2>3, <1>3, StepOK DEF IInv, HoldsRow, Next
  <2>5. Unsaid(req[w])' /\ Writes(req[w])'
        BY <2>1, <2>3 DEF Unsaid, Writes, JournalInv, Exists, Creations
  <2> QED BY <2>1, <2>3, <2>4, <2>5 DEF JournalInv, Exists
<1>4. ASSUME UNCHANGED <<row, journal, announced, lostBump, broken>>, Exists,
             req'[w].step \in {"load", "snapshot", "commit"},
             ~broken /\ req'[w].step # "load" => req'[w].model.status = row.status
      PROVE  JournalInv(w)'
  <2>1. ~Unsaid(req[w])'  BY <1>4 DEF Unsaid
  <2>2. ~broken => Agrees  BY <1>2, <1>4 DEF JournalInv
  <2>3. Agrees' = Agrees  BY <1>4 DEF Agrees
  <2> QED BY <1>4, <2>1, <2>2, <2>3 DEF JournalInv, Exists
<1>5. ASSUME NEW op, NEW step \in {"snapshot", "commit"}, NEW status, NEW body,
             BeginFilament(w, op, step, status, body)
      PROVE  JournalInv(w)'
  <2>1. Exists /\ UNCHANGED <<row, journal, announced, lostBump, broken>>
        BY <1>5 DEF BeginFilament, Exists, observers
  <2>2. req'[w] = [Resting EXCEPT !.op = op, !.step = step, !.model = row, !.was = row.status,
                                  !.status = status, !.body = body]
        BY <1>1, <1>5 DEF BeginFilament, Begin
  <2>3. req'[w].step = step /\ req'[w].model = row  BY <2>2 DEF Resting
  <2> QED BY <1>4, <2>1, <2>3
<1>6. ASSUME NEW role, NEW publish, NEW body, AuthorizeWeb(w, role, publish, body)
      PROVE  JournalInv(w)'
  <2>1. Found /\ UNCHANGED <<row, journal, announced, lostBump, broken>>
        BY <1>6 DEF AuthorizeWeb, observers
  <2>2. req'[w].step = "load"  BY <1>1, <1>6 DEF AuthorizeWeb, Begin, Resting
  <2>3. Exists  BY <2>1 DEF Found, IInv, EntryOK, Exists
  <2> QED BY <1>4, <2>1, <2>2, <2>3
<1>7. CASE Destroy(w)
  <2>1. Found /\ UNCHANGED <<row, journal, announced, lostBump, broken>>
        BY <1>7 DEF Destroy, observers
  <2>2. req'[w].step = "commit" /\ req'[w].model = Fetched
        BY <1>1, <1>7 DEF Destroy, Begin, Resting
  <2>3. Exists  BY <2>1 DEF Found, IInv, EntryOK, Exists
  <2>4. ~broken => Fetched.status = row.status
        BY <1>2, <2>1, FetchedIsCurrent DEF JournalInv
  <2> QED BY <1>4, <2>1, <2>2, <2>3, <2>4
<1> QED BY <1>3, <1>5, <1>6, <1>7
    DEF Arrive, Creations, UpdateFromAdmin, Moderate, RestoreVersion, RestoreDeleted,
        DestroyFromAdmin

\* Before its save a request leaves row and journal alone, and its save writes what the
\* journal will say.
LEMMA CommitAgrees ==
    ASSUME IInv, CronsIdle, NEW w, Workers = {w}, JournalInv(w),
           LoadWeb(w) \/ Snapshot(w) \/ Commit(w)
    PROVE  JournalInv(w)'
<1>1. w \in Everyone /\ req \in [Everyone -> Request]  BY DEF Everyone, IInv, TypeOK
<1>2. /\ req[w].step \in {"load", "snapshot", "commit"} /\ ~Unsaid(req[w]) /\ ~Owes(req[w])
      /\ Exists
  <2>1. req[w].step \in {"load", "snapshot", "commit"}
        BY DEF LoadWeb, Snapshot, Commit, At
  <2> QED BY <1>1, <2>1 DEF Unsaid, Owes, IInv, HoldsRow, Exists
<1>3. ~broken => Agrees  BY <1>2 DEF JournalInv
<1>4. ASSUME UNCHANGED <<row, journal, announced, lostBump, broken>>,
             req'[w].step \in {"done", "snapshot", "commit"},
             ~broken /\ req'[w].step # "done" => req'[w].model.status = row.status
      PROVE  JournalInv(w)'
  <2>1. ~Unsaid(req[w])'  BY <1>4 DEF Unsaid
  <2>2. Agrees' = Agrees  BY <1>4 DEF Agrees
  <2> QED BY <1>2, <1>3, <1>4, <2>1, <2>2 DEF JournalInv, Exists
<1>5. CASE LoadWeb(w)
  <2>1. UNCHANGED <<row, journal, announced, lostBump, broken>>
        BY <1>5 DEF LoadWeb, observers
  <2>2. CASE Found
    <3>1. req'[w].step = "snapshot" /\ req'[w].model = Fetched
          BY <1>1, <1>5, <2>2 DEF LoadWeb, Request
    <3>2. ~broken => Fetched.status = row.status
          BY <1>2, <2>2, FetchedIsCurrent DEF JournalInv
    <3> QED BY <1>4, <2>1, <3>1, <3>2
  <2>3. CASE ~Found
    <3>1. req'[w] = Resting  BY <1>1, <1>5, <2>3 DEF LoadWeb
    <3> QED BY <1>4, <2>1, <3>1 DEF Resting
  <2> QED BY <2>2, <2>3
<1>6. CASE Snapshot(w)
  <2>1. UNCHANGED <<row, journal, announced, lostBump, broken>> /\ req[w].step = "snapshot"
        BY <1>6 DEF Snapshot, observers, At
  <2>2. Follow(req[w].op, req[w].step) = "commit"  BY <2>1, Zenon DEF Follow
  <2>3. req'[w].step = "commit" /\ req'[w].model = req[w].model
        BY <1>1, <1>6, <2>2, AdvanceTo DEF Snapshot
  <2> QED BY <1>4, <2>1, <2>3 DEF JournalInv
<1>7. CASE Commit(w)
  <2> DEFINE q == req[w]
  <2>1. /\ UNCHANGED <<journal, lostBump, broken>>
        /\ announced' = (announced /\ (row'.status = "published" => row.status = "published"))
        /\ req' = [req EXCEPT ![w].step = Follow(q.op, "commit"),
                              ![w].model = NoPost, ![w].body = NoPost, ![w].all = FALSE]
        BY <1>7 DEF Commit
  <2>2. /\ req'[w].op = q.op /\ req'[w].status = q.status
        /\ req'[w].step = Follow(q.op, "commit")
        BY <1>1, <2>1 DEF Request
  <2>3. Follow(q.op, "commit") = IF q.op \in WithTaxonomy THEN "taxonomy"
                                 ELSE IF q.op \in RecordsBeforeBump THEN "record" ELSE "bump"
        BY Zenon DEF Follow
  <2>4. q.op \in Saves /\ row' # NoPost
        BY <1>1, <1>7, CommitContext, CommitOK, <2>2, <2>3 DEF IInv, HoldsRow
  <2>5. q.step = "commit"  BY <1>7 DEF Commit, At
  <2>6. CASE q.op \in Unrecorded
    <3>1. ~Unsaid(req[w])'
          BY <2>2, <2>3, <2>6 DEF Unsaid, WithTaxonomy, RecordsBeforeBump, Unrecorded, Creations
    <3>2. ~broken => row'.status = row.status
          BY <1>1, <1>7, <2>5, <2>6, SavedStatus DEF JournalInv, Unrecorded
    <3>3. announced \in BOOLEAN  BY DEF IInv, TypeOK
    <3>4. ~broken => Agrees'  BY <1>3, <2>1, <3>2, <3>3 DEF Agrees
    <3>5. req'[w].step \notin {"snapshot", "commit"}
          BY <2>2, <2>3
    <3> QED BY <1>2, <2>1, <2>4, <3>1, <3>4, <3>5 DEF JournalInv, Exists
  <2>7. CASE q.op \notin Unrecorded
    <3>1. Unsaid(req[w])'
          BY <2>2, <2>3, <2>7 DEF Unsaid, WithTaxonomy, RecordsBeforeBump, Unrecorded, Creations
    <3>2. ~broken => Writes(req[w])'
      <4>1. q.op \in {"approve", "publishDue", "reject", "updateFromWeb", "updateFromAdmin",
                      "restoreVersion"}
            BY <2>4, <2>7 DEF Saves, Unrecorded
      <4>2. ~broken => /\ q.op \in {"approve", "publishDue"} => row'.status = "published"
                       /\ q.op = "reject" => row'.status = "rejected"
                       /\ q.op = "updateFromWeb" => row'.status = q.status
            BY <1>1, <1>7, <2>5, SavedStatus DEF JournalInv
      <4> QED BY <2>2, <2>4, <2>7, <4>1, <4>2 DEF Writes, Creations
    <3>3. req'[w].step \notin {"snapshot", "commit"}
          BY <2>2, <2>3
    <3> QED BY <1>2, <2>1, <2>4, <3>1, <3>2, <3>3 DEF JournalInv, Exists
  <2> QED BY <2>6, <2>7
<1> QED BY <1>5, <1>6, <1>7

\* What the journal is told is what the request has done, so they agree afterwards.
LEMMA RecordAgrees ==
    ASSUME IInv, NEW w, Workers = {w}, JournalInv(w), Record(w)
    PROVE  JournalInv(w)'
<1> DEFINE q == req[w]
<1>1. w \in Everyone  BY DEF Everyone
<1>2. /\ q.step = "record" /\ journal' = Recorded(q) /\ announced' = (announced \/ Publishes(q))
      /\ Advance(w) /\ UNCHANGED <<row, lostBump, broken>>
      BY DEF Record, At
<1>3. Exists /\ (~broken => Writes(q))
      BY <1>1, <1>2 DEF JournalInv, Unsaid, IInv, HoldsRow, Exists
<1>4. ~Unsaid(req[w])' /\ req'[w].step \notin {"snapshot", "commit"}
  <2>1. Follow(q.op, q.step) = IF q.op \in RecordsBeforeBump THEN "bump"
                               ELSE IF q.op = "publishDue" THEN "clear" ELSE "done"
        BY <1>2, Zenon DEF Follow
  <2>2. \/ req'[w] = Resting
        \/ req'[w].step = "clear"
        \/ req'[w].step = "bump" /\ req'[w].op = q.op /\ q.op \in RecordsBeforeBump
        BY <1>1, <1>2, <2>1, AdvanceTo
  <2> QED BY <2>2 DEF Unsaid, Resting
<1>5. ASSUME ~broken PROVE Agrees'
  <2> HIDE DEF q
  <2>1. /\ Writes(q) /\ row' = row /\ q.status \in Statuses
        BY <1>2, <1>3, <1>5, <1>1 DEF q, IInv, TypeOK, Request
  <2>2. CASE q.op \in {"approve", "publishDue"}
    <3>1. Recorded(q) = "approved"
      <4>1. /\ q.op # "reject" /\ q.op # "restoreVersion" /\ q.op # "updateFromWeb" /\ q.op # "updateFromAdmin"
            /\ q.op \notin Creations
            BY <2>2 DEF Creations
      <4> QED BY <2>2, <4>1, Zenon DEF Recorded
    <3>2. Publishes(q)  BY <2>2 DEF Publishes
    <3> QED BY <1>2, <2>1, <2>2, <3>1, <3>2 DEF Agrees, Writes
  <2>3. CASE q.op = "reject"
    <3>1. Recorded(q) = "rejected"
      <4>1. /\ q.op \notin {"approve", "publishDue"} /\ q.op # "restoreVersion" /\ q.op # "updateFromWeb" /\ q.op # "updateFromAdmin"
            /\ q.op \notin Creations
            BY <2>3 DEF Creations
      <4> QED BY <2>3, <4>1, Zenon DEF Recorded
    <3> QED BY <1>2, <2>1, <2>3, <3>1 DEF Agrees, Writes
  <2>4. CASE q.op = "restoreVersion"
    <3>1. Recorded(q) = "restored"
      <4>1. /\ q.op \notin {"approve", "publishDue"} /\ q.op # "reject" /\ q.op # "updateFromWeb" /\ q.op # "updateFromAdmin"
            /\ q.op \notin Creations
            BY <2>4 DEF Creations
      <4> QED BY <2>4, <4>1, Zenon DEF Recorded
    <3> QED BY <1>2, <2>1, <2>4, <3>1 DEF Agrees, Writes
  <2>5. CASE q.op = "updateFromWeb" /\ q.was = "published" /\ q.status = "pending"
    <3>1. Recorded(q) = "submitted"  BY <2>5, Zenon DEF Recorded
    <3> QED BY <1>2, <2>1, <2>5, <3>1 DEF Agrees, Writes
  <2>6. CASE /\ q.op \in {"updateFromWeb", "updateFromAdmin"}
             /\ ~(q.op = "updateFromWeb" /\ q.was = "published" /\ q.status = "pending")
    <3>1. Recorded(q) = "updated"
      <4>1. /\ q.op \notin {"approve", "publishDue"} /\ q.op # "reject" /\ q.op # "restoreVersion"
            /\ q.op \notin Creations
            BY <2>6 DEF Creations
      <4>2. CASE q.op = "updateFromWeb"
        <5>1. ~(q.was = "published" /\ q.status = "pending") /\ q.op # "updateFromAdmin"
              BY <2>6, <4>2
        <5> QED BY <4>1, <4>2, <5>1, Zenon DEF Recorded
      <4>3. CASE q.op = "updateFromAdmin"
        <5>1. q.op # "updateFromWeb"  BY <4>3
        <5> QED BY <4>1, <4>3, <5>1, Zenon DEF Recorded
      <4> QED BY <2>6, <4>2, <4>3
    <3> QED BY <1>2, <2>1, <2>6, <3>1 DEF Agrees, Writes
  <2>7. CASE q.op \in Creations
    <3>1. row.status = q.status /\ journal = "none" /\ (q.op = "createForAuthor" => q.status = "pending")
          BY <2>1, <2>7 DEF Writes
    <3>2. CASE q.status = "pending"
      <4>1. Recorded(q) = "submitted"  BY <2>7, <3>2, Zenon DEF Recorded, Creations
      <4> QED BY <1>2, <2>1, <3>1, <3>2, <4>1 DEF Agrees
    <3>3. CASE q.status = "published"
      <4>1. Recorded(q) = "approved"  BY <2>7, <3>3, Zenon DEF Recorded, Creations
      <4>2. Publishes(q)  BY <2>7, <3>1, <3>3 DEF Publishes, Creations
      <4> QED BY <1>2, <2>1, <3>1, <3>3, <4>1, <4>2 DEF Agrees
    <3>4. CASE q.status \notin {"pending", "published"}
      <4>1. Recorded(q) = journal
        <5>1. q.status # "pending" /\ q.status # "published"  BY <3>4
        <5> QED BY <2>7, <5>1, Zenon DEF Recorded, Creations
      <4> QED BY <1>2, <2>1, <3>1, <3>4, <4>1 DEF Agrees
    <3> QED BY <3>2, <3>3, <3>4
  <2> QED BY <2>1, <2>2, <2>3, <2>4, <2>5, <2>6, <2>7 DEF Writes, Saves, Unrecorded
<1> QED BY <1>2, <1>3, <1>4, <1>5 DEF JournalInv, Exists

\* A bump, the taxonomy and a kill keep what is owed to the journal, or break.
LEMMA RestAgrees ==
    ASSUME IInv, NEW w, Workers = {w}, JournalInv(w), Taxonomy(w) \/ Bump(w) \/ Crash(w)
    PROVE  JournalInv(w)'
<1> DEFINE q == req[w]
<1>1. w \in Everyone /\ req \in [Everyone -> Request]  BY DEF Everyone, IInv, TypeOK
<1>2. UNCHANGED <<row, journal, announced>> /\ q.step # "done" /\ Exists
  <2>1. UNCHANGED <<row, journal, announced>> /\ q.step # "done"
        BY DEF Taxonomy, Bump, Crash, observers, At, Idle
  <2> QED BY <1>1, <2>1 DEF IInv, HoldsRow, Exists
<1>3. ASSUME /\ q.step \in {"taxonomy", "bump"} /\ Advance(w)
             /\ broken' = broken /\ (lostBump' => lostBump)
      PROVE  JournalInv(w)'
  <2>1. Follow(q.op, q.step) = IF q.step = "taxonomy"
                               THEN IF q.op \in RecordsBeforeBump THEN "record" ELSE "bump"
                               ELSE IF q.op \in RecordsBeforeBump \cup Unrecorded THEN "done" ELSE "record"
    <3>1. CASE q.step = "taxonomy"  BY <3>1, Zenon DEF Follow
    <3>2. CASE q.step = "bump"  BY <3>2, Zenon DEF Follow
    <3> QED BY <1>3, <3>1, <3>2
  <2>2. IF Follow(q.op, q.step) = "done" THEN req'[w] = Resting
        ELSE /\ req'[w].step = Follow(q.op, q.step)
             /\ req'[w].op = q.op /\ req'[w].status = q.status
        BY <1>1, <1>3, AdvanceTo
  <2>3. req'[w].step \notin {"snapshot", "commit"}  BY <2>1, <2>2 DEF Resting
  <2>4. CASE Unsaid(q)
    <3>1. q.op \in Unrecorded => broken
          BY <1>2, <2>4 DEF JournalInv, Writes, Unrecorded, Creations
    <3>2. CASE q.op \in Unrecorded  BY <1>2, <1>3, <2>3, <3>1, <3>2 DEF JournalInv, Exists
    <3>3. CASE q.op \notin Unrecorded
      <4>1. /\ req'[w].step \in {"record", "bump"} /\ req'[w].op = q.op
            /\ req'[w].status = q.status
            /\ req'[w].step = "bump" => q.op \notin RecordsBeforeBump
            BY <1>3, <2>1, <2>2, <2>4, <3>3 DEF Unsaid
      <4>2. Unsaid(req[w])'  BY <3>3, <4>1 DEF Unsaid
      <4>3. ~broken => Writes(req[w])'  BY <1>2, <2>4, <4>1 DEF JournalInv, Writes
      <4> QED BY <1>2, <1>3, <2>3, <4>2, <4>3 DEF JournalInv, Exists
    <3> QED BY <3>2, <3>3
  <2>5. CASE ~Unsaid(q)
    <3>1. req'[w] = Resting  BY <1>3, <2>1, <2>2, <2>5 DEF Unsaid
    <3>2. ~Unsaid(req[w])'  BY <3>1 DEF Unsaid, Resting
    <3>3. ~broken => Agrees'  BY <1>2, <2>5 DEF JournalInv, Agrees
    <3> QED BY <1>2, <1>3, <2>3, <3>2, <3>3 DEF JournalInv, Exists
  <2> QED BY <2>4, <2>5
<1>4. ASSUME broken', req' = [req EXCEPT ![w] = Resting] PROVE JournalInv(w)'
  <2>1. req'[w] = Resting  BY <1>1, <1>4
  <2> QED BY <1>2, <1>4, <2>1 DEF JournalInv, Exists
<1>5. CASE Taxonomy(w) \/ Bump(w)  BY <1>3, <1>4, <1>5 DEF Taxonomy, Bump, At
<1>6. CASE Crash(w) /\ q.step \notin {"load", "snapshot", "commit"}
  <2>1. q.step \in Steps  BY <1>1 DEF Request
  <2> QED BY <1>2, <1>4, <1>6, <2>1 DEF Crash, Steps
<1>7. CASE Crash(w) /\ q.step \in {"load", "snapshot", "commit"}
  <2>1. req'[w] = Resting /\ broken' = broken /\ lostBump' = lostBump
        BY <1>1, <1>7 DEF Crash, OwesBump, Owes, IInv, TypeOK
  <2>2. ~Unsaid(req[w])'  BY <2>1 DEF Unsaid, Resting
  <2>3. ~broken => Agrees'  BY <1>2, <1>7 DEF JournalInv, Agrees, Unsaid
  <2> QED BY <1>2, <2>1, <2>2, <2>3 DEF JournalInv, Exists, Resting
<1> QED BY <1>5, <1>6, <1>7

\* Every step of an undisturbed worker keeps the journal in agreement.
LEMMA JournalStep ==
    ASSUME IInv, CronsIdle, NEW w, Workers = {w}, JournalInv(w), [Next]_vars
    PROVE  JournalInv(w)'
<1>1. CASE Read \/ Expire \/ UNCHANGED vars
  <2>1. /\ UNCHANGED <<row, req, journal, announced, broken>> /\ (lostBump' => lostBump)
        BY <1>1 DEF Read, Expire, vars, observers
  <2>2. Agrees' = Agrees /\ Writes(req[w])' = Writes(req[w])  BY <2>1 DEF Agrees, Writes
  <2> QED BY <2>1, <2>2 DEF JournalInv, Exists, Idle
<1> QED BY <1>1, OnlyWorkers, ArriveAgrees, CommitAgrees, RecordAgrees, RestAgrees DEF Proceed

\* A seeded row keeps the schedule it was given.
LEMMA SettledRows == \A r \in Settled : r \in PostRow /\ r.due \in Schedules
<1> SUFFICES ASSUME NEW s \in Starts \ {"absent"}, NEW b \in Bodies, NEW d \in Schedules,
                    NEW r, r = [status |-> s, isPublished |-> s = "published", body |-> b,
                                dated |-> s = "published", due |-> d, deleted |-> FALSE]
             PROVE  r \in PostRow /\ r.due \in Schedules
    BY DEF Settled
<1>1. s \in Statuses  BY StartsAssumption
<1>2. d \in BOOLEAN  BY StartsAssumption
<1> QED BY <1>1, <1>2 DEF PostRow

\* Where nothing is scheduled, nothing is due at first.
LEMMA SerialStarts == ASSUME Init, TRUE \notin Schedules PROVE CronsIdle
<1>1. ASSUME NEW d \in Schedules PROVE d = FALSE  BY StartsAssumption
<1>2. \A r \in Settled : r \in PostRow /\ r.due \in Schedules  BY SettledRows
<1>3. row = NoPost \/ row.due = FALSE  BY <1>1, <1>2 DEF Init
<1>4. \A c \in Crons : Idle(c)  BY DEF Init, Idle, Resting, Everyone
<1> QED BY <1>3, <1>4 DEF CronsIdle, Exists

\* One request after the other, none of them scheduled and any of them killed: while no
\* request was abandoned after its save, the journal's newest verdict is the status of
\* the row, and what is public was announced unless a restore made it so.
THEOREM SerialJournal ==
    ASSUME NEW w, Workers = {w}, TRUE \notin Schedules
    PROVE  Spec => []JournalAgrees
<1> DEFINE J == CronsIdle /\ JournalInv(w)
<1>1. Init => J
  <2> SUFFICES ASSUME Init PROVE J  OBVIOUS
  <2>1. w \in Everyone /\ req = [u \in Everyone |-> Resting] /\ journal = "none"
        /\ ~lostBump /\ announced = (row # NoPost /\ row.status = "published")
        BY DEF Init, Everyone
  <2>2. CronsIdle  BY SerialStarts
  <2>3. req[w] = Resting  BY <2>1
  <2>4. Exists => Agrees  BY <2>1 DEF Agrees, Exists
  <2> QED BY <2>1, <2>2, <2>3, <2>4 DEF JournalInv, Unsaid, Resting, Idle
<1>2. IInv /\ J /\ [Next]_vars => J'  BY CronsStep, JournalStep
<1>3. J => JournalAgrees
  <2> SUFFICES ASSUME J, Quiet, ~broken, Exists PROVE Agrees
      BY DEF JournalAgrees, Agrees
  <2>1. req[w].step = "done"  BY DEF Quiet, Everyone, Idle
  <2> QED BY <2>1 DEF JournalInv, Unsaid
<1> QED BY <1>1, <1>2, <1>3, Invariance, PTL DEF Spec

-----------------------------------------------------------------------------
(* What an edit replaces stays in the history *)

Edits == {"updateFromWeb", "updateFromAdmin"}

\* A request that is about to save its edit has its snapshot in the history, or the
\* history consists of newer ones.
SnapshotIn(w, vs) ==
    \/ \E v \in vs : /\ v.num = stored[w]
                     /\ v.body = req[w].model.body /\ v.status = req[w].model.status
    \/ vs # {} /\ \A v \in vs : v.num > stored[w]
Snapshotted ==
    \A w \in Everyone : req[w].step = "commit" /\ req[w].op \in Edits => SnapshotIn(w, versions)

\* Pruning takes the oldest: it drops a snapshot only if all it keeps are newer.
LEMMA PruningTakesTheOldest ==
    ASSUME NEW vs, IsFiniteSet(vs), \A v \in vs : v.num \in Nat, NEW v \in vs, v \notin Newest(vs)
    PROVE  \A y \in Newest(vs) : y.num > v.num
<1> SUFFICES ASSUME NEW y \in Newest(vs), ~(y.num > v.num) PROVE FALSE  OBVIOUS
<1> DEFINE above(u) == {z \in vs : z.num > u.num}
<1>1. y \in vs /\ y.num \in Nat /\ v.num \in Nat /\ y.num <= v.num  BY DEF Newest
<1>2. above(v) \subseteq above(y)
  <2> SUFFICES ASSUME NEW z \in vs, z.num > v.num PROVE z.num > y.num  OBVIOUS
  <2>1. z.num \in Nat  OBVIOUS
  <2> QED BY <1>1, <2>1
<1>3. IsFiniteSet(above(y)) /\ IsFiniteSet(above(v))
      BY FS_Subset
<1>4. /\ Cardinality(above(v)) <= Cardinality(above(y))
      /\ Cardinality(above(v)) \in Nat /\ Cardinality(above(y)) \in Nat
      BY <1>2, <1>3, FS_Subset, FS_CardinalityType
<1>5. Cardinality(above(y)) < MAX_VERSIONS  BY DEF Newest
<1>6. ~(Cardinality(above(v)) < MAX_VERSIONS)  BY DEF Newest
<1> QED BY <1>4, <1>5, <1>6 DEF MAX_VERSIONS

\* A request's own snapshot survives until another prunes it for a newer one.
LEMMA SnapshotKeeps ==
    ASSUME IInv, Snapshotted, NEW w \in Everyone, Snapshot(w) PROVE Snapshotted'
<1>1. PICK x : /\ x.num \in Nat \ {0}
               /\ x.status = req[w].model.status /\ x.body = req[w].model.body
               /\ \A v \in versions : v.num \in Nat /\ v.num < x.num
               /\ versions' = Newest(versions \cup {x}) /\ x \in versions'
               /\ stored' = [stored EXCEPT ![w] = x.num]
      BY SnapshotStored
<1>2. /\ req \in [Everyone -> Request] /\ stored \in [Everyone -> Nat]
      /\ req[w].step = "snapshot" /\ Advance(w)
      BY DEF IInv, TypeOK, Snapshot, At
<1>3. Follow(req[w].op, req[w].step) = "commit"  BY <1>2, Zenon DEF Follow
<1>4. req'[w].model = req[w].model  BY <1>2, <1>3, AdvanceTo
<1>5. SUFFICES ASSUME NEW u \in Everyone, req'[u].step = "commit", req'[u].op \in Edits
               PROVE  \/ \E v \in versions' :
                             /\ v.num = stored'[u]
                             /\ v.body = req'[u].model.body /\ v.status = req'[u].model.status
                      \/ versions' # {} /\ \A v \in versions' : v.num > stored'[u]
      BY DEF Snapshotted, SnapshotIn
<1>6. CASE u = w  BY <1>1, <1>2, <1>4, <1>6
<1>7. CASE u # w
  <2>1. req'[u] = req[u] /\ stored'[u] = stored[u] /\ stored[u] \in Nat
        BY <1>1, <1>2, <1>7 DEF Advance
  <2>2. SnapshotIn(u, versions)  BY <1>5, <2>1 DEF Snapshotted
  <2>3. CASE \E v \in versions : /\ v.num = stored[u]
                                 /\ v.body = req[u].model.body /\ v.status = req[u].model.status
    <3>1. PICK v \in versions : /\ v.num = stored[u]
                                /\ v.body = req[u].model.body /\ v.status = req[u].model.status
          BY <2>3
    <3>2. CASE v \in versions'  BY <2>1, <3>1, <3>2
    <3>3. CASE v \notin versions'
      <4> DEFINE vs == versions \cup {x}
      <4>1. IsFiniteSet(vs)  BY FS_AddElement DEF IInv, TypeOK
      <4>2. \A y \in vs : y.num \in Nat  BY <1>1
      <4>3. v \in vs /\ v \notin Newest(vs)  BY <1>1, <3>3
      <4> HIDE DEF vs
      <4>4. \A y \in Newest(vs) : y.num > v.num  BY <4>1, <4>2, <4>3, PruningTakesTheOldest
      <4> QED BY <1>1, <2>1, <3>1, <4>4 DEF vs
    <3> QED BY <3>2, <3>3
  <2>4. CASE versions # {} /\ \A v \in versions : v.num > stored[u]
    <3>1. x.num > stored[u]
      <4>1. PICK v \in versions : v.num > stored[u]  BY <2>4
      <4>2. v.num \in Nat /\ v.num < x.num  BY <1>1
      <4> QED BY <1>1, <2>1, <4>1, <4>2
    <3>2. \A y \in versions' : y \in versions \/ y = x  BY <1>1 DEF Newest
    <3> QED BY <1>1, <2>1, <2>4, <3>1, <3>2
  <2> QED BY <2>2, <2>3, <2>4 DEF SnapshotIn
<1> QED BY <1>6, <1>7

\* No other step brings an edit to its save or touches the history.
LEMMA OtherStepsKeep ==
    ASSUME IInv, [Next]_vars, \A w \in Everyone : ~Snapshot(w)
    PROVE  /\ versions' = versions
           /\ \A u \in Everyone :
                 req'[u].step = "commit" /\ req'[u].op \in Edits
                   => req'[u] = req[u] /\ stored'[u] = stored[u]
<1>0. req \in [Everyone -> Request] /\ stored \in [Everyone -> Nat]  BY DEF IInv, TypeOK
<1>1. ASSUME NEW w \in Everyone, NEW q, req' = [req EXCEPT ![w] = q],
             \A u \in Everyone \ {w} : stored'[u] = stored[u],
             q.step = "commit" => q.op \notin Edits,
             versions' = versions
      PROVE  /\ versions' = versions
             /\ \A u \in Everyone :
                   req'[u].step = "commit" /\ req'[u].op \in Edits
                     => req'[u] = req[u] /\ stored'[u] = stored[u]
      BY <1>0, <1>1
<1>2. CASE \E w \in Workers : Arrive(w)
  <2>1. PICK w \in Workers : Arrive(w)  BY <1>2
  <2>2. w \in Everyone  BY DEF Everyone
  <2>3. /\ versions' = versions /\ stored' = stored
        /\ \E q : req' = [req EXCEPT ![w] = q] /\ (q.step = "commit" => q.op \notin Edits)
    <3>1. ASSUME NEW op, NEW step, NEW status, NEW body, BeginFilament(w, op, step, status, body),
                 step = "commit" => op \notin Edits
          PROVE  /\ versions' = versions /\ stored' = stored
                 /\ \E q : req' = [req EXCEPT ![w] = q] /\ (q.step = "commit" => q.op \notin Edits)
      <4> DEFINE q == [Resting EXCEPT !.op = op, !.step = step, !.model = row,
                                      !.was = row.status, !.status = status, !.body = body]
      <4>1. req' = [req EXCEPT ![w] = q] /\ versions' = versions /\ stored' = stored
            BY <3>1 DEF BeginFilament, Begin, observers
      <4>2. q.step = step /\ q.op = op  BY DEF Resting
      <4> QED BY <3>1, <4>1, <4>2
    <3>2. ASSUME NEW op, NEW status, NEW body, Create(w, op, status, body)
          PROVE  /\ versions' = versions /\ stored' = stored
                 /\ \E q : req' = [req EXCEPT ![w] = q] /\ q.step # "commit"
      <4> DEFINE q == [Resting EXCEPT !.op = op, !.step = "taxonomy", !.status = status]
      <4>1. req' = [req EXCEPT ![w] = q] /\ versions' = versions /\ stored' = stored
            BY <3>2 DEF Create, Begin
      <4>2. q.step = "taxonomy"  BY DEF Resting
      <4> QED BY <4>1, <4>2
    <3>3. ASSUME NEW role, NEW publish, NEW b, AuthorizeWeb(w, role, publish, b)
          PROVE  /\ versions' = versions /\ stored' = stored
                 /\ \E q : req' = [req EXCEPT ![w] = q] /\ q.step # "commit"
      <4> DEFINE q == [Resting EXCEPT !.op = "updateFromWeb", !.step = "load", !.body = b,
                                !.all = CanManageAll(role),
                                !.publish = CanManageAll(role) /\ publish]
      <4>1. req' = [req EXCEPT ![w] = q] /\ versions' = versions /\ stored' = stored
            BY <3>3 DEF AuthorizeWeb, Begin, observers
      <4>2. q.step = "load"  BY DEF Resting
      <4> QED BY <4>1, <4>2
    <3>4. CASE Destroy(w)
      <4> DEFINE q == [Resting EXCEPT !.op = "destroy", !.step = "commit", !.model = Fetched,
                                !.was = Fetched.status, !.status = Fetched.status,
                                !.body = Fetched.body]
      <4>1. req' = [req EXCEPT ![w] = q] /\ versions' = versions /\ stored' = stored
            BY <3>4 DEF Destroy, Begin, observers
      <4>2. q.op = "destroy"  BY DEF Resting
      <4> QED BY <4>1, <4>2 DEF Edits
    <3>5. CASE \/ \E s \in Statuses, b \in Bodies : UpdateFromAdmin(w, s, b)
               \/ Moderate(w, "approve") \/ Moderate(w, "reject")
               \/ \E v \in versions : RestoreVersion(w, v)
               \/ RestoreDeleted(w) \/ DestroyFromAdmin(w)
          BY <3>1, <3>5 DEF UpdateFromAdmin, Moderate, RestoreVersion, RestoreDeleted,
                            DestroyFromAdmin, Edits
    <3> QED BY <2>1, <3>2, <3>3, <3>4, <3>5 DEF Arrive
  <2> QED BY <1>1, <2>2, <2>3
<1>3. ASSUME NEW w \in Everyone, Advance(w), req[w].step \in {"taxonomy", "record", "bump", "clear"}
      PROVE  \E q : req' = [req EXCEPT ![w] = q] /\ q.step # "commit"
  <2> DEFINE next == Follow(req[w].op, req[w].step)
             q == IF next = "done" THEN Resting ELSE [req[w] EXCEPT !.step = next]
  <2>1. req' = [req EXCEPT ![w] = q]  BY <1>0, <1>3 DEF Advance
  <2>2. next # "commit"  BY <1>3, FollowType
  <2> HIDE DEF next
  <2>3. q.step # "commit"  BY <1>0, <2>2 DEF Resting, Request
  <2> QED BY <2>1, <2>3
<1>4. CASE \E w \in Everyone : Proceed(w)
  <2>1. PICK w \in Everyone : Proceed(w)  BY <1>4
  <2>2. CASE LoadWeb(w)
    <3>1. versions' = versions /\ stored' = stored  BY <2>2 DEF LoadWeb, observers
    <3>2. CASE Found
      <4>1. /\ req'[w].step = "snapshot"
            /\ \A u \in Everyone \ {w} : req'[u] = req[u]
            BY <1>0, <2>2, <3>2 DEF LoadWeb, Request
      <4> QED BY <3>1, <4>1
    <3>3. CASE ~Found
      <4>1. req' = [req EXCEPT ![w] = Resting]  BY <2>2, <3>3 DEF LoadWeb
      <4> QED BY <1>1, <3>1, <4>1 DEF Resting
    <3> QED BY <3>2, <3>3
  <2>3. CASE Commit(w)
    <3>1. /\ versions' = versions
          /\ \A u \in Everyone \ {w} : req'[u] = req[u] /\ stored'[u] = stored[u]
          BY <1>0, <2>3 DEF Commit
    <3> QED BY <2>3, <3>1, CommitLeaves
  <2>4. CASE Taxonomy(w) \/ Record(w) \/ Bump(w)
    <3>1. versions' = versions /\ stored' = stored
          /\ req[w].step \in {"taxonomy", "record", "bump"}
          BY <2>4 DEF Taxonomy, Record, Bump, At, observers
    <3>2. CASE Advance(w)
      <4>1. PICK q : req' = [req EXCEPT ![w] = q] /\ q.step # "commit"  BY <1>3, <3>1, <3>2
      <4> QED BY <1>1, <3>1, <4>1
    <3>3. CASE ~Advance(w)
      <4>1. req' = [req EXCEPT ![w] = Resting]  BY <2>4, <3>3 DEF Taxonomy, Record, Bump
      <4> QED BY <1>1, <3>1, <4>1 DEF Resting
    <3> QED BY <3>2, <3>3
  <2> QED BY <2>1, <2>2, <2>3, <2>4 DEF Proceed
<1>5. CASE \E w \in Everyone : Crash(w)  BY <1>1, <1>5 DEF Crash, observers, Resting
<1>6. CASE \E c \in Crons : LoadDue(c)
      BY <1>1, <1>6 DEF LoadDue, observers, Resting, Everyone, Edits
<1>7. CASE \E c \in Crons : ClearSchedule(c)
  <2>1. PICK c \in Crons : ClearSchedule(c)  BY <1>7
  <2>2. /\ c \in Everyone /\ Advance(c) /\ req[c].step = "clear"
        /\ versions' = versions /\ stored' = stored
        BY <2>1 DEF ClearSchedule, Everyone, At, observers
  <2>3. PICK q : req' = [req EXCEPT ![c] = q] /\ q.step # "commit"  BY <1>3, <2>2
  <2> QED BY <1>1, <2>2, <2>3
<1>8. CASE Read \/ Expire \/ UNCHANGED vars  BY <1>8 DEF Read, Expire, vars, observers
<1> QED BY <1>2, <1>4, <1>5, <1>6, <1>7, <1>8 DEF Next

\* Whatever requests, killed ones included, run beside it: an edit that changes the
\* row leaves the text and status it replaces in the history, unless the row moved
\* on from the model it stored or newer snapshots pushed its own out.
THEOREM RestorePointNeedsOverlap == Spec => RestorePointLostOnlyByOverlap
<1>1. Init => Snapshotted  BY DEF Init, Snapshotted, Resting
<1>2. IInv /\ Snapshotted /\ [Next]_vars => Snapshotted'
  <2> SUFFICES ASSUME IInv, Snapshotted, [Next]_vars PROVE Snapshotted'  OBVIOUS
  <2>1. CASE \E w \in Everyone : Snapshot(w)  BY <2>1, SnapshotKeeps
  <2>2. CASE \A w \in Everyone : ~Snapshot(w)
        BY <2>2, OtherStepsKeep DEF Snapshotted, SnapshotIn
  <2> QED BY <2>1, <2>2
<1> DEFINE Kept == \A w \in Workers :
                     EditsRow(w) => ReplacedIsKept \/ SavesStale(w) \/ PushedOut(w)
<1>3. Snapshotted => Kept
  <2> SUFFICES ASSUME Snapshotted, NEW w \in Workers, EditsRow(w), ~SavesStale(w)
               PROVE  ReplacedIsKept \/ PushedOut(w)
      OBVIOUS
  <2>1. SnapshotIn(w, versions)  BY DEF EditsRow, At, Snapshotted, Everyone, Edits
  <2>2. req[w].model.status = row.status /\ req[w].model.body = row.body
        BY DEF EditsRow, SavesStale
  <2> QED BY <2>1, <2>2 DEF SnapshotIn, ReplacedIsKept, PushedOut
<1> HIDE DEF Kept
<1>4. Spec => [][Kept]_vars  BY <1>1, <1>2, <1>3, Invariance, PTL DEF Spec
<1> QED BY <1>4 DEF RestorePointLostOnlyByOverlap, Kept
=============================================================================
