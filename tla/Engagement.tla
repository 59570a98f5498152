------------------------------ MODULE Engagement ------------------------------
(***************************************************************************)
(* The engagement block of one post: reactions in the table, their totals  *)
(* and each user's own reaction in Redis, the engagement version, and the  *)
(* browser tab that follows it.                                            *)
(*                                                                         *)
(* A toggle writes the table, then the totals, then the user's own entry,  *)
(* then bumps the version, with nothing around the four.  Neither entry    *)
(* has a time to live.  A tab shows the block as it was rendered and the   *)
(* version read after that; a stream tells it of later versions.           *)
(***************************************************************************)
EXTENDS Naturals, FiniteSets

CONSTANTS
    Users,       \* signed-in users who react
    Watchers,    \* those of them who have the post open in a tab
    Types,       \* reaction types
    None,        \* no reaction; no request; nothing shown yet
    Unset,       \* Redis holds no entry
    MaxToggles,  \* bound: clicks in a behaviour
    MaxFaults    \* bound: requests killed, on the way back included, and streams ended

ASSUME UsersAssumption == IsFiniteSet(Users) /\ Watchers \subseteq Users
ASSUME TypesAssumption == None \notin Types /\ Unset \notin Types /\ Unset # None
ASSUME BoundsAssumption == MaxToggles \in Nat /\ MaxFaults \in Nat

Reaction == Types \cup {None}
Tallies == [Types -> 0..Cardinality(Users)]
ASSUME TalliesAssumption == Unset \notin Tallies /\ None \notin Tallies
ASSUME VersionsAssumption == None \notin Nat

VARIABLES
    votes,      \* post_reactions: the reaction of each user
    totals,     \* post_reactions totals in Redis, or Unset
    mine,       \* each user's own reaction in Redis, or Unset
    version,    \* engagement version
    req,        \* per user, the request of a click and the one of a view
    tab,        \* what each watcher's tab shows: [totals, mine, version]
    local,      \* lastLocalVersion of each tab while it counts, or None
    stream,     \* version its stream has reported, or None without a stream
    news,       \* an engagement.updated event on its way to the tab, or None
    disturbed,  \* observer: a reply, a fill or a stream was late, or lost
    toggles, faults

reactions == <<votes, totals, mine, version>>
browser == <<tab, local, stream, news>>
bounds == <<toggles, faults>>
vars == <<reactions, req, browser, disturbed, bounds>>

Kinds == {"click", "view"}
Steps == {"idle", "lookup", "query", "remember", "write", "count", "put", "own", "bump",
          "totals", "recount", "fill", "mine", "requery", "refill", "version", "reply"}

\* seen, tally: the own reaction and the totals this request has read;
\* since: version when it began to render; version: the one it answers with.
Resting == [step |-> "idle", type |-> None, seen |-> None, tally |-> Unset,
            since |-> None, version |-> None]
Blank == [totals |-> Unset, mine |-> None, version |-> None]

Tally(v) == [t \in Types |-> Cardinality({u \in Users : v[u] = t})]

Idle(u, k) == req[u][k].step = "idle"
At(u, k, step) == req[u][k].step = step
Go(u, k, step) == req' = [req EXCEPT ![u][k].step = step]
Loaded(u) == tab[u].version # None

-----------------------------------------------------------------------------
(* ReactionService::toggle *)

Click(u, t) ==
    /\ Idle(u, "click") /\ toggles < MaxToggles
    /\ u \in Watchers => Loaded(u)
    /\ toggles' = toggles + 1
    /\ req' = [req EXCEPT ![u]["click"] = [Resting EXCEPT !.step = "lookup", !.type = t]]
    /\ UNCHANGED <<reactions, browser, disturbed, faults>>

\* userReaction
Lookup(u) ==
    /\ At(u, "click", "lookup")
    /\ IF mine[u] = Unset
       THEN Go(u, "click", "query")
       ELSE req' = [req EXCEPT ![u]["click"].step = "write", ![u]["click"].seen = mine[u]]
    /\ UNCHANGED <<reactions, browser, disturbed, bounds>>

\* loadUserReactionFromDatabase
Query(u, k) ==
    /\ At(u, k, "query") \/ At(u, k, "requery")
    /\ req' = [req EXCEPT ![u][k].seen = votes[u],
                          ![u][k].step = IF @ = "query" THEN "remember" ELSE "refill"]
    /\ UNCHANGED <<reactions, browser, disturbed, bounds>>

\* rememberUserReactionInRedis, a miss included
Remember(u, k) ==
    /\ At(u, k, "remember") \/ At(u, k, "refill")
    /\ mine' = [mine EXCEPT ![u] = req[u][k].seen]
    /\ disturbed' = (disturbed \/ req[u][k].seen # votes[u])
    /\ Go(u, k, IF At(u, k, "remember") THEN "write" ELSE "version")
    /\ UNCHANGED <<votes, totals, version, browser, bounds>>

Removes(q) == q.seen = q.type

\* upsert or remove; a remove that finds no row refreshes nothing.
Write(u) ==
    /\ At(u, "click", "write")
    /\ LET q == req[u]["click"]
       IN  IF Removes(q) /\ votes[u] = None
           THEN Go(u, "click", "bump") /\ UNCHANGED votes
           ELSE /\ votes' = [votes EXCEPT ![u] = IF Removes(q) THEN None ELSE q.type]
                /\ Go(u, "click", "count")
    /\ UNCHANGED <<totals, mine, version, browser, disturbed, bounds>>

\* loadCountArraysFromDatabase
Count(u, k) ==
    /\ At(u, k, "count") \/ At(u, k, "recount")
    /\ req' = [req EXCEPT ![u][k].tally = Tally(votes),
                          ![u][k].step = IF @ = "count" THEN "put" ELSE "fill"]
    /\ UNCHANGED <<reactions, browser, disturbed, bounds>>

\* Mutant: totals that are there already are left alone.
PutMutant(u, k) ==
    /\ At(u, k, "put") \/ At(u, k, "fill")
    /\ totals' = IF totals = Unset THEN req[u][k].tally ELSE totals
    /\ disturbed' = (disturbed \/ req[u][k].tally # Tally(votes))
    /\ Go(u, k, IF At(u, k, "put") THEN "own" ELSE "totals")
    /\ UNCHANGED <<votes, mine, version, browser, bounds>>

\* hydrateTotalsFromDatabase, after a write or because the entry was missing
Put(u, k) ==
    /\ At(u, k, "put") \/ At(u, k, "fill")
    /\ totals' = req[u][k].tally
    /\ disturbed' = (disturbed \/ req[u][k].tally # Tally(votes))
    /\ Go(u, k, IF At(u, k, "put") THEN "own" ELSE "totals")
    /\ UNCHANGED <<votes, mine, version, browser, bounds>>

\* Mutant: a reaction that was removed is not forgotten.
OwnMutant(u) ==
    /\ At(u, "click", "own")
    /\ mine' = [mine EXCEPT ![u] = req[u]["click"].type]
    /\ Go(u, "click", "bump")
    /\ UNCHANGED <<votes, totals, version, browser, disturbed, bounds>>

\* rememberUserReactionInRedis or forgetUserReactionInRedis
Own(u) ==
    /\ At(u, "click", "own")
    /\ LET q == req[u]["click"]
       IN  mine' = [mine EXCEPT ![u] = IF Removes(q) THEN Unset ELSE q.type]
    /\ Go(u, "click", "bump")
    /\ UNCHANGED <<votes, totals, version, browser, disturbed, bounds>>

\* Rendering starts: what the toggle has read is of no more use.
Rendering == [Resting EXCEPT !.step = "totals"]

\* Mutant: the version is read where it should be raised.
BumpMutant(u) ==
    /\ At(u, "click", "bump")
    /\ req' = [req EXCEPT ![u]["click"] =
                 IF u \in Watchers THEN [Rendering EXCEPT !.since = version] ELSE Resting]
    /\ UNCHANGED <<reactions, browser, disturbed, bounds>>

\* PostEngagementVersionService::bump; without the script there is a redirect.
Bump(u) ==
    /\ At(u, "click", "bump")
    /\ version' = version + 1
    /\ req' = [req EXCEPT ![u]["click"] =
                 IF u \in Watchers THEN [Rendering EXCEPT !.since = version'] ELSE Resting]
    /\ UNCHANGED <<votes, totals, mine, browser, disturbed, bounds>>

-----------------------------------------------------------------------------
(* The block is rendered: for a click, a refresh or the page itself *)

\* PostShowPageService::build
Load(u) ==
    /\ u \in Watchers /\ ~Loaded(u) /\ Idle(u, "view")
    /\ req' = [req EXCEPT ![u]["view"] = [Rendering EXCEPT !.since = version]]
    /\ UNCHANGED <<reactions, browser, disturbed, bounds>>

\* getCountArraysFromRedis
ShowTotals(u, k) ==
    /\ At(u, k, "totals")
    /\ IF totals = Unset
       THEN Go(u, k, "recount")
       ELSE req' = [req EXCEPT ![u][k].step = "mine", ![u][k].tally = totals]
    /\ UNCHANGED <<reactions, browser, disturbed, bounds>>

\* countsAndUserReactionForPost
ShowMine(u, k) ==
    /\ At(u, k, "mine")
    /\ IF mine[u] = Unset
       THEN Go(u, k, "requery")
       ELSE req' = [req EXCEPT ![u][k].step = "version", ![u][k].seen = mine[u]]
    /\ UNCHANGED <<reactions, browser, disturbed, bounds>>

\* The version is read once the block has been rendered.
ReadVersion(u, k) ==
    /\ At(u, k, "version")
    /\ req' = [req EXCEPT ![u][k].step = "reply", ![u][k].version = version]
    /\ disturbed' = (disturbed \/ version # req[u][k].since)
    /\ UNCHANGED <<reactions, browser, bounds>>

\* Mutant: the tab keeps the version it had.
ReplyMutant(u, k) ==
    /\ At(u, k, "reply")
    /\ LET q == req[u][k]
       IN  tab' = [tab EXCEPT ![u] = [totals |-> q.tally, mine |-> q.seen,
                                      version |-> IF Loaded(u) THEN @.version ELSE q.version]]
    /\ req' = [req EXCEPT ![u][k] = Resting]
    /\ UNCHANGED <<reactions, local, stream, news, disturbed, bounds>>

\* replaceEngagementContent, whatever the tab shows by now.
Reply(u, k) ==
    /\ At(u, k, "reply")
    /\ LET q == req[u][k]
       IN  /\ tab' = [tab EXCEPT ![u] = [totals |-> q.tally, mine |-> q.seen,
                                         version |-> q.version]]
           /\ local' = IF k = "click" THEN [local EXCEPT ![u] = q.version] ELSE local
           /\ disturbed' = (disturbed \/ (Loaded(u) /\ q.version < tab[u].version))
    /\ req' = [req EXCEPT ![u][k] = Resting]
    /\ UNCHANGED <<reactions, stream, news, bounds>>

\* A worker is killed or its answer is lost.
Crash(u, k) ==
    /\ ~Idle(u, k) /\ faults < MaxFaults
    /\ faults' = faults + 1
    /\ req' = [req EXCEPT ![u][k] = Resting]
    /\ disturbed' = TRUE
    /\ UNCHANGED <<reactions, browser, toggles>>

-----------------------------------------------------------------------------
(* The stream of a tab *)

\* connectEngagementStream; the server reports what comes after this moment.
Connect(u) ==
    /\ u \in Watchers /\ Loaded(u) /\ stream[u] = None
    /\ stream' = [stream EXCEPT ![u] = version]
    /\ disturbed' = (disturbed \/ tab[u].version # version)
    /\ UNCHANGED <<reactions, req, tab, local, news, bounds>>

Poll(u) ==
    /\ stream[u] \notin {None, version} /\ news[u] = None
    /\ stream' = [stream EXCEPT ![u] = version]
    /\ news' = [news EXCEPT ![u] = version]
    /\ UNCHANGED <<reactions, req, tab, local, disturbed, bounds>>

\* The handler of engagement.updated: known, the tab's own change, or a refresh.
Handle(u) ==
    /\ news[u] # None
    /\ \/ news[u] = tab[u].version /\ UNCHANGED <<req, tab>>
       \/ /\ news[u] # tab[u].version /\ news[u] = local[u]
          /\ tab' = [tab EXCEPT ![u].version = news[u]]
          /\ UNCHANGED req
       \/ /\ news[u] \notin {tab[u].version, local[u]} /\ Idle(u, "view")
          /\ req' = [req EXCEPT ![u]["view"] = [Rendering EXCEPT !.since = version]]
          /\ UNCHANGED tab
    /\ news' = [news EXCEPT ![u] = None]
    /\ UNCHANGED <<reactions, local, stream, disturbed, bounds>>

\* LOCAL_IGNORE_MS have passed.
Elapse(u) ==
    /\ local[u] # None
    /\ local' = [local EXCEPT ![u] = None]
    /\ UNCHANGED <<reactions, req, tab, stream, news, disturbed, bounds>>

\* The server ends a stream after 90 seconds, the network when it likes.
Drop(u) ==
    /\ stream[u] # None /\ faults < MaxFaults
    /\ faults' = faults + 1
    /\ stream' = [stream EXCEPT ![u] = None]
    /\ news' = [news EXCEPT ![u] = None]
    /\ UNCHANGED <<reactions, req, tab, local, disturbed, toggles>>

-----------------------------------------------------------------------------

Init ==
    /\ votes \in [Users -> Reaction]
    /\ \/ totals = Unset /\ mine = [u \in Users |-> Unset]
       \/ totals = Tally(votes) /\ mine \in [Users -> Reaction \cup {Unset}]
    /\ \A u \in Users : mine[u] \in {Unset, votes[u]}
    /\ version = 0
    /\ req = [u \in Users |-> [k \in Kinds |-> Resting]]
    /\ tab = [u \in Users |-> Blank]
    /\ local = [u \in Users |-> None]
    /\ stream = [u \in Users |-> None]
    /\ news = [u \in Users |-> None]
    /\ disturbed = FALSE
    /\ toggles = 0 /\ faults = 0

Toggle(u) == Lookup(u) \/ Write(u) \/ Own(u) \/ Bump(u)
Serve(u, k) ==
    \/ Query(u, k) \/ Remember(u, k) \/ Count(u, k) \/ Put(u, k)
    \/ ShowTotals(u, k) \/ ShowMine(u, k) \/ ReadVersion(u, k) \/ Reply(u, k)
Browse(u) == Load(u) \/ Connect(u) \/ Poll(u) \/ Handle(u)

Next ==
    \E u \in Users :
        \/ \E t \in Types : Click(u, t)
        \/ Toggle(u) \/ Browse(u) \/ Elapse(u) \/ Drop(u)
        \/ \E k \in Kinds : Serve(u, k) \/ Crash(u, k)

Spec == Init /\ [][Next]_vars

\* Requests run on, the stream looks every two seconds and the tab's handlers run.
Fairness ==
    \A u \in Users :
        /\ WF_vars(Toggle(u) \/ Serve(u, "click"))
        /\ WF_vars(Serve(u, "view"))
        /\ WF_vars(Load(u)) /\ WF_vars(Connect(u)) /\ WF_vars(Poll(u)) /\ WF_vars(Handle(u))

FairSpec == Spec /\ Fairness

-----------------------------------------------------------------------------
(* Properties *)

Versions == Nat \cup {None}
Request == [step: Steps, type: Reaction, seen: Reaction, tally: Tallies \cup {Unset},
            since: Versions, version: Versions]

TypeOK ==
    /\ votes \in [Users -> Reaction]
    /\ totals \in Tallies \cup {Unset}
    /\ mine \in [Users -> Reaction \cup {Unset}]
    /\ version \in Nat
    /\ req \in [Users -> [Kinds -> Request]]
    /\ tab \in [Users -> [totals: Tallies \cup {Unset}, mine: Reaction,
                          version: Versions]]
    /\ local \in [Users -> Versions]
    /\ stream \in [Users -> Versions]
    /\ news \in [Users -> Versions]
    /\ disturbed \in BOOLEAN
    /\ toggles \in 0..MaxToggles /\ faults \in 0..MaxFaults

\* The totals in Redis are those of the table or a toggle is about to refresh
\* them.  They leave that state only by a count stored after another toggle had
\* written, or by a request killed before it refreshed them; nothing expires them.
TotalsAreCounts ==
    \/ totals \in {Unset, Tally(votes)}
    \/ \E u \in Users : At(u, "click", "count") \/ At(u, "click", "put")
StoresOldCount ==
    \E u \in Users, k \in Kinds :
        /\ At(u, k, "put") \/ At(u, k, "fill")
        /\ req[u][k].tally # Tally(votes) /\ req'[u][k].step # req[u][k].step
TotalsDriftOnlyByLateCount ==
    [][ TotalsAreCounts /\ ~TotalsAreCounts' => StoresOldCount \/ faults' # faults ]_vars

\* The same of the user's own reaction, on which the next click decides whether
\* it adds or removes: it is off only by a read stored after a toggle or a kill.
OwnIsKnown(u) ==
    \/ mine[u] \in {Unset, votes[u]}
    \/ \E step \in {"count", "put", "own"} : At(u, "click", step)
StoresOldRead(u) ==
    \E k \in Kinds :
        /\ At(u, k, "remember") \/ At(u, k, "refill")
        /\ req[u][k].seen # votes[u] /\ req'[u][k].step # req[u][k].step
OwnDriftsOnlyByLateRead ==
    [][ \A u \in Users :
          OwnIsKnown(u) /\ ~OwnIsKnown(u)' => StoresOldRead(u) \/ faults' # faults ]_vars

\* A tab with nothing left to wait for shows the reactions of the table, unless
\* something came too late or was lost: a version read after a change the block
\* does not show, an old fill, a reply overtaken by a newer one, a change while
\* no stream was open, a request killed.
Resolved(u) ==
    /\ stream[u] = version /\ news[u] = None
    /\ Idle(u, "view")
    /\ \A v \in Users : Idle(v, "click")
TabShowsLatest ==
    \A u \in Watchers : Resolved(u) /\ ~disturbed =>
        tab[u].totals = Tally(votes) /\ tab[u].mine = votes[u]

\* A tab behind the engagement version catches up, unless something was lost.
TabCatchesUp ==
    \A u \in Watchers : (Loaded(u) /\ tab[u].version # version /\ ~disturbed)
        ~> (tab[u].version = version \/ disturbed)
=============================================================================
