--------------------------- MODULE EngagementProofs ---------------------------
(***************************************************************************)
(* Theorems about Engagement: for any number of users, tabs and reaction   *)
(* types, any clicks, kills and broken streams.                            *)
(***************************************************************************)
EXTENDS Engagement, FiniteSetTheorems, TLAPS

\* From its write on, a click knows what the table holds of its user.
ClickOK(u) ==
    LET q == req[u]["click"]
    IN  q.step \in {"count", "put", "own"} => votes[u] = (IF Removes(q) THEN None ELSE q.type)

IInv == TypeOK /\ \A u \in Users : ClickOK(u)

\* What a step writes into the request it belongs to.
Moves(u, k, q) == req' = [req EXCEPT ![u] = [@ EXCEPT ![k] = q]]
-----------------------------------------------------------------------------

\* A count of the table is a tally.
LEMMA TallyType == ASSUME NEW v \in [Users -> Reaction] PROVE Tally(v) \in Tallies
<1>1. SUFFICES ASSUME NEW t \in Types
               PROVE  Cardinality({u \in Users : v[u] = t}) \in 0..Cardinality(Users)
      BY DEF Tally, Tallies
<1>2. IsFiniteSet(Users)  BY UsersAssumption
<1>3. {u \in Users : v[u] = t} \subseteq Users  OBVIOUS
<1>4. /\ IsFiniteSet({u \in Users : v[u] = t})
      /\ Cardinality({u \in Users : v[u] = t}) <= Cardinality(Users)
      BY <1>2, <1>3, FS_Subset
<1>5. Cardinality({u \in Users : v[u] = t}) \in Nat /\ Cardinality(Users) \in Nat
      BY <1>2, <1>4, FS_CardinalityType
<1> QED BY <1>4, <1>5

\* One request moves, the others stay.
LEMMA MoveOne ==
    ASSUME req \in [Users -> [Kinds -> Request]], NEW u \in Users, NEW k \in Kinds,
           NEW q \in Request, Moves(u, k, q)
    PROVE  /\ req' \in [Users -> [Kinds -> Request]]
           /\ req'[u][k] = q
           /\ \A v \in Users, j \in Kinds : v # u \/ j # k => req'[v][j] = req[v][j]
<1>1. [req[u] EXCEPT ![k] = q] \in [Kinds -> Request]  OBVIOUS
<1>2. req' = [req EXCEPT ![u] = [req[u] EXCEPT ![k] = q]]  BY DEF Moves
<1>3. req'[u] = [req[u] EXCEPT ![k] = q] /\ \A v \in Users \ {u} : req'[v] = req[v]
      BY <1>2
<1>4. req' \in [Users -> [Kinds -> Request]]  BY <1>1, <1>2
<1>5. req'[u][k] = q /\ \A j \in Kinds \ {k} : req'[u][j] = req[u][j]  BY <1>3
<1> QED BY <1>3, <1>4, <1>5

\* A request that moves leaves the facts about clicks alone when the table stays
\* and it is no click past its write, or one that keeps its type and what it saw.
LEMMA ClicksKept ==
    ASSUME IInv, NEW u \in Users, NEW k \in Kinds, NEW q \in Request, Moves(u, k, q),
           votes' = votes,
           k = "click" /\ q.step \in {"count", "put", "own"} =>
               /\ req[u][k].step \in {"count", "put", "own"}
               /\ q.type = req[u][k].type /\ q.seen = req[u][k].seen
    PROVE  \A v \in Users : ClickOK(v)'
<1> SUFFICES ASSUME NEW v \in Users PROVE ClickOK(v)'  OBVIOUS
<1>1. /\ req'[u][k] = q
      /\ \A w \in Users, j \in Kinds : w # u \/ j # k => req'[w][j] = req[w][j]
      BY MoveOne DEF IInv, TypeOK
<1>2. ClickOK(v) /\ "click" \in Kinds  BY DEF IInv, Kinds
<1>3. CASE v = u /\ k = "click"  BY <1>1, <1>2, <1>3 DEF ClickOK, Removes
<1>4. CASE v # u \/ k # "click"  BY <1>1, <1>2, <1>4 DEF ClickOK, Removes
<1> QED BY <1>3, <1>4

\* Go writes the step alone.
LEMMA GoMoves ==
    ASSUME req \in [Users -> [Kinds -> Request]], NEW u \in Users, NEW k \in Kinds,
           NEW step \in Steps, Go(u, k, step)
    PROVE  \E q \in Request :
              /\ Moves(u, k, q)
              /\ q.step = step /\ q.type = req[u][k].type /\ q.seen = req[u][k].seen
<1> DEFINE q == [req[u][k] EXCEPT !.step = step]
<1>1. req[u][k] \in Request  OBVIOUS
<1>2. q \in Request /\ q.step = step /\ q.type = req[u][k].type /\ q.seen = req[u][k].seen
      BY <1>1 DEF Request
<1>3. Moves(u, k, q)  BY DEF Go, Moves
<1> HIDE DEF q
<1> QED BY <1>2, <1>3

\* The request of a click or a view as it begins.
LEMMA FreshRequests ==
    /\ Resting \in Request /\ Resting.step = "idle"
    /\ \A n \in Nat : /\ [Rendering EXCEPT !.since = n] \in Request
                      /\ [Rendering EXCEPT !.since = n].step = "totals"
    /\ \A t \in Types : /\ [Resting EXCEPT !.step = "lookup", !.type = t] \in Request
                        /\ [Resting EXCEPT !.step = "lookup", !.type = t].step = "lookup"
BY DEF Resting, Rendering, Request, Steps, Reaction, Versions

-----------------------------------------------------------------------------
(* Each action keeps the invariant *)

LEMMA InitOK == Init => IInv
<1> SUFFICES ASSUME Init PROVE IInv  OBVIOUS
<1>1. Tally(votes) \in Tallies  BY TallyType DEF Init
<1>2. totals \in Tallies \cup {Unset} /\ mine \in [Users -> Reaction \cup {Unset}]
      BY <1>1 DEF Init
<1>3. req \in [Users -> [Kinds -> Request]]  BY FreshRequests DEF Init
<1>4. tab \in [Users -> [totals: Tallies \cup {Unset}, mine: Reaction, version: Versions]]
      BY DEF Init, Blank, Reaction, Versions
<1>5. local \in [Users -> Versions] /\ stream \in [Users -> Versions] /\ news \in [Users -> Versions]
      BY DEF Init, Versions
<1>6. toggles \in 0..MaxToggles /\ faults \in 0..MaxFaults  BY BoundsAssumption DEF Init
<1>7. TypeOK  BY <1>2, <1>3, <1>4, <1>5, <1>6 DEF Init, TypeOK
<1>8. ASSUME NEW u \in Users PROVE ClickOK(u)
  <2>1. req[u]["click"].step = "idle"  BY FreshRequests DEF Init, Kinds
  <2> QED BY <2>1 DEF ClickOK
<1> QED BY <1>7, <1>8 DEF IInv

LEMMA ClickKeeps == ASSUME IInv, NEW u \in Users, NEW t \in Types, Click(u, t) PROVE IInv'
<1> DEFINE q == [Resting EXCEPT !.step = "lookup", !.type = t]
<1>1. /\ Moves(u, "click", q) /\ q \in Request /\ q.step = "lookup" /\ "click" \in Kinds
      BY FreshRequests DEF Click, Moves, Kinds
<1>2. toggles' \in 0..MaxToggles
      BY BoundsAssumption DEF Click, IInv, TypeOK
<1>3. UNCHANGED <<reactions, browser, disturbed, faults>>  BY DEF Click
<1> HIDE DEF q
<1>4. TypeOK'  BY <1>1, <1>2, <1>3, MoveOne DEF IInv, TypeOK, reactions, browser
<1>5. \A v \in Users : ClickOK(v)'  BY <1>1, <1>3, ClicksKept DEF reactions
<1> QED BY <1>4, <1>5 DEF IInv

LEMMA LookupKeeps == ASSUME IInv, NEW u \in Users, Lookup(u) PROVE IInv'
<1>1. /\ req \in [Users -> [Kinds -> Request]]
      /\ req[u]["click"] \in Request /\ req[u]["click"].step = "lookup" /\ "click" \in Kinds
      /\ mine[u] \in Reaction \cup {Unset}
      /\ UNCHANGED <<reactions, browser, disturbed, bounds>>
      BY DEF Lookup, At, IInv, TypeOK, Kinds
<1>2. PICK q \in Request :
        Moves(u, "click", q) /\ q.step \in {"query", "write"}
  <2>1. CASE mine[u] = Unset
    <3>1. Go(u, "click", "query") /\ "query" \in Steps  BY <2>1 DEF Lookup, Steps
    <3> QED BY <1>1, <3>1, GoMoves
  <2>2. CASE mine[u] # Unset
    <3> DEFINE r == [req[u]["click"] EXCEPT !.step = "write", !.seen = mine[u]]
    <3>1. r \in Request /\ r.step = "write"  BY <1>1, <2>2 DEF Request, Steps
    <3>2. Moves(u, "click", r)  BY <1>1, <2>2 DEF Lookup, Moves, IInv, TypeOK
    <3> QED BY <3>1, <3>2
  <2> QED BY <2>1, <2>2
<1>3. TypeOK'  BY <1>1, <1>2, MoveOne DEF IInv, TypeOK, reactions, browser, bounds
<1>4. \A v \in Users : ClickOK(v)'  BY <1>1, <1>2, ClicksKept DEF reactions
<1> QED BY <1>3, <1>4 DEF IInv

LEMMA QueryKeeps == ASSUME IInv, NEW u \in Users, NEW k \in Kinds, Query(u, k) PROVE IInv'
<1> DEFINE step == IF req[u][k].step = "query" THEN "remember" ELSE "refill"
           q == [req[u][k] EXCEPT !.seen = votes[u], !.step = step]
<1>1. /\ req[u][k] \in Request /\ votes[u] \in Reaction
      /\ UNCHANGED <<reactions, browser, disturbed, bounds>>
      BY DEF Query, IInv, TypeOK
<1>2. q \in Request /\ q.step \in {"remember", "refill"}  BY <1>1 DEF Request, Steps
<1>3. Moves(u, k, q)  BY <1>1 DEF Query, Moves, IInv, TypeOK, Request
<1> HIDE DEF q
<1>4. TypeOK'  BY <1>1, <1>2, <1>3, MoveOne DEF IInv, TypeOK, reactions, browser, bounds
<1>5. \A v \in Users : ClickOK(v)'  BY <1>1, <1>2, <1>3, ClicksKept DEF reactions
<1> QED BY <1>4, <1>5 DEF IInv

LEMMA RememberKeeps == ASSUME IInv, NEW u \in Users, NEW k \in Kinds, Remember(u, k) PROVE IInv'
<1> DEFINE step == IF At(u, k, "remember") THEN "write" ELSE "version"
<1>1. /\ req \in [Users -> [Kinds -> Request]]
      /\ req[u][k] \in Request
      /\ UNCHANGED <<votes, totals, version, browser, bounds>>
      BY DEF Remember, IInv, TypeOK
<1>2. step \in {"write", "version"} /\ step \in Steps /\ Go(u, k, step)
      BY DEF Remember, Steps
<1> HIDE DEF step
<1>3. PICK q \in Request : q.step = step /\ Moves(u, k, q)
      BY <1>1, <1>2, GoMoves
<1>4. mine' \in [Users -> Reaction \cup {Unset}]
      BY <1>1 DEF Remember, IInv, TypeOK, Request
<1>5. disturbed' \in BOOLEAN
  <2>1. disturbed' = (disturbed \/ req[u][k].seen # votes[u])  BY DEF Remember
  <2> QED BY <2>1
<1>6. TypeOK'  BY <1>1, <1>3, <1>4, <1>5, MoveOne DEF IInv, TypeOK, browser, bounds
<1>7. \A v \in Users : ClickOK(v)'  BY <1>1, <1>2, <1>3, ClicksKept
<1> QED BY <1>6, <1>7 DEF IInv

\* The write of a click and the step it is about to take.
LEMMA WriteContext ==
    ASSUME IInv, NEW u \in Users, Write(u)
    PROVE  /\ req[u]["click"] \in Request /\ req[u]["click"].step = "write"
           /\ votes' \in [Users -> Reaction]
           /\ \A v \in Users \ {u} : votes'[v] = votes[v]
           /\ \E step \in {"bump", "count"} :
                 /\ Go(u, "click", step)
                 /\ step = "bump" => votes' = votes
                 /\ step = "count" => votes'[u] = IF Removes(req[u]["click"]) THEN None
                                                  ELSE req[u]["click"].type
<1>1. /\ req[u]["click"] \in Request /\ req[u]["click"].step = "write"
      /\ votes \in [Users -> Reaction]
      BY DEF Write, At, IInv, TypeOK, Kinds
<1>2. req[u]["click"].type \in Reaction /\ None \in Reaction  BY <1>1 DEF Request, Reaction
<1>3. CASE Removes(req[u]["click"]) /\ votes[u] = None  BY <1>1, <1>3 DEF Write
<1>4. CASE ~(Removes(req[u]["click"]) /\ votes[u] = None)
  <2>1. /\ Go(u, "click", "count")
        /\ votes' = [votes EXCEPT ![u] = IF Removes(req[u]["click"]) THEN None
                                         ELSE req[u]["click"].type]
        BY <1>4 DEF Write
  <2> QED BY <1>1, <1>2, <2>1
<1> QED BY <1>3, <1>4

LEMMA WriteKeeps == ASSUME IInv, NEW u \in Users, Write(u) PROVE IInv'
<1>0. req \in [Users -> [Kinds -> Request]]  BY DEF IInv, TypeOK
<1>1. /\ req[u]["click"] \in Request /\ req[u]["click"].step = "write" /\ "click" \in Kinds
      /\ votes' \in [Users -> Reaction]
      /\ \A v \in Users \ {u} : votes'[v] = votes[v]
      /\ UNCHANGED <<totals, mine, version, browser, disturbed, bounds>>
      BY WriteContext DEF Write, Kinds
<1>2. PICK step \in {"bump", "count"} :
        /\ Go(u, "click", step)
        /\ step = "count" => votes'[u] = IF Removes(req[u]["click"]) THEN None
                                         ELSE req[u]["click"].type
      BY WriteContext
<1>3. PICK q \in Request :
        /\ q.step = step /\ Moves(u, "click", q)
        /\ q.type = req[u]["click"].type /\ q.seen = req[u]["click"].seen
  <2>1. step \in Steps  BY DEF Steps
  <2> QED BY <1>0, <1>1, <1>2, <2>1, GoMoves
<1>4. /\ req' \in [Users -> [Kinds -> Request]] /\ req'[u]["click"] = q
      /\ \A v \in Users, j \in Kinds : v # u \/ j # "click" => req'[v][j] = req[v][j]
      BY <1>1, <1>3, MoveOne DEF IInv, TypeOK
<1>5. TypeOK'  BY <1>1, <1>4 DEF IInv, TypeOK, browser, bounds
<1>6. ASSUME NEW v \in Users PROVE ClickOK(v)'
  <2>1. CASE v = u  BY <1>2, <1>3, <1>4, <2>1 DEF ClickOK, Removes
  <2>2. CASE v # u  BY <1>1, <1>4, <2>2 DEF IInv, ClickOK, Removes
  <2> QED BY <2>1, <2>2
<1> QED BY <1>5, <1>6 DEF IInv

LEMMA CountKeeps == ASSUME IInv, NEW u \in Users, NEW k \in Kinds, Count(u, k) PROVE IInv'
<1> DEFINE step == IF req[u][k].step = "count" THEN "put" ELSE "fill"
           q == [req[u][k] EXCEPT !.tally = Tally(votes), !.step = step]
<1>1. /\ req[u][k] \in Request /\ Tally(votes) \in Tallies
      /\ UNCHANGED <<reactions, browser, disturbed, bounds>>
      BY TallyType DEF Count, IInv, TypeOK
<1>2. q \in Request /\ q.step = step /\ q.type = req[u][k].type /\ q.seen = req[u][k].seen
      BY <1>1 DEF Request, Steps
<1>3. Moves(u, k, q)  BY <1>1 DEF Count, Moves, IInv, TypeOK, Request
<1> HIDE DEF q
<1>4. TypeOK'  BY <1>1, <1>2, <1>3, MoveOne DEF IInv, TypeOK, reactions, browser, bounds
<1>5. \A v \in Users : ClickOK(v)'  BY <1>1, <1>2, <1>3, ClicksKept DEF reactions
<1> QED BY <1>4, <1>5 DEF IInv

LEMMA PutKeeps == ASSUME IInv, NEW u \in Users, NEW k \in Kinds, Put(u, k) PROVE IInv'
<1> DEFINE step == IF At(u, k, "put") THEN "own" ELSE "totals"
<1>1. /\ req \in [Users -> [Kinds -> Request]]
      /\ req[u][k] \in Request
      /\ UNCHANGED <<votes, mine, version, browser, bounds>>
      BY DEF Put, IInv, TypeOK
<1>2. /\ step \in {"own", "totals"} /\ step \in Steps /\ Go(u, k, step)
      /\ step = "own" => req[u][k].step = "put"
      BY DEF Put, At, Steps
<1> HIDE DEF step
<1>3. PICK q \in Request :
        /\ q.step = step /\ Moves(u, k, q)
        /\ q.type = req[u][k].type /\ q.seen = req[u][k].seen
      BY <1>1, <1>2, GoMoves
<1>4. totals' \in Tallies \cup {Unset}  BY <1>1 DEF Put, Request
<1>5. disturbed' \in BOOLEAN
  <2>1. disturbed' = (disturbed \/ req[u][k].tally # Tally(votes))  BY DEF Put
  <2> QED BY <2>1
<1>6. TypeOK'  BY <1>1, <1>3, <1>4, <1>5, MoveOne DEF IInv, TypeOK, browser, bounds
<1>7. \A v \in Users : ClickOK(v)'  BY <1>1, <1>2, <1>3, ClicksKept
<1> QED BY <1>6, <1>7 DEF IInv

LEMMA OwnKeeps == ASSUME IInv, NEW u \in Users, Own(u) PROVE IInv'
<1>1. /\ req \in [Users -> [Kinds -> Request]]
      /\ req[u]["click"] \in Request /\ "click" \in Kinds /\ Go(u, "click", "bump")
      /\ UNCHANGED <<votes, totals, version, browser, disturbed, bounds>>
      BY DEF Own, IInv, TypeOK, Kinds
<1>2. PICK q \in Request : q.step = "bump" /\ Moves(u, "click", q)
  <2>1. "bump" \in Steps  BY DEF Steps
  <2> QED BY <1>1, <2>1, GoMoves
<1>3. mine' \in [Users -> Reaction \cup {Unset}]
      BY <1>1 DEF Own, IInv, TypeOK, Request
<1>4. TypeOK'  BY <1>1, <1>2, <1>3, MoveOne DEF IInv, TypeOK, browser, bounds
<1>5. \A v \in Users : ClickOK(v)'  BY <1>1, <1>2, ClicksKept
<1> QED BY <1>4, <1>5 DEF IInv

LEMMA BumpKeeps == ASSUME IInv, NEW u \in Users, Bump(u) PROVE IInv'
<1> DEFINE q == IF u \in Watchers THEN [Rendering EXCEPT !.since = version'] ELSE Resting
<1>1. /\ version' \in Nat /\ "click" \in Kinds
      /\ UNCHANGED <<votes, totals, mine, browser, disturbed, bounds>>
      BY DEF Bump, IInv, TypeOK, Kinds
<1>2. q \in Request /\ q.step \in {"idle", "totals"}  BY <1>1, FreshRequests
<1>3. Moves(u, "click", q)  BY DEF Bump, Moves
<1> HIDE DEF q
<1>4. TypeOK'  BY <1>1, <1>2, <1>3, MoveOne DEF IInv, TypeOK, browser, bounds
<1>5. \A v \in Users : ClickOK(v)'  BY <1>1, <1>2, <1>3, ClicksKept
<1> QED BY <1>4, <1>5 DEF IInv

LEMMA LoadKeeps == ASSUME IInv, NEW u \in Users, Load(u) PROVE IInv'
<1> DEFINE q == [Rendering EXCEPT !.since = version]
<1>1. /\ version \in Nat /\ "view" \in Kinds
      /\ UNCHANGED <<reactions, browser, disturbed, bounds>>
      BY DEF Load, IInv, TypeOK, Kinds
<1>2. q \in Request /\ q.step = "totals"  BY <1>1, FreshRequests
<1>3. Moves(u, "view", q)  BY DEF Load, Moves
<1> HIDE DEF q
<1>4. TypeOK'  BY <1>1, <1>2, <1>3, MoveOne DEF IInv, TypeOK, reactions, browser, bounds
<1>5. \A v \in Users : ClickOK(v)'  BY <1>1, <1>2, <1>3, ClicksKept DEF reactions
<1> QED BY <1>4, <1>5 DEF IInv

\* Steps of a rendering write what has been read into their request.
LEMMA ShowTotalsKeeps ==
    ASSUME IInv, NEW u \in Users, NEW k \in Kinds, ShowTotals(u, k) PROVE IInv'
<1>1. /\ req \in [Users -> [Kinds -> Request]] /\ req[u][k] \in Request
      /\ totals \in Tallies \cup {Unset}
      /\ UNCHANGED <<reactions, browser, disturbed, bounds>>
      BY DEF ShowTotals, IInv, TypeOK
<1>2. PICK q \in Request : Moves(u, k, q) /\ q.step \in {"recount", "mine"}
  <2>1. CASE totals = Unset
    <3>1. Go(u, k, "recount") /\ "recount" \in Steps  BY <2>1 DEF ShowTotals, Steps
    <3> QED BY <1>1, <3>1, GoMoves
  <2>2. CASE totals # Unset
    <3> DEFINE r == [req[u][k] EXCEPT !.step = "mine", !.tally = totals]
    <3>1. r \in Request /\ r.step = "mine"  BY <1>1 DEF Request, Steps
    <3>2. Moves(u, k, r)  BY <1>1, <2>2 DEF ShowTotals, Moves
    <3> QED BY <3>1, <3>2
  <2> QED BY <2>1, <2>2
<1>3. TypeOK'  BY <1>1, <1>2, MoveOne DEF IInv, TypeOK, reactions, browser, bounds
<1>4. \A v \in Users : ClickOK(v)'  BY <1>1, <1>2, ClicksKept DEF reactions
<1> QED BY <1>3, <1>4 DEF IInv

LEMMA ShowMineKeeps ==
    ASSUME IInv, NEW u \in Users, NEW k \in Kinds, ShowMine(u, k) PROVE IInv'
<1>1. /\ req \in [Users -> [Kinds -> Request]] /\ req[u][k] \in Request
      /\ mine[u] \in Reaction \cup {Unset}
      /\ UNCHANGED <<reactions, browser, disturbed, bounds>>
      BY DEF ShowMine, IInv, TypeOK
<1>2. PICK q \in Request : Moves(u, k, q) /\ q.step \in {"requery", "version"}
  <2>1. CASE mine[u] = Unset
    <3>1. Go(u, k, "requery") /\ "requery" \in Steps  BY <2>1 DEF ShowMine, Steps
    <3> QED BY <1>1, <3>1, GoMoves
  <2>2. CASE mine[u] # Unset
    <3> DEFINE r == [req[u][k] EXCEPT !.step = "version", !.seen = mine[u]]
    <3>1. r \in Request /\ r.step = "version"  BY <1>1, <2>2 DEF Request, Steps
    <3>2. Moves(u, k, r)  BY <1>1, <2>2 DEF ShowMine, Moves
    <3> QED BY <3>1, <3>2
  <2> QED BY <2>1, <2>2
<1>3. TypeOK'  BY <1>1, <1>2, MoveOne DEF IInv, TypeOK, reactions, browser, bounds
<1>4. \A v \in Users : ClickOK(v)'  BY <1>1, <1>2, ClicksKept DEF reactions
<1> QED BY <1>3, <1>4 DEF IInv

LEMMA ReadVersionKeeps ==
    ASSUME IInv, NEW u \in Users, NEW k \in Kinds, ReadVersion(u, k) PROVE IInv'
<1> DEFINE q == [req[u][k] EXCEPT !.step = "reply", !.version = version]
<1>1. /\ req \in [Users -> [Kinds -> Request]] /\ req[u][k] \in Request
      /\ version \in Nat
      /\ UNCHANGED <<reactions, browser, bounds>>
      BY DEF ReadVersion, IInv, TypeOK
<1>2. q \in Request /\ q.step = "reply"  BY <1>1 DEF Request, Steps, Versions
<1>3. Moves(u, k, q)  BY <1>1 DEF ReadVersion, Moves
<1> HIDE DEF q
<1>4. disturbed' \in BOOLEAN
  <2>1. disturbed' = (disturbed \/ version # req[u][k].since)  BY DEF ReadVersion
  <2> QED BY <2>1
<1>5. TypeOK'  BY <1>1, <1>2, <1>3, <1>4, MoveOne DEF IInv, TypeOK, reactions, browser, bounds
<1>6. \A v \in Users : ClickOK(v)'  BY <1>1, <1>2, <1>3, ClicksKept DEF reactions
<1> QED BY <1>5, <1>6 DEF IInv

LEMMA ReplyKeeps ==
    ASSUME IInv, NEW u \in Users, NEW k \in Kinds, Reply(u, k) PROVE IInv'
<1>1. /\ req[u][k] \in Request /\ Resting \in Request /\ Resting.step = "idle"
      /\ Moves(u, k, Resting)
      /\ UNCHANGED <<reactions, stream, news, bounds>>
  <2>1. req[u][k] \in Request  BY DEF IInv, TypeOK
  <2>2. Moves(u, k, Resting) /\ UNCHANGED <<reactions, stream, news, bounds>>
        BY DEF Reply, Moves
  <2> QED BY <2>1, <2>2, FreshRequests
<1>2. tab' \in [Users -> [totals: Tallies \cup {Unset}, mine: Reaction, version: Versions]]
      BY <1>1 DEF Reply, IInv, TypeOK, Request
<1>3. local' \in [Users -> Versions]  BY <1>1 DEF Reply, IInv, TypeOK, Request
<1>4. disturbed' \in BOOLEAN
  <2>1. disturbed' = (disturbed \/ (Loaded(u) /\ req[u][k].version < tab[u].version))
        BY DEF Reply
  <2> QED BY <2>1
<1>5. TypeOK'  BY <1>1, <1>2, <1>3, <1>4, MoveOne DEF IInv, TypeOK, reactions, bounds
<1>6. \A v \in Users : ClickOK(v)'  BY <1>1, ClicksKept DEF reactions
<1> QED BY <1>5, <1>6 DEF IInv

LEMMA CrashKeeps ==
    ASSUME IInv, NEW u \in Users, NEW k \in Kinds, Crash(u, k) PROVE IInv'
<1>1. /\ Moves(u, k, Resting) /\ Resting \in Request /\ Resting.step = "idle"
      /\ disturbed' = TRUE
      /\ UNCHANGED <<reactions, browser, toggles>>
      BY FreshRequests DEF Crash, Moves
<1>2. faults' \in 0..MaxFaults  BY BoundsAssumption DEF Crash, IInv, TypeOK
<1>3. TypeOK'  BY <1>1, <1>2, MoveOne DEF IInv, TypeOK, reactions, browser
<1>4. \A v \in Users : ClickOK(v)'  BY <1>1, ClicksKept DEF reactions
<1> QED BY <1>3, <1>4 DEF IInv

\* What the tab and its stream do among themselves touches neither the table nor
\* a click.
LEMMA BrowserKeeps ==
    ASSUME IInv, NEW u \in Users, Connect(u) \/ Poll(u) \/ Elapse(u) \/ Drop(u) PROVE IInv'
<1>1. votes' = votes /\ req' = req
      BY DEF Connect, Poll, Elapse, Drop, reactions
<1>2. TypeOK'
  <2>1. version \in Versions /\ None \in Versions  BY DEF IInv, TypeOK, Versions
  <2>2. CASE Connect(u)
    <3>1. disturbed' = (disturbed \/ tab[u].version # version)  BY <2>2 DEF Connect
    <3>2. disturbed' \in BOOLEAN  BY <3>1
    <3> QED BY <2>1, <2>2, <3>2 DEF Connect, IInv, TypeOK, reactions, bounds
  <2>3. CASE Poll(u)  BY <2>1, <2>3 DEF Poll, IInv, TypeOK, reactions, bounds
  <2>4. CASE Elapse(u)  BY <2>1, <2>4 DEF Elapse, IInv, TypeOK, reactions, bounds
  <2>5. CASE Drop(u)
        BY <2>1, <2>5, BoundsAssumption DEF Drop, IInv, TypeOK, reactions
  <2> QED BY <2>2, <2>3, <2>4, <2>5
<1>3. \A v \in Users : ClickOK(v)'  BY <1>1 DEF IInv, ClickOK, Removes
<1> QED BY <1>2, <1>3 DEF IInv

LEMMA HandleKeeps == ASSUME IInv, NEW u \in Users, Handle(u) PROVE IInv'
<1>1. /\ UNCHANGED <<reactions, local, stream, disturbed, bounds>>
      /\ news' = [news EXCEPT ![u] = None] /\ None \in Versions
      /\ news[u] \in Versions /\ version \in Nat /\ "view" \in Kinds
      BY DEF Handle, IInv, TypeOK, Versions, Kinds
<1>2. news' \in [Users -> Versions]  BY <1>1 DEF IInv, TypeOK
<1>3. CASE req' = req
  <2>1. tab' \in [Users -> [totals: Tallies \cup {Unset}, mine: Reaction, version: Versions]]
    <3>1. tab' = tab \/ tab' = [tab EXCEPT ![u].version = news[u]]  BY DEF Handle
    <3> QED BY <1>1, <3>1 DEF IInv, TypeOK
  <2>2. TypeOK'  BY <1>1, <1>2, <1>3, <2>1 DEF IInv, TypeOK, reactions, bounds
  <2>3. \A v \in Users : ClickOK(v)'  BY <1>1, <1>3 DEF IInv, ClickOK, Removes, reactions
  <2> QED BY <2>2, <2>3 DEF IInv
<1>4. CASE req' # req
  <2> DEFINE q == [Rendering EXCEPT !.since = version]
  <2>1. q \in Request /\ q.step = "totals"  BY <1>1, FreshRequests
  <2>2. Moves(u, "view", q) /\ tab' = tab  BY <1>4 DEF Handle, Moves
  <2> HIDE DEF q
  <2>3. TypeOK'  BY <1>1, <1>2, <2>1, <2>2, MoveOne DEF IInv, TypeOK, reactions, bounds
  <2>4. \A v \in Users : ClickOK(v)'  BY <1>1, <2>1, <2>2, ClicksKept DEF reactions
  <2> QED BY <2>3, <2>4 DEF IInv
<1> QED BY <1>3, <1>4

LEMMA StutterKeeps == ASSUME IInv, UNCHANGED vars PROVE IInv'
BY DEF IInv, TypeOK, ClickOK, Removes, vars, reactions, browser, bounds

LEMMA StepOK == ASSUME IInv, [Next]_vars PROVE IInv'
<1>1. ASSUME NEW u \in Users, \E t \in Types : Click(u, t) PROVE IInv'  BY <1>1, ClickKeeps
<1>2. ASSUME NEW u \in Users, Toggle(u) PROVE IInv'
      BY <1>2, LookupKeeps, WriteKeeps, OwnKeeps, BumpKeeps DEF Toggle
<1>3. ASSUME NEW u \in Users, Browse(u) \/ Elapse(u) \/ Drop(u) PROVE IInv'
      BY <1>3, LoadKeeps, BrowserKeeps, HandleKeeps DEF Browse
<1>4. ASSUME NEW u \in Users, NEW k \in Kinds, Serve(u, k) \/ Crash(u, k) PROVE IInv'
      BY <1>4, QueryKeeps, RememberKeeps, CountKeeps, PutKeeps, ShowTotalsKeeps, ShowMineKeeps,
         ReadVersionKeeps, ReplyKeeps, CrashKeeps DEF Serve
<1> QED BY <1>1, <1>2, <1>3, <1>4, StutterKeeps DEF Next

LEMMA Invariance == Spec => []IInv
<1> QED BY InitOK, StepOK, PTL DEF Spec

\* Every variable keeps its type, however many users, clicks and faults.
THEOREM TypeCorrect == Spec => []TypeOK
<1>1. IInv => TypeOK  BY DEF IInv
<1> QED BY <1>1, Invariance, PTL

-----------------------------------------------------------------------------
(* What may put Redis out of step with the table *)

\* A request is killed.
Killed == faults' # faults /\ disturbed'

\* A count, or a read of the own reaction, is stored after the table has changed.
LateCount == \E u \in Users, k \in Kinds : Put(u, k) /\ req[u][k].tally # Tally(votes)
LateRead(u) == \E k \in Kinds : Remember(u, k) /\ req[u][k].seen # votes[u]

\* Only these steps move a click between its write and the end of its bump.
LEMMA ClickMoves ==
    ASSUME IInv, [Next]_vars, NEW v \in Users,
           req[v]["click"].step \in {"count", "put", "own", "bump"},
           req'[v]["click"] # req[v]["click"]
    PROVE  Count(v, "click") \/ Put(v, "click") \/ Own(v) \/ Bump(v) \/ Killed
<1> DEFINE c == "click"
<1>1. req \in [Users -> [Kinds -> Request]] /\ c \in Kinds  BY DEF IInv, TypeOK, Kinds
<1>2. ASSUME NEW u \in Users, \E t \in Types : Click(u, t) PROVE FALSE
      BY <1>1, <1>2 DEF Click, Idle
<1>3. ASSUME NEW u \in Users, Lookup(u) \/ Write(u) PROVE FALSE
  <2>1. ~Lookup(u)  BY <1>1 DEF Lookup, Go, At
  <2>2. ~Write(u)  BY <1>1 DEF Write, Go, At
  <2> QED BY <1>3, <2>1, <2>2
<1>4. ASSUME NEW u \in Users, Own(u) \/ Bump(u) PROVE Own(v) \/ Bump(v)
      BY <1>1, <1>4 DEF Own, Bump, Go
<1>5. ASSUME NEW u \in Users, Browse(u) \/ Elapse(u) \/ Drop(u) PROVE FALSE
      BY <1>1, <1>5 DEF Browse, Load, Connect, Poll, Handle, Elapse, Drop
<1>6. ASSUME NEW u \in Users, NEW k \in Kinds, Serve(u, k)
      PROVE  Count(v, "click") \/ Put(v, "click")
  <2>1. ~Query(u, k)  BY <1>1 DEF Query, At
  <2>2. ~Remember(u, k)  BY <1>1 DEF Remember, Go, At
  <2>3. ASSUME Count(u, k) PROVE Count(v, "click")
    <3>1. u = v /\ k = c  BY <1>1, <2>3 DEF Count
    <3> QED BY <2>3, <3>1
  <2>4. ASSUME Put(u, k) PROVE Put(v, "click")
    <3>1. u = v /\ k = c  BY <1>1, <2>4 DEF Put, Go
    <3> QED BY <2>4, <3>1
  <2>5. ~ShowTotals(u, k) /\ ~ShowMine(u, k)  BY <1>1 DEF ShowTotals, ShowMine, Go, At
  <2>6. ~ReadVersion(u, k) /\ ~Reply(u, k)  BY <1>1 DEF ReadVersion, Reply, At
  <2> QED BY <1>6, <2>1, <2>2, <2>3, <2>4, <2>5, <2>6 DEF Serve
<1>7. ASSUME NEW u \in Users, NEW k \in Kinds, Crash(u, k) PROVE Killed
  <2>1. faults' = faults + 1 /\ faults \in Nat /\ disturbed' = TRUE
        BY <1>7 DEF Crash, IInv, TypeOK
  <2> QED BY <2>1 DEF Killed
<1> QED BY <1>2, <1>3, <1>4, <1>5, <1>6, <1>7 DEF Next, Toggle, vars

\* The three steps that write the table, the totals and a user's own entry.
LEMMA Writers ==
    ASSUME [Next]_vars
    PROVE  /\ votes' = votes \/ \E u \in Users : Write(u)
           /\ totals' = totals \/ \E u \in Users, k \in Kinds : Put(u, k)
           /\ mine' = mine \/ \E u \in Users : Own(u) \/ \E k \in Kinds : Remember(u, k)
<1>1. ASSUME NEW u \in Users, (\E t \in Types : Click(u, t)) \/ Lookup(u) \/ Bump(u)
      PROVE  votes' = votes /\ totals' = totals /\ mine' = mine
      BY <1>1 DEF Click, Lookup, Bump, reactions
<1>2. ASSUME NEW u \in Users, Browse(u) \/ Elapse(u) \/ Drop(u)
      PROVE  votes' = votes /\ totals' = totals /\ mine' = mine
      BY <1>2 DEF Browse, Load, Connect, Poll, Handle, Elapse, Drop, reactions
<1>3. ASSUME NEW u \in Users, Write(u) PROVE totals' = totals /\ mine' = mine
      BY <1>3 DEF Write
<1>4. ASSUME NEW u \in Users, Own(u) PROVE votes' = votes /\ totals' = totals
      BY <1>4 DEF Own
<1>5. ASSUME NEW u \in Users, NEW k \in Kinds,
             \/ Query(u, k) \/ Count(u, k) \/ ShowTotals(u, k) \/ ShowMine(u, k)
             \/ ReadVersion(u, k) \/ Reply(u, k) \/ Crash(u, k)
      PROVE  votes' = votes /\ totals' = totals /\ mine' = mine
      BY <1>5 DEF Query, Count, ShowTotals, ShowMine, ReadVersion, Reply, Crash, reactions
<1>6. ASSUME NEW u \in Users, NEW k \in Kinds, Remember(u, k)
      PROVE  votes' = votes /\ totals' = totals
      BY <1>6 DEF Remember
<1>7. ASSUME NEW u \in Users, NEW k \in Kinds, Put(u, k) PROVE votes' = votes /\ mine' = mine
      BY <1>7 DEF Put
<1>8. CASE UNCHANGED vars  BY <1>8 DEF vars, reactions
<1> QED BY <1>1, <1>2, <1>3, <1>4, <1>5, <1>6, <1>7, <1>8 DEF Next, Toggle, Serve

\* Where Put, Own, Count and Write leave their request.
LEMMA PutLeaves ==
    ASSUME IInv, NEW u \in Users, NEW k \in Kinds, Put(u, k)
    PROVE  /\ totals' = req[u][k].tally /\ votes' = votes
           /\ req'[u][k].step = IF At(u, k, "put") THEN "own" ELSE "totals"
           /\ req'[u][k].step # req[u][k].step
BY DEF Put, Go, At, IInv, TypeOK, Request

LEMMA CountLeaves ==
    ASSUME IInv, NEW u \in Users, Count(u, "click"), At(u, "click", "count")
    PROVE  req'[u]["click"].step = "put"
BY DEF Count, At, IInv, TypeOK, Request, Kinds

\* A write puts its click before the count.
LEMMA WriteLeaves ==
    ASSUME IInv, NEW u \in Users, Write(u), votes' # votes
    PROVE  /\ req'[u]["click"].step = "count"
           /\ \A v \in Users \ {u} : votes'[v] = votes[v] /\ req'[v] = req[v]
<1>1. Go(u, "click", "count")  BY WriteContext
<1>2. req \in [Users -> [Kinds -> Request]] /\ "click" \in Kinds  BY DEF IInv, TypeOK, Kinds
<1>3. req' = [req EXCEPT ![u]["click"].step = "count"]  BY <1>1 DEF Go
<1>4. req'[u]["click"].step = "count"  BY <1>2, <1>3 DEF Request
<1>5. \A v \in Users \ {u} : req'[v] = req[v]  BY <1>2, <1>3
<1> QED BY <1>4, <1>5, WriteContext

\* The totals leave the table by a count stored late or a request killed.
LEMMA TotalsStep ==
    ASSUME IInv, [Next]_vars, TotalsAreCounts, ~TotalsAreCounts'
    PROVE  LateCount \/ Killed
<1>1. ASSUME NEW u \in Users, NEW k \in Kinds, Put(u, k), totals' # Tally(votes)
      PROVE  LateCount
      BY <1>1, PutLeaves DEF LateCount
<1>2. CASE votes' # votes
  <2>1. PICK u \in Users : Write(u)  BY <1>2, Writers
  <2>2. req'[u]["click"].step = "count"  BY <1>2, <2>1, WriteLeaves
  <2> QED BY <2>2 DEF TotalsAreCounts, At
<1>3. CASE votes' = votes /\ totals' # totals
  <2>1. PICK u \in Users, k \in Kinds : Put(u, k)  BY <1>3, Writers
  <2>2. totals' # Tally(votes)  BY <1>3 DEF TotalsAreCounts, Tally
  <2> QED BY <1>1, <2>1, <2>2
<1>4. CASE votes' = votes /\ totals' = totals
  <2>1. totals \notin {Unset, Tally(votes)}  BY <1>4 DEF TotalsAreCounts, Tally
  <2>2. PICK v \in Users : At(v, "click", "count") \/ At(v, "click", "put")
        BY <2>1 DEF TotalsAreCounts
  <2>3. req'[v]["click"].step \notin {"count", "put"}
        BY DEF TotalsAreCounts, At
  <2>4. Count(v, "click") \/ Put(v, "click") \/ Own(v) \/ Killed
        BY <2>2, <2>3, ClickMoves DEF At, Bump
  <2>5. CASE Count(v, "click")
    <3>1. At(v, "click", "count")  BY <2>2, <2>5 DEF Count, At
    <3> QED BY <2>3, <2>5, <3>1, CountLeaves
  <2>6. CASE Put(v, "click")  BY <1>1, <1>4, <2>1, <2>6 DEF Kinds
  <2>7. ~Own(v)  BY <2>2 DEF Own, At
  <2> QED BY <2>4, <2>5, <2>6, <2>7
<1> QED BY <1>2, <1>3, <1>4

\* Redis has the totals of the table, or will have, but for counts stored late
\* and requests killed.
THEOREM TotalsDrift == Spec => TotalsDriftOnlyByLateCount
<1>1. ASSUME IInv, [Next]_vars
      PROVE  TotalsAreCounts /\ ~TotalsAreCounts' => StoresOldCount \/ faults' # faults
  <2>1. LateCount => StoresOldCount
    <3> SUFFICES ASSUME NEW u \in Users, NEW k \in Kinds, Put(u, k),
                        req[u][k].tally # Tally(votes)
                 PROVE  StoresOldCount
        BY DEF LateCount
    <3>1. (At(u, k, "put") \/ At(u, k, "fill")) /\ req'[u][k].step # req[u][k].step
          BY <1>1, PutLeaves DEF Put
    <3> QED BY <3>1 DEF StoresOldCount
  <2> QED BY <1>1, <2>1, TotalsStep DEF Killed
<1> QED BY <1>1, Invariance, PTL DEF Spec, TotalsDriftOnlyByLateCount

\* A user's own entry leaves the table by a read stored late or a request killed.
LEMMA OwnStep ==
    ASSUME IInv, [Next]_vars, NEW u \in Users, OwnIsKnown(u), ~OwnIsKnown(u)'
    PROVE  LateRead(u) \/ Killed
<1>0. /\ mine \in [Users -> Reaction \cup {Unset}] /\ votes \in [Users -> Reaction]
      /\ req \in [Users -> [Kinds -> Request]] /\ "click" \in Kinds
      BY DEF IInv, TypeOK, Kinds
<1>1. /\ mine'[u] \notin {Unset, votes'[u]}
      /\ req'[u]["click"].step \notin {"count", "put", "own"}
      BY DEF OwnIsKnown, At
<1>2. ASSUME Own(u) PROVE FALSE
  <2>1. /\ mine'[u] = IF Removes(req[u]["click"]) THEN Unset ELSE req[u]["click"].type
        /\ votes' = votes /\ req[u]["click"].step = "own"
        BY <1>0, <1>2 DEF Own, At
  <2>2. votes[u] = IF Removes(req[u]["click"]) THEN None ELSE req[u]["click"].type
        BY <2>1 DEF IInv, ClickOK
  <2> QED BY <1>1, <2>1, <2>2
<1>3. CASE votes' # votes
  <2>1. PICK w \in Users : Write(w)  BY <1>3, Writers
  <2>2. w # u  BY <1>1, <1>3, <2>1, WriteLeaves
  <2>3. votes'[u] = votes[u] /\ req'[u] = req[u] /\ mine' = mine
        BY <1>3, <2>1, <2>2, WriteLeaves DEF Write
  <2> QED BY <1>1, <2>3 DEF OwnIsKnown, At
<1>4. CASE votes' = votes /\ mine'[u] # mine[u]
  <2>1. PICK w \in Users : Own(w) \/ \E k \in Kinds : Remember(w, k)
        BY <1>4, Writers
  <2>2. CASE Own(w)
    <3>1. w = u  BY <1>0, <1>4, <2>2 DEF Own
    <3> QED BY <1>2, <2>2, <3>1
  <2>3. CASE \E k \in Kinds : Remember(w, k)
    <3>1. PICK k \in Kinds : Remember(w, k)  BY <2>3
    <3>2. w = u /\ mine'[u] = req[u][k].seen  BY <1>0, <1>4, <3>1 DEF Remember
    <3>3. req[u][k].seen # votes[u]  BY <1>1, <1>4, <3>2
    <3> QED BY <3>1, <3>2, <3>3 DEF LateRead
  <2> QED BY <2>1, <2>2, <2>3
<1>5. CASE votes' = votes /\ mine'[u] = mine[u]
  <2>1. req[u]["click"].step \in {"count", "put", "own"}
        BY <1>1, <1>5 DEF OwnIsKnown, At
  <2>2. Count(u, "click") \/ Put(u, "click") \/ Own(u) \/ Killed
        BY <1>1, <2>1, ClickMoves DEF At, Bump
  <2>3. CASE Count(u, "click")
    <3>1. At(u, "click", "count")  BY <2>1, <2>3 DEF Count, At
    <3> QED BY <1>1, <2>3, <3>1, CountLeaves
  <2>4. CASE Put(u, "click")
    <3>1. At(u, "click", "put")  BY <2>1, <2>4 DEF Put, At
    <3> QED BY <1>0, <1>1, <2>4, <3>1, PutLeaves
  <2> QED BY <1>2, <2>2, <2>3, <2>4
<1> QED BY <1>3, <1>4, <1>5

\* A user's own entry, once right, goes wrong only by a read stored late or by a
\* request killed.
THEOREM OwnDrifts == Spec => OwnDriftsOnlyByLateRead
<1>1. ASSUME IInv, [Next]_vars
      PROVE  \A u \in Users :
               OwnIsKnown(u) /\ ~OwnIsKnown(u)' => StoresOldRead(u) \/ faults' # faults
  <2>1. ASSUME NEW u \in Users, LateRead(u) PROVE StoresOldRead(u)
    <3>1. PICK k \in Kinds : Remember(u, k) /\ req[u][k].seen # votes[u]
          BY <2>1 DEF LateRead
    <3>2. (At(u, k, "remember") \/ At(u, k, "refill")) /\ req'[u][k].step # req[u][k].step
          BY <1>1, <3>1 DEF Remember, Go, At, IInv, TypeOK, Request
    <3> QED BY <3>1, <3>2 DEF StoresOldRead
  <2> QED BY <1>1, <2>1, OwnStep DEF Killed
<1> QED BY <1>1, Invariance, PTL DEF Spec, OwnDriftsOnlyByLateRead

-----------------------------------------------------------------------------
(* What a tab shows that has nothing left to wait for *)

\* The steps of a request that renders the block, and those after it read the totals.
Rendered == {"mine", "requery", "refill", "version", "reply"}
RenderSteps == {"totals", "recount", "fill"} \cup Rendered

\* Versions are read, never invented, and only a tab that is loaded has a stream.
VersionsOK ==
    /\ \A u \in Users, k \in Kinds :
          /\ req[u][k].step \in RenderSteps => req[u][k].since \in 0..version
          /\ req[u][k].step = "reply" => req[u][k].version \in 0..version
    /\ \A u \in Users :
          /\ tab[u].version \in 0..version \cup {None}
          /\ local[u] \in 0..version \cup {None}
          /\ stream[u] \in 0..version \cup {None}
          /\ stream[u] # None \/ local[u] # None => Loaded(u)
          /\ news[u] # None => news[u] = stream[u]

\* A change of the table that has not raised the version yet will do so; whoever
\* holds a version below that is behind, and will hear of it.
Unbumped == \E u \in Users : req[u]["click"].step \in {"count", "put", "own", "bump"}
Behind(n) == n < version \/ Unbumped

\* While nothing was late or lost, Redis has what the table has or a click is about
\* to refresh it,
RedisOK == TotalsAreCounts /\ \A u \in Users : OwnIsKnown(u)

\* what a rendering has read is what the table holds, or it is behind,
BlockOK(u, k) ==
    LET q == req[u][k]
    IN  /\ q.step \in Rendered => q.tally = Tally(votes) \/ Behind(q.since)
        /\ q.step \in {"version", "reply"} => q.seen = votes[u] \/ Behind(q.since)
        /\ q.step = "reply" => q.version = q.since

\* what a tab shows is what the table holds, or it is behind,
TabOK(u) ==
    Loaded(u) => \/ tab[u].totals = Tally(votes) /\ tab[u].mine = votes[u]
                 \/ Behind(tab[u].version)

\* the change it calls its own is one it has shown,
LocalOK(u) == local[u] # None => local[u] <= tab[u].version

\* and it shows all that its stream has reported, or is about to.
Refreshes(u) == req[u]["view"].step \in RenderSteps /\ req[u]["view"].since >= stream[u]
StreamOK(u) ==
    stream[u] # None => tab[u].version >= stream[u] \/ news[u] # None \/ Refreshes(u)

LatestInv ==
    /\ VersionsOK
    /\ ~disturbed => /\ RedisOK
                     /\ \A u \in Users, k \in Kinds : BlockOK(u, k)
                     /\ \A u \in Users : TabOK(u) /\ LocalOK(u) /\ StreamOK(u)

\* How a step may change a request, as far as its rendering goes.
Turn(u, k) ==
    LET q == req[u][k]
        r == req'[u][k]
    IN  \/ r = q
        \/ r.step \notin RenderSteps
        \/ r.step = "totals" /\ r.since = version'
        \/ /\ votes' = votes /\ version' = version /\ r.since = q.since
           /\ \/ /\ q.step \in {"totals", "recount", "fill"}
                 /\ r.step \in {"totals", "recount", "fill"}
              \/ q.step = "totals" /\ r.step = "mine" /\ totals # Unset /\ r.tally = totals
              \/ /\ r.tally = q.tally
                 /\ \/ q.step = "mine" /\ r.step = "requery"
                    \/ /\ q.step = "mine" /\ r.step = "version"
                       /\ mine[u] # Unset /\ r.seen = mine[u]
                    \/ q.step = "requery" /\ r.step = "refill" /\ r.seen = votes[u]
                    \/ /\ q.step = "refill" /\ r.step = "version" /\ r.seen = q.seen
                       /\ disturbed' \/ q.seen = votes[u]
                    \/ /\ q.step = "version" /\ r.step = "reply" /\ r.seen = q.seen
                       /\ r.version = version /\ (disturbed' \/ q.since = version)

\* A step that moves one request leaves the others.
LEMMA OthersStay ==
    ASSUME IInv, NEW v \in Users, NEW j \in Kinds, NEW x, Moves(v, j, x),
           NEW u \in Users, NEW k \in Kinds
    PROVE  req'[u][k] = IF u = v /\ k = j THEN x ELSE req[u][k]
<1>1. req \in [Users -> [Kinds -> Request]]  BY DEF IInv, TypeOK
<1>2. req'[u] = IF u = v THEN [req[v] EXCEPT ![j] = x] ELSE req[u]  BY <1>1 DEF Moves
<1> QED BY <1>1, <1>2

\* Hence it suffices to look at the request that moves.
LEMMA TurnOne ==
    ASSUME IInv, NEW v \in Users, NEW j \in Kinds, NEW x, Moves(v, j, x),
           x.step \in RenderSteps => Turn(v, j),
           NEW u \in Users, NEW k \in Kinds
    PROVE  Turn(u, k)
<1>1. CASE u = v /\ k = j
  <2>1. req'[u][k] = x  BY <1>1, OthersStay
  <2> QED BY <1>1, <2>1 DEF Turn
<1>2. CASE ~(u = v /\ k = j)
  <2>1. req'[u][k] = req[u][k]  BY <1>2, OthersStay
  <2> QED BY <2>1 DEF Turn
<1> QED BY <1>1, <1>2

\* Go writes the step and nothing else.
LEMMA GoWrites ==
    ASSUME IInv, NEW v \in Users, NEW j \in Kinds, NEW step \in Steps, Go(v, j, step)
    PROVE  /\ Moves(v, j, [req[v][j] EXCEPT !.step = step])
           /\ [req[v][j] EXCEPT !.step = step].step = step
           /\ [req[v][j] EXCEPT !.step = step].since = req[v][j].since
           /\ [req[v][j] EXCEPT !.step = step].tally = req[v][j].tally
           /\ [req[v][j] EXCEPT !.step = step].seen = req[v][j].seen
<1>1. req[v][j] \in Request  BY DEF IInv, TypeOK
<1> QED BY <1>1 DEF Go, Moves, Request

\* The steps of a click up to its bump.
LEMMA ToggleTurns ==
    ASSUME IInv, NEW v \in Users, (\E t \in Types : Click(v, t)) \/ Toggle(v),
           NEW u \in Users, NEW k \in Kinds
    PROVE  Turn(u, k)
<1> DEFINE c == "click"
<1>0. c \in Kinds /\ req[v][c] \in Request  BY DEF IInv, TypeOK, Kinds
<1>1. ASSUME NEW t \in Types, Click(v, t) PROVE Turn(u, k)
  <2> DEFINE x == [Resting EXCEPT !.step = "lookup", !.type = t]
  <2>1. Moves(v, c, x) /\ x.step = "lookup"  BY <1>1, FreshRequests DEF Click, Moves
  <2> HIDE DEF x
  <2> QED BY <1>0, <2>1, TurnOne DEF RenderSteps, Rendered
<1>2. ASSUME NEW step \in {"query", "bump", "count"}, Go(v, c, step) PROVE Turn(u, k)
  <2>1. step \in Steps /\ step \notin RenderSteps  BY DEF Steps, RenderSteps, Rendered
  <2> DEFINE x == [req[v][c] EXCEPT !.step = step]
  <2>2. Moves(v, c, x) /\ x.step = step  BY <1>0, <1>2, <2>1, GoWrites
  <2> HIDE DEF x
  <2> QED BY <1>0, <2>1, <2>2, TurnOne
<1>3. CASE Lookup(v)
  <2>1. CASE mine[v] = Unset  BY <1>2, <1>3, <2>1 DEF Lookup
  <2>2. CASE mine[v] # Unset
    <3> DEFINE x == [req[v][c] EXCEPT !.step = "write", !.seen = mine[v]]
    <3>1. Moves(v, c, x)
          BY <1>0, <1>3, <2>2 DEF Lookup, Moves, IInv, TypeOK
    <3>2. x.step = "write"  BY <1>0 DEF Request
    <3> HIDE DEF x
    <3> QED BY <1>0, <3>1, <3>2, TurnOne DEF RenderSteps, Rendered
  <2> QED BY <2>1, <2>2
<1>4. CASE Write(v)
  <2>1. PICK step \in {"bump", "count"} : Go(v, c, step)  BY <1>4, WriteContext
  <2> QED BY <1>2, <2>1
<1>5. CASE Own(v)  BY <1>2, <1>5 DEF Own
<1>6. CASE Bump(v)
  <2> DEFINE x == IF v \in Watchers THEN [Rendering EXCEPT !.since = version'] ELSE Resting
  <2>1. Moves(v, c, x)  BY <1>6 DEF Bump, Moves
  <2>2. x.step \in RenderSteps => x.step = "totals" /\ x.since = version'
        BY DEF RenderSteps, Rendered, Rendering, Resting
  <2>3. req'[v][c] = x  BY <1>0, <2>1, OthersStay
  <2> HIDE DEF x
  <2> QED BY <1>0, <2>1, <2>2, <2>3, TurnOne DEF Turn
<1> QED BY <1>1, <1>3, <1>4, <1>5, <1>6 DEF Toggle

\* The steps of a request of either kind.
LEMMA ServeTurns ==
    ASSUME IInv, NEW v \in Users, NEW j \in Kinds, Serve(v, j) \/ Crash(v, j),
           NEW u \in Users, NEW k \in Kinds
    PROVE  Turn(u, k)
<1> DEFINE q == req[v][j]
<1>0. q \in Request /\ req \in [Users -> [Kinds -> Request]]  BY DEF IInv, TypeOK
<1>1. CASE Query(v, j)
  <2> DEFINE x == [q EXCEPT !.seen = votes[v], !.step = IF q.step = "query" THEN "remember" ELSE "refill"]
  <2>1. Moves(v, j, x) /\ UNCHANGED <<votes, version>> /\ q.step \in {"query", "requery"}
        BY <1>0, <1>1 DEF Query, Moves, At, reactions, Request
  <2>2. /\ x.seen = votes[v] /\ x.since = q.since /\ x.tally = q.tally
        /\ x.step = IF q.step = "query" THEN "remember" ELSE "refill"
        BY <1>0 DEF Request
  <2>3. req'[v][j] = x  BY <2>1, OthersStay
  <2> HIDE DEF x
  <2>4. x.step \in RenderSteps => q.step = "requery" /\ x.step = "refill"
        BY <2>1, <2>2 DEF RenderSteps, Rendered
  <2> QED BY <2>1, <2>2, <2>3, <2>4, TurnOne DEF Turn
<1>2. CASE Remember(v, j)
  <2> DEFINE step == IF At(v, j, "remember") THEN "write" ELSE "version"
             x == [q EXCEPT !.step = step]
  <2>1. Go(v, j, step) /\ step \in Steps  BY <1>2 DEF Remember, Steps
  <2>2. /\ UNCHANGED <<votes, version>>
        /\ disturbed' = (disturbed \/ q.seen # votes[v]) /\ q.step \in {"remember", "refill"}
        BY <1>2 DEF Remember, At
  <2>3. step \in RenderSteps => q.step = "refill" /\ step = "version"
        BY <2>2 DEF At, RenderSteps, Rendered
  <2> HIDE DEF step
  <2>4. /\ Moves(v, j, x) /\ x.step = step /\ x.since = q.since
        /\ x.tally = q.tally /\ x.seen = q.seen
        BY <2>1, GoWrites
  <2>5. req'[v][j] = x  BY <2>4, OthersStay
  <2> HIDE DEF x
  <2> QED BY <2>2, <2>3, <2>4, <2>5, TurnOne DEF Turn
<1>3. CASE Count(v, j)
  <2> DEFINE x == [q EXCEPT !.tally = Tally(votes), !.step = IF q.step = "count" THEN "put" ELSE "fill"]
  <2>1. Moves(v, j, x) /\ UNCHANGED <<votes, version>> /\ q.step \in {"count", "recount"}
        BY <1>0, <1>3 DEF Count, Moves, At, reactions, Request
  <2>2. x.since = q.since /\ x.step = IF q.step = "count" THEN "put" ELSE "fill"
        BY <1>0 DEF Request
  <2>3. req'[v][j] = x  BY <2>1, OthersStay
  <2> HIDE DEF x
  <2>4. x.step \in RenderSteps => q.step = "recount" /\ x.step = "fill"
        BY <2>1, <2>2 DEF RenderSteps, Rendered
  <2> QED BY <2>1, <2>2, <2>3, <2>4, TurnOne DEF Turn
<1>4. CASE Put(v, j)
  <2> DEFINE step == IF At(v, j, "put") THEN "own" ELSE "totals"
             x == [q EXCEPT !.step = step]
  <2>1. Go(v, j, step) /\ step \in Steps  BY <1>4 DEF Put, Steps
  <2>2. UNCHANGED <<votes, version>> /\ q.step \in {"put", "fill"}  BY <1>4 DEF Put, At
  <2>3. step \in RenderSteps => q.step = "fill" /\ step = "totals"
        BY <2>2 DEF At, RenderSteps, Rendered
  <2> HIDE DEF step
  <2>4. Moves(v, j, x) /\ x.step = step /\ x.since = q.since  BY <2>1, GoWrites
  <2>5. req'[v][j] = x  BY <2>4, OthersStay
  <2> HIDE DEF x
  <2> QED BY <2>2, <2>3, <2>4, <2>5, TurnOne DEF Turn
<1>5. CASE ShowTotals(v, j)
  <2>0. UNCHANGED <<votes, version>> /\ q.step = "totals"  BY <1>5 DEF ShowTotals, At, reactions
  <2>1. CASE totals = Unset
    <3> DEFINE x == [q EXCEPT !.step = "recount"]
    <3>1. Go(v, j, "recount") /\ "recount" \in Steps  BY <1>5, <2>1 DEF ShowTotals, Steps
    <3>2. Moves(v, j, x) /\ x.step = "recount" /\ x.since = q.since  BY <3>1, GoWrites
    <3>3. req'[v][j] = x  BY <3>2, OthersStay
    <3> HIDE DEF x
    <3> QED BY <2>0, <3>2, <3>3, TurnOne DEF Turn
  <2>2. CASE totals # Unset
    <3> DEFINE x == [q EXCEPT !.step = "mine", !.tally = totals]
    <3>1. Moves(v, j, x)  BY <1>0, <1>5, <2>2 DEF ShowTotals, Moves
    <3>2. x.step = "mine" /\ x.since = q.since /\ x.tally = totals  BY <1>0 DEF Request
    <3>3. req'[v][j] = x  BY <3>1, OthersStay
    <3> HIDE DEF x
    <3> QED BY <2>0, <2>2, <3>1, <3>2, <3>3, TurnOne DEF Turn
  <2> QED BY <2>1, <2>2
<1>6. CASE ShowMine(v, j)
  <2>0. UNCHANGED <<votes, version>> /\ q.step = "mine"  BY <1>6 DEF ShowMine, At, reactions
  <2>1. CASE mine[v] = Unset
    <3> DEFINE x == [q EXCEPT !.step = "requery"]
    <3>1. Go(v, j, "requery") /\ "requery" \in Steps  BY <1>6, <2>1 DEF ShowMine, Steps
    <3>2. Moves(v, j, x) /\ x.step = "requery" /\ x.since = q.since /\ x.tally = q.tally
          BY <3>1, GoWrites
    <3>3. req'[v][j] = x  BY <3>2, OthersStay
    <3> HIDE DEF x
    <3> QED BY <2>0, <3>2, <3>3, TurnOne DEF Turn
  <2>2. CASE mine[v] # Unset
    <3> DEFINE x == [q EXCEPT !.step = "version", !.seen = mine[v]]
    <3>1. Moves(v, j, x)  BY <1>0, <1>6, <2>2 DEF ShowMine, Moves
    <3>2. x.step = "version" /\ x.since = q.since /\ x.tally = q.tally /\ x.seen = mine[v]
          BY <1>0 DEF Request
    <3>3. req'[v][j] = x  BY <3>1, OthersStay
    <3> HIDE DEF x
    <3> QED BY <2>0, <2>2, <3>1, <3>2, <3>3, TurnOne DEF Turn
  <2> QED BY <2>1, <2>2
<1>7. CASE ReadVersion(v, j)
  <2> DEFINE x == [q EXCEPT !.step = "reply", !.version = version]
  <2>1. /\ Moves(v, j, x) /\ UNCHANGED <<votes, version>> /\ q.step = "version"
        /\ disturbed' = (disturbed \/ version # q.since)
        BY <1>0, <1>7 DEF ReadVersion, Moves, At, reactions
  <2>2. /\ x.step = "reply" /\ x.version = version /\ x.since = q.since
        /\ x.tally = q.tally /\ x.seen = q.seen
        BY <1>0 DEF Request
  <2>3. req'[v][j] = x  BY <2>1, OthersStay
  <2> HIDE DEF x
  <2> QED BY <2>1, <2>2, <2>3, TurnOne DEF Turn
<1>8. CASE Reply(v, j) \/ Crash(v, j)
  <2>1. Moves(v, j, Resting)  BY <1>8 DEF Reply, Crash, Moves
  <2>2. Resting.step \notin RenderSteps  BY FreshRequests DEF RenderSteps, Rendered
  <2> QED BY <2>1, <2>2, TurnOne
<1> QED BY <1>1, <1>2, <1>3, <1>4, <1>5, <1>6, <1>7, <1>8 DEF Serve

\* Every step turns a request as Turn says, or leaves it.
LEMMA Turns ==
    ASSUME IInv, [Next]_vars, NEW u \in Users, NEW k \in Kinds
    PROVE  Turn(u, k)
<1>1. ASSUME NEW v \in Users, Load(v) \/ (Handle(v) /\ req' # req) PROVE Turn(u, k)
  <2> DEFINE x == [Rendering EXCEPT !.since = version]
  <2>1. Moves(v, "view", x) /\ version' = version /\ "view" \in Kinds
        BY <1>1 DEF Load, Handle, Moves, reactions, Kinds
  <2>2. x.step = "totals" /\ x.since = version  BY DEF Rendering, Resting
  <2>3. req'[v]["view"] = x  BY <2>1, OthersStay
  <2> HIDE DEF x
  <2> QED BY <2>1, <2>2, <2>3, TurnOne DEF Turn
<1>2. ASSUME req' = req PROVE Turn(u, k)  BY <1>2 DEF Turn
<1>3. ASSUME NEW v \in Users, Connect(v) \/ Poll(v) \/ Elapse(v) \/ Drop(v) PROVE req' = req
      BY <1>3 DEF Connect, Poll, Elapse, Drop
<1>4. CASE UNCHANGED vars  BY <1>2, <1>4 DEF vars
<1> QED BY <1>1, <1>2, <1>3, <1>4, ToggleTurns, ServeTurns DEF Next, Browse

\* How a step may change what a tab holds, and what its stream has said.
TabTurn(u) ==
    \/ tab'[u] = tab[u] /\ local'[u] \in {local[u], None}
    \/ \E k \in Kinds : Reply(u, k)
    \/ /\ news[u] = local[u] /\ news[u] # None /\ local'[u] = local[u]
       /\ tab'[u] = [tab[u] EXCEPT !.version = news[u]] /\ Loaded(u)

StreamTurn(u) ==
    \/ stream'[u] = stream[u] /\ news'[u] = news[u]
    \/ stream'[u] = None /\ news'[u] = None
    \/ /\ stream[u] = None /\ Loaded(u) /\ stream'[u] = version /\ news'[u] = news[u]
       /\ version' = version /\ tab' = tab /\ (disturbed' \/ tab[u].version = version)
    \/ /\ stream[u] # None /\ stream'[u] = version /\ news'[u] = version
       /\ version' = version
    \/ Handle(u)

\* How a step may change a tab, its own change and its stream.
LEMMA TabTurns ==
    ASSUME IInv, VersionsOK, [Next]_vars, NEW u \in Users
    PROVE  TabTurn(u) /\ StreamTurn(u)
<1>0. /\ tab \in [Users -> [totals: Tallies \cup {Unset}, mine: Reaction, version: Versions]]
      /\ local \in [Users -> Versions] /\ stream \in [Users -> Versions]
      /\ news \in [Users -> Versions]
      BY DEF IInv, TypeOK
<1>1. ASSUME UNCHANGED browser PROVE TabTurn(u) /\ StreamTurn(u)
      BY <1>1 DEF browser, TabTurn, StreamTurn
<1>2. ASSUME NEW v \in Users, (\E t \in Types : Click(v, t)) \/ Toggle(v) \/ Load(v)
      PROVE  UNCHANGED browser
      BY <1>2 DEF Click, Toggle, Lookup, Write, Own, Bump, Load
<1>3. ASSUME NEW v \in Users, NEW k \in Kinds, Serve(v, k) \/ Crash(v, k), ~Reply(v, k)
      PROVE  UNCHANGED browser
      BY <1>3 DEF Serve, Query, Remember, Count, Put, ShowTotals, ShowMine, ReadVersion, Crash
<1>4. ASSUME NEW v \in Users, NEW k \in Kinds, Reply(v, k) PROVE TabTurn(u) /\ StreamTurn(u)
  <2>1. UNCHANGED <<stream, news>>  BY <1>4 DEF Reply
  <2>2. u # v => tab'[u] = tab[u] /\ local'[u] = local[u]  BY <1>0, <1>4 DEF Reply
  <2> QED BY <1>4, <2>1, <2>2 DEF TabTurn, StreamTurn
<1>5. ASSUME NEW v \in Users, Connect(v) PROVE TabTurn(u) /\ StreamTurn(u)
  <2>1. /\ UNCHANGED <<reactions, tab, local, news>> /\ stream' = [stream EXCEPT ![v] = version]
        /\ Loaded(v) /\ stream[v] = None
        /\ disturbed' = (disturbed \/ tab[v].version # version)
        BY <1>5 DEF Connect
  <2>2. TabTurn(u)  BY <2>1 DEF TabTurn
  <2>3. StreamTurn(u)  BY <1>0, <2>1 DEF StreamTurn, reactions
  <2> QED BY <2>2, <2>3
<1>6. ASSUME NEW v \in Users, Poll(v) PROVE TabTurn(u) /\ StreamTurn(u)
  <2>1. /\ UNCHANGED <<reactions, tab, local>> /\ stream' = [stream EXCEPT ![v] = version]
        /\ news' = [news EXCEPT ![v] = version] /\ stream[v] # None
        BY <1>6 DEF Poll
  <2>2. TabTurn(u)  BY <2>1 DEF TabTurn
  <2>3. StreamTurn(u)  BY <1>0, <2>1 DEF StreamTurn, reactions
  <2> QED BY <2>2, <2>3
<1>7. ASSUME NEW v \in Users, Handle(v) PROVE TabTurn(u) /\ StreamTurn(u)
  <2>1. /\ UNCHANGED <<local, stream>> /\ news' = [news EXCEPT ![v] = None] /\ news[v] # None
        /\ \/ tab' = tab
           \/ /\ tab' = [tab EXCEPT ![v].version = news[v]]
              /\ news[v] = local[v]
        BY <1>7 DEF Handle
  <2>2. StreamTurn(u)  BY <1>0, <1>7, <2>1 DEF StreamTurn
  <2>3. news[v] # None => Loaded(v)  BY DEF VersionsOK
  <2>4. TabTurn(u)  BY <1>0, <2>1, <2>3 DEF TabTurn
  <2> QED BY <2>2, <2>4
<1>8. ASSUME NEW v \in Users, Elapse(v) \/ Drop(v) PROVE TabTurn(u) /\ StreamTurn(u)
  <2>1. TabTurn(u)  BY <1>0, <1>8 DEF Elapse, Drop, TabTurn
  <2>2. StreamTurn(u)  BY <1>0, <1>8 DEF Elapse, Drop, StreamTurn
  <2> QED BY <2>1, <2>2
<1>9. CASE UNCHANGED vars  BY <1>1, <1>9 DEF vars
<1> QED BY <1>1, <1>2, <1>3, <1>4, <1>5, <1>6, <1>7, <1>8, <1>9 DEF Next, Browse

\* The version never falls.
LEMMA VersionRises ==
    ASSUME IInv, [Next]_vars
    PROVE  version \in Nat /\ version' \in Nat /\ version' >= version
<1>1. version \in Nat /\ version' \in Nat  BY StepOK DEF IInv, TypeOK
<1>2. version' = version \/ version' = version + 1
  <2>1. ASSUME NEW u \in Users, Bump(u) PROVE version' = version + 1  BY <2>1 DEF Bump
  <2>2. ASSUME NEW u \in Users, (\E t \in Types : Click(u, t)) \/ Lookup(u) \/ Write(u) \/ Own(u)
        PROVE  version' = version
        BY <2>2 DEF Click, Lookup, Write, Own, reactions
  <2>3. ASSUME NEW u \in Users, Browse(u) \/ Elapse(u) \/ Drop(u) PROVE version' = version
        BY <2>3 DEF Browse, Load, Connect, Poll, Handle, Elapse, Drop, reactions
  <2>4. ASSUME NEW u \in Users, NEW k \in Kinds, Serve(u, k) \/ Crash(u, k)
        PROVE  version' = version
        BY <2>4 DEF Serve, Query, Remember, Count, Put, ShowTotals, ShowMine, ReadVersion, Reply,
                    Crash, reactions
  <2>5. CASE UNCHANGED vars  BY <2>5 DEF vars, reactions
  <2> QED BY <2>1, <2>2, <2>3, <2>4, <2>5 DEF Next, Toggle
<1> QED BY <1>1, <1>2

\* Every version held anywhere has been the engagement version.
LEMMA VersionsStep == ASSUME IInv, VersionsOK, [Next]_vars PROVE VersionsOK'
<1>1. version \in Nat /\ version' \in Nat /\ version' >= version  BY VersionRises
<1>2. ASSUME NEW u \in Users, NEW k \in Kinds
      PROVE  /\ req'[u][k].step \in RenderSteps => req'[u][k].since \in 0..version'
             /\ req'[u][k].step = "reply" => req'[u][k].version \in 0..version'
  <2> DEFINE q == req[u][k]  r == req'[u][k]
  <2>1. /\ q.step \in RenderSteps => q.since \in 0..version
        /\ q.step = "reply" => q.version \in 0..version
        BY DEF VersionsOK
  <2>2. Turn(u, k)  BY Turns
  <2> HIDE DEF q, r
  <2>3. \/ r = q
        \/ r.step \notin RenderSteps
        \/ r.step = "totals" /\ r.since = version'
        \/ /\ r.since = q.since /\ q.step \in RenderSteps
           /\ r.step # "reply" \/ r.version = version
    <3>1. \/ r = q
          \/ r.step \notin RenderSteps
          \/ r.step = "totals" /\ r.since = version'
          \/ /\ r.since = q.since
             /\ \/ /\ q.step \in {"totals", "recount", "fill"}
                   /\ r.step \in {"totals", "recount", "fill"}
                \/ q.step = "totals" /\ r.step = "mine"
                \/ q.step \in Rendered /\ r.step \in {"requery", "version", "refill"}
                \/ q.step \in Rendered /\ r.step = "reply" /\ r.version = version
          BY <2>2 DEF Turn, Rendered, q, r
    <3> QED BY <3>1 DEF RenderSteps
  <2>4. r.step \in RenderSteps => r.since \in 0..version'  BY <1>1, <2>1, <2>3
  <2>5. r.step = "reply" => r.step \in RenderSteps /\ r.step # "totals"  BY DEF RenderSteps, Rendered
  <2>6. r.step = "reply" => r.version \in 0..version'  BY <1>1, <2>1, <2>3, <2>5
  <2> QED BY <2>4, <2>6 DEF r
<1>3. ASSUME NEW u \in Users
      PROVE  /\ tab'[u].version \in 0..version' \cup {None}
             /\ local'[u] \in 0..version' \cup {None}
             /\ stream'[u] \in 0..version' \cup {None}
             /\ stream'[u] # None \/ local'[u] # None => Loaded(u)'
             /\ news'[u] # None => news'[u] = stream'[u]
  <2>0. /\ tab[u].version \in 0..version \cup {None} /\ local[u] \in 0..version \cup {None}
        /\ stream[u] \in 0..version \cup {None}
        /\ stream[u] # None \/ local[u] # None => Loaded(u)
        /\ news[u] # None => news[u] = stream[u]
        BY DEF VersionsOK
  <2>1. TabTurn(u) /\ StreamTurn(u)  BY TabTurns
  <2>2. /\ tab'[u].version \in 0..version' \cup {None} /\ local'[u] \in 0..version' \cup {None}
        /\ Loaded(u) \/ local'[u] # None => Loaded(u)'
    <3>1. CASE tab'[u] = tab[u] /\ local'[u] \in {local[u], None}
          BY <1>1, <2>0, <3>1 DEF Loaded
    <3>2. ASSUME NEW k \in Kinds, Reply(u, k)
          PROVE  tab'[u].version \in 0..version /\ local'[u] \in {local[u], tab'[u].version}
      <4>1. /\ tab'[u] = [totals |-> req[u][k].tally, mine |-> req[u][k].seen, version |-> req[u][k].version]
            /\ local'[u] \in {local[u], req[u][k].version} /\ req[u][k].step = "reply"
            BY <3>2 DEF Reply, At, IInv, TypeOK
      <4>2. req[u][k].version \in 0..version  BY <4>1 DEF VersionsOK
      <4> QED BY <4>1, <4>2
    <3>3. CASE \E k \in Kinds : Reply(u, k)
          BY <1>1, <2>0, <3>2, <3>3, VersionsAssumption DEF Loaded
    <3>4. CASE /\ news[u] = local[u] /\ news[u] # None /\ local'[u] = local[u]
               /\ tab'[u] = [tab[u] EXCEPT !.version = news[u]]
      <4>1. tab[u] \in [totals: Tallies \cup {Unset}, mine: Reaction, version: Versions]
            BY DEF IInv, TypeOK
      <4>2. tab'[u].version = local[u]  BY <3>4, <4>1
      <4> QED BY <1>1, <2>0, <3>4, <4>2 DEF Loaded
    <3> QED BY <2>1, <3>1, <3>3, <3>4 DEF TabTurn
  <2>3. /\ stream'[u] \in 0..version' \cup {None}
        /\ stream'[u] # None => Loaded(u)
        /\ news'[u] # None => news'[u] = stream'[u]
    <3>1. ASSUME Handle(u) PROVE stream' = stream /\ news'[u] = None
          BY <3>1 DEF Handle, IInv, TypeOK
    <3> QED BY <1>1, <2>0, <2>1, <3>1 DEF StreamTurn
  <2> QED BY <2>2, <2>3
<1> QED BY <1>2, <1>3 DEF VersionsOK

\* Nothing late, nothing lost: Redis keeps to the table.
LEMMA RedisStep == ASSUME IInv, RedisOK, [Next]_vars, ~disturbed' PROVE RedisOK'
<1>1. ~LateCount  BY DEF LateCount, Put
<1>2. \A u \in Users : ~LateRead(u)  BY DEF LateRead, Remember
<1> QED BY <1>1, <1>2, TotalsStep, OwnStep DEF RedisOK, Killed

\* A change of the table is announced by a click under way, which raises the version.
LEMMA Announced ==
    ASSUME IInv, [Next]_vars, ~disturbed'
    PROVE  /\ votes' # votes => Unbumped'
           /\ Unbumped => Unbumped' \/ version' = version + 1
<1>1. votes' # votes => Unbumped'
  <2> SUFFICES ASSUME votes' # votes PROVE Unbumped'  OBVIOUS
  <2>1. PICK v \in Users : Write(v)  BY Writers
  <2>2. req'[v]["click"].step = "count"  BY <2>1, WriteLeaves
  <2> QED BY <2>2 DEF Unbumped
<1>2. Unbumped => Unbumped' \/ version' = version + 1
  <2> SUFFICES ASSUME NEW v \in Users, req[v]["click"].step \in {"count", "put", "own", "bump"}
               PROVE  Unbumped' \/ version' = version + 1
      BY DEF Unbumped
  <2>0. req[v]["click"] \in Request /\ "click" \in Kinds  BY DEF IInv, TypeOK, Kinds
  <2>1. CASE req'[v]["click"] = req[v]["click"]  BY <2>1 DEF Unbumped
  <2>2. CASE req'[v]["click"] # req[v]["click"]
    <3>1. Count(v, "click") \/ Put(v, "click") \/ Own(v) \/ Bump(v)
          BY <2>2, ClickMoves DEF Killed
    <3>2. CASE Count(v, "click")
      <4>1. At(v, "click", "count")  BY <3>2 DEF Count, At
      <4>2. req'[v]["click"].step = "put"  BY <3>2, <4>1, CountLeaves
      <4> QED BY <4>2 DEF Unbumped
    <3>3. CASE Put(v, "click")
      <4>1. At(v, "click", "put")  BY <3>3 DEF Put, At
      <4>2. req'[v]["click"].step = "own"  BY <2>0, <3>3, <4>1, PutLeaves
      <4> QED BY <4>2 DEF Unbumped
    <3>4. CASE Own(v)
      <4>1. Go(v, "click", "bump") /\ "bump" \in Steps  BY <3>4 DEF Own, Steps
      <4> DEFINE x == [req[v]["click"] EXCEPT !.step = "bump"]
      <4>2. Moves(v, "click", x) /\ x.step = "bump"  BY <2>0, <4>1, GoWrites
      <4>3. req'[v]["click"] = x  BY <2>0, <4>2, OthersStay
      <4> QED BY <4>2, <4>3 DEF Unbumped
    <3>5. CASE Bump(v)  BY <3>5 DEF Bump
    <3> QED BY <3>1, <3>2, <3>3, <3>4, <3>5
  <2> QED BY <2>1, <2>2
<1> QED BY <1>1, <1>2

\* Whoever is behind stays behind, and whoever held what the table held still does
\* or gets behind.
LEMMA BehindStays ==
    ASSUME IInv, [Next]_vars, ~disturbed', NEW n \in 0..version
    PROVE  /\ Behind(n) => n < version' \/ Unbumped'
           /\ votes' = votes \/ (n < version' \/ Unbumped')
<1>1. version \in Nat /\ version' \in Nat /\ version' >= version  BY VersionRises
<1>2. n < version => n < version'  BY <1>1
<1>3. Unbumped => n < version' \/ Unbumped'
  <2>1. version' = version + 1 => n < version'  BY <1>1
  <2> QED BY <2>1, Announced
<1> QED BY <1>2, <1>3, Announced DEF Behind

\* A rendering reads from Redis what the table holds, or a change it missed makes it late.
LEMMA BlockStep ==
    ASSUME IInv, VersionsOK, RedisOK, [Next]_vars, ~disturbed',
           NEW u \in Users, NEW k \in Kinds, BlockOK(u, k)
    PROVE  BlockOK(u, k)'
<1> DEFINE q == req[u][k]
           r == req'[u][k]
           Late(n) == n < version' \/ Unbumped'
<1>1. Turn(u, k)  BY Turns
<1>2. q.step \in RenderSteps => q.since \in 0..version  BY DEF VersionsOK
<1>3. q.step \in RenderSteps => /\ Behind(q.since) => Late(q.since)
                                /\ votes' = votes \/ Late(q.since)
      BY <1>2, BehindStays
<1>4. /\ q.step \in Rendered => q.tally = Tally(votes) \/ Behind(q.since)
      /\ q.step \in {"version", "reply"} => q.seen = votes[u] \/ Behind(q.since)
      /\ q.step = "reply" => q.version = q.since
      BY DEF BlockOK
<1>5. totals # Unset => totals = Tally(votes) \/ Unbumped
      BY DEF RedisOK, TotalsAreCounts, At, Unbumped
<1>6. mine[u] # Unset => mine[u] = votes[u] \/ Unbumped
      BY DEF RedisOK, OwnIsKnown, At, Unbumped
<1>7. votes' = votes => Tally(votes)' = Tally(votes)  BY DEF Tally
<1> SUFFICES /\ r.step \in Rendered => r.tally = Tally(votes)' \/ Late(r.since)
             /\ r.step \in {"version", "reply"} => r.seen = votes'[u] \/ Late(r.since)
             /\ r.step = "reply" => r.version = r.since
    BY DEF BlockOK, Behind
<1>8. q.step \in Rendered => q.step \in RenderSteps  BY DEF RenderSteps
<1> HIDE DEF q, r, Late
<1>9. CASE r = q
  <2>1. r.step \in {"version", "reply"} => r.step \in Rendered  BY DEF Rendered
  <2> QED BY <1>3, <1>4, <1>7, <1>8, <1>9, <2>1
<1>10. CASE r.step \notin RenderSteps \/ r.step = "totals"
      BY <1>10 DEF RenderSteps, Rendered
<1>11. CASE /\ votes' = votes /\ version' = version /\ r.since = q.since
            /\ \/ /\ q.step \in {"totals", "recount", "fill"}
                  /\ r.step \in {"totals", "recount", "fill"}
               \/ q.step = "totals" /\ r.step = "mine" /\ totals # Unset /\ r.tally = totals
               \/ /\ r.tally = q.tally
                  /\ \/ q.step = "mine" /\ r.step = "requery"
                     \/ /\ q.step = "mine" /\ r.step = "version"
                        /\ mine[u] # Unset /\ r.seen = mine[u]
                     \/ q.step = "requery" /\ r.step = "refill" /\ r.seen = votes[u]
                     \/ /\ q.step = "refill" /\ r.step = "version" /\ r.seen = q.seen
                        /\ q.seen = votes[u]
                     \/ /\ q.step = "version" /\ r.step = "reply" /\ r.seen = q.seen
                        /\ r.version = version /\ q.since = version
  <2>1. Unbumped => Late(q.since) \/ q.step \notin RenderSteps
        BY <1>3 DEF Behind
  <2>2. CASE r.step \in {"totals", "recount", "fill"}  BY <2>2 DEF Rendered
  <2>3. CASE q.step = "totals" /\ r.step = "mine" /\ totals # Unset /\ r.tally = totals
        BY <1>5, <1>7, <1>11, <2>1, <2>3 DEF RenderSteps
  <2>4. CASE q.step \in Rendered /\ r.tally = q.tally
    <3>1. r.tally = Tally(votes)' \/ Late(r.since)
          BY <1>3, <1>4, <1>7, <1>8, <1>11, <2>4
    <3>2. r.step \in {"version", "reply"} => r.seen = votes'[u] \/ Late(r.since)
      <4>1. CASE q.step = "mine"  BY <1>6, <1>8, <1>11, <2>1, <2>4, <4>1
      <4>2. CASE q.step = "refill"  BY <1>11, <4>2
      <4>3. CASE q.step = "version"  BY <1>3, <1>4, <1>8, <1>11, <2>4, <4>3
      <4> QED BY <1>11, <2>4, <4>1, <4>2, <4>3 DEF Rendered
    <3>3. r.step = "reply" => r.version = r.since  BY <1>11
    <3> QED BY <3>1, <3>2, <3>3
  <2> QED BY <1>11, <2>2, <2>3, <2>4 DEF Rendered
<1> QED BY <1>1, <1>9, <1>10, <1>11 DEF Turn, q, r

\* A rendering for the tab ends with the reply, or it is killed.
LEMMA ViewLeaves ==
    ASSUME IInv, [Next]_vars, NEW u \in Users,
           req[u]["view"].step \in RenderSteps, req'[u]["view"].step \notin RenderSteps
    PROVE  Reply(u, "view") \/ Killed
<1> DEFINE c == "view"
<1>0. /\ req \in [Users -> [Kinds -> Request]] /\ c \in Kinds /\ req[u][c] \in Request
      /\ req[u][c].step \notin {"idle", "lookup", "query", "remember", "write", "count", "put"}
      BY DEF IInv, TypeOK, Kinds, RenderSteps, Rendered
<1>1. ASSUME NEW v \in Users, (\E t \in Types : Click(v, t)) \/ Toggle(v)
      PROVE  req'[u][c] = req[u][c]
  <2>1. (\E t \in Types : Click(v, t)) => req'[u][c] = req[u][c]  BY <1>0 DEF Click
  <2>2. Lookup(v) => req'[u][c] = req[u][c]  BY <1>0 DEF Lookup, Go
  <2>3. Write(v) => req'[u][c] = req[u][c]  BY <1>0 DEF Write, Go
  <2>4. Own(v) \/ Bump(v) => req'[u][c] = req[u][c]  BY <1>0 DEF Own, Bump, Go
  <2> QED BY <1>1, <2>1, <2>2, <2>3, <2>4 DEF Toggle
<1>2. ASSUME NEW v \in Users, Browse(v) \/ Elapse(v) \/ Drop(v) PROVE req'[u][c] = req[u][c]
  <2>1. ASSUME Load(v) \/ Handle(v) PROVE req'[u][c] = req[u][c]
    <3>1. req' = req \/ /\ req[v][c].step = "idle"
                        /\ \E x : req' = [req EXCEPT ![v][c] = x]
          BY <2>1 DEF Load, Handle, Idle
    <3>2. v # u => req'[u] = req[u]  BY <1>0, <3>1
    <3>3. v = u => req' = req  BY <1>0, <3>1
    <3> QED BY <3>2, <3>3
  <2>2. Connect(v) \/ Poll(v) \/ Elapse(v) \/ Drop(v) => req' = req
        BY DEF Connect, Poll, Elapse, Drop
  <2> QED BY <1>2, <2>1, <2>2 DEF Browse
<1>3. ASSUME NEW v \in Users, NEW j \in Kinds, Serve(v, j) \/ Crash(v, j),
             ~(v = u /\ j = c)
      PROVE  req'[u][c] = req[u][c]
  <2>1. Query(v, j) \/ Count(v, j) => req'[u][c] = req[u][c]  BY <1>0, <1>3 DEF Query, Count
  <2>2. Remember(v, j) \/ Put(v, j) => req'[u][c] = req[u][c]  BY <1>0, <1>3 DEF Remember, Put, Go
  <2>3. ShowTotals(v, j) => req'[u][c] = req[u][c]  BY <1>0, <1>3 DEF ShowTotals, Go
  <2>4. ShowMine(v, j) => req'[u][c] = req[u][c]  BY <1>0, <1>3 DEF ShowMine, Go
  <2>5. ReadVersion(v, j) \/ Reply(v, j) \/ Crash(v, j) => req'[u][c] = req[u][c]
        BY <1>0, <1>3 DEF ReadVersion, Reply, Crash
  <2> QED BY <1>3, <2>1, <2>2, <2>3, <2>4, <2>5 DEF Serve
<1>4. ASSUME Serve(u, c), ~Reply(u, c) PROVE req'[u][c].step \in RenderSteps
  <2> USE DEF RenderSteps, Rendered
  <2>1. Query(u, c) => req'[u][c].step = "refill"  BY <1>0 DEF Query, At, Request
  <2>2. Count(u, c) => req'[u][c].step = "fill"  BY <1>0 DEF Count, At, Request
  <2>3. Remember(u, c) => req'[u][c].step = "version"  BY <1>0 DEF Remember, Go, At, Request
  <2>4. Put(u, c) => req'[u][c].step = "totals"  BY <1>0 DEF Put, Go, At, Request
  <2>5. ShowTotals(u, c) => req'[u][c].step \in {"recount", "mine"}
        BY <1>0 DEF ShowTotals, Go, Request
  <2>6. ShowMine(u, c) => req'[u][c].step \in {"requery", "version"}
        BY <1>0 DEF ShowMine, Go, Request
  <2>7. ReadVersion(u, c) => req'[u][c].step = "reply"  BY <1>0 DEF ReadVersion, Request
  <2> QED BY <1>4, <2>1, <2>2, <2>3, <2>4, <2>5, <2>6, <2>7 DEF Serve
<1>5. ASSUME Crash(u, c) PROVE Killed
  <2>1. faults' = faults + 1 /\ faults \in Nat /\ disturbed' = TRUE
        BY <1>5 DEF Crash, IInv, TypeOK
  <2> QED BY <2>1 DEF Killed
<1>6. CASE UNCHANGED vars  BY <1>6 DEF vars
<1> QED BY <1>1, <1>2, <1>3, <1>4, <1>5, <1>6 DEF Next

\* A reply brings such a block, and whatever else the tab meets leaves it so.
LEMMA TabStep ==
    ASSUME IInv, VersionsOK, [Next]_vars, ~disturbed', NEW u \in Users,
           \A k \in Kinds : BlockOK(u, k), TabOK(u), LocalOK(u)
    PROVE  TabOK(u)' /\ LocalOK(u)'
<1> DEFINE Late(n) == n < version' \/ Unbumped'
           n == tab[u].version
<1>1. /\ tab[u] \in [totals: Tallies \cup {Unset}, mine: Reaction, version: Versions]
      /\ version \in Nat /\ version' \in Nat /\ version' >= version
      BY VersionRises DEF IInv, TypeOK
<1>2. /\ n \in 0..version \cup {None} /\ local[u] \in 0..version \cup {None}
      /\ local[u] # None => n # None
      BY DEF VersionsOK, Loaded
<1>3. votes' = votes => Tally(votes)' = Tally(votes)  BY DEF Tally
<1>4. /\ n # None => (tab[u].totals = Tally(votes) /\ tab[u].mine = votes[u]) \/ Behind(n)
      /\ local[u] # None => local[u] <= n
      BY DEF TabOK, LocalOK, Loaded
<1>5. CASE tab'[u] = tab[u] /\ local'[u] \in {local[u], None}
  <2>1. n # None => (Behind(n) => Late(n)) /\ (votes' = votes \/ Late(n))
        BY <1>2, BehindStays
  <2>2. TabOK(u)'
    <3> HIDE DEF n, Late
    <3>1. n # None => \/ tab'[u].totals = Tally(votes)' /\ tab'[u].mine = votes'[u]
                      \/ Late(n)
          BY <1>3, <1>4, <1>5, <2>1
    <3> QED BY <1>5, <3>1 DEF TabOK, Loaded, Behind, Late, n
  <2>3. LocalOK(u)'  BY <1>4, <1>5 DEF LocalOK
  <2> QED BY <2>2, <2>3
<1>6. ASSUME NEW k \in Kinds, Reply(u, k) PROVE TabOK(u)' /\ LocalOK(u)'
  <2> DEFINE q == req[u][k]
  <2>1. /\ tab'[u] = [totals |-> q.tally, mine |-> q.seen, version |-> q.version]
        /\ local'[u] \in {local[u], q.version} /\ q.step = "reply"
        /\ votes' = votes /\ ~(n # None /\ q.version < n)
        BY <1>6 DEF Reply, At, IInv, TypeOK, reactions, Loaded
  <2>2. q.version = q.since /\ q.since \in 0..version
        BY <2>1 DEF BlockOK, VersionsOK, RenderSteps, Rendered
  <2>3. (q.tally = Tally(votes) /\ q.seen = votes[u]) \/ Behind(q.since)
        BY <2>1 DEF BlockOK, Rendered
  <2>4. Behind(q.since) => Late(q.since)  BY <2>2, BehindStays
  <2> HIDE DEF q, n, Late
  <2>5. /\ tab'[u].totals = q.tally /\ tab'[u].mine = q.seen /\ tab'[u].version = q.since
        BY <2>1, <2>2
  <2>6. TabOK(u)'
    <3>1. \/ tab'[u].totals = Tally(votes)' /\ tab'[u].mine = votes'[u]
          \/ Late(tab'[u].version)
          BY <1>3, <2>1, <2>3, <2>4, <2>5
    <3> QED BY <3>1 DEF TabOK, Behind, Late
  <2>7. LocalOK(u)'
    <3>1. local[u] # None => local[u] <= q.since
          BY <1>1, <1>2, <1>4, <2>1, <2>2, VersionsAssumption
    <3> QED BY <2>1, <2>2, <2>5, <3>1 DEF LocalOK
  <2> QED BY <2>6, <2>7
<1>7. CASE /\ news[u] = local[u] /\ news[u] # None /\ local'[u] = local[u]
           /\ tab'[u] = [tab[u] EXCEPT !.version = news[u]] /\ Loaded(u)
  <2> DEFINE m == local[u]
  <2>1. tab'[u].totals = tab[u].totals /\ tab'[u].mine = tab[u].mine /\ tab'[u].version = m
        BY <1>1, <1>7
  <2>2. m \in 0..version /\ n \in 0..version /\ m <= n  BY <1>2, <1>4, <1>7
  <2>3. (Behind(m) => Late(m)) /\ (votes' = votes \/ Late(m))  BY <2>2, BehindStays
  <2>4. Behind(n) => Behind(m)  BY <1>1, <2>2 DEF Behind
  <2>5. n # None  BY <1>7 DEF Loaded
  <2> HIDE DEF n, m, Late
  <2>6. \/ tab'[u].totals = Tally(votes)' /\ tab'[u].mine = votes'[u]
        \/ Late(m)
        BY <1>3, <1>4, <2>1, <2>3, <2>4, <2>5
  <2>7. TabOK(u)'  BY <2>1, <2>6 DEF TabOK, Behind, Late
  <2>8. LocalOK(u)'  BY <1>7, <2>1, <2>2 DEF LocalOK, m
  <2> QED BY <2>7, <2>8
<1> QED BY <1>5, <1>6, <1>7, TabTurns DEF TabTurn

\* An event the stream reports is shown, or asks for a rendering no older than it.
LEMMA StreamStep ==
    ASSUME IInv, VersionsOK, [Next]_vars, ~disturbed', NEW u \in Users,
           \A k \in Kinds : BlockOK(u, k), StreamOK(u)
    PROVE  StreamOK(u)'
<1> DEFINE n == tab[u].version
           s == stream[u]
           q == req[u]["view"]
           r == req'[u]["view"]
<1>1. /\ tab[u] \in [totals: Tallies \cup {Unset}, mine: Reaction, version: Versions]
      /\ stream \in [Users -> Versions] /\ news \in [Users -> Versions]
      /\ req \in [Users -> [Kinds -> Request]] /\ "view" \in Kinds
      /\ tab \in [Users -> [totals: Tallies \cup {Unset}, mine: Reaction, version: Versions]]
      BY DEF IInv, TypeOK, Kinds
<1>2. version \in Nat /\ version' \in Nat /\ version' >= version  BY VersionRises
<1>3. /\ n \in 0..version \cup {None} /\ s \in 0..version \cup {None}
      /\ s # None => n # None
      /\ news[u] # None => news[u] = s
      /\ q.step \in RenderSteps => q.since \in 0..version
      BY <1>1 DEF VersionsOK, Loaded
<1>4. s # None => n >= s \/ news[u] # None \/ (q.step \in RenderSteps /\ q.since >= s)
      BY DEF StreamOK, Refreshes
<1>5. ASSUME NEW k \in Kinds, Reply(u, k)
      PROVE  /\ tab'[u].version = req[u][k].since /\ req[u][k].since \in 0..version
             /\ ~(n # None /\ req[u][k].since < n)
  <2>1. /\ tab'[u].version = req[u][k].version
        /\ req[u][k].step = "reply" /\ ~(n # None /\ req[u][k].version < n)
        BY <1>1, <1>5 DEF Reply, At, Loaded
  <2> QED BY <2>1 DEF BlockOK, VersionsOK, RenderSteps, Rendered
<1>6. CASE stream'[u] = stream[u] /\ news'[u] = news[u] /\ s # None
  <2>1. CASE news[u] # None  BY <1>6, <2>1 DEF StreamOK
  <2>2. CASE news[u] = None /\ n >= s
    <3>1. CASE tab'[u] = tab[u]  BY <1>6, <2>2, <3>1 DEF StreamOK
    <3>2. ASSUME NEW k \in Kinds, Reply(u, k) PROVE StreamOK(u)'
      <4>1. tab'[u].version >= s  BY <1>2, <1>3, <1>5, <1>6, <2>2, <3>2
      <4> QED BY <1>6, <4>1 DEF StreamOK
    <3> QED BY <2>2, <3>1, <3>2, TabTurns DEF TabTurn
  <2>3. CASE news[u] = None /\ q.step \in RenderSteps /\ q.since >= s
    <3>1. CASE r.step \notin RenderSteps
      <4>1. Reply(u, "view")  BY <2>3, <3>1, ViewLeaves DEF Killed
      <4>2. tab'[u].version >= s  BY <1>1, <1>5, <2>3, <4>1
      <4> QED BY <1>6, <4>2 DEF StreamOK
    <3>2. CASE r.step \in RenderSteps
      <4>1. r = q \/ r.since = q.since \/ r.since = version'
            BY <1>1, <3>2, Turns DEF Turn
      <4>2. r.since >= s  BY <1>2, <1>3, <1>6, <2>3, <4>1
      <4> QED BY <1>6, <3>2, <4>2 DEF StreamOK, Refreshes
    <3> QED BY <3>1, <3>2
  <2> QED BY <1>4, <1>6, <2>1, <2>2, <2>3
<1>7. CASE stream'[u] = None  BY <1>7 DEF StreamOK
<1>8. CASE stream'[u] = version /\ version' = version /\ tab' = tab /\ n = version
      BY <1>2, <1>8 DEF StreamOK
<1>9. CASE news'[u] = version
  <2>1. news'[u] # None  BY <1>2, <1>9, VersionsAssumption
  <2> QED BY <2>1 DEF StreamOK
<1>10. CASE Handle(u)
  <2>1. stream'[u] = s /\ news[u] # None /\ news[u] = s /\ s \in 0..version
        BY <1>1, <1>3, <1>10 DEF Handle
  <2>2. CASE news[u] = n /\ tab' = tab
    <3>1. tab'[u].version >= s  BY <1>2, <2>1, <2>2
    <3> QED BY <2>1, <3>1 DEF StreamOK
  <2>3. CASE tab' = [tab EXCEPT ![u].version = news[u]]
    <3>1. tab'[u].version = s  BY <1>1, <2>1, <2>3
    <3> QED BY <1>2, <2>1, <3>1 DEF StreamOK
  <2>4. CASE req' = [req EXCEPT ![u]["view"] = [Rendering EXCEPT !.since = version]]
    <3>1. r.step = "totals" /\ r.since = version
          BY <1>1, <2>4 DEF Rendering, Resting
    <3>2. r.since >= s  BY <1>2, <2>1, <3>1
    <3> QED BY <2>1, <3>1, <3>2 DEF StreamOK, Refreshes, RenderSteps
  <2> QED BY <1>10, <2>2, <2>3, <2>4 DEF Handle
<1>11. s = None \/ s # None  OBVIOUS
<1> QED BY <1>6, <1>7, <1>8, <1>9, <1>10, <1>11, TabTurns DEF StreamTurn

\* What has been late, or lost, stays so.
LEMMA DisturbedStays == ASSUME [Next]_vars, disturbed PROVE disturbed'
<1>1. ASSUME NEW u \in Users, (\E t \in Types : Click(u, t)) \/ Toggle(u) PROVE disturbed'
      BY <1>1 DEF Click, Toggle, Lookup, Write, Own, Bump
<1>2. ASSUME NEW u \in Users, Browse(u) \/ Elapse(u) \/ Drop(u) PROVE disturbed'
      BY <1>2 DEF Browse, Load, Connect, Poll, Handle, Elapse, Drop
<1>3. ASSUME NEW u \in Users, NEW k \in Kinds, Serve(u, k) \/ Crash(u, k) PROVE disturbed'
      BY <1>3 DEF Serve, Query, Remember, Count, Put, ShowTotals, ShowMine, ReadVersion, Reply,
                  Crash
<1>4. CASE UNCHANGED vars  BY <1>4 DEF vars
<1> QED BY <1>1, <1>2, <1>3, <1>4 DEF Next

\* A tab that has nothing left to wait for shows the table, unless something came
\* late or was lost, for any number of users, tabs and clicks.
THEOREM LatestIsShown == Spec => []TabShowsLatest
<1>1. Init => LatestInv
  <2> SUFFICES ASSUME Init PROVE LatestInv  OBVIOUS
  <2>1. IInv  BY InitOK
  <2>2. \A u \in Users, k \in Kinds : req[u][k].step = "idle"
        BY FreshRequests DEF Init
  <2>3. \A u \in Users : /\ tab[u].version = None /\ local[u] = None
                         /\ stream[u] = None /\ news[u] = None
        BY DEF Init, Blank
  <2>4. VersionsOK  BY <2>2, <2>3 DEF VersionsOK, RenderSteps, Rendered
  <2>5. RedisOK
    <3>1. totals \in {Unset, Tally(votes)} /\ \A u \in Users : mine[u] \in {Unset, votes[u]}
          BY DEF Init
    <3> QED BY <3>1 DEF RedisOK, TotalsAreCounts, OwnIsKnown
  <2>6. ASSUME NEW u \in Users, NEW k \in Kinds PROVE BlockOK(u, k)
        BY <2>2 DEF BlockOK, Rendered
  <2>7. ASSUME NEW u \in Users PROVE TabOK(u) /\ LocalOK(u) /\ StreamOK(u)
        BY <2>3 DEF TabOK, LocalOK, StreamOK, Loaded
  <2> QED BY <2>4, <2>5, <2>6, <2>7 DEF LatestInv
<1>2. IInv /\ LatestInv /\ [Next]_vars => LatestInv'
  <2> SUFFICES ASSUME IInv, LatestInv, [Next]_vars PROVE LatestInv'  OBVIOUS
  <2>1. VersionsOK /\ VersionsOK'  BY VersionsStep DEF LatestInv
  <2>2. disturbed => disturbed'  BY DisturbedStays
  <2>3. ASSUME ~disturbed' PROVE /\ RedisOK'
                                 /\ \A u \in Users, k \in Kinds : BlockOK(u, k)'
                                 /\ \A u \in Users : TabOK(u)' /\ LocalOK(u)' /\ StreamOK(u)'
    <3>1. /\ RedisOK /\ \A u \in Users, k \in Kinds : BlockOK(u, k)
          /\ \A u \in Users : TabOK(u) /\ LocalOK(u) /\ StreamOK(u)
          BY <2>2, <2>3 DEF LatestInv
    <3>2. RedisOK'  BY <2>3, <3>1, RedisStep
    <3>3. \A u \in Users, k \in Kinds : BlockOK(u, k)'  BY <2>1, <2>3, <3>1, BlockStep
    <3>4. \A u \in Users : TabOK(u)' /\ LocalOK(u)'  BY <2>1, <2>3, <3>1, TabStep
    <3>5. \A u \in Users : StreamOK(u)'  BY <2>1, <2>3, <3>1, StreamStep
    <3> QED BY <3>2, <3>3, <3>4, <3>5
  <2> QED BY <2>1, <2>3 DEF LatestInv
<1>3. IInv /\ LatestInv => TabShowsLatest
  <2> SUFFICES ASSUME IInv, LatestInv, NEW u \in Watchers, Resolved(u), ~disturbed
               PROVE  tab[u].totals = Tally(votes) /\ tab[u].mine = votes[u]
      BY DEF TabShowsLatest
  <2>1. u \in Users /\ version \in Nat  BY UsersAssumption DEF IInv, TypeOK
  <2>2. VersionsOK /\ TabOK(u) /\ StreamOK(u)  BY <2>1 DEF LatestInv
  <2>3. ~Unbumped  BY DEF Resolved, Idle, Unbumped
  <2>4. stream[u] = version /\ news[u] = None /\ ~Refreshes(u) /\ version # None
        BY <2>1, VersionsAssumption DEF Resolved, Idle, Refreshes, RenderSteps, Rendered
  <2>5. Loaded(u) /\ tab[u].version \in 0..version  BY <2>1, <2>2, <2>4 DEF VersionsOK, Loaded
  <2>6. tab[u].version >= version  BY <2>2, <2>4 DEF StreamOK
  <2>7. ~Behind(tab[u].version)  BY <2>1, <2>3, <2>5, <2>6 DEF Behind
  <2> QED BY <2>2, <2>5, <2>7 DEF TabOK
<1> QED BY <1>1, <1>2, <1>3, Invariance, PTL DEF Spec
=============================================================================
