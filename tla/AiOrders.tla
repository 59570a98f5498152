------------------------------ MODULE AiOrders ------------------------------
(***************************************************************************)
(* Orders of AI analysis by one user for one post: requested by the user,  *)
(* approved or rejected by a moderator, executed by an administrator, who  *)
(* charges the user's wallet and stores the result.                        *)
(*                                                                         *)
(* Every operation checks the record it loaded and saves it later.  The    *)
(* execution saves inside a transaction, but what it checks, the status of *)
(* the order and the cached balance, it has read before.                   *)
(***************************************************************************)
EXTENDS Wallet

CONSTANTS
    Orders,  \* rows of ai_analysis_orders
    None,    \* a worker without an order; a post without a result
    Cost     \* tokens an order requires

ASSUME OrdersAssumption == None \notin Orders /\ Nothing \notin Orders /\ Nothing # None
ASSUME CostAssumption == Cost \in Nat \ {0}

VARIABLES
    order,     \* status of each order, "none" before it is created
    charges,   \* token_transactions rows that charge each order
    cooldown,  \* a cooldown_until of the post lies ahead
    result,    \* order the stored result of the post comes from, or None
    insight,   \* result cached for the post's page, or Nothing
    doubt,     \* history: it was read while an execution replaced the result
    panel,     \* a page that shows the result: [step, seen, overlap]
    lock,      \* worker whose transaction locks each order's row, or Nobody
    req        \* [op, step, order, was, seen, missed] of each worker: was is the
               \* status of the order as loaded; missed is history, what others
               \* added after the worker had looked for it

rows == <<order, charges, cooldown, result>>
insights == <<insight, doubt, panel>>
orders == <<rows, insights, lock, req>>
vars == <<wallet, orders>>

Statuses == {"none", "pending", "approved", "rejected", "completed"}
Operations == {"none", "request", "approve", "reject", "execute"}
Steps == {"idle", "pending", "cooldown", "create", "save",
          "balance", "query", "put", "begin", "debit", "forget", "result", "commit"}
Resting == [op |-> "none", step |-> "idle", order |-> None, was |-> "none", seen |-> 0,
            missed |-> {}]

Idle(w) == req[w].step = "idle"
At(w, step) == req[w].step = step
Go(w, step) == req' = [req EXCEPT ![w].step = step]
Finish(w) == req' = [req EXCEPT ![w] = Resting]
Begin(w, op, step, o) ==
    /\ Idle(w)
    /\ req' = [req EXCEPT ![w] = [op |-> op, step |-> step, order |-> o,
                                  was |-> IF o = None THEN "none" ELSE order[o],
                                  seen |-> 0, missed |-> {}]]
    /\ UNCHANGED <<wallet, rows, insights, lock>>

\* The worker ends with a change that the others, at those steps, looked for in vain.
FinishUnseen(w, steps, change) ==
    req' = [v \in Workers |-> IF v = w THEN Resting
                             ELSE IF req[v].step \in steps
                             THEN [req[v] EXCEPT !.missed = @ \cup {change}]
                             ELSE req[v]]

-----------------------------------------------------------------------------
(* AiAnalysisOrderService::request *)

Request(w) == Begin(w, "request", "pending", None)

\* Mutant: the pending order is looked up and not heeded.
FindPendingMutant(w) ==
    /\ At(w, "pending")
    /\ Go(w, "cooldown")
    /\ UNCHANGED <<wallet, rows, insights, lock>>

FindPending(w) ==
    /\ At(w, "pending")
    /\ IF \E o \in Orders : order[o] = "pending" THEN Finish(w) ELSE Go(w, "cooldown")
    /\ UNCHANGED <<wallet, rows, insights, lock>>

\* Mutant: the cooldown is looked up and not heeded.
FindCooldownMutant(w) ==
    /\ At(w, "cooldown")
    /\ Go(w, "create")
    /\ UNCHANGED <<wallet, rows, insights, lock>>

FindCooldown(w) ==
    /\ At(w, "cooldown")
    /\ IF cooldown THEN Finish(w) ELSE Go(w, "create")
    /\ UNCHANGED <<wallet, rows, insights, lock>>

Create(w, o) ==
    /\ At(w, "create")
    /\ order[o] = "none"
    /\ order' = [order EXCEPT ![o] = "pending"]
    /\ FinishUnseen(w, {"cooldown", "create"}, "order")
    /\ UNCHANGED <<wallet, charges, cooldown, result, insights, lock>>

-----------------------------------------------------------------------------
(* What the panel's table may do with an order it loaded *)

\* Mutant: any order that exists will do.
AllowedMutant(op, status) == status # "none"

\* assertStatus: an action acts on the record as it was loaded.
Allowed(op, status) == status = IF op = "execute" THEN "approved" ELSE "pending"

-----------------------------------------------------------------------------
(* approve, reject *)

Moderate(w, op, o) == Allowed(op, order[o]) /\ Begin(w, op, "save", o)

Verdict(op) == IF op = "approve" THEN "approved" ELSE "rejected"

\* updateStatus waits for the row lock and never looks at the row again.
Save(w) ==
    /\ At(w, "save")
    /\ lock[req[w].order] = Nobody
    /\ order' = [order EXCEPT ![req[w].order] = Verdict(req[w].op)]
    /\ Finish(w)
    /\ UNCHANGED <<wallet, charges, cooldown, result, insights, lock>>

-----------------------------------------------------------------------------
(* execute *)

Execute(w, o) == Allowed("execute", order[o]) /\ Begin(w, "execute", "balance", o)

\* Mutant: a balance from the cache is not compared.
EnoughMutant(seen) == TRUE

\* ensureSufficientBalance
Enough(seen) == seen >= Cost

Check(w, seen) ==
    IF Enough(seen) THEN req' = [req EXCEPT ![w].step = "begin", ![w].seen = seen] ELSE Finish(w)

\* getBalance
LookupBalance(w) ==
    /\ At(w, "balance")
    /\ IF cached = Nothing THEN Go(w, "query") ELSE Check(w, cached)
    /\ UNCHANGED <<wallet, rows, insights, lock>>

QueryBalance(w) ==
    /\ At(w, "query")
    /\ req' = [req EXCEPT ![w].step = "put", ![w].seen = balance]
    /\ UNCHANGED <<wallet, rows, insights, lock>>

PutBalance(w) ==
    /\ At(w, "put")
    /\ cached' = req[w].seen
    /\ Check(w, req[w].seen)
    /\ UNCHANGED <<row, visitors, crashes, rows, insights, lock>>

\* The transaction opens with the save of the status "executing", which no
\* other connection sees: it locks the order's row.
LockOrder(w) ==
    /\ At(w, "begin")
    /\ lock[req[w].order] = Nobody
    /\ lock' = [lock EXCEPT ![req[w].order] = w]
    /\ Go(w, "debit")
    /\ UNCHANGED <<wallet, rows, insights>>

Debit(w) ==
    /\ At(w, "debit")
    /\ Move(w, -Cost)
    /\ Go(w, "forget")
    /\ UNCHANGED <<cached, visitors, crashes, rows, insights, lock>>

ForgetBalance(w) ==
    /\ At(w, "forget")
    /\ cached' = Nothing
    /\ Go(w, "result")
    /\ UNCHANGED <<row, visitors, crashes, rows, insights, lock>>

\* Mutant: the cached result is not forgotten.
UpsertResultMutant(w) ==
    /\ At(w, "result")
    /\ panel' = [panel EXCEPT !.overlap = panel.step = "put"]
    /\ Go(w, "commit")
    /\ UNCHANGED <<wallet, rows, insight, doubt, lock>>

\* upsertForPost: the row is not visible yet, the cached result is gone already.
UpsertResult(w) ==
    /\ At(w, "result")
    /\ insight' = Nothing /\ doubt' = FALSE
    /\ panel' = [panel EXCEPT !.overlap = panel.step = "put"]
    /\ Go(w, "commit")
    /\ UNCHANGED <<wallet, rows, lock>>

\* Mutant: the debit is rolled back on its own and the order completed.
ChargelessMutant(w) ==
    /\ At(w, "commit")
    /\ Rollback(w)
    /\ LET o == req[w].order
       IN  /\ order' = [order EXCEPT ![o] = "completed"]
           /\ result' = o
           /\ lock' = [lock EXCEPT ![o] = Nobody]
    /\ cooldown' = TRUE
    /\ Finish(w)
    /\ UNCHANGED <<cached, visitors, crashes, charges, insights>>

\* markExecuted and COMMIT
Commit(w) ==
    /\ At(w, "commit")
    /\ CommitMove(w)
    /\ LET o == req[w].order
       IN  /\ order' = [order EXCEPT ![o] = "completed"]
           /\ charges' = [charges EXCEPT ![o] = @ + 1]
           /\ result' = o
           /\ lock' = [lock EXCEPT ![o] = Nobody]
    /\ cooldown' = TRUE
    /\ FinishUnseen(w, {"create"}, "cooldown")
    /\ UNCHANGED <<cached, visitors, crashes, insights>>

Crash(w) ==
    /\ ~Idle(w) /\ crashes < MaxCrashes
    /\ crashes' = crashes + 1
    /\ Rollback(w)
    /\ lock' = [o \in Orders |-> IF lock[o] = w THEN Nobody ELSE lock[o]]
    /\ Finish(w)
    /\ UNCHANGED <<cached, visitors, rows, insights>>

-----------------------------------------------------------------------------
(* The post's page: AiToolResultRepository::getCompletedForPost *)

PanelMisses ==
    /\ panel.step = "idle" /\ insight = Nothing
    /\ panel' = [panel EXCEPT !.step = "query"]
    /\ UNCHANGED <<wallet, rows, insight, doubt, lock, req>>

PanelQueries ==
    /\ panel.step = "query"
    /\ panel' = [step |-> "put", seen |-> result, overlap |-> \E w \in Workers : At(w, "commit")]
    /\ UNCHANGED <<wallet, rows, insight, doubt, lock, req>>

PanelPuts ==
    /\ panel.step = "put"
    /\ insight' = panel.seen /\ doubt' = panel.overlap
    /\ panel' = [step |-> "idle", seen |-> None, overlap |-> FALSE]
    /\ UNCHANGED <<wallet, rows, lock, req>>

InsightExpires ==
    /\ insight # Nothing
    /\ insight' = Nothing /\ doubt' = FALSE
    /\ UNCHANGED <<wallet, rows, panel, lock, req>>

\* cooldown_until is reached.
CooldownEnds ==
    /\ cooldown
    /\ cooldown' = FALSE
    /\ UNCHANGED <<wallet, order, charges, result, insights, lock, req>>

-----------------------------------------------------------------------------

Init ==
    /\ WalletInit
    /\ order = [o \in Orders |-> "none"]
    /\ charges = [o \in Orders |-> 0]
    /\ cooldown = FALSE /\ result = None
    /\ insight = Nothing /\ doubt = FALSE
    /\ panel = [step |-> "idle", seen |-> None, overlap |-> FALSE]
    /\ lock = [o \in Orders |-> Nobody]
    /\ req = [w \in Workers |-> Resting]

Proceed(w) ==
    \/ FindPending(w) \/ FindCooldown(w)
    \/ \E o \in Orders : Create(w, o)
    \/ Save(w)
    \/ LookupBalance(w) \/ QueryBalance(w) \/ PutBalance(w)
    \/ LockOrder(w) \/ Debit(w) \/ ForgetBalance(w) \/ UpsertResult(w) \/ Commit(w)

Arrive(w) ==
    \/ Request(w)
    \/ \E o \in Orders : Execute(w, o) \/ \E op \in {"approve", "reject"} : Moderate(w, op, o)

Next ==
    \/ \E w \in Workers : Arrive(w) \/ Proceed(w) \/ Crash(w)
    \/ PanelMisses \/ PanelQueries \/ PanelPuts \/ InsightExpires
    \/ CooldownEnds
    \/ WalletNext /\ UNCHANGED orders

Spec == Init /\ [][Next]_vars

-----------------------------------------------------------------------------
(* Properties *)

Requests == [op: Operations, step: Steps, order: Orders \cup {None}, was: Statuses, seen: Int,
             missed: SUBSET {"order", "cooldown"}]
Panels == [step: {"idle", "query", "put"}, seen: Orders \cup {None}, overlap: BOOLEAN]

TypeOK ==
    /\ WalletTypeOK
    /\ order \in [Orders -> Statuses]
    /\ charges \in [Orders -> Nat]
    /\ cooldown \in BOOLEAN
    /\ result \in Orders \cup {None}
    /\ insight \in Orders \cup {None, Nothing}
    /\ doubt \in BOOLEAN
    /\ panel \in Panels
    /\ lock \in [Orders -> Workers \cup {Nobody}]
    /\ req \in [Workers -> Requests]

\* A completed order has been paid for and the post shows a result, whatever
\* was killed in between.
CompletedIsCharged ==
    \A o \in Orders : order[o] = "completed" => charges[o] > 0 /\ result # None

\* A completed or rejected order changes again, or is charged again, only through
\* a record that was loaded before the order was final: another request decided
\* on it in between, and the save does not look.
Final == {"completed", "rejected"}
ActsOnStaleRecord(w, o) ==
    /\ req[w].order = o
    /\ At(w, "save") \/ At(w, "commit")
    /\ req[w].was \notin Final
FinalOnlyByStaleRecord ==
    [][ \A o \in Orders :
          order[o] \in Final /\ (order'[o] # order[o] \/ charges'[o] # charges[o])
            => \E w \in Workers : ActsOnStaleRecord(w, o) ]_vars

\* The balance falls below zero only through an execution that compared the
\* price with a balance that was no longer the wallet's.
OverdraftOnlyByStaleBalance ==
    [][ balance >= 0 /\ balance' < 0
          => \E w \in Workers : At(w, "commit") /\ req[w].seen # balance ]_vars

\* A user has a second pending order for the post only when the order that was
\* there is one another request created after this one had looked for it.
SecondPendingOnlyByOverlap ==
    [][ \A o, p \in Orders :
          order[o] = "pending" /\ order[p] # "pending" /\ order'[p] = "pending"
            => \E w \in Workers : At(w, "create") /\ "order" \in req[w].missed ]_vars

\* An order is placed in a cooldown only when the execution that opened the
\* cooldown committed after the request had looked for it.
CooldownMissedOnlyByOverlap ==
    [][ \A o \in Orders :
          cooldown /\ order[o] = "none" /\ order'[o] # "none"
            => \E w \in Workers : At(w, "create") /\ "cooldown" \in req[w].missed ]_vars

\* The post's page shows an older result than the stored one only when it was read
\* while an execution had forgotten the cached one and had not yet committed, or
\* when that began before what was read was cached.
StaleInsightOnlyByOverlap == insight \notin {Nothing, result} => doubt
=============================================================================
