--------------------------- MODULE AiOrdersProofs ---------------------------
(***************************************************************************)
(* Theorems about AiOrders.  The inductive invariant adds to what the runs *)
(* check what an execution under way holds: the row locks of its order and *)
(* of the wallet, a balance that looked sufficient when it was read, and a *)
(* record that was not final when it was loaded.                           *)
(***************************************************************************)
EXTENDS AiOrders, TLAPS

-----------------------------------------------------------------------------
(* What the steps of the wallet keep *)

\* The balance is typed and explained: what every step of the wallet keeps.
WalletInv == WalletTypeOK /\ LedgerExplainsBalance

\* The wallet of a new behaviour is explained by its Funds.
LEMMA WalletStarts == WalletInit => WalletInv
  BY FundsAssumption, BoundsAssumption
     DEF WalletInit, WalletInv, WalletTypeOK, LedgerExplainsBalance, Unexplained, Clerk

\* Steps that leave the wallet alone.
LEMMA WalletStutters == WalletInv /\ UNCHANGED wallet => WalletInv'
  BY DEF wallet, row, visitors, WalletInv, WalletTypeOK, LedgerExplainsBalance, Unexplained

\* An uncommitted increment or decrement changes nothing others see.
LEMMA MoveKeeps ==
  ASSUME NEW w \in Workers, NEW amount \in Int, WalletInv, Move(w, amount),
         UNCHANGED <<cached, visitors, crashes>>
  PROVE  WalletInv'
  BY DEF Move, visitors, WalletInv, WalletTypeOK, LedgerExplainsBalance, Unexplained

\* A commit raises the balance and its explanation together.
LEMMA CommitKeeps ==
  ASSUME NEW w \in Workers, WalletInv, CommitMove(w), UNCHANGED <<cached, visitors, crashes>>
  PROVE  WalletInv'
  <1> DEFINE owed == Grant * Unexplained
  <1>1. owed' = owed
    BY DEF visitors, Unexplained
  <1>2. owed \in Int
    BY FundsAssumption DEF WalletInv, WalletTypeOK, Unexplained
  <1>3. WalletTypeOK'
    BY DEF CommitMove, visitors, WalletInv, WalletTypeOK
  <1>4. balance' = ledger' + owed'
    <2> HIDE DEF owed
    <2>1. balance = ledger + owed
      BY DEF WalletInv, LedgerExplainsBalance, owed
    <2> QED
      BY <1>1, <1>2, <2>1 DEF CommitMove, WalletInv, WalletTypeOK
  <1> QED
    BY <1>3, <1>4 DEF WalletInv, LedgerExplainsBalance

\* A transaction that is undone leaves the wallet as it was.
LEMMA RollbackKeeps ==
  ASSUME NEW w \in Workers, WalletInv, Rollback(w), UNCHANGED <<cached, visitors>>,
         crashes < MaxCrashes, crashes' = crashes + 1
  PROVE  WalletInv'
  BY BoundsAssumption
     DEF Rollback, visitors, WalletInv, WalletTypeOK, LedgerExplainsBalance, Unexplained

\* The cache is filled or forgotten; no token moves.
LEMMA CacheKeeps ==
  ASSUME WalletInv, cached' \in Int \cup {Nothing}, UNCHANGED <<row, visitors, crashes>>
  PROVE  WalletInv'
  BY DEF row, visitors, WalletInv, WalletTypeOK, LedgerExplainsBalance, Unexplained

\* The pages that show the balance and the administrator's grants.
LEMMA WalletNextKeeps == ASSUME WalletInv, WalletNext PROVE WalletInv'
  <1> USE DEF WalletInv
  <1>1. CASE PageMisses \/ PageQueries \/ PagePuts \/ BalanceExpires
    BY <1>1 DEF PageMisses, PageQueries, PagePuts, BalanceExpires, row, visitors,
                WalletTypeOK, LedgerExplainsBalance, Unexplained
  <1>2. CASE GrantCredits \/ GrantForgets \/ GrantRecords \/ GrantDies
    <2>1. WalletTypeOK'
      BY <1>2, FundsAssumption, BoundsAssumption
         DEF GrantCredits, GrantForgets, GrantRecords, GrantDies, row, WalletTypeOK, Clerk
    <2> DEFINE n == Unexplained
    <2>2. n \in Int /\ n' \in Int
      BY <2>1 DEF WalletTypeOK, Unexplained
    <2>3. /\ GrantCredits => n' = n + 1 /\ balance' = balance + Grant /\ ledger' = ledger
          /\ GrantForgets \/ GrantDies => n' = n /\ balance' = balance /\ ledger' = ledger
          /\ GrantRecords => n' = n - 1 /\ balance' = balance /\ ledger' = ledger + Grant
      BY DEF GrantCredits, GrantForgets, GrantRecords, GrantDies, row, WalletTypeOK, Unexplained
    <2>4. balance = ledger + Grant * n
      BY DEF LedgerExplainsBalance
    <2>5. balance' = ledger' + Grant * n'
      <3> HIDE DEF n
      <3>1. /\ balance \in Int /\ ledger \in Int /\ Grant \in Int
        BY FundsAssumption DEF WalletTypeOK
      <3>2. /\ Grant * (n + 1) = Grant * n + Grant
            /\ Grant * (n - 1) = Grant * n - Grant
            /\ Grant * n \in Int
        BY <2>2, <3>1
      <3>3. CASE n' = n + 1 /\ balance' = balance + Grant /\ ledger' = ledger
        BY <3>1, <3>2, <3>3, <2>4
      <3>4. CASE n' = n /\ balance' = balance /\ ledger' = ledger
        BY <3>4, <2>4
      <3>5. CASE n' = n - 1 /\ balance' = balance /\ ledger' = ledger + Grant
        BY <3>1, <3>2, <3>5, <2>4
      <3> QED
        BY <1>2, <2>3, <3>3, <3>4, <3>5
    <2> QED
      BY <2>1, <2>5 DEF LedgerExplainsBalance
  <1> QED
    BY <1>1, <1>2 DEF WalletNext

-----------------------------------------------------------------------------
(* Requests and orders *)

WithOrder == {"save", "balance", "query", "put", "begin", "debit", "forget", "result", "commit"}
Executing == {"debit", "forget", "result", "commit"}
Debited == {"forget", "result", "commit"}

\* What a request knows and holds at each of its steps.
RequestsOK ==
    \A w \in Workers :
        /\ req[w].step \in WithOrder =>
              /\ req[w].order \in Orders
              /\ order[req[w].order] # "none"
              /\ req[w].was \notin Final
        /\ req[w].step \in Executing => lock[req[w].order] = w
        /\ req[w].step \in Executing \cup {"begin"} => req[w].seen >= Cost

\* An execution that has debited the wallet holds its row.
DebitsAreHeld ==
    \A w \in Workers : req[w].step \in Debited => holder = w /\ draft = -Cost

\* The types of everything but the wallet.
OrderTypes ==
    /\ order \in [Orders -> Statuses]
    /\ charges \in [Orders -> Nat]
    /\ cooldown \in BOOLEAN
    /\ result \in Orders \cup {None}
    /\ insight \in Orders \cup {None, Nothing}
    /\ doubt \in BOOLEAN
    /\ panel \in Panels
    /\ lock \in [Orders -> Workers \cup {Nobody}]
    /\ req \in [Workers -> Requests]

IInv ==
    /\ TypeOK
    /\ LedgerExplainsBalance
    /\ RequestsOK
    /\ DebitsAreHeld
    /\ CompletedIsCharged

LEMMA Start == Init => IInv
  <1> SUFFICES ASSUME Init PROVE IInv
    OBVIOUS
  <1>1. WalletInv
    BY WalletStarts DEF Init
  <1>2. OrderTypes
    <2>1. req \in [Workers -> Requests]
      BY DEF Init, Requests, Operations, Steps, Statuses, Resting
    <2>2. panel \in Panels
      BY DEF Init, Panels
    <2>3. order \in [Orders -> Statuses] /\ charges \in [Orders -> Nat]
          /\ lock \in [Orders -> Workers \cup {Nobody}]
      BY DEF Init, Statuses
    <2> QED
      BY <2>1, <2>2, <2>3 DEF Init, OrderTypes
  <1>3. RequestsOK /\ DebitsAreHeld /\ CompletedIsCharged
    BY DEF Init, Resting, RequestsOK, DebitsAreHeld, CompletedIsCharged, WithOrder, Executing,
           Debited
  <1> QED
    BY <1>1, <1>2, <1>3 DEF IInv, WalletInv, TypeOK, OrderTypes

\* Whatever a step does, the wallet stays typed and explained.
LEMMA WalletStep == ASSUME IInv, [Next]_vars PROVE WalletInv'
  <1> USE DEF IInv, TypeOK, WalletInv
  <1>1. CASE UNCHANGED wallet
    BY <1>1, WalletStutters
  <1>2. ASSUME NEW w \in Workers, Debit(w) PROVE WalletInv'
    <2>1. Move(w, -Cost) /\ -Cost \in Int /\ UNCHANGED <<cached, visitors, crashes>>
      BY <1>2, CostAssumption DEF Debit
    <2> QED
      BY <2>1, MoveKeeps
  <1>3. ASSUME NEW w \in Workers, PutBalance(w) \/ ForgetBalance(w) PROVE WalletInv'
    <2>1. cached' \in Int \cup {Nothing} /\ UNCHANGED <<row, visitors, crashes>>
      BY <1>3 DEF PutBalance, ForgetBalance, Requests
    <2> QED
      BY <2>1, CacheKeeps
  <1>4. ASSUME NEW w \in Workers, Commit(w) PROVE WalletInv'
    BY <1>4, CommitKeeps DEF Commit
  <1>5. ASSUME NEW w \in Workers, Crash(w) PROVE WalletInv'
    <2>1. Rollback(w) /\ UNCHANGED <<cached, visitors>>
      BY <1>5 DEF Crash
    <2>2. crashes < MaxCrashes /\ crashes' = crashes + 1
      BY <1>5 DEF Crash
    <2> QED
      BY <2>1, <2>2, RollbackKeeps
  <1>6. CASE WalletNext
    BY <1>6, WalletNextKeeps
  <1>7. ASSUME NEW w \in Workers, Arrive(w) \/ Proceed(w) PROVE WalletInv'
    BY <1>1, <1>2, <1>3, <1>4, <1>7
       DEF Arrive, Request, Execute, Moderate, Begin, Proceed, FindPending, FindCooldown,
           Create, Save, LookupBalance, QueryBalance, LockOrder, UpsertResult
  <1> QED
    BY <1>1, <1>5, <1>6, <1>7
       DEF Next, vars, PanelMisses, PanelQueries, PanelPuts, InsightExpires, CooldownEnds

\* The page's record after any change of a field.
LEMMA PanelsClosed ==
  ASSUME panel \in Panels
  PROVE  /\ panel.overlap \in BOOLEAN /\ panel.seen \in Orders \cup {None}
         /\ [panel EXCEPT !.step = "query"] \in Panels
         /\ [panel EXCEPT !.overlap = (panel.step = "put")] \in Panels
  <1> DEFINE b == panel.step = "put"
  <1>1. b \in BOOLEAN
    OBVIOUS
  <1> HIDE DEF b
  <1>2. [panel EXCEPT !.overlap = b] \in Panels
    BY <1>1 DEF Panels
  <1> QED
    BY <1>2 DEF Panels, b

\* The page's record at rest, and after a query.
LEMMA PanelAtRest == [step |-> "idle", seen |-> None, overlap |-> FALSE] \in Panels
  BY DEF Panels

\* What a query hands to the cache is the stored result.
LEMMA PanelQueried ==
  ASSUME result \in Orders \cup {None}, PanelQueries PROVE panel' \in Panels
  <1> DEFINE b == \E w \in Workers : At(w, "commit")
  <1>1. panel' = [step |-> "put", seen |-> result, overlap |-> b]
    BY Zenon DEF PanelQueries
  <1>2. b \in BOOLEAN
    OBVIOUS
  <1> HIDE DEF b
  <1> QED
    BY <1>1, <1>2 DEF Panels

\* Steps keep the types.
LEMMA TypesStep ==
  ASSUME OrderTypes, RequestsOK, WalletTypeOK, [Next]_vars
  PROVE  OrderTypes'
  <1> USE DEF OrderTypes, Statuses, Requests, Operations, Steps, Resting, Idle, At, Go, Finish, FinishUnseen, Allowed, Final, RequestsOK, WalletTypeOK, WithOrder, Executing
  <1>1. CASE UNCHANGED <<rows, insights, lock, req>>
    BY <1>1 DEF rows, insights
  <1>2. ASSUME NEW w \in Workers, Arrive(w) PROVE OrderTypes'
    BY <1>2 DEF Arrive, Request, Execute, Moderate, Begin, rows, insights
  <1>3. ASSUME NEW w \in Workers, NEW o \in Orders, Create(w, o) PROVE OrderTypes'
    BY <1>3 DEF Create, insights
  <1>4. ASSUME NEW w \in Workers, FindPending(w) PROVE OrderTypes'
    BY <1>4 DEF FindPending, rows, insights
  <1>5. ASSUME NEW w \in Workers, FindCooldown(w) PROVE OrderTypes'
    BY <1>5 DEF FindCooldown, rows, insights
  <1>6. ASSUME NEW w \in Workers, Save(w) PROVE OrderTypes'
    BY <1>6 DEF Save, Verdict, rows, insights
  <1>7. ASSUME NEW w \in Workers, LookupBalance(w) PROVE OrderTypes'
    BY <1>7 DEF LookupBalance, Check, rows, insights
  <1>8. ASSUME NEW w \in Workers, QueryBalance(w) PROVE OrderTypes'
    <2>1. /\ req' = [req EXCEPT ![w].step = "put", ![w].seen = balance]
          /\ UNCHANGED <<rows, insights, lock>>
      BY <1>8 DEF QueryBalance
    <2>2. balance \in Int
      BY DEF WalletTypeOK
    <2>3. req' \in [Workers -> Requests]
      <3> HIDE DEF WalletTypeOK, RequestsOK
      <3>1. [req[w] EXCEPT !.step = "put", !.seen = balance] \in Requests
        BY <2>2
      <3> QED
        BY <2>1, <3>1
    <2> QED
      BY <2>1, <2>3 DEF rows, insights
  <1>9. ASSUME NEW w \in Workers, PutBalance(w) PROVE OrderTypes'
    BY <1>9 DEF PutBalance, Check, rows, insights
  <1>10. ASSUME NEW w \in Workers, LockOrder(w) PROVE OrderTypes'
    BY <1>10 DEF LockOrder, rows, insights
  <1>11. ASSUME NEW w \in Workers, Debit(w) PROVE OrderTypes'
    BY <1>11 DEF Debit, rows, insights
  <1>12. ASSUME NEW w \in Workers, ForgetBalance(w) PROVE OrderTypes'
    BY <1>12 DEF ForgetBalance, rows, insights
  <1>13. ASSUME NEW w \in Workers, UpsertResult(w) PROVE OrderTypes'
    <2>1. panel' \in Panels
      BY <1>13, PanelsClosed DEF UpsertResult
    <2>2. UNCHANGED <<order, charges, cooldown, result, lock>>
      BY <1>13 DEF UpsertResult, rows
    <2>4. insight' \in Orders \cup {None, Nothing} /\ doubt' \in BOOLEAN
      BY <1>13, Zenon DEF UpsertResult
    <2>3. req' \in [Workers -> Requests]
      BY <1>13 DEF UpsertResult
    <2> QED
      BY <2>1, <2>2, <2>3, <2>4, Zenon
  <1>14. ASSUME NEW w \in Workers, Commit(w) PROVE OrderTypes'
    BY <1>14 DEF Commit, rows, insights
  <1>15. ASSUME NEW w \in Workers, Crash(w) PROVE OrderTypes'
    BY <1>15 DEF Crash, rows, insights
  <1>16. CASE PanelMisses \/ PanelQueries \/ PanelPuts \/ InsightExpires \/ CooldownEnds
    <2>1. /\ UNCHANGED <<order, charges, result, lock, req>>
          /\ cooldown' \in BOOLEAN
          /\ insight' \in {insight, panel.seen, Nothing}
          /\ doubt' \in {doubt, panel.overlap, FALSE}
          /\ \/ panel' = panel
             \/ panel' = [panel EXCEPT !.step = "query"]
             \/ PanelQueries
             \/ panel' = [step |-> "idle", seen |-> None, overlap |-> FALSE]
      BY <1>16 DEF PanelMisses, PanelQueries, PanelPuts, InsightExpires, CooldownEnds, rows, insights
    <2>2. panel' \in Panels /\ panel.overlap \in BOOLEAN /\ panel.seen \in Orders \cup {None}
      <3>1. CASE panel' = panel \/ panel' = [panel EXCEPT !.step = "query"]
        BY <3>1, PanelsClosed
      <3>2. CASE panel' = [step |-> "idle", seen |-> None, overlap |-> FALSE]
        BY <3>2, PanelAtRest, PanelsClosed
      <3>3. CASE PanelQueries
        <4>1. result \in Orders \cup {None}
          OBVIOUS
        <4> QED
          BY <3>3, <4>1, PanelQueried, PanelsClosed
      <3> QED
        BY <2>1, <3>1, <3>2, <3>3
    <2>3. insight' \in Orders \cup {None, Nothing} /\ doubt' \in BOOLEAN
      BY <2>1, <2>2
    <2> QED
      BY <2>1, <2>2, <2>3
  <1> QED
    BY <1>1, <1>2, <1>3, <1>4, <1>5, <1>6, <1>7, <1>8, <1>9, <1>10, <1>11, <1>12, <1>13, <1>14, <1>15, <1>16
       DEF Next, Proceed, vars, orders

\* A request keeps its order, its lock and a sufficient balance to its end.
LEMMA RequestsStep ==
  ASSUME OrderTypes, RequestsOK, WalletTypeOK, [Next]_vars
  PROVE  RequestsOK'
  <1> USE WorkersAssumption, CostAssumption DEF OrderTypes, Statuses, Requests, Operations, Steps, Resting, Idle, At, Go, Finish, FinishUnseen, Allowed, Final, RequestsOK, WalletTypeOK, WithOrder, Executing, Enough
  <1>1. CASE UNCHANGED <<rows, insights, lock, req>>
    BY <1>1 DEF rows, insights
  <1>2. ASSUME NEW w \in Workers, Arrive(w) PROVE RequestsOK'
    BY <1>2 DEF Arrive, Request, Execute, Moderate, Begin, rows, insights
  <1>3. ASSUME NEW w \in Workers, NEW o \in Orders, Create(w, o) PROVE RequestsOK'
    BY <1>3 DEF Create, insights
  <1>4. ASSUME NEW w \in Workers, FindPending(w) PROVE RequestsOK'
    BY <1>4 DEF FindPending, rows, insights
  <1>5. ASSUME NEW w \in Workers, FindCooldown(w) PROVE RequestsOK'
    BY <1>5 DEF FindCooldown, rows, insights
  <1>6. ASSUME NEW w \in Workers, Save(w) PROVE RequestsOK'
    BY <1>6 DEF Save, Verdict, rows, insights
  <1>7. ASSUME NEW w \in Workers, LookupBalance(w) PROVE RequestsOK'
    BY <1>7 DEF LookupBalance, Check, rows, insights
  <1>8. ASSUME NEW w \in Workers, QueryBalance(w) PROVE RequestsOK'
    BY <1>8 DEF QueryBalance, rows, insights
  <1>9. ASSUME NEW w \in Workers, PutBalance(w) PROVE RequestsOK'
    BY <1>9 DEF PutBalance, Check, rows, insights
  <1>10. ASSUME NEW w \in Workers, LockOrder(w) PROVE RequestsOK'
    BY <1>10 DEF LockOrder, rows, insights
  <1>11. ASSUME NEW w \in Workers, Debit(w) PROVE RequestsOK'
    BY <1>11 DEF Debit, rows, insights
  <1>12. ASSUME NEW w \in Workers, ForgetBalance(w) PROVE RequestsOK'
    BY <1>12 DEF ForgetBalance, rows, insights
  <1>13. ASSUME NEW w \in Workers, UpsertResult(w) PROVE RequestsOK'
    BY <1>13 DEF UpsertResult, rows, insights
  <1>14. ASSUME NEW w \in Workers, Commit(w) PROVE RequestsOK'
    BY <1>14 DEF Commit, rows, insights
  <1>15. ASSUME NEW w \in Workers, Crash(w) PROVE RequestsOK'
    BY <1>15 DEF Crash, rows, insights
  <1>16. CASE PanelMisses \/ PanelQueries \/ PanelPuts \/ InsightExpires \/ CooldownEnds
    BY <1>16 DEF PanelMisses, PanelQueries, PanelPuts, InsightExpires, CooldownEnds, rows, insights
  <1> QED
    BY <1>1, <1>2, <1>3, <1>4, <1>5, <1>6, <1>7, <1>8, <1>9, <1>10, <1>11, <1>12, <1>13, <1>14, <1>15, <1>16
       DEF Next, Proceed, vars, orders

\* A completed order keeps its charge and the post its result.
LEMMA ChargesStep ==
  ASSUME OrderTypes, RequestsOK, CompletedIsCharged, [Next]_vars
  PROVE  CompletedIsCharged'
  <1> USE OrdersAssumption DEF OrderTypes, Statuses, Requests, Operations, Steps, Resting, Idle, At, Go, Finish, FinishUnseen, Allowed, Final, RequestsOK, CompletedIsCharged, WithOrder
  <1>1. CASE UNCHANGED <<rows, insights, lock, req>>
    BY <1>1 DEF rows, insights
  <1>2. ASSUME NEW w \in Workers, Arrive(w) PROVE CompletedIsCharged'
    BY <1>2 DEF Arrive, Request, Execute, Moderate, Begin, rows, insights
  <1>3. ASSUME NEW w \in Workers, NEW o \in Orders, Create(w, o) PROVE CompletedIsCharged'
    BY <1>3 DEF Create, insights
  <1>4. ASSUME NEW w \in Workers, FindPending(w) PROVE CompletedIsCharged'
    BY <1>4 DEF FindPending, rows, insights
  <1>5. ASSUME NEW w \in Workers, FindCooldown(w) PROVE CompletedIsCharged'
    BY <1>5 DEF FindCooldown, rows, insights
  <1>6. ASSUME NEW w \in Workers, Save(w) PROVE CompletedIsCharged'
    BY <1>6 DEF Save, Verdict, rows, insights
  <1>7. ASSUME NEW w \in Workers, LookupBalance(w) PROVE CompletedIsCharged'
    BY <1>7 DEF LookupBalance, Check, rows, insights
  <1>8. ASSUME NEW w \in Workers, QueryBalance(w) PROVE CompletedIsCharged'
    BY <1>8 DEF QueryBalance, rows, insights
  <1>9. ASSUME NEW w \in Workers, PutBalance(w) PROVE CompletedIsCharged'
    BY <1>9 DEF PutBalance, Check, rows, insights
  <1>10. ASSUME NEW w \in Workers, LockOrder(w) PROVE CompletedIsCharged'
    BY <1>10 DEF LockOrder, rows, insights
  <1>11. ASSUME NEW w \in Workers, Debit(w) PROVE CompletedIsCharged'
    BY <1>11 DEF Debit, rows, insights
  <1>12. ASSUME NEW w \in Workers, ForgetBalance(w) PROVE CompletedIsCharged'
    BY <1>12 DEF ForgetBalance, rows, insights
  <1>13. ASSUME NEW w \in Workers, UpsertResult(w) PROVE CompletedIsCharged'
    BY <1>13 DEF UpsertResult, rows, insights
  <1>14. ASSUME NEW w \in Workers, Commit(w) PROVE CompletedIsCharged'
    BY <1>14 DEF Commit, rows, insights
  <1>15. ASSUME NEW w \in Workers, Crash(w) PROVE CompletedIsCharged'
    BY <1>15 DEF Crash, rows, insights
  <1>16. CASE PanelMisses \/ PanelQueries \/ PanelPuts \/ InsightExpires \/ CooldownEnds
    BY <1>16 DEF PanelMisses, PanelQueries, PanelPuts, InsightExpires, CooldownEnds, rows, insights
  <1> QED
    BY <1>1, <1>2, <1>3, <1>4, <1>5, <1>6, <1>7, <1>8, <1>9, <1>10, <1>11, <1>12, <1>13, <1>14, <1>15, <1>16
       DEF Next, Proceed, vars, orders

\* The wallet's row stays with the execution that debited it.
LEMMA DebitsStep ==
  ASSUME OrderTypes, DebitsAreHeld, [Next]_vars
  PROVE  DebitsAreHeld'
  <1> USE WorkersAssumption
      DEF OrderTypes, Requests, Steps, DebitsAreHeld, Debited, Resting, Idle, At, Go, Finish, FinishUnseen
  <1>1. CASE UNCHANGED <<row, req>>
    BY <1>1 DEF row
  <1>2. ASSUME NEW w \in Workers, Arrive(w) PROVE DebitsAreHeld'
    BY <1>2 DEF Arrive, Request, Execute, Moderate, Begin, wallet, row
  <1>3. ASSUME NEW w \in Workers,
               \/ FindPending(w) \/ FindCooldown(w) \/ \E o \in Orders : Create(w, o)
               \/ Save(w) \/ QueryBalance(w) \/ LockOrder(w) \/ UpsertResult(w)
        PROVE  DebitsAreHeld'
    BY <1>3 DEF FindPending, FindCooldown, Create, Save, QueryBalance, LockOrder, UpsertResult,
                wallet, row
  <1>4. ASSUME NEW w \in Workers, LookupBalance(w) \/ PutBalance(w) \/ ForgetBalance(w)
        PROVE  DebitsAreHeld'
    BY <1>4 DEF LookupBalance, PutBalance, ForgetBalance, Check, wallet, row
  <1>5. ASSUME NEW w \in Workers, Debit(w) PROVE DebitsAreHeld'
    BY <1>5 DEF Debit, Move
  <1>6. ASSUME NEW w \in Workers, Commit(w) PROVE DebitsAreHeld'
    BY <1>6 DEF Commit, CommitMove
  <1>7. ASSUME NEW w \in Workers, Crash(w) PROVE DebitsAreHeld'
    BY <1>7 DEF Crash, Rollback
  <1>8. CASE WalletNext /\ UNCHANGED orders
    <2>1. holder' = holder /\ draft' = draft
      BY <1>8 DEF WalletNext, PageMisses, PageQueries, PagePuts, BalanceExpires,
                  GrantCredits, GrantForgets, GrantRecords, GrantDies, row
    <2> QED
      BY <1>8, <2>1 DEF orders
  <1>9. CASE PanelMisses \/ PanelQueries \/ PanelPuts \/ InsightExpires \/ CooldownEnds
    BY <1>1, <1>9 DEF PanelMisses, PanelQueries, PanelPuts, InsightExpires, CooldownEnds, wallet
  <1>10. CASE UNCHANGED vars
    BY <1>1, <1>10 DEF vars, wallet, orders
  <1> QED
    BY <1>2, <1>3, <1>4, <1>5, <1>6, <1>7, <1>8, <1>9, <1>10 DEF Next, Proceed

LEMMA Step == IInv /\ [Next]_vars => IInv'
  <1> SUFFICES ASSUME IInv, [Next]_vars PROVE IInv'
    OBVIOUS
  <1>1. OrderTypes /\ WalletTypeOK
    BY DEF IInv, TypeOK, OrderTypes
  <1>2. (OrderTypes /\ RequestsOK /\ DebitsAreHeld /\ CompletedIsCharged)'
    BY <1>1, TypesStep, RequestsStep, DebitsStep, ChargesStep DEF IInv
  <1>3. WalletInv'
    BY WalletStep
  <1> QED
    BY <1>2, <1>3 DEF IInv, WalletInv, TypeOK, OrderTypes

LEMMA Invariance == Spec => []IInv
  BY Start, Step, PTL DEF Spec

\* Every variable keeps its type through any overlap of requests and crashes.
THEOREM TypeCorrect == Spec => []TypeOK
  <1>1. IInv => TypeOK
    BY DEF IInv
  <1> QED
    BY <1>1, Invariance, PTL

\* For any number of workers, orders and crashes: every token taken from or given
\* to the wallet has its transaction row, but for grants on their way or killed.
THEOREM LedgerHolds == Spec => []LedgerExplainsBalance
  <1>1. IInv => LedgerExplainsBalance
    BY DEF IInv
  <1> QED
    BY <1>1, Invariance, PTL

\* No crash and no overlap leaves an order completed that was not paid for.
THEOREM CompletionIsPaid == Spec => []CompletedIsCharged
  <1>1. IInv => CompletedIsCharged
    BY DEF IInv
  <1> QED
    BY <1>1, Invariance, PTL

\* The balance goes below zero only by a balance read too early.
THEOREM OverdraftNeedsStaleBalance == Spec => OverdraftOnlyByStaleBalance
  <1> DEFINE A == balance >= 0 /\ balance' < 0
                    => \E w \in Workers : At(w, "commit") /\ req[w].seen # balance
  <1>1. IInv /\ [Next]_vars => [A]_vars
    <2> SUFFICES ASSUME IInv, Next, balance >= 0, balance' < 0
                 PROVE  \E w \in Workers : At(w, "commit") /\ req[w].seen # balance
      BY DEF vars
    <2>1. balance \in Int /\ Grant \in Nat
      BY FundsAssumption DEF IInv, TypeOK, WalletTypeOK
    <2>2. \/ balance' = balance
          \/ balance' = balance + Grant
          \/ \E w \in Workers : Commit(w)
      BY DEF Next, Arrive, Request, Execute, Moderate, Begin, Proceed, FindPending, FindCooldown,
             Create, Save, LookupBalance, QueryBalance, PutBalance, LockOrder, Debit, Move,
             ForgetBalance, UpsertResult, Crash, Rollback, PanelMisses, PanelQueries, PanelPuts,
             InsightExpires, CooldownEnds, WalletNext, PageMisses, PageQueries, PagePuts,
             BalanceExpires, GrantCredits, GrantForgets, GrantRecords, GrantDies, wallet, row
    <2>3. PICK w \in Workers : Commit(w)
      BY <2>1, <2>2
    <2>4. balance' = balance - Cost /\ At(w, "commit")
      BY <2>1, <2>3, CostAssumption
         DEF Commit, CommitMove, IInv, DebitsAreHeld, Debited, At
    <2>5. req[w].seen >= Cost
      BY <2>4 DEF IInv, RequestsOK, Executing, At
    <2>6. Cost > balance
      BY <2>1, <2>4, CostAssumption
    <2>7. req[w].seen \in Int
      BY DEF IInv, TypeOK, Requests
    <2>8. req[w].seen # balance
      BY <2>1, <2>5, <2>6, <2>7, CostAssumption
    <2> QED
      BY <2>4, <2>8
  <1> QED
    BY <1>1, Invariance, PTL DEF Spec, OverdraftOnlyByStaleBalance

\* Steps that neither create an order, nor save one, nor commit an execution.
LEMMA OtherStepsKeepOrders ==
  ASSUME [Next]_vars
  PROVE  \/ order' = order /\ charges' = charges
         \/ \E w \in Workers : Save(w) \/ Commit(w) \/ \E o \in Orders : Create(w, o)
  BY DEF Next, Arrive, Request, Execute, Moderate, Begin, Proceed, FindPending, FindCooldown,
         LookupBalance, QueryBalance, PutBalance, LockOrder, Debit, ForgetBalance,
         UpsertResult, Crash, PanelMisses, PanelQueries, PanelPuts, InsightExpires,
         CooldownEnds, rows, orders, vars

\* A completed or a rejected order stays as it is, and is not charged again, but for
\* a record that was loaded before it became final: assertStatus refuses any other.
THEOREM FinalNeedsStaleRecord == Spec => FinalOnlyByStaleRecord
  <1> DEFINE A == \A o \in Orders :
                    order[o] \in Final /\ (order'[o] # order[o] \/ charges'[o] # charges[o])
                      => \E w \in Workers : ActsOnStaleRecord(w, o)
  <1>1. IInv /\ [Next]_vars => [A]_vars
    <2> SUFFICES ASSUME IInv, [Next]_vars, NEW o \in Orders, order[o] \in Final,
                        order'[o] # order[o] \/ charges'[o] # charges[o]
                 PROVE  \E w \in Workers : ActsOnStaleRecord(w, o)
      BY DEF vars
    <2>1. OrderTypes /\ RequestsOK
      BY DEF IInv, TypeOK, OrderTypes
    <2>2. ASSUME NEW w \in Workers, NEW p \in Orders, Create(w, p) PROVE FALSE
      BY <2>1, <2>2 DEF Create, OrderTypes, Final
    <2>3. PICK w \in Workers : Save(w) \/ Commit(w)
      BY <2>2, OtherStepsKeepOrders
    <2>4. req[w].order = o
      BY <2>1, <2>3 DEF Save, Commit, OrderTypes
    <2>5. req[w].was \notin Final
      BY <2>1, <2>3 DEF RequestsOK, Save, Commit, At, WithOrder
    <2> QED
      BY <2>3, <2>4, <2>5 DEF Save, Commit, At, ActsOnStaleRecord
  <1> QED
    BY <1>1, Invariance, PTL DEF Spec, FinalOnlyByStaleRecord

\* With one worker the record an operation loaded is the row as it is.
OneAtATime == \A v, w \in Workers : v = w
ChargedOnceWhenCompleted ==
    \A o \in Orders : charges[o] = (IF order[o] = "completed" THEN 1 ELSE 0)
RecordsAreFresh ==
    \A w \in Workers :
        /\ req[w].step = "save" => order[req[w].order] = "pending"
        /\ req[w].step \in WithOrder \ {"save"} => order[req[w].order] = "approved"

\* One request after the other, killed anywhere: nobody decides on a record that has
\* changed since, and a charge is that of a completed order.
LEMMA SerialRecords ==
    ASSUME OneAtATime PROVE Spec => [](RecordsAreFresh /\ ChargedOnceWhenCompleted)
  <1> DEFINE J == RecordsAreFresh /\ ChargedOnceWhenCompleted
  <1>1. Init => J
    BY DEF Init, Resting, RecordsAreFresh, ChargedOnceWhenCompleted, WithOrder
  <1>2. ASSUME IInv, J, [Next]_vars PROVE J'
    <2>1. OrderTypes /\ RequestsOK
      BY <1>2 DEF IInv, TypeOK, OrderTypes
    <2> USE OneAtATime
        DEF OneAtATime, RecordsAreFresh, ChargedOnceWhenCompleted, OrderTypes, Requests, Steps,
            Resting, WithOrder, Idle, At, Go, Finish, FinishUnseen, Allowed
    <2>2. CASE UNCHANGED <<order, charges, req>>
      BY <1>2, <2>2
    <2>3. ASSUME NEW w \in Workers, Arrive(w) PROVE J'
      BY <1>2, <2>1, <2>3 DEF Arrive, Request, Execute, Moderate, Begin, rows
    <2>4. ASSUME NEW w \in Workers, NEW o \in Orders, Create(w, o) PROVE J'
      BY <1>2, <2>1, <2>4 DEF Create
    <2>5. ASSUME NEW w \in Workers,
                 \/ FindPending(w) \/ FindCooldown(w) \/ LookupBalance(w) \/ QueryBalance(w)
                 \/ PutBalance(w) \/ LockOrder(w) \/ Debit(w) \/ ForgetBalance(w)
                 \/ UpsertResult(w) \/ Crash(w)
          PROVE  J'
      <3>1. order' = order /\ charges' = charges
        BY <2>5 DEF FindPending, FindCooldown, LookupBalance, QueryBalance, PutBalance, LockOrder,
                    Debit, ForgetBalance, UpsertResult, Crash, rows
      <3>2. \/ req' = [req EXCEPT ![w] = Resting]
            \/ /\ req'[w].order = req[w].order
               /\ \/ req'[w].step \in {"cooldown", "create"}
                  \/ req[w].step \in WithOrder \ {"save"} /\ req'[w].step # "save"
        BY <2>1, <2>5 DEF FindPending, FindCooldown, LookupBalance, QueryBalance, PutBalance,
                    LockOrder, Debit, ForgetBalance, UpsertResult, Crash, Check
      <3> QED
        BY <1>2, <2>1, <3>1, <3>2
    <2>6. ASSUME NEW w \in Workers, Save(w) PROVE J'
      BY <1>2, <2>1, <2>6 DEF Save, Verdict, RequestsOK
    <2>7. ASSUME NEW w \in Workers, Commit(w) PROVE J'
      BY <1>2, <2>1, <2>7 DEF Commit, RequestsOK
    <2>8. CASE PanelMisses \/ PanelQueries \/ PanelPuts \/ InsightExpires \/ CooldownEnds
      BY <2>2, <2>8 DEF PanelMisses, PanelQueries, PanelPuts, InsightExpires, CooldownEnds, rows
    <2> QED
      BY <1>2, <2>2, <2>3, <2>4, <2>5, <2>6, <2>7, <2>8
         DEF Next, Proceed, vars, orders, rows
  <1> QED
    BY <1>1, <1>2, Invariance, PTL DEF Spec

\* One request after the other, killed anywhere: an order is charged exactly
\* once, when it completes.
THEOREM SerialChargesOnce == ASSUME OneAtATime PROVE Spec => []ChargedOnceWhenCompleted
  BY SerialRecords, PTL

-----------------------------------------------------------------------------
(* What a request looked for, and what was added since *)

LooksAreRecorded ==
    \A w \in Workers :
        /\ req[w].step \in {"cooldown", "create"} /\ "order" \notin req[w].missed
             => \A o \in Orders : order[o] # "pending"
        /\ req[w].step = "create" /\ "cooldown" \notin req[w].missed => ~cooldown

\* The pending order or the cooldown a request does not know of is one it missed.
LEMMA LooksStep ==
    ASSUME OrderTypes, LooksAreRecorded, [Next]_vars PROVE LooksAreRecorded'
  <1> DEFINE J == LooksAreRecorded
  <1> USE DEF LooksAreRecorded, OrderTypes, Requests, Steps, Resting, Idle, At, Go, Finish
  <1>1. CASE UNCHANGED <<order, cooldown, req>>
    BY <1>1
  <1>2. ASSUME NEW w \in Workers, Arrive(w) PROVE J'
    BY <1>2 DEF Arrive, Request, Execute, Moderate, Begin, rows
  <1>3. ASSUME NEW w \in Workers, FindPending(w) \/ FindCooldown(w) PROVE J'
    BY <1>3 DEF FindPending, FindCooldown, rows
  <1>4. ASSUME NEW w \in Workers, NEW o \in Orders, Create(w, o) PROVE J'
    BY <1>4 DEF Create, FinishUnseen
  <1>5. ASSUME NEW w \in Workers,
               \/ LookupBalance(w) \/ QueryBalance(w) \/ PutBalance(w) \/ LockOrder(w)
               \/ Debit(w) \/ ForgetBalance(w) \/ UpsertResult(w) \/ Crash(w)
        PROVE  J'
    <2>1. order' = order /\ cooldown' = cooldown
      BY <1>5 DEF LookupBalance, QueryBalance, PutBalance, LockOrder, Debit, ForgetBalance,
                  UpsertResult, Crash, rows
    <2>2. /\ \A v \in Workers \ {w} : req'[v] = req[v]
          /\ req'[w].step \notin {"cooldown", "create"}
      BY <1>5 DEF LookupBalance, QueryBalance, PutBalance, LockOrder, Debit, ForgetBalance,
                  UpsertResult, Crash, Check
    <2>. QED  BY <2>1, <2>2
  <1>6. ASSUME NEW w \in Workers, Save(w) PROVE J'
    BY <1>6 DEF Save, Verdict
  <1>7. ASSUME NEW w \in Workers, Commit(w) PROVE J'
    BY <1>7 DEF Commit, FinishUnseen
  <1>8. CASE PanelMisses \/ PanelQueries \/ PanelPuts \/ InsightExpires \/ CooldownEnds
    BY <1>8 DEF PanelMisses, PanelQueries, PanelPuts, InsightExpires, CooldownEnds, rows
  <1>. QED
    BY <1>1, <1>2, <1>3, <1>4, <1>5, <1>6, <1>7, <1>8 DEF Next, Proceed, vars, orders, rows

\* At every moment the history of what each request missed is right.
LEMMA LooksInvariance == Spec => [](IInv /\ LooksAreRecorded)
  <1>1. Init => LooksAreRecorded
    BY DEF Init, Resting, LooksAreRecorded
  <1>2. IInv => OrderTypes
    BY DEF IInv, TypeOK, OrderTypes
  <1>. QED  BY <1>1, <1>2, LooksStep, Invariance, PTL DEF Spec

\* For any number of requests: the gap between the search for a pending order and the
\* insert of a new one is the only way to a second pending order.
THEOREM SecondPendingNeedsOverlap == Spec => SecondPendingOnlyByOverlap
  <1> DEFINE A == \A o, p \in Orders :
                    order[o] = "pending" /\ order[p] # "pending" /\ order'[p] = "pending"
                      => \E w \in Workers : At(w, "create") /\ "order" \in req[w].missed
  <1>1. ASSUME IInv, LooksAreRecorded, [Next]_vars PROVE A
    <2> SUFFICES ASSUME NEW o \in Orders, NEW p \in Orders, order[o] = "pending",
                        order[p] # "pending", order'[p] = "pending"
                 PROVE  \E w \in Workers : At(w, "create") /\ "order" \in req[w].missed
      OBVIOUS
    <2>1. OrderTypes
      BY <1>1 DEF IInv, TypeOK, OrderTypes
    <2>2. ASSUME NEW w \in Workers, Save(w) \/ Commit(w) PROVE FALSE
      BY <2>1, <2>2 DEF Save, Commit, Verdict, OrderTypes
    <2>3. PICK w \in Workers : \E q \in Orders : Create(w, q)
      BY <1>1, <2>2, OtherStepsKeepOrders
    <2>. QED  BY <1>1, <2>3 DEF Create, At, LooksAreRecorded
  <1>. QED  BY <1>1, LooksInvariance, PTL DEF Spec, SecondPendingOnlyByOverlap

\* For any number of requests and executions: an order is placed in a cooldown only
\* through the gap between the search for a cooldown and the insert.
THEOREM CooldownMissNeedsOverlap == Spec => CooldownMissedOnlyByOverlap
  <1> DEFINE A == \A o \in Orders :
                    cooldown /\ order[o] = "none" /\ order'[o] # "none"
                      => \E w \in Workers : At(w, "create") /\ "cooldown" \in req[w].missed
  <1>1. ASSUME IInv, LooksAreRecorded, [Next]_vars PROVE A
    <2> SUFFICES ASSUME NEW o \in Orders, cooldown, order[o] = "none", order'[o] # "none"
                 PROVE  \E w \in Workers : At(w, "create") /\ "cooldown" \in req[w].missed
      OBVIOUS
    <2>1. OrderTypes /\ RequestsOK
      BY <1>1 DEF IInv, TypeOK, OrderTypes
    <2>2. ASSUME NEW w \in Workers, Save(w) \/ Commit(w) PROVE FALSE
      <3>1. req[w].order = o
        BY <2>1, <2>2 DEF Save, Commit, OrderTypes
      <3>. QED  BY <2>1, <2>2, <3>1 DEF Save, Commit, At, RequestsOK, WithOrder
    <2>3. PICK w \in Workers : \E q \in Orders : Create(w, q)
      BY <1>1, <2>2, OtherStepsKeepOrders
    <2>. QED  BY <1>1, <2>3 DEF Create, At, LooksAreRecorded
  <1>. QED  BY <1>1, LooksInvariance, PTL DEF Spec, CooldownMissedOnlyByOverlap

-----------------------------------------------------------------------------
(* The result on the post's page *)

Committing == \E w \in Workers : req[w].step = "commit"

\* What was read without an overlap is the stored result, and no execution is about
\* to replace it without forgetting it first.
ReadsAreRecorded ==
    /\ panel.step = "put" /\ ~panel.overlap => panel.seen = result /\ ~Committing
    /\ insight # Nothing /\ ~doubt => insight = result /\ ~Committing

\* An execution takes away, before it commits, every result that could become old.
LEMMA ReadsStep ==
    ASSUME OrderTypes, ReadsAreRecorded, [Next]_vars PROVE ReadsAreRecorded'
  <1> USE DEF OrderTypes, Panels, Requests, Steps, Resting, Idle, At, Go, Finish
  <1>1. CASE UNCHANGED <<result, insights, req>>
    BY <1>1 DEF insights, ReadsAreRecorded, Committing
  <1>2. ASSUME UNCHANGED <<result, insights>>, Committing' => Committing PROVE ReadsAreRecorded'
    BY <1>2 DEF insights, ReadsAreRecorded
  <1>3. ASSUME NEW w \in Workers, NEW o \in Orders, Create(w, o) PROVE ReadsAreRecorded'
    <2>1. Committing' => Committing
      BY <1>3 DEF Create, FinishUnseen, Committing
    <2>. QED  BY <1>2, <1>3, <2>1 DEF Create
  <1>4. ASSUME NEW w \in Workers,
               \/ Arrive(w) \/ FindPending(w) \/ FindCooldown(w) \/ Save(w)
               \/ LookupBalance(w) \/ QueryBalance(w) \/ PutBalance(w) \/ LockOrder(w)
               \/ Debit(w) \/ ForgetBalance(w) \/ Crash(w)
        PROVE  ReadsAreRecorded'
    <2>1. /\ \A v \in Workers \ {w} : req'[v] = req[v]
          /\ req'[w].step # "commit"
      BY <1>4 DEF Arrive, Request, Execute, Moderate, Begin, FindPending, FindCooldown, Save,
                  LookupBalance, QueryBalance, PutBalance, LockOrder, Debit, ForgetBalance,
                  Crash, Check
    <2>2. UNCHANGED <<result, insights>>
      BY <1>4 DEF Arrive, Request, Execute, Moderate, Begin, FindPending, FindCooldown, Save,
                  LookupBalance, QueryBalance, PutBalance, LockOrder, Debit, ForgetBalance,
                  Crash, rows
    <2>. QED  BY <1>2, <2>1, <2>2 DEF Committing
  <1>5. ASSUME NEW w \in Workers, UpsertResult(w) PROVE ReadsAreRecorded'
    <2>1. panel'.step = panel.step /\ panel'.overlap = (panel.step = "put") /\ insight' = Nothing
      BY <1>5, Zenon DEF UpsertResult
    <2>. QED  BY <2>1 DEF ReadsAreRecorded
  <1>6. ASSUME NEW w \in Workers, Commit(w) PROVE ReadsAreRecorded'
    <2>1. Committing
      BY <1>6 DEF Commit, Committing
    <2>. QED  BY <1>6, <2>1 DEF Commit, insights, ReadsAreRecorded
  <1>7. CASE PanelMisses
    BY <1>7 DEF PanelMisses, ReadsAreRecorded, Committing, rows
  <1>8. CASE PanelQueries
    <2>1. /\ panel'.step = "put" /\ panel'.seen = result /\ panel'.overlap = Committing
          /\ UNCHANGED <<result, insight, doubt, req>>
      BY <1>8, Zenon DEF PanelQueries, Committing, rows
    <2>2. Committing' = Committing
      BY <2>1 DEF Committing
    <2>. QED  BY <2>1, <2>2, Zenon DEF ReadsAreRecorded
  <1>9. CASE PanelPuts
    <2>1. /\ panel.step = "put" /\ panel'.step = "idle"
          /\ insight' = panel.seen /\ doubt' = panel.overlap /\ UNCHANGED <<result, req>>
      BY <1>9 DEF PanelPuts, rows
    <2>2. Committing' = Committing
      BY <2>1 DEF Committing
    <2>. QED  BY <2>1, <2>2 DEF ReadsAreRecorded
  <1>10. CASE InsightExpires
    BY <1>10 DEF InsightExpires, ReadsAreRecorded, Committing, rows
  <1>11. CASE CooldownEnds
    BY <1>1, <1>11 DEF CooldownEnds
  <1>. QED
    BY <1>1, <1>3, <1>4, <1>5, <1>6, <1>7, <1>8, <1>9, <1>10, <1>11
       DEF Next, Proceed, vars, orders, rows

\* For any number of executions and crashes: the page shows an older result only when
\* its query and an execution's transaction overlapped.
THEOREM StaleInsightNeedsOverlap == Spec => []StaleInsightOnlyByOverlap
  <1>1. Init => ReadsAreRecorded
    BY DEF Init, ReadsAreRecorded
  <1>2. IInv => OrderTypes
    BY DEF IInv, TypeOK, OrderTypes
  <1>3. ReadsAreRecorded => StaleInsightOnlyByOverlap
    BY DEF ReadsAreRecorded, StaleInsightOnlyByOverlap
  <1>. QED  BY <1>1, <1>2, <1>3, ReadsStep, Invariance, PTL DEF Spec
=============================================================================
