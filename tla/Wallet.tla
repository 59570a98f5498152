------------------------------- MODULE Wallet -------------------------------
(***************************************************************************)
(* The token wallet of one user: the balance column of user_token_wallets, *)
(* the token_transactions rows that explain it and the balance cached in   *)
(* Redis.                                                                  *)
(*                                                                         *)
(* Payments and AI orders move the balance inside a database transaction:  *)
(* the UPDATE takes the wallet's row lock and nobody else sees its effect  *)
(* before the COMMIT, but the cached balance is forgotten between the two. *)
(* A grant by an administrator runs without a transaction.                 *)
(***************************************************************************)
EXTENDS Integers

CONSTANTS
    Workers,    \* PHP workers that run payments and orders
    Nobody,     \* holder of a row lock that is free
    Nothing,    \* no balance is cached
    Funds,      \* balance a behaviour starts from
    Grant,      \* tokens in one grant
    MaxGrants,  \* bound: grants in a behaviour
    MaxCrashes  \* bound: requests killed in a behaviour

ASSUME WorkersAssumption == Nobody \notin Workers
ASSUME FundsAssumption == Funds \in Nat /\ Grant \in Nat \ {0}
ASSUME BoundsAssumption == MaxGrants \in Nat /\ MaxCrashes \in Nat
ASSUME NothingAssumption == Nothing \notin Int

VARIABLES
    balance,  \* committed balance
    ledger,   \* sum of the committed token_transactions, Funds included
    holder,   \* worker whose transaction locks the wallet row, or Nobody
    draft,    \* what that transaction has added to the balance
    cached,   \* balance cached in Redis, or Nothing
    page,     \* a page that shows the balance: [step, seen]
    clerk,    \* the administrator who grants tokens: "idle", "forget" or "record"
    grants,   \* grants begun
    lost,     \* grants killed after they raised the balance
    crashes

row == <<balance, ledger, holder, draft>>
visitors == <<page, clerk, grants, lost>>
wallet == <<row, cached, visitors, crashes>>

WalletInit ==
    /\ balance = Funds /\ ledger = Funds
    /\ holder = Nobody /\ draft = 0
    /\ cached = Nothing
    /\ page = [step |-> "idle", seen |-> 0]
    /\ clerk = "idle" /\ grants = 0 /\ lost = 0
    /\ crashes = 0

-----------------------------------------------------------------------------
(* Inside a transaction *)

\* increment and decrement wait for the row lock and keep it.
Move(w, amount) ==
    /\ holder = Nobody
    /\ holder' = w /\ draft' = amount
    /\ UNCHANGED <<balance, ledger>>

\* Mutant: the balance is raised and no token_transactions row explains it.
CommitMoveMutant(w) ==
    /\ holder = w
    /\ balance' = balance + draft
    /\ holder' = Nobody /\ draft' = 0
    /\ UNCHANGED ledger

\* The balance and the transaction row become visible together.
CommitMove(w) ==
    /\ holder = w
    /\ balance' = balance + draft
    /\ ledger' = ledger + draft
    /\ holder' = Nobody /\ draft' = 0

\* The connection is gone: PostgreSQL undoes the transaction.
Rollback(w) ==
    /\ holder' = (IF holder = w THEN Nobody ELSE holder)
    /\ draft' = (IF holder = w THEN 0 ELSE draft)
    /\ UNCHANGED <<balance, ledger>>

-----------------------------------------------------------------------------
(* UserTokenWalletRepository::getBalance, on a page *)

PageMisses ==
    /\ page.step = "idle" /\ cached = Nothing
    /\ page' = [page EXCEPT !.step = "query"]
    /\ UNCHANGED <<row, cached, clerk, grants, lost, crashes>>

PageQueries ==
    /\ page.step = "query"
    /\ page' = [step |-> "put", seen |-> balance]
    /\ UNCHANGED <<row, cached, clerk, grants, lost, crashes>>

PagePuts ==
    /\ page.step = "put"
    /\ cached' = page.seen
    /\ page' = [step |-> "idle", seen |-> 0]
    /\ UNCHANGED <<row, clerk, grants, lost, crashes>>

\* BALANCE_CACHE_TTL_SECONDS have passed.
BalanceExpires ==
    /\ cached # Nothing
    /\ cached' = Nothing
    /\ UNCHANGED <<row, visitors, crashes>>

-----------------------------------------------------------------------------
(* TokenWalletService::grant: three statements, each committed by itself *)

GrantCredits ==
    /\ clerk = "idle" /\ grants < MaxGrants
    /\ holder = Nobody
    /\ balance' = balance + Grant
    /\ clerk' = "forget" /\ grants' = grants + 1
    /\ UNCHANGED <<ledger, holder, draft, cached, page, lost, crashes>>

GrantForgets ==
    /\ clerk = "forget"
    /\ cached' = Nothing
    /\ clerk' = "record"
    /\ UNCHANGED <<row, page, grants, lost, crashes>>

GrantRecords ==
    /\ clerk = "record"
    /\ ledger' = ledger + Grant
    /\ clerk' = "idle"
    /\ UNCHANGED <<balance, holder, draft, cached, page, grants, lost, crashes>>

GrantDies ==
    /\ clerk # "idle" /\ crashes < MaxCrashes
    /\ crashes' = crashes + 1
    /\ clerk' = "idle" /\ lost' = lost + 1
    /\ UNCHANGED <<row, cached, page, grants>>

WalletNext ==
    \/ PageMisses \/ PageQueries \/ PagePuts \/ BalanceExpires
    \/ GrantCredits \/ GrantForgets \/ GrantRecords \/ GrantDies

-----------------------------------------------------------------------------
(* Properties *)

Clerk == {"idle", "forget", "record"}

WalletTypeOK ==
    /\ balance \in Int /\ ledger \in Int /\ draft \in Int
    /\ holder \in Workers \cup {Nobody}
    /\ cached \in Int \cup {Nothing}
    /\ page \in [step: {"idle", "query", "put"}, seen: Int]
    /\ clerk \in Clerk /\ grants \in 0..MaxGrants /\ lost \in Nat
    /\ crashes \in 0..MaxCrashes

\* Every token of the balance is explained by a token_transactions row, at any
\* moment and after any crash; only a grant on its way, or one killed on its
\* way, leaves tokens nothing explains.
Unexplained == IF clerk = "idle" THEN lost ELSE lost + 1
LedgerExplainsBalance == balance = ledger + Grant * Unexplained
=============================================================================
