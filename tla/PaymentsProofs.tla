--------------------------- MODULE PaymentsProofs ---------------------------
(***************************************************************************)
(* Theorems about Payments.  The inductive invariant adds to what the runs *)
(* check what a request in flight knows: which charge it works on, and     *)
(* that a purchase which has not stored its intent yet is the only one     *)
(* that can have done anything for its charge.                             *)
(***************************************************************************)
EXTENDS Payments, TLAPS

-----------------------------------------------------------------------------
(* What the steps of the wallet keep *)

\* The balance is typed and explained: what every step of the wallet keeps.
WalletInv == WalletTypeOK /\ LedgerExplainsBalance

\* The wallet of a new behaviour is explained by its Funds.
LEMMA WalletStarts == WalletInit => WalletInv
  BY FundsAssumption, BoundsAssumption
     DEF WalletInit, WalletInv, WalletTypeOK, LedgerExplainsBalance, Unexplained, Clerk

\* Steps that leave the wallet alone.
LEMMA WalletStutters == WalletInv /\ UNCHANGED wallet => WalletInv'
  BY DEF wallet, row, visitors, WalletInv, WalletTypeOK, LedgerExplainsBalance, Unexplained

\* An uncommitted increment or decrement changes nothing others see.
LEMMA MoveKeeps ==
  ASSUME NEW w \in Workers, NEW amount \in Int, WalletInv, Move(w, amount),
         UNCHANGED <<cached, visitors, crashes>>
  PROVE  WalletInv'
  BY DEF Move, visitors, WalletInv, WalletTypeOK, LedgerExplainsBalance, Unexplained

\* A commit raises the balance and its explanation together.
LEMMA CommitKeeps ==
  ASSUME NEW w \in Workers, WalletInv, CommitMove(w), UNCHANGED <<cached, visitors, crashes>>
  PROVE  WalletInv'
  <1> DEFINE owed == Grant * Unexplained
  <1>1. owed' = owed
    BY DEF visitors, Unexplained
  <1>2. owed \in Int
    BY FundsAssumption DEF WalletInv, WalletTypeOK, Unexplained
  <1>3. WalletTypeOK'
    BY DEF CommitMove, visitors, WalletInv, WalletTypeOK
  <1>4. balance' = ledger' + owed'
    <2> HIDE DEF owed
    <2>1. balance = ledger + owed
      BY DEF WalletInv, LedgerExplainsBalance, owed
    <2> QED
      BY <1>1, <1>2, <2>1 DEF CommitMove, WalletInv, WalletTypeOK
  <1> QED
    BY <1>3, <1>4 DEF WalletInv, LedgerExplainsBalance

\* A transaction that is undone leaves the wallet as it was.
LEMMA RollbackKeeps ==
  ASSUME NEW w \in Workers, WalletInv, Rollback(w), UNCHANGED <<cached, visitors>>,
         crashes < MaxCrashes, crashes' = crashes + 1
  PROVE  WalletInv'
  BY BoundsAssumption
     DEF Rollback, visitors, WalletInv, WalletTypeOK, LedgerExplainsBalance, Unexplained

\* The cache is filled or forgotten; no token moves.
LEMMA CacheKeeps ==
  ASSUME WalletInv, cached' \in Int \cup {Nothing}, UNCHANGED <<row, visitors, crashes>>
  PROVE  WalletInv'
  BY DEF row, visitors, WalletInv, WalletTypeOK, LedgerExplainsBalance, Unexplained

\* The pages that show the balance and the administrator's grants.
LEMMA WalletNextKeeps == ASSUME WalletInv, WalletNext PROVE WalletInv'
  <1> USE DEF WalletInv
  <1>1. CASE PageMisses \/ PageQueries \/ PagePuts \/ BalanceExpires
    BY <1>1 DEF PageMisses, PageQueries, PagePuts, BalanceExpires, row, visitors,
                WalletTypeOK, LedgerExplainsBalance, Unexplained
  <1>2. CASE GrantCredits \/ GrantForgets \/ GrantRecords \/ GrantDies
    <2>1. WalletTypeOK'
      BY <1>2, FundsAssumption, BoundsAssumption
         DEF GrantCredits, GrantForgets, GrantRecords, GrantDies, row, WalletTypeOK, Clerk
    <2> DEFINE n == Unexplained
    <2>2. n \in Int /\ n' \in Int
      BY <2>1 DEF WalletTypeOK, Unexplained
    <2>3. /\ GrantCredits => n' = n + 1 /\ balance' = balance + Grant /\ ledger' = ledger
          /\ GrantForgets \/ GrantDies => n' = n /\ balance' = balance /\ ledger' = ledger
          /\ GrantRecords => n' = n - 1 /\ balance' = balance /\ ledger' = ledger + Grant
      BY DEF GrantCredits, GrantForgets, GrantRecords, GrantDies, row, WalletTypeOK, Unexplained
    <2>4. balance = ledger + Grant * n
      BY DEF LedgerExplainsBalance
    <2>5. balance' = ledger' + Grant * n'
      <3> HIDE DEF n
      <3>1. /\ balance \in Int /\ ledger \in Int /\ Grant \in Int
        BY FundsAssumption DEF WalletTypeOK
      <3>2. /\ Grant * (n + 1) = Grant * n + Grant
            /\ Grant * (n - 1) = Grant * n - Grant
            /\ Grant * n \in Int
        BY <2>2, <3>1
      <3>3. CASE n' = n + 1 /\ balance' = balance + Grant /\ ledger' = ledger
        BY <3>1, <3>2, <3>3, <2>4
      <3>4. CASE n' = n /\ balance' = balance /\ ledger' = ledger
        BY <3>4, <2>4
      <3>5. CASE n' = n - 1 /\ balance' = balance /\ ledger' = ledger + Grant
        BY <3>1, <3>2, <3>5, <2>4
      <3> QED
        BY <1>2, <2>3, <3>3, <3>4, <3>5
    <2> QED
      BY <2>1, <2>5 DEF LedgerExplainsBalance
  <1> QED
    BY <1>1, <1>2 DEF WalletNext

-----------------------------------------------------------------------------
(* Purchases and webhooks *)

\* A request that is under way works on a charge the gateway made.
RequestsOK ==
    \A w \in Workers : IF Idle(w) THEN req[w].charge = None ELSE req[w].charge \in charged

\* Nothing is known here of a charge before the gateway makes it.
Untouched == \A c \in Charges \ charged : intent[c] = "none" /\ credits[c] = 0

\* Until its intent is stored nothing is credited for a charge, and webhooks
\* about it get no further than the lookup.
PurchaseIsFirst ==
    \A w \in Workers : At(w, "intent") =>
        /\ intent[req[w].charge] = "none" /\ credits[req[w].charge] = 0
        /\ \A v \in Workers : v # w /\ req[v].charge = req[w].charge => At(v, "find")

IInv ==
    /\ TypeOK
    /\ LedgerExplainsBalance
    /\ RequestsOK
    /\ Untouched
    /\ PurchaseIsFirst
    /\ IntentsMatchCredits

LEMMA Start == Init => IInv
  <1> SUFFICES ASSUME Init PROVE IInv
    OBVIOUS
  <1>1. WalletInv
    BY WalletStarts DEF Init
  <1> QED
    BY <1>1, ChargesAssumption
       DEF Init, IInv, WalletInv, TypeOK, IntentStatuses, Request, Steps, Resting,
           RequestsOK, Untouched, PurchaseIsFirst, IntentsMatchCredits, Idle, At

\* Whatever a step does, the wallet stays typed and explained.
LEMMA WalletStep == ASSUME IInv, [Next]_vars PROVE WalletInv'
  <1> USE DEF IInv, TypeOK, WalletInv
  <1>1. CASE UNCHANGED wallet
    BY <1>1, WalletStutters
  <1>2. ASSUME NEW w \in Workers, Credit(w) PROVE WalletInv'
    <2>1. CASE package = "deleted"
      BY <1>2, <2>1, WalletStutters DEF Credit, wallet, visitors, row
    <2>2. CASE package # "deleted"
      <3>1. Move(w, Tokens) /\ UNCHANGED <<cached, visitors, crashes>>
        BY <1>2, <2>2 DEF Credit
      <3> QED
        BY <3>1, MoveKeeps, TokensAssumption
    <2> QED
      BY <2>1, <2>2
  <1>3. ASSUME NEW w \in Workers, Forget(w) PROVE WalletInv'
    BY <1>3, CacheKeeps DEF Forget
  <1>4. ASSUME NEW w \in Workers, Commit(w) PROVE WalletInv'
    BY <1>4, CommitKeeps DEF Commit
  <1>5. ASSUME NEW w \in Workers, Crash(w) PROVE WalletInv'
    <2>1. Rollback(w) /\ UNCHANGED <<cached, visitors>>
      BY <1>5 DEF Crash
    <2>2. crashes < MaxCrashes /\ crashes' = crashes + 1
      BY <1>5 DEF Crash
    <2> QED
      BY <2>1, <2>2, RollbackKeeps
  <1>6. CASE WalletNext
    BY <1>6, WalletNextKeeps
  <1>7. ASSUME NEW w \in Workers, Proceed(w) PROVE WalletInv'
    BY <1>1, <1>2, <1>3, <1>4, <1>7 DEF Proceed, CreatePending, Find, Refresh
  <1> QED
    BY <1>1, <1>5, <1>6, <1>7 DEF Next, vars, Deliver, Charge, SwitchPackage, DeletePackage

\* The types of everything but the wallet.
PaymentTypes ==
    /\ package \in {"active", "inactive", "deleted"}
    /\ intent \in [Charges -> IntentStatuses]
    /\ credits \in [Charges -> Nat]
    /\ charged \subseteq Charges /\ accepted \subseteq Charges
    /\ req \in [Workers -> Request]

\* Steps keep the types.
LEMMA TypesStep ==
  ASSUME PaymentTypes, RequestsOK, [Next]_vars
  PROVE  PaymentTypes'
  <1> USE DEF PaymentTypes, IntentStatuses, Request, Steps, Resting, RequestsOK, Idle, At, Go, Finish
  <1>1. CASE UNCHANGED payments
    BY <1>1 DEF payments
  <1>2. ASSUME NEW w \in Workers, NEW c \in Charges,
               Deliver(w, c) \/ \E answered \in BOOLEAN : Charge(w, c, answered)
        PROVE  PaymentTypes'
    BY <1>2 DEF Deliver, Charge
  <1>3. ASSUME NEW w \in Workers, CreatePending(w) PROVE PaymentTypes'
    <2>1. /\ intent' = intent \/ intent' = [intent EXCEPT ![req[w].charge] = "pending"]
          /\ \/ accepted' = accepted
             \/ accepted' = accepted \cup {req[w].charge} /\ req[w].charge \in Charges
          /\ req' = [req EXCEPT ![w] = Resting] \/ req' = [req EXCEPT ![w].step = "find"]
          /\ UNCHANGED <<package, credits, charged>>
      BY <1>3 DEF CreatePending
    <2>2. intent' \in [Charges -> IntentStatuses]
      BY <2>1
    <2>3. accepted' \subseteq Charges
      BY <2>1
    <2>4. req' \in [Workers -> Request]
      BY <2>1
    <2> QED
      BY <2>1, <2>2, <2>3, <2>4
  <1>4. ASSUME NEW w \in Workers, Find(w) PROVE PaymentTypes'
    BY <1>4 DEF Find
  <1>5. ASSUME NEW w \in Workers, Refresh(w) PROVE PaymentTypes'
    BY <1>5 DEF Refresh
  <1>6. ASSUME NEW w \in Workers, Credit(w) PROVE PaymentTypes'
    BY <1>6 DEF Credit
  <1>7. ASSUME NEW w \in Workers, Forget(w) PROVE PaymentTypes'
    BY <1>7 DEF Forget
  <1>8. ASSUME NEW w \in Workers, Commit(w) PROVE PaymentTypes'
    <2> DEFINE c == req[w].charge
    <2>1. /\ credits' = [credits EXCEPT ![c] = credits[c] + 1]
          /\ intent' = [intent EXCEPT ![c] = IF intent[c] = "none" THEN "none" ELSE "succeeded"]
          /\ req' = [req EXCEPT ![w] = Resting]
          /\ UNCHANGED <<package, charged, accepted>>
      BY <1>8 DEF Commit
    <2>4. c \in Charges
      BY <1>8 DEF Commit
    <2>2. credits' \in [Charges -> Nat]
      BY <2>1, <2>4
    <2>3. intent' \in [Charges -> IntentStatuses]
      BY <2>1, <2>4
    <2> QED
      BY <2>1, <2>2, <2>3
  <1>9. ASSUME NEW w \in Workers, Crash(w) PROVE PaymentTypes'
    BY <1>9 DEF Crash
  <1>10. CASE SwitchPackage \/ DeletePackage
    BY <1>10 DEF SwitchPackage, DeletePackage
  <1> QED
    BY <1>1, <1>2, <1>3, <1>4, <1>5, <1>6, <1>7, <1>8, <1>9, <1>10
       DEF Next, Proceed, vars

\* A request keeps its charge until it ends.
LEMMA RequestsStep ==
  ASSUME PaymentTypes, RequestsOK, [Next]_vars
  PROVE  RequestsOK'
  <1> USE DEF PaymentTypes, Request, Steps, Resting, RequestsOK, Idle, At, Go, Finish
  <1>1. CASE UNCHANGED payments
    BY <1>1 DEF payments
  <1>2. ASSUME NEW w \in Workers, NEW c \in Charges,
               Deliver(w, c) \/ \E answered \in BOOLEAN : Charge(w, c, answered)
        PROVE  RequestsOK'
    BY <1>2 DEF Deliver, Charge
  <1>3. ASSUME NEW w \in Workers, CreatePending(w) PROVE RequestsOK'
    BY <1>3 DEF CreatePending
  <1>4. ASSUME NEW w \in Workers, Find(w) PROVE RequestsOK'
    BY <1>4 DEF Find
  <1>5. ASSUME NEW w \in Workers, Refresh(w) PROVE RequestsOK'
    BY <1>5 DEF Refresh
  <1>6. ASSUME NEW w \in Workers, Credit(w) PROVE RequestsOK'
    BY <1>6 DEF Credit
  <1>7. ASSUME NEW w \in Workers, Forget(w) PROVE RequestsOK'
    BY <1>7 DEF Forget
  <1>8. ASSUME NEW w \in Workers, Commit(w) PROVE RequestsOK'
    BY <1>8 DEF Commit
  <1>9. ASSUME NEW w \in Workers, Crash(w) PROVE RequestsOK'
    BY <1>9 DEF Crash
  <1>10. CASE SwitchPackage \/ DeletePackage
    BY <1>10 DEF SwitchPackage, DeletePackage
  <1> QED
    BY <1>1, <1>2, <1>3, <1>4, <1>5, <1>6, <1>7, <1>8, <1>9, <1>10
       DEF Next, Proceed, vars

\* What happens to a charge happens after it.
LEMMA UntouchedStep ==
  ASSUME PaymentTypes, RequestsOK, Untouched, [Next]_vars
  PROVE  Untouched'
  <1> USE DEF PaymentTypes, Request, Steps, Resting, RequestsOK, Untouched, Idle, At, Go, Finish
  <1>1. CASE UNCHANGED payments
    BY <1>1 DEF payments
  <1>2. ASSUME NEW w \in Workers, NEW c \in Charges,
               Deliver(w, c) \/ \E answered \in BOOLEAN : Charge(w, c, answered)
        PROVE  Untouched'
    BY <1>2 DEF Deliver, Charge
  <1>3. ASSUME NEW w \in Workers, CreatePending(w) PROVE Untouched'
    BY <1>3 DEF CreatePending
  <1>4. ASSUME NEW w \in Workers, Find(w) PROVE Untouched'
    BY <1>4 DEF Find
  <1>5. ASSUME NEW w \in Workers, Refresh(w) PROVE Untouched'
    BY <1>5 DEF Refresh
  <1>6. ASSUME NEW w \in Workers, Credit(w) PROVE Untouched'
    BY <1>6 DEF Credit
  <1>7. ASSUME NEW w \in Workers, Forget(w) PROVE Untouched'
    BY <1>7 DEF Forget
  <1>8. ASSUME NEW w \in Workers, Commit(w) PROVE Untouched'
    BY <1>8 DEF Commit
  <1>9. ASSUME NEW w \in Workers, Crash(w) PROVE Untouched'
    BY <1>9 DEF Crash
  <1>10. CASE SwitchPackage \/ DeletePackage
    BY <1>10 DEF SwitchPackage, DeletePackage
  <1> QED
    BY <1>1, <1>2, <1>3, <1>4, <1>5, <1>6, <1>7, <1>8, <1>9, <1>10
       DEF Next, Proceed, vars

\* Nobody gets between a charge and its intent.
LEMMA PurchaseStep ==
  ASSUME PaymentTypes, RequestsOK, Untouched, PurchaseIsFirst, [Next]_vars
  PROVE  PurchaseIsFirst'
  <1> USE ChargesAssumption DEF PaymentTypes, IntentStatuses, Request, Steps, Resting, RequestsOK, PurchaseIsFirst, Idle, At, Go, Finish
  <1>1. CASE UNCHANGED payments
    BY <1>1 DEF payments
  <1>2. ASSUME NEW w \in Workers, NEW c \in Charges,
               Deliver(w, c) \/ \E answered \in BOOLEAN : Charge(w, c, answered)
        PROVE  PurchaseIsFirst'
    <2>1. CASE Deliver(w, c)
      <3>1. req' = [req EXCEPT ![w] = [step |-> "find", charge |-> c, seen |-> 0]]
            /\ intent' = intent /\ credits' = credits /\ ~At(w, "intent")
        BY <2>1 DEF Deliver
      <3> QED
        BY <3>1
    <2>2. ASSUME NEW answered \in BOOLEAN, Charge(w, c, answered) PROVE PurchaseIsFirst'
      <3>1. /\ c \notin charged /\ Idle(w) /\ intent' = intent /\ credits' = credits
            /\ req' = req \/ req' = [req EXCEPT ![w] = [step |-> "intent", charge |-> c, seen |-> 0]]
        BY <2>2 DEF Charge
      <3>2. intent[c] = "none" /\ credits[c] = 0
        BY <3>1 DEF Untouched
      <3>3. \A v \in Workers : v # w => req[v].charge # c \/ Idle(v)
        BY <3>1
      <3> QED
        BY <3>1, <3>2, <3>3
    <2> QED
      BY <1>2, <2>1, <2>2
  <1>3. ASSUME NEW w \in Workers, CreatePending(w) PROVE PurchaseIsFirst'
    BY <1>3 DEF CreatePending
  <1>4. ASSUME NEW w \in Workers, Find(w) PROVE PurchaseIsFirst'
    BY <1>4 DEF Find
  <1>5. ASSUME NEW w \in Workers, Refresh(w) PROVE PurchaseIsFirst'
    BY <1>5 DEF Refresh
  <1>6. ASSUME NEW w \in Workers, Credit(w) PROVE PurchaseIsFirst'
    BY <1>6 DEF Credit
  <1>7. ASSUME NEW w \in Workers, Forget(w) PROVE PurchaseIsFirst'
    BY <1>7 DEF Forget
  <1>8. ASSUME NEW w \in Workers, Commit(w) PROVE PurchaseIsFirst'
    BY <1>8 DEF Commit
  <1>9. ASSUME NEW w \in Workers, Crash(w) PROVE PurchaseIsFirst'
    BY <1>9 DEF Crash
  <1>10. CASE SwitchPackage \/ DeletePackage
    BY <1>10 DEF SwitchPackage, DeletePackage
  <1> QED
    BY <1>1, <1>2, <1>3, <1>4, <1>5, <1>6, <1>7, <1>8, <1>9, <1>10
       DEF Next, Proceed, vars

\* Intents and credits change together.
LEMMA CreditsStep ==
  ASSUME PaymentTypes, RequestsOK, PurchaseIsFirst, IntentsMatchCredits, [Next]_vars
  PROVE  IntentsMatchCredits'
  <1> USE ChargesAssumption DEF PaymentTypes, IntentStatuses, Request, Steps, Resting, RequestsOK, PurchaseIsFirst, IntentsMatchCredits, Idle, At, Go, Finish
  <1>1. CASE UNCHANGED payments
    BY <1>1 DEF payments
  <1>2. ASSUME NEW w \in Workers, NEW c \in Charges,
               Deliver(w, c) \/ \E answered \in BOOLEAN : Charge(w, c, answered)
        PROVE  IntentsMatchCredits'
    BY <1>2 DEF Deliver, Charge
  <1>3. ASSUME NEW w \in Workers, CreatePending(w) PROVE IntentsMatchCredits'
    BY <1>3 DEF CreatePending
  <1>4. ASSUME NEW w \in Workers, Find(w) PROVE IntentsMatchCredits'
    BY <1>4 DEF Find
  <1>5. ASSUME NEW w \in Workers, Refresh(w) PROVE IntentsMatchCredits'
    BY <1>5 DEF Refresh
  <1>6. ASSUME NEW w \in Workers, Credit(w) PROVE IntentsMatchCredits'
    BY <1>6 DEF Credit
  <1>7. ASSUME NEW w \in Workers, Forget(w) PROVE IntentsMatchCredits'
    BY <1>7 DEF Forget
  <1>8. ASSUME NEW w \in Workers, Commit(w) PROVE IntentsMatchCredits'
    BY <1>8 DEF Commit
  <1>9. ASSUME NEW w \in Workers, Crash(w) PROVE IntentsMatchCredits'
    BY <1>9 DEF Crash
  <1>10. CASE SwitchPackage \/ DeletePackage
    BY <1>10 DEF SwitchPackage, DeletePackage
  <1> QED
    BY <1>1, <1>2, <1>3, <1>4, <1>5, <1>6, <1>7, <1>8, <1>9, <1>10
       DEF Next, Proceed, vars

LEMMA Step == IInv /\ [Next]_vars => IInv'
  <1> SUFFICES ASSUME IInv, [Next]_vars PROVE IInv'
    OBVIOUS
  <1>1. PaymentTypes
    BY DEF IInv, TypeOK, PaymentTypes
  <1>2. (PaymentTypes /\ RequestsOK /\ Untouched /\ PurchaseIsFirst /\ IntentsMatchCredits)'
    BY <1>1, TypesStep, RequestsStep, UntouchedStep, PurchaseStep, CreditsStep DEF IInv
  <1>3. WalletInv'
    BY WalletStep
  <1> QED
    BY <1>2, <1>3 DEF IInv, WalletInv, TypeOK, PaymentTypes

LEMMA Invariance == Spec => []IInv
  BY Start, Step, PTL DEF Spec

\* Every variable keeps its type, whatever the workers, the gateway and the
\* administrator do.
THEOREM TypeCorrect == Spec => []TypeOK
  <1>1. IInv => TypeOK
    BY DEF IInv
  <1> QED
    BY <1>1, Invariance, PTL

\* For any number of workers, charges and crashes: the wallet's balance is what
\* its transaction rows add up to, but for grants on their way or killed there.
THEOREM LedgerHolds == Spec => []LedgerExplainsBalance
  <1>1. IInv => LedgerExplainsBalance
    BY DEF IInv
  <1> QED
    BY <1>1, Invariance, PTL

\* An intent is marked exactly when its tokens are there: the transaction of
\* completeIntent is all or nothing.
THEOREM IntentsAreRight == Spec => []IntentsMatchCredits
  <1>1. IInv => IntentsMatchCredits
    BY DEF IInv
  <1> QED
    BY <1>1, Invariance, PTL

\* A transaction at work read its intent while nothing was credited for the charge.
SawNoCredit ==
    \A w \in Workers : req[w].step \in {"credit", "forget", "commit"} => req[w].seen = 0

LEMMA ReadsPending == ASSUME IInv, SawNoCredit, [Next]_vars PROVE SawNoCredit'
  <1>1. PaymentTypes /\ RequestsOK /\ IntentsMatchCredits
    BY DEF IInv, TypeOK, PaymentTypes
  <1> USE DEF SawNoCredit, PaymentTypes, Request, Steps, Resting, Idle, At, Go, Finish
  <1>2. CASE UNCHANGED payments
    BY <1>2 DEF payments
  <1>3. ASSUME NEW w \in Workers, NEW c \in Charges,
               Deliver(w, c) \/ \E answered \in BOOLEAN : Charge(w, c, answered)
        PROVE  SawNoCredit'
    BY <1>1, <1>3 DEF Deliver, Charge
  <1>4. ASSUME NEW w \in Workers, Refresh(w) PROVE SawNoCredit'
    <2>1. req[w].charge \in Charges
      BY <1>1, <1>4 DEF Refresh, RequestsOK
    <2>2. intent[req[w].charge] = "pending" => credits[req[w].charge] = 0
      BY <1>1, <2>1 DEF IntentsMatchCredits
    <2> QED
      BY <1>1, <1>4, <2>2 DEF Refresh
  <1>5. ASSUME NEW w \in Workers,
               \/ CreatePending(w) \/ Find(w) \/ Credit(w) \/ Forget(w) \/ Commit(w)
               \/ Crash(w)
        PROVE  SawNoCredit'
    BY <1>1, <1>5 DEF CreatePending, Find, Credit, Forget, Commit, Crash
  <1>6. CASE SwitchPackage \/ DeletePackage
    BY <1>6 DEF SwitchPackage, DeletePackage
  <1> QED
    BY <1>2, <1>3, <1>4, <1>5, <1>6 DEF Next, Proceed, vars

\* A second credit for a charge takes two transactions that both read its intent
\* pending before either of them committed: what completeIntent reads again inside
\* the transaction keeps every later one out.
THEOREM DoubleCreditNeedsOverlap == Spec => DoubleCreditOnlyByOverlap
  <1> DEFINE A == \A c \in Charges : CreditsAgain(c) =>
                    \E w \in Workers : At(w, "commit") /\ req[w].charge = c /\ req[w].seen = 0
  <1>1. IInv /\ SawNoCredit /\ [Next]_vars => [A]_vars
    <2> SUFFICES ASSUME IInv, SawNoCredit, Next, NEW c \in Charges, CreditsAgain(c)
                 PROVE  \E w \in Workers : At(w, "commit") /\ req[w].charge = c /\ req[w].seen = 0
      BY DEF vars, A
    <2>1. \E w \in Workers : Commit(w)
      <3>1. credits' # credits
        BY DEF CreditsAgain, IInv, TypeOK
      <3>2. ASSUME NEW w \in Workers, NEW d \in Charges,
                   Deliver(w, d) \/ \E answered \in BOOLEAN : Charge(w, d, answered)
            PROVE  credits' = credits
        BY <3>2 DEF Charge, Deliver
      <3>3. ASSUME NEW w \in Workers,
                   \/ CreatePending(w) \/ Find(w) \/ Refresh(w) \/ Credit(w) \/ Forget(w)
                   \/ Crash(w)
            PROVE  credits' = credits
        BY <3>3 DEF CreatePending, Find, Refresh, Credit, Forget, Crash
      <3>4. CASE SwitchPackage \/ DeletePackage \/ (WalletNext /\ UNCHANGED payments)
        BY <3>1, <3>4 DEF SwitchPackage, DeletePackage, payments
      <3> QED
        BY <3>1, <3>2, <3>3, <3>4 DEF Next, Proceed
    <2>2. PICK w \in Workers : Commit(w)
      BY <2>1
    <2>3. req[w].charge = c
      BY <2>2 DEF Commit, CreditsAgain, IInv, TypeOK
    <2>4. At(w, "commit") /\ req[w].seen = 0
      BY <2>2 DEF Commit, At, SawNoCredit
    <2> QED
      BY <2>3, <2>4
  <1>2. Init => SawNoCredit
    BY DEF Init, Resting, SawNoCredit
  <1> QED
    BY <1>1, <1>2, ReadsPending, Invariance, PTL DEF Spec, DoubleCreditOnlyByOverlap

\* With one worker a transaction at work finds nothing credited for its charge.
OneAtATime == \A v, w \in Workers : v = w
NothingCreditedYet ==
    \A w \in Workers : req[w].step \in {"credit", "forget", "commit"}
                         => credits[req[w].charge] = 0

\* One request after the other: however often the gateway repeats a webhook and
\* whichever request is killed, a charge is credited at most once.
THEOREM SerialCreditsOnce == ASSUME OneAtATime PROVE Spec => []CreditedOnce
  <1> DEFINE J == NothingCreditedYet /\ CreditedOnce
  <1>1. Init => J
    BY DEF Init, Resting, NothingCreditedYet, CreditedOnce
  <1>2. ASSUME IInv, J, [Next]_vars PROVE J'
    <2>1. PaymentTypes /\ RequestsOK /\ Untouched /\ IntentsMatchCredits
      BY <1>2 DEF IInv, TypeOK, PaymentTypes
    <2>2. PaymentTypes'
      BY <1>2, <2>1, TypesStep
    <2> USE OneAtATime DEF OneAtATime, NothingCreditedYet, CreditedOnce, Resting, Idle, At, Go, Finish,
                           PaymentTypes, Request, Steps
    <2>3. CASE UNCHANGED payments
      BY <1>2, <2>3 DEF payments
    <2>4. ASSUME NEW w \in Workers, NEW c \in Charges,
                 Deliver(w, c) \/ \E answered \in BOOLEAN : Charge(w, c, answered)
          PROVE  J'
      BY <1>2, <2>1, <2>4 DEF Deliver, Charge
    <2>5. ASSUME NEW w \in Workers,
                 CreatePending(w) \/ Find(w) \/ Credit(w) \/ Forget(w) \/ Crash(w)
          PROVE  J'
      BY <1>2, <2>1, <2>5 DEF CreatePending, Find, Credit, Forget, Crash
    <2>6. ASSUME NEW w \in Workers, Refresh(w) PROVE J'
      <3>1. /\ credits' = credits
            /\ \/ req' = [req EXCEPT ![w] = Resting]
               \/ /\ intent[req[w].charge] = "pending"
                  /\ req' = [req EXCEPT ![w].step = "credit", ![w].seen = credits[req[w].charge]]
        BY <2>6 DEF Refresh
      <3>2. req[w].charge \in Charges
        BY <2>1, <2>6 DEF Refresh, RequestsOK
      <3>3. intent[req[w].charge] = "pending" => credits[req[w].charge] = 0
        BY <2>1, <3>2 DEF IntentsMatchCredits
      <3> QED
        BY <1>2, <2>1, <3>1, <3>3
    <2>7. ASSUME NEW w \in Workers, Commit(w) PROVE J'
      <3> DEFINE c == req[w].charge
      <3>1. /\ credits' = [credits EXCEPT ![c] = credits[c] + 1]
            /\ req' = [req EXCEPT ![w] = Resting]
            /\ c \in Charges /\ credits[c] = 0
        BY <1>2, <2>1, <2>7 DEF Commit, RequestsOK
      <3> QED
        BY <1>2, <2>1, <3>1
    <2>8. CASE SwitchPackage \/ DeletePackage
      BY <1>2, <2>8 DEF SwitchPackage, DeletePackage
    <2> QED
      BY <1>2, <2>3, <2>4, <2>5, <2>6, <2>7, <2>8 DEF Next, Proceed, vars
  <1>3. J => CreditedOnce
    OBVIOUS
  <1> QED
    BY <1>1, <1>2, <1>3, Invariance, PTL DEF Spec
=============================================================================
