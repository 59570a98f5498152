------------------------------ MODULE Payments ------------------------------
(***************************************************************************)
(* Buying a package of tokens: the charge at the gateway, the payment      *)
(* intent and the signed webhook that credits the wallet.                  *)
(*                                                                         *)
(* The gateway may charge without our hearing of it and may deliver a      *)
(* webhook early, several times and several times at once.  completeIntent *)
(* runs in a transaction but reads the intent without locking it.          *)
(***************************************************************************)
EXTENDS Wallet

CONSTANTS
    Charges,  \* charges the gateway may make: its transaction ids
    None,     \* a worker without a charge
    Mock,     \* those of them made while PAYMENT_GATEWAY is "mock"
    Tokens    \* tokens in the package

ASSUME ChargesAssumption == None \notin Charges /\ Mock \subseteq Charges
ASSUME TokensAssumption == Tokens \in Nat \ {0}

VARIABLES
    package,   \* "active", "inactive" or "deleted"
    intent,    \* status of the payment_intents row of each charge, "none" without a row
    credits,   \* token_transactions rows that credit each charge
    charged,   \* gateway: charges it has made
    accepted,  \* observer: charges the user was told would be credited
    req        \* what each worker is doing: its step and the charge it works on;
               \* seen (observer): credits of the charge when the transaction read the intent

payments == <<package, intent, credits, charged, accepted, req>>
vars == <<wallet, payments>>

IntentStatuses == {"none", "pending", "succeeded"}
Steps == {"idle", "intent", "find", "refresh", "credit", "forget", "commit"}
Resting == [step |-> "idle", charge |-> None, seen |-> 0]

Idle(w) == req[w].step = "idle"
At(w, step) == req[w].step = step
Go(w, step) == req' = [req EXCEPT ![w].step = step]
Finish(w) == req' = [req EXCEPT ![w] = Resting]

-----------------------------------------------------------------------------
(* TokenWalletService::purchasePackage *)

\* The gateway charges.  HttpPaymentGateway takes a timeout for a failure.
Charge(w, c, answered) ==
    /\ Idle(w)
    /\ package = "active"
    /\ c \notin charged
    /\ c \in Mock => answered
    /\ charged' = charged \cup {c}
    /\ req' = IF answered THEN [req EXCEPT ![w] = [step |-> "intent", charge |-> c, seen |-> 0]]
              ELSE req
    /\ UNCHANGED <<wallet, package, intent, credits, accepted>>

\* createPending; the foreign key refuses a package that is gone.
CreatePending(w) ==
    /\ At(w, "intent")
    /\ LET c == req[w].charge
       IN  IF package = "deleted"
           THEN Finish(w) /\ UNCHANGED <<intent, accepted>>
           ELSE /\ intent' = [intent EXCEPT ![c] = "pending"]
                /\ IF c \in Mock
                   THEN Go(w, "find") /\ UNCHANGED accepted
                   ELSE Finish(w) /\ accepted' = accepted \cup {c}
    /\ UNCHANGED <<wallet, package, credits, charged>>

-----------------------------------------------------------------------------
(* PaymentWebhookService *)

\* The gateway reports a charge it made, as often as it likes.
Deliver(w, c) ==
    /\ Idle(w)
    /\ c \in charged \ Mock
    /\ req' = [req EXCEPT ![w] = [step |-> "find", charge |-> c, seen |-> 0]]
    /\ UNCHANGED <<wallet, package, intent, credits, charged, accepted>>

\* Mutant: the test for an intent that has succeeded is inverted.
FindMutant(w) ==
    /\ At(w, "find")
    /\ IF intent[req[w].charge] = "succeeded" THEN Go(w, "refresh") ELSE Finish(w)
    /\ UNCHANGED <<wallet, package, intent, credits, charged, accepted>>

\* 404 without an intent; nothing to do when it has succeeded.
Find(w) ==
    /\ At(w, "find")
    /\ IF intent[req[w].charge] = "pending" THEN Go(w, "refresh") ELSE Finish(w)
    /\ UNCHANGED <<wallet, package, intent, credits, charged, accepted>>

\* Mutant: the intent is read again and not looked at.
RefreshMutant(w) ==
    /\ At(w, "refresh")
    /\ IF intent[req[w].charge] # "none"
       THEN req' = [req EXCEPT ![w].step = "credit", ![w].seen = credits[req[w].charge]]
       ELSE Finish(w)
    /\ UNCHANGED <<wallet, package, intent, credits, charged, accepted>>

\* The transaction begins and reads the intent again.
Refresh(w) ==
    /\ At(w, "refresh")
    /\ IF intent[req[w].charge] = "pending"
       THEN req' = [req EXCEPT ![w].step = "credit", ![w].seen = credits[req[w].charge]]
       ELSE Finish(w)
    /\ UNCHANGED <<wallet, package, intent, credits, charged, accepted>>

\* Without its package markFailed is undone by the exception that follows it.
Credit(w) ==
    /\ At(w, "credit")
    /\ IF package = "deleted"
       THEN Finish(w) /\ UNCHANGED row
       ELSE Move(w, Tokens) /\ Go(w, "forget")
    /\ UNCHANGED <<cached, visitors, crashes, package, intent, credits, charged, accepted>>

Forget(w) ==
    /\ At(w, "forget")
    /\ cached' = Nothing
    /\ Go(w, "commit")
    /\ UNCHANGED <<row, visitors, crashes, package, intent, credits, charged, accepted>>

\* Mutant: the intent is never marked.
CommitMutant(w) ==
    /\ At(w, "commit")
    /\ CommitMove(w)
    /\ credits' = [credits EXCEPT ![req[w].charge] = @ + 1]
    /\ Finish(w)
    /\ UNCHANGED <<cached, visitors, crashes, package, intent, charged, accepted>>

\* markSucceeded and COMMIT; the intent may be gone, then there is nothing to mark.
Commit(w) ==
    /\ At(w, "commit")
    /\ CommitMove(w)
    /\ LET c == req[w].charge
       IN  /\ credits' = [credits EXCEPT ![c] = @ + 1]
           /\ intent' = [intent EXCEPT ![c] = IF @ = "none" THEN @ ELSE "succeeded"]
    /\ Finish(w)
    /\ UNCHANGED <<cached, visitors, crashes, package, charged, accepted>>

Crash(w) ==
    /\ ~Idle(w) /\ crashes < MaxCrashes
    /\ crashes' = crashes + 1
    /\ Rollback(w)
    /\ Finish(w)
    /\ UNCHANGED <<cached, visitors, package, intent, credits, charged, accepted>>

-----------------------------------------------------------------------------
(* The package in the admin panel *)

SwitchPackage ==
    /\ package # "deleted"
    /\ package' = (IF package = "active" THEN "inactive" ELSE "active")
    /\ UNCHANGED <<wallet, intent, credits, charged, accepted, req>>

\* payment_intents.token_package_id cascades: the intents go with the package.
DeletePackage ==
    /\ package # "deleted"
    /\ package' = "deleted"
    /\ intent' = [c \in Charges |-> "none"]
    /\ UNCHANGED <<wallet, credits, charged, accepted, req>>

-----------------------------------------------------------------------------

Init ==
    /\ WalletInit
    /\ package = "active"
    /\ intent = [c \in Charges |-> "none"]
    /\ credits = [c \in Charges |-> 0]
    /\ charged = {} /\ accepted = {}
    /\ req = [w \in Workers |-> Resting]

Proceed(w) ==
    \/ CreatePending(w) \/ Find(w) \/ Refresh(w) \/ Credit(w) \/ Forget(w) \/ Commit(w)

Next ==
    \/ \E w \in Workers, c \in Charges : Deliver(w, c) \/ \E answered \in BOOLEAN : Charge(w, c, answered)
    \/ \E w \in Workers : Proceed(w) \/ Crash(w)
    \/ SwitchPackage \/ DeletePackage
    \/ WalletNext /\ UNCHANGED payments

Spec == Init /\ [][Next]_vars

\* Requests run to their end; a gateway repeats a webhook that was not
\* answered with success, and finds a worker now and then.
Fairness ==
    /\ \A w \in Workers : WF_vars(Proceed(w))
    /\ \A c \in Charges : SF_vars(\E w \in Workers : Deliver(w, c))

FairSpec == Spec /\ Fairness

-----------------------------------------------------------------------------
(* Properties *)

Request == [step: Steps, charge: Charges \cup {None}, seen: Nat]

TypeOK ==
    /\ WalletTypeOK
    /\ package \in {"active", "inactive", "deleted"}
    /\ intent \in [Charges -> IntentStatuses]
    /\ credits \in [Charges -> Nat]
    /\ charged \subseteq Charges /\ accepted \subseteq Charges
    /\ req \in [Workers -> Request]

\* An intent says "succeeded" exactly when its tokens are in the wallet, crashes
\* included, and tokens are credited only for money the gateway took.
IntentsMatchCredits ==
    \A c \in Charges :
        /\ intent[c] = "succeeded" => credits[c] > 0
        /\ credits[c] > 0 => c \in charged /\ intent[c] # "pending"

\* A charge is credited again only by a transaction that read its intent before
\* the first credit committed: both webhooks found it pending, whatever was
\* repeated, killed or deleted before and after.
CreditsAgain(c) == credits[c] > 0 /\ credits'[c] > credits[c]
DoubleCreditOnlyByOverlap ==
    [][ \A c \in Charges : CreditsAgain(c) =>
          \E w \in Workers : At(w, "commit") /\ req[w].charge = c /\ req[w].seen = 0 ]_vars

\* However often a webhook is repeated, one after the other, with requests
\* killed anywhere: a charge is credited once.
CreditedOnce == \A c \in Charges : credits[c] <= 1

\* An intent of the real gateway does not stay pending, and a payment its user was
\* told is accepted is credited, unless the package is deleted.
PendingIsCredited ==
    \A c \in Charges \ Mock :
        (intent[c] = "pending" \/ c \in accepted) ~> (credits[c] > 0 \/ package = "deleted")

-----------------------------------------------------------------------------
(* What the program says, checked as it says it *)

\* app/Services/PaymentWebhookService.php:97 reads the intent again inside the
\* transaction so that one that has succeeded is not credited a second time.
SucceededIsNotCreditedAgain ==
    [][ \A c \in Charges : intent[c] = "succeeded" => credits'[c] = credits[c] ]_vars
=============================================================================
