------------------------------- MODULE Billing -------------------------------
(***************************************************************************)
(* The credit store with everything that moves it: calls being metered     *)
(* (Metering), top-ups being settled (Settlement) and accounts being       *)
(* closed (src/app/routers/account.py, delete_account), all in progress at *)
(* once on the same documents.                                             *)
(*                                                                         *)
(* Closing revokes the API keys and the sessions, anonymises the user and  *)
(* moves its token_version on, and zeroes the balance: four writes.  What  *)
(* is in flight, and what the gateway has still to report, goes on.  From  *)
(* the third write on the customer starts nothing, but with a session that *)
(* was renewed across it: a refresh that reads the user after the write    *)
(* issues a token of the new version (NoRenewalSurvives of Sessions).      *)
(***************************************************************************)
EXTENDS Metering

CONSTANTS Payments, GatewayIds, NoPayment, NoId, Slots, Offers, Plans, NoPlan,
          GatewaySettings, OperatorConfirms

ASSUME BillingAssumption ==
  /\ Refs = Calls \cup Payments
  /\ Calls \cap Payments = {}
  /\ Offers \subseteq [units: Nat, plan: Plans \cup {NoPlan}]

VARIABLES topup, stage, payment, attempt, job, counter, invoices, receipts, plan, acked, via,
          closing,  \* the next write of each account's closure
          tokens    \* the users with an access token of their token_version

settleVars ==
  <<topup, stage, payment, attempt, job, counter, invoices, receipts, plan, acked, via>>

S == INSTANCE Settlement

billingVars == <<vars, settleVars, closing, tokens>>

Closures == {"none", "sessions", "anonymise", "zero"}

BillingInit ==
  /\ Init
  /\ S!SettlementInit
  /\ closing = [u \in Users |-> "none"]
  /\ tokens = Users

\* get_current_user looks at the token_version and at nothing else.
LoggedIn(u) == u \in tokens

-----------------------------------------------------------------------------
CloseStep(u, from, to) ==
  /\ closing[u] = from
  /\ closing' = [closing EXCEPT ![u] = to]
  /\ UNCHANGED <<meterVars, settleVars>>

\* The password is right, and it stays so: the API keys are revoked.
RevokeKeys(u) ==
  /\ LoggedIn(u)
  /\ CloseStep(u, "none", "sessions")
  /\ UNCHANGED <<creditVars, tokens>>

RevokeSessions(u) ==
  CloseStep(u, "sessions", "anonymise") /\ UNCHANGED <<creditVars, tokens>>

\* Personal data is removed and token_version moves on.
Anonymise(u) ==
  /\ CloseStep(u, "anonymise", "zero")
  /\ tokens' \in {tokens, tokens \ {u}}
  /\ UNCHANGED creditVars

EmptyAccount(u) ==
  CloseStep(u, "zero", "none") /\ ZeroBalance(u) /\ UNCHANGED tokens

\* The handler dies; whoever has a good token can start over.
ClosingDies(u) ==
  /\ Failure
  /\ \E from \in {"sessions", "anonymise", "zero"} : CloseStep(u, from, "none")
  /\ UNCHANGED tokens

\* Every write goes on for whoever holds a valid credential: an API key or a
\* token for a new call, a token for a new top-up and for the callback.
MeteringStep ==
  /\ \/ \E c \in Calls : 
          \/ LoggedIn(req[c].user) /\ Receive(c)
          \/ Step(c)
          \/ Fail(c)
     \/ BuildIndex
  /\ UNCHANGED <<settleVars, closing, tokens>>

TopUpStep(p) == 
  /\ stage[p] = "absent" => LoggedIn(topup[p].user)
  /\ S!TopUpNext(p)

ReportStep(h) ==
  \/ \E g \in GatewayIds : S!Webhook(h, g)
  \/ \E p \in Payments, g \in GatewayIds :
       \/ S!Confirm(h, p, g)
       \/ \E u \in Users : LoggedIn(u) /\ S!Callback(h, u, p, g)

SettlementStep ==
  /\ \/ \E p \in Payments : TopUpStep(p)
     \/ \E h \in Slots : ReportStep(h) \/ S!Settle(h) \/ S!InvoiceFails(h) \/ S!Fail(h)
  /\ UNCHANGED <<meterVars, closing, tokens>>

ClosureStep ==
  \E u \in Users : 
    RevokeKeys(u) \/ RevokeSessions(u) \/ Anonymise(u) \/ EmptyAccount(u) \/ ClosingDies(u)

\* Nothing is under way, and maybe nothing is left that could be started.
BillingTerminated ==
  /\ \A c \in Calls : pc[c] \in {"idle", "done", "failed"}
  /\ \A h \in Slots : job[h] = S!Idle
  /\ \A u \in Users : closing[u] = "none"
  /\ UNCHANGED billingVars

BillingNext == MeteringStep \/ SettlementStep \/ ClosureStep \/ BillingTerminated

BillingSpec == BillingInit /\ [][BillingNext]_billingVars

-----------------------------------------------------------------------------
BillingTypeOK == TypeOK /\ S!TypeOK /\ closing \in [Users -> Closures]
                 /\ tokens \subseteq Users

\* No call, settlement or closure is at work on u's money.
Quiet(u) ==
  /\ \A c \in Calls : req[c].user = u => pc[c] \notin InFlight
  /\ \A h \in Slots : job[h] # S!Idle => topup[job[h].p].user # u

\* What a set of rows comes to.
Total(rows) == SumFunctionOnSet([row \in rows |-> row.units], rows)

\* Each ledger row shows a movement as it was, with the balance it left, in
\* whatever order the rows are appended; and while nothing has failed the ledger
\* and what closing wrote off account for every unit of the balance whenever
\* nothing is in flight, although each movement writes the balance and its
\* ledger row separately (credits.py, account.py).
LedgerMatchesBalance ==
  /\ ledger \subseteq moves
  /\ failures = 0 =>
       \A u \in Users : Quiet(u) =>
         balance[u] = Opening[u] - forfeited[u]
                      + Total({row \in ledger : row.user = u})
=============================================================================
