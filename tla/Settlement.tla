----------------------------- MODULE Settlement -----------------------------
(***************************************************************************)
(* Buying credits (src/app/routers/billing.py, payments.py, invoices.py):  *)
(* a top-up is recorded and an order opened at the gateway; the customer   *)
(* pays there; the gateway's webhook, the browser's callback and the       *)
(* shared-secret endpoint all report the payment, in any order and any     *)
(* number of times; and _settle claims the top-up, grants its credits,     *)
(* upgrades the plan, invoices it and sends the receipt, one await at a    *)
(* time.  Slots are handlers in flight at once: a slot that has answered   *)
(* takes the next delivery, so redeliveries are unlimited.                 *)
(***************************************************************************)
EXTENDS Credits

CONSTANTS Payments,           \* top-ups; also the ids of their gateway orders
          GatewayIds,         \* payment ids the gateway hands out
          NoPayment, NoId,
          Slots,              \* settlement handlers running at once
          Offers,             \* what can be bought: credit units and a plan
          Plans, NoPlan,
          GatewaySettings,    \* the values RAZORPAY_KEY_ID being set takes
          OperatorConfirms    \* BILLING_WEBHOOK_SECRET is set and in use

ASSUME SettlementAssumption ==
  /\ Payments \subseteq Refs
  /\ NoPayment \notin Payments
  /\ NoId \notin GatewayIds
  /\ Offers \subseteq [units: Nat, plan: Plans \cup {NoPlan}]
  /\ GatewaySettings \subseteq BOOLEAN
  /\ OperatorConfirms \in BOOLEAN

VARIABLES topup,     \* what each top-up is for, and whose it is
          stage,     \* where its create_top_up handler is
          payment,   \* its document in payments
          attempt,   \* at the gateway: the order each gateway payment pays
          job,       \* the settlement handlers
          counter,   \* counters.invoice_number.seq
          invoices,  \* the invoices issued
          receipts,  \* receipts sent for each top-up
          plan,      \* users.plan
          acked,     \* gateway payments whose webhook was answered with 200
          via        \* history: how each top-up came to be settled

settleVars ==
  <<topup, stage, payment, attempt, job, counter, invoices, receipts, plan, acked, via>>

TopUp == [user: Users, offer: Offers]

Stages == {"absent", "recorded", "ordered", "open", "manual", "abandoned"}

Routes == {"webhook", "callback", "operator"}

Document == [status: {"absent", "pending", "paid"},
             order: BOOLEAN,                 \* provider_order_id is stored
             gid: GatewayIds \cup {NoId},    \* provider_payment_id
             invoice: Nat]                   \* invoice_number, 0 for none

NoDocument == [status |-> "absent", order |-> FALSE, gid |-> NoId, invoice |-> 0]

\* Positions of a settlement, named for the operation that comes next.
Positions ==
  {"claim", "grant", "append", "plan", "number", "insert", "stamp", "receipt"}

NoRow == [units |-> 0]

Job == [at: Positions, p: Payments, g: GatewayIds, via: Routes,
        row: Row \cup {NoRow}, no: Nat]

Idle == [at |-> "idle"]

Invoice == [no: Nat, payment: Payments]

Units(p) == topup[p].offer.units

SettlementInit ==
  /\ topup \in [Payments -> TopUp]
  /\ stage = [p \in Payments |-> "absent"]
  /\ payment = [p \in Payments |-> NoDocument]
  /\ attempt = [g \in GatewayIds |-> NoPayment]
  /\ job = [h \in Slots |-> Idle]
  /\ counter = 0
  /\ invoices = {}
  /\ receipts = [p \in Payments |-> 0]
  /\ plan = [u \in Users |-> NoPlan]
  /\ acked = {}
  /\ via = [p \in Payments |-> "none"]

-----------------------------------------------------------------------------
(***************************************************************************)
(* create_top_up, and the customer paying the order.                       *)
(***************************************************************************)
orderVars == <<topup, job, counter, invoices, receipts, plan, acked, via>>

TopUpStep(p, from, to) ==
  /\ stage[p] = from
  /\ stage' = [stage EXCEPT ![p] = to]
  /\ UNCHANGED <<orderVars, attempt>>

\* The pending top-up is stored before the gateway hears of it.
RecordTopUp(p) ==
  /\ TopUpStep(p, "absent", "recorded")
  /\ UNCHANGED creditVars
  /\ payment' = [payment EXCEPT ![p].status = "pending"]

\* Without a gateway the top-up is answered as it stands, with no checkout.
OpenWithoutGateway(p) ==
  /\ FALSE \in GatewaySettings
  /\ TopUpStep(p, "recorded", "manual")
  /\ UNCHANGED <<payment, creditVars>>

\* The gateway opens an order; it refuses one for less than it can charge,
\* which is what an amount too small to buy any credits comes to.
CreateOrder(p) ==
  /\ TRUE \in GatewaySettings
  /\ Units(p) > 0
  /\ TopUpStep(p, "recorded", "ordered")
  /\ UNCHANGED <<payment, creditVars>>

\* PaymentGatewayError (refused, unreachable, timed out): 502, and the pending
\* top-up stays.
OrderFails(p) ==
  /\ TRUE \in GatewaySettings
  /\ TopUpStep(p, "recorded", "abandoned")
  /\ UNCHANGED <<payment, creditVars>>

\* The order id is stored and the checkout answered.
SaveOrder(p) ==
  /\ TopUpStep(p, "ordered", "open")
  /\ payment' = [payment EXCEPT ![p].order = TRUE]
  /\ UNCHANGED creditVars

\* The handler dies before it answers.
TopUpDies(p) ==
  /\ Failure
  /\ stage[p] \in {"recorded", "ordered"}
  /\ TopUpStep(p, stage[p], "abandoned")
  /\ UNCHANGED payment

\* The customer pays the order of a checkout, possibly more than once: a first
\* attempt may come through late.
Pay(p, g) ==
  /\ stage[p] = "open"
  /\ attempt[g] = NoPayment
  /\ attempt' = [attempt EXCEPT ![g] = p]
  /\ UNCHANGED <<orderVars, stage, payment, creditVars>>

-----------------------------------------------------------------------------
(***************************************************************************)
(* The three ways a payment is reported.                                   *)
(***************************************************************************)
requestVars == <<topup, stage, attempt, creditVars>>

Accept(h, p, g, route) ==
  /\ job[h] = Idle
  /\ job' = [job EXCEPT ![h] = [at |-> "claim", p |-> p, g |-> g, via |-> route,
                                row |-> NoRow, no |-> 0]]

\* payment_webhook: the payment is looked up by the order it pays.  An unknown
\* order is acknowledged, so that the gateway stops retrying.
Webhook(h, g) ==
  LET p == attempt[g]
  IN  /\ p # NoPayment
      /\ job[h] = Idle
      /\ IF payment[p].order
         THEN Accept(h, p, g, "webhook") /\ UNCHANGED acked
         ELSE acked' = acked \cup {g} /\ UNCHANGED job
      /\ UNCHANGED <<requestVars, payment, counter, invoices, receipts, plan, via>>

\* Mistake: a valid signature is enough, whatever order it is for.
OrderMatchesAny(p, order) == payment[p].status # "absent"

\* verify_checkout: is the order the browser names the one p was created with?
OrderMatches(p, order) == payment[p].order /\ p = order

\* verify_checkout, called by u for top-up p with the values of payment g,
\* which the gateway has signed.  What does not match is refused (400, 404).
Callback(h, u, p, g) ==
  /\ attempt[g] # NoPayment
  /\ payment[p].status # "absent" /\ topup[p].user = u
  /\ OrderMatches(p, attempt[g])
  /\ Accept(h, p, g, "callback")
  /\ UNCHANGED <<requestVars, payment, counter, invoices, receipts, plan, acked, via>>

\* confirm_payment: whoever holds the shared secret names both ids.
Confirm(h, p, g) ==
  /\ OperatorConfirms
  /\ payment[p].status # "absent"
  /\ Accept(h, p, g, "operator")
  /\ UNCHANGED <<requestVars, payment, counter, invoices, receipts, plan, acked, via>>

-----------------------------------------------------------------------------
(***************************************************************************)
(* _settle.                                                                *)
(***************************************************************************)

\* Handler h is about to do what `from` names.
At(h, from) == job[h].at = from

Goto(h, to) == job' = [job EXCEPT ![h].at = to]

\* The handler answers 200, or with an error; the slot is free again.
Answer(h) ==
  /\ job' = [job EXCEPT ![h] = Idle]
  /\ acked' = IF job[h].via = "webhook" THEN acked \cup {job[h].g} ELSE acked

AnswerError(h) ==
  /\ job' = [job EXCEPT ![h] = Idle]
  /\ UNCHANGED acked

\* Mistake: the claim matches the order whatever its status.
ClaimableAny(p) == payment[p].status # "absent"

\* Mistake: the filter names a status no top-up ever has.
ClaimableCreated(p) == payment[p].status = "created"

\* The filter of the claim.
Claimable(p) == payment[p].status = "pending"

\* The unique index on provider_payment_id.
Applied(p, g) == \E q \in Payments \ {p} : payment[q].gid = g

\* Pending to paid, in one conditional update.
Claim(h) ==
  LET p == job[h].p
      g == job[h].g
  IN  /\ At(h, "claim")
      /\ Claimable(p)
      /\ ~Applied(p, g)
      /\ payment' = [payment EXCEPT ![p].status = "paid", ![p].gid = g]
      /\ via' = [via EXCEPT ![p] = job[h].via]
      /\ Goto(h, "grant")
      /\ UNCHANGED <<requestVars, counter, invoices, receipts, plan, acked>>

\* DuplicateKeyError: that gateway payment has settled another order.  409.
ClaimConflict(h) ==
  /\ At(h, "claim")
  /\ Claimable(job[h].p)
  /\ Applied(job[h].p, job[h].g)
  /\ AnswerError(h)
  /\ UNCHANGED <<requestVars, payment, counter, invoices, receipts, plan, via>>

\* Mistake: a replay sends the receipt again.
ReplayAndReceipt(h) ==
  /\ At(h, "claim")
  /\ ~Claimable(job[h].p)
  /\ Answer(h)
  /\ receipts' = [receipts EXCEPT ![job[h].p] = @ + 1]
  /\ UNCHANGED <<requestVars, payment, counter, invoices, plan, via>>

\* Somebody else claimed it: replayed, 200.
ClaimReplay(h) ==
  /\ At(h, "claim")
  /\ ~Claimable(job[h].p)
  /\ Answer(h)
  /\ UNCHANGED <<requestVars, payment, counter, invoices, receipts, plan, via>>

\* Mistake: the handler drops the entry the grant returned.
GrantDropsEntry(h) ==
  LET p == job[h].p
  IN  /\ At(h, "grant")
      /\ Grant(topup[p].user, p, "purchase", Units(p))
      /\ Goto(h, "append")
      /\ UNCHANGED <<topup, stage, attempt, payment, counter, invoices, receipts, plan, acked, via>>

\* credits.grant, up to its ledger append.
GrantCredits(h) ==
  LET p == job[h].p
      u == topup[p].user
  IN  /\ At(h, "grant")
      /\ Grant(u, p, "purchase", Units(p))
      /\ job' = [job EXCEPT ![h].at = "append",
                            ![h].row = RowFor(u, p, "purchase", Units(p))]
      /\ UNCHANGED <<topup, stage, attempt, payment, counter, invoices, receipts, plan, acked, via>>

\* A top-up too small to be any credit unit: grant raises, after the claim.
GrantRefused(h) ==
  /\ At(h, "grant")
  /\ Units(job[h].p) = 0
  /\ AnswerError(h)
  /\ UNCHANGED <<requestVars, payment, counter, invoices, receipts, plan, via>>

\* Mistake: the balance is moved and the ledger forgotten.
SkipLedger(h) ==
  /\ At(h, "append")
  /\ Goto(h, "plan")
  /\ UNCHANGED <<requestVars, payment, counter, invoices, receipts, plan, acked, via>>

\* The ledger row, then the plan if it is a pack and the invoice if not.
AppendGrant(h) ==
  /\ At(h, "append")
  /\ AppendLedger(job[h].row)
  /\ Goto(h, IF topup[job[h].p].offer.plan # NoPlan THEN "plan" ELSE "number")
  /\ UNCHANGED <<topup, stage, attempt, payment, counter, invoices, receipts, plan, acked, via>>

UpgradePlan(h) ==
  /\ At(h, "plan")
  /\ plan' = [plan EXCEPT ![topup[job[h].p].user] = topup[job[h].p].offer.plan]
  /\ Goto(h, "number")
  /\ UNCHANGED <<requestVars, payment, counter, invoices, receipts, acked, via>>

\* Mistake: the next number is read off the invoices there are.
CountInvoices(h) ==
  /\ At(h, "number")
  /\ counter' = counter + 1
  /\ job' = [job EXCEPT ![h].at = "insert", ![h].no = Cardinality(invoices) + 1]
  /\ UNCHANGED <<requestVars, payment, invoices, receipts, plan, acked, via>>

\* next_invoice_number: one $inc that returns the new value.
DrawNumber(h) ==
  /\ At(h, "number")
  /\ counter' = counter + 1
  /\ job' = [job EXCEPT ![h].at = "insert", ![h].no = counter + 1]
  /\ UNCHANGED <<requestVars, payment, invoices, receipts, plan, acked, via>>

\* The unique indexes on invoice_number and payment_id.
Collides(h) == \E i \in invoices : i.no = job[h].no \/ i.payment = job[h].p

\* issue_for_payment stores the invoice, or swallows the duplicate.
InsertInvoice(h) ==
  /\ At(h, "insert")
  /\ IF Collides(h)
     THEN Goto(h, "receipt") /\ UNCHANGED invoices
     ELSE /\ invoices' = invoices \cup {[no |-> job[h].no, payment |-> job[h].p]}
          /\ Goto(h, "stamp")
  /\ UNCHANGED <<requestVars, payment, counter, receipts, plan, acked, via>>

\* issue_for_payment swallows any exception: settled, without an invoice.
InvoiceFails(h) ==
  /\ Failure
  /\ At(h, "number") \/ At(h, "insert")
  /\ Goto(h, "receipt")
  /\ UNCHANGED <<topup, stage, attempt, payment, counter, invoices, receipts, plan, acked, via>>

StampPayment(h) ==
  /\ At(h, "stamp")
  /\ payment' = [payment EXCEPT ![job[h].p].invoice = job[h].no]
  /\ Goto(h, "receipt")
  /\ UNCHANGED <<requestVars, counter, invoices, receipts, plan, acked, via>>

\* _send_deposit_receipt never raises; then the confirmation is answered.
SendReceipt(h) ==
  /\ At(h, "receipt")
  /\ receipts' = [receipts EXCEPT ![job[h].p] = @ + 1]
  /\ Answer(h)
  /\ UNCHANGED <<requestVars, payment, counter, invoices, plan, via>>

\* The handler dies, or an operation raises: no answer, or a 500.  What it
\* wrote stays.
Fail(h) ==
  /\ Failure
  /\ job[h] # Idle
  /\ AnswerError(h)
  /\ UNCHANGED <<topup, stage, attempt, payment, counter, invoices, receipts, plan, via>>

-----------------------------------------------------------------------------
TopUpNext(p) ==
  \/ RecordTopUp(p) \/ OpenWithoutGateway(p) \/ CreateOrder(p) \/ OrderFails(p)
  \/ SaveOrder(p) \/ TopUpDies(p)
  \/ \E g \in GatewayIds : Pay(p, g)

Report(h) ==
  \/ \E g \in GatewayIds : Webhook(h, g)
  \/ \E p \in Payments, g \in GatewayIds :
       Confirm(h, p, g) \/ \E u \in Users : Callback(h, u, p, g)

Settle(h) ==
  \/ Claim(h) \/ ClaimConflict(h) \/ ClaimReplay(h)
  \/ GrantCredits(h) \/ GrantRefused(h) \/ AppendGrant(h) \/ UpgradePlan(h)
  \/ DrawNumber(h) \/ InsertInvoice(h) \/ StampPayment(h) \/ SendReceipt(h)

vars == <<creditVars, settleVars>>

\* No top-up got as far as a checkout: there is nothing left to report.
Terminated ==
  /\ \A p \in Payments : stage[p] = "abandoned"
  /\ \A h \in Slots : job[h] = Idle
  /\ UNCHANGED vars

Init == CreditsInit /\ SettlementInit

Next ==
  \/ \E p \in Payments : TopUpNext(p)
  \/ \E h \in Slots : Report(h) \/ Settle(h) \/ InvoiceFails(h) \/ Fail(h)
  \/ Terminated

Spec == Init /\ [][Next]_vars

\* The gateway delivers a webhook again until it is answered with 200, and a
\* worker runs the handlers it has started.  A delivery may find every slot
\* taken, again and again, hence strong fairness.
Redeliver(g) == g \notin acked /\ \E h \in Slots : Webhook(h, g)

FairSpec ==
  /\ Spec
  /\ \A h \in Slots : WF_vars(Settle(h))
  /\ \A g \in GatewayIds : SF_vars(Redeliver(g))

-----------------------------------------------------------------------------
(***************************************************************************)
(* Properties.                                                             *)
(***************************************************************************)

TypeOK ==
  /\ CreditsTypeOK
  /\ topup \in [Payments -> TopUp]
  /\ stage \in [Payments -> Stages]
  /\ payment \in [Payments -> Document]
  /\ attempt \in [GatewayIds -> Payments \cup {NoPayment}]
  /\ job \in [Slots -> Job \cup {Idle}]
  /\ counter \in Nat
  /\ invoices \in SUBSET Invoice
  /\ receipts \in [Payments -> Nat]
  /\ plan \in [Users -> Plans \cup {NoPlan}]
  /\ acked \in SUBSET GatewayIds
  /\ via \in [Payments -> Routes \cup {"none"}]

Credited(p) == \E m \in moves : m.ref = p

\* However often and by whichever way a payment is reported, the top-up is
\* credited at most once, to whoever created it, with what it was sold as, and
\* never before it was claimed (_settle: "only the first arrival credits the
\* account; the rest read as replays").
CreditedOncePerPayment ==
  \A m \in moves :
    /\ m.user = topup[m.ref].user /\ m.units = Units(m.ref)
    /\ payment[m.ref].status = "paid"
    /\ \A n \in moves : m.ref = n.ref => m = n

\* One gateway payment never settles two top-ups, even when an operator names
\* it for both (_settle: "never credit the same money twice").
OnePaymentSettlesOneOrder ==
  \A p, q \in Payments : payment[p].gid # NoId /\ payment[p].gid = payment[q].gid => p = q

\* Unless an operator said otherwise, what settled a top-up is a payment of
\* that top-up's own order (verify_checkout: "a valid signature from someone
\* else's order would settle this one").
SettledByItsOwnOrder ==
  \A p \in Payments : 
    via[p] \in {"webhook", "callback"} => attempt[payment[p].gid] = p

\* The customer cannot pay an order this service would not recognise: the id
\* is stored before the checkout is answered (create_top_up, payment_webhook).
PaidOrdersAreKnown ==
  \A g \in GatewayIds : attempt[g] # NoPayment => payment[attempt[g]].order

\* Whoever reports a payment, and whenever, the top-up it settles is the one
\* that was paid (_settle, create_top_up, payment_webhook, verify_checkout).
PaymentsMatchOrders ==
  OnePaymentSettlesOneOrder /\ SettledByItsOwnOrder /\ PaidOrdersAreKnown

\* No invoice is lost to a number or a payment that is already taken, whatever
\* settlements run at the same time, and the number shown on a payment is that
\* of its own invoice, of credits it has received (invoices.py).
InvoicesNeverCollide ==
  /\ \A h \in Slots : At(h, "insert") => ~Collides(h)
  /\ \A h, k \in Slots : 
       At(h, "insert") /\ At(k, "insert") /\ job[h].no = job[k].no => h = k
  /\ \A i \in invoices : Credited(i.payment)
  /\ \A p \in Payments : 
       payment[p].invoice # 0 => [no |-> payment[p].invoice, payment |-> p] \in invoices

\* The numbers that were drawn, are on no invoice, and never will be: no handler
\* is about to store one of them.
Gaps ==
  {n \in 1..counter :
     /\ \A i \in invoices : i.no # n
     /\ \A h \in Slots : ~(At(h, "insert") /\ job[h].no = n)}

\* Each number missing from the sequence was lost to a failure of its own: no
\* two settlements, however they interleave, waste one (next_invoice_number,
\* issue_for_payment: "accounting expects an unbroken sequence").
GapsAreFailures == Cardinality(Gaps) <= failures

\* Both: nobody's invoice is lost, and nobody's number.
InvoicesInSequence == InvoicesNeverCollide /\ GapsAreFailures

\* A customer gets at most one receipt for a top-up, and only once its credits
\* are in the ledger (_settle: "a redelivered webhook does not send a second").
OneReceiptPerPayment ==
  \A p \in Payments :
    /\ receipts[p] <= 1
    /\ receipts[p] = 1 => \E row \in ledger : row.ref = p /\ row.units = Units(p)

Account == INSTANCE CreditAccount WITH enforced <- TRUE

\* Settlement moves accounts the way CreditAccount promises: one movement for
\* each top-up, showing the balance it left.
ImplementsCreditAccount == Account!Spec

\* p was claimed by a handler that died before it granted anything.
Stranded(p) ==
  /\ payment[p].status = "paid"
  /\ ~Credited(p)
  /\ \A h \in Slots : ~(At(h, "grant") /\ job[h].p = p)

\* With the gateway redelivering, a customer who has paid gets the credits, even
\* one who closes the browser, and even when a delivery dies before its claim
\* (payment_webhook: "the authoritative confirmation"); the one exception is a
\* handler that dies between its claim and its grant.
PaidOrdersAreCredited ==
  \A g \in GatewayIds, p \in Payments : attempt[g] = p ~> Credited(p) \/ Stranded(p)

\* What README.md:705 says, "Webhook redelivery is safe", and billing.py:565,
\* "This is what settles a payment when the customer closes the browser": once
\* a webhook was answered with 200, and no handler is at work on the top-up any
\* more, its credits are there.
AcknowledgedMeansCredited ==
  \A g \in acked :
    \/ Credited(attempt[g])
    \/ \E h \in Slots : job[h] # Idle /\ job[h].p = attempt[g]
=============================================================================
