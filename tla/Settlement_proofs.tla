-------------------------- MODULE Settlement_proofs --------------------------
(***************************************************************************)
(* Proofs about Settlement, for any number of top-ups, gateway payments    *)
(* and handlers, any offers and settings, and any number of failures.      *)
(*                                                                         *)
(* Everything rests on the claim: the handler whose conditional update     *)
(* found the top-up pending owns it from then on (Owners), so what it does *)
(* later - grant, ledger row, invoice, receipt - is done once, although    *)
(* each is a write of its own.  The inductive invariant is TypeOK with     *)
(* Owners, Grants, Receipts, Ids and Numbers, proved in that order.        *)
(***************************************************************************)
EXTENDS Settlement, FiniteSetTheorems, TLAPS

\* Positions of a handler whose claim succeeded.
Claimed == Positions \ {"claim"}

\* A claimed top-up is paid and in the hands of one handler.
Owners ==
  /\ \A p \in Payments : stage[p] = "absent" => payment[p].status = "absent"
  /\ \A h \in Slots : job[h].at \in Claimed => payment[job[h].p].status = "paid"
  /\ \A h, k \in Slots : 
       job[h].at \in Claimed /\ job[k].at \in Claimed /\ job[h].p = job[k].p => h = k

\* The owner has granted the credits, or not yet.
Grants ==
  /\ CreditedOncePerPayment
  /\ \A m \in moves : m.ref \in Payments
  /\ \A h \in Slots :
       /\ At(h, "grant") => ~Credited(job[h].p)
       /\ job[h].at \in Claimed \ {"grant"} => Credited(job[h].p)

InLedger(p) == \E row \in ledger : row.ref = p /\ row.units = Units(p)

\* The owner has written the ledger row, or holds it; then come the receipts.
Receipts ==
  /\ \A h \in Slots :
       /\ At(h, "append") => job[h].row.ref = job[h].p /\ job[h].row.units = Units(job[h].p)
       /\ job[h].at \in Claimed \ {"grant", "append"} => InLedger(job[h].p)
       /\ job[h].at \in Claimed => receipts[job[h].p] = 0
  /\ \A p \in Payments : 
       receipts[p] # 0 => receipts[p] = 1 /\ payment[p].status = "paid" /\ InLedger(p)

\* A gateway payment settles one top-up; a report that names it is of its order.
GatewaySays == {"webhook", "callback"}

Ids ==
  /\ OnePaymentSettlesOneOrder
  /\ PaidOrdersAreKnown
  /\ \A p \in Payments : 
       /\ payment[p].gid # NoId => payment[p].status = "paid"
       /\ via[p] # "none" => payment[p].gid # NoId
       /\ stage[p] = "open" => payment[p].order
  /\ SettledByItsOwnOrder
  /\ \A h \in Slots : 
       At(h, "claim") /\ job[h].via \in GatewaySays => attempt[job[h].g] = job[h].p

\* Positions before the invoice is stored.
Uninvoiced == {"grant", "append", "plan", "number", "insert"}

\* Numbers in hand and on invoices are all different, and none is ahead of the
\* counter.
Numbers ==
  /\ \A i \in invoices : i.no <= counter /\ Credited(i.payment)
  /\ \A h \in Slots : 
       /\ At(h, "insert") => job[h].no <= counter /\ \A i \in invoices : i.no # job[h].no
       /\ job[h].at \in Uninvoiced => \A i \in invoices : i.payment # job[h].p
       /\ At(h, "stamp") => [no |-> job[h].no, payment |-> job[h].p] \in invoices
  /\ \A h, k \in Slots :
       At(h, "insert") /\ At(k, "insert") /\ job[h].no = job[k].no => h = k
  /\ \A p \in Payments : 
       payment[p].invoice # 0 => [no |-> payment[p].invoice, payment |-> p] \in invoices

-----------------------------------------------------------------------------
(***************************************************************************)
(* Types.  A handler about to append holds a row, which is what keeps the  *)
(* ledger a set of rows.                                                   *)
(***************************************************************************)
AppendHasRow == \A h \in Slots : At(h, "append") => job[h].row \in Row

TypeInv == TypeOK /\ AppendHasRow

\* What a handler works on has a type.
LEMMA JobType ==
  ASSUME TypeOK, NEW h \in Slots, job[h] # Idle
  PROVE  job[h] \in Job /\ job[h].p \in Payments /\ job[h].g \in GatewayIds
         /\ job[h].no \in Nat /\ job[h].via \in Routes /\ job[h].at \in Positions
<1>1. job[h] \in Job
  BY DEF TypeOK
<1>2. QED
  BY <1>1 DEF Job

\* What a top-up buys is a number of units, credited to a user.
LEMMA TopUpType ==
  ASSUME TypeOK, NEW p \in Payments
  PROVE  topup[p].user \in Users /\ Units(p) \in Nat /\ p \in Refs
         /\ topup[p].offer.plan \in Plans \cup {NoPlan}
<1>1. topup[p].user \in Users /\ topup[p].offer \in Offers
  BY DEF TypeOK, TopUp
<1>2. topup[p].offer \in [units: Nat, plan: Plans \cup {NoPlan}] /\ p \in Refs
  BY <1>1, SettlementAssumption
<1>3. QED
  BY <1>1, <1>2 DEF Units

\* A position other than "idle" means there is a job.
LEMMA Busy ==
  ASSUME NEW h \in Slots, NEW a \in Positions, At(h, a)
  PROVE  job[h] # Idle
BY DEF At, Idle, Positions

\* Only a grant and a ledger append touch the accounts; the rest leave them, or
\* count a failure.
LEMMA CreditsStill ==
  ASSUME CreditsTypeOK, UNCHANGED creditVars \/ Failure
  PROVE  CreditsTypeOK'
BY CreditsAssumption DEF CreditsTypeOK, creditVars, Failure

\* Moving a handler on keeps it a job, and changes only its position.
LEMMA GotoType ==
  ASSUME TypeInv, NEW h \in Slots, job[h] # Idle, NEW a \in Positions \ {"append"}, Goto(h, a)
  PROVE  job' \in [Slots -> Job \cup {Idle}] /\ AppendHasRow'
<1>1. job[h] \in Job /\ job' = [job EXCEPT ![h] = [job[h] EXCEPT !.at = a]]
  BY JobType DEF Goto, TypeInv
<1>2. [job[h] EXCEPT !.at = a] \in Job /\ [job[h] EXCEPT !.at = a].at = a
  BY <1>1 DEF Job
<1>3. QED
  BY <1>1, <1>2 DEF TypeInv, TypeOK, AppendHasRow, At

\* Every variable of Settlement keeps its type.
THEOREM TypeCorrect == Spec => []TypeOK
<1>1. ASSUME Init PROVE TypeInv
  <2>1. CreditsTypeOK
    BY <1>1, CreditsAssumption DEF Init, CreditsInit, CreditsTypeOK
  <2>2. payment \in [Payments -> Document]
    BY <1>1 DEF Init, SettlementInit, NoDocument, Document
  <2>3. QED
    BY <1>1, <2>1, <2>2
    DEF Init, SettlementInit, TypeInv, AppendHasRow, At, Idle, TypeOK, Stages
<1>2. ASSUME TypeInv, [Next]_vars PROVE TypeInv'
  <2> USE <1>2 DEF TypeInv
  <2>1. ASSUME NEW p \in Payments, TopUpNext(p) PROVE TypeInv'
    <3>1. CreditsTypeOK'
      <4>1. UNCHANGED creditVars \/ Failure
        BY <2>1
        DEF TopUpNext, RecordTopUp, OpenWithoutGateway, CreateOrder, OrderFails, SaveOrder,
            TopUpDies, Pay
      <4>2. QED
        BY <4>1, CreditsStill DEF TypeOK
    <3>2. stage' \in [Payments -> Stages]
      BY <2>1
      DEF TopUpNext, RecordTopUp, OpenWithoutGateway, CreateOrder, OrderFails, SaveOrder,
          TopUpDies, Pay, TopUpStep, TypeOK, Stages
    <3>3. payment' \in [Payments -> Document]
      <4>1. payment \in [Payments -> Document]
        BY DEF TypeOK
      <4>2. CASE RecordTopUp(p)
        BY <4>1, <4>2 DEF RecordTopUp, Document
      <4>3. CASE SaveOrder(p)
        BY <4>1, <4>3 DEF SaveOrder, Document
      <4>4. CASE UNCHANGED payment
        BY <4>1, <4>4
      <4>5. QED
        BY <2>1, <4>2, <4>3, <4>4
        DEF TopUpNext, OpenWithoutGateway, CreateOrder, OrderFails, TopUpDies, Pay
    <3>4. attempt' \in [GatewayIds -> Payments \cup {NoPayment}]
      BY <2>1
      DEF TopUpNext, RecordTopUp, OpenWithoutGateway, CreateOrder, OrderFails, SaveOrder,
          TopUpDies, Pay, TopUpStep, TypeOK
    <3>5. UNCHANGED orderVars
      BY <2>1
      DEF TopUpNext, RecordTopUp, OpenWithoutGateway, CreateOrder, OrderFails, SaveOrder,
          TopUpDies, Pay, TopUpStep
    <3>6. QED
      BY <3>1, <3>2, <3>3, <3>4, <3>5 DEF orderVars, TypeOK, AppendHasRow, At
  <2>2. ASSUME NEW h \in Slots, Report(h) PROVE TypeInv'
    <3>1. UNCHANGED <<topup, stage, attempt, creditVars, payment, counter, invoices, receipts, 
                      plan, via>>
      BY <2>2 DEF Report, Webhook, Callback, Confirm, requestVars
    <3>2. acked' \in SUBSET GatewayIds
      BY <2>2 DEF Report, Webhook, Callback, Confirm, TypeOK
    <3>3. UNCHANGED job \/ \E p \in Payments, g \in GatewayIds, r \in Routes : Accept(h, p, g, r)
      BY <2>2 DEF Report, Webhook, Callback, Confirm, TypeOK, Routes
    <3>4. job' \in [Slots -> Job \cup {Idle}] /\ AppendHasRow'
      <4>1. CASE UNCHANGED job
        BY <4>1 DEF TypeOK, AppendHasRow, At
      <4>2. ASSUME NEW p \in Payments, NEW g \in GatewayIds, NEW r \in Routes, 
                   Accept(h, p, g, r)
            PROVE  job' \in [Slots -> Job \cup {Idle}] /\ AppendHasRow'
        <5> DEFINE new == [at |-> "claim", p |-> p, g |-> g, via |-> r, row |-> NoRow, no |-> 0]
        <5>1. new \in Job /\ new.at # "append"
          BY DEF Job, Positions
        <5>2. job' = [job EXCEPT ![h] = new]
          BY <4>2 DEF Accept
        <5>3. QED
          BY <5>1, <5>2 DEF TypeOK, AppendHasRow, At
      <4>3. QED
        BY <3>3, <4>1, <4>2
    <3>5. QED
      BY <3>1, <3>2, <3>4, CreditsStill DEF TypeOK
  <2>3. ASSUME NEW h \in Slots, InvoiceFails(h) \/ Fail(h) PROVE TypeInv'
    <3>1. CreditsTypeOK'
      BY <2>3, CreditsStill DEF TypeOK, InvoiceFails, Fail
    <3>2. job' \in [Slots -> Job \cup {Idle}] /\ AppendHasRow'
      <4>1. CASE InvoiceFails(h)
        BY <4>1, GotoType, Busy DEF InvoiceFails, Positions
      <4>2. CASE Fail(h)
        BY <4>2 DEF Fail, AnswerError, AppendHasRow, At, TypeOK, Idle
      <4>3. QED
        BY <2>3, <4>1, <4>2
    <3>3. QED
      BY <2>3, <3>1, <3>2 DEF InvoiceFails, Fail, AnswerError, TypeOK
  <2>4. ASSUME NEW h \in Slots, Settle(h) PROVE TypeInv'
    <3>1. CASE Claim(h)
      <4>1. job[h].p \in Payments /\ job[h].g \in GatewayIds /\ job[h].via \in Routes
        BY <3>1, JobType, Busy DEF Claim, Positions
      <4>2. payment' \in [Payments -> Document]
        BY <3>1, <4>1 DEF Claim, TypeOK, Document
      <4>3. via' \in [Payments -> Routes \cup {"none"}]
        BY <3>1, <4>1 DEF Claim, TypeOK
      <4>4. job' \in [Slots -> Job \cup {Idle}] /\ AppendHasRow'
        BY <3>1, GotoType, Busy DEF Claim, Positions
      <4>5. CreditsTypeOK'
        BY <3>1, CreditsStill DEF Claim, requestVars, TypeOK
      <4>6. QED
        BY <3>1, <4>2, <4>3, <4>4, <4>5 DEF Claim, requestVars, TypeOK
    <3>2. CASE ClaimConflict(h) \/ ClaimReplay(h) \/ GrantRefused(h) \/ SendReceipt(h)
      <4>1. job[h] # Idle
        BY <3>2, Busy DEF ClaimConflict, ClaimReplay, GrantRefused, SendReceipt, Positions
      <4>2. job' = [job EXCEPT ![h] = Idle]
        BY <3>2 DEF ClaimConflict, ClaimReplay, GrantRefused, SendReceipt, Answer, AnswerError
      <4>3. job' \in [Slots -> Job \cup {Idle}] /\ AppendHasRow'
        BY <4>2 DEF TypeOK, AppendHasRow, At, Idle
      <4>4. acked' \in SUBSET GatewayIds
        BY <3>2, <4>1, JobType 
        DEF ClaimConflict, ClaimReplay, GrantRefused, SendReceipt, Answer, AnswerError, TypeOK
      <4>5. receipts' \in [Payments -> Nat]
        BY <3>2, <4>1, JobType 
        DEF ClaimConflict, ClaimReplay, GrantRefused, SendReceipt, TypeOK
      <4>6. UNCHANGED <<topup, stage, attempt, creditVars, payment, counter, invoices, plan, via>>
        BY <3>2 DEF ClaimConflict, ClaimReplay, GrantRefused, SendReceipt, requestVars
      <4>7. QED
        BY <4>3, <4>4, <4>5, <4>6, CreditsStill DEF TypeOK
    <3>3. CASE GrantCredits(h)
      <4> DEFINE p == job[h].p
                 u == topup[p].user
                 row == RowFor(u, p, "purchase", Units(p))
      <4>1. job[h] # Idle /\ job[h] \in Job /\ p \in Payments
        BY <3>3, JobType, Busy DEF GrantCredits, Positions
      <4>2. u \in Users /\ Units(p) \in Nat /\ p \in Refs
        BY <4>1, TopUpType
      <4>3. row \in Row
        BY <4>2 DEF RowFor, Row, TypeOK, CreditsTypeOK, Kinds
      <4>4. /\ balance' = [balance EXCEPT ![u] = @ + Units(p)]
            /\ moves' = moves \cup {row}
            /\ purchased' = [purchased EXCEPT ![u] = @ + Units(p)]
            /\ UNCHANGED <<ledger, forfeited, failures>>
        BY <3>3 DEF GrantCredits, Grant, Move
      <4>5. CreditsTypeOK'
        BY <4>2, <4>3, <4>4 DEF TypeOK, CreditsTypeOK
      <4>6. job' = [job EXCEPT ![h].at = "append", ![h].row = row]
        BY <3>3 DEF GrantCredits
      <4>7. job' \in [Slots -> Job \cup {Idle}] /\ AppendHasRow'
        BY <4>1, <4>3, <4>6 DEF TypeOK, AppendHasRow, At, Job, Positions
      <4>8. QED
        BY <3>3, <4>5, <4>7 DEF GrantCredits, TypeOK
    <3>4. CASE AppendGrant(h)
      <4>1. job' \in [Slots -> Job \cup {Idle}] /\ AppendHasRow'
        BY <3>4, GotoType, Busy DEF AppendGrant, Positions
      <4>2. job[h].row \in Row
        BY <3>4 DEF AppendGrant, AppendHasRow
      <4>3. CreditsTypeOK'
        BY <3>4, <4>2 DEF AppendGrant, AppendLedger, TypeOK, CreditsTypeOK
      <4>4. QED
        BY <3>4, <4>1, <4>3 DEF AppendGrant, TypeOK
    <3>5. CASE UpgradePlan(h)
      <4>1. job' \in [Slots -> Job \cup {Idle}] /\ AppendHasRow'
        BY <3>5, GotoType, Busy DEF UpgradePlan, Positions
      <4>2. plan' \in [Users -> Plans \cup {NoPlan}]
        BY <3>5, JobType, Busy, TopUpType DEF UpgradePlan, TypeOK, Positions
      <4>3. QED
        BY <3>5, <4>1, <4>2, CreditsStill DEF UpgradePlan, requestVars, TypeOK
    <3>6. CASE DrawNumber(h)
      <4>1. job[h] # Idle /\ job[h] \in Job
        BY <3>6, JobType, Busy DEF DrawNumber, Positions
      <4>2. job' \in [Slots -> Job \cup {Idle}] /\ AppendHasRow'
        <5> DEFINE new == [job[h] EXCEPT !.at = "insert", !.no = counter + 1]
        <5>1. new \in Job /\ new.at = "insert"
          <6>1. counter + 1 \in Nat
            BY DEF TypeOK
          <6>2. QED
            BY <4>1, <6>1 DEF Job, Positions
        <5>2. job' = [job EXCEPT ![h] = new]
          BY <3>6, <4>1 DEF DrawNumber, TypeOK
        <5>3. QED
          BY <5>1, <5>2 DEF TypeOK, AppendHasRow, At
      <4>3. QED
        BY <3>6, <4>2, CreditsStill DEF DrawNumber, requestVars, TypeOK
    <3>7. CASE InsertInvoice(h)
      <4>1. job[h] # Idle /\ job[h] \in Job /\ job[h].p \in Payments /\ job[h].no \in Nat
        BY <3>7, JobType, Busy DEF InsertInvoice, Positions
      <4>2. Goto(h, "receipt") \/ Goto(h, "stamp")
        BY <3>7 DEF InsertInvoice
      <4>3. job' \in [Slots -> Job \cup {Idle}] /\ AppendHasRow'
        BY <4>1, <4>2, GotoType DEF Positions
      <4>4. invoices' \in SUBSET Invoice
        BY <3>7, <4>1 DEF InsertInvoice, TypeOK, Invoice
      <4>5. QED
        BY <3>7, <4>3, <4>4, CreditsStill DEF InsertInvoice, requestVars, TypeOK
    <3>8. CASE StampPayment(h)
      <4>1. job[h] # Idle /\ job[h].p \in Payments /\ job[h].no \in Nat
        BY <3>8, JobType, Busy DEF StampPayment, Positions
      <4>2. job' \in [Slots -> Job \cup {Idle}] /\ AppendHasRow'
        BY <3>8, <4>1, GotoType DEF StampPayment, Positions
      <4>3. payment' \in [Payments -> Document]
        BY <3>8, <4>1 DEF StampPayment, TypeOK, Document
      <4>4. QED
        BY <3>8, <4>2, <4>3, CreditsStill DEF StampPayment, requestVars, TypeOK
    <3>9. QED
      BY <2>4, <3>1, <3>2, <3>3, <3>4, <3>5, <3>6, <3>7, <3>8 DEF Settle
  <2>5. CASE UNCHANGED vars
    BY <2>5 DEF vars, settleVars, creditVars, TypeOK, CreditsTypeOK, AppendHasRow, At
  <2>6. QED
    BY <2>1, <2>2, <2>3, <2>4, <2>5 DEF Next, Terminated
<1>3. QED
  BY <1>1, <1>2, PTL DEF Spec, TypeInv

-----------------------------------------------------------------------------
(***************************************************************************)
(* What the steps of a handler do to its own job and to the others.        *)
(***************************************************************************)
Others(h) == \A k \in Slots \ {h} : job'[k] = job[k]

Keeps(h) == 
  job'[h].p = job[h].p /\ job'[h].g = job[h].g /\ job'[h].via = job[h].via

\* Handler h goes from one position to another.
Moves(h, a, b) ==
  At(h, a) /\ job'[h].at = b /\ Keeps(h) /\ Others(h)

\* Handler h has answered: its slot is free.
Ends(h) == job[h] # Idle /\ job'[h].at = "idle" /\ Others(h)

\* Slot h takes a report of gateway payment g for top-up p.
Starts(h, p, g, r) ==
  /\ job[h] = Idle /\ job'[h].at = "claim" /\ job'[h].p = p /\ job'[h].g = g
  /\ job'[h].via = r /\ Others(h)

\* A handler that goes on keeps what it works on.
LEMMA GotoEffect ==
  ASSUME TypeOK, NEW h \in Slots, NEW a \in Positions, NEW b \in Positions, 
         At(h, a), Goto(h, b)
  PROVE  Moves(h, a, b) /\ job'[h].row = job[h].row /\ job'[h].no = job[h].no
<1>1. job[h] \in Job
  BY Busy, JobType
<1>2. job' = [job EXCEPT ![h] = [job[h] EXCEPT !.at = b]]
  BY DEF Goto
<1>3. QED
  BY <1>1, <1>2 DEF Moves, Keeps, Others, TypeOK, Job

\* A handler that answers frees its slot and disturbs no other.
LEMMA AnswerEffect ==
  ASSUME TypeOK, NEW h \in Slots, job[h] # Idle, Answer(h) \/ AnswerError(h)
  PROVE  Ends(h)
BY DEF Answer, AnswerError, Ends, Others, Idle, TypeOK

\* A slot that takes a report starts at the claim.
LEMMA AcceptEffect ==
  ASSUME TypeOK, NEW h \in Slots, NEW p, NEW g, NEW r, Accept(h, p, g, r)
  PROVE  Starts(h, p, g, r)
BY DEF Accept, Starts, Others, TypeOK

\* The grant leaves its handler with the ledger row to write.
LEMMA GrantEffect ==
  ASSUME TypeOK, NEW h \in Slots, GrantCredits(h)
  PROVE  /\ Moves(h, "grant", "append")
         /\ job'[h].row = RowFor(topup[job[h].p].user, job[h].p, "purchase", Units(job[h].p))
<1> DEFINE row == RowFor(topup[job[h].p].user, job[h].p, "purchase", Units(job[h].p))
<1>1. job[h] \in Job
  BY Busy, JobType DEF GrantCredits, Positions
<1>2. job' = [job EXCEPT ![h] = [job[h] EXCEPT !.at = "append", !.row = row]]
  BY DEF GrantCredits
<1>3. QED
  BY <1>1, <1>2 DEF Moves, Keeps, Others, TypeOK, Job, GrantCredits

\* A drawn number is the one after the counter.
LEMMA DrawEffect ==
  ASSUME TypeOK, NEW h \in Slots, DrawNumber(h)
  PROVE  Moves(h, "number", "insert") /\ job'[h].no = counter + 1
<1>1. job[h] \in Job
  BY Busy, JobType DEF DrawNumber, Positions
<1>2. job' = [job EXCEPT ![h] = [job[h] EXCEPT !.at = "insert", !.no = counter + 1]]
  BY DEF DrawNumber
<1>3. QED
  BY <1>1, <1>2 DEF Moves, Keeps, Others, TypeOK, Job, DrawNumber

\* Where each step of _settle takes its handler.
LEMMA SettleEffect ==
  ASSUME TypeOK, NEW h \in Slots
  PROVE  /\ Claim(h) => Moves(h, "claim", "grant")
         /\ ClaimConflict(h) \/ ClaimReplay(h) \/ GrantRefused(h) \/ SendReceipt(h) => Ends(h)
         /\ AppendGrant(h) => Moves(h, "append", "plan") \/ Moves(h, "append", "number")
         /\ UpgradePlan(h) => Moves(h, "plan", "number")
         /\ InsertInvoice(h) => /\ Moves(h, "insert", "stamp") \/ Moves(h, "insert", "receipt")
                               /\ job'[h].no = job[h].no
         /\ InvoiceFails(h) => Moves(h, "number", "receipt") \/ Moves(h, "insert", "receipt")
         /\ StampPayment(h) => Moves(h, "stamp", "receipt")
         /\ Fail(h) => Ends(h)
<1> USE DEF Positions
<1>1. Claim(h) => Moves(h, "claim", "grant")
  BY GotoEffect DEF Claim
<1>2. ClaimConflict(h) \/ ClaimReplay(h) \/ GrantRefused(h) \/ SendReceipt(h) => Ends(h)
  BY Busy, AnswerEffect DEF ClaimConflict, ClaimReplay, GrantRefused, SendReceipt
<1>3. AppendGrant(h) => Moves(h, "append", "plan") \/ Moves(h, "append", "number")
  BY GotoEffect DEF AppendGrant
<1>4. UpgradePlan(h) => Moves(h, "plan", "number")
  BY GotoEffect DEF UpgradePlan
<1>5. InsertInvoice(h) => /\ Moves(h, "insert", "stamp") \/ Moves(h, "insert", "receipt")
                          /\ job'[h].no = job[h].no
  BY GotoEffect DEF InsertInvoice
<1>6. InvoiceFails(h) => Moves(h, "number", "receipt") \/ Moves(h, "insert", "receipt")
  BY GotoEffect DEF InvoiceFails
<1>7. StampPayment(h) => Moves(h, "stamp", "receipt")
  BY GotoEffect DEF StampPayment
<1>8. Fail(h) => Ends(h)
  BY AnswerEffect DEF Fail
<1>9. QED
  BY <1>1, <1>2, <1>3, <1>4, <1>5, <1>6, <1>7, <1>8

\* A report starts at most one handler, at its claim.
LEMMA ReportEffect ==
  ASSUME TypeOK, NEW h \in Slots, Report(h)
  PROVE  \/ UNCHANGED job
         \/ \E p \in Payments, g \in GatewayIds : Starts(h, p, g, "operator")
         \/ \E p \in Payments, g \in GatewayIds, r \in GatewaySays : 
              attempt[g] = p /\ Starts(h, p, g, r)
<1>1. ASSUME NEW g \in GatewayIds, Webhook(h, g)
      PROVE  UNCHANGED job \/ (attempt[g] \in Payments /\ Starts(h, attempt[g], g, "webhook"))
  BY <1>1, AcceptEffect DEF Webhook, TypeOK
<1>2. ASSUME NEW p \in Payments, NEW g \in GatewayIds, NEW u \in Users, Callback(h, u, p, g)
      PROVE  attempt[g] = p /\ Starts(h, p, g, "callback")
  BY <1>2, AcceptEffect DEF Callback, OrderMatches
<1>3. ASSUME NEW p \in Payments, NEW g \in GatewayIds, Confirm(h, p, g)
      PROVE  Starts(h, p, g, "operator")
  BY <1>3, AcceptEffect DEF Confirm
<1>4. QED
  BY <1>1, <1>2, <1>3 DEF Report, GatewaySays

-----------------------------------------------------------------------------
(***************************************************************************)
(* What the steps leave alone.                                             *)
(***************************************************************************)

\* create_top_up and the customer touch no settlement, and of a document only
\* its status, from absent to pending, and its order.
LEMMA TopUpFrame ==
  ASSUME TypeOK, NEW p \in Payments, TopUpNext(p)
  PROVE  /\ UNCHANGED <<orderVars, balance, moves, ledger>>
         /\ \A q \in Payments :
              /\ payment'[q].gid = payment[q].gid
              /\ payment'[q].invoice = payment[q].invoice
              /\ payment[q].order => payment'[q].order
              /\ payment'[q].status # payment[q].status => 
                   stage[q] = "absent" /\ stage'[q] # "absent"
              /\ stage'[q] = "absent" => stage[q] = "absent"
<1>1. UNCHANGED <<orderVars, balance, moves, ledger>>
  BY DEF TopUpNext, RecordTopUp, OpenWithoutGateway, CreateOrder, OrderFails, SaveOrder,
         TopUpDies, Pay, TopUpStep, orderVars, creditVars, Failure
<1>2. \A q \in Payments : stage'[q] = "absent" => stage[q] = "absent"
  BY DEF TopUpNext, RecordTopUp, OpenWithoutGateway, CreateOrder, OrderFails, SaveOrder,
         TopUpDies, Pay, TopUpStep, TypeOK
<1>3. CASE RecordTopUp(p)
  BY <1>1, <1>2, <1>3 DEF RecordTopUp, TopUpStep, TypeOK, Document
<1>4. CASE SaveOrder(p)
  BY <1>1, <1>2, <1>4 DEF SaveOrder, TopUpStep, TypeOK, Document
<1>5. CASE UNCHANGED payment
  BY <1>1, <1>2, <1>5
<1>6. QED
  BY <1>3, <1>4, <1>5 DEF TopUpNext, OpenWithoutGateway, CreateOrder, OrderFails, TopUpDies, Pay

\* A report changes no more than its slot, or what the gateway has been told.
LEMMA ReportFrame ==
  ASSUME NEW h \in Slots, Report(h)
  PROVE  UNCHANGED <<requestVars, payment, counter, invoices, receipts, plan, via>>
BY DEF Report, Webhook, Callback, Confirm, requestVars

\* Each variable is changed by one step of _settle only.
LEMMA SettleFrame ==
  ASSUME TypeOK, NEW h \in Slots, Settle(h) \/ InvoiceFails(h) \/ Fail(h)
  PROVE  /\ UNCHANGED <<topup, stage, attempt>>
         /\ ~GrantCredits(h) => UNCHANGED <<balance, moves>>
         /\ ~AppendGrant(h) => UNCHANGED ledger
         /\ ~DrawNumber(h) => UNCHANGED counter
         /\ ~InsertInvoice(h) => UNCHANGED invoices
         /\ ~SendReceipt(h) => UNCHANGED receipts
         /\ ~Claim(h) => UNCHANGED via
         /\ ~Claim(h) => \A q \in Payments : /\ payment'[q].status = payment[q].status
                                             /\ payment'[q].gid = payment[q].gid
         /\ \A q \in Payments : payment'[q].order = payment[q].order
         /\ ~StampPayment(h) => \A q \in Payments : payment'[q].invoice = payment[q].invoice
<1>1. UNCHANGED <<topup, stage, attempt>>
  BY DEF Settle, Claim, ClaimConflict, ClaimReplay, GrantCredits, GrantRefused, AppendGrant, 
         UpgradePlan, DrawNumber, InsertInvoice, StampPayment, SendReceipt, InvoiceFails, Fail, 
         requestVars
<1>2. /\ ~GrantCredits(h) => UNCHANGED <<balance, moves>>
      /\ ~AppendGrant(h) => UNCHANGED ledger
  BY DEF Settle, Claim, ClaimConflict, ClaimReplay, GrantCredits, Grant, GrantRefused, AppendGrant,
         AppendLedger, UpgradePlan, DrawNumber, InsertInvoice, StampPayment, SendReceipt,
         InvoiceFails, Fail, Failure, requestVars, creditVars
<1>3. /\ ~DrawNumber(h) => UNCHANGED counter
      /\ ~InsertInvoice(h) => UNCHANGED invoices
      /\ ~SendReceipt(h) => UNCHANGED receipts
      /\ ~Claim(h) => UNCHANGED via
      /\ ~Claim(h) /\ ~StampPayment(h) => UNCHANGED payment
  BY DEF Settle, Claim, ClaimConflict, ClaimReplay, GrantCredits, GrantRefused, AppendGrant, 
         UpgradePlan, DrawNumber, InsertInvoice, StampPayment, SendReceipt, InvoiceFails, Fail
<1>4. Claim(h) => \A q \in Payments : /\ payment'[q].invoice = payment[q].invoice
                                      /\ payment'[q].order = payment[q].order
  BY DEF Claim, TypeOK, Document
<1>5. StampPayment(h) => \A q \in Payments : /\ payment'[q].status = payment[q].status
                                             /\ payment'[q].gid = payment[q].gid
                                             /\ payment'[q].order = payment[q].order
  BY DEF StampPayment, TypeOK, Document
<1>6. Claim(h) => ~StampPayment(h)
  BY DEF Claim, StampPayment, At
<1>7. QED
  BY <1>1, <1>2, <1>3, <1>4, <1>5, <1>6

\* What a claim finds, and what it writes.
LEMMA ClaimEffect ==
  ASSUME TypeOK, NEW h \in Slots, Claim(h)
  PROVE  /\ job[h].p \in Payments /\ job[h].g \in GatewayIds /\ job[h].via \in Routes
         /\ payment[job[h].p].status = "pending" /\ ~Applied(job[h].p, job[h].g)
         /\ payment'[job[h].p].status = "paid" /\ payment'[job[h].p].gid = job[h].g
         /\ via'[job[h].p] = job[h].via
         /\ \A q \in Payments \ {job[h].p} : payment'[q] = payment[q] /\ via'[q] = via[q]
<1>1. job[h].p \in Payments /\ job[h].g \in GatewayIds /\ job[h].via \in Routes
  BY JobType, Busy DEF Claim, Positions
<1>2. QED
  BY <1>1 DEF Claim, Claimable, TypeOK, Document

\* Where a handler is that has not answered.
LEMMA ClaimedJob ==
  ASSUME TypeOK, NEW h \in Slots, job[h].at \in Claimed
  PROVE  job[h] # Idle /\ job[h].p \in Payments /\ job[h].no \in Nat
BY JobType DEF Claimed, Idle, Positions

\* A step of _settle that is not a claim ends, or goes on to a later position.
LEMMA SettleOnward ==
  ASSUME TypeOK, NEW h \in Slots, Settle(h) \/ InvoiceFails(h) \/ Fail(h), ~Claim(h)
  PROVE  Ends(h) \/ \E a \in Claimed, b \in Claimed \ {"grant"} : Moves(h, a, b)
<1>1. Claimed = {"grant", "append", "plan", "number", "insert", "stamp", "receipt"}
  BY DEF Claimed, Positions
<1>2. QED
  BY <1>1, SettleEffect, GrantEffect, DrawEffect DEF Settle

-----------------------------------------------------------------------------
(***************************************************************************)
(* The owner of a top-up.                                                  *)
(***************************************************************************)

\* Here is what keeps Owners when nobody claims.
LEMMA OwnersKept ==
  ASSUME TypeOK, Owners,
         \A p \in Payments : payment[p].status = "paid" => payment'[p].status = "paid",
         \A h \in Slots : job'[h].at \in Claimed => job[h].at \in Claimed /\ job'[h].p = job[h].p,
         \A p \in Payments : stage'[p] = "absent" => 
            stage[p] = "absent" /\ payment'[p].status = payment[p].status
  PROVE  Owners'
BY ClaimedJob DEF Owners

\* Nobody but the handler whose claim succeeds becomes an owner.
LEMMA StepOwners == 
  ASSUME TypeOK, Owners, [Next]_vars
  PROVE  Owners'
<1>1. ASSUME NEW p \in Payments, TopUpNext(p) PROVE Owners'
  BY <1>1, TopUpFrame, OwnersKept DEF orderVars, Owners
<1>2. ASSUME NEW h \in Slots, Report(h) PROVE Owners'
  BY <1>2, ReportFrame, ReportEffect, OwnersKept DEF requestVars, Starts, Others, Claimed
<1>3. ASSUME NEW h \in Slots, Claim(h) PROVE Owners'
  <2>1. Moves(h, "claim", "grant")
    BY <1>3, SettleEffect
  <2>2. UNCHANGED stage
    BY <1>3, SettleFrame DEF Settle
  <2>3. \A k \in Slots \ {h} : job[k].at \in Claimed => 
          job[k].p \in Payments /\ job[k].p # job[h].p
    BY <1>3, ClaimEffect, ClaimedJob DEF Owners
  <2>4. QED
    BY <1>3, <2>1, <2>2, <2>3, ClaimEffect DEF Owners, Moves, Keeps, Others, Claimed
<1>4. ASSUME NEW h \in Slots, Settle(h) \/ InvoiceFails(h) \/ Fail(h), ~Claim(h) PROVE Owners'
  <2>1. \A k \in Slots : job'[k].at \in Claimed => job[k].at \in Claimed /\ job'[k].p = job[k].p
    BY <1>4, SettleOnward DEF Ends, Moves, Keeps, Others, At, Claimed, Positions
  <2>2. QED
    BY <1>4, <2>1, SettleFrame, OwnersKept
<1>5. CASE UNCHANGED vars
  BY <1>5 DEF vars, settleVars, Owners
<1>6. QED
  BY <1>1, <1>2, <1>3, <1>4, <1>5 DEF Next, Settle, Terminated

\* A top-up is settled by one handler.
THEOREM OneOwner == Spec => []Owners
<1>1. Init => Owners
  BY DEF Init, SettlementInit, NoDocument, Owners, Claimed, Positions, Idle
<1>2. TypeOK /\ Owners /\ [Next]_vars => Owners'
  BY StepOwners
<1>3. QED
  BY <1>1, <1>2, TypeCorrect, PTL DEF Spec

-----------------------------------------------------------------------------
(***************************************************************************)
(* The grant.                                                              *)
(***************************************************************************)

\* A paid top-up stays paid, and what a top-up is for never changes.
LEMMA PaidStays ==
  ASSUME TypeOK, Owners, [Next]_vars
  PROVE  /\ topup' = topup
         /\ \A p \in Payments : payment[p].status = "paid" => payment'[p].status = "paid"
<1>1. ASSUME NEW p \in Payments, TopUpNext(p)
      PROVE  topup' = topup /\ \A q \in Payments : 
               payment[q].status = "paid" => payment'[q].status = "paid"
  BY <1>1, TopUpFrame DEF orderVars, Owners
<1>2. ASSUME NEW h \in Slots, Report(h)
      PROVE  topup' = topup /\ payment' = payment
  BY <1>2, ReportFrame DEF requestVars
<1>3. ASSUME NEW h \in Slots, Settle(h) \/ InvoiceFails(h) \/ Fail(h)
      PROVE  topup' = topup /\ \A q \in Payments : 
               payment[q].status = "paid" => payment'[q].status = "paid"
  BY <1>3, SettleFrame, ClaimEffect
<1>4. QED
  BY <1>1, <1>2, <1>3 DEF Next, Terminated, vars, settleVars

\* Here is what keeps Grants when nobody grants.
LEMMA GrantsKept ==
  ASSUME TypeOK, Owners, Grants, [Next]_vars, UNCHANGED moves,
         \A h \in Slots : job'[h].at \in Claimed =>
           IF job'[h].at = "grant"
           THEN (job[h].at = "grant" /\ job'[h].p = job[h].p) \/ ~Credited(job'[h].p)
           ELSE job[h].at \in Claimed \ {"grant"} /\ job'[h].p = job[h].p
  PROVE  Grants'
<1>1. \A p : Credited(p)' <=> Credited(p)
  BY DEF Credited
<1>2. CreditedOncePerPayment' /\ \A m \in moves' : m.ref \in Payments
  BY PaidStays DEF Grants, CreditedOncePerPayment, Units
<1>3. \A h \in Slots :
       /\ job'[h].at = "grant" => ~Credited(job'[h].p)
       /\ job'[h].at \in Claimed \ {"grant"} => Credited(job'[h].p)
  BY DEF Grants, At, Claimed, Positions
<1>4. QED
  BY <1>1, <1>2, <1>3 DEF Grants, At

\* Only the owner grants, and only once.
LEMMA StepGrants ==
  ASSUME TypeOK, Owners, Grants, [Next]_vars
  PROVE  Grants'
<1>1. ASSUME NEW p \in Payments, TopUpNext(p) PROVE Grants'
  BY <1>1, TopUpFrame, GrantsKept DEF orderVars
<1>2. ASSUME NEW h \in Slots, Report(h) PROVE Grants'
  BY <1>2, ReportFrame, ReportEffect, GrantsKept DEF requestVars, creditVars, Starts, Others, Claimed
<1>3. ASSUME NEW h \in Slots, Claim(h) PROVE Grants'
  <2>1. Moves(h, "claim", "grant") /\ UNCHANGED moves
    BY <1>3, SettleEffect, SettleFrame DEF Settle, Claim, GrantCredits, At
  <2>2. ~Credited(job[h].p)
    BY <1>3, ClaimEffect DEF Grants, CreditedOncePerPayment, Credited
  <2>3. QED
    BY <2>1, <2>2, GrantsKept DEF Moves, Keeps, Others
<1>4. ASSUME NEW h \in Slots, GrantCredits(h) PROVE Grants'
  <2> DEFINE p == job[h].p
             row == RowFor(topup[p].user, p, "purchase", Units(p))
  <2>1. Moves(h, "grant", "append") /\ moves' = moves \cup {row}
    BY <1>4, GrantEffect DEF GrantCredits, Grant, Move
  <2>2. p \in Payments /\ ~Credited(p) /\ payment[p].status = "paid"
    BY <1>4, ClaimedJob DEF GrantCredits, Grants, At, Owners, Claimed, Positions
  <2>3. row.ref = p /\ row.user = topup[p].user /\ row.units = Units(p)
    BY DEF RowFor
  <2>4. topup' = topup /\ \A q \in Payments : payment[q].status = "paid" => payment'[q].status = "paid"
    BY PaidStays
  <2> HIDE DEF p, row
  <2>5. CreditedOncePerPayment' /\ \A m \in moves' : m.ref \in Payments
    BY <2>1, <2>2, <2>3, <2>4 DEF Grants, CreditedOncePerPayment, Units, Credited
  <2>6. \A q : Credited(q)' <=> (Credited(q) \/ q = p)
    BY <2>1, <2>3 DEF Credited
  <2>7. \A k \in Slots \ {h} : job[k].at \in Claimed => job[k].p # p
    BY <2>1 DEF Owners, Moves, At, Claimed, Positions, p
  <2>8. \A k \in Slots :
          /\ job'[k].at = "grant" => ~Credited(job[k].p)'
          /\ job'[k].at \in Claimed \ {"grant"} => Credited(job[k].p)'
    BY <2>1, <2>6, <2>7 DEF Grants, Moves, Keeps, Others, At, Claimed, Positions, p
  <2>9. QED
    BY <2>5, <2>8 DEF Grants, At
<1>5. ASSUME NEW h \in Slots, Settle(h) \/ InvoiceFails(h) \/ Fail(h), ~Claim(h), ~GrantCredits(h)
      PROVE  Grants'
  <2>1. \/ Ends(h) 
        \/ \E a \in Claimed \ {"grant"}, b \in Claimed \ {"grant"} : Moves(h, a, b)
    BY <1>5, SettleEffect, DrawEffect DEF Settle, Claimed, Positions
  <2>2. UNCHANGED moves
    BY <1>5, SettleFrame
  <2>3. QED
    BY <2>1, <2>2, GrantsKept DEF Ends, Moves, Keeps, Others, At, Claimed, Positions
<1>6. CASE UNCHANGED vars
  BY <1>6 DEF vars, settleVars, creditVars, Grants, CreditedOncePerPayment, Credited, Units, At
<1>7. QED
  BY <1>1, <1>2, <1>3, <1>4, <1>5, <1>6 DEF Next, Settle, Terminated

\* The invariant of the grant.
THEOREM GrantedByTheOwner == Spec => []Grants
<1>1. Init => Grants
  BY DEF Init, CreditsInit, SettlementInit, Grants, CreditedOncePerPayment, Claimed, Positions, At, Idle
<1>2. TypeOK /\ Owners /\ Grants /\ [Next]_vars => Grants'
  BY StepGrants
<1>3. QED
  BY <1>1, <1>2, TypeCorrect, OneOwner, PTL DEF Spec

-----------------------------------------------------------------------------
(***************************************************************************)
(* The ledger row and the receipt.                                         *)
(***************************************************************************)

\* Here is what keeps Receipts when nobody grants, appends or sends one.
LEMMA ReceiptsKept ==
  ASSUME TypeOK, Owners, Receipts, [Next]_vars, UNCHANGED <<ledger, receipts>>,
         \A h \in Slots : job'[h].at \in Claimed =>
           \/ job'[h].at = "grant" /\ receipts[job'[h].p] = 0
           \/ /\ (job'[h].at = "append") <=> (job[h].at = "append")
              /\ (job'[h].at = "grant") <=> (job[h].at = "grant")
              /\ job[h].at \in Claimed /\ job'[h].p = job[h].p
              /\ job'[h].at = "append" => job'[h].row = job[h].row
  PROVE  Receipts'
<1>1. \A p \in Payments : Units(p)' = Units(p) /\ (InLedger(p)' <=> InLedger(p))
  BY PaidStays DEF Units, InLedger
<1>2. \A h \in Slots :
       /\ job'[h].at = "append" => 
            job'[h].row.ref = job'[h].p /\ job'[h].row.units = Units(job[h].p)
       /\ job'[h].at \in Claimed \ {"grant", "append"} => InLedger(job[h].p) /\ job'[h].p = job[h].p
       /\ job'[h].at \in Claimed => receipts[job'[h].p] = 0
  BY DEF Receipts, At, Claimed, Positions
<1>3. \A h \in Slots : job'[h].at \in Claimed \ {"grant"} => 
        job[h].p \in Payments /\ job'[h].p = job[h].p
  BY ClaimedJob
<1>4. \A p \in Payments : 
        receipts'[p] # 0 => receipts'[p] = 1 /\ payment'[p].status = "paid" /\ InLedger(p)'
  BY <1>1, PaidStays DEF Receipts
<1>5. \A h \in Slots :
       /\ job'[h].at = "append" => 
            job'[h].row.ref = job'[h].p /\ job'[h].row.units = Units(job[h].p)'
       /\ job'[h].at \in Claimed \ {"grant", "append"} => InLedger(job[h].p)'
       /\ job'[h].at \in Claimed => receipts'[job'[h].p] = 0
  BY <1>1, <1>2, <1>3 DEF Claimed, Positions, Units, InLedger
<1>6. QED
  BY <1>4, <1>5 DEF Receipts, At

\* The owner writes the ledger row before it sends the receipt.
LEMMA StepReceipts ==
  ASSUME TypeOK, Owners, Receipts, [Next]_vars
  PROVE  Receipts'
<1>1. ASSUME NEW p \in Payments, TopUpNext(p) PROVE Receipts'
  BY <1>1, TopUpFrame, ReceiptsKept DEF orderVars
<1>2. ASSUME NEW h \in Slots, Report(h) PROVE Receipts'
  BY <1>2, ReportFrame, ReportEffect, ReceiptsKept
  DEF requestVars, creditVars, Starts, Others, Claimed
<1>3. ASSUME NEW h \in Slots, Claim(h) PROVE Receipts'
  <2>1. Moves(h, "claim", "grant") /\ UNCHANGED <<ledger, receipts>>
    BY <1>3, SettleEffect DEF Claim, requestVars, creditVars
  <2>2. receipts[job[h].p] = 0
    BY <1>3, ClaimEffect DEF Receipts
  <2>3. QED
    BY <2>1, <2>2, ReceiptsKept DEF Moves, Keeps, Others
<1>4. ASSUME NEW h \in Slots, GrantCredits(h) PROVE Receipts'
  <2>1. /\ Moves(h, "grant", "append") /\ UNCHANGED <<ledger, receipts, topup>>
        /\ job'[h].row.ref = job[h].p /\ job'[h].row.units = Units(job[h].p)
    <3>1. Moves(h, "grant", "append") /\ UNCHANGED <<ledger, receipts, topup>>
      BY <1>4, GrantEffect DEF GrantCredits, Grant
    <3>2. job'[h].row = RowFor(topup[job[h].p].user, job[h].p, "purchase", Units(job[h].p))
      BY <1>4, GrantEffect
    <3>3. QED
      BY <3>1, <3>2 DEF RowFor
  <2>2. \A p \in Payments : receipts[p] # 0 => receipts[p] = 1 /\ (payment[p].status = "paid")' /\ InLedger(p)
    BY PaidStays DEF Receipts
  <2>3. \A p : Units(p)' = Units(p) /\ (InLedger(p)' <=> InLedger(p))
    BY <2>1 DEF Units, InLedger
  <2>4. \A k \in Slots :
         /\ job'[k].at = "append" => 
              job'[k].row.ref = job[k].p /\ job'[k].row.units = Units(job[k].p)
         /\ job'[k].at \in Claimed \ {"grant", "append"} => InLedger(job[k].p)
         /\ job'[k].at \in Claimed => receipts[job[k].p] = 0
         /\ job'[k].p = job[k].p
    BY <2>1 DEF Receipts, Moves, Keeps, Others, At, Claimed, Positions
  <2>5. QED
    BY <2>1, <2>2, <2>3, <2>4 DEF Receipts, At
<1>5. ASSUME NEW h \in Slots, AppendGrant(h) PROVE Receipts'
  <2>1. /\ Moves(h, "append", "plan") \/ Moves(h, "append", "number")
        /\ ledger' = ledger \cup {job[h].row}
        /\ UNCHANGED <<receipts, topup>>
    BY <1>5, SettleEffect DEF AppendGrant, AppendLedger
  <2>2. job[h].row.ref = job[h].p /\ job[h].row.units = Units(job[h].p)
    BY <2>1 DEF Moves, Receipts
  <2>3. \A p : Units(p)' = Units(p) /\ (InLedger(p) \/ p = job[h].p => InLedger(p)')
    BY <2>1, <2>2 DEF Units, InLedger
  <2>4. \A p \in Payments : receipts[p] # 0 => receipts[p] = 1 /\ (payment[p].status = "paid")' /\ InLedger(p)
    BY PaidStays DEF Receipts
  <2>5. \A k \in Slots :
         /\ job'[k].at = "append" => 
              job'[k].row.ref = job[k].p /\ job'[k].row.units = Units(job[k].p)
         /\ job'[k].at \in Claimed \ {"grant", "append"} => InLedger(job[k].p)'
         /\ job'[k].at \in Claimed => receipts[job[k].p] = 0
         /\ job'[k].p = job[k].p
    BY <2>1, <2>3 DEF Receipts, Moves, Keeps, Others, At, Claimed, Positions
  <2>6. QED
    BY <2>1, <2>3, <2>4, <2>5 DEF Receipts, At
<1>6. ASSUME NEW h \in Slots, SendReceipt(h) PROVE Receipts'
  <2> DEFINE p == job[h].p
  <2>1. Ends(h) /\ At(h, "receipt") /\ receipts' = [receipts EXCEPT ![p] = @ + 1]
        /\ UNCHANGED <<ledger, topup, payment>>
    BY <1>6, SettleEffect DEF SendReceipt, requestVars, creditVars
  <2>2. p \in Payments /\ payment[p].status = "paid" /\ InLedger(p) /\ receipts[p] = 0
    BY <2>1, ClaimedJob DEF Receipts, Owners, At, Claimed, Positions
  <2>3. \A k \in Slots \ {h} : job[k].at \in Claimed => job[k].p # p /\ job[k].p \in Payments
    BY <2>1, ClaimedJob DEF Owners, At, Claimed, Positions
  <2>4. \A q : Units(q)' = Units(q) /\ (InLedger(q)' <=> InLedger(q))
    BY <2>1 DEF Units, InLedger
  <2>5. receipts'[p] = 1 /\ \A q \in Payments \ {p} : receipts'[q] = receipts[q]
    BY <2>1, <2>2 DEF TypeOK
  <2> HIDE DEF p
  <2>6. \A q \in Payments : 
          receipts'[q] # 0 => receipts'[q] = 1 /\ payment'[q].status = "paid" /\ InLedger(q)'
    BY <2>1, <2>2, <2>4, <2>5 DEF Receipts
  <2>7. \A k \in Slots : job'[k].at \in Claimed =>
         /\ job'[k].at = "append" => 
              job'[k].row.ref = job[k].p /\ job'[k].row.units = Units(job[k].p)
         /\ job'[k].at \in Claimed \ {"grant", "append"} => InLedger(job[k].p)
         /\ receipts'[job[k].p] = 0
         /\ job'[k].p = job[k].p
    BY <2>1, <2>3, <2>5 DEF Receipts, Ends, Others, At, Claimed, Positions
  <2>8. QED
    BY <2>4, <2>6, <2>7 DEF Receipts, At, Claimed, Positions
<1>7. ASSUME NEW h \in Slots, Settle(h) \/ InvoiceFails(h) \/ Fail(h),
             ~Claim(h), ~GrantCredits(h), ~AppendGrant(h), ~SendReceipt(h)
      PROVE  Receipts'
  <2>1. \/ Ends(h) 
        \/ \E a, b \in Claimed \ {"grant", "append"} : Moves(h, a, b)
    BY <1>7, SettleEffect, DrawEffect DEF Settle, Claimed, Positions
  <2>2. UNCHANGED <<ledger, receipts>>
    BY <1>7, SettleFrame
  <2>3. QED
    BY <2>1, <2>2, ReceiptsKept DEF Ends, Moves, Keeps, Others, At, Claimed, Positions
<1>8. CASE UNCHANGED vars
  BY <1>8 DEF vars, settleVars, creditVars, Receipts, InLedger, Units, At
<1>9. QED
  BY <1>1, <1>2, <1>3, <1>4, <1>5, <1>6, <1>7, <1>8 DEF Next, Settle, Terminated

\* The invariant of the receipt.
THEOREM ReceiptFromTheOwner == Spec => []Receipts
<1>1. Init => Receipts
  BY DEF Init, CreditsInit, SettlementInit, Receipts, Claimed, Positions, At, Idle
<1>2. TypeOK /\ Owners /\ Receipts /\ [Next]_vars => Receipts'
  BY StepReceipts
<1>3. QED
  BY <1>1, <1>2, TypeCorrect, OneOwner, PTL DEF Spec

-----------------------------------------------------------------------------
(***************************************************************************)
(* Which gateway payment settles which top-up.                             *)
(***************************************************************************)

\* Here is what keeps Ids when nobody claims.
LEMMA IdsKept ==
  ASSUME TypeOK, Owners, Ids, [Next]_vars, UNCHANGED via,
         \A p \in Payments : payment'[p].gid = payment[p].gid,
         \A p \in Payments : payment[p].order => payment'[p].order,
         \A p \in Payments : stage'[p] = "open" => payment'[p].order,
         \A g \in GatewayIds : \/ attempt'[g] = attempt[g]
                               \/ attempt[g] = NoPayment /\ payment'[attempt'[g]].order,
         \A h \in Slots : job'[h].at = "claim" /\ job'[h].via \in GatewaySays =>
           \/ job'[h] = job[h]
           \/ job'[h].p \in Payments /\ job'[h].g \in GatewayIds /\ attempt'[job'[h].g] = job'[h].p
  PROVE  Ids'
<1>1. OnePaymentSettlesOneOrder'
  BY DEF Ids, OnePaymentSettlesOneOrder
<1>2. PaidOrdersAreKnown'
  BY DEF Ids, PaidOrdersAreKnown, TypeOK
<1>3. \A p \in Payments : 
       /\ payment'[p].gid # NoId => payment'[p].status = "paid"
       /\ via'[p] # "none" => payment'[p].gid # NoId
       /\ stage'[p] = "open" => payment'[p].order
  BY PaidStays DEF Ids
<1>4. SettledByItsOwnOrder'
  <2>1. \A p \in Payments : via[p] \in GatewaySays => 
          payment[p].gid \in GatewayIds /\ attempt[payment[p].gid] = p /\ p # NoPayment
    BY SettlementAssumption DEF Ids, SettledByItsOwnOrder, GatewaySays, TypeOK, Document
  <2>2. QED
    BY <2>1 DEF SettledByItsOwnOrder, GatewaySays
<1>5. \A h \in Slots : job'[h].at = "claim" /\ job'[h].via \in GatewaySays => 
        attempt'[job'[h].g] = job'[h].p
  <2>1. \A h \in Slots : At(h, "claim") /\ job[h].via \in GatewaySays =>
          job[h].g \in GatewayIds /\ attempt[job[h].g] = job[h].p /\ job[h].p # NoPayment
    BY JobType, Busy, SettlementAssumption DEF Ids, Positions
  <2>2. QED
    BY <2>1 DEF At
<1>6. QED
  BY <1>1, <1>2, <1>3, <1>4, <1>5 DEF Ids, At

\* A claim takes a gateway payment that no top-up has, of its own order unless an
\* operator says otherwise.
LEMMA StepIds ==
  ASSUME TypeOK, Owners, Ids, [Next]_vars
  PROVE  Ids'
<1>1. ASSUME NEW p \in Payments, TopUpNext(p) PROVE Ids'
  <2>1. \A q \in Payments : stage'[q] = "open" => payment'[q].order
    <3>1. CASE SaveOrder(p)
      BY <3>1 DEF SaveOrder, TopUpStep, TypeOK, Document, Ids
    <3>2. CASE ~SaveOrder(p)
      <4>1. \A q \in Payments : stage'[q] = "open" => stage[q] = "open"
        BY <1>1, <3>2
        DEF TopUpNext, RecordTopUp, OpenWithoutGateway, CreateOrder, OrderFails,
            TopUpDies, Pay, TopUpStep, TypeOK
      <4>2. QED
        BY <1>1, <4>1, TopUpFrame DEF Ids
    <3>3. QED
      BY <3>1, <3>2
  <2>2. \A g \in GatewayIds : 
          \/ attempt'[g] = attempt[g] 
          \/ attempt[g] = NoPayment /\ payment'[attempt'[g]].order
    <3>1. ASSUME NEW e \in GatewayIds, Pay(p, e)
          PROVE  \A g \in GatewayIds : 
                   \/ attempt'[g] = attempt[g] 
                   \/ attempt[g] = NoPayment /\ payment'[attempt'[g]].order
      BY <3>1 DEF Pay, Ids, TypeOK
    <3>2. CASE UNCHANGED attempt
      BY <3>2
    <3>3. QED
      BY <1>1, <3>1, <3>2
      DEF TopUpNext, RecordTopUp, OpenWithoutGateway, CreateOrder, OrderFails, SaveOrder,
          TopUpDies, TopUpStep
  <2>3. QED
    BY <1>1, <2>1, <2>2, TopUpFrame, IdsKept DEF orderVars
<1>2. ASSUME NEW h \in Slots, Report(h) PROVE Ids'
  <2>1. UNCHANGED <<stage, attempt, payment, via>>
    BY <1>2, ReportFrame DEF requestVars
  <2>2. \A k \in Slots : job'[k].at = "claim" /\ job'[k].via \in GatewaySays =>
           \/ job'[k] = job[k]
           \/ job'[k].p \in Payments /\ job'[k].g \in GatewayIds /\ attempt[job'[k].g] = job'[k].p
    BY <1>2, ReportEffect DEF Starts, Others, GatewaySays
  <2>3. QED
    BY <2>1, <2>2, IdsKept DEF Ids
<1>3. ASSUME NEW h \in Slots, Claim(h) PROVE Ids'
  <2> DEFINE p == job[h].p
             g == job[h].g
  <2>1. Moves(h, "claim", "grant") /\ UNCHANGED <<stage, attempt>>
    BY <1>3, SettleEffect, SettleFrame DEF Settle
  <2>2. /\ p \in Payments /\ g \in GatewayIds /\ g # NoId
        /\ payment'[p].gid = g /\ payment'[p].status = "paid" /\ via'[p] = job[h].via
        /\ \A q \in Payments \ {p} : /\ payment'[q] = payment[q] /\ via'[q] = via[q]
                                     /\ payment[q].gid # g
    BY <1>3, ClaimEffect, SettlementAssumption DEF Applied
  <2>3. \A q \in Payments : payment'[q].order = payment[q].order
    BY <1>3, SettleFrame DEF Settle
  <2>4. job[h].via \in GatewaySays => attempt[g] = p
    BY <2>1 DEF Moves, Ids
  <2> HIDE DEF p, g
  <2>5. OnePaymentSettlesOneOrder'
    BY <2>2 DEF Ids, OnePaymentSettlesOneOrder
  <2>6. PaidOrdersAreKnown'
    BY <2>1, <2>3 DEF Ids, PaidOrdersAreKnown, TypeOK
  <2>7. \A q \in Payments : 
         /\ payment'[q].gid # NoId => payment'[q].status = "paid"
         /\ via'[q] # "none" => payment'[q].gid # NoId
         /\ stage'[q] = "open" => payment'[q].order
    BY <2>1, <2>2, <2>3 DEF Ids
  <2>8. SettledByItsOwnOrder'
    BY <2>1, <2>2, <2>4, <1>3 DEF Ids, SettledByItsOwnOrder, GatewaySays, p
  <2>9. \A k \in Slots : job'[k].at = "claim" /\ job'[k].via \in GatewaySays => 
          attempt'[job'[k].g] = job'[k].p
    BY <2>1 DEF Ids, Moves, Others, At
  <2>10. QED
    BY <2>5, <2>6, <2>7, <2>8, <2>9 DEF Ids, At
<1>4. ASSUME NEW h \in Slots, Settle(h) \/ InvoiceFails(h) \/ Fail(h), ~Claim(h) PROVE Ids'
  <2>1. \A k \in Slots : job'[k].at = "claim" => job'[k] = job[k]
    BY <1>4, SettleOnward DEF Ends, Moves, Others, Claimed
  <2>2. QED
    BY <1>4, <2>1, SettleFrame, IdsKept DEF Ids
<1>5. CASE UNCHANGED vars
  BY <1>5, IdsKept DEF vars, settleVars, Ids
<1>6. QED
  BY <1>1, <1>2, <1>3, <1>4, <1>5 DEF Next, Settle, Terminated

\* The invariant of the payment ids.
THEOREM IdsCorrect == Spec => []Ids
<1>1. Init => Ids
  BY SettlementAssumption
  DEF Init, SettlementInit, Ids, OnePaymentSettlesOneOrder, PaidOrdersAreKnown, 
      SettledByItsOwnOrder, NoDocument, At, Idle
<1>2. TypeOK /\ Owners /\ Ids /\ [Next]_vars => Ids'
  BY StepIds
<1>3. QED
  BY <1>1, <1>2, TypeCorrect, OneOwner, PTL DEF Spec

-----------------------------------------------------------------------------
(***************************************************************************)
(* The numbers of invoices.                                                *)
(***************************************************************************)

\* The credits of a top-up are never taken back out of the history.
LEMMA CreditedStays ==
  ASSUME TypeOK, [Next]_vars
  PROVE  \A p : Credited(p) => Credited(p)'
<1>1. moves \subseteq moves'
  <2>1. ASSUME NEW h \in Slots, Settle(h) \/ InvoiceFails(h) \/ Fail(h) PROVE moves \subseteq moves'
    BY <2>1, SettleFrame DEF GrantCredits, Grant, Move
  <2>2. QED
    BY <2>1, TopUpFrame, ReportFrame
    DEF Next, Terminated, vars, settleVars, creditVars, requestVars
<1>2. QED
  BY <1>1 DEF Credited

\* Here is what keeps Numbers when nobody draws one or uses it.
LEMMA NumbersKept ==
  ASSUME TypeOK, Numbers, [Next]_vars, UNCHANGED <<counter, invoices>>,
         \A p \in Payments : payment'[p].invoice = payment[p].invoice,
         \A h \in Slots :
           /\ job'[h].at = "insert" => job[h].at = "insert" /\ job'[h].no = job[h].no
           /\ job'[h].at \in Uninvoiced => 
                \/ job[h].at \in Uninvoiced /\ job'[h].p = job[h].p 
                \/ \A i \in invoices : i.payment # job'[h].p
           /\ job'[h].at = "stamp" => job'[h] = job[h]
  PROVE  Numbers'
<1>1. \A i \in invoices' : i.no <= counter' /\ Credited(i.payment)'
  BY CreditedStays DEF Numbers
<1>2. \A h \in Slots : 
       /\ job'[h].at = "insert" => job'[h].no <= counter' /\ \A i \in invoices' : i.no # job'[h].no
       /\ job'[h].at \in Uninvoiced => \A i \in invoices' : i.payment # job'[h].p
       /\ job'[h].at = "stamp" => [no |-> job'[h].no, payment |-> job'[h].p] \in invoices'
  BY DEF Numbers, At
<1>3. \A h, k \in Slots :
       job'[h].at = "insert" /\ job'[k].at = "insert" /\ job'[h].no = job'[k].no => h = k
  BY DEF Numbers, At
<1>4. \A p \in Payments : 
       payment'[p].invoice # 0 => [no |-> payment'[p].invoice, payment |-> p] \in invoices'
  BY DEF Numbers
<1>5. QED
  BY <1>1, <1>2, <1>3, <1>4 DEF Numbers, At

\* A number that is drawn is new, and used by the handler that drew it.
LEMMA StepNumbers ==
  ASSUME TypeOK, Owners, Grants, Numbers, [Next]_vars
  PROVE  Numbers'
<1>1. ASSUME NEW p \in Payments, TopUpNext(p) PROVE Numbers'
  BY <1>1, TopUpFrame, NumbersKept DEF orderVars
<1>2. ASSUME NEW h \in Slots, Report(h) PROVE Numbers'
  BY <1>2, ReportFrame, ReportEffect, NumbersKept DEF Starts, Others, Uninvoiced
<1>3. ASSUME NEW h \in Slots, Claim(h) PROVE Numbers'
  <2>1. Moves(h, "claim", "grant") /\ UNCHANGED <<counter, invoices>>
        /\ \A q \in Payments : payment'[q].invoice = payment[q].invoice
    BY <1>3, SettleEffect, SettleFrame DEF Settle, Claim, StampPayment, At
  <2>2. \A i \in invoices : i.payment # job[h].p
    \* An invoice is of credited credits, and those of a paid top-up.
    BY <1>3, ClaimEffect DEF Numbers, Grants, CreditedOncePerPayment, Credited
  <2>3. QED
    BY <2>1, <2>2, NumbersKept DEF Moves, Keeps, Others, Uninvoiced
<1>4. ASSUME NEW h \in Slots, DrawNumber(h) PROVE Numbers'
  <2>1. Moves(h, "number", "insert") /\ job'[h].no = counter + 1
    BY <1>4, DrawEffect
  <2>2. counter' = counter + 1 /\ UNCHANGED <<invoices, payment, moves>> /\ counter \in Nat
    BY <1>4 DEF DrawNumber, requestVars, creditVars, TypeOK
  <2>3. \A i \in invoices : i.no \in Nat /\ i.no <= counter
    BY DEF TypeOK, Invoice, Numbers
  <2>4. \A k \in Slots : At(k, "insert") => job[k].no \in Nat /\ job[k].no <= counter
    BY JobType, Busy DEF Numbers, Positions
  <2>5. \A i \in invoices : i.no <= counter' /\ i.no # counter + 1 /\ Credited(i.payment)'
    BY <2>2, <2>3, CreditedStays DEF Numbers
  <2>6. \A k \in Slots \ {h} : job'[k] = job[k]
    BY <2>1 DEF Moves, Others
  <2>7. \A k \in Slots \ {h} : At(k, "insert") => 
          job[k].no <= counter' /\ job[k].no # counter + 1
    BY <2>2, <2>4
  <2>8. job'[h].no <= counter' /\ job'[h].at = "insert" /\ job[h].at = "number" /\ job'[h].p = job[h].p
    BY <2>1, <2>2 DEF Moves, Keeps, At
  <2>9. \A k \in Slots : 
       /\ job'[k].at = "insert" => job'[k].no <= counter' /\ \A i \in invoices' : i.no # job'[k].no
       /\ job'[k].at \in Uninvoiced => \A i \in invoices' : i.payment # job'[k].p
       /\ job'[k].at = "stamp" => [no |-> job'[k].no, payment |-> job'[k].p] \in invoices'
    BY <2>1, <2>2, <2>5, <2>6, <2>7, <2>8 DEF Numbers, At, Uninvoiced
  <2>10. \A j, k \in Slots :
           job'[j].at = "insert" /\ job'[k].at = "insert" /\ job'[j].no = job'[k].no => j = k
    BY <2>1, <2>6, <2>7 DEF Numbers, At
  <2>11. \A p \in Payments : 
       payment'[p].invoice # 0 => [no |-> payment'[p].invoice, payment |-> p] \in invoices'
    BY <2>2 DEF Numbers
  <2>12. QED
    BY <2>2, <2>5, <2>9, <2>10, <2>11 DEF Numbers, At
<1>5. ASSUME NEW h \in Slots, InsertInvoice(h) PROVE Numbers'
  <2> DEFINE p == job[h].p
             new == [no |-> job[h].no, payment |-> p]
  <2>1. At(h, "insert") /\ ~Collides(h)
    BY <1>5 DEF InsertInvoice, Collides, Numbers, At, Uninvoiced
  <2>2. /\ invoices' = invoices \cup {new} /\ UNCHANGED <<counter, payment>>
        /\ job'[h].no = job[h].no
    BY <1>5, <2>1, SettleEffect DEF InsertInvoice, requestVars
  <2>3. Moves(h, "insert", "stamp")
    BY <1>5, <2>1, GotoEffect DEF InsertInvoice, Positions
  <2>4. new.no = job[h].no /\ new.payment = p
    OBVIOUS
  <2>5. (\E m \in moves' : m.ref = p) /\ job[h].no <= counter
    BY <2>1, CreditedStays DEF Grants, Numbers, Credited, At, Claimed, Positions
  <2>6. \A k \in Slots \ {h} : job'[k] = job[k] /\ (job[k].at \in Uninvoiced => job[k].p # p)
    BY <2>1, <2>3 DEF Owners, Moves, Others, At, Uninvoiced, Claimed, Positions
  <2>7. job'[h].at = "stamp" /\ job'[h].p = p
    BY <2>3 DEF Moves, Keeps
  <2>8. \A k \in Slots \ {h} : job[k].at = "insert" => job[k].no # job[h].no
    BY <2>1 DEF Numbers, At
  <2>9. new \in invoices' /\ [no |-> job'[h].no, payment |-> job'[h].p] = new
    BY <2>2, <2>7
  <2> HIDE DEF p, new
  <2>10. \A i \in invoices' : i.no <= counter' /\ Credited(i.payment)'
    BY <2>2, <2>4, <2>5, CreditedStays DEF Numbers, Credited
  <2>11. \A k \in Slots \ {h} : 
       /\ job[k].at = "insert" => job[k].no <= counter /\ \A i \in invoices' : i.no # job[k].no
       /\ job[k].at \in Uninvoiced => \A i \in invoices' : i.payment # job[k].p
       /\ job[k].at = "stamp" => [no |-> job[k].no, payment |-> job[k].p] \in invoices'
    BY <2>2, <2>4, <2>6, <2>8 DEF Numbers, At
  <2>12. \A j, k \in Slots :
           job'[j].at = "insert" /\ job'[k].at = "insert" /\ job'[j].no = job'[k].no => j = k
    BY <2>6, <2>7 DEF Numbers, At
  <2>13. \A q \in Payments : 
       payment'[q].invoice # 0 => [no |-> payment'[q].invoice, payment |-> q] \in invoices'
    BY <2>2 DEF Numbers
  <2>14. QED
    BY <2>2, <2>6, <2>7, <2>9, <2>10, <2>11, <2>12, <2>13 DEF Numbers, At, Uninvoiced
<1>6. ASSUME NEW h \in Slots, StampPayment(h) PROVE Numbers'
  <2>1. Moves(h, "stamp", "receipt") /\ UNCHANGED <<counter, invoices>>
    BY <1>6, SettleEffect DEF StampPayment
  <2>2. job[h].p \in Payments /\ [no |-> job[h].no, payment |-> job[h].p] \in invoices
    BY <2>1, ClaimedJob DEF Numbers, Moves, At, Claimed, Positions
  <2>3. /\ payment'[job[h].p].invoice = job[h].no 
        /\ \A q \in Payments \ {job[h].p} : payment'[q] = payment[q]
    BY <1>6, <2>2 DEF StampPayment, TypeOK, Document
  <2>4. \A q \in Payments : 
       payment'[q].invoice # 0 => [no |-> payment'[q].invoice, payment |-> q] \in invoices'
    BY <2>1, <2>2, <2>3 DEF Numbers
  <2>5. \A k \in Slots \ {h} : job'[k] = job[k]
    BY <2>1 DEF Moves, Others
  <2>6. \A i \in invoices : i.no <= counter /\ Credited(i.payment)'
    BY CreditedStays DEF Numbers
  <2>7. job'[h].at = "receipt"
    BY <2>1 DEF Moves
  <2>8. QED
    BY <2>1, <2>4, <2>5, <2>6, <2>7 DEF Numbers, At, Uninvoiced
<1>7. ASSUME NEW h \in Slots, Settle(h) \/ InvoiceFails(h) \/ Fail(h),
             ~Claim(h), ~DrawNumber(h), ~InsertInvoice(h), ~StampPayment(h)
      PROVE  Numbers'
  <2>1. \/ Ends(h) 
        \/ Moves(h, "grant", "append")
        \/ \E b \in {"plan", "number", "receipt"} : Moves(h, "append", b)
        \/ Moves(h, "plan", "number")
        \/ Moves(h, "number", "receipt") 
        \/ Moves(h, "insert", "receipt")
    BY <1>7, SettleEffect, GrantEffect DEF Settle
  <2>2. UNCHANGED <<counter, invoices>> /\ \A q \in Payments : payment'[q].invoice = payment[q].invoice
    BY <1>7, SettleFrame
  <2>3. QED
    BY <2>1, <2>2, NumbersKept DEF Ends, Moves, Keeps, Others, At, Uninvoiced
<1>8. CASE UNCHANGED vars
  BY <1>8, NumbersKept DEF vars, settleVars
<1>9. QED
  BY <1>1, <1>2, <1>3, <1>4, <1>5, <1>6, <1>7, <1>8 DEF Next, Settle, Terminated

\* The invariant of the invoice numbers.
THEOREM NumbersCorrect == Spec => []Numbers
<1>1. Init => Numbers
  BY DEF Init, SettlementInit, Numbers, NoDocument, Uninvoiced, At, Idle
<1>2. TypeOK /\ Owners /\ Grants /\ Numbers /\ [Next]_vars => Numbers'
  BY StepNumbers
<1>3. QED
  BY <1>1, <1>2, TypeCorrect, OneOwner, GrantedByTheOwner, PTL DEF Spec

-----------------------------------------------------------------------------
(***************************************************************************)
(* Gaps.  A number is on an invoice, in the hands of the handler that drew *)
(* it, or was lost when that handler failed.                               *)
(***************************************************************************)

LEMMA GapsAreFinite ==
  ASSUME TypeOK
  PROVE  IsFiniteSet(Gaps) /\ Cardinality(Gaps) \in Nat /\ failures \in Nat
<1>1. IsFiniteSet(1..counter)
  BY FS_Interval DEF TypeOK
<1>2. IsFiniteSet(Gaps)
  BY <1>1, FS_Subset DEF Gaps
<1>3. QED
  BY <1>2, FS_CardinalityType DEF TypeOK, CreditsTypeOK

\* A step that opens no gap keeps the bound.
LEMMA NoNewGap ==
  ASSUME TypeOK, GapsAreFailures, UNCHANGED failures \/ Failure, Gaps' \subseteq Gaps
  PROVE  GapsAreFailures'
<1>1. Cardinality(Gaps') <= Cardinality(Gaps) /\ Cardinality(Gaps') \in Nat
  BY GapsAreFinite, FS_Subset, FS_CardinalityType
<1>2. QED
  BY <1>1, GapsAreFinite DEF GapsAreFailures, Failure

\* A failure opens at most one.
LEMMA OneNewGap ==
  ASSUME TypeOK, GapsAreFailures, Failure, NEW n, Gaps' \subseteq Gaps \cup {n}
  PROVE  GapsAreFailures'
<1>1. /\ IsFiniteSet(Gaps \cup {n})
      /\ Cardinality(Gaps \cup {n}) <= Cardinality(Gaps) + 1
      /\ Cardinality(Gaps \cup {n}) \in Nat
  BY GapsAreFinite, FS_AddElement, FS_CardinalityType
<1>2. Cardinality(Gaps') <= Cardinality(Gaps \cup {n}) /\ Cardinality(Gaps') \in Nat
  BY <1>1, FS_Subset, FS_CardinalityType
<1>3. QED
  BY <1>1, <1>2, GapsAreFinite DEF GapsAreFailures, Failure

\* Handlers that keep the numbers in their hands open no gap.
LEMMA GapsKept ==
  ASSUME UNCHANGED <<counter, invoices>>,
         \A h \in Slots : At(h, "insert") => At(h, "insert")' /\ job'[h].no = job[h].no
  PROVE  Gaps' \subseteq Gaps
BY DEF Gaps, At

\* Only a failure loses a number.
LEMMA StepGaps ==
  ASSUME TypeOK, Numbers, GapsAreFailures, [Next]_vars
  PROVE  GapsAreFailures'
<1>1. ASSUME NEW p \in Payments, TopUpNext(p) PROVE GapsAreFailures'
  <2>1. UNCHANGED <<counter, invoices, job>>
    BY <1>1, TopUpFrame DEF orderVars
  <2>2. UNCHANGED failures \/ Failure
    BY <1>1
    DEF TopUpNext, RecordTopUp, OpenWithoutGateway, CreateOrder, OrderFails, SaveOrder,
        TopUpDies, Pay, creditVars
  <2>3. QED
    BY <2>1, <2>2, GapsKept, NoNewGap DEF At
<1>2. ASSUME NEW h \in Slots, Report(h) PROVE GapsAreFailures'
  <2>1. UNCHANGED <<counter, invoices, failures>>
    BY <1>2 DEF Report, Webhook, Callback, Confirm, requestVars, creditVars
  <2>2. \A k \in Slots : At(k, "insert") => job'[k] = job[k]
    BY <1>2 DEF Report, Webhook, Callback, Confirm, Accept, Idle, At, TypeOK
  <2>3. QED
    BY <2>1, <2>2, GapsKept, NoNewGap DEF At
<1>3. ASSUME NEW h \in Slots, DrawNumber(h) PROVE GapsAreFailures'
  <2>1. Moves(h, "number", "insert") /\ job'[h].no = counter + 1
    BY <1>3, DrawEffect
  <2>2. counter' = counter + 1 /\ UNCHANGED <<invoices, failures>> /\ counter \in Nat
    BY <1>3 DEF DrawNumber, requestVars, creditVars, TypeOK
  <2>3. \A n \in 1..counter' : n \in 1..counter \/ n = counter + 1
    BY <2>2
  <2>4. Gaps' \subseteq Gaps
    BY <2>1, <2>2, <2>3 DEF Gaps, At, Moves, Others
  <2>5. QED
    BY <2>2, <2>4, NoNewGap
<1>4. ASSUME NEW h \in Slots, InsertInvoice(h) PROVE GapsAreFailures'
  <2>1. At(h, "insert") /\ ~Collides(h)
    BY <1>4 DEF InsertInvoice, Collides, Numbers, At, Uninvoiced
  <2>2. /\ invoices' = invoices \cup {[no |-> job[h].no, payment |-> job[h].p]}
        /\ UNCHANGED <<counter, failures>>
    BY <1>4, <2>1 DEF InsertInvoice, requestVars, creditVars
  <2>3. Moves(h, "insert", "stamp")
    BY <1>4, <2>1, GotoEffect DEF InsertInvoice, Positions
  <2>4. [no |-> job[h].no, payment |-> job[h].p].no = job[h].no
    OBVIOUS
  <2>5. Gaps' \subseteq Gaps
    BY <2>2, <2>3, <2>4 DEF Gaps, At, Moves, Others
  <2>6. QED
    BY <2>2, <2>5, NoNewGap
<1>5. ASSUME NEW h \in Slots, InvoiceFails(h) \/ Fail(h) PROVE GapsAreFailures'
  <2>1. Failure /\ UNCHANGED <<counter, invoices>>
    BY <1>5 DEF InvoiceFails, Fail
  <2>2. \A k \in Slots \ {h} : job'[k] = job[k]
    BY <1>5 DEF InvoiceFails, Fail, Goto, AnswerError, TypeOK
  <2>3. Gaps' \subseteq Gaps \cup {job[h].no}
    BY <2>1, <2>2 DEF Gaps, At
  <2>4. QED
    BY <2>1, <2>3, OneNewGap
<1>6. ASSUME NEW h \in Slots, Settle(h), ~DrawNumber(h), ~InsertInvoice(h)
      PROVE  GapsAreFailures'
  <2>1. UNCHANGED <<counter, invoices>> /\ ~At(h, "insert")
    BY <1>6, SettleFrame
    DEF Settle, Claim, ClaimConflict, ClaimReplay, GrantCredits, GrantRefused, AppendGrant,
        UpgradePlan, StampPayment, SendReceipt, At
  <2>2. \A k \in Slots \ {h} : job'[k] = job[k]
    BY <1>6
    DEF Settle, Claim, ClaimConflict, ClaimReplay, GrantCredits, GrantRefused, AppendGrant,
        UpgradePlan, StampPayment, SendReceipt, Goto, Answer, AnswerError, TypeOK
  <2>3. UNCHANGED failures
    BY <1>6
    DEF Settle, Claim, ClaimConflict, ClaimReplay, GrantCredits, GrantRefused, AppendGrant,
        UpgradePlan, StampPayment, SendReceipt, requestVars, creditVars, Grant, AppendLedger
  <2>4. QED
    BY <2>1, <2>2, <2>3, GapsKept, NoNewGap DEF At
<1>7. CASE UNCHANGED vars
  BY <1>7, GapsKept, NoNewGap DEF vars, settleVars, creditVars, At
<1>8. QED
  BY <1>1, <1>2, <1>3, <1>4, <1>5, <1>6, <1>7 DEF Next, Terminated

\* However many settlements run, each number missing from the sequence of invoices
\* was lost to a failure of its own.
THEOREM GapsNeedFailures == Spec => []GapsAreFailures
<1>1. Init => GapsAreFailures
  <2> SUFFICES ASSUME Init PROVE GapsAreFailures
    OBVIOUS
  <2>1. Gaps = {}
    BY DEF Init, SettlementInit, Gaps
  <2>2. QED
    BY <2>1, FS_EmptySet DEF GapsAreFailures, Init, CreditsInit
<1>2. TypeOK /\ Numbers /\ GapsAreFailures /\ [Next]_vars => GapsAreFailures'
  BY StepGaps
<1>3. QED
  BY <1>1, <1>2, TypeCorrect, NumbersCorrect, PTL DEF Spec

-----------------------------------------------------------------------------
(***************************************************************************)
(* What follows for the customer, and for the books.                       *)
(***************************************************************************)

\* A top-up is credited at most once, to whoever created it, with what it was
\* sold as, however many reports of it arrive and handlers run and die.
THEOREM CreditedAtMostOnce == Spec => []CreditedOncePerPayment
<1>1. Grants => CreditedOncePerPayment
  BY DEF Grants
<1>2. QED
  BY GrantedByTheOwner, <1>1, PTL

\* No gateway payment settles two top-ups, none but an operator settles a top-up
\* with a payment of another order, and every order a customer can pay is known.
THEOREM PaymentSettlesItsOrder == Spec => []PaymentsMatchOrders
<1>1. Ids => PaymentsMatchOrders
  BY DEF Ids, PaymentsMatchOrders
<1>2. QED
  BY IdsCorrect, <1>1, PTL

\* No settlement loses its invoice to another's number, and no number is lost but
\* to a failure of its own.
THEOREM InvoicesStayInSequence == Spec => []InvoicesInSequence
<1>1. Numbers /\ GapsAreFailures => InvoicesInSequence
  BY DEF Numbers, InvoicesInSequence, InvoicesNeverCollide, Collides, At, Uninvoiced
<1>2. QED
  BY NumbersCorrect, GapsNeedFailures, <1>1, PTL

\* At most one receipt is sent for a top-up, after its ledger row.
THEOREM ReceiptSentAtMostOnce == Spec => []OneReceiptPerPayment
<1>1. TypeOK /\ Receipts => OneReceiptPerPayment
  <2> SUFFICES ASSUME Receipts, NEW p \in Payments, receipts[p] \in Nat
               PROVE  receipts[p] <= 1 /\ (receipts[p] = 1 => InLedger(p))
    BY DEF OneReceiptPerPayment, InLedger, TypeOK
  <2>1. receipts[p] = 0 \/ (receipts[p] = 1 /\ InLedger(p))
    BY DEF Receipts
  <2>2. QED
    BY <2>1
<1>2. QED
  BY TypeCorrect, ReceiptFromTheOwner, <1>1, PTL

-----------------------------------------------------------------------------
(***************************************************************************)
(* Settlement implements CreditAccount: its only step that moves a balance *)
(* is the grant of the owner, for a top-up nothing was granted for.        *)
(***************************************************************************)

\* The grant is one movement of CreditAccount.
LEMMA GrantIsOneMovement ==
  ASSUME TypeOK, Grants, NEW h \in Slots, GrantCredits(h)
  PROVE  Account!Next
<1> DEFINE p == job[h].p
           u == topup[p].user
           n == Units(p)
           row == RowFor(u, p, "purchase", n)
<1>1. p \in Payments /\ ~Credited(p)
  BY ClaimedJob DEF GrantCredits, Grants, At, Claimed, Positions
<1>2. u \in Users /\ p \in Refs /\ n \in Nat
  BY <1>1, TopUpType
<1>3. /\ balance' = [balance EXCEPT ![u] = @ + n] /\ moves' = moves \cup {row} /\ n > 0
  BY DEF GrantCredits, Grant, Move
<1>4. /\ row = [user |-> u, ref |-> p, kind |-> "purchase", units |-> n, after |-> balance[u] + n]
      /\ row.ref = p /\ row.user = u /\ row.kind = "purchase" /\ row.units = n
  BY DEF RowFor
<1>5. row \in moves' /\ row \notin moves
  BY <1>1, <1>3, <1>4 DEF Credited
<1>6. Account!Fresh(p)
  BY <1>1 DEF Account!Fresh, Credited
<1>7. TRUE /\ n <= 0 => balance[u] + n >= 0
  BY <1>2, <1>3
<1>8. Account!Apply(u, p, "purchase", n)
  BY <1>2, <1>3, <1>4, <1>6, <1>7 DEF Account!Apply
<1>9. QED
  BY <1>2, <1>4, <1>5, <1>8 DEF Account!Next, Account!Movement

\* Every behaviour of settlement is one CreditAccount allows.
THEOREM SettlementImplementsAccount == Spec => ImplementsCreditAccount
<1>1. Init => Account!Init
  BY DEF Init, CreditsInit, Account!Init
<1>2. TypeOK /\ Grants /\ [Next]_vars => [Account!Next]_<<balance, moves, TRUE>>
  <2> SUFFICES ASSUME TypeOK, Grants, [Next]_vars
               PROVE  Account!Next \/ UNCHANGED <<balance, moves>>
    OBVIOUS
  <2>1. ASSUME NEW h \in Slots, Settle(h) \/ InvoiceFails(h) \/ Fail(h) 
        PROVE  Account!Next \/ UNCHANGED <<balance, moves>>
    BY <2>1, SettleFrame, GrantIsOneMovement
  <2>2. QED
    BY <2>1, TopUpFrame, ReportFrame
    DEF Next, Terminated, vars, settleVars, creditVars, requestVars
<1>3. QED
  BY TypeCorrect, GrantedByTheOwner, <1>1, <1>2, PTL DEF Spec, ImplementsCreditAccount, Account!Spec
=============================================================================
