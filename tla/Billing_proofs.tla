---------------------------- MODULE Billing_proofs ----------------------------
(***************************************************************************)
(* Proofs about the credit store under POST /usage alone (Metering), and   *)
(* under everything that moves it (Billing), for every set of users,       *)
(* calls, keys, prices and top-ups and every setting of the switches.      *)
(***************************************************************************)
EXTENDS Billing, Sums, TLAPS

-----------------------------------------------------------------------------
(***************************************************************************)
(* Metering.                                                               *)
(*                                                                         *)
(* The safety properties are not inductive: they say nothing of a handler  *)
(* that is half way.  IInv adds what each position of a handler knows -    *)
(* whether its record is stored, whether its debit was made and whether    *)
(* the ledger row of that debit is written - and that every movement of    *)
(* the balance is the one some handler remembers in taken.                 *)
(***************************************************************************)


\* Handler c has debited, and taken[c] is what it debited.
Debited(c) ==
  /\ taken[c] \in moves
  /\ taken[c].ref = c
  /\ taken[c].user = req[c].user
  /\ taken[c].units = -req[c].cost

MovesAreTaken ==
  \A m \in moves : m.ref \in Calls /\ m = taken[m.ref] /\ Debited(m.ref)

BeforeInsert ==
  \A c \in Calls :
    pc[c] \in {"idle", "precheck", "insert", "find"} => usage[c] = "absent" /\ ~Charged(c)

BeforeDebit == 
  \A c \in Calls : pc[c] = "debit" => usage[c] = "unbilled" /\ ~Charged(c)

AfterDebit == 
  \A c \in Calls : pc[c] \in {"append", "flag"} => usage[c] = "unbilled" /\ Debited(c)

AfterAppend ==
  \A c \in Calls :
    pc[c] = "flag" \/ usage[c] = "billed" => Debited(c) /\ taken[c] \in ledger

ChargedIsRecorded ==
  \A c \in Calls :
    Charged(c) => /\ usage[c] # "absent"
                  /\ pc[c] = "done" => usage[c] = "billed"

UniqueRecords ==
  indexed => \A c, d \in Recorded : SameEvent(c, d) => c = d

Refusals ==
  \A c \in Calls :
    answer[c].code = 402 => pc[c] = "done" /\ usage[c] = "unbilled" /\ ~Charged(c)

IInv ==
  /\ TypeOK
  /\ NoOverspend
  /\ MovesAreTaken
  /\ BeforeInsert
  /\ BeforeDebit
  /\ AfterDebit
  /\ AfterAppend
  /\ ChargedIsRecorded
  /\ UniqueRecords
  /\ Refusals

-----------------------------------------------------------------------------
(***************************************************************************)
(* Types.  A handler about to append holds a row, which is what keeps the  *)
(* ledger a set of rows.                                                   *)
(***************************************************************************)
AppendHasRow == \A c \in Calls : pc[c] = "append" => taken[c] \in Row

TypeInv == TypeOK /\ AppendHasRow

\* The row that records a movement is a ledger row.
LEMMA RowForType ==
  ASSUME CreditsTypeOK, NEW u \in Users, NEW r \in Refs, NEW k \in Kinds, NEW n \in Int
  PROVE  RowFor(u, r, k, n) \in Row
BY DEF CreditsTypeOK, RowFor, Row

\* Prices are integers, and calls are what movements may be for.
LEMMA RequestType ==
  ASSUME TypeOK, NEW c \in Calls
  PROVE  /\ req[c].user \in Users
         /\ req[c].cost \in Nat
         /\ -req[c].cost \in Int
         /\ c \in Refs
<1>1. req[c] \in Request
  BY DEF TypeOK
<1>2. req[c].user \in Users /\ req[c].cost \in Costs
  BY <1>1 DEF Request
<1>3. req[c].cost \in Nat /\ c \in Refs
  BY <1>2, MeteringAssumption
<1>4. QED
  BY <1>2, <1>3

\* Every variable of Metering keeps its type.
THEOREM TypeCorrect == Spec => []TypeOK
<1>1. ASSUME Init PROVE TypeInv
  <2>1. CreditsTypeOK
    BY <1>1, CreditsAssumption DEF Init, CreditsInit, CreditsTypeOK
  <2>2. enforced \in BOOLEAN /\ indexed \in BOOLEAN
    BY <1>1 DEF Init, MeteringInit
  <2>3. QED
    BY <1>1, <2>1, <2>2, MeteringAssumption 
    DEF Init, MeteringInit, TypeInv, AppendHasRow, TypeOK, Positions
<1>2. ASSUME TypeInv, [Next]_vars PROVE TypeInv'
  <2> USE <1>2 DEF TypeInv, AppendHasRow, TypeOK, Goto, Positions, InFlight
  <2>1. ASSUME NEW c \in Calls, Receive(c) PROVE TypeInv'
    BY <2>1 DEF Receive, creditVars, CreditsTypeOK
  <2>2. ASSUME NEW c \in Calls, Step(c) PROVE TypeInv'
    <3>1. CASE PrecheckHit(c)
      <4>1. \E d \in Calls : AnswerReplay(c, d)
        BY <3>1 DEF PrecheckHit, Replays, Recorded
      <4>2. answer' \in [Calls -> Answers \cup {NoAnswer}]
        BY <4>1 DEF AnswerReplay, Reply, Answers
      <4>3. QED
        BY <3>1, <4>2 DEF PrecheckHit, creditVars, CreditsTypeOK
    <3>2. CASE PrecheckMiss(c)
      BY <3>2 DEF PrecheckMiss, creditVars, CreditsTypeOK
    <3>3. CASE Insert(c)
      BY <3>3 DEF Insert, creditVars, CreditsTypeOK
    <3>4. CASE InsertDuplicate(c)
      BY <3>4 DEF InsertDuplicate, creditVars, CreditsTypeOK
    <3>5. CASE FindReplay(c)
      <4>1. Reply(c, 409, c, FALSE) \/ \E d \in Calls : AnswerReplay(c, d)
        BY <3>5 DEF FindReplay, Replays, Recorded
      <4>2. answer' \in [Calls -> Answers \cup {NoAnswer}]
        <5>1. CASE Reply(c, 409, c, FALSE)
          BY <5>1 DEF Reply, Answers
        <5>2. CASE \E d \in Calls : AnswerReplay(c, d)
          BY <5>2 DEF AnswerReplay, Reply, Answers
        <5>3. QED
          BY <4>1, <5>1, <5>2
      <4>3. QED
        BY <3>5, <4>2 DEF FindReplay, creditVars, CreditsTypeOK
    <3>6. CASE Debit(c)
      <4> DEFINE row == RowFor(req[c].user, c, "usage", -req[c].cost)
      <4>1. row \in Row
        BY RowForType, RequestType DEF Kinds
      <4>2. TryDebit(req[c].user, c, req[c].cost) 
            \/ DebitAllowingNegative(req[c].user, c, req[c].cost)
        BY <3>6 DEF Debit
      <4>3. /\ Move(req[c].user, c, "usage", -req[c].cost)
            /\ UNCHANGED <<purchased, ledger, forfeited, failures>>
        BY <4>2 DEF TryDebit, DebitAllowingNegative
      <4>4. moves' \in SUBSET Row
        BY <4>1, <4>3 DEF Move, CreditsTypeOK
      <4>5. balance' \in [Users -> Int]
        BY <4>3, RequestType DEF Move, CreditsTypeOK
      <4>6. CreditsTypeOK'
        BY <4>3, <4>4, <4>5 DEF CreditsTypeOK
      <4>7. QED
        BY <3>6, <4>1, <4>6 DEF Debit
    <3>7. CASE DebitRefused(c)
      BY <3>7 DEF DebitRefused, Reply, Answers, creditVars, CreditsTypeOK
    <3>8. CASE Append(c)
      BY <3>8 DEF Append, AppendLedger, CreditsTypeOK
    <3>9. CASE Flag(c)
      BY <3>9 DEF Flag, Reply, Answers, creditVars, CreditsTypeOK
    <3>10. QED
      BY <2>2, <3>1, <3>2, <3>3, <3>4, <3>5, <3>6, <3>7, <3>8, <3>9 DEF Step
  <2>3. ASSUME NEW c \in Calls, Fail(c) PROVE TypeInv'
    <3>1. CreditsTypeOK'
      BY <2>3, CreditsAssumption DEF Fail, Failure, CreditsTypeOK
    <3>2. QED
      BY <2>3, <3>1 DEF Fail, Reply, Answers
  <2>4. CASE BuildIndex
    BY <2>4 DEF BuildIndex, creditVars, CreditsTypeOK
  <2>5. CASE UNCHANGED vars
    BY <2>5 DEF vars, meterVars, creditVars, CreditsTypeOK
  <2>6. QED
    BY <2>1, <2>2, <2>3, <2>4, <2>5 DEF Next, Terminated
<1>3. QED
  BY <1>1, <1>2, PTL DEF Spec, TypeInv

-----------------------------------------------------------------------------
(***************************************************************************)
(* The inductive invariant.                                                *)
(***************************************************************************)

\* The invariant holds before any call: nothing is stored or charged.
LEMMA InitIInv == Init /\ TypeOK => IInv
BY CreditsAssumption
DEF Init, CreditsInit, MeteringInit, IInv, NoOverspend,
    MovesAreTaken, BeforeInsert, BeforeDebit, AfterDebit, AfterAppend, ChargedIsRecorded,
    UniqueRecords, Refusals, Charged, Recorded, NoAnswer

\* A step that moves handler c without storing, charging or flagging anything:
\* it keeps the invariant when c's new position claims nothing that is not so.
LEMMA QuietStep ==
  ASSUME IInv, TypeOK', NEW c \in Calls, NEW p \in Positions \ {"debit", "append", "flag"},
         pc' = [pc EXCEPT ![c] = p],
         UNCHANGED <<enforced, req, usage, taken, indexed, balance, moves, ledger>>,
         p \in {"idle", "precheck", "insert", "find"} => usage[c] = "absent" /\ ~Charged(c),
         p = "done" => ~Charged(c),
         \A d \in Calls \ {c} : answer'[d] = answer[d],
         answer'[c].code = 402 => p = "done" /\ usage[c] = "unbilled"
  PROVE  IInv'
<1> USE DEF IInv, TypeOK
<1>1. \A d \in Calls : Charged(d)' <=> Charged(d)
  BY DEF Charged
<1>2. NoOverspend' /\ MovesAreTaken'
  BY DEF NoOverspend, MovesAreTaken, Debited
<1>3. BeforeInsert' /\ BeforeDebit'
  BY <1>1 DEF BeforeInsert, BeforeDebit
<1>4. AfterDebit' /\ AfterAppend'
  BY DEF AfterDebit, AfterAppend, Debited
<1>5. ChargedIsRecorded' /\ Refusals'
  BY <1>1 DEF ChargedIsRecorded, Refusals
<1>6. UniqueRecords'
  BY DEF UniqueRecords, Recorded, SameEvent
<1>7. QED
  BY <1>2, <1>3, <1>4, <1>5, <1>6

\* A handler that has not stored its record has charged nothing, and nothing
\* has been answered.
LEMMA BeforeInsertFacts ==
  ASSUME IInv, NEW c \in Calls, pc[c] \in {"idle", "precheck", "insert", "find"}
  PROVE  usage[c] = "absent" /\ ~Charged(c) /\ answer[c].code # 402
BY DEF IInv, BeforeInsert, Refusals

\* Every step of every handler keeps the invariant; the interesting ones are
\* Insert, which stores the only record of its event, and Debit, which makes
\* the one movement that is for it.
LEMMA StepIInv == 
  ASSUME IInv, TypeOK', [Next]_vars
  PROVE  IInv'
<1> USE DEF IInv, TypeOK
<1>1. ASSUME NEW c \in Calls, Receive(c) PROVE IInv'
  <2>1. PICK p \in {"precheck", "insert"} : Goto(c, "idle", p)
    BY <1>1 DEF Receive
  <2>2. QED
    BY <1>1, <2>1, QuietStep, BeforeInsertFacts DEF Receive, Goto, creditVars, Positions, InFlight
<1>2. ASSUME NEW c \in Calls, PrecheckHit(c) PROVE IInv'
  <2>1. answer'[c].code # 402 /\ \A d \in Calls \ {c} : answer'[d] = answer[d]
    BY <1>2 DEF PrecheckHit, AnswerReplay, Reply
  <2>2. QED
    BY <1>2, <2>1, QuietStep, BeforeInsertFacts DEF PrecheckHit, Goto, creditVars, Positions
<1>3. ASSUME NEW c \in Calls, PrecheckMiss(c) PROVE IInv'
  BY <1>3, QuietStep, BeforeInsertFacts DEF PrecheckMiss, Goto, creditVars, Positions, InFlight
<1>4. ASSUME NEW c \in Calls, Insert(c) PROVE IInv'
  <2> USE <1>4 DEF Insert, Goto, creditVars
  <2>1. usage[c] = "absent" /\ ~Charged(c)
    BY BeforeInsertFacts
  <2>2. \A d \in Calls : Charged(d)' <=> Charged(d)
    BY DEF Charged
  <2>3. NoOverspend' /\ MovesAreTaken'
    BY DEF NoOverspend, MovesAreTaken, Debited
  <2>4. BeforeInsert' /\ BeforeDebit'
    BY <2>1, <2>2 DEF BeforeInsert, BeforeDebit
  <2>5. AfterDebit' /\ AfterAppend'
    BY DEF AfterDebit, AfterAppend, Debited
  <2>6. ChargedIsRecorded' /\ Refusals'
    BY <2>1, <2>2 DEF ChargedIsRecorded, Refusals
  <2>7. UniqueRecords'
    \* The new record collides with none: the index would have refused it.
    BY DEF UniqueRecords, Refused, Replays, Recorded, SameEvent
  <2>8. QED
    BY <2>3, <2>4, <2>5, <2>6, <2>7
<1>5. ASSUME NEW c \in Calls, InsertDuplicate(c) PROVE IInv'
  BY <1>5, QuietStep, BeforeInsertFacts DEF InsertDuplicate, Goto, creditVars, Positions, InFlight
<1>6. ASSUME NEW c \in Calls, FindReplay(c) PROVE IInv'
  <2>1. answer'[c].code # 402 /\ \A d \in Calls \ {c} : answer'[d] = answer[d]
    BY <1>6 DEF FindReplay, AnswerReplay, Reply
  <2>2. QED
    BY <1>6, <2>1, QuietStep, BeforeInsertFacts DEF FindReplay, Goto, creditVars, Positions
<1>7. ASSUME NEW c \in Calls, Debit(c) PROVE IInv'
  <2> DEFINE u == req[c].user
             n == req[c].cost
             row == RowFor(u, c, "usage", -n)
  <2>1. usage[c] = "unbilled" /\ ~Charged(c)
    BY <1>7 DEF Debit, Goto, BeforeDebit
  <2>2. u \in Users /\ n \in Nat
    BY RequestType
  <2>3. /\ balance' = [balance EXCEPT ![u] = @ + (-n)]
        /\ moves' = moves \cup {row}
        /\ ledger' = ledger
        /\ enforced => balance[u] >= n
    BY <1>7 DEF Debit, TryDebit, DebitAllowingNegative, Move, Covers
  <2>4. row.ref = c /\ row.user = u /\ row.units = -n
    BY DEF RowFor
  <2>5. /\ taken' = [taken EXCEPT ![c] = row]
        /\ pc' = [pc EXCEPT ![c] = "append"] /\ pc[c] = "debit"
        /\ UNCHANGED <<enforced, req, usage, answer, indexed>>
    BY <1>7 DEF Debit, Goto
  <2> HIDE DEF row, u, n
  <2>6. \A d \in Calls : Charged(d)' <=> (Charged(d) \/ d = c)
    BY <2>3, <2>4 DEF Charged
  <2>7. NoOverspend'
    <3> SUFFICES ASSUME enforced, NEW v \in Users PROVE balance'[v] >= 0
      BY <2>5 DEF NoOverspend
    <3>1. balance[v] >= 0 /\ balance[v] \in Int /\ balance[u] \in Int
      BY <2>2 DEF NoOverspend, CreditsTypeOK
    <3>2. QED
      BY <2>2, <2>3, <3>1 DEF CreditsTypeOK
  <2>8. \A d \in Calls : Debited(d) /\ d # c => Debited(d)'
    BY <2>3, <2>5 DEF Debited
  <2>9. Debited(c)'
    BY <2>3, <2>4, <2>5 DEF Debited, u, n
  <2>10. MovesAreTaken'
    <3> SUFFICES ASSUME NEW m \in moves' 
                 PROVE  m.ref \in Calls /\ m = taken'[m.ref] /\ Debited(m.ref)'
      BY DEF MovesAreTaken
    <3>1. CASE m \in moves
      <4>1. m.ref \in Calls /\ m = taken[m.ref] /\ Debited(m.ref)
        BY <3>1 DEF MovesAreTaken
      <4>2. m.ref # c
        BY <2>1, <3>1 DEF Charged
      <4>3. QED
        BY <4>1, <4>2, <2>5, <2>8
    <3>2. CASE m = row
      BY <3>2, <2>4, <2>5, <2>9
    <3>3. QED
      BY <2>3, <3>1, <3>2
  <2>11. BeforeInsert' /\ BeforeDebit'
    BY <2>5, <2>6 DEF BeforeInsert, BeforeDebit
  <2>12. AfterDebit' /\ AfterAppend'
    BY <2>1, <2>3, <2>5, <2>8, <2>9 DEF AfterDebit, AfterAppend
  <2>13. ChargedIsRecorded' /\ Refusals'
    BY <2>1, <2>5, <2>6 DEF ChargedIsRecorded, Refusals
  <2>14. UniqueRecords'
    BY <2>5 DEF UniqueRecords, Recorded, SameEvent
  <2>15. QED
    BY <2>7, <2>10, <2>11, <2>12, <2>13, <2>14
<1>8. ASSUME NEW c \in Calls, DebitRefused(c) PROVE IInv'
  <2>1. usage[c] = "unbilled" /\ ~Charged(c)
    BY <1>8 DEF DebitRefused, Goto, BeforeDebit
  <2>2. QED
    BY <1>8, <2>1, QuietStep DEF DebitRefused, Reply, Goto, creditVars, Positions
<1>9. ASSUME NEW c \in Calls, Append(c) PROVE IInv'
  <2> USE <1>9 DEF Append, AppendLedger, Goto
  <2>1. usage[c] = "unbilled" /\ Debited(c)
    BY DEF AfterDebit
  <2>2. \A d \in Calls : (Charged(d)' <=> Charged(d)) /\ (Debited(d)' <=> Debited(d))
    BY DEF Charged, Debited
  <2>3. NoOverspend' /\ MovesAreTaken'
    BY DEF NoOverspend, MovesAreTaken, Debited
  <2>4. BeforeInsert' /\ BeforeDebit'
    BY <2>2 DEF BeforeInsert, BeforeDebit
  <2>5. AfterDebit' /\ AfterAppend'
    BY <2>1, <2>2 DEF AfterDebit, AfterAppend
  <2>6. ChargedIsRecorded' /\ Refusals'
    BY <2>2 DEF ChargedIsRecorded, Refusals
  <2>7. UniqueRecords'
    BY DEF UniqueRecords, Recorded, SameEvent
  <2>8. QED
    BY <2>3, <2>4, <2>5, <2>6, <2>7
<1>10. ASSUME NEW c \in Calls, Flag(c) PROVE IInv'
  <2> USE <1>10 DEF Flag, Goto, Reply, creditVars
  <2>1. usage[c] = "unbilled" /\ Debited(c) /\ taken[c] \in ledger
    BY DEF AfterDebit, AfterAppend
  <2>2. \A d \in Calls : (Charged(d)' <=> Charged(d)) /\ (Debited(d)' <=> Debited(d))
    BY DEF Charged, Debited
  <2>3. NoOverspend' /\ MovesAreTaken'
    BY DEF NoOverspend, MovesAreTaken, Debited
  <2>4. BeforeInsert' /\ BeforeDebit'
    BY <2>2 DEF BeforeInsert, BeforeDebit
  <2>5. AfterDebit' /\ AfterAppend'
    BY <2>1, <2>2 DEF AfterDebit, AfterAppend
  <2>6. ChargedIsRecorded' /\ Refusals'
    BY <2>2 DEF ChargedIsRecorded, Refusals
  <2>7. UniqueRecords'
    BY <2>1 DEF UniqueRecords, Recorded, SameEvent
  <2>8. QED
    BY <2>3, <2>4, <2>5, <2>6, <2>7
<1>11. ASSUME NEW c \in Calls, Fail(c) PROVE IInv'
  <2>1. /\ pc' = [pc EXCEPT ![c] = "failed"]
        /\ UNCHANGED <<enforced, req, usage, taken, indexed, balance, moves, ledger>>
        /\ answer'[c].code # 402 /\ \A d \in Calls \ {c} : answer'[d] = answer[d]
    BY <1>11 DEF Fail, Failure, Reply, creditVars
  <2>2. "failed" \in Positions \ {"debit", "append", "flag"}
    BY DEF Positions
  <2>3. QED
    BY <2>1, <2>2, QuietStep
<1>12. CASE BuildIndex
  BY <1>12 DEF BuildIndex, creditVars, NoOverspend, MovesAreTaken, Debited, BeforeInsert, 
               BeforeDebit, AfterDebit, AfterAppend, ChargedIsRecorded, UniqueRecords, 
               Refusals, Charged, Recorded, SameEvent
<1>13. CASE UNCHANGED vars
  BY <1>13 DEF vars, meterVars, creditVars, NoOverspend, MovesAreTaken, Debited, BeforeInsert, 
               BeforeDebit, AfterDebit, AfterAppend, ChargedIsRecorded, UniqueRecords, 
               Refusals, Charged, Recorded, SameEvent
<1>14. QED
  BY <1>1, <1>2, <1>3, <1>4, <1>5, <1>6, <1>7, <1>8, <1>9, <1>10, <1>11, <1>12, <1>13
  DEF Next, Step, Terminated

\* The invariant holds throughout.
THEOREM InvariantCorrect == Spec => []IInv
<1>1. IInv /\ TypeOK' /\ [Next]_vars => IInv'
  BY StepIInv
<1>2. QED
  BY InitIInv, TypeCorrect, <1>1, PTL DEF Spec

-----------------------------------------------------------------------------
(***************************************************************************)
(* What follows for the customer.                                          *)
(***************************************************************************)

\* However calls interleave and wherever handlers die, an enforced balance is
\* never overdrawn.
THEOREM BalanceNeverOverdrawn == Spec => []NoOverspend
<1>1. IInv => NoOverspend
  BY DEF IInv
<1>2. QED
  BY InvariantCorrect, <1>1, PTL

\* Once the idempotency index exists an event is charged at most once, for any
\* number of retries, overlapping in any way.
THEOREM ChargedAtMostOnce == Spec => []ChargedOncePerEvent
<1>1. ASSUME IInv PROVE ChargedOncePerEvent
  <2> SUFFICES ASSUME indexed, NEW m \in moves, NEW n \in moves,
                      m.ref = n.ref \/ SameEvent(m.ref, n.ref)
               PROVE  m = n
    BY DEF ChargedOncePerEvent
  <2> USE <1>1 DEF IInv
  <2>1. m.ref \in Calls /\ n.ref \in Calls /\ m = taken[m.ref] /\ n = taken[n.ref]
    BY DEF MovesAreTaken
  <2>2. m.ref \in Recorded /\ n.ref \in Recorded
    BY <2>1 DEF ChargedIsRecorded, Charged, Recorded
  <2>3. m.ref = n.ref
    BY <2>2 DEF UniqueRecords
  <2>4. QED
    BY <2>1, <2>3
<1>2. QED
  BY InvariantCorrect, <1>1, PTL

\* A record flagged billed has its ledger row, and a charged record is flagged
\* unless its handler is still on the way or died.
THEOREM FlagMatchesLedger == Spec => []BilledMeansPaid
<1>1. ASSUME IInv PROVE BilledMeansPaid
  <2> SUFFICES ASSUME NEW c \in Calls
               PROVE  /\ usage[c] = "billed" => 
                           \E row \in ledger : /\ row.ref = c
                                               /\ row.user = req[c].user
                                               /\ row.units = -req[c].cost
                      /\ Charged(c) /\ usage[c] # "billed" => 
                           pc[c] \in {"append", "flag", "failed"}
    BY DEF BilledMeansPaid
  <2> USE <1>1 DEF IInv
  <2>1. CASE usage[c] = "billed"
    BY <2>1 DEF AfterAppend, Debited
  <2>2. CASE Charged(c) /\ usage[c] # "billed"
    <3>1. pc[c] \in Positions
      BY DEF TypeOK
    <3>2. pc[c] # "done"
      BY <2>2 DEF ChargedIsRecorded
    <3>3. QED
      BY <2>2, <3>1, <3>2 DEF BeforeInsert, BeforeDebit, Positions, InFlight
  <2>3. QED
    BY <2>1, <2>2
<1>2. QED
  BY InvariantCorrect, <1>1, PTL

\* A refused call is never charged, and its record is kept unbilled.
THEOREM RefusedIsNeverCharged == Spec => []RefusalTakesNothing
<1>1. IInv => RefusalTakesNothing
  BY DEF IInv, Refusals, RefusalTakesNothing
<1>2. QED
  BY InvariantCorrect, <1>1, PTL

-----------------------------------------------------------------------------
(***************************************************************************)
(* Replays.  Records are never taken back, so the one that caused a        *)
(* duplicate is there when it is looked for.                               *)
(***************************************************************************)
FindFinds == \A c \in Calls : pc[c] = "find" => Replays(c) # {}

LEMMA RecordsStay ==
  ASSUME IInv, [Next]_vars
  PROVE  /\ req' = req
         /\ \A c \in Calls : usage[c] # "absent" => usage'[c] # "absent"
         /\ \A c \in Calls : Charged(c) => Charged(c)'
<1>1. usage \in [Calls -> {"absent", "unbilled", "billed"}]
  BY DEF IInv, TypeOK
<1>2. ASSUME NEW c \in Calls, Debit(c)
      PROVE  req' = req /\ usage' = usage /\ moves \subseteq moves'
  BY <1>2 DEF Debit, TryDebit, DebitAllowingNegative, Move
<1>3. ASSUME NEW c \in Calls, Insert(c) \/ Flag(c)
      PROVE  /\ req' = req /\ moves' = moves
             /\ \A d \in Calls : usage[d] # "absent" => usage'[d] # "absent"
  BY <1>1, <1>3 DEF Insert, Flag, creditVars
<1>4. CASE UNCHANGED vars \/ ~\E c \in Calls : Debit(c) \/ Insert(c) \/ Flag(c)
  <2>1. req' = req /\ usage' = usage /\ moves' = moves
    BY <1>4 DEF Next, Step, Receive, PrecheckHit, PrecheckMiss, InsertDuplicate, FindReplay,
                DebitRefused, Append, AppendLedger, Fail, Failure, BuildIndex, Terminated, vars,
                creditVars, meterVars
  <2> QED
    BY <2>1 DEF Charged
<1> QED
  BY <1>2, <1>3, <1>4 DEF Charged

\* What ReplayIsTheOriginal says of one answer.
IsOriginal(c) ==
  /\ answer[c].code = 200 =>
       /\ SameEvent(c, answer[c].record)
       /\ usage[answer[c].record] # "absent"
       /\ answer[c].billed => Charged(answer[c].record)
  /\ answer[c].code # 409

\* What an answer is about stays as it is said to be.
LEMMA AnswerStays ==
  ASSUME IInv, [Next]_vars, NEW c \in Calls, IsOriginal(c), answer'[c] = answer[c]
  PROVE  IsOriginal(c)'
<1>1. CASE answer[c].code = 200
  <2>1. PICK d \in Calls : /\ d = answer[c].record
                           /\ usage[d] # "absent" /\ SameEvent(c, d)
                           /\ answer[c].billed => Charged(d)
    BY <1>1 DEF IInv, TypeOK, Answers, NoAnswer, IsOriginal
  <2>2. answer'[c].record = d /\ answer'[c].billed = answer[c].billed
    BY <2>1
  <2>3. usage'[d] # "absent" /\ SameEvent(c, d)' /\ (Charged(d) => Charged(d)')
    BY <2>1, RecordsStay DEF SameEvent
  <2> QED
    BY <1>1, <2>1, <2>2, <2>3 DEF IsOriginal, SameEvent, Charged
<1>2. CASE answer[c].code # 200
  BY <1>2 DEF IsOriginal
<1> QED
  BY <1>1, <1>2

\* An answer that repeats a stored record repeats what is true of it.
LEMMA ReplayAnswer ==
  ASSUME IInv, [Next]_vars, NEW c \in Calls, NEW d \in Replays(c), AnswerReplay(c, d)
  PROVE  IsOriginal(c)'
<1>1. d \in Calls /\ usage[d] # "absent" /\ SameEvent(c, d)
  BY DEF Replays, Recorded
<1>2. answer'[c] = [code |-> 200, record |-> d, billed |-> usage[d] = "billed"]
  BY DEF IInv, TypeOK, AnswerReplay, Reply
<1>3. SameEvent(c, d)' /\ usage'[d] # "absent" /\ (Charged(d) => Charged(d)')
  BY <1>1, RecordsStay DEF SameEvent
<1>4. CASE usage[d] = "billed"
  <2>1. Charged(d)'
    BY <1>1, <1>3, <1>4 DEF IInv, AfterAppend, Debited, Charged
  <2> QED
    BY <1>2, <1>3, <2>1 DEF IsOriginal, SameEvent, Charged
<1>5. CASE usage[d] # "billed"
  <2>1. answer'[c].code = 200 /\ answer'[c].record = d /\ ~answer'[c].billed
    <3>1. (usage[d] = "billed") = FALSE
      BY <1>5
    <3>2. answer'[c] = [code |-> 200, record |-> d, billed |-> FALSE]
      BY <1>2, <3>1
    <3> QED
      BY <3>2
  <2> QED
    BY <1>3, <2>1 DEF IsOriginal, SameEvent, Charged
<1> QED
  BY <1>4, <1>5

LEMMA ReplayStep ==
  IInv /\ FindFinds /\ ReplayIsTheOriginal /\ [Next]_vars => FindFinds' /\ ReplayIsTheOriginal'
<1> SUFFICES ASSUME IInv, FindFinds, ReplayIsTheOriginal, [Next]_vars
             PROVE  FindFinds' /\ ReplayIsTheOriginal'
  OBVIOUS
<1>1. pc \in [Calls -> Positions] /\ answer \in [Calls -> Answers \cup {NoAnswer}]
  BY DEF IInv, TypeOK
<1>2. \A c \in Calls : Replays(c) # {} => Replays(c)' # {}
  BY RecordsStay DEF Replays, Recorded, SameEvent
<1>3. ASSUME NEW c \in Calls, pc'[c] = "find" PROVE pc[c] = "find" \/ Replays(c) # {}
  BY <1>1, <1>3 DEF Next, Step, Receive, PrecheckHit, PrecheckMiss, Insert, InsertDuplicate, Refused,
                    FindReplay, Debit, DebitRefused, Append, Flag, Fail, BuildIndex, Terminated,
                    Goto, vars, meterVars
<1>4. FindFinds'
  BY <1>2, <1>3 DEF FindFinds
<1>5. ASSUME NEW c \in Calls
      PROVE  \/ answer'[c] = answer[c]
             \/ \E d \in Replays(c) : AnswerReplay(c, d)
             \/ answer'[c].code \in {201, 402, 500}
  <2>1. ASSUME NEW e \in Calls, PrecheckHit(e) \/ FindReplay(e)
        PROVE  answer'[c] = answer[c] \/ \E d \in Replays(c) : AnswerReplay(c, d)
    <3>1. \E d \in Replays(e) : AnswerReplay(e, d)
      BY <2>1 DEF PrecheckHit, FindReplay, Goto, FindFinds
    <3> QED
      BY <1>1, <3>1 DEF AnswerReplay, Reply
  <2>2. ASSUME NEW e \in Calls, DebitRefused(e) \/ Flag(e) \/ Fail(e)
        PROVE  answer'[c] = answer[c] \/ answer'[c].code \in {201, 402, 500}
    BY <1>1, <2>2 DEF DebitRefused, Flag, Fail, Reply
  <2>3. CASE \/ UNCHANGED vars \/ BuildIndex \/ Terminated
             \/ \E e \in Calls : \/ Receive(e) \/ PrecheckMiss(e) \/ Insert(e) \/ InsertDuplicate(e)
                                 \/ Debit(e) \/ Append(e)
    BY <2>3 DEF Receive, PrecheckMiss, Insert, InsertDuplicate, Debit, Append, BuildIndex, Terminated,
                vars, meterVars
  <2> QED
    BY <2>1, <2>2, <2>3 DEF Next, Step
<1>6. ReplayIsTheOriginal'
  <2> SUFFICES ASSUME NEW c \in Calls PROVE IsOriginal(c)'
    BY DEF ReplayIsTheOriginal, IsOriginal
  <2>1. IsOriginal(c)
    BY DEF ReplayIsTheOriginal, IsOriginal
  <2>2. CASE answer'[c].code \in {201, 402, 500}
    BY <2>2 DEF IsOriginal
  <2> QED
    BY <1>5, <2>1, <2>2, AnswerStays, ReplayAnswer
<1> QED
  BY <1>4, <1>6

\* A replay answers with the caller's own record of that event, shown as billed
\* only if it was charged, and never with the in-flight conflict.
THEOREM ReplayAlwaysTheOriginal == Spec => []ReplayIsTheOriginal
<1>1. Init => FindFinds /\ ReplayIsTheOriginal
  BY DEF Init, MeteringInit, FindFinds, ReplayIsTheOriginal, NoAnswer
<1>2. QED
  BY InvariantCorrect, <1>1, ReplayStep, PTL DEF Spec

-----------------------------------------------------------------------------
(***************************************************************************)
(* Metering implements CreditAccount: its only step that moves a balance   *)
(* is Debit, and it moves it for a call that had moved nothing.            *)
(***************************************************************************)

LEMMA DebitIsOneMovement ==
  ASSUME IInv, NEW c \in Calls, Debit(c)
  PROVE  Account!Next
<1> DEFINE u == req[c].user
           n == req[c].cost
           row == RowFor(u, c, "usage", -n)
<1>1. u \in Users /\ n \in Nat /\ c \in Refs
  BY RequestType DEF IInv
<1>2. ~Charged(c)
  BY DEF IInv, Debit, Goto, BeforeDebit
<1>3. /\ balance' = [balance EXCEPT ![u] = @ + (-n)]
      /\ moves' = moves \cup {row}
      /\ enforced => balance[u] >= n
  BY DEF Debit, TryDebit, DebitAllowingNegative, Move, Covers
<1>4. balance[u] \in Int
  BY <1>1 DEF IInv, TypeOK, CreditsTypeOK
<1>5. /\ row = [user |-> u, ref |-> c, kind |-> "usage", units |-> -n, 
                after |-> balance[u] + (-n)]
      /\ row.ref = c /\ row.user = u /\ row.kind = "usage" /\ row.units = -n
  BY DEF RowFor
<1>6. row \in moves' /\ row \notin moves
  BY <1>2, <1>3, <1>5 DEF Charged
<1>7. Account!Apply(u, c, "usage", -n)
  <2>1. Account!Fresh(c)
    BY <1>2 DEF Account!Fresh, Charged
  <2>2. enforced /\ -n <= 0 => balance[u] + (-n) >= 0
    BY <1>1, <1>3, <1>4
  <2>3. QED
    BY <1>1, <1>3, <1>5, <2>1, <2>2 DEF Account!Apply, Debit
<1>8. QED
  BY <1>1, <1>5, <1>6, <1>7 DEF Account!Next, Account!Movement

\* Every behaviour of POST /usage is one CreditAccount allows.
THEOREM MeteringImplementsAccount == Spec => ImplementsCreditAccount
<1>1. Init => Account!Init
  BY DEF Init, CreditsInit, MeteringInit, Account!Init
<1>2. IInv /\ [Next]_vars => [Account!Next]_<<balance, moves, enforced>>
  <2> SUFFICES ASSUME IInv, [Next]_vars
               PROVE  Account!Next \/ UNCHANGED <<balance, moves, enforced>>
    OBVIOUS
  <2>1. CASE \E c \in Calls : Debit(c)
    BY <2>1, DebitIsOneMovement
  <2>2. CASE ~\E c \in Calls : Debit(c)
    BY <2>2 DEF Next, Step, Receive, PrecheckHit, PrecheckMiss, Insert, InsertDuplicate,
                FindReplay, DebitRefused, Append, AppendLedger, Flag, Fail, Failure, BuildIndex,
                Terminated, vars, creditVars, meterVars
  <2>3. QED
    BY <2>1, <2>2
<1>3. QED
  BY InvariantCorrect, <1>1, <1>2, PTL DEF Spec, ImplementsCreditAccount, Account!Spec

-----------------------------------------------------------------------------
(***************************************************************************)
(* Billing.                                                                *)
(*                                                                         *)
(* IInv above and the invariant of Settlement_proofs each say that every   *)
(* movement is one of their own, which is not so here.  What carries over  *)
(* is what a handler knows of its own movement: a call that has not been   *)
(* debited (Unmoved) and a top-up whose grant is still to come (Ungranted) *)
(* have moved nothing.  Neither half disturbs the other's, because no call *)
(* is a payment.                                                           *)
(***************************************************************************)
Moved(r) == \E m \in moves : m.ref = r

DebitToCome == {"idle", "precheck", "insert", "find", "debit"}

\* A call that is still before its debit has moved nothing.
Unmoved == \A c \in Calls : pc[c] \in DebitToCome => ~Moved(c)

\* Handler h owns the grant of its top-up.
Granting(h) == job[h].at = "grant"

\* What is not paid, or is with the one handler about to grant it, is ungranted.
Ungranted ==
  /\ \A p \in Payments : stage[p] = "absent" => payment[p].status = "absent"
  /\ \A p \in Payments : payment[p].status # "paid" => ~Moved(p)
  /\ \A h \in Slots : Granting(h) => payment[job[h].p].status = "paid" /\ ~Moved(job[h].p)
  /\ \A h, k \in Slots : Granting(h) /\ Granting(k) /\ job[h].p = job[k].p => h = k

\* Of the types, those that the movements depend on.
CallTypes ==
  /\ req \in [Calls -> Request]
  /\ pc \in [Calls -> Positions]

TopUpTypes ==
  /\ topup \in [Payments -> S!TopUp]
  /\ stage \in [Payments -> S!Stages]
  /\ payment \in [Payments -> S!Document]
  /\ attempt \in [GatewayIds -> Payments \cup {NoPayment}]
  /\ counter \in Nat

JobTypes == job \in [Slots -> S!Job \cup {S!Idle}]

Types ==
  /\ balance \in [Users -> Int]
  /\ CallTypes
  /\ TopUpTypes
  /\ JobTypes

MoneyInv == Types /\ Unmoved /\ Ungranted

-----------------------------------------------------------------------------
(***************************************************************************)
(* Calls.                                                                  *)
(***************************************************************************)

\* A price is a number of units, taken from a user.
LEMMA CallType ==
  ASSUME CallTypes, NEW c \in Calls
  PROVE  req[c].user \in Users /\ req[c].cost \in Nat /\ c \in Refs
<1>1. req[c] \in Request
  BY DEF CallTypes
<1>2. QED
  BY <1>1, BillingAssumption, MeteringAssumption DEF Request

\* A step of a call that is not its debit moves no balance, and leads from
\* after the debit nowhere before it.
LEMMA CallFrame ==
  ASSUME CallTypes, NEW c \in Calls, Receive(c) \/ Step(c) \/ Fail(c), ~Debit(c)
  PROVE  /\ UNCHANGED <<balance, moves, enforced, req>>
         /\ pc' \in [Calls -> Positions]
         /\ \A d \in Calls : pc'[d] \in DebitToCome => pc[d] \in DebitToCome
<1> USE DEF CallTypes, Positions, InFlight, DebitToCome, Goto, creditVars
<1>1. CASE Receive(c)
  BY <1>1 DEF Receive
<1>2. CASE PrecheckHit(c) \/ PrecheckMiss(c)
  BY <1>2 DEF PrecheckHit, PrecheckMiss
<1>3. CASE Insert(c) \/ InsertDuplicate(c) \/ FindReplay(c)
  BY <1>3 DEF Insert, InsertDuplicate, FindReplay
<1>4. CASE DebitRefused(c) \/ Append(c) \/ Flag(c)
  BY <1>4 DEF DebitRefused, Append, AppendLedger, Flag
<1>5. CASE Fail(c)
  BY <1>5 DEF Fail, Failure
<1>6. QED
  BY <1>1, <1>2, <1>3, <1>4, <1>5 DEF Step

\* The debit moves the balance of the caller, for the call, once.
LEMMA DebitEffect ==
  ASSUME MoneyInv, NEW c \in Calls, Debit(c)
  PROVE  /\ Account!Next
         /\ balance' \in [Users -> Int]
         /\ \A r : Moved(r)' => Moved(r) \/ r = c
         /\ UNCHANGED <<enforced, req>>
         /\ pc' = [pc EXCEPT ![c] = "append"]
<1> DEFINE u == req[c].user
           n == req[c].cost
           row == RowFor(u, c, "usage", -n)
<1>1. u \in Users /\ n \in Nat /\ c \in Refs
  BY CallType DEF MoneyInv, Types
<1>2. ~Moved(c)
  BY DEF MoneyInv, Unmoved, DebitToCome, Debit, Goto
<1>3. /\ balance' = [balance EXCEPT ![u] = @ + (-n)]
      /\ moves' = moves \cup {row}
      /\ enforced => balance[u] >= n
  BY DEF Debit, TryDebit, DebitAllowingNegative, Move, Covers
<1>4. balance[u] \in Int
  BY <1>1 DEF MoneyInv, Types
<1>5. /\ row = [user |-> u, ref |-> c, kind |-> "usage", units |-> -n,
                after |-> balance[u] + (-n)]
      /\ row.ref = c /\ row.user = u /\ row.kind = "usage" /\ row.units = -n
  BY DEF RowFor
<1>6. /\ UNCHANGED <<enforced, req>>
      /\ pc' = [pc EXCEPT ![c] = "append"]
  BY DEF Debit, Goto
<1> HIDE DEF u, n, row
<1>7. row \in moves' /\ row \notin moves
  BY <1>2, <1>3, <1>5 DEF Moved
<1>8. Account!Fresh(c)
  BY <1>2 DEF Account!Fresh, Moved
<1>9. enforced /\ -n <= 0 => balance[u] + (-n) >= 0
  BY <1>1, <1>3, <1>4
<1>10. Account!Apply(u, c, "usage", -n)
  BY <1>1, <1>3, <1>5, <1>6, <1>8, <1>9 DEF Account!Apply
<1>11. Account!Next
  BY <1>1, <1>5, <1>7, <1>10 DEF Account!Next, Account!Movement
<1>12. balance' \in [Users -> Int]
  BY <1>1, <1>3, <1>4 DEF MoneyInv, Types
<1>13. \A r : Moved(r)' => Moved(r) \/ r = c
  BY <1>3, <1>5 DEF Moved
<1>14. QED
  BY <1>6, <1>11, <1>12, <1>13

\* A step of a call keeps the invariant, and is a movement or none.
LEMMA MeteringKeeps ==
  ASSUME MoneyInv, MeteringStep
  PROVE  MoneyInv' /\ (Account!Next \/ UNCHANGED <<balance, moves, enforced>>)
<1>1. UNCHANGED settleVars
  BY DEF MeteringStep
<1>2. ASSUME NEW c \in Calls, Debit(c) PROVE MoneyInv' /\ Account!Next
  <2>1. Types'
    BY <1>1, <1>2, DebitEffect
    DEF MoneyInv, Types, CallTypes, TopUpTypes, JobTypes, settleVars, Positions, InFlight
  <2>2. Unmoved'
    BY <1>2, DebitEffect DEF MoneyInv, Types, CallTypes, Unmoved, DebitToCome
  <2>3. \A p \in Payments : Moved(p)' => Moved(p)
    BY <1>2, DebitEffect, BillingAssumption
  <2>4. \A h \in Slots : Granting(h) => job[h].p \in Payments
    BY DEF MoneyInv, Types, JobTypes, S!Job, S!Idle, Granting
  <2>5. Ungranted'
    BY <1>1, <2>3, <2>4 DEF MoneyInv, Ungranted, Granting, settleVars
  <2>6. QED
    BY <1>2, <2>1, <2>2, <2>5, DebitEffect DEF MoneyInv
<1>3. ASSUME UNCHANGED <<balance, moves, enforced, req>>, pc' \in [Calls -> Positions],
             \A d \in Calls : pc'[d] \in DebitToCome => pc[d] \in DebitToCome
      PROVE  MoneyInv'
  BY <1>1, <1>3 DEF MoneyInv, Types, CallTypes, TopUpTypes, JobTypes, Unmoved, Ungranted, Granting, Moved,
                    settleVars
<1>4. ASSUME NEW c \in Calls, Receive(c) \/ Step(c) \/ Fail(c), ~Debit(c)
      PROVE  MoneyInv' /\ UNCHANGED <<balance, moves, enforced>>
  BY <1>3, <1>4, CallFrame DEF MoneyInv, Types
<1>5. CASE BuildIndex
  BY <1>3, <1>5 DEF BuildIndex, creditVars, MoneyInv, Types, CallTypes
<1>6. QED
  BY <1>2, <1>4, <1>5 DEF MeteringStep

-----------------------------------------------------------------------------
(***************************************************************************)
(* Settlement handlers.                                                    *)
(***************************************************************************)

\* What is bought is a number of units, credited to a user.
LEMMA OfferType ==
  ASSUME TopUpTypes, NEW p \in Payments
  PROVE  topup[p].user \in Users /\ S!Units(p) \in Nat /\ p \in Refs
<1>1. topup[p].user \in Users /\ topup[p].offer \in Offers
  BY DEF TopUpTypes, S!TopUp
<1>2. topup[p].offer \in [units: Nat, plan: Plans \cup {NoPlan}] /\ p \in Refs
  BY <1>1, BillingAssumption
<1>3. QED
  BY <1>1, <1>2 DEF S!Units

\* A handler at a position has a job.
LEMMA JobType ==
  ASSUME JobTypes, NEW h \in Slots, NEW a \in S!Positions, S!At(h, a)
  PROVE  /\ job[h] \in S!Job
         /\ job[h].p \in Payments /\ job[h].g \in GatewayIds /\ job[h].no \in Nat
<1>1. job[h] # S!Idle
  BY DEF S!At, S!Idle, S!Positions
<1>2. job[h] \in S!Job
  BY <1>1 DEF JobTypes
<1>3. QED
  BY <1>2 DEF S!Job

\* Only handler h changed, and it is not about to grant.
Elsewhere(h) == 
  /\ JobTypes'
  /\ ~Granting(h)'
  /\ \A k \in Slots \ {h} : job'[k] = job[k]

\* Moving on, to anything but a grant.
LEMMA GoesElsewhere ==
  ASSUME JobTypes, NEW h \in Slots, NEW a \in S!Positions, S!At(h, a),
         NEW b \in S!Positions \ {"grant"}, S!Goto(h, b)
  PROVE  Elsewhere(h)
<1>1. job[h] \in S!Job /\ job' = [job EXCEPT ![h] = [job[h] EXCEPT !.at = b]]
  BY JobType DEF S!Goto
<1>2. [job[h] EXCEPT !.at = b] \in S!Job /\ [job[h] EXCEPT !.at = b].at = b
  BY <1>1 DEF S!Job
<1>3. QED
  BY <1>1, <1>2 DEF Elsewhere, JobTypes, Granting

\* Answering frees the slot.
LEMMA AnswersElsewhere ==
  ASSUME JobTypes, NEW h \in Slots, S!Answer(h) \/ S!AnswerError(h)
  PROVE  Elsewhere(h)
BY DEF S!Answer, S!AnswerError, Elsewhere, JobTypes, Granting, S!Idle

\* A report that is taken up starts at the claim.
LEMMA AcceptedElsewhere ==
  ASSUME JobTypes, NEW h \in Slots, NEW p \in Payments, NEW g \in GatewayIds, NEW r \in S!Routes,
         S!Accept(h, p, g, r)
  PROVE  Elsewhere(h)
<1> DEFINE new == [at |-> "claim", p |-> p, g |-> g, via |-> r, row |-> S!NoRow, no |-> 0]
<1>1. new \in S!Job /\ new.at = "claim"
  BY DEF S!Job, S!Positions
<1>2. job' = [job EXCEPT ![h] = new]
  BY DEF S!Accept
<1>3. QED
  BY <1>1, <1>2 DEF Elsewhere, JobTypes, Granting

\* With no movement, no new owner, and what is paid still paid, nothing the
\* grants rest on has changed.
LEMMA UngrantedKept ==
  ASSUME Types, Ungranted, moves' = moves,
         \A p \in Payments : payment[p].status = "paid" => payment'[p].status = "paid",
         \A p \in Payments : stage'[p] = "absent" =>
            stage[p] = "absent" /\ payment'[p].status = payment[p].status,
         \A h \in Slots : Granting(h)' => Granting(h) /\ job'[h] = job[h]
  PROVE  Ungranted'
<1>1. \A h \in Slots : Granting(h) => job[h].p \in Payments
  BY DEF Types, JobTypes, S!Job, S!Idle, Granting
<1>2. QED
  BY <1>1 DEF Ungranted, Moved, Granting

\* The claim makes its handler the one that will grant.
LEMMA ClaimKeeps ==
  ASSUME MoneyInv, NEW h \in Slots, S!Claim(h)
  PROVE  TopUpTypes' /\ JobTypes' /\ Ungranted' /\ UNCHANGED <<balance, moves>>
<1> DEFINE p == job[h].p
           g == job[h].g
<1>1. p \in Payments /\ g \in GatewayIds /\ job[h] \in S!Job
  BY JobType DEF S!Claim, S!Positions, MoneyInv, Types
<1>2. job' = [job EXCEPT ![h] = [job[h] EXCEPT !.at = "grant"]]
  BY DEF S!Claim, S!Goto
<1>3. job'[h] \in S!Job /\ job'[h].p = p /\ \A k \in Slots \ {h} : job'[k] = job[k]
  BY <1>1, <1>2 DEF S!Job, S!Positions, MoneyInv, Types, JobTypes
<1>4. JobTypes'
  BY <1>2, <1>3 DEF MoneyInv, Types, JobTypes
<1>5. /\ UNCHANGED <<balance, moves, topup, stage, attempt, counter>>
      /\ payment[p].status = "pending"
      /\ payment' = [payment EXCEPT ![p].status = "paid", ![p].gid = g]
  BY DEF S!Claim, S!Claimable, S!requestVars, S!creditVars
<1>6. TopUpTypes' /\ payment'[p].status = "paid" /\ \A q \in Payments \ {p} : payment'[q] = payment[q]
  BY <1>1, <1>5 DEF MoneyInv, Types, TopUpTypes, S!Document
<1>7. \A k \in Slots : Granting(k) => job[k].p \in Payments /\ job[k].p # p
  BY <1>5 DEF MoneyInv, Types, JobTypes, S!Job, S!Idle, Granting, Ungranted
<1>8. ~Moved(p)
  BY <1>1, <1>5 DEF MoneyInv, Ungranted
<1> HIDE DEF p, g
<1>9. Ungranted'
  <2>1. \A q \in Payments : /\ stage'[q] = "absent" => payment'[q].status = "absent"
                            /\ payment'[q].status # "paid" => ~Moved(q)'
    BY <1>5, <1>6 DEF MoneyInv, Ungranted, Moved
  <2>2. \A k \in Slots : Granting(k)' =>
          IF k = h THEN job'[k].p = p ELSE Granting(k) /\ job'[k].p = job[k].p
    BY <1>3 DEF Granting
  <2>3. ASSUME NEW k \in Slots, Granting(k)'
        PROVE  payment'[job'[k].p].status = "paid" /\ \A m \in moves' : m.ref # job'[k].p
    <3>1. CASE k = h
      BY <1>5, <1>6, <1>8, <2>2, <2>3, <3>1 DEF Moved
    <3>2. CASE k # h
      <4>1. Granting(k) /\ job'[k].p = job[k].p /\ job[k].p \in Payments \ {p}
        BY <1>7, <2>2, <2>3, <3>2
      <4>2. payment[job[k].p].status = "paid" /\ ~Moved(job[k].p)
        BY <4>1 DEF MoneyInv, Ungranted
      <4>3. QED
        BY <1>5, <1>6, <4>1, <4>2 DEF Moved
    <3>3. QED
      BY <3>1, <3>2
  <2>4. \A k, l \in Slots : Granting(k)' /\ Granting(l)' /\ job'[k].p = job'[l].p => k = l
    BY <1>7, <2>2 DEF MoneyInv, Ungranted
  <2>5. QED
    BY <2>1, <2>3, <2>4 DEF Ungranted, Moved
<1>10. QED
  BY <1>4, <1>5, <1>6, <1>9

\* The grant moves the balance of the customer, for the top-up, once.
LEMMA GrantEffect ==
  ASSUME MoneyInv, UNCHANGED enforced, NEW h \in Slots, S!GrantCredits(h)
  PROVE  /\ Account!Next
         /\ balance' \in [Users -> Int]
         /\ \A r : Moved(r)' => Moved(r) \/ r = job[h].p
         /\ TopUpTypes' /\ JobTypes' /\ Ungranted'
<1> DEFINE p == job[h].p
           u == topup[p].user
           n == S!Units(p)
           row == S!RowFor(u, p, "purchase", n)
<1>1. S!At(h, "grant")
  BY DEF S!GrantCredits
<1>2. p \in Payments /\ job[h] \in S!Job
  BY <1>1, JobType DEF S!Positions, MoneyInv, Types
<1>3. payment[p].status = "paid" /\ ~Moved(p)
  BY <1>1 DEF MoneyInv, Ungranted, Granting, S!At
<1>4. u \in Users /\ p \in Refs /\ n \in Nat
  BY <1>2, OfferType DEF MoneyInv, Types
<1>5. /\ balance' = [balance EXCEPT ![u] = @ + n]
      /\ moves' = moves \cup {row}
      /\ n > 0
  BY DEF S!GrantCredits, S!Grant, S!Move
<1>6. balance[u] \in Int
  BY <1>4 DEF MoneyInv, Types
<1>7. /\ row = [user |-> u, ref |-> p, kind |-> "purchase", units |-> n, after |-> balance[u] + n]
      /\ row.ref = p /\ row.user = u /\ row.kind = "purchase" /\ row.units = n
  BY DEF S!RowFor
<1>8. row \in S!Row
  BY <1>4, <1>6, <1>7 DEF S!Row, S!Kinds
<1>9. /\ job' = [job EXCEPT ![h] = [job[h] EXCEPT !.at = "append", !.row = row]]
      /\ UNCHANGED <<topup, stage, attempt, payment, counter>>
  BY DEF S!GrantCredits
<1> HIDE DEF p, u, n, row
<1>10. job'[h] \in S!Job /\ job'[h].at = "append" /\ \A k \in Slots \ {h} : job'[k] = job[k]
  BY <1>2, <1>8, <1>9 DEF S!Job, S!Positions, MoneyInv, Types, JobTypes
<1>11. TopUpTypes' /\ JobTypes'
  BY <1>9, <1>10 DEF MoneyInv, Types, JobTypes, TopUpTypes
<1>12. \A r : Moved(r)' => Moved(r) \/ r = p
  BY <1>5, <1>7 DEF Moved
<1>13. Ungranted'
  <2>1. \A k \in Slots : Granting(k)' => /\ k # h /\ Granting(k) /\ job'[k] = job[k]
                                         /\ job[k].p \in Payments /\ job[k].p # p
    BY <1>1, <1>10 DEF MoneyInv, Types, JobTypes, S!Job, S!Idle, S!At, Granting, Ungranted, p
  <2>2. \A q \in Payments : payment[q].status # "paid" => q # p
    BY <1>3
  <2>3. QED
    BY <1>9, <1>12, <2>1, <2>2 DEF MoneyInv, Ungranted
<1>14. Account!Next
  <2>1. row \in moves' /\ row \notin moves
    BY <1>3, <1>5, <1>7 DEF Moved
  <2>2. Account!Fresh(p)
    BY <1>3 DEF Account!Fresh, Moved
  <2>3. enforced /\ n <= 0 => balance[u] + n >= 0
    BY <1>4, <1>5
  <2>4. Account!Apply(u, p, "purchase", n)
    BY <1>4, <1>5, <1>7, <2>2, <2>3 DEF Account!Apply
  <2>5. QED
    BY <1>4, <1>7, <2>1, <2>4 DEF Account!Next, Account!Movement
<1>15. balance' \in [Users -> Int]
  BY <1>4, <1>5, <1>6 DEF MoneyInv, Types
<1>16. QED
  BY <1>11, <1>12, <1>13, <1>14, <1>15 DEF p

\* The other steps of a handler, and reports, move nothing and make no owner.
LEMMA HandlerFrame ==
  ASSUME MoneyInv, NEW h \in Slots,
         ReportStep(h) \/ S!Settle(h) \/ S!InvoiceFails(h) \/ S!Fail(h),
         ~S!Claim(h), ~S!GrantCredits(h)
  PROVE  /\ UNCHANGED <<balance, moves>>
         /\ TopUpTypes' /\ JobTypes' /\ Ungranted'
<1> USE DEF MoneyInv, Types
<1>1. ASSUME UNCHANGED <<balance, moves, topup, stage, attempt>>,
             \A q \in Payments : payment'[q].status = payment[q].status,
             payment' \in [Payments -> S!Document], counter' \in Nat,
             UNCHANGED job \/ Elsewhere(h)
      PROVE  UNCHANGED <<balance, moves>> /\ TopUpTypes' /\ JobTypes' /\ Ungranted'
  <2>1. TopUpTypes' /\ JobTypes'
    BY <1>1 DEF TopUpTypes, JobTypes, Elsewhere
  <2>2. \A k \in Slots : Granting(k)' => Granting(k) /\ job'[k] = job[k]
    BY <1>1 DEF Elsewhere, Granting
  <2>3. Ungranted'
    BY <1>1, <2>2, UngrantedKept
  <2>4. QED
    BY <1>1, <2>1, <2>3
<1>2. CASE ReportStep(h)
  <2>1. UNCHANGED job \/ Elsewhere(h)
    <3>1. ASSUME NEW g \in GatewayIds, S!Webhook(h, g) PROVE UNCHANGED job \/ Elsewhere(h)
      BY <3>1, AcceptedElsewhere DEF S!Webhook, TopUpTypes, S!Routes
    <3>2. ASSUME NEW p \in Payments, NEW g \in GatewayIds, S!Confirm(h, p, g) PROVE Elsewhere(h)
      BY <3>2, AcceptedElsewhere DEF S!Confirm, S!Routes
    <3>3. ASSUME NEW u \in Users, NEW p \in Payments, NEW g \in GatewayIds, S!Callback(h, u, p, g)
          PROVE  Elsewhere(h)
      BY <3>3, AcceptedElsewhere DEF S!Callback, S!Routes
    <3>4. QED
      BY <1>2, <3>1, <3>2, <3>3 DEF ReportStep
  <2>2. UNCHANGED <<S!requestVars, payment, counter>>
    BY <1>2 DEF ReportStep, S!Webhook, S!Confirm, S!Callback
  <2>3. QED
    BY <1>1, <2>1, <2>2 DEF S!requestVars, S!creditVars, TopUpTypes
<1>3. CASE S!ClaimConflict(h) \/ S!ClaimReplay(h) \/ S!GrantRefused(h) \/ S!SendReceipt(h) \/ S!Fail(h)
  <2>1. Elsewhere(h)
    BY <1>3, AnswersElsewhere DEF S!ClaimConflict, S!ClaimReplay, S!GrantRefused, S!SendReceipt, S!Fail
  <2>2. UNCHANGED <<balance, moves, topup, stage, attempt, payment, counter>>
    BY <1>3 DEF S!ClaimConflict, S!ClaimReplay, S!GrantRefused, S!SendReceipt, S!Fail, S!Failure,
                S!requestVars, S!creditVars
  <2>3. QED
    BY <1>1, <2>1, <2>2 DEF TopUpTypes
<1>4. CASE S!AppendGrant(h) \/ S!UpgradePlan(h) \/ S!InsertInvoice(h) \/ S!InvoiceFails(h)
  <2>1. Elsewhere(h)
    BY <1>4, GoesElsewhere
    DEF S!AppendGrant, S!UpgradePlan, S!InsertInvoice, S!InvoiceFails, S!Positions
  <2>2. UNCHANGED <<balance, moves, topup, stage, attempt, payment, counter>>
    BY <1>4 DEF S!AppendGrant, S!AppendLedger, S!UpgradePlan, S!InsertInvoice, S!InvoiceFails,
                S!Failure, S!requestVars, S!creditVars
  <2>3. QED
    BY <1>1, <2>1, <2>2 DEF TopUpTypes
<1>5. CASE S!DrawNumber(h)
  <2>1. job[h] \in S!Job /\ counter \in Nat
    BY <1>5, JobType DEF S!DrawNumber, S!Positions, TopUpTypes
  <2>2. job' = [job EXCEPT ![h] = [job[h] EXCEPT !.at = "insert", !.no = counter + 1]]
    BY <1>5 DEF S!DrawNumber
  <2> DEFINE new == [job[h] EXCEPT !.at = "insert", !.no = counter + 1]
  <2>3. new \in S!Job /\ new.at = "insert"
    <3>1. \A j \in S!Job, n \in Nat :
            LET next == [j EXCEPT !.at = "insert", !.no = n]
            IN  next \in S!Job /\ next.at = "insert"
      BY DEF S!Job, S!Positions
    <3>2. counter + 1 \in Nat
      BY <2>1
    <3>3. QED
      BY <2>1, <3>1, <3>2
  <2>4. job' = [job EXCEPT ![h] = new]
    BY <2>2
  <2> HIDE DEF new
  <2>5. Elsewhere(h)
    BY <2>3, <2>4 DEF Elsewhere, JobTypes, Granting
  <2>6. counter' \in Nat /\ UNCHANGED <<balance, moves, topup, stage, attempt, payment>>
    BY <1>5, <2>1 DEF S!DrawNumber, S!requestVars, S!creditVars
  <2>7. QED
    BY <1>1, <2>5, <2>6 DEF TopUpTypes
<1>6. CASE S!StampPayment(h)
  <2>1. Elsewhere(h)
    BY <1>6, GoesElsewhere DEF S!StampPayment, S!Positions
  <2>2. job[h].p \in Payments /\ job[h].no \in Nat
    BY <1>6, JobType DEF S!StampPayment, S!Positions
  <2>3. /\ payment' \in [Payments -> S!Document]
        /\ \A q \in Payments : payment'[q].status = payment[q].status
    BY <1>6, <2>2 DEF S!StampPayment, TopUpTypes, S!Document
  <2>4. UNCHANGED <<balance, moves, topup, stage, attempt, counter>>
    BY <1>6 DEF S!StampPayment, S!requestVars, S!creditVars
  <2>5. QED
    BY <1>1, <2>1, <2>3, <2>4 DEF TopUpTypes
<1>7. QED
  BY <1>2, <1>3, <1>4, <1>5, <1>6 DEF S!Settle

-----------------------------------------------------------------------------
(***************************************************************************)
(* Top-ups being created.                                                  *)
(***************************************************************************)

\* create_top_up and the customer move nothing; a document becomes pending that
\* was not there.
LEMMA TopUpKeeps ==
  ASSUME MoneyInv, NEW p \in Payments, S!TopUpNext(p)
  PROVE  UNCHANGED <<balance, moves>> /\ TopUpTypes' /\ JobTypes' /\ Ungranted'
<1> USE DEF MoneyInv, Types, TopUpTypes
<1>1. UNCHANGED <<balance, moves, topup, job, counter>>
  BY DEF S!TopUpNext, S!RecordTopUp, S!OpenWithoutGateway, S!CreateOrder, S!OrderFails,
         S!SaveOrder, S!TopUpDies, S!Pay, S!TopUpStep, S!orderVars, S!creditVars, S!Failure
<1>2. /\ stage' \in [Payments -> S!Stages]
      /\ attempt' \in [GatewayIds -> Payments \cup {NoPayment}]
      /\ \A q \in Payments : stage'[q] = "absent" => stage[q] = "absent"
  BY DEF S!TopUpNext, S!RecordTopUp, S!OpenWithoutGateway, S!CreateOrder, S!OrderFails,
         S!SaveOrder, S!TopUpDies, S!Pay, S!TopUpStep, S!Stages
<1>3. /\ payment' \in [Payments -> S!Document]
      /\ \A q \in Payments : payment'[q].status # payment[q].status =>
            stage[q] = "absent" /\ stage'[q] # "absent"
  <2>1. CASE S!RecordTopUp(p)
    BY <2>1 DEF S!RecordTopUp, S!TopUpStep, S!Document
  <2>2. CASE S!SaveOrder(p)
    BY <2>2 DEF S!SaveOrder, S!Document
  <2>3. CASE UNCHANGED payment
    BY <2>3
  <2>4. QED
    BY <2>1, <2>2, <2>3
    DEF S!TopUpNext, S!OpenWithoutGateway, S!CreateOrder, S!OrderFails, S!TopUpDies, S!Pay
<1>4. TopUpTypes' /\ JobTypes'
  BY <1>1, <1>2, <1>3 DEF JobTypes
<1>5. Ungranted'
  <2>1. \A q \in Payments : payment[q].status = "paid" => payment'[q].status = "paid"
    BY <1>3 DEF Ungranted
  <2>2. QED
    BY <1>1, <1>2, <1>3, <2>1, UngrantedKept DEF Granting
<1>6. QED
  BY <1>1, <1>4, <1>5

\* A step of a settlement keeps the invariant, and is a movement or none.
LEMMA SettlementKeeps ==
  ASSUME MoneyInv, SettlementStep
  PROVE  MoneyInv' /\ (Account!Next \/ UNCHANGED <<balance, moves, enforced>>)
<1>1. UNCHANGED <<enforced, req, pc>>
  BY DEF SettlementStep, meterVars
<1>2. ASSUME balance' \in [Users -> Int], TopUpTypes', JobTypes', Ungranted',
             \A c \in Calls : Moved(c)' => Moved(c)
      PROVE  MoneyInv'
  BY <1>1, <1>2 DEF MoneyInv, Types, CallTypes, Unmoved
<1>3. ASSUME UNCHANGED <<balance, moves>>, TopUpTypes', JobTypes', Ungranted' PROVE MoneyInv'
  BY <1>2, <1>3 DEF MoneyInv, Types, Moved
<1>4. ASSUME NEW p \in Payments, TopUpStep(p) PROVE MoneyInv' /\ UNCHANGED <<balance, moves>>
  BY <1>3, <1>4, TopUpKeeps DEF TopUpStep
<1>5. ASSUME NEW h \in Slots, ReportStep(h) \/ S!Settle(h) \/ S!InvoiceFails(h) \/ S!Fail(h)
      PROVE  MoneyInv' /\ (Account!Next \/ UNCHANGED <<balance, moves>>)
  <2>1. CASE S!Claim(h)
    BY <1>3, <2>1, ClaimKeeps
  <2>2. CASE S!GrantCredits(h)
    <3>1. job[h].p \in Payments
      BY <2>2, JobType DEF S!GrantCredits, S!Positions, MoneyInv, Types
    <3>2. \A c \in Calls : Moved(c)' => Moved(c)
      BY <1>1, <2>2, <3>1, GrantEffect, BillingAssumption
    <3>3. QED
      BY <1>1, <1>2, <2>2, <3>2, GrantEffect
  <2>3. CASE ~S!Claim(h) /\ ~S!GrantCredits(h)
    BY <1>3, <1>5, <2>3, HandlerFrame
  <2>4. QED
    BY <2>1, <2>2, <2>3
<1>6. QED
  BY <1>1, <1>4, <1>5 DEF SettlementStep

-----------------------------------------------------------------------------
(***************************************************************************)
(* Closures, and the theorem.                                              *)
(***************************************************************************)

\* Closing an account is a step of CreditAccount when it zeroes the balance.
LEMMA ClosureKeeps ==
  ASSUME MoneyInv, ClosureStep
  PROVE  MoneyInv' /\ (Account!Next \/ UNCHANGED <<balance, moves, enforced>>)
<1>1. UNCHANGED <<meterVars, settleVars, moves>>
  BY DEF ClosureStep, RevokeKeys, RevokeSessions, Anonymise, EmptyAccount, ClosingDies, CloseStep,
         ZeroBalance, Failure, creditVars
<1>2. UNCHANGED balance \/ \E u \in Users : balance' = [balance EXCEPT ![u] = 0]
  BY DEF ClosureStep, RevokeKeys, RevokeSessions, Anonymise, EmptyAccount, ClosingDies, CloseStep,
         ZeroBalance, Failure, creditVars
<1>3. balance' \in [Users -> Int]
  BY <1>2 DEF MoneyInv, Types
<1>4. MoneyInv'
  BY <1>1, <1>3 DEF MoneyInv, Types, CallTypes, TopUpTypes, JobTypes, Unmoved, Ungranted, Granting, Moved,
                    meterVars, settleVars
<1>5. QED
  BY <1>1, <1>2, <1>4 DEF Account!Next, Account!Close, meterVars

\* The invariant holds before any call or top-up.
LEMMA InitMoneyInv == BillingInit => MoneyInv
<1> SUFFICES ASSUME BillingInit PROVE MoneyInv
  OBVIOUS
<1>1. balance \in [Users -> Int] /\ moves = {}
  BY CreditsAssumption DEF BillingInit, Init, CreditsInit
<1>2. CallTypes
  BY DEF BillingInit, Init, MeteringInit, CallTypes, Positions
<1>3. TopUpTypes /\ JobTypes
  BY DEF BillingInit, S!SettlementInit, TopUpTypes, JobTypes, S!NoDocument, S!Document, S!Stages
<1>4. Unmoved /\ Ungranted
  BY <1>1 DEF BillingInit, S!SettlementInit, Unmoved, Ungranted, Moved, Granting, S!NoDocument, S!Idle
<1>5. QED
  BY <1>1, <1>2, <1>3, <1>4 DEF MoneyInv, Types

\* Every step keeps it, and is a movement of CreditAccount or none.
LEMMA StepMoneyInv ==
  ASSUME MoneyInv, [BillingNext]_billingVars
  PROVE  MoneyInv' /\ (Account!Next \/ UNCHANGED <<balance, moves, enforced>>)
<1>1. CASE UNCHANGED billingVars
  BY <1>1 DEF MoneyInv, Types, CallTypes, TopUpTypes, JobTypes, Unmoved, Ungranted, Granting, Moved,
              billingVars, vars, creditVars, meterVars, settleVars
<1>2. QED
  BY <1>1, MeteringKeeps, SettlementKeeps, ClosureKeeps DEF BillingNext, BillingTerminated

\* Every behaviour of calls, settlements and closures together is one
\* CreditAccount allows: one movement for each call and each top-up, an enforced
\* balance never overdrawn by a call, and each movement showing what it left.
THEOREM BillingImplementsAccount == BillingSpec => ImplementsCreditAccount
<1>1. BillingInit => Account!Init
  BY DEF BillingInit, Init, CreditsInit, MeteringInit, Account!Init
<1>2. MoneyInv /\ [BillingNext]_billingVars => MoneyInv' /\ [Account!Next]_<<balance, moves, enforced>>
  BY StepMoneyInv
<1>3. QED
  BY InitMoneyInv, <1>1, <1>2, PTL DEF BillingSpec, ImplementsCreditAccount, Account!Spec

-----------------------------------------------------------------------------
(***************************************************************************)
(* The ledger.                                                             *)
(*                                                                         *)
(* A balance is always its opening, less what closing wrote off, plus      *)
(* every movement it made.  Until something fails each of those movements  *)
(* is in the ledger or in the hands of the handler about to append it, so  *)
(* the two agree once no handler is at work.                               *)
(***************************************************************************)
MovesOf(u) == {m \in moves : m.user = u}

\* Some handler has still to append the row of movement m.
AtHand(m) ==
  \/ \E c \in Calls : pc[c] = "append" /\ taken[c] = m
  \/ \E h \in Slots : job[h].at = "append" /\ job[h].row = m

\* A handler about to append holds a movement, of the account it works for.
HeldRows ==
  /\ \A c \in Calls : pc[c] = "append" => taken[c] \in MovesOf(req[c].user)
  /\ \A h \in Slots : job[h].at = "append" => job[h].row \in MovesOf(topup[job[h].p].user)

\* The figures are integers, and the movements finitely many.
BookTypes ==
  /\ failures \in Nat
  /\ forfeited \in [Users -> Int]
  /\ taken \in [Calls -> Row \cup {NoRow}]
  /\ IsFiniteSet(moves)
  /\ \A m \in moves : m.units \in Int

Balanced == \A u \in Users : balance[u] = Opening[u] - forfeited[u] + Total(MovesOf(u))

NothingLost == failures = 0 => \A m \in moves : m \in ledger \/ AtHand(m)

Books ==
  /\ BookTypes
  /\ ledger \subseteq moves
  /\ HeldRows
  /\ Balanced
  /\ NothingLost

\* Adding a row adds its units.
LEMMA TotalAdd ==
  ASSUME NEW rows, IsFiniteSet(rows), \A m \in rows : m.units \in Int,
         NEW row, row \notin rows, row.units \in Int
  PROVE  Total(rows \cup {row}) = Total(rows) + row.units
<1> DEFINE f == [m \in rows |-> m.units]
           g == [m \in rows \cup {row} |-> m.units]
<1>1. \A m \in rows : f[m] = g[m] /\ g[m] \in Int
  OBVIOUS
<1>2. g[row] = row.units /\ g[row] \in Int
  OBVIOUS
<1> HIDE DEF f, g
<1>3. SumFunctionOnSet(f, rows) = SumFunctionOnSet(g, rows)
  BY <1>1, SumAgrees
<1>4. SumFunctionOnSet(g, rows \cup {row}) = SumFunctionOnSet(g, rows) + g[row]
  BY <1>1, <1>2, SumAdd
<1>5. QED
  BY <1>2, <1>3, <1>4 DEF Total, f, g

\* Rows of finitely many units come to an integer.
LEMMA TotalType ==
  ASSUME NEW rows, IsFiniteSet(rows), \A m \in rows : m.units \in Int
  PROVE  Total(rows) \in Int
<1> DEFINE f == [m \in rows |-> m.units]
<1>1. \A m \in rows : f[m] \in Int
  OBVIOUS
<1> HIDE DEF f
<1>2. SumFunctionOnSet(f, rows) \in Int
  BY <1>1, SumType
<1>3. QED
  BY <1>2 DEF Total, f

\* The movements of one account are finitely many, too.
LEMMA MovesOfType ==
  ASSUME BookTypes, NEW u
  PROVE  /\ IsFiniteSet(MovesOf(u))
         /\ \A m \in MovesOf(u) : m.units \in Int
         /\ Total(MovesOf(u)) \in Int
<1>1. IsFiniteSet(MovesOf(u)) /\ \A m \in MovesOf(u) : m.units \in Int
  <2>1. MovesOf(u) \subseteq moves
    BY DEF MovesOf
  <2>2. QED
    BY <2>1, FS_Subset DEF BookTypes
<1>2. QED
  BY <1>1, TotalType

\* One account's balance moved, and the movement that says so is new.
LEMMA BalancedByMove ==
  ASSUME BookTypes, Balanced, balance \in [Users -> Int], UNCHANGED forfeited,
         NEW u \in Users, NEW row, row \notin moves, row.user = u, row.units \in Int,
         moves' = moves \cup {row}, balance' = [balance EXCEPT ![u] = @ + row.units]
  PROVE  Balanced' /\ IsFiniteSet(moves') /\ \A m \in moves' : m.units \in Int
<1>1. IsFiniteSet(moves') /\ \A m \in moves' : m.units \in Int
  BY FS_AddElement DEF BookTypes
<1>2. ASSUME NEW v \in Users
      PROVE  balance'[v] = Opening[v] - forfeited'[v] + Total(MovesOf(v))'
  <2>1. CASE v = u
    <3>1. MovesOf(v)' = MovesOf(v) \cup {row} /\ row \notin MovesOf(v)
      BY <2>1 DEF MovesOf
    <3>2. Total(MovesOf(v) \cup {row}) = Total(MovesOf(v)) + row.units
      BY <3>1, MovesOfType, TotalAdd
    <3>3. Total(MovesOf(v))' = Total(MovesOf(v)) + row.units
      BY <3>1, <3>2 DEF Total
    <3>4. balance[v] = Opening[v] - forfeited[v] + Total(MovesOf(v)) /\ balance'[v] = balance[v] + row.units
      BY <2>1 DEF Balanced
    <3>5. Total(MovesOf(v)) \in Int
      BY MovesOfType
    <3>6. Opening[v] \in Int /\ forfeited[v] \in Int /\ balance[v] \in Int
      <4>1. Opening[v] \in Nat
        BY CreditsAssumption
      <4>2. forfeited[v] \in Int
        BY DEF BookTypes
      <4>3. QED
        BY <4>1, <4>2
    <3>7. \A b, o, f, t, n \in Int : b = o - f + t => b + n = o - f + (t + n)
      OBVIOUS
    <3>8. balance'[v] = Opening[v] - forfeited[v] + (Total(MovesOf(v)) + row.units)
      BY <3>4, <3>5, <3>6, <3>7
    <3>9. QED
      BY <3>3, <3>8
  <2>2. CASE v # u
    <3>1. MovesOf(v)' = MovesOf(v)
      BY <2>2 DEF MovesOf
    <3>2. Total(MovesOf(v))' = Total(MovesOf(v))
      BY <3>1 DEF Total
    <3>3. QED
      BY <2>2, <3>2 DEF Balanced
  <2>3. QED
    BY <2>1, <2>2
<1>3. QED
  BY <1>1, <1>2 DEF Balanced

\* Without a new movement the books stay balanced.
LEMMA BalancedKept ==
  ASSUME Balanced, UNCHANGED <<balance, forfeited, moves>>
  PROVE  Balanced'
BY DEF Balanced, Total, MovesOf

\* A step that moves nothing and writes no row keeps the books, unless it loses a
\* row that was at hand without counting as a failure.
LEMMA BooksKept ==
  ASSUME Books, UNCHANGED <<balance, moves, ledger, forfeited, req, topup>>,
         taken' \in [Calls -> Row \cup {NoRow}],
         \A c \in Calls : pc'[c] = "append" => pc[c] = "append" /\ taken'[c] = taken[c],
         \A h \in Slots : job'[h].at = "append" => job'[h] = job[h],
         \/ failures' \in Nat \ {0}
         \/ /\ UNCHANGED failures
            /\ \A c \in Calls : pc[c] = "append" => pc'[c] = "append"
            /\ \A h \in Slots : job[h].at = "append" => job'[h].at = "append"
  PROVE  Books'
<1>1. BookTypes'
  BY DEF Books, BookTypes
<1>2. Balanced'
  BY BalancedKept DEF Books
<1>3. HeldRows'
  BY DEF Books, HeldRows, MovesOf
<1>4. NothingLost'
  BY DEF Books, NothingLost, AtHand
<1>5. QED
  BY <1>1, <1>2, <1>3, <1>4 DEF Books

\* A row appended by the handler that held it is a movement's.
LEMMA BooksAfterAppend ==
  ASSUME Books, UNCHANGED <<balance, moves, forfeited, failures, req, topup, taken>>,
         NEW row \in moves, ledger' = ledger \cup {row},
         \A c \in Calls : pc'[c] = "append" => pc[c] = "append",
         \A h \in Slots : job'[h].at = "append" => job'[h] = job[h],
         \A c \in Calls : pc[c] = "append" => pc'[c] = "append" \/ taken[c] = row,
         \A h \in Slots : job[h].at = "append" => job'[h].at = "append" \/ job[h].row = row
  PROVE  Books'
<1>1. BookTypes'
  BY DEF Books, BookTypes
<1>2. Balanced'
  BY BalancedKept DEF Books
<1>3. HeldRows' /\ (ledger \subseteq moves)'
  BY DEF Books, HeldRows, MovesOf
<1>4. NothingLost'
  BY DEF Books, NothingLost, AtHand
<1>5. QED
  BY <1>1, <1>2, <1>3, <1>4 DEF Books

\* A movement in the hands of the handler that made it keeps the books.
LEMMA BooksAfterMove ==
  ASSUME Books, balance \in [Users -> Int], UNCHANGED <<forfeited, failures, ledger, req, topup>>,
         NEW u \in Users, NEW row, row \notin moves, row.user = u, row.units \in Int,
         moves' = moves \cup {row}, balance' = [balance EXCEPT ![u] = @ + row.units],
         taken' \in [Calls -> Row \cup {NoRow}],
         \A c \in Calls : pc'[c] = "append" =>
            \/ pc[c] = "append" /\ taken'[c] = taken[c]
            \/ taken'[c] = row /\ req[c].user = u,
         \A h \in Slots : job'[h].at = "append" =>
            \/ job'[h] = job[h]
            \/ job'[h].row = row /\ topup[job'[h].p].user = u,
         \A c \in Calls : pc[c] = "append" => pc'[c] = "append" /\ taken'[c] = taken[c],
         \A h \in Slots : job[h].at = "append" => job'[h] = job[h],
         AtHand(row)'
  PROVE  Books'
<1>1. Balanced' /\ BookTypes'
  <2>1. Balanced' /\ IsFiniteSet(moves') /\ \A m \in moves' : m.units \in Int
    BY BalancedByMove DEF Books
  <2>2. QED
    BY <2>1 DEF Books, BookTypes
<1>2. HeldRows' /\ (ledger \subseteq moves)'
  <2>1. \A v : \A m \in MovesOf(v) : m \in MovesOf(v)'
    BY DEF MovesOf
  <2>2. row \in MovesOf(u)'
    BY DEF MovesOf
  <2>3. QED
    BY <2>1, <2>2 DEF Books, HeldRows
<1>3. NothingLost'
  BY DEF Books, NothingLost, AtHand
<1>4. QED
  BY <1>1, <1>2, <1>3 DEF Books

\* A step of a call that is neither its debit nor its append writes nothing but
\* its own position, and leaves the append only by failing.
LEMMA CallBooksFrame ==
  ASSUME CallTypes, failures \in Nat, NEW c \in Calls,
         Receive(c) \/ Step(c) \/ Fail(c), ~Debit(c), ~Append(c)
  PROVE  /\ UNCHANGED <<balance, moves, ledger, forfeited, req, taken>>
         /\ \A d \in Calls : pc'[d] = "append" => pc[d] = "append"
         /\ \/ failures' \in Nat \ {0}
            \/ UNCHANGED failures /\ \A d \in Calls : pc[d] = "append" => pc'[d] = "append"
<1> USE DEF CallTypes, Positions, InFlight, Goto, creditVars
<1>1. CASE Receive(c)
  BY <1>1 DEF Receive
<1>2. CASE PrecheckHit(c) \/ PrecheckMiss(c)
  BY <1>2 DEF PrecheckHit, PrecheckMiss
<1>3. CASE Insert(c) \/ InsertDuplicate(c) \/ FindReplay(c)
  BY <1>3 DEF Insert, InsertDuplicate, FindReplay
<1>4. CASE DebitRefused(c) \/ Flag(c)
  BY <1>4 DEF DebitRefused, Flag
<1>5. CASE Fail(c)
  BY <1>5 DEF Fail, Failure
<1>6. QED
  BY <1>1, <1>2, <1>3, <1>4, <1>5 DEF Step

\* A call in progress keeps the books.
LEMMA MeteringBooks ==
  ASSUME MoneyInv, Books, MeteringStep
  PROVE  Books'
<1>1. UNCHANGED <<topup, job>> /\ CallTypes /\ balance \in [Users -> Int]
  BY DEF MeteringStep, settleVars, MoneyInv, Types
<1>2. ASSUME NEW c \in Calls, Debit(c) PROVE Books'
  <2> DEFINE u == req[c].user
             n == req[c].cost
  <2>0. PICK row : row = RowFor(u, c, "usage", -n)
    OBVIOUS
  <2>1. u \in Users /\ n \in Nat /\ c \in Refs
    BY <1>1, CallType
  <2>2. ~Moved(c)
    BY <1>2 DEF MoneyInv, Unmoved, DebitToCome, Debit, Goto
  <2>3. /\ balance' = [balance EXCEPT ![u] = @ + (-n)]
        /\ moves' = moves \cup {row}
        /\ UNCHANGED <<forfeited, failures, ledger, req>>
        /\ pc[c] = "debit" /\ pc' = [pc EXCEPT ![c] = "append"]
        /\ taken' = [taken EXCEPT ![c] = row]
    BY <1>2, <2>0 DEF Debit, TryDebit, DebitAllowingNegative, Move, Goto
  <2>4. /\ row = [user |-> u, ref |-> c, kind |-> "usage", units |-> -n, after |-> balance[u] + (-n)]
        /\ row.user = u /\ row.units = -n /\ row.ref = c
    BY <2>0 DEF RowFor
  <2>5. balance[u] + (-n) \in Int /\ -n \in Int
    BY <1>1, <2>1
  <2>6. row \in Row
    BY <2>1, <2>4, <2>5 DEF Row, Kinds
  <2> HIDE DEF n
  <2>7. row \notin moves
    BY <2>2, <2>4 DEF Moved
  <2>8. taken'[c] = row /\ \A d \in Calls \ {c} : taken'[d] = taken[d]
    BY <2>3 DEF Books, BookTypes
  <2>9. pc'[c] = "append" /\ \A d \in Calls \ {c} : pc'[d] = pc[d]
    BY <1>1, <2>3 DEF CallTypes
  <2>10. AtHand(row)'
    BY <2>8, <2>9 DEF AtHand
  <2>11. taken' \in [Calls -> Row \cup {NoRow}]
    BY <2>3, <2>6 DEF Books, BookTypes
  <2>12. balance' = [balance EXCEPT ![u] = @ + row.units] /\ row.units \in Int /\ row.user = u
    BY <2>3, <2>4, <2>5
  <2>13. \A d \in Calls : pc'[d] = "append" =>
            \/ pc[d] = "append" /\ taken'[d] = taken[d]
            \/ taken'[d] = row /\ req[d].user = u
    BY <2>8, <2>9
  <2>14. \A d \in Calls : pc[d] = "append" => pc'[d] = "append" /\ taken'[d] = taken[d]
    BY <2>3, <2>8, <2>9
  <2> HIDE DEF u
  <2>15. QED
    BY <1>1, <2>1, <2>3, <2>7, <2>10, <2>11, <2>12, <2>13, <2>14, BooksAfterMove
<1>3. ASSUME NEW c \in Calls, Append(c) PROVE Books'
  <2>1. /\ pc[c] = "append" /\ pc' = [pc EXCEPT ![c] = "flag"]
        /\ ledger' = ledger \cup {taken[c]}
        /\ UNCHANGED <<balance, moves, forfeited, failures, req, taken>>
    BY <1>3 DEF Append, AppendLedger, Goto
  <2>2. taken[c] \in moves
    BY <2>1 DEF Books, HeldRows, MovesOf
  <2>3. \A d \in Calls : IF d = c THEN pc'[d] = "flag" ELSE pc'[d] = pc[d]
    BY <1>1, <2>1 DEF CallTypes
  <2>4. QED
    BY <1>1, <2>1, <2>2, <2>3, BooksAfterAppend
<1>4. ASSUME NEW c \in Calls, Receive(c) \/ Step(c) \/ Fail(c), ~Debit(c), ~Append(c) PROVE Books'
  <2>1. failures \in Nat /\ taken \in [Calls -> Row \cup {NoRow}]
    BY DEF Books, BookTypes
  <2>2. QED
    BY <1>1, <1>4, <2>1, CallBooksFrame, BooksKept
<1>5. CASE BuildIndex
  BY <1>1, <1>5, BooksKept DEF BuildIndex, creditVars, Books, BookTypes
<1>6. QED
  BY <1>2, <1>3, <1>4, <1>5 DEF MeteringStep

\* A handler that moves on from anything but a grant or an append leaves every
\* row where it was.
LEMMA HandlerBooks ==
  ASSUME Books, UNCHANGED <<balance, moves, ledger, forfeited, failures, req, topup, pc, taken>>,
         NEW h \in Slots, job[h].at # "append", Elsewhere(h), job'[h].at # "append"
  PROVE  Books'
BY BooksKept DEF Elsewhere, Books, BookTypes

\* The grant's movement is in the hands of its handler.
LEMMA GrantBooks ==
  ASSUME MoneyInv, Books, UNCHANGED <<req, pc, taken>>, NEW h \in Slots, S!GrantCredits(h)
  PROVE  Books'
<1> DEFINE p == job[h].p
           n == S!Units(p)
<1>0. PICK u, row : u = topup[p].user /\ row = S!RowFor(u, p, "purchase", n)
  OBVIOUS
<1>1. S!At(h, "grant")
  BY DEF S!GrantCredits
<1>2. p \in Payments /\ job[h] \in S!Job
  BY <1>1, JobType DEF S!Positions, MoneyInv, Types
<1>3. ~Moved(p)
  BY <1>1 DEF MoneyInv, Ungranted, Granting, S!At
<1>4. u \in Users /\ p \in Refs /\ n \in Nat
  BY <1>0, <1>2, OfferType DEF MoneyInv, Types
<1>5. /\ balance' = [balance EXCEPT ![u] = @ + n]
      /\ moves' = moves \cup {row}
      /\ UNCHANGED <<forfeited, failures, ledger, topup>>
      /\ job' = [job EXCEPT ![h] = [job[h] EXCEPT !.at = "append", !.row = row]]
  BY <1>0 DEF S!GrantCredits, S!Grant, S!Move
<1>6. row.user = u /\ row.ref = p /\ row.units = n
  BY <1>0 DEF S!RowFor
<1>7. row \notin moves
  BY <1>3, <1>6 DEF Moved
<1>8. \A k \in Slots \ {h} : job'[k] = job[k]
  BY <1>5 DEF MoneyInv, Types, JobTypes
<1>9. job'[h].at = "append" /\ job'[h].row = row /\ job'[h].p = p
  <2>1. job'[h] = [job[h] EXCEPT !.at = "append", !.row = row]
    BY <1>5 DEF MoneyInv, Types, JobTypes
  <2>2. \A j \in S!Job :
          LET next == [j EXCEPT !.at = "append", !.row = row]
          IN  next.at = "append" /\ next.row = row /\ next.p = j.p
    BY DEF S!Job
  <2>3. QED
    BY <1>2, <2>1, <2>2
<1>10. \A k \in Slots : job[k].at = "append" => job'[k] = job[k]
  BY <1>1, <1>8 DEF S!At
<1>11. \A k \in Slots : job'[k].at = "append" =>
          job'[k] = job[k] \/ (job'[k].row = row /\ topup[job'[k].p].user = u)
  BY <1>0, <1>8, <1>9
<1>12. AtHand(row)'
  BY <1>9 DEF AtHand
<1>13. balance' = [balance EXCEPT ![u] = @ + row.units] /\ row.units \in Int
  BY <1>4, <1>5, <1>6
<1>14. balance \in [Users -> Int] /\ taken' \in [Calls -> Row \cup {NoRow}]
  BY DEF MoneyInv, Types, Books, BookTypes
<1> HIDE DEF p, n
<1>15. QED
  BY <1>4, <1>5, <1>6, <1>7, <1>10, <1>11, <1>12, <1>13, <1>14, BooksAfterMove

\* The append writes the row its handler held.
LEMMA AppendBooks ==
  ASSUME MoneyInv, Books, UNCHANGED <<req, pc, taken>>, NEW h \in Slots, S!AppendGrant(h)
  PROVE  Books'
<1>1. /\ job[h].at = "append"
      /\ ledger' = ledger \cup {job[h].row}
      /\ UNCHANGED <<balance, moves, forfeited, failures, topup>>
  BY DEF S!AppendGrant, S!AppendLedger, S!At
<1>2. PICK to \in {"plan", "number"} : S!Goto(h, to)
  BY DEF S!AppendGrant
<1>3. job[h] \in S!Job
  BY <1>1, JobType DEF MoneyInv, Types, S!At, S!Positions
<1>4. job'[h].at = to /\ \A k \in Slots \ {h} : job'[k] = job[k]
  BY <1>2, <1>3 DEF MoneyInv, Types, JobTypes, S!Goto, S!Job
<1>5. PICK row \in moves : row = job[h].row
  BY <1>1 DEF Books, HeldRows, MovesOf
<1>6. /\ \A k \in Slots : job'[k].at = "append" => job'[k] = job[k]
      /\ \A k \in Slots : job[k].at = "append" => job'[k].at = "append" \/ job[k].row = row
      /\ \A c \in Calls : pc'[c] = pc[c]
  BY <1>4, <1>5
<1>7. ledger' = ledger \cup {row}
  BY <1>1, <1>5
<1>8. QED
  BY <1>1, <1>6, <1>7, BooksAfterAppend

\* A settlement in progress keeps the books.
LEMMA SettlementBooks ==
  ASSUME MoneyInv, Books, SettlementStep
  PROVE  Books'
<1>1. UNCHANGED <<req, pc, taken>>
  BY DEF SettlementStep, meterVars
<1>2. JobTypes
  BY DEF MoneyInv, Types
<1>3. ASSUME NEW p \in Payments, TopUpStep(p) PROVE Books'
  <2>1. UNCHANGED <<topup, job>> /\ (UNCHANGED creditVars \/ Failure)
    BY <1>3 DEF TopUpStep, S!TopUpNext, S!RecordTopUp, S!OpenWithoutGateway, S!CreateOrder,
         S!OrderFails, S!SaveOrder, S!TopUpDies, S!Pay, S!TopUpStep, S!orderVars, S!creditVars,
         creditVars, S!Failure, Failure
  <2>2. QED
    BY <1>1, <2>1, BooksKept DEF creditVars, Failure, Books, BookTypes
<1>4. ASSUME NEW h \in Slots, ReportStep(h) PROVE Books'
  <2>1. UNCHANGED <<creditVars, topup>>
    BY <1>4 DEF ReportStep, S!Webhook, S!Confirm, S!Callback, S!requestVars, S!creditVars, creditVars
  <2>2. UNCHANGED job \/ \E p \in Payments, g \in GatewayIds, r \in S!Routes :
                            ~UNCHANGED job /\ S!Accept(h, p, g, r)
    <3>1. CASE \E g \in GatewayIds : S!Webhook(h, g)
      <4>1. PICK g \in GatewayIds : S!Webhook(h, g)
        BY <3>1
      <4>2. attempt[g] \in Payments \/ UNCHANGED job
        BY <4>1 DEF S!Webhook, MoneyInv, Types, TopUpTypes
      <4>3. QED
        BY <4>1, <4>2 DEF S!Webhook, S!Routes
    <3>2. CASE \E p \in Payments, g \in GatewayIds :
                 S!Confirm(h, p, g) \/ \E u \in Users : S!Callback(h, u, p, g)
      BY <3>2 DEF S!Confirm, S!Callback, S!Routes
    <3>3. QED
      BY <1>4, <3>1, <3>2 DEF ReportStep
  <2>3. \A k \in Slots : job[k].at = "append" \/ job'[k].at = "append" => job'[k] = job[k]
    BY <1>2, <2>2 DEF S!Accept, S!Idle, JobTypes
  <2>4. QED
    BY <1>1, <2>1, <2>3, BooksKept DEF creditVars, Books, BookTypes
<1>5. ASSUME NEW h \in Slots,
             \/ S!ClaimConflict(h) \/ S!ClaimReplay(h) \/ S!GrantRefused(h) \/ S!SendReceipt(h)
      PROVE  Books'
  <2>1. /\ UNCHANGED <<balance, moves, ledger, forfeited, failures, topup>>
        /\ job[h].at # "append" /\ job' = [job EXCEPT ![h] = S!Idle]
    BY <1>5 DEF S!ClaimConflict, S!ClaimReplay, S!GrantRefused, S!SendReceipt, S!Answer,
                S!AnswerError, S!At, S!requestVars, S!creditVars
  <2>2. Elsewhere(h) /\ job'[h].at # "append"
    BY <1>2, <2>1 DEF Elsewhere, JobTypes, Granting, S!Idle
  <2>3. QED
    BY <1>1, <2>1, <2>2, HandlerBooks
<1>6. ASSUME NEW h \in Slots,
             \/ S!Claim(h) \/ S!UpgradePlan(h) \/ S!DrawNumber(h) \/ S!InsertInvoice(h) \/ S!StampPayment(h)
      PROVE  Books'
  <2>1. PICK from \in S!Positions \ {"append"} : S!At(h, from)
    BY <1>6 DEF S!Claim, S!UpgradePlan, S!DrawNumber, S!InsertInvoice, S!StampPayment, S!Positions
  <2>2. job[h] \in S!Job /\ job[h].at # "append"
    BY <1>2, <2>1, JobType DEF S!At
  <2>3. UNCHANGED <<balance, moves, ledger, forfeited, failures, topup>>
    BY <1>6 DEF S!Claim, S!UpgradePlan, S!DrawNumber, S!InsertInvoice, S!StampPayment, S!requestVars,
                S!creditVars
  <2>4. \/ \E to \in S!Positions \ {"append"} : job' = [job EXCEPT ![h] = [job[h] EXCEPT !.at = to]]
        \/ job' = [job EXCEPT ![h] = [job[h] EXCEPT !.at = "insert", !.no = counter + 1]]
    BY <1>6 DEF S!Claim, S!UpgradePlan, S!DrawNumber, S!InsertInvoice, S!StampPayment, S!Goto, S!Positions
  <2>5. \A k \in Slots : job[k].at = "append" \/ job'[k].at = "append" => job'[k] = job[k]
    <3>1. \A k \in Slots \ {h} : job'[k] = job[k]
      BY <1>2, <2>4 DEF JobTypes
    <3>2. job'[h].at # "append"
      <4>1. CASE \E to \in S!Positions \ {"append"} : job' = [job EXCEPT ![h] = [job[h] EXCEPT !.at = to]]
        BY <1>2, <2>2, <4>1 DEF JobTypes, S!Job
      <4>2. CASE job' = [job EXCEPT ![h] = [job[h] EXCEPT !.at = "insert", !.no = counter + 1]]
        <5>1. job'[h] = [job[h] EXCEPT !.at = "insert", !.no = counter + 1]
          BY <1>2, <4>2 DEF JobTypes
        <5>2. \A j \in S!Job : \A n : [j EXCEPT !.at = "insert", !.no = n].at = "insert"
          BY DEF S!Job
        <5>3. QED
          BY <2>2, <5>1, <5>2
      <4>3. QED
        BY <2>4, <4>1, <4>2
    <3>3. QED
      BY <2>2, <3>1, <3>2
  <2>6. QED
    BY <1>1, <2>3, <2>5, BooksKept DEF Books, BookTypes
<1>7. ASSUME NEW h \in Slots, S!InvoiceFails(h) \/ S!Fail(h) PROVE Books'
  <2>1. Failure /\ UNCHANGED topup
    BY <1>7 DEF S!InvoiceFails, S!Fail, S!Failure, Failure
  <2>2. \A k \in Slots : job'[k].at = "append" => job'[k] = job[k]
    <3>1. CASE S!InvoiceFails(h)
      <4>1. job[h] \in S!Job
        BY <1>2, <3>1, JobType DEF S!InvoiceFails, S!Positions
      <4>2. job' = [job EXCEPT ![h] = [job[h] EXCEPT !.at = "receipt"]]
        BY <3>1 DEF S!InvoiceFails, S!Goto
      <4>3. QED
        BY <1>2, <4>1, <4>2 DEF JobTypes, S!Job
    <3>2. CASE S!Fail(h)
      BY <1>2, <3>2 DEF S!Fail, S!AnswerError, S!Idle, JobTypes
    <3>3. QED
      BY <1>7, <3>1, <3>2
  <2>3. QED
    BY <1>1, <2>1, <2>2, BooksKept DEF Failure, Books, BookTypes
<1>8. QED
  BY <1>1, <1>3, <1>4, <1>5, <1>6, <1>7, GrantBooks, AppendBooks DEF SettlementStep, S!Settle

\* What closing takes from the balance it writes off.
LEMMA ClosureBooks ==
  ASSUME MoneyInv, Books, ClosureStep
  PROVE  Books'
<1>1. UNCHANGED <<meterVars, settleVars, moves, ledger>>
  BY DEF ClosureStep, RevokeKeys, RevokeSessions, Anonymise, EmptyAccount, ClosingDies, CloseStep,
         ZeroBalance, Failure, creditVars
<1>2. CASE UNCHANGED creditVars \/ Failure
  BY <1>1, <1>2, BooksKept DEF creditVars, Failure, meterVars, settleVars, Books, BookTypes
<1>3. ASSUME NEW u \in Users, ZeroBalance(u) PROVE Books'
  <2>1. /\ balance' = [balance EXCEPT ![u] = 0]
        /\ forfeited' = [forfeited EXCEPT ![u] = @ + balance[u]]
        /\ UNCHANGED <<failures, taken, pc, job, req, topup>>
    BY <1>1, <1>3 DEF ZeroBalance, meterVars, settleVars
  <2>2. balance \in [Users -> Int] /\ forfeited \in [Users -> Int]
    BY DEF MoneyInv, Types, Books, BookTypes
  <2>3. BookTypes'
    <3>1. forfeited' \in [Users -> Int]
      BY <2>1, <2>2
    <3>2. QED
      BY <1>1, <2>1, <3>1 DEF Books, BookTypes
  <2>4. ASSUME NEW v \in Users
        PROVE  balance'[v] = Opening[v] - forfeited'[v] + Total(MovesOf(v))
    <3>1. balance[v] = Opening[v] - forfeited[v] + Total(MovesOf(v))
      BY DEF Books, Balanced
    <3>2. Total(MovesOf(v)) \in Int
      BY MovesOfType DEF Books
    <3>3. Opening[v] \in Int
      BY CreditsAssumption
    <3>4. IF v = u THEN balance'[v] = 0 /\ forfeited'[v] = forfeited[v] + balance[v]
                   ELSE balance'[v] = balance[v] /\ forfeited'[v] = forfeited[v]
      BY <2>1, <2>2
    <3>5. balance[v] \in Int /\ forfeited[v] \in Int
      BY <2>2
    <3>6. \A b, o, f, t \in Int : b = o - f + t => 0 = o - (f + b) + t
      OBVIOUS
    <3>7. QED
      BY <3>1, <3>2, <3>3, <3>4, <3>5, <3>6
  <2>5. Balanced'
    BY <1>1, <2>4 DEF Balanced, Total, MovesOf
  <2>6. QED
    BY <1>1, <2>1, <2>3, <2>5 DEF Books, HeldRows, NothingLost, AtHand, MovesOf
<1>4. QED
  BY <1>2, <1>3 DEF ClosureStep, RevokeKeys, RevokeSessions, Anonymise, EmptyAccount, ClosingDies,
                    CloseStep

\* The books are balanced at the start.
LEMMA InitBooks == BillingInit => Books
<1> SUFFICES ASSUME BillingInit PROVE Books
  OBVIOUS
<1>1. /\ balance = Opening /\ moves = {} /\ ledger = {} /\ failures = 0
      /\ forfeited = [u \in Users |-> 0] /\ taken = [c \in Calls |-> NoRow]
      /\ pc = [c \in Calls |-> "idle"] /\ job = [h \in Slots |-> S!Idle]
  BY DEF BillingInit, Init, CreditsInit, MeteringInit, S!SettlementInit
<1>2. BookTypes
  BY <1>1, FS_EmptySet DEF BookTypes
<1>3. HeldRows /\ NothingLost
  BY <1>1 DEF HeldRows, NothingLost, S!Idle
<1>4. Balanced
  <2>1. \A u \in Users : Total(MovesOf(u)) = 0
    BY <1>1, SumEmpty DEF Total, MovesOf
  <2>2. \A u \in Users : Opening[u] \in Nat
    BY CreditsAssumption
  <2>3. QED
    BY <1>1, <2>1, <2>2 DEF Balanced
<1>5. QED
  BY <1>1, <1>2, <1>3, <1>4 DEF Books

\* Every step keeps the books.
LEMMA StepBooks ==
  ASSUME MoneyInv, Books, [BillingNext]_billingVars
  PROVE  Books'
<1>1. CASE UNCHANGED billingVars
  BY <1>1, BooksKept DEF Books, BookTypes, billingVars, vars, creditVars, meterVars, settleVars
<1>2. QED
  BY <1>1, MeteringBooks, SettlementBooks, ClosureBooks DEF BillingNext, BillingTerminated

\* With nothing of hers at work every movement of a customer is in the ledger,
\* and the ledger has nothing else.
LEMMA BooksAgree == MoneyInv /\ Books => LedgerMatchesBalance
<1> SUFFICES ASSUME MoneyInv, Books, failures = 0, NEW u \in Users, Quiet(u)
             PROVE  balance[u] = Opening[u] - forfeited[u] + Total({row \in ledger : row.user = u})
  BY DEF LedgerMatchesBalance, Books
<1>1. ASSUME NEW m \in moves, m.user = u PROVE m \in ledger
  <2>1. ASSUME NEW c \in Calls, pc[c] = "append", taken[c] = m PROVE FALSE
    <3>1. req[c].user = u
      BY <1>1, <2>1 DEF Books, HeldRows, MovesOf
    <3>2. QED
      BY <2>1, <3>1 DEF Quiet, InFlight
  <2>2. ASSUME NEW h \in Slots, job[h].at = "append", job[h].row = m PROVE FALSE
    <3>1. topup[job[h].p].user = u
      BY <1>1, <2>2 DEF Books, HeldRows, MovesOf
    <3>2. job[h] # S!Idle
      BY <2>2 DEF S!Idle
    <3>3. QED
      BY <3>1, <3>2 DEF Quiet
  <2>3. QED
    BY <2>1, <2>2 DEF Books, NothingLost, AtHand
<1>2. {row \in ledger : row.user = u} = MovesOf(u)
  BY <1>1 DEF Books, MovesOf
<1>3. QED
  BY <1>2 DEF Books, Balanced

\* For any number of calls, settlements and closures: a ledger row shows its
\* movement and the balance it left; and until something fails, a
\* balance is its opening, less what closing wrote off, plus the customer's
\* ledger rows, whenever no handler is at work on it.
THEOREM LedgerAgreesWithBalance == BillingSpec => []LedgerMatchesBalance
<1>1. MoneyInv /\ Books /\ [BillingNext]_billingVars => (MoneyInv /\ Books)'
  BY StepMoneyInv, StepBooks
<1>2. QED
  BY InitMoneyInv, InitBooks, BooksAgree, <1>1, PTL DEF BillingSpec
=============================================================================
