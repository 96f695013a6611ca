------------------------------ MODULE Metering ------------------------------
(***************************************************************************)
(* POST /usage (src/app/routers/usage.py, record_usage and _charge): the   *)
(* billing write.  A call inserts a usage record, debits the owner's       *)
(* credits, appends the ledger row and flags the record as billed: four    *)
(* database operations, each an await between which the other calls run,   *)
(* and any of which may be the last thing the handler does.                *)
(*                                                                         *)
(* A retry after a timeout is another call that carries the same           *)
(* Idempotency-Key, possibly while the first is still running, possibly    *)
(* with another body.                                                      *)
(***************************************************************************)
EXTENDS Credits, FiniteSetsExt

CONSTANTS Calls,           \* POST /usage requests; also the ids of the records
          Keys,            \* Idempotency-Key values
          NoKey,           \* the header is absent
          Costs            \* units a call may be priced at

ASSUME MeteringAssumption ==
  /\ Calls \subseteq Refs
  /\ NoKey \notin Keys
  /\ Costs \subseteq Nat

VARIABLES enforced, \* ENFORCE_CREDIT_BALANCE, a setting of the deployment
          req,      \* what each call carries
          pc,       \* where its handler is
          usage,    \* the usage record each call inserted: its billed flag
          taken,    \* the movement the handler's debit returned
          answer,   \* the response
          indexed   \* the unique (user_id, idempotency_key) index exists

meterVars == <<enforced, req, pc, usage, taken, answer, indexed>>

Request == [user: Users, key: Keys \cup {NoKey}, cost: Costs]

\* Handler positions, named for the operation that comes next.
InFlight == {"precheck", "insert", "find", "debit", "append", "flag"}
Positions == {"idle", "done", "failed"} \cup InFlight

\* record is the usage record the body describes, billed the flag it shows.
Answers == [code: {200, 201, 402, 409, 500}, record: Calls, billed: BOOLEAN]
NoAnswer == [code |-> 0]

NoRow == [units |-> 0]

Recorded == {c \in Calls : usage[c] # "absent"}

\* Two calls report the same event when the same customer sent the same key.
SameEvent(c, d) == 
  /\ req[c].key # NoKey
  /\ req[c].key = req[d].key
  /\ req[c].user = req[d].user

\* Mistake: the lookup forgets to scope the key to the customer.
ReplaysOfAnyone(c) == 
  {d \in Recorded : req[c].key # NoKey /\ req[c].key = req[d].key}

\* The record _find_replay returns: stored under the caller's key.
Replays(c) == {d \in Recorded : SameEvent(c, d)}

\* The index may be missing when a worker starts to serve.
MeteringInit ==
  /\ enforced \in BOOLEAN
  /\ req \in [Calls -> Request]
  /\ pc = [c \in Calls |-> "idle"]
  /\ usage = [c \in Calls |-> "absent"]
  /\ taken = [c \in Calls |-> NoRow]
  /\ answer = [c \in Calls |-> NoAnswer]
  /\ indexed = FALSE

Goto(c, from, to) ==
  /\ pc[c] = from
  /\ pc' = [pc EXCEPT ![c] = to]

Reply(c, code, record, billed) ==
  answer' = [answer EXCEPT ![c] = [code |-> code, record |-> record, billed |-> billed]]

-----------------------------------------------------------------------------
(***************************************************************************)
(* The handler.                                                            *)
(***************************************************************************)

\* The request passes authentication, the plan limit and pricing.  With a key,
\* and while this worker does not know the index to exist (its flag may lag
\* behind the database, never run ahead of it), it looks for a replay first.
Receive(c) ==
  /\ \E ready \in {FALSE, indexed} :
       Goto(c, "idle", IF req[c].key # NoKey /\ ~ready THEN "precheck" ELSE "insert")
  /\ UNCHANGED <<enforced, req, usage, taken, answer, indexed>>
  /\ UNCHANGED creditVars

\* The stored record is returned as it stands: 200.
AnswerReplay(c, d) == Reply(c, 200, d, usage[d] = "billed")

\* indexes_ready() was false: find before inserting.
PrecheckHit(c) ==
  /\ Goto(c, "precheck", "done")
  /\ \E d \in Replays(c) : AnswerReplay(c, d)
  /\ UNCHANGED <<enforced, req, usage, taken, indexed>>
  /\ UNCHANGED creditVars

PrecheckMiss(c) ==
  /\ Replays(c) = {}
  /\ Goto(c, "precheck", "insert")
  /\ UNCHANGED <<enforced, req, usage, taken, answer, indexed>>
  /\ UNCHANGED creditVars

\* Mistake: the index is not unique.
RefusedNever(c) == FALSE

\* The unique index refuses a second record for the same event.
Refused(c) == indexed /\ Replays(c) # {}

\* Mistake: the record is stored as billed before the credits are taken.
InsertAsBilled(c) ==
  /\ ~Refused(c)
  /\ Goto(c, "insert", "debit")
  /\ usage' = [usage EXCEPT ![c] = "billed"]
  /\ UNCHANGED <<enforced, req, taken, answer, indexed>>
  /\ UNCHANGED creditVars

\* insert_one, billed: False.
Insert(c) ==
  /\ ~Refused(c)
  /\ Goto(c, "insert", "debit")
  /\ usage' = [usage EXCEPT ![c] = "unbilled"]
  /\ UNCHANGED <<enforced, req, taken, answer, indexed>>
  /\ UNCHANGED creditVars

\* DuplicateKeyError.
InsertDuplicate(c) ==
  /\ Refused(c)
  /\ Goto(c, "insert", "find")
  /\ UNCHANGED <<enforced, req, usage, taken, answer, indexed>>
  /\ UNCHANGED creditVars

\* _find_replay after the duplicate: 200, or 409 should nothing be found.
FindReplay(c) ==
  /\ Goto(c, "find", "done")
  /\ LET found == Replays(c)
     IN  IF found = {} THEN Reply(c, 409, c, FALSE)
                       ELSE \E d \in found : AnswerReplay(c, d)
  /\ UNCHANGED <<enforced, req, usage, taken, indexed>>
  /\ UNCHANGED creditVars

\* Mistake: the entry the debit returned is dropped.
DebitDropsEntry(c) ==
  LET u == req[c].user
      n == req[c].cost
  IN  /\ Goto(c, "debit", "append")
      /\ IF enforced THEN TryDebit(u, c, n) ELSE DebitAllowingNegative(u, c, n)
      /\ UNCHANGED <<enforced, req, usage, taken, answer, indexed>>

\* _charge: the debit, conditional when the balance is enforced.
Debit(c) ==
  LET u == req[c].user
      n == req[c].cost
  IN  /\ Goto(c, "debit", "append")
      /\ IF enforced THEN TryDebit(u, c, n) ELSE DebitAllowingNegative(u, c, n)
      /\ taken' = [taken EXCEPT ![c] = RowFor(u, c, "usage", -n)]
      /\ UNCHANGED <<enforced, req, usage, answer, indexed>>

\* Mistake: the refusal is answered after debiting all the same.
DebitThenRefuse(c) ==
  /\ enforced
  /\ ~Covers(req[c].user, req[c].cost)
  /\ Goto(c, "debit", "done")
  /\ Reply(c, 402, c, FALSE)
  /\ DebitAllowingNegative(req[c].user, c, req[c].cost)
  /\ UNCHANGED <<enforced, req, usage, taken, indexed>>

\* try_debit returned None: 402, and the record stays as it is.
DebitRefused(c) ==
  /\ enforced
  /\ ~Covers(req[c].user, req[c].cost)
  /\ Goto(c, "debit", "done")
  /\ Reply(c, 402, c, FALSE)
  /\ UNCHANGED <<enforced, req, usage, taken, indexed>>
  /\ UNCHANGED creditVars

\* The ledger row, with what the debit returned.
Append(c) ==
  /\ Goto(c, "append", "flag")
  /\ AppendLedger(taken[c])
  /\ UNCHANGED <<enforced, req, usage, taken, answer, indexed>>

\* billed: True and ledger_id on the record: 201 with the new balance.
Flag(c) ==
  /\ Goto(c, "flag", "done")
  /\ usage' = [usage EXCEPT ![c] = "billed"]
  /\ Reply(c, 201, c, TRUE)
  /\ UNCHANGED <<enforced, req, taken, indexed>>
  /\ UNCHANGED creditVars

\* The handler dies; a failed ledger append is re-raised too.
Fail(c) ==
  /\ Failure
  /\ pc[c] \in InFlight
  /\ pc' = [pc EXCEPT ![c] = "failed"]
  /\ Reply(c, 500, c, FALSE)
  /\ UNCHANGED <<enforced, req, usage, taken, indexed>>

\* ensure_indexes, retried until it succeeds; Mongo refuses to build a unique
\* index over records that already collide.
BuildIndex ==
  /\ ~indexed
  /\ \A c, d \in Recorded : SameEvent(c, d) => c = d
  /\ indexed' = TRUE
  /\ UNCHANGED <<enforced, req, pc, usage, taken, answer>>
  /\ UNCHANGED creditVars

Step(c) ==
  \/ PrecheckHit(c) \/ PrecheckMiss(c)
  \/ Insert(c) \/ InsertDuplicate(c) \/ FindReplay(c)
  \/ Debit(c) \/ DebitRefused(c) \/ Append(c) \/ Flag(c)

vars == <<creditVars, meterVars>>

\* The calls of the model are all answered: it may stop there.
Terminated ==
  /\ \A c \in Calls : pc[c] \in {"done", "failed"}
  /\ UNCHANGED vars

Init == CreditsInit /\ MeteringInit

Next ==
  \/ \E c \in Calls : Receive(c) \/ Step(c) \/ Fail(c)
  \/ BuildIndex
  \/ Terminated

Spec == Init /\ [][Next]_vars

-----------------------------------------------------------------------------
(***************************************************************************)
(* Properties.                                                             *)
(***************************************************************************)

TypeOK ==
  /\ CreditsTypeOK
  /\ enforced \in BOOLEAN
  /\ req \in [Calls -> Request]
  /\ pc \in [Calls -> Positions]
  /\ usage \in [Calls -> {"absent", "unbilled", "billed"}]
  /\ taken \in [Calls -> Row \cup {NoRow}]
  /\ answer \in [Calls -> Answers \cup {NoAnswer}]
  /\ indexed \in BOOLEAN

Charged(c) == \E m \in moves : m.ref = c

\* With ENFORCE_CREDIT_BALANCE on, no interleaving of calls spends credits the
\* account does not have (credits.py: "two simultaneous calls against a
\* balance of 5 must not both succeed in spending 5").
NoOverspend == enforced => \A u \in Users : balance[u] >= 0

\* Once the idempotency index exists, one event is charged at most once, however
\* its retries overlap and whatever bodies they carry (usage.py: "a retried
\* call must never be charged twice").
ChargedOncePerEvent ==
  indexed => \A m, n \in moves : 
               m = n \/ ~(m.ref = n.ref \/ SameEvent(m.ref, n.ref))

\* The billed flag and the ledger tell the same story: a record flagged billed
\* has its ledger row, of its own price, and a record that was charged is
\* flagged unless its handler is still on the way there or died (_charge).
BilledMeansPaid ==
  \A c \in Calls :
    /\ usage[c] = "billed" => 
         \E row \in ledger : row.ref = c /\ row.user = req[c].user /\ row.units = -req[c].cost
    /\ Charged(c) /\ usage[c] # "billed" => pc[c] \in {"append", "flag", "failed"}

\* A customer told 402 was not charged for the call and never will be, and the
\* record of what was consumed is kept, unbilled (record_usage, the 402 branch).
RefusalTakesNothing ==
  \A c \in Calls : answer[c].code = 402 => ~Charged(c) /\ usage[c] = "unbilled"

\* A replay answers with the caller's own record of that very event, and shows
\* it as billed only if it was paid for; the in-flight conflict (409) that the
\* code provides for cannot be reached, for the record that caused the
\* duplicate is there to be found (record_usage, _find_replay).
ReplayIsTheOriginal ==
  \A c \in Calls :
    /\ answer[c].code = 200 => 
         /\ SameEvent(c, answer[c].record)
         /\ usage[answer[c].record] # "absent"
         /\ answer[c].billed => Charged(answer[c].record)
    /\ answer[c].code # 409

Account == INSTANCE CreditAccount

\* Through all its interleavings, retries and failures POST /usage moves each
\* account the way CreditAccount promises: one movement per record, never
\* overdrawn, each showing the balance it left.
ImplementsCreditAccount == Account!Spec
=============================================================================
