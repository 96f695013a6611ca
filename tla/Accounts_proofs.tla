--------------------------- MODULE Accounts_proofs ---------------------------
(* Proofs about Accounts, for every number of requests, customers, keys and  *)
(* projects, every clock and every price.                                    *)
(*                                                                           *)
(* What a request read before decides what it writes: the invariants say     *)
(* what is still true of it when it does. Then the usage: what a summary     *)
(* says of it, what it was charged at, and what the views show of it.        *)
EXTENDS Accounts, Sums, TLAPS

Fields == {"at", "user", "key", "project", "call", "after", "spend", "paid", "loose", "before"}

KeyType == [user : Users \cup {"none"}, project : Projects \cup {"none"}, revoked : BOOLEAN]
UsageType == [user : Users, key : Keys \cup {"none"}, project : Projects \cup {"none"},
              call : Calls, cost : Nat, at : Nat, billed : BOOLEAN, after : BOOLEAN]

------------------------------------------------------------------------------
(* What a call costs is an amount.                                           *)
LEMMA ProductIsNat ==
  ASSUME NEW a \in Nat, NEW b \in Nat
  PROVE  a * b \in Nat
OBVIOUS

LEMMA QuantizeIsNat ==
  ASSUME NEW n \in Nat, NEW d \in Nat \ {0}
  PROVE  Quantize(n, d) \in Nat
<1>1. 2 * n + d \in Nat /\ 2 * d \in Nat \ {0}
  OBVIOUS
<1> QED
  BY <1>1 DEF Quantize

LEMMA RateIsAmount ==
  ASSUME NEW service \in DOMAIN SERVICES, NEW model
  PROVE  LET r == RateOf(service, model) IN
         r.rate \in Nat /\ r.per \in Nat \ {0} /\ r.input \in Nat /\ r.output \in Nat
BY PricingAssumption DEF RateOf, Overridden, SERVICES, Flat

LEMMA BillableIsNat ==
  ASSUME NEW service \in DOMAIN SERVICES, NEW q \in Nat
  PROVE  Billable(service, q) \in Nat
BY DEF Billable, SERVICES, Flat

\* A call is due some amount, of a unit that divides it.
LEMMA DueIsNat ==
  ASSUME NEW call \in Calls
  PROVE  Due(call) \in Nat /\ Per(call) \in Nat \ {0}
<1> DEFINE r == RateOf(call.service, call.model)
<1>1. call.service \in DOMAIN SERVICES /\ call.input \in Nat /\ call.output \in Nat
  BY AccountsAssumption
<1>2. r.rate \in Nat /\ r.per \in Nat \ {0} /\ r.input \in Nat /\ r.output \in Nat
  BY <1>1, RateIsAmount
<1>3. Billable(call.service, call.input) \in Nat /\ Billable(call.service, call.output) \in Nat
  BY <1>1, BillableIsNat
<1>4. Due(call) \in Nat
  <2> DEFINE in == Billable(call.service, call.input)
  <2> DEFINE out == Billable(call.service, call.output)
  <2>1. r.rate * in \in Nat /\ r.input * in \in Nat /\ r.output * out \in Nat
    BY <1>2, <1>3, ProductIsNat
  <2>2. Due(call) = IF call.apart THEN r.input * in + r.output * out ELSE r.rate * in
    BY DEF Due, InputDue, OutputDue
  <2> QED
    BY <2>1, <2>2
<1>5. Per(call) \in Nat \ {0}
  <2>1. Grains \in Nat \ {0}
    BY PricingAssumption
  <2>2. \A a, b \in Nat \ {0} : a * b \in Nat \ {0}
    OBVIOUS
  <2> QED
    BY <1>2, <2>1, <2>2 DEF Per
<1> QED
  BY <1>4, <1>5

\* A cost is that amount, rounded.
LEMMA CostIsNat ==
  ASSUME NEW call \in Calls
  PROVE  Cost(call) \in Nat
BY DueIsNat, QuantizeIsNat DEF Cost

LEMMA NowIsInstant ==
  ASSUME tick \in DOMAIN Clock
  PROVE  now \in Nat
BY AccountsAssumption DEF now

------------------------------------------------------------------------------
StoreInv ==
  /\ keys \in [Keys -> KeyType] /\ owner \in [Projects -> Users \cup {"none"}]
  /\ \A k \in Keys : keys[k].user = "none" => keys[k] = NoKey
  /\ alive \subseteq Projects /\ \A q \in alive : owner[q] # "none"
  /\ usage \in Seq(UsageType)
  /\ tick \in DOMAIN Clock /\ begun \in 0..MaxRequests
  /\ \A i \in DOMAIN usage : usage[i].at <= now /\ (i > 1 => usage[i - 1].at <= usage[i].at)
  /\ zeroed \subseteq closed /\ closed \subseteq shut /\ shut \subseteq Users
  /\ retired \subseteq closed /\ closed \subseteq retired \cup outlived /\ outlived \subseteq closed
  /\ late \cup adrift \subseteq Issued

\* What is true of the request r at each label.
Holds(r) ==
  /\ DOMAIN r = Fields /\ r.at \in Labels
  /\ r.user \in Users \cup {"none"} /\ r.key \in Keys \cup {"none"}
  /\ r.project \in Projects \cup {"none"}
  /\ r.at = "idle" <=> r.user = "none"
  /\ r.at \in {"create", "move", "detach", "drop", "record"} /\ r.project # "none" =>
       owner[r.project] = r.user
  /\ r.at \in {"detach", "drop"} => r.project # "none"
  /\ r.at = "move" => r.key \in Keys
  /\ r.at \in {"move", "record"} /\ r.key # "none" => keys[r.key].user = r.user
  /\ r.at = "record" => r.call \in Calls /\ r.after \in BOOLEAN
  /\ r.at = "record" /\ r.after => r.key \in late \/ (r.key = "none" /\ r.user \in outlived)
  /\ r.at = "charge" => r.spend \in DOMAIN usage
  /\ r.at \in {"anonymise", "zero"} => r.user \in shut
  /\ r.at = "zero" => r.user \in closed

JobsHold == job = [p \in Slots |-> job[p]] /\ \A p \in Slots : Holds(job[p])

\* Nothing is of a project or of a key of another customer.
Theirs ==
  /\ \A k \in Keys : keys[k].project # "none" => owner[keys[k].project] = keys[k].user
  /\ \A i \in DOMAIN usage :
       /\ usage[i].project # "none" => owner[usage[i].project] = usage[i].user
       /\ usage[i].key # "none" => keys[usage[i].key].user = usage[i].user

\* Between the two writes of a deletion only keys that were stored since then,
\* or with a project that was gone, have the project.
Detaching ==
  \A p \in Slots : At(p, "drop") =>
    \A k \in Keys : keys[k].project = job[p].project => k \in adrift

Attached ==
  \A k \in Keys : keys[k].project # "none" => keys[k].project \in alive \/ k \in adrift

\* A closure revokes what there is, and late are those that came after it; what
\* is recorded later is by one of these, or by a session that outlived it.
KeysShut == \A u \in shut : \A k \in KeysOf(u) : keys[k].revoked \/ k \in late
OutlivedOnly ==
  \A i \in DOMAIN usage : usage[i].after =>
    usage[i].key \in late \/ (usage[i].key = "none" /\ usage[i].user \in outlived)

ClosureEnds ==
  \A u \in closed : u \in zeroed \cup cut \/ \E p \in Slots : At(p, "zero") /\ job[p].user = u

TypeInv == StoreInv /\ JobsHold
IInv == TypeInv /\ Theirs /\ Detaching /\ Attached /\ KeysShut /\ OutlivedOnly /\ ClosureEnds

\* How the store may grow without disturbing a request in flight.
Grows ==
  /\ \A q \in Projects : owner[q] # "none" => owner'[q] = owner[q]
  /\ \A k \in Keys : keys[k].user # "none" => keys'[k].user = keys[k].user
  /\ late \subseteq late' /\ DOMAIN usage \subseteq DOMAIN usage'
  /\ shut \subseteq shut' /\ closed \subseteq closed' /\ outlived \subseteq outlived'

LEMMA NoneIsNobody == "none" \notin Users /\ "none" \notin Keys /\ "none" \notin Projects
BY AccountsAssumption

LEMMA HoldsThrough ==
  ASSUME StoreInv, Grows, NEW p \in Slots, Holds(job[p]), job'[p] = job[p]
  PROVE  Holds(job[p])'
<1> DEFINE r == job[p]
<1>1. r' = r
  OBVIOUS
<1>2. r.project # "none" /\ owner[r.project] = r.user /\ r.user \in Users => owner'[r.project] = r.user
  BY NoneIsNobody DEF Grows, Holds, StoreInv
<1>3. r.key # "none" /\ keys[r.key].user = r.user /\ r.user \in Users => keys'[r.key].user = r.user
  BY NoneIsNobody DEF Grows, Holds, StoreInv
<1>4. r.at # "idle" => r.user \in Users
  BY DEF Holds
<1> QED
  BY <1>1, <1>2, <1>3, <1>4 DEF Grows, Holds

(* A step of one request leaves all others as they are.                      *)
LEMMA OneJob ==
  ASSUME StoreInv, JobsHold, Grows, NEW p \in Slots, NEW next, job' = [job EXCEPT ![p] = next],
         Holds(job[p])'
  PROVE  JobsHold'
<1>1. \A q \in Slots \ {p} : job'[q] = job[q]
  BY DEF JobsHold
<1>2. \A q \in Slots : Holds(job[q])'
  <2> SUFFICES ASSUME NEW q \in Slots PROVE Holds(job[q])'
    OBVIOUS
  <2>1. CASE q = p
    BY <2>1
  <2>2. CASE q # p
    BY <2>2, <1>1, HoldsThrough DEF JobsHold
  <2> QED
    BY <2>1, <2>2
<1>3. job' = [q \in Slots |-> job'[q]]
  BY DEF JobsHold
<1> QED
  BY <1>2, <1>3 DEF JobsHold

LEMMA IssuedHasUser ==
  ASSUME StoreInv, NEW k \in Keys
  PROVE  k \in Issued <=> keys[k].user \in Users
BY NoneIsNobody DEF StoreInv, Issued, NoKey, KeyType

LEMMA InitType == Init => TypeInv
<1> SUFFICES ASSUME Init PROVE TypeInv
  OBVIOUS
<1>1. StoreInv
  BY AccountsAssumption DEF Init, StoreInv, NoKey, KeyType, Issued
<1>2. JobsHold
  BY AccountsAssumption DEF Init, JobsHold, Holds, Idle, Fields, Labels
<1> QED
  BY <1>1, <1>2 DEF TypeInv

LEMMA IdleHolds == Holds(Idle)
BY NoneIsNobody DEF Holds, Idle, Fields, Labels

LEMMA StoreFrame ==
  ASSUME StoreInv, UNCHANGED <<store, tick, shut, late, outlived, adrift>>, begun' \in 0..MaxRequests
  PROVE  StoreInv' /\ Grows
BY DEF StoreInv, Grows, store, now, Issued

LEMMA BegunType ==
  ASSUME StoreInv, NEW p \in Slots, Enter(p)
  PROVE  begun' \in 0..MaxRequests
BY AccountsAssumption DEF StoreInv, Enter

(* Beginning, going on and ending leave the store alone.                     *)
LEMMA JobType ==
  ASSUME TypeInv, NEW p \in Slots, NEW next, job' = [job EXCEPT ![p] = next], Holds(next),
         UNCHANGED <<store, tick, shut, late, outlived, adrift>>, begun' \in 0..MaxRequests
  PROVE  TypeInv'
<1>1. StoreInv' /\ Grows
  BY StoreFrame DEF TypeInv
<1>2. job'[p] = next
  BY DEF TypeInv, JobsHold
<1>3. Holds(job[p])'
  BY <1>2 DEF Holds, store
<1> QED
  BY <1>1, <1>3, OneJob DEF TypeInv

LEMMA BeginType ==
  ASSUME TypeInv, NEW p \in Slots, NEW next, Begin(p, next), Holds(next),
         UNCHANGED <<store, tick, history>>
  PROVE  TypeInv'
BY JobType, BegunType DEF Begin, history, TypeInv

LEMMA DoneType ==
  ASSUME TypeInv, NEW p \in Slots, Done(p), StoreInv', Grows
  PROVE  TypeInv'
<1>1. job'[p] = Idle
  BY DEF TypeInv, JobsHold, Done
<1>2. Holds(job[p])'
  BY <1>1, NoneIsNobody DEF Holds, Idle, Fields, Labels
<1> QED
  BY <1>2, OneJob DEF TypeInv, Done

(* What a request may name as its project is nobody else's.                  *)
LEMMA ResolvedIsOwn ==
  ASSUME StoreInv, NEW u \in Users, NEW q \in ResolveProject(u)
  PROVE  q \in Projects \cup {"none"} /\ (q # "none" => owner[q] = u)
BY DEF ResolveProject, StoreInv

LEMMA StoreKeyType ==
  ASSUME TypeInv, NEW p \in Slots, InsertKey(p)
  PROVE  TypeInv'
<1> DEFINE u == job[p].user
<1> DEFINE q == job[p].project
<1>1. u \in Users /\ q \in Projects \cup {"none"}
  BY DEF InsertKey, TypeInv, JobsHold, Holds, At
<1>2. PICK k \in Keys \ Issued :
        /\ keys' = [keys EXCEPT ![k] = [user |-> u, project |-> q, revoked |-> FALSE]]
        /\ late' = IF u \in shut THEN late \cup {k} ELSE late
        /\ adrift' = Adrift(k, q)
  BY DEF InsertKey
<1>3. keys[k].user = "none"
  BY IssuedHasUser, NoneIsNobody DEF TypeInv, StoreInv, KeyType
<1>4. Issued' = Issued \cup {k}
  BY <1>1, <1>2, NoneIsNobody DEF Issued, TypeInv, StoreInv, NoKey
<1>5. adrift' \subseteq Issued'
  BY <1>2, <1>4 DEF TypeInv, StoreInv, Adrift
<1>6. StoreInv'
  BY <1>1, <1>2, <1>4, <1>5, NoneIsNobody DEF InsertKey, TypeInv, StoreInv, KeyType, now
<1>7. Grows
  BY <1>1, <1>2, <1>3 DEF InsertKey, TypeInv, StoreInv, Grows
<1> QED
  BY <1>6, <1>7, DoneType DEF InsertKey

LEMMA MoveType ==
  ASSUME TypeInv, NEW p \in Slots, StoreMove(p)
  PROVE  TypeInv'
<1> DEFINE k == job[p].key
<1> DEFINE q == job[p].project
<1>1. k \in Keys /\ q \in Projects \cup {"none"} /\ keys[k].user = job[p].user /\ job[p].user \in Users
  BY NoneIsNobody DEF StoreMove, TypeInv, JobsHold, Holds, At
<1>2. k \in Issued
  BY <1>1, IssuedHasUser DEF TypeInv
<1>3. \A x \in Keys : keys'[x].user = keys[x].user /\ (keys[x] # NoKey => keys'[x] # NoKey)
  BY <1>1, NoneIsNobody DEF StoreMove, TypeInv, StoreInv, KeyType, NoKey
<1>4. Issued' = Issued
  BY <1>1, <1>3, NoneIsNobody DEF StoreMove, TypeInv, StoreInv, KeyType, NoKey, Issued
<1>5. adrift' \subseteq Issued'
  BY <1>2, <1>4 DEF StoreMove, TypeInv, StoreInv, Adrift
<1>6. StoreInv'
  <2>1. keys' \in [Keys -> KeyType]
    BY <1>1 DEF StoreMove, TypeInv, StoreInv, KeyType
  <2>2. \A x \in Keys : keys'[x].user = "none" => keys'[x] = NoKey
    BY <1>1, <1>3, NoneIsNobody DEF StoreMove, TypeInv, StoreInv
  <2> QED
    BY <2>1, <2>2, <1>4, <1>5 DEF StoreMove, TypeInv, StoreInv, now
<1>7. Grows
  BY <1>3 DEF StoreMove, TypeInv, StoreInv, Grows
<1> QED
  BY <1>6, <1>7, DoneType DEF StoreMove

(* Keys only change their project or are revoked.                            *)
LEMMA KeysStayType ==
  ASSUME StoreInv, keys' \in [Keys -> KeyType],
         \A k \in Keys : keys'[k].user = keys[k].user /\ (keys[k] = NoKey => keys'[k] = NoKey),
         UNCHANGED <<owner, alive, usage, closed, retired, zeroed, tick, late, outlived, adrift>>,
         begun' \in 0..MaxRequests, shut' \subseteq Users, shut \subseteq shut'
  PROVE  StoreInv' /\ Grows
<1>1. \A k \in Keys : keys[k] # NoKey => keys'[k] # NoKey
  BY DEF StoreInv, NoKey
<1>2. Issued \subseteq Issued'
  BY <1>1 DEF Issued
<1> QED
  BY <1>2 DEF StoreInv, Grows, now

LEMMA RecordType ==
  ASSUME TypeInv, NEW p \in Slots, Record(p)
  PROVE  TypeInv'
<1> DEFINE r == [user |-> job[p].user, key |-> job[p].key, project |-> job[p].project,
                 call |-> job[p].call, cost |-> Cost(job[p].call), at |-> now,
                 billed |-> FALSE, after |-> job[p].after]
<1>1. r \in UsageType
  BY CostIsNat, NowIsInstant DEF Record, TypeInv, StoreInv, JobsHold, Holds, At, UsageType
<1>2. usage' = Append(usage, r)
  BY DEF Record
<1>3. usage' \in Seq(UsageType) /\ Len(usage') = Len(usage) + 1 /\ usage'[Len(usage) + 1] = r
      /\ \A i \in DOMAIN usage : usage'[i] = usage[i]
  BY <1>1, <1>2 DEF TypeInv, StoreInv
<1>4. DOMAIN usage = 1..Len(usage) /\ DOMAIN usage' = 1..(Len(usage) + 1) /\ Len(usage) \in Nat
  BY <1>3 DEF TypeInv, StoreInv
<1>5. \A i \in DOMAIN usage' : usage'[i].at <= now /\ (i > 1 => usage'[i - 1].at <= usage'[i].at)
  <2> SUFFICES ASSUME NEW i \in DOMAIN usage'
               PROVE  usage'[i].at <= now /\ (i > 1 => usage'[i - 1].at <= usage'[i].at)
    OBVIOUS
  <2>1. r.at = now /\ now \in Nat
    BY NowIsInstant DEF TypeInv, StoreInv
  <2>2. CASE i = Len(usage) + 1
    <3>1. usage'[i].at = now
      BY <2>1, <2>2, <1>3
    <3>2. ASSUME i > 1 PROVE i - 1 \in DOMAIN usage /\ usage'[i - 1].at <= now
      BY <3>2, <2>2, <1>3, <1>4 DEF TypeInv, StoreInv
    <3> QED
      BY <2>1, <3>1, <3>2
  <2>3. CASE i # Len(usage) + 1
    <3>1. i \in DOMAIN usage /\ (i > 1 => i - 1 \in DOMAIN usage)
      BY <2>3, <1>4
    <3> QED
      BY <3>1, <1>3 DEF TypeInv, StoreInv
  <2> QED
    BY <2>2, <2>3
<1>6. StoreInv'
  <2>1. now' = now
    BY DEF Record, now
  <2> QED
    BY <1>3, <1>5, <2>1 DEF Record, TypeInv, StoreInv, Issued, history
<1>7. Grows
  BY <1>4 DEF Record, Grows, history
<1>8. Holds(job[p])'
  <2>1. job'[p] = [[job[p] EXCEPT !.at = "charge"] EXCEPT !.spend = Len(usage) + 1]
    BY DEF Record, TypeInv, JobsHold
  <2>2. Holds(job[p]) /\ job[p].at = "record"
    BY DEF Record, TypeInv, JobsHold, At
  <2>3. /\ DOMAIN job'[p] = Fields /\ job'[p].at = "charge" /\ job'[p].spend = Len(usage) + 1
        /\ job'[p].user = job[p].user /\ job'[p].key = job[p].key /\ job'[p].project = job[p].project
    BY <2>1, <2>2 DEF Holds, Fields
  <2>4. job'[p].spend \in DOMAIN usage'
    BY <2>3, <1>4
  <2> QED
    BY <2>2, <2>3, <2>4 DEF Holds, Labels
<1>9. job' = [job EXCEPT ![p] = [[job[p] EXCEPT !.at = "charge"] EXCEPT !.spend = Len(usage) + 1]]
  BY DEF Record, TypeInv, JobsHold
<1> QED
  BY <1>6, <1>7, <1>8, <1>9, OneJob DEF TypeInv

LEMMA ChargeType ==
  ASSUME TypeInv, NEW p \in Slots, Charge(p)
  PROVE  TypeInv'
<1>1. \/ usage' = usage
      \/ job[p].spend \in DOMAIN usage /\ usage' = [usage EXCEPT ![job[p].spend].billed = TRUE]
  BY DEF Charge, TypeInv, JobsHold, Holds, At
<1>2. usage' \in Seq(UsageType) /\ DOMAIN usage' = DOMAIN usage
      /\ \A i \in DOMAIN usage : usage'[i].at = usage[i].at
  <2>1. CASE usage' = usage
    BY <2>1 DEF TypeInv, StoreInv
  <2>2. CASE job[p].spend \in DOMAIN usage /\ usage' = [usage EXCEPT ![job[p].spend].billed = TRUE]
    <3> DEFINE i == job[p].spend
    <3>1. usage[i] \in UsageType
      BY <2>2 DEF TypeInv, StoreInv
    <3>2. [usage[i] EXCEPT !.billed = TRUE] \in UsageType
      BY <3>1 DEF UsageType
    <3>3. usage' = [usage EXCEPT ![i] = [usage[i] EXCEPT !.billed = TRUE]]
      BY <2>2
    <3>4. usage' \in Seq(UsageType) /\ DOMAIN usage' = DOMAIN usage
      BY <2>2, <3>2, <3>3 DEF TypeInv, StoreInv
    <3>5. [usage[i] EXCEPT !.billed = TRUE].at = usage[i].at
      BY <3>1 DEF UsageType
    <3> QED
      BY <2>2, <3>3, <3>4, <3>5 DEF TypeInv, StoreInv
  <2> QED
    BY <1>1, <2>1, <2>2
<1>3. StoreInv'
  BY <1>2 DEF Charge, TypeInv, StoreInv, Issued, now, history
<1>4. Grows
  BY <1>2 DEF Charge, Grows, history
<1> QED
  BY <1>3, <1>4, DoneType DEF Charge

LEMMA GotoHolds ==
  ASSUME NEW p \in Slots, JobsHold, NEW l, Goto(p, l)
  PROVE  /\ job' = [job EXCEPT ![p] = [job[p] EXCEPT !.at = l]]
         /\ DOMAIN job'[p] = Fields /\ job'[p].at = l /\ job'[p].user = job[p].user
         /\ job'[p].key = job[p].key /\ job'[p].project = job[p].project
BY DEF Goto, JobsHold, Holds, Fields

LEMMA StepType == TypeInv /\ Theirs /\ KeysShut /\ [Next]_vars => TypeInv'
<1> SUFFICES ASSUME TypeInv, Theirs, KeysShut, [Next]_vars PROVE TypeInv'
  OBVIOUS
<1> USE NoneIsNobody
<1>1. CASE Tick
  <2>1. tick' \in DOMAIN Clock /\ now <= now'
    BY <1>1, AccountsAssumption DEF Tick, TypeInv, StoreInv, now
  <2>2. now \in Nat /\ now' \in Nat
    BY <2>1, AccountsAssumption DEF now, TypeInv, StoreInv
  <2>3. \A i \in DOMAIN usage : usage[i].at <= now'
    <3> SUFFICES ASSUME NEW i \in DOMAIN usage PROVE usage[i].at <= now'
      OBVIOUS
    <3>0. usage[i] \in UsageType
      BY DEF TypeInv, StoreInv
    <3>1. usage[i].at \in Nat /\ usage[i].at <= now
      BY <3>0 DEF TypeInv, StoreInv, UsageType
    <3> QED
      BY <3>1, <2>1, <2>2
  <2>4. StoreInv'
    BY <1>1, <2>1, <2>3 DEF Tick, TypeInv, StoreInv, store, history, Issued
  <2> QED
    BY <1>1, <2>4 DEF Tick, TypeInv, JobsHold, Holds, store, history
<1>2. ASSUME NEW p \in Slots, CreateProject(p) PROVE TypeInv'
  <2>1. PICK u \in SignedIn, q \in Projects : owner[q] = "none" /\ owner' = [owner EXCEPT ![q] = u]
                                               /\ alive' = alive \cup {q}
    BY <1>2 DEF CreateProject
  <2>2. StoreInv'
    BY <1>2, <2>1, BegunType DEF CreateProject, TypeInv, StoreInv, history, SignedIn, Issued, now
  <2>3. Grows
    BY <1>2, <2>1 DEF CreateProject, TypeInv, StoreInv, Grows, history
  <2> QED
    BY <1>2, <2>2, <2>3, HoldsThrough DEF CreateProject, TypeInv, JobsHold
<1>3. ASSUME NEW p \in Slots, CreateKey(p) PROVE TypeInv'
  <2>0. PICK u \in SignedIn : \E q \in ResolveProject(u) :
          Begin(p, [Idle EXCEPT !.at = "create", !.user = u, !.project = q])
    BY <1>3 DEF CreateKey
  <2>1. PICK q \in ResolveProject(u) :
          Begin(p, [Idle EXCEPT !.at = "create", !.user = u, !.project = q])
    BY <2>0
  <2>2. u \in Users /\ q \in Projects \cup {"none"} /\ (q # "none" => owner[q] = u)
    BY <2>1, ResolvedIsOwn DEF SignedIn, TypeInv
  <2>3. Holds([Idle EXCEPT !.at = "create", !.user = u, !.project = q])
    BY <2>2 DEF Holds, Idle, Fields, Labels
  <2> QED
    BY <1>3, <2>1, <2>3, BeginType DEF CreateKey
<1>4. ASSUME NEW p \in Slots, InsertKey(p) \/ StoreMove(p) PROVE TypeInv'
  BY <1>4, StoreKeyType, MoveType
<1>5. ASSUME NEW p \in Slots, MoveKey(p) PROVE TypeInv'
  <2>1. PICK u \in SignedIn : \E k \in KeysOf(u), q \in ResolveProject(u) :
          Begin(p, [Idle EXCEPT !.at = "move", !.user = u, !.key = k, !.project = q])
    BY <1>5 DEF MoveKey
  <2>2. PICK k \in KeysOf(u), q \in ResolveProject(u) :
          Begin(p, [Idle EXCEPT !.at = "move", !.user = u, !.key = k, !.project = q])
    BY <2>1
  <2>3. u \in Users /\ q \in Projects \cup {"none"} /\ (q # "none" => owner[q] = u)
    BY <2>1, <2>2, ResolvedIsOwn DEF SignedIn, TypeInv
  <2>4. k \in Keys /\ keys[k].user = u
    BY DEF KeysOf, Issued
  <2>5. Holds([Idle EXCEPT !.at = "move", !.user = u, !.key = k, !.project = q])
    BY <2>3, <2>4 DEF Holds, Idle, Fields, Labels
  <2> QED
    BY <1>5, <2>2, <2>5, BeginType DEF MoveKey
<1>6. ASSUME NEW p \in Slots, RevokeKey(p) PROVE TypeInv'
  <2>0. PICK u \in SignedIn : \E k \in KeysOf(u) : keys' = [keys EXCEPT ![k].revoked = TRUE]
    BY <1>6 DEF RevokeKey
  <2>1. PICK k \in KeysOf(u) : keys' = [keys EXCEPT ![k].revoked = TRUE]
    BY <2>0
  <2>2. k \in Keys /\ k \in Issued
    BY DEF KeysOf, Issued
  <2>3. keys' \in [Keys -> KeyType]
        /\ \A x \in Keys : keys'[x].user = keys[x].user /\ (keys[x] = NoKey => keys'[x] = NoKey)
    <3>1. keys[k] \in KeyType /\ keys[k] # NoKey /\ [keys[k] EXCEPT !.revoked = TRUE] \in KeyType
      BY <2>2 DEF TypeInv, StoreInv, KeyType, Issued
    <3>2. keys' = [keys EXCEPT ![k] = [keys[k] EXCEPT !.revoked = TRUE]]
      BY <2>1
    <3>3. [keys[k] EXCEPT !.revoked = TRUE].user = keys[k].user
      BY <3>1 DEF KeyType
    <3> QED
      BY <2>2, <3>1, <3>2, <3>3 DEF TypeInv, StoreInv
  <2>4. begun' \in 0..MaxRequests
    BY <1>6, BegunType DEF RevokeKey, TypeInv
  <2>5. StoreInv' /\ Grows
    BY <1>6, <2>3, <2>4, KeysStayType DEF RevokeKey, TypeInv, StoreInv, history
  <2> QED
    BY <1>6, <2>5, HoldsThrough DEF RevokeKey, TypeInv, JobsHold
<1>7. ASSUME NEW p \in Slots, DeleteProject(p) PROVE TypeInv'
  <2>0. PICK u \in SignedIn : \E q \in ResolveProject(u) \ {"none"} :
          Begin(p, [Idle EXCEPT !.at = "detach", !.user = u, !.project = q])
    BY <1>7 DEF DeleteProject
  <2>1. PICK q \in ResolveProject(u) \ {"none"} :
          Begin(p, [Idle EXCEPT !.at = "detach", !.user = u, !.project = q])
    BY <2>0
  <2>2. u \in Users /\ q \in Projects /\ owner[q] = u
    BY <2>1, ResolvedIsOwn DEF SignedIn, TypeInv
  <2>3. Holds([Idle EXCEPT !.at = "detach", !.user = u, !.project = q])
    BY <2>2 DEF Holds, Idle, Fields, Labels
  <2> QED
    BY <1>7, <2>1, <2>3, BeginType DEF DeleteProject
<1>8. ASSUME NEW p \in Slots, Detach(p) PROVE TypeInv'
  <2> DEFINE u == job[p].user
  <2> DEFINE q == job[p].project
  <2>1. keys' \in [Keys -> KeyType]
        /\ \A x \in Keys : keys'[x].user = keys[x].user /\ (keys[x] = NoKey => keys'[x] = NoKey)
    <3>1. \A x \in Keys : keys'[x] = keys[x] \/ keys'[x] = [keys[x] EXCEPT !.project = "none"]
      BY <1>8 DEF Detach, Detached
    <3>2. keys' = [x \in Keys |-> keys'[x]]
      BY <1>8 DEF Detach, Detached
    <3> QED
      BY <3>1, <3>2 DEF TypeInv, StoreInv, KeyType, NoKey
  <2>2. StoreInv' /\ Grows
    BY <1>8, <2>1, KeysStayType DEF Detach, TypeInv, StoreInv, history
  <2>3. Holds(job[p])'
    BY <1>8, GotoHolds DEF Detach, TypeInv, JobsHold, Holds, At, Labels
  <2> QED
    BY <1>8, <2>2, <2>3, GotoHolds, OneJob DEF Detach, TypeInv
<1>9. ASSUME NEW p \in Slots, Drop(p) PROVE TypeInv'
  <2>1. StoreInv'
    BY <1>9 DEF Drop, TypeInv, StoreInv, history, Issued, now
  <2>2. Grows
    BY <1>9 DEF Drop, Grows, history
  <2> QED
    BY <1>9, <2>1, <2>2, DoneType DEF Drop
<1>10. ASSUME NEW p \in Slots, UseKey(p) PROVE TypeInv'
  <2>1. PICK k \in Issued, call \in Calls :
          ~keys[k].revoked
          /\ Begin(p, [Idle EXCEPT !.at = "record", !.user = keys[k].user, !.key = k, !.call = call,
                                   !.project = keys[k].project, !.after = keys[k].user \in closed])
    BY <1>10 DEF UseKey
  <2> DEFINE next == [Idle EXCEPT !.at = "record", !.user = keys[k].user, !.key = k, !.call = call,
                                  !.project = keys[k].project, !.after = keys[k].user \in closed]
  <2>2. k \in Keys /\ keys[k].user \in Users
    BY IssuedHasUser DEF Issued, TypeInv
  <2>3. keys[k].project \in Projects \cup {"none"}
        /\ (keys[k].project # "none" => owner[keys[k].project] = keys[k].user)
    BY <2>2 DEF Theirs, TypeInv, StoreInv, KeyType
  <2>4. keys[k].user \in closed => k \in late
    BY <2>1, <2>2 DEF KeysShut, TypeInv, StoreInv, KeysOf
  <2>5. Holds(next)
    <3>1. /\ DOMAIN next = Fields /\ next.at = "record" /\ next.user = keys[k].user /\ next.key = k
          /\ next.call = call /\ next.project = keys[k].project
      BY DEF Idle, Fields
    <3>2. CASE keys[k].user \in closed
      <4>1. next.after = TRUE
        BY <3>2 DEF Idle
      <4> QED
        BY <2>2, <2>3, <2>4, <3>1, <3>2, <4>1 DEF Holds, Labels
    <3>3. CASE keys[k].user \notin closed
      <4>1. next.after = FALSE
        <5>1. (keys[k].user \in closed) = FALSE
          BY <3>3
        <5> QED
          BY <5>1 DEF Idle
      <4> QED
        BY <2>2, <2>3, <3>1, <4>1 DEF Holds, Labels
    <3> QED
      BY <3>2, <3>3
  <2> QED
    BY <1>10, <2>1, <2>5, BeginType DEF UseKey
<1>11. ASSUME NEW p \in Slots, UseSession(p) PROVE TypeInv'
  <2>1. PICK u \in SignedIn, call \in Calls :
          Begin(p, [Idle EXCEPT !.at = "record", !.user = u, !.call = call, !.after = u \in closed])
    BY <1>11 DEF UseSession
  <2>2. u \in Users /\ (u \in closed => u \in outlived)
    BY <2>1 DEF SignedIn, TypeInv, StoreInv
  <2> DEFINE next == [Idle EXCEPT !.at = "record", !.user = u, !.call = call, !.after = u \in closed]
  <2>3. /\ DOMAIN next = Fields /\ next.at = "record" /\ next.user = u /\ next.key = "none"
        /\ next.call = call /\ next.project = "none"
    BY DEF Idle, Fields
  <2>4. Holds(next)
    <3>1. CASE u \in closed
      <4>1. next.after = TRUE
        BY <3>1 DEF Idle
      <4> QED
        BY <2>1, <2>2, <2>3, <3>1, <4>1 DEF Holds, Labels
    <3>2. CASE u \notin closed
      <4>1. next.after = FALSE
        <5>1. (u \in closed) = FALSE
          BY <3>2
        <5> QED
          BY <5>1 DEF Idle
      <4> QED
        BY <2>1, <2>2, <2>3, <4>1 DEF Holds, Labels
    <3> QED
      BY <3>1, <3>2
  <2> QED
    BY <1>11, <2>1, <2>4, BeginType DEF UseSession
<1>12. ASSUME NEW p \in Slots, Record(p) \/ Charge(p) PROVE TypeInv'
  BY <1>12, RecordType, ChargeType
<1>13. ASSUME NEW p \in Slots, Summarise(p) PROVE TypeInv'
  <2>1. PICK u \in SignedIn :
          Begin(p, [Idle EXCEPT !.at = "unbilled", !.user = u, !.spend = Spend(u), !.before = Paid(u)])
    BY <1>13 DEF Summarise
  <2>2. Holds([Idle EXCEPT !.at = "unbilled", !.user = u, !.spend = Spend(u), !.before = Paid(u)])
    BY DEF Holds, Idle, Fields, Labels, SignedIn
  <2> QED
    BY <1>13, <2>1, <2>2, BeginType DEF Summarise
<1>14. ASSUME NEW p \in Slots, ReadUnbilled(p) PROVE TypeInv'
  <2> DEFINE next == [[job[p] EXCEPT !.at = "models"] EXCEPT !.paid = Billed(p)]
  <2>1. job' = [job EXCEPT ![p] = next]
    BY <1>14 DEF ReadUnbilled, TypeInv, JobsHold
  <2>2. /\ DOMAIN next = Fields /\ next.at = "models" /\ next.user = job[p].user
        /\ next.key = job[p].key /\ next.project = job[p].project
    BY DEF TypeInv, JobsHold, Holds, Fields
  <2>3. Holds(next)
    BY <1>14, <2>2 DEF ReadUnbilled, TypeInv, JobsHold, Holds, At, Labels
  <2> QED
    BY <1>14, <2>1, <2>3, JobType DEF ReadUnbilled, history, TypeInv, StoreInv
<1>15. ASSUME NEW p \in Slots, Answer(p) PROVE TypeInv'
  <2> DEFINE next == [[job[p] EXCEPT !.at = "answered"]
                                 EXCEPT !.loose = job[p].spend - Attributed(job[p].user)]
  <2>1. job' = [job EXCEPT ![p] = next]
    BY <1>15 DEF Answer, TypeInv, JobsHold
  <2>2. /\ DOMAIN next = Fields /\ next.at = "answered" /\ next.user = job[p].user
        /\ next.key = job[p].key /\ next.project = job[p].project
    BY DEF TypeInv, JobsHold, Holds, Fields
  <2>3. Holds(next)
    BY <1>15, <2>2 DEF Answer, TypeInv, JobsHold, Holds, At, Labels
  <2> QED
    BY <1>15, <2>1, <2>3, JobType DEF Answer, history, TypeInv, StoreInv
<1>16. ASSUME NEW p \in Slots, Leave(p) \/ Die(p) PROVE TypeInv'
  BY <1>16, IdleHolds, JobType DEF Leave, Die, Done, history, TypeInv, StoreInv
<1>17. ASSUME NEW p \in Slots, CloseAccount(p) PROVE TypeInv'
  <2>1. PICK u \in SignedIn : Begin(p, [Idle EXCEPT !.at = "revoke", !.user = u])
    BY <1>17 DEF CloseAccount
  <2>2. Holds([Idle EXCEPT !.at = "revoke", !.user = u])
    BY DEF Holds, Idle, Fields, Labels, SignedIn
  <2> QED
    BY <1>17, <2>1, <2>2, BeginType DEF CloseAccount
<1>18. ASSUME NEW p \in Slots, RevokeKeys(p) PROVE TypeInv'
  <2>1. job[p].user \in Users
    BY <1>18 DEF RevokeKeys, TypeInv, JobsHold, Holds, At
  <2>2. keys' \in [Keys -> KeyType]
        /\ \A x \in Keys : keys'[x].user = keys[x].user /\ (keys[x] = NoKey => keys'[x] = NoKey)
    <3>1. keys' = [x \in Keys |-> IF keys[x].user = job[p].user
                                   THEN [keys[x] EXCEPT !.revoked = TRUE] ELSE keys[x]]
      BY <1>18 DEF RevokeKeys, Revoked
    <3>2. \A x \in Keys : /\ keys[x] \in KeyType /\ [keys[x] EXCEPT !.revoked = TRUE] \in KeyType
                          /\ [keys[x] EXCEPT !.revoked = TRUE].user = keys[x].user
      BY DEF TypeInv, StoreInv, KeyType
    <3>3. \A x \in Keys : keys[x].user = job[p].user => keys[x] # NoKey
      BY <2>1 DEF NoKey
    <3> QED
      BY <3>1, <3>2, <3>3
  <2>3. StoreInv' /\ Grows
    BY <1>18, <2>1, <2>2, KeysStayType DEF RevokeKeys, TypeInv, StoreInv
  <2>4. Holds(job[p])'
    BY <1>18, GotoHolds DEF RevokeKeys, TypeInv, JobsHold, Holds, At, Labels
  <2> QED
    BY <1>18, <2>3, <2>4, GotoHolds, OneJob DEF RevokeKeys, TypeInv
<1>19. ASSUME NEW p \in Slots, Anonymise(p) PROVE TypeInv'
  <2>1. job[p].user \in shut
    BY <1>19 DEF Anonymise, TypeInv, JobsHold, Holds, At
  <2>2. StoreInv' /\ Grows
    BY <1>19, <2>1 DEF Anonymise, TypeInv, StoreInv, Grows, history, Issued, now
  <2>3. Holds(job[p])'
    BY <1>19, <2>1, GotoHolds DEF Anonymise, TypeInv, JobsHold, Holds, At, Labels, history
  <2> QED
    BY <1>19, <2>2, <2>3, GotoHolds, OneJob DEF Anonymise, TypeInv
<1>20. ASSUME NEW p \in Slots, ZeroBalance(p) PROVE TypeInv'
  <2>1. job[p].user \in closed
    BY <1>20 DEF ZeroBalance, TypeInv, JobsHold, Holds, At
  <2>2. StoreInv' /\ Grows
    BY <1>20, <2>1 DEF ZeroBalance, TypeInv, StoreInv, Grows, history, Issued, now
  <2> QED
    BY <1>20, <2>2, DoneType DEF ZeroBalance
<1>21. CASE UNCHANGED vars
  BY <1>21 DEF vars, store, history, TypeInv, StoreInv, JobsHold, Holds, Issued, now
<1> QED
  BY <1>1, <1>2, <1>3, <1>4, <1>5, <1>6, <1>7, <1>8, <1>9, <1>10, <1>11, <1>12, <1>13, <1>14,
     <1>15, <1>16, <1>17, <1>18, <1>19, <1>20, <1>21 DEF Next

------------------------------------------------------------------------------
(* What each step does to the keys and to the usage.                         *)
KeysKept ==
  \A k \in Keys : /\ keys'[k].user = keys[k].user /\ (keys[k].revoked => keys'[k].revoked)
                  /\ keys'[k].project \in {keys[k].project, "none"}

UsageKept ==
  /\ DOMAIN usage' = DOMAIN usage
  /\ \A i \in DOMAIN usage : /\ usage'[i].user = usage[i].user /\ usage'[i].key = usage[i].key
                             /\ usage'[i].project = usage[i].project /\ usage'[i].after = usage[i].after

LEMMA RevokingKeeps ==
  ASSUME TypeInv, NEW p \in Slots, RevokeKey(p) \/ RevokeKeys(p) \/ Detach(p)
  PROVE  KeysKept
<1> SUFFICES ASSUME NEW k \in Keys
             PROVE  /\ keys'[k].user = keys[k].user /\ (keys[k].revoked => keys'[k].revoked)
                    /\ keys'[k].project \in {keys[k].project, "none"}
  BY DEF KeysKept
<1>1. \/ keys'[k] = keys[k] \/ keys'[k] = [keys[k] EXCEPT !.revoked = TRUE]
      \/ keys'[k] = [keys[k] EXCEPT !.project = "none"]
  <2>1. CASE RevokeKey(p)
    <3>1. PICK u \in SignedIn : \E x \in KeysOf(u) : keys' = [keys EXCEPT ![x].revoked = TRUE]
      BY <2>1 DEF RevokeKey
    <3>2. PICK x \in KeysOf(u) : keys' = [keys EXCEPT ![x].revoked = TRUE]
      BY <3>1
    <3> QED
      BY <3>2 DEF KeysOf, Issued, TypeInv, StoreInv
  <2>2. CASE RevokeKeys(p)
    BY <2>2 DEF RevokeKeys, Revoked
  <2>3. CASE Detach(p)
    BY <2>3 DEF Detach, Detached
  <2> QED
    BY <2>1, <2>2, <2>3
<1>2. keys[k] \in KeyType
  BY DEF TypeInv, StoreInv
<1> QED
  BY <1>1, <1>2 DEF KeyType

LEMMA ChargeKeeps ==
  ASSUME TypeInv, NEW p \in Slots, Charge(p)
  PROVE  UsageKept
<1>1. \/ usage' = usage
      \/ job[p].spend \in DOMAIN usage /\ usage' = [usage EXCEPT ![job[p].spend].billed = TRUE]
  BY DEF Charge, TypeInv, JobsHold, Holds, At
<1>2. \A i \in DOMAIN usage : usage[i] \in UsageType
  BY DEF TypeInv, StoreInv
<1>3. DOMAIN usage' = DOMAIN usage
      /\ \A i \in DOMAIN usage : usage'[i] = usage[i] \/ usage'[i] = [usage[i] EXCEPT !.billed = TRUE]
  BY <1>1 DEF TypeInv, StoreInv
<1> QED
  BY <1>2, <1>3 DEF UsageKept, UsageType

LEMMA InsertEffect ==
  ASSUME TypeInv, NEW p \in Slots, InsertKey(p)
  PROVE  \E k \in Keys :
           /\ keys[k].user = "none"
           /\ keys'[k] = [user |-> job[p].user, project |-> job[p].project, revoked |-> FALSE]
           /\ late' = IF job[p].user \in shut THEN late \cup {k} ELSE late
           /\ adrift' = Adrift(k, job[p].project)
           /\ \A x \in Keys \ {k} : keys'[x] = keys[x]
<1>1. PICK k \in Keys \ Issued :
        /\ keys' = [keys EXCEPT ![k] = [user |-> job[p].user, project |-> job[p].project, revoked |-> FALSE]]
        /\ late' = IF job[p].user \in shut THEN late \cup {k} ELSE late
        /\ adrift' = Adrift(k, job[p].project)
  BY DEF InsertKey
<1>2. keys[k].user = "none"
  BY IssuedHasUser, NoneIsNobody DEF TypeInv, StoreInv, KeyType
<1> QED
  BY <1>1, <1>2 DEF TypeInv, StoreInv

LEMMA MoveEffect ==
  ASSUME TypeInv, NEW p \in Slots, StoreMove(p)
  PROVE  \E k \in Keys :
           /\ keys[k].user = job[p].user /\ keys'[k].user = job[p].user
           /\ keys'[k].project = job[p].project /\ keys'[k].revoked = keys[k].revoked
           /\ adrift' = Adrift(k, job[p].project)
           /\ \A x \in Keys \ {k} : keys'[x] = keys[x]
<1> DEFINE k == job[p].key
<1>1. k \in Keys /\ keys[k].user = job[p].user
  BY NoneIsNobody DEF StoreMove, TypeInv, JobsHold, Holds, At
<1>2. keys[k] \in KeyType
  BY <1>1 DEF TypeInv, StoreInv
<1>3. keys' = [keys EXCEPT ![k] = [keys[k] EXCEPT !.project = job[p].project]]
  BY DEF StoreMove
<1>4. \A x \in Keys \ {k} : keys'[x] = keys[x]
  BY <1>1, <1>3 DEF TypeInv, StoreInv
<1>5. keys'[k] = [keys[k] EXCEPT !.project = job[p].project]
  BY <1>1, <1>3 DEF TypeInv, StoreInv
<1> QED
  BY <1>1, <1>2, <1>4, <1>5 DEF StoreMove, KeyType

LEMMA RecordEffect ==
  ASSUME TypeInv, NEW p \in Slots, Record(p)
  PROVE  /\ DOMAIN usage' = DOMAIN usage \cup {Len(usage) + 1}
         /\ \A i \in DOMAIN usage : usage'[i] = usage[i] /\ i # Len(usage) + 1
         /\ LET r == usage'[Len(usage) + 1] IN
            /\ r.user = job[p].user /\ r.key = job[p].key /\ r.project = job[p].project
            /\ r.after = job[p].after /\ r.cost = Cost(r.call)
<1>1. Len(usage) \in Nat /\ DOMAIN usage = 1..Len(usage)
  BY DEF TypeInv, StoreInv
<1> QED
  BY <1>1 DEF Record, TypeInv, StoreInv

\* The steps that read the store, or only end a request.
Quiet(p) ==
  \/ CreateKey(p) \/ MoveKey(p) \/ DeleteProject(p) \/ UseKey(p) \/ UseSession(p) \/ Summarise(p)
  \/ ReadUnbilled(p) \/ Answer(p) \/ Leave(p) \/ CloseAccount(p) \/ Die(p)

LEMMA QuietKeeps ==
  ASSUME NEW p \in Slots, Quiet(p)
  PROVE  UNCHANGED <<store, shut, late, outlived, adrift>>
BY DEF Quiet, CreateKey, MoveKey, DeleteProject, UseKey, UseSession, Summarise, ReadUnbilled,
       Answer, Leave, CloseAccount, Die, history

LEMMA StepTheirs == TypeInv /\ Theirs /\ [Next]_vars => Theirs'
<1> SUFFICES ASSUME TypeInv, Theirs, [Next]_vars PROVE Theirs'
  OBVIOUS
<1> USE NoneIsNobody
<1>1. CASE Tick \/ UNCHANGED vars
  BY <1>1 DEF Tick, Theirs, store, vars
<1>2. ASSUME NEW p \in Slots, Quiet(p) PROVE Theirs'
  BY <1>2, QuietKeeps DEF Theirs, store
<1>3. ASSUME NEW p \in Slots, CreateProject(p) PROVE Theirs'
  <2>1. PICK u \in SignedIn, q \in Projects : owner[q] = "none" /\ owner' = [owner EXCEPT ![q] = u]
    BY <1>3 DEF CreateProject
  <2>2. \A x \in Projects : owner[x] # "none" => owner'[x] = owner[x]
    BY <2>1 DEF TypeInv, StoreInv
  <2>3. ASSUME NEW k \in Keys, keys[k].project # "none"
        PROVE  keys[k].user \in Users /\ keys[k].project \in Projects
    BY <2>3 DEF TypeInv, StoreInv, KeyType, NoKey
  <2>4. ASSUME NEW i \in DOMAIN usage PROVE usage[i] \in UsageType
    BY DEF TypeInv, StoreInv
  <2>5. \A k \in Keys : keys[k].project # "none" => owner'[keys[k].project] = keys[k].user
    BY <2>2, <2>3 DEF Theirs
  <2>6. \A i \in DOMAIN usage : usage[i].project # "none" => owner'[usage[i].project] = usage[i].user
    BY <2>2, <2>4 DEF Theirs, UsageType
  <2> QED
    BY <1>3, <2>5, <2>6 DEF CreateProject, Theirs
<1>4. ASSUME NEW p \in Slots, InsertKey(p) PROVE Theirs'
  <2>1. PICK k \in Keys :
           /\ keys[k].user = "none"
           /\ keys'[k] = [user |-> job[p].user, project |-> job[p].project, revoked |-> FALSE]
           /\ \A x \in Keys \ {k} : keys'[x] = keys[x]
    BY <1>4, InsertEffect
  <2>2. job[p].project # "none" => owner[job[p].project] = job[p].user
    BY <1>4 DEF InsertKey, TypeInv, JobsHold, Holds, At
  <2>3. ASSUME NEW i \in DOMAIN usage, usage[i].key # "none" PROVE keys'[usage[i].key].user = usage[i].user
    <3>1. usage[i] \in UsageType
      BY DEF TypeInv, StoreInv
    <3> QED
      BY <2>1, <2>3, <3>1 DEF Theirs, UsageType
  <2> QED
    BY <1>4, <2>1, <2>2, <2>3 DEF InsertKey, Theirs
<1>5. ASSUME NEW p \in Slots, StoreMove(p) PROVE Theirs'
  <2>1. PICK k \in Keys :
           /\ keys[k].user = job[p].user /\ keys'[k].user = job[p].user
           /\ keys'[k].project = job[p].project
           /\ \A x \in Keys \ {k} : keys'[x] = keys[x]
    BY <1>5, MoveEffect
  <2>2. job[p].project # "none" => owner[job[p].project] = job[p].user
    BY <1>5 DEF StoreMove, TypeInv, JobsHold, Holds, At
  <2>3. ASSUME NEW i \in DOMAIN usage, usage[i].key # "none" PROVE keys'[usage[i].key].user = usage[i].user
    <3>1. usage[i] \in UsageType
      BY DEF TypeInv, StoreInv
    <3> QED
      BY <2>1, <2>3, <3>1 DEF Theirs, UsageType
  <2> QED
    BY <1>5, <2>1, <2>2, <2>3 DEF StoreMove, Theirs
<1>6. ASSUME NEW p \in Slots, RevokeKey(p) \/ RevokeKeys(p) \/ Detach(p) PROVE Theirs'
  <2>1. KeysKept
    BY <1>6, RevokingKeeps
  <2>2. UNCHANGED <<owner, usage>>
    BY <1>6 DEF RevokeKey, RevokeKeys, Detach
  <2>3. ASSUME NEW i \in DOMAIN usage, usage[i].key # "none" PROVE keys'[usage[i].key].user = usage[i].user
    <3>1. usage[i] \in UsageType
      BY DEF TypeInv, StoreInv
    <3> QED
      BY <2>1, <2>3, <3>1 DEF Theirs, UsageType, KeysKept
  <2> QED
    BY <2>1, <2>2, <2>3 DEF KeysKept, Theirs
<1>7. ASSUME NEW p \in Slots, Record(p) PROVE Theirs'
  <2>1. /\ job[p].project # "none" => owner[job[p].project] = job[p].user
        /\ job[p].key # "none" => keys[job[p].key].user = job[p].user
    BY <1>7 DEF Record, TypeInv, JobsHold, Holds, At
  <2>2. UNCHANGED <<keys, owner>>
    BY <1>7 DEF Record
  <2> QED
    BY <1>7, <2>1, <2>2, RecordEffect DEF Theirs
<1>8. ASSUME NEW p \in Slots, Charge(p) PROVE Theirs'
  BY <1>8, ChargeKeeps DEF Charge, UsageKept, Theirs
<1>9. ASSUME NEW p \in Slots, Drop(p) \/ Anonymise(p) \/ ZeroBalance(p) PROVE Theirs'
  BY <1>9 DEF Drop, Anonymise, ZeroBalance, Theirs
<1> QED
  BY <1>1, <1>2, <1>3, <1>4, <1>5, <1>6, <1>7, <1>8, <1>9 DEF Next, Quiet

LEMMA StepKeysShut == TypeInv /\ KeysShut /\ [Next]_vars => KeysShut'
<1> SUFFICES ASSUME TypeInv, KeysShut, [Next]_vars PROVE KeysShut'
  OBVIOUS
<1> USE NoneIsNobody
<1> DEFINE IsShut(k) == keys[k].user \in shut => keys[k].revoked \/ k \in late
<1>0. KeysShut => \A k \in Keys : IsShut(k)
  BY DEF KeysShut, KeysOf, Issued, TypeInv, StoreInv, NoKey
<1>a. (\A k \in Keys : IsShut(k)') => KeysShut'
  BY DEF KeysShut, KeysOf, Issued
<1>1. CASE Tick \/ UNCHANGED vars
  BY <1>0, <1>a, <1>1 DEF Tick, store, history, vars
<1>2. ASSUME NEW p \in Slots, Quiet(p) PROVE KeysShut'
  BY <1>0, <1>a, <1>2, QuietKeeps DEF store
<1>3. ASSUME NEW p \in Slots, CreateProject(p) \/ Drop(p) \/ Record(p) \/ Charge(p) \/ Anonymise(p)
                               \/ ZeroBalance(p)
      PROVE  KeysShut'
  BY <1>0, <1>a, <1>3 DEF CreateProject, Drop, Record, Charge, Anonymise, ZeroBalance, history
<1>4. ASSUME NEW p \in Slots, InsertKey(p) PROVE KeysShut'
  <2>1. PICK k \in Keys :
           /\ keys'[k] = [user |-> job[p].user, project |-> job[p].project, revoked |-> FALSE]
           /\ late' = IF job[p].user \in shut THEN late \cup {k} ELSE late
           /\ \A x \in Keys \ {k} : keys'[x] = keys[x]
    BY <1>4, InsertEffect
  <2>2. shut' = shut
    BY <1>4 DEF InsertKey
  <2> QED
    BY <1>0, <1>a, <2>1, <2>2
<1>5. ASSUME NEW p \in Slots, StoreMove(p) PROVE KeysShut'
  <2>1. \A k \in Keys : keys'[k].user = keys[k].user /\ keys'[k].revoked = keys[k].revoked
    BY <1>5, MoveEffect
  <2> QED
    BY <1>0, <1>a, <1>5, <2>1 DEF StoreMove
<1>6. ASSUME NEW p \in Slots, RevokeKey(p) \/ Detach(p) PROVE KeysShut'
  <2>1. KeysKept /\ UNCHANGED <<shut, late>>
    BY <1>6, RevokingKeeps DEF RevokeKey, Detach, history
  <2> QED
    BY <1>0, <1>a, <2>1 DEF KeysKept
<1>7. ASSUME NEW p \in Slots, RevokeKeys(p) PROVE KeysShut'
  <2>1. KeysKept /\ late' = late /\ shut' = shut \cup {job[p].user}
    BY <1>7, RevokingKeeps DEF RevokeKeys
  <2>2. \A k \in Keys : keys[k].user = job[p].user => keys'[k].revoked
    BY <1>7 DEF RevokeKeys, Revoked, TypeInv, StoreInv, KeyType
  <2> QED
    BY <1>0, <1>a, <2>1, <2>2 DEF KeysKept
<1> QED
  BY <1>1, <1>2, <1>3, <1>4, <1>5, <1>6, <1>7 DEF Next, Quiet

LEMMA StepOutlivedOnly == TypeInv /\ OutlivedOnly /\ [Next]_vars => OutlivedOnly'
<1> SUFFICES ASSUME TypeInv, OutlivedOnly, [Next]_vars PROVE OutlivedOnly'
  OBVIOUS
<1>1. CASE Tick \/ UNCHANGED vars
  BY <1>1 DEF OutlivedOnly, Tick, store, history, vars
<1>2. ASSUME NEW p \in Slots, Quiet(p) PROVE OutlivedOnly'
  BY <1>2, QuietKeeps DEF OutlivedOnly, store
<1>3. ASSUME NEW p \in Slots, CreateProject(p) \/ Drop(p) \/ Anonymise(p) \/ ZeroBalance(p)
                               \/ StoreMove(p) \/ RevokeKey(p) \/ Detach(p) \/ RevokeKeys(p)
      PROVE  OutlivedOnly'
  BY <1>3 DEF OutlivedOnly, CreateProject, Drop, Anonymise, ZeroBalance, StoreMove, RevokeKey, Detach,
              RevokeKeys, history
<1>4. ASSUME NEW p \in Slots, InsertKey(p) PROVE OutlivedOnly'
  <2>1. usage' = usage /\ outlived' = outlived /\ late \subseteq late'
    BY <1>4, InsertEffect DEF InsertKey
  <2> QED
    BY <2>1 DEF OutlivedOnly
<1>5. ASSUME NEW p \in Slots, Record(p) PROVE OutlivedOnly'
  <2>1. /\ late' = late /\ outlived' = outlived
        /\ job[p].after => job[p].key \in late \/ (job[p].key = "none" /\ job[p].user \in outlived)
    BY <1>5 DEF Record, history, TypeInv, JobsHold, Holds, At
  <2> QED
    BY <1>5, <2>1, RecordEffect DEF OutlivedOnly
<1>6. ASSUME NEW p \in Slots, Charge(p) PROVE OutlivedOnly'
  BY <1>6, ChargeKeeps DEF OutlivedOnly, UsageKept, Charge, history
<1> QED
  BY <1>1, <1>2, <1>3, <1>4, <1>5, <1>6 DEF Next, Quiet

(* Which deletions are between their two writes: a key is stored, by an      *)
(* insertion or a move, when p is none of them.                              *)
LEMMA StoredAdrift ==
  ASSUME TypeInv, Detaching, Attached, NEW p \in Slots, NEW k \in Keys, Done(p), ~At(p, "drop"),
         alive' = alive, adrift' = Adrift(k, job[p].project), keys'[k].project = job[p].project,
         \A x \in Keys \ {k} : keys'[x] = keys[x]
  PROVE  Detaching' /\ Attached'
<1> USE NoneIsNobody
<1>1. \A x \in Keys \ {k} : x \in adrift => x \in adrift'
  BY DEF Adrift
<1>2. UnderDeletion(job[p].project) => k \in adrift'
  BY DEF Adrift
<1>3. \A d \in Slots : At(d, "drop")' => At(d, "drop") /\ job'[d] = job[d]
  BY DEF Done, Idle, At, TypeInv, JobsHold
<1>4. \A d \in Slots : At(d, "drop") => job[d].project # "none"
  BY DEF At, TypeInv, JobsHold, Holds
<1>5. Detaching'
  <2> SUFFICES ASSUME NEW d \in Slots, At(d, "drop")', NEW x \in Keys, keys'[x].project = job'[d].project
               PROVE  x \in adrift'
    BY DEF Detaching
  <2>1. At(d, "drop") /\ job'[d] = job[d]
    BY <1>3
  <2>2. CASE x = k
    BY <2>1, <2>2, <1>2, <1>4 DEF UnderDeletion
  <2>3. CASE x # k
    BY <2>1, <2>3, <1>1 DEF Detaching
  <2> QED
    BY <2>2, <2>3
<1>6. Attached'
  <2> SUFFICES ASSUME NEW x \in Keys, keys'[x].project # "none"
               PROVE  keys'[x].project \in alive \/ x \in adrift'
    BY DEF Attached
  <2>1. CASE x = k
    BY <2>1, <1>2 DEF UnderDeletion
  <2>2. CASE x # k
    BY <2>2, <1>1 DEF Attached
  <2> QED
    BY <2>1, <2>2
<1> QED
  BY <1>5, <1>6

\* Nobody comes between the two writes of a deletion but by detaching.
ByOthers ==
  \/ Tick \/ UNCHANGED vars
  \/ \E p \in Slots :
       \/ Quiet(p) \/ CreateProject(p) \/ InsertKey(p) \/ StoreMove(p) \/ RevokeKey(p) \/ Drop(p)
       \/ Record(p) \/ Charge(p) \/ RevokeKeys(p) \/ Anonymise(p) \/ ZeroBalance(p)

LEMMA NobodyDrops ==
  ASSUME TypeInv, ByOthers, NEW d \in Slots, At(d, "drop")'
  PROVE  At(d, "drop") /\ job'[d].project = job[d].project
<1>1. CASE Tick \/ UNCHANGED vars
  BY <1>1 DEF Tick, vars, At
<1>2. ASSUME NEW p \in Slots, NEW next, job' = [job EXCEPT ![p] = next], next.at # "drop"
      PROVE  At(d, "drop") /\ job'[d].project = job[d].project
  BY <1>2 DEF At, TypeInv, JobsHold
<1>3. ASSUME NEW p \in Slots, Leave(p) \/ Die(p) \/ InsertKey(p) \/ StoreMove(p) \/ Drop(p) \/ Charge(p)
                               \/ ZeroBalance(p)
      PROVE  At(d, "drop") /\ job'[d].project = job[d].project
  <2>1. job' = [job EXCEPT ![p] = Idle]
    BY <1>3 DEF Leave, Die, InsertKey, StoreMove, Drop, Charge, ZeroBalance, Done
  <2>2. Idle.at # "drop"
    BY DEF Idle
  <2> QED
    BY <2>1, <2>2, <1>2
<1>4. ASSUME NEW p \in Slots, RevokeKeys(p) \/ Anonymise(p)
      PROVE  At(d, "drop") /\ job'[d].project = job[d].project
  BY <1>4, GotoHolds DEF RevokeKeys, Anonymise, At, Goto, TypeInv, JobsHold
<1>5. ASSUME NEW p \in Slots, CreateProject(p) \/ RevokeKey(p)
      PROVE  At(d, "drop") /\ job'[d].project = job[d].project
  BY <1>5 DEF CreateProject, RevokeKey, At
<1>6. ASSUME NEW p \in Slots, CreateKey(p) \/ MoveKey(p) \/ DeleteProject(p) \/ UseKey(p)
                               \/ UseSession(p) \/ Summarise(p) \/ CloseAccount(p)
      PROVE  At(d, "drop") /\ job'[d].project = job[d].project
  <2>1. \E next : next.at # "drop" /\ job' = [job EXCEPT ![p] = next]
    BY <1>6 DEF CreateKey, MoveKey, DeleteProject, UseKey, UseSession, Summarise, CloseAccount, Begin, Idle
  <2> QED
    BY <2>1, <1>2
<1>7. ASSUME NEW p \in Slots, Record(p) \/ ReadUnbilled(p) \/ Answer(p)
      PROVE  At(d, "drop") /\ job'[d].project = job[d].project
  <2>1. job'[p].at # "drop" /\ \A q \in Slots \ {p} : job'[q] = job[q]
    BY <1>7 DEF Record, ReadUnbilled, Answer, TypeInv, JobsHold, Holds, Fields
  <2> QED
    BY <2>1 DEF At
<1> QED
  BY <1>1, <1>3, <1>4, <1>5, <1>6, <1>7 DEF ByOthers, Quiet

LEMMA StepDetaching == TypeInv /\ Theirs /\ Detaching /\ Attached /\ [Next]_vars => Detaching' /\ Attached'
<1> SUFFICES ASSUME TypeInv, Theirs, Detaching, Attached, [Next]_vars PROVE Detaching' /\ Attached'
  OBVIOUS
<1> USE NoneIsNobody
<1>1. CASE (\E p \in Slots : Quiet(p) \/ Record(p) \/ Charge(p) \/ Anonymise(p) \/ ZeroBalance(p))
           \/ Tick \/ UNCHANGED vars
  <2>1. UNCHANGED <<keys, alive, adrift>>
    BY <1>1, QuietKeeps DEF Record, Charge, Anonymise, ZeroBalance, Tick, vars, store, history
  <2>2. ByOthers
    BY <1>1 DEF ByOthers
  <2> QED
    BY <2>1, <2>2, NobodyDrops DEF Detaching, Attached
<1>2. ASSUME NEW p \in Slots, CreateProject(p) PROVE Detaching' /\ Attached'
  <2>1. UNCHANGED <<keys, adrift, job>> /\ alive \subseteq alive'
    BY <1>2 DEF CreateProject, history
  <2> QED
    BY <2>1 DEF Detaching, Attached, At
<1>3. ASSUME NEW p \in Slots, RevokeKey(p) \/ RevokeKeys(p) PROVE Detaching' /\ Attached'
  <2>1. UNCHANGED <<alive, adrift>>
    BY <1>3 DEF RevokeKey, RevokeKeys, history
  <2>2. ByOthers
    BY <1>3 DEF ByOthers
  <2>3. \A d \in Slots : At(d, "drop") => job[d].project # "none"
    BY DEF At, TypeInv, JobsHold, Holds
  <2>4. KeysKept
    BY <1>3, RevokingKeeps
  <2> QED
    BY <2>1, <2>2, <2>3, <2>4, NobodyDrops DEF Detaching, Attached, KeysKept
<1>4. ASSUME NEW p \in Slots, InsertKey(p) PROVE Detaching' /\ Attached'
  <2>1. PICK k \in Keys :
           /\ keys'[k] = [user |-> job[p].user, project |-> job[p].project, revoked |-> FALSE]
           /\ adrift' = Adrift(k, job[p].project)
           /\ \A x \in Keys \ {k} : keys'[x] = keys[x]
    BY <1>4, InsertEffect
  <2>2. keys'[k].project = job[p].project
    BY <2>1
  <2>3. Done(p) /\ alive' = alive /\ ~At(p, "drop")
    BY <1>4 DEF InsertKey, At
  <2> QED
    BY <2>1, <2>2, <2>3, StoredAdrift
<1>5. ASSUME NEW p \in Slots, StoreMove(p) PROVE Detaching' /\ Attached'
  <2>1. PICK k \in Keys :
           /\ keys'[k].project = job[p].project
           /\ adrift' = Adrift(k, job[p].project)
           /\ \A x \in Keys \ {k} : keys'[x] = keys[x]
    BY <1>5, MoveEffect
  <2>2. Done(p) /\ alive' = alive /\ ~At(p, "drop")
    BY <1>5 DEF StoreMove, At
  <2> QED
    BY <2>1, <2>2, StoredAdrift
<1>6. ASSUME NEW p \in Slots, Detach(p) PROVE Detaching' /\ Attached'
  <2>1. KeysKept /\ UNCHANGED <<alive, adrift>>
    BY <1>6, RevokingKeeps DEF Detach, history
  <2>2. job[p].project # "none" /\ owner[job[p].project] = job[p].user
    BY <1>6 DEF Detach, TypeInv, JobsHold, Holds, At
  <2>3. \A x \in Keys : keys'[x].project # job[p].project
    <3> SUFFICES ASSUME NEW x \in Keys, keys'[x].project = job[p].project PROVE FALSE
      OBVIOUS
    <3>1. keys[x].project = job[p].project /\ keys[x].user = job[p].user
      BY <2>1, <2>2 DEF KeysKept, Theirs
    <3>2. keys'[x] = [keys[x] EXCEPT !.project = "none"] /\ keys[x] \in KeyType
      BY <1>6, <3>1 DEF Detach, Detached, TypeInv, StoreInv
    <3> QED
      BY <2>2, <3>2 DEF KeyType
  <2>4. ASSUME NEW d \in Slots, At(d, "drop")', d # p
        PROVE  At(d, "drop") /\ job'[d] = job[d]
    BY <1>6, <2>4, GotoHolds DEF Detach, At, TypeInv, JobsHold
  <2>5. job'[p].project = job[p].project
    BY <1>6, GotoHolds DEF Detach, TypeInv
  <2>6. \A d \in Slots : At(d, "drop") => job[d].project # "none"
    BY DEF At, TypeInv, JobsHold, Holds
  <2>7. Detaching'
    <3> SUFFICES ASSUME NEW d \in Slots, At(d, "drop")', NEW x \in Keys, keys'[x].project = job'[d].project
                 PROVE  x \in adrift'
      BY DEF Detaching
    <3>1. CASE d = p
      BY <3>1, <2>3, <2>5
    <3>2. CASE d # p
      BY <3>2, <2>1, <2>4, <2>6 DEF Detaching, KeysKept
    <3> QED
      BY <3>1, <3>2
  <2>8. Attached'
    BY <2>1 DEF Attached, KeysKept
  <2> QED
    BY <2>7, <2>8
<1>7. ASSUME NEW p \in Slots, Drop(p) PROVE Detaching' /\ Attached'
  <2>1. UNCHANGED <<keys, adrift>> /\ alive' = alive \ {job[p].project} /\ At(p, "drop")
    BY <1>7 DEF Drop, history
  <2>2. ByOthers
    BY <1>7 DEF ByOthers
  <2> QED
    BY <2>1, <2>2, NobodyDrops DEF Detaching, Attached
<1> QED
  BY <1>1, <1>2, <1>3, <1>4, <1>5, <1>6, <1>7 DEF Next, Quiet

LEMMA StepClosureEnds == TypeInv /\ ClosureEnds /\ [Next]_vars => ClosureEnds'
<1> SUFFICES ASSUME TypeInv, ClosureEnds, [Next]_vars PROVE ClosureEnds'
  OBVIOUS
<1> DEFINE Zeroing(u) == \E p \in Slots : At(p, "zero") /\ job[p].user = u
<1>0. ASSUME zeroed \subseteq zeroed', cut \subseteq cut', closed' = closed,
             \A p \in Slots : At(p, "zero") =>
               \/ At(p, "zero")' /\ job'[p].user = job[p].user
               \/ job[p].user \in zeroed' \cup cut'
      PROVE  ClosureEnds'
  <2> SUFFICES ASSUME NEW u \in closed
               PROVE  u \in zeroed' \cup cut' \/ \E p \in Slots : At(p, "zero")' /\ job'[p].user = u
    BY <1>0 DEF ClosureEnds
  <2>1. CASE u \in zeroed \cup cut
    BY <2>1, <1>0
  <2>2. CASE Zeroing(u)
    BY <2>2, <1>0
  <2> QED
    BY <2>1, <2>2 DEF ClosureEnds
<1>1. CASE Tick \/ UNCHANGED vars
  BY <1>0, <1>1 DEF Tick, vars, store, history, At
<1>2. ASSUME NEW p \in Slots, ~At(p, "zero"), UNCHANGED <<closed, zeroed>>, cut' = cut,
             \A q \in Slots \ {p} : job'[q] = job[q]
      PROVE  ClosureEnds'
  BY <1>0, <1>2 DEF At
<1>3. ASSUME NEW p \in Slots, \/ CreateKey(p) \/ MoveKey(p) \/ DeleteProject(p) \/ UseKey(p)
                              \/ UseSession(p) \/ Summarise(p) \/ CloseAccount(p)
      PROVE  ClosureEnds'
  <2>1. \E next : Begin(p, next)
    BY <1>3 DEF CreateKey, MoveKey, DeleteProject, UseKey, UseSession, Summarise, CloseAccount
  <2>2. ~At(p, "zero") /\ \A q \in Slots \ {p} : job'[q] = job[q]
    BY <2>1 DEF Begin, Enter, At, TypeInv, JobsHold
  <2> QED
    BY <1>2, <1>3, <2>2
       DEF CreateKey, MoveKey, DeleteProject, UseKey, UseSession, Summarise, CloseAccount, store, history
<1>4. ASSUME NEW p \in Slots, \/ InsertKey(p) \/ StoreMove(p) \/ Drop(p) \/ Charge(p) \/ Leave(p)
      PROVE  ClosureEnds'
  BY <1>2, <1>4 DEF InsertKey, StoreMove, Drop, Charge, Leave, Done, At, TypeInv, JobsHold, store, history
<1>5. ASSUME NEW p \in Slots, \/ Record(p) \/ ReadUnbilled(p) \/ Answer(p) \/ Detach(p) \/ RevokeKeys(p)
      PROVE  ClosureEnds'
  BY <1>2, <1>5 DEF Record, ReadUnbilled, Answer, Detach, RevokeKeys, Goto, At, TypeInv, JobsHold,
                    store, history
<1>6. ASSUME NEW p \in Slots, CreateProject(p) \/ RevokeKey(p) PROVE ClosureEnds'
  BY <1>0, <1>6 DEF CreateProject, RevokeKey, At, history
<1>7. ASSUME NEW p \in Slots, Anonymise(p) PROVE ClosureEnds'
  <2>1. At(p, "zero")' /\ job'[p].user = job[p].user /\ \A q \in Slots \ {p} : job'[q] = job[q]
    BY <1>7, GotoHolds DEF Anonymise, At, TypeInv, JobsHold
  <2>2. ~At(p, "zero") /\ closed' = closed \cup {job[p].user} /\ zeroed' = zeroed /\ cut' = cut
    BY <1>7 DEF Anonymise, At, history
  <2>3. ASSUME NEW q \in Slots, At(q, "zero") PROVE At(q, "zero")' /\ job'[q].user = job[q].user
    BY <2>1, <2>2, <2>3 DEF At
  <2> QED
    BY <2>1, <2>2, <2>3 DEF ClosureEnds
<1>8. ASSUME NEW p \in Slots, ZeroBalance(p) PROVE ClosureEnds'
  <2>1. \A q \in Slots \ {p} : job'[q] = job[q]
    BY <1>8 DEF ZeroBalance, Done, TypeInv, JobsHold
  <2> QED
    BY <1>0, <1>8, <2>1 DEF ZeroBalance, At, history
<1>9. ASSUME NEW p \in Slots, Die(p) PROVE ClosureEnds'
  <2>1. \A q \in Slots \ {p} : job'[q] = job[q]
    BY <1>9 DEF Die, Done, TypeInv, JobsHold
  <2> QED
    BY <1>0, <1>9, <2>1 DEF Die, At, store
<1> QED
  BY <1>1, <1>3, <1>4, <1>5, <1>6, <1>7, <1>8, <1>9 DEF Next

------------------------------------------------------------------------------
LEMMA InitIInv == Init => IInv
BY InitType, NoneIsNobody
   DEF Init, IInv, Theirs, Detaching, Attached, KeysShut, OutlivedOnly, ClosureEnds, At, Idle, NoKey

LEMMA StepIInv == IInv /\ [Next]_vars => IInv'
BY StepType, StepTheirs, StepDetaching, StepKeysShut, StepOutlivedOnly, StepClosureEnds DEF IInv

LEMMA Invariant == Spec => []IInv
BY InitIInv, StepIInv, PTL DEF Spec

(* Types, and whose is what: whatever requests overlap, a project that is    *)
(* there has an owner, the usage is in the order it was recorded, and a      *)
(* request that charges for a call has recorded it.                          *)
THEOREM TypeCorrect == Spec => []TypeOK
<1>1. IInv => TypeOK
  <2> SUFFICES ASSUME IInv PROVE TypeOK
    OBVIOUS
  <2>1. \A i \in DOMAIN usage : usage[i] \in UsageType
    BY DEF IInv, TypeInv, StoreInv
  <2>2. \A i \in DOMAIN usage : /\ usage[i].user \in Users /\ usage[i].call \in Calls
                              /\ usage[i].cost \in Nat
    BY <2>1 DEF UsageType
  <2> QED
    BY <2>2 DEF IInv, TypeInv, StoreInv, JobsHold, Holds, TypeOK, KeyType, At
<1> QED
  BY <1>1, Invariant, PTL

(* The guards of api_keys.py and projects.py are enough: no order of         *)
(* requests gives a key, or the usage it makes, a project or a customer it   *)
(* does not belong to, and only a key stored during a deletion keeps a       *)
(* project that is gone.                                                     *)
THEOREM KeysStayTheirOwners == Spec => []KeysFollowTheirProjects
<1>1. IInv => KeysFollowTheirProjects
  BY DEF IInv, Theirs, Attached, KeysFollowTheirProjects, Issued
<1> QED
  BY <1>1, Invariant, PTL

(* Whatever requests overlap with a closure, of any number of customers and  *)
(* whichever sessions it leaves, the only keys that are good after it are    *)
(* those stored after it revoked what there was, nothing is recorded but     *)
(* with these and in such a session, and the balance is zero unless the      *)
(* closure stopped before.                                                   *)
THEOREM ClosedStaysClosed == Spec => []ClosedMeansClosed
<1>1. IInv => ClosedMeansClosed
  <2> SUFFICES ASSUME IInv, NEW u \in closed
               PROVE  /\ \A k \in KeysOf(u) : keys[k].revoked \/ k \in late
                      /\ \A i \in DOMAIN usage :
                           usage[i].user = u /\ usage[i].after =>
                             usage[i].key \in late \/ (usage[i].key = "none" /\ u \in outlived)
                      /\ u \in zeroed \cup cut \/ \E p \in Slots : At(p, "zero") /\ job[p].user = u
    BY DEF ClosedMeansClosed
  <2>1. u \in shut
    BY DEF IInv, TypeInv, StoreInv
  <2> QED
    BY <2>1 DEF IInv, KeysShut, OutlivedOnly, ClosureEnds
<1> QED
  BY <1>1, Invariant, PTL

------------------------------------------------------------------------------
(* The summary. Every figure it reads is a sum over the records of one       *)
(* customer that only grows, together with what is left out of it: so each   *)
(* is bounded by what a later read finds, and so are their differences.      *)

\* A log of records is finite, and each has a cost.
LEMMA LogType ==
  ASSUME NEW log \in Seq(UsageType), NEW S \in SUBSET DOMAIN log
  PROVE  IsFiniteSet(S) /\ \A i \in S : log[i] \in UsageType /\ log[i].cost \in Nat
<1>1. DOMAIN log = 1..Len(log) /\ Len(log) \in Nat /\ \A i \in DOMAIN log : log[i] \in UsageType
  OBVIOUS
<1>2. IsFiniteSet(1..Len(log))
  BY <1>1, FS_Interval
<1>3. IsFiniteSet(S)
  BY <1>1, <1>2, FS_Subset
<1> QED
  BY <1>1, <1>3 DEF UsageType

\* What is spent is an amount.
LEMMA SpentType ==
  ASSUME NEW log \in Seq(UsageType), NEW S \in SUBSET DOMAIN log
  PROVE  Spent(log, S) \in Nat
<1> DEFINE f == [i \in S |-> log[i].cost]
<1>1. IsFiniteSet(S) /\ \A i \in S : f[i] \in Nat
  BY LogType
<1> HIDE DEF f
<1>2. SumFunctionOnSet(f, S) \in Nat
  BY <1>1, SumNat
<1> QED
  BY <1>2 DEF Spent, f

\* What is spent on some of the records, and on the others.
LEMMA SpentSplit ==
  ASSUME NEW log \in Seq(UsageType), NEW S \in SUBSET DOMAIN log, NEW A \in SUBSET S
  PROVE  Spent(log, S) - Spent(log, A) = Spent(log, S \ A)
<1> DEFINE f == [i \in S |-> log[i].cost]
           g == [i \in A |-> log[i].cost]
           h == [i \in S \ A |-> log[i].cost]
<1>1. IsFiniteSet(S) /\ \A i \in S : log[i].cost \in Nat
  BY LogType
<1>2. IsFiniteSet(A) /\ IsFiniteSet(S \ A)
  BY <1>1, FS_Subset
<1>3. /\ \A i \in S : f[i] \in Int
      /\ \A i \in A : f[i] = g[i]
      /\ \A i \in S \ A : f[i] = h[i]
  BY <1>1
<1> HIDE DEF f, g, h
<1>4. SumFunctionOnSet(f, S) = SumFunctionOnSet(f, A) + SumFunctionOnSet(f, S \ A)
  BY <1>1, <1>3, SumSplit
<1>5. /\ SumFunctionOnSet(f, A) = SumFunctionOnSet(g, A)
      /\ SumFunctionOnSet(f, S \ A) = SumFunctionOnSet(h, S \ A)
  BY <1>2, <1>3, SumAgrees
<1>6. Spent(log, S) = Spent(log, A) + Spent(log, S \ A)
  BY <1>4, <1>5 DEF Spent, f, g, h
<1>7. Spent(log, A) \in Nat /\ Spent(log, S \ A) \in Nat
  <2>1. A \in SUBSET DOMAIN log /\ S \ A \in SUBSET DOMAIN log
    OBVIOUS
  <2> QED
    BY <2>1, SpentType
<1> QED
  BY <1>6, <1>7

\* What is spent on more records is no less.
LEMMA SpentGrows ==
  ASSUME NEW log \in Seq(UsageType), NEW next \in Seq(UsageType),
         NEW S \in SUBSET DOMAIN log, NEW T \in SUBSET DOMAIN next, S \subseteq T,
         \A i \in S : next[i].cost = log[i].cost
  PROVE  Spent(log, S) <= Spent(next, T)
<1> DEFINE f == [i \in S |-> log[i].cost]
           g == [i \in T |-> next[i].cost]
<1>1. IsFiniteSet(T) /\ \A i \in T : next[i].cost \in Nat
  BY LogType
<1>2. /\ \A i \in S : f[i] = g[i]
      /\ \A i \in T : g[i] \in Nat
  BY <1>1
<1> HIDE DEF f, g
<1>3. SumFunctionOnSet(f, S) <= SumFunctionOnSet(g, T)
  BY <1>1, <1>2, SumGrows
<1> QED
  BY <1>3 DEF Spent, f, g

\* The records of u in a log, and those of them that were paid for and that a
\* model accounts for.
Records(log, u) == {i \in DOMAIN log : log[i].user = u}
PaidOf(log, u) == {i \in Records(log, u) : log[i].billed}
UnpaidOf(log, u) == {i \in Records(log, u) : ~log[i].billed}
ModelOf(log, u) == {i \in Records(log, u) : log[i].call.model # "none"}
LooseOf(log, u) == {i \in Records(log, u) : log[i].call.model = "none"}

\* What was not paid for and what a model accounts for leave the rest.
LEMMA PartsSpent ==
  ASSUME NEW log \in Seq(UsageType), NEW u
  PROVE  /\ {Records(log, u), PaidOf(log, u), UnpaidOf(log, u), ModelOf(log, u), LooseOf(log, u)}
              \subseteq SUBSET DOMAIN log
         /\ Spent(log, Records(log, u)) - Spent(log, UnpaidOf(log, u)) = Spent(log, PaidOf(log, u))
         /\ Spent(log, Records(log, u)) - Spent(log, ModelOf(log, u)) = Spent(log, LooseOf(log, u))
<1>1. /\ Records(log, u) \in SUBSET DOMAIN log
      /\ UnpaidOf(log, u) \in SUBSET Records(log, u) /\ ModelOf(log, u) \in SUBSET Records(log, u)
  BY DEF Records, UnpaidOf, ModelOf
<1>2. /\ Records(log, u) \ UnpaidOf(log, u) = PaidOf(log, u)
      /\ Records(log, u) \ ModelOf(log, u) = LooseOf(log, u)
  BY DEF UnpaidOf, ModelOf, PaidOf, LooseOf
<1> QED
  BY <1>1, <1>2, SpentSplit

\* The four figures of a summary, each the sum of a part.
LEMMA FiguresType ==
  ASSUME StoreInv, NEW u
  PROVE  /\ Spend(u) = Spent(usage, Records(usage, u))
         /\ Paid(u) = Spent(usage, PaidOf(usage, u))
         /\ Attributed(u) = Spent(usage, ModelOf(usage, u))
         /\ Unattributed(u) = Spent(usage, LooseOf(usage, u))
         /\ Spend(u) \in Nat /\ Unbilled(u) \in Nat /\ Attributed(u) \in Nat
         /\ Paid(u) = Spend(u) - Unbilled(u) /\ Unattributed(u) = Spend(u) - Attributed(u)
<1>1. usage \in Seq(UsageType)
  BY DEF StoreInv
<1>2. /\ Spend(u) = Spent(usage, Records(usage, u)) /\ Unbilled(u) = Spent(usage, UnpaidOf(usage, u))
      /\ Attributed(u) = Spent(usage, ModelOf(usage, u))
  BY DEF Spend, Unbilled, Attributed, Of, Records, UnpaidOf, ModelOf
<1>3. /\ Paid(u) = Spend(u) - Unbilled(u) /\ Unattributed(u) = Spend(u) - Attributed(u)
  BY DEF Paid, Unattributed
<1> QED
  BY <1>1, <1>2, <1>3, PartsSpent, SpentType

\* The usage is added to, and what was billed stays billed.
UsageGrows ==
  /\ DOMAIN usage \subseteq DOMAIN usage'
  /\ \A i \in DOMAIN usage : /\ usage'[i].user = usage[i].user /\ usage'[i].call = usage[i].call
                             /\ usage'[i].cost = usage[i].cost
                             /\ (usage[i].billed => usage'[i].billed)

\* No figure falls.
LEMMA FiguresGrow ==
  ASSUME StoreInv, StoreInv', UsageGrows, NEW u
  PROVE  /\ Spend(u) <= Spend(u)' /\ Paid(u) <= Paid(u)'
         /\ Attributed(u) <= Attributed(u)' /\ Unattributed(u) <= Unattributed(u)'
<1>1. usage \in Seq(UsageType) /\ usage' \in Seq(UsageType)
  BY DEF StoreInv
<1>2. /\ Spend(u)' = Spent(usage', Records(usage', u)) /\ Unbilled(u)' = Spent(usage', UnpaidOf(usage', u))
      /\ Attributed(u)' = Spent(usage', ModelOf(usage', u))
      /\ Paid(u)' = Spend(u)' - Unbilled(u)' /\ Unattributed(u)' = Spend(u)' - Attributed(u)'
  BY DEF Spend, Unbilled, Attributed, Paid, Unattributed, Of, Records, UnpaidOf, ModelOf
<1>3. Paid(u)' = Spent(usage', PaidOf(usage', u)) /\ Unattributed(u)' = Spent(usage', LooseOf(usage', u))
  BY <1>1, <1>2, PartsSpent
<1>4. /\ Records(usage, u) \subseteq Records(usage', u) /\ PaidOf(usage, u) \subseteq PaidOf(usage', u)
      /\ ModelOf(usage, u) \subseteq ModelOf(usage', u) /\ LooseOf(usage, u) \subseteq LooseOf(usage', u)
  BY DEF UsageGrows, Records, PaidOf, ModelOf, LooseOf
<1>5. ASSUME NEW S \in SUBSET DOMAIN usage, NEW T \in SUBSET DOMAIN usage', S \subseteq T
      PROVE  Spent(usage, S) <= Spent(usage', T)
  BY <1>1, <1>5, SpentGrows DEF UsageGrows
<1>6. /\ {Records(usage, u), PaidOf(usage, u), ModelOf(usage, u), LooseOf(usage, u)}
           \subseteq SUBSET DOMAIN usage
      /\ {Records(usage', u), PaidOf(usage', u), ModelOf(usage', u), LooseOf(usage', u)}
           \subseteq SUBSET DOMAIN usage'
  BY <1>1, PartsSpent
<1>7. /\ Spend(u) = Spent(usage, Records(usage, u)) /\ Paid(u) = Spent(usage, PaidOf(usage, u))
      /\ Attributed(u) = Spent(usage, ModelOf(usage, u)) /\ Unattributed(u) = Spent(usage, LooseOf(usage, u))
  BY FiguresType
<1> QED
  BY <1>2, <1>3, <1>4, <1>5, <1>6, <1>7

\* Every step adds to the usage, bills some of it, or leaves it.
LEMMA StepUsageGrows == TypeInv /\ [Next]_vars => UsageGrows
<1> SUFFICES ASSUME TypeInv, [Next]_vars PROVE UsageGrows
  OBVIOUS
<1>1. \A i \in DOMAIN usage : usage[i] \in UsageType
  BY DEF TypeInv, StoreInv
<1>2. CASE UNCHANGED usage
  BY <1>2 DEF UsageGrows
<1>3. ASSUME NEW p \in Slots, Record(p) PROVE UsageGrows
  BY <1>3, RecordEffect DEF UsageGrows
<1>4. ASSUME NEW p \in Slots, usage' = [usage EXCEPT ![job[p].spend].billed = TRUE] PROVE UsageGrows
  <2> DEFINE i == job[p].spend
  <2>1. DOMAIN usage' = DOMAIN usage /\ \A j \in DOMAIN usage \ {i} : usage'[j] = usage[j]
    BY <1>4 DEF TypeInv, StoreInv
  <2>2. i \in DOMAIN usage => usage'[i] = [usage[i] EXCEPT !.billed = TRUE]
    BY <1>4 DEF TypeInv, StoreInv
  <2>3. \A r \in UsageType : LET s == [r EXCEPT !.billed = TRUE] IN
           s.user = r.user /\ s.call = r.call /\ s.cost = r.cost /\ s.billed
    BY DEF UsageType
  <2> HIDE DEF i
  <2>4. ASSUME NEW j \in DOMAIN usage
        PROVE  /\ usage'[j].user = usage[j].user /\ usage'[j].call = usage[j].call
               /\ usage'[j].cost = usage[j].cost /\ (usage[j].billed => usage'[j].billed)
    <3>1. CASE j = i
      <4>1. usage[j] \in UsageType /\ usage'[j] = [usage[j] EXCEPT !.billed = TRUE]
        BY <1>1, <2>2, <3>1
      <4> QED
        BY <2>3, <4>1
    <3>2. CASE j # i
      BY <2>1, <3>2
    <3> QED
      BY <3>1, <3>2
  <2> QED
    BY <2>1, <2>4 DEF UsageGrows
<1>5. ASSUME NEW p \in Slots, Charge(p) PROVE UsageGrows
  BY <1>2, <1>4, <1>5 DEF Charge
<1>6. CASE UNCHANGED vars
  BY <1>2, <1>6 DEF vars, store
<1>7. ASSUME NEW p \in Slots, Quiet(p) PROVE UsageGrows
  BY <1>2, <1>7, QuietKeeps DEF store
<1>8. ASSUME NEW p \in Slots,
             \/ CreateProject(p) \/ InsertKey(p) \/ StoreMove(p) \/ RevokeKey(p) \/ Detach(p) \/ Drop(p)
             \/ RevokeKeys(p) \/ Anonymise(p) \/ ZeroBalance(p)
      PROVE  UsageGrows
  BY <1>2, <1>8 DEF CreateProject, InsertKey, StoreMove, RevokeKey, Detach, Drop, RevokeKeys, Anonymise,
                    ZeroBalance
<1>9. CASE Tick
  BY <1>2, <1>9 DEF Tick, store
<1> QED
  BY <1>3, <1>5, <1>6, <1>7, <1>8, <1>9 DEF Next, Quiet

\* What a request that puts a summary together has read of its customer.
Reading == {"unbilled", "models", "answered"}
Reads(r) ==
  /\ r.at \in Reading =>
       r.spend \in Int /\ r.before \in Int /\ r.spend <= Spend(r.user) /\ r.before <= Paid(r.user)
  /\ r.at \in {"models", "answered"} =>
       /\ r.paid \in Int /\ r.paid <= Paid(r.user)
       /\ r.before - r.paid <= Spend(r.user) - r.spend
  /\ r.at = "answered" =>
       /\ r.loose \in Int /\ r.loose <= Unattributed(r.user)
       /\ Unattributed(r.user) - r.loose <= Spend(r.user) - r.spend

Summaries == \A p \in Slots : Reads(job[p])

\* Later figures do not take back what it says of them.
LEMMA ReadsStay ==
  ASSUME StoreInv, StoreInv', UsageGrows, NEW r, Reads(r)
  PROVE  Reads(r)'
<1> DEFINE u == r.user
<1>1. /\ Spend(u) <= Spend(u)' /\ Paid(u) <= Paid(u)'
      /\ Attributed(u) <= Attributed(u)' /\ Unattributed(u) <= Unattributed(u)'
  BY FiguresGrow
<1>2. /\ Spend(u) \in Nat /\ Attributed(u) \in Nat /\ Paid(u) \in Int /\ Unattributed(u) \in Int
      /\ Unattributed(u) = Spend(u) - Attributed(u)
  <2>1. /\ Spend(u) \in Nat /\ Attributed(u) \in Nat /\ Unbilled(u) \in Nat
        /\ Unattributed(u) = Spend(u) - Attributed(u) /\ Paid(u) = Spend(u) - Unbilled(u)
    BY FiguresType
  <2> QED
    BY <2>1
<1>3. /\ Spend(u)' \in Nat /\ Attributed(u)' \in Nat /\ Paid(u)' \in Int /\ Unattributed(u)' \in Int
      /\ Unattributed(u)' = Spend(u)' - Attributed(u)'
  <2>1. usage' \in Seq(UsageType)
    BY DEF StoreInv
  <2>2. /\ Spend(u)' = Spent(usage', Records(usage', u)) /\ Unbilled(u)' = Spent(usage', UnpaidOf(usage', u))
        /\ Attributed(u)' = Spent(usage', ModelOf(usage', u))
        /\ Paid(u)' = Spend(u)' - Unbilled(u)' /\ Unattributed(u)' = Spend(u)' - Attributed(u)'
    BY DEF Spend, Unbilled, Attributed, Paid, Unattributed, Of, Records, UnpaidOf, ModelOf
  <2>3. Spend(u)' \in Nat /\ Unbilled(u)' \in Nat /\ Attributed(u)' \in Nat
    BY <2>1, <2>2, PartsSpent, SpentType
  <2> QED
    BY <2>2, <2>3
<1>4. r.at \in Reading => r.spend <= Spend(u)' /\ r.before <= Paid(u)'
  BY <1>1, <1>2, <1>3 DEF Reads
<1>5. r.at \in {"models", "answered"} =>
        r.paid <= Paid(u)' /\ r.before - r.paid <= Spend(u)' - r.spend
  BY <1>1, <1>2, <1>3 DEF Reads, Reading
<1>6. r.at = "answered" =>
        /\ r.loose <= Unattributed(u)'
        /\ Unattributed(u)' - r.loose <= Spend(u)' - r.spend
  <2> SUFFICES ASSUME r.at = "answered"
               PROVE  /\ r.loose <= Unattributed(u)'
                      /\ Unattributed(u)' - r.loose <= Spend(u)' - r.spend
    OBVIOUS
  <2>1. /\ r.spend \in Int /\ r.loose \in Int /\ r.loose <= Unattributed(u)
        /\ Unattributed(u) - r.loose <= Spend(u) - r.spend
    BY DEF Reads, Reading
  <2> QED
    BY <1>1, <1>2, <1>3, <2>1
<1> QED
  BY <1>4, <1>5, <1>6 DEF Reads, Reading

\* A step reads for one request, and the others keep what they read.
LEMMA OneReads ==
  ASSUME StoreInv, StoreInv', UsageGrows, Summaries, JobsHold,
         NEW p \in Slots, NEW next, job' = [job EXCEPT ![p] = next],
         next.at \notin Reading \/ Reads(next)'
  PROVE  Summaries'
<1>1. ASSUME NEW q \in Slots PROVE Reads(job[q])'
  <2>1. CASE q = p
    <3>1. job'[q] = next
      BY <2>1 DEF JobsHold
    <3>2. next.at \notin Reading => Reads(next)'
      BY DEF Reads, Reading
    <3>3. Reads(next)'
      BY <3>2
    <3> QED
      BY <3>1, <3>3 DEF Reads
  <2>2. CASE q # p
    <3>1. job'[q] = job[q]
      BY <2>2 DEF JobsHold
    <3>2. PICK r : r = job[q]
      OBVIOUS
    <3>3. Reads(r)
      BY <3>2 DEF Summaries
    <3>4. Reads(r)'
      BY <3>3, ReadsStay
    <3> QED
      BY <3>1, <3>2, <3>4 DEF Reads
  <2> QED
    BY <2>1, <2>2
<1> QED
  BY <1>1 DEF Summaries

\* The three reads, each bounded by what the next one finds.
LEMMA StepSummaries == TypeInv /\ TypeInv' /\ Summaries /\ [Next]_vars => Summaries'
<1> SUFFICES ASSUME TypeInv, TypeInv', Summaries, [Next]_vars PROVE Summaries'
  OBVIOUS
<1>1. StoreInv /\ StoreInv' /\ JobsHold /\ UsageGrows
  BY StepUsageGrows DEF TypeInv
<1>2. ASSUME NEW p \in Slots, NEW next, job' = [job EXCEPT ![p] = next],
             next.at \notin Reading \/ Reads(next)'
      PROVE  Summaries'
  BY <1>1, <1>2, OneReads
<1>3. ASSUME UNCHANGED job PROVE Summaries'
  <2> SUFFICES ASSUME NEW p \in Slots PROVE Reads(job[p])'
    BY DEF Summaries
  <2>1. PICK r : r = job[p]
    OBVIOUS
  <2>2. Reads(r)'
    BY <1>1, <2>1, ReadsStay DEF Summaries
  <2> QED
    BY <1>3, <2>1, <2>2 DEF Reads
<1>4. ASSUME NEW p \in Slots, Done(p) PROVE Summaries'
  BY <1>2, <1>4 DEF Done, Idle, Reading
<1>5. ASSUME NEW p \in Slots, NEW l \in Labels \ Reading, Goto(p, l) PROVE Summaries'
  BY <1>1, <1>2, <1>5, GotoHolds
<1>6. ASSUME NEW p \in Slots, Summarise(p) PROVE Summaries'
  <2> DEFINE Asked(v) == [Idle EXCEPT !.at = "unbilled", !.user = v, !.spend = Spend(v), !.before = Paid(v)]
  <2>0. \E v \in SignedIn : Begin(p, Asked(v))
    BY <1>6, Zenon DEF Summarise
  <2>1. PICK u \in SignedIn : Begin(p, Asked(u))
    BY <2>0
  <2>2. PICK next : next = Asked(u)
    OBVIOUS
  <2>3. next.at = "unbilled" /\ next.user = u /\ next.spend = Spend(u) /\ next.before = Paid(u)
    BY <2>2 DEF Idle
  <2>4. Spend(u) \in Int /\ Paid(u) \in Int
    <3>1. Spend(u) \in Nat /\ Unbilled(u) \in Nat /\ Paid(u) = Spend(u) - Unbilled(u)
      BY <1>1, FiguresType
    <3> QED
      BY <3>1
  <2>5. Reads(next)
    BY <2>3, <2>4 DEF Reads
  <2>6. Reads(next)'
    BY <1>1, <2>5, ReadsStay
  <2> QED
    BY <1>2, <2>1, <2>2, <2>6 DEF Begin
<1>7. ASSUME NEW p \in Slots, ReadUnbilled(p) PROVE Summaries'
  <2> DEFINE u == job[p].user
  <2>1. PICK next : next = [job[p] EXCEPT !.at = "models", !.paid = Billed(p)]
    OBVIOUS
  <2>2. job' = [job EXCEPT ![p] = next]
    BY <1>1, <1>7, <2>1 DEF ReadUnbilled, JobsHold
  <2>3. /\ next.at = "models" /\ next.user = u /\ next.spend = job[p].spend
        /\ next.before = job[p].before /\ next.paid = job[p].spend - Unbilled(u)
    BY <1>1, <2>1 DEF JobsHold, Holds, Fields, Billed
  <2>4. /\ job[p].spend \in Int /\ job[p].spend <= Spend(u)
        /\ job[p].before \in Int /\ job[p].before <= Paid(u)
    BY <1>7 DEF ReadUnbilled, At, Summaries, Reads, Reading
  <2>5. Spend(u) \in Nat /\ Unbilled(u) \in Nat /\ Paid(u) = Spend(u) - Unbilled(u)
    BY <1>1, FiguresType
  <2> HIDE DEF u
  <2>6. next.paid \in Int /\ next.paid <= Paid(u)
    BY <2>3, <2>4, <2>5
  <2>7. next.before - next.paid <= Spend(u) - next.spend
    BY <2>3, <2>4, <2>5
  <2>8. Reads(next)
    BY <2>3, <2>4, <2>6, <2>7 DEF Reads
  <2>9. Reads(next)'
    BY <1>1, <2>8, ReadsStay
  <2> QED
    BY <1>2, <2>2, <2>9
<1>8. ASSUME NEW p \in Slots, Answer(p) PROVE Summaries'
  <2> DEFINE u == job[p].user
  <2>1. PICK next : next = [job[p] EXCEPT !.at = "answered", !.loose = job[p].spend - Attributed(u)]
    OBVIOUS
  <2>2. job' = [job EXCEPT ![p] = next]
    BY <1>1, <1>8, <2>1 DEF Answer, JobsHold
  <2>3. /\ next.at = "answered" /\ next.user = u /\ next.spend = job[p].spend
        /\ next.paid = job[p].paid /\ next.before = job[p].before
        /\ next.loose = job[p].spend - Attributed(u)
    BY <1>1, <2>1 DEF JobsHold, Holds, Fields
  <2>4. /\ job[p].spend \in Int /\ job[p].spend <= Spend(u)
        /\ job[p].before \in Int /\ job[p].before <= Paid(u)
        /\ job[p].paid \in Int /\ job[p].paid <= Paid(u)
        /\ job[p].before - job[p].paid <= Spend(u) - job[p].spend
    BY <1>8 DEF Answer, At, Summaries, Reads, Reading
  <2>5. Spend(u) \in Nat /\ Attributed(u) \in Nat /\ Unattributed(u) = Spend(u) - Attributed(u)
    BY <1>1, FiguresType
  <2> HIDE DEF u
  <2>6. /\ next.loose \in Int /\ next.loose <= Unattributed(u)
        /\ Unattributed(u) - next.loose <= Spend(u) - next.spend
    BY <2>3, <2>4, <2>5
  <2>7. Reads(next)
    BY <2>3, <2>4, <2>6 DEF Reads
  <2>8. Reads(next)'
    BY <1>1, <2>7, ReadsStay
  <2> QED
    BY <1>2, <2>2, <2>8
<1>9. ASSUME NEW p \in Slots,
             CreateKey(p) \/ MoveKey(p) \/ DeleteProject(p) \/ UseKey(p) \/ UseSession(p) \/ CloseAccount(p)
      PROVE  Summaries'
  <2>1. ASSUME NEW next, Begin(p, next), next.at \notin Reading PROVE Summaries'
    BY <1>2, <2>1 DEF Begin
  <2>2. CASE CreateKey(p)
    BY <2>1, <2>2 DEF CreateKey, Idle, Reading
  <2>3. CASE MoveKey(p)
    BY <2>1, <2>3 DEF MoveKey, Idle, Reading
  <2>4. CASE DeleteProject(p)
    BY <2>1, <2>4 DEF DeleteProject, Idle, Reading
  <2>5. CASE UseKey(p)
    BY <2>1, <2>5 DEF UseKey, Idle, Reading
  <2>6. CASE UseSession(p)
    BY <2>1, <2>6 DEF UseSession, Idle, Reading
  <2>7. CASE CloseAccount(p)
    BY <2>1, <2>7 DEF CloseAccount, Idle, Reading
  <2> QED
    BY <1>9, <2>2, <2>3, <2>4, <2>5, <2>6, <2>7
<1>10. ASSUME NEW p \in Slots, Record(p) PROVE Summaries'
  <2>1. PICK next : next = [job[p] EXCEPT !.at = "charge", !.spend = Len(usage) + 1]
    OBVIOUS
  <2>2. job' = [job EXCEPT ![p] = next]
    BY <1>1, <1>10, <2>1 DEF Record, JobsHold
  <2>3. next.at = "charge"
    BY <1>1, <2>1 DEF JobsHold, Holds, Fields
  <2> QED
    BY <1>2, <2>2, <2>3 DEF Reading
<1>11. ASSUME NEW p \in Slots,
              InsertKey(p) \/ StoreMove(p) \/ Drop(p) \/ Charge(p) \/ Leave(p) \/ ZeroBalance(p) \/ Die(p)
       PROVE  Summaries'
  BY <1>4, <1>11 DEF InsertKey, StoreMove, Drop, Charge, Leave, ZeroBalance, Die
<1>12. ASSUME NEW p \in Slots, Detach(p) \/ RevokeKeys(p) \/ Anonymise(p) PROVE Summaries'
  BY <1>5, <1>12 DEF Detach, RevokeKeys, Anonymise, Labels, Reading
<1>13. ASSUME NEW p \in Slots, CreateProject(p) \/ RevokeKey(p) PROVE Summaries'
  BY <1>3, <1>13 DEF CreateProject, RevokeKey
<1>14. CASE Tick \/ UNCHANGED vars
  BY <1>3, <1>14 DEF Tick, vars
<1> QED
  BY <1>6, <1>7, <1>8, <1>9, <1>10, <1>11, <1>12, <1>13, <1>14 DEF Next

(* However many calls are recorded and charged while a summary is put        *)
(* together, what it says was paid never exceeds what was, and is less than  *)
(* what had been paid when it began by no more than was spent since. What it *)
(* says no model accounts for was recorded without one, all but as much.     *)
THEOREM SummaryIsNeverAbove == Spec => []SummaryNeverOverstates
<1>1. Init => Summaries
  BY DEF Init, Summaries, Reads, Reading, Idle
<1>2. IInv /\ Summaries => SummaryNeverOverstates
  BY DEF Summaries, Reads, Reading, SummaryNeverOverstates, At
<1>3. IInv /\ IInv' /\ Summaries /\ [Next]_vars => Summaries'
  BY StepSummaries DEF IInv
<1> QED
  BY <1>1, <1>2, <1>3, Invariant, PTL DEF Spec

------------------------------------------------------------------------------
(* The price. A call is rounded once, so it is off by half the last decimal; *)
(* the calls of one service and model are rounded to the same denominator,   *)
(* so what they come to is off by as many halves as there are calls.         *)

\* What is left over of a division.
LEMMA Division ==
  ASSUME NEW a \in Nat, NEW b \in Nat \ {0}
  PROVE  /\ a \div b \in Nat
         /\ b * (a \div b) <= a /\ a < b * (a \div b) + b
OBVIOUS

\* Rounding half-up is off by half the denominator at most.
LEMMA QuantizeIsNear ==
  ASSUME NEW n \in Nat, NEW d \in Nat \ {0}
  PROVE  2 * (Quantize(n, d) * d - n) <= d /\ -(2 * (Quantize(n, d) * d - n)) <= d
<1> DEFINE q == (2 * n + d) \div (2 * d)
<1>1. 2 * n + d \in Nat /\ 2 * d \in Nat \ {0}
  OBVIOUS
<1>2. q \in Nat /\ (2 * d) * q <= 2 * n + d /\ 2 * n + d < (2 * d) * q + 2 * d
  BY <1>1, Division
<1> HIDE DEF q
<1>3. (2 * d) * q = 2 * (q * d) /\ q * d \in Int
  BY <1>2
<1> QED
  BY <1>2, <1>3 DEF Quantize, q

\* A record's cost is the price of its call.
CostsFollow == \A i \in DOMAIN usage : usage[i].cost = Cost(usage[i].call)

\* A record is priced once, and keeps its price.
LEMMA StepCostsFollow == TypeInv /\ CostsFollow /\ [Next]_vars => CostsFollow'
<1> SUFFICES ASSUME TypeInv, CostsFollow, [Next]_vars PROVE CostsFollow'
  OBVIOUS
<1>1. CASE UNCHANGED usage
  BY <1>1 DEF CostsFollow
<1>2. ASSUME NEW p \in Slots, Record(p) PROVE CostsFollow'
  <2> DEFINE n == Len(usage) + 1
  <2>1. /\ DOMAIN usage' = DOMAIN usage \cup {n} /\ \A i \in DOMAIN usage : usage'[i] = usage[i]
        /\ usage'[n].cost = Cost(usage'[n].call)
    BY <1>2, RecordEffect
  <2> HIDE DEF n
  <2>2. ASSUME NEW i \in DOMAIN usage' PROVE usage'[i].cost = Cost(usage'[i].call)
    BY <2>1 DEF CostsFollow
  <2> QED
    BY <2>2 DEF CostsFollow
<1>3. ASSUME NEW p \in Slots, Charge(p) PROVE CostsFollow'
  <2>1. UsageGrows
    BY StepUsageGrows
  <2>2. DOMAIN usage' = DOMAIN usage
    BY <1>3 DEF Charge
  <2>3. ASSUME NEW i \in DOMAIN usage' PROVE usage'[i].cost = Cost(usage'[i].call)
    BY <2>1, <2>2 DEF UsageGrows, CostsFollow
  <2> QED
    BY <2>3 DEF CostsFollow
<1>4. CASE UNCHANGED vars
  BY <1>1, <1>4 DEF vars, store
<1>5. ASSUME NEW p \in Slots, Quiet(p) PROVE CostsFollow'
  BY <1>1, <1>5, QuietKeeps DEF store
<1>6. ASSUME NEW p \in Slots,
             \/ CreateProject(p) \/ InsertKey(p) \/ StoreMove(p) \/ RevokeKey(p) \/ Detach(p) \/ Drop(p)
             \/ RevokeKeys(p) \/ Anonymise(p) \/ ZeroBalance(p)
      PROVE  CostsFollow'
  BY <1>1, <1>6 DEF CreateProject, InsertKey, StoreMove, RevokeKey, Detach, Drop, RevokeKeys, Anonymise,
                    ZeroBalance
<1>7. CASE Tick
  BY <1>1, <1>7 DEF Tick, store
<1> QED
  BY <1>2, <1>3, <1>4, <1>5, <1>6, <1>7 DEF Next, Quiet

\* Calls of one service and model are rounded to the same denominator, each
\* within half of it.
LEMMA CallIsFair ==
  ASSUME NEW c \in Calls, NEW d \in Calls, d.service = c.service, d.model = c.model
  PROVE  /\ Cost(d) \in Nat /\ Due(d) \in Nat /\ Per(c) \in Nat
         /\ 2 * (Cost(d) * Per(c) - Due(d)) <= Per(c) /\ -(2 * (Cost(d) * Per(c) - Due(d))) <= Per(c)
<1>1. Per(d) = Per(c)
  BY DEF Per
<1>2. Due(d) \in Nat /\ Per(c) \in Nat \ {0} /\ Cost(d) \in Nat
  BY DueIsNat, CostIsNat
<1>3. Cost(d) = Quantize(Due(d), Per(c))
  BY <1>1 DEF Cost
<1> QED
  BY <1>2, <1>3, QuantizeIsNear

(* Rounding does not add up against anyone: for every price list, and        *)
(* however many calls a customer makes, what they were charged for a service *)
(* is the price of all they used, but for half the last decimal a call.      *)
THEOREM ChargesStayFair == Spec => []SpendIsFair
<1>1. Init => CostsFollow
  BY DEF Init, CostsFollow
<1>2. IInv /\ CostsFollow => SpendIsFair
  <2> SUFFICES ASSUME StoreInv, CostsFollow, NEW u \in Users, NEW c \in Calls
               PROVE  LET S == {i \in Of(u) : usage[i].call.service = c.service /\ usage[i].call.model = c.model}
                          exact == SumFunctionOnSet([i \in S |-> Due(usage[i].call)], S)
                          off == 2 * (Spent(usage, S) * Per(c) - exact)
                          bound == Cardinality(S) * Per(c) IN
                      off <= bound /\ -off <= bound
    BY DEF IInv, TypeInv, SpendIsFair
  <2> DEFINE S == {i \in Of(u) : usage[i].call.service = c.service /\ usage[i].call.model = c.model}
             f == [i \in S |-> usage[i].cost]
             g == [i \in S |-> Due(usage[i].call)]
  <2>1. usage \in Seq(UsageType) /\ S \in SUBSET DOMAIN usage
    BY DEF StoreInv, Of
  <2>2. IsFiniteSet(S) /\ \A i \in S : usage[i] \in UsageType
    BY <2>1, LogType
  <2>3. ASSUME NEW i \in S
        PROVE  /\ f[i] \in Int /\ g[i] \in Int /\ Per(c) \in Nat
               /\ 2 * (f[i] * Per(c) - g[i]) <= Per(c) /\ -(2 * (f[i] * Per(c) - g[i])) <= Per(c)
    <3> DEFINE d == usage[i].call
    <3>1. d \in Calls /\ d.service = c.service /\ d.model = c.model
      BY <2>2 DEF UsageType
    <3>2. f[i] = Cost(d) /\ g[i] = Due(d)
      BY <2>1 DEF CostsFollow
    <3> HIDE DEF d, f, g
    <3> QED
      BY <3>1, <3>2, CallIsFair
  <2>4. Per(c) \in Nat
    BY DueIsNat
  <2> HIDE DEF f, g, S
  <2>5. LET off == 2 * (SumFunctionOnSet(f, S) * Per(c) - SumFunctionOnSet(g, S)) IN
        off <= Cardinality(S) * Per(c) /\ -off <= Cardinality(S) * Per(c)
    BY <2>2, <2>3, <2>4, SumOff
  <2> QED
    BY <2>5 DEF Spent, f, g, S
<1>3. IInv /\ CostsFollow /\ [Next]_vars => CostsFollow'
  BY StepCostsFollow DEF IInv
<1> QED
  BY <1>1, <1>2, <1>3, Invariant, PTL DEF Spec

------------------------------------------------------------------------------
(* The views. What each of them shows is so of every log, and of every       *)
(* calendar whose months have twenty-eight to thirty-one days.               *)

\* An instant of a range is in a bucket from that of its start to that of its end.
LEMMA TruncateIsLabelled ==
  ASSUME NEW g \in DOMAIN Step, NEW from \in Int, NEW to \in Int, NEW t \in Int,
         Truncate(from, g) <= t, t <= to
  PROVE  Labelled(Truncate(t, g), from, to, g)
<1>1. Step[g] \in {1, 60, 1440}
  BY DEF Step, Day, Hour
<1>2. ASSUME NEW n \in {1, 60, 1440}, from - (from % n) <= t
      PROVE  /\ from - (from % n) <= t - (t % n) /\ t - (t % n) <= to - (to % n)
             /\ ((t - (t % n)) - (from - (from % n))) % n = 0
  <2>1. CASE n = 1
    BY <1>2, <2>1
  <2>2. CASE n = 60
    BY <1>2, <2>2
  <2>3. CASE n = 1440
    BY <1>2, <2>3
  <2> QED
    BY <2>1, <2>2, <2>3
<1> QED
  BY <1>1, <1>2 DEF Truncate, Labelled

\* So the chart shows everything in its range.
LEMMA ChartIsWhole ==
  ASSUME NEW log, \A i \in DOMAIN log : log[i].at \in Int,
         NEW from \in Int, NEW to \in Int, NEW g \in DOMAIN Step
  PROVE  Charted(log, from, to, g) = Matched(log, from, to, g)
BY TruncateIsLabelled DEF Charted, Matched

\* The overview's two periods are next to each other.
LEMMA PeriodsMeet ==
  ASSUME NEW log, \A i \in DOMAIN log : log[i].at \in Int, NEW t \in Int, NEW days \in Nat
  PROVE  /\ Current(log, t, days) \cap Previous(log, t, days) = {}
         /\ Current(log, t, days) \cup Previous(log, t, days) = During(log, t - 2 * days * Day, t)
<1>1. 2 * days * Day = 2 * (days * Day) /\ days * Day \in Nat
  BY DEF Day, Hour
<1> QED
  BY <1>1 DEF Current, Previous, During

\* The recursion of the calendar has a solution, by induction on its months.
LEMMA FirstDays ==
  /\ Len(MonthDays) \in Nat \ {0} /\ FirstDay[1] = 0
  /\ \A m \in 1..Len(MonthDays) : /\ FirstDay[m + 1] = FirstDay[m] + Day * MonthDays[m]
                                 /\ MonthDays[m] \in 28..31
<1> DEFINE L == Len(MonthDays)
           First(f, m) == IF m = 1 THEN 0 ELSE f[m - 1] + Day * MonthDays[m - 1]
           T == {n \in Nat : \E f : f = [m \in 1..(n + 1) |-> First(f, m)]}
<1>1. L \in Nat \ {0} /\ \A m \in 1..L : MonthDays[m] \in 28..31
  BY CalendarAssumption
<1>2. 0 \in T
  <2> DEFINE f == [m \in 1..(0 + 1) |-> 0]
  <2>1. f = [m \in 1..(0 + 1) |-> First(f, m)]
    OBVIOUS
  <2> QED
    BY <2>1
<1>3. ASSUME NEW n \in T PROVE n + 1 \in T
  <2>1. PICK f : f = [m \in 1..(n + 1) |-> First(f, m)]
    OBVIOUS
  <2> DEFINE h == [m \in 1..((n + 1) + 1) |-> First(f, m)]
  <2>2. \A m \in 1..(n + 1) : h[m] = f[m]
    BY <2>1
  <2>3. \A m \in 1..((n + 1) + 1) : m # 1 => m - 1 \in 1..(n + 1)
    OBVIOUS
  <2>4. \A m \in 1..((n + 1) + 1) : First(f, m) = First(h, m)
    BY <2>2, <2>3
  <2>5. h = [m \in 1..((n + 1) + 1) |-> First(h, m)]
    BY <2>4
  <2> HIDE DEF h
  <2> QED
    BY <2>5
<1> HIDE DEF T
<1>4. T = Nat
  BY <1>2, <1>3, Induction DEF T
<1>5. \E f : f = [m \in 1..(L + 1) |-> First(f, m)]
  BY <1>1, <1>4 DEF T
<1>6. FirstDay = [m \in 1..(L + 1) |-> First(FirstDay, m)]
  BY <1>5 DEF FirstDay
<1>7. \A m \in 1..(L + 1) : FirstDay[m] = First(FirstDay, m)
  BY <1>6
<1>8. FirstDay[1] = 0
  BY <1>1, <1>7
<1>9. ASSUME NEW m \in 1..L PROVE FirstDay[m + 1] = FirstDay[m] + Day * MonthDays[m]
  <2>1. m + 1 \in 1..(L + 1) /\ m + 1 # 1 /\ (m + 1) - 1 = m
    BY <1>1
  <2> QED
    BY <1>7, <2>1
<1> QED
  BY <1>1, <1>8, <1>9

\* Months begin one after another.
LEMMA FirstDaysGrow ==
  /\ \A m \in 1..(Len(MonthDays) + 1) : FirstDay[m] \in Nat
  /\ \A n \in 1..(Len(MonthDays) + 1) : \A m \in 1..n : FirstDay[m] <= FirstDay[n]
<1> DEFINE L == Len(MonthDays)
           Grown(k) == \A m \in 1..k : FirstDay[m] \in Nat /\ FirstDay[m] <= FirstDay[k]
           T == {n \in Nat : n + 1 <= L + 1 => Grown(n + 1)}
<1>1. L \in Nat \ {0} /\ \A m \in 1..L : MonthDays[m] \in 28..31
  BY FirstDays
<1>2. 0 \in T
  BY FirstDays
<1>3. ASSUME NEW n \in T PROVE n + 1 \in T
  <2> DEFINE k == n + 1
  <2> SUFFICES ASSUME k + 1 <= L + 1 PROVE Grown(k + 1)
    OBVIOUS
  <2>1. Grown(k) /\ k \in 1..L /\ k \in 1..k
    BY <1>1
  <2>2. FirstDay[k + 1] = FirstDay[k] + Day * MonthDays[k] /\ MonthDays[k] \in 28..31
    BY <2>1, FirstDays
  <2>3. FirstDay[k] \in Nat /\ Day = 1440
    BY <2>1 DEF Day, Hour
  <2> HIDE DEF k
  <2>4. FirstDay[k + 1] \in Nat /\ FirstDay[k] <= FirstDay[k + 1]
    BY <2>2, <2>3
  <2>5. ASSUME NEW m \in 1..(k + 1) PROVE FirstDay[m] \in Nat /\ FirstDay[m] <= FirstDay[k + 1]
    <3>1. CASE m = k + 1
      BY <2>4, <3>1
    <3>2. CASE m \in 1..k
      <4>1. FirstDay[m] \in Nat /\ FirstDay[m] <= FirstDay[k]
        BY <2>1, <3>2
      <4> QED
        BY <2>3, <2>4, <4>1
    <3> QED
      BY <2>1, <3>1, <3>2
  <2> QED
    BY <2>5
<1> HIDE DEF T, Grown
<1>4. T = Nat
  BY <1>2, <1>3, Induction DEF T
<1>5. ASSUME NEW n \in 1..(L + 1) PROVE Grown(n)
  <2>1. n - 1 \in T /\ (n - 1) + 1 = n /\ n <= L + 1
    BY <1>1, <1>4
  <2> QED
    BY <2>1 DEF T
<1> QED
  BY <1>5 DEF Grown

\* Every instant before the end of the calendar is in one of its months.
LEMMA MonthExists ==
  ASSUME NEW n \in 1..Len(MonthDays), NEW t \in Nat, t < FirstDay[n + 1]
  PROVE  \E m \in 1..n : FirstDay[m] <= t /\ t < FirstDay[m + 1]
<1> DEFINE L == Len(MonthDays)
           In(k) == \E m \in 1..k : FirstDay[m] <= t /\ t < FirstDay[m + 1]
           T == {k \in Nat : k + 1 <= L /\ t < FirstDay[(k + 1) + 1] => In(k + 1)}
<1>1. L \in Nat \ {0} /\ FirstDay[1] = 0 /\ \A m \in 1..(L + 1) : FirstDay[m] \in Nat
  BY FirstDays, FirstDaysGrow
<1>2. 0 \in T
  BY <1>1
<1>3. ASSUME NEW k \in T PROVE k + 1 \in T
  <2> SUFFICES ASSUME (k + 1) + 1 <= L, t < FirstDay[((k + 1) + 1) + 1] PROVE In((k + 1) + 1)
    OBVIOUS
  <2> DEFINE j == (k + 1) + 1
  <2>1. j \in 1..L /\ k + 1 <= L /\ FirstDay[j] \in Nat /\ 1..(k + 1) \subseteq 1..j /\ j \in 1..j
    BY <1>1
  <2>2. CASE t < FirstDay[j]
    <3>1. In(k + 1)
      BY <2>1, <2>2
    <3> HIDE DEF j
    <3> QED
      BY <2>1, <3>1
  <2>3. CASE FirstDay[j] <= t
    BY <2>1, <2>3
  <2> QED
    BY <2>1, <2>2, <2>3
<1> HIDE DEF T, In
<1>4. T = Nat
  BY <1>2, <1>3, Induction DEF T
<1>5. n - 1 \in T /\ (n - 1) + 1 = n /\ n <= L
  BY <1>1, <1>4
<1>6. In(n)
  BY <1>5 DEF T
<1> QED
  BY <1>6 DEF In

\* It is in no other.
LEMMA MonthIs ==
  ASSUME NEW m \in 1..Len(MonthDays), NEW t \in Int, FirstDay[m] <= t, t < FirstDay[m + 1]
  PROVE  MonthOf(t) = m /\ MonthStart(t) = FirstDay[m]
<1> DEFINE L == Len(MonthDays)
<1>1. L \in Nat /\ \A k \in 1..(L + 1) : FirstDay[k] \in Nat
  BY FirstDays, FirstDaysGrow
<1>2. ASSUME NEW k \in 1..L, FirstDay[k] <= t, t < FirstDay[k + 1] PROVE k = m
  <2>1. CASE k < m
    <3>1. FirstDay[k + 1] <= FirstDay[m]
      <4>1. k + 1 \in 1..m /\ m \in 1..(L + 1)
        BY <1>1, <2>1
      <4> QED
        BY <4>1, FirstDaysGrow
    <3>2. FirstDay[k + 1] \in Nat /\ FirstDay[m] \in Nat
      BY <1>1
    <3> QED
      BY <1>2, <3>1, <3>2
  <2>2. CASE m < k
    <3>1. FirstDay[m + 1] <= FirstDay[k]
      <4>1. m + 1 \in 1..k /\ k \in 1..(L + 1)
        BY <1>1, <2>2
      <4> QED
        BY <4>1, FirstDaysGrow
    <3>2. FirstDay[m + 1] \in Nat /\ FirstDay[k] \in Nat
      BY <1>1
    <3> QED
      BY <1>2, <3>1, <3>2
  <2> QED
    BY <1>1, <2>1, <2>2
<1> QED
  BY <1>2 DEF MonthOf, MonthStart

\* From the first of a month the jump of thirty-two days ends in the next one,
\* and a day before the next is the month.
LEMMA MonthsFollow ==
  ASSUME NEW m \in 1..(Len(MonthDays) - 1)
  PROVE  Following(FirstDay[m]) = FirstDay[m + 1] /\ PreviousMonth(FirstDay[m + 1]) = FirstDay[m]
<1> DEFINE a == FirstDay[m]
           b == FirstDay[m + 1]
           c == FirstDay[(m + 1) + 1]
<1>1. Len(MonthDays) \in Nat /\ m \in 1..Len(MonthDays) /\ m + 1 \in 1..Len(MonthDays)
  BY FirstDays
<1>2. /\ a \in Nat /\ b = a + Day * MonthDays[m] /\ c = b + Day * MonthDays[m + 1]
      /\ MonthDays[m] \in 28..31 /\ MonthDays[m + 1] \in 28..31
  BY <1>1, FirstDays, FirstDaysGrow
<1> HIDE DEF a, b, c
<1>3. /\ b <= a + 32 * Day /\ a + 32 * Day < c /\ a + 32 * Day \in Int
      /\ a <= b - Day /\ b - Day < b /\ b - Day \in Int
  <2>1. PICK d \in 28..31, e \in 28..31 : b = a + Day * d /\ c = b + Day * e
    BY <1>2
  <2>2. Day = 1440
    BY DEF Day, Hour
  <2>3. a \in Nat /\ b = a + 1440 * d /\ c = b + 1440 * e
    BY <1>2, <2>1, <2>2
  <2>4. 32 * Day = 46080
    BY <2>2
  <2> QED
    BY <2>2, <2>3, <2>4
<1>4. MonthStart(a + 32 * Day) = b
  BY <1>1, <1>3, MonthIs DEF b, c
<1>5. MonthStart(b - Day) = a
  BY <1>1, <1>3, MonthIs DEF a, b
<1> QED
  BY <1>4, <1>5 DEF Following, PreviousMonth, a, b

\* A record is in the report of its month, which the next one compares itself
\* with, for as long as the calendar goes on.
LEMMA ReportsMeet ==
  ASSUME NEW log, NEW i \in DOMAIN log, log[i].at \in Nat, log[i].at < FirstDay[Len(MonthDays)]
  PROVE  LET start == MonthStart(log[i].at) IN
         /\ i \in Report(log, start).current
         /\ Report(log, Following(start)).previous = Report(log, start).current
<1> DEFINE L == Len(MonthDays)
           t == log[i].at
           start == MonthStart(t)
<1>1. L \in Nat \ {0} /\ FirstDay[1] = 0
  BY FirstDays
<1>2. L # 1
  <2> SUFFICES ASSUME L = 1 PROVE FALSE
    OBVIOUS
  <2>1. FirstDay[L] = 0
    BY <1>1
  <2> QED
    BY <2>1
<1>3. L - 1 \in 1..L /\ (L - 1) + 1 = L
  BY <1>1, <1>2
<1>4. PICK m \in 1..(L - 1) : FirstDay[m] <= t /\ t < FirstDay[m + 1]
  BY <1>3, MonthExists
<1>5. start = FirstDay[m]
  <2>1. m \in 1..L /\ t \in Int
    BY <1>1
  <2> HIDE DEF t
  <2> QED
    BY <1>4, <2>1, MonthIs DEF start
<1>6. Following(start) = FirstDay[m + 1] /\ PreviousMonth(Following(start)) = start
  BY <1>5, MonthsFollow
<1> QED
  BY <1>4, <1>5, <1>6 DEF Report, During

\* What some of the records have consumed, as a sum over more of them.
LEMMA ConsumedOf ==
  ASSUME NEW log, NEW S, IsFiniteSet(S), \A i \in S : log[i].call.consumed \in Nat, NEW A \in SUBSET S
  PROVE  Consumed(log, A) = SumFunctionOnSet([i \in S |-> log[i].call.consumed], A)
<1> DEFINE f == [i \in S |-> log[i].call.consumed]
           h == [i \in A |-> log[i].call.consumed]
<1>1. IsFiniteSet(A) /\ \A i \in A : h[i] = f[i]
  BY FS_Subset
<1> HIDE DEF f, h
<1>2. SumFunctionOnSet(h, A) = SumFunctionOnSet(f, A)
  BY <1>1, SumAgrees
<1> QED
  BY <1>2 DEF Consumed, f, h

\* The records of S of an engine and in some of its groups, the groups of a
\* provider, and what each provider has served.
OfEngine(log, S, e) == {i \in S : log[i].call.engine = e}
InRows(log, S, rows) == {i \in S : RowOf(log[i]) \in rows}
Share(log, S, e, q) == {row \in Rows(log, S, e) : row.provider = q}
Served(log, S, e, providers) == [q \in providers |-> ByProvider(log, S, e, q)]

\* Groups by account and provider come to what their records do.
LEMMA GroupsAddUp ==
  ASSUME NEW log, NEW S, IsFiniteSet(S), \A i \in S : log[i].call.consumed \in Nat,
         NEW rows, IsFiniteSet(rows)
  PROVE  GroupSums(log, S, rows) = Consumed(log, InRows(log, S, rows))
<1> DEFINE f == [i \in S |-> log[i].call.consumed]
           kind == [i \in S |-> RowOf(log[i])]
           g == [row \in rows |-> Consumed(log, Group(log, S, row))]
<1>1. \A i \in S : f[i] \in Int
  OBVIOUS
<1>2. ASSUME NEW row \in rows PROVE g[row] = SumFunctionOnSet(f, OfKinds(S, kind, {row}))
  <2>1. Group(log, S, row) \in SUBSET S /\ Group(log, S, row) = OfKinds(S, kind, {row})
    BY DEF Group, OfKinds
  <2>2. Consumed(log, Group(log, S, row)) = SumFunctionOnSet(f, Group(log, S, row))
    BY <2>1, ConsumedOf
  <2> QED
    BY <2>1, <2>2
<1>3. OfKinds(S, kind, rows) = InRows(log, S, rows) /\ InRows(log, S, rows) \in SUBSET S
  BY DEF OfKinds, InRows
<1>4. Consumed(log, InRows(log, S, rows)) = SumFunctionOnSet(f, InRows(log, S, rows))
  BY <1>3, ConsumedOf
<1> HIDE DEF f, g, kind
<1>5. SumFunctionOnSet(g, rows) = SumFunctionOnSet(f, OfKinds(S, kind, rows))
  BY <1>1, <1>2, SumByKind, SMTT(60)
<1> QED
  BY <1>3, <1>4, <1>5 DEF GroupSums, g

\* The rows of an engine are few.
LEMMA RowsFinite ==
  ASSUME NEW log, NEW S, IsFiniteSet(S), NEW e
  PROVE  IsFiniteSet(Rows(log, S, e)) /\ \A q : IsFiniteSet(Share(log, S, e, q))
<1> DEFINE kind == [i \in S |-> RowOf(log[i])]
           All == {kind[i] : i \in S}
<1>1. All = {RowOf(log[i]) : i \in S}
  OBVIOUS
<1> HIDE DEF kind
<1>2. IsFiniteSet(All)
  BY FiniteImage
<1>3. Rows(log, S, e) \in SUBSET All /\ \A q : Share(log, S, e, q) \in SUBSET All
  BY <1>1 DEF Rows, Share
<1> HIDE DEF All
<1> QED
  BY <1>2, <1>3, FS_Subset

\* An engine's total is what its calls consumed, and its providers' share it.
LEMMA EnginesAddUp ==
  ASSUME NEW log, NEW S, IsFiniteSet(S), \A i \in S : log[i].call.consumed \in Nat,
         NEW e, NEW providers, IsFiniteSet(providers), \A i \in S : log[i].call.provider \in providers
  PROVE  /\ EngineTotal(log, S, e) = Consumed(log, OfEngine(log, S, e))
         /\ SumFunctionOnSet(Served(log, S, e, providers), providers) = Consumed(log, OfEngine(log, S, e))
<1> DEFINE A == {i \in S : log[i].call.engine = e}
           f == [i \in S |-> log[i].call.consumed]
           kind == [i \in S |-> log[i].call.provider]
           g == [q \in providers |-> ByProvider(log, S, e, q)]
<1>1. A \in SUBSET S /\ IsFiniteSet(A) /\ Consumed(log, A) = SumFunctionOnSet(f, A)
  <2>1. A \in SUBSET S
    OBVIOUS
  <2> HIDE DEF A
  <2> QED
    BY <2>1, ConsumedOf, FS_Subset
<1>2. EngineTotal(log, S, e) = Consumed(log, A)
  <2>1. InRows(log, S, Rows(log, S, e)) = A
    BY DEF InRows, Rows, RowOf
  <2>2. GroupSums(log, S, Rows(log, S, e)) = Consumed(log, InRows(log, S, Rows(log, S, e)))
    BY RowsFinite, GroupsAddUp
  <2> QED
    BY <2>1, <2>2 DEF EngineTotal
<1>3. ASSUME NEW q \in providers PROVE g[q] = SumFunctionOnSet(f, OfKinds(A, kind, {q}))
  <2> DEFINE B == OfKinds(A, kind, {q})
  <2>1. InRows(log, S, Share(log, S, e, q)) = B /\ B \in SUBSET S
    BY DEF InRows, Share, Rows, RowOf, OfKinds
  <2>2. ByProvider(log, S, e, q) = GroupSums(log, S, Share(log, S, e, q))
    BY DEF ByProvider, Share
  <2>3. g[q] = ByProvider(log, S, e, q)
    OBVIOUS
  <2> HIDE DEF A, kind, g, B
  <2>4. GroupSums(log, S, Share(log, S, e, q)) = Consumed(log, InRows(log, S, Share(log, S, e, q)))
    BY RowsFinite, GroupsAddUp
  <2>5. Consumed(log, B) = SumFunctionOnSet(f, B)
    BY <2>1, ConsumedOf
  <2> QED
    BY <2>1, <2>2, <2>3, <2>4, <2>5 DEF B
<1>4. OfKinds(A, kind, providers) = A /\ \A i \in A : f[i] \in Int
  BY DEF OfKinds
<1> HIDE DEF A, f, kind, g
<1>5. SumFunctionOnSet(g, providers) = SumFunctionOnSet(f, OfKinds(A, kind, providers))
  BY <1>1, <1>3, <1>4, SumByKind
<1> QED
  BY <1>1, <1>2, <1>4, <1>5 DEF A, g, OfEngine, Served

(* Whatever is recorded, in whatever calendar: a chart has a bucket for each *)
(* record of its range, the overview's periods share none and lose none, a   *)
(* report compares itself with the month the last one was about, and the     *)
(* split by provider adds up to the engine's total.                          *)
THEOREM ViewsAreWhole == Spec => []ViewsLoseNothing
<1>1. IInv => ViewsLoseNothing
  <2> SUFFICES ASSUME StoreInv PROVE ViewsLoseNothing
    BY DEF IInv, TypeInv
  <2> DEFINE instants == {Clock[i] : i \in DOMAIN Clock}
  <2>1. \A t \in instants : t \in Nat /\ t < FirstDay[Len(MonthDays)]
    BY AccountsAssumption, ViewsAssumption
  <2>2. now \in instants /\ now \in Nat
    BY <2>1 DEF StoreInv, now
  <2>3. /\ \A i \in DOMAIN usage : usage[i] \in UsageType /\ usage[i].at <= now
        /\ usage \in Seq(UsageType)
    BY DEF StoreInv
  <2>4. \A i \in DOMAIN usage : usage[i].at \in Nat /\ usage[i].call \in Calls
    BY <2>3 DEF UsageType
  <2>5. \A i \in DOMAIN usage : usage[i].at < FirstDay[Len(MonthDays)]
    <3>1. now < FirstDay[Len(MonthDays)] /\ FirstDay[Len(MonthDays)] \in Int
      <4>1. Len(MonthDays) \in 1..(Len(MonthDays) + 1)
        BY FirstDays
      <4> QED
        BY <2>1, <2>2, <4>1, FirstDaysGrow
    <3> QED
      BY <2>2, <2>3, <2>4, <3>1
  <2>6. ASSUME NEW to \in instants, NEW g \in DOMAIN Step, NEW from \in instants \cup {DefaultFrom(to, g)}
        PROVE  Charted(usage, from, to, g) = Matched(usage, from, to, g)
    <3>1. DefaultSpan[g] \in Int
      BY DEF Step, DefaultSpan, Day, Hour
    <3>2. to \in Int
      BY <2>1
    <3>3. from \in Int
      BY <2>1, <3>1, <3>2 DEF DefaultFrom
    <3> HIDE DEF instants
    <3> QED
      BY <2>4, <3>2, <3>3, ChartIsWhole
  <2>7. ASSUME NEW days \in {1, 31}
        PROVE  /\ Current(usage, now, days) \cap Previous(usage, now, days) = {}
               /\ Current(usage, now, days) \cup Previous(usage, now, days)
                    = During(usage, now - 2 * days * Day, now)
    <3>1. now \in Int /\ days \in Nat
      BY <2>2
    <3> QED
      BY <2>4, <3>1, PeriodsMeet
  <2>8. ASSUME NEW i \in DOMAIN usage
        PROVE  LET start == MonthStart(usage[i].at) IN
               /\ i \in Report(usage, start).current
               /\ Report(usage, Following(start)).previous = Report(usage, start).current
    BY <2>4, <2>5, ReportsMeet
  <2>9. ASSUME NEW e
        PROVE  LET S == Consuming(usage, now - 31 * Day, now)
                   total == Consumed(usage, {i \in S : usage[i].call.engine = e})
                   providers == {c.provider : c \in Calls} IN
               /\ EngineTotal(usage, S, e) = total
               /\ SumFunctionOnSet([p \in providers |-> ByProvider(usage, S, e, p)], providers) = total
    <3> DEFINE S == Consuming(usage, now - 31 * Day, now)
               providers == {c.provider : c \in Calls}
    <3>1. S \in SUBSET DOMAIN usage
      BY DEF Consuming
    <3>2. IsFiniteSet(S)
      BY <2>3, <3>1, LogType
    <3>3. \A i \in S : usage[i].call.consumed \in Nat /\ usage[i].call.provider \in providers
      BY <2>4, <3>1, ViewsAssumption
    <3>4. IsFiniteSet(providers)
      BY ViewsAssumption
    <3> HIDE DEF S, providers
    <3>5. /\ EngineTotal(usage, S, e) = Consumed(usage, OfEngine(usage, S, e))
          /\ SumFunctionOnSet(Served(usage, S, e, providers), providers)
               = Consumed(usage, OfEngine(usage, S, e))
      BY <3>2, <3>3, <3>4, EnginesAddUp
    <3> QED
      BY <3>5 DEF S, providers, OfEngine, Served
  <2> QED
    BY <2>6, <2>7, <2>8, <2>9 DEF ViewsLoseNothing
<1> QED
  BY <1>1, Invariant, PTL
==============================================================================
