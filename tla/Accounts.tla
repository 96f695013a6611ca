------------------------------ MODULE Accounts -------------------------------
(* API keys and the projects they belong to, the usage recorded under them,  *)
(* the summary of that usage, and the closing of the account - each a few    *)
(* documents read and written one after another, all of them overlapping.    *)
EXTENDS Integers, Sequences, FiniteSets, Pricing, UsageViews

CONSTANTS Slots,        \* requests in flight at once
          Users, Keys, Projects,
          Calls,        \* what may be reported: service, model, quantities, engine
          Clock,        \* the instants there are, in order
          MaxRequests   \* bound on the requests begun

ASSUME AccountsAssumption ==
  /\ MaxRequests \in Nat /\ "none" \notin Users \cup Keys \cup Projects
  /\ Clock \in Seq(Nat) /\ Clock # <<>>
  /\ \A i, j \in DOMAIN Clock : i <= j => Clock[i] <= Clock[j]
  /\ \A c \in Calls : /\ c.service \in DOMAIN SERVICES /\ c.apart \in BOOLEAN
                       /\ {c.input, c.output} \subseteq Nat

(* The calendar goes on for a month, and what a call consumes is a quantity. *)
ASSUME ViewsAssumption ==
  /\ \A i \in DOMAIN Clock : Clock[i] < FirstDay[Len(MonthDays)]
  /\ \A c \in Calls : c.consumed \in Nat
  /\ IsFiniteSet({c.provider : c \in Calls})

VARIABLES keys,      \* api_keys
          owner,     \* the customer of each project there ever was
          alive,     \* projects
          usage,     \* usage, oldest first
          closed,    \* users with deleted_at
          retired,   \* users none of whose tokens has their token_version any more
          zeroed,    \* credit accounts with closed_at, their balance zero
          tick,      \* the instant it is, of Clock
          job,       \* what each request in flight is doing
          begun,     \* how many requests have begun
          shut,      \* history: the customers whose keys a closure has revoked
          late,      \* history: keys stored after that
          outlived,  \* history: customers a session of whom outlived a closure
          adrift,    \* history: keys stored with a project under deletion
          cut        \* history: customers whose closure stopped half-way

store == <<keys, owner, alive, usage, closed, retired, zeroed>>
history == <<shut, late, outlived, adrift, cut>>
vars == <<store, tick, job, begun, history>>

NoKey == [user |-> "none", project |-> "none", revoked |-> TRUE]
Idle == [at |-> "idle", user |-> "none", key |-> "none", project |-> "none",
         call |-> "none", after |-> FALSE, spend |-> 0, paid |-> 0, loose |-> 0, before |-> 0]

Init ==
  /\ keys = [k \in Keys |-> NoKey]
  /\ owner = [q \in Projects |-> "none"] /\ alive = {}
  /\ usage = <<>> /\ closed = {} /\ retired = {} /\ zeroed = {}
  /\ tick = 1 /\ job = [p \in Slots |-> Idle] /\ begun = 0
  /\ shut = {} /\ late = {} /\ outlived = {} /\ adrift = {} /\ cut = {}

At(p, l) == job[p].at = l
Goto(p, l) == job' = [job EXCEPT ![p].at = l]
Done(p) == job' = [job EXCEPT ![p] = Idle]
now == Clock[tick]
(* The instants are days apart: no request spans two of them.                *)
Tick ==
  /\ tick < Len(Clock) /\ \A p \in Slots : At(p, "idle")
  /\ tick' = tick + 1
  /\ UNCHANGED <<store, job, begun, history>>
Enter(p) == At(p, "idle") /\ begun < MaxRequests /\ begun' = begun + 1
Begin(p, next) == Enter(p) /\ job' = [job EXCEPT ![p] = next]

(* get_current_user(): a token of the user's token_version, closed or not.   *)
SignedIn == Users \ retired
Issued == {k \in Keys : keys[k] # NoKey}
KeysOf(u) == {k \in Issued : keys[k].user = u}

------------------------------------------------------------------------------
(* Projects and keys.                                                        *)
CreateProject(p) ==
  /\ Enter(p)
  /\ \E u \in SignedIn, q \in Projects :
       /\ owner[q] = "none"
       /\ owner' = [owner EXCEPT ![q] = u]
       /\ alive' = alive \cup {q}
  /\ UNCHANGED <<tick, keys, usage, closed, retired, zeroed, job, history>>

(* What a request may name as its project: none, or one of the caller's own. *)
(* *Mistake:* any project there is.                                          *)
ResolveAnyones(u) == {"none"} \cup alive
ResolveProject(u) == {"none"} \cup {q \in alive : owner[q] = u}

CreateKey(p) ==
  /\ \E u \in SignedIn : \E q \in ResolveProject(u) :
       Begin(p, [Idle EXCEPT !.at = "create", !.user = u, !.project = q])
  /\ UNCHANGED <<store, tick, history>>

UnderDeletion(q) ==
  q # "none" /\ (q \notin alive \/ \E p \in Slots : At(p, "drop") /\ job[p].project = q)
Adrift(k, q) == IF UnderDeletion(q) THEN adrift \cup {k} ELSE adrift \ {k}

InsertKey(p) ==
  /\ At(p, "create")
  /\ \E k \in Keys \ Issued :
       LET u == job[p].user  q == job[p].project IN
       /\ keys' = [keys EXCEPT ![k] = [user |-> u, project |-> q, revoked |-> FALSE]]
       /\ late' = IF u \in shut THEN late \cup {k} ELSE late
       /\ adrift' = Adrift(k, q)
  /\ Done(p)
  /\ UNCHANGED <<tick, owner, alive, usage, closed, retired, zeroed, begun, shut, outlived, cut>>

(* rename_key() with a project: none of another customer's keys matches.     *)
MoveKey(p) ==
  /\ \E u \in SignedIn : \E k \in KeysOf(u), q \in ResolveProject(u) :
       Begin(p, [Idle EXCEPT !.at = "move", !.user = u, !.key = k, !.project = q])
  /\ UNCHANGED <<store, tick, history>>

StoreMove(p) ==
  /\ At(p, "move")
  /\ keys' = [keys EXCEPT ![job[p].key].project = job[p].project]
  /\ adrift' = Adrift(job[p].key, job[p].project)
  /\ Done(p)
  /\ UNCHANGED <<tick, owner, alive, usage, closed, retired, zeroed, begun, shut, late, outlived, cut>>

RevokeKey(p) ==
  /\ Enter(p)
  /\ \E u \in SignedIn : \E k \in KeysOf(u) : keys' = [keys EXCEPT ![k].revoked = TRUE]
  /\ UNCHANGED <<tick, owner, alive, usage, closed, retired, zeroed, job, history>>

DeleteProject(p) ==
  /\ \E u \in SignedIn : \E q \in ResolveProject(u) \ {"none"} :
       Begin(p, [Idle EXCEPT !.at = "detach", !.user = u, !.project = q])
  /\ UNCHANGED <<store, tick, history>>

(* *Mistake:* the keys are left with the project.                            *)
DetachedNone(u, q) == keys
Detached(u, q) ==
  [k \in Keys |-> IF keys[k].user = u /\ keys[k].project = q
                  THEN [keys[k] EXCEPT !.project = "none"] ELSE keys[k]]

Detach(p) ==
  /\ At(p, "detach")
  /\ keys' = Detached(job[p].user, job[p].project)
  /\ Goto(p, "drop")
  /\ UNCHANGED <<tick, owner, alive, usage, closed, retired, zeroed, begun, history>>

Drop(p) ==
  /\ At(p, "drop")
  /\ alive' = alive \ {job[p].project}
  /\ Done(p)
  /\ UNCHANGED <<tick, keys, owner, usage, closed, retired, zeroed, begun, history>>

------------------------------------------------------------------------------
(* Usage: by a key that is not revoked - closed accounts are not asked after *)
(* - or by a session, which belongs to no key.                               *)
UseKey(p) ==
  /\ \E k \in Issued, call \in Calls :
       /\ ~keys[k].revoked /\ Priced(call)
       /\ Begin(p, [Idle EXCEPT !.at = "record", !.user = keys[k].user, !.key = k, !.call = call,
                                !.project = keys[k].project, !.after = keys[k].user \in closed])
  /\ UNCHANGED <<store, tick, history>>

UseSession(p) ==
  /\ \E u \in SignedIn, call \in Calls :
       /\ Priced(call)
       /\ Begin(p, [Idle EXCEPT !.at = "record", !.user = u, !.call = call,
                                !.after = u \in closed])
  /\ UNCHANGED <<store, tick, history>>

Record(p) ==
  /\ At(p, "record")
  /\ usage' = Append(usage,
       [user |-> job[p].user, key |-> job[p].key, project |-> job[p].project, call |-> job[p].call,
        cost |-> Cost(job[p].call), at |-> now, billed |-> FALSE, after |-> job[p].after])
  /\ job' = [job EXCEPT ![p].at = "charge", ![p].spend = Len(usage) + 1]
  /\ UNCHANGED <<tick, keys, owner, alive, closed, retired, zeroed, begun, history>>

(* Paid for, or the credits do not cover it.                                 *)
Charge(p) ==
  /\ At(p, "charge")
  /\ \/ usage' = [usage EXCEPT ![job[p].spend].billed = TRUE]
     \/ UNCHANGED usage
  /\ Done(p)
  /\ UNCHANGED <<tick, keys, owner, alive, closed, retired, zeroed, begun, history>>

------------------------------------------------------------------------------
(* The summary reads the spend first, then what was not paid of it, then how *)
(* much of it is attributed to a model.                                      *)
Of(u) == {i \in DOMAIN usage : usage[i].user = u}
Spend(u) == Spent(usage, Of(u))
Unbilled(u) == Spent(usage, {i \in Of(u) : ~usage[i].billed})
Paid(u) == Spend(u) - Unbilled(u)
Attributed(u) == Spent(usage, {i \in Of(u) : usage[i].call.model # "none"})
Unattributed(u) == Spend(u) - Attributed(u)

Summarise(p) ==
  /\ \E u \in SignedIn :
       Begin(p, [Idle EXCEPT !.at = "unbilled", !.user = u, !.spend = Spend(u), !.before = Paid(u)])
  /\ UNCHANGED <<store, tick, history>>

(* *Mistake:* what was not paid is read before the spend.                    *)
BilledBackwards(p) == Spend(job[p].user) - (job[p].spend - job[p].before)
(* *Mistake:* what nobody has paid is left out of it.                        *)
BilledAgainstAll(p) == job[p].spend - Spent(usage, {i \in DOMAIN usage : ~usage[i].billed})
Billed(p) == job[p].spend - Unbilled(job[p].user)

ReadUnbilled(p) ==
  /\ At(p, "unbilled")
  /\ job' = [job EXCEPT ![p].at = "models", ![p].paid = Billed(p)]
  /\ UNCHANGED <<store, tick, begun, history>>

Answer(p) ==
  /\ At(p, "models")
  /\ job' = [job EXCEPT ![p].at = "answered",
                        ![p].loose = job[p].spend - Attributed(job[p].user)]
  /\ UNCHANGED <<store, tick, begun, history>>

Leave(p) ==
  /\ At(p, "answered")
  /\ Done(p)
  /\ UNCHANGED <<store, tick, begun, history>>

------------------------------------------------------------------------------
(* delete_account(). How it ends the sessions is another module's: one that  *)
(* a sign-in or a refresh brings about beside it may be left.                *)
CloseAccount(p) ==
  /\ \E u \in SignedIn : Begin(p, [Idle EXCEPT !.at = "revoke", !.user = u])
  /\ UNCHANGED <<store, tick, history>>

(* *Mistake:* the keys that were used last go on.                            *)
RevokedUnassigned(u) ==
  [k \in Keys |-> IF keys[k].user = u /\ keys[k].project = "none"
                  THEN [keys[k] EXCEPT !.revoked = TRUE] ELSE keys[k]]
Revoked(u) ==
  [k \in Keys |-> IF keys[k].user = u THEN [keys[k] EXCEPT !.revoked = TRUE] ELSE keys[k]]

RevokeKeys(p) ==
  /\ At(p, "revoke")
  /\ keys' = Revoked(job[p].user)
  /\ shut' = shut \cup {job[p].user}
  /\ Goto(p, "anonymise")
  /\ UNCHANGED <<tick, owner, alive, usage, closed, retired, zeroed, begun, late, outlived, adrift, cut>>

(* *Mistake:* the balance goes first.                                        *)
AnonymiseLast(p) ==
  /\ At(p, "anonymise")
  /\ zeroed' = zeroed \cup {job[p].user}
  /\ Goto(p, "zero")
  /\ UNCHANGED <<tick, keys, owner, alive, usage, closed, retired, begun, history>>
Anonymise(p) ==
  /\ At(p, "anonymise")
  /\ closed' = closed \cup {job[p].user}
  /\ \/ retired' = retired \cup {job[p].user} /\ outlived' = outlived
     \/ retired' = retired \ {job[p].user} /\ outlived' = outlived \cup {job[p].user}
  /\ Goto(p, "zero")
  /\ UNCHANGED <<tick, keys, owner, alive, usage, zeroed, begun, shut, late, adrift, cut>>

ZeroBalance(p) ==
  /\ At(p, "zero")
  /\ zeroed' = zeroed \cup {job[p].user}
  /\ Done(p)
  /\ UNCHANGED <<tick, keys, owner, alive, usage, closed, retired, begun, history>>

(* A store that fails, or a worker that stops: the request ends where it is. *)
Die(p) ==
  /\ job[p].at \notin {"idle", "answered"}
  /\ cut' = IF At(p, "zero") THEN cut \cup {job[p].user} ELSE cut
  /\ Done(p)
  /\ UNCHANGED <<store, tick, begun, shut, late, outlived, adrift>>

Next ==
  \/ Tick
  \/ \E p \in Slots :
    \/ CreateProject(p) \/ CreateKey(p) \/ InsertKey(p) \/ MoveKey(p) \/ StoreMove(p)
    \/ RevokeKey(p) \/ DeleteProject(p) \/ Detach(p) \/ Drop(p)
    \/ UseKey(p) \/ UseSession(p) \/ Record(p) \/ Charge(p)
    \/ Summarise(p) \/ ReadUnbilled(p) \/ Answer(p) \/ Leave(p)
    \/ CloseAccount(p) \/ RevokeKeys(p) \/ Anonymise(p) \/ ZeroBalance(p) \/ Die(p)

Spec == Init /\ [][Next]_vars

------------------------------------------------------------------------------
Labels == {"idle", "create", "move", "detach", "drop", "record", "charge", "unbilled", "models",
           "answered", "revoke", "anonymise", "zero"}
(* Types, and whose is what.                                                 *)
TypeOK ==
  /\ keys \in [Keys -> [user : Users \cup {"none"}, project : Projects \cup {"none"},
                        revoked : BOOLEAN]]
  /\ owner \in [Projects -> Users \cup {"none"}] /\ begun \in 0..MaxRequests
  /\ \A q \in Projects : q \in alive => owner[q] # "none"
  /\ alive \subseteq Projects /\ zeroed \subseteq closed /\ closed \subseteq shut
  /\ retired \subseteq closed /\ closed \subseteq retired \cup outlived /\ outlived \subseteq closed
  /\ shut \subseteq Users /\ late \cup adrift \subseteq Issued
  /\ tick \in DOMAIN Clock
  /\ \A i \in DOMAIN usage :
       /\ usage[i].user \in Users /\ usage[i].call \in Calls /\ usage[i].cost \in Nat
       /\ i > 1 => usage[i - 1].at <= usage[i].at
  /\ \A p \in Slots :
       /\ job[p].at \in Labels /\ job[p].user \in Users \cup {"none"}
       /\ At(p, "idle") <=> job[p].user = "none"
       /\ At(p, "charge") => job[p].spend \in DOMAIN usage

(* "A guessed id cannot attach this key to another customer's project", and  *)
(* deleting a project detaches its keys: whatever requests overlap, a key's  *)
(* project is its owner's, and it is there - but for a key that was stored   *)
(* with a project whose deletion had begun. The same holds for the usage     *)
(* that inherited it, save that "usage outlives the project".                *)
KeysFollowTheirProjects ==
  /\ \A k \in Issued :
       keys[k].project # "none" =>
         owner[keys[k].project] = keys[k].user /\ (keys[k].project \in alive \/ k \in adrift)
  /\ \A i \in DOMAIN usage :
       /\ usage[i].project # "none" => owner[usage[i].project] = usage[i].user
       /\ usage[i].key # "none" => keys[usage[i].key].user = usage[i].user

(* A closed account has nothing left to spend with: its keys are revoked,    *)
(* all but those stored after the closure revoked what there was, by a       *)
(* request or a session that outlived it; usage reported from then on is     *)
(* under one of these keys, or comes from such a session; and the balance is *)
(* zero or about to be, unless the closure stopped between the two.          *)
ClosedMeansClosed ==
  \A u \in closed :
    /\ \A k \in KeysOf(u) : keys[k].revoked \/ k \in late
    /\ \A i \in DOMAIN usage :
         usage[i].user = u /\ usage[i].after =>
           usage[i].key \in late \/ (usage[i].key = "none" /\ u \in outlived)
    /\ u \in zeroed \cup cut \/ \E p \in Slots : At(p, "zero") /\ job[p].user = u

(* "Folding it into one total would overstate what the customer actually     *)
(* paid": what a summary says was charged never exceeds what was, and what   *)
(* had been charged when it began exceeds it by no more than was spent since *)
(* then. What it says no model accounts for was recorded without one, all of *)
(* it but as much, "so the rows still reconcile".                            *)
SummaryNeverOverstates ==
  \A p \in Slots : At(p, "answered") =>
    LET u == job[p].user
        since == Spend(u) - job[p].spend IN
    /\ job[p].paid <= Paid(u) /\ job[p].before - job[p].paid <= since
    /\ job[p].loose <= Unattributed(u) /\ Unattributed(u) - job[p].loose <= since

(* "Adding those back up is exactly what would reintroduce the drift": each  *)
(* call is rounded once, so what a customer has spent on a service is off    *)
(* the price of the whole quantity by half the last decimal a call at most.  *)
SpendIsFair ==
  \A u \in Users, c \in Calls :
    LET S == {i \in Of(u) : usage[i].call.service = c.service /\ usage[i].call.model = c.model}
        exact == SumFunctionOnSet([i \in S |-> Due(usage[i].call)], S)
        off == 2 * (Spent(usage, S) * Per(c) - exact)
        bound == Cardinality(S) * Per(c) IN
    off <= bound /\ -off <= bound

(* Each view of the usage shows each record once: the chart of a range has a *)
(* bucket for everything in it, the overview's two periods do not share a    *)
(* record nor lose one between them, a month's report compares itself with   *)
(* what the one before was about, and what an engine has served is split     *)
(* among its providers so that "the split always adds up to the engine       *)
(* total".                                                                   *)
ViewsLoseNothing ==
  /\ \A to \in {Clock[i] : i \in DOMAIN Clock}, g \in DOMAIN Step :
       \A from \in {Clock[i] : i \in DOMAIN Clock} \cup {DefaultFrom(to, g)} :
         InRange(from, to, g) => Charted(usage, from, to, g) = Matched(usage, from, to, g)
  /\ \A days \in {1, 31} :
       /\ Current(usage, now, days) \cap Previous(usage, now, days) = {}
       /\ Current(usage, now, days) \cup Previous(usage, now, days)
            = During(usage, now - 2 * days * Day, now)
  /\ \A i \in DOMAIN usage :
       LET start == MonthStart(usage[i].at) IN
       /\ i \in Report(usage, start).current
       /\ Report(usage, Following(start)).previous = Report(usage, start).current
  /\ LET S == Consuming(usage, now - 31 * Day, now) IN
     \A e \in {c.engine : c \in Calls} :
       LET total == Consumed(usage, {i \in S : usage[i].call.engine = e})
           providers == {c.provider : c \in Calls} IN
       /\ EngineTotal(usage, S, e) = total
       /\ SumFunctionOnSet([p \in providers |-> ByProvider(usage, S, e, p)], providers) = total
=============================================================================
