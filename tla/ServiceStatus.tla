---------------------------- MODULE ServiceStatus ----------------------------
(* The status page: services report in (heartbeat), a loop in each worker    *)
(* polls them (probe), operators set a status by hand (manual), all through  *)
(* record(), which stores the current status and folds it into the rollup of *)
(* the day; customers read the page meanwhile.                               *)
EXTENDS Integers, Sequences, FiniteSets

CONSTANTS Reporters,      \* requests that report
          Probers,        \* the probe loops of the workers
          Pages,          \* requests that read the page
          Systems, Probed,        \* Probed: the polled systems, in order
          Reported,               \* the statuses that get reported
          StaleAfter, DayLength,
          MaxNow, MaxReports      \* bounds on time and on the reports begun

ASSUME StatusAssumption ==
  /\ Reporters \cap Probers = {} /\ Probed \in Seq(Systems)
  /\ Reported \subseteq {"operational", "degraded", "down", "maintenance", "unknown"}
  /\ DayLength \in Nat \ {0} /\ {StaleAfter, MaxNow, MaxReports} \subseteq Nat

(* *Mistake:* not knowing ranks below everything else.                       *)
SeverityUnknownLast ==
  [down |-> 5, degraded |-> 4, maintenance |-> 3, operational |-> 1, unknown |-> 0]
Severity == [down |-> 4, degraded |-> 3, maintenance |-> 2, unknown |-> 1, operational |-> 0]
Statuses == DOMAIN Severity
Worst(S) ==
  IF S = {} THEN "unknown" ELSE CHOOSE x \in S : \A y \in S : Severity[x] >= Severity[y]

Sources == {"heartbeat", "probe", "manual"}
(* What may be reported: check() answers with three of the five.             *)
Reportable(source) ==
  IF source = "probe" THEN Reported \cap {"operational", "degraded", "down"} ELSE Reported

DayOf(t) == t \div DayLength
Days == 0..DayOf(MaxNow)
None == [source |-> "none"]
Report == [system : Systems, status : Statuses, source : Sources, at : 0..MaxNow]

VARIABLES now,
          docs,     \* service_status: the document of a system
          days,     \* service_status_days: the rollup of a system's day
          job,      \* what each reporter and prober is doing
          page,     \* what each reader has read, and its answer
          begun,    \* how many reports have begun
          stored,   \* history: the reports that became the current status
          rolled,   \* history: the reports that were folded into their day
          raced     \* history: those folded in after another had read the day

vars == <<now, docs, days, job, page, begun, stored, rolled, raced>>

Idle == [at |-> "idle", report |-> None, rollup |-> "unknown", next |-> 1]
NoPage == [at |-> "idle", docs |-> [s \in Systems |-> None], overall |-> "unknown", asked |-> 0,
           about |-> Systems]

Init ==
  /\ now = 0 /\ begun = 0
  /\ docs = [s \in Systems |-> None]
  /\ days = [s \in Systems |-> [d \in Days |-> "none"]]
  /\ job = [p \in Reporters \cup Probers |-> Idle]
  /\ page = [g \in Pages |-> NoPage]
  /\ stored = {} /\ rolled = {} /\ raced = {}

At(p, l) == job[p].at = l
R(p) == job[p].report
Today(p) == DayOf(R(p).at)

Tick ==
  /\ now < MaxNow /\ now' = now + 1
  /\ UNCHANGED <<docs, days, job, page, begun, stored, rolled, raced>>

(* record(): the time is read first and decides the day.                     *)
Begin(p, s, status, source) ==
  /\ At(p, "idle") /\ begun < MaxReports
  /\ begun' = begun + 1
  /\ job' = [job EXCEPT ![p].at = "store",
              ![p].report = [system |-> s, status |-> status, source |-> source, at |-> now]]
  /\ UNCHANGED <<now, docs, days, page, stored, rolled, raced>>

Request(p) ==
  \E s \in Systems, source \in {"heartbeat", "manual"} :
    \E status \in Reportable(source) : Begin(p, s, status, source)

Probe(p) ==
  /\ job[p].next <= Len(Probed)
  /\ \E status \in Reportable("probe") : Begin(p, Probed[job[p].next], status, "probe")

Sleep(p) ==
  /\ At(p, "idle") /\ job[p].next > Len(Probed)
  /\ job' = [job EXCEPT ![p] = Idle]
  /\ UNCHANGED <<now, docs, days, page, begun, stored, rolled, raced>>

Store(p) ==
  /\ At(p, "store")
  /\ docs' = [docs EXCEPT ![R(p).system] = R(p)]
  /\ stored' = stored \cup {R(p)}
  /\ job' = [job EXCEPT ![p].at = "read"]
  /\ UNCHANGED <<now, days, page, begun, rolled, raced>>

(* *Mistake:* the strip shows the latest status of a day.                    *)
RollupLatest(p, existing) == R(p).status
Rollup(p, existing) ==
  IF existing = "none" THEN R(p).status ELSE Worst({R(p).status, existing})

ReadDay(p) ==
  /\ At(p, "read")
  /\ job' = [job EXCEPT ![p].at = "write",
                        ![p].rollup = Rollup(p, days[R(p).system][Today(p)])]
  /\ UNCHANGED <<now, docs, days, page, begun, stored, rolled, raced>>

(* A probe loop goes on with the next system, whatever became of this one.   *)
(* *Mistake:* it keeps the report it is done with.                           *)
DoneKeeping(p) == job' = [job EXCEPT ![p].at = "idle", ![p].next = @ + 1]
Done(p) == job' = [job EXCEPT ![p] = [Idle EXCEPT !.next = job[p].next + 1]]

Overtaken(p) ==
  \E q \in (Reporters \cup Probers) \ {p} :
    At(q, "write") /\ R(q).system = R(p).system /\ Today(q) = Today(p)

WriteDay(p) ==
  /\ At(p, "write")
  /\ days' = [days EXCEPT ![R(p).system][Today(p)] = job[p].rollup]
  /\ rolled' = rolled \cup {R(p)}
  /\ raced' = IF Overtaken(p) THEN raced \cup {R(p)} ELSE raced
  /\ Done(p)
  /\ UNCHANGED <<now, docs, page, begun, stored>>

Fail(p) ==
  /\ ~At(p, "idle")
  /\ Done(p)
  /\ UNCHANGED <<now, docs, days, page, begun, stored, rolled, raced>>

Restart(p) ==
  /\ job[p] # Idle
  /\ job' = [job EXCEPT ![p] = Idle]
  /\ UNCHANGED <<now, docs, days, page, begun, stored, rolled, raced>>

------------------------------------------------------------------------------
(* GET /status, of all systems or of one: the documents, then the time, then *)
(* the strips.                                                               *)
ReadDocs(g) ==
  /\ page[g].at = "idle"
  /\ page' = [page EXCEPT ![g] = [NoPage EXCEPT !.at = "docs", !.docs = docs]]
  /\ UNCHANGED <<now, docs, days, job, begun, stored, rolled, raced>>

ReadDoc(g) ==
  /\ page[g].at = "idle"
  /\ \E s \in Systems :
       page' = [page EXCEPT ![g] = [NoPage EXCEPT !.at = "docs", !.docs[s] = docs[s],
                                                  !.about = {s}]]
  /\ UNCHANGED <<now, docs, days, job, begun, stored, rolled, raced>>

(* What a document says at time t.                                           *)
(* *Mistake:* only a missing document is unknown.                            *)
ShownWheneverStored(doc, t) == IF doc = None THEN "unknown" ELSE doc.status
Shown(doc, t) ==
  IF doc = None THEN "unknown"
  ELSE IF doc.source = "manual" \/ doc.at >= t - StaleAfter THEN doc.status
  ELSE "unknown"

Answer(g) ==
  /\ page[g].at = "docs"
  /\ page' = [page EXCEPT ![g] =
       [NoPage EXCEPT !.at = "answered", !.asked = now, !.about = page[g].about,
                      !.overall = Worst({Shown(page[g].docs[s], now) : s \in page[g].about})]]
  /\ UNCHANGED <<now, docs, days, job, begun, stored, rolled, raced>>

Leave(g) ==
  /\ page[g].at = "answered"
  /\ page' = [page EXCEPT ![g] = NoPage]
  /\ UNCHANGED <<now, docs, days, job, begun, stored, rolled, raced>>

Next ==
  \/ Tick
  \/ \E p \in Reporters : Request(p)
  \/ \E p \in Probers : Probe(p) \/ Sleep(p) \/ Restart(p)
  \/ \E p \in Reporters \cup Probers : Store(p) \/ ReadDay(p) \/ WriteDay(p) \/ Fail(p)
  \/ \E g \in Pages : ReadDocs(g) \/ ReadDoc(g) \/ Answer(g) \/ Leave(g)

Spec == Init /\ [][Next]_vars

------------------------------------------------------------------------------
(* Types, and what is held at each label.                                    *)
TypeOK ==
  /\ now \in 0..MaxNow /\ begun \in 0..MaxReports
  /\ docs \in [Systems -> Report \cup {None}]
  /\ days \in [Systems -> [Days -> Statuses \cup {"none"}]]
  /\ job \in [Reporters \cup Probers ->
               [at : {"idle", "store", "read", "write"}, report : Report \cup {None},
                rollup : Statuses, next : Nat \ {0}]]
  /\ \A p \in Reporters \cup Probers : At(p, "idle") <=> R(p) = None
  /\ page \in [Pages -> [at : {"idle", "docs", "answered"}, docs : [Systems -> Report \cup {None}],
                         overall : Statuses, asked : 0..MaxNow,
                         about : SUBSET Systems]]
  /\ stored \subseteq Report /\ rolled \subseteq stored /\ raced \subseteq rolled

(* "The 90-day strip records the worst status of each day": a day shows a    *)
(* status that was reported on it, and none of those folded into it is worse *)
(* - but for one that was written between the read and the write of another. *)
StripKeepsTheWorst ==
  \A s \in Systems, d \in Days :
    LET reported == {r \in rolled : r.system = s /\ DayOf(r.at) = d} IN
    /\ days[s][d] = "none" <=> reported = {}
    /\ reported # {} => \E r \in reported : r.status = days[s][d]
    /\ \A r \in reported \ raced : Severity[r.status] <= Severity[days[s][d]]

(* "Silence reads unknown, never operational": a page that says all is well  *)
(* was answered when each system it is about had a report saying so, by hand *)
(* or no older than the limit, however reports and pages overlap.            *)
NoGreenFromSilence ==
  \A g \in Pages :
    page[g].at = "answered" /\ page[g].overall = "operational" =>
      \A s \in page[g].about : \E r \in stored :
        /\ r.system = s /\ r.status = "operational"
        /\ r.source = "manual" \/ r.at >= page[g].asked - StaleAfter
=============================================================================
