------------------------------ MODULE Scheduler ------------------------------
(* Lifecycle mail: the copy of scheduler_loop that each worker runs, the     *)
(* operators' endpoints that start the same jobs by hand, and the claims     *)
(* that keep them from telling a customer twice.                             *)
(*                                                                           *)
(* The unique indexes of job_runs and notifications are taken to be there    *)
(* before the first tick (start-up builds them, and the loop sleeps first).  *)
(* A user is "active" once she did what a daily message asks for (called the *)
(* API, confirmed her address, spent the bonus); a month's report goes to    *)
(* the Customers, who used the API in that month.                            *)
EXTENDS Integers, Sequences, FiniteSets

CONSTANTS Workers, Operators, Users, Customers,
          DailyJobs,                \* the daily jobs, in the order they run
          Filtered,                 \* those whose query leaves out who is active
          Unreported,               \* those that never say they were cut
          Broadcasts,               \* announcements, each with its reference id
          ByHand,                   \* the jobs operators start
          HoursPerDay, DaysPerMonth, SchedulerHour, ReportDay, CatchupDays,
          Concurrency,
          Caps,                     \* values of BROADCAST_MAX_RECIPIENTS
          MaxNow,                   \* bound on the hours that pass
          MaxTrouble                \* bound on the failures of a behaviour

Monthly == "monthly_reports"

ASSUME SchedulerAssumption ==
  /\ Workers \cap Operators = {} /\ Customers \subseteq Users
  /\ {HoursPerDay, DaysPerMonth, ReportDay, CatchupDays, Concurrency}
       \cup Caps \subseteq Nat \ {0}
  /\ {SchedulerHour, MaxNow, MaxTrouble} \subseteq Nat
  /\ DailyJobs \in Seq(STRING)
  /\ \A i \in DOMAIN DailyJobs : DailyJobs[i] \notin {Monthly} \cup Broadcasts
  /\ Monthly \notin Broadcasts

Daily == {DailyJobs[i] : i \in DOMAIN DailyJobs}
Jobs == Daily \cup Broadcasts \cup {Monthly}
Processes == Workers \cup Operators

(* The display clock, in hours from the start of a month.                    *)
Day(t) == t \div HoursPerDay
HourOf(t) == t % HoursPerDay
DayOfMonth(t) == (Day(t) % DaysPerMonth) + 1
Month(t) == (Day(t) \div DaysPerMonth) + 1
Periods == 0..(Month(MaxNow) + Day(MaxNow))

ReportDue(t) == DayOfMonth(t) \in ReportDay..(ReportDay + CatchupDays - 1)

(* _due_jobs: a daily job's period is the day, a report's the month before.  *)
DueJobs(t) ==
  IF HourOf(t) < SchedulerHour THEN <<>>
  ELSE [i \in DOMAIN DailyJobs |-> [job |-> DailyJobs[i], period |-> Day(t)]]
       \o (IF ReportDue(t) THEN <<[job |-> Monthly, period |-> Month(t) - 1]>> ELSE <<>>)

Runs == [job : Jobs, period : Periods]

(* What a claim is unique on.  A month is reported once per month; a nudge,  *)
(* a reminder and the end of a bonus are told once per account, and so is a  *)
(* broadcast, which operators repeat under its reference id.                 *)
Message(u, r) ==
  [user |-> u, kind |-> r.job, key |-> IF r.job = Monthly THEN r.period ELSE 0]
Messages == [user : Users, kind : Jobs, key : Periods]

VARIABLES now, active,
          cap,          \* BROADCAST_MAX_RECIPIENTS
          runs,         \* job_runs: the runs that have a row
          finished,     \* those with finished_at
          claims,       \* notifications: the messages that have a row
          job,          \* what each process is doing
          trouble,      \* how many operations have failed
          mail,         \* history: deliveries of a message
          confirmed,    \* history: those that were reported as sent
          failures,     \* history: the messages some run counted as failed
          lost,         \* history: rows whose holder died or could not write
          clean         \* history: the runs that reported neither cut nor failure

world == <<now, active, cap>>
rows == <<runs, finished, claims>>
past == <<trouble, mail, confirmed, failures, lost, clean>>
vars == <<world, rows, job, past>>

Idle == [at |-> "sleep", queue |-> <<>>, run |-> [job |-> Monthly, period |-> 0],
         users |-> [u \in Users |-> "out"], cut |-> FALSE, failed |-> FALSE]

Init ==
  /\ now = 0 /\ active \in SUBSET Users /\ cap \in Caps
  /\ runs = {} /\ finished = {} /\ claims = {}
  /\ job = [p \in Processes |-> Idle]
  /\ mail = [m \in Messages |-> 0] /\ confirmed = [m \in Messages |-> 0]
  /\ trouble = 0 /\ failures = {} /\ lost = {} /\ clean = {}

At(p, l) == job[p].at = l
Run(p) == job[p].run
Stage(p, u) == job[p].users[u]
Goto(p, l) == job' = [job EXCEPT ![p].at = l]
Move(p, u, s) == job' = [job EXCEPT ![p].users[u] = s]
Rest(p) == job' = [job EXCEPT ![p] = Idle]
(* *Mistake:* the next job starts among the recipients of the last.          *)
NextJobUnprepared(w) == job' = [job EXCEPT ![w].at = "next"]
NextJob(w) == job' = [job EXCEPT ![w] = [Idle EXCEPT !.at = "next", !.queue = job[w].queue]]

Tick ==
  /\ now < MaxNow /\ now' = now + 1
  /\ UNCHANGED <<active, cap, rows, job, past>>

Act(u) ==
  /\ u \notin active /\ active' = active \cup {u}
  /\ UNCHANGED <<now, cap, rows, job, past>>

------------------------------------------------------------------------------
(* scheduler_loop, run_due_jobs and _run_claimed.                            *)
Wake(w) ==
  /\ At(w, "sleep") /\ DueJobs(now) # <<>>
  /\ job' = [job EXCEPT ![w].at = "next", ![w].queue = DueJobs(now)]
  /\ UNCHANGED <<world, rows, past>>

EndTick(w) ==
  /\ At(w, "next") /\ job[w].queue = <<>>
  /\ Rest(w)
  /\ UNCHANGED <<world, rows, past>>

(* What a unique index admits.                                               *)
(* *Mistake:* the index is not unique.                                       *)
AdmitsAgain(row, table) == TRUE
Admits(row, table) == row \notin table

ClaimRun(w) ==
  /\ At(w, "next") /\ job[w].queue # <<>>
  /\ LET r == Head(job[w].queue) IN
       \/ /\ Admits(r, runs)
          /\ runs' = runs \cup {r}
          /\ job' = [job EXCEPT ![w].at = "recipients", ![w].run = r, ![w].queue = Tail(@)]
       \/ /\ ~Admits(r, runs)
          /\ runs' = runs
          /\ job' = [job EXCEPT ![w].queue = Tail(@)]
  /\ UNCHANGED <<world, finished, claims, past>>

(* An operator starts a job or a broadcast: no claim of the run, any month,  *)
(* even one that is not over.                                                *)
RunByHand(o) ==
  /\ At(o, "sleep")
  /\ \E r \in Runs :
       /\ r.job \in ByHand
       /\ r.job = Monthly \/ r.period = Day(now)
       /\ job' = [job EXCEPT ![o].at = "recipients", ![o].run = r]
  /\ UNCHANGED <<world, rows, past>>

(* Whom a job need not tell; a broadcast tells everybody.                    *)
PassesOver(j, u) == (j = Monthly /\ u \notin Customers) \/ (j \in Daily /\ u \in active)

(* _recipients, or the query of the reminders of free credits, which says    *)
(* nothing of a cut: everybody asked for, or as many as the cap allows, in   *)
(* no given order.                                                           *)
Asked(j) == IF j \in Filtered THEN {u \in Users : ~PassesOver(j, u)} ELSE Users
Recipients(p) ==
  LET All == Asked(Run(p).job) IN
  /\ At(p, "recipients")
  /\ \E U \in SUBSET All :
       /\ \/ U = All /\ Cardinality(U) <= cap
          \/ U # All /\ Cardinality(U) = cap
       /\ job' = [job EXCEPT ![p].at = "batches",
                    ![p].cut = (U # All /\ Run(p).job \notin Unreported),
                    ![p].users = [u \in Users |-> IF u \in U THEN "wait" ELSE "out"]]
  /\ UNCHANGED <<world, rows, past>>

(* _run_batched gathers a batch before it starts the next.                   *)
StartBatch(p) ==
  LET Waiting == {u \in Users : Stage(p, u) = "wait"} IN
  /\ At(p, "batches")
  /\ \A u \in Users : Stage(p, u) \in {"out", "wait", "done"}
  /\ \E B \in SUBSET Waiting \ {{}} :
       /\ Cardinality(B) = Concurrency \/ (B = Waiting /\ Cardinality(B) < Concurrency)
       /\ job' = [job EXCEPT ![p].users = [u \in Users |-> IF u \in B THEN "look" ELSE @[u]]]
  /\ UNCHANGED <<world, rows, past>>

(* A job whose query asked does not ask again.                               *)
Look(p, u) ==
  LET j == Run(p).job IN
  /\ Stage(p, u) = "look"
  /\ Move(p, u, IF j \notin Filtered /\ PassesOver(j, u) THEN "done" ELSE "claim")
  /\ UNCHANGED <<world, rows, past>>

(* _send_once: claim, send, and give the claim back when the send fails.     *)
ClaimSend(p, u) ==
  /\ Stage(p, u) = "claim"
  /\ LET m == Message(u, Run(p)) IN
       \/ Admits(m, claims) /\ claims' = claims \cup {m} /\ Move(p, u, "send")
       \/ ~Admits(m, claims) /\ claims' = claims /\ Move(p, u, "done")
  /\ UNCHANGED <<world, runs, finished, past>>

Deliver(M) == mail' = [m \in Messages |-> IF m \in M THEN mail[m] + 1 ELSE mail[m]]
MayDeliver(M) == \E D \in SUBSET M : Deliver(D)
Trouble == trouble < MaxTrouble /\ trouble' = trouble + 1

SendReported(p, u) ==
  /\ Stage(p, u) = "send"
  /\ LET m == Message(u, Run(p)) IN
       /\ Deliver({m})
       /\ confirmed' = [confirmed EXCEPT ![m] = @ + 1]
  /\ Move(p, u, "done")
  /\ UNCHANGED <<world, rows, trouble, failures, lost, clean>>

(* The send fails or raises; the message may have gone out all the same.     *)
SendFails(p, u) ==
  /\ Stage(p, u) = "send"
  /\ Trouble /\ MayDeliver({Message(u, Run(p))})
  /\ Move(p, u, "release")
  /\ UNCHANGED <<world, rows, confirmed, failures, lost, clean>>

CountFailed(p, u) ==
  /\ job' = [job EXCEPT ![p].users[u] = "done", ![p].failed = TRUE]
  /\ failures' = failures \cup {Message(u, Run(p))}

(* *Mistake:* a failed send counts as skipped.                               *)
ReleaseUncounted(p, u) ==
  /\ Stage(p, u) = "release"
  /\ claims' = claims \ {Message(u, Run(p))}
  /\ Move(p, u, "done")
  /\ UNCHANGED <<world, runs, finished, past>>

Release(p, u) ==
  /\ Stage(p, u) = "release"
  /\ claims' = claims \ {Message(u, Run(p))}
  /\ CountFailed(p, u)
  /\ UNCHANGED <<world, runs, finished, trouble, mail, confirmed, lost, clean>>

(* A read or write of a handler raises: gather hands the exception to        *)
(* _run_batched, which counts it.  A claim that was to be given back stays.  *)
Blip(p, u) ==
  /\ Stage(p, u) \in {"look", "claim", "release"}
  /\ Trouble /\ CountFailed(p, u)
  /\ lost' = IF Stage(p, u) = "release" THEN lost \cup {Message(u, Run(p))} ELSE lost
  /\ UNCHANGED <<world, rows, mail, confirmed, clean>>

AllDone(p) == At(p, "batches") /\ \A u \in Users : Stage(p, u) \in {"out", "done"}

(* *Mistake:* the row of a run is removed when it is over.                   *)
FinishAndForget(w) ==
  /\ AllDone(w)
  /\ runs' = runs \ {Run(w)} /\ finished' = finished \cup {Run(w)}
  /\ NextJob(w)
  /\ UNCHANGED <<world, claims, past>>

FinishRun(w) ==
  /\ AllDone(w)
  /\ finished' = finished \cup {Run(w)}
  /\ clean' = IF job[w].cut \/ job[w].failed THEN clean ELSE clean \cup {Run(w)}
  /\ NextJob(w)
  /\ UNCHANGED <<world, runs, claims, trouble, mail, confirmed, failures, lost>>

Answer(o) ==
  /\ AllDone(o)
  /\ Rest(o)
  /\ UNCHANGED <<world, rows, past>>

(* *Mistake:* a run that raised keeps its period.                            *)
KeepRun(w) ==
  /\ At(w, "release run")
  /\ NextJob(w)
  /\ UNCHANGED <<world, rows, past>>

(* run() raises: its recipients cannot be read.                              *)
RunRaises(w) ==
  /\ At(w, "recipients") /\ Trouble /\ Goto(w, "release run")
  /\ UNCHANGED <<world, rows, mail, confirmed, failures, lost, clean>>

ReleaseRun(w) ==
  /\ At(w, "release run")
  /\ runs' = runs \ {Run(w)}
  /\ NextJob(w)
  /\ UNCHANGED <<world, finished, claims, past>>

(* The rows a process holds.  When it dies, or an exception leaves           *)
(* run_due_jobs, they stay and nobody works on them.                         *)
Messaging(p, stages) == {Message(u, Run(p)) : u \in {v \in Users : Stage(p, v) \in stages}}
Held(p) ==
  Messaging(p, {"send", "release"})
  \cup {r \in {Run(p)} : p \in Workers /\ job[p].at \notin {"sleep", "next"}}

Die(p) ==
  /\ ~At(p, "sleep") /\ Trouble
  /\ MayDeliver(Messaging(p, {"send"}))
  /\ lost' = lost \cup Held(p)
  /\ Rest(p)
  /\ UNCHANGED <<world, rows, confirmed, failures, clean>>

TickFails(w) ==
  /\ (At(w, "next") /\ job[w].queue # <<>>) \/ AllDone(w) \/ At(w, "release run")
  /\ Trouble
  /\ lost' = lost \cup Held(w)
  /\ Rest(w)
  /\ UNCHANGED <<world, rows, mail, confirmed, failures, clean>>

Handle(p, u) ==
  Look(p, u) \/ ClaimSend(p, u) \/ SendReported(p, u) \/ SendFails(p, u) \/ Release(p, u)

Step(p) == Recipients(p) \/ StartBatch(p) \/ \E u \in Users : Handle(p, u)

WorkerStep(w) ==
  \/ Wake(w) \/ EndTick(w) \/ ClaimRun(w) \/ Step(w) \/ FinishRun(w) \/ ReleaseRun(w)

Next ==
  \/ Tick \/ \E u \in Users : Act(u)
  \/ \E w \in Workers : WorkerStep(w) \/ RunRaises(w) \/ TickFails(w)
  \/ \E o \in Operators : RunByHand(o) \/ Step(o) \/ Answer(o)
  \/ \E p \in Processes : Die(p) \/ \E u \in Users : Blip(p, u)

Spec == Init /\ [][Next]_vars

(* The event loop runs what is ready, and a worker goes on waking.           *)
FairSpec == Spec /\ \A w \in Workers : WF_vars(WorkerStep(w))

------------------------------------------------------------------------------
Labels == {"sleep", "next", "recipients", "batches", "release run"}
Stages == {"out", "wait", "look", "claim", "send", "release", "done"}

(* Types, and what a process holds at each label.                            *)
TypeOK ==
  /\ now \in 0..MaxNow /\ active \subseteq Users /\ cap \in Caps
  /\ runs \subseteq Runs /\ finished \subseteq runs /\ clean \subseteq finished
  /\ claims \subseteq Messages /\ failures \subseteq Messages
  /\ lost \subseteq runs \cup claims
  /\ mail \in [Messages -> Nat] /\ confirmed \in [Messages -> Nat] /\ trouble \in Nat
  /\ job \in [Processes -> [at : Labels, queue : Seq(Runs), run : Runs,
                            users : [Users -> Stages], cut : BOOLEAN, failed : BOOLEAN]]
  /\ \A p \in Processes : ~At(p, "batches") => \A u \in Users : Stage(p, u) = "out"

(* "One worker wins the insert and the rest skip": the row of a run is held  *)
(* by one worker, finished, or left behind by one that died - so a period is *)
(* worked on by one worker at a time and, once it is finished, by none.      *)
Working(r) == {w \in Workers : r \in Held(w)}
OneRunPerPeriod ==
  \A r \in Runs :
    Cardinality(Working(r)) + Cardinality({r} \cap finished) + Cardinality({r} \cap lost)
      = Cardinality({r} \cap runs)

(* "Send once": across workers, operators and repeated runs a claim is held  *)
(* by one sender, confirmed, or left behind, never two of these, and nobody  *)
(* is told twice unless a sender was told that the first had failed.         *)
Senders(m) == {p \in Processes : m \in Held(p)}
ToldOnce ==
  \A m \in Messages :
    /\ Cardinality(Senders(m)) + confirmed[m] + Cardinality({m} \cap lost)
         = Cardinality({m} \cap claims)
    /\ mail[m] > 1 => m \in failures

(* A run that finished uncut and counted no failure leaves nobody out, even  *)
(* where it skipped a customer for another's claim: either the claim stands, *)
(* or another run counted her as failed.  Only a job that reports its cuts   *)
(* can promise as much.                                                      *)
NobodyLeftOutSilently ==
  \A r \in clean : \A u \in Users :
    ~PassesOver(r.job, u) /\ r.job \notin Unreported => Message(u, r) \in claims \cup failures

(* "A Mongo blip during the monthly run must not mean nobody gets a report   *)
(* that month": a finished report run has told, or is telling, somebody.     *)
BlipIsRetried ==
  \A r \in finished :
    r.job = Monthly /\ Customers # {} => \E u \in Customers : Message(u, r) \in claims

(* "The next tick retries": what is due when the clock stops is run to its   *)
(* end in the end - by whichever worker, after whatever failed before - but  *)
(* for the run that a worker left behind.                                    *)
Due(r) == \E i \in DOMAIN DueJobs(MaxNow) : DueJobs(MaxNow)[i] = r
DueRunsFinish ==
  \A r \in Runs : Due(r) => (now = MaxNow ~> r \in finished \cup lost)
=============================================================================
