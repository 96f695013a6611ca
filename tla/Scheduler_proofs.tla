-------------------------- MODULE Scheduler_proofs ---------------------------
(* Proofs about Scheduler, for every number of workers, operators and users, *)
(* every list of jobs, cap and concurrency, and any number of failures.      *)
(*                                                                           *)
(* Everything rests on the two unique indexes: a row is held by the process  *)
(* whose insert was admitted until it is finished, confirmed, given back or  *)
(* left behind.                                                              *)
EXTENDS Scheduler, FiniteSetTheorems, TLAPS

JobType == [at : Labels, queue : Seq(Runs), run : Runs, users : [Users -> Stages],
            cut : BOOLEAN, failed : BOOLEAN]

HasRun(w) == job[w].at \in {"recipients", "batches", "release run"}
M(p, u) == Message(u, Run(p))
Sending(p, u) == Stage(p, u) \in {"send", "release"}

------------------------------------------------------------------------------
LEMMA Bounds ==
  /\ HoursPerDay \in Nat \ {0} /\ DaysPerMonth \in Nat \ {0} /\ MaxNow \in Nat
  /\ Day(MaxNow) \in Nat /\ Month(MaxNow) \in Nat /\ 0 \in Periods
<1>1. HoursPerDay \in Nat \ {0} /\ DaysPerMonth \in Nat \ {0} /\ MaxNow \in Nat
  BY SchedulerAssumption
<1>2. Day(MaxNow) \in Nat
  BY <1>1 DEF Day
<1>3. Month(MaxNow) \in Nat
  BY <1>1, <1>2 DEF Month
<1> QED
  BY <1>1, <1>2, <1>3 DEF Periods

(* The period of what is due is one of the periods there are.                *)
LEMMA PeriodsAreThere ==
  ASSUME NEW t \in 0..MaxNow
  PROVE  Day(t) \in Periods /\ Month(t) - 1 \in Periods
<1>1. \A a, b \in Nat, d \in Nat \ {0} : a <= b => (a \div d) \in 0..(b \div d)
  OBVIOUS
<1>2. t \in Nat /\ t <= MaxNow
  BY Bounds
<1>3. Day(t) \in 0..Day(MaxNow)
  BY <1>1, <1>2, Bounds DEF Day
<1>4. (Day(t) \div DaysPerMonth) \in 0..(Day(MaxNow) \div DaysPerMonth)
  BY <1>1, <1>3, Bounds
<1>5. Day(MaxNow) \div DaysPerMonth \in Nat
  BY Bounds
<1>6. Month(t) - 1 \in 0..Month(MaxNow)
  BY <1>4, <1>5 DEF Month
<1> QED
  BY <1>3, <1>6, Bounds DEF Periods

LEMMA DueAreRuns ==
  ASSUME NEW t \in 0..MaxNow
  PROVE  DueJobs(t) \in Seq(Runs)
<1>1. Day(t) \in Periods /\ Month(t) - 1 \in Periods
  BY PeriodsAreThere
<1> DEFINE daily == [i \in DOMAIN DailyJobs |-> [job |-> DailyJobs[i], period |-> Day(t)]]
<1>2. daily \in Seq(Runs)
  <2>1. DOMAIN DailyJobs = 1..Len(DailyJobs) /\ Len(DailyJobs) \in Nat
    BY SchedulerAssumption
  <2>2. \A i \in DOMAIN DailyJobs : DailyJobs[i] \in Jobs
    BY DEF Jobs, Daily
  <2>3. \A i \in 1..Len(DailyJobs) : [job |-> DailyJobs[i], period |-> Day(t)] \in Runs
    BY <1>1, <2>1, <2>2 DEF Runs
  <2> QED
    BY <2>1, <2>3
<1>3. [job |-> Monthly, period |-> Month(t) - 1] \in Runs
  BY <1>1 DEF Runs, Jobs
<1>4. <<>> \in Seq(Runs) /\ <<[job |-> Monthly, period |-> Month(t) - 1]>> \in Seq(Runs)
  BY <1>3
<1>5. \A s \in Seq(Runs), x \in Seq(Runs) : s \o x \in Seq(Runs)
  OBVIOUS
<1> HIDE DEF daily
<1> QED
  BY <1>2, <1>4, <1>5 DEF DueJobs, daily

LEMMA MessageIsMessage ==
  ASSUME NEW u \in Users, NEW r \in Runs
  PROVE  Message(u, r) \in Messages /\ Message(u, r).user = u /\ Message(u, r).kind = r.job
BY Bounds DEF Message, Messages, Runs

(* The rows of the two tables are told apart.                                *)
LEMMA RunsAreNoMessages == Runs \cap Messages = {}
<1> SUFFICES ASSUME NEW r \in Runs, NEW m \in Messages PROVE r # m
  OBVIOUS
<1>1. DOMAIN r = {"job", "period"} /\ DOMAIN m = {"user", "kind", "key"}
  BY DEF Runs, Messages
<1> QED
  BY <1>1

LEMMA IdleIsJob == Idle \in JobType
BY Bounds DEF Idle, JobType, Labels, Stages, Runs, Jobs

------------------------------------------------------------------------------
TypeInv ==
  /\ now \in 0..MaxNow /\ active \subseteq Users /\ cap \in Caps
  /\ runs \subseteq Runs /\ finished \subseteq Runs /\ clean \subseteq finished
  /\ claims \subseteq Messages /\ failures \subseteq Messages
  /\ lost \subseteq Runs \cup Messages
  /\ mail \in [Messages -> Nat] /\ confirmed \in [Messages -> Nat] /\ trouble \in Nat
  /\ job \in [Processes -> JobType]
  /\ \A p \in Processes : ~At(p, "batches") => \A u \in Users : Stage(p, u) = "out"

\* The row of a run: held by one worker, finished, or left behind.
RunsHeld ==
  /\ finished \subseteq runs
  /\ \A w \in Workers : HasRun(w) => Run(w) \in runs /\ Run(w) \notin finished \cup lost
  /\ \A v, w \in Workers : HasRun(v) /\ HasRun(w) /\ Run(v) = Run(w) => v = w
  /\ \A r \in runs : r \in finished \cup lost \/ \E w \in Workers : HasRun(w) /\ Run(w) = r
  /\ \A r \in Runs : r \in lost => r \in runs /\ r \notin finished

\* The claim of a message: held by one sender, confirmed, or left behind.
ClaimsHeld ==
  /\ \A p \in Processes, u \in Users : Sending(p, u) =>
       M(p, u) \in claims /\ M(p, u) \notin lost /\ confirmed[M(p, u)] = 0
  /\ \A p, q \in Processes, u \in Users :
       Sending(p, u) /\ Sending(q, u) /\ M(p, u) = M(q, u) => p = q
  /\ \A m \in claims :
       m \in lost \/ confirmed[m] = 1 \/ \E p \in Processes, u \in Users : Sending(p, u) /\ M(p, u) = m
  /\ \A m \in Messages : m \in lost => m \in claims /\ confirmed[m] = 0
  /\ \A m \in Messages : m \notin claims => confirmed[m] = 0

\* While no run has counted a message as failed it went out once at most: by
\* whoever claimed it, and not before the send.
MailOnce ==
  \A m \in Messages : m \notin failures =>
    /\ mail[m] <= 1
    /\ m \notin claims => mail[m] = 0
    /\ \A p \in Processes, u \in Users : Stage(p, u) = "send" /\ M(p, u) = m => mail[m] = 0

\* Whom a run does not consider it need not tell, or it says that it was cut;
\* whom it is done with it need not tell, or has told, or counted.
Handled ==
  \A p \in Processes, u \in Users : At(p, "batches") =>
    /\ Stage(p, u) = "out" =>
         job[p].cut \/ Run(p).job \in Unreported \/ PassesOver(Run(p).job, u)
    /\ Stage(p, u) = "done" =>
         PassesOver(Run(p).job, u) \/ M(p, u) \in claims \cup failures

IInv == TypeInv /\ RunsHeld /\ ClaimsHeld /\ MailOnce /\ Handled /\ NobodyLeftOutSilently

------------------------------------------------------------------------------
\* What a step does to the process that takes it.
LEMMA MoveEffect ==
  ASSUME TypeInv, NEW p \in Processes, NEW u \in Users, NEW s \in Stages, Move(p, u, s)
  PROVE  /\ job' \in [Processes -> JobType] /\ \A q \in Processes \ {p} : job'[q] = job[q]
         /\ job'[p].at = job[p].at /\ job'[p].run = job[p].run /\ job'[p].cut = job[p].cut
         /\ job'[p].users[u] = s
         /\ \A v \in Users \ {u} : job'[p].users[v] = job[p].users[v]
<1>1. job[p] \in JobType
  BY DEF TypeInv
<1>2. [job[p].users EXCEPT ![u] = s] \in [Users -> Stages]
  BY <1>1 DEF JobType
<1>3. [job[p] EXCEPT !.users = [job[p].users EXCEPT ![u] = s]] \in JobType
  BY <1>1, <1>2 DEF JobType
<1>4. job' = [job EXCEPT ![p] = [job[p] EXCEPT !.users = [job[p].users EXCEPT ![u] = s]]]
  BY DEF Move
<1>5. job'[p] = [job[p] EXCEPT !.users = [job[p].users EXCEPT ![u] = s]]
  BY <1>4 DEF TypeInv
<1>6. job'[p].at = job[p].at /\ job'[p].run = job[p].run /\ job'[p].cut = job[p].cut
      /\ job'[p].users = [job[p].users EXCEPT ![u] = s]
  BY <1>1, <1>5 DEF JobType
<1>7. job[p].users \in [Users -> Stages]
  BY <1>1 DEF JobType
<1> QED
  BY <1>3, <1>4, <1>6, <1>7 DEF TypeInv

LEMMA CountEffect ==
  ASSUME TypeInv, NEW p \in Processes, NEW u \in Users, CountFailed(p, u)
  PROVE  /\ job' \in [Processes -> JobType] /\ \A q \in Processes \ {p} : job'[q] = job[q]
         /\ job'[p].at = job[p].at /\ job'[p].run = job[p].run /\ job'[p].cut = job[p].cut
         /\ job'[p].users[u] = "done"
         /\ \A v \in Users \ {u} : job'[p].users[v] = job[p].users[v]
         /\ failures' = failures \cup {M(p, u)}
<1>1. job[p] \in JobType /\ job[p].users \in [Users -> Stages]
  BY DEF TypeInv, JobType
<1>2. [job[p].users EXCEPT ![u] = "done"] \in [Users -> Stages]
  BY <1>1 DEF Stages
<1> DEFINE next == [[job[p] EXCEPT !.users = [job[p].users EXCEPT ![u] = "done"]] EXCEPT !.failed = TRUE]
<1>3. next \in JobType
  BY <1>1, <1>2 DEF JobType
<1>4. job' = [job EXCEPT ![p] = next]
  BY <1>1 DEF CountFailed, TypeInv, JobType
<1>5. next.at = job[p].at /\ next.run = job[p].run /\ next.cut = job[p].cut
      /\ next.users = [job[p].users EXCEPT ![u] = "done"]
  BY <1>1 DEF JobType
<1> HIDE DEF next
<1>6. job'[p] = next /\ \A q \in Processes \ {p} : job'[q] = job[q]
  BY <1>4 DEF TypeInv
<1> QED
  BY <1>1, <1>3, <1>4, <1>5, <1>6 DEF TypeInv, CountFailed, M

LEMMA RestEffect ==
  ASSUME TypeInv, NEW p \in Processes, Rest(p)
  PROVE  /\ job' \in [Processes -> JobType] /\ \A q \in Processes \ {p} : job'[q] = job[q]
         /\ job'[p].at = "sleep" /\ \A u \in Users : job'[p].users[u] = "out"
<1>1. job' = [job EXCEPT ![p] = Idle] /\ Idle.at = "sleep" /\ \A u \in Users : Idle.users[u] = "out"
  BY DEF Rest, Idle
<1> QED
  BY <1>1, IdleIsJob DEF TypeInv

LEMMA NextJobEffect ==
  ASSUME TypeInv, NEW p \in Processes, NextJob(p)
  PROVE  /\ job' \in [Processes -> JobType] /\ \A q \in Processes \ {p} : job'[q] = job[q]
         /\ job'[p].at = "next" /\ \A u \in Users : job'[p].users[u] = "out"
<1> DEFINE next == [[Idle EXCEPT !.at = "next"] EXCEPT !.queue = job[p].queue]
<1>1. job' = [job EXCEPT ![p] = next]
  BY DEF NextJob, Idle
<1>2. next.at = "next" /\ \A u \in Users : next.users[u] = "out"
  BY DEF Idle
<1>3. job[p].queue \in Seq(Runs)
  BY DEF TypeInv, JobType
<1>4. next \in JobType
  BY <1>3, IdleIsJob DEF JobType, Labels
<1> HIDE DEF next
<1> QED
  BY <1>1, <1>2, <1>4 DEF TypeInv

LEMMA TroubleType == TypeInv /\ Trouble => trouble' \in Nat
BY DEF TypeInv, Trouble

LEMMA DeliverType ==
  ASSUME TypeInv, NEW S, Deliver(S)
  PROVE  /\ mail' \in [Messages -> Nat]
         /\ \A m \in Messages : mail'[m] = IF m \in S THEN mail[m] + 1 ELSE mail[m]
BY DEF TypeInv, Deliver

LEMMA HeldRows ==
  ASSUME TypeInv, NEW p \in Processes
  PROVE  /\ \A x \in Held(p) :
              \/ \E u \in Users : Sending(p, u) /\ x = M(p, u) /\ x \in Messages
              \/ p \in Workers /\ HasRun(p) /\ x = Run(p) /\ x \in Runs
         /\ \A u \in Users : Sending(p, u) => M(p, u) \in Held(p)
         /\ p \in Workers /\ HasRun(p) => Run(p) \in Held(p)
<1>1. Run(p) \in Runs /\ job[p].at \in Labels
  BY DEF TypeInv, Run, JobType
<1>2. HasRun(p) <=> job[p].at \notin {"sleep", "next"}
  BY <1>1 DEF HasRun, Labels
<1> QED
  <2>1. Messaging(p, {"send", "release"}) = {M(p, u) : u \in {v \in Users : Sending(p, v)}}
    BY DEF Messaging, Sending, M
  <2>2. {r \in {Run(p)} : p \in Workers /\ job[p].at \notin {"sleep", "next"}}
          = IF p \in Workers /\ HasRun(p) THEN {Run(p)} ELSE {}
    BY <1>2
  <2>3. Held(p) = {M(p, u) : u \in {v \in Users : Sending(p, v)}}
                    \cup (IF p \in Workers /\ HasRun(p) THEN {Run(p)} ELSE {})
    BY <2>1, <2>2 DEF Held
  <2>4. \A u \in Users : M(p, u) \in Messages
    BY <1>1, MessageIsMessage DEF M
  <2>5. ASSUME NEW x \in Held(p)
        PROVE  \/ \E u \in Users : Sending(p, u) /\ x = M(p, u) /\ x \in Messages
               \/ p \in Workers /\ HasRun(p) /\ x = Run(p) /\ x \in Runs
    <3>1. CASE \E u \in Users : Sending(p, u) /\ x = M(p, u)
      BY <3>1, <2>4
    <3>2. CASE p \in Workers /\ HasRun(p) /\ x = Run(p)
      BY <3>2, <1>1
    <3> QED
      BY <2>3, <3>1, <3>2
  <2>6. \A u \in Users : Sending(p, u) => M(p, u) \in Held(p)
    BY <2>3
  <2>7. p \in Workers /\ HasRun(p) => Run(p) \in Held(p)
    BY <2>3
  <2> QED
    BY <2>5, <2>6, <2>7

LEMMA RunIsRun ==
  ASSUME TypeInv, NEW p \in Processes
  PROVE  Run(p) \in Runs /\ \A u \in Users : M(p, u) \in Messages /\ M(p, u).user = u
BY MessageIsMessage DEF TypeInv, Run, JobType, M

LEMMA MovingIsBatching ==
  ASSUME TypeInv, NEW p \in Processes, NEW u \in Users, Stage(p, u) # "out"
  PROVE  At(p, "batches")
BY DEF TypeInv

(* A step of one process, with what it does to the tables of the right type. *)
LEMMA TypeFrame ==
  ASSUME TypeInv, NEW p \in Processes, job' \in [Processes -> JobType],
         \A q \in Processes \ {p} : job'[q] = job[q],
         job'[p].at # "batches" => \A u \in Users : job'[p].users[u] = "out"
  PROVE  \A q \in Processes : ~At(q, "batches")' => \A u \in Users : job'[q].users[u] = "out"
BY DEF TypeInv, At, Stage

LEMMA HandleType ==
  ASSUME TypeInv, NEW p \in Processes, NEW u \in Users, Handle(p, u) \/ Blip(p, u)
  PROVE  TypeInv'
<1>1. M(p, u) \in Messages
  BY RunIsRun
<1>2. At(p, "batches")
  BY MovingIsBatching DEF Handle, Look, ClaimSend, SendReported, SendFails, Release, Blip
<1>3. job' \in [Processes -> JobType] /\ (\A q \in Processes \ {p} : job'[q] = job[q])
      /\ job'[p].at = "batches"
  <2>1. CASE CountFailed(p, u)
    BY <2>1, <1>2, CountEffect DEF At
  <2>2. CASE \E s \in Stages : Move(p, u, s)
    BY <2>2, <1>2, MoveEffect DEF At
  <2> QED
    BY <2>1, <2>2 DEF Handle, Look, ClaimSend, SendReported, SendFails, Release, Blip, Stages
<1>4. \A q \in Processes : ~At(q, "batches")' => \A v \in Users : job'[q].users[v] = "out"
  BY <1>3, TypeFrame
<1>5. CASE Look(p, u) \/ ClaimSend(p, u) \/ Release(p, u)
  BY <1>1, <1>3, <1>4, <1>5
     DEF Look, ClaimSend, Release, CountFailed, TypeInv, world, rows, past, M, At, Stage
<1>6. CASE SendReported(p, u)
  <2>1. mail' \in [Messages -> Nat]
    BY <1>6, DeliverType DEF SendReported
  <2>2. confirmed' \in [Messages -> Nat]
    BY <1>1, <1>6 DEF SendReported, TypeInv, M
  <2> QED
    BY <1>3, <1>4, <1>6, <2>1, <2>2 DEF SendReported, TypeInv, world, rows, At, Stage
<1>7. CASE SendFails(p, u)
  <2>1. mail' \in [Messages -> Nat]
    BY <1>7, DeliverType DEF SendFails, MayDeliver
  <2> QED
    BY <1>3, <1>4, <1>7, <2>1 DEF SendFails, Trouble, TypeInv, world, rows, At, Stage
<1>8. CASE Blip(p, u)
  BY <1>1, <1>3, <1>4, <1>8 DEF Blip, Trouble, CountFailed, TypeInv, world, rows, M, At, Stage
<1> QED
  BY <1>5, <1>6, <1>7, <1>8 DEF Handle

\* What the other steps of a process do to it.
OnlyOf(p) == job' \in [Processes -> JobType] /\ \A q \in Processes \ {p} : job'[q] = job[q]

LEMMA JobEffect ==
  ASSUME TypeInv, NEW p \in Processes, NEW next \in JobType, job' = [job EXCEPT ![p] = next]
  PROVE  OnlyOf(p) /\ job'[p] = next
BY DEF TypeInv, OnlyOf

LEMMA WakeEffect ==
  ASSUME TypeInv, NEW w \in Processes, Wake(w)
  PROVE  OnlyOf(w) /\ job'[w].at = "next" /\ job'[w].users = job[w].users
<1>1. DueJobs(now) \in Seq(Runs)
  BY DueAreRuns DEF TypeInv
<1> DEFINE next == [[job[w] EXCEPT !.at = "next"] EXCEPT !.queue = DueJobs(now)]
<1>2. job' = [job EXCEPT ![w] = next]
  BY DEF Wake, TypeInv, JobType
<1>3. next \in JobType /\ next.at = "next" /\ next.users = job[w].users
  BY <1>1 DEF JobType, Labels, TypeInv
<1> HIDE DEF next
<1> QED
  BY <1>2, <1>3, JobEffect

LEMMA ClaimRunEffect ==
  ASSUME TypeInv, NEW w \in Processes, ClaimRun(w)
  PROVE  /\ OnlyOf(w) /\ job'[w].users = job[w].users
         /\ \/ /\ job'[w].run \in Runs \ runs /\ job'[w].at = "recipients"
               /\ runs' = runs \cup {job'[w].run}
            \/ job'[w].at = "next" /\ runs' = runs
<1> DEFINE r == Head(job[w].queue)
<1>1. job[w] \in JobType /\ job[w].at = "next"
  BY DEF ClaimRun, At, TypeInv
<1>2. r \in Runs /\ Tail(job[w].queue) \in Seq(Runs)
  BY <1>1 DEF ClaimRun, JobType
<1> DEFINE taken == [[[job[w] EXCEPT !.at = "recipients"] EXCEPT !.run = r] EXCEPT !.queue = Tail(job[w].queue)]
<1> DEFINE left == [job[w] EXCEPT !.queue = Tail(job[w].queue)]
<1>3. taken \in JobType /\ taken.at = "recipients" /\ taken.run = r /\ taken.users = job[w].users
      /\ left \in JobType /\ left.at = "next" /\ left.users = job[w].users
  BY <1>1, <1>2 DEF JobType, Labels
<1>4. \/ r \notin runs /\ job' = [job EXCEPT ![w] = taken] /\ runs' = runs \cup {r}
      \/ job' = [job EXCEPT ![w] = left] /\ runs' = runs
  BY <1>1 DEF ClaimRun, Admits, TypeInv, JobType
<1> HIDE DEF taken, left, r
<1> QED
  BY <1>2, <1>3, <1>4, JobEffect

LEMMA RunByHandEffect ==
  ASSUME TypeInv, NEW o \in Processes, RunByHand(o)
  PROVE  OnlyOf(o) /\ job'[o].at = "recipients" /\ job'[o].users = job[o].users
<1>1. PICK r \in Runs : job' = [job EXCEPT ![o].at = "recipients", ![o].run = r]
  BY DEF RunByHand
<1>2. job[o] \in JobType
  BY DEF TypeInv
<1> DEFINE next == [[job[o] EXCEPT !.at = "recipients"] EXCEPT !.run = r]
<1>3. next \in JobType /\ next.at = "recipients" /\ next.users = job[o].users
  BY <1>2 DEF JobType, Labels
<1>4. job' = [job EXCEPT ![o] = next]
  BY <1>1, <1>2 DEF TypeInv, JobType
<1> HIDE DEF next
<1> QED
  BY <1>3, <1>4, JobEffect

LEMMA RecipientsEffect ==
  ASSUME TypeInv, NEW p \in Processes, Recipients(p)
  PROVE  /\ OnlyOf(p) /\ job'[p].at = "batches" /\ job'[p].run = job[p].run
         /\ \A u \in Users :
              \/ job'[p].users[u] = "wait"
              \/ /\ job'[p].users[u] = "out"
                 /\ job'[p].cut \/ Run(p).job \in Unreported \/ PassesOver(Run(p).job, u)
<1>1. PICK U \in SUBSET Asked(Run(p).job) :
        job' = [job EXCEPT ![p].at = "batches",
                  ![p].cut = (U # Asked(Run(p).job) /\ Run(p).job \notin Unreported),
                  ![p].users = [u \in Users |-> IF u \in U THEN "wait" ELSE "out"]]
  BY DEF Recipients
<1> DEFINE them == [u \in Users |-> IF u \in U THEN "wait" ELSE "out"]
<1> DEFINE cutting == (U # Asked(Run(p).job) /\ Run(p).job \notin Unreported)
<1> DEFINE next == [[[job[p] EXCEPT !.at = "batches"] EXCEPT !.cut = cutting] EXCEPT !.users = them]
<1>2. them \in [Users -> Stages] /\ cutting \in BOOLEAN
  BY DEF Stages
<1>3. job[p] \in JobType
  BY DEF TypeInv
<1>4. job' = [job EXCEPT ![p] = next]
  BY <1>1, <1>3 DEF TypeInv, JobType
<1>5. \A u \in Users :
        \/ them[u] = "wait"
        \/ /\ them[u] = "out"
           /\ cutting \/ Run(p).job \in Unreported \/ PassesOver(Run(p).job, u)
  <2> SUFFICES ASSUME NEW u \in Users, u \notin U, ~cutting, Run(p).job \notin Unreported
               PROVE  PassesOver(Run(p).job, u)
    OBVIOUS
  <2>1. u \notin Asked(Run(p).job)
    OBVIOUS
  <2> QED
    BY <2>1 DEF Asked
<1> HIDE DEF them, cutting
<1>6. next \in JobType /\ next.at = "batches" /\ next.run = job[p].run /\ next.cut = cutting
      /\ next.users = them
  BY <1>2, <1>3 DEF JobType, Labels
<1> HIDE DEF next
<1> QED
  BY <1>4, <1>5, <1>6, JobEffect

LEMMA StartBatchEffect ==
  ASSUME TypeInv, NEW p \in Processes, StartBatch(p)
  PROVE  /\ OnlyOf(p) /\ job[p].at = "batches" /\ job'[p].at = "batches"
         /\ job'[p].run = job[p].run /\ job'[p].cut = job[p].cut
         /\ \A u \in Users : job'[p].users[u] \in {"look", job[p].users[u]} /\ ~Sending(p, u)
<1>1. PICK B \in SUBSET Users :
        job' = [job EXCEPT ![p].users = [u \in Users |-> IF u \in B THEN "look" ELSE @[u]]]
  BY DEF StartBatch
<1> DEFINE them == [u \in Users |-> IF u \in B THEN "look" ELSE job[p].users[u]]
<1> DEFINE next == [job[p] EXCEPT !.users = them]
<1>2. job[p] \in JobType /\ job[p].at = "batches" /\ \A u \in Users : ~Sending(p, u)
  BY DEF TypeInv, StartBatch, At, Sending
<1>3. them \in [Users -> Stages] /\ \A u \in Users : them[u] \in {"look", job[p].users[u]}
  BY <1>2 DEF Stages, JobType
<1>4. job' = [job EXCEPT ![p] = next]
  BY <1>1
<1> HIDE DEF them
<1>5. next \in JobType /\ next.at = "batches" /\ next.run = job[p].run /\ next.cut = job[p].cut
      /\ next.users = them
  BY <1>2, <1>3 DEF JobType
<1> HIDE DEF next
<1> QED
  BY <1>2, <1>3, <1>4, <1>5, JobEffect

LEMMA RunRaisesEffect ==
  ASSUME TypeInv, NEW w \in Processes, RunRaises(w)
  PROVE  /\ OnlyOf(w) /\ job[w].at = "recipients" /\ job'[w].at = "release run"
         /\ job'[w].run = job[w].run /\ job'[w].users = job[w].users
<1>1. job[w] \in JobType
  BY DEF TypeInv
<1> DEFINE next == [job[w] EXCEPT !.at = "release run"]
<1>2. next \in JobType /\ next.at = "release run" /\ next.run = job[w].run /\ next.users = job[w].users
  BY <1>1 DEF JobType, Labels
<1>3. job' = [job EXCEPT ![w] = next]
  BY DEF RunRaises, Goto
<1> HIDE DEF next
<1> QED
  BY <1>2, <1>3, JobEffect DEF RunRaises, At

LEMMA Unmoved ==
  ASSUME TypeInv, NEW p \in Processes, OnlyOf(p),
         job[p].at # "batches", job'[p].users = job[p].users
  PROVE  \A q \in Processes : ~At(q, "batches")' => \A u \in Users : job'[q].users[u] = "out"
<1>1. \A u \in Users : job[p].users[u] = "out"
  BY DEF TypeInv, At, Stage
<1> QED
  BY <1>1, TypeFrame DEF OnlyOf

LEMMA StepType == TypeInv /\ [Next]_vars => TypeInv'
<1> SUFFICES ASSUME TypeInv, [Next]_vars PROVE TypeInv'
  OBVIOUS
<1>1. CASE Tick \/ UNCHANGED vars
  BY <1>1, Bounds DEF Tick, TypeInv, vars, world, rows, past, At, Stage
<1>2. ASSUME NEW u \in Users, Act(u) PROVE TypeInv'
  BY <1>2 DEF Act, TypeInv, rows, past, At, Stage
<1>3. ASSUME NEW w \in Processes, Wake(w) PROVE TypeInv'
  <2>1. OnlyOf(w) /\ job[w].at # "batches" /\ job'[w].users = job[w].users
    BY <1>3, WakeEffect DEF Wake, At
  <2>2. \A q \in Processes : ~At(q, "batches")' => \A u \in Users : job'[q].users[u] = "out"
    BY <2>1, Unmoved
  <2> QED
    BY <1>3, <2>1, <2>2 DEF OnlyOf, Wake, TypeInv, world, rows, past, At, Stage
<1>4. ASSUME NEW w \in Processes, EndTick(w) PROVE TypeInv'
  BY <1>4, RestEffect, TypeFrame DEF EndTick, TypeInv, world, rows, past, At, Stage
<1>5. ASSUME NEW w \in Processes, ClaimRun(w) PROVE TypeInv'
  <2>1. OnlyOf(w) /\ job[w].at # "batches" /\ job'[w].users = job[w].users
    BY <1>5, ClaimRunEffect DEF ClaimRun, At
  <2>2. \A q \in Processes : ~At(q, "batches")' => \A u \in Users : job'[q].users[u] = "out"
    BY <2>1, Unmoved
  <2>3. runs' \subseteq Runs
    BY <1>5, ClaimRunEffect DEF TypeInv
  <2> QED
    BY <1>5, <2>1, <2>2, <2>3 DEF OnlyOf, ClaimRun, TypeInv, world, past, At, Stage
<1>6. ASSUME NEW o \in Processes, RunByHand(o) PROVE TypeInv'
  <2>1. OnlyOf(o) /\ job[o].at # "batches" /\ job'[o].users = job[o].users
    BY <1>6, RunByHandEffect DEF RunByHand, At
  <2>2. \A q \in Processes : ~At(q, "batches")' => \A u \in Users : job'[q].users[u] = "out"
    BY <2>1, Unmoved
  <2> QED
    BY <1>6, <2>1, <2>2 DEF OnlyOf, RunByHand, TypeInv, world, rows, past, At, Stage
<1>7. ASSUME NEW p \in Processes, Recipients(p) PROVE TypeInv'
  <2>1. \A q \in Processes : ~At(q, "batches")' => \A u \in Users : job'[q].users[u] = "out"
    BY <1>7, RecipientsEffect, TypeFrame DEF OnlyOf
  <2> QED
    BY <1>7, <2>1, RecipientsEffect DEF OnlyOf, Recipients, TypeInv, world, rows, past, At, Stage
<1>8. ASSUME NEW p \in Processes, StartBatch(p) PROVE TypeInv'
  <2>1. \A q \in Processes : ~At(q, "batches")' => \A u \in Users : job'[q].users[u] = "out"
    BY <1>8, StartBatchEffect, TypeFrame DEF OnlyOf
  <2> QED
    BY <1>8, <2>1, StartBatchEffect DEF OnlyOf, StartBatch, TypeInv, world, rows, past, At, Stage
<1>9. ASSUME NEW p \in Processes, NEW u \in Users, Handle(p, u) \/ Blip(p, u) PROVE TypeInv'
  BY <1>9, HandleType
<1>10. ASSUME NEW w \in Processes, FinishRun(w) \/ ReleaseRun(w) PROVE TypeInv'
  <2>1. job' \in [Processes -> JobType]
        /\ \A q \in Processes : ~At(q, "batches")' => \A u \in Users : job'[q].users[u] = "out"
    BY <1>10, NextJobEffect, TypeFrame DEF FinishRun, ReleaseRun
  <2>2. CASE FinishRun(w)
    BY <2>1, <2>2, RunIsRun DEF FinishRun, TypeInv, world, At, Stage
  <2>3. CASE ReleaseRun(w)
    BY <2>1, <2>3, RunIsRun DEF ReleaseRun, TypeInv, world, past, At, Stage
  <2> QED
    BY <1>10, <2>2, <2>3
<1>11. ASSUME NEW o \in Processes, Answer(o) PROVE TypeInv'
  BY <1>11, RestEffect, TypeFrame DEF Answer, TypeInv, world, rows, past, At, Stage
<1>12. ASSUME NEW w \in Processes, RunRaises(w) PROVE TypeInv'
  <2>1. OnlyOf(w) /\ job[w].at # "batches" /\ job'[w].users = job[w].users
    BY <1>12, RunRaisesEffect
  <2>2. \A q \in Processes : ~At(q, "batches")' => \A u \in Users : job'[q].users[u] = "out"
    BY <2>1, Unmoved
  <2>3. trouble' \in Nat
    BY <1>12, TroubleType DEF RunRaises
  <2>4. UNCHANGED <<now, active, cap, runs, finished, claims, mail, confirmed, failures, lost, clean>>
    BY <1>12 DEF RunRaises, world, rows
  <2> QED
    BY <2>1, <2>2, <2>3, <2>4 DEF OnlyOf, TypeInv, At, Stage
<1>13. ASSUME NEW p \in Processes, Die(p) \/ (p \in Workers /\ TickFails(p)) PROVE TypeInv'
  <2>1. job' \in [Processes -> JobType]
        /\ \A q \in Processes : ~At(q, "batches")' => \A u \in Users : job'[q].users[u] = "out"
    BY <1>13, RestEffect, TypeFrame DEF Die, TickFails
  <2>2. Held(p) \subseteq Runs \cup Messages
    BY HeldRows
  <2>3. mail' \in [Messages -> Nat]
    <3>1. CASE Die(p)
      BY <3>1, DeliverType DEF Die, MayDeliver
    <3>2. CASE TickFails(p)
      BY <3>2 DEF TickFails, TypeInv
    <3> QED
      BY <1>13, <3>1, <3>2
  <2> QED
    <3>1. CASE Die(p)
      BY <3>1, <2>1, <2>2, <2>3 DEF Die, Trouble, TypeInv, world, rows, At, Stage
    <3>2. CASE TickFails(p)
      <4>1. trouble' \in Nat /\ lost' = lost \cup Held(p)
        BY <3>2, TroubleType DEF TickFails
      <4>2. UNCHANGED <<now, active, cap, runs, finished, claims, mail, confirmed, failures, clean>>
        BY <3>2 DEF TickFails, world, rows
      <4> QED
        BY <4>1, <4>2, <2>1, <2>2 DEF TypeInv, At, Stage
    <3> QED
      BY <1>13, <3>1, <3>2
<1> QED
  BY <1>1, <1>2, <1>3, <1>4, <1>5, <1>6, <1>7, <1>8, <1>9, <1>10, <1>11, <1>12, <1>13
     DEF Next, WorkerStep, Step, Processes
------------------------------------------------------------------------------
LEMMA HandleEffect ==
  ASSUME TypeInv, NEW p \in Processes, NEW u \in Users, Handle(p, u) \/ Blip(p, u)
  PROVE  /\ OnlyOf(p) /\ job[p].at = "batches" /\ job'[p].at = "batches"
         /\ job'[p].run = job[p].run /\ job'[p].cut = job[p].cut
         /\ \A v \in Users \ {u} : job'[p].users[v] = job[p].users[v]
         /\ UNCHANGED <<now, active, cap, runs, finished, clean>>
         /\ lost' = lost \/ (lost' = lost \cup {M(p, u)} /\ M(p, u) \in Messages)
<1>1. job[p].at = "batches"
  BY MovingIsBatching DEF At, Handle, Look, ClaimSend, SendReported, SendFails, Release, Blip
<1>2. /\ OnlyOf(p) /\ job'[p].at = job[p].at
      /\ job'[p].run = job[p].run /\ job'[p].cut = job[p].cut
      /\ \A v \in Users \ {u} : job'[p].users[v] = job[p].users[v]
  <2>1. CASE \E s \in Stages : Move(p, u, s)
    BY <2>1, MoveEffect DEF OnlyOf
  <2>2. CASE CountFailed(p, u)
    BY <2>2, CountEffect DEF OnlyOf
  <2> QED
    BY <2>1, <2>2 DEF Handle, Look, ClaimSend, SendReported, SendFails, Release, Blip, Stages
<1>5. /\ UNCHANGED <<now, active, cap, runs, finished, clean>>
      /\ lost' = lost \/ lost' = lost \cup {M(p, u)}
  BY DEF Handle, Look, ClaimSend, SendReported, SendFails, Release, Blip, world, rows, past, M
<1>6. M(p, u) \in Messages
  BY RunIsRun
<1> QED
  BY <1>1, <1>2, <1>5, <1>6

\* RunsHeld depends on no more than the rows of the runs and who has one.
LEMMA RunsFrame ==
  ASSUME TypeInv, RunsHeld, UNCHANGED <<runs, finished>>,
         \A r \in Runs : r \in lost' <=> r \in lost,
         \A w \in Workers : (HasRun(w)' <=> HasRun(w)) /\ (HasRun(w) => Run(w)' = Run(w))
  PROVE  RunsHeld'
<1>1. runs \subseteq Runs /\ \A w \in Workers : Run(w) \in Runs
  BY RunIsRun DEF TypeInv, Processes
<1>2. \A v, w \in Workers : HasRun(v)' /\ HasRun(w)' /\ Run(v)' = Run(w)' => v = w
  BY DEF RunsHeld
<1>3. \A w \in Workers : HasRun(w)' => Run(w)' \in runs' /\ Run(w)' \notin finished' \cup lost'
  BY <1>1 DEF RunsHeld
<1>4. \A r \in runs' : r \in finished' \cup lost' \/ \E w \in Workers : HasRun(w)' /\ Run(w)' = r
  BY <1>1 DEF RunsHeld
<1>5. \A r \in Runs : r \in lost' => r \in runs' /\ r \notin finished'
  BY DEF RunsHeld
<1> QED
  BY <1>2, <1>3, <1>4, <1>5 DEF RunsHeld

\* What a step of one process leaves as it was at the others.
LEMMA OthersRuns ==
  ASSUME NEW p \in Processes, OnlyOf(p), NEW w \in Workers \ {p}
  PROVE  (HasRun(w)' <=> HasRun(w)) /\ Run(w)' = Run(w)
BY DEF OnlyOf, HasRun, Run, Processes

\* A step of a process that holds the row of a run before and after, or neither.
LEMMA RunsFrameOf ==
  ASSUME TypeInv, RunsHeld, UNCHANGED <<runs, finished>>, NEW p \in Processes, OnlyOf(p),
         \A r \in Runs : r \in lost' <=> r \in lost,
         \/ p \notin Workers
         \/ HasRun(p) /\ HasRun(p)' /\ Run(p)' = Run(p)
         \/ ~HasRun(p) /\ ~HasRun(p)'
  PROVE  RunsHeld'
<1>1. \A w \in Workers : (HasRun(w)' <=> HasRun(w)) /\ (HasRun(w) => Run(w)' = Run(w))
  BY OthersRuns
<1> QED
  BY <1>1, RunsFrame

\* A worker lets go of its run: it is finished, given back or left behind.
LEMMA RunsLetGo ==
  ASSUME TypeInv, RunsHeld, NEW w \in Workers, OnlyOf(w), HasRun(w), ~HasRun(w)',
         \/ runs' = runs /\ finished' = finished \cup {Run(w)} /\ lost' = lost
         \/ runs' = runs \ {Run(w)} /\ finished' = finished /\ lost' = lost
         \/ /\ runs' = runs /\ finished' = finished
            /\ \A r \in Runs : r \in lost' <=> r \in lost \/ r = Run(w)
  PROVE  RunsHeld'
<1>1. w \in Processes /\ Run(w) \in Runs /\ Run(w) \in runs /\ Run(w) \notin finished \cup lost
  BY RunIsRun DEF RunsHeld, Processes
<1>2. runs \subseteq Runs /\ \A v \in Workers : Run(v) \in Runs
  BY RunIsRun DEF TypeInv, Processes
<1>3. \A v \in Workers \ {w} : (HasRun(v)' <=> HasRun(v)) /\ Run(v)' = Run(v)
  BY <1>1, OthersRuns
<1>4. \A v \in Workers \ {w} : HasRun(v) => Run(v) # Run(w)
  BY DEF RunsHeld
<1>5. \A v \in Workers : HasRun(v)' => Run(v)' \in runs' /\ Run(v)' \notin finished' \cup lost'
  BY <1>2, <1>3, <1>4 DEF RunsHeld
<1>6. \A v, x \in Workers : HasRun(v)' /\ HasRun(x)' /\ Run(v)' = Run(x)' => v = x
  BY <1>3 DEF RunsHeld
<1>7. \A r \in runs' : r \in finished' \cup lost' \/ \E v \in Workers : HasRun(v)' /\ Run(v)' = r
  <2> SUFFICES ASSUME NEW r \in runs', r \notin finished' \cup lost'
               PROVE  \E v \in Workers : HasRun(v)' /\ Run(v)' = r
    OBVIOUS
  <2>1. r \in runs /\ r \notin finished \cup lost /\ r # Run(w)
    BY <1>1, <1>2
  <2>2. PICK v \in Workers : HasRun(v) /\ Run(v) = r
    BY <2>1 DEF RunsHeld
  <2> QED
    BY <1>3, <2>1, <2>2
<1>8. \A r \in Runs : r \in lost' => r \in runs' /\ r \notin finished'
  BY <1>1 DEF RunsHeld
<1>9. finished' \subseteq runs'
  BY <1>1 DEF RunsHeld
<1> QED
  BY <1>5, <1>6, <1>7, <1>8, <1>9 DEF RunsHeld

LEMMA RunsClaimed ==
  ASSUME TypeInv, RunsHeld, NEW w \in Workers, ClaimRun(w)
  PROVE  RunsHeld'
<1>1. w \in Processes /\ OnlyOf(w) /\ ~HasRun(w) /\ finished' = finished /\ lost' = lost
  BY ClaimRunEffect DEF ClaimRun, HasRun, At, past, Processes
<1>2. CASE job'[w].at = "next" /\ runs' = runs
  BY <1>1, <1>2, RunsFrameOf DEF HasRun
<1>3. CASE /\ job'[w].run \in Runs \ runs /\ job'[w].at = "recipients"
           /\ runs' = runs \cup {job'[w].run}
  <2>1. Run(w)' \in Runs \ runs /\ HasRun(w)' /\ runs' = runs \cup {Run(w)'}
    BY <1>3 DEF Run, HasRun
  <2>2. \A v \in Workers \ {w} : (HasRun(v)' <=> HasRun(v)) /\ Run(v)' = Run(v)
    BY <1>1, OthersRuns
  <2>3. \A v \in Workers \ {w} : HasRun(v) => Run(v) \in runs /\ Run(v) # Run(w)'
    BY <2>1 DEF RunsHeld
  <2>4. Run(w)' \notin finished \cup lost
    BY <2>1 DEF RunsHeld
  <2>5. \A v \in Workers : HasRun(v)' => Run(v)' \in runs' /\ Run(v)' \notin finished' \cup lost'
    BY <1>1, <2>1, <2>2, <2>4 DEF RunsHeld
  <2>6. \A v, x \in Workers : HasRun(v)' /\ HasRun(x)' /\ Run(v)' = Run(x)' => v = x
    BY <2>2, <2>3 DEF RunsHeld
  <2>7. \A r \in runs' : r \in finished' \cup lost' \/ \E v \in Workers : HasRun(v)' /\ Run(v)' = r
    BY <1>1, <2>1, <2>2 DEF RunsHeld
  <2>8. \A r \in Runs : r \in lost' => r \in runs' /\ r \notin finished'
    BY <1>1, <2>1 DEF RunsHeld
  <2>9. finished' \subseteq runs'
    BY <1>1, <2>1 DEF RunsHeld
  <2> QED
    BY <2>5, <2>6, <2>7, <2>8, <2>9 DEF RunsHeld
<1> QED
  BY <1>2, <1>3, <1>1, ClaimRunEffect

\* A process dies, or an exception ends a worker's tick.
LEMMA RunsLeft ==
  ASSUME TypeInv, RunsHeld, NEW p \in Processes, Die(p) \/ TickFails(p)
  PROVE  RunsHeld'
<1>1. OnlyOf(p) /\ ~HasRun(p)' /\ UNCHANGED <<runs, finished>> /\ lost' = lost \cup Held(p)
  BY RestEffect DEF Die, TickFails, OnlyOf, HasRun, rows
<1>2. CASE p \in Workers /\ HasRun(p)
  <2>1. \A r \in Runs : r \in Held(p) <=> r = Run(p)
    BY <1>2, HeldRows, RunsAreNoMessages
  <2> QED
    BY <1>1, <1>2, <2>1, RunsLetGo
<1>3. CASE ~(p \in Workers /\ HasRun(p))
  <2>1. \A r \in Runs : r \notin Held(p)
    BY <1>3, HeldRows, RunsAreNoMessages
  <2> QED
    BY <1>1, <1>3, <2>1, RunsFrameOf
<1> QED
  BY <1>2, <1>3

LEMMA RunsStep == TypeInv /\ RunsHeld /\ [Next]_vars => RunsHeld'
<1> SUFFICES ASSUME TypeInv, RunsHeld, [Next]_vars PROVE RunsHeld'
  OBVIOUS
<1>1. CASE Tick \/ UNCHANGED vars
  BY <1>1, RunsFrame DEF Tick, vars, rows, past, HasRun, Run
<1>2. ASSUME NEW u \in Users, Act(u) PROVE RunsHeld'
  BY <1>2, RunsFrame DEF Act, rows, past, HasRun, Run
<1>3. ASSUME NEW p \in Processes, Wake(p) \/ EndTick(p) PROVE RunsHeld'
  <2>1. OnlyOf(p) /\ ~HasRun(p) /\ ~HasRun(p)' /\ UNCHANGED <<rows, past>>
    BY <1>3, WakeEffect, RestEffect DEF Wake, EndTick, At, HasRun, OnlyOf
  <2> QED
    BY <2>1, RunsFrameOf DEF rows, past
<1>4. ASSUME NEW w \in Workers, ClaimRun(w) PROVE RunsHeld'
  BY <1>4, RunsClaimed
<1>5. ASSUME NEW o \in Operators, RunByHand(o) \/ Answer(o) PROVE RunsHeld'
  <2>1. o \in Processes /\ o \notin Workers /\ OnlyOf(o) /\ UNCHANGED <<rows, past>>
    BY <1>5, RunByHandEffect, RestEffect, SchedulerAssumption DEF RunByHand, Answer, Processes, OnlyOf
  <2> QED
    BY <2>1, RunsFrameOf DEF rows, past
<1>6. ASSUME NEW p \in Processes, Recipients(p) \/ StartBatch(p) \/ RunRaises(p) PROVE RunsHeld'
  <2>1. OnlyOf(p) /\ HasRun(p) /\ HasRun(p)' /\ Run(p)' = Run(p)
    BY <1>6, RecipientsEffect, StartBatchEffect, RunRaisesEffect DEF Recipients, At, HasRun, Run
  <2> QED
    BY <1>6, <2>1, RunsFrameOf DEF Recipients, StartBatch, RunRaises, rows, past
<1>7. ASSUME NEW p \in Processes, NEW u \in Users, Handle(p, u) \/ Blip(p, u) PROVE RunsHeld'
  <2>1. OnlyOf(p) /\ HasRun(p) /\ HasRun(p)' /\ Run(p)' = Run(p)
    BY <1>7, HandleEffect DEF HasRun, Run
  <2>2. UNCHANGED <<runs, finished>> /\ \A r \in Runs : r \in lost' <=> r \in lost
    BY <1>7, HandleEffect, RunsAreNoMessages
  <2> QED
    BY <2>1, <2>2, RunsFrameOf
<1>8. ASSUME NEW w \in Workers, FinishRun(w) \/ ReleaseRun(w) PROVE RunsHeld'
  <2>1. OnlyOf(w) /\ HasRun(w) /\ ~HasRun(w)'
    BY <1>8, NextJobEffect DEF FinishRun, ReleaseRun, AllDone, At, HasRun, OnlyOf, Processes
  <2> QED
    BY <1>8, <2>1, RunsLetGo DEF FinishRun, ReleaseRun, past
<1>9. ASSUME NEW p \in Processes, Die(p) \/ TickFails(p) PROVE RunsHeld'
  BY <1>9, RunsLeft
<1> QED
  BY <1>1, <1>2, <1>3, <1>4, <1>5, <1>6, <1>7, <1>8, <1>9 DEF Next, WorkerStep, Step, Processes

------------------------------------------------------------------------------
\* What the claims are about: who is sending what.
SameSending(q, v) ==
  /\ (Sending(q, v)' <=> Sending(q, v))
  /\ (Stage(q, v)' = "send" <=> Stage(q, v) = "send")
  /\ (Sending(q, v) => M(q, v)' = M(q, v))

LEMMA OthersSending ==
  ASSUME NEW p \in Processes, OnlyOf(p), NEW q \in Processes \ {p}, NEW v \in Users
  PROVE  SameSending(q, v)
BY DEF OnlyOf, SameSending, Sending, Stage, M, Run

LEMMA ClaimsFrame ==
  ASSUME TypeInv, ClaimsHeld, MailOnce, UNCHANGED <<claims, confirmed, mail, failures>>,
         \A m \in Messages : m \in lost' <=> m \in lost,
         \A q \in Processes, v \in Users : SameSending(q, v)
  PROVE  ClaimsHeld' /\ MailOnce'
<1>1. claims \subseteq Messages /\ \A q \in Processes, v \in Users : M(q, v) \in Messages
  BY RunIsRun DEF TypeInv
<1>2. \A q \in Processes, v \in Users : Sending(q, v)' =>
        M(q, v)' \in claims' /\ M(q, v)' \notin lost' /\ confirmed'[M(q, v)'] = 0
  BY <1>1 DEF ClaimsHeld, SameSending
<1>3. \A p, q \in Processes, v \in Users :
        Sending(p, v)' /\ Sending(q, v)' /\ M(p, v)' = M(q, v)' => p = q
  BY DEF ClaimsHeld, SameSending
<1>4. \A m \in claims' : \/ m \in lost' \/ confirmed'[m] = 1
                         \/ \E q \in Processes, v \in Users : Sending(q, v)' /\ M(q, v)' = m
  BY <1>1 DEF ClaimsHeld, SameSending
<1>5. \A m \in Messages : m \in lost' => m \in claims' /\ confirmed'[m] = 0
  BY DEF ClaimsHeld
<1>6. \A m \in Messages : m \notin claims' => confirmed'[m] = 0
  BY DEF ClaimsHeld
<1>7. \A q \in Processes, v \in Users : Stage(q, v)' = "send" =>
        Stage(q, v) = "send" /\ M(q, v)' = M(q, v)
  BY DEF SameSending, Sending
<1>8. MailOnce'
  BY <1>7 DEF MailOnce
<1> QED
  BY <1>2, <1>3, <1>4, <1>5, <1>6, <1>8 DEF ClaimsHeld

\* A step of one process that changes none of its sends.
LEMMA ClaimsFrameOf ==
  ASSUME TypeInv, ClaimsHeld, MailOnce, UNCHANGED <<claims, confirmed, mail, failures>>,
         \A m \in Messages : m \in lost' <=> m \in lost,
         NEW p \in Processes, OnlyOf(p), \A v \in Users : SameSending(p, v)
  PROVE  ClaimsHeld' /\ MailOnce'
<1>1. \A q \in Processes, v \in Users : SameSending(q, v)
  BY OthersSending
<1> QED
  BY <1>1, ClaimsFrame

LEMMA QuietSending ==
  ASSUME NEW p \in Processes,
         \A u \in Users : job[p].users[u] = "out" /\ job'[p].users[u] \in {"out", "wait"}
  PROVE  \A u \in Users : SameSending(p, u)
BY DEF SameSending, Sending, Stage

\* What a handler leaves as it was: the sends of every other customer.
LEMMA ElseSending ==
  ASSUME TypeInv, NEW p \in Processes, NEW u \in Users, Handle(p, u) \/ Blip(p, u)
  PROVE  /\ \A q \in Processes, v \in Users : q # p \/ v # u => SameSending(q, v)
         /\ \A q \in Processes, v \in Users : M(q, v)' = M(q, v)
<1>1. OnlyOf(p) /\ job'[p].run = job[p].run
      /\ \A v \in Users \ {u} : job'[p].users[v] = job[p].users[v]
  BY HandleEffect
<1>2. \A q \in Processes : Run(q)' = Run(q)
  BY <1>1 DEF OnlyOf, Run
<1>3. \A v \in Users \ {u} : SameSending(p, v)
  BY <1>1, <1>2 DEF SameSending, Sending, Stage, M
<1>4. \A q \in Processes \ {p}, v \in Users : SameSending(q, v)
  BY <1>1, OthersSending
<1> QED
  BY <1>2, <1>3, <1>4 DEF M

\* Two sends of a message are sends to the same customer, and by one sender.
LEMMA OneSender ==
  ASSUME TypeInv, ClaimsHeld, NEW p \in Processes, NEW u \in Users, Sending(p, u),
         NEW q \in Processes, NEW v \in Users, Sending(q, v), M(q, v) = M(p, u)
  PROVE  q = p /\ v = u
<1>1. v = u
  BY RunIsRun
<1> QED
  BY <1>1 DEF ClaimsHeld

LEMMA MessageClaimed ==
  ASSUME TypeInv, ClaimsHeld, MailOnce, NEW p \in Processes, NEW u \in Users, ClaimSend(p, u)
  PROVE  ClaimsHeld' /\ MailOnce'
<1>1. Stage(p, u) = "claim" /\ ~Sending(p, u) /\ UNCHANGED <<confirmed, mail, failures, lost>>
  BY DEF ClaimSend, Sending, past
<1>2. /\ \A q \in Processes, v \in Users : q # p \/ v # u => SameSending(q, v)
      /\ \A q \in Processes, v \in Users : M(q, v)' = M(q, v)
  BY ElseSending DEF Handle
<1>3. M(p, u) \in Messages /\ claims \subseteq Messages
  BY RunIsRun DEF TypeInv
<1>4. CASE M(p, u) \in claims
  <2>1. Stage(p, u)' = "done" /\ claims' = claims
    BY <1>4, MoveEffect DEF ClaimSend, Admits, Stages, Stage, M
  <2>2. SameSending(p, u)
    BY <1>1, <2>1 DEF SameSending, Sending
  <2>3. \A q \in Processes, v \in Users : SameSending(q, v)
    BY <1>2, <2>2
  <2> QED
    BY <1>1, <2>1, <2>3, ClaimsFrame
<1>5. CASE M(p, u) \notin claims
  <2>1. Stage(p, u)' = "send" /\ claims' = claims \cup {M(p, u)}
    BY <1>5, MoveEffect DEF ClaimSend, Admits, Stages, Stage, M
  <2>2. M(p, u) \notin lost /\ confirmed[M(p, u)] = 0
    BY <1>3, <1>5 DEF ClaimsHeld
  <2>3. \A q \in Processes, v \in Users : Sending(q, v) => M(q, v) # M(p, u)
    BY <1>5 DEF ClaimsHeld
  <2>4. \A q \in Processes, v \in Users : Sending(q, v)' => Sending(q, v) \/ (q = p /\ v = u)
    BY <1>2 DEF SameSending
  <2>5. \A q \in Processes, v \in Users : Sending(q, v)' =>
          M(q, v)' \in claims' /\ M(q, v)' \notin lost' /\ confirmed'[M(q, v)'] = 0
    BY <1>1, <1>2, <2>1, <2>2, <2>4 DEF ClaimsHeld
  <2>6. \A q, r \in Processes, v \in Users :
          Sending(q, v)' /\ Sending(r, v)' /\ M(q, v)' = M(r, v)' => q = r
    BY <1>2, <2>3, <2>4 DEF ClaimsHeld
  <2>7. \A m \in claims' : \/ m \in lost' \/ confirmed'[m] = 1
                           \/ \E q \in Processes, v \in Users : Sending(q, v)' /\ M(q, v)' = m
    <3> SUFFICES ASSUME NEW m \in claims', ~(m \in lost' \/ confirmed'[m] = 1)
                 PROVE  \E q \in Processes, v \in Users : Sending(q, v)' /\ M(q, v)' = m
      OBVIOUS
    <3>1. CASE m = M(p, u)
      BY <3>1, <1>2, <2>1 DEF Sending
    <3>2. CASE m # M(p, u)
      <4>1. PICK q \in Processes, v \in Users : Sending(q, v) /\ M(q, v) = m
        BY <3>2, <1>1, <2>1 DEF ClaimsHeld
      <4>2. Sending(q, v)'
        BY <1>1, <1>2, <4>1 DEF SameSending
      <4> QED
        BY <1>2, <4>1, <4>2
    <3> QED
      BY <3>1, <3>2
  <2>8. \A m \in Messages : m \in lost' => m \in claims' /\ confirmed'[m] = 0
    BY <1>1, <2>1 DEF ClaimsHeld
  <2>9. \A m \in Messages : m \notin claims' => confirmed'[m] = 0
    BY <1>1, <2>1 DEF ClaimsHeld
  <2>10. \A q \in Processes, v \in Users : Stage(q, v)' = "send" =>
           Stage(q, v) = "send" \/ M(q, v) = M(p, u)
    BY <1>2 DEF SameSending
  <2>11. M(p, u) \notin failures => mail[M(p, u)] = 0
    BY <1>3, <1>5 DEF MailOnce
  <2>12. MailOnce'
    BY <1>1, <1>2, <2>1, <2>10, <2>11 DEF MailOnce
  <2> QED
    BY <2>5, <2>6, <2>7, <2>8, <2>9, <2>12 DEF ClaimsHeld
<1> QED
  BY <1>4, <1>5

\* A sender lets go of its claim: it is confirmed, given back or left behind.
LEMMA ClaimLetGo ==
  ASSUME TypeInv, ClaimsHeld, NEW p \in Processes, NEW u \in Users,
         Handle(p, u) \/ Blip(p, u), Sending(p, u), ~Sending(p, u)',
         \/ claims' = claims /\ lost' = lost /\ confirmed' = [confirmed EXCEPT ![M(p, u)] = @ + 1]
         \/ claims' = claims \ {M(p, u)} /\ lost' = lost /\ confirmed' = confirmed
         \/ claims' = claims /\ lost' = lost \cup {M(p, u)} /\ confirmed' = confirmed
  PROVE  ClaimsHeld'
<1> DEFINE mine == M(p, u)
<1>1. /\ \A q \in Processes, v \in Users : q # p \/ v # u => SameSending(q, v)
      /\ \A q \in Processes, v \in Users : M(q, v)' = M(q, v)
  BY ElseSending
<1>2. \A q \in Processes, v \in Users : M(q, v) \in Messages
  BY RunIsRun
<1>3. mine \in Messages /\ claims \subseteq Messages /\ mine \in claims /\ mine \notin lost
      /\ confirmed[mine] = 0 /\ confirmed \in [Messages -> Nat]
  BY <1>2 DEF ClaimsHeld, TypeInv
<1>4. \A q \in Processes, v \in Users : Sending(q, v)' => Sending(q, v) /\ M(q, v) # mine
  BY <1>1, OneSender DEF SameSending
<1>5. \A q \in Processes, v \in Users : Sending(q, v) => Sending(q, v)' \/ M(q, v) = mine
  BY <1>1 DEF SameSending
<1>6. \A m \in Messages \ {mine} :
        confirmed'[m] = confirmed[m] /\ (m \in claims' <=> m \in claims) /\ (m \in lost' <=> m \in lost)
  BY <1>3
<1>7. \/ mine \in claims' /\ mine \notin lost' /\ confirmed'[mine] = 1
      \/ mine \notin claims' /\ mine \notin lost' /\ confirmed'[mine] = 0
      \/ mine \in claims' /\ mine \in lost' /\ confirmed'[mine] = 0
  BY <1>3
<1>8. claims' \subseteq Messages
  BY <1>3
<1> HIDE DEF mine
<1>9. \A q \in Processes, v \in Users : Sending(q, v)' =>
        M(q, v)' \in claims' /\ M(q, v)' \notin lost' /\ confirmed'[M(q, v)'] = 0
  BY <1>1, <1>2, <1>4, <1>6 DEF ClaimsHeld
<1>10. \A q, r \in Processes, v \in Users :
         Sending(q, v)' /\ Sending(r, v)' /\ M(q, v)' = M(r, v)' => q = r
  BY <1>1, <1>4 DEF ClaimsHeld
<1>11. \A m \in claims' : \/ m \in lost' \/ confirmed'[m] = 1
                          \/ \E q \in Processes, v \in Users : Sending(q, v)' /\ M(q, v)' = m
  <2> SUFFICES ASSUME NEW m \in claims', ~(m \in lost' \/ confirmed'[m] = 1)
               PROVE  \E q \in Processes, v \in Users : Sending(q, v)' /\ M(q, v)' = m
    OBVIOUS
  <2>1. m \in Messages \ {mine}
    BY <1>7, <1>8
  <2>2. PICK q \in Processes, v \in Users : Sending(q, v) /\ M(q, v) = m
    BY <1>6, <2>1 DEF ClaimsHeld
  <2> QED
    BY <1>1, <1>5, <2>1, <2>2
<1>12. \A m \in Messages : m \in lost' => m \in claims' /\ confirmed'[m] = 0
  BY <1>6, <1>7 DEF ClaimsHeld
<1>13. \A m \in Messages : m \notin claims' => confirmed'[m] = 0
  BY <1>6, <1>7 DEF ClaimsHeld
<1> QED
  BY <1>9, <1>10, <1>11, <1>12, <1>13 DEF ClaimsHeld

\* A handler that has sent, or given up, delivers its message once at most.
LEMMA MailSent ==
  ASSUME TypeInv, ClaimsHeld, MailOnce, NEW p \in Processes, NEW u \in Users,
         Handle(p, u) \/ Blip(p, u), Stage(p, u)' # "send", failures \subseteq failures',
         \/ mail' = mail /\ claims' = claims
         \/ mail' = mail /\ claims' = claims \ {M(p, u)} /\ M(p, u) \in failures'
         \/ Stage(p, u) = "send" /\ claims' = claims /\ MayDeliver({M(p, u)})
  PROVE  MailOnce'
<1>1. /\ \A q \in Processes, v \in Users : q # p \/ v # u => SameSending(q, v)
      /\ \A q \in Processes, v \in Users : M(q, v)' = M(q, v)
  BY ElseSending
<1>2. \A q \in Processes, v \in Users : Stage(q, v)' = "send" =>
        Stage(q, v) = "send" /\ ~(q = p /\ v = u)
  BY <1>1 DEF SameSending
<1>3. M(p, u) \in Messages /\ \A q \in Processes, v \in Users : M(q, v) \in Messages
  BY RunIsRun
<1>4. CASE mail' = mail
  BY <1>1, <1>2, <1>4 DEF MailOnce
<1>5. CASE Stage(p, u) = "send" /\ claims' = claims /\ MayDeliver({M(p, u)})
  <2>1. \A m \in Messages : /\ mail'[m] \in {mail[m], mail[m] + 1}
                            /\ m # M(p, u) => mail'[m] = mail[m]
    <3>1. PICK D \in SUBSET {M(p, u)} : Deliver(D)
      BY <1>5 DEF MayDeliver
    <3> QED
      BY <3>1, DeliverType
  <2>2. M(p, u) \in claims /\ (M(p, u) \notin failures => mail[M(p, u)] = 0)
    BY <1>3, <1>5 DEF ClaimsHeld, MailOnce, Sending
  <2>3. \A q \in Processes, v \in Users : Stage(q, v)' = "send" => M(q, v) # M(p, u)
    BY <1>2, <1>5, OneSender DEF Sending
  <2> QED
    <3> SUFFICES ASSUME NEW m \in Messages, m \notin failures'
                 PROVE  /\ mail'[m] <= 1 /\ (m \notin claims' => mail'[m] = 0)
                        /\ \A q \in Processes, v \in Users :
                             Stage(q, v)' = "send" /\ M(q, v)' = m => mail'[m] = 0
      BY DEF MailOnce
    <3>1. CASE m = M(p, u)
      BY <3>1, <1>1, <1>5, <2>1, <2>2, <2>3
    <3>2. CASE m # M(p, u)
      BY <3>2, <1>1, <1>2, <1>5, <2>1 DEF MailOnce
    <3> QED
      BY <3>1, <3>2
<1> QED
  BY <1>4, <1>5

LEMMA ClaimsHandled ==
  ASSUME TypeInv, ClaimsHeld, MailOnce, NEW p \in Processes, NEW u \in Users,
         Handle(p, u) \/ Blip(p, u)
  PROVE  ClaimsHeld' /\ MailOnce'
<1>1. CASE Look(p, u)
  <2>1. Stage(p, u) = "look" /\ Stage(p, u)' \in {"done", "claim"} /\ UNCHANGED <<claims, past>>
    BY <1>1, MoveEffect DEF Look, rows, Stages, Stage
  <2>2. \A q \in Processes, v \in Users : SameSending(q, v)
    BY <1>1, <2>1, ElseSending DEF Handle, SameSending, Sending
  <2> QED
    BY <2>1, <2>2, ClaimsFrame DEF past
<1>2. CASE ClaimSend(p, u)
  BY <1>2, MessageClaimed
<1>3. CASE SendReported(p, u)
  <2>1. Stage(p, u) = "send" /\ Stage(p, u)' = "done" /\ UNCHANGED <<claims, failures, lost>>
        /\ confirmed' = [confirmed EXCEPT ![M(p, u)] = @ + 1]
    BY <1>3, MoveEffect DEF SendReported, rows, Stages, Stage, M
  <2>2. MayDeliver({M(p, u)})
    BY <1>3 DEF SendReported, MayDeliver, M
  <2>3. ClaimsHeld'
    BY <1>3, <2>1, ClaimLetGo DEF Handle, Sending
  <2>4. MailOnce'
    BY <1>3, <2>1, <2>2, MailSent DEF Handle
  <2> QED
    BY <2>3, <2>4
<1>4. CASE SendFails(p, u)
  <2>1. Stage(p, u) = "send" /\ Stage(p, u)' = "release" /\ MayDeliver({M(p, u)})
        /\ UNCHANGED <<claims, confirmed, failures, lost>>
    BY <1>4, MoveEffect DEF SendFails, rows, Stages, Stage, M
  <2>2. /\ \A q \in Processes, v \in Users : Sending(q, v)' <=> Sending(q, v)
        /\ \A q \in Processes, v \in Users : M(q, v)' = M(q, v)
    BY <1>4, <2>1, ElseSending DEF Handle, SameSending, Sending
  <2>3. ClaimsHeld'
    BY <2>1, <2>2 DEF ClaimsHeld
  <2>4. MailOnce'
    BY <1>4, <2>1, MailSent DEF Handle
  <2> QED
    BY <2>3, <2>4
<1>5. CASE Release(p, u)
  <2>1. Stage(p, u) = "release" /\ Stage(p, u)' = "done" /\ UNCHANGED <<mail, confirmed, lost>>
        /\ claims' = claims \ {M(p, u)} /\ failures' = failures \cup {M(p, u)}
    BY <1>5, CountEffect DEF Release, Stage, M
  <2>2. ClaimsHeld'
    BY <1>5, <2>1, ClaimLetGo DEF Handle, Sending
  <2>3. MailOnce'
    BY <1>5, <2>1, MailSent DEF Handle
  <2> QED
    BY <2>2, <2>3
<1>6. CASE Blip(p, u)
  <2>1. Stage(p, u)' = "done" /\ UNCHANGED <<claims, mail, confirmed>>
        /\ failures' = failures \cup {M(p, u)}
    BY <1>6, CountEffect DEF Blip, rows, Stage
  <2>2. MailOnce'
    BY <1>6, <2>1, MailSent
  <2>3. CASE Stage(p, u) = "release"
    <3>1. lost' = lost \cup {M(p, u)}
      BY <1>6, <2>3 DEF Blip, M
    <3> QED
      BY <1>6, <2>1, <2>2, <2>3, <3>1, ClaimLetGo DEF Sending
  <2>4. CASE Stage(p, u) # "release"
    <3>1. lost' = lost /\ ~Sending(p, u) /\ ~Sending(p, u)' /\ Stage(p, u) # "send"
      BY <1>6, <2>1, <2>4 DEF Blip, Sending
    <3>2. \A q \in Processes, v \in Users : Sending(q, v)' <=> Sending(q, v)
      BY <1>6, <3>1, ElseSending DEF SameSending
    <3>3. \A q \in Processes, v \in Users : M(q, v)' = M(q, v)
      BY <1>6, ElseSending
    <3>4. ClaimsHeld'
      BY <2>1, <3>1, <3>2, <3>3 DEF ClaimsHeld
    <3> QED
      BY <2>2, <3>4
  <2> QED
    BY <2>3, <2>4
<1> QED
  BY <1>1, <1>2, <1>3, <1>4, <1>5, <1>6 DEF Handle

\* A process dies, or an exception ends a worker's tick: its sends are left.
LEMMA ClaimsLeft ==
  ASSUME TypeInv, ClaimsHeld, MailOnce, NEW p \in Processes, Die(p) \/ TickFails(p)
  PROVE  ClaimsHeld' /\ MailOnce'
<1>1. OnlyOf(p) /\ UNCHANGED <<claims, confirmed, failures>> /\ lost' = lost \cup Held(p)
      /\ \A v \in Users : job'[p].users[v] = "out"
  BY RestEffect DEF Die, TickFails, OnlyOf, rows
<1>2. \A v \in Users : ~Sending(p, v)'
  BY <1>1 DEF Sending, Stage
<1>3. \A q \in Processes \ {p}, v \in Users : SameSending(q, v)
  BY <1>1, OthersSending
<1>4. \A q \in Processes, v \in Users : M(q, v) \in Messages
  BY RunIsRun
<1>5. \A m \in Messages : m \in lost' <=> m \in lost \/ \E u \in Users : Sending(p, u) /\ m = M(p, u)
  BY <1>1, HeldRows, RunsAreNoMessages
<1>6. claims \subseteq Messages
  BY DEF TypeInv
<1>7. \A q \in Processes, v \in Users : Sending(q, v)' => q # p /\ Sending(q, v) /\ M(q, v)' = M(q, v)
  BY <1>2, <1>3 DEF SameSending
<1>8. \A q \in Processes, u, v \in Users : Sending(q, v)' /\ Sending(p, u) => M(q, v) # M(p, u)
  BY <1>7, OneSender
<1>9. \A q \in Processes, v \in Users : Sending(q, v)' =>
        M(q, v)' \in claims' /\ M(q, v)' \notin lost' /\ confirmed'[M(q, v)'] = 0
  BY <1>1, <1>4, <1>5, <1>7, <1>8 DEF ClaimsHeld
<1>10. \A q, r \in Processes, v \in Users :
         Sending(q, v)' /\ Sending(r, v)' /\ M(q, v)' = M(r, v)' => q = r
  BY <1>7 DEF ClaimsHeld
<1>11. \A m \in claims' : \/ m \in lost' \/ confirmed'[m] = 1
                          \/ \E q \in Processes, v \in Users : Sending(q, v)' /\ M(q, v)' = m
  BY <1>1, <1>3, <1>5, <1>6 DEF ClaimsHeld, SameSending
<1>12. \A m \in Messages : m \in lost' => m \in claims' /\ confirmed'[m] = 0
  BY <1>1, <1>5 DEF ClaimsHeld
<1>13. \A m \in Messages : m \notin claims' => confirmed'[m] = 0
  BY <1>1 DEF ClaimsHeld
<1>14. \A m \in Messages : /\ mail'[m] \in {mail[m], mail[m] + 1}
                           /\ \/ mail'[m] = mail[m]
                              \/ \E u \in Users : Stage(p, u) = "send" /\ M(p, u) = m
  <2>1. CASE Die(p)
    <3>1. PICK D \in SUBSET Messaging(p, {"send"}) : Deliver(D)
      BY <2>1 DEF Die, MayDeliver
    <3> QED
      BY <3>1, DeliverType DEF Messaging, M
  <2>2. CASE TickFails(p)
    BY <2>2 DEF TickFails
  <2> QED
    BY <2>1, <2>2
<1>15. MailOnce'
  <2> SUFFICES ASSUME NEW m \in Messages, m \notin failures'
               PROVE  /\ mail'[m] <= 1 /\ (m \notin claims' => mail'[m] = 0)
                      /\ \A q \in Processes, v \in Users :
                           Stage(q, v)' = "send" /\ M(q, v)' = m => mail'[m] = 0
    BY DEF MailOnce
  <2>1. \A q \in Processes, v \in Users : Stage(q, v)' = "send" =>
          Stage(q, v) = "send" /\ M(q, v)' = M(q, v) /\ Sending(q, v)'
    BY <1>7, <1>3 DEF Sending, SameSending
  <2>2. CASE mail'[m] = mail[m]
    BY <2>1, <2>2, <1>1 DEF MailOnce
  <2>3. CASE \E u \in Users : Stage(p, u) = "send" /\ M(p, u) = m
    <3>1. PICK u \in Users : Stage(p, u) = "send" /\ M(p, u) = m
      BY <2>3
    <3>2. mail[m] = 0 /\ m \in claims'
      BY <3>1, <1>1 DEF MailOnce, ClaimsHeld, Sending
    <3>3. \A q \in Processes, v \in Users : Stage(q, v)' = "send" => M(q, v)' # m
      BY <3>1, <2>1, <1>8 DEF Sending
    <3> QED
      BY <3>2, <3>3, <1>14
  <2> QED
    BY <2>2, <2>3, <1>14
<1> QED
  BY <1>9, <1>10, <1>11, <1>12, <1>13, <1>15 DEF ClaimsHeld

LEMMA ClaimsStep == TypeInv /\ ClaimsHeld /\ MailOnce /\ [Next]_vars => ClaimsHeld' /\ MailOnce'
<1> SUFFICES ASSUME TypeInv, ClaimsHeld, MailOnce, [Next]_vars PROVE ClaimsHeld' /\ MailOnce'
  OBVIOUS
<1>1. CASE (Tick \/ \E u \in Users : Act(u)) \/ UNCHANGED vars
  <2>1. UNCHANGED <<job, claims, lost, past>>
    BY <1>1 DEF Tick, Act, vars, rows, past
  <2>2. \A q \in Processes, v \in Users : SameSending(q, v)
    BY <2>1 DEF SameSending, Sending, Stage, M, Run
  <2> QED
    BY <2>1, <2>2, ClaimsFrame DEF past
<1>2. ASSUME NEW p \in Processes, NEW u \in Users, Handle(p, u) \/ Blip(p, u)
      PROVE  ClaimsHeld' /\ MailOnce'
  BY <1>2, ClaimsHandled
<1>3. ASSUME NEW p \in Processes, Die(p) \/ TickFails(p) PROVE ClaimsHeld' /\ MailOnce'
  BY <1>3, ClaimsLeft
<1>4. ASSUME NEW p \in Processes, Wake(p) \/ ClaimRun(p) \/ RunByHand(p) \/ RunRaises(p)
      PROVE  ClaimsHeld' /\ MailOnce'
  <2>1. OnlyOf(p) /\ job[p].at # "batches" /\ job'[p].users = job[p].users
    BY <1>4, WakeEffect, ClaimRunEffect, RunByHandEffect, RunRaisesEffect
       DEF Wake, ClaimRun, RunByHand, At
  <2>2. \A v \in Users : SameSending(p, v)
    BY <2>1, QuietSending DEF TypeInv, At, Stage
  <2> QED
    BY <1>4, <2>1, <2>2, ClaimsFrameOf DEF Wake, ClaimRun, RunByHand, RunRaises, rows, past
<1>5. ASSUME NEW p \in Processes, Recipients(p) PROVE ClaimsHeld' /\ MailOnce'
  <2>1. OnlyOf(p) /\ \A u \in Users : job'[p].users[u] \in {"wait", "out"}
    BY <1>5, RecipientsEffect
  <2>2. \A v \in Users : SameSending(p, v)
    BY <1>5, <2>1, QuietSending DEF Recipients, TypeInv, At, Stage
  <2> QED
    BY <1>5, <2>1, <2>2, ClaimsFrameOf DEF Recipients, rows, past
<1>6. ASSUME NEW p \in Processes, StartBatch(p) PROVE ClaimsHeld' /\ MailOnce'
  <2>1. \A v \in Users : SameSending(p, v)
    BY <1>6, StartBatchEffect DEF SameSending, Sending, Stage
  <2> QED
    BY <1>6, <2>1, StartBatchEffect, ClaimsFrameOf DEF StartBatch, rows, past
<1>7. ASSUME NEW p \in Processes, EndTick(p) \/ Answer(p) \/ FinishRun(p) \/ ReleaseRun(p)
      PROVE  ClaimsHeld' /\ MailOnce'
  <2>1. OnlyOf(p) /\ \A v \in Users : job'[p].users[v] = "out"
    BY <1>7, RestEffect, NextJobEffect DEF EndTick, Answer, FinishRun, ReleaseRun, OnlyOf
  <2>2. \A v \in Users : ~Sending(p, v)
    BY <1>7 DEF EndTick, Answer, FinishRun, ReleaseRun, AllDone, At, Sending, TypeInv, Stage
  <2>3. \A v \in Users : SameSending(p, v)
    BY <2>1, <2>2 DEF SameSending, Sending, Stage
  <2> QED
    BY <1>7, <2>1, <2>3, ClaimsFrameOf DEF EndTick, Answer, FinishRun, ReleaseRun, rows, past
<1> QED
  BY <1>1, <1>2, <1>3, <1>4, <1>5, <1>6, <1>7 DEF Next, WorkerStep, Step, Processes

------------------------------------------------------------------------------
\* A claim that is given back is counted: what was told or counted stays so.
LEMMA ToldOrCounted ==
  TypeInv /\ [Next]_vars =>
    claims \cup failures \subseteq claims' \cup failures' /\ active \subseteq active'
<1> SUFFICES ASSUME TypeInv, [Next]_vars
             PROVE  claims \cup failures \subseteq claims' \cup failures' /\ active \subseteq active'
  OBVIOUS
<1>1. ASSUME NEW p \in Processes, NEW u \in Users, Handle(p, u) \/ Blip(p, u)
      PROVE  claims \cup failures \subseteq claims' \cup failures' /\ active \subseteq active'
  BY <1>1 DEF Handle, Look, ClaimSend, SendReported, SendFails, Release, Blip, CountFailed,
              world, rows, past
<1>2. CASE (Tick \/ \E u \in Users : Act(u)) \/ UNCHANGED vars
  BY <1>2 DEF Tick, Act, vars, world, rows, past
<1>3. ASSUME NEW p \in Processes,
             Wake(p) \/ EndTick(p) \/ ClaimRun(p) \/ RunByHand(p) \/ Recipients(p) \/ StartBatch(p)
      PROVE  UNCHANGED <<claims, failures, active>>
  BY <1>3 DEF Wake, EndTick, ClaimRun, RunByHand, Recipients, StartBatch, world, rows, past
<1>4. ASSUME NEW p \in Processes,
             FinishRun(p) \/ Answer(p) \/ RunRaises(p) \/ ReleaseRun(p) \/ Die(p) \/ TickFails(p)
      PROVE  UNCHANGED <<claims, failures, active>>
  BY <1>4 DEF FinishRun, Answer, RunRaises, ReleaseRun, Die, TickFails, world, rows, past
<1> QED
  BY <1>1, <1>2, <1>3, <1>4 DEF Next, WorkerStep, Step, Processes

\* What Handled says of one customer of one process.
IsHandled(p, u) ==
  /\ Stage(p, u) = "out" =>
       job[p].cut \/ Run(p).job \in Unreported \/ PassesOver(Run(p).job, u)
  /\ Stage(p, u) = "done" => PassesOver(Run(p).job, u) \/ M(p, u) \in claims \cup failures

LEMMA HandledStays ==
  ASSUME TypeInv, [Next]_vars, NEW p \in Processes, NEW u \in Users, IsHandled(p, u),
         job'[p].run = job[p].run, job'[p].cut = job[p].cut, job'[p].users[u] = job[p].users[u]
  PROVE  IsHandled(p, u)'
BY ToldOrCounted DEF IsHandled, Stage, Run, M, PassesOver

LEMMA HandledStep ==
  TypeInv /\ ClaimsHeld /\ Handled /\ [Next]_vars => Handled'
<1> SUFFICES ASSUME TypeInv, ClaimsHeld, Handled, [Next]_vars,
                    NEW p \in Processes, NEW u \in Users, At(p, "batches")'
             PROVE  IsHandled(p, u)'
  BY DEF Handled, IsHandled
<1>1. At(p, "batches") => IsHandled(p, u)
  BY DEF Handled, IsHandled
<1>2. CASE job'[p] = job[p]
  BY <1>1, <1>2, HandledStays DEF At
<1>3. ASSUME NEW v \in Users, Handle(p, v) \/ Blip(p, v) PROVE IsHandled(p, u)'
  <2>1. IsHandled(p, u) /\ job'[p].run = job[p].run /\ job'[p].cut = job[p].cut
        /\ (u # v => job'[p].users[u] = job[p].users[u])
    BY <1>1, <1>3, HandleEffect DEF At
  <2>2. CASE u # v
    BY <2>1, <2>2, HandledStays
  <2>3. CASE u = v
    <3>1. M(p, u)' = M(p, u) /\ Run(p)' = Run(p)
      BY <2>1 DEF M, Run
    <3>2. CASE Look(p, u)
      <4>1. /\ Stage(p, u)' = "claim" \/ (Stage(p, u)' = "done" /\ PassesOver(Run(p).job, u))
            /\ active' = active
        BY <3>2, MoveEffect DEF Look, Stages, Stage, world
      <4> QED
        BY <3>1, <4>1 DEF IsHandled, PassesOver
    <3>3. CASE ClaimSend(p, u)
      <4>1. Stage(p, u)' = "send" \/ (Stage(p, u)' = "done" /\ M(p, u) \in claims')
        BY <3>3, MoveEffect DEF ClaimSend, Admits, Stages, Stage, M
      <4> QED
        BY <3>1, <4>1 DEF IsHandled
    <3>4. CASE SendReported(p, u)
      <4>1. Stage(p, u)' = "done" /\ M(p, u) \in claims /\ claims' = claims
        BY <3>4, MoveEffect DEF SendReported, Stages, Stage, rows, ClaimsHeld, Sending
      <4> QED
        BY <3>1, <4>1 DEF IsHandled
    <3>5. CASE SendFails(p, u)
      <4>1. Stage(p, u)' = "release"
        BY <3>5, MoveEffect DEF SendFails, Stages, Stage
      <4> QED
        BY <4>1 DEF IsHandled
    <3>6. CASE Release(p, u) \/ Blip(p, u)
      <4>1. Stage(p, u)' = "done" /\ M(p, u) \in failures'
        BY <3>6, CountEffect DEF Release, Blip, Stage
      <4> QED
        BY <3>1, <4>1 DEF IsHandled
    <3> QED
      BY <1>3, <2>3, <3>2, <3>3, <3>4, <3>5, <3>6 DEF Handle
  <2> QED
    BY <2>2, <2>3
<1>4. CASE Recipients(p)
  <2>1. Run(p)' = Run(p) /\ active' = active
    BY <1>4, RecipientsEffect DEF Recipients, Run, world
  <2> QED
    BY <1>4, <2>1, RecipientsEffect DEF IsHandled, Stage, PassesOver
<1>5. CASE StartBatch(p)
  <2>1. IsHandled(p, u) /\ job'[p].run = job[p].run /\ job'[p].cut = job[p].cut
        /\ job'[p].users[u] \in {"look", job[p].users[u]}
    BY <1>1, <1>5, StartBatchEffect DEF At
  <2>2. CASE job'[p].users[u] = "look"
    BY <2>2 DEF IsHandled, Stage
  <2> QED
    BY <2>1, <2>2, HandledStays
<1>6. CASE Wake(p) \/ ClaimRun(p) \/ RunByHand(p) \/ RunRaises(p)
  BY <1>6, WakeEffect, ClaimRunEffect, RunByHandEffect, RunRaisesEffect DEF At
<1>7. CASE \/ EndTick(p) \/ Answer(p) \/ FinishRun(p) \/ ReleaseRun(p)
           \/ Die(p) \/ TickFails(p)
  BY <1>7, RestEffect, NextJobEffect
     DEF EndTick, Answer, FinishRun, ReleaseRun, Die, TickFails, At
<1>8. ASSUME NEW q \in Processes \ {p}, NEW v \in Users, Handle(q, v) \/ Blip(q, v)
      PROVE  job'[p] = job[p]
  BY <1>8, HandleEffect DEF OnlyOf
<1>9. ASSUME NEW q \in Processes \ {p},
             \/ Wake(q) \/ ClaimRun(q) \/ RunByHand(q) \/ RunRaises(q) \/ Recipients(q) \/ StartBatch(q)
      PROVE  job'[p] = job[p]
  <2>1. CASE Wake(q) \/ ClaimRun(q)
    BY <2>1, WakeEffect, ClaimRunEffect DEF OnlyOf
  <2>2. CASE RunByHand(q) \/ RunRaises(q)
    BY <2>2, RunByHandEffect, RunRaisesEffect DEF OnlyOf
  <2>3. CASE Recipients(q) \/ StartBatch(q)
    BY <2>3, RecipientsEffect, StartBatchEffect DEF OnlyOf
  <2> QED
    BY <1>9, <2>1, <2>2, <2>3
<1>10. ASSUME NEW q \in Processes \ {p},
              \/ EndTick(q) \/ Answer(q) \/ FinishRun(q) \/ ReleaseRun(q)
              \/ Die(q) \/ TickFails(q)
       PROVE  job'[p] = job[p]
  BY <1>10, RestEffect, NextJobEffect
     DEF EndTick, Answer, FinishRun, ReleaseRun, Die, TickFails
<1>11. CASE (Tick \/ \E v \in Users : Act(v)) \/ UNCHANGED vars
  BY <1>2, <1>11 DEF Tick, Act, vars
<1> QED
  BY <1>2, <1>3, <1>4, <1>5, <1>6, <1>7, <1>8, <1>9, <1>10, <1>11
     DEF Next, WorkerStep, Step, Processes

LEMMA NobodyStep ==
  TypeInv /\ Handled /\ NobodyLeftOutSilently /\ [Next]_vars => NobodyLeftOutSilently'
<1> SUFFICES ASSUME TypeInv, Handled, NobodyLeftOutSilently, [Next]_vars,
                    NEW r \in clean', NEW u \in Users, ~PassesOver(r.job, u)',
                    r.job \notin Unreported
             PROVE  Message(u, r) \in claims' \cup failures'
  BY DEF NobodyLeftOutSilently, PassesOver
<1>1. ~PassesOver(r.job, u)
  BY ToldOrCounted DEF PassesOver
<1>2. CASE r \in clean
  BY <1>1, <1>2, ToldOrCounted DEF NobodyLeftOutSilently
<1>3. ASSUME NEW w \in Workers, FinishRun(w), r \notin clean
      PROVE  Message(u, r) \in claims' \cup failures'
  <2>1. r = Run(w) /\ ~job[w].cut /\ At(w, "batches") /\ Stage(w, u) \in {"out", "done"}
    BY <1>3 DEF FinishRun, AllDone
  <2>2. Message(u, r) \in claims \cup failures
    BY <1>1, <2>1 DEF Handled, M, Processes
  <2> QED
    BY <2>2, ToldOrCounted
<1>4. r \in clean \/ \E w \in Workers : FinishRun(w)
  <2>1. ASSUME NEW p \in Processes, NEW v \in Users, Handle(p, v) \/ Blip(p, v)
        PROVE  clean' = clean
    BY <2>1, HandleEffect
  <2>2. ASSUME NEW p \in Processes,
               \/ Wake(p) \/ EndTick(p) \/ ClaimRun(p) \/ RunByHand(p) \/ Recipients(p)
               \/ StartBatch(p)
        PROVE  clean' = clean
    BY <2>2 DEF Wake, EndTick, ClaimRun, RunByHand, Recipients, StartBatch, past
  <2>3. ASSUME NEW p \in Processes,
               \/ Answer(p) \/ RunRaises(p) \/ ReleaseRun(p) \/ Die(p) \/ TickFails(p)
        PROVE  clean' = clean
    BY <2>3 DEF Answer, RunRaises, ReleaseRun, Die, TickFails, past
  <2>4. CASE (Tick \/ \E v \in Users : Act(v)) \/ UNCHANGED vars
    BY <2>4 DEF Tick, Act, vars, past
  <2> QED
    BY <2>1, <2>2, <2>3, <2>4 DEF Next, WorkerStep, Step, Processes
<1> QED
  BY <1>2, <1>3, <1>4

------------------------------------------------------------------------------
LEMMA InitIInv == Init => IInv
<1> SUFFICES ASSUME Init PROVE IInv
  OBVIOUS
<1>1. \A p \in Processes : job[p] = Idle /\ job[p].at = "sleep" /\ \A u \in Users : Stage(p, u) = "out"
  BY DEF Init, Idle, Stage
<1>2. \A p \in Processes : ~HasRun(p) /\ ~At(p, "batches") /\ \A u \in Users : ~Sending(p, u)
  BY <1>1 DEF HasRun, At, Sending
<1>3. TypeInv
  BY <1>1, IdleIsJob, Bounds DEF Init, TypeInv
<1>4. RunsHeld
  BY <1>2 DEF Init, RunsHeld, Processes
<1>5. ClaimsHeld
  BY <1>2 DEF Init, ClaimsHeld
<1>6. MailOnce
  BY <1>1 DEF Init, MailOnce
<1>7. Handled /\ NobodyLeftOutSilently
  BY <1>2 DEF Init, Handled, NobodyLeftOutSilently
<1> QED
  BY <1>3, <1>4, <1>5, <1>6, <1>7 DEF IInv

(* What follows from the unique indexes at every step.                       *)
THEOREM Inductive == Spec => []IInv
<1>1. IInv /\ [Next]_vars => IInv'
  BY StepType, RunsStep, ClaimsStep, HandledStep, NobodyStep DEF IInv
<1> QED
  BY InitIInv, <1>1, PTL DEF Spec

------------------------------------------------------------------------------
(* At every step, and in every order of the workers' and the operators'      *)
(* steps, the state is of its type and a process at rest has no recipients.  *)
THEOREM TypeCorrect == Spec => []TypeOK
<1>1. IInv => TypeOK
  <2> SUFFICES ASSUME IInv PROVE TypeOK
    OBVIOUS
  <2>1. lost \subseteq runs \cup claims
    BY DEF IInv, TypeInv, RunsHeld, ClaimsHeld
  <2> QED
    BY <2>1 DEF IInv, TypeInv, RunsHeld, TypeOK, JobType
<1> QED
  BY Inductive, <1>1, PTL

(* A run that finished uncut and counted no failure left nobody out, however *)
(* many runs of other workers and operators it raced with.                   *)
THEOREM NobodyIsLeftOut == Spec => []NobodyLeftOutSilently
<1>1. IInv => NobodyLeftOutSilently
  BY DEF IInv
<1> QED
  BY Inductive, <1>1, PTL

(* Cardinalities of sets with one member at most.                            *)
LEMMA AtMostOne ==
  ASSUME NEW S, \A x, y \in S : x = y
  PROVE  /\ Cardinality(S) \in {0, 1}
         /\ Cardinality(S) = 0 <=> S = {}
<1>1. CASE S = {}
  BY <1>1, FS_EmptySet
<1>2. CASE S # {}
  <2>1. PICK x \in S : TRUE
    BY <1>2
  <2>2. S = {x}
    BY <2>1
  <2> QED
    BY <2>2, FS_Singleton
<1> QED
  BY <1>1, <1>2

LEMMA OneOrNone ==
  ASSUME NEW x, NEW T
  PROVE  Cardinality({x} \cap T) = IF x \in T THEN 1 ELSE 0
<1>1. CASE x \in T
  <2>1. {x} \cap T = {x}
    BY <1>1
  <2> QED
    BY <2>1, <1>1, FS_Singleton
<1>2. CASE x \notin T
  <2>1. {x} \cap T = {}
    BY <1>2
  <2> QED
    BY <2>1, <1>2, FS_EmptySet
<1> QED
  BY <1>1, <1>2

(* The row of a run is held by one worker, finished or left behind, never    *)
(* two of these: a period is worked on by one worker at a time.              *)
THEOREM OneWorkerPerRun == Spec => []OneRunPerPeriod
<1>1. IInv => OneRunPerPeriod
  <2> SUFFICES ASSUME IInv, NEW r \in Runs
               PROVE  Cardinality(Working(r)) + Cardinality({r} \cap finished)
                        + Cardinality({r} \cap lost) = Cardinality({r} \cap runs)
    BY DEF OneRunPerPeriod
  <2>1. TypeInv /\ RunsHeld
    BY DEF IInv
  <2>2. \A w \in Workers : r \in Held(w) <=> HasRun(w) /\ Run(w) = r
    BY <2>1, HeldRows, RunsAreNoMessages DEF Processes
  <2>3. \A v, w \in Working(r) : v = w
    BY <2>1, <2>2 DEF Working, RunsHeld
  <2>4. Cardinality(Working(r)) \in {0, 1} /\ (Cardinality(Working(r)) = 0 <=> Working(r) = {})
    BY <2>3, AtMostOne
  <2>5. Working(r) # {} => r \in runs /\ r \notin finished /\ r \notin lost
    BY <2>1, <2>2 DEF Working, RunsHeld
  <2>6. r \in runs => r \in finished \/ r \in lost \/ Working(r) # {}
    BY <2>1, <2>2 DEF Working, RunsHeld
  <2>7. (r \in finished => r \in runs) /\ (r \in lost => r \in runs /\ r \notin finished)
    BY <2>1 DEF RunsHeld
  <2> QED
    BY <2>4, <2>5, <2>6, <2>7, OneOrNone
<1> QED
  BY Inductive, <1>1, PTL

(* A claim is held by one sender, confirmed or left behind, never two of     *)
(* these, and nobody is told twice unless a sender was told that the first   *)
(* had failed.                                                               *)
THEOREM ToldOnceAlways == Spec => []ToldOnce
<1>1. IInv => ToldOnce
  <2> SUFFICES ASSUME IInv, NEW m \in Messages
               PROVE  /\ Cardinality(Senders(m)) + confirmed[m] + Cardinality({m} \cap lost)
                           = Cardinality({m} \cap claims)
                      /\ mail[m] > 1 => m \in failures
    BY DEF ToldOnce
  <2>1. TypeInv /\ ClaimsHeld /\ MailOnce
    BY DEF IInv
  <2>2. confirmed[m] \in Nat /\ mail[m] \in Nat
    BY <2>1 DEF TypeInv
  <2>3. \A p \in Processes : m \in Held(p) <=> \E u \in Users : Sending(p, u) /\ M(p, u) = m
    BY <2>1, HeldRows, RunsAreNoMessages
  <2>4. \A p, q \in Senders(m) : p = q
    BY <2>1, <2>3, OneSender DEF Senders
  <2>5. Cardinality(Senders(m)) \in {0, 1} /\ (Cardinality(Senders(m)) = 0 <=> Senders(m) = {})
    BY <2>4, AtMostOne
  <2>6. Senders(m) # {} => m \in claims /\ m \notin lost /\ confirmed[m] = 0
    BY <2>1, <2>3 DEF Senders, ClaimsHeld
  <2>7. m \in claims => m \in lost \/ confirmed[m] = 1 \/ Senders(m) # {}
    BY <2>1, <2>3 DEF Senders, ClaimsHeld
  <2>8. (m \in lost => m \in claims /\ confirmed[m] = 0) /\ (m \notin claims => confirmed[m] = 0)
    BY <2>1 DEF ClaimsHeld
  <2>9. mail[m] > 1 => m \in failures
    BY <2>1, <2>2 DEF MailOnce
  <2> QED
    BY <2>2, <2>5, <2>6, <2>7, <2>8, <2>9, OneOrNone
<1> QED
  BY Inductive, <1>1, PTL
==============================================================================
