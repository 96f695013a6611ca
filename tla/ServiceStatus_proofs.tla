------------------------ MODULE ServiceStatus_proofs -------------------------
(* Proofs about ServiceStatus, for every number of reporters, probe loops,   *)
(* readers, systems and days.                                                *)
(*                                                                           *)
(* What a day keeps depends on what each request has in hand between its     *)
(* read and its write: InHand says that it is at least as bad as everything  *)
(* that was folded into the day without overtaking somebody.                 *)
EXTENDS ServiceStatus, TLAPS

Requests == Reporters \cup Probers

LEMMA StatusNames ==
  Statuses = {"down", "degraded", "maintenance", "unknown", "operational"}
  /\ \A x \in Statuses : Severity[x] \in 0..4
BY DEF Statuses, Severity

(* Statuses are told apart by how bad they are.                              *)
LEMMA SeverityTellsApart ==
  ASSUME NEW x \in Statuses, NEW y \in Statuses, Severity[x] = Severity[y]
  PROVE  x = y
BY StatusNames DEF Severity

(* The worst of some statuses is one of them, and none of them is worse.     *)
LEMMA WorstIsWorst ==
  ASSUME NEW S \in SUBSET Statuses, S # {}
  PROVE  Worst(S) \in S /\ \A y \in S : Severity[Worst(S)] >= Severity[y]
<1> DEFINE IsWorst(x) == \A y \in S : Severity[x] >= Severity[y]
<1>1. \E x \in S : IsWorst(x)
  <2>1. CASE "down" \in S
    BY <2>1, StatusNames DEF Severity
  <2>2. CASE "down" \notin S /\ "degraded" \in S
    BY <2>2, StatusNames DEF Severity
  <2>3. CASE "down" \notin S /\ "degraded" \notin S /\ "maintenance" \in S
    BY <2>3, StatusNames DEF Severity
  <2>4. CASE "down" \notin S /\ "degraded" \notin S /\ "maintenance" \notin S /\ "unknown" \in S
    BY <2>4, StatusNames DEF Severity
  <2>5. CASE S = {"operational"}
    BY <2>5, StatusNames DEF Severity
  <2> QED
    BY <2>1, <2>2, <2>3, <2>4, <2>5, StatusNames
<1>2. Worst(S) = CHOOSE x \in S : IsWorst(x)
  BY DEF Worst
<1> QED
  BY <1>1, <1>2

LEMMA WorstIsStatus ==
  ASSUME NEW S \in SUBSET Statuses
  PROVE  Worst(S) \in Statuses
BY WorstIsWorst, StatusNames DEF Worst

(* The day of an instant is one of the days there are.                       *)
LEMMA DayIsThere ==
  ASSUME NEW t \in 0..MaxNow
  PROVE  DayOf(t) \in Days
<1>1. DayLength \in Nat \ {0} /\ MaxNow \in Nat
  BY StatusAssumption
<1>2. \A a, b \in Nat, d \in Nat \ {0} : a <= b => (a \div d) \in 0..(b \div d)
  OBVIOUS
<1> QED
  BY <1>1, <1>2 DEF DayOf, Days

LEMMA NoneIsNoReport ==
  None \notin Report /\ \A r \in Report : r.source # None.source
BY DEF None, Report, Sources

------------------------------------------------------------------------------
\* A report is stored before its day is read.
StoredFirst == \A p \in Requests : job[p].at \in {"read", "write"} => R(p) \in stored

TypeInv == TypeOK /\ StoredFirst

LEMMA InitType == Init => TypeInv
<1> SUFFICES ASSUME Init PROVE TypeInv
  OBVIOUS
<1>1. MaxNow \in Nat /\ MaxReports \in Nat
  BY StatusAssumption
<1> QED
  BY <1>1, StatusNames
     DEF Init, TypeInv, TypeOK, StoredFirst, Requests, Idle, NoPage, At, R

LEMMA BeginType ==
  ASSUME TypeInv, NEW p \in Requests, NEW s \in Systems, NEW status \in Statuses,
         NEW source \in Sources, Begin(p, s, status, source)
  PROVE  TypeInv'
<1> DEFINE r == [system |-> s, status |-> status, source |-> source, at |-> now]
<1>1. r \in Report
  BY DEF TypeInv, TypeOK, Report
<1>2. begun' \in 0..MaxReports
  BY StatusAssumption DEF TypeInv, TypeOK, Begin
<1> QED
  BY <1>1, <1>2, NoneIsNoReport DEF TypeInv, TypeOK, StoredFirst, Requests, Begin, At, R

LEMMA ReportableIsStatus ==
  ASSUME NEW source PROVE Reportable(source) \subseteq Statuses
BY StatusAssumption, StatusNames DEF Reportable

LEMMA StepType == TypeInv /\ [Next]_vars => TypeInv'
<1> SUFFICES ASSUME TypeInv, [Next]_vars PROVE TypeInv'
  OBVIOUS
<1> USE DEF TypeInv
<1>1. CASE Tick
  BY <1>1, StatusAssumption DEF Tick, TypeOK, StoredFirst, At, R
<1>2. ASSUME NEW p \in Reporters, Request(p) PROVE TypeInv'
  BY <1>2, BeginType, ReportableIsStatus DEF Request, Requests, Sources
<1>3. ASSUME NEW p \in Probers, Probe(p) PROVE TypeInv'
  <2>1. job[p].next \in 1..Len(Probed)
    BY <1>3 DEF Probe, TypeOK
  <2>2. Probed[job[p].next] \in Systems
    BY <2>1, StatusAssumption
  <2> QED
    BY <1>3, <2>2, BeginType, ReportableIsStatus DEF Probe, Requests, Sources
<1>4. ASSUME NEW p \in Probers, Sleep(p) \/ Restart(p) PROVE TypeInv'
  <2>1. job' = [job EXCEPT ![p] = Idle] /\ UNCHANGED <<now, docs, days, page, begun, stored, rolled, raced>>
    BY <1>4 DEF Sleep, Restart
  <2>2. Idle.at = "idle" /\ Idle.report = None /\ Idle.rollup \in Statuses /\ Idle.next = 1
    BY StatusNames DEF Idle
  <2>3. Idle \in [at : {"idle", "store", "read", "write"}, report : Report \cup {None},
                  rollup : Statuses, next : Nat \ {0}]
    BY StatusNames DEF Idle
  <2> QED
    BY <2>1, <2>2, <2>3 DEF TypeOK, StoredFirst, Requests, At, R
<1>5. ASSUME NEW p \in Requests, Store(p) PROVE TypeInv'
  <2>1. R(p) \in Report
    BY <1>5 DEF Store, TypeOK, Requests, At, R
  <2> QED
    BY <1>5, <2>1 DEF Store, TypeOK, StoredFirst, Requests, At, R
<1>6. ASSUME NEW p \in Requests, ReadDay(p) PROVE TypeInv'
  <2>1. R(p) \in Report
    BY <1>6 DEF ReadDay, TypeOK, Requests, At, R
  <2>2. Today(p) \in Days
    BY <2>1, DayIsThere DEF Today, Report
  <2>3. Rollup(p, days[R(p).system][Today(p)]) \in Statuses
    BY <2>1, <2>2, WorstIsStatus DEF Rollup, TypeOK, Report
  <2> QED
    BY <1>6, <2>1, <2>3 DEF ReadDay, TypeOK, StoredFirst, Requests, At, R
<1>7. ASSUME NEW p \in Requests, WriteDay(p) PROVE TypeInv'
  <2>1. R(p) \in Report /\ R(p) \in stored
    BY <1>7 DEF WriteDay, TypeOK, StoredFirst, Requests, At, R
  <2>2. job[p].rollup \in Statuses
    BY DEF TypeOK, Requests
  <2>3. days' \in [Systems -> [Days -> Statuses \cup {"none"}]]
    BY <1>7, <2>1, <2>2 DEF WriteDay, TypeOK, Report
  <2> QED
    BY <1>7, <2>1, <2>3, StatusNames
       DEF WriteDay, Done, Idle, TypeOK, StoredFirst, Requests, At, R
<1>8. ASSUME NEW p \in Requests, Fail(p) PROVE TypeInv'
  BY <1>8, StatusNames DEF Fail, Done, Idle, TypeOK, StoredFirst, Requests, At, R
<1>9. ASSUME NEW g \in Pages, ReadDocs(g) \/ ReadDoc(g) \/ Leave(g) PROVE TypeInv'
  <2> DEFINE PageType == [at : {"idle", "docs", "answered"},
                          docs : [Systems -> Report \cup {None}],
                          overall : Statuses, asked : 0..MaxNow, about : SUBSET Systems]
  <2>1. NoPage \in PageType
    BY StatusNames, StatusAssumption DEF NoPage
  <2>2. PICK q \in PageType : page' = [page EXCEPT ![g] = q]
    <3>1. CASE ReadDocs(g)
      BY <3>1, <2>1 DEF ReadDocs, TypeOK
    <3>2. CASE ReadDoc(g)
      BY <3>2, <2>1 DEF ReadDoc, TypeOK
    <3>3. CASE Leave(g)
      BY <3>3, <2>1 DEF Leave
    <3> QED
      BY <1>9, <3>1, <3>2, <3>3
  <2>3. UNCHANGED <<now, docs, days, job, begun, stored, rolled, raced>>
    BY <1>9 DEF ReadDocs, ReadDoc, Leave
  <2> QED
    BY <2>2, <2>3 DEF TypeOK, StoredFirst, At, R
<1>10. ASSUME NEW g \in Pages, Answer(g) PROVE TypeInv'
  <2> DEFINE shown == {Shown(page[g].docs[s], now) : s \in page[g].about}
  <2>1. shown \subseteq Statuses
    BY StatusNames DEF Shown, TypeOK, Report
  <2>2. Worst(shown) \in Statuses
    BY <2>1, WorstIsStatus
  <2> QED
    BY <1>10, <2>2 DEF Answer, NoPage, TypeOK, StoredFirst, At, R
<1>11. CASE UNCHANGED vars
  BY <1>11 DEF vars, TypeOK, StoredFirst, At, R
<1> QED
  BY <1>1, <1>2, <1>3, <1>4, <1>5, <1>6, <1>7, <1>8, <1>9, <1>10, <1>11 DEF Next, Requests

(* Every variable of ServiceStatus keeps its type, and what is held at each  *)
(* label of record() is what its code holds there.                           *)
THEOREM TypeCorrect == Spec => []TypeOK
<1>1. Init => TypeInv
  BY InitType
<1>2. TypeInv /\ [Next]_vars => TypeInv'
  BY StepType
<1>3. TypeInv => TypeOK
  BY DEF TypeInv
<1> QED
  BY <1>1, <1>2, <1>3, PTL DEF Spec

------------------------------------------------------------------------------
\* A document is a report of its system that was stored.
DocsAreStored ==
  \A s \in Systems : docs[s] # None => docs[s] \in stored /\ docs[s].system = s

\* What a reader has in hand was such a document when it was read.
PagesAreStored ==
  \A g \in Pages : page[g].at = "docs" =>
    \A s \in page[g].about :
      page[g].docs[s] # None => page[g].docs[s] \in stored /\ page[g].docs[s].system = s

GreenInv == TypeInv /\ DocsAreStored /\ PagesAreStored /\ NoGreenFromSilence

(* What is shown as operational is a report that says so and is recent       *)
(* enough, or was made by hand.                                              *)
LEMMA ShownIsReported ==
  ASSUME NEW doc, NEW t, Shown(doc, t) = "operational"
  PROVE  /\ doc # None /\ doc.status = "operational"
         /\ doc.source = "manual" \/ doc.at >= t - StaleAfter
BY DEF Shown

LEMMA GreenMeansAllGreen ==
  ASSUME NEW S \in SUBSET Statuses, Worst(S) = "operational"
  PROVE  \A y \in S : y = "operational"
<1> SUFFICES ASSUME NEW y \in S PROVE y = "operational"
  OBVIOUS
<1>1. Severity["operational"] >= Severity[y]
  BY WorstIsWorst
<1> QED
  BY <1>1, StatusNames DEF Severity

LEMMA StepGreen == GreenInv /\ [Next]_vars => GreenInv'
<1> SUFFICES ASSUME GreenInv, [Next]_vars PROVE GreenInv'
  OBVIOUS
<1>0. TypeInv'
  BY StepType DEF GreenInv
<1>1. ASSUME NEW p \in Requests, Store(p) PROVE GreenInv'
  <2>1. R(p) \in Report
    BY <1>1 DEF GreenInv, TypeInv, Store, TypeOK, Requests, At, R
  <2>2. DocsAreStored'
    BY <1>1, <2>1 DEF GreenInv, TypeInv, Store, TypeOK, DocsAreStored, Report
  <2>3. PagesAreStored'
    BY <1>1 DEF GreenInv, Store, PagesAreStored
  <2>4. NoGreenFromSilence'
    BY <1>1 DEF GreenInv, Store, NoGreenFromSilence
  <2> QED
    BY <1>0, <2>2, <2>3, <2>4 DEF GreenInv
<1>2. ASSUME NEW g \in Pages, ReadDocs(g) \/ ReadDoc(g) \/ Leave(g) PROVE GreenInv'
  <2>1. UNCHANGED <<docs, stored>>
    BY <1>2 DEF ReadDocs, ReadDoc, Leave
  <2>2. \A h \in Pages \ {g} : page'[h] = page[h]
    BY <1>2 DEF ReadDocs, ReadDoc, Leave, GreenInv, TypeInv, TypeOK
  <2> SUFFICES DocsAreStored' /\ PagesAreStored' /\ NoGreenFromSilence'
    BY <1>0 DEF GreenInv
  <2>3. CASE ReadDocs(g)
    <3>1. page'[g] = [NoPage EXCEPT !.at = "docs", !.docs = docs]
      BY <2>3 DEF ReadDocs, GreenInv, TypeInv, TypeOK
    <3>2. page'[g].at = "docs" /\ page'[g].docs = docs /\ page'[g].about = Systems
      BY <3>1 DEF NoPage
    <3> QED
      BY <2>1, <2>2, <3>2 DEF GreenInv, DocsAreStored, PagesAreStored, NoGreenFromSilence
  <2>4. CASE ReadDoc(g)
    <3>1. PICK s \in Systems :
            page'[g] = [NoPage EXCEPT !.at = "docs", !.docs[s] = docs[s], !.about = {s}]
      BY <2>4 DEF ReadDoc, GreenInv, TypeInv, TypeOK
    <3>2. page'[g].at = "docs" /\ page'[g].docs[s] = docs[s] /\ page'[g].about = {s}
      BY <3>1 DEF NoPage
    <3> QED
      BY <2>1, <2>2, <3>2 DEF GreenInv, DocsAreStored, PagesAreStored, NoGreenFromSilence
  <2>5. CASE Leave(g)
    <3>1. page'[g].at = "idle"
      BY <2>5 DEF Leave, NoPage, GreenInv, TypeInv, TypeOK
    <3> QED
      BY <2>1, <2>2, <3>1 DEF GreenInv, DocsAreStored, PagesAreStored, NoGreenFromSilence
  <2> QED
    BY <1>2, <2>3, <2>4, <2>5
<1>3. ASSUME NEW g \in Pages, Answer(g) PROVE GreenInv'
  <2> DEFINE shown == {Shown(page[g].docs[s], now) : s \in page[g].about}
  <2>1. shown \subseteq Statuses
    BY StatusNames DEF Shown, GreenInv, TypeInv, TypeOK, Report
  <2>2. /\ UNCHANGED <<docs, stored>> /\ page[g].at = "docs"
        /\ \A h \in Pages \ {g} : page'[h] = page[h]
        /\ page'[g].at = "answered" /\ page'[g].about = page[g].about
        /\ page'[g].asked = now /\ page'[g].overall = Worst(shown)
    BY <1>3 DEF Answer, NoPage, GreenInv, TypeInv, TypeOK
  <2>3. page'[g].overall = "operational" =>
          \A s \in page[g].about : \E r \in stored :
            /\ r.system = s /\ r.status = "operational"
            /\ r.source = "manual" \/ r.at >= now - StaleAfter
    <3> SUFFICES ASSUME Worst(shown) = "operational", NEW s \in page[g].about
                 PROVE  \E r \in stored :
                          /\ r.system = s /\ r.status = "operational"
                          /\ r.source = "manual" \/ r.at >= now - StaleAfter
      BY <2>2
    <3>1. Shown(page[g].docs[s], now) = "operational"
      BY <2>1, GreenMeansAllGreen
    <3>2. page[g].docs[s] \in stored /\ page[g].docs[s].system = s
      BY <2>2, <3>1, ShownIsReported DEF GreenInv, PagesAreStored
    <3> QED
      BY <3>1, <3>2, ShownIsReported
  <2>4. NoGreenFromSilence'
    BY <2>2, <2>3 DEF GreenInv, NoGreenFromSilence
  <2>5. DocsAreStored' /\ PagesAreStored'
    BY <2>2 DEF GreenInv, DocsAreStored, PagesAreStored
  <2> QED
    BY <1>0, <2>4, <2>5 DEF GreenInv
<1>4. CASE UNCHANGED <<docs, page, stored>>
  BY <1>0, <1>4 DEF GreenInv, DocsAreStored, PagesAreStored, NoGreenFromSilence
<1>5. ASSUME NEW p \in Requests, ReadDay(p) \/ WriteDay(p) \/ Fail(p)
      PROVE  UNCHANGED <<docs, page, stored>>
  BY <1>5 DEF ReadDay, WriteDay, Fail
<1>6. ASSUME NEW p \in Probers, Probe(p) \/ Sleep(p) \/ Restart(p)
      PROVE  UNCHANGED <<docs, page, stored>>
  BY <1>6 DEF Probe, Sleep, Restart, Begin
<1>7. ASSUME NEW p \in Reporters, Request(p)
      PROVE  UNCHANGED <<docs, page, stored>>
  BY <1>7 DEF Request, Begin
<1>8. CASE Tick \/ UNCHANGED vars
  BY <1>4, <1>8 DEF Tick, vars
<1> QED
  BY <1>1, <1>2, <1>3, <1>4, <1>5, <1>6, <1>7, <1>8 DEF Next, Requests

(* "Silence reads unknown, never operational": however reports, failures and *)
(* readers overlap, GET /status says that all is well only when every system *)
(* it is about had reported so, by hand or within the limit.                 *)
THEOREM NeverGreenFromSilence == Spec => []NoGreenFromSilence
<1>1. Init => GreenInv
  BY InitType
     DEF Init, GreenInv, DocsAreStored, PagesAreStored, NoGreenFromSilence, NoPage
<1>2. GreenInv /\ [Next]_vars => GreenInv'
  BY StepGreen
<1>3. GreenInv => NoGreenFromSilence
  BY DEF GreenInv
<1> QED
  BY <1>1, <1>2, <1>3, PTL DEF Spec

------------------------------------------------------------------------------
SameDay(q, r) == q.system = r.system /\ DayOf(q.at) = DayOf(r.at)

\* What a request is about to write: its own status or one already folded in,
\* at least as bad as its own and as all that did not overtake somebody.
InHand ==
  \A p \in Requests : At(p, "write") =>
    /\ \/ job[p].rollup = R(p).status
       \/ \E r \in rolled : SameDay(r, R(p)) /\ r.status = job[p].rollup
    /\ Severity[job[p].rollup] >= Severity[R(p).status]
    /\ \A r \in rolled \ raced : SameDay(r, R(p)) =>
         Severity[r.status] <= Severity[job[p].rollup]

StripInv == TypeInv /\ InHand /\ StripKeepsTheWorst

LEMMA RolledIsReport ==
  ASSUME TypeInv, NEW r \in rolled
  PROVE  r \in Report /\ r.system \in Systems /\ r.status \in Statuses /\ DayOf(r.at) \in Days
BY DayIsThere DEF TypeInv, TypeOK, Report

LEMMA AtWorkIsReport ==
  ASSUME TypeInv, NEW p \in Requests, job[p].at # "idle"
  PROVE  R(p) \in Report /\ R(p).system \in Systems /\ R(p).status \in Statuses
         /\ Today(p) \in Days
BY DayIsThere DEF TypeInv, TypeOK, Requests, At, R, Report, Today

LEMMA StripReadDay ==
  ASSUME StripInv, NEW p \in Requests, ReadDay(p)
  PROVE  InHand' /\ StripKeepsTheWorst'
<1> DEFINE day == days[R(p).system][Today(p)]
<1> DEFINE there == {r \in rolled : SameDay(r, R(p))}
<1>1. R(p) \in Report /\ R(p).system \in Systems /\ R(p).status \in Statuses /\ Today(p) \in Days
  BY AtWorkIsReport DEF StripInv, ReadDay, At
<1>2. /\ UNCHANGED <<days, rolled, raced>>
      /\ \A q \in Requests \ {p} : job'[q] = job[q]
      /\ job'[p].report = R(p) /\ job'[p].rollup = Rollup(p, day)
  BY DEF StripInv, TypeInv, ReadDay, TypeOK, Requests, R
<1>3. /\ day = "none" <=> there = {}
      /\ there # {} => \E r \in there : r.status = day
      /\ \A r \in there \ raced : Severity[r.status] <= Severity[day]
  <2> DEFINE reported == {r \in rolled : r.system = R(p).system /\ DayOf(r.at) = Today(p)}
  <2>1. reported = there
    BY DEF SameDay, Today
  <2>2. /\ day = "none" <=> reported = {}
        /\ reported # {} => \E r \in reported : r.status = day
        /\ \A r \in reported \ raced : Severity[r.status] <= Severity[day]
    BY <1>1 DEF StripInv, StripKeepsTheWorst
  <2> QED
    BY <2>1, <2>2
<1>4. /\ Rollup(p, day) = R(p).status \/ \E r \in there : r.status = Rollup(p, day)
      /\ Severity[Rollup(p, day)] >= Severity[R(p).status]
      /\ \A r \in there \ raced : Severity[r.status] <= Severity[Rollup(p, day)]
  <2>1. CASE day = "none"
    BY <2>1, <1>1, <1>3, StatusNames DEF Rollup
  <2>2. CASE day # "none"
    <3> DEFINE w == Worst({R(p).status, day})
    <3>1. PICK r \in there : r.status = day
      BY <2>2, <1>3
    <3>2. day \in Statuses
      BY <3>1, RolledIsReport DEF StripInv
    <3>3. /\ w \in {R(p).status, day}
          /\ Severity[w] >= Severity[R(p).status] /\ Severity[w] >= Severity[day]
      BY <1>1, <3>2, WorstIsWorst
    <3>4. \A q \in there : Severity[q.status] \in 0..4
      BY RolledIsReport, StatusNames DEF StripInv
    <3>5. w \in Statuses /\ Severity[w] \in 0..4 /\ Severity[day] \in 0..4
      BY <1>1, <3>2, <3>3, StatusNames
    <3>6. \A q \in there \ raced : Severity[q.status] <= Severity[w]
      BY <1>3, <3>3, <3>4, <3>5
    <3> QED
      BY <2>2, <3>1, <3>3, <3>6 DEF Rollup
  <2> QED
    BY <2>1, <2>2
<1>5. InHand'
  <2> SUFFICES ASSUME NEW q \in Requests, At(q, "write")'
               PROVE  /\ \/ job'[q].rollup = R(q)'.status
                         \/ \E r \in rolled : SameDay(r, R(q)') /\ r.status = job'[q].rollup
                      /\ Severity[job'[q].rollup] >= Severity[R(q)'.status]
                      /\ \A r \in rolled \ raced : SameDay(r, R(q)') =>
                           Severity[r.status] <= Severity[job'[q].rollup]
    BY <1>2 DEF InHand, SameDay
  <2>1. CASE q = p
    BY <1>2, <1>4, <2>1 DEF R
  <2>2. CASE q # p
    BY <1>2, <2>2 DEF StripInv, InHand, R, At
  <2> QED
    BY <2>1, <2>2
<1> QED
  BY <1>2, <1>5 DEF StripInv, StripKeepsTheWorst

LEMMA StripWriteDay ==
  ASSUME StripInv, NEW p \in Requests, WriteDay(p)
  PROVE  InHand' /\ StripKeepsTheWorst'
<1> DEFINE new == job[p].rollup
<1>1. /\ R(p) \in Report /\ R(p).system \in Systems
      /\ R(p).status \in Statuses /\ Today(p) \in Days /\ new \in Statuses
  BY AtWorkIsReport DEF StripInv, WriteDay, At, TypeInv, TypeOK, Requests
<1>2. /\ rolled' = rolled \cup {R(p)} /\ raced \subseteq raced'
      /\ raced' = IF Overtaken(p) THEN raced \cup {R(p)} ELSE raced
      /\ \A q \in Requests \ {p} : job'[q] = job[q]
      /\ job'[p].at = "idle"
  BY DEF StripInv, TypeInv, WriteDay, Done, Idle, TypeOK, Requests
<1>3. \A s \in Systems, d \in Days :
        days'[s][d] = IF s = R(p).system /\ d = Today(p) THEN new ELSE days[s][d]
  BY <1>1 DEF StripInv, TypeInv, WriteDay, TypeOK
<1>4. /\ new = R(p).status \/ \E r \in rolled : SameDay(r, R(p)) /\ r.status = new
      /\ Severity[new] >= Severity[R(p).status]
      /\ \A r \in rolled \ raced : SameDay(r, R(p)) => Severity[r.status] <= Severity[new]
  BY DEF StripInv, InHand, WriteDay
<1>5. InHand'
  <2> SUFFICES ASSUME NEW q \in Requests, At(q, "write")'
               PROVE  /\ \/ job'[q].rollup = R(q)'.status
                         \/ \E r \in rolled' : SameDay(r, R(q)') /\ r.status = job'[q].rollup
                      /\ Severity[job'[q].rollup] >= Severity[R(q)'.status]
                      /\ \A r \in rolled' \ raced' : SameDay(r, R(q)') =>
                           Severity[r.status] <= Severity[job'[q].rollup]
    BY DEF InHand, SameDay
  <2>1. q # p /\ job'[q] = job[q] /\ R(q)' = R(q) /\ At(q, "write")
    BY <1>2 DEF At, R
  <2>2. SameDay(R(p), R(q)) => R(p) \in raced'
    BY <1>2, <2>1 DEF SameDay, Overtaken, Today, Requests
  <2> QED
    BY <1>2, <2>1, <2>2 DEF StripInv, InHand
<1>6. StripKeepsTheWorst'
  <2> SUFFICES ASSUME NEW s \in Systems, NEW d \in Days
               PROVE  LET reported == {r \in rolled' : r.system = s /\ DayOf(r.at) = d} IN
                      /\ days'[s][d] = "none" <=> reported = {}
                      /\ reported # {} => \E r \in reported : r.status = days'[s][d]
                      /\ \A r \in reported \ raced' : Severity[r.status] <= Severity[days'[s][d]]
    BY DEF StripKeepsTheWorst
  <2> DEFINE before == {r \in rolled : r.system = s /\ DayOf(r.at) = d}
  <2> DEFINE after == {r \in rolled' : r.system = s /\ DayOf(r.at) = d}
  <2>1. CASE s = R(p).system /\ d = Today(p)
    <3>1. after = before \cup {R(p)} /\ days'[s][d] = new
      BY <1>2, <1>3, <2>1 DEF Today
    <3>2. \A r \in before : SameDay(r, R(p))
      BY <2>1 DEF SameDay, Today
    <3>3. \A r \in rolled : SameDay(r, R(p)) => r \in before
      BY <2>1 DEF SameDay, Today
    <3>4. new # "none"
      BY <1>1, StatusNames
    <3>5. \E r \in after : r.status = new
      BY <1>4, <3>1, <3>3
    <3>6. \A r \in after \ raced' : Severity[r.status] <= Severity[new]
      BY <1>1, <1>2, <1>4, <3>1, <3>2, StatusNames
    <3> QED
      BY <3>1, <3>4, <3>5, <3>6
  <2>2. CASE ~(s = R(p).system /\ d = Today(p))
    <3>1. after = before /\ days'[s][d] = days[s][d]
      BY <1>2, <1>3, <2>2 DEF Today
    <3>2. /\ days[s][d] = "none" <=> before = {}
          /\ before # {} => \E r \in before : r.status = days[s][d]
          /\ \A r \in before \ raced : Severity[r.status] <= Severity[days[s][d]]
      BY DEF StripInv, StripKeepsTheWorst
    <3> QED
      BY <1>2, <3>1, <3>2
  <2> QED
    BY <2>1, <2>2
<1> QED
  BY <1>5, <1>6

\* A step that folds nothing in and hands nobody a rollup.
LEMMA StripFrame ==
  ASSUME StripInv, UNCHANGED <<days, rolled, raced>>,
         \A p \in Requests : job'[p].at = "write" => job'[p] = job[p]
  PROVE  InHand' /\ StripKeepsTheWorst'
BY DEF StripInv, InHand, StripKeepsTheWorst, At, R, SameDay

LEMMA StepStrip == StripInv /\ [Next]_vars => StripInv'
<1> SUFFICES ASSUME StripInv, [Next]_vars PROVE InHand' /\ StripKeepsTheWorst'
  BY StepType DEF StripInv
<1> USE DEF StripInv, TypeInv, TypeOK, Requests
<1>1. ASSUME NEW p \in Reporters, Request(p) PROVE InHand' /\ StripKeepsTheWorst'
  BY <1>1, StripFrame DEF Request, Begin
<1>2. ASSUME NEW p \in Probers, Probe(p) \/ Sleep(p) \/ Restart(p)
      PROVE  InHand' /\ StripKeepsTheWorst'
  BY <1>2, StripFrame DEF Probe, Sleep, Restart, Begin, Idle
<1>3. ASSUME NEW p \in Requests, Store(p) \/ Fail(p) PROVE InHand' /\ StripKeepsTheWorst'
  BY <1>3, StripFrame DEF Store, Fail, Done, Idle
<1>4. ASSUME NEW g \in Pages, ReadDocs(g) \/ ReadDoc(g) \/ Answer(g) \/ Leave(g)
      PROVE  InHand' /\ StripKeepsTheWorst'
  BY <1>4, StripFrame DEF ReadDocs, ReadDoc, Answer, Leave
<1>5. CASE Tick \/ UNCHANGED vars
  BY <1>5, StripFrame DEF Tick, vars
<1> QED
  BY <1>1, <1>2, <1>3, <1>4, <1>5, StripReadDay, StripWriteDay DEF Next

(* "The 90-day strip records the worst status of each day": whatever         *)
(* reporters and probe loops overlap and wherever they fail, a day shows a   *)
(* status reported on it, and nothing worse was folded into it but between   *)
(* the read and the write of another.                                        *)
THEOREM TheStripKeepsTheWorst == Spec => []StripKeepsTheWorst
<1>1. Init => StripInv
  BY InitType DEF Init, StripInv, InHand, StripKeepsTheWorst, Requests, Idle, At
<1>2. StripInv /\ [Next]_vars => StripInv'
  BY StepStrip
<1>3. StripInv => StripKeepsTheWorst
  BY DEF StripInv
<1> QED
  BY <1>1, <1>2, <1>3, PTL DEF Spec
==============================================================================
