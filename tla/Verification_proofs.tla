------------------------- MODULE Verification_proofs -------------------------
(* Proofs about Verification, for every number of requests, accounts and     *)
(* numbers, every life of a code, and any limits.                            *)
(*                                                                           *)
(* A request acts on what it read before. The invariants say what of that is *)
(* still true at each label - or that the request was marked stale, its      *)
(* account as raced or its proof as shared, by what happened in between.     *)
EXTENDS Verification, FiniteSetTheorems, TLAPS

Labels == {"idle", "proof", "insert", "bonus", "channel", "issue", "pending", "right", "wrong", "save"}
UserType == [phone : Numbers \cup {"none"}, verified : BOOLEAN, emailed : BOOLEAN,
             proof : Nat, opened : Nat]
BoxType == [code : Nat, until : Nat, attempts : Nat]
ProofType == [code : Nat, at : Nat, late : BOOLEAN]
CodeType == [boxes : SUBSET Boxes, to : Numbers \cup Accounts, wrong : Nat, together : Nat, lost : Nat]
JobType == [at : Labels, account : Accounts \cup {"none"}, number : Numbers \cup {"none"},
            box : Boxes \cup {"none"}, code : Nat, changed : BOOLEAN, stale : BOOLEAN]

Pending(n) == Box("pending", n)
Phone(a) == Box("phone", a)
Counted(b) == b.kind # "link"
CodeNumbers == 1..Len(codes)

------------------------------------------------------------------------------
StoreInv ==
  /\ users \in [Accounts -> UserType] /\ welcomed \in [Accounts -> Nat]
  /\ \A a \in Accounts : users[a].proof \in 0..Len(codes) /\ users[a].opened \in 0..Len(codes)
  /\ \A a \in Registered : users[a].phone \in Numbers
  /\ \A a, b \in Registered : users[a].phone = users[b].phone => a = b
  /\ boxes \in [Boxes -> BoxType]
  /\ \A b \in Boxes : boxes[b].code # 0 =>
       boxes[b].code \in CodeNumbers /\ b \in codes[boxes[b].code].boxes
  /\ proofs \in [Numbers -> ProofType]
  /\ \A n \in Numbers : proofs[n].code # 0 =>
       proofs[n].code \in CodeNumbers /\ Pending(n) \in codes[proofs[n].code].boxes
  /\ raced \subseteq Registered /\ shared \subseteq CodeNumbers
  /\ now \in Start..MaxNow /\ begun \in 0..MaxRequests

\* What was issued: to whom, and where it is kept.
CodesInv ==
  /\ codes \in Seq(CodeType)
  /\ \A c \in CodeNumbers : \A n \in Numbers :
       Pending(n) \in codes[c].boxes => codes[c].to = n /\ n \in SmsNumbers
  /\ \A c \in CodeNumbers : \A b, d \in codes[c].boxes : Counted(b) /\ Counted(d) => b = d

\* What a request has in hand at each label.
InHand(p) == LET r == job[p] IN
  /\ r.code # 0 => r.code \in CodeNumbers
  /\ r.at \in {"proof", "insert", "save", "bonus", "channel"} =>
       r.account \in Accounts /\ r.number \in Numbers
  /\ r.at \in {"save", "bonus", "channel"} => r.account \in Registered
  /\ r.at = "pending" => r.number \in Numbers
  /\ r.at \in {"bonus", "channel"} => r.code = users[r.account].opened
  /\ r.at \in {"insert", "bonus", "channel"} /\ r.code # 0 =>
       r.code \in CodeNumbers /\ Pending(r.number) \in codes[r.code].boxes
  /\ r.at \in {"issue", "right", "wrong"} =>
       /\ r.box \in Boxes
       /\ r.box.kind = "pending" => r.number = r.box.of /\ r.number \in Numbers
       /\ r.box.kind # "pending" => r.account = r.box.of /\ r.account \in Registered
  /\ r.at = "issue" =>
       /\ r.box.kind = "pending" => ~r.stale /\ r.account = "none" /\ r.number \in SmsNumbers
       /\ r.box.kind = "phone" => r.number \in Numbers
       /\ r.box.kind # "link"
  /\ r.at \in {"right", "wrong"} => r.code \in CodeNumbers /\ r.box \in codes[r.code].boxes
  /\ r.at = "wrong" => Counted(r.box)

JobsInv == job \in [Slots -> JobType] /\ \A p \in Slots : InHand(p)

LimiterInv ==
  /\ counts \in [Keys -> [Windows -> Nat]]
  /\ \A k \in Keys : \A w \in Windows : counts[k][w] <= Limit[k[1]]
  /\ outages \in 0..MaxOutages /\ admitted \in [Keys -> Seq(0..MaxNow)]

TypeInv == StoreInv /\ CodesInv /\ JobsInv /\ LimiterInv

\* Codes of an account are of its number, and so is what requests have read of
\* it, unless the number has changed since.
OfNumber(p) == LET r == job[p] IN
  /\ r.at = "right" /\ r.box.kind = "phone" => codes[r.code].to = users[r.account].phone
  /\ r.at \in {"bonus", "channel"} => r.number = users[r.account].phone
  /\ r.at = "issue" /\ r.box.kind = "phone" => r.number = users[r.account].phone
HasSeen(p) == LET r == job[p] IN
  ~r.stale =>
    /\ r.account \notin raced => OfNumber(p)
    /\ r.at = "save" => (r.changed <=> users[r.account].phone # r.number)
UserNumber(a) ==
  /\ users[a].verified => users[a].proof # 0 /\ codes[users[a].proof].to = users[a].phone
  /\ boxes[Phone(a)].code # 0 => codes[boxes[Phone(a)].code].to = users[a].phone
NumberInv ==
  /\ \A a \in Registered \ raced : UserNumber(a)
  /\ \A a \in Accounts \ Registered : boxes[Phone(a)].code = 0
  /\ \A p \in Slots : HasSeen(p)

\* No later code of the box.
Latest(b, c) == \A d \in CodeNumbers : b \in codes[d].boxes => d <= c
LatestInv ==
  /\ \A n \in Numbers : boxes[Pending(n)].code # 0 => Latest(Pending(n), boxes[Pending(n)].code)
  /\ \A n \in Numbers : proofs[n].code # 0 /\ ~proofs[n].late => Latest(Pending(n), proofs[n].code)
  /\ \A p \in Slots : At(p, "right") /\ job[p].box.kind = "pending" /\ ~job[p].stale =>
       Latest(job[p].box, job[p].code)

\* A code that opened an account is with its registrar, or spent.
Opened(c) == \E a \in Registered : users[a].opened = c
Inserting(p, c) == At(p, "insert") /\ job[p].code = c
Registering(p, c) == job[p].at \in {"bonus", "channel"} /\ job[p].code = c
Redeeming(p, c) == At(p, "right") /\ job[p].code = c /\ job[p].box.kind = "pending"
Gone(n) == boxes[Pending(n)] = Empty /\ proofs[n] = NoProof
Spent(c) ==
  /\ \A n \in Numbers : proofs[n].code # c /\ boxes[Pending(n)].code # c
  /\ \A p \in Slots : ~Inserting(p, c) /\ ~Registering(p, c)
  /\ \A p \in Slots : Redeeming(p, c) => job[p].stale \/ Gone(job[p].number)
CodeProof(c) ==
  /\ \A p, q \in Slots : Opening(p, c) /\ Opening(q, c) => p = q
  /\ Opened(c) =>
       /\ \A p \in Slots : ~Inserting(p, c)
       /\ Spent(c) \/ \E p \in Slots : Registering(p, c)
OpenedOnce ==
  \A a, b \in Registered :
    users[a].opened = users[b].opened /\ users[a].opened # 0 => a = b \/ users[a].opened \in shared
ProofInv == OpenedOnce /\ \A c \in CodeNumbers \ shared : CodeProof(c)

WelcomeInv ==
  /\ \A a \in Accounts : welcomed[a] <= 1 /\ (a \notin Registered => welcomed[a] = 0)
  /\ \A p \in Slots : At(p, "bonus") => welcomed[job[p].account] = 0
  /\ \A p, q \in Slots : At(p, "bonus") /\ At(q, "bonus") /\ job[p].account = job[q].account => p = q

\* Wrong guesses at a code: counted with it, under way, or lost.
Guessing(c) == {p \in Slots : At(p, "wrong") /\ job[p].code = c}
Burnt(c) ==
  /\ codes[c].wrong <= MaxAttempts + codes[c].together + codes[c].lost
  /\ codes[c].wrong <= MaxAttempts - 1 + Cardinality(Slots) + codes[c].lost
  /\ Cardinality(Guessing(c)) <= codes[c].together + 1
CountedFor(b, c) == codes[c].wrong <= boxes[b].attempts + Cardinality(Guessing(c)) + codes[c].lost
GuessInv ==
  /\ \A c \in CodeNumbers : Burnt(c)
  /\ \A b \in Boxes : Counted(b) /\ boxes[b].code # 0 => CountedFor(b, boxes[b].code)

\* What two windows admitted is counted in them, or passed in an outage.
In(k, v, w) == {i \in DOMAIN admitted[k] : WindowOf(admitted[k][i]) \in {v, w}}
RateInv ==
  \A k \in Keys : \A v, w \in Windows :
    Cardinality(In(k, v, w)) <= counts[k][v] + counts[k][w] + outages

------------------------------------------------------------------------------
LEMMA NoneIsNobody == "none" \notin Accounts /\ "none" \notin Numbers
BY VerificationAssumption

LEMMA BoxKinds ==
  ASSUME NEW b \in Boxes
  PROVE  \/ b.kind = "pending" /\ b.of \in Numbers /\ b = Pending(b.of)
         \/ b.kind = "phone" /\ b.of \in Accounts /\ b = Phone(b.of)
         \/ b.kind = "email" /\ b.of \in Accounts /\ b = Box("email", b.of)
         \/ b.kind = "link" /\ b.of \in Accounts /\ b = Box("link", b.of)
<1>1. CASE b \in [kind : {"phone", "email", "link"}, of : Accounts]
  BY <1>1 DEF Phone, Box
<1>2. CASE b \in [kind : {"pending"}, of : Numbers]
  BY <1>2 DEF Pending, Box
<1> QED
  BY <1>1, <1>2 DEF Boxes

LEMMA BoxesAre ==
  /\ \A n \in Numbers : Pending(n) \in Boxes /\ Pending(n).kind = "pending" /\ Pending(n).of = n
  /\ \A a \in Accounts : Phone(a) \in Boxes /\ Phone(a).kind = "phone" /\ Phone(a).of = a
  /\ \A a \in Accounts : Mail(a) \subseteq Boxes /\ Box("email", a) \in Boxes /\ Box("link", a) \in Boxes
  /\ \A a \in Accounts, n \in Numbers : Pending(n) \notin Mail(a) /\ Phone(a) # Pending(n)
  /\ \A a, d \in Accounts : Phone(a) \notin Mail(d)
  /\ \A a \in Accounts : \A b, d \in Mail(a) : Counted(b) /\ Counted(d) => b = d
BY DEF Boxes, Pending, Phone, Mail, Box, Counted

LEMMA IdleIsJob == Idle \in JobType /\ Idle.at = "idle" /\ Idle.code = 0
BY DEF Idle, JobType, Labels

LEMMA RegisteredAre ==
  ASSUME StoreInv, NEW a \in Accounts
  PROVE  a \in Registered <=> users[a].phone # "none"
BY NoneIsNobody DEF StoreInv, Registered, NoUser, UserType

\* How the store may grow under a request in flight.
Grows ==
  /\ Registered \subseteq Registered'
  /\ \A a \in Registered : users'[a].opened = users[a].opened
  /\ CodeNumbers \subseteq CodeNumbers'
  /\ \A c \in CodeNumbers : codes'[c].boxes = codes[c].boxes /\ codes'[c].to = codes[c].to

\* What a step of one request may do to another.
Kept(q) ==
  /\ job'[q].at = job[q].at /\ job'[q].account = job[q].account
  /\ job'[q].number = job[q].number /\ job'[q].box = job[q].box
  /\ job'[q].code = job[q].code /\ job'[q].changed = job[q].changed
Others(p) == job' \in [Slots -> JobType] /\ \A q \in Slots \ {p} : Kept(q) /\ job'[q].stale = job[q].stale

LEMMA InHandThrough ==
  ASSUME TypeInv, Grows, NEW p \in Slots, Kept(p),
         At(p, "issue") /\ job[p].box.kind = "pending" => ~job'[p].stale
  PROVE  InHand(p)'
<1>1. InHand(p)
  BY DEF TypeInv, JobsInv
<1> QED
  BY <1>1 DEF InHand, Kept, Grows, At, Counted

LEMMA OneJob ==
  ASSUME TypeInv, NEW p \in Slots, NEW next \in JobType, job' = [job EXCEPT ![p] = next]
  PROVE  Others(p) /\ job'[p] = next
BY DEF TypeInv, JobsInv, Others, Kept

LEMMA NextJob ==
  ASSUME TypeInv, Grows, NEW p \in Slots, Others(p), InHand(p)'
  PROVE  JobsInv'
<1>1. \A q \in Slots : InHand(q)'
  <2> SUFFICES ASSUME NEW q \in Slots PROVE InHand(q)'
    OBVIOUS
  <2>1. CASE q = p
    BY <2>1
  <2>2. CASE q # p
    <3>1. Kept(q) /\ job'[q].stale = job[q].stale
      BY <2>2 DEF Others
    <3>2. At(q, "issue") /\ job[q].box.kind = "pending" => ~job'[q].stale
      BY <3>1 DEF TypeInv, JobsInv, InHand, At
    <3> QED
      BY <3>1, <3>2, InHandThrough
  <2> QED
    BY <2>1, <2>2
<1> QED
  BY <1>1 DEF JobsInv, Others

LEMMA IdleInHand ==
  ASSUME NEW p \in Slots, job'[p] = Idle
  PROVE  InHand(p)'
BY IdleIsJob DEF InHand

------------------------------------------------------------------------------
(* Types.                                                                    *)
LEMMA InitType == Init => TypeInv
<1> SUFFICES ASSUME Init PROVE TypeInv
  OBVIOUS
<1>1. Registered = {} /\ CodeNumbers = {}
  BY DEF Init, Registered, CodeNumbers
<1>2. StoreInv
  BY <1>1, VerificationAssumption, RateLimitAssumption
     DEF Init, StoreInv, NoUser, UserType, Empty, BoxType, NoProof, ProofType
<1>3. CodesInv
  BY <1>1 DEF Init, CodesInv
<1>4. JobsInv
  BY IdleIsJob DEF Init, JobsInv, InHand, Idle
<1>5. LimiterInv
  BY RateLimitAssumption DEF Init, LimiterInit, LimiterInv
<1> QED
  BY <1>2, <1>3, <1>4, <1>5 DEF TypeInv

LEMMA WindowsAre ==
  /\ \A t \in 0..MaxNow : WindowOf(t) \in Windows /\ t \in Nat
  /\ \A w \in Windows : w \in Int
<1>1. \A t \in Nat : t % Window \in Nat
  BY RateLimitAssumption
<1>2. \A t \in 0..MaxNow : t \in Nat
  BY RateLimitAssumption
<1>3. \A t \in 0..MaxNow : WindowOf(t) \in Int
  BY <1>1, <1>2 DEF WindowOf
<1> QED
  BY <1>2, <1>3 DEF Windows

LEMMA NowIsInstant ==
  ASSUME StoreInv
  PROVE  now \in 0..MaxNow /\ now \in Nat
BY VerificationAssumption, RateLimitAssumption DEF StoreInv

LEMMA AdmitType ==
  ASSUME TypeInv, NEW k \in Keys, Admit(k)
  PROVE  LimiterInv'
<1> DEFINE w == WindowOf(now)
<1>1. w \in Windows /\ now \in 0..MaxNow
  BY NowIsInstant, WindowsAre DEF TypeInv
<1>2. admitted' \in [Keys -> Seq(0..MaxNow)]
  BY <1>1 DEF TypeInv, LimiterInv, Admit
<1>3. CASE Allowed(k) /\ counts' = [counts EXCEPT ![k][w] = @ + 1] /\ UNCHANGED outages
  <2>1. counts[k][w] \in Nat /\ counts[k][w] < Limit[k[1]] /\ Limit[k[1]] \in Nat
    BY <1>1, <1>3, RateLimitAssumption DEF TypeInv, LimiterInv, Allowed
  <2>2. counts' \in [Keys -> [Windows -> Nat]]
    BY <1>1, <1>3 DEF TypeInv, LimiterInv
  <2>3. \A l \in Keys : \A v \in Windows :
          counts'[l][v] = IF l = k /\ v = w THEN counts[k][w] + 1 ELSE counts[l][v]
    BY <1>1, <1>3 DEF TypeInv, LimiterInv
  <2> QED
    BY <1>2, <1>3, <2>1, <2>2, <2>3 DEF TypeInv, LimiterInv
<1>4. CASE outages < MaxOutages /\ outages' = outages + 1 /\ UNCHANGED counts
  BY <1>2, <1>4, RateLimitAssumption DEF TypeInv, LimiterInv
<1> QED
  BY <1>3, <1>4 DEF Admit

LEMMA KeysAre ==
  /\ \A n \in Numbers : <<"send", n>> \in Keys /\ <<"guess", n>> \in Keys
  /\ \A a \in Accounts : <<"otp", a>> \in Keys
BY VerificationAssumption

LEMMA BegunType ==
  ASSUME StoreInv, NEW p \in Slots, Enter(p)
  PROVE  begun' \in 0..MaxRequests
BY VerificationAssumption DEF StoreInv, Enter

LEMMA StoreFrame ==
  ASSUME StoreInv, CodesInv, UNCHANGED <<store, codes, raced>>, now' \in Start..MaxNow,
         begun' \in 0..MaxRequests, shared' \subseteq CodeNumbers
  PROVE  StoreInv' /\ CodesInv' /\ Grows
BY DEF StoreInv, CodesInv, Grows, store, Registered, CodeNumbers

\* Beginning, going on and ending leave the store alone.
LEMMA JobType1 ==
  ASSUME TypeInv, UNCHANGED <<store, codes, raced>>, now' \in Start..MaxNow,
         begun' \in 0..MaxRequests, shared' \subseteq CodeNumbers, LimiterInv',
         NEW p \in Slots, Others(p), InHand(p)'
  PROVE  TypeInv'
BY StoreFrame, NextJob DEF TypeInv

LEMMA LimiterFrame ==
  ASSUME LimiterInv, UNCHANGED limiter
  PROVE  LimiterInv'
BY DEF LimiterInv, limiter

LEMMA RegisterEffect ==
  ASSUME TypeInv, NEW p \in Slots, Register(p)
  PROVE  /\ Others(p) /\ job'[p].at = "proof" /\ job'[p].code = 0
         /\ job'[p].account \in Accounts /\ job'[p].number \in Numbers
         /\ begun' \in 0..MaxRequests
<1>1. PICK a \in Accounts, n \in Numbers :
        Begin(p, [Idle EXCEPT !.at = "proof", !.account = a, !.number = n])
  BY DEF Register
<1> DEFINE next == [Idle EXCEPT !.at = "proof", !.account = a, !.number = n]
<1>2. /\ next \in JobType /\ next.at = "proof" /\ next.account = a /\ next.number = n
      /\ next.code = 0
  BY DEF Idle, JobType, Labels
<1>3. job' = [job EXCEPT ![p] = next] /\ Enter(p)
  BY <1>1 DEF Begin
<1> HIDE DEF next
<1> QED
  BY <1>2, <1>3, OneJob, BegunType DEF TypeInv

LEMMA RegisterType ==
  ASSUME TypeInv, NEW p \in Slots, Register(p)
  PROVE  TypeInv'
<1>1. InHand(p)'
  BY RegisterEffect DEF InHand
<1> QED
  BY <1>1, RegisterEffect, JobType1, LimiterFrame DEF Register, history, TypeInv, StoreInv

LEMMA ReadProofEffect ==
  ASSUME TypeInv, NEW p \in Slots, ReadProof(p)
  PROVE  /\ Others(p) /\ job'[p].at = "insert" /\ job'[p].account = job[p].account
         /\ job'[p].number = job[p].number /\ job'[p].stale = job[p].stale
         /\ job[p].number \in Numbers /\ job[p].account \in Accounts
         /\ job'[p].code = 0 \/ job'[p].code = proofs[job[p].number].code
         /\ shared' = IF job'[p].code # 0 /\ \E q \in Slots \ {p} : Opening(q, job'[p].code)
                      THEN shared \cup {job'[p].code} ELSE shared
<1>1. job[p].number \in Numbers /\ job[p].account \in Accounts /\ job[p] \in JobType
  BY DEF TypeInv, JobsInv, InHand, ReadProof, At
<1>2. PICK c \in Nat : c = IF RecentlyVerified(job[p].number) THEN proofs[job[p].number].code ELSE 0
  BY <1>1 DEF TypeInv, StoreInv, ProofType
<1> DEFINE next == [job[p] EXCEPT !.at = "insert", !.code = c]
<1>3. /\ next \in JobType /\ next.at = "insert" /\ next.account = job[p].account
      /\ next.number = job[p].number /\ next.code = c /\ next.stale = job[p].stale
  BY <1>1 DEF JobType, Labels
<1>4. job' = [job EXCEPT ![p] = next]
  BY <1>1, <1>2 DEF ReadProof, TypeInv, JobsInv
<1> HIDE DEF next
<1>5. Others(p) /\ job'[p] = next
  BY <1>3, <1>4, OneJob
<1> QED
  BY <1>1, <1>2, <1>3, <1>5 DEF ReadProof

LEMMA ReadProofType ==
  ASSUME TypeInv, NEW p \in Slots, ReadProof(p)
  PROVE  TypeInv'
<1>1. job'[p].code # 0 =>
        job'[p].code \in CodeNumbers /\ Pending(job[p].number) \in codes[job'[p].code].boxes
  BY ReadProofEffect DEF TypeInv, StoreInv
<1>2. shared' \subseteq CodeNumbers
  BY <1>1, ReadProofEffect DEF TypeInv, StoreInv
<1>3. InHand(p)'
  BY <1>1, ReadProofEffect DEF InHand, ReadProof, CodeNumbers
<1> QED
  BY <1>2, <1>3, ReadProofEffect, JobType1, LimiterFrame DEF ReadProof, TypeInv, StoreInv

\* What becomes of the users when one is added, or one is changed.
UserAt(a, user) ==
  /\ users' \in [Accounts -> UserType] /\ users'[a] = user
  /\ \A d \in Accounts \ {a} : users'[d] = users[d]
  /\ Registered' = Registered \cup {a}

LEMMA UserEffect ==
  ASSUME StoreInv, NEW a \in Accounts, NEW user \in UserType, users' = [users EXCEPT ![a] = user],
         user.phone # "none"
  PROVE  UserAt(a, user)
<1>1. users' \in [Accounts -> UserType] /\ users'[a] = user
      /\ \A d \in Accounts \ {a} : users'[d] = users[d]
  BY DEF StoreInv
<1>2. user # NoUser
  BY DEF NoUser
<1> QED
  BY <1>1, <1>2 DEF UserAt, Registered

LEMMA InsertEffect ==
  ASSUME TypeInv, NEW p \in Slots, InsertUser(p)
  PROVE  LET a == job[p].account  n == job[p].number  c == job[p].code IN
         /\ Others(p) /\ a \in Accounts /\ n \in Numbers /\ c \in 0..Len(codes)
         /\ c # 0 => Pending(n) \in codes[c].boxes
         /\ \/ users' = users /\ job'[p] = Idle
            \/ /\ a \notin Registered /\ Holders(n) = {}
               /\ UserAt(a, [phone |-> n, verified |-> c # 0, emailed |-> FALSE,
                             proof |-> c, opened |-> c])
               /\ job'[p].at = "bonus" /\ job'[p].account = a /\ job'[p].number = n
               /\ job'[p].code = c /\ job'[p].stale = job[p].stale
<1>1. job[p] \in JobType /\ job[p].account \in Accounts /\ job[p].number \in Numbers
      /\ job[p].code \in Nat
  BY DEF TypeInv, JobsInv, InHand, InsertUser, At, JobType
<1>2. PICK a \in Accounts, n \in Numbers, c \in Nat :
        a = job[p].account /\ n = job[p].number /\ c = job[p].code
  BY <1>1
<1>3. c \in 0..Len(codes) /\ (c # 0 => Pending(n) \in codes[c].boxes)
  BY <1>2 DEF TypeInv, JobsInv, InHand, InsertUser, At, CodeNumbers, CodesInv
<1>4. CASE RefusedByIndex(a, n)
  BY <1>1, <1>2, <1>3, <1>4, IdleIsJob, OneJob DEF InsertUser, Done
<1>5. CASE ~RefusedByIndex(a, n)
  <2> DEFINE user == [phone |-> n, verified |-> c # 0, emailed |-> FALSE, proof |-> c, opened |-> c]
  <2> DEFINE next == [job[p] EXCEPT !.at = "bonus"]
  <2>1. user \in UserType /\ user.phone # "none"
    BY NoneIsNobody DEF UserType
  <2>2. /\ next \in JobType /\ next.at = "bonus" /\ next.account = a /\ next.number = n
        /\ next.code = c /\ next.stale = job[p].stale
    BY <1>1, <1>2 DEF JobType, Labels
  <2>3. users' = [users EXCEPT ![a] = user] /\ job' = [job EXCEPT ![p] = next]
    BY <1>1, <1>2, <1>5 DEF InsertUser, Goto, TypeInv, JobsInv
  <2> HIDE DEF next
  <2>4. Others(p) /\ job'[p] = next
    BY <2>2, <2>3, OneJob
  <2>5. UserAt(a, user)
    BY <2>1, <2>3, UserEffect DEF TypeInv
  <2> QED
    BY <1>2, <1>3, <1>5, <2>2, <2>4, <2>5 DEF RefusedByIndex
<1> QED
  BY <1>4, <1>5

LEMMA UsersType ==
  ASSUME StoreInv, CodesInv, NEW a \in Accounts, NEW user \in UserType, UserAt(a, user),
         user.phone \in Numbers, Holders(user.phone) \subseteq {a},
         user.proof \in 0..Len(codes), user.opened \in 0..Len(codes),
         a \in Registered => user.opened = users[a].opened,
         boxes' \in [Boxes -> BoxType],
         \A b \in Boxes : boxes'[b].code # 0 => boxes'[b].code = boxes[b].code,
         UNCHANGED <<now, welcomed, proofs, codes, shared>>,
         raced' = raced \/ (raced' = raced \cup {a}),
         begun' \in 0..MaxRequests
  PROVE  StoreInv' /\ CodesInv' /\ Grows
<1>0. Registered \subseteq Accounts
  BY DEF Registered
<1>1. Grows
  BY <1>0 DEF UserAt, Grows, CodeNumbers
<1>2. \A d, e \in Registered' : users'[d].phone = users'[e].phone => d = e
  BY DEF UserAt, Holders, StoreInv, Registered
<1>3. \A d \in Accounts : users'[d].proof \in 0..Len(codes) /\ users'[d].opened \in 0..Len(codes)
  BY DEF UserAt, StoreInv
<1>4. raced' \subseteq Registered'
  BY DEF UserAt, StoreInv
<1>5. \A d \in Registered' : users'[d].phone \in Numbers
  BY <1>0 DEF UserAt, StoreInv
<1>6. \A b \in Boxes : boxes'[b].code # 0 =>
        boxes'[b].code \in CodeNumbers /\ b \in codes[boxes'[b].code].boxes
  BY DEF StoreInv
<1>7. StoreInv'
  BY <1>2, <1>3, <1>4, <1>5, <1>6 DEF StoreInv, CodeNumbers, UserAt
<1>8. CodesInv'
  BY DEF CodesInv, CodeNumbers
<1> QED
  BY <1>1, <1>7, <1>8

LEMMA InsertType ==
  ASSUME TypeInv, NEW p \in Slots, InsertUser(p)
  PROVE  TypeInv'
<1>1. UNCHANGED <<now, welcomed, boxes, proofs, begun, codes, raced, shared>> /\ LimiterInv'
  BY LimiterFrame DEF InsertUser, history, TypeInv
<1>2. CASE users' = users /\ job'[p] = Idle
  <2>1. InHand(p)'
    BY <1>2, IdleIsJob, IdleInHand
  <2> QED
    BY <1>1, <1>2, <2>1, InsertEffect, JobType1 DEF store, TypeInv, StoreInv
<1>3. CASE ~(users' = users /\ job'[p] = Idle)
  <2>1. PICK a \in Accounts, n \in Numbers, c \in 0..Len(codes) :
          /\ a = job[p].account /\ n = job[p].number /\ c = job[p].code
          /\ c # 0 => Pending(n) \in codes[c].boxes
          /\ a \notin Registered /\ Holders(n) = {}
          /\ UserAt(a, [phone |-> n, verified |-> c # 0, emailed |-> FALSE,
                        proof |-> c, opened |-> c])
          /\ job'[p].at = "bonus" /\ job'[p].account = a /\ job'[p].number = n
          /\ job'[p].code = c /\ Others(p)
    BY <1>3, InsertEffect
  <2> DEFINE user == [phone |-> n, verified |-> c # 0, emailed |-> FALSE, proof |-> c, opened |-> c]
  <2>2. user \in UserType /\ user.phone = n /\ user.proof = c /\ user.opened = c /\ UserAt(a, user)
    BY <2>1 DEF UserType
  <2> HIDE DEF user
  <2>3. StoreInv' /\ CodesInv' /\ Grows
    BY <1>1, <2>1, <2>2, UsersType DEF TypeInv, StoreInv
  <2>4. users'[a].opened = c /\ a \in Registered'
    BY <2>2 DEF UserAt
  <2>5. InHand(p)'
    BY <1>1, <2>1, <2>4 DEF InHand, CodeNumbers
  <2> QED
    BY <1>1, <2>1, <2>3, <2>5, NextJob DEF TypeInv
<1> QED
  BY <1>2, <1>3

LEMMA BonusEffect ==
  ASSUME TypeInv, NEW p \in Slots, GrantBonus(p)
  PROVE  /\ Others(p) /\ job'[p].at = "channel" /\ job'[p].account = job[p].account
         /\ job'[p].number = job[p].number /\ job'[p].code = job[p].code
         /\ job'[p].stale = job[p].stale /\ job[p].at = "bonus" /\ job[p].account \in Registered
<1>1. job[p] \in JobType
  BY DEF TypeInv, JobsInv
<1> DEFINE next == [job[p] EXCEPT !.at = "channel"]
<1>2. /\ next \in JobType /\ next.at = "channel" /\ next.account = job[p].account
      /\ next.number = job[p].number /\ next.code = job[p].code /\ next.stale = job[p].stale
  BY <1>1 DEF JobType, Labels
<1>3. job' = [job EXCEPT ![p] = next]
  BY DEF GrantBonus, Goto
<1> HIDE DEF next
<1>4. job[p].account \in Registered
  BY DEF GrantBonus, At, TypeInv, JobsInv, InHand
<1> QED
  BY <1>2, <1>3, <1>4, OneJob DEF GrantBonus, At

LEMMA BonusType ==
  ASSUME TypeInv, NEW p \in Slots, GrantBonus(p)
  PROVE  TypeInv'
<1>1. job[p].account \in Accounts /\ InHand(p)
  BY BonusEffect DEF Registered, TypeInv, JobsInv
<1>2. welcomed' \in [Accounts -> Nat]
  BY <1>1 DEF GrantBonus, TypeInv, StoreInv
<1>3. StoreInv' /\ CodesInv' /\ Grows
  BY <1>2 DEF GrantBonus, TypeInv, StoreInv, CodesInv, Grows, history, Registered, CodeNumbers
<1>4. InHand(p)'
  BY <1>1, <1>3, BonusEffect DEF InHand, Grows
<1> QED
  BY <1>3, <1>4, BonusEffect, NextJob, LimiterFrame DEF GrantBonus, TypeInv

\* A code: where it is kept, and to whom it goes.
Issuable(bs, to) ==
  /\ bs \subseteq Boxes /\ to \in Numbers \cup Accounts
  /\ \A n \in Numbers : Pending(n) \in bs => to = n /\ n \in SmsNumbers
  /\ \A b, d \in bs : Counted(b) /\ Counted(d) => b = d

\* What a code does to all there is.
AfterIssue(p, bs, to) ==
  /\ Len(codes') = Len(codes) + 1 /\ CodeNumbers' = CodeNumbers \cup {Len(codes) + 1}
  /\ codes' \in Seq(CodeType)
  /\ \A c \in CodeNumbers : codes'[c] = codes[c]
  /\ codes'[Len(codes) + 1] = [boxes |-> bs, to |-> to, wrong |-> 0, together |-> 0, lost |-> 0]
  /\ boxes' \in [Boxes -> BoxType]
  /\ \A b \in Boxes \ bs : boxes'[b] = boxes[b]
  /\ \A b \in bs : boxes'[b].code = Len(codes) + 1 /\ boxes'[b].attempts = 0
  /\ proofs' \in [Numbers -> ProofType]
  /\ \A n \in Numbers : proofs'[n] = IF Pending(n) \in bs THEN NoProof ELSE proofs[n]
  /\ raced' = IF job[p].stale THEN raced \cup {job[p].account} ELSE raced
  /\ job' \in [Slots -> JobType] /\ job'[p] = Idle
  /\ \A q \in Slots \ {p} :
       Kept(q) /\ (job'[q].stale <=> job[q].stale \/ \E b \in bs : Fits(b, q))
  /\ UNCHANGED <<users, welcomed, shared>>

LEMMA IssueEffect ==
  ASSUME TypeInv, NEW p \in Slots, NEW bs, NEW to, Issuable(bs, to), Issue(p, bs, to)
  PROVE  AfterIssue(p, bs, to)
<1> DEFINE new == [boxes |-> bs, to |-> to, wrong |-> 0, together |-> 0, lost |-> 0]
<1>1. new \in CodeType /\ codes \in Seq(CodeType) /\ codes' = Append(codes, new)
  BY DEF Issuable, CodeType, Issue, TypeInv, CodesInv
<1> HIDE DEF new
<1>2. /\ codes' \in Seq(CodeType) /\ Len(codes') = Len(codes) + 1 /\ Len(codes) \in Nat
      /\ codes'[Len(codes) + 1] = new /\ \A c \in 1..Len(codes) : codes'[c] = codes[c]
  BY <1>1
<1>3. boxes' \in [Boxes -> BoxType]
      /\ (\A b \in Boxes \ bs : boxes'[b] = boxes[b])
      /\ \A b \in bs : boxes'[b].code = Len(codes) + 1 /\ boxes'[b].attempts = 0
  <2>1. \A b \in Boxes : now + Life(b) \in Nat
    BY NowIsInstant, VerificationAssumption DEF Life, TypeInv
  <2>2. \A b \in Boxes : boxes'[b] = IF b \in bs
          THEN [code |-> Len(codes) + 1, until |-> now + Life(b), attempts |-> 0] ELSE boxes[b]
    BY DEF Issue
  <2>3. boxes' = [b \in Boxes |-> boxes'[b]]
    BY DEF Issue
  <2>4. \A b \in Boxes : boxes'[b] \in BoxType
    <3> SUFFICES ASSUME NEW b \in Boxes PROVE boxes'[b] \in BoxType
      OBVIOUS
    <3>1. CASE b \in bs
      <4>1. boxes'[b] = [code |-> Len(codes) + 1, until |-> now + Life(b), attempts |-> 0]
        BY <2>2, <3>1
      <4> QED
        BY <1>2, <2>1, <4>1 DEF BoxType
    <3>2. CASE b \notin bs
      BY <2>2, <3>2 DEF TypeInv, StoreInv
    <3> QED
      BY <3>1, <3>2
  <2>5. \A b \in bs : boxes'[b].code = Len(codes) + 1 /\ boxes'[b].attempts = 0
    <3> SUFFICES ASSUME NEW b \in bs
                 PROVE  boxes'[b].code = Len(codes) + 1 /\ boxes'[b].attempts = 0
      OBVIOUS
    <3>1. b \in Boxes
      BY DEF Issuable
    <3>2. boxes'[b] = [code |-> Len(codes) + 1, until |-> now + Life(b), attempts |-> 0]
      BY <2>2, <3>1
    <3> QED
      BY <3>2
  <2> QED
    BY <2>2, <2>3, <2>4, <2>5
<1>4. proofs' \in [Numbers -> ProofType]
      /\ \A n \in Numbers : proofs'[n] = IF Pending(n) \in bs THEN NoProof ELSE proofs[n]
  BY DEF Issue, Pending, TypeInv, StoreInv, NoProof, ProofType
<1>5. job' \in [Slots -> JobType] /\ job'[p] = Idle
      /\ \A q \in Slots \ {p} :
           Kept(q) /\ (job'[q].stale <=> job[q].stale \/ \E b \in bs : Fits(b, q))
  <2>1. \A q \in Slots \ {p} :
          job'[q] = IF \E b \in bs : Fits(b, q) THEN [job[q] EXCEPT !.stale = TRUE] ELSE job[q]
    BY DEF Issue
  <2>2. job' = [q \in Slots |-> job'[q]] /\ job'[p] = Idle
    BY DEF Issue
  <2>3. \A q \in Slots \ {p} : job[q] \in JobType
    BY DEF TypeInv, JobsInv
  <2>4. \A q \in Slots \ {p} :
          /\ job'[q] \in JobType /\ Kept(q)
          /\ job'[q].stale <=> job[q].stale \/ \E b \in bs : Fits(b, q)
    <3> SUFFICES ASSUME NEW q \in Slots \ {p}
                 PROVE  /\ job'[q] \in JobType /\ Kept(q)
                        /\ job'[q].stale <=> job[q].stale \/ \E b \in bs : Fits(b, q)
      OBVIOUS
    <3>1. CASE \E b \in bs : Fits(b, q)
      <4>1. job'[q] = [job[q] EXCEPT !.stale = TRUE]
        BY <2>1, <3>1
      <4> QED
        BY <2>3, <3>1, <4>1 DEF JobType, Kept
    <3>2. CASE ~\E b \in bs : Fits(b, q)
      BY <2>1, <2>3, <3>2 DEF Kept
    <3> QED
      BY <3>1, <3>2
  <2>5. \A q \in Slots : job'[q] \in JobType
    BY <2>2, <2>4, IdleIsJob
  <2> QED
    BY <2>2, <2>4, <2>5
<1> QED
  BY <1>2, <1>3, <1>4, <1>5 DEF Issue, CodeNumbers, new, AfterIssue

LEMMA IssueType ==
  ASSUME TypeInv, NEW p \in Slots, NEW bs, NEW to, Issuable(bs, to), Issue(p, bs, to),
         UNCHANGED <<now, begun, limiter>>, job[p].stale => job[p].account \in Registered
  PROVE  TypeInv'
<1>0. AfterIssue(p, bs, to)
  BY IssueEffect
<1>1. Grows /\ Registered' = Registered
  BY <1>0 DEF Grows, Registered, AfterIssue
<1>2. CodesInv'
  <2>1. \A c \in CodeNumbers' : \/ codes'[c].boxes = bs /\ codes'[c].to = to
                                \/ c \in CodeNumbers /\ codes'[c] = codes[c]
    BY <1>0 DEF AfterIssue
  <2>2. \A c \in CodeNumbers' : \A n \in Numbers :
          Pending(n) \in codes'[c].boxes => codes'[c].to = n /\ n \in SmsNumbers
    BY <2>1 DEF Issuable, TypeInv, CodesInv
  <2>3. \A c \in CodeNumbers' : \A b, d \in codes'[c].boxes : Counted(b) /\ Counted(d) => b = d
    BY <2>1 DEF Issuable, TypeInv, CodesInv
  <2> QED
    BY <2>2, <2>3, <1>0 DEF CodesInv, AfterIssue
<1>3. \A b \in Boxes : boxes'[b].code # 0 =>
        boxes'[b].code \in CodeNumbers' /\ b \in codes'[boxes'[b].code].boxes
  <2> SUFFICES ASSUME NEW b \in Boxes, boxes'[b].code # 0
               PROVE  boxes'[b].code \in CodeNumbers' /\ b \in codes'[boxes'[b].code].boxes
    OBVIOUS
  <2>1. CASE b \in bs
    BY <2>1, <1>0 DEF AfterIssue
  <2>2. CASE b \notin bs
    <3>1. boxes'[b] = boxes[b]
      BY <2>2, <1>0 DEF AfterIssue
    <3>2. boxes[b].code \in CodeNumbers /\ b \in codes[boxes[b].code].boxes
      BY <3>1 DEF TypeInv, StoreInv
    <3> QED
      BY <3>1, <3>2, <1>0 DEF AfterIssue
  <2> QED
    BY <2>1, <2>2
<1>4. \A n \in Numbers : proofs'[n].code # 0 =>
        proofs'[n].code \in CodeNumbers' /\ Pending(n) \in codes'[proofs'[n].code].boxes
  <2> SUFFICES ASSUME NEW n \in Numbers, proofs'[n].code # 0
               PROVE  proofs'[n].code \in CodeNumbers' /\ Pending(n) \in codes'[proofs'[n].code].boxes
    OBVIOUS
  <2>1. proofs'[n] = proofs[n]
    BY <1>0 DEF NoProof, AfterIssue
  <2> QED
    BY <2>1, <1>0 DEF TypeInv, StoreInv, AfterIssue
<1>5. StoreInv'
  <2>1. \A a \in Accounts : users[a].proof \in 0..Len(codes') /\ users[a].opened \in 0..Len(codes')
    BY <1>0 DEF TypeInv, StoreInv, CodesInv, AfterIssue
  <2>2. UNCHANGED <<users, welcomed, shared, now, begun>> /\ shared \subseteq CodeNumbers'
    BY <1>0 DEF TypeInv, StoreInv, AfterIssue
  <2>3. raced' \subseteq Registered
    BY <1>0 DEF TypeInv, StoreInv, AfterIssue
  <2>4. boxes' \in [Boxes -> BoxType] /\ proofs' \in [Numbers -> ProofType]
    BY <1>0 DEF AfterIssue
  <2> QED
    BY <1>1, <1>3, <1>4, <2>1, <2>2, <2>3, <2>4 DEF StoreInv, TypeInv
<1>6. JobsInv'
  <2>1. \A q \in Slots : InHand(q)'
    <3> SUFFICES ASSUME NEW q \in Slots PROVE InHand(q)'
      OBVIOUS
    <3>1. CASE q = p
      BY <3>1, <1>0, IdleIsJob, IdleInHand DEF AfterIssue
    <3>2. CASE q # p
      <4>1. Kept(q) /\ (job'[q].stale <=> job[q].stale \/ \E b \in bs : Fits(b, q))
        BY <3>2, <1>0 DEF AfterIssue
      <4>2. At(q, "issue") /\ job[q].box.kind = "pending" => ~job'[q].stale
        BY <4>1 DEF TypeInv, JobsInv, InHand, At, Fits
      <4> QED
        BY <1>1, <4>1, <4>2, InHandThrough
    <3> QED
      BY <3>1, <3>2
  <2> QED
    BY <2>1, <1>0 DEF JobsInv, AfterIssue
<1> QED
  BY <1>2, <1>5, <1>6, LimiterFrame DEF TypeInv

LEMMA Issuables ==
  /\ \A n \in SmsNumbers : Issuable({Pending(n)}, n)
  /\ \A a \in Accounts, n \in Numbers : Issuable({Phone(a)}, n)
  /\ \A a \in Accounts : Issuable(Mail(a), a)
<1>1. \A n \in SmsNumbers : n \in Numbers
  BY VerificationAssumption
<1> QED
  BY <1>1, BoxesAre DEF Issuable

\* What is issued is issued to somebody, wherever it is asked for.
LEMMA IssueCases ==
  ASSUME TypeInv, NEW p \in Slots, IssueCode(p) \/ (Channel(p) /\ ~ClaimPendingPhone(p))
  PROVE  /\ job[p].stale => job[p].account \in Registered
         /\ \/ \E n \in SmsNumbers : /\ job[p].box = Pending(n) /\ Issue(p, {Pending(n)}, n)
                                     /\ At(p, "issue") /\ ~job[p].stale
            \/ \E a \in Registered, n \in Numbers :
                 /\ job[p].account = a /\ job[p].number = n /\ Issue(p, {Phone(a)}, n)
                 /\ At(p, "channel") \/ (At(p, "issue") /\ job[p].box.kind = "phone")
                 /\ At(p, "channel") => job[p].code = 0
            \/ \E a \in Registered :
                 /\ job[p].account = a /\ Issue(p, Mail(a), a)
                 /\ At(p, "channel") => job[p].code = 0
<1>1. InHand(p)
  BY DEF TypeInv, JobsInv
<1>2. CASE Channel(p) /\ ~ClaimPendingPhone(p)
  <2>1. /\ At(p, "channel") /\ job[p].account \in Registered /\ job[p].number \in Numbers
        /\ job[p].code # 0 =>
             job[p].code \in CodeNumbers /\ Pending(job[p].number) \in codes[job[p].code].boxes
    BY <1>1, <1>2 DEF Channel, InHand, At
  <2>2. job[p].code # 0 => job[p].number \in SmsNumbers
    BY <2>1 DEF TypeInv, CodesInv
  <2>3. CASE job[p].number \in SmsNumbers
    BY <1>2, <2>1, <2>3 DEF Channel, Phone
  <2>4. CASE job[p].number \notin SmsNumbers
    BY <1>2, <2>1, <2>2, <2>4 DEF Channel, ClaimPendingPhone
  <2> QED
    BY <2>3, <2>4
<1>3. CASE IssueCode(p)
  <2>1. job[p].at = "issue" /\ job[p].box \in Boxes
    BY <1>1, <1>3 DEF IssueCode, At, InHand
  <2>2. CASE job[p].box.kind = "pending"
    <3>1. ~job[p].stale /\ job[p].number \in SmsNumbers /\ job[p].box = Pending(job[p].number)
      BY <1>1, <2>1, <2>2, BoxKinds DEF InHand
    <3> QED
      BY <1>3, <2>1, <2>2, <3>1 DEF IssueCode, At
  <2>3. CASE job[p].box.kind = "phone"
    <3>1. job[p].account \in Registered /\ job[p].number \in Numbers /\ job[p].box = Phone(job[p].account)
      BY <1>1, <2>1, <2>3, BoxKinds DEF InHand
    <3> QED
      BY <1>3, <2>1, <2>3, <3>1 DEF IssueCode, At
  <2>4. CASE job[p].box.kind = "email"
    <3>1. job[p].account \in Registered
      BY <1>1, <2>1, <2>4 DEF InHand
    <3> QED
      BY <1>3, <2>1, <2>4, <3>1 DEF IssueCode, At
  <2> QED
    BY <1>1, <2>1, <2>2, <2>3, <2>4, BoxKinds DEF InHand
<1> QED
  BY <1>2, <1>3

LEMMA IssuingType ==
  ASSUME TypeInv, NEW p \in Slots, IssueCode(p) \/ (Channel(p) /\ ~ClaimPendingPhone(p))
  PROVE  TypeInv'
<1>1. UNCHANGED <<now, begun, limiter>> /\ (job[p].stale => job[p].account \in Registered)
  BY IssueCases DEF IssueCode, Channel
<1>2. ASSUME NEW n \in SmsNumbers, Issue(p, {Pending(n)}, n) PROVE TypeInv'
  BY <1>1, <1>2, Issuables, IssueType
<1>3. ASSUME NEW a \in Registered, NEW n \in Numbers, Issue(p, {Phone(a)}, n) PROVE TypeInv'
  <2>1. Issuable({Phone(a)}, n)
    BY Issuables DEF Registered
  <2> QED
    BY <1>1, <1>3, <2>1, IssueType
<1>4. ASSUME NEW a \in Registered, Issue(p, Mail(a), a) PROVE TypeInv'
  <2>1. Issuable(Mail(a), a)
    BY Issuables DEF Registered
  <2> QED
    BY <1>1, <1>4, <2>1, IssueType
<1> QED
  BY <1>2, <1>3, <1>4, IssueCases

LEMMA DoneEffect ==
  ASSUME TypeInv, NEW p \in Slots, Done(p)
  PROVE  Others(p) /\ job'[p] = Idle /\ InHand(p)'
<1>1. Others(p) /\ job'[p] = Idle
  BY IdleIsJob, OneJob DEF Done
<1> QED
  BY <1>1, IdleIsJob, IdleInHand

\* The codes are as they were, but for what is counted with them.
SameCodes ==
  /\ codes' \in Seq(CodeType) /\ Len(codes') = Len(codes)
  /\ \A c \in CodeNumbers : codes'[c].boxes = codes[c].boxes /\ codes'[c].to = codes[c].to

LEMMA CodesFrame ==
  ASSUME CodesInv, SameCodes
  PROVE  CodesInv' /\ CodeNumbers' = CodeNumbers
<1>1. CodeNumbers' = CodeNumbers
  BY DEF CodeNumbers, SameCodes
<1>2. \A c \in CodeNumbers : codes'[c].boxes = codes[c].boxes /\ codes'[c].to = codes[c].to
  BY DEF SameCodes
<1>3. codes' \in Seq(CodeType)
  BY DEF SameCodes
<1> QED
  BY <1>1, <1>2, <1>3 DEF CodesInv

\* A box is emptied, its proof stored or dropped: no other code comes into it.
LEMMA BoxesType ==
  ASSUME TypeInv, SameCodes, UNCHANGED <<users, welcomed>>, now' \in Start..MaxNow,
         begun' \in 0..MaxRequests, shared' \subseteq CodeNumbers, raced' \subseteq Registered,
         boxes' \in [Boxes -> BoxType], proofs' \in [Numbers -> ProofType],
         \A b \in Boxes : boxes'[b].code # 0 => boxes'[b].code = boxes[b].code,
         \A n \in Numbers : proofs'[n].code # 0 =>
           proofs'[n].code \in CodeNumbers /\ Pending(n) \in codes[proofs'[n].code].boxes,
         LimiterInv', NEW p \in Slots, Others(p), InHand(p)'
  PROVE  TypeInv' /\ Grows
<1>1. CodesInv' /\ CodeNumbers' = CodeNumbers /\ Registered' = Registered
  BY CodesFrame DEF TypeInv, Registered
<1>2. \A c \in CodeNumbers : codes'[c].boxes = codes[c].boxes /\ codes'[c].to = codes[c].to
  BY DEF SameCodes
<1>3. Grows
  BY <1>1, <1>2 DEF Grows
<1>4. \A b \in Boxes : boxes'[b].code # 0 =>
        boxes'[b].code \in CodeNumbers /\ b \in codes'[boxes'[b].code].boxes
  BY <1>2 DEF TypeInv, StoreInv
<1>5. \A n \in Numbers : proofs'[n].code # 0 =>
        proofs'[n].code \in CodeNumbers /\ Pending(n) \in codes'[proofs'[n].code].boxes
  BY <1>2
<1>6. StoreInv'
  BY <1>1, <1>4, <1>5 DEF StoreInv, SameCodes, TypeInv
<1> QED
  BY <1>1, <1>3, <1>6, NextJob DEF TypeInv

LEMMA EmptyIsBox == Empty \in BoxType /\ Empty.code = 0 /\ NoProof \in ProofType /\ NoProof.code = 0
BY DEF Empty, BoxType, NoProof, ProofType

LEMMA UnchangedCodes == TypeInv /\ UNCHANGED codes => SameCodes
BY DEF TypeInv, CodesInv, SameCodes

LEMMA ClaimEffect ==
  ASSUME TypeInv, NEW p \in Slots, Channel(p), ClaimPendingPhone(p)
  PROVE  LET n == job[p].number IN
         /\ n \in Numbers /\ proofs'[n] = NoProof /\ boxes'[Pending(n)] = Empty
         /\ \A m \in Numbers \ {n} : proofs'[m] = proofs[m]
         /\ \A b \in Boxes \ {Pending(n)} : boxes'[b] = boxes[b]
         /\ proofs' \in [Numbers -> ProofType] /\ boxes' \in [Boxes -> BoxType]
         /\ Done(p) /\ At(p, "channel") /\ job[p].code # 0
         /\ UNCHANGED <<now, users, welcomed, begun, codes, raced, shared>> /\ LimiterInv'
<1>1. PICK n \in Numbers : n = job[p].number
  BY DEF TypeInv, JobsInv, InHand, Channel, At
<1>2. proofs' = [proofs EXCEPT ![n] = NoProof] /\ boxes' = [boxes EXCEPT ![Pending(n)] = Empty]
  BY <1>1 DEF ClaimPendingPhone, Pending
<1>3. Pending(n) \in Boxes
  BY BoxesAre
<1>4. /\ proofs' \in [Numbers -> ProofType] /\ proofs'[n] = NoProof
      /\ \A m \in Numbers \ {n} : proofs'[m] = proofs[m]
  BY <1>2, EmptyIsBox DEF TypeInv, StoreInv
<1>5. /\ boxes' \in [Boxes -> BoxType] /\ boxes'[Pending(n)] = Empty
      /\ \A b \in Boxes \ {Pending(n)} : boxes'[b] = boxes[b]
  BY <1>2, <1>3, EmptyIsBox DEF TypeInv, StoreInv
<1>6. UNCHANGED <<now, users, welcomed, begun, codes, raced, shared>> /\ LimiterInv'
  BY LimiterFrame DEF Channel, ClaimPendingPhone, TypeInv, history
<1> QED
  BY <1>1, <1>4, <1>5, <1>6 DEF Channel, ClaimPendingPhone

LEMMA ClaimType ==
  ASSUME TypeInv, NEW p \in Slots, Channel(p), ClaimPendingPhone(p)
  PROVE  TypeInv'
<1>1. PICK n \in Numbers : n = job[p].number
  BY ClaimEffect
<1>2. \A b \in Boxes : boxes'[b].code # 0 => boxes'[b].code = boxes[b].code
  BY <1>1, ClaimEffect, EmptyIsBox
<1>3. \A m \in Numbers : proofs'[m].code # 0 =>
        proofs'[m].code \in CodeNumbers /\ Pending(m) \in codes[proofs'[m].code].boxes
  BY <1>1, ClaimEffect, EmptyIsBox DEF TypeInv, StoreInv
<1> QED
  BY <1>2, <1>3, ClaimEffect, DoneEffect, UnchangedCodes, BoxesType DEF TypeInv, StoreInv

LEMMA ResendPhoneEffect ==
  ASSUME TypeInv, NEW p \in Slots, ResendPhone(p)
  PROVE  /\ Others(p) /\ At(p, "idle") /\ LimiterInv' /\ UNCHANGED <<now, store, history>>
         /\ begun' \in 0..MaxRequests
         /\ \/ job'[p] = Idle
            \/ /\ job'[p].at = "issue" /\ ~job'[p].stale /\ job'[p].code = 0
               /\ \/ \E n \in SmsNumbers : /\ job'[p].box = Pending(n) /\ job'[p].number = n
                                         /\ job'[p].account = "none"
                  \/ \E a \in Registered : /\ job'[p].box = Phone(a) /\ job'[p].account = a
                                           /\ job'[p].number = users[a].phone
<1>1. PICK n \in Numbers : /\ Admit(<<"send", n>>)
                           /\ \/ Begin(p, Idle)
                              \/ /\ n \in SmsNumbers
                                 /\ Begin(p, [Idle EXCEPT !.at = "issue", !.account = "none",
                                                          !.number = n, !.box = Box("pending", n)])
                              \/ \E a \in Holders(n) :
                                   Begin(p, [Idle EXCEPT !.at = "issue", !.account = a,
                                                         !.number = n, !.box = Box("phone", a)])
  BY DEF ResendPhone
<1>2. LimiterInv'
  BY <1>1, KeysAre, AdmitType
<1>3. At(p, "idle") /\ begun' \in 0..MaxRequests
  BY <1>1, BegunType DEF Begin, Enter, TypeInv
<1>4. CASE Begin(p, Idle)
  BY <1>2, <1>3, <1>4, IdleIsJob, OneJob DEF Begin, ResendPhone
<1>5. CASE n \in SmsNumbers /\ Begin(p, [Idle EXCEPT !.at = "issue", !.account = "none",
                                                      !.number = n, !.box = Box("pending", n)])
  <2> DEFINE next == [Idle EXCEPT !.at = "issue", !.account = "none", !.number = n,
                                  !.box = Box("pending", n)]
  <2>1. next \in JobType /\ next.at = "issue" /\ next.box = Pending(n) /\ next.number = n
        /\ next.account = "none" /\ next.stale = FALSE /\ next.code = 0
    BY BoxesAre DEF Idle, JobType, Labels, Pending
  <2>2. job' = [job EXCEPT ![p] = next]
    BY <1>5 DEF Begin
  <2> HIDE DEF next
  <2>3. Others(p) /\ job'[p] = next
    BY <2>1, <2>2, OneJob
  <2> QED
    BY <1>2, <1>3, <1>5, <2>1, <2>3 DEF ResendPhone
<1>6. CASE \E a \in Holders(n) : Begin(p, [Idle EXCEPT !.at = "issue", !.account = a,
                                                       !.number = n, !.box = Box("phone", a)])
  <2>1. PICK a \in Holders(n) : Begin(p, [Idle EXCEPT !.at = "issue", !.account = a,
                                                      !.number = n, !.box = Box("phone", a)])
    BY <1>6
  <2>2. a \in Registered /\ a \in Accounts /\ users[a].phone = n
    BY DEF Holders, Registered
  <2> DEFINE next == [Idle EXCEPT !.at = "issue", !.account = a, !.number = n,
                                  !.box = Box("phone", a)]
  <2>3. next \in JobType /\ next.at = "issue" /\ next.box = Phone(a) /\ next.number = n
        /\ next.account = a /\ next.stale = FALSE /\ next.code = 0
    BY <2>2, BoxesAre DEF Idle, JobType, Labels, Phone
  <2>4. job' = [job EXCEPT ![p] = next]
    BY <2>1 DEF Begin
  <2> HIDE DEF next
  <2>5. Others(p) /\ job'[p] = next
    BY <2>3, <2>4, OneJob
  <2> QED
    BY <1>2, <1>3, <2>2, <2>3, <2>5 DEF ResendPhone
<1> QED
  BY <1>1, <1>4, <1>5, <1>6

LEMMA ResendPhoneType ==
  ASSUME TypeInv, NEW p \in Slots, ResendPhone(p)
  PROVE  TypeInv'
<1>1. InHand(p)'
  <2>1. CASE job'[p] = Idle
    BY <2>1, IdleIsJob, IdleInHand
  <2>2. ASSUME NEW n \in SmsNumbers, job'[p].at = "issue", job'[p].code = 0, ~job'[p].stale,
               job'[p].box = Pending(n), job'[p].number = n, job'[p].account = "none"
        PROVE  InHand(p)'
    BY <2>2, BoxesAre, VerificationAssumption DEF InHand
  <2>3. ASSUME NEW a \in Registered, job'[p].at = "issue", job'[p].code = 0,
               job'[p].box = Phone(a), job'[p].account = a, job'[p].number = users[a].phone
        PROVE  InHand(p)'
    <3>1. a \in Accounts /\ users[a].phone \in Numbers /\ a \in Registered'
      BY ResendPhoneEffect DEF Registered, TypeInv, StoreInv, store
    <3> QED
      BY <2>3, <3>1, BoxesAre DEF InHand
  <2> QED
    BY <2>1, <2>2, <2>3, ResendPhoneEffect
<1> QED
  BY <1>1, ResendPhoneEffect, JobType1 DEF history, TypeInv, StoreInv

LEMMA ResendEmailEffect ==
  ASSUME TypeInv, NEW p \in Slots, ResendEmail(p)
  PROVE  /\ Others(p) /\ At(p, "idle") /\ UNCHANGED <<now, store, history, limiter>>
         /\ begun' \in 0..MaxRequests
         /\ job'[p].at = "issue" /\ ~job'[p].stale /\ job'[p].code = 0
         /\ \E a \in Registered : job'[p].box = Box("email", a) /\ job'[p].account = a
<1>1. PICK a \in Registered :
        Begin(p, [Idle EXCEPT !.at = "issue", !.account = a, !.box = Box("email", a)])
  BY DEF ResendEmail
<1> DEFINE next == [Idle EXCEPT !.at = "issue", !.account = a, !.box = Box("email", a)]
<1>2. next \in JobType /\ next.at = "issue" /\ next.box = Box("email", a) /\ next.account = a
      /\ next.stale = FALSE /\ next.code = 0
  BY BoxesAre DEF Idle, JobType, Labels, Registered
<1>3. job' = [job EXCEPT ![p] = next] /\ Enter(p)
  BY <1>1 DEF Begin
<1> HIDE DEF next
<1> QED
  BY <1>2, <1>3, OneJob, BegunType DEF Enter, ResendEmail, TypeInv

LEMMA ResendEmailType ==
  ASSUME TypeInv, NEW p \in Slots, ResendEmail(p)
  PROVE  TypeInv'
<1>1. PICK a \in Registered : job'[p].box = Box("email", a) /\ job'[p].account = a
  BY ResendEmailEffect
<1>2. /\ a \in Registered' /\ Box("email", a) \in Boxes
      /\ Box("email", a).kind = "email" /\ Box("email", a).of = a
  BY BoxesAre, ResendEmailEffect DEF Registered, store, Box
<1>3. InHand(p)'
  BY <1>1, <1>2, ResendEmailEffect DEF InHand
<1> QED
  BY <1>3, ResendEmailEffect, JobType1, LimiterFrame DEF history, TypeInv, StoreInv

\* What is compared with what is in a box.
Checkable(a, n, b) ==
  /\ a \in Accounts \cup {"none"} /\ n \in Numbers \cup {"none"} /\ b \in Boxes /\ Counted(b)
  /\ b.kind = "pending" => n = b.of /\ n \in Numbers
  /\ b.kind # "pending" => a = b.of /\ a \in Registered

Compared(p, a, n, b, l) ==
  /\ ~Answered(b) /\ boxes[b].code \in CodeNumbers /\ b \in codes[boxes[b].code].boxes
  /\ job'[p].at = l /\ job'[p].account = a /\ job'[p].number = n /\ job'[p].box = b
  /\ job'[p].code = boxes[b].code /\ ~job'[p].stale

AfterCheck(p, a, n, b) ==
  /\ Others(p) /\ SameCodes
  /\ \/ job'[p] = Idle /\ codes' = codes
     \/ Compared(p, a, n, b, "right") /\ codes' = codes
     \/ LET c == boxes[b].code IN
        /\ Compared(p, a, n, b, "wrong")
        /\ \A d \in CodeNumbers \ {c} : codes'[d] = codes[d]
        /\ codes'[c].wrong = codes[c].wrong + 1 /\ codes'[c].lost = codes[c].lost
        /\ codes'[c].together = codes[c].together + IF Together(p, c) THEN 1 ELSE 0

LEMMA CheckEffect ==
  ASSUME TypeInv, NEW p \in Slots, NEW a, NEW n, NEW b, Checkable(a, n, b), Check(p, a, n, b)
  PROVE  AfterCheck(p, a, n, b)
<1>1. CASE Done(p) /\ UNCHANGED codes
  BY <1>1, DoneEffect, UnchangedCodes DEF AfterCheck
<1>2. ASSUME ~Answered(b), NEW l \in {"right", "wrong"},
             job' = [job EXCEPT ![p] = [Idle EXCEPT !.at = l, !.account = a, !.number = n,
                                                    !.box = b, !.code = boxes[b].code]]
      PROVE  Others(p) /\ Compared(p, a, n, b, l)
  <2>1. PICK c \in Nat : c = boxes[b].code
    BY DEF Checkable, TypeInv, StoreInv, BoxType
  <2> DEFINE next == [Idle EXCEPT !.at = l, !.account = a, !.number = n, !.box = b, !.code = c]
  <2>2. /\ next \in JobType /\ next.at = l /\ next.account = a /\ next.number = n
        /\ next.box = b /\ next.code = c /\ next.stale = FALSE
    BY DEF Idle, JobType, Labels, Checkable
  <2>3. job' = [job EXCEPT ![p] = next]
    BY <1>2, <2>1
  <2> HIDE DEF next
  <2>4. Others(p) /\ job'[p] = next
    BY <2>2, <2>3, OneJob
  <2>5. c \in CodeNumbers /\ b \in codes[c].boxes
    BY <1>2, <2>1 DEF Answered, Checkable, TypeInv, StoreInv
  <2> QED
    BY <1>2, <2>1, <2>2, <2>4, <2>5 DEF Compared
<1>3. CASE ~Answered(b) /\ UNCHANGED codes
           /\ job' = [job EXCEPT ![p] = [Idle EXCEPT !.at = "right", !.account = a, !.number = n,
                                                     !.box = b, !.code = boxes[b].code]]
  BY <1>2, <1>3, UnchangedCodes DEF AfterCheck
<1>4. ASSUME ~Answered(b), NEW c, c = boxes[b].code,
             job' = [job EXCEPT ![p] = [Idle EXCEPT !.at = "wrong", !.account = a, !.number = n,
                                                    !.box = b, !.code = boxes[b].code]],
             codes' = [codes EXCEPT ![c].wrong = @ + 1,
                                    ![c].together = IF Together(p, c) THEN @ + 1 ELSE @]
      PROVE  AfterCheck(p, a, n, b)
  <2>1. Others(p) /\ Compared(p, a, n, b, "wrong") /\ c \in CodeNumbers
    BY <1>2, <1>4 DEF Compared
  <2> DEFINE more == IF Together(p, c) THEN codes[c].together + 1 ELSE codes[c].together
  <2> DEFINE new == [codes[c] EXCEPT !.wrong = @ + 1, !.together = more]
  <2>2. codes \in Seq(CodeType) /\ codes[c] \in CodeType /\ c \in 1..Len(codes)
    BY <2>1 DEF TypeInv, CodesInv, CodeNumbers
  <2>3. /\ new \in CodeType /\ new.boxes = codes[c].boxes /\ new.to = codes[c].to
        /\ new.wrong = codes[c].wrong + 1 /\ new.lost = codes[c].lost /\ new.together = more
    <3>1. codes[c] = [codes[c] EXCEPT !.wrong = codes[c].wrong] /\ codes[c].wrong + 1 \in Nat /\ more \in Nat
      BY <2>2 DEF CodeType
    <3> HIDE DEF more
    <3> QED
      BY <2>2, <3>1 DEF CodeType
  <2>4. more = codes[c].together + IF Together(p, c) THEN 1 ELSE 0
    <3>1. codes[c].together \in Nat
      BY <2>2 DEF CodeType
    <3> QED
      BY <3>1
  <2>5. codes' = [codes EXCEPT ![c] = new]
    BY <1>4, <2>2 DEF CodeType
  <2> HIDE DEF new
  <2>6. codes' \in Seq(CodeType) /\ Len(codes') = Len(codes) /\ codes'[c] = new
        /\ \A d \in CodeNumbers \ {c} : codes'[d] = codes[d]
    BY <2>2, <2>3, <2>5 DEF CodeNumbers
  <2>7. SameCodes
    BY <2>3, <2>6 DEF SameCodes
  <2> QED
    BY <1>4, <2>1, <2>3, <2>6, <2>4, <2>7 DEF AfterCheck
<1> QED
  BY <1>1, <1>3, <1>4 DEF Check

LEMMA CheckType ==
  ASSUME TypeInv, NEW p \in Slots, NEW a, NEW n, NEW b, Checkable(a, n, b), AfterCheck(p, a, n, b),
         UNCHANGED <<now, store, raced, shared>>, begun' \in 0..MaxRequests, LimiterInv'
  PROVE  TypeInv'
<1>1. SameCodes /\ Others(p) /\ Registered' = Registered /\ CodeNumbers' = CodeNumbers
  BY DEF AfterCheck, Registered, store, CodeNumbers, SameCodes
<1>2. InHand(p)'
  <2>1. CASE job'[p] = Idle
    BY <2>1, IdleIsJob, IdleInHand
  <2>2. ASSUME NEW l \in {"right", "wrong"}, Compared(p, a, n, b, l) PROVE InHand(p)'
    <3>1. b \in codes'[boxes[b].code].boxes
      BY <1>1, <2>2 DEF Compared, SameCodes
    <3> QED
      BY <1>1, <2>2, <3>1 DEF InHand, Compared, Checkable, Counted
  <2> QED
    BY <2>1, <2>2 DEF AfterCheck
<1>3. UNCHANGED <<users, welcomed, boxes, proofs, now, raced, shared>>
  BY DEF store
<1> QED
  BY <1>1, <1>2, <1>3, BoxesType DEF TypeInv, StoreInv

\* The three places where a code is presented, and what is read of it.
Presents(p, a, n, b) ==
  /\ job[p].at \in {"idle", "pending"} /\ Checkable(a, n, b) /\ AfterCheck(p, a, n, b)
  /\ UNCHANGED <<now, store, raced, shared>> /\ begun' \in 0..MaxRequests /\ LimiterInv'
  /\ b.kind = "phone" => n = users[a].phone

\* Presenting a code where there is nothing to compare it with.
Dismissed(p) ==
  /\ job[p].at = "idle" /\ Others(p) /\ job'[p].code \in {0, job[p].code}
  /\ \/ job'[p].at = "idle"
     \/ job'[p].at = "pending" /\ job'[p].number \in Numbers
  /\ UNCHANGED <<now, store, codes, raced, shared>> /\ begun' \in 0..MaxRequests /\ LimiterInv'

LEMMA PresentEffect ==
  ASSUME TypeInv, NEW p \in Slots, VerifyPhone(p) \/ VerifyEmailOtp(p) \/ FindPending(p)
  PROVE  Dismissed(p) \/ \E a \in Accounts \cup {"none"}, n \in Numbers \cup {"none"}, b \in Boxes :
                            Presents(p, a, n, b)
<1>0. ASSUME UNCHANGED job PROVE Others(p) /\ job'[p] = job[p]
  BY <1>0 DEF TypeInv, JobsInv, Others, Kept
<1>1. CASE VerifyPhone(p)
  <2>1. job[p].at = "idle" /\ begun' \in 0..MaxRequests /\ UNCHANGED <<now, store, raced, shared>>
    BY <1>1, BegunType DEF VerifyPhone, Enter, At, TypeInv
  <2>2. PICK n \in Numbers :
          /\ Admit(<<"guess", n>>)
          /\ \/ /\ job' = [job EXCEPT ![p] = [Idle EXCEPT !.at = "pending", !.number = n]]
                /\ UNCHANGED codes
             \/ \E a \in Holders(n) :
                  IF users[a].verified THEN UNCHANGED <<job, codes>>
                  ELSE Check(p, a, n, Box("phone", a))
    BY <1>1 DEF VerifyPhone
  <2>3. LimiterInv'
    BY <2>2, KeysAre, AdmitType
  <2>4. CASE job' = [job EXCEPT ![p] = [Idle EXCEPT !.at = "pending", !.number = n]]
             /\ UNCHANGED codes
    <3> DEFINE next == [Idle EXCEPT !.at = "pending", !.number = n]
    <3>1. next \in JobType /\ next.at = "pending" /\ next.number = n /\ next.code = 0
      BY DEF Idle, JobType, Labels
    <3>2. job' = [job EXCEPT ![p] = next]
      BY <2>4
    <3> HIDE DEF next
    <3> QED
      BY <2>1, <2>3, <2>4, <3>1, <3>2, OneJob DEF Dismissed
  <2>5. ASSUME NEW a \in Holders(n), UNCHANGED <<job, codes>> PROVE Dismissed(p)
    BY <1>0, <2>1, <2>3, <2>5 DEF Dismissed
  <2>6. ASSUME NEW a \in Holders(n), Check(p, a, n, Box("phone", a))
        PROVE  Presents(p, a, n, Phone(a))
    <3>1. a \in Registered /\ a \in Accounts /\ users[a].phone = n
      BY DEF Holders, Registered
    <3>2. Checkable(a, n, Phone(a))
      BY <3>1, BoxesAre DEF Checkable, Counted
    <3>3. AfterCheck(p, a, n, Phone(a))
      BY <2>6, <3>2, CheckEffect DEF Phone
    <3> QED
      BY <2>1, <2>3, <3>1, <3>2, <3>3 DEF Presents
  <2>7. \A a \in Holders(n) : a \in Accounts /\ Phone(a) \in Boxes
    BY BoxesAre DEF Holders, Registered
  <2> QED
    BY <2>2, <2>4, <2>5, <2>6, <2>7
<1>2. CASE VerifyEmailOtp(p)
  <2>1. job[p].at = "idle" /\ begun' \in 0..MaxRequests /\ UNCHANGED <<now, store, raced, shared>>
    BY <1>2, BegunType DEF VerifyEmailOtp, Enter, At, TypeInv
  <2>2. PICK a \in Accounts :
          /\ Admit(<<"otp", a>>)
          /\ IF a \notin Registered \/ users[a].emailed THEN UNCHANGED <<job, codes>>
             ELSE Check(p, a, "none", Box("email", a))
    BY <1>2 DEF VerifyEmailOtp
  <2>3. LimiterInv'
    BY <2>2, KeysAre, AdmitType
  <2>4. CASE UNCHANGED <<job, codes>>
    BY <1>0, <2>1, <2>3, <2>4 DEF Dismissed
  <2>5. CASE a \in Registered /\ Check(p, a, "none", Box("email", a))
    <3>1. Box("email", a) \in Boxes /\ Box("email", a).kind = "email" /\ Box("email", a).of = a
      BY BoxesAre DEF Box
    <3>2. Checkable(a, "none", Box("email", a))
      BY <2>5, <3>1 DEF Checkable, Counted
    <3>3. AfterCheck(p, a, "none", Box("email", a))
      BY <2>5, <3>2, CheckEffect
    <3>4. Presents(p, a, "none", Box("email", a))
      BY <2>1, <2>3, <3>1, <3>2, <3>3 DEF Presents
    <3> QED
      BY <3>1, <3>4
  <2> QED
    BY <2>2, <2>4, <2>5
<1>3. CASE FindPending(p)
  <2>1. PICK n \in Numbers : n = job[p].number /\ Check(p, "none", n, Pending(n))
    BY <1>3 DEF FindPending, At, TypeInv, JobsInv, InHand, Pending
  <2>2. Checkable("none", n, Pending(n)) /\ Pending(n) \in Boxes /\ Pending(n).kind = "pending"
    BY BoxesAre DEF Checkable, Counted
  <2>3. AfterCheck(p, "none", n, Pending(n))
    BY <2>1, <2>2, CheckEffect
  <2>4. job[p].at = "pending" /\ UNCHANGED <<now, store, raced, shared>> /\ begun' \in 0..MaxRequests
        /\ LimiterInv'
    BY <1>3, LimiterFrame DEF FindPending, At, TypeInv, StoreInv
  <2>5. Presents(p, "none", n, Pending(n))
    BY <2>2, <2>3, <2>4 DEF Presents
  <2> QED
    BY <2>2, <2>5
<1> QED
  BY <1>1, <1>2, <1>3

LEMMA PresentType ==
  ASSUME TypeInv, NEW p \in Slots, VerifyPhone(p) \/ VerifyEmailOtp(p) \/ FindPending(p)
  PROVE  TypeInv'
<1>1. ASSUME NEW a, NEW n, NEW b, Presents(p, a, n, b) PROVE TypeInv'
  BY <1>1, CheckType DEF Presents
<1>2. CASE Dismissed(p)
  <2>1. InHand(p)'
    BY <1>2 DEF Dismissed, InHand, TypeInv, JobsInv, CodeNumbers
  <2> QED
    BY <1>2, <2>1, JobType1 DEF Dismissed, TypeInv, StoreInv
<1> QED
  BY <1>1, <1>2, PresentEffect

LEMMA CodesAre ==
  ASSUME TypeInv
  PROVE  /\ Len(codes) \in Nat /\ codes \in Seq(CodeType)
         /\ \A c \in CodeNumbers : c \in Nat /\ c # 0 /\ c \in 0..Len(codes) /\ codes[c] \in CodeType
<1>1. codes \in Seq(CodeType) /\ Len(codes) \in Nat
  BY DEF TypeInv, CodesInv
<1> QED
  BY <1>1 DEF CodeNumbers

LEMMA OpenLinkEffect ==
  ASSUME TypeInv, NEW p \in Slots, OpenLink(p)
  PROVE  /\ Others(p) /\ job[p].at = "idle" /\ UNCHANGED <<now, store, history, limiter>>
         /\ begun' \in 0..MaxRequests
         /\ job'[p].at = "right" /\ ~job'[p].stale /\ job'[p].box \in Boxes
         /\ job'[p].box.kind = "link" /\ job'[p].account = job'[p].box.of
         /\ job'[p].account \in Registered /\ job'[p].code # 0
         /\ job'[p].code = boxes[job'[p].box].code
<1>1. PICK a \in Registered :
        LET b == Box("link", a) IN
        /\ boxes[b].code # 0
        /\ Begin(p, [Idle EXCEPT !.at = "right", !.account = a, !.box = b, !.code = boxes[b].code])
  BY DEF OpenLink
<1>2. PICK b \in Boxes : b = Box("link", a) /\ b.kind = "link" /\ b.of = a
  BY BoxesAre DEF Registered, Box
<1>3. PICK c \in Nat : c = boxes[b].code
  BY DEF TypeInv, StoreInv, BoxType
<1> DEFINE next == [Idle EXCEPT !.at = "right", !.account = a, !.box = b, !.code = c]
<1>4. next \in JobType /\ next.at = "right" /\ next.account = a /\ next.box = b /\ next.code = c
      /\ next.stale = FALSE
  BY DEF Idle, JobType, Labels, Registered
<1>5. job' = [job EXCEPT ![p] = next] /\ Enter(p)
  BY <1>1, <1>2, <1>3 DEF Begin
<1> HIDE DEF next
<1>6. Others(p) /\ job'[p] = next
  BY <1>4, <1>5, OneJob
<1>7. job[p].at = "idle" /\ begun' \in 0..MaxRequests
  BY <1>5, BegunType DEF Enter, At, TypeInv
<1>8. UNCHANGED <<now, store, history, limiter>>
  BY DEF OpenLink
<1> QED
  BY <1>1, <1>2, <1>3, <1>4, <1>6, <1>7, <1>8

LEMMA OpenLinkType ==
  ASSUME TypeInv, NEW p \in Slots, OpenLink(p)
  PROVE  TypeInv'
<1>1. UNCHANGED <<codes, users>> /\ Registered' = Registered /\ CodeNumbers' = CodeNumbers
  BY OpenLinkEffect DEF history, store, Registered, CodeNumbers
<1>2. job'[p].code \in CodeNumbers /\ job'[p].box \in codes[job'[p].code].boxes
  BY OpenLinkEffect DEF TypeInv, StoreInv
<1>3. InHand(p)'
  BY <1>1, <1>2, OpenLinkEffect DEF InHand
<1> QED
  BY <1>3, OpenLinkEffect, JobType1, LimiterFrame DEF history, TypeInv, StoreInv

LEMMA CountEffect ==
  ASSUME TypeInv, NEW p \in Slots, CountWrong(p)
  PROVE  LET b == job[p].box IN
         /\ b \in Boxes /\ Counted(b) /\ At(p, "wrong") /\ Done(p) /\ job[p].code \in CodeNumbers
         /\ b \in codes[job[p].code].boxes
         /\ boxes' \in [Boxes -> BoxType]
         /\ \A d \in Boxes : boxes'[d].code = boxes[d].code /\ boxes'[d].until = boxes[d].until
         /\ \A d \in Boxes \ {b} : boxes'[d] = boxes[d]
         /\ boxes'[b].attempts = IF boxes[b].code = 0 THEN 0 ELSE boxes[b].attempts + 1
         /\ UNCHANGED <<now, users, welcomed, proofs, begun, codes, raced, shared>> /\ LimiterInv'
<1>1. PICK b \in Boxes : b = job[p].box /\ Counted(b)
  BY DEF CountWrong, At, TypeInv, JobsInv, InHand
<1>2. job[p].code \in CodeNumbers /\ b \in codes[job[p].code].boxes
  BY <1>1 DEF CountWrong, At, TypeInv, JobsInv, InHand
<1>3. PICK k \in Nat : k = IF boxes[b].code = 0 THEN 0 ELSE boxes[b].attempts + 1
  BY DEF TypeInv, StoreInv, BoxType
<1>4. boxes' = [boxes EXCEPT ![b].attempts = k]
  BY <1>1, <1>3 DEF CountWrong
<1>5. boxes \in [Boxes -> BoxType]
  BY DEF TypeInv, StoreInv
<1>6. /\ boxes' \in [Boxes -> BoxType] /\ boxes'[b].attempts = k
      /\ \A d \in Boxes : boxes'[d].code = boxes[d].code /\ boxes'[d].until = boxes[d].until
      /\ \A d \in Boxes \ {b} : boxes'[d] = boxes[d]
  BY <1>4, <1>5 DEF BoxType
<1> QED
  BY <1>1, <1>2, <1>3, <1>6, LimiterFrame DEF CountWrong, history, TypeInv

LEMMA CountType ==
  ASSUME TypeInv, NEW p \in Slots, CountWrong(p)
  PROVE  TypeInv'
<1>1. \A b \in Boxes : boxes'[b].code # 0 => boxes'[b].code = boxes[b].code
  BY CountEffect
<1>2. UNCHANGED <<now, users, welcomed, proofs, begun, codes, raced, shared>> /\ LimiterInv'
      /\ Done(p) /\ boxes' \in [Boxes -> BoxType]
  BY CountEffect
<1> QED
  BY <1>1, <1>2, DoneEffect, UnchangedCodes, BoxesType DEF TypeInv, StoreInv

\* What an honoured code does, by what it was for.
AfterPending(p, n, c) ==
  /\ n \in Numbers /\ c \in CodeNumbers /\ Pending(n) \in codes[c].boxes
  /\ job[p].at = "right" /\ job[p].box = Pending(n) /\ job[p].number = n /\ job[p].code = c
  /\ Done(p) /\ UNCHANGED <<now, users, welcomed, begun, codes, raced>> /\ LimiterInv'
  /\ boxes'[Pending(n)] = Empty /\ boxes' \in [Boxes -> BoxType]
  /\ \A b \in Boxes \ {Pending(n)} : boxes'[b] = boxes[b]
  /\ \A m \in Numbers \ {n} : proofs'[m] = proofs[m]
  /\ proofs' \in [Numbers -> ProofType]
  /\ \/ Gone(n) /\ proofs'[n] = proofs[n] /\ shared' = shared
     \/ /\ ~Gone(n) /\ proofs'[n].code = c /\ (proofs'[n].late <=> job[p].stale)
        /\ shared' = IF Reopens(p) THEN shared \cup {c} ELSE shared

AfterPhone(p, a, c) ==
  /\ a \in Registered /\ c \in CodeNumbers /\ Phone(a) \in codes[c].boxes
  /\ job[p].at = "right" /\ job[p].box = Phone(a) /\ job[p].account = a /\ job[p].code = c
  /\ Done(p) /\ UNCHANGED <<now, welcomed, begun, codes, proofs, shared>> /\ LimiterInv'
  /\ UserAt(a, [users[a] EXCEPT !.verified = TRUE, !.proof = c])
  /\ boxes'[Phone(a)] = Empty /\ boxes' \in [Boxes -> BoxType]
  /\ \A b \in Boxes \ {Phone(a)} : boxes'[b] = boxes[b]
  /\ raced' = IF job[p].stale THEN raced \cup {a} ELSE raced

AfterMail(p, a) ==
  /\ a \in Registered /\ job[p].at = "right" /\ job[p].box \in Boxes
  /\ job[p].box.kind \in {"email", "link"} /\ job[p].account = a
  /\ Done(p) /\ UNCHANGED <<now, welcomed, begun, codes, proofs, raced, shared>> /\ LimiterInv'
  /\ UserAt(a, [users[a] EXCEPT !.emailed = TRUE])
  /\ boxes' \in [Boxes -> BoxType]
  /\ \A b \in Boxes : boxes'[b] = IF b \in Mail(a) THEN Empty ELSE boxes[b]

LEMMA HonourEffect ==
  ASSUME TypeInv, NEW p \in Slots, Honour(p)
  PROVE  \/ \E n \in Numbers, c \in CodeNumbers : AfterPending(p, n, c)
         \/ \E a \in Registered, c \in CodeNumbers : AfterPhone(p, a, c)
         \/ \E a \in Registered : AfterMail(p, a)
<1>1. /\ job[p].at = "right" /\ job[p].box \in Boxes /\ job[p].code \in CodeNumbers
      /\ job[p].box \in codes[job[p].code].boxes
      /\ job[p].box.kind = "pending" => job[p].number = job[p].box.of /\ job[p].number \in Numbers
      /\ job[p].box.kind # "pending" => job[p].account = job[p].box.of /\ job[p].account \in Registered
  BY DEF Honour, At, TypeInv, JobsInv, InHand
<1>2. Done(p) /\ UNCHANGED <<now, welcomed, begun, codes>> /\ LimiterInv'
  BY LimiterFrame DEF Honour, TypeInv
<1>3. boxes \in [Boxes -> BoxType] /\ proofs \in [Numbers -> ProofType]
      /\ users \in [Accounts -> UserType] /\ now \in Nat
  BY NowIsInstant DEF TypeInv, StoreInv
<1>4. CASE job[p].box.kind = "pending"
  <2>1. PICK n \in Numbers, c \in CodeNumbers :
          /\ n = job[p].number /\ c = job[p].code /\ job[p].box = Pending(n)
          /\ Pending(n) \in codes[c].boxes
    BY <1>1, <1>4, BoxKinds
  <2>2. PICK late \in BOOLEAN : late = job[p].stale
    BY DEF TypeInv, JobsInv, JobType
  <2>3. /\ proofs' = [proofs EXCEPT ![n] =
             IF Gone(n) THEN @ ELSE [code |-> c, at |-> now, late |-> late]]
        /\ boxes' = [boxes EXCEPT ![Pending(n)] = Empty]
        /\ shared' = IF ~Gone(n) /\ Reopens(p) THEN shared \cup {c} ELSE shared
        /\ UNCHANGED <<users, raced>>
    BY <1>1, <1>4, <2>1, <2>2 DEF Honour, Gone
  <2>4. Pending(n) \in Boxes
    BY BoxesAre
  <2>5. /\ boxes' \in [Boxes -> BoxType] /\ boxes'[Pending(n)] = Empty
        /\ \A b \in Boxes \ {Pending(n)} : boxes'[b] = boxes[b]
    BY <1>3, <2>3, <2>4, EmptyIsBox
  <2>6. /\ proofs' \in [Numbers -> ProofType]
        /\ \A m \in Numbers \ {n} : proofs'[m] = proofs[m]
        /\ proofs'[n] = IF Gone(n) THEN proofs[n] ELSE [code |-> c, at |-> now, late |-> late]
    <3>1. [code |-> c, at |-> now, late |-> late] \in ProofType
      BY <1>3 DEF ProofType, CodeNumbers
    <3> QED
      BY <1>3, <2>3, <3>1
  <2>7. AfterPending(p, n, c)
    BY <1>1, <1>2, <2>1, <2>2, <2>3, <2>5, <2>6 DEF AfterPending
  <2> QED
    BY <2>7
<1>5. CASE job[p].box.kind = "phone"
  <2>1. PICK a \in Registered, c \in CodeNumbers :
          /\ a = job[p].account /\ c = job[p].code /\ job[p].box = Phone(a)
          /\ Phone(a) \in codes[c].boxes
    BY <1>1, <1>5, BoxKinds
  <2>2. a \in Accounts /\ Phone(a) \in Boxes /\ users[a] \in UserType /\ users[a].phone # "none"
    BY <1>3, BoxesAre, RegisteredAre DEF Registered, TypeInv
  <2>3. /\ users' = [users EXCEPT ![a].verified = TRUE, ![a].proof = c]
        /\ boxes' = [boxes EXCEPT ![Phone(a)] = Empty]
        /\ raced' = IF job[p].stale THEN raced \cup {a} ELSE raced
        /\ UNCHANGED <<proofs, shared>>
    BY <1>1, <1>5, <2>1 DEF Honour
  <2>4. PICK user : user = [users[a] EXCEPT !.verified = TRUE, !.proof = c]
    OBVIOUS
  <2>5. user \in UserType /\ user.phone = users[a].phone
    <3>1. c \in Nat
      BY CodesAre
    <3> QED
      BY <2>2, <2>4, <3>1 DEF UserType
  <2>6. users' = [users EXCEPT ![a] = user]
    BY <1>3, <2>2, <2>3, <2>4 DEF UserType
  <2>7. UserAt(a, user)
    BY <2>2, <2>5, <2>6, UserEffect DEF TypeInv
  <2>8. /\ boxes' \in [Boxes -> BoxType] /\ boxes'[Phone(a)] = Empty
        /\ \A b \in Boxes \ {Phone(a)} : boxes'[b] = boxes[b]
    BY <1>3, <2>2, <2>3, EmptyIsBox
  <2>9. AfterPhone(p, a, c)
    BY <1>1, <1>2, <2>1, <2>3, <2>4, <2>7, <2>8 DEF AfterPhone
  <2> QED
    BY <2>1, <2>9
<1>6. CASE job[p].box.kind \in {"email", "link"}
  <2>1. PICK a \in Registered : a = job[p].account
    BY <1>1, <1>6
  <2>2. a \in Accounts /\ users[a] \in UserType /\ users[a].phone # "none"
    BY <1>3, RegisteredAre DEF Registered, TypeInv
  <2>3. /\ users' = [users EXCEPT ![a].emailed = TRUE]
        /\ boxes' = [b \in Boxes |-> IF b \in Mail(a) THEN Empty ELSE boxes[b]]
        /\ UNCHANGED <<proofs, raced, shared>>
    BY <1>1, <1>6, <2>1 DEF Honour
  <2>4. PICK user : user = [users[a] EXCEPT !.emailed = TRUE]
    OBVIOUS
  <2>5. user \in UserType /\ user.phone = users[a].phone
    BY <2>2, <2>4 DEF UserType
  <2>6. users' = [users EXCEPT ![a] = user]
    BY <1>3, <2>2, <2>3, <2>4 DEF UserType
  <2>7. UserAt(a, user)
    BY <2>2, <2>5, <2>6, UserEffect DEF TypeInv
  <2>8. /\ boxes' \in [Boxes -> BoxType]
        /\ \A b \in Boxes : boxes'[b] = IF b \in Mail(a) THEN Empty ELSE boxes[b]
    BY <1>3, <2>3, EmptyIsBox
  <2>9. AfterMail(p, a)
    BY <1>1, <1>2, <1>6, <2>1, <2>3, <2>4, <2>7, <2>8 DEF AfterMail
  <2> QED
    BY <2>9
<1> QED
  BY <1>1, <1>4, <1>5, <1>6, BoxKinds

LEMMA HonourType ==
  ASSUME TypeInv, NEW p \in Slots, Honour(p)
  PROVE  TypeInv'
<1>1. ASSUME NEW n \in Numbers, NEW c \in CodeNumbers, AfterPending(p, n, c) PROVE TypeInv'
  <2>1. \A b \in Boxes : boxes'[b].code # 0 => boxes'[b].code = boxes[b].code
    BY <1>1, EmptyIsBox DEF AfterPending
  <2>2. \A m \in Numbers : proofs'[m].code # 0 =>
          proofs'[m].code \in CodeNumbers /\ Pending(m) \in codes[proofs'[m].code].boxes
    BY <1>1 DEF AfterPending, TypeInv, StoreInv
  <2>3. shared' \subseteq CodeNumbers
    BY <1>1 DEF AfterPending, TypeInv, StoreInv
  <2>4. Done(p) /\ UNCHANGED <<now, users, welcomed, begun, codes, raced>> /\ LimiterInv'
        /\ boxes' \in [Boxes -> BoxType] /\ proofs' \in [Numbers -> ProofType]
    BY <1>1 DEF AfterPending
  <2> QED
    BY <2>1, <2>2, <2>3, <2>4, DoneEffect, UnchangedCodes, BoxesType DEF TypeInv, StoreInv
<1>2. ASSUME NEW a \in Registered, NEW user \in UserType, UserAt(a, user),
             user.phone = users[a].phone, user.opened = users[a].opened,
             user.proof \in 0..Len(codes), boxes' \in [Boxes -> BoxType],
             \A b \in Boxes : boxes'[b].code # 0 => boxes'[b].code = boxes[b].code,
             UNCHANGED <<now, welcomed, proofs, begun, codes, shared>>,
             raced' = raced \/ raced' = raced \cup {a}, LimiterInv', Done(p)
      PROVE  TypeInv'
  <2>1. a \in Accounts /\ user.phone \in Numbers /\ Holders(user.phone) \subseteq {a}
        /\ user.opened \in 0..Len(codes) /\ begun' \in 0..MaxRequests
    BY <1>2 DEF Holders, TypeInv, StoreInv, Registered
  <2>2. StoreInv' /\ CodesInv' /\ Grows
    BY <1>2, <2>1, UsersType DEF TypeInv
  <2> QED
    BY <1>2, <2>2, DoneEffect, NextJob DEF TypeInv
<1>3. ASSUME NEW a \in Registered, NEW c \in CodeNumbers, AfterPhone(p, a, c) PROVE TypeInv'
  <2>1. PICK user : user = [users[a] EXCEPT !.verified = TRUE, !.proof = c]
    OBVIOUS
  <2>2. users[a] \in UserType
    BY DEF Registered, TypeInv, StoreInv
  <2>3. /\ user \in UserType /\ user.phone = users[a].phone /\ user.opened = users[a].opened
        /\ user.proof \in 0..Len(codes)
    <3>1. c \in Nat /\ c \in 0..Len(codes)
      BY CodesAre
    <3> QED
      BY <2>1, <2>2, <3>1 DEF UserType
  <2>4. \A b \in Boxes : boxes'[b].code # 0 => boxes'[b].code = boxes[b].code
    BY <1>3, EmptyIsBox DEF AfterPhone
  <2> QED
    BY <1>2, <1>3, <2>1, <2>3, <2>4 DEF AfterPhone
<1>4. ASSUME NEW a \in Registered, AfterMail(p, a) PROVE TypeInv'
  <2>1. PICK user : user = [users[a] EXCEPT !.emailed = TRUE]
    OBVIOUS
  <2>2. users[a] \in UserType /\ users[a].proof \in 0..Len(codes)
    BY DEF Registered, TypeInv, StoreInv
  <2>3. /\ user \in UserType /\ user.phone = users[a].phone /\ user.opened = users[a].opened
        /\ user.proof \in 0..Len(codes)
    BY <2>1, <2>2 DEF UserType
  <2>4. \A b \in Boxes : boxes'[b].code # 0 => boxes'[b].code = boxes[b].code
    BY <1>4, EmptyIsBox DEF AfterMail
  <2> QED
    BY <1>2, <1>4, <2>1, <2>3, <2>4 DEF AfterMail
<1> QED
  BY <1>1, <1>3, <1>4, HonourEffect

LEMMA UpdateEffect ==
  ASSUME TypeInv, NEW p \in Slots, UpdateProfile(p)
  PROVE  /\ Others(p) /\ job[p].at = "idle" /\ UNCHANGED <<now, store, history, limiter>>
         /\ begun' \in 0..MaxRequests
         /\ job'[p].at = "save" /\ ~job'[p].stale /\ job'[p].code = 0
         /\ job'[p].account \in Registered /\ job'[p].number \in Numbers
         /\ (job'[p].changed <=> users[job'[p].account].phone # job'[p].number)
<1>1. PICK a \in Registered, n \in Numbers :
        Begin(p, [Idle EXCEPT !.at = "save", !.account = a, !.number = n,
                              !.changed = users[a].phone # n])
  BY DEF UpdateProfile
<1>2. PICK changed \in BOOLEAN : changed = (users[a].phone # n)
  OBVIOUS
<1> DEFINE next == [Idle EXCEPT !.at = "save", !.account = a, !.number = n, !.changed = changed]
<1>3. next \in JobType /\ next.at = "save" /\ next.account = a /\ next.number = n
      /\ next.changed = changed /\ next.stale = FALSE /\ next.code = 0
  BY DEF Idle, JobType, Labels, Registered
<1>4. job' = [job EXCEPT ![p] = next] /\ Enter(p)
  BY <1>1, <1>2 DEF Begin
<1> HIDE DEF next
<1>5. Others(p) /\ job'[p] = next
  BY <1>3, <1>4, OneJob
<1>6. job[p].at = "idle" /\ begun' \in 0..MaxRequests
  BY <1>4, BegunType DEF Enter, At, TypeInv
<1>7. UNCHANGED <<now, store, history, limiter>>
  BY DEF UpdateProfile
<1> QED
  BY <1>2, <1>3, <1>5, <1>6, <1>7

LEMMA UpdateType ==
  ASSUME TypeInv, NEW p \in Slots, UpdateProfile(p)
  PROVE  TypeInv'
<1>1. job'[p].account \in Accounts /\ job'[p].account \in Registered'
  BY UpdateEffect DEF Registered, store
<1>2. InHand(p)'
  BY <1>1, UpdateEffect DEF InHand
<1> QED
  BY <1>2, UpdateEffect, JobType1, LimiterFrame DEF history, TypeInv, StoreInv

\* What saving a profile does: nothing, or it stores the number.
Saved(p, a, n) ==
  /\ a \in Registered /\ n \in Numbers /\ Holders(n) \subseteq {a}
  /\ At(p, "save") /\ job[p].account = a /\ job[p].number = n
  /\ UserAt(a, [users[a] EXCEPT !.phone = n, !.verified = ~job[p].changed /\ users[a].verified])
  /\ boxes' \in [Boxes -> BoxType] /\ (job[p].changed => boxes'[Phone(a)] = Empty)
  /\ \A b \in Boxes : boxes'[b] = boxes[b] \/ b = Phone(a)
  /\ boxes'[Phone(a)].code # 0 => boxes'[Phone(a)].code = boxes[Phone(a)].code
  /\ raced' = IF job[p].stale THEN raced \cup {a} ELSE raced
  /\ job' \in [Slots -> JobType] /\ job'[p] = Idle
  /\ \A q \in Slots \ {p} :
       Kept(q) /\ (job'[q].stale <=> job[q].stale \/ (users[a].phone # n /\ HasRead(q, a)))
  /\ UNCHANGED <<now, welcomed, proofs, begun, codes, shared>> /\ LimiterInv'
Unsaved(p) ==
  /\ At(p, "save") /\ Done(p) /\ UNCHANGED <<now, store, begun, codes, raced, shared>> /\ LimiterInv'

LEMMA SaveEffect ==
  ASSUME TypeInv, NEW p \in Slots, SaveProfile(p)
  PROVE  Unsaved(p) \/ \E a \in Registered, n \in Numbers : Saved(p, a, n)
<1>1. PICK a \in Registered, n \in Numbers : a = job[p].account /\ n = job[p].number
  BY DEF SaveProfile, At, TypeInv, JobsInv, InHand
<1>2. At(p, "save") /\ UNCHANGED <<now, welcomed, proofs, begun, codes, shared>> /\ LimiterInv'
  BY LimiterFrame DEF SaveProfile, TypeInv
<1>3. CASE Holders(n) \ {a} # {}
  BY <1>1, <1>2, <1>3 DEF SaveProfile, Unsaved, store
<1>4. CASE Holders(n) \ {a} = {}
  <2>1. /\ users' = [users EXCEPT ![a] = WithNumber(@, n, job[p].changed)]
        /\ boxes' = IF job[p].changed THEN [boxes EXCEPT ![Box("phone", a)] = Empty] ELSE boxes
        /\ raced' = IF job[p].stale THEN raced \cup {a} ELSE raced
        /\ job' = [q \in Slots |->
             IF q = p THEN Idle
             ELSE IF users[a].phone # n /\ HasRead(q, a) THEN [job[q] EXCEPT !.stale = TRUE]
             ELSE job[q]]
    BY <1>1, <1>4 DEF SaveProfile
  <2>2. a \in Accounts /\ Phone(a) \in Boxes /\ users[a] \in UserType /\ boxes \in [Boxes -> BoxType]
    BY BoxesAre DEF Registered, TypeInv, StoreInv
  <2>3. PICK changed \in BOOLEAN : changed = job[p].changed
    BY DEF TypeInv, JobsInv, JobType
  <2>4. PICK user : user = [users[a] EXCEPT !.phone = n, !.verified = ~changed /\ users[a].verified]
    OBVIOUS
  <2>5. user \in UserType /\ user.phone = n /\ n # "none"
    <3>1. (~changed /\ users[a].verified) \in BOOLEAN
      OBVIOUS
    <3> QED
      BY <2>2, <2>4, <3>1, NoneIsNobody DEF UserType
  <2>6. users' = [users EXCEPT ![a] = user]
    BY <2>1, <2>2, <2>3, <2>4 DEF WithNumber
  <2>7. UserAt(a, user)
    BY <2>2, <2>5, <2>6, UserEffect DEF TypeInv
  <2>8. /\ boxes' \in [Boxes -> BoxType] /\ (changed => boxes'[Phone(a)] = Empty)
        /\ \A b \in Boxes : boxes'[b] = boxes[b] \/ b = Phone(a)
        /\ boxes'[Phone(a)].code # 0 => boxes'[Phone(a)].code = boxes[Phone(a)].code
    <3>1. CASE changed
      <4>1. boxes' = [boxes EXCEPT ![Phone(a)] = Empty]
        BY <2>1, <2>3, <3>1 DEF Phone
      <4> QED
        BY <2>2, <4>1, EmptyIsBox
    <3>2. CASE ~changed
      <4>1. boxes' = boxes
        BY <2>1, <2>3, <3>2
      <4> QED
        BY <2>2, <3>2, <4>1
    <3> QED
      BY <3>1, <3>2
  <2>9. job' \in [Slots -> JobType] /\ job'[p] = Idle
        /\ \A q \in Slots \ {p} :
             Kept(q) /\ (job'[q].stale <=> job[q].stale \/ (users[a].phone # n /\ HasRead(q, a)))
    <3>1. \A q \in Slots \ {p} :
            /\ job'[q] \in JobType /\ Kept(q)
            /\ job'[q].stale <=> job[q].stale \/ (users[a].phone # n /\ HasRead(q, a))
      <4> SUFFICES ASSUME NEW q \in Slots \ {p}
                   PROVE  /\ job'[q] \in JobType /\ Kept(q)
                          /\ job'[q].stale <=> job[q].stale \/ (users[a].phone # n /\ HasRead(q, a))
        OBVIOUS
      <4>1. job[q] \in JobType
        BY DEF TypeInv, JobsInv
      <4>2. CASE users[a].phone # n /\ HasRead(q, a)
        <5>1. job'[q] = [job[q] EXCEPT !.stale = TRUE]
          BY <2>1, <4>2
        <5> QED
          BY <4>1, <4>2, <5>1 DEF JobType, Kept
      <4>3. CASE ~(users[a].phone # n /\ HasRead(q, a))
        <5>1. job'[q] = job[q]
          BY <2>1, <4>3
        <5> QED
          BY <4>1, <4>3, <5>1 DEF Kept
      <4> QED
        BY <4>2, <4>3
    <3>2. job' = [q \in Slots |-> job'[q]] /\ job'[p] = Idle
      BY <2>1
    <3> QED
      BY <3>1, <3>2, IdleIsJob
  <2>10. Saved(p, a, n)
    BY <1>1, <1>2, <1>4, <2>1, <2>3, <2>4, <2>7, <2>8, <2>9 DEF Saved
  <2> QED
    BY <2>10
<1> QED
  BY <1>3, <1>4

LEMMA SaveType ==
  ASSUME TypeInv, NEW p \in Slots, SaveProfile(p)
  PROVE  TypeInv'
<1>1. CASE Unsaved(p)
  BY <1>1, DoneEffect, JobType1 DEF Unsaved, TypeInv, StoreInv
<1>2. ASSUME NEW a \in Registered, NEW n \in Numbers, Saved(p, a, n) PROVE TypeInv'
  <2>1. PICK verified \in BOOLEAN : verified = (~job[p].changed /\ users[a].verified)
    OBVIOUS
  <2>2. PICK user : user = [users[a] EXCEPT !.phone = n, !.verified = verified]
    OBVIOUS
  <2>3. a \in Accounts /\ users[a] \in UserType /\ users[a].proof \in 0..Len(codes)
        /\ users[a].opened \in 0..Len(codes)
    BY DEF Registered, TypeInv, StoreInv
  <2>4. /\ user \in UserType /\ user.phone = n /\ user.opened = users[a].opened
        /\ user.proof \in 0..Len(codes)
    BY <2>1, <2>2, <2>3 DEF UserType
  <2>5. UserAt(a, user)
    BY <1>2, <2>1, <2>2 DEF Saved
  <2>6. StoreInv' /\ CodesInv' /\ Grows
    <3>1. \A b \in Boxes : boxes'[b].code # 0 => boxes'[b].code = boxes[b].code
      BY <1>2 DEF Saved
    <3>2. UNCHANGED <<now, welcomed, proofs, begun, codes, shared>> /\ boxes' \in [Boxes -> BoxType]
          /\ Holders(n) \subseteq {a} /\ (raced' = raced \/ raced' = raced \cup {a})
      BY <1>2 DEF Saved
    <3>3. begun' \in 0..MaxRequests
      BY <3>2 DEF TypeInv, StoreInv
    <3> QED
      BY <2>3, <2>4, <2>5, <3>1, <3>2, <3>3, UsersType DEF TypeInv
  <2>7. JobsInv'
    <3>1. \A q \in Slots : InHand(q)'
      <4> SUFFICES ASSUME NEW q \in Slots PROVE InHand(q)'
        OBVIOUS
      <4>1. CASE q = p
        BY <1>2, <4>1, IdleIsJob, IdleInHand DEF Saved
      <4>2. CASE q # p
        <5>1. Kept(q) /\ (job'[q].stale <=> job[q].stale \/ (users[a].phone # n /\ HasRead(q, a)))
          BY <1>2, <4>2 DEF Saved
        <5>2. At(q, "issue") /\ job[q].box.kind = "pending" => ~job'[q].stale
          BY <5>1, NoneIsNobody DEF TypeInv, JobsInv, InHand, At, HasRead, Registered
        <5> QED
          BY <2>6, <5>1, <5>2, InHandThrough
      <4> QED
        BY <4>1, <4>2
    <3> QED
      BY <1>2, <3>1 DEF JobsInv, Saved
  <2> QED
    BY <1>2, <2>6, <2>7 DEF Saved, TypeInv
<1> QED
  BY <1>1, <1>2, SaveEffect

LEMMA DieEffect ==
  ASSUME TypeInv, NEW p \in Slots, Die(p)
  PROVE  /\ Done(p) /\ UNCHANGED <<now, store, begun, raced>> /\ LimiterInv' /\ SameCodes
         /\ ~At(p, "wrong") => codes' = codes
         /\ At(p, "wrong") => LET c == job[p].code IN
              /\ c \in CodeNumbers /\ codes'[c].lost = codes[c].lost + 1
              /\ codes'[c].wrong = codes[c].wrong /\ codes'[c].together = codes[c].together
              /\ \A d \in CodeNumbers \ {c} : codes'[d] = codes[d]
         /\ shared' = IF job[p].at \in {"bonus", "channel"} /\ job[p].code # 0
                      THEN shared \cup {job[p].code} ELSE shared
<1>1. CASE At(p, "wrong")
  <2>1. PICK c \in CodeNumbers : c = job[p].code
    BY <1>1 DEF At, TypeInv, JobsInv, InHand
  <2>2. codes' = [codes EXCEPT ![c].lost = @ + 1]
    BY <1>1, <2>1 DEF Die
  <2>3. codes \in Seq(CodeType) /\ codes[c] \in CodeType /\ c \in 1..Len(codes)
    BY CodesAre DEF CodeNumbers
  <2> DEFINE new == [codes[c] EXCEPT !.lost = @ + 1]
  <2>4. /\ new \in CodeType /\ new.boxes = codes[c].boxes /\ new.to = codes[c].to
        /\ new.wrong = codes[c].wrong /\ new.together = codes[c].together
        /\ new.lost = codes[c].lost + 1
    BY <2>3 DEF CodeType
  <2>5. codes' = [codes EXCEPT ![c] = new]
    BY <2>2, <2>3
  <2> HIDE DEF new
  <2>6. codes' \in Seq(CodeType) /\ Len(codes') = Len(codes) /\ codes'[c] = new
        /\ \A d \in CodeNumbers \ {c} : codes'[d] = codes[d]
    BY <2>3, <2>4, <2>5 DEF CodeNumbers
  <2>7. SameCodes
    BY <2>4, <2>6 DEF SameCodes
  <2> QED
    BY <1>1, <2>1, <2>4, <2>6, <2>7, LimiterFrame DEF Die, TypeInv
<1>2. CASE ~At(p, "wrong")
  BY <1>2, UnchangedCodes, LimiterFrame DEF Die, TypeInv
<1> QED
  BY <1>1, <1>2

LEMMA DieType ==
  ASSUME TypeInv, NEW p \in Slots, Die(p)
  PROVE  TypeInv'
<1>1. shared' \subseteq CodeNumbers
  BY DieEffect DEF TypeInv, StoreInv, JobsInv, InHand
<1>2. UNCHANGED <<users, welcomed, boxes, proofs, raced, now, begun>> /\ Done(p) /\ SameCodes /\ LimiterInv'
  BY DieEffect DEF store
<1> QED
  BY <1>1, <1>2, DoneEffect, BoxesType DEF TypeInv, StoreInv

LEMMA QuietType ==
  ASSUME TypeInv, Tick \/ UNCHANGED vars
  PROVE  TypeInv'
<1>1. UNCHANGED <<store, job, begun, history, limiter>> /\ now' \in Start..MaxNow
  BY VerificationAssumption, RateLimitAssumption DEF Tick, vars, TypeInv, StoreInv
<1>2. StoreInv' /\ CodesInv' /\ LimiterInv'
  BY <1>1, StoreFrame, LimiterFrame DEF TypeInv, history, StoreInv
<1>3. JobsInv'
  BY <1>1 DEF TypeInv, JobsInv, InHand, history, store, Registered, CodeNumbers
<1> QED
  BY <1>2, <1>3 DEF TypeInv

LEMMA StepType == TypeInv /\ [Next]_vars => TypeInv'
<1> SUFFICES ASSUME TypeInv, [Next]_vars PROVE TypeInv'
  OBVIOUS
<1>1. CASE Tick \/ UNCHANGED vars
  BY <1>1, QuietType
<1>2. ASSUME NEW p \in Slots, Register(p) \/ ReadProof(p) \/ InsertUser(p) \/ GrantBonus(p)
      PROVE  TypeInv'
  BY <1>2, RegisterType, ReadProofType, InsertType, BonusType
<1>3. ASSUME NEW p \in Slots, Channel(p) \/ IssueCode(p) PROVE TypeInv'
  BY <1>3, ClaimType, IssuingType
<1>4. ASSUME NEW p \in Slots, ResendPhone(p) \/ ResendEmail(p) PROVE TypeInv'
  BY <1>4, ResendPhoneType, ResendEmailType
<1>5. ASSUME NEW p \in Slots, VerifyPhone(p) \/ VerifyEmailOtp(p) \/ FindPending(p) PROVE TypeInv'
  BY <1>5, PresentType
<1>6. ASSUME NEW p \in Slots, OpenLink(p) \/ CountWrong(p) \/ Honour(p) PROVE TypeInv'
  BY <1>6, OpenLinkType, CountType, HonourType
<1>7. ASSUME NEW p \in Slots, UpdateProfile(p) \/ SaveProfile(p) \/ Die(p) PROVE TypeInv'
  BY <1>7, UpdateType, SaveType, DieType
<1> QED
  BY <1>1, <1>2, <1>3, <1>4, <1>5, <1>6, <1>7 DEF Next

LEMMA TypeTypes == TypeInv => TypeOK
<1> SUFFICES ASSUME TypeInv PROVE TypeOK
  OBVIOUS
<1>1. LimiterTypeOK
  <2>1. \A k \in Keys : \A w \in Windows : counts[k][w] \in 0..Limit[k[1]]
    BY RateLimitAssumption DEF TypeInv, LimiterInv
  <2> QED
    BY <2>1 DEF TypeInv, LimiterInv, LimiterTypeOK
<1>2. \A n \in Numbers : Cardinality(Holders(n)) <= 1
  <2> SUFFICES ASSUME NEW n \in Numbers PROVE Cardinality(Holders(n)) <= 1
    OBVIOUS
  <2>1. \A a, b \in Holders(n) : a = b
    BY DEF Holders, TypeInv, StoreInv
  <2>2. CASE Holders(n) = {}
    BY <2>2, FS_EmptySet
  <2>3. CASE Holders(n) # {}
    <3>1. PICK a : Holders(n) = {a}
      BY <2>1, <2>3
    <3>2. Cardinality({a}) = 1
      BY FS_Singleton
    <3> QED
      BY <3>1, <3>2
  <2> QED
    BY <2>2, <2>3
<1>3. \A a \in Registered : users[a].phone \in Numbers /\ users[a].proof \in 0..Len(codes)
  BY DEF TypeInv, StoreInv, Registered
<1>4. \A b \in Boxes : /\ boxes[b].code \in 0..Len(codes) /\ boxes[b].attempts \in Nat
                       /\ boxes[b].code # 0 => b \in codes[boxes[b].code].boxes
  <2>1. \A b \in Boxes : boxes[b] \in BoxType
    BY DEF TypeInv, StoreInv
  <2>2. 0 \in 0..Len(codes)
    BY CodesAre
  <2> QED
    BY <2>1, <2>2, CodesAre DEF TypeInv, StoreInv, BoxType
<1>5. \A n \in Numbers : proofs[n].code \in 0..Len(codes)
  <2>1. 0 \in 0..Len(codes)
    BY CodesAre
  <2> QED
    BY <2>1, CodesAre DEF TypeInv, StoreInv
<1>6. \A p \in Slots : job[p].code \in 0..Len(codes) /\ job[p].account \in Accounts \cup {"none"}
  <2>1. 0 \in 0..Len(codes)
    BY CodesAre
  <2> QED
    BY <2>1, CodesAre DEF TypeInv, JobsInv, JobType, InHand
<1> QED
  BY <1>1, <1>2, <1>3, <1>4, <1>5, <1>6 DEF TypeOK, TypeInv, StoreInv, CodeNumbers

(* Every variable of Verification keeps its type, a number belongs to one    *)
(* account at most, and what a box holds was issued for it.                  *)
THEOREM TypeCorrect == Spec => []TypeOK
<1>1. TypeInv /\ [Next]_vars => TypeInv'
  BY StepType
<1>2. TypeInv => TypeOK
  BY TypeTypes
<1> QED
  BY InitType, <1>1, <1>2, PTL DEF Spec

------------------------------------------------------------------------------
(* Codes and requests are of the number the account has.                     *)
LEMMA NoBoxOfNumber ==
  ASSUME TypeInv
  PROVE  /\ \A a \in Registered : /\ a \in Accounts /\ users[a] \in UserType
                                  /\ users[a].proof \in 0..Len(codes)
                                  /\ users[a].opened \in 0..Len(codes)
         /\ \A a \in Accounts : boxes[Phone(a)].code # 0 => boxes[Phone(a)].code \in CodeNumbers
         /\ \A a \in Registered : users[a].proof # 0 => users[a].proof \in CodeNumbers
<1>1. \A a \in Registered : a \in Accounts
  BY DEF Registered
<1>2. \A i \in 0..Len(codes) : i # 0 => i \in 1..Len(codes)
  BY CodesAre
<1> QED
  BY <1>1, <1>2, BoxesAre DEF TypeInv, StoreInv, CodeNumbers

\* A user whose number and mark stay, with no other code in hand.
LEMMA UserNumberThrough ==
  ASSUME TypeInv, NEW a \in Registered, UserNumber(a),
         users'[a].phone = users[a].phone, users'[a].proof = users[a].proof,
         users'[a].verified => users[a].verified,
         \A c \in CodeNumbers : codes'[c].to = codes[c].to,
         boxes'[Phone(a)].code \in {0, boxes[Phone(a)].code}
  PROVE  UserNumber(a)'
BY NoBoxOfNumber DEF UserNumber

\* A request of an account whose number stays.
LEMMA SeenThrough ==
  ASSUME TypeInv, NEW p \in Slots, HasSeen(p), Kept(p), job[p].stale => job'[p].stale,
         raced \subseteq raced', \A c \in CodeNumbers : codes'[c].to = codes[c].to,
         \/ job'[p].stale
         \/ \A a \in Registered : job[p].account = a => users'[a].phone = users[a].phone
         \/ ~HasRead(p, job[p].account)
  PROVE  HasSeen(p)'
<1>1. InHand(p)
  BY DEF TypeInv, JobsInv
<1> QED
  BY <1>1 DEF HasSeen, OfNumber, Kept, HasRead, InHand

LEMMA NumberFrame ==
  ASSUME TypeInv, NumberInv, NEW p \in Slots, Others(p), Registered' = Registered,
         \A a \in Accounts :
           /\ users'[a].phone = users[a].phone /\ users'[a].verified = users[a].verified
           /\ users'[a].proof = users[a].proof
           /\ boxes'[Phone(a)].code \in {0, boxes[Phone(a)].code},
         raced \subseteq raced', \A c \in CodeNumbers : codes'[c].to = codes[c].to, HasSeen(p)'
  PROVE  NumberInv'
<1>1. \A a \in Registered' \ raced' : UserNumber(a)'
  BY UserNumberThrough, NoBoxOfNumber DEF NumberInv
<1>2. \A q \in Slots : HasSeen(q)'
  <2> SUFFICES ASSUME NEW q \in Slots, q # p PROVE HasSeen(q)'
    OBVIOUS
  <2>1. Kept(q) /\ job'[q].stale = job[q].stale
    BY DEF Others
  <2>2. \A a \in Registered : users'[a].phone = users[a].phone
    BY NoBoxOfNumber
  <2> QED
    BY <2>1, <2>2, SeenThrough DEF NumberInv
<1>3. \A a \in Accounts \ Registered : boxes'[Phone(a)].code = 0
  BY DEF NumberInv
<1> QED
  BY <1>1, <1>2, <1>3 DEF NumberInv

\* A request that has read nothing of a number.
LEMMA NothingSeen ==
  ASSUME NEW p \in Slots, job'[p].at \in {"idle", "proof", "insert", "pending", "wrong"}
  PROVE  HasSeen(p)'
BY DEF HasSeen, OfNumber

LEMMA IdleSeen ==
  ASSUME NEW p \in Slots, job'[p] = Idle
  PROVE  HasSeen(p)'
BY IdleIsJob, NothingSeen

\* Steps that change nothing of a number but the codes in boxes of another kind.
LEMMA SeenStep ==
  ASSUME TypeInv, NumberInv, NEW p \in Slots, Others(p), SameCodes, UNCHANGED <<users, raced>>,
         \A a \in Accounts : boxes'[Phone(a)].code = boxes[Phone(a)].code, HasSeen(p)'
  PROVE  NumberInv'
<1>1. Registered' = Registered /\ \A c \in CodeNumbers : codes'[c].to = codes[c].to
  BY DEF Registered, SameCodes
<1> QED
  BY <1>1, NumberFrame

LEMMA ReadNumber ==
  ASSUME TypeInv, NumberInv, NEW p \in Slots, UNCHANGED <<users, boxes, raced>>, SameCodes,
         Others(p), HasSeen(p)'
  PROVE  NumberInv'
BY SeenStep

LEMMA PresentNumber ==
  ASSUME TypeInv, NumberInv, NEW p \in Slots, VerifyPhone(p) \/ VerifyEmailOtp(p) \/ FindPending(p)
  PROVE  NumberInv'
<1>1. CASE Dismissed(p)
  <2>1. HasSeen(p)'
    BY <1>1, NothingSeen DEF Dismissed
  <2> QED
    BY <1>1, <2>1, ReadNumber, UnchangedCodes DEF Dismissed, store
<1>2. ASSUME NEW a \in Accounts \cup {"none"}, NEW n \in Numbers \cup {"none"}, NEW b \in Boxes,
             Presents(p, a, n, b)
      PROVE  NumberInv'
  <2>1. UNCHANGED <<users, boxes, raced>> /\ SameCodes /\ Others(p)
    BY <1>2 DEF Presents, AfterCheck, store
  <2>2. HasSeen(p)'
    <3>1. CASE job'[p] = Idle
      BY <3>1, IdleSeen
    <3>2. CASE Compared(p, a, n, b, "wrong")
      BY <3>2, NothingSeen DEF Compared
    <3>3. CASE Compared(p, a, n, b, "right") /\ codes' = codes
      <4>1. b.kind = "phone" => a \in Registered /\ b = Phone(a)
        BY <1>2, BoxKinds DEF Presents, Checkable
      <4>2. b.kind = "phone" /\ a \notin raced => codes[boxes[b].code].to = users[a].phone
        BY <3>3, <4>1 DEF NumberInv, UserNumber, Compared, Answered
      <4> QED
        BY <2>1, <3>3, <4>2 DEF HasSeen, OfNumber, Compared
    <3> QED
      BY <1>2, <3>1, <3>2, <3>3 DEF Presents, AfterCheck
  <2> QED
    BY <2>1, <2>2, ReadNumber
<1> QED
  BY <1>1, <1>2, PresentEffect

LEMMA BeginNumber ==
  ASSUME TypeInv, NumberInv, NEW p \in Slots,
         ResendPhone(p) \/ ResendEmail(p) \/ OpenLink(p) \/ UpdateProfile(p)
  PROVE  NumberInv'
<1>1. UNCHANGED <<users, boxes, raced, codes>> /\ Others(p)
  BY ResendPhoneEffect, ResendEmailEffect, OpenLinkEffect, UpdateEffect DEF store, history
<1>2. HasSeen(p)'
  <2>1. CASE ResendPhone(p)
    BY <1>1, <2>1, ResendPhoneEffect, BoxesAre, IdleSeen, VerificationAssumption
       DEF HasSeen, OfNumber
  <2>2. CASE ResendEmail(p)
    <3>1. job'[p].at = "issue" /\ job'[p].box.kind = "email"
      <4>1. PICK a \in Registered : job'[p].box = Box("email", a)
        BY <2>2, ResendEmailEffect
      <4>2. Box("email", a).kind = "email"
        BY DEF Box
      <4> QED
        BY <2>2, <4>1, <4>2, ResendEmailEffect
    <3> QED
      BY <3>1 DEF HasSeen, OfNumber
  <2>3. CASE OpenLink(p)
    BY <2>3, OpenLinkEffect DEF HasSeen, OfNumber
  <2>4. CASE UpdateProfile(p)
    BY <1>1, <2>4, UpdateEffect DEF HasSeen, OfNumber
  <2> QED
    BY <2>1, <2>2, <2>3, <2>4
<1> QED
  BY <1>1, <1>2, ReadNumber, UnchangedCodes

LEMMA RegisterNumber ==
  ASSUME TypeInv, NumberInv, NEW p \in Slots, Register(p) \/ ReadProof(p) \/ GrantBonus(p)
  PROVE  NumberInv'
<1>1. UNCHANGED <<users, boxes, raced, codes>>
  BY DEF Register, ReadProof, GrantBonus, store, history
<1>2. CASE Register(p)
  <2>1. Others(p) /\ HasSeen(p)'
    BY <1>2, RegisterEffect, NothingSeen
  <2> QED
    BY <1>1, <2>1, ReadNumber, UnchangedCodes
<1>3. CASE ReadProof(p)
  <2>1. Others(p) /\ HasSeen(p)'
    BY <1>3, ReadProofEffect, NothingSeen
  <2> QED
    BY <1>1, <2>1, ReadNumber, UnchangedCodes
<1>4. CASE GrantBonus(p)
  <2>1. Others(p) /\ HasSeen(p)'
    BY <1>1, <1>4, BonusEffect DEF NumberInv, HasSeen, OfNumber
  <2> QED
    BY <1>1, <2>1, ReadNumber, UnchangedCodes
<1> QED
  BY <1>2, <1>3, <1>4

LEMMA InsertNumber ==
  ASSUME TypeInv, NumberInv, NEW p \in Slots, InsertUser(p)
  PROVE  NumberInv'
<1>1. UNCHANGED <<boxes, raced, codes>>
  BY DEF InsertUser, history
<1>2. CASE users' = users /\ job'[p] = Idle
  BY <1>1, <1>2, InsertEffect, IdleSeen, ReadNumber, UnchangedCodes
<1>3. CASE ~(users' = users /\ job'[p] = Idle)
  <2>1. PICK a \in Accounts, n \in Numbers, c \in 0..Len(codes) :
          /\ a = job[p].account
          /\ c # 0 => Pending(n) \in codes[c].boxes
          /\ a \notin Registered
          /\ UserAt(a, [phone |-> n, verified |-> c # 0, emailed |-> FALSE,
                        proof |-> c, opened |-> c])
          /\ job'[p].at = "bonus" /\ job'[p].account = a /\ job'[p].number = n /\ Others(p)
    BY <1>3, InsertEffect
  <2>2. PICK user : user = [phone |-> n, verified |-> c # 0, emailed |-> FALSE,
                            proof |-> c, opened |-> c]
    OBVIOUS
  <2>3. UserAt(a, user) /\ user.phone = n /\ user.proof = c /\ (user.verified => c # 0)
    BY <2>1, <2>2
  <2>4. users'[a] = user /\ Registered' = Registered \cup {a}
        /\ \A d \in Accounts \ {a} : users'[d] = users[d]
    BY <2>3 DEF UserAt
  <2>5. c # 0 => codes[c].to = n
    <3>1. c # 0 => c \in CodeNumbers
      BY CodesAre DEF CodeNumbers
    <3> QED
      BY <2>1, <3>1 DEF TypeInv, CodesInv
  <2>6. UserNumber(a)'
    BY <1>1, <2>1, <2>3, <2>4, <2>5 DEF UserNumber, NumberInv
  <2>7. \A d \in Registered' \ raced' : UserNumber(d)'
    <3> SUFFICES ASSUME NEW d \in Registered \ raced, d # a PROVE UserNumber(d)'
      BY <1>1, <2>4, <2>6
    <3>1. users'[d] = users[d]
      BY <2>4, NoBoxOfNumber
    <3> QED
      BY <1>1, <3>1, UserNumberThrough DEF NumberInv
  <2>8. \A q \in Slots : HasSeen(q)'
    <3> SUFFICES ASSUME NEW q \in Slots PROVE HasSeen(q)'
      OBVIOUS
    <3>1. CASE q = p
      BY <2>1, <2>3, <2>4, <3>1 DEF HasSeen, OfNumber
    <3>2. CASE q # p
      <4>1. Kept(q) /\ job'[q].stale = job[q].stale
        BY <2>1, <3>2 DEF Others
      <4>2. \A d \in Registered : users'[d].phone = users[d].phone
        BY <2>1, <2>4, NoBoxOfNumber
      <4> QED
        BY <1>1, <4>1, <4>2, SeenThrough DEF NumberInv
    <3> QED
      BY <3>1, <3>2
  <2> QED
    BY <1>1, <2>4, <2>7, <2>8 DEF NumberInv
<1> QED
  BY <1>2, <1>3

LEMMA EndNumber ==
  ASSUME TypeInv, NumberInv, NEW p \in Slots,
         CountWrong(p) \/ Die(p) \/ (Channel(p) /\ ClaimPendingPhone(p))
  PROVE  NumberInv'
<1>1. Done(p) /\ Others(p) /\ HasSeen(p)'
  BY CountEffect, DieEffect, ClaimEffect, DoneEffect, IdleSeen
<1>2. UNCHANGED <<users, raced>> /\ SameCodes
  BY CountEffect, DieEffect, ClaimEffect, UnchangedCodes DEF store
<1>3. \A a \in Accounts : boxes'[Phone(a)].code = boxes[Phone(a)].code
  <2>1. CASE CountWrong(p)
    BY <2>1, CountEffect, BoxesAre
  <2>2. CASE Die(p)
    BY <2>2, DieEffect DEF store
  <2>3. CASE Channel(p) /\ ClaimPendingPhone(p)
    BY <2>3, ClaimEffect, BoxesAre
  <2> QED
    BY <2>1, <2>2, <2>3
<1> QED
  BY <1>1, <1>2, <1>3, SeenStep

LEMMA HonourNumber ==
  ASSUME TypeInv, NumberInv, NEW p \in Slots, Honour(p)
  PROVE  NumberInv'
<1>1. Done(p) /\ Others(p) /\ HasSeen(p)' /\ job'[p] = Idle
  BY DoneEffect, IdleSeen DEF Honour
<1>2. ASSUME NEW n \in Numbers, NEW c \in CodeNumbers, AfterPending(p, n, c) PROVE NumberInv'
  <2>1. UNCHANGED <<users, raced, codes>>
    BY <1>2 DEF AfterPending
  <2>2. \A a \in Accounts : boxes'[Phone(a)].code = boxes[Phone(a)].code
    BY <1>2, BoxesAre DEF AfterPending
  <2> QED
    BY <1>1, <2>1, <2>2, SeenStep, UnchangedCodes
<1>3. ASSUME NEW a \in Registered, AfterMail(p, a) PROVE NumberInv'
  <2>1. PICK user : user = [users[a] EXCEPT !.emailed = TRUE]
    OBVIOUS
  <2>2. a \in Accounts /\ users[a] \in UserType
    BY NoBoxOfNumber
  <2>3. user.phone = users[a].phone /\ user.verified = users[a].verified /\ user.proof = users[a].proof
    BY <2>1, <2>2 DEF UserType
  <2>4. users'[a] = user /\ (\A d \in Accounts \ {a} : users'[d] = users[d])
        /\ Registered' = Registered
    BY <1>3, <2>1 DEF AfterMail, UserAt
  <2>5. \A d \in Accounts : boxes'[Phone(d)] = boxes[Phone(d)]
    <3>1. \A d \in Accounts : Phone(d) \in Boxes /\ Phone(d) \notin Mail(a)
      BY <2>2, BoxesAre
    <3> QED
      BY <1>3, <3>1 DEF AfterMail
  <2>6. UNCHANGED <<raced, codes>>
    BY <1>3 DEF AfterMail
  <2> QED
    BY <1>1, <2>3, <2>4, <2>5, <2>6, NumberFrame
<1>4. ASSUME NEW a \in Registered, NEW c \in CodeNumbers, AfterPhone(p, a, c) PROVE NumberInv'
  <2>1. PICK user : user = [users[a] EXCEPT !.verified = TRUE, !.proof = c]
    OBVIOUS
  <2>2. a \in Accounts /\ users[a] \in UserType
    BY NoBoxOfNumber
  <2>3. user.phone = users[a].phone /\ user.proof = c
    BY <2>1, <2>2 DEF UserType
  <2>4. users'[a] = user /\ (\A d \in Accounts \ {a} : users'[d] = users[d])
        /\ Registered' = Registered
    BY <1>4, <2>1, <2>2 DEF AfterPhone, UserAt
  <2>5. /\ job[p].at = "right" /\ job[p].box = Phone(a) /\ job[p].account = a /\ job[p].code = c
        /\ boxes'[Phone(a)] = Empty /\ (\A b \in Boxes \ {Phone(a)} : boxes'[b] = boxes[b])
        /\ raced' = IF job[p].stale THEN raced \cup {a} ELSE raced
        /\ codes' = codes
    BY <1>4 DEF AfterPhone
  <2>6. \A d \in Accounts : boxes'[Phone(d)].code \in {0, boxes[Phone(d)].code}
    BY <2>5, BoxesAre, EmptyIsBox
  <2>7. a \notin raced' => UserNumber(a)'
    <3> SUFFICES ASSUME a \notin raced' PROVE UserNumber(a)'
      OBVIOUS
    <3>1. codes[c].to = users[a].phone
      BY <2>5, BoxesAre, <2>2 DEF NumberInv, HasSeen, OfNumber
    <3>2. c # 0
      BY CodesAre
    <3> QED
      BY <2>3, <2>4, <2>5, <3>1, <3>2, EmptyIsBox DEF UserNumber
  <2>8. \A d \in Registered' \ raced' : UserNumber(d)'
    <3> SUFFICES ASSUME NEW d \in Registered \ raced', d # a PROVE UserNumber(d)'
      BY <2>4, <2>7
    <3>1. users'[d] = users[d] /\ d \in Accounts /\ d \in Registered \ raced
      BY <2>4, <2>5, NoBoxOfNumber
    <3> QED
      BY <2>5, <2>6, <3>1, UserNumberThrough DEF NumberInv
  <2>9. \A q \in Slots : HasSeen(q)'
    <3> SUFFICES ASSUME NEW q \in Slots, q # p PROVE HasSeen(q)'
      BY <1>1
    <3>1. Kept(q) /\ job'[q].stale = job[q].stale
      BY <1>1 DEF Others
    <3>2. \A d \in Registered : users'[d].phone = users[d].phone
      BY <2>3, <2>4, NoBoxOfNumber
    <3> QED
      BY <2>5, <3>1, <3>2, SeenThrough DEF NumberInv
  <2>10. \A d \in Accounts \ Registered' : boxes'[Phone(d)].code = 0
    BY <2>4, <2>6 DEF NumberInv
  <2> QED
    BY <2>8, <2>9, <2>10 DEF NumberInv
<1> QED
  BY <1>2, <1>3, <1>4, HonourEffect

LEMMA SaveNumber ==
  ASSUME TypeInv, NumberInv, NEW p \in Slots, SaveProfile(p)
  PROVE  NumberInv'
<1>1. CASE Unsaved(p)
  <2>1. UNCHANGED <<users, boxes, codes, raced>> /\ Others(p) /\ HasSeen(p)'
    BY <1>1, DoneEffect, IdleSeen DEF Unsaved, store
  <2> QED
    BY <2>1, ReadNumber, UnchangedCodes
<1>2. ASSUME NEW a \in Registered, NEW n \in Numbers, Saved(p, a, n) PROVE NumberInv'
  <2>1. PICK verified \in BOOLEAN : verified = (~job[p].changed /\ users[a].verified)
    OBVIOUS
  <2>2. PICK user : user = [users[a] EXCEPT !.phone = n, !.verified = verified]
    OBVIOUS
  <2>3. a \in Accounts /\ users[a] \in UserType
    BY NoBoxOfNumber
  <2>4. user.phone = n /\ user.verified = verified /\ user.proof = users[a].proof
    BY <2>2, <2>3 DEF UserType
  <2>5. /\ users'[a] = user /\ (\A d \in Accounts \ {a} : users'[d] = users[d])
        /\ Registered' = Registered
    BY <1>2, <2>1, <2>2 DEF Saved, UserAt
  <2>6. /\ At(p, "save") /\ job[p].account = a /\ job[p].number = n
        /\ (job[p].changed => boxes'[Phone(a)] = Empty)
        /\ (\A b \in Boxes : boxes'[b] = boxes[b] \/ b = Phone(a))
        /\ boxes'[Phone(a)].code \in {0, boxes[Phone(a)].code}
        /\ raced' = IF job[p].stale THEN raced \cup {a} ELSE raced
        /\ codes' = codes /\ job'[p] = Idle
    BY <1>2 DEF Saved
  <2>7. \A d \in Accounts \ {a} : boxes'[Phone(d)] = boxes[Phone(d)]
    <3>1. \A d \in Accounts \ {a} : Phone(d) # Phone(a) /\ Phone(d) \in Boxes
      BY <2>3, BoxesAre
    <3> QED
      BY <2>6, <3>1
  <2>8. a \notin raced' => UserNumber(a)'
    <3> SUFFICES ASSUME a \notin raced' PROVE UserNumber(a)'
      OBVIOUS
    <3>1. ~job[p].stale /\ a \notin raced
      BY <2>6
    <3>2. job[p].changed <=> users[a].phone # n
      BY <2>6, <3>1 DEF NumberInv, HasSeen, At
    <3>3. CASE job[p].changed
      <4>1. users'[a].verified = FALSE
        BY <2>1, <2>4, <2>5, <3>3
      <4> QED
        BY <2>6, <3>3, <4>1, EmptyIsBox DEF UserNumber
    <3>4. CASE ~job[p].changed
      <4>1. users'[a].phone = users[a].phone /\ (users'[a].verified => users[a].verified)
            /\ users'[a].proof = users[a].proof
        BY <2>1, <2>4, <2>5, <3>2, <3>4
      <4>2. UserNumber(a)
        BY <3>1 DEF NumberInv
      <4> QED
        BY <2>6, <4>1, <4>2, UserNumberThrough
    <3> QED
      BY <3>3, <3>4
  <2>9. \A d \in Registered' \ raced' : UserNumber(d)'
    <3> SUFFICES ASSUME NEW d \in Registered \ raced', d # a PROVE UserNumber(d)'
      BY <2>5, <2>8
    <3>1. users'[d] = users[d] /\ d \in Accounts /\ d \in Registered \ raced
          /\ boxes'[Phone(d)] = boxes[Phone(d)]
      BY <2>5, <2>6, <2>7, NoBoxOfNumber
    <3> QED
      BY <2>6, <3>1, UserNumberThrough DEF NumberInv
  <2>10. \A q \in Slots : HasSeen(q)'
    <3> SUFFICES ASSUME NEW q \in Slots, q # p PROVE HasSeen(q)'
      BY <2>6, IdleSeen
    <3>1. Kept(q) /\ (job'[q].stale <=> job[q].stale \/ (users[a].phone # n /\ HasRead(q, a)))
      BY <1>2 DEF Saved
    <3>2. \A d \in Registered \ {a} : users'[d].phone = users[d].phone
      BY <2>5, NoBoxOfNumber
    <3>3. CASE users[a].phone = n
      <4>1. \A d \in Registered : users'[d].phone = users[d].phone
        BY <2>4, <2>5, <3>2, <3>3
      <4> QED
        BY <2>6, <3>1, <4>1, SeenThrough DEF NumberInv
    <3>4. CASE users[a].phone # n /\ HasRead(q, a)
      BY <2>6, <3>1, <3>4, SeenThrough DEF NumberInv
    <3>5. CASE ~HasRead(q, a)
      <4>1. \/ \A d \in Registered : job[q].account = d => users'[d].phone = users[d].phone
            \/ ~HasRead(q, job[q].account)
        BY <3>2, <3>5
      <4> QED
        BY <2>6, <3>1, <4>1, SeenThrough DEF NumberInv
    <3> QED
      BY <3>3, <3>4, <3>5
  <2>11. \A d \in Accounts \ Registered' : boxes'[Phone(d)].code = 0
    BY <2>5, <2>7 DEF NumberInv
  <2> QED
    BY <2>9, <2>10, <2>11 DEF NumberInv
<1> QED
  BY <1>1, <1>2, SaveEffect

\* A code for another box, or for the number of the account it is kept with.
LEMMA NewCodeNumber ==
  ASSUME TypeInv, NumberInv, NEW p \in Slots, NEW bs, NEW to, AfterIssue(p, bs, to),
         \A a \in Accounts : Phone(a) \in bs =>
           /\ a \in Registered /\ job[p].account = a
           /\ ~job[p].stale /\ a \notin raced => to = users[a].phone
  PROVE  NumberInv'
<1>1. /\ UNCHANGED users /\ Registered' = Registered
      /\ raced' = IF job[p].stale THEN raced \cup {job[p].account} ELSE raced
      /\ \A c \in CodeNumbers : codes'[c] = codes[c]
      /\ Len(codes) + 1 # 0
  BY CodesAre DEF AfterIssue, Registered
<1>2. \A a \in Registered' \ raced' : UserNumber(a)'
  <2> SUFFICES ASSUME NEW a \in Registered \ raced' PROVE UserNumber(a)'
    BY <1>1
  <2>1. a \in Accounts /\ a \notin raced /\ UserNumber(a) /\ Phone(a) \in Boxes
    BY <1>1, NoBoxOfNumber, BoxesAre DEF NumberInv
  <2>2. CASE Phone(a) \in bs
    <3>1. to = users[a].phone
      BY <1>1, <2>1, <2>2
    <3>2. boxes'[Phone(a)].code = Len(codes) + 1 /\ codes'[Len(codes) + 1].to = to
      BY <2>2 DEF AfterIssue
    <3>3. users[a].verified => codes'[users[a].proof] = codes[users[a].proof] /\ users[a].proof # 0
      BY <1>1, <2>1, NoBoxOfNumber DEF UserNumber
    <3> QED
      BY <1>1, <2>1, <3>1, <3>2, <3>3 DEF UserNumber
  <2>3. CASE Phone(a) \notin bs
    <3>1. boxes'[Phone(a)] = boxes[Phone(a)]
      BY <2>1, <2>3 DEF AfterIssue
    <3> QED
      BY <1>1, <2>1, <3>1, UserNumberThrough
  <2> QED
    BY <2>2, <2>3
<1>3. \A q \in Slots : HasSeen(q)'
  <2> SUFFICES ASSUME NEW q \in Slots PROVE HasSeen(q)'
    OBVIOUS
  <2>1. CASE q = p
    BY <2>1, IdleSeen DEF AfterIssue
  <2>2. CASE q # p
    <3>1. Kept(q) /\ (job[q].stale => job'[q].stale)
      BY <2>2 DEF AfterIssue
    <3> QED
      BY <1>1, <3>1, SeenThrough DEF NumberInv
  <2> QED
    BY <2>1, <2>2
<1>4. \A a \in Accounts \ Registered' : boxes'[Phone(a)].code = 0
  BY <1>1, BoxesAre DEF AfterIssue, NumberInv
<1> QED
  BY <1>2, <1>3, <1>4 DEF NumberInv

LEMMA IssueNumber ==
  ASSUME TypeInv, NumberInv, NEW p \in Slots, IssueCode(p) \/ (Channel(p) /\ ~ClaimPendingPhone(p))
  PROVE  NumberInv'
<1>1. ASSUME NEW n \in SmsNumbers, Issue(p, {Pending(n)}, n) PROVE NumberInv'
  <2>1. AfterIssue(p, {Pending(n)}, n)
    BY <1>1, Issuables, IssueEffect
  <2>2. \A a \in Accounts : Phone(a) \notin {Pending(n)}
    BY BoxesAre, VerificationAssumption
  <2> QED
    BY <2>1, <2>2, NewCodeNumber
<1>2. ASSUME NEW a \in Registered, NEW n \in Numbers, job[p].account = a, job[p].number = n,
             Issue(p, {Phone(a)}, n),
             At(p, "channel") \/ (At(p, "issue") /\ job[p].box.kind = "phone")
      PROVE  NumberInv'
  <2>1. a \in Accounts /\ Issuable({Phone(a)}, n)
    BY Issuables, NoBoxOfNumber
  <2>2. AfterIssue(p, {Phone(a)}, n)
    BY <1>2, <2>1, IssueEffect
  <2>3. \A d \in Accounts : Phone(d) \in {Phone(a)} => d = a
    BY <2>1, BoxesAre
  <2>4. ~job[p].stale /\ a \notin raced => n = users[a].phone
    BY <1>2 DEF NumberInv, HasSeen, OfNumber, At
  <2> QED
    BY <1>2, <2>2, <2>3, <2>4, NewCodeNumber
<1>3. ASSUME NEW a \in Registered, Issue(p, Mail(a), a) PROVE NumberInv'
  <2>1. a \in Accounts /\ Issuable(Mail(a), a)
    BY Issuables, NoBoxOfNumber
  <2>2. AfterIssue(p, Mail(a), a)
    BY <1>3, <2>1, IssueEffect
  <2>3. \A d \in Accounts : Phone(d) \notin Mail(a)
    BY <2>1, BoxesAre
  <2> QED
    BY <2>2, <2>3, NewCodeNumber
<1> QED
  BY <1>1, <1>2, <1>3, IssueCases

LEMMA StepNumber == TypeInv /\ NumberInv /\ [Next]_vars => NumberInv'
<1> SUFFICES ASSUME TypeInv, NumberInv, [Next]_vars PROVE NumberInv'
  OBVIOUS
<1>1. CASE Tick \/ UNCHANGED vars
  <2>1. UNCHANGED <<users, boxes, codes, raced, job>>
    BY <1>1 DEF Tick, vars, store, history
  <2> QED
    BY <2>1 DEF NumberInv, UserNumber, HasSeen, OfNumber, Registered
<1>2. ASSUME NEW p \in Slots, Register(p) \/ ReadProof(p) \/ InsertUser(p) \/ GrantBonus(p)
      PROVE  NumberInv'
  BY <1>2, RegisterNumber, InsertNumber
<1>3. ASSUME NEW p \in Slots, Channel(p) \/ IssueCode(p) PROVE NumberInv'
  BY <1>3, EndNumber, IssueNumber
<1>4. ASSUME NEW p \in Slots,
             ResendPhone(p) \/ ResendEmail(p) \/ OpenLink(p) \/ UpdateProfile(p)
      PROVE  NumberInv'
  BY <1>4, BeginNumber
<1>5. ASSUME NEW p \in Slots, VerifyPhone(p) \/ VerifyEmailOtp(p) \/ FindPending(p) PROVE NumberInv'
  BY <1>5, PresentNumber
<1>6. ASSUME NEW p \in Slots, CountWrong(p) \/ Honour(p) \/ SaveProfile(p) \/ Die(p) PROVE NumberInv'
  BY <1>6, EndNumber, HonourNumber, SaveNumber
<1> QED
  BY <1>1, <1>2, <1>3, <1>4, <1>5, <1>6 DEF Next

LEMMA InitNumber == Init => NumberInv
<1> SUFFICES ASSUME Init PROVE NumberInv
  OBVIOUS
<1>1. Registered = {}
  BY DEF Init, Registered
<1>2. \A p \in Slots : HasSeen(p)
  BY DEF Init, HasSeen, OfNumber, Idle
<1>3. \A a \in Accounts : boxes[Phone(a)].code = 0
  BY BoxesAre, EmptyIsBox DEF Init
<1> QED
  BY <1>1, <1>2, <1>3 DEF NumberInv

------------------------------------------------------------------------------
(* What proves a number is its latest code.                                  *)
LEMMA LatestFrame ==
  ASSUME TypeInv, LatestInv, SameCodes, NEW p \in Slots, Others(p),
         \A n \in Numbers : boxes'[Pending(n)].code \in {0, boxes[Pending(n)].code},
         \A n \in Numbers : proofs'[n].code # 0 /\ ~proofs'[n].late =>
           proofs'[n] = proofs[n] \/ Latest(Pending(n), proofs'[n].code),
         At(p, "right")' /\ job'[p].box.kind = "pending" /\ ~job'[p].stale =>
           Latest(job'[p].box, job'[p].code)
  PROVE  LatestInv'
<1>1. CodeNumbers' = CodeNumbers /\ \A d \in CodeNumbers : codes'[d].boxes = codes[d].boxes
  BY DEF SameCodes, CodeNumbers
<1>2. \A n \in Numbers : boxes'[Pending(n)].code # 0 =>
        \A d \in CodeNumbers : Pending(n) \in codes[d].boxes => d <= boxes'[Pending(n)].code
  BY DEF LatestInv, Latest
<1>3. \A n \in Numbers : proofs'[n].code # 0 /\ ~proofs'[n].late =>
        \A d \in CodeNumbers : Pending(n) \in codes[d].boxes => d <= proofs'[n].code
  BY DEF LatestInv, Latest
<1>4. \A q \in Slots : At(q, "right")' /\ job'[q].box.kind = "pending" /\ ~job'[q].stale =>
        \A d \in CodeNumbers : job'[q].box \in codes[d].boxes => d <= job'[q].code
  <2> SUFFICES ASSUME NEW q \in Slots, At(q, "right")', job'[q].box.kind = "pending", ~job'[q].stale
               PROVE  \A d \in CodeNumbers : job'[q].box \in codes[d].boxes => d <= job'[q].code
    OBVIOUS
  <2>1. CASE q = p
    BY <2>1 DEF Latest
  <2>2. CASE q # p
    <3>1. Kept(q) /\ job'[q].stale = job[q].stale
      BY <2>2 DEF Others
    <3> QED
      BY <3>1 DEF LatestInv, Latest, Kept, At
  <2> QED
    BY <2>1, <2>2
<1> QED
  BY <1>1, <1>2, <1>3, <1>4 DEF LatestInv, Latest

\* Steps that leave boxes and proofs alone and do not compare a code.
LEMMA LatestReads ==
  ASSUME TypeInv, LatestInv, SameCodes, NEW p \in Slots, Others(p), UNCHANGED <<boxes, proofs>>,
         At(p, "right")' => job'[p].box.kind # "pending"
  PROVE  LatestInv'
BY LatestFrame

LEMMA LatestPresent ==
  ASSUME TypeInv, LatestInv, NEW p \in Slots, VerifyPhone(p) \/ VerifyEmailOtp(p) \/ FindPending(p)
  PROVE  LatestInv'
<1>1. CASE Dismissed(p)
  BY <1>1, LatestReads, UnchangedCodes DEF Dismissed, store, At
<1>2. ASSUME NEW a \in Accounts \cup {"none"}, NEW n \in Numbers \cup {"none"}, NEW b \in Boxes,
             Presents(p, a, n, b)
      PROVE  LatestInv'
  <2>1. UNCHANGED <<boxes, proofs>> /\ SameCodes /\ Others(p)
    BY <1>2 DEF Presents, AfterCheck, store
  <2>2. At(p, "right")' => job'[p].box = b /\ job'[p].code = boxes[b].code /\ boxes[b].code # 0
    BY <1>2, IdleIsJob DEF Presents, AfterCheck, Compared, At, Answered
  <2>3. b.kind = "pending" => \E m \in Numbers : b = Pending(m)
    BY BoxKinds
  <2>4. At(p, "right")' /\ job'[p].box.kind = "pending" => Latest(job'[p].box, job'[p].code)
    BY <2>2, <2>3 DEF LatestInv
  <2> QED
    BY <2>1, <2>4, LatestFrame
<1> QED
  BY <1>1, <1>2, PresentEffect

LEMMA LatestQuiet ==
  ASSUME TypeInv, LatestInv, NEW p \in Slots,
         \/ Register(p) \/ ReadProof(p) \/ InsertUser(p) \/ GrantBonus(p)
         \/ ResendPhone(p) \/ ResendEmail(p) \/ OpenLink(p) \/ UpdateProfile(p)
  PROVE  LatestInv'
<1>1. UNCHANGED <<boxes, proofs, codes>>
  BY ResendPhoneEffect, ResendEmailEffect, OpenLinkEffect, UpdateEffect
     DEF Register, ReadProof, InsertUser, GrantBonus, store, history
<1>2. Others(p) /\ (At(p, "right")' => job'[p].box.kind # "pending")
  <2>1. CASE Register(p) \/ ReadProof(p) \/ InsertUser(p) \/ GrantBonus(p)
    BY <2>1, RegisterEffect, ReadProofEffect, InsertEffect, BonusEffect, IdleIsJob DEF At
  <2>2. CASE ResendPhone(p) \/ ResendEmail(p) \/ OpenLink(p) \/ UpdateProfile(p)
    BY <2>2, ResendPhoneEffect, ResendEmailEffect, OpenLinkEffect, UpdateEffect, IdleIsJob DEF At
  <2> QED
    BY <2>1, <2>2
<1> QED
  BY <1>1, <1>2, LatestReads, UnchangedCodes

LEMMA LatestEnds ==
  ASSUME TypeInv, LatestInv, NEW p \in Slots,
         CountWrong(p) \/ Die(p) \/ (Channel(p) /\ ClaimPendingPhone(p))
  PROVE  LatestInv'
<1>1. Others(p) /\ ~At(p, "right")' /\ SameCodes
  BY CountEffect, DieEffect, ClaimEffect, DoneEffect, UnchangedCodes, IdleIsJob DEF At
<1>2. \A n \in Numbers : /\ boxes'[Pending(n)].code \in {0, boxes[Pending(n)].code}
                         /\ proofs'[n].code # 0 => proofs'[n] = proofs[n]
  <2>1. CASE CountWrong(p)
    BY <2>1, CountEffect, BoxesAre
  <2>2. CASE Die(p)
    BY <2>2, DieEffect DEF store
  <2>3. CASE Channel(p) /\ ClaimPendingPhone(p)
    BY <2>3, ClaimEffect, BoxesAre, EmptyIsBox
  <2> QED
    BY <2>1, <2>2, <2>3
<1> QED
  BY <1>1, <1>2, LatestFrame

LEMMA LatestHonoured ==
  ASSUME TypeInv, LatestInv, NEW p \in Slots, Honour(p)
  PROVE  LatestInv'
<1>1. Others(p) /\ ~At(p, "right")'
  BY DoneEffect, IdleIsJob DEF Honour, At
<1>2. ASSUME NEW n \in Numbers, NEW c \in CodeNumbers, AfterPending(p, n, c) PROVE LatestInv'
  <2>1. \A m \in Numbers : boxes'[Pending(m)].code \in {0, boxes[Pending(m)].code}
    BY <1>2, BoxesAre, EmptyIsBox DEF AfterPending
  <2>2. ~job[p].stale => Latest(Pending(n), c)
    <3>1. Pending(n).kind = "pending"
      BY BoxesAre
    <3> QED
      BY <1>2, <3>1 DEF AfterPending, LatestInv, At
  <2>3. \A m \in Numbers : proofs'[m].code # 0 /\ ~proofs'[m].late =>
          proofs'[m] = proofs[m] \/ Latest(Pending(m), proofs'[m].code)
    <3> SUFFICES ASSUME NEW m \in Numbers, ~proofs'[m].late
                 PROVE  proofs'[m] = proofs[m] \/ Latest(Pending(m), proofs'[m].code)
      OBVIOUS
    <3>1. CASE m # n
      BY <1>2, <3>1 DEF AfterPending
    <3>2. CASE m = n
      <4>1. \/ proofs'[n] = proofs[n]
            \/ proofs'[n].code = c /\ ~job[p].stale
        BY <1>2, <3>2 DEF AfterPending
      <4> QED
        BY <2>2, <3>2, <4>1
    <3> QED
      BY <3>1, <3>2
  <2>4. SameCodes
    BY <1>2, UnchangedCodes DEF AfterPending
  <2> QED
    BY <1>1, <2>1, <2>3, <2>4, LatestFrame
<1>3. ASSUME NEW a \in Registered, NEW c \in CodeNumbers, AfterPhone(p, a, c) PROVE LatestInv'
  <2>1. UNCHANGED <<proofs, codes>> /\ \A b \in Boxes \ {Phone(a)} : boxes'[b] = boxes[b]
    BY <1>3 DEF AfterPhone
  <2>2. \A m \in Numbers : boxes'[Pending(m)] = boxes[Pending(m)]
    BY <2>1, BoxesAre, NoBoxOfNumber
  <2> QED
    BY <1>1, <2>1, <2>2, UnchangedCodes, LatestFrame
<1>4. ASSUME NEW a \in Registered, AfterMail(p, a) PROVE LatestInv'
  <2>1. UNCHANGED <<proofs, codes>>
        /\ \A b \in Boxes : boxes'[b] = IF b \in Mail(a) THEN Empty ELSE boxes[b]
    BY <1>4 DEF AfterMail
  <2>2. \A m \in Numbers : Pending(m) \in Boxes /\ Pending(m) \notin Mail(a)
    BY BoxesAre, NoBoxOfNumber
  <2>3. \A m \in Numbers : boxes'[Pending(m)] = boxes[Pending(m)]
    BY <2>1, <2>2
  <2> QED
    BY <1>1, <2>1, <2>3, UnchangedCodes, LatestFrame
<1> QED
  BY <1>2, <1>3, <1>4, HonourEffect

LEMMA LatestSaved ==
  ASSUME TypeInv, LatestInv, NEW p \in Slots, SaveProfile(p)
  PROVE  LatestInv'
<1>1. CASE Unsaved(p)
  BY <1>1, DoneEffect, IdleIsJob, LatestReads, UnchangedCodes DEF Unsaved, store, At
<1>2. ASSUME NEW a \in Registered, NEW n \in Numbers, Saved(p, a, n) PROVE LatestInv'
  <2>1. UNCHANGED <<proofs, codes>> /\ \A b \in Boxes : boxes'[b] = boxes[b] \/ b = Phone(a)
    BY <1>2 DEF Saved
  <2>2. \A m \in Numbers : boxes'[Pending(m)] = boxes[Pending(m)]
    BY <2>1, BoxesAre, NoBoxOfNumber
  <2>3. \A q \in Slots : At(q, "right")' /\ ~job'[q].stale =>
          /\ At(q, "right") /\ ~job[q].stale /\ job'[q].box = job[q].box
          /\ job'[q].code = job[q].code
    <3> SUFFICES ASSUME NEW q \in Slots, At(q, "right")', ~job'[q].stale
                 PROVE  /\ At(q, "right") /\ ~job[q].stale /\ job'[q].box = job[q].box
                        /\ job'[q].code = job[q].code
      OBVIOUS
    <3>1. q # p
      BY <1>2, IdleIsJob DEF Saved, At
    <3> QED
      BY <1>2, <3>1 DEF Saved, Kept, At
  <2>4. CodeNumbers' = CodeNumbers
    BY <2>1 DEF CodeNumbers
  <2> QED
    BY <2>1, <2>2, <2>3, <2>4 DEF LatestInv, Latest
<1> QED
  BY <1>1, <1>2, SaveEffect

\* A new code makes stale whoever compared the old one of its box.
LEMMA LatestNewCode ==
  ASSUME TypeInv, LatestInv, NEW p \in Slots, NEW bs, NEW to, AfterIssue(p, bs, to),
         bs \subseteq Boxes
  PROVE  LatestInv'
<1> DEFINE new == Len(codes) + 1
<1>1. /\ CodeNumbers' = CodeNumbers \cup {new} /\ codes'[new].boxes = bs
      /\ \A c \in CodeNumbers : codes'[c] = codes[c] /\ c \in Nat /\ c <= new
  BY CodesAre DEF AfterIssue
<1>2. new \in Nat
  BY CodesAre
<1> HIDE DEF new
<1>3. \A n \in Numbers : boxes'[Pending(n)].code # 0 =>
        \A d \in CodeNumbers' : Pending(n) \in codes'[d].boxes => d <= boxes'[Pending(n)].code
  <2> SUFFICES ASSUME NEW n \in Numbers, boxes'[Pending(n)].code # 0
               PROVE  \A d \in CodeNumbers' : Pending(n) \in codes'[d].boxes =>
                                                d <= boxes'[Pending(n)].code
    OBVIOUS
  <2>1. Pending(n) \in Boxes
    BY BoxesAre
  <2>2. CASE Pending(n) \in bs
    <3>1. boxes'[Pending(n)].code = new
      BY <2>2 DEF AfterIssue, new
    <3> QED
      BY <1>1, <1>2, <3>1
  <2>3. CASE Pending(n) \notin bs
    <3>1. boxes'[Pending(n)] = boxes[Pending(n)]
      BY <2>1, <2>3 DEF AfterIssue
    <3> QED
      BY <1>1, <2>3, <3>1 DEF LatestInv, Latest
  <2> QED
    BY <2>2, <2>3
<1>4. \A n \in Numbers : proofs'[n].code # 0 /\ ~proofs'[n].late =>
        \A d \in CodeNumbers' : Pending(n) \in codes'[d].boxes => d <= proofs'[n].code
  <2> SUFFICES ASSUME NEW n \in Numbers, proofs'[n].code # 0, ~proofs'[n].late
               PROVE  \A d \in CodeNumbers' : Pending(n) \in codes'[d].boxes => d <= proofs'[n].code
    OBVIOUS
  <2>1. Pending(n) \notin bs /\ proofs'[n] = proofs[n]
    BY EmptyIsBox DEF AfterIssue
  <2> QED
    BY <1>1, <2>1 DEF LatestInv, Latest
<1>5. \A q \in Slots : At(q, "right")' /\ job'[q].box.kind = "pending" /\ ~job'[q].stale =>
        \A d \in CodeNumbers' : job'[q].box \in codes'[d].boxes => d <= job'[q].code
  <2> SUFFICES ASSUME NEW q \in Slots, At(q, "right")', job'[q].box.kind = "pending", ~job'[q].stale
               PROVE  \A d \in CodeNumbers' : job'[q].box \in codes'[d].boxes => d <= job'[q].code
    OBVIOUS
  <2>1. q # p
    BY IdleIsJob DEF AfterIssue, At
  <2>2. Kept(q) /\ (job'[q].stale <=> job[q].stale \/ \E b \in bs : Fits(b, q))
    BY <2>1 DEF AfterIssue
  <2>3. At(q, "right") /\ ~job[q].stale /\ job[q].box \notin bs
    BY <2>2 DEF Kept, At, Fits
  <2>4. Latest(job[q].box, job[q].code)
    BY <2>2, <2>3 DEF LatestInv, Kept
  <2> QED
    BY <1>1, <2>2, <2>3, <2>4 DEF Latest, Kept
<1> QED
  BY <1>3, <1>4, <1>5 DEF LatestInv, Latest

LEMMA IssuedSomehow ==
  ASSUME TypeInv, NEW p \in Slots, IssueCode(p) \/ (Channel(p) /\ ~ClaimPendingPhone(p))
  PROVE  \E bs \in SUBSET Boxes, to \in Numbers \cup Accounts :
           /\ AfterIssue(p, bs, to) /\ Issuable(bs, to)
           /\ At(p, "channel") => job[p].code = 0 /\ \A n \in Numbers : Pending(n) \notin bs
<1>1. ASSUME NEW n \in SmsNumbers, Issue(p, {Pending(n)}, n)
      PROVE  AfterIssue(p, {Pending(n)}, n) /\ Issuable({Pending(n)}, n)
  BY <1>1, Issuables, IssueEffect
<1>2. ASSUME NEW a \in Registered, NEW n \in Numbers, Issue(p, {Phone(a)}, n)
      PROVE  /\ AfterIssue(p, {Phone(a)}, n) /\ Issuable({Phone(a)}, n)
             /\ \A m \in Numbers : Pending(m) \notin {Phone(a)}
  <2>1. a \in Accounts /\ Issuable({Phone(a)}, n)
    BY Issuables, NoBoxOfNumber
  <2> QED
    BY <1>2, <2>1, BoxesAre, IssueEffect
<1>3. ASSUME NEW a \in Registered, Issue(p, Mail(a), a)
      PROVE  /\ AfterIssue(p, Mail(a), a) /\ Issuable(Mail(a), a)
             /\ \A m \in Numbers : Pending(m) \notin Mail(a)
  <2>1. a \in Accounts /\ Issuable(Mail(a), a)
    BY Issuables, NoBoxOfNumber
  <2> QED
    BY <1>3, <2>1, BoxesAre, IssueEffect
<1>4. \A bs, to : Issuable(bs, to) => bs \in SUBSET Boxes /\ to \in Numbers \cup Accounts
  BY DEF Issuable
<1>5. CASE \E n \in SmsNumbers : /\ job[p].box = Pending(n) /\ Issue(p, {Pending(n)}, n)
                                 /\ At(p, "issue") /\ ~job[p].stale
  BY <1>1, <1>4, <1>5 DEF At
<1>6. CASE \E a \in Registered, n \in Numbers :
             /\ job[p].account = a /\ job[p].number = n /\ Issue(p, {Phone(a)}, n)
             /\ At(p, "channel") \/ (At(p, "issue") /\ job[p].box.kind = "phone")
             /\ At(p, "channel") => job[p].code = 0
  BY <1>2, <1>4, <1>6
<1>7. CASE \E a \in Registered : /\ job[p].account = a /\ Issue(p, Mail(a), a)
                                 /\ At(p, "channel") => job[p].code = 0
  BY <1>3, <1>4, <1>7
<1> QED
  BY <1>5, <1>6, <1>7, IssueCases

LEMMA StepLatest == TypeInv /\ LatestInv /\ [Next]_vars => LatestInv'
<1> SUFFICES ASSUME TypeInv, LatestInv, [Next]_vars PROVE LatestInv'
  OBVIOUS
<1>1. CASE Tick \/ UNCHANGED vars
  <2>1. UNCHANGED <<boxes, proofs, codes, job>>
    BY <1>1 DEF Tick, vars, store, history
  <2> QED
    BY <2>1 DEF LatestInv, Latest, At, CodeNumbers
<1>2. ASSUME NEW p \in Slots,
             \/ Register(p) \/ ReadProof(p) \/ InsertUser(p) \/ GrantBonus(p)
             \/ ResendPhone(p) \/ ResendEmail(p) \/ OpenLink(p) \/ UpdateProfile(p)
      PROVE  LatestInv'
  BY <1>2, LatestQuiet
<1>3. ASSUME NEW p \in Slots, Channel(p) \/ IssueCode(p) PROVE LatestInv'
  BY <1>3, LatestEnds, IssuedSomehow, LatestNewCode
<1>4. ASSUME NEW p \in Slots, VerifyPhone(p) \/ VerifyEmailOtp(p) \/ FindPending(p) PROVE LatestInv'
  BY <1>4, LatestPresent
<1>5. ASSUME NEW p \in Slots, CountWrong(p) \/ Honour(p) \/ SaveProfile(p) \/ Die(p) PROVE LatestInv'
  BY <1>5, LatestEnds, LatestHonoured, LatestSaved
<1> QED
  BY <1>1, <1>2, <1>3, <1>4, <1>5 DEF Next

LEMMA InitLatest == Init => LatestInv
<1> SUFFICES ASSUME Init PROVE LatestInv
  OBVIOUS
<1>1. \A n \in Numbers : boxes[Pending(n)].code = 0 /\ proofs[n].code = 0
  BY BoxesAre, EmptyIsBox DEF Init
<1> QED
  BY <1>1, IdleIsJob DEF Init, LatestInv, At

(* What an account that is marked as verified rests on, and what the next    *)
(* registration of a number may.                                             *)
THEOREM VerifiedAlwaysProven == Spec => []VerifiedMeansProven
<1> DEFINE I == TypeInv /\ NumberInv /\ LatestInv
<1>1. Init => I
  BY InitType, InitNumber, InitLatest
<1>2. I /\ [Next]_vars => I'
  BY StepType, StepNumber, StepLatest
<1>3. I => VerifiedMeansProven
  BY DEF NumberInv, UserNumber, LatestInv, Latest, VerifiedMeansProven, Pending, CodeNumbers
<1> QED
  BY <1>1, <1>2, <1>3, PTL DEF Spec

------------------------------------------------------------------------------
(* One proof opens one account.                                              *)
OpeningKept(c) ==
  \A q \in Slots : /\ Inserting(q, c)' => Inserting(q, c)
                   /\ Registering(q, c)' <=> Registering(q, c)
RedeemKept(c) ==
  \A q \in Slots : Redeeming(q, c)' =>
    Redeeming(q, c) /\ job'[q].number = job[q].number /\ (job[q].stale => job'[q].stale)

LEMMA OpeningIs ==
  ASSUME NEW p \in Slots, NEW c
  PROVE  Opening(p, c) <=> Inserting(p, c) \/ Registering(p, c)
BY DEF Opening, Inserting, Registering, At

LEMMA SpentThrough ==
  ASSUME TypeInv, NEW c \in CodeNumbers, Spent(c), OpeningKept(c), RedeemKept(c),
         \A n \in Numbers :
           /\ proofs'[n].code = c => proofs[n].code = c
           /\ boxes'[Pending(n)].code = c => boxes[Pending(n)].code = c,
         \A n \in Numbers : Gone(n) =>
           Gone(n)' \/ \A q \in Slots : Redeeming(q, c)' /\ job'[q].number = n => job'[q].stale
  PROVE  Spent(c)'
<1>0. \A q \in Slots : Redeeming(q, c) => job[q].number \in Numbers
  BY DEF TypeInv, JobsInv, InHand, Redeeming, At
<1>1. \A q \in Slots : Redeeming(q, c)' => job'[q].stale \/ Gone(job[q].number)'
  BY <1>0 DEF Spent, RedeemKept
<1>2. \A q \in Slots : Redeeming(q, c)' => job'[q].number = job[q].number
  BY DEF RedeemKept
<1>3. \A q \in Slots : Redeeming(q, c)' => (job[q].stale \/ Gone(job[q].number))'
  BY <1>1, <1>2 DEF Gone
<1>4. \A q \in Slots : ~Inserting(q, c)' /\ ~Registering(q, c)'
  BY DEF Spent, OpeningKept
<1>5. \A n \in Numbers : proofs'[n].code # c /\ boxes'[Pending(n)].code # c
  BY DEF Spent
<1> QED
  BY <1>3, <1>4, <1>5 DEF Spent

LEMMA CodeProofThrough ==
  ASSUME NEW c \in CodeNumbers, CodeProof(c), OpeningKept(c), Opened(c)' => Opened(c),
         Opened(c) /\ Spent(c) => Spent(c)'
  PROVE  CodeProof(c)'
<1>1. \A q \in Slots : Opening(q, c)' => Opening(q, c)
  BY DEF OpeningKept, Opening, Inserting, Registering, At
<1>2. \A q, r \in Slots : Opening(q, c)' /\ Opening(r, c)' => q = r
  BY <1>1 DEF CodeProof
<1>3. Opened(c)' => (\A q \in Slots : ~Inserting(q, c)') /\ (Spent(c)' \/ \E q \in Slots : Registering(q, c)')
  BY DEF CodeProof, OpeningKept
<1> QED
  BY <1>2, <1>3 DEF CodeProof

LEMMA OthersOpen ==
  ASSUME NEW p \in Slots, NEW q \in Slots \ {p}, Kept(q), NEW c
  PROVE  /\ Inserting(q, c)' <=> Inserting(q, c)
         /\ Registering(q, c)' <=> Registering(q, c)
         /\ Redeeming(q, c)' <=> Redeeming(q, c)
         /\ Opening(q, c)' <=> Opening(q, c)
BY DEF Kept, Inserting, Registering, Redeeming, Opening, At

\* What a request in flight has read can only become stale.
OthersOn(p) == \A q \in Slots \ {p} : Kept(q) /\ (job[q].stale => job'[q].stale)

\* A step that opens nothing, compares nothing and brings no code back.
LEMMA ProofFrame ==
  ASSUME TypeInv, NEW p \in Slots, OthersOn(p), NEW c \in CodeNumbers, CodeProof(c),
         Registering(p, c)' <=> Registering(p, c), Inserting(p, c)' => Inserting(p, c),
         Opened(c)' => Opened(c),
         Opened(c) /\ Spent(c) => ~Redeeming(p, c)',
         \A n \in Numbers :
           /\ proofs'[n].code = c => proofs[n].code = c \/ ~Spent(c) \/ ~Opened(c)
           /\ boxes'[Pending(n)].code = c => boxes[Pending(n)].code = c,
         \A n \in Numbers : Gone(n) => Gone(n)'
  PROVE  CodeProof(c)'
<1>1. OpeningKept(c)
  <2> SUFFICES ASSUME NEW q \in Slots, q # p
               PROVE  (Inserting(q, c)' => Inserting(q, c)) /\ (Registering(q, c)' <=> Registering(q, c))
    BY DEF OpeningKept
  <2>1. Kept(q)
    BY DEF OthersOn
  <2> QED
    BY <2>1, OthersOpen
<1>2. Opened(c) /\ Spent(c) => RedeemKept(c)
  <2> SUFFICES ASSUME Opened(c), Spent(c), NEW q \in Slots, Redeeming(q, c)'
               PROVE  /\ Redeeming(q, c) /\ job'[q].number = job[q].number
                      /\ job[q].stale => job'[q].stale
    BY DEF RedeemKept
  <2>1. q # p
    OBVIOUS
  <2>2. Kept(q) /\ (job[q].stale => job'[q].stale)
    BY <2>1 DEF OthersOn
  <2> QED
    BY <2>1, <2>2, OthersOpen DEF Kept
<1>3. Opened(c) /\ Spent(c) => Spent(c)'
  BY <1>1, <1>2, SpentThrough
<1> QED
  BY <1>1, <1>3, CodeProofThrough

\* The same for all codes, when none is new and the accounts are the same.
LEMMA ProofStep ==
  ASSUME TypeInv, ProofInv, NEW p \in Slots, OthersOn(p), CodeNumbers' = CodeNumbers,
         Registered' = Registered, \A a \in Registered : users'[a].opened = users[a].opened,
         shared \subseteq shared',
         \A c \in CodeNumbers \ shared' :
           /\ Registering(p, c)' <=> Registering(p, c)
           /\ Inserting(p, c)' => Inserting(p, c)
           /\ Opened(c) /\ Spent(c) => ~Redeeming(p, c)',
         \A n \in Numbers :
           /\ proofs'[n].code \in {0, proofs[n].code}
           /\ boxes'[Pending(n)].code \in {0, boxes[Pending(n)].code}
           /\ Gone(n) => Gone(n)'
  PROVE  ProofInv'
<1>1. OpenedOnce'
  BY DEF OpenedOnce, ProofInv
<1>2. ASSUME NEW c \in CodeNumbers \ shared' PROVE CodeProof(c)'
  <2>1. c # 0 /\ c \in CodeNumbers \ shared
    BY CodesAre
  <2>2. Opened(c)' => Opened(c)
    BY DEF Opened
  <2>3. CodeProof(c) /\ (Registering(p, c)' <=> Registering(p, c))
        /\ (Inserting(p, c)' => Inserting(p, c)) /\ (Opened(c) /\ Spent(c) => ~Redeeming(p, c)')
    BY <2>1 DEF ProofInv
  <2>4. \A n \in Numbers :
          /\ proofs'[n].code = c => proofs[n].code = c \/ ~Spent(c) \/ ~Opened(c)
          /\ boxes'[Pending(n)].code = c => boxes[Pending(n)].code = c
    BY <2>1
  <2>5. \A n \in Numbers : Gone(n) => Gone(n)'
    OBVIOUS
  <2> QED
    BY <2>1, <2>2, <2>3, <2>4, <2>5, ProofFrame
<1> QED
  BY <1>1, <1>2 DEF ProofInv


LEMMA OthersGoOn == \A p \in Slots : Others(p) => OthersOn(p)
BY DEF Others, OthersOn

\* Steps that begin a request, or go on with one, and leave the store alone.
LEMMA ProofReads ==
  ASSUME TypeInv, ProofInv, NEW p \in Slots, Others(p), SameCodes, UNCHANGED <<store, shared>>,
         \A c \in CodeNumbers \ shared :
           /\ Registering(p, c)' <=> Registering(p, c)
           /\ Inserting(p, c)' => Inserting(p, c)
           /\ Opened(c) /\ Spent(c) => ~Redeeming(p, c)'
  PROVE  ProofInv'
<1>1. CodeNumbers' = CodeNumbers
  BY DEF SameCodes, CodeNumbers
<1>2. Registered' = Registered /\ \A a \in Registered : users'[a].opened = users[a].opened
  BY DEF store, Registered
<1>3. \A n \in Numbers :
        /\ proofs'[n].code \in {0, proofs[n].code}
        /\ boxes'[Pending(n)].code \in {0, boxes[Pending(n)].code}
        /\ Gone(n) => Gone(n)'
  BY DEF store, Gone
<1>4. shared' = shared /\ OthersOn(p)
  BY OthersGoOn
<1> QED
  BY <1>1, <1>2, <1>3, <1>4, ProofStep

LEMMA BeginProof ==
  ASSUME TypeInv, ProofInv, NEW p \in Slots,
         \/ Register(p) \/ ResendPhone(p) \/ ResendEmail(p) \/ OpenLink(p) \/ UpdateProfile(p)
  PROVE  ProofInv'
<1>1. /\ Others(p) /\ UNCHANGED <<store, shared, codes>> /\ job[p].at = "idle"
      /\ job'[p].at \notin {"insert", "bonus", "channel"}
      /\ job'[p].at = "right" => job'[p].box.kind = "link"
  <2>1. CASE Register(p)
    BY <2>1, RegisterEffect DEF Register, Begin, Enter, At, history
  <2>2. CASE ResendPhone(p) \/ ResendEmail(p) \/ OpenLink(p) \/ UpdateProfile(p)
    BY <2>2, ResendPhoneEffect, ResendEmailEffect, OpenLinkEffect, UpdateEffect, IdleIsJob
       DEF history, At
  <2> QED
    BY <2>1, <2>2
<1>2. \A c \in CodeNumbers : /\ Registering(p, c)' <=> Registering(p, c)
                             /\ Inserting(p, c)' => Inserting(p, c)
                             /\ ~Redeeming(p, c)'
  BY <1>1 DEF Registering, Inserting, Redeeming, At
<1> QED
  BY <1>1, <1>2, UnchangedCodes, ProofReads

LEMMA PresentProof ==
  ASSUME TypeInv, ProofInv, NEW p \in Slots, VerifyPhone(p) \/ VerifyEmailOtp(p) \/ FindPending(p)
  PROVE  ProofInv'
<1>1. CASE Dismissed(p)
  <2>1. \A c \in CodeNumbers : /\ Registering(p, c)' <=> Registering(p, c)
                               /\ Inserting(p, c)' => Inserting(p, c)
                               /\ ~Redeeming(p, c)'
    BY <1>1 DEF Dismissed, Registering, Inserting, Redeeming, At
  <2> QED
    BY <1>1, <2>1, UnchangedCodes, ProofReads DEF Dismissed
<1>2. ASSUME NEW a \in Accounts \cup {"none"}, NEW n \in Numbers \cup {"none"}, NEW b \in Boxes,
             Presents(p, a, n, b)
      PROVE  ProofInv'
  <2>1. /\ UNCHANGED <<store, shared>> /\ SameCodes /\ Others(p)
        /\ job[p].at \in {"idle", "pending"} /\ job'[p].at \in {"idle", "right", "wrong"}
    BY <1>2, IdleIsJob DEF Presents, AfterCheck, Compared
  <2>2. At(p, "right")' => job'[p].box = b /\ job'[p].code = boxes[b].code
    BY <1>2, IdleIsJob DEF Presents, AfterCheck, Compared, At
  <2>3. b.kind = "pending" => \E m \in Numbers : b = Pending(m)
    BY BoxKinds
  <2>4. \A c \in CodeNumbers : Spent(c) => ~Redeeming(p, c)'
    BY <2>2, <2>3 DEF Redeeming, Spent, At
  <2>5. \A c \in CodeNumbers : /\ Registering(p, c)' <=> Registering(p, c)
                               /\ Inserting(p, c)' => Inserting(p, c)
    BY <2>1 DEF Registering, Inserting, At
  <2> QED
    BY <2>1, <2>4, <2>5, ProofReads
<1> QED
  BY <1>1, <1>2, PresentEffect

LEMMA BonusProof ==
  ASSUME TypeInv, ProofInv, NEW p \in Slots, GrantBonus(p)
  PROVE  ProofInv'
<1>1. /\ Others(p) /\ job'[p].at = "channel" /\ job[p].at = "bonus" /\ job'[p].code = job[p].code
      /\ UNCHANGED <<users, boxes, proofs, codes, shared>>
  BY BonusEffect DEF GrantBonus, history
<1>2. \A c \in CodeNumbers : /\ Registering(p, c)' <=> Registering(p, c)
                             /\ Inserting(p, c)' => Inserting(p, c)
                             /\ ~Redeeming(p, c)'
  BY <1>1 DEF Registering, Inserting, Redeeming, At
<1>3. \A n \in Numbers : /\ proofs'[n].code \in {0, proofs[n].code}
                         /\ boxes'[Pending(n)].code \in {0, boxes[Pending(n)].code}
                         /\ Gone(n) => Gone(n)'
  BY <1>1 DEF Gone
<1>4. CodeNumbers' = CodeNumbers /\ Registered' = Registered /\ OthersOn(p)
  BY <1>1, OthersGoOn DEF CodeNumbers, Registered
<1> QED
  BY <1>1, <1>2, <1>3, <1>4, ProofStep

\* Reading a proof that nobody else has in hand: it has opened no account, for
\* then it would be with its registrar, or spent.
LEMMA ReadsFresh ==
  ASSUME TypeInv, ProofInv, NEW p \in Slots, NEW n \in Numbers, NEW c \in CodeNumbers \ shared,
         proofs[n].code = c, \A q \in Slots \ {p} : ~Opening(q, c), ~Registering(p, c)
  PROVE  ~Opened(c)
<1>1. \A q \in Slots : ~Registering(q, c)
  BY DEF Opening, Registering
<1>2. ~Spent(c)
  BY DEF Spent
<1> QED
  BY <1>1, <1>2 DEF ProofInv, CodeProof

LEMMA ReadProofProof ==
  ASSUME TypeInv, ProofInv, NEW p \in Slots, ReadProof(p)
  PROVE  ProofInv'
<1>0. PICK c, n : c = job'[p].code /\ n = job[p].number
  OBVIOUS
<1>1. /\ Others(p) /\ job'[p].at = "insert" /\ n \in Numbers /\ (c = 0 \/ c = proofs[n].code)
      /\ shared' = IF c # 0 /\ \E q \in Slots \ {p} : Opening(q, c) THEN shared \cup {c} ELSE shared
  BY <1>0, ReadProofEffect
<1>2. At(p, "proof") /\ UNCHANGED <<users, boxes, proofs, codes>>
  BY DEF ReadProof, store
<1>3. CodeNumbers' = CodeNumbers /\ Registered' = Registered /\ OthersOn(p) /\ shared \subseteq shared'
  BY <1>1, <1>2, OthersGoOn DEF CodeNumbers, Registered
<1>4. OpenedOnce'
  BY <1>2, <1>3 DEF OpenedOnce, ProofInv
<1>5. \A d \in CodeNumbers : ~Registering(p, d) /\ ~Registering(p, d)' /\ ~Redeeming(p, d)'
                             /\ (Inserting(p, d)' => d = c) /\ (Opened(d)' <=> Opened(d))
  BY <1>0, <1>1, <1>2, <1>3 DEF Registering, Redeeming, Inserting, At, Opened
<1>6. ASSUME NEW d \in CodeNumbers \ shared', d # c PROVE CodeProof(d)'
  <2>1. CodeProof(d)
    BY <1>3 DEF ProofInv
  <2>2. ~Inserting(p, d)' /\ d \in CodeNumbers
    BY <1>5, <1>6
  <2>3. \A m \in Numbers :
          /\ proofs'[m].code = d => proofs[m].code = d \/ ~Spent(d) \/ ~Opened(d)
          /\ boxes'[Pending(m)].code = d => boxes[Pending(m)].code = d
    BY <1>2
  <2>4. \A m \in Numbers : Gone(m) => Gone(m)'
    BY <1>2 DEF Gone
  <2> QED
    BY <1>3, <1>5, <2>1, <2>2, <2>3, <2>4, ProofFrame
<1>7. ASSUME c \in CodeNumbers \ shared' PROVE CodeProof(c)'
  <2>1. c # 0 /\ c \in CodeNumbers \ shared
    BY <1>3, <1>7, CodesAre
  <2>2. \A q \in Slots \ {p} : ~Opening(q, c)
    BY <1>1, <1>7, <2>1
  <2>3. ~Opened(c)
    BY <1>1, <1>5, <2>1, <2>2, ReadsFresh
  <2>4. \A q \in Slots \ {p} : ~Opening(q, c)'
    <3> SUFFICES ASSUME NEW q \in Slots \ {p} PROVE ~Opening(q, c)'
      OBVIOUS
    <3>1. Kept(q)
      BY <1>3 DEF OthersOn
    <3> QED
      BY <2>2, <3>1, OthersOpen
  <2>5. ~Opened(c)'
    BY <1>5, <2>1, <2>3
  <2> QED
    BY <2>4, <2>5 DEF CodeProof
<1> QED
  BY <1>3, <1>4, <1>6, <1>7 DEF ProofInv

\* The registrar whose code is not shared was the only one to have it in hand.
LEMMA InsertProof ==
  ASSUME TypeInv, ProofInv, NEW p \in Slots, InsertUser(p)
  PROVE  ProofInv'
<1>0. PICK a, n, c : a = job[p].account /\ n = job[p].number /\ c = job[p].code
  OBVIOUS
<1> DEFINE user == [phone |-> n, verified |-> c # 0, emailed |-> FALSE, proof |-> c, opened |-> c]
<1>1. /\ Others(p) /\ a \in Accounts /\ c \in 0..Len(codes)
      /\ \/ users' = users /\ job'[p] = Idle
         \/ a \notin Registered /\ UserAt(a, user) /\ job'[p].at = "bonus" /\ job'[p].code = c
  BY <1>0, InsertEffect
<1>2. At(p, "insert") /\ UNCHANGED <<boxes, proofs, codes, shared>>
  BY DEF InsertUser, history
<1>3. CodeNumbers' = CodeNumbers /\ OthersOn(p)
  BY <1>1, <1>2, OthersGoOn DEF CodeNumbers
<1>4. \A m \in Numbers : /\ proofs'[m].code \in {0, proofs[m].code}
                         /\ boxes'[Pending(m)].code \in {0, boxes[Pending(m)].code}
                         /\ Gone(m) => Gone(m)'
  BY <1>2 DEF Gone
<1>5. CASE users' = users /\ job'[p] = Idle
  <2>1. \A d \in CodeNumbers : /\ Registering(p, d)' <=> Registering(p, d)
                               /\ ~Inserting(p, d)' /\ ~Redeeming(p, d)'
    BY <1>2, <1>5, IdleIsJob DEF Registering, Inserting, Redeeming, At
  <2>2. Registered' = Registered
    BY <1>5 DEF Registered
  <2> QED
    BY <1>2, <1>3, <1>4, <1>5, <2>1, <2>2, ProofStep
<1>6. CASE a \notin Registered /\ UserAt(a, user) /\ job'[p].at = "bonus" /\ job'[p].code = c
  <2>1. /\ users'[a].opened = c /\ Registered' = Registered \cup {a}
        /\ \A d \in Registered : users'[d] = users[d] /\ d # a
    BY <1>6, NoBoxOfNumber DEF UserAt
  <2>2. \A d \in CodeNumbers : /\ Registering(p, d)' <=> d = c
                               /\ ~Registering(p, d) /\ ~Inserting(p, d)' /\ ~Redeeming(p, d)'
                               /\ Inserting(p, d) <=> d = c
    BY <1>0, <1>2, <1>6 DEF Registering, Inserting, Redeeming, At
  <2>3. \A d \in CodeNumbers : Opened(d)' <=> Opened(d) \/ d = c
    BY <2>1 DEF Opened
  <2> HIDE DEF user
  <2>4. c # 0 /\ c \notin shared => c \in CodeNumbers /\ ~Opened(c)
    <3>1. c # 0 => c \in CodeNumbers
      BY <1>1, CodesAre DEF CodeNumbers
    <3>2. ASSUME c \in CodeNumbers, c \notin shared PROVE ~Opened(c)
      BY <2>2, <3>2 DEF ProofInv, CodeProof
    <3> QED
      BY <3>1, <3>2
  <2>5. OpenedOnce'
    <3>1. c # 0 /\ c \notin shared => \A d \in Registered : users[d].opened # c
      BY <2>4 DEF Opened
    <3> QED
      BY <1>2, <2>1, <3>1 DEF OpenedOnce, ProofInv
  <2>6. ASSUME NEW d \in CodeNumbers \ shared', d # c PROVE CodeProof(d)'
    <3>1. CodeProof(d) /\ (Registering(p, d)' <=> Registering(p, d)) /\ ~Inserting(p, d)'
          /\ (Opened(d)' => Opened(d)) /\ ~Redeeming(p, d)'
      BY <1>2, <2>2, <2>3, <2>6 DEF ProofInv
    <3>2. \A m \in Numbers :
            /\ proofs'[m].code = d => proofs[m].code = d \/ ~Spent(d) \/ ~Opened(d)
            /\ boxes'[Pending(m)].code = d => boxes[Pending(m)].code = d
      BY <1>2
    <3> QED
      BY <1>3, <1>4, <3>1, <3>2, ProofFrame
  <2>7. ASSUME c \in CodeNumbers \ shared' PROVE CodeProof(c)'
    <3>1. c \in CodeNumbers \ shared /\ CodeProof(c) /\ Inserting(p, c)
      BY <1>2, <2>2, <2>7 DEF ProofInv
    <3>2. \A q \in Slots \ {p} : ~Opening(q, c)
      BY <3>1 DEF CodeProof, Inserting, Opening, At
    <3>3. \A q \in Slots \ {p} : ~Opening(q, c)' /\ ~Inserting(q, c)'
      <4> SUFFICES ASSUME NEW q \in Slots \ {p} PROVE ~Opening(q, c)' /\ ~Inserting(q, c)'
        OBVIOUS
      <4>1. job'[q].at = job[q].at /\ job'[q].code = job[q].code
        BY <1>3 DEF OthersOn, Kept
      <4> QED
        BY <3>2, <4>1 DEF Opening, Inserting, At
    <3>4. ~Inserting(p, c)' /\ Registering(p, c)'
      BY <2>2, <3>1
    <3> QED
      BY <3>3, <3>4 DEF CodeProof
  <2> QED
    BY <1>2, <1>3, <2>5, <2>6, <2>7 DEF ProofInv
<1> QED
  BY <1>1, <1>5, <1>6

\* A registrar that dies leaves its code behind, shared.
LEMMA EndProof ==
  ASSUME TypeInv, ProofInv, NEW p \in Slots, CountWrong(p) \/ Die(p)
  PROVE  ProofInv'
<1>1. Others(p) /\ SameCodes /\ job'[p].at = "idle"
  BY CountEffect, DieEffect, DoneEffect, UnchangedCodes, IdleIsJob
<1>2. /\ UNCHANGED <<users, proofs>> /\ shared \subseteq shared'
      /\ At(p, "wrong") \/ shared' = IF job[p].at \in {"bonus", "channel"} /\ job[p].code # 0
                                     THEN shared \cup {job[p].code} ELSE shared
  BY CountEffect, DieEffect DEF store
<1>3. \A n \in Numbers : boxes'[Pending(n)].code = boxes[Pending(n)].code
                         /\ (Gone(n) => Gone(n)')
  <2>1. CASE Die(p)
    BY <1>2, <2>1, DieEffect DEF store, Gone
  <2>2. CASE CountWrong(p)
    <3>1. \A n \in Numbers : Pending(n) \in Boxes
      BY BoxesAre
    <3>2. \A n \in Numbers : boxes'[Pending(n)].code = boxes[Pending(n)].code
      BY <2>2, <3>1, CountEffect
    <3>3. \A n \in Numbers : boxes[Pending(n)] = Empty => boxes'[Pending(n)] = Empty
      <4> SUFFICES ASSUME NEW n \in Numbers, boxes[Pending(n)] = Empty
                   PROVE  boxes'[Pending(n)] = Empty
        OBVIOUS
      <4>1. PICK b \in Boxes : b = job[p].box
        BY <2>2, CountEffect
      <4>2. boxes \in [Boxes -> BoxType] /\ boxes' = [boxes EXCEPT ![b].attempts =
                                                        IF boxes[b].code = 0 THEN 0 ELSE @ + 1]
        BY <2>2, <4>1 DEF CountWrong, TypeInv, StoreInv
      <4>3. CASE b = Pending(n)
        <5>1. boxes'[b] = [Empty EXCEPT !.attempts = 0]
          BY <4>2, <4>3 DEF Empty
        <5> QED
          BY <4>3, <5>1 DEF Empty
      <4>4. CASE b # Pending(n)
        BY <3>1, <4>2, <4>4
      <4> QED
        BY <4>3, <4>4
    <3> QED
      BY <1>2, <3>2, <3>3 DEF Gone
  <2> QED
    BY <2>1, <2>2
<1>4. \A c \in CodeNumbers \ shared' : ~Registering(p, c) /\ ~Registering(p, c)'
                                       /\ ~Inserting(p, c)' /\ ~Redeeming(p, c)'
  BY <1>1, <1>2, CodesAre DEF Registering, Inserting, Redeeming, At
<1>5. CodeNumbers' = CodeNumbers /\ Registered' = Registered /\ OthersOn(p)
  BY <1>1, <1>2, OthersGoOn DEF SameCodes, CodeNumbers, Registered
<1> QED
  BY <1>2, <1>3, <1>4, <1>5, ProofStep

\* Claimed, the code is spent: it is of one number, and that number has nothing
\* left to compare it with.
LEMMA ClaimProof ==
  ASSUME TypeInv, ProofInv, NEW p \in Slots, Channel(p), ClaimPendingPhone(p)
  PROVE  ProofInv'
<1>0. PICK c, n : c = job[p].code /\ n = job[p].number
  OBVIOUS
<1>1. /\ n \in Numbers /\ proofs'[n] = NoProof /\ boxes'[Pending(n)] = Empty
      /\ \A m \in Numbers \ {n} : proofs'[m] = proofs[m]
      /\ \A b \in Boxes \ {Pending(n)} : boxes'[b] = boxes[b]
      /\ Done(p) /\ At(p, "channel") /\ c # 0
      /\ UNCHANGED <<users, codes, shared>>
  BY <1>0, ClaimEffect
<1>2. Others(p) /\ job'[p] = Idle /\ OthersOn(p) /\ CodeNumbers' = CodeNumbers
      /\ Registered' = Registered
  BY <1>1, DoneEffect, OthersGoOn DEF CodeNumbers, Registered
<1>3. c \in CodeNumbers /\ Pending(n) \in codes[c].boxes
  BY <1>0, <1>1 DEF TypeInv, JobsInv, InHand, At
<1>4. \A m \in Numbers : /\ proofs'[m] = NoProof \/ (m # n /\ proofs'[m] = proofs[m])
                         /\ boxes'[Pending(m)] = Empty \/ (m # n /\ boxes'[Pending(m)] = boxes[Pending(m)])
                         /\ Gone(m) => Gone(m)'
  BY <1>1, BoxesAre DEF Gone
<1>5. \A d \in CodeNumbers : /\ Registering(p, d) <=> d = c
                             /\ ~Registering(p, d)' /\ ~Inserting(p, d)' /\ ~Redeeming(p, d)'
                             /\ Opened(d)' <=> Opened(d)
  BY <1>0, <1>1, <1>2, IdleIsJob DEF Registering, Inserting, Redeeming, At, Opened
<1>6. OpenedOnce'
  BY <1>1, <1>2 DEF OpenedOnce, ProofInv
<1>7. ASSUME NEW d \in CodeNumbers \ shared', d # c PROVE CodeProof(d)'
  <2>1. CodeProof(d) /\ d # 0
    BY <1>1, CodesAre DEF ProofInv
  <2>2. \A m \in Numbers :
          /\ proofs'[m].code = d => proofs[m].code = d \/ ~Spent(d) \/ ~Opened(d)
          /\ boxes'[Pending(m)].code = d => boxes[Pending(m)].code = d
    BY <1>4, <2>1, EmptyIsBox
  <2> QED
    BY <1>2, <1>4, <1>5, <1>7, <2>1, <2>2, ProofFrame
<1>8. ASSUME c \notin shared' PROVE CodeProof(c)'
  <2>1. CodeProof(c) /\ Registering(p, c)
    BY <1>1, <1>3, <1>5, <1>8 DEF ProofInv
  <2>2. \A q \in Slots \ {p} : ~Opening(q, c)' /\ ~Inserting(q, c)' /\ ~Registering(q, c)'
    <3> SUFFICES ASSUME NEW q \in Slots \ {p}
                 PROVE  ~Opening(q, c)' /\ ~Inserting(q, c)' /\ ~Registering(q, c)'
      OBVIOUS
    <3>1. ~Opening(q, c)
      BY <2>1, OpeningIs DEF CodeProof
    <3>2. Kept(q)
      BY <1>2 DEF OthersOn
    <3> QED
      BY <3>1, <3>2, OthersOpen, OpeningIs
  <2>3. \A m \in Numbers : proofs'[m].code # c /\ boxes'[Pending(m)].code # c
    <3>1. \A m \in Numbers : Pending(m) \in codes[c].boxes => m = n
      BY <1>1, <1>3 DEF TypeInv, CodesInv
    <3>2. \A m \in Numbers : /\ proofs[m].code = c => m = n
                             /\ boxes[Pending(m)].code = c => m = n
      BY <1>1, <3>1, BoxesAre DEF TypeInv, StoreInv
    <3> QED
      BY <1>1, <1>4, <3>2, EmptyIsBox
  <2>4. \A q \in Slots : Redeeming(q, c)' => Gone(job[q].number)' /\ job'[q].number = job[q].number
    <3> SUFFICES ASSUME NEW q \in Slots, Redeeming(q, c)'
                 PROVE  Gone(job[q].number)' /\ job'[q].number = job[q].number
      OBVIOUS
    <3>1. q # p
      BY <1>3, <1>5
    <3>2. Kept(q)
      BY <1>2, <3>1 DEF OthersOn
    <3>3. Redeeming(q, c) /\ job'[q].number = job[q].number
      BY <3>1, <3>2, OthersOpen DEF Kept
    <3>4. /\ job[q].box \in codes[c].boxes /\ job[q].box \in Boxes /\ job[q].box.kind = "pending"
          /\ job[q].number = job[q].box.of /\ job[q].number \in Numbers
      BY <3>3 DEF Redeeming, At, TypeInv, JobsInv, InHand
    <3>5. job[q].box = Pending(job[q].number)
      BY <3>4, BoxKinds
    <3>6. job[q].number = n
      BY <1>1, <1>3, <3>4, <3>5 DEF TypeInv, CodesInv
    <3> QED
      BY <1>1, <3>3, <3>6 DEF Gone
  <2>5. \A q \in Slots : (Redeeming(q, c) => job[q].stale \/ Gone(job[q].number))'
    BY <2>4 DEF Gone
  <2>6. \A q \in Slots : ~Inserting(q, c)' /\ ~Registering(q, c)'
    BY <1>3, <1>5, <2>2
  <2>7. Spent(c)'
    BY <2>3, <2>5, <2>6 DEF Spent
  <2>8. \A q, r \in Slots : Opening(q, c)' /\ Opening(r, c)' => q = r
    BY <2>2
  <2> QED
    BY <2>6, <2>7, <2>8 DEF CodeProof
<1> QED
  BY <1>1, <1>2, <1>6, <1>7, <1>8 DEF ProofInv

LEMMA SaveProof ==
  ASSUME TypeInv, ProofInv, NEW p \in Slots, SaveProfile(p)
  PROVE  ProofInv'
<1>1. At(p, "save") /\ job'[p] = Idle /\ OthersOn(p) /\ UNCHANGED <<proofs, codes, shared>>
  <2>1. CASE Unsaved(p)
    BY <2>1, DoneEffect, OthersGoOn DEF Unsaved, store
  <2>2. CASE \E a \in Registered, n \in Numbers : Saved(p, a, n)
    BY <2>2 DEF Saved, OthersOn
  <2> QED
    BY <2>1, <2>2, SaveEffect
<1>2. /\ Registered' = Registered /\ \A a \in Registered : users'[a].opened = users[a].opened
      /\ \A n \in Numbers : boxes'[Pending(n)] = boxes[Pending(n)]
  <2>1. CASE Unsaved(p)
    BY <2>1 DEF Unsaved, store, Registered
  <2>2. ASSUME NEW a \in Registered, NEW n \in Numbers, Saved(p, a, n)
        PROVE  /\ Registered' = Registered
               /\ \A d \in Registered : users'[d].opened = users[d].opened
               /\ \A m \in Numbers : boxes'[Pending(m)] = boxes[Pending(m)]
    <3>1. PICK user : user = [users[a] EXCEPT !.phone = n,
                                             !.verified = ~job[p].changed /\ users[a].verified]
      OBVIOUS
    <3>2. UserAt(a, user) /\ \A b \in Boxes : boxes'[b] = boxes[b] \/ b = Phone(a)
      BY <2>2, <3>1 DEF Saved
    <3>3. a \in Accounts /\ user.opened = users[a].opened
      BY <3>1, NoBoxOfNumber DEF UserType
    <3> QED
      BY <3>2, <3>3, BoxesAre, NoBoxOfNumber DEF UserAt
  <2> QED
    BY <2>1, <2>2, SaveEffect
<1>3. \A c \in CodeNumbers : /\ Registering(p, c)' <=> Registering(p, c)
                             /\ ~Inserting(p, c)' /\ ~Redeeming(p, c)'
  BY <1>1, IdleIsJob DEF Registering, Inserting, Redeeming, At
<1>4. \A n \in Numbers : /\ proofs'[n].code \in {0, proofs[n].code}
                         /\ boxes'[Pending(n)].code \in {0, boxes[Pending(n)].code}
                         /\ Gone(n) => Gone(n)'
  BY <1>1, <1>2 DEF Gone
<1>5. CodeNumbers' = CodeNumbers
  BY <1>1 DEF CodeNumbers
<1> QED
  BY <1>1, <1>2, <1>3, <1>4, <1>5, ProofStep

\* A spent code that is honoured brings a proof back only if a newer code has
\* replaced what was compared; then it reopens, and is shared.
LEMMA HonourPendingProof ==
  ASSUME TypeInv, ProofInv, NEW p \in Slots, NEW n \in Numbers, NEW c \in CodeNumbers,
         AfterPending(p, n, c)
  PROVE  ProofInv'
<1>1. /\ job[p].at = "right" /\ job[p].box = Pending(n) /\ job[p].number = n /\ job[p].code = c
      /\ Done(p) /\ UNCHANGED <<users, codes>>
      /\ boxes'[Pending(n)] = Empty /\ \A b \in Boxes \ {Pending(n)} : boxes'[b] = boxes[b]
      /\ \A m \in Numbers \ {n} : proofs'[m] = proofs[m]
      /\ \/ Gone(n) /\ proofs'[n] = proofs[n] /\ shared' = shared
         \/ /\ ~Gone(n) /\ proofs'[n].code = c
            /\ shared' = IF Reopens(p) THEN shared \cup {c} ELSE shared
  BY DEF AfterPending
<1>2. Others(p) /\ job'[p] = Idle /\ OthersOn(p) /\ CodeNumbers' = CodeNumbers
      /\ Registered' = Registered /\ shared \subseteq shared'
  BY <1>1, DoneEffect, OthersGoOn DEF CodeNumbers, Registered
<1>3. OpenedOnce'
  BY <1>1, <1>2 DEF OpenedOnce, ProofInv
<1>4. \A m \in Numbers : Gone(m) => Gone(m)'
  BY <1>1, BoxesAre DEF Gone
<1>5. \A m \in Numbers : boxes'[Pending(m)].code \in {0, boxes[Pending(m)].code}
  BY <1>1, BoxesAre, EmptyIsBox
<1>6. ASSUME NEW d \in CodeNumbers \ shared' PROVE CodeProof(d)'
  <2>1. CodeProof(d) /\ d # 0
    BY <1>2, <1>6, CodesAre DEF ProofInv
  <2>2. /\ ~Registering(p, d) /\ ~Registering(p, d)' /\ ~Inserting(p, d)' /\ ~Redeeming(p, d)'
        /\ Opened(d)' <=> Opened(d)
    BY <1>1, <1>2, IdleIsJob DEF Registering, Inserting, Redeeming, At, Opened
  <2>3. d = c /\ ~Gone(n) => ~Spent(d) \/ ~Opened(d)
    <3> SUFFICES ASSUME d = c, ~Gone(n), Spent(d), Opened(d) PROVE FALSE
      OBVIOUS
    <3>1. Redeeming(p, c)
      BY <1>1, BoxesAre DEF Redeeming, At
    <3>2. job[p].stale
      BY <1>1, <3>1 DEF Spent
    <3>3. Reopens(p)
      BY <1>1, <3>2 DEF Reopens, Opened
    <3> QED
      BY <1>1, <1>6, <3>3
  <2>4. \A m \in Numbers :
          /\ proofs'[m].code = d => proofs[m].code = d \/ ~Spent(d) \/ ~Opened(d)
          /\ boxes'[Pending(m)].code = d => boxes[Pending(m)].code = d
    <3> SUFFICES ASSUME NEW m \in Numbers
                 PROVE  /\ proofs'[m].code = d => proofs[m].code = d \/ ~Spent(d) \/ ~Opened(d)
                        /\ boxes'[Pending(m)].code = d => boxes[Pending(m)].code = d
      OBVIOUS
    <3>1. CASE m # n \/ Gone(n)
      BY <1>1, <1>5, <2>1, <3>1
    <3>2. CASE m = n /\ ~Gone(n)
      BY <1>1, <1>5, <2>1, <2>3, <3>2
    <3> QED
      BY <3>1, <3>2
  <2> QED
    BY <1>2, <1>4, <2>1, <2>2, <2>4, ProofFrame
<1> QED
  BY <1>2, <1>3, <1>6 DEF ProofInv

LEMMA HonourProof ==
  ASSUME TypeInv, ProofInv, NEW p \in Slots, Honour(p)
  PROVE  ProofInv'
<1>1. ASSUME NEW n \in Numbers, NEW c \in CodeNumbers, AfterPending(p, n, c) PROVE ProofInv'
  BY <1>1, HonourPendingProof
<1>2. CASE \/ \E a \in Registered, c \in CodeNumbers : AfterPhone(p, a, c)
           \/ \E a \in Registered : AfterMail(p, a)
  <2>1. job[p].at = "right" /\ Done(p) /\ UNCHANGED <<codes, proofs, shared>>
    BY <1>2 DEF AfterPhone, AfterMail
  <2>2. /\ Registered' = Registered /\ \A a \in Registered : users'[a].opened = users[a].opened
        /\ \A n \in Numbers : boxes'[Pending(n)] = boxes[Pending(n)]
    <3>1. ASSUME NEW a \in Registered, NEW user, UserAt(a, user), user.opened = users[a].opened
          PROVE  Registered' = Registered /\ \A d \in Registered : users'[d].opened = users[d].opened
      BY <3>1, NoBoxOfNumber DEF UserAt
    <3>2. ASSUME NEW a \in Registered, NEW c \in CodeNumbers, AfterPhone(p, a, c)
          PROVE  /\ Registered' = Registered
                 /\ \A d \in Registered : users'[d].opened = users[d].opened
                 /\ \A n \in Numbers : boxes'[Pending(n)] = boxes[Pending(n)]
      <4>1. PICK user : user = [users[a] EXCEPT !.verified = TRUE, !.proof = c]
        OBVIOUS
      <4>2. UserAt(a, user) /\ \A b \in Boxes \ {Phone(a)} : boxes'[b] = boxes[b]
        BY <3>2, <4>1 DEF AfterPhone
      <4>3. a \in Accounts /\ user.opened = users[a].opened
        BY <4>1, NoBoxOfNumber DEF UserType
      <4> QED
        BY <3>1, <4>2, <4>3, BoxesAre
    <3>3. ASSUME NEW a \in Registered, AfterMail(p, a)
          PROVE  /\ Registered' = Registered
                 /\ \A d \in Registered : users'[d].opened = users[d].opened
                 /\ \A n \in Numbers : boxes'[Pending(n)] = boxes[Pending(n)]
      <4>1. PICK user : user = [users[a] EXCEPT !.emailed = TRUE]
        OBVIOUS
      <4>2. /\ UserAt(a, user)
            /\ \A b \in Boxes : boxes'[b] = IF b \in Mail(a) THEN Empty ELSE boxes[b]
        BY <3>3, <4>1 DEF AfterMail
      <4>3. a \in Accounts /\ user.opened = users[a].opened
        BY <4>1, NoBoxOfNumber DEF UserType
      <4>4. \A n \in Numbers : Pending(n) \in Boxes /\ Pending(n) \notin Mail(a)
        BY <4>3, BoxesAre
      <4> QED
        BY <3>1, <4>2, <4>3, <4>4
    <3> QED
      BY <1>2, <3>2, <3>3
  <2>3. Others(p) /\ job'[p] = Idle /\ OthersOn(p)
    BY <2>1, DoneEffect, OthersGoOn
  <2>4. \A c \in CodeNumbers : /\ Registering(p, c)' <=> Registering(p, c)
                               /\ ~Inserting(p, c)' /\ ~Redeeming(p, c)'
    BY <2>1, <2>3, IdleIsJob DEF Registering, Inserting, Redeeming, At
  <2>5. \A n \in Numbers : /\ proofs'[n].code \in {0, proofs[n].code}
                           /\ boxes'[Pending(n)].code \in {0, boxes[Pending(n)].code}
                           /\ Gone(n) => Gone(n)'
    BY <2>1, <2>2 DEF Gone
  <2>6. CodeNumbers' = CodeNumbers
    BY <2>1 DEF CodeNumbers
  <2> QED
    BY <2>1, <2>2, <2>3, <2>4, <2>5, <2>6, ProofStep
<1> QED
  BY <1>1, <1>2, HonourEffect

\* A new code makes stale whoever compared the one whose proof it removes.
LEMMA NewCodeProof ==
  ASSUME TypeInv, ProofInv, NEW p \in Slots, NEW bs, NEW to, AfterIssue(p, bs, to),
         job[p].at = "issue" \/ (At(p, "channel") /\ job[p].code = 0)
  PROVE  ProofInv'
<1>0. PICK new : new = Len(codes) + 1
  OBVIOUS
<1>1. /\ CodeNumbers' = CodeNumbers \cup {new} /\ UNCHANGED <<users, shared>>
      /\ \A b \in Boxes : boxes'[b].code = new \/ (b \notin bs /\ boxes'[b] = boxes[b])
      /\ \A n \in Numbers : proofs'[n] = IF Pending(n) \in bs THEN NoProof ELSE proofs[n]
      /\ job'[p] = Idle /\ Registered' = Registered
      /\ \A q \in Slots \ {p} :
           Kept(q) /\ (job'[q].stale <=> job[q].stale \/ \E b \in bs : Fits(b, q))
  BY <1>0 DEF AfterIssue, Registered
<1>2. new \notin CodeNumbers /\ new # 0
  BY <1>0, CodesAre DEF CodeNumbers
<1>3. OpenedOnce'
  BY <1>1 DEF OpenedOnce, ProofInv
<1>4. ASSUME NEW c \in CodeNumbers \ shared PROVE CodeProof(c)'
  <2>1. c # 0 /\ c # new /\ CodeProof(c)
    BY <1>2, CodesAre DEF ProofInv
  <2>2. /\ ~Registering(p, c) /\ ~Registering(p, c)' /\ ~Inserting(p, c)' /\ ~Redeeming(p, c)'
        /\ Opened(c)' <=> Opened(c)
    BY <1>1, <2>1, IdleIsJob DEF Registering, Inserting, Redeeming, At, Opened
  <2>3. OpeningKept(c)
    <3> SUFFICES ASSUME NEW q \in Slots, q # p
                 PROVE  (Inserting(q, c)' => Inserting(q, c)) /\ (Registering(q, c)' <=> Registering(q, c))
      BY <2>2 DEF OpeningKept
    <3>1. Kept(q)
      BY <1>1
    <3> QED
      BY <3>1, OthersOpen
  <2>4. RedeemKept(c)
    <3> SUFFICES ASSUME NEW q \in Slots, Redeeming(q, c)'
                 PROVE  /\ Redeeming(q, c) /\ job'[q].number = job[q].number
                        /\ job[q].stale => job'[q].stale
      BY DEF RedeemKept
    <3>1. q # p
      BY <2>2
    <3>2. Kept(q) /\ (job[q].stale => job'[q].stale)
      BY <1>1, <3>1
    <3> QED
      BY <3>1, <3>2, OthersOpen DEF Kept
  <2>5. \A n \in Numbers : /\ proofs'[n].code = c => proofs[n].code = c
                           /\ boxes'[Pending(n)].code = c => boxes[Pending(n)].code = c
    BY <1>1, <2>1, EmptyIsBox, BoxesAre
  <2>6. \A n \in Numbers : Gone(n) =>
          Gone(n)' \/ \A q \in Slots : Redeeming(q, c)' /\ job'[q].number = n => job'[q].stale
    <3> SUFFICES ASSUME NEW n \in Numbers, Gone(n), ~Gone(n)',
                        NEW q \in Slots, Redeeming(q, c)', job'[q].number = n
                 PROVE  job'[q].stale
      OBVIOUS
    <3>1. Pending(n) \in bs
      <4> SUFFICES ASSUME Pending(n) \notin bs PROVE FALSE
        OBVIOUS
      <4>1. Pending(n) \in Boxes
        BY BoxesAre
      <4>2. boxes'[Pending(n)] = boxes[Pending(n)]
        <5>1. \A b \in Boxes \ bs : boxes'[b] = boxes[b]
          BY DEF AfterIssue
        <5> QED
          BY <4>1, <5>1
      <4> QED
        BY <1>1, <4>2 DEF Gone
    <3>2. Redeeming(q, c) /\ job[q].number = n /\ q # p
      BY <2>2, <2>4 DEF RedeemKept
    <3>3. /\ job[q].box \in Boxes /\ job[q].box.kind = "pending" /\ job[q].number = job[q].box.of
      BY <3>2 DEF Redeeming, At, TypeInv, JobsInv, InHand
    <3>4. job[q].box = Pending(n)
      BY <3>2, <3>3, BoxKinds
    <3> QED
      BY <1>1, <3>1, <3>2, <3>4 DEF Fits, Redeeming, At
  <2>7. Opened(c) /\ Spent(c) => Spent(c)'
    BY <2>3, <2>4, <2>5, <2>6, SpentThrough
  <2> QED
    BY <2>1, <2>2, <2>3, <2>7, CodeProofThrough
<1>5. CodeProof(new)'
  <2>1. \A q \in Slots : ~Opening(q, new)' /\ ~Inserting(q, new)'
    <3> SUFFICES ASSUME NEW q \in Slots PROVE job'[q].code # new
      BY <1>1, <1>2, CodesAre DEF Opening, Inserting, At
    <3>1. job[q].code # new
      BY <1>2 DEF TypeInv, JobsInv, InHand
    <3> QED
      BY <1>1, <1>2, <3>1, IdleIsJob DEF Kept
  <2>2. ~Opened(new)'
    <3>1. \A a \in Registered : users[a].opened # new
      BY <1>0, NoBoxOfNumber, CodesAre
    <3> QED
      BY <1>1, <3>1 DEF Opened
  <2> QED
    BY <2>1, <2>2 DEF CodeProof
<1> QED
  BY <1>1, <1>3, <1>4, <1>5 DEF ProofInv

LEMMA StepProof == TypeInv /\ ProofInv /\ [Next]_vars => ProofInv'
<1> SUFFICES ASSUME TypeInv, ProofInv, [Next]_vars PROVE ProofInv'
  OBVIOUS
<1>1. CASE Tick \/ UNCHANGED vars
  <2>1. UNCHANGED <<users, boxes, proofs, codes, job, shared>>
    BY <1>1 DEF Tick, vars, store, history
  <2>2. CodeNumbers' = CodeNumbers /\ Registered' = Registered
    BY <2>1 DEF CodeNumbers, Registered
  <2>3. OpenedOnce'
    BY <2>1, <2>2 DEF OpenedOnce, ProofInv
  <2>4. ASSUME NEW c PROVE CodeProof(c) => CodeProof(c)'
    BY <2>1, <2>2 DEF CodeProof, Opening, Opened, Inserting, Registering, Redeeming, Spent, Gone, At
  <2> QED
    BY <2>1, <2>2, <2>3, <2>4 DEF ProofInv
<1>2. ASSUME NEW p \in Slots, Register(p) \/ ReadProof(p) \/ InsertUser(p) \/ GrantBonus(p)
      PROVE  ProofInv'
  BY <1>2, BeginProof, ReadProofProof, InsertProof, BonusProof
<1>3. ASSUME NEW p \in Slots, Channel(p) \/ IssueCode(p) PROVE ProofInv'
  <2>1. CASE Channel(p) /\ ClaimPendingPhone(p)
    BY <2>1, ClaimProof
  <2>2. CASE IssueCode(p) \/ (Channel(p) /\ ~ClaimPendingPhone(p))
    <3>1. job[p].at \in {"issue", "channel"}
      BY <2>2 DEF IssueCode, Channel, At
    <3> QED
      BY <2>2, <3>1, IssuedSomehow, NewCodeProof DEF At
  <2> QED
    BY <1>3, <2>1, <2>2
<1>4. ASSUME NEW p \in Slots, VerifyPhone(p) \/ VerifyEmailOtp(p) \/ FindPending(p) PROVE ProofInv'
  BY <1>4, PresentProof
<1>5. ASSUME NEW p \in Slots,
             \/ ResendPhone(p) \/ ResendEmail(p) \/ OpenLink(p) \/ UpdateProfile(p)
             \/ CountWrong(p) \/ Honour(p) \/ SaveProfile(p) \/ Die(p)
      PROVE  ProofInv'
  BY <1>5, BeginProof, EndProof, HonourProof, SaveProof
<1> QED
  BY <1>1, <1>2, <1>3, <1>4, <1>5 DEF Next

LEMMA InitProof == Init => ProofInv
<1> SUFFICES ASSUME Init PROVE ProofInv
  OBVIOUS
<1>1. Registered = {} /\ CodeNumbers = {}
  BY DEF Init, Registered, CodeNumbers
<1> QED
  BY <1>1 DEF ProofInv, OpenedOnce

------------------------------------------------------------------------------
(* An account is welcomed once.                                              *)
\* Steps at which no account is inserted and no bonus granted.
LEMMA Welcomes ==
  ASSUME TypeInv, NEW p \in Slots,
         \/ Register(p) \/ ReadProof(p) \/ Channel(p)
         \/ ResendPhone(p) \/ ResendEmail(p) \/ IssueCode(p)
         \/ VerifyPhone(p) \/ VerifyEmailOtp(p) \/ FindPending(p) \/ OpenLink(p)
         \/ CountWrong(p) \/ Honour(p) \/ UpdateProfile(p) \/ SaveProfile(p) \/ Die(p)
  PROVE  /\ \A q \in Slots \ {p} : Kept(q)
         /\ ~At(p, "bonus")' /\ welcomed' = welcomed /\ Registered \subseteq Registered'
<1>1. CASE Register(p) \/ ReadProof(p)
  BY <1>1, RegisterEffect, ReadProofEffect DEF Register, ReadProof, Others, At, store, Registered
<1>2. CASE Channel(p) \/ IssueCode(p)
  <2>1. CASE Channel(p) /\ ClaimPendingPhone(p)
    BY <2>1, ClaimEffect, DoneEffect, IdleIsJob DEF Others, At, Registered
  <2>2. CASE IssueCode(p) \/ (Channel(p) /\ ~ClaimPendingPhone(p))
    <3>1. PICK bs, to : AfterIssue(p, bs, to)
      BY <2>2, IssuedSomehow
    <3> QED
      BY <3>1, IdleIsJob DEF AfterIssue, At, Registered
  <2> QED
    BY <1>2, <2>1, <2>2
<1>3. CASE ResendPhone(p) \/ ResendEmail(p) \/ OpenLink(p) \/ UpdateProfile(p)
  BY <1>3, ResendPhoneEffect, ResendEmailEffect, OpenLinkEffect, UpdateEffect, IdleIsJob
     DEF Others, At, store, Registered
<1>4. CASE VerifyPhone(p) \/ VerifyEmailOtp(p) \/ FindPending(p)
  <2>1. CASE Dismissed(p)
    BY <2>1 DEF Dismissed, Others, At, store, Registered
  <2>2. ASSUME NEW a, NEW n, NEW b, Presents(p, a, n, b)
        PROVE  /\ \A q \in Slots \ {p} : Kept(q)
               /\ ~At(p, "bonus")' /\ welcomed' = welcomed /\ Registered \subseteq Registered'
    BY <2>2, IdleIsJob DEF Presents, AfterCheck, Compared, Others, At, store, Registered
  <2> QED
    BY <1>4, <2>1, <2>2, PresentEffect
<1>5. CASE CountWrong(p) \/ Die(p) \/ Honour(p)
  <2>1. Done(p) /\ welcomed' = welcomed
    BY <1>5, CountEffect, DieEffect DEF Honour, store
  <2>2. Registered \subseteq Registered'
    <3>1. CASE CountWrong(p) \/ Die(p)
      BY <3>1, CountEffect, DieEffect DEF store, Registered
    <3>2. CASE \E n \in Numbers, c \in CodeNumbers : AfterPending(p, n, c)
      BY <3>2 DEF AfterPending, Registered
    <3>3. CASE \E a \in Registered, c \in CodeNumbers : AfterPhone(p, a, c)
      BY <3>3 DEF AfterPhone, UserAt
    <3>4. CASE \E a \in Registered : AfterMail(p, a)
      BY <3>4 DEF AfterMail, UserAt
    <3> QED
      BY <1>5, <3>1, <3>2, <3>3, <3>4, HonourEffect
  <2> QED
    BY <2>1, <2>2, DoneEffect, IdleIsJob DEF Others, At
<1>6. CASE SaveProfile(p)
  <2>1. CASE Unsaved(p)
    BY <2>1, DoneEffect, IdleIsJob DEF Unsaved, Others, At, store, Registered
  <2>2. CASE \E a \in Registered, n \in Numbers : Saved(p, a, n)
    BY <2>2, IdleIsJob DEF Saved, At, UserAt
  <2> QED
    BY <1>6, <2>1, <2>2, SaveEffect
<1> QED
  BY <1>1, <1>2, <1>3, <1>4, <1>5, <1>6

LEMMA InsertWelcome ==
  ASSUME TypeInv, WelcomeInv, NEW p \in Slots, InsertUser(p)
  PROVE  WelcomeInv'
<1>0. PICK a, n, c : a = job[p].account /\ n = job[p].number /\ c = job[p].code
  OBVIOUS
<1>1. PICK user : user = [phone |-> n, verified |-> c # 0, emailed |-> FALSE, proof |-> c, opened |-> c]
  OBVIOUS
<1>2. /\ Others(p) /\ welcomed' = welcomed /\ a \in Accounts
      /\ \/ users' = users /\ job'[p] = Idle
         \/ a \notin Registered /\ UserAt(a, user) /\ job'[p].at = "bonus" /\ job'[p].account = a
  BY <1>0, <1>1, InsertEffect DEF InsertUser
<1>3. Registered \subseteq Registered'
  BY <1>2 DEF UserAt, Registered
<1>4. \A q \in Slots \ {p} : /\ At(q, "bonus")' <=> At(q, "bonus")
                               /\ job'[q].account = job[q].account
  BY <1>2 DEF Others, Kept, At
<1>5. At(p, "bonus")' => a \notin Registered /\ job'[p].account = a /\ welcomed[a] = 0
  BY <1>2, IdleIsJob DEF WelcomeInv, At
<1>6. \A q \in Slots : At(q, "bonus") => job[q].account \in Registered
  BY DEF TypeInv, JobsInv, InHand, At
<1>7. \A q \in Slots : At(q, "bonus")' => welcomed[job'[q].account] = 0
  BY <1>4, <1>5 DEF WelcomeInv
<1>8. \A q, r \in Slots :
        At(q, "bonus")' /\ At(r, "bonus")' /\ job'[q].account = job'[r].account => q = r
  BY <1>4, <1>5, <1>6 DEF WelcomeInv
<1> QED
  BY <1>2, <1>3, <1>7, <1>8 DEF WelcomeInv

LEMMA BonusWelcome ==
  ASSUME TypeInv, WelcomeInv, NEW p \in Slots, GrantBonus(p)
  PROVE  WelcomeInv'
<1>1. PICK a : a = job[p].account
  OBVIOUS
<1>2. /\ Others(p) /\ ~At(p, "bonus")' /\ At(p, "bonus") /\ a \in Registered /\ users' = users
      /\ welcomed' = [welcomed EXCEPT ![a] = @ + 1]
  BY <1>1, BonusEffect DEF GrantBonus, At
<1>3. Registered' = Registered /\ a \in Accounts /\ welcomed \in [Accounts -> Nat]
  BY <1>2, NoBoxOfNumber DEF Registered, TypeInv, StoreInv
<1>4. welcomed[a] = 0
  BY <1>1, <1>2 DEF WelcomeInv
<1>5. \A d \in Accounts : welcomed'[d] = IF d = a THEN 1 ELSE welcomed[d]
  BY <1>2, <1>3, <1>4
<1>6. \A q \in Slots : At(q, "bonus")' =>
        At(q, "bonus") /\ q # p /\ job'[q].account = job[q].account
  BY <1>2 DEF Others, Kept, At
<1>7. \A q \in Slots : At(q, "bonus")' => welcomed'[job'[q].account] = 0
  <2> SUFFICES ASSUME NEW q \in Slots, At(q, "bonus")' PROVE welcomed'[job'[q].account] = 0
    OBVIOUS
  <2>1. At(q, "bonus") /\ q # p /\ job'[q].account = job[q].account
    BY <1>6
  <2>2. job[q].account # a /\ job[q].account \in Accounts
    BY <1>1, <1>2, <2>1 DEF WelcomeInv, TypeInv, JobsInv, InHand, At
  <2> QED
    BY <1>5, <2>1, <2>2 DEF WelcomeInv
<1>8. \A q, r \in Slots :
        At(q, "bonus")' /\ At(r, "bonus")' /\ job'[q].account = job'[r].account => q = r
  BY <1>6 DEF WelcomeInv
<1>9. \A d \in Accounts : welcomed'[d] <= 1 /\ (d \notin Registered' => welcomed'[d] = 0)
  BY <1>2, <1>3, <1>5 DEF WelcomeInv
<1> QED
  BY <1>7, <1>8, <1>9 DEF WelcomeInv

LEMMA StepWelcome == TypeInv /\ WelcomeInv /\ [Next]_vars => WelcomeInv'
<1> SUFFICES ASSUME TypeInv, WelcomeInv, [Next]_vars PROVE WelcomeInv'
  OBVIOUS
<1>1. CASE Tick \/ UNCHANGED vars
  <2>1. UNCHANGED <<users, welcomed, job>>
    BY <1>1 DEF Tick, vars, store, history
  <2> QED
    BY <2>1 DEF WelcomeInv, Registered, At
<1>2. ASSUME NEW p \in Slots, InsertUser(p) \/ GrantBonus(p) PROVE WelcomeInv'
  BY <1>2, InsertWelcome, BonusWelcome
<1>3. ASSUME NEW p \in Slots,
             \/ Register(p) \/ ReadProof(p) \/ Channel(p)
             \/ ResendPhone(p) \/ ResendEmail(p) \/ IssueCode(p)
             \/ VerifyPhone(p) \/ VerifyEmailOtp(p) \/ FindPending(p) \/ OpenLink(p)
             \/ CountWrong(p) \/ Honour(p) \/ UpdateProfile(p) \/ SaveProfile(p) \/ Die(p)
      PROVE  WelcomeInv'
  <2>1. /\ \A q \in Slots \ {p} : Kept(q)
        /\ ~At(p, "bonus")' /\ welcomed' = welcomed /\ Registered \subseteq Registered'
    BY <1>3, Welcomes
  <2>2. \A q \in Slots : At(q, "bonus")' => At(q, "bonus") /\ job'[q].account = job[q].account
    BY <2>1 DEF Kept, At
  <2> QED
    BY <2>1, <2>2 DEF WelcomeInv
<1> QED
  BY <1>1, <1>2, <1>3 DEF Next

LEMMA InitWelcome == Init => WelcomeInv
<1> SUFFICES ASSUME Init PROVE WelcomeInv
  OBVIOUS
<1>1. \A p \in Slots : ~At(p, "bonus")
  BY IdleIsJob DEF Init, At
<1>2. \A a \in Accounts : welcomed[a] = 0
  BY DEF Init
<1> QED
  BY <1>1, <1>2 DEF WelcomeInv

(* What register() does with a proof between reading it and consuming it,    *)
(* with any number of registrations, resends and guesses at once: one proof  *)
(* opens one account but for those named, and no account is welcomed twice.  *)
THEOREM OneAccountPerProof == Spec => []ProofOpensOneAccount
<1> DEFINE I == TypeInv /\ ProofInv /\ WelcomeInv
<1>1. Init => I
  BY InitType, InitProof, InitWelcome
<1>2. I /\ [Next]_vars => I'
  BY StepType, StepProof, StepWelcome
<1>3. I => ProofOpensOneAccount
  <2> SUFFICES ASSUME I PROVE ProofOpensOneAccount
    OBVIOUS
  <2>1. \A a \in Accounts : welcomed[a] <= Cardinality({a} \cap Registered)
    <3> SUFFICES ASSUME NEW a \in Accounts PROVE welcomed[a] <= Cardinality({a} \cap Registered)
      OBVIOUS
    <3>1. CASE a \in Registered
      <4>1. {a} \cap Registered = {a}
        BY <3>1
      <4> QED
        BY <4>1, FS_Singleton DEF WelcomeInv
    <3>2. CASE a \notin Registered
      <4>1. {a} \cap Registered = {} /\ welcomed[a] = 0
        BY <3>2 DEF WelcomeInv
      <4> QED
        BY <4>1, FS_EmptySet
    <3> QED
      BY <3>1, <3>2
  <2> QED
    BY <2>1 DEF ProofOpensOneAccount, ProofInv, OpenedOnce
<1> QED
  BY <1>1, <1>2, <1>3, PTL DEF Spec

------------------------------------------------------------------------------
(* How often a code is guessed at.                                           *)
LEMMA GuessingIs ==
  ASSUME NEW c
  PROVE  /\ IsFiniteSet(Guessing(c)) /\ Cardinality(Guessing(c)) \in Nat
         /\ Cardinality(Slots) \in Nat /\ Cardinality(Guessing(c)) <= Cardinality(Slots)
<1>1. Guessing(c) \subseteq Slots /\ IsFiniteSet(Slots)
  BY VerificationAssumption DEF Guessing
<1> QED
  BY <1>1, FS_Subset, FS_CardinalityType

LEMMA SameGuesses ==
  ASSUME NEW p \in Slots, \A q \in Slots \ {p} : Kept(q), ~At(p, "wrong"), ~At(p, "wrong")'
  PROVE  \A c : Guessing(c)' = Guessing(c)
BY DEF Guessing, At, Kept

\* A step that guesses nothing, and empties boxes at most.
LEMMA GuessFrame ==
  ASSUME TypeInv, GuessInv, CodeNumbers' = CodeNumbers, \A c \in CodeNumbers : codes'[c] = codes[c],
         \A c : Guessing(c)' = Guessing(c),
         \A b \in Boxes : Counted(b) /\ boxes'[b].code # 0 =>
           boxes'[b].code = boxes[b].code /\ boxes'[b].attempts = boxes[b].attempts
  PROVE  GuessInv'
<1>1. \A c \in CodeNumbers : Burnt(c)'
  BY DEF GuessInv, Burnt
<1>2. ASSUME NEW b \in Boxes, Counted(b), boxes'[b].code # 0 PROVE CountedFor(b, boxes[b].code)'
  <2>1. boxes[b].code \in CodeNumbers /\ CountedFor(b, boxes[b].code)
        /\ boxes'[b].code = boxes[b].code /\ boxes'[b].attempts = boxes[b].attempts
    BY <1>2 DEF GuessInv, TypeInv, StoreInv
  <2>2. PICK c \in CodeNumbers : c = boxes[b].code
    BY <2>1
  <2>3. CountedFor(b, c) => CountedFor(b, c)'
    BY <2>1 DEF CountedFor
  <2> QED
    BY <2>1, <2>2, <2>3 DEF CountedFor
<1> QED
  BY <1>1, <1>2 DEF GuessInv, Counted

LEMMA CodeIs ==
  ASSUME TypeInv, NEW c \in CodeNumbers
  PROVE  /\ codes[c].wrong \in Nat /\ codes[c].together \in Nat /\ codes[c].lost \in Nat
         /\ MaxAttempts \in Nat
BY CodesAre, VerificationAssumption DEF CodeType

\* A wrong guess at the code of a box that is not yet at its limit.
LEMMA WrongGuess ==
  ASSUME TypeInv, TypeInv', GuessInv, NEW p \in Slots, NEW b \in Boxes, NEW c \in CodeNumbers,
         NEW a, NEW n, AfterCheck(p, a, n, b), Compared(p, a, n, b, "wrong"), Counted(b),
         c = boxes[b].code, ~At(p, "wrong"), UNCHANGED boxes,
         \A d \in CodeNumbers \ {c} : codes'[d] = codes[d],
         codes'[c].wrong = codes[c].wrong + 1, codes'[c].lost = codes[c].lost,
         codes'[c].together = codes[c].together + IF Together(p, c) THEN 1 ELSE 0
  PROVE  GuessInv'
<1>1. /\ CodeNumbers' = CodeNumbers /\ \A q \in Slots \ {p} : Kept(q)
      /\ boxes[b].attempts \in Nat /\ boxes[b].attempts < MaxAttempts
      /\ At(p, "wrong")' /\ job'[p].code = c /\ MaxAttempts \in Nat
  BY VerificationAssumption
     DEF AfterCheck, SameCodes, CodeNumbers, Others, Compared, Answered, At, TypeInv, StoreInv, BoxType
<1>2. Guessing(c)' = Guessing(c) \cup {p} /\ p \notin Guessing(c)
      /\ \A d : d # c => Guessing(d)' = Guessing(d)
  BY <1>1 DEF Guessing, At, Kept
<1>3. Cardinality(Guessing(c)') = Cardinality(Guessing(c)) + 1 /\ Cardinality(Guessing(c)) \in Nat
      /\ Cardinality(Guessing(c)') <= Cardinality(Slots) /\ Cardinality(Slots) \in Nat
  <2>1. Guessing(c)' \subseteq Slots /\ IsFiniteSet(Slots)
    BY VerificationAssumption DEF Guessing
  <2> QED
    BY <1>2, <2>1, GuessingIs, FS_AddElement, FS_Subset
<1>4. Together(p, c) <=> Guessing(c) # {}
  BY <1>2 DEF Together, Guessing
<1>5. Guessing(c) = {} => Cardinality(Guessing(c)) = 0
  BY FS_EmptySet
<1>6. CountedFor(b, c) /\ Burnt(c)
  BY CodesAre DEF GuessInv
<1>7. Cardinality(Guessing(c)') <= codes'[c].together + 1
  BY <1>3, <1>4, <1>5, <1>6, CodeIs DEF Burnt
<1>8. codes'[c].wrong <= boxes[b].attempts + Cardinality(Guessing(c)') + codes'[c].lost
  BY <1>1, <1>3, <1>6, CodeIs DEF CountedFor
<1>9. codes'[c].together \in Nat /\ codes'[c].lost \in Nat /\ codes'[c].wrong \in Nat
  BY CodeIs
<1>10. Burnt(c)'
  BY <1>1, <1>3, <1>7, <1>8, <1>9 DEF Burnt
<1>11. \A d \in CodeNumbers \ {c} : Burnt(d)'
  BY <1>2 DEF GuessInv, Burnt
<1>12. ASSUME NEW d \in Boxes, Counted(d), boxes'[d].code # 0 PROVE CountedFor(d, boxes[d].code)'
  <2>1. PICK e \in CodeNumbers : e = boxes[d].code
    BY <1>12 DEF TypeInv, StoreInv
  <2>2. CountedFor(d, e)
    BY <1>12, <2>1 DEF GuessInv
  <2>3. CASE e = c
    <3>1. b \in codes[c].boxes /\ d \in codes[c].boxes
      BY <1>12, <2>1, <2>3, CodesAre DEF TypeInv, StoreInv
    <3>2. d = b
      BY <1>12, <3>1 DEF TypeInv, CodesInv
    <3> QED
      BY <1>8, <2>1, <2>3, <3>2 DEF CountedFor
  <2>4. CASE e # c
    BY <1>2, <2>1, <2>2, <2>4 DEF CountedFor
  <2> QED
    BY <2>3, <2>4
<1> QED
  BY <1>1, <1>10, <1>11, <1>12 DEF GuessInv, Counted

LEMMA PresentGuess ==
  ASSUME TypeInv, TypeInv', GuessInv, NEW p \in Slots,
         VerifyPhone(p) \/ VerifyEmailOtp(p) \/ FindPending(p)
  PROVE  GuessInv'
<1>1. CASE Dismissed(p)
  <2>1. \A c : Guessing(c)' = Guessing(c)
    BY <1>1, SameGuesses DEF Dismissed, Others, At
  <2> QED
    BY <1>1, <2>1, GuessFrame DEF Dismissed, store, CodeNumbers
<1>2. ASSUME NEW a \in Accounts \cup {"none"}, NEW n \in Numbers \cup {"none"}, NEW b \in Boxes,
             Presents(p, a, n, b)
      PROVE  GuessInv'
  <2>1. UNCHANGED boxes /\ Counted(b) /\ AfterCheck(p, a, n, b) /\ ~At(p, "wrong")
    BY <1>2 DEF Presents, Checkable, store, At
  <2>2. CASE ~At(p, "wrong")' /\ codes' = codes
    <3>1. \A c : Guessing(c)' = Guessing(c)
      BY <2>1, <2>2, SameGuesses DEF AfterCheck, Others
    <3> QED
      BY <2>1, <2>2, <3>1, GuessFrame DEF CodeNumbers
  <2>3. CASE At(p, "wrong")' \/ codes' # codes
    <3>1. PICK c : c = boxes[b].code
      OBVIOUS
    <3>2. /\ Compared(p, a, n, b, "wrong") /\ c \in CodeNumbers
          /\ \A d \in CodeNumbers \ {c} : codes'[d] = codes[d]
          /\ codes'[c].wrong = codes[c].wrong + 1 /\ codes'[c].lost = codes[c].lost
          /\ codes'[c].together = codes[c].together + IF Together(p, c) THEN 1 ELSE 0
      BY <2>1, <2>3, <3>1, IdleIsJob DEF AfterCheck, Compared, At
    <3> QED
      BY <2>1, <3>1, <3>2, WrongGuess
  <2> QED
    BY <2>2, <2>3
<1> QED
  BY <1>1, <1>2, PresentEffect

\* A guess that is counted, and one that is lost.
LEMMA Guessed ==
  ASSUME NEW p \in Slots, NEW c, At(p, "wrong"), job[p].code = c,
         \A q \in Slots \ {p} : Kept(q), ~At(p, "wrong")'
  PROVE  /\ Cardinality(Guessing(c)') = Cardinality(Guessing(c)) - 1
         /\ Cardinality(Guessing(c)) \in Nat /\ Cardinality(Guessing(c)') \in Nat
         /\ \A d : d # c => Guessing(d)' = Guessing(d)
<1>1. Guessing(c)' = Guessing(c) \ {p} /\ p \in Guessing(c)
  BY DEF Guessing, At, Kept
<1>2. \A d : d # c => Guessing(d)' = Guessing(d)
  BY DEF Guessing, At, Kept
<1> QED
  BY <1>1, <1>2, GuessingIs, FS_RemoveElement, FS_CardinalityType

LEMMA CountGuess ==
  ASSUME TypeInv, TypeInv', GuessInv, NEW p \in Slots, CountWrong(p)
  PROVE  GuessInv'
<1>0. PICK b, c : b = job[p].box /\ c = job[p].code
  OBVIOUS
<1>1. /\ b \in Boxes /\ Counted(b) /\ At(p, "wrong") /\ Done(p) /\ c \in CodeNumbers
      /\ b \in codes[c].boxes /\ UNCHANGED codes
      /\ \A d \in Boxes : boxes'[d].code = boxes[d].code
      /\ \A d \in Boxes \ {b} : boxes'[d] = boxes[d]
      /\ boxes'[b].attempts = IF boxes[b].code = 0 THEN 0 ELSE boxes[b].attempts + 1
  BY <1>0, CountEffect
<1>2. (\A q \in Slots \ {p} : Kept(q)) /\ ~At(p, "wrong")' /\ CodeNumbers' = CodeNumbers
  BY <1>1, DoneEffect, IdleIsJob DEF Others, At, CodeNumbers
<1>3. /\ Cardinality(Guessing(c)') = Cardinality(Guessing(c)) - 1
      /\ Cardinality(Guessing(c)) \in Nat /\ Cardinality(Guessing(c)') \in Nat
      /\ \A d : d # c => Guessing(d)' = Guessing(d)
  BY <1>0, <1>1, <1>2, Guessed
<1>4. \A d \in CodeNumbers : Burnt(d)'
  <2> SUFFICES ASSUME NEW d \in CodeNumbers PROVE Burnt(d)'
    OBVIOUS
  <2>1. Burnt(d) /\ codes' = codes
    BY <1>1 DEF GuessInv
  <2>2. Cardinality(Guessing(d)') <= codes[d].together + 1
    BY <1>3, <2>1, CodeIs DEF Burnt
  <2> QED
    BY <2>1, <2>2 DEF Burnt
<1>5. ASSUME NEW d \in Boxes, Counted(d), boxes'[d].code # 0 PROVE CountedFor(d, boxes[d].code)'
  <2>1. PICK e \in CodeNumbers : e = boxes[d].code
    BY <1>1, <1>5 DEF TypeInv, StoreInv
  <2>2. CountedFor(d, e) /\ boxes'[d].code = e /\ codes' = codes /\ boxes[d].attempts \in Nat
    BY <1>1, <1>5, <2>1 DEF GuessInv, TypeInv, StoreInv, BoxType
  <2>3. CASE d = b
    <3>1. boxes'[d].attempts = boxes[d].attempts + 1
      BY <1>1, <1>5, <2>3
    <3>2. CASE e = c
      <4>1. codes[c].wrong <= boxes'[d].attempts + Cardinality(Guessing(c)') + codes[c].lost
        BY <1>3, <2>2, <3>1, <3>2, CodeIs DEF CountedFor
      <4> QED
        BY <2>2, <3>2, <4>1 DEF CountedFor
    <3>3. CASE e # c
      <4>1. Cardinality(Guessing(e)) \in Nat
        BY GuessingIs
      <4>2. codes[e].wrong <= boxes'[d].attempts + Cardinality(Guessing(e)') + codes[e].lost
        BY <1>3, <2>2, <3>1, <3>3, <4>1, CodeIs DEF CountedFor
      <4> QED
        BY <2>2, <4>2 DEF CountedFor
    <3> QED
      BY <3>2, <3>3
  <2>4. CASE d # b
    <3>1. d \in codes[e].boxes
      BY <1>1, <1>5, <2>1 DEF TypeInv, StoreInv
    <3>2. e # c
      BY <1>1, <1>5, <2>4, <3>1 DEF TypeInv, CodesInv
    <3>3. boxes'[d] = boxes[d]
      BY <1>1, <2>4
    <3>4. codes[e].wrong <= boxes'[d].attempts + Cardinality(Guessing(e)') + codes[e].lost
      BY <1>3, <2>2, <3>2, <3>3 DEF CountedFor
    <3> QED
      BY <2>2, <3>4 DEF CountedFor
  <2> QED
    BY <2>3, <2>4
<1> QED
  BY <1>2, <1>4, <1>5 DEF GuessInv, Counted

LEMMA DieGuess ==
  ASSUME TypeInv, TypeInv', GuessInv, NEW p \in Slots, Die(p)
  PROVE  GuessInv'
<1>1. UNCHANGED boxes /\ CodeNumbers' = CodeNumbers /\ (\A q \in Slots \ {p} : Kept(q))
      /\ ~At(p, "wrong")'
  BY DieEffect, DoneEffect, IdleIsJob DEF store, SameCodes, CodeNumbers, Others, At
<1>2. CASE ~At(p, "wrong")
  <2>1. \A c : Guessing(c)' = Guessing(c)
    BY <1>1, <1>2, SameGuesses
  <2> QED
    BY <1>1, <1>2, <2>1, DieEffect, GuessFrame
<1>3. CASE At(p, "wrong")
  <2>1. PICK c : c = job[p].code
    OBVIOUS
  <2>2. /\ c \in CodeNumbers /\ codes'[c].lost = codes[c].lost + 1
        /\ codes'[c].wrong = codes[c].wrong /\ codes'[c].together = codes[c].together
        /\ \A d \in CodeNumbers \ {c} : codes'[d] = codes[d]
    BY <1>3, <2>1, DieEffect
  <2>3. /\ Cardinality(Guessing(c)') = Cardinality(Guessing(c)) - 1
        /\ Cardinality(Guessing(c)) \in Nat /\ Cardinality(Guessing(c)') \in Nat
        /\ \A d : d # c => Guessing(d)' = Guessing(d)
    BY <1>1, <1>3, <2>1, Guessed
  <2>4. Burnt(c)'
    <3>1. Burnt(c) /\ Cardinality(Slots) \in Nat
      BY <2>2, GuessingIs DEF GuessInv
    <3>2. codes'[c].wrong <= MaxAttempts + codes'[c].together + codes'[c].lost
      BY <2>2, <3>1, CodeIs DEF Burnt
    <3>3. codes'[c].wrong <= MaxAttempts - 1 + Cardinality(Slots) + codes'[c].lost
      BY <2>2, <3>1, CodeIs DEF Burnt
    <3>4. Cardinality(Guessing(c)') <= codes'[c].together + 1
      BY <2>2, <2>3, <3>1, CodeIs DEF Burnt
    <3> QED
      BY <3>2, <3>3, <3>4 DEF Burnt
  <2>5. \A d \in CodeNumbers \ {c} : Burnt(d)'
    BY <2>2, <2>3 DEF GuessInv, Burnt
  <2>6. ASSUME NEW b \in Boxes, Counted(b), boxes'[b].code # 0 PROVE CountedFor(b, boxes[b].code)'
    <3>1. PICK e \in CodeNumbers : e = boxes[b].code
      BY <1>1, <2>6 DEF TypeInv, StoreInv
    <3>2. CountedFor(b, e) /\ boxes' = boxes /\ boxes[b].attempts \in Nat
      BY <1>1, <2>6, <3>1 DEF GuessInv, TypeInv, StoreInv, BoxType
    <3>3. CASE e = c
      <4>1. codes'[c].wrong <= boxes[b].attempts + Cardinality(Guessing(c)') + codes'[c].lost
        BY <2>2, <2>3, <3>2, <3>3, CodeIs DEF CountedFor
      <4> QED
        BY <3>1, <3>2, <3>3, <4>1 DEF CountedFor
    <3>4. CASE e # c
      BY <2>2, <2>3, <3>1, <3>2, <3>4 DEF CountedFor
    <3> QED
      BY <3>3, <3>4
  <2> QED
    BY <1>1, <2>2, <2>4, <2>5, <2>6 DEF GuessInv, Counted
<1> QED
  BY <1>2, <1>3

\* A new code has not been guessed at.
LEMMA NewCodeGuess ==
  ASSUME TypeInv, TypeInv', GuessInv, NEW p \in Slots, NEW bs \in SUBSET Boxes, NEW to,
         AfterIssue(p, bs, to), ~At(p, "wrong")
  PROVE  GuessInv'
<1>0. PICK new : new = Len(codes) + 1
  OBVIOUS
<1>1. /\ CodeNumbers' = CodeNumbers \cup {new} /\ \A c \in CodeNumbers : codes'[c] = codes[c]
      /\ codes'[new].wrong = 0 /\ codes'[new].together = 0 /\ codes'[new].lost = 0
      /\ \A b \in Boxes : \/ b \notin bs /\ boxes'[b] = boxes[b]
                          \/ b \in bs /\ boxes'[b].code = new /\ boxes'[b].attempts = 0
      /\ (\A q \in Slots \ {p} : Kept(q)) /\ ~At(p, "wrong")'
  BY <1>0, IdleIsJob DEF AfterIssue, At
<1>2. \A c : Guessing(c)' = Guessing(c)
  BY <1>1, SameGuesses
<1>3. Guessing(new) = {} /\ new \notin CodeNumbers
  <2>1. new \notin CodeNumbers
    BY <1>0, CodesAre DEF CodeNumbers
  <2> QED
    BY <2>1 DEF Guessing, TypeInv, JobsInv, InHand, At
<1>4. Cardinality(Guessing(new)') = 0
  BY <1>2, <1>3, FS_EmptySet
<1>5. Burnt(new)'
  <2>1. MaxAttempts \in Nat /\ Cardinality(Slots) \in Nat
    BY GuessingIs, VerificationAssumption
  <2>2. 0 <= MaxAttempts - 1 + Cardinality(Slots)
    <3>1. Slots # {} => Cardinality(Slots) # 0
      BY VerificationAssumption, FS_EmptySet
    <3> QED
      BY <2>1, <3>1
  <2> QED
    BY <1>1, <1>4, <2>1, <2>2 DEF Burnt
<1>6. \A c \in CodeNumbers : Burnt(c)'
  BY <1>1, <1>2 DEF GuessInv, Burnt
<1>7. ASSUME NEW b \in Boxes, Counted(b), boxes'[b].code # 0 PROVE CountedFor(b, boxes[b].code)'
  <2>1. CASE b \in bs
    <3>1. boxes'[b].code = new /\ boxes'[b].attempts = 0
      BY <1>1, <2>1
    <3>2. codes'[new].wrong <= boxes'[b].attempts + Cardinality(Guessing(new)') + codes'[new].lost
      BY <1>1, <1>4, <3>1
    <3> QED
      BY <3>1, <3>2 DEF CountedFor
  <2>2. CASE b \notin bs
    <3>1. boxes'[b] = boxes[b]
      BY <1>1, <2>2
    <3>2. PICK e \in CodeNumbers : e = boxes[b].code
      BY <1>7, <3>1 DEF TypeInv, StoreInv
    <3>3. CountedFor(b, e)
      BY <1>7, <3>1, <3>2 DEF GuessInv
    <3> QED
      BY <1>1, <1>2, <3>1, <3>2, <3>3 DEF CountedFor
  <2> QED
    BY <2>1, <2>2
<1> QED
  BY <1>1, <1>5, <1>6, <1>7 DEF GuessInv, Counted

LEMMA QuietGuess ==
  ASSUME TypeInv, GuessInv, NEW p \in Slots,
         \/ Register(p) \/ ReadProof(p) \/ InsertUser(p) \/ GrantBonus(p)
         \/ (Channel(p) /\ ClaimPendingPhone(p))
         \/ ResendPhone(p) \/ ResendEmail(p) \/ OpenLink(p)
         \/ Honour(p) \/ UpdateProfile(p) \/ SaveProfile(p)
  PROVE  GuessInv'
<1>1. ~At(p, "wrong") /\ ~At(p, "wrong")' /\ (\A q \in Slots \ {p} : Kept(q)) /\ codes' = codes
  <2>1. CASE Register(p) \/ ReadProof(p) \/ InsertUser(p) \/ GrantBonus(p)
    BY <2>1, RegisterEffect, ReadProofEffect, InsertEffect, BonusEffect, IdleIsJob
       DEF Register, Begin, Enter, ReadProof, InsertUser, GrantBonus, Others, At, history
  <2>2. CASE (Channel(p) /\ ClaimPendingPhone(p)) \/ Honour(p)
    BY <2>2, ClaimEffect, DoneEffect, IdleIsJob DEF Honour, Others, At
  <2>3. CASE ResendPhone(p) \/ ResendEmail(p) \/ OpenLink(p) \/ UpdateProfile(p)
    BY <2>3, ResendPhoneEffect, ResendEmailEffect, OpenLinkEffect, UpdateEffect, IdleIsJob
       DEF Others, At, history
  <2>4. CASE SaveProfile(p)
    <3>1. CASE Unsaved(p)
      BY <3>1, DoneEffect, IdleIsJob DEF Unsaved, Others, At
    <3>2. CASE \E a \in Registered, n \in Numbers : Saved(p, a, n)
      BY <3>2, IdleIsJob DEF Saved, At
    <3> QED
      BY <2>4, <3>1, <3>2, SaveEffect
  <2> QED
    BY <2>1, <2>2, <2>3, <2>4
<1>2. \A b \in Boxes : Counted(b) /\ boxes'[b].code # 0 =>
        boxes'[b].code = boxes[b].code /\ boxes'[b].attempts = boxes[b].attempts
  <2>1. CASE Register(p) \/ ReadProof(p) \/ InsertUser(p) \/ GrantBonus(p)
    BY <2>1 DEF Register, ReadProof, InsertUser, GrantBonus, store
  <2>2. CASE ResendPhone(p) \/ ResendEmail(p) \/ OpenLink(p) \/ UpdateProfile(p)
    BY <2>2, ResendPhoneEffect, ResendEmailEffect, OpenLinkEffect, UpdateEffect DEF store
  <2>3. CASE Channel(p) /\ ClaimPendingPhone(p)
    BY <2>3, ClaimEffect, BoxesAre, EmptyIsBox
  <2>4. CASE Honour(p)
    <3>1. CASE \E n \in Numbers, c \in CodeNumbers : AfterPending(p, n, c)
      BY <3>1, EmptyIsBox DEF AfterPending
    <3>2. CASE \E a \in Registered, c \in CodeNumbers : AfterPhone(p, a, c)
      BY <3>2, EmptyIsBox DEF AfterPhone
    <3>3. CASE \E a \in Registered : AfterMail(p, a)
      BY <3>3, EmptyIsBox DEF AfterMail
    <3> QED
      BY <2>4, <3>1, <3>2, <3>3, HonourEffect
  <2>5. CASE SaveProfile(p)
    <3>1. boxes' = boxes \/ \E a : boxes' = [boxes EXCEPT ![Phone(a)] = Empty]
      BY <2>5 DEF SaveProfile, Phone
    <3>2. boxes \in [Boxes -> BoxType]
      BY DEF TypeInv, StoreInv
    <3> QED
      BY <3>1, <3>2, EmptyIsBox
  <2> QED
    BY <2>1, <2>2, <2>3, <2>4, <2>5
<1>3. CodeNumbers' = CodeNumbers /\ \A c : Guessing(c)' = Guessing(c)
  BY <1>1, SameGuesses DEF CodeNumbers
<1> QED
  BY <1>1, <1>2, <1>3, GuessFrame

LEMMA StepGuess == TypeInv /\ GuessInv /\ [Next]_vars => GuessInv'
<1> SUFFICES ASSUME TypeInv, GuessInv, [Next]_vars PROVE GuessInv'
  OBVIOUS
<1>1. TypeInv'
  BY StepType
<1>2. CASE Tick \/ UNCHANGED vars
  <2>1. UNCHANGED <<boxes, codes, job>>
    BY <1>2 DEF Tick, vars, store, history
  <2>2. \A c : Guessing(c)' = Guessing(c)
    BY <2>1 DEF Guessing, At
  <2> QED
    BY <2>1, <2>2, GuessFrame DEF CodeNumbers
<1>3. ASSUME NEW p \in Slots,
             \/ Register(p) \/ ReadProof(p) \/ InsertUser(p) \/ GrantBonus(p)
             \/ ResendPhone(p) \/ ResendEmail(p) \/ OpenLink(p)
             \/ Honour(p) \/ UpdateProfile(p) \/ SaveProfile(p)
      PROVE  GuessInv'
  BY <1>3, QuietGuess
<1>4. ASSUME NEW p \in Slots, Channel(p) \/ IssueCode(p) PROVE GuessInv'
  <2>1. CASE Channel(p) /\ ClaimPendingPhone(p)
    BY <2>1, QuietGuess
  <2>2. CASE IssueCode(p) \/ (Channel(p) /\ ~ClaimPendingPhone(p))
    <3>1. ~At(p, "wrong")
      BY <2>2 DEF IssueCode, Channel, At
    <3> QED
      BY <1>1, <2>2, <3>1, IssuedSomehow, NewCodeGuess
  <2> QED
    BY <1>4, <2>1, <2>2
<1>5. ASSUME NEW p \in Slots,
             \/ VerifyPhone(p) \/ VerifyEmailOtp(p) \/ FindPending(p) \/ CountWrong(p) \/ Die(p)
      PROVE  GuessInv'
  BY <1>1, <1>5, PresentGuess, CountGuess, DieGuess
<1> QED
  BY <1>2, <1>3, <1>4, <1>5 DEF Next

LEMMA InitGuess == Init => GuessInv
<1> SUFFICES ASSUME Init PROVE GuessInv
  OBVIOUS
<1>1. CodeNumbers = {} /\ \A b \in Boxes : boxes[b].code = 0
  BY EmptyIsBox DEF Init, CodeNumbers
<1> QED
  BY <1>1 DEF GuessInv

(* What the count of wrong guesses is worth although it is read, compared    *)
(* with the limit and raised in three steps, by any number of requests.      *)
THEOREM GuessesAlwaysBounded == Spec => []GuessesAreBounded
<1> DEFINE I == TypeInv /\ GuessInv
<1>1. Init => I
  BY InitType, InitGuess
<1>2. I /\ [Next]_vars => I'
  BY StepType, StepGuess
<1>3. I => GuessesAreBounded
  BY DEF GuessInv, Burnt, GuessesAreBounded, CodeNumbers
<1> QED
  BY <1>1, <1>2, <1>3, PTL DEF Spec

------------------------------------------------------------------------------
(* How many requests the limiter admits.                                     *)
LEMMA OneOrTwo ==
  ASSUME NEW w \in Nat, w # 0, NEW k \in Int, -w < w * k, w * k < 2 * w
  PROVE  k = 0 \/ k = 1
<1>1. CASE k >= 2
  <2>1. w * k >= w * 2
    BY <1>1, Z3
  <2> QED
    BY <2>1
<1>2. CASE k <= -1
  <2>1. w * k <= w * (-1)
    BY <1>2, Z3
  <2> QED
    BY <2>1
<1> QED
  BY <1>1, <1>2

LEMMA Division ==
  ASSUME NEW t \in Nat, NEW w \in Nat, w # 0
  PROVE  /\ t % w \in Nat /\ t % w < w /\ t \div w \in Int
         /\ t - (t % w) = w * (t \div w)
BY Z3

LEMMA NextWindow ==
  ASSUME NEW t \in Nat, NEW u \in Nat, t <= u, u < t + Window
  PROVE  WindowOf(u) = WindowOf(t) \/ WindowOf(u) = WindowOf(t) + Window
<1>1. Window \in Nat /\ Window # 0
  BY RateLimitAssumption
<1>2. PICK w \in Nat : w = Window /\ w # 0
  BY <1>1
<1>3. PICK i \in Int : i = t \div w
  BY <1>2, Division
<1>4. PICK j \in Int : j = u \div w
  BY <1>2, Division
<1>5. PICK r \in Nat : r = t % w /\ r < w
  BY <1>2, Division
<1>6. PICK s \in Nat : s = u % w /\ s < w
  BY <1>2, Division
<1>7. t - r = w * i /\ u - s = w * j
  BY <1>2, <1>3, <1>4, <1>5, <1>6, Division
<1>8. w * (j - i) = w * j - w * i /\ j - i \in Int
  BY <1>2, <1>3, <1>4, Z3
<1>9. -w < w * (j - i) /\ w * (j - i) < 2 * w
  BY <1>2, <1>5, <1>6, <1>7, <1>8
<1>10. j - i = 0 \/ j - i = 1
  BY <1>2, <1>8, <1>9, OneOrTwo
<1>11. w * (j - i) = 0 \/ w * (j - i) = w
  BY <1>2, <1>10, Z3
<1> QED
  BY <1>2, <1>5, <1>6, <1>7, <1>8, <1>11 DEF WindowOf

LEMMA InIs ==
  ASSUME TypeInv, NEW k \in Keys, NEW v, NEW w
  PROVE  /\ IsFiniteSet(In(k, v, w)) /\ Cardinality(In(k, v, w)) \in Nat
         /\ DOMAIN admitted[k] = 1..Len(admitted[k]) /\ Len(admitted[k]) \in Nat
         /\ \A i \in DOMAIN admitted[k] : admitted[k][i] \in 0..MaxNow
<1>1. admitted[k] \in Seq(0..MaxNow)
  BY DEF TypeInv, LimiterInv
<1>2. DOMAIN admitted[k] = 1..Len(admitted[k]) /\ Len(admitted[k]) \in Nat
      /\ \A i \in DOMAIN admitted[k] : admitted[k][i] \in 0..MaxNow
  <2>1. PICK T : T = 0..MaxNow
    OBVIOUS
  <2>2. PICK s \in Seq(T) : s = admitted[k]
    BY <1>1, <2>1
  <2>3. DOMAIN s = 1..Len(s) /\ Len(s) \in Nat /\ \A i \in 1..Len(s) : s[i] \in T
    OBVIOUS
  <2> QED
    BY <2>1, <2>2, <2>3
<1>3. In(k, v, w) \subseteq 1..Len(admitted[k]) /\ IsFiniteSet(1..Len(admitted[k]))
  BY <1>2, FS_Interval DEF In
<1> QED
  BY <1>2, <1>3, FS_Subset, FS_CardinalityType

\* What is admitted now is counted now, or the store has failed.
LEMMA AdmitRate ==
  ASSUME TypeInv, TypeInv', RateInv, NEW k \in Keys, Admit(k)
  PROVE  RateInv'
<1> SUFFICES ASSUME NEW l \in Keys, NEW v \in Windows, NEW w \in Windows
             PROVE  Cardinality(In(l, v, w)') <= counts'[l][v] + counts'[l][w] + outages'
  BY DEF RateInv, In
<1>1. /\ counts[l][v] \in Nat /\ counts[l][w] \in Nat /\ outages \in Nat
      /\ counts'[l][v] \in Nat /\ counts'[l][w] \in Nat /\ outages' \in Nat
      /\ Cardinality(In(l, v, w)) \in Nat
      /\ Cardinality(In(l, v, w)) <= counts[l][v] + counts[l][w] + outages
  <2>1. counts[l][v] \in Nat /\ counts[l][w] \in Nat /\ outages \in Nat
    BY RateLimitAssumption DEF TypeInv, LimiterInv
  <2>2. counts'[l][v] \in Nat /\ counts'[l][w] \in Nat /\ outages' \in Nat
    BY RateLimitAssumption DEF TypeInv, LimiterInv
  <2> QED
    BY <2>1, <2>2, InIs DEF RateInv
<1>2. PICK x : x = WindowOf(now)
  OBVIOUS
<1>3. x \in Windows
  BY <1>2, NowIsInstant, WindowsAre DEF TypeInv
<1>4. \/ /\ outages' = outages
         /\ \A z \in Windows : counts'[l][z] = IF l = k /\ z = x THEN counts[k][x] + 1 ELSE counts[l][z]
      \/ outages' = outages + 1 /\ counts' = counts
  BY <1>2, <1>3 DEF Admit, TypeInv, LimiterInv
<1>5. admitted' = [admitted EXCEPT ![k] = Append(@, now)]
  BY DEF Admit
<1>6. CASE l # k
  <2>1. In(l, v, w)' = In(l, v, w)
    BY <1>5, <1>6 DEF In, TypeInv, LimiterInv
  <2> QED
    BY <1>1, <1>4, <1>6, <2>1
<1>7. CASE l = k
  <2>1. PICK len \in Nat : len = Len(admitted[k]) /\ DOMAIN admitted[k] = 1..len
    BY InIs
  <2>2. /\ admitted'[k] = Append(admitted[k], now) /\ DOMAIN admitted'[k] = 1..(len + 1)
        /\ \A i \in 1..len : admitted'[k][i] = admitted[k][i]
        /\ admitted'[k][len + 1] = now
    <3>1. admitted'[k] = Append(admitted[k], now) /\ admitted[k] \in Seq(0..MaxNow)
      BY <1>5 DEF TypeInv, LimiterInv
    <3>2. now \in 0..MaxNow
      BY NowIsInstant DEF TypeInv
    <3> QED
      BY <2>1, <3>1, <3>2
  <2>3. In(k, v, w)' = {i \in 1..(len + 1) : WindowOf(admitted'[k][i]) \in {v, w}}
    BY <2>2 DEF In, WindowOf
  <2>4. In(k, v, w) = {i \in 1..len : WindowOf(admitted[k][i]) \in {v, w}}
    BY <2>1 DEF In
  <2>5. CASE x \in {v, w}
    <3>1. In(k, v, w)' = In(k, v, w) \cup {len + 1} /\ len + 1 \notin In(k, v, w)
      BY <1>2, <2>2, <2>3, <2>4, <2>5
    <3>2. Cardinality(In(k, v, w)') = Cardinality(In(k, v, w)) + 1
      BY <3>1, InIs, FS_AddElement
    <3>3. counts'[l][v] + counts'[l][w] + outages' >= counts[l][v] + counts[l][w] + outages + 1
      BY <1>1, <1>4, <1>7, <2>5
    <3> QED
      BY <1>1, <1>7, <3>2, <3>3
  <2>6. CASE x \notin {v, w}
    <3>1. In(k, v, w)' = In(k, v, w)
      BY <1>2, <2>2, <2>3, <2>4, <2>6
    <3>2. counts'[l][v] + counts'[l][w] + outages' >= counts[l][v] + counts[l][w] + outages
      BY <1>1, <1>4, <2>6
    <3> QED
      BY <1>1, <1>7, <3>1, <3>2
  <2> QED
    BY <2>5, <2>6
<1> QED
  BY <1>6, <1>7

LEMMA StepRate == TypeInv /\ RateInv /\ [Next]_vars => RateInv'
<1> SUFFICES ASSUME TypeInv, RateInv, [Next]_vars PROVE RateInv'
  OBVIOUS
<1>1. UNCHANGED limiter \/ \E k \in Keys : Admit(k)
  <2>1. CASE Tick \/ UNCHANGED vars
    BY <2>1 DEF Tick, vars
  <2>2. ASSUME NEW p \in Slots,
               \/ Register(p) \/ ReadProof(p) \/ InsertUser(p) \/ GrantBonus(p) \/ Channel(p)
               \/ ResendEmail(p) \/ IssueCode(p) \/ FindPending(p) \/ OpenLink(p) \/ CountWrong(p)
               \/ Honour(p) \/ UpdateProfile(p) \/ SaveProfile(p) \/ Die(p)
        PROVE  UNCHANGED limiter
    BY <2>2 DEF Register, ReadProof, InsertUser, GrantBonus, Channel, ResendEmail, IssueCode,
                FindPending, OpenLink, CountWrong, Honour, UpdateProfile, SaveProfile, Die
  <2>3. ASSUME NEW p \in Slots, ResendPhone(p) \/ VerifyPhone(p) \/ VerifyEmailOtp(p)
        PROVE  \E k \in Keys : Admit(k)
    BY <2>3, KeysAre DEF ResendPhone, VerifyPhone, VerifyEmailOtp
  <2> QED
    BY <2>1, <2>2, <2>3 DEF Next
<1>2. CASE UNCHANGED limiter
  BY <1>2 DEF limiter, RateInv, In
<1>3. TypeInv'
  BY StepType
<1> QED
  BY <1>1, <1>2, <1>3, AdmitRate

LEMMA InitRate == Init => RateInv
<1> SUFFICES ASSUME Init, NEW k \in Keys, NEW v \in Windows, NEW w \in Windows
             PROVE  Cardinality(In(k, v, w)) <= counts[k][v] + counts[k][w] + outages
  BY DEF RateInv
<1>1. In(k, v, w) = {}
  BY DEF Init, LimiterInit, In
<1> QED
  BY <1>1, FS_EmptySet DEF Init, LimiterInit

LEMMA RateCaps == TypeInv /\ RateInv => RatesAreCapped
<1> SUFFICES ASSUME TypeInv, RateInv, NEW k \in Keys, NEW t \in 0..MaxNow
             PROVE  Cardinality({i \in DOMAIN admitted[k] : admitted[k][i] \in t..(t + Window - 1)})
                      <= 2 * Limit[k[1]] + outages
  BY DEF RatesAreCapped
<1> DEFINE S == {i \in DOMAIN admitted[k] : admitted[k][i] \in t..(t + Window - 1)}
           w == WindowOf(t) + Window
<1>1. ASSUME NEW v \in Windows, S \subseteq In(k, WindowOf(t), v)
      PROVE  Cardinality(S) <= 2 * Limit[k[1]] + outages
  <2>1. PICK u \in Windows : u = WindowOf(t)
    BY WindowsAre
  <2>2. Cardinality(S) <= Cardinality(In(k, u, v)) /\ Cardinality(S) \in Nat
        /\ Cardinality(In(k, u, v)) \in Nat
    BY <1>1, <2>1, InIs, FS_Subset, FS_CardinalityType
  <2>3. /\ counts[k][u] \in Nat /\ counts[k][u] <= Limit[k[1]]
        /\ counts[k][v] \in Nat /\ counts[k][v] <= Limit[k[1]]
        /\ outages \in Nat /\ Limit[k[1]] \in Nat
    BY RateLimitAssumption DEF TypeInv, LimiterInv
  <2>4. Cardinality(In(k, u, v)) <= counts[k][u] + counts[k][v] + outages
    BY DEF RateInv
  <2> HIDE DEF S
  <2> QED
    BY <2>2, <2>3, <2>4
<1>2. \A i \in S : /\ admitted[k][i] \in 0..MaxNow /\ WindowOf(admitted[k][i]) \in Windows
                   /\ WindowOf(admitted[k][i]) = WindowOf(t) \/ WindowOf(admitted[k][i]) = w
  <2> SUFFICES ASSUME NEW i \in S
               PROVE  /\ admitted[k][i] \in 0..MaxNow /\ WindowOf(admitted[k][i]) \in Windows
                      /\ WindowOf(admitted[k][i]) = WindowOf(t) \/ WindowOf(admitted[k][i]) = w
    OBVIOUS
  <2>1. PICK u : u = admitted[k][i]
    OBVIOUS
  <2>2. u \in 0..MaxNow /\ u \in t..(t + Window - 1)
    BY <2>1, InIs
  <2>3. u \in Nat /\ t \in Nat /\ t <= u /\ u < t + Window
    BY <2>2, RateLimitAssumption
  <2> QED
    BY <2>1, <2>2, <2>3, NextWindow, WindowsAre
<1>3. CASE w \in Windows
  <2>1. S \subseteq In(k, WindowOf(t), w)
    BY <1>2 DEF In
  <2> QED
    BY <1>1, <1>3, <2>1
<1>4. CASE w \notin Windows
  <2>1. S \subseteq In(k, WindowOf(t), WindowOf(t))
    BY <1>2, <1>4 DEF In
  <2> QED
    BY <1>1, <2>1, WindowsAre
<1> QED
  BY <1>3, <1>4

(* What the fixed windows of the limiter promise of any interval, however    *)
(* its requests come and its store fails.                                    *)
THEOREM RatesAlwaysCapped == Spec => []RatesAreCapped
<1> DEFINE I == TypeInv /\ RateInv
<1>1. Init => I
  BY InitType, InitRate
<1>2. I /\ [Next]_vars => I'
  BY StepType, StepRate
<1>3. I => RatesAreCapped
  BY RateCaps
<1> QED
  BY <1>1, <1>2, <1>3, PTL DEF Spec
=============================================================================
