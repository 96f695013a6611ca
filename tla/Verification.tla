---------------------------- MODULE Verification -----------------------------
(* Registration and the proof of a customer's mobile number and address:     *)
(* codes are texted or mailed, kept with the account or - before there is an *)
(* account - with the number, and presented again under a limit on guesses.  *)
(* The same number can meanwhile be changed in the profile.                  *)
EXTENDS Integers, Sequences, FiniteSets, RateLimit

CONSTANTS Slots,          \* requests in flight at once
          Accounts,       \* the addresses that register; an account is its address
          Numbers, SmsNumbers,    \* mobile numbers, and those that get texts
          CodeLife, LinkLife, Grace, MaxAttempts,
          Start,          \* the instant it begins at
          MaxCodes, MaxRequests   \* bounds on the codes issued and the requests begun

ASSUME VerificationAssumption ==
  /\ SmsNumbers \subseteq Numbers /\ Numbers \cap Accounts = {}
  /\ "none" \notin Numbers \cup Accounts /\ IsFiniteSet(Slots) /\ Start <= MaxNow
  /\ ({"send", "guess"} \X Numbers) \cup ({"otp"} \X Accounts) \subseteq Keys
  /\ {CodeLife, LinkLife, Grace, MaxAttempts, Start, MaxCodes, MaxRequests} \subseteq Nat

(* Where a code is kept. The link and the code of a mail are one secret.     *)
Box(kind, of) == [kind |-> kind, of |-> of]
Boxes == [kind : {"phone", "email", "link"}, of : Accounts] \cup [kind : {"pending"}, of : Numbers]
Mail(a) == {Box("email", a), Box("link", a)}
Empty == [code |-> 0, until |-> 0, attempts |-> 0]
Life(b) == IF b.kind = "link" THEN LinkLife ELSE CodeLife

VARIABLES users,     \* users: the account of each address
          welcomed,  \* credits: how often each account was to get the sign-up bonus
          boxes,     \* the codes, with users and with phone_verifications
          proofs,    \* phone_verifications: verified_at, with the code behind it
          job,       \* what each request in flight is doing
          begun,     \* how many requests have begun
          codes,     \* history: the codes issued, whom they went to, the guesses
          raced,     \* history: accounts a request wrote to after their number changed
          shared     \* history: proofs two registrations had in hand, one left behind,
                     \* or that came back

store == <<users, welcomed, boxes, proofs>>
history == <<codes, raced, shared>>
vars == <<now, store, job, begun, history, limiter>>

NoUser == [phone |-> "none", verified |-> FALSE, emailed |-> FALSE, proof |-> 0, opened |-> 0]
NoProof == [code |-> 0, at |-> 0, late |-> FALSE]
Idle == [at |-> "idle", account |-> "none", number |-> "none", box |-> "none",
         code |-> 0, changed |-> FALSE, stale |-> FALSE]

Init ==
  /\ now = Start /\ LimiterInit
  /\ users = [a \in Accounts |-> NoUser]
  /\ welcomed = [a \in Accounts |-> 0]
  /\ boxes = [b \in Boxes |-> Empty]
  /\ proofs = [n \in Numbers |-> NoProof]
  /\ begun = 0 /\ codes = <<>> /\ raced = {} /\ shared = {}
  /\ job = [p \in Slots |-> Idle]

At(p, l) == job[p].at = l
Goto(p, l) == job' = [job EXCEPT ![p].at = l]
Done(p) == job' = [job EXCEPT ![p] = Idle]
Enter(p) == At(p, "idle") /\ begun < MaxRequests /\ begun' = begun + 1
Begin(p, next) == Enter(p) /\ job' = [job EXCEPT ![p] = next]
Registered == {a \in Accounts : users[a] # NoUser}
Holders(n) == {a \in Registered : users[a].phone = n}

Tick ==
  /\ now < MaxNow /\ now' = now + 1
  /\ UNCHANGED <<store, job, begun, history, limiter>>

------------------------------------------------------------------------------
(* Issuing: a new code replaces the old one and its count of guesses.        *)
Fits(b, q) == At(q, "right") /\ job[q].box = b
Issue(p, bs, to) ==
  /\ Len(codes) < MaxCodes
  /\ codes' = Append(codes, [boxes |-> bs, to |-> to, wrong |-> 0, together |-> 0, lost |-> 0])
  /\ boxes' = [b \in Boxes |->
       IF b \in bs THEN [code |-> Len(codes) + 1, until |-> now + Life(b), attempts |-> 0]
       ELSE boxes[b]]
  /\ proofs' = [n \in Numbers |-> IF Box("pending", n) \in bs THEN NoProof ELSE proofs[n]]
  /\ raced' = IF job[p].stale THEN raced \cup {job[p].account} ELSE raced
  /\ job' = [q \in Slots |->
       IF q = p THEN Idle
       ELSE IF \E b \in bs : Fits(b, q) THEN [job[q] EXCEPT !.stale = TRUE] ELSE job[q]]
  /\ UNCHANGED <<users, welcomed, shared>>

(* register(): a number that is taken is refused at once.                    *)
Register(p) ==
  /\ \E a \in Accounts, n \in Numbers :
       /\ Holders(n) = {}
       /\ Begin(p, [Idle EXCEPT !.at = "proof", !.account = a, !.number = n])
  /\ UNCHANGED <<now, store, history, limiter>>

RecentlyVerified(n) == proofs[n].code # 0 /\ proofs[n].at >= now - Grace

Opening(q, c) == job[q].at \in {"insert", "bonus", "channel"} /\ job[q].code = c
ReadProof(p) ==
  /\ At(p, "proof")
  /\ LET n == job[p].number
         c == IF RecentlyVerified(n) THEN proofs[n].code ELSE 0 IN
     /\ job' = [job EXCEPT ![p].at = "insert", ![p].code = c]
     /\ shared' = IF c # 0 /\ \E q \in Slots \ {p} : Opening(q, c)
                  THEN shared \cup {c} ELSE shared
  /\ UNCHANGED <<now, store, begun, codes, raced, limiter>>

(* *Mistake:* without the unique index on the number only the first look says no. *)
RefusedByAddress(a, n) == a \in Registered
RefusedByIndex(a, n) == a \in Registered \/ Holders(n) # {}

InsertUser(p) ==
  /\ At(p, "insert")
  /\ LET a == job[p].account  n == job[p].number  c == job[p].code IN
     IF RefusedByIndex(a, n)
     THEN Done(p) /\ UNCHANGED users
     ELSE /\ users' = [users EXCEPT ![a] =
               [phone |-> n, verified |-> c # 0, emailed |-> FALSE, proof |-> c, opened |-> c]]
          /\ Goto(p, "bonus")
  /\ UNCHANGED <<now, welcomed, boxes, proofs, begun, history, limiter>>

(* A bonus that cannot be granted does not undo the registration: nothing    *)
(* here depends on whether it was.                                           *)
GrantBonus(p) ==
  /\ At(p, "bonus")
  /\ welcomed' = [welcomed EXCEPT ![job[p].account] = @ + 1]
  /\ Goto(p, "channel")
  /\ UNCHANGED <<now, users, boxes, proofs, begun, history, limiter>>

(* *Mistake:* the proof stays with the number it opened an account for.      *)
ClaimNothing(p) ==
  /\ job[p].number \in SmsNumbers /\ job[p].code # 0
  /\ Done(p)
  /\ UNCHANGED <<store, history>>
ClaimPendingPhone(p) ==
  /\ job[p].number \in SmsNumbers /\ job[p].code # 0
  /\ proofs' = [proofs EXCEPT ![job[p].number] = NoProof]
  /\ boxes' = [boxes EXCEPT ![Box("pending", job[p].number)] = Empty]
  /\ Done(p)
  /\ UNCHANGED <<users, welcomed, history>>

Channel(p) ==
  /\ At(p, "channel")
  /\ \/ ClaimPendingPhone(p)
     \/ /\ job[p].number \in SmsNumbers /\ job[p].code = 0
        /\ Issue(p, {Box("phone", job[p].account)}, job[p].number)
     \/ /\ job[p].number \notin SmsNumbers
        /\ Issue(p, Mail(job[p].account), job[p].account)
  /\ UNCHANGED <<now, begun, limiter>>

------------------------------------------------------------------------------
(* Asking for another code. A limit is taken and the user is read in one     *)
(* step: they are different documents.                                       *)
ResendPhone(p) ==
  /\ \E n \in Numbers :
       LET into(a, b) == [Idle EXCEPT !.at = "issue", !.account = a, !.number = n, !.box = b] IN
       /\ Admit(<<"send", n>>)
       /\ \/ n \notin SmsNumbers /\ Begin(p, Idle)
          \/ /\ n \in SmsNumbers /\ Holders(n) = {}
             /\ Begin(p, into("none", Box("pending", n)))
          \/ /\ n \in SmsNumbers
             /\ \E a \in Holders(n) :
                  Begin(p, IF users[a].verified THEN Idle ELSE into(a, Box("phone", a)))
  /\ UNCHANGED <<now, store, history>>

(* The signed-in customer, and the reminder that chases them.                *)
ResendEmail(p) ==
  /\ \E a \in Registered :
       /\ ~users[a].emailed
       /\ Begin(p, [Idle EXCEPT !.at = "issue", !.account = a, !.box = Box("email", a)])
  /\ UNCHANGED <<now, store, history, limiter>>

IssueCode(p) ==
  /\ At(p, "issue")
  /\ IF job[p].box.kind = "email" THEN Issue(p, Mail(job[p].account), job[p].account)
     ELSE Issue(p, {job[p].box}, job[p].number)
  /\ UNCHANGED <<now, begun, limiter>>

------------------------------------------------------------------------------
(* Presenting a code: it is compared with what was read, then counted or     *)
(* honoured by an update of its own.                                         *)
(* *Mistake:* a code that has been guessed at too often is still compared.   *)
AnsweredBoundless(b) == boxes[b].code = 0 \/ boxes[b].until < now
Answered(b) ==
  boxes[b].code = 0 \/ boxes[b].until < now \/ boxes[b].attempts >= MaxAttempts

Together(p, c) == \E q \in Slots \ {p} : At(q, "wrong") /\ job[q].code = c
Check(p, a, n, b) ==
  LET c == boxes[b].code
      compared(l) == [job EXCEPT ![p] = [Idle EXCEPT !.at = l, !.account = a, !.number = n,
                                                     !.box = b, !.code = c]] IN
  \/ Answered(b) /\ Done(p) /\ UNCHANGED codes
  \/ ~Answered(b) /\ job' = compared("right") /\ UNCHANGED codes
  \/ /\ ~Answered(b)
     /\ job' = compared("wrong")
     /\ codes' = [codes EXCEPT ![c].wrong = @ + 1,
                               ![c].together = IF Together(p, c) THEN @ + 1 ELSE @]

VerifyPhone(p) ==
  /\ Enter(p)
  /\ \E n \in Numbers :
       /\ Admit(<<"guess", n>>)
       /\ \/ /\ Holders(n) = {}
             /\ job' = [job EXCEPT ![p] = [Idle EXCEPT !.at = "pending", !.number = n]]
             /\ UNCHANGED codes
          \/ \E a \in Holders(n) :
               IF users[a].verified THEN UNCHANGED <<job, codes>>
               ELSE Check(p, a, n, Box("phone", a))
  /\ UNCHANGED <<now, store, raced, shared>>

VerifyEmailOtp(p) ==
  /\ Enter(p)
  /\ \E a \in Accounts :
       /\ Admit(<<"otp", a>>)
       /\ IF a \notin Registered \/ users[a].emailed THEN UNCHANGED <<job, codes>>
          ELSE Check(p, a, "none", Box("email", a))
  /\ UNCHANGED <<now, store, raced, shared>>

FindPending(p) ==
  /\ At(p, "pending")
  /\ Check(p, "none", job[p].number, Box("pending", job[p].number))
  /\ UNCHANGED <<now, store, begun, raced, shared, limiter>>

(* verify_email(): the account is found by the link itself.                  *)
OpenLink(p) ==
  /\ \E a \in Registered :
       LET b == Box("link", a) IN
       /\ boxes[b].code # 0 /\ boxes[b].until >= now
       /\ Begin(p, [Idle EXCEPT !.at = "right", !.account = a, !.box = b, !.code = boxes[b].code])
  /\ UNCHANGED <<now, store, history, limiter>>

CountWrong(p) ==
  /\ At(p, "wrong")
  /\ boxes' = [boxes EXCEPT ![job[p].box].attempts =
                 IF boxes[job[p].box].code = 0 THEN 0 ELSE @ + 1]
  /\ Done(p)
  /\ UNCHANGED <<now, users, welcomed, proofs, begun, history, limiter>>

(* A code honoured after a newer one was issued, and after it had opened an  *)
(* account, proves the number once more.                                     *)
Reopens(p) == job[p].stale /\ \E a \in Registered : users[a].opened = job[p].code
Honour(p) ==
  /\ At(p, "right")
  /\ LET b == job[p].box  a == job[p].account  n == job[p].number IN
     \/ /\ b.kind = "pending"
        /\ LET gone == boxes[b] = Empty /\ proofs[n] = NoProof IN
           /\ proofs' = [proofs EXCEPT ![n] =
                IF gone THEN @ ELSE [code |-> job[p].code, at |-> now, late |-> job[p].stale]]
           /\ boxes' = [boxes EXCEPT ![b] = Empty]
           /\ shared' = IF ~gone /\ Reopens(p) THEN shared \cup {job[p].code} ELSE shared
        /\ UNCHANGED <<users, raced>>
     \/ /\ b.kind = "phone"
        /\ users' = [users EXCEPT ![a].verified = TRUE, ![a].proof = job[p].code]
        /\ boxes' = [boxes EXCEPT ![b] = Empty]
        /\ raced' = IF job[p].stale THEN raced \cup {a} ELSE raced
        /\ UNCHANGED <<proofs, shared>>
     \/ /\ b.kind \in {"email", "link"}
        /\ users' = [users EXCEPT ![a].emailed = TRUE]
        /\ boxes' = [c \in Boxes |-> IF c \in Mail(a) THEN Empty ELSE boxes[c]]
        /\ UNCHANGED <<proofs, raced, shared>>
  /\ Done(p)
  /\ UNCHANGED <<now, welcomed, begun, codes, limiter>>

------------------------------------------------------------------------------
(* update_profile(): the number is compared with the one read before.        *)
UpdateProfile(p) ==
  /\ \E a \in Registered, n \in Numbers :
       Begin(p, [Idle EXCEPT !.at = "save", !.account = a, !.number = n,
                             !.changed = users[a].phone # n])
  /\ UNCHANGED <<now, store, history, limiter>>

(* *Mistake:* another number keeps the mark of the old one.                  *)
WithNumberAlone(user, n, changed) == [user EXCEPT !.phone = n]
WithNumber(user, n, changed) ==
  [user EXCEPT !.phone = n, !.verified = ~changed /\ @]

HasRead(q, a) == job[q].account = a /\ job[q].at \in {"right", "issue", "save", "bonus", "channel"}
SaveProfile(p) ==
  /\ At(p, "save")
  /\ LET a == job[p].account  n == job[p].number IN
     IF Holders(n) \ {a} # {}
     THEN Done(p) /\ UNCHANGED <<users, boxes, raced>>
     ELSE /\ users' = [users EXCEPT ![a] = WithNumber(@, n, job[p].changed)]
          /\ boxes' = IF job[p].changed THEN [boxes EXCEPT ![Box("phone", a)] = Empty] ELSE boxes
          /\ raced' = IF job[p].stale THEN raced \cup {a} ELSE raced
          /\ job' = [q \in Slots |->
               IF q = p THEN Idle
               ELSE IF users[a].phone # n /\ HasRead(q, a) THEN [job[q] EXCEPT !.stale = TRUE]
               ELSE job[q]]
  /\ UNCHANGED <<now, welcomed, proofs, begun, codes, shared, limiter>>

(* A store that fails, or a worker that stops: the request ends where it is. *)
Die(p) ==
  /\ ~At(p, "idle")
  /\ Done(p)
  /\ codes' = IF At(p, "wrong") THEN [codes EXCEPT ![job[p].code].lost = @ + 1] ELSE codes
  /\ shared' = IF job[p].at \in {"bonus", "channel"} /\ job[p].code # 0
               THEN shared \cup {job[p].code} ELSE shared
  /\ UNCHANGED <<now, store, begun, raced, limiter>>

Next ==
  \/ Tick
  \/ \E p \in Slots :
       \/ Register(p) \/ ReadProof(p) \/ InsertUser(p) \/ GrantBonus(p) \/ Channel(p)
       \/ ResendPhone(p) \/ ResendEmail(p) \/ IssueCode(p)
       \/ VerifyPhone(p) \/ VerifyEmailOtp(p) \/ FindPending(p) \/ OpenLink(p)
       \/ CountWrong(p) \/ Honour(p) \/ UpdateProfile(p) \/ SaveProfile(p) \/ Die(p)

Spec == Init /\ [][Next]_vars

------------------------------------------------------------------------------
(* Types, and that a number belongs to one account.                          *)
TypeOK ==
  /\ LimiterTypeOK /\ now \in Start..MaxNow
  /\ \A a \in Registered : users[a].phone \in Numbers /\ users[a].proof \in 0..Len(codes)
  /\ \A n \in Numbers : Cardinality(Holders(n)) <= 1
  /\ \A b \in Boxes : boxes[b].code \in 0..Len(codes) /\ boxes[b].attempts \in Nat
  /\ \A b \in Boxes : boxes[b].code # 0 => b \in codes[boxes[b].code].boxes
  /\ \A n \in Numbers : proofs[n].code \in 0..Len(codes)
  /\ begun \in 0..MaxRequests /\ raced \subseteq Registered
  /\ shared \subseteq 1..Len(codes)
  /\ \A p \in Slots : job[p].code \in 0..Len(codes) /\ job[p].account \in Accounts \cup {"none"}

(* "The account would still read as phone-verified for a number nobody       *)
(* confirmed" must not be: behind the mark there is a code that was texted   *)
(* to that very number and came back - and no later one, "a new code         *)
(* un-verifies the number" - but for a request that was under way when the   *)
(* number changed or the newer code was issued.                              *)
VerifiedMeansProven ==
  /\ \A a \in Registered \ raced :
       users[a].verified => users[a].proof # 0 /\ codes[users[a].proof].to = users[a].phone
  /\ \A n \in Numbers :
       proofs[n].code # 0 /\ ~proofs[n].late =>
         \A c \in 1..Len(codes) : Box("pending", n) \in codes[c].boxes => c <= proofs[n].code

(* "Without this the same proof could be replayed to create several          *)
(* accounts, each collecting the signup bonus": one proof opens one account, *)
(* unless two registrations read it before either was through with it, the   *)
(* first died before it had consumed it, or a second request that had        *)
(* compared the same code was overtaken by all that and by a newer code. So  *)
(* what an account is welcomed with is granted once, and once for a proof.   *)
ProofOpensOneAccount ==
  /\ \A a, b \in Registered :
       a # b /\ users[a].opened = users[b].opened /\ users[a].opened # 0 =>
         users[a].opened \in shared
  /\ \A a \in Accounts : welcomed[a] <= Cardinality({a} \cap Registered)

(* A code is burnt after its number of wrong guesses: what it is compared    *)
(* with beyond that was read while another guess was not yet counted - never *)
(* more than there are requests in flight - or had its request die before.   *)
GuessesAreBounded ==
  \A c \in 1..Len(codes) :
    /\ codes[c].wrong <= MaxAttempts + codes[c].together + codes[c].lost
    /\ codes[c].wrong <= MaxAttempts - 1 + Cardinality(Slots) + codes[c].lost
=============================================================================
