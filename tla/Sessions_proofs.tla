--------------------------- MODULE Sessions_proofs ---------------------------
(***************************************************************************)
(* Proofs about Sessions, for every number of tokens, of handlers at once  *)
(* and of handlers that end sessions.                                      *)
(*                                                                         *)
(* Each handler step is first reduced to what it does to the documents and *)
(* to the handlers (the effect lemmas): most of them only make documents   *)
(* harder to claim (DocsFade) and leave the other handlers as they are, or *)
(* mark them (JobsKept).  The invariants are proved from those effects.    *)
(***************************************************************************)
EXTENDS Sessions, TLAPS

\* Documents, handlers and alarms name families that exist, so a token that is
\* about to be stored for a sign-in starts a family nobody is in yet.
DocsNamed == 
  \A t \in Tokens : 
    refresh[t].status # "absent" => /\ refresh[t].family \in Tokens 
                                    /\ refresh[refresh[t].family].status # "absent"

HandlerNamed(h) ==
  /\ job[h].at \in {"find", "revokeFamily"} => job[h].family \in Tokens
  /\ job[h].at \in {"find", "issue", "revokeFamily"} /\ job[h].family \in Tokens =>
       refresh[job[h].family].status # "absent"
  /\ job[h].at \in {"look", "revokeOne"} => job[h].token \in Tokens

AlarmsNamed == \A f \in alarms : refresh[f].status # "absent"

Named == DocsNamed /\ (\A h \in Slots : HandlerNamed(h)) /\ AlarmsNamed

-----------------------------------------------------------------------------
(***************************************************************************)
(* What the steps do.                                                      *)
(***************************************************************************)

\* No token becomes easier to claim.
DocsFade ==
  \A t \in Tokens :
    /\ (refresh'[t].status = "absent") <=> (refresh[t].status = "absent")
    /\ refresh'[t].family = refresh[t].family
    /\ refresh[t].used => refresh'[t].used
    /\ t \in Live' => /\ t \in Live 
                      /\ refresh'[t].origin = refresh[t].origin
                      /\ refresh'[t].overlap = refresh[t].overlap

\* A handler stays where it is, but may be marked.
Kept(x) ==
  /\ job'[x].at = job[x].at
  /\ job[x].at # "idle" => /\ job'[x].token = job[x].token
                           /\ job'[x].family = job[x].family
                           /\ job'[x].ver = job[x].ver
                           /\ job'[x].origin = job[x].origin
                           /\ job[x].overlap => job'[x].overlap

JobsKept(h) == \A x \in Slots \ {h} : Kept(x)

\* A position makes a handler, and it is not the idle one.
LEMMA AtType ==
  ASSUME NEW p \in Positions
  PROVE  At(p) \in Job /\ At(p).at = p
BY DEF At, Job

\* A handler that is not idle has a whole record.
LEMMA JobType ==
  ASSUME TypeOK, NEW h \in Slots, job[h].at # "idle"
  PROVE  job[h] \in Job
BY DEF TypeOK, Idle

\* A Goto changes the handler's record and no other.
LEMMA GotoEffect ==
  ASSUME TypeOK, NEW h \in Slots, NEW from, NEW next \in Job \cup {Idle}, Goto(h, from, next)
  PROVE  /\ job[h].at = from
         /\ job' \in [Slots -> Job \cup {Idle}]
         /\ job'[h] = next
         /\ \A x \in Slots : x # h => job'[x] = job[x]
BY DEF TypeOK, Goto

\* A bulk revocation changes no document's status or family, leaves the others
\* alone, and those it hits cannot be claimed.
LEMMA RevokedEffect ==
  ASSUME TypeOK, NEW T \in SUBSET Tokens, refresh' = Revoked(T)
  PROVE  /\ refresh' \in [Tokens -> Document]
         /\ \A t \in Tokens : /\ refresh'[t].status = refresh[t].status
                              /\ refresh'[t].family = refresh[t].family
                              /\ refresh'[t].used = refresh[t].used
         /\ \A t \in T : refresh'[t].revoked
         /\ \A t \in Tokens \ T : refresh'[t] = refresh[t]
<1>1. ASSUME NEW t \in Tokens
      PROVE  LET d == Forget([refresh[t] EXCEPT !.revoked = TRUE])
             IN  /\ d \in Document
                 /\ d.status = refresh[t].status
                 /\ d.family = refresh[t].family
                 /\ d.used = refresh[t].used
                 /\ d.revoked
  BY DEF TypeOK, Document, Forget
<1>2. QED
  BY <1>1 DEF TypeOK, Revoked

\* Marking handlers keeps their positions and what they hold.
LEMMA OverlappedEffect ==
  ASSUME TypeOK, NEW h \in Slots, NEW next \in Job \cup {Idle}, NEW H \in SUBSET Mints,
         job' = Overlapped(h, next, H)
  PROVE  /\ job' \in [Slots -> Job \cup {Idle}]
         /\ job'[h] = next
         /\ \A x \in Slots : x # h => /\ job'[x].at = job[x].at
                                      /\ x \in Mints => /\ job'[x].family = job[x].family
                                                        /\ job'[x].token = job[x].token
                                                        /\ job'[x].ver = job[x].ver
                                                        /\ job'[x].origin = job[x].origin
                                      /\ x \notin H => job'[x] = job[x]
         /\ \A x \in H : x # h => job'[x].overlap
<1>1. ASSUME NEW x \in H
      PROVE  LET j == [job[x] EXCEPT !.overlap = TRUE]
             IN  /\ x \in Slots
                 /\ j \in Job
                 /\ j.at = job[x].at
                 /\ j.family = job[x].family
                 /\ j.token = job[x].token
                 /\ j.ver = job[x].ver
                 /\ j.origin = job[x].origin
                 /\ j.overlap
  <2>1. x \in Slots /\ job[x].at # "idle"
    BY DEF Mints, Minting
  <2>2. job[x] \in Job
    BY <2>1, JobType
  <2>3. QED
    BY <2>1, <2>2 DEF Job
<1>2. QED
  BY <1>1 DEF TypeOK, Overlapped

\* Minting and bumping keep access a set of access tokens.
LEMMA AccessType ==
  ASSUME TypeOK
  PROVE  /\ \A a \in AccessToken : Mint(a) => access' \in SUBSET AccessToken
         /\ BumpVersion => access' \in SUBSET AccessToken /\ version' \in Nat
BY DEF TypeOK, Mint, BumpVersion, Admits

\* Documents that nobody touched have not become easier to claim.
LEMMA SameDocsFade ==
  ASSUME refresh' = refresh
  PROVE  DocsFade
BY DEF DocsFade, Live, Stored

\* A Goto keeps the other handlers.
LEMMA GotoKeeps ==
  ASSUME TypeOK, NEW h \in Slots, NEW from, NEW next \in Job \cup {Idle}, Goto(h, from, next)
  PROVE  JobsKept(h)
BY GotoEffect DEF JobsKept, Kept

\* login reads the user and goes on to issue a session of its own.
LEMMA LoginReadEffect ==
  ASSUME TypeOK, NEW h \in Slots, LoginRead(h)
  PROVE  /\ TypeOK' /\ DocsFade /\ JobsKept(h)
         /\ job'[h].at = "issue" /\ job'[h].family = NoToken
         /\ job'[h].ver = version /\ job'[h].origin = sweeps
         /\ job'[h].overlap = WindowOpen
         /\ UNCHANGED <<userVars, tokenVars, history>>
<1> DEFINE next == [At("issue") EXCEPT !.ver = version, !.origin = sweeps, 
                                       !.overlap = WindowOpen]
<1>1. /\ next \in Job /\ next.at = "issue" /\ next.family = NoToken
      /\ next.ver = version /\ next.origin = sweeps /\ next.overlap = WindowOpen
  BY DEF At, Job, Positions, Minting, TypeOK, WindowOpen
<1>2. Goto(h, "idle", next) /\ UNCHANGED <<userVars, tokenVars, history>>
  BY DEF LoginRead
<1> HIDE DEF next
<1>3. job' \in [Slots -> Job \cup {Idle}] /\ job'[h] = next /\ JobsKept(h)
  BY <1>1, <1>2, GotoEffect, GotoKeeps
<1>4. TypeOK'
  BY <1>2, <1>3 DEF TypeOK, userVars, tokenVars, history
<1>5. QED
  BY <1>1, <1>2, <1>3, <1>4, SameDocsFade DEF tokenVars

\* A token is stored under a name that was free.
LEMMA IssueEffect ==
  ASSUME TypeOK, NEW h \in Slots, Issue(h)
  PROVE  /\ TypeOK' /\ JobsKept(h) /\ job[h] \in Job /\ job[h].at = "issue" /\ job'[h] = Idle
         /\ Mint([ver |-> job[h].ver, origin |-> job[h].origin, overlap |-> job[h].overlap])
         /\ UNCHANGED <<userVars, replayed, history>>
         /\ \E t \in Tokens :
              /\ refresh[t].status = "absent" /\ refresh'[t].status = "stored"
              /\ refresh'[t].family = IF job[h].family = NoToken THEN t ELSE job[h].family
              /\ refresh'[t].origin = job[h].origin /\ refresh'[t].overlap = job[h].overlap
              /\ \A u \in Tokens : u # t => refresh'[u] = refresh[u]
<1>1. Goto(h, "issue", Idle) /\ UNCHANGED <<userVars, replayed, history>>
  BY DEF Issue
<1>2. job[h] \in Job /\ job[h].at = "issue"
  BY <1>1, JobType DEF Goto
<1>3. job' \in [Slots -> Job \cup {Idle}] /\ job'[h] = Idle /\ JobsKept(h)
  BY <1>1, GotoEffect, GotoKeeps
<1>4. Mint([ver |-> job[h].ver, origin |-> job[h].origin, overlap |-> job[h].overlap])
  BY DEF Issue
<1>5. access' \in SUBSET AccessToken
  <2>1. [ver |-> job[h].ver, origin |-> job[h].origin, overlap |-> job[h].overlap] \in AccessToken
    BY <1>2 DEF Job, AccessToken
  <2>2. QED
    BY <1>4, <2>1, AccessType
<1>6. PICK t \in Tokens :
        /\ refresh[t].status = "absent"
        /\ refresh' = [refresh EXCEPT ![t] =
             [status |-> "stored", used |-> FALSE, revoked |-> FALSE, expired |-> FALSE,
              family |-> IF job[h].family = NoToken THEN t ELSE job[h].family,
              origin |-> job[h].origin, overlap |-> job[h].overlap]]
  BY DEF Issue
<1>7. refresh' \in [Tokens -> Document]
  BY <1>2, <1>6 DEF TypeOK, Document, Job
<1>8. TypeOK'
  BY <1>1, <1>3, <1>5, <1>7 DEF TypeOK, userVars, history
<1>9. /\ refresh'[t].status = "stored"
      /\ refresh'[t].family = IF job[h].family = NoToken THEN t ELSE job[h].family
      /\ refresh'[t].origin = job[h].origin /\ refresh'[t].overlap = job[h].overlap
      /\ \A u \in Tokens : u # t => refresh'[u] = refresh[u]
  BY <1>6 DEF TypeOK
<1>10. QED
  BY <1>1, <1>2, <1>3, <1>4, <1>6, <1>8, <1>9

\* A token that could be claimed no longer can, and the handler carries its
\* family on unless it had expired.
LEMMA ClaimEffect ==
  ASSUME TypeOK, DocsNamed, NEW h \in Slots, NEW t \in Tokens, Claim(h, t)
  PROVE  /\ TypeOK' /\ DocsFade /\ JobsKept(h)
         /\ t \in Live /\ t \notin Live'
         /\ \/ job'[h] = Idle
            \/ /\ job'[h] \in Job /\ job'[h].at = "find"
               /\ job'[h].family = refresh[t].family
               /\ job'[h].origin = refresh[t].origin
               /\ job'[h].overlap = refresh[t].overlap
         /\ UNCHANGED <<userVars, access, replayed, history>>
<1> DEFINE next == IF refresh[t].expired THEN Idle
                   ELSE [At("find") EXCEPT !.family = refresh[t].family,
                                           !.origin = refresh[t].origin,
                                           !.overlap = refresh[t].overlap]
<1>1. t \in Live
  BY DEF Claim, Claimable, Live, Stored
<1>2. \/ next = Idle
      \/ /\ next \in Job /\ next.at = "find" /\ next.family = refresh[t].family
         /\ next.origin = refresh[t].origin /\ next.overlap = refresh[t].overlap
  BY DEF At, Job, Positions, Minting, TypeOK, Document
<1>3. Goto(h, "idle", next) /\ UNCHANGED <<userVars, access, replayed, history>>
  BY DEF Claim
<1> HIDE DEF next
<1>4. job' \in [Slots -> Job \cup {Idle}] /\ job'[h] = next /\ JobsKept(h)
  BY <1>2, <1>3, GotoEffect, GotoKeeps
<1>5. /\ refresh' \in [Tokens -> Document]
      /\ refresh'[t].status = refresh[t].status /\ refresh'[t].family = refresh[t].family
      /\ refresh'[t].used
      /\ \A u \in Tokens : u # t => refresh'[u] = refresh[u]
  BY DEF Claim, Forget, TypeOK, Document
<1>6. TypeOK'
  BY <1>3, <1>4, <1>5 DEF TypeOK, userVars, history
<1>7. DocsFade /\ t \notin Live'
  BY <1>5 DEF DocsFade, Live, Stored
<1>8. QED
  BY <1>1, <1>2, <1>3, <1>4, <1>6, <1>7

\* The user is read after the claim: the version is the one of that moment.
LEMMA FindUserEffect ==
  ASSUME TypeOK, NEW h \in Slots, FindUser(h)
  PROVE  /\ TypeOK' /\ DocsFade /\ JobsKept(h)
         /\ job[h] \in Job /\ job[h].at = "find"
         /\ job'[h].at = "issue" /\ job'[h].family = job[h].family
         /\ job'[h].ver = version /\ job'[h].origin = job[h].origin
         /\ job'[h].overlap = (job[h].overlap \/ WindowOpen)
         /\ UNCHANGED <<userVars, tokenVars, history>>
<1> DEFINE next == [job[h] EXCEPT !.at = "issue", !.ver = version,
                                  !.overlap = @ \/ WindowOpen]
<1>1. job[h] \in Job /\ job[h].at = "find"
  BY JobType DEF FindUser, Goto
<1>2. /\ next \in Job /\ next.at = "issue" /\ next.family = job[h].family
      /\ next.ver = version /\ next.origin = job[h].origin
      /\ next.overlap = (job[h].overlap \/ WindowOpen)
  BY <1>1 DEF Job, Positions, Minting, TypeOK, WindowOpen
<1>3. Goto(h, "find", next) /\ UNCHANGED <<userVars, tokenVars, history>>
  BY DEF FindUser
<1> HIDE DEF next
<1>4. job' \in [Slots -> Job \cup {Idle}] /\ job'[h] = next /\ JobsKept(h)
  BY <1>2, <1>3, GotoEffect, GotoKeeps
<1>5. TypeOK'
  BY <1>3, <1>4 DEF TypeOK, userVars, tokenVars, history
<1>6. QED
  BY <1>1, <1>2, <1>3, <1>4, <1>5, SameDocsFade DEF tokenVars

\* A presentation that cannot be claimed is remembered and looked into.
LEMMA ClaimFailsEffect ==
  ASSUME TypeOK, NEW h \in Slots, NEW t \in Tokens, ClaimFails(h, t)
  PROVE  /\ TypeOK' /\ DocsFade /\ JobsKept(h)
         /\ job'[h].at = "look" /\ job'[h].token = t
         /\ replayed' = replayed \cup {t}
         /\ UNCHANGED <<userVars, refresh, access, history>>
<1> DEFINE next == [At("look") EXCEPT !.token = t]
<1>1. next \in Job /\ next.at = "look" /\ next.token = t
  BY DEF At, Job, Positions
<1>2. Goto(h, "idle", next) /\ UNCHANGED <<userVars, refresh, access, history>>
      /\ replayed' = replayed \cup {t}
  BY DEF ClaimFails
<1> HIDE DEF next
<1>3. job' \in [Slots -> Job \cup {Idle}] /\ job'[h] = next /\ JobsKept(h)
  BY <1>1, <1>2, GotoEffect, GotoKeeps
<1>4. TypeOK'
  BY <1>2, <1>3 DEF TypeOK, userVars, history
<1>5. QED
  BY <1>1, <1>2, <1>3, <1>4, SameDocsFade

\* Only a spent token sends the handler on to revoke its family.
LEMMA LookEffect ==
  ASSUME TypeOK, DocsNamed, NEW h \in Slots, HandlerNamed(h), Look(h)
  PROVE  /\ TypeOK' /\ DocsFade /\ JobsKept(h)
         /\ job[h].at = "look" /\ job[h].token \in Tokens
         /\ \/ job'[h] = Idle
            \/ /\ job'[h] \in Job /\ job'[h].at = "revokeFamily"
               /\ refresh[job[h].token].status # "absent" /\ refresh[job[h].token].used
               /\ job'[h].family = refresh[job[h].token].family
         /\ UNCHANGED <<userVars, tokenVars, history>>
<1> DEFINE t == job[h].token
           next == IF Reused(t) 
                   THEN [At("revokeFamily") EXCEPT !.family = refresh[t].family]
                   ELSE Idle
<1>1. Goto(h, "look", next) /\ UNCHANGED <<userVars, tokenVars, history>>
  BY DEF Look
<1>2. job[h].at = "look" /\ t \in Tokens
  BY <1>1 DEF Goto, HandlerNamed
<1>3. \/ next = Idle
      \/ /\ next \in Job /\ next.at = "revokeFamily" /\ next.family = refresh[t].family
         /\ refresh[t].status # "absent" /\ refresh[t].used
  BY <1>2 DEF Reused, DocsNamed, At, Job, Positions
<1> HIDE DEF next
<1>4. job' \in [Slots -> Job \cup {Idle}] /\ job'[h] = next /\ JobsKept(h)
  BY <1>1, <1>3, GotoEffect, GotoKeeps
<1>5. TypeOK'
  BY <1>1, <1>4 DEF TypeOK, userVars, tokenVars, history
<1>6. QED
  BY <1>1, <1>2, <1>3, <1>4, <1>5, SameDocsFade DEF tokenVars

\* Bulk revocation only makes documents harder to claim.
LEMMA RevokedFades ==
  ASSUME TypeOK, NEW T \in SUBSET Tokens, refresh' = Revoked(T)
  PROVE  /\ refresh' \in [Tokens -> Document] /\ DocsFade
         /\ \A t \in T : t \notin Live'
<1>1. /\ refresh' \in [Tokens -> Document]
      /\ \A t \in Tokens : /\ refresh'[t].status = refresh[t].status
                           /\ refresh'[t].family = refresh[t].family
                           /\ refresh'[t].used = refresh[t].used
      /\ \A t \in T : refresh'[t].revoked
      /\ \A t \in Tokens \ T : refresh'[t] = refresh[t]
  BY RevokedEffect
<1>2. \A t \in T : t \notin Live'
  BY <1>1 DEF Live
<1>3. DocsFade
  <2> SUFFICES ASSUME NEW t \in Tokens
               PROVE  /\ (refresh'[t].status = "absent") <=> (refresh[t].status = "absent")
                      /\ refresh'[t].family = refresh[t].family
                      /\ refresh[t].used => refresh'[t].used
                      /\ t \in Live' => /\ t \in Live 
                                        /\ refresh'[t].origin = refresh[t].origin
                                        /\ refresh'[t].overlap = refresh[t].overlap
    BY DEF DocsFade
  <2>1. t \in Live' => t \notin T
    BY <1>2
  <2>2. QED
    BY <1>1, <2>1 DEF Live, Stored
<1>4. QED
  BY <1>1, <1>2, <1>3

\* Marking minting handlers keeps what they hold.
LEMMA OverlappedKeeps ==
  ASSUME TypeOK, NEW h \in Slots, NEW next \in Job \cup {Idle}, NEW H \in SUBSET Mints,
         job' = Overlapped(h, next, H)
  PROVE  /\ job' \in [Slots -> Job \cup {Idle}] /\ job'[h] = next /\ JobsKept(h)
         /\ \A x \in H : x # h => job'[x].overlap
<1>1. /\ job' \in [Slots -> Job \cup {Idle}]
      /\ job'[h] = next
      /\ \A x \in Slots : x # h => /\ job'[x].at = job[x].at
                                   /\ x \in Mints => /\ job'[x].family = job[x].family
                                                     /\ job'[x].token = job[x].token
                                                     /\ job'[x].ver = job[x].ver
                                                     /\ job'[x].origin = job[x].origin
                                   /\ x \notin H => job'[x] = job[x]
      /\ \A x \in H : x # h => job'[x].overlap
  BY OverlappedEffect
<1>2. QED
  BY <1>1 DEF JobsKept, Kept

\* Every token of the family is beyond claiming, and who renews one is marked.
LEMMA RevokeFamilyEffect ==
  ASSUME TypeOK, NEW h \in Slots, HandlerNamed(h), RevokeFamily(h)
  PROVE  /\ TypeOK' /\ DocsFade /\ JobsKept(h)
         /\ job[h].at = "revokeFamily" /\ job[h].family \in Tokens /\ job'[h] = Idle
         /\ \A t \in Tokens : refresh[t].family = job[h].family => t \notin Live'
         /\ \A x \in Slots : x # h /\ job[x].at \in {"find", "issue"} /\ job[x].family = job[h].family
                             => job'[x].overlap
         /\ alarms' = alarms \cup {job[h].family}
         /\ UNCHANGED <<userVars, access, replayed, revocations, sweeps, cut>>
<1> DEFINE f == job[h].family
           H == {x \in Mints : job[x].family = f}
<1>1. job[h].at = "revokeFamily" /\ f \in Tokens
  BY DEF RevokeFamily, HandlerNamed
<1>2. Family(f) \in SUBSET Tokens /\ H \in SUBSET Mints
  BY DEF Family, Stored
<1>3. /\ refresh' = Revoked(Family(f)) /\ job' = Overlapped(h, Idle, H)
      /\ alarms' = alarms \cup {f}
      /\ UNCHANGED <<userVars, access, replayed, revocations, sweeps, cut>>
  BY DEF RevokeFamily
<1>4. \A x \in Slots : job[x].at \in {"find", "issue"} /\ job[x].family = f => x \in H
  BY DEF Mints, Minting
<1> HIDE DEF H
<1>5. refresh' \in [Tokens -> Document] /\ DocsFade /\ \A t \in Family(f) : t \notin Live'
  BY <1>2, <1>3, RevokedFades
<1>6. \A t \in Tokens : refresh[t].family = f => t \notin Live'
  <2>1. ASSUME NEW t \in Tokens, refresh[t].family = f, t \in Live' PROVE FALSE
    <3>1. t \in Live
      BY <1>5, <2>1 DEF DocsFade
    <3>2. t \in Family(f)
      BY <2>1, <3>1 DEF Live, Family
    <3>3. QED
      BY <1>5, <2>1, <3>2
  <2>2. QED
    BY <2>1
<1>7. /\ job' \in [Slots -> Job \cup {Idle}] /\ job'[h] = Idle /\ JobsKept(h)
      /\ \A x \in H : x # h => job'[x].overlap
  BY <1>2, <1>3, OverlappedKeeps
<1>8. TypeOK'
  BY <1>1, <1>3, <1>5, <1>7 DEF TypeOK, userVars
<1>9. \A x \in Slots : x # h /\ job[x].at \in {"find", "issue"} /\ job[x].family = f 
                       => job'[x].overlap
  BY <1>4, <1>7
<1>10. QED
  BY <1>1, <1>3, <1>5, <1>6, <1>7, <1>8, <1>9

\* The positions a step of SignOut or Password may leave its handler in when it
\* neither writes a password nor sweeps nor bumps.
Neutral == {"idle", "revokeOne", "logoutSweep", "closeSweep", "change", "reset", "saveLink"}

\* Starting, dying, storing a link and signing out one session.
Quiet(h) ==
  \/ \E t \in Tokens : LogoutOne(h, t)
  \/ RevokeOne(h) \/ LogoutAll(h) \/ CloseAccount(h) \/ ChangePassword(h) 
  \/ ResetPassword(h) \/ ForgotPassword(h) \/ SaveLink(h) \/ Die(h)

\* Those steps touch nothing that the invariants look at, but a document that
\* may fade.
LEMMA QuietEffect ==
  ASSUME TypeOK, NEW h \in Slots, HandlerNamed(h), Quiet(h)
  PROVE  /\ TypeOK' /\ DocsFade /\ JobsKept(h)
         /\ job'[h].at \in Neutral 
         /\ job'[h].at = "revokeOne" => job'[h].token \in Tokens
         /\ UNCHANGED <<version, access, replayed, sweeps, cut, alarms>>
<1>1. ASSUME NEW t \in Tokens, LogoutOne(h, t)
      PROVE  /\ TypeOK' /\ DocsFade /\ JobsKept(h)
             /\ job'[h].at = "revokeOne" /\ job'[h].token \in Tokens
             /\ UNCHANGED <<version, access, replayed, sweeps, cut, alarms>>
  <2> DEFINE next == [At("revokeOne") EXCEPT !.token = t]
  <2>1. next \in Job /\ next.at = "revokeOne" /\ next.token = t
    BY DEF At, Job, Positions
  <2>2. Goto(h, "idle", next) /\ UNCHANGED <<userVars, tokenVars, history>>
    BY <1>1 DEF LogoutOne
  <2> HIDE DEF next
  <2>3. job' \in [Slots -> Job \cup {Idle}] /\ job'[h] = next /\ JobsKept(h)
    BY <2>1, <2>2, GotoEffect, GotoKeeps
  <2>4. QED
    BY <2>1, <2>2, <2>3, SameDocsFade DEF TypeOK, userVars, tokenVars, history
<1>2. CASE RevokeOne(h)
  <2>1. Goto(h, "revokeOne", Idle) /\ refresh' = Revoked(Stored \cap {job[h].token})
    BY <1>2 DEF RevokeOne
  <2>2. refresh' \in [Tokens -> Document] /\ DocsFade
    <3>1. Stored \cap {job[h].token} \in SUBSET Tokens
      BY DEF Stored
    <3>2. QED
      BY <2>1, <3>1, RevokedFades
  <2>3. job' \in [Slots -> Job \cup {Idle}] /\ job'[h] = Idle /\ JobsKept(h)
    BY <2>1, GotoEffect, GotoKeeps
  <2>4. QED
    BY <1>2, <2>2, <2>3 DEF RevokeOne, TypeOK, userVars, history, Idle, Neutral
<1>3. ASSUME NEW p \in Revoking \cap Neutral, StartRevoking(h, p)
      PROVE  /\ TypeOK' /\ DocsFade /\ JobsKept(h) /\ job'[h].at = p
             /\ UNCHANGED <<version, access, replayed, sweeps, cut, alarms>>
  <2>1. At(p) \in Job /\ At(p).at = p
    BY AtType DEF Positions
  <2>2. Goto(h, "idle", At(p)) /\ UNCHANGED <<userVars, tokenVars, sweeps, cut, alarms>>
    BY <1>3 DEF StartRevoking
  <2>3. job' \in [Slots -> Job \cup {Idle}] /\ job'[h] = At(p) /\ JobsKept(h)
    BY <2>1, <2>2, GotoEffect, GotoKeeps
  <2>4. revocations' \in 0..MaxRevocations
    BY <1>3, SessionsAssumption DEF StartRevoking, TypeOK
  <2>5. QED
    BY <2>1, <2>2, <2>3, <2>4, SameDocsFade DEF TypeOK, userVars, tokenVars
<1>4. CASE LogoutAll(h) \/ CloseAccount(h) \/ ChangePassword(h) \/ ResetPassword(h)
  <2>1. PICK p \in {"logoutSweep", "closeSweep", "change", "reset"} : StartRevoking(h, p)
    BY <1>4 DEF LogoutAll, CloseAccount, ChangePassword, ResetPassword
  <2>2. p \in Revoking \cap Neutral /\ p # "revokeOne"
    BY DEF Revoking, Neutral
  <2>3. QED
    BY <1>3, <2>1, <2>2
<1>5. CASE ForgotPassword(h)
  <2>1. At("saveLink") \in Job /\ At("saveLink").at = "saveLink"
    BY AtType DEF Positions
  <2>2. Goto(h, "idle", At("saveLink")) /\ UNCHANGED <<userVars, tokenVars, history>>
    BY <1>5 DEF ForgotPassword
  <2>3. job' \in [Slots -> Job \cup {Idle}] /\ job'[h] = At("saveLink") /\ JobsKept(h)
    BY <2>1, <2>2, GotoEffect, GotoKeeps
  <2>4. QED
    BY <2>1, <2>2, <2>3, SameDocsFade DEF TypeOK, userVars, tokenVars, history, Neutral
<1>6. CASE SaveLink(h)
  <2>1. job' \in [Slots -> Job \cup {Idle}] /\ job'[h] = Idle /\ JobsKept(h)
    BY <1>6, GotoEffect, GotoKeeps DEF SaveLink
  <2>2. QED
    BY <1>6, <2>1, SameDocsFade DEF SaveLink, TypeOK, tokenVars, history, Neutral, Idle
<1>7. CASE Die(h)
  <2>1. Goto(h, job[h].at, Idle)
    BY <1>7 DEF Die, Goto
  <2>2. job' \in [Slots -> Job \cup {Idle}] /\ job'[h] = Idle /\ JobsKept(h)
    BY <2>1, GotoEffect, GotoKeeps
  <2>3. QED
    BY <1>7, <2>2, SameDocsFade DEF Die, TypeOK, userVars, tokenVars, history, Neutral, Idle
<1>8. QED
  <2>1. "revokeOne" \in Neutral
    BY DEF Neutral
  <2>2. QED
    BY <1>1, <1>2, <1>4, <1>5, <1>6, <1>7, <2>1 DEF Quiet

\* Time passing changes no handler and makes no document easier to claim.
LEMMA TimeEffect ==
  ASSUME TypeOK, LinkExpires \/ \E t \in Tokens : Expire(t) \/ Remove(t)
  PROVE  TypeOK' /\ DocsFade /\ UNCHANGED <<job, version, access, replayed, sweeps, cut, alarms>>
<1>1. CASE LinkExpires
  BY <1>1, SameDocsFade DEF LinkExpires, TypeOK, tokenVars, history
<1>2. ASSUME NEW t \in Tokens, Expire(t) \/ Remove(t)
      PROVE  refresh' \in [Tokens -> Document] /\ DocsFade /\ 
             UNCHANGED <<userVars, access, replayed, job, history>>
  <2>1. UNCHANGED <<userVars, access, replayed, job, history>>
    BY <1>2 DEF Expire, Remove
  <2>2. /\ refresh' \in [Tokens -> Document]
        /\ \A u \in Tokens : u # t => refresh'[u] = refresh[u]
        /\ refresh[t].status = "stored"
        /\ refresh'[t].family = refresh[t].family
        /\ refresh'[t].used = refresh[t].used
        /\ \/ refresh'[t].status = "gone"
           \/ /\ refresh'[t].status = refresh[t].status
              /\ refresh'[t].revoked = refresh[t].revoked
              /\ refresh'[t].origin = refresh[t].origin
              /\ refresh'[t].overlap = refresh[t].overlap
    <3>1. CASE Expire(t)
      BY <3>1 DEF Expire, Claimable, TypeOK, Document
    <3>2. CASE Remove(t)
      <4>1. refresh[t] \in Document /\ refresh[t].status = "stored"
        BY <3>2 DEF Remove, TypeOK
      <4>2. [NoDocument EXCEPT !.status = "gone", !.family = refresh[t].family,
                               !.used = refresh[t].used] \in Document
        BY <4>1 DEF NoDocument, Document
      <4>3. QED
        BY <3>2, <4>1, <4>2 DEF Remove, TypeOK, NoDocument
    <3>3. QED
      BY <1>2, <3>1, <3>2
  <2>3. DocsFade
    BY <2>2 DEF DocsFade, Live, Stored
  <2>4. QED
    BY <2>1, <2>2, <2>3
<1>3. ASSUME NEW t \in Tokens, Expire(t) \/ Remove(t) PROVE TypeOK'
  BY <1>2, <1>3 DEF TypeOK, userVars, history
<1>4. QED
  BY <1>1, <1>2, <1>3 DEF userVars, history

\* A password write bumps the version and opens the window.
LEMMA WriteEffect ==
  ASSUME TypeOK, NEW h \in Slots, WriteChange(h) \/ WriteReset(h)
  PROVE  /\ TypeOK' /\ DocsFade /\ JobsKept(h)
         /\ job'[h].at \in {"changeSweep", "resetSweep"}
         /\ BumpVersion
         /\ UNCHANGED <<replayed, history>>
<1>1. PICK p \in {"changeSweep", "resetSweep"}, q \in {"change", "reset"} : Goto(h, q, At(p))
  BY DEF WriteChange, WriteReset
<1>2. At(p) \in Job /\ At(p).at = p
  BY AtType DEF Positions, Revoking
<1>3. job' \in [Slots -> Job \cup {Idle}] /\ job'[h] = At(p) /\ JobsKept(h)
  BY <1>1, <1>2, GotoEffect, GotoKeeps
<1>4. BumpVersion /\ UNCHANGED <<closed, refresh, replayed, history>> /\ link' \in BOOLEAN
  BY DEF WriteChange, WriteReset, TypeOK
<1>5. TypeOK'
  BY <1>3, <1>4, AccessType DEF TypeOK, history
<1>6. QED
  BY <1>2, <1>3, <1>4, <1>5, SameDocsFade

\* A bump after the sweep; the account may be closed with it.
LEMMA BumpEffect ==
  ASSUME TypeOK, NEW h \in Slots, Bump(h) \/ Anonymise(h)
  PROVE  /\ TypeOK' /\ DocsFade /\ JobsKept(h)
         /\ job[h].at \in {"bump", "anonymise"} /\ job[h] \in Job /\ job'[h] = Idle
         /\ BumpVersion
         /\ cut' = IF cut < job[h].origin THEN job[h].origin ELSE cut
         /\ UNCHANGED <<replayed, sweeps, alarms>>
<1>1. PICK q \in {"bump", "anonymise"} : Goto(h, q, Idle)
  BY DEF Bump, Anonymise
<1>2. job[h].at = q /\ job[h] \in Job
  BY <1>1, JobType DEF Goto
<1>3. job' \in [Slots -> Job \cup {Idle}] /\ job'[h] = Idle /\ JobsKept(h)
  BY <1>1, GotoEffect, GotoKeeps
<1>4. /\ BumpVersion /\ closed' \in BOOLEAN /\ link' \in BOOLEAN
      /\ UNCHANGED <<refresh, replayed, revocations, sweeps, alarms>>
      /\ cut' = IF cut < job[h].origin THEN job[h].origin ELSE cut
  BY DEF Bump, Anonymise, BumpAfterSweep, TypeOK
<1>5. cut' \in Nat
  BY <1>2, <1>4 DEF TypeOK, Job
<1>6. TypeOK'
  BY <1>3, <1>4, <1>5, AccessType DEF TypeOK
<1>7. QED
  BY <1>2, <1>3, <1>4, <1>6, SameDocsFade

Sweep(h) == SweepReset(h) \/ SweepChange(h) \/ SweepLogout(h) \/ SweepClose(h)

\* A sweep leaves nothing to claim and marks every handler that is minting.
LEMMA SweepEffect ==
  ASSUME TypeOK, NEW h \in Slots, Sweep(h)
  PROVE  /\ TypeOK' /\ DocsFade /\ JobsKept(h)
         /\ Live' = {}
         /\ \A x \in Slots : x # h /\ job[x].at \in Minting => job'[x].overlap
         /\ sweeps' = sweeps + 1
         /\ \/ /\ job[h].at \in {"resetSweep", "changeSweep"} /\ cut' = sweeps'
               /\ job'[h].at \in {"idle", "reread"}
            \/ /\ job[h].at \in {"logoutSweep", "closeSweep"} /\ cut' = cut
               /\ job'[h].at \in {"bump", "anonymise"}
         /\ job'[h].at # "idle" => job'[h].origin = sweeps'
         /\ UNCHANGED <<version, access, replayed, alarms>>
<1>1. PICK next \in Job \cup {Idle} : 
        /\ RevokeAll(h, next)
        /\ \/ /\ job[h].at \in {"resetSweep", "changeSweep"} /\ cut' = sweeps'
              /\ next.at \in {"idle", "reread"}
           \/ /\ job[h].at \in {"logoutSweep", "closeSweep"} /\ cut' = cut
              /\ next.at \in {"bump", "anonymise"}
        /\ next.at # "idle" => next.origin = sweeps + 1
  <2>1. CASE SweepReset(h)
    BY <2>1 DEF SweepReset, Idle
  <2>2. ASSUME NEW p \in {"reread", "bump", "anonymise"}
        PROVE  LET j == [At(p) EXCEPT !.origin = sweeps + 1]
               IN  j \in Job /\ j.at = p /\ j.origin = sweeps + 1
    <3>1. p \in Positions
      BY DEF Positions, Minting, Revoking
    <3>2. At(p) \in Job /\ sweeps + 1 \in Nat
      BY <3>1, AtType DEF TypeOK
    <3>3. QED
      BY <3>2 DEF At, Job
  <2>3. QED
    BY <2>1, <2>2 DEF Sweep, SweepChange, SweepLogout, SweepClose
<1>2. Stored \in SUBSET Tokens /\ Mints \in SUBSET Mints
  BY DEF Stored
<1>3. /\ refresh' = Revoked(Stored) /\ job' = Overlapped(h, next, Mints) /\ sweeps' = sweeps + 1
      /\ UNCHANGED <<userVars, access, replayed, revocations, alarms>>
  BY <1>1 DEF RevokeAll
<1>4. refresh' \in [Tokens -> Document] /\ DocsFade /\ \A t \in Stored : t \notin Live'
  BY <1>2, <1>3, RevokedFades
<1>5. Live' = {}
  <2>1. ASSUME NEW t \in Live' PROVE FALSE
    <3>1. t \in Tokens
      BY <2>1 DEF Live, Stored
    <3>2. t \in Stored
      BY <1>4, <2>1, <3>1 DEF DocsFade, Live
    <3>3. QED
      BY <1>4, <2>1, <3>2
  <2>2. QED
    BY <2>1
<1>6. /\ job' \in [Slots -> Job \cup {Idle}] /\ job'[h] = next /\ JobsKept(h)
      /\ \A x \in Mints : x # h => job'[x].overlap
  BY <1>1, <1>2, <1>3, OverlappedKeeps
<1>7. \A x \in Slots : x # h /\ job[x].at \in Minting => job'[x].overlap
  BY <1>6 DEF Mints
<1>8. sweeps' \in Nat /\ cut' \in Nat
  BY <1>1, <1>3 DEF TypeOK
<1>9. TypeOK'
  BY <1>3, <1>4, <1>6, <1>8 DEF TypeOK, userVars
<1>10. QED
  BY <1>1, <1>3, <1>4, <1>5, <1>6, <1>7, <1>9 DEF userVars

\* The caller of change_password is handed a token of the version read now.
LEMMA RereadEffect ==
  ASSUME TypeOK, NEW h \in Slots, Reread(h)
  PROVE  /\ TypeOK' /\ DocsFade /\ JobsKept(h)
         /\ job[h] \in Job /\ job[h].at = "reread" /\ job'[h] = Idle
         /\ Mint([ver |-> version, origin |-> job[h].origin,
                  overlap |-> job[h].overlap \/ WindowOpen])
         /\ UNCHANGED <<userVars, refresh, replayed, history>>
<1>1. /\ Goto(h, "reread", Idle) /\ UNCHANGED <<userVars, refresh, replayed, history>>
      /\ Mint([ver |-> version, origin |-> job[h].origin,
               overlap |-> job[h].overlap \/ WindowOpen])
  BY DEF Reread
<1>2. job[h] \in Job /\ job[h].at = "reread"
  BY <1>1, JobType DEF Goto
<1>3. job' \in [Slots -> Job \cup {Idle}] /\ job'[h] = Idle /\ JobsKept(h)
  BY <1>1, GotoEffect, GotoKeeps
<1>4. [ver |-> version, origin |-> job[h].origin, overlap |-> job[h].overlap \/ WindowOpen]
        \in AccessToken
  BY <1>2 DEF TypeOK, Job, AccessToken, WindowOpen
<1>5. access' \in SUBSET AccessToken
  BY <1>1, <1>4, AccessType
<1>6. TypeOK'
  BY <1>1, <1>3, <1>5 DEF TypeOK, userVars, history
<1>7. QED
  BY <1>1, <1>2, <1>3, <1>6, SameDocsFade

\* Every step is one of these.
LEMMA StepCases ==
  ASSUME Next
  PROVE  \/ \E h \in Slots : 
              \/ LoginRead(h) \/ Issue(h) \/ FindUser(h) \/ Look(h) \/ RevokeFamily(h)
              \/ \E t \in Tokens : Claim(h, t) \/ ClaimFails(h, t)
              \/ Quiet(h) \/ WriteChange(h) \/ WriteReset(h) \/ Bump(h) \/ Anonymise(h)
              \/ Sweep(h) \/ Reread(h)
         \/ LinkExpires \/ \E t \in Tokens : Expire(t) \/ Remove(t)
BY DEF Next, SignIn, SignOut, Password, Quiet, Sweep

-----------------------------------------------------------------------------
(***************************************************************************)
(* Types and names.                                                        *)
(***************************************************************************)
TypeInv == TypeOK /\ Named

\* Names stay good while documents fade, if those of the handlers that went on
\* and of new alarms are.
LEMMA NamedKept ==
  ASSUME TypeInv, DocsFade,
         \A x \in Slots : Kept(x) \/ HandlerNamed(x)',
         \A f \in alarms' : f \in Tokens /\ refresh[f].status # "absent"
  PROVE  Named'
<1> USE DEF TypeInv, Named
<1>1. DocsNamed'
  BY DEF DocsFade, DocsNamed
<1>2. ASSUME NEW x \in Slots, Kept(x) PROVE HandlerNamed(x)'
  <2>1. HandlerNamed(x)
    OBVIOUS
  <2>2. CASE job[x].at = "idle"
    BY <1>2, <2>2 DEF Kept, HandlerNamed
  <2>3. CASE job[x].at # "idle"
    <3>1. job'[x].at = job[x].at /\ job'[x].family = job[x].family /\ job'[x].token = job[x].token
      BY ONLY <1>2, <2>3 DEF Kept
    <3>2. job[x].family \in Tokens => (refresh'[job[x].family].status = "absent")
                                       <=> (refresh[job[x].family].status = "absent")
      BY DEF DocsFade
    <3>3. QED
      BY <2>1, <3>1, <3>2 DEF HandlerNamed
  <2>4. QED
    BY <2>2, <2>3
<1>3. AlarmsNamed'
  BY DEF AlarmsNamed, DocsFade
<1>4. QED
  BY <1>1, <1>2, <1>3

\* Every step keeps the types and the names.
LEMMA TypeStep ==
  ASSUME TypeInv, Next
  PROVE  TypeInv'
<1> USE DEF TypeInv, Named
<1>1. \A f \in alarms : f \in Tokens /\ refresh[f].status # "absent"
  BY DEF TypeOK, AlarmsNamed
<1>2. ASSUME NEW h \in Slots, LoginRead(h) PROVE TypeInv'
  <2>1. TypeOK' /\ DocsFade /\ JobsKept(h) /\ alarms' = alarms
        /\ job'[h].at = "issue" /\ job'[h].family = NoToken
    BY <1>2, LoginReadEffect DEF history
  <2>2. HandlerNamed(h)'
    BY <2>1, SessionsAssumption DEF HandlerNamed
  <2>3. QED
    BY <1>1, <2>1, <2>2, NamedKept DEF JobsKept
<1>3. ASSUME NEW h \in Slots, Issue(h) PROVE TypeInv'
  <2>1. TypeOK' /\ JobsKept(h) /\ job[h] \in Job /\ job[h].at = "issue" /\ job'[h] = Idle 
        /\ alarms' = alarms
    BY <1>3, IssueEffect DEF history
  <2>2. PICK t \in Tokens :
          /\ refresh[t].status = "absent" /\ refresh'[t].status = "stored"
          /\ refresh'[t].family = IF job[h].family = NoToken THEN t ELSE job[h].family
          /\ \A u \in Tokens : u # t => refresh'[u] = refresh[u]
    BY <1>3, IssueEffect
  <2>3. \A u \in Tokens : refresh[u].status # "absent" => refresh'[u].status # "absent"
    BY <2>2
  <2>4. job[h].family # NoToken => job[h].family \in Tokens /\ refresh[job[h].family].status # "absent"
    BY <2>1 DEF Job, HandlerNamed
  <2>5. DocsNamed'
    BY <2>2, <2>3, <2>4 DEF DocsNamed
  <2>6. ASSUME NEW x \in Slots PROVE HandlerNamed(x)'
    <3>1. CASE x = h
      BY <2>1, <3>1 DEF HandlerNamed, Idle
    <3>2. CASE x # h
      <4>1. HandlerNamed(x) /\ Kept(x)
        BY <2>1, <3>2 DEF JobsKept
      <4>2. QED
        <5>1. CASE job[x].at = "idle"
          BY ONLY <4>1, <5>1 DEF Kept, HandlerNamed
        <5>2. CASE job[x].at # "idle"
          <6>1. job'[x].at = job[x].at /\ job'[x].family = job[x].family /\ job'[x].token = job[x].token
            BY ONLY <4>1, <5>2 DEF Kept
          <6>2. QED
            BY <2>3, <4>1, <6>1 DEF HandlerNamed
        <5>3. QED
          BY <5>1, <5>2
    <3>3. QED
      BY <3>1, <3>2
  <2>7. AlarmsNamed'
    BY <1>1, <2>1, <2>3 DEF AlarmsNamed
  <2>8. QED
    BY <2>1, <2>5, <2>6, <2>7
<1>4. ASSUME NEW h \in Slots, FindUser(h) PROVE TypeInv'
  <2>1. TypeOK' /\ DocsFade /\ JobsKept(h) /\ alarms' = alarms /\ refresh' = refresh
        /\ job[h].at = "find" /\ job'[h].at = "issue" /\ job'[h].family = job[h].family
    BY <1>4, FindUserEffect DEF history, tokenVars
  <2>2. HandlerNamed(h)'
    BY <2>1 DEF HandlerNamed
  <2>3. QED
    BY <1>1, <2>1, <2>2, NamedKept DEF JobsKept
<1>5. ASSUME NEW h \in Slots, Look(h) PROVE TypeInv'
  <2>1. TypeOK' /\ DocsFade /\ JobsKept(h) /\ alarms' = alarms /\ refresh' = refresh
        /\ job[h].token \in Tokens
        /\ \/ job'[h] = Idle
           \/ /\ job'[h].at = "revokeFamily" /\ refresh[job[h].token].status # "absent"
              /\ job'[h].family = refresh[job[h].token].family
    BY <1>5, LookEffect DEF history, tokenVars
  <2>2. HandlerNamed(h)'
    BY <2>1 DEF HandlerNamed, DocsNamed, Idle
  <2>3. QED
    BY <1>1, <2>1, <2>2, NamedKept DEF JobsKept
<1>6. ASSUME NEW h \in Slots, RevokeFamily(h) PROVE TypeInv'
  <2>1. TypeOK' /\ DocsFade /\ JobsKept(h) /\ alarms' = alarms \cup {job[h].family}
        /\ job[h].at = "revokeFamily" /\ job[h].family \in Tokens /\ job'[h] = Idle
    BY <1>6, RevokeFamilyEffect
  <2>2. HandlerNamed(h)' /\ refresh[job[h].family].status # "absent"
    BY <2>1 DEF HandlerNamed, Idle
  <2>3. QED
    BY <1>1, <2>1, <2>2, NamedKept DEF JobsKept
<1>7. ASSUME NEW h \in Slots, NEW t \in Tokens, Claim(h, t) PROVE TypeInv'
  <2>1. TypeOK' /\ DocsFade /\ JobsKept(h) /\ alarms' = alarms
        /\ t \in Live
        /\ \/ job'[h] = Idle
           \/ job'[h].at = "find" /\ job'[h].family = refresh[t].family
    BY <1>7, ClaimEffect DEF history
  <2>2. refresh[t].family \in Tokens /\ refresh[refresh[t].family].status # "absent"
    BY <2>1 DEF Live, Stored, DocsNamed
  <2>3. HandlerNamed(h)'
    BY <2>1, <2>2 DEF HandlerNamed, DocsFade, Idle
  <2>4. QED
    BY <1>1, <2>1, <2>3, NamedKept DEF JobsKept
<1>8. ASSUME NEW h \in Slots, NEW t \in Tokens, ClaimFails(h, t) PROVE TypeInv'
  <2>1. TypeOK' /\ DocsFade /\ JobsKept(h) /\ alarms' = alarms
        /\ job'[h].at = "look" /\ job'[h].token = t
    BY <1>8, ClaimFailsEffect DEF history
  <2>2. HandlerNamed(h)'
    BY <2>1 DEF HandlerNamed
  <2>3. QED
    BY <1>1, <2>1, <2>2, NamedKept DEF JobsKept
<1>9. ASSUME NEW h \in Slots, Quiet(h) PROVE TypeInv'
  <2>1. HandlerNamed(h)
    OBVIOUS
  <2>2. TypeOK' /\ DocsFade /\ JobsKept(h) /\ alarms' = alarms
        /\ job'[h].at \in Neutral 
        /\ (job'[h].at = "revokeOne" => job'[h].token \in Tokens)
    BY <1>9, <2>1, QuietEffect
  <2>3. HandlerNamed(h)'
    BY <2>2 DEF HandlerNamed, Neutral
  <2>4. QED
    BY <1>1, <2>2, <2>3, NamedKept DEF JobsKept
<1>10. ASSUME NEW h \in Slots, 
              WriteChange(h) \/ WriteReset(h) \/ Bump(h) \/ Anonymise(h) \/ Sweep(h) \/ Reread(h)
       PROVE  TypeInv'
  <2>1. TypeOK' /\ DocsFade /\ JobsKept(h) /\ alarms' = alarms
        /\ job'[h].at \in {"changeSweep", "resetSweep", "idle", "reread", "bump", "anonymise"}
    <3>1. CASE WriteChange(h) \/ WriteReset(h)
      BY <3>1, WriteEffect DEF history
    <3>2. CASE Bump(h) \/ Anonymise(h)
      BY <3>2, BumpEffect DEF Idle
    <3>3. CASE Sweep(h)
      BY <3>3, SweepEffect
    <3>4. CASE Reread(h)
      <4>1. TypeOK' /\ DocsFade /\ JobsKept(h) /\ job'[h] = Idle /\ UNCHANGED history
        BY <3>4, RereadEffect
      <4>2. QED
        BY <4>1 DEF history, Idle
    <3>5. QED
      BY <1>10, <3>1, <3>2, <3>3, <3>4
  <2>2. HandlerNamed(h)'
    BY <2>1 DEF HandlerNamed
  <2>3. QED
    BY <1>1, <2>1, <2>2, NamedKept DEF JobsKept
<1>11. ASSUME LinkExpires \/ \E t \in Tokens : Expire(t) \/ Remove(t) PROVE TypeInv'
  <2>1. TypeOK' /\ DocsFade /\ job' = job /\ alarms' = alarms
    BY <1>11, TimeEffect
  <2>2. \A x \in Slots : Kept(x)
    BY <2>1 DEF Kept
  <2>3. QED
    BY <1>1, <2>1, <2>2, NamedKept
<1>12. QED
  BY <1>2, <1>3, <1>4, <1>5, <1>6, <1>7, <1>8, <1>9, <1>10, <1>11, StepCases

\* The model starts well-typed and with nothing to name.
LEMMA TypeInit ==
  ASSUME Init
  PROVE  TypeInv
<1>1. NoDocument \in Document /\ NoDocument.status = "absent" /\ Idle.at = "idle"
  BY DEF NoDocument, Document, Idle
<1>2. TypeOK
  <2>1. refresh \in [Tokens -> Document] /\ job \in [Slots -> Job \cup {Idle}]
    BY <1>1 DEF Init
  <2>2. access \in SUBSET AccessToken /\ replayed \in SUBSET Tokens /\ alarms \in SUBSET Tokens
    BY DEF Init
  <2>3. revocations \in 0..MaxRevocations
    BY SessionsAssumption DEF Init
  <2>4. QED
    BY <2>1, <2>2, <2>3 DEF Init, TypeOK
<1>3. Named
  BY <1>1 DEF Init, Named, DocsNamed, HandlerNamed, AlarmsNamed
<1>4. QED
  BY <1>2, <1>3 DEF TypeInv

\* A stutter changes nothing.
LEMMA TypeStutter ==
  ASSUME TypeInv, UNCHANGED vars
  PROVE  TypeInv'
BY DEF vars, userVars, tokenVars, history, TypeInv, TypeOK, Named, DocsNamed, HandlerNamed, AlarmsNamed

\* The types and the names hold throughout.
LEMMA TypeAlways == Spec => []TypeInv
<1>1. Init => TypeInv
  BY TypeInit
<1>2. TypeInv /\ [Next]_vars => TypeInv'
  BY TypeStep, TypeStutter
<1>3. QED
  BY <1>1, <1>2, PTL DEF Spec

\* Every variable of Sessions keeps its type.
THEOREM TypeCorrect == Spec => []TypeOK
<1>1. TypeInv => TypeOK
  BY DEF TypeInv
<1>2. QED
  BY <1>1, TypeAlways, PTL

-----------------------------------------------------------------------------
(***************************************************************************)
(* Renewals: one continuation, and what reuse does.                        *)
(*                                                                         *)
(* A family has at most one token that can be claimed or one handler that  *)
(* is renewing it.  Claiming turns the first into the second and storing   *)
(* the successor turns it back; nothing else adds to either.               *)
(***************************************************************************)
Renewing(h) == job[h].at \in {"find", "issue"}

One ==
  /\ \A t, u \in Live : refresh[t].family = refresh[u].family => t = u
  /\ \A g, h \in Slots : 
       /\ Renewing(g) /\ Renewing(h) 
       /\ job[g].family \in Tokens /\ job[g].family = job[h].family
       => g = h
  /\ \A t \in Live, h \in Slots : Renewing(h) => job[h].family # refresh[t].family

\* Whoever continues a family in which reuse was detected is marked.
Marked ==
  /\ ReuseEndsTheFamily
  /\ \A h \in Slots : Renewing(h) /\ job[h].family \in alarms => job[h].overlap

\* A handler on its way to revoke a family knows why.
Justified ==
  /\ NoFalseAlarm
  /\ \A h \in Slots : job[h].at = "revokeFamily" =>
       \E t \in Tokens : /\ refresh[t].family = job[h].family 
                         /\ refresh[t].used /\ t \in replayed
  /\ \A h \in Slots : job[h].at = "look" => job[h].token \in replayed
  /\ \A t \in replayed : refresh[t].status # "absent"

RenewInv == TypeInv /\ One /\ Marked /\ Justified

\* h goes on renewing the same family.
Continues(h) ==
  /\ Renewing(h) /\ Renewing(h)' 
  /\ job'[h].family = job[h].family
  /\ job[h].overlap => job'[h].overlap

\* h renews nothing after the step.
RenewsNot(h) == Renewing(h)' => job'[h].family = NoToken

\* What the renewals look like after a step in which nothing new is renewed.
Ebbs == DocsFade /\ \A x \in Slots : Kept(x) \/ Continues(x) \/ RenewsNot(x)

\* A handler that renews a family after such a step renewed it before.
LEMMA Renewed ==
  ASSUME NEW x \in Slots, Kept(x) \/ Continues(x) \/ RenewsNot(x), Renewing(x)'
  PROVE  \/ job'[x].family = NoToken
         \/ /\ Renewing(x) /\ job'[x].family = job[x].family
            /\ job[x].overlap => job'[x].overlap
<1>1. CASE Kept(x)
  <2>1. job[x].at = job'[x].at /\ job[x].at # "idle"
    BY <1>1 DEF Kept, Renewing
  <2>2. QED
    BY <1>1, <2>1 DEF Kept, Renewing
<1>2. CASE Continues(x)
  BY <1>2 DEF Continues
<1>3. CASE RenewsNot(x)
  BY <1>3 DEF RenewsNot
<1>4. QED
  BY <1>1, <1>2, <1>3

\* Where nothing new is renewed, no family gets a second continuation.
LEMMA OneEbbs ==
  ASSUME TypeInv, One, Ebbs
  PROVE  One'
<1>1. ASSUME NEW t \in Live' PROVE t \in Tokens /\ t \in Live /\ refresh'[t].family = refresh[t].family
  BY DEF Ebbs, DocsFade, Live, Stored
<1>2. ASSUME NEW t \in Live', NEW u \in Live', refresh'[t].family = refresh'[u].family PROVE t = u
  BY <1>1, <1>2 DEF One
<1>3. ASSUME NEW g \in Slots, NEW h \in Slots, Renewing(g)', Renewing(h)',
             job'[g].family \in Tokens, job'[g].family = job'[h].family
      PROVE  g = h
  <2>1. /\ Renewing(g) /\ job'[g].family = job[g].family
        /\ Renewing(h) /\ job'[h].family = job[h].family
    BY <1>3, Renewed, SessionsAssumption DEF Ebbs
  <2>2. QED
    BY <1>3, <2>1 DEF One
<1>4. ASSUME NEW t \in Live', NEW h \in Slots, Renewing(h)' PROVE job'[h].family # refresh'[t].family
  <2>1. refresh[t].family \in Tokens
    BY <1>1 DEF TypeInv, Named, DocsNamed, Live, Stored
  <2>2. CASE job'[h].family = NoToken
    BY <1>1, <2>1, <2>2, SessionsAssumption
  <2>3. CASE Renewing(h) /\ job'[h].family = job[h].family
    BY <1>1, <2>3 DEF One
  <2>4. QED
    BY <1>4, <2>2, <2>3, Renewed DEF Ebbs
<1>5. QED
  BY <1>2, <1>3, <1>4 DEF One

\* Nor does an unmarked token or handler of a revoked family appear.
LEMMA MarkedEbbs ==
  ASSUME TypeInv, Marked, Ebbs, alarms' = alarms
  PROVE  Marked'
<1>1. ASSUME NEW t \in Live', refresh'[t].family \in alarms' PROVE refresh'[t].overlap
  <2>1. t \in Tokens
    BY DEF Live, Stored
  <2>2. t \in Live /\ refresh'[t].family = refresh[t].family /\ refresh'[t].overlap = refresh[t].overlap
    BY <2>1 DEF Ebbs, DocsFade
  <2>3. QED
    BY <1>1, <2>2 DEF Marked, ReuseEndsTheFamily
<1>2. ASSUME NEW h \in Slots, Renewing(h)', job'[h].family \in alarms' PROVE job'[h].overlap
  <2>1. job'[h].family # NoToken
    BY <1>2, SessionsAssumption DEF TypeInv, TypeOK
  <2>2. /\ Renewing(h) /\ job'[h].family = job[h].family
        /\ job[h].overlap => job'[h].overlap
    BY <1>2, <2>1, Renewed DEF Ebbs
  <2>3. QED
    BY <1>2, <2>2 DEF Marked
<1>3. QED
  BY <1>1, <1>2 DEF Marked, ReuseEndsTheFamily

\* Spent tokens stay spent and presentations are not forgotten.
LEMMA JustifiedKept ==
  ASSUME Justified, DocsFade, alarms' = alarms, replayed \subseteq replayed',
         \A t \in replayed' : t \in Tokens /\ refresh[t].status # "absent",
         \A x \in Slots : Kept(x) \/ job'[x].at \notin {"look", "revokeFamily"}
  PROVE  Justified'
<1>1. \A t \in Tokens : refresh[t].used /\ t \in replayed => 
        refresh'[t].used /\ t \in replayed' /\ refresh'[t].family = refresh[t].family
  BY DEF DocsFade
<1>2. NoFalseAlarm'
  BY <1>1 DEF Justified, NoFalseAlarm
<1>3. ASSUME NEW x \in Slots, job'[x].at \in {"look", "revokeFamily"}
      PROVE  job[x].at = job'[x].at /\ job'[x].family = job[x].family /\ job'[x].token = job[x].token
  <2>1. Kept(x)
    BY <1>3
  <2>2. QED
    BY ONLY <1>3, <2>1 DEF Kept
<1>4. ASSUME NEW h \in Slots, job'[h].at = "revokeFamily"
      PROVE  \E t \in Tokens : refresh'[t].family = job'[h].family /\ refresh'[t].used /\ t \in replayed'
  BY <1>1, <1>3, <1>4 DEF Justified
<1>5. ASSUME NEW h \in Slots, job'[h].at = "look" PROVE job'[h].token \in replayed'
  BY <1>3, <1>5 DEF Justified
<1>6. \A t \in replayed' : refresh'[t].status # "absent"
  BY DEF DocsFade
<1>7. QED
  BY <1>2, <1>4, <1>5, <1>6 DEF Justified

\* What is remembered as presented exists.
LEMMA ReplayedExist ==
  ASSUME RenewInv
  PROVE  \A t \in replayed : t \in Tokens /\ refresh[t].status # "absent"
BY DEF RenewInv, TypeInv, TypeOK, Justified

\* The steps that store no token and look into no presentation.
LEMMA EbbStep ==
  ASSUME TypeInv, NEW h \in Slots,
         \/ LoginRead(h) \/ FindUser(h) \/ Quiet(h) \/ WriteChange(h) \/ WriteReset(h) 
         \/ Bump(h) \/ Anonymise(h) \/ Sweep(h) \/ Reread(h)
  PROVE  /\ Ebbs /\ alarms' = alarms /\ replayed' = replayed
         /\ \A x \in Slots : Kept(x) \/ job'[x].at \notin {"look", "revokeFamily"}
<1> USE DEF TypeInv
<1>1. CASE LoginRead(h)
  <2>1. DocsFade /\ JobsKept(h) /\ job'[h].at = "issue" /\ job'[h].family = NoToken 
        /\ UNCHANGED <<tokenVars, history>>
    BY <1>1, LoginReadEffect
  <2>2. QED
    BY <2>1 DEF Ebbs, JobsKept, RenewsNot, tokenVars, history
<1>2. CASE FindUser(h)
  <2>1. DocsFade /\ JobsKept(h) /\ job[h] \in Job /\ job[h].at = "find" /\ job'[h].at = "issue" 
        /\ job'[h].family = job[h].family /\ job'[h].overlap = (job[h].overlap \/ WindowOpen)
        /\ UNCHANGED <<tokenVars, history>>
    BY <1>2, FindUserEffect
  <2>2. Continues(h)
    BY <2>1 DEF Continues, Renewing
  <2>3. QED
    BY <2>1, <2>2 DEF Ebbs, JobsKept, tokenVars, history
<1>3. CASE Quiet(h)
  <2>1. HandlerNamed(h)
    BY DEF Named
  <2>2. DocsFade /\ JobsKept(h) /\ job'[h].at \in Neutral /\ UNCHANGED <<alarms, replayed>>
    BY <1>3, <2>1, QuietEffect
  <2>3. QED
    BY <2>2 DEF Ebbs, JobsKept, RenewsNot, Renewing, Neutral
<1>4. CASE WriteChange(h) \/ WriteReset(h)
  <2>1. DocsFade /\ JobsKept(h) /\ job'[h].at \in {"changeSweep", "resetSweep"} 
        /\ UNCHANGED <<replayed, history>>
    BY <1>4, WriteEffect
  <2>2. QED
    BY <2>1 DEF Ebbs, JobsKept, RenewsNot, Renewing, history
<1>5. CASE Bump(h) \/ Anonymise(h)
  <2>1. DocsFade /\ JobsKept(h) /\ job'[h] = Idle /\ UNCHANGED <<replayed, alarms>>
    BY <1>5, BumpEffect
  <2>2. QED
    BY <2>1 DEF Ebbs, JobsKept, RenewsNot, Renewing, Idle
<1>6. CASE Sweep(h)
  <2>1. DocsFade /\ JobsKept(h) /\ job'[h].at \in {"idle", "reread", "bump", "anonymise"} 
        /\ UNCHANGED <<replayed, alarms>>
    BY <1>6, SweepEffect
  <2>2. QED
    BY <2>1 DEF Ebbs, JobsKept, RenewsNot, Renewing
<1>7. CASE Reread(h)
  <2>1. DocsFade /\ JobsKept(h) /\ job'[h] = Idle /\ UNCHANGED <<replayed, history>>
    BY <1>7, RereadEffect
  <2>2. QED
    BY <2>1 DEF Ebbs, JobsKept, RenewsNot, Renewing, Idle, history
<1>8. QED
  BY <1>1, <1>2, <1>3, <1>4, <1>5, <1>6, <1>7

\* Claiming: the token that could be claimed was the family's only one, and
\* nobody else was renewing it.
LEMMA ClaimRenews ==
  ASSUME RenewInv, NEW h \in Slots, NEW t \in Tokens, Claim(h, t)
  PROVE  One' /\ Marked' /\ Justified'
<1> USE DEF RenewInv, TypeInv, Named
<1>1. /\ DocsFade /\ JobsKept(h) /\ t \in Live /\ t \notin Live'
      /\ \/ job'[h] = Idle
         \/ /\ job'[h].at = "find" /\ job'[h].family = refresh[t].family
            /\ job'[h].overlap = refresh[t].overlap
      /\ UNCHANGED <<userVars, access, replayed, history>>
  BY ClaimEffect
<1>2. alarms' = alarms /\ replayed' = replayed
  BY <1>1 DEF history
<1>3. CASE job'[h] = Idle
  <2>1. Ebbs
    BY <1>1, <1>3 DEF Ebbs, JobsKept, RenewsNot, Renewing, Idle
  <2>2. \A x \in Slots : Kept(x) \/ job'[x].at \notin {"look", "revokeFamily"}
    BY <1>1, <1>3 DEF JobsKept, Idle
  <2>3. QED
    BY <1>1, <1>2, <2>1, <2>2, OneEbbs, MarkedEbbs, JustifiedKept, ReplayedExist
<1>4. CASE job'[h].at = "find" /\ job'[h].family = refresh[t].family /\ job'[h].overlap = refresh[t].overlap
  <2>1. \A u \in Live' : /\ u \in Tokens /\ u \in Live /\ u # t
                         /\ refresh'[u].family = refresh[u].family
                         /\ refresh'[u].overlap = refresh[u].overlap
    BY <1>1 DEF DocsFade, Live, Stored
  <2>2. \A x \in Slots : x # h /\ Renewing(x)' => 
          /\ Renewing(x) /\ job'[x].family = job[x].family
          /\ job[x].overlap => job'[x].overlap
    <3>1. ASSUME NEW x \in Slots, x # h, Renewing(x)' 
          PROVE  /\ Renewing(x) /\ job'[x].family = job[x].family
                 /\ job[x].overlap => job'[x].overlap
      <4>1. Kept(x)
        BY <1>1, <3>1 DEF JobsKept
      <4>2. QED
        BY ONLY <3>1, <4>1 DEF Kept, Renewing
    <3>2. QED
      BY <3>1
  <2>3. One'
    <3>1. \A u, v \in Live' : refresh'[u].family = refresh'[v].family => u = v
      BY <2>1 DEF One
    <3>2. \A x \in Slots : x # h /\ Renewing(x)' => job'[x].family # refresh[t].family
      BY <1>1, <2>2 DEF One
    <3>3. ASSUME NEW g \in Slots, NEW x \in Slots, Renewing(g)', Renewing(x)',
                 job'[g].family \in Tokens, job'[g].family = job'[x].family
          PROVE  g = x
      <4>1. CASE g # h /\ x # h
        BY <2>2, <3>3, <4>1 DEF One
      <4>2. CASE g = h \/ x = h
        BY <1>4, <3>2, <3>3, <4>2
      <4>3. QED
        BY <4>1, <4>2
    <3>4. ASSUME NEW u \in Live', NEW x \in Slots, Renewing(x)'
          PROVE  job'[x].family # refresh'[u].family
      <4>1. CASE x = h
        <5>1. refresh[u].family # refresh[t].family
          BY <1>1, <2>1 DEF One
        <5>2. QED
          BY <1>4, <2>1, <4>1, <5>1
      <4>2. CASE x # h
        BY <2>1, <2>2, <3>4, <4>2 DEF One
      <4>3. QED
        BY <4>1, <4>2
    <3>5. QED
      BY <3>1, <3>3, <3>4 DEF One
  <2>4. Marked'
    <3>1. \A u \in Live' : refresh'[u].family \in alarms' => refresh'[u].overlap
      BY <1>2, <2>1 DEF Marked, ReuseEndsTheFamily
    <3>2. \A x \in Slots : x # h /\ Renewing(x)' /\ job'[x].family \in alarms' => job'[x].overlap
      BY <1>2, <2>2 DEF Marked
    <3>3. job'[h].family \in alarms' => job'[h].overlap
      BY <1>1, <1>2, <1>4 DEF Marked, ReuseEndsTheFamily
    <3>4. QED
      BY <3>1, <3>2, <3>3 DEF Marked, ReuseEndsTheFamily
  <2>5. Justified'
    <3>1. \A x \in Slots : Kept(x) \/ job'[x].at \notin {"look", "revokeFamily"}
      BY <1>1, <1>4 DEF JobsKept
    <3>2. QED
      BY <1>1, <1>2, <3>1, JustifiedKept, ReplayedExist
  <2>6. QED
    BY <2>3, <2>4, <2>5
<1>5. QED
  BY <1>1, <1>3, <1>4

\* Storing: the handler was the family's only continuation, or the family is
\* as new as the token.
LEMMA IssueRenews ==
  ASSUME RenewInv, NEW h \in Slots, Issue(h)
  PROVE  One' /\ Marked' /\ Justified'
<1> USE DEF RenewInv, TypeInv, Named
<1>1. /\ JobsKept(h) /\ job[h] \in Job /\ job[h].at = "issue" /\ job'[h] = Idle
      /\ UNCHANGED <<userVars, replayed, history>>
  BY IssueEffect
<1>2. alarms' = alarms /\ replayed' = replayed
  BY <1>1 DEF history
<1>3. PICK t \in Tokens :
        /\ refresh[t].status = "absent" /\ refresh'[t].status = "stored"
        /\ refresh'[t].family = IF job[h].family = NoToken THEN t ELSE job[h].family
        /\ refresh'[t].origin = job[h].origin /\ refresh'[t].overlap = job[h].overlap
        /\ \A u \in Tokens : u # t => refresh'[u] = refresh[u]
  BY IssueEffect
<1> DEFINE f == refresh'[t].family
<1>4. \A u \in Live' : u \in Tokens /\ (u # t => u \in Live /\ refresh'[u] = refresh[u])
  BY <1>3 DEF Live, Stored
<1>5. \A x \in Slots : x # h /\ Renewing(x)' => 
        /\ Renewing(x) /\ job'[x].family = job[x].family
        /\ job[x].overlap => job'[x].overlap
  <2>1. ASSUME NEW x \in Slots, x # h, Renewing(x)' 
        PROVE  /\ Renewing(x) /\ job'[x].family = job[x].family
               /\ job[x].overlap => job'[x].overlap
    <3>1. Kept(x)
      BY <1>1, <2>1 DEF JobsKept
    <3>2. QED
      BY ONLY <2>1, <3>1 DEF Kept, Renewing
  <2>2. QED
    BY <2>1
<1>6. ~Renewing(h)'
  BY <1>1 DEF Renewing, Idle
<1>7. f \in Tokens
  BY <1>1, <1>3 DEF Job
<1>8. \A u \in Live : refresh[u].family # f
  <2>1. CASE job[h].family = NoToken
    <3>1. \A u \in Live : refresh[refresh[u].family].status # "absent"
      BY DEF DocsNamed, Live, Stored
    <3>2. QED
      BY <1>3, <2>1, <3>1
  <2>2. CASE job[h].family # NoToken
    BY <1>1, <1>3, <2>2 DEF One, Renewing
  <2>3. QED
    BY <2>1, <2>2
<1>9. \A x \in Slots : x # h /\ Renewing(x) => job[x].family # f
  <2>1. ASSUME NEW x \in Slots, x # h, Renewing(x), job[x].family = f PROVE FALSE
    <3>1. CASE job[h].family = NoToken
      <4>1. refresh[job[x].family].status # "absent"
        BY <1>7, <2>1 DEF HandlerNamed, Renewing
      <4>2. QED
        BY <1>3, <2>1, <3>1, <4>1
    <3>2. CASE job[h].family # NoToken
      BY <1>1, <1>3, <1>7, <2>1, <3>2 DEF One, Renewing
    <3>3. QED
      BY <3>1, <3>2
  <2>2. QED
    BY <2>1
<1>10. One'
  <2>1. ASSUME NEW u \in Live', NEW v \in Live', refresh'[u].family = refresh'[v].family PROVE u = v
    BY <1>4, <1>8, <2>1 DEF One
  <2>2. ASSUME NEW g \in Slots, NEW x \in Slots, Renewing(g)', Renewing(x)',
               job'[g].family \in Tokens, job'[g].family = job'[x].family
        PROVE  g = x
    BY <1>5, <1>6, <2>2 DEF One
  <2>3. ASSUME NEW u \in Live', NEW x \in Slots, Renewing(x)' PROVE job'[x].family # refresh'[u].family
    <3>1. x # h /\ Renewing(x) /\ job'[x].family = job[x].family
      BY <1>5, <1>6, <2>3
    <3>2. CASE u = t
      BY <1>9, <3>1, <3>2
    <3>3. CASE u # t
      BY <1>4, <3>1, <3>3 DEF One
    <3>4. QED
      BY <3>2, <3>3
  <2>4. QED
    BY <2>1, <2>2, <2>3 DEF One
<1>11. Marked'
  <2>1. ASSUME f \in alarms PROVE job[h].overlap
    <3>1. job[h].family # NoToken
      BY <1>3, <2>1 DEF AlarmsNamed
    <3>2. QED
      BY <1>1, <1>3, <2>1, <3>1 DEF Marked, Renewing
  <2>2. ASSUME NEW u \in Live', refresh'[u].family \in alarms' PROVE refresh'[u].overlap
    <3>1. CASE u = t
      BY <1>2, <1>3, <2>1, <2>2, <3>1
    <3>2. CASE u # t
      BY <1>2, <1>4, <2>2, <3>2 DEF Marked, ReuseEndsTheFamily
    <3>3. QED
      BY <3>1, <3>2
  <2>3. ASSUME NEW x \in Slots, Renewing(x)', job'[x].family \in alarms' PROVE job'[x].overlap
    BY <1>2, <1>5, <1>6, <2>3 DEF Marked
  <2>4. QED
    BY <2>2, <2>3 DEF Marked, ReuseEndsTheFamily
<1>12. Justified'
  <2>1. \A u \in replayed : u \in Tokens /\ refresh'[u] = refresh[u]
    BY <1>3, ReplayedExist
  <2>2. NoFalseAlarm'
    BY <1>2, <2>1 DEF Justified, NoFalseAlarm
  <2>3. \A x \in Slots : job'[x].at \in {"look", "revokeFamily"} =>
          job[x].at = job'[x].at /\ job'[x].family = job[x].family /\ job'[x].token = job[x].token
    <3>1. ASSUME NEW x \in Slots, job'[x].at \in {"look", "revokeFamily"}
          PROVE  job[x].at = job'[x].at /\ job'[x].family = job[x].family /\ job'[x].token = job[x].token
      <4>1. Kept(x)
        BY <1>1, <3>1 DEF JobsKept, Idle
      <4>2. QED
        BY ONLY <3>1, <4>1 DEF Kept
    <3>2. QED
      BY <3>1
  <2>4. ASSUME NEW x \in Slots, job'[x].at = "revokeFamily"
        PROVE  \E u \in Tokens : refresh'[u].family = job'[x].family /\ refresh'[u].used /\ u \in replayed'
    BY <1>2, <2>1, <2>3, <2>4 DEF Justified
  <2>5. QED
    BY <1>2, <2>1, <2>2, <2>3, <2>4, ReplayedExist DEF Justified
<1>13. QED
  BY <1>10, <1>11, <1>12

\* A presentation that fails renews nothing.
LEMMA ClaimFailsRenews ==
  ASSUME RenewInv, NEW h \in Slots, NEW t \in Tokens, ClaimFails(h, t)
  PROVE  One' /\ Marked' /\ Justified'
<1> USE DEF RenewInv, TypeInv
<1>1. /\ DocsFade /\ JobsKept(h) /\ job'[h].at = "look" /\ job'[h].token = t
      /\ replayed' = replayed \cup {t}
      /\ UNCHANGED <<userVars, refresh, access, history>>
  BY ClaimFailsEffect
<1>2. alarms' = alarms /\ refresh[t].status # "absent" /\ refresh' = refresh
  BY <1>1 DEF history, ClaimFails
<1>3. Ebbs
  BY <1>1 DEF Ebbs, JobsKept, RenewsNot, Renewing
<1>4. ASSUME NEW x \in Slots, job'[x].at \in {"look", "revokeFamily"}, x # h
      PROVE  job[x].at = job'[x].at /\ job'[x].family = job[x].family /\ job'[x].token = job[x].token
  <2>1. Kept(x)
    BY <1>1, <1>4 DEF JobsKept
  <2>2. QED
    BY ONLY <1>4, <2>1 DEF Kept
<1>5. NoFalseAlarm'
  BY <1>1, <1>2 DEF Justified, NoFalseAlarm
<1>6. ASSUME NEW x \in Slots, job'[x].at = "revokeFamily"
      PROVE  \E u \in Tokens : refresh'[u].family = job'[x].family /\ refresh'[u].used /\ u \in replayed'
  BY <1>1, <1>2, <1>4, <1>6 DEF Justified
<1>7. ASSUME NEW x \in Slots, job'[x].at = "look" PROVE job'[x].token \in replayed'
  BY <1>1, <1>4, <1>7 DEF Justified
<1>8. \A u \in replayed' : refresh'[u].status # "absent"
  BY <1>1, <1>2, ReplayedExist
<1>9. QED
  BY <1>2, <1>3, <1>5, <1>6, <1>7, <1>8, OneEbbs, MarkedEbbs DEF Justified

\* Looking into a presentation renews nothing, and goes on only with a reason.
LEMMA LookRenews ==
  ASSUME RenewInv, NEW h \in Slots, Look(h)
  PROVE  One' /\ Marked' /\ Justified'
<1> USE DEF RenewInv, TypeInv, Named
<1>1. HandlerNamed(h)
  OBVIOUS
<1>2. /\ DocsFade /\ JobsKept(h) /\ job[h].at = "look" /\ job[h].token \in Tokens
      /\ \/ job'[h] = Idle
         \/ /\ job'[h].at = "revokeFamily" /\ refresh[job[h].token].used
            /\ job'[h].family = refresh[job[h].token].family
      /\ UNCHANGED <<userVars, tokenVars, history>>
  BY <1>1, LookEffect
<1>3. alarms' = alarms /\ refresh' = refresh /\ replayed' = replayed
  BY <1>2 DEF history, tokenVars
<1>4. Ebbs
  BY <1>2 DEF Ebbs, JobsKept, RenewsNot, Renewing, Idle
<1>5. ASSUME NEW x \in Slots, job'[x].at \in {"look", "revokeFamily"}, x # h
      PROVE  job[x].at = job'[x].at /\ job'[x].family = job[x].family /\ job'[x].token = job[x].token
  <2>1. Kept(x)
    BY <1>2, <1>5 DEF JobsKept
  <2>2. QED
    BY ONLY <1>5, <2>1 DEF Kept
<1>6. NoFalseAlarm'
  BY <1>3 DEF Justified, NoFalseAlarm
<1>7. ASSUME NEW x \in Slots, job'[x].at = "revokeFamily"
      PROVE  \E u \in Tokens : refresh'[u].family = job'[x].family /\ refresh'[u].used /\ u \in replayed'
  <2>1. CASE x = h
    <3>1. job[h].token \in replayed
      BY <1>2 DEF Justified
    <3>2. job'[h].family = refresh[job[h].token].family /\ refresh[job[h].token].used
      BY <1>2, <1>7, <2>1 DEF Idle
    <3>3. QED
      BY <1>2, <1>3, <2>1, <3>1, <3>2
  <2>2. CASE x # h
    BY <1>3, <1>5, <1>7, <2>2 DEF Justified
  <2>3. QED
    BY <2>1, <2>2
<1>8. ASSUME NEW x \in Slots, job'[x].at = "look" PROVE job'[x].token \in replayed'
  <2>1. x # h
    BY <1>2, <1>8 DEF Idle
  <2>2. QED
    BY <1>3, <1>5, <1>8, <2>1 DEF Justified
<1>9. QED
  BY <1>3, <1>4, <1>6, <1>7, <1>8, OneEbbs, MarkedEbbs, ReplayedExist DEF Justified

\* A revoked family has nothing to claim, and who renews it is marked.
LEMMA RevokeFamilyRenews ==
  ASSUME RenewInv, NEW h \in Slots, RevokeFamily(h)
  PROVE  One' /\ Marked' /\ Justified'
<1> USE DEF RenewInv, TypeInv, Named
<1> DEFINE f == job[h].family
<1>1. HandlerNamed(h)
  OBVIOUS
<1>2. /\ DocsFade /\ JobsKept(h) /\ job[h].at = "revokeFamily" /\ f \in Tokens /\ job'[h] = Idle
      /\ \A t \in Tokens : refresh[t].family = f => t \notin Live'
      /\ \A x \in Slots : x # h /\ job[x].at \in {"find", "issue"} /\ job[x].family = f
                          => job'[x].overlap
      /\ alarms' = alarms \cup {f} /\ replayed' = replayed
  BY <1>1, RevokeFamilyEffect
<1>3. Ebbs
  BY <1>2 DEF Ebbs, JobsKept, RenewsNot, Renewing, Idle
<1>4. Marked'
  <2>1. ASSUME NEW t \in Live', refresh'[t].family \in alarms' PROVE refresh'[t].overlap
    <3>1. t \in Tokens
      BY DEF Live, Stored
    <3>2. t \in Live /\ refresh'[t].family = refresh[t].family /\ refresh'[t].overlap = refresh[t].overlap
      BY <1>2, <3>1 DEF DocsFade
    <3>3. refresh[t].family \in alarms
      BY <1>2, <2>1, <3>1, <3>2
    <3>4. QED
      BY <3>2, <3>3 DEF Marked, ReuseEndsTheFamily
  <2>2. ASSUME NEW x \in Slots, Renewing(x)', job'[x].family \in alarms' PROVE job'[x].overlap
    <3>1. x # h /\ job'[x].family # NoToken
      BY <1>2, <2>2, SessionsAssumption DEF Renewing, Idle, TypeOK
    <3>2. Renewing(x) /\ job'[x].family = job[x].family /\ (job[x].overlap => job'[x].overlap)
      BY <1>3, <2>2, <3>1, Renewed DEF Ebbs
    <3>3. CASE job[x].family = f
      BY <1>2, <3>1, <3>2, <3>3 DEF Renewing
    <3>4. CASE job[x].family # f
      BY <1>2, <2>2, <3>2, <3>4 DEF Marked
    <3>5. QED
      BY <3>3, <3>4
  <2>3. QED
    BY <2>1, <2>2 DEF Marked, ReuseEndsTheFamily
<1>5. \A t \in Tokens : refresh[t].used /\ t \in replayed => 
        refresh'[t].used /\ t \in replayed' /\ refresh'[t].family = refresh[t].family
  BY <1>2 DEF DocsFade
<1>6. NoFalseAlarm'
  BY <1>2, <1>5 DEF Justified, NoFalseAlarm
<1>7. ASSUME NEW x \in Slots, job'[x].at \in {"look", "revokeFamily"}
      PROVE  job[x].at = job'[x].at /\ job'[x].family = job[x].family /\ job'[x].token = job[x].token
  <2>1. Kept(x)
    BY <1>2, <1>7 DEF JobsKept, Idle
  <2>2. QED
    BY ONLY <1>7, <2>1 DEF Kept
<1>8. ASSUME NEW x \in Slots, job'[x].at = "revokeFamily"
      PROVE  \E u \in Tokens : refresh'[u].family = job'[x].family /\ refresh'[u].used /\ u \in replayed'
  BY <1>5, <1>7, <1>8 DEF Justified
<1>9. ASSUME NEW x \in Slots, job'[x].at = "look" PROVE job'[x].token \in replayed'
  BY <1>2, <1>7, <1>9 DEF Justified
<1>10. \A u \in replayed' : refresh'[u].status # "absent"
  BY <1>2, ReplayedExist DEF DocsFade
<1>11. QED
  BY <1>3, <1>4, <1>6, <1>8, <1>9, <1>10, OneEbbs DEF Justified

\* Every step keeps the renewals in order.
LEMMA RenewStep ==
  ASSUME RenewInv, Next
  PROVE  RenewInv'
<1>1. TypeInv'
  BY TypeStep DEF RenewInv
<1>2. ASSUME Ebbs, alarms' = alarms, replayed' = replayed,
             \A x \in Slots : Kept(x) \/ job'[x].at \notin {"look", "revokeFamily"}
      PROVE  One' /\ Marked' /\ Justified'
  BY <1>2, OneEbbs, MarkedEbbs, JustifiedKept, ReplayedExist DEF RenewInv, Ebbs
<1>3. ASSUME NEW h \in Slots,
             \/ LoginRead(h) \/ FindUser(h) \/ Quiet(h) \/ WriteChange(h) \/ WriteReset(h) 
             \/ Bump(h) \/ Anonymise(h) \/ Sweep(h) \/ Reread(h)
      PROVE  One' /\ Marked' /\ Justified'
  BY <1>2, <1>3, EbbStep DEF RenewInv
<1>4. ASSUME LinkExpires \/ \E t \in Tokens : Expire(t) \/ Remove(t)
      PROVE  One' /\ Marked' /\ Justified'
  <2>1. DocsFade /\ UNCHANGED <<job, replayed, alarms>>
    BY <1>4, TimeEffect DEF RenewInv, TypeInv
  <2>2. \A x \in Slots : Kept(x)
    BY <2>1 DEF Kept
  <2>3. QED
    BY <1>2, <2>1, <2>2 DEF Ebbs
<1>5. One' /\ Marked' /\ Justified'
  BY <1>3, <1>4, StepCases, ClaimRenews, IssueRenews, ClaimFailsRenews, LookRenews, RevokeFamilyRenews
<1>6. QED
  BY <1>1, <1>5 DEF RenewInv

\* The renewals are in order throughout.
LEMMA RenewAlways == Spec => []RenewInv
<1>1. Init => RenewInv
  <2>1. SUFFICES ASSUME Init PROVE RenewInv
    OBVIOUS
  <2>2. Live = {} /\ alarms = {} /\ replayed = {} /\ \A h \in Slots : job[h].at = "idle"
    BY <2>1 DEF Init, Live, Stored, NoDocument, Idle
  <2>3. QED
    BY <2>1, <2>2, TypeInit DEF RenewInv, One, Renewing, Marked, ReuseEndsTheFamily, Justified, NoFalseAlarm
<1>2. RenewInv /\ [Next]_vars => RenewInv'
  <2>1. CASE UNCHANGED vars
    BY <2>1, TypeStutter DEF vars, userVars, tokenVars, history, RenewInv, One, Renewing, Live, Stored,
       Marked, ReuseEndsTheFamily, Justified, NoFalseAlarm
  <2>2. QED
    BY <2>1, RenewStep
<1>3. QED
  BY <1>1, <1>2, PTL DEF Spec

\* However refreshes, retries and crashes fall, a session has one continuation:
\* a token that can be presented, or a handler about to store one.
THEOREM OneContinuationAlways == Spec => []OneContinuation
<1>1. RenewInv => OneContinuation
  <2>1. SUFFICES ASSUME RenewInv PROVE OneContinuation
    OBVIOUS
  <2>2. QED
    BY <2>1 DEF RenewInv, One, Renewing, OneContinuation, Family, Live, Rotating
<1>2. QED
  BY <1>1, RenewAlways, PTL

\* Detected reuse ends the whole session, but for a renewal that overlapped it,
\* and no session is ended for reuse without a token that was spent and then
\* presented again.
THEOREM ReuseDetectionAlways == Spec => []ReuseDetection
<1>1. RenewInv => ReuseDetection
  BY DEF RenewInv, Marked, Justified, ReuseDetection
<1>2. QED
  BY <1>1, RenewAlways, PTL

-----------------------------------------------------------------------------
(***************************************************************************)
(* What survives the end of all sessions.                                  *)
(*                                                                         *)
(* A refresh token is swept with the others or was issued by a handler     *)
(* that the sweep marked.  An access token is retired by the bump, which   *)
(* comes before the sweep when a password is written: what is minted at    *)
(* the new version in between may belong to an old session, and is marked  *)
(* for that (the window).                                                  *)
(***************************************************************************)
SweptOrMarked ==
  /\ \A t \in Live : refresh[t].origin = sweeps \/ refresh[t].overlap
  /\ \A h \in Slots : job[h].at \in Minting => job[h].origin = sweeps \/ job[h].overlap

\* Nothing is ahead of the counters.
Counted ==
  /\ \A h \in Slots : job[h].at = "issue" => job[h].ver <= version
  /\ \A a \in access : a.ver <= version
  /\ cut <= sweeps
  /\ \A h \in Slots : job[h].at \in {"bump", "anonymise"} => job[h].origin <= sweeps

Retired == \A a \in access : a.ver = version => a.origin >= cut \/ a.overlap

\* While a password's sweep is to come, what has its version is marked.
Windowed ==
  WindowOpen =>
    /\ \A a \in access : a.ver = version => a.overlap
    /\ \A h \in Slots : job[h].at = "issue" /\ job[h].ver = version => job[h].overlap

SurviveInv == TypeInv /\ SweptOrMarked /\ Counted /\ Retired /\ Windowed

Survives == SweptOrMarked /\ Counted /\ Retired /\ Windowed

\* What a handler may be left with by a step that neither bumps nor sweeps.
Sound(x) ==
  /\ job'[x].at \notin {"changeSweep", "resetSweep", "bump", "anonymise"}
  /\ job'[x].at \in Minting => job'[x].origin = sweeps \/ job'[x].overlap
  /\ job'[x].at = "issue" => /\ job'[x].ver <= version
                             /\ WindowOpen /\ job'[x].ver = version => job'[x].overlap

\* A handler that is kept is as it was.
LEMMA KeptFacts ==
  ASSUME NEW x \in Slots, Kept(x), job'[x].at # "idle"
  PROVE  /\ job'[x].at = job[x].at /\ job'[x].ver = job[x].ver /\ job'[x].origin = job[x].origin
         /\ job[x].overlap => job'[x].overlap
BY DEF Kept

\* A window that is open after such a step was open before.
LEMMA WindowWasOpen ==
  ASSUME \A x \in Slots : Kept(x) \/ job'[x].at \notin {"changeSweep", "resetSweep"},
         WindowOpen'
  PROVE  WindowOpen
<1>1. PICK x \in Slots : job'[x].at \in {"changeSweep", "resetSweep"}
  BY DEF WindowOpen
<1>2. Kept(x) /\ job'[x].at # "idle"
  BY <1>1
<1>3. job[x].at = job'[x].at
  BY <1>2, KeptFacts
<1>4. QED
  BY <1>1, <1>3 DEF WindowOpen

\* The tokens that can be claimed after documents have faded.
LEMMA LiveSweptOrMarked ==
  ASSUME SweptOrMarked, DocsFade, sweeps' = sweeps, NEW t \in Live'
  PROVE  refresh'[t].origin = sweeps' \/ refresh'[t].overlap
<1>1. t \in Tokens
  BY DEF Live, Stored
<1>2. t \in Live /\ refresh'[t].origin = refresh[t].origin /\ refresh'[t].overlap = refresh[t].overlap
  BY <1>1 DEF DocsFade
<1>3. QED
  BY <1>2 DEF SweptOrMarked

\* The handlers after a step that neither bumps nor sweeps.
LEMMA HandlersSurvive ==
  ASSUME SweptOrMarked, Counted, Windowed, UNCHANGED <<version, sweeps, cut>>,
         \A x \in Slots : Kept(x) \/ Sound(x)
  PROVE  /\ \A h \in Slots : job'[h].at \in Minting => job'[h].origin = sweeps' \/ job'[h].overlap
         /\ \A h \in Slots : job'[h].at = "issue" => job'[h].ver <= version'
         /\ \A h \in Slots : job'[h].at \in {"bump", "anonymise"} => job'[h].origin <= sweeps'
         /\ WindowOpen' => WindowOpen
         /\ WindowOpen' => 
              \A h \in Slots : job'[h].at = "issue" /\ job'[h].ver = version' => job'[h].overlap
<1>1. WindowOpen' => WindowOpen
  BY WindowWasOpen DEF Sound
<1>2. ASSUME NEW h \in Slots
      PROVE  /\ job'[h].at \in Minting => job'[h].origin = sweeps \/ job'[h].overlap
             /\ job'[h].at = "issue" => job'[h].ver <= version
             /\ job'[h].at \in {"bump", "anonymise"} => job'[h].origin <= sweeps
             /\ WindowOpen /\ job'[h].at = "issue" /\ job'[h].ver = version => job'[h].overlap
  <2>1. CASE Kept(h) /\ job'[h].at # "idle"
    <3>1. /\ job'[h].at = job[h].at /\ job'[h].ver = job[h].ver /\ job'[h].origin = job[h].origin
          /\ job[h].overlap => job'[h].overlap
      BY <2>1, KeptFacts
    <3>2. QED
      BY <3>1 DEF SweptOrMarked, Counted, Windowed
  <2>2. CASE job'[h].at = "idle"
    BY <2>2 DEF Minting
  <2>3. CASE Sound(h)
    BY <2>3 DEF Sound
  <2>4. QED
    BY <2>1, <2>2, <2>3
<1>3. QED
  BY <1>1, <1>2

\* A step that neither mints nor bumps nor sweeps keeps what survives.
LEMMA FadeSurvives ==
  ASSUME Survives, DocsFade, UNCHANGED <<version, sweeps, cut, access>>,
         \A x \in Slots : Kept(x) \/ Sound(x)
  PROVE  Survives'
<1> USE DEF Survives
<1>1. SweptOrMarked'
  BY LiveSweptOrMarked, HandlersSurvive DEF SweptOrMarked
<1>2. Counted'
  BY HandlersSurvive DEF Counted
<1>3. Retired'
  BY DEF Retired
<1>4. Windowed'
  BY HandlersSurvive DEF Windowed
<1>5. QED
  BY <1>1, <1>2, <1>3, <1>4

\* Those steps, one by one.
LEMMA FadeStep ==
  ASSUME SurviveInv, NEW h \in Slots,
         \/ LoginRead(h) \/ FindUser(h) \/ Look(h) \/ RevokeFamily(h) \/ Quiet(h)
         \/ \E t \in Tokens : Claim(h, t) \/ ClaimFails(h, t)
  PROVE  Survives'
<1> USE DEF SurviveInv, TypeInv, Named
<1>1. ASSUME DocsFade, JobsKept(h), Sound(h), UNCHANGED <<version, sweeps, cut, access>>
      PROVE  Survives'
  <2>1. \A x \in Slots : Kept(x) \/ Sound(x)
    BY <1>1 DEF JobsKept
  <2>2. QED
    BY <1>1, <2>1, FadeSurvives DEF Survives
<1>2. HandlerNamed(h) /\ version \in Nat
  BY DEF TypeOK
<1>3. CASE LoginRead(h)
  <2>1. /\ DocsFade /\ JobsKept(h) /\ job'[h].at = "issue" /\ job'[h].ver = version 
        /\ job'[h].origin = sweeps /\ job'[h].overlap = WindowOpen
        /\ UNCHANGED <<userVars, tokenVars, history>>
    BY <1>3, LoginReadEffect
  <2>2. Sound(h)
    BY <1>2, <2>1 DEF Sound
  <2>3. QED
    BY <1>1, <2>1, <2>2 DEF userVars, tokenVars, history
<1>4. CASE FindUser(h)
  <2>1. /\ DocsFade /\ JobsKept(h) /\ job[h].at = "find" /\ job'[h].at = "issue" 
        /\ job'[h].ver = version /\ job'[h].origin = job[h].origin 
        /\ job'[h].overlap = (job[h].overlap \/ WindowOpen)
        /\ UNCHANGED <<userVars, tokenVars, history>>
    BY <1>4, FindUserEffect
  <2>2. job[h].origin = sweeps \/ job[h].overlap
    BY <2>1 DEF SweptOrMarked, Minting
  <2>3. job[h].overlap \/ WindowOpen => job'[h].overlap
    BY ONLY <2>1, Zenon
  <2>4. /\ job'[h].origin = sweeps \/ job'[h].overlap
        /\ WindowOpen => job'[h].overlap
    BY ONLY <2>1, <2>2, <2>3
  <2>5. Sound(h)
    BY <1>2, <2>1, <2>4 DEF Sound
  <2>6. QED
    BY <1>1, <2>1, <2>5 DEF userVars, tokenVars, history
<1>5. CASE Look(h)
  <2>1. /\ DocsFade /\ JobsKept(h) /\ job'[h].at \in {"idle", "revokeFamily"}
        /\ UNCHANGED <<userVars, tokenVars, history>>
    BY <1>2, <1>5, LookEffect DEF Idle
  <2>2. Sound(h)
    BY <2>1 DEF Sound, Minting
  <2>3. QED
    BY <1>1, <2>1, <2>2 DEF userVars, tokenVars, history
<1>6. CASE RevokeFamily(h)
  <2>1. /\ DocsFade /\ JobsKept(h) /\ job'[h].at = "idle"
        /\ UNCHANGED <<userVars, access, replayed, revocations, sweeps, cut>>
    BY <1>2, <1>6, RevokeFamilyEffect DEF Idle
  <2>2. Sound(h)
    BY <2>1 DEF Sound, Minting
  <2>3. QED
    BY <1>1, <2>1, <2>2 DEF userVars
<1>7. CASE Quiet(h)
  <2>1. /\ DocsFade /\ JobsKept(h) /\ job'[h].at \in Neutral
        /\ UNCHANGED <<version, access, sweeps, cut>>
    BY <1>2, <1>7, QuietEffect
  <2>2. Sound(h)
    BY <2>1 DEF Sound, Minting, Neutral
  <2>3. QED
    BY <1>1, <2>1, <2>2
<1>8. ASSUME NEW t \in Tokens, Claim(h, t) PROVE Survives'
  <2>1. /\ DocsFade /\ JobsKept(h) /\ t \in Live
        /\ \/ job'[h] = Idle
           \/ /\ job'[h].at = "find" /\ job'[h].origin = refresh[t].origin
              /\ job'[h].overlap = refresh[t].overlap
        /\ UNCHANGED <<userVars, access, replayed, history>>
    BY <1>8, ClaimEffect
  <2>2. refresh[t].origin = sweeps \/ refresh[t].overlap
    BY <2>1 DEF SweptOrMarked
  <2>3. Sound(h)
    BY <2>1, <2>2 DEF Sound, Minting, Idle
  <2>4. QED
    BY <1>1, <2>1, <2>3 DEF userVars, history
<1>9. ASSUME NEW t \in Tokens, ClaimFails(h, t) PROVE Survives'
  <2>1. /\ DocsFade /\ JobsKept(h) /\ job'[h].at = "look"
        /\ UNCHANGED <<userVars, refresh, access, history>>
    BY <1>9, ClaimFailsEffect
  <2>2. Sound(h)
    BY <2>1 DEF Sound, Minting
  <2>3. QED
    BY <1>1, <2>1, <2>2 DEF userVars, history
<1>10. QED
  BY <1>3, <1>4, <1>5, <1>6, <1>7, <1>8, <1>9

\* Minting an access token from a handler that was swept or marked.
LEMMA MintSurvives ==
  ASSUME SurviveInv, NEW h \in Slots, JobsKept(h), job'[h] = Idle,
         NEW a \in AccessToken, Mint(a),
         a.ver <= version, a.origin = sweeps \/ a.overlap,
         WindowOpen /\ a.ver = version => a.overlap,
         UNCHANGED <<version, sweeps, cut>>,
         \A t \in Live' : refresh'[t].origin = sweeps \/ refresh'[t].overlap
  PROVE  Survives'
<1> USE DEF SurviveInv, TypeInv
<1>1. \A x \in Slots : Kept(x) \/ Sound(x)
  BY DEF JobsKept, Sound, Idle, Minting
<1>2. \A b \in access' : b \in access \/ b = a
  BY DEF Mint
<1>3. SweptOrMarked'
  BY <1>1, HandlersSurvive DEF SweptOrMarked
<1>4. Counted'
  BY <1>1, <1>2, HandlersSurvive DEF Counted
<1>5. Retired'
  <2>1. a.origin = sweeps => a.origin >= cut
    BY DEF Counted, TypeOK
  <2>2. QED
    BY <1>2, <2>1 DEF Retired
<1>6. Windowed'
  BY <1>1, <1>2, HandlersSurvive DEF Windowed
<1>7. QED
  BY <1>3, <1>4, <1>5, <1>6 DEF Survives

\* Storing a session and handing out its access token.
LEMMA IssueSurvives ==
  ASSUME SurviveInv, NEW h \in Slots, Issue(h)
  PROVE  Survives'
<1> USE DEF SurviveInv, TypeInv
<1> DEFINE a == [ver |-> job[h].ver, origin |-> job[h].origin, overlap |-> job[h].overlap]
<1>1. /\ JobsKept(h) /\ job[h] \in Job /\ job[h].at = "issue" /\ job'[h] = Idle
      /\ Mint(a) /\ UNCHANGED <<userVars, replayed, history>>
  BY IssueEffect
<1>2. PICK t \in Tokens :
        /\ refresh'[t].origin = job[h].origin /\ refresh'[t].overlap = job[h].overlap
        /\ \A u \in Tokens : u # t => refresh'[u] = refresh[u]
  BY IssueEffect
<1>3. job[h].origin = sweeps \/ job[h].overlap
  BY <1>1 DEF SweptOrMarked, Minting
<1>4. \A u \in Live' : refresh'[u].origin = sweeps \/ refresh'[u].overlap
  <2>1. ASSUME NEW u \in Live' PROVE refresh'[u].origin = sweeps \/ refresh'[u].overlap
    <3>1. CASE u = t
      BY <1>2, <1>3, <3>1
    <3>2. CASE u # t
      BY <1>2, <3>2 DEF SweptOrMarked, Live, Stored
    <3>3. QED
      BY <3>1, <3>2
  <2>2. QED
    BY <2>1
<1>5. a \in AccessToken
  BY <1>1 DEF Job, AccessToken
<1>6. /\ a.ver <= version /\ (a.origin = sweeps \/ a.overlap)
      /\ WindowOpen /\ a.ver = version => a.overlap
  BY <1>1, <1>3 DEF Counted, Windowed
<1>7. UNCHANGED <<version, sweeps, cut>>
  BY <1>1 DEF userVars, history
<1> HIDE DEF a
<1>8. QED
  BY <1>1, <1>4, <1>5, <1>6, <1>7, MintSurvives

\* Handing an access token to whoever changed the password.
LEMMA RereadSurvives ==
  ASSUME SurviveInv, NEW h \in Slots, Reread(h)
  PROVE  Survives'
<1> USE DEF SurviveInv, TypeInv
<1> DEFINE a == [ver |-> version, origin |-> job[h].origin, overlap |-> job[h].overlap \/ WindowOpen]
<1>1. /\ JobsKept(h) /\ job[h] \in Job /\ job[h].at = "reread" /\ job'[h] = Idle
      /\ Mint(a) /\ UNCHANGED <<userVars, refresh, replayed, history>>
  BY RereadEffect
<1>2. job[h].origin = sweeps \/ job[h].overlap
  BY <1>1 DEF SweptOrMarked, Minting
<1>3. \A u \in Live' : refresh'[u].origin = sweeps \/ refresh'[u].overlap
  BY <1>1 DEF SweptOrMarked, Live, Stored
<1>4. a \in AccessToken
  BY <1>1 DEF Job, AccessToken, TypeOK, WindowOpen
<1>5. /\ a.ver <= version /\ (a.origin = sweeps \/ a.overlap)
      /\ WindowOpen /\ a.ver = version => a.overlap
  <2>1. a.ver = version /\ a.origin = job[h].origin /\ a.overlap = (job[h].overlap \/ WindowOpen)
    OBVIOUS
  <2>2. job[h].overlap \/ WindowOpen => a.overlap
    BY ONLY <2>1, Zenon
  <2>3. version <= version
    BY DEF TypeOK
  <2>4. QED
    BY ONLY <1>2, <2>1, <2>2, <2>3
<1>6. UNCHANGED <<version, sweeps, cut>>
  BY <1>1 DEF userVars, history
<1> HIDE DEF a
<1>7. QED
  BY <1>1, <1>3, <1>4, <1>5, <1>6, MintSurvives

\* A bump retires every access token minted, and any that handlers are about
\* to mint from what they read before.
LEMMA BumpRetires ==
  ASSUME SurviveInv, BumpVersion,
         \A x \in Slots : Kept(x) \/ job'[x].at # "issue"
  PROVE  /\ access' = {}
         /\ version' = version + 1
         /\ \A x \in Slots : job'[x].at = "issue" => job'[x].ver <= version /\ job'[x].ver \in Nat
<1> USE DEF SurviveInv, TypeInv
<1>1. version' = version + 1 /\ access' = {a \in access : a.ver = version + 1}
  BY DEF BumpVersion
<1>2. \A a \in access : a.ver \in Nat /\ a.ver <= version
  BY DEF TypeOK, AccessToken, Counted
<1>3. access' = {}
  BY <1>1, <1>2 DEF TypeOK
<1>4. ASSUME NEW x \in Slots, job'[x].at = "issue"
      PROVE  job'[x].ver <= version /\ job'[x].ver \in Nat
  <2>1. job[x].at = "issue" /\ job'[x].ver = job[x].ver
    BY <1>4, KeptFacts
  <2>2. job[x] \in Job
    BY <2>1, JobType
  <2>3. QED
    BY <2>1, <2>2 DEF Counted, Job
<1>5. QED
  BY <1>1, <1>3, <1>4

\* Writing a password: every token of the version before it is retired, and
\* the window is open.
LEMMA WriteSurvives ==
  ASSUME SurviveInv, NEW h \in Slots, WriteChange(h) \/ WriteReset(h)
  PROVE  Survives'
<1> USE DEF SurviveInv, TypeInv
<1>1. /\ DocsFade /\ JobsKept(h) /\ job'[h].at \in {"changeSweep", "resetSweep"} 
      /\ BumpVersion /\ UNCHANGED <<sweeps, cut>>
  BY WriteEffect DEF history
<1>2. \A x \in Slots : Kept(x) \/ job'[x].at \notin {"issue", "find", "reread", "bump", "anonymise"}
  BY <1>1 DEF JobsKept
<1>3. /\ access' = {} /\ version' = version + 1
      /\ \A x \in Slots : job'[x].at = "issue" => job'[x].ver <= version /\ job'[x].ver \in Nat
  BY <1>1, <1>2, BumpRetires
<1>4. ASSUME NEW x \in Slots
      PROVE  /\ job'[x].at \in Minting => job'[x].origin = sweeps \/ job'[x].overlap
             /\ job'[x].at \in {"bump", "anonymise"} => job'[x].origin <= sweeps
  <2>1. CASE Kept(x) /\ job'[x].at # "idle"
    BY <2>1, KeptFacts DEF SweptOrMarked, Counted
  <2>2. CASE job'[x].at \notin {"issue", "find", "reread", "bump", "anonymise"}
    BY <2>2 DEF Minting
  <2>3. QED
    BY <1>2, <2>1, <2>2
<1>5. SweptOrMarked'
  BY <1>1, <1>4, LiveSweptOrMarked DEF SweptOrMarked
<1>6. version \in Nat
  BY DEF TypeOK
<1>7. Counted' /\ Retired'
  BY <1>1, <1>3, <1>4, <1>6 DEF Counted, Retired
<1>8. Windowed'
  BY <1>3, <1>6 DEF Windowed
<1>9. QED
  BY <1>5, <1>7, <1>8 DEF Survives

\* Bumping after the sweep.
LEMMA BumpSurvives ==
  ASSUME SurviveInv, NEW h \in Slots, Bump(h) \/ Anonymise(h)
  PROVE  Survives'
<1> USE DEF SurviveInv, TypeInv
<1>1. /\ DocsFade /\ JobsKept(h) /\ job[h].at \in {"bump", "anonymise"} /\ job'[h] = Idle
      /\ BumpVersion /\ UNCHANGED sweeps
      /\ cut' = IF cut < job[h].origin THEN job[h].origin ELSE cut
  BY BumpEffect
<1>2. \A x \in Slots : Kept(x) \/ job'[x].at \notin {"issue", "find", "reread", "bump", "anonymise"}
  BY <1>1 DEF JobsKept, Idle
<1>3. /\ access' = {} /\ version' = version + 1
      /\ \A x \in Slots : job'[x].at = "issue" => job'[x].ver <= version /\ job'[x].ver \in Nat
  BY <1>1, <1>2, BumpRetires
<1>4. ASSUME NEW x \in Slots
      PROVE  /\ job'[x].at \in Minting => job'[x].origin = sweeps \/ job'[x].overlap
             /\ job'[x].at \in {"bump", "anonymise"} => job'[x].origin <= sweeps
  <2>1. CASE Kept(x) /\ job'[x].at # "idle"
    BY <2>1, KeptFacts DEF SweptOrMarked, Counted
  <2>2. CASE job'[x].at \notin {"issue", "find", "reread", "bump", "anonymise"}
    BY <2>2 DEF Minting
  <2>3. QED
    BY <1>2, <2>1, <2>2
<1>5. SweptOrMarked'
  BY <1>1, <1>4, LiveSweptOrMarked DEF SweptOrMarked
<1>6. version \in Nat /\ cut' <= sweeps
  BY <1>1 DEF TypeOK, Counted
<1>7. Counted' /\ Retired'
  BY <1>1, <1>3, <1>4, <1>6 DEF Counted, Retired
<1>8. Windowed'
  BY <1>3, <1>6 DEF Windowed
<1>9. QED
  BY <1>5, <1>7, <1>8 DEF Survives

\* The sweep: nothing to claim is left, and who is minting is marked.
LEMMA SweepSurvives ==
  ASSUME SurviveInv, NEW h \in Slots, Sweep(h)
  PROVE  Survives'
<1> USE DEF SurviveInv, TypeInv
<1>1. /\ JobsKept(h) /\ Live' = {}
      /\ \A x \in Slots : x # h /\ job[x].at \in Minting => job'[x].overlap
      /\ sweeps' = sweeps + 1 /\ UNCHANGED <<version, access>>
      /\ \/ /\ job[h].at \in {"resetSweep", "changeSweep"} /\ cut' = sweeps'
            /\ job'[h].at \in {"idle", "reread"}
         \/ /\ job[h].at \in {"logoutSweep", "closeSweep"} /\ cut' = cut
            /\ job'[h].at \in {"bump", "anonymise"}
      /\ job'[h].at # "idle" => job'[h].origin = sweeps'
  BY SweepEffect
<1>2. sweeps \in Nat /\ cut \in Nat /\ cut <= sweeps
  BY DEF TypeOK, Counted
<1>3. ASSUME NEW x \in Slots, x # h, job'[x].at # "idle"
      PROVE  /\ job'[x].at = job[x].at /\ job'[x].ver = job[x].ver /\ job'[x].origin = job[x].origin
             /\ job[x].overlap => job'[x].overlap
  BY <1>1, <1>3, KeptFacts DEF JobsKept
<1>4. \A x \in Slots : job'[x].at \in Minting => job'[x].origin = sweeps' \/ job'[x].overlap
  <2>1. ASSUME NEW x \in Slots, job'[x].at \in Minting 
        PROVE  job'[x].origin = sweeps' \/ job'[x].overlap
    <3>1. CASE x = h
      BY <1>1, <2>1, <3>1 DEF Minting
    <3>2. CASE x # h
      BY <1>1, <1>3, <2>1, <3>2 DEF Minting
    <3>3. QED
      BY <3>1, <3>2
  <2>2. QED
    BY <2>1
<1>5. \A x \in Slots : job'[x].at = "issue" => x # h /\ job[x].at = "issue" /\ job'[x].ver = job[x].ver
  BY <1>1, <1>3
<1>6. \A x \in Slots : job'[x].at \in {"bump", "anonymise"} => job'[x].origin <= sweeps'
  <2>1. ASSUME NEW x \in Slots, job'[x].at \in {"bump", "anonymise"} 
        PROVE  job'[x].origin <= sweeps'
    <3>1. CASE x = h
      BY <1>1, <1>2, <2>1, <3>1
    <3>2. CASE x # h
      <4>1. job[x].at \in {"bump", "anonymise"} /\ job'[x].origin = job[x].origin
        BY <1>3, <2>1, <3>2
      <4>2. job[x] \in Job
        BY <4>1, JobType
      <4>3. QED
        BY <1>1, <1>2, <4>1, <4>2 DEF Counted, Job
    <3>3. QED
      BY <3>1, <3>2
  <2>2. QED
    BY <2>1
<1>7. SweptOrMarked'
  BY <1>1, <1>4 DEF SweptOrMarked
<1>8. Counted'
  BY <1>1, <1>2, <1>5, <1>6 DEF Counted
<1>9. Retired'
  <2>1. CASE job[h].at \in {"resetSweep", "changeSweep"}
    <3>1. WindowOpen
      BY <2>1 DEF WindowOpen
    <3>2. QED
      BY <1>1, <3>1 DEF Windowed, Retired
  <2>2. CASE cut' = cut
    BY <1>1, <2>2 DEF Retired
  <2>3. QED
    BY <1>1, <2>1, <2>2
<1>10. Windowed'
  <2>1. WindowOpen' => WindowOpen
    <3>1. \A x \in Slots : Kept(x) \/ job'[x].at \notin {"changeSweep", "resetSweep"}
      BY <1>1 DEF JobsKept
    <3>2. QED
      BY <3>1, WindowWasOpen
  <2>2. \A x \in Slots : job'[x].at = "issue" => job'[x].overlap
    BY <1>1, <1>5 DEF Minting
  <2>3. QED
    BY <1>1, <2>1, <2>2 DEF Windowed
<1>11. QED
  BY <1>7, <1>8, <1>9, <1>10 DEF Survives

\* Every step keeps what survives.
LEMMA SurviveStep ==
  ASSUME SurviveInv, Next
  PROVE  SurviveInv'
<1>1. TypeInv'
  BY TypeStep DEF SurviveInv
<1>2. ASSUME LinkExpires \/ \E t \in Tokens : Expire(t) \/ Remove(t)
      PROVE  Survives'
  <2>1. DocsFade /\ UNCHANGED <<job, version, sweeps, cut, access>>
    BY <1>2, TimeEffect DEF SurviveInv, TypeInv
  <2>2. \A x \in Slots : Kept(x)
    BY <2>1 DEF Kept
  <2>3. QED
    BY <2>1, <2>2, FadeSurvives DEF SurviveInv, Survives
<1>3. Survives'
  BY <1>2, StepCases, FadeStep, IssueSurvives, RereadSurvives, WriteSurvives, BumpSurvives, SweepSurvives
<1>4. QED
  BY <1>1, <1>3 DEF SurviveInv, Survives

\* What ended the sessions of an account ended them all, but for those that a
\* handler was renewing at that moment.
THEOREM OnlyOverlapSurvivesAlways == Spec => []OnlyOverlapSurvives
<1>1. Init => SurviveInv
  <2>1. SUFFICES ASSUME Init PROVE SurviveInv
    OBVIOUS
  <2>2. Live = {} /\ access = {} /\ cut <= sweeps /\ \A h \in Slots : job[h].at = "idle"
    BY <2>1 DEF Init, Live, Stored, NoDocument, Idle
  <2>3. QED
    BY <2>1, <2>2, TypeInit DEF SurviveInv, SweptOrMarked, Counted, Retired, Windowed, Minting
<1>2. SurviveInv /\ [Next]_vars => SurviveInv'
  <2>1. CASE UNCHANGED vars
    BY <2>1, TypeStutter DEF vars, userVars, tokenVars, history, SurviveInv, SweptOrMarked, Counted,
       Retired, Windowed, WindowOpen, Live, Stored
  <2>2. QED
    BY <2>1, SurviveStep
<1>3. SurviveInv => OnlyOverlapSurvives
  BY DEF SurviveInv, SweptOrMarked, Retired, OnlyOverlapSurvives
<1>4. QED
  BY <1>1, <1>2, <1>3, PTL DEF Spec
-----------------------------------------------------------------------------
(***************************************************************************)
(* Ended sessions.  What a family may be continued by - a token that can   *)
(* be claimed or a handler that renews - comes from what continued it      *)
(* before; a sign-in starts a family nobody was ever in.                   *)
(***************************************************************************)

\* A family that has ended has nothing to claim and nobody renewing it.
LEMMA EndedMeans ==
  ASSUME TypeOK, NEW f \in Tokens
  PROVE  Ended(f) <=> /\ \E t \in Tokens : refresh[t].status # "absent" /\ refresh[t].family = f
                      /\ \A t \in Live : refresh[t].family # f
                      /\ \A x \in Slots : Renewing(x) => job[x].family # f
BY DEF Ended, Family, Live, Stored, Rotating, Renewing

\* The same of the next state.
LEMMA EndedNext ==
  ASSUME NEW f \in Tokens,
         \E t \in Tokens : refresh'[t].status # "absent" /\ refresh'[t].family = f,
         \A t \in Live' : refresh'[t].family # f,
         \A x \in Slots : Renewing(x)' => job'[x].family # f
  PROVE  Ended(f)'
BY DEF Ended, Family, Live, Stored, Rotating, Renewing

\* A family that has ended is one that was started.
LEMMA EndedExists ==
  ASSUME TypeInv, NEW f \in Tokens, Ended(f)
  PROVE  refresh[f].status # "absent"
<1>1. PICK t \in Tokens : refresh[t].status # "absent" /\ refresh[t].family = f
  BY DEF Ended
<1>2. QED
  BY <1>1 DEF TypeInv, Named, DocsNamed

\* Where nothing new is renewed, what has ended stays so.
LEMMA EndedEbbs ==
  ASSUME TypeInv, Ebbs, NEW f \in Tokens, Ended(f)
  PROVE  Ended(f)'
<1>1. \E t \in Tokens : refresh'[t].status # "absent" /\ refresh'[t].family = f
  BY DEF Ended, Ebbs, DocsFade
<1>2. ASSUME NEW t \in Live' PROVE refresh'[t].family # f
  <2>1. t \in Live /\ refresh'[t].family = refresh[t].family
    BY DEF Ebbs, DocsFade, Live, Stored
  <2>2. QED
    BY <2>1, EndedMeans DEF TypeInv
<1>3. ASSUME NEW x \in Slots, Renewing(x)' PROVE job'[x].family # f
  <2>1. \/ job'[x].family = NoToken
        \/ Renewing(x) /\ job'[x].family = job[x].family
    BY <1>3, Renewed DEF Ebbs
  <2>2. QED
    BY <2>1, EndedMeans, SessionsAssumption DEF TypeInv
<1>4. QED
  BY <1>1, <1>2, <1>3, EndedNext

\* A claim renews the family of a token that could be claimed.
LEMMA EndedClaim ==
  ASSUME TypeInv, NEW h \in Slots, NEW t \in Tokens, Claim(h, t), NEW f \in Tokens, Ended(f)
  PROVE  Ended(f)'
<1>1. /\ DocsFade /\ JobsKept(h) /\ t \in Live
      /\ \/ job'[h] = Idle
         \/ job'[h].at = "find" /\ job'[h].family = refresh[t].family
  BY ClaimEffect DEF TypeInv, Named
<1>2. refresh[t].family # f
  BY <1>1, EndedMeans DEF TypeInv
<1>3. \E u \in Tokens : refresh'[u].status # "absent" /\ refresh'[u].family = f
  BY <1>1 DEF Ended, DocsFade
<1>4. ASSUME NEW u \in Live' PROVE refresh'[u].family # f
  <2>1. u \in Live /\ refresh'[u].family = refresh[u].family
    BY <1>1 DEF DocsFade, Live, Stored
  <2>2. QED
    BY <2>1, EndedMeans DEF TypeInv
<1>5. ASSUME NEW x \in Slots, Renewing(x)' PROVE job'[x].family # f
  <2>1. CASE x = h
    BY <1>1, <1>2, <1>5, <2>1 DEF Renewing, Idle
  <2>2. CASE x # h
    <3>1. Kept(x)
      BY <1>1, <2>2 DEF JobsKept
    <3>2. Renewing(x) /\ job'[x].family = job[x].family
      BY ONLY <1>5, <3>1 DEF Kept, Renewing
    <3>3. QED
      BY <3>2, EndedMeans DEF TypeInv
  <2>3. QED
    BY <2>1, <2>2
<1>6. QED
  BY <1>3, <1>4, <1>5, EndedNext

\* A token is stored by a handler that was renewing its family, or starts one.
LEMMA EndedIssue ==
  ASSUME TypeInv, NEW h \in Slots, Issue(h), NEW f \in Tokens, Ended(f)
  PROVE  Ended(f)'
<1>1. JobsKept(h) /\ job[h].at = "issue" /\ job'[h] = Idle
  BY IssueEffect DEF TypeInv
<1>2. PICK t \in Tokens :
        /\ refresh[t].status = "absent"
        /\ refresh'[t].family = IF job[h].family = NoToken THEN t ELSE job[h].family
        /\ \A u \in Tokens : u # t => refresh'[u] = refresh[u]
  BY IssueEffect DEF TypeInv
<1>3. refresh'[t].family # f
  <2>1. t # f
    BY <1>2, EndedExists
  <2>2. job[h].family # f
    BY <1>1, EndedMeans DEF TypeInv, Renewing
  <2>3. QED
    BY <1>2, <2>1, <2>2
<1>4. \E u \in Tokens : refresh'[u].status # "absent" /\ refresh'[u].family = f
  <2>1. PICK u \in Tokens : refresh[u].status # "absent" /\ refresh[u].family = f
    BY DEF Ended
  <2>2. CASE u # t
    BY <1>2, <2>1, <2>2
  <2>3. CASE u = t
    BY <1>2, <2>1, <2>3
  <2>4. QED
    BY <2>2, <2>3
<1>5. ASSUME NEW u \in Live' PROVE refresh'[u].family # f
  <2>1. u \in Tokens /\ (u # t => u \in Live /\ refresh'[u] = refresh[u])
    BY <1>2 DEF Live, Stored
  <2>2. QED
    BY <1>3, <2>1, EndedMeans DEF TypeInv
<1>6. ASSUME NEW x \in Slots, Renewing(x)' PROVE job'[x].family # f
  <2>1. x # h
    BY <1>1, <1>6 DEF Renewing, Idle
  <2>2. Kept(x)
    BY <1>1, <2>1 DEF JobsKept
  <2>3. Renewing(x) /\ job'[x].family = job[x].family
    BY ONLY <1>6, <2>2 DEF Kept, Renewing
  <2>4. QED
    BY <2>3, EndedMeans DEF TypeInv
<1>7. QED
  BY <1>4, <1>5, <1>6, EndedNext

\* No step revives a family.
LEMMA EndedStep ==
  ASSUME TypeInv, Next, NEW f \in Tokens, Ended(f)
  PROVE  Ended(f)'
<1>1. ASSUME NEW h \in Slots, 
             \/ LoginRead(h) \/ FindUser(h) \/ Quiet(h) \/ WriteChange(h) \/ WriteReset(h) 
             \/ Bump(h) \/ Anonymise(h) \/ Sweep(h) \/ Reread(h)
      PROVE  Ended(f)'
  BY <1>1, EbbStep, EndedEbbs
<1>2. ASSUME NEW h \in Slots, Look(h) PROVE Ended(f)'
  <2>1. DocsFade /\ JobsKept(h) /\ (job'[h] = Idle \/ job'[h].at = "revokeFamily")
    BY <1>2, LookEffect DEF TypeInv, Named
  <2>2. Ebbs
    BY <2>1 DEF Ebbs, JobsKept, RenewsNot, Renewing, Idle
  <2>3. QED
    BY <2>2, EndedEbbs
<1>3. ASSUME NEW h \in Slots, RevokeFamily(h) PROVE Ended(f)'
  <2>1. DocsFade /\ JobsKept(h) /\ job'[h] = Idle
    BY <1>3, RevokeFamilyEffect DEF TypeInv, Named
  <2>2. Ebbs
    BY <2>1 DEF Ebbs, JobsKept, RenewsNot, Renewing, Idle
  <2>3. QED
    BY <2>2, EndedEbbs
<1>4. ASSUME NEW h \in Slots, NEW t \in Tokens, ClaimFails(h, t) PROVE Ended(f)'
  <2>1. DocsFade /\ JobsKept(h) /\ job'[h].at = "look"
    BY <1>4, ClaimFailsEffect DEF TypeInv
  <2>2. Ebbs
    BY <2>1 DEF Ebbs, JobsKept, RenewsNot, Renewing
  <2>3. QED
    BY <2>2, EndedEbbs
<1>5. ASSUME LinkExpires \/ \E t \in Tokens : Expire(t) \/ Remove(t) PROVE Ended(f)'
  <2>1. DocsFade /\ UNCHANGED job
    BY <1>5, TimeEffect DEF TypeInv
  <2>2. Ebbs
    BY <2>1 DEF Ebbs, Kept
  <2>3. QED
    BY <2>2, EndedEbbs
<1>6. QED
  BY <1>1, <1>2, <1>3, <1>4, <1>5, StepCases, EndedClaim, EndedIssue

\* A session that has ended never has a token to present again.
THEOREM EndedForGoodAlways == Spec => EndedForGood
<1>1. TypeInv /\ [Next]_vars => [\A f \in Tokens : Ended(f) => Ended(f)']_vars
  BY EndedStep
<1>2. QED
  BY <1>1, TypeAlways, PTL DEF Spec, EndedForGood
=============================================================================
