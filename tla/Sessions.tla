------------------------------ MODULE Sessions ------------------------------
(***************************************************************************)
(* The sessions of one account (src/app/sessions.py, routers/auth.py,      *)
(* deps.py, routers/profile.py): sign-in, refresh-token rotation with      *)
(* reuse detection, logout, password change and reset, and the part of     *)
(* closing the account that ends its sessions.  Registration issues a      *)
(* session the way a sign-in does, for a user that nobody else knows yet.  *)
(* An update_many is one step: what it does to one document commutes with  *)
(* what handlers do to the others.                                         *)
(*                                                                         *)
(* Two mechanisms end a session, each a single database operation: the     *)
(* refresh tokens are marked revoked, and token_version retires the access *)
(* tokens.  Every handler that ends sessions does both, with an await in   *)
(* between, beside handlers that are issuing tokens.  Slots are handlers   *)
(* in flight at once; a slot that has answered takes the next request.     *)
(***************************************************************************)
EXTENDS Integers, FiniteSets

CONSTANTS Tokens,         \* refresh tokens; also the names of the families
          NoToken,
          Slots,          \* handlers running at once
          MaxRevocations  \* bound: how many handlers that end sessions start

ASSUME SessionsAssumption ==
  /\ NoToken \notin Tokens
  /\ MaxRevocations \in Nat

VARIABLES version,     \* users.token_version
          closed,      \* users.deleted_at is set, the e-mail address replaced
          link,        \* users.reset_token_hash is set and has not expired
          refresh,     \* the documents of refresh_tokens
          access,      \* access tokens minted; that they expire only takes away
          job,         \* the handlers
          revocations, \* history: handlers that end sessions, started so far
          sweeps,      \* history: how often revoke_all_for_user has run
          cut,         \* history: the last sweep that was bumped for as well
          replayed,    \* history: tokens presented that could not be claimed
          alarms       \* history: families revoked because a token was reused

userVars == <<version, closed, link>>
tokenVars == <<refresh, access, replayed>>
history == <<revocations, sweeps, cut, alarms>>
vars == <<userVars, tokenVars, job, history>>

\* Handler positions, named for the operation that comes next.
Minting == {"find", "issue", "reread"}
Revoking == {"change", "changeSweep", "reset", "resetSweep",
             "logoutSweep", "bump", "closeSweep", "anonymise"}
Positions == Minting \cup Revoking \cup {"look", "revokeFamily", "revokeOne", "saveLink"}

\* origin is a history: the sweeps that had run when the family signed in.
\* So is overlap: a handler that issued the token, or one it descends from, ran
\* beside an operation that was ending the session.
Document == [status: {"absent", "stored", "gone"},
             family: Tokens \cup {NoToken},
             used: BOOLEAN, revoked: BOOLEAN, expired: BOOLEAN,
             origin: Nat, overlap: BOOLEAN]

NoDocument == [status |-> "absent", family |-> NoToken, used |-> FALSE, 
               revoked |-> FALSE, expired |-> FALSE, origin |-> 0, overlap |-> FALSE]

AccessToken == [ver: Nat, origin: Nat, overlap: BOOLEAN]

Job == [at: Positions, token: Tokens \cup {NoToken}, family: Tokens \cup {NoToken},
        ver: Nat, origin: Nat, overlap: BOOLEAN]

Idle == [at |-> "idle"]

\* A handler that has nothing yet but its position.
At(p) == [at |-> p, token |-> NoToken, family |-> NoToken, 
          ver |-> 0, origin |-> 0, overlap |-> FALSE]

Init ==
  /\ version = 0
  /\ closed = FALSE
  /\ link = FALSE
  /\ refresh = [t \in Tokens |-> NoDocument]
  /\ access = {}
  /\ job = [h \in Slots |-> Idle]
  /\ revocations = 0
  /\ sweeps = 0
  /\ cut = 0
  /\ replayed = {}
  /\ alarms = {}

Goto(h, from, next) ==
  /\ job[h].at = from
  /\ job' = [job EXCEPT ![h] = next]

\* A password has been written and its sweep is still to come.
WindowOpen == \E h \in Slots : job[h].at \in {"changeSweep", "resetSweep"}

\* get_current_user: an access token of the user's current version.
Admits(a) == a.ver = version

Authenticated == \E a \in access : Admits(a)

\* Versions only grow: a token of another one is refused for good, and forgotten.
Mint(a) == access' = {b \in access \cup {a} : Admits(b)}

BumpVersion ==
  /\ version' = version + 1
  /\ access' = {a \in access : a.ver = version'}

-----------------------------------------------------------------------------
(***************************************************************************)
(* Sign-in and rotation.                                                   *)
(***************************************************************************)

\* login: the account is found by its address and its password verified.
LoginRead(h) ==
  /\ ~closed
  /\ Goto(h, "idle", [At("issue") EXCEPT !.ver = version, !.origin = sweeps,
                                         !.overlap = WindowOpen])
  /\ UNCHANGED <<userVars, tokenVars, history>>

\* _token_response: a refresh token is stored, in its own family when it comes
\* from a sign-in, and an access token of the version that was read minted.
Issue(h) ==
  LET j == job[h]
  IN  /\ Goto(h, "issue", Idle)
      /\ \E t \in Tokens :
           /\ refresh[t].status = "absent"
           /\ refresh' = [refresh EXCEPT ![t] =
                [status |-> "stored", used |-> FALSE, revoked |-> FALSE, expired |-> FALSE,
                 family |-> IF j.family = NoToken THEN t ELSE j.family,
                 origin |-> j.origin, overlap |-> j.overlap]]
      /\ Mint([ver |-> j.ver, origin |-> j.origin, overlap |-> j.overlap])
      /\ UNCHANGED <<userVars, replayed, history>>

\* Mistake: the claim does not look whether the token is spent.
ClaimableThoughUsed(t) == refresh[t].status = "stored" /\ ~refresh[t].revoked

\* The filter of consume's conditional update.
Claimable(t) == 
  refresh[t].status = "stored" /\ ~refresh[t].revoked /\ ~refresh[t].used

\* The histories of a document matter only while its token can be claimed.
Forget(d) == [d EXCEPT !.origin = 0, !.overlap = FALSE, !.expired = FALSE]

\* consume: the token is spent; one that has expired is spent for a 401.
Claim(h, t) ==
  /\ Claimable(t)
  /\ Goto(h, "idle", IF refresh[t].expired THEN Idle
                     ELSE [At("find") EXCEPT !.family = refresh[t].family,
                                             !.origin = refresh[t].origin,
                                             !.overlap = refresh[t].overlap])
  /\ refresh' = [refresh EXCEPT ![t] = Forget([@ EXCEPT !.used = TRUE])]
  /\ UNCHANGED <<userVars, access, replayed, history>>

\* refresh: the user is read after the claim.
FindUser(h) ==
  /\ Goto(h, "find", [job[h] EXCEPT !.at = "issue", !.ver = version,
                                    !.overlap = @ \/ WindowOpen])
  /\ UNCHANGED <<userVars, tokenVars, history>>

\* consume: nothing claimable under this hash.
ClaimFails(h, t) ==
  /\ refresh[t].status # "absent"
  /\ ~Claimable(t)
  /\ Goto(h, "idle", [At("look") EXCEPT !.token = t])
  /\ replayed' = replayed \cup {t}
  /\ UNCHANGED <<userVars, refresh, access, history>>

\* Mistake: a token that was signed out counts as reused.
ReusedOrRevoked(t) == 
  refresh[t].status = "stored" /\ (refresh[t].used \/ refresh[t].revoked)

\* A token that is found spent was presented before.
Reused(t) == refresh[t].status = "stored" /\ refresh[t].used

\* Mistake: the family of the token found is not carried over.
LookLosesFamily(h) ==
  LET t == job[h].token
  IN  /\ Goto(h, "look", IF Reused(t) THEN At("revokeFamily") ELSE Idle)
      /\ UNCHANGED <<userVars, tokenVars, history>>

\* consume: look for the token; 401, after revoking its family if it was spent.
Look(h) ==
  LET t == job[h].token
  IN  /\ Goto(h, "look", 
              IF Reused(t) THEN [At("revokeFamily") EXCEPT !.family = refresh[t].family]
                           ELSE Idle)
      /\ UNCHANGED <<userVars, tokenVars, history>>

\* The documents after an update_many that revokes those of T.
Revoked(T) == [t \in Tokens |-> IF t \in T THEN Forget([refresh[t] EXCEPT !.revoked = TRUE])
                                           ELSE refresh[t]]

Stored == {t \in Tokens : refresh[t].status = "stored"}

\* The handlers once h has gone on to next while those of H were minting.
Overlapped(h, next, H) ==
  [x \in Slots |-> IF x = h THEN next
                   ELSE IF x \in H THEN [job[x] EXCEPT !.overlap = TRUE]
                   ELSE job[x]]

Mints == {h \in Slots : job[h].at \in Minting}

\* Mistake: only what was spent already is revoked.
FamilySpent(f) == {t \in Stored : refresh[t].family = f /\ refresh[t].used}

Family(f) == {t \in Stored : refresh[t].family = f}

\* revoke_family.
RevokeFamily(h) ==
  LET f == job[h].family
  IN  /\ job[h].at = "revokeFamily"
      /\ refresh' = Revoked(Family(f))
      /\ job' = Overlapped(h, Idle, {x \in Mints : job[x].family = f})
      /\ alarms' = alarms \cup {f}
      /\ UNCHANGED <<userVars, access, replayed, revocations, sweeps, cut>>

\* expires_at passes, and some time later the TTL index removes the document;
\* for a token that cannot be claimed only the second makes a difference.
Expire(t) ==
  /\ Claimable(t)
  /\ ~refresh[t].expired
  /\ refresh' = [refresh EXCEPT ![t].expired = TRUE]
  /\ UNCHANGED <<userVars, access, replayed, job, history>>

Remove(t) ==
  /\ refresh[t].status = "stored"
  /\ Claimable(t) => refresh[t].expired
  /\ refresh' = [refresh EXCEPT ![t] = 
       [NoDocument EXCEPT !.status = "gone", !.family = refresh[t].family,
                          !.used = refresh[t].used]]
  /\ UNCHANGED <<userVars, access, replayed, job, history>>

-----------------------------------------------------------------------------
(***************************************************************************)
(* Ending sessions.                                                        *)
(***************************************************************************)

\* logout of one session: the caller is authenticated, then revoke_one.
LogoutOne(h, t) ==
  /\ Authenticated
  /\ refresh[t].status # "absent"
  /\ Goto(h, "idle", [At("revokeOne") EXCEPT !.token = t])
  /\ UNCHANGED <<userVars, tokenVars, history>>

RevokeOne(h) ==
  /\ Goto(h, "revokeOne", Idle)
  /\ refresh' = Revoked(Stored \cap {job[h].token})
  /\ UNCHANGED <<userVars, access, replayed, history>>

\* A handler that will end every session starts at position p.
StartRevoking(h, p) ==
  /\ revocations < MaxRevocations
  /\ Goto(h, "idle", At(p))
  /\ revocations' = revocations + 1
  /\ UNCHANGED <<userVars, tokenVars, sweeps, cut, alarms>>

\* logout with all_sessions, change_password and delete_account read the user.
\* (What closing does to API keys and credits is in Billing.)
LogoutAll(h) == Authenticated /\ StartRevoking(h, "logoutSweep")
ChangePassword(h) == Authenticated /\ StartRevoking(h, "change")
CloseAccount(h) == Authenticated /\ StartRevoking(h, "closeSweep")

\* reset_password finds the user by the link's hash; the hash stays where it is
\* until the write, so a second reset may find it too.
ResetPassword(h) == link /\ StartRevoking(h, "reset")

\* forgot_password: the user is found by e-mail, then the link is stored by _id.
ForgotPassword(h) ==
  /\ ~closed
  /\ Goto(h, "idle", At("saveLink"))
  /\ UNCHANGED <<userVars, tokenVars, history>>

SaveLink(h) ==
  /\ Goto(h, "saveLink", Idle)
  /\ link' = TRUE
  /\ UNCHANGED <<version, closed, tokenVars, history>>

LinkExpires ==
  /\ link
  /\ link' = FALSE
  /\ UNCHANGED <<version, closed, tokenVars, job, history>>

\* The password is written and token_version bumped, in one update.
WriteChange(h) ==
  /\ Goto(h, "change", At("changeSweep"))
  /\ BumpVersion
  /\ UNCHANGED <<closed, link, refresh, replayed, history>>

\* Mistake: a reset leaves token_version alone.
WriteResetOnly(h) ==
  /\ Goto(h, "reset", At("resetSweep"))
  /\ link' = FALSE
  /\ UNCHANGED <<version, closed, tokenVars, history>>

\* A reset also unsets the link.
WriteReset(h) ==
  /\ Goto(h, "reset", At("resetSweep"))
  /\ BumpVersion
  /\ link' = FALSE
  /\ UNCHANGED <<closed, refresh, replayed, history>>

\* revoke_all_for_user.
RevokeAll(h, next) ==
  /\ refresh' = Revoked(Stored)
  /\ job' = Overlapped(h, next, Mints)
  /\ sweeps' = sweeps + 1
  /\ UNCHANGED <<userVars, access, replayed, revocations, alarms>>

\* The bump came first: with the sweep both are done.
SweepReset(h) ==
  /\ job[h].at = "resetSweep"
  /\ RevokeAll(h, Idle)
  /\ cut' = sweeps'

SweepChange(h) ==
  /\ job[h].at = "changeSweep"
  /\ RevokeAll(h, [At("reread") EXCEPT !.origin = sweeps + 1])
  /\ cut' = sweeps'

\* change_password reads the user again and hands its caller an access token.
Reread(h) ==
  /\ Goto(h, "reread", Idle)
  /\ Mint([ver |-> version, origin |-> job[h].origin,
             overlap |-> job[h].overlap \/ WindowOpen])
  /\ UNCHANGED <<userVars, refresh, replayed, history>>

\* The sweep comes first: the bump is still to come.
SweepLogout(h) ==
  /\ job[h].at = "logoutSweep"
  /\ RevokeAll(h, [At("bump") EXCEPT !.origin = sweeps + 1])
  /\ UNCHANGED cut

SweepClose(h) ==
  /\ job[h].at = "closeSweep"
  /\ RevokeAll(h, [At("anonymise") EXCEPT !.origin = sweeps + 1])
  /\ UNCHANGED cut

BumpAfterSweep(h) ==
  /\ BumpVersion
  /\ cut' = IF cut < job[h].origin THEN job[h].origin ELSE cut
  /\ UNCHANGED <<refresh, replayed, revocations, sweeps, alarms>>

Bump(h) ==
  /\ Goto(h, "bump", Idle)
  /\ BumpAfterSweep(h)
  /\ UNCHANGED <<closed, link>>

\* delete_account: one update replaces the address, bumps and unsets the link.
Anonymise(h) ==
  /\ Goto(h, "anonymise", Idle)
  /\ BumpAfterSweep(h)
  /\ closed' = TRUE
  /\ link' = FALSE

\* The handler dies, or an operation of it raises.
Die(h) ==
  /\ job[h] # Idle
  /\ job' = [job EXCEPT ![h] = Idle]
  /\ UNCHANGED <<userVars, tokenVars, history>>

SignIn(h) ==
  \/ LoginRead(h) \/ Issue(h) \/ FindUser(h) \/ Look(h) \/ RevokeFamily(h)
  \/ \E t \in Tokens : Claim(h, t) \/ ClaimFails(h, t)

SignOut(h) ==
  \/ \E t \in Tokens : LogoutOne(h, t)
  \/ RevokeOne(h) \/ LogoutAll(h) \/ SweepLogout(h) \/ Bump(h)
  \/ CloseAccount(h) \/ SweepClose(h) \/ Anonymise(h)

Password(h) ==
  \/ ForgotPassword(h) \/ SaveLink(h)
  \/ ResetPassword(h) \/ WriteReset(h) \/ SweepReset(h)
  \/ ChangePassword(h) \/ WriteChange(h) \/ SweepChange(h) \/ Reread(h)

Next ==
  \/ \E h \in Slots : SignIn(h) \/ SignOut(h) \/ Password(h) \/ Die(h)
  \/ \E t \in Tokens : Expire(t) \/ Remove(t)
  \/ LinkExpires

Spec == Init /\ [][Next]_vars

-----------------------------------------------------------------------------
(***************************************************************************)
(* Properties.                                                             *)
(***************************************************************************)

TypeOK ==
  /\ version \in Nat
  /\ closed \in BOOLEAN
  /\ link \in BOOLEAN
  /\ refresh \in [Tokens -> Document]
  /\ access \in SUBSET AccessToken
  /\ job \in [Slots -> Job \cup {Idle}]
  /\ revocations \in 0..MaxRevocations
  /\ sweeps \in Nat
  /\ cut \in Nat
  /\ replayed \in SUBSET Tokens
  /\ alarms \in SUBSET Tokens

Live == {t \in Stored : ~refresh[t].used /\ ~refresh[t].revoked}

\* The handlers that hold a rotation: claimed, and the successor not yet stored.
Rotating(f) == {h \in Slots : job[h].at \in {"find", "issue"} /\ job[h].family = f}

\* A session has one continuation: however refreshes, retries and crashes fall,
\* a family holds one token that can still be presented or one handler that is
\* about to store it, never two (sessions.py: "exactly one gets the rotation").
OneContinuation ==
  \A f \in Tokens :
    /\ \A t, u \in Family(f) \cap Live : t = u
    /\ \A g, h \in Rotating(f) : g = h
    /\ Family(f) \cap Live = {} \/ Rotating(f) = {}

\* What ended the sessions of an account ended them all, but for those that a
\* handler was renewing at that moment: a refresh token that can be presented
\* comes from a sign-in after the last sweep, and an access token that is
\* admitted from one after the last sweep that was bumped for as well, unless
\* a handler it was issued by overlapped it (logout, reset_password,
\* change_password, delete_account).
OnlyOverlapSurvives ==
  /\ \A t \in Live : refresh[t].origin = sweeps \/ refresh[t].overlap
  /\ \A a \in access : a.ver = version => a.origin >= cut \/ a.overlap

\* Reuse of a spent token ends the whole session, but for a rotation that was
\* half way when it was detected (sessions.py: "the whole family is revoked").
ReuseEndsTheFamily ==
  \A t \in Live : refresh[t].family \in alarms => refresh[t].overlap

\* A family is revoked for reuse only when one of its tokens was spent and then
\* presented again: presenting one that was signed out or removed, however
\* often, raises no alarm (consume: "if the token exists but was already spent").
NoFalseAlarm ==
  \A f \in alarms : \E t \in Tokens : refresh[t].family = f /\ refresh[t].used /\ t \in replayed

\* Reuse is found out, and nothing else taken for it.
ReuseDetection == ReuseEndsTheFamily /\ NoFalseAlarm

\* There is a session f, and nobody can renew it any more.
Ended(f) ==
  /\ \E t \in Tokens : refresh[t].status # "absent" /\ refresh[t].family = f
  /\ Family(f) \cap Live = {}
  /\ Rotating(f) = {}

\* A session that has ended - signed out, swept, revoked, expired, or lost with
\* the handler that was renewing it - never has a token to present again: no
\* retry, late answer or later sign-in brings it back (sessions.py).
EndedForGood == [][\A f \in Tokens : Ended(f) => Ended(f)']_vars

\* What README.md:570-573 says: "POST /auth/logout revokes one session, or all of
\* them" and "a password change or reset revokes every refresh token too".  Once
\* every session has been revoked, no session of an earlier sign-in goes on in
\* a renewed token.  (A first token stored after that is a new sign-in.)
NoRenewalSurvives ==
  \A t \in Live : refresh[t].family # t => refresh[t].origin = sweeps
=============================================================================
