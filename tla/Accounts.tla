------------------------------ MODULE Accounts ------------------------------
(***************************************************************************)
(* Accounts: registration, sign-in, the one-time links of auth.service     *)
(* (verify the e-mail, reset the password, activate the account), sign-in  *)
(* through Google, what admins do to accounts, the sweep of unverified     *)
(* ones, and the queue that mails the links.                               *)
(*                                                                         *)
(* The accounts of the model are those of one e-mail address, one after    *)
(* the other; a User is an id, never given twice.  A request is its next   *)
(* database, Redis or queue call and what it has read so far; whatever     *)
(* happens between two of its calls is a step of somebody else.            *)
(*                                                                         *)
(* Init, Next and the like carry the module's name: AccountsProofs extends *)
(* this module beside Sessions.                                            *)
(***************************************************************************)
EXTENDS Integers, Sequences, FiniteSets

CONSTANTS
    Users,      \* ids of accounts
    Tokens,     \* what a link is made of, a uuid
    Profiles,   \* Google accounts with the e-mail address
    Requests,   \* requests that may run at a time
    Others,     \* how many other admins and moderators there are
    Attempts,   \* EMAIL_JOB_OPTIONS.attempts
    MaxOpen,    \* bound: open role periods of an account
    Nothing     \* no row, link, job or request

Tracked == {"MODERATOR", "ADMIN"}
Roles == Tracked \union {"USER"}

ASSUME OthersAssumption == Others \in [Tracked -> Nat]
ASSUME AttemptsAssumption == Attempts \in Nat \ {0}
ASSUME MaxOpenAssumption == MaxOpen \in Nat \ {0}

VARIABLES
    users,     \* the rows, Nothing where there is none
    used,      \* ids that have been given
    open,      \* the roles of an account's periods without an end
    linked,    \* provider_accounts: whose account a profile belongs to
    signedIn,  \* accounts with a session
    links,     \* the links in Redis
    issued,    \* tokens that have been given
    job,       \* the mail job of each kind of link to the address
    dead,      \* the dead-letter queue: how often its mails were tried
    request,   \* what each request is about to do
    unverified, \* the batch of UnverifiedUsersCleanupJob
    stale      \* auxiliary: accounts given a role by a request that had read
               \* their role before another one changed it

rowVars == <<users, used, open, linked, signedIn>>
linkVars == <<links, issued>>
mailVars == <<job, dead>>
accountsVars == <<rowVars, linkVars, mailVars, request, unverified, stale>>

-----------------------------------------------------------------------------
Kinds == {"verify", "reset", "activate"}
Account == [role : Roles, active : BOOLEAN, verified : BOOLEAN,
            password : BOOLEAN]
\* What a link is for; whether its mail has arrived, and (auxiliary) whether it
\* has had its effect, and a request that used it was cut off before the end.
Link == [kind : Kinds, user : Users, mailed : BOOLEAN, used : BOOLEAN, cut : BOOLEAN]
Job == [state : {"waiting", "active", "failed"}, token : Tokens,
        tries : 0..Attempts, stalls : 0..1]

\* The next call of a request and what it will need.
Steps == {"register", "adminCreate", "signUp", "link", "mail", "apply", "endSessions",
          "deleteLink", "toggle", "changeRole", "attach", "session"}
Blank == [step |-> "register", user |-> Nothing, token |-> Nothing, profile |-> Nothing,
          kind |-> "verify", was |-> "USER", role |-> "USER", flag |-> FALSE, late |-> FALSE]
RequestState == [step : Steps, user : Users \union {Nothing}, token : Tokens \union {Nothing},
            profile : Profiles \union {Nothing}, kind : Kinds, was : Roles, role : Roles,
            flag : BOOLEAN, late : BOOLEAN]
ASSUME NothingAssumption == Nothing \notin Account /\ Nothing \notin RequestState

Exists(u) == users[u] # Nothing
Live(t) == links[t] # Nothing
Alive == {u \in Users : Exists(u)}
At(r, step) == request[r] # Nothing /\ request[r].step = step
Start(r, what) == request[r] = Nothing /\ request' = [request EXCEPT ![r] = what]
Goto(r, what) == request' = [request EXCEPT ![r] = what]
End(r) == request' = [request EXCEPT ![r] = Nothing]

AccountsInit ==
    /\ users = [u \in Users |-> Nothing] /\ used = {}
    /\ open = [u \in Users |-> <<>>]
    /\ linked = [p \in Profiles |-> Nothing]
    /\ signedIn = {}
    /\ links = [t \in Tokens |-> Nothing] /\ issued = {}
    /\ job = [k \in Kinds |-> Nothing] /\ dead = {}
    /\ request = [r \in Requests |-> Nothing]
    /\ unverified = {}
    /\ stale = {}

-----------------------------------------------------------------------------
(***************************************************************************)
(* What a request reads before it writes anything; one that is refused     *)
(* changes nothing                                                         *)
(***************************************************************************)
Register(r) ==
    Alive = {} /\ Start(r, Blank)

CreateUserByAdmin(r, role) ==
    Alive = {} /\ Start(r, [Blank EXCEPT !.step = "adminCreate", !.role = role])

ResendEmailVerification(r) ==
    \E u \in Alive :
        /\ ~users[u].verified
        /\ Start(r, [Blank EXCEPT !.step = "link", !.user = u, !.kind = "verify"])

ResendPasswordReset(r) ==
    \E u \in Alive :
        /\ users[u].verified
        /\ Start(r, [Blank EXCEPT !.step = "link", !.user = u, !.kind = "reset"])

\* verifyEmail, setPassword and activateAccount: GET of the link that was mailed.
FollowLink(r, t) ==
    /\ Live(t) /\ links[t].mailed
    /\ Start(r, [Blank EXCEPT !.step = "apply", !.user = links[t].user,
                              !.kind = links[t].kind, !.token = t])

Login(r, u) ==
    /\ Exists(u) /\ users[u].password /\ users[u].active /\ users[u].verified
    /\ Start(r, [Blank EXCEPT !.step = "session", !.user = u])

UpdateStatus(r, u) ==
    /\ Exists(u)
    /\ Start(r, [Blank EXCEPT !.step = "toggle", !.user = u, !.flag = ~users[u].active])

ChangeRoles(r, u, role) ==
    /\ Exists(u)
    /\ Start(r, [Blank EXCEPT !.step = "changeRole", !.user = u,
                              !.was = users[u].role, !.role = role])

\* resolveOrCreateUser: the profile's account, else the e-mail's if Google
\* verified it, else a new one.
HandleCallback(r, p, emailVerified) ==
    LET known == {u \in Users : u = linked[p]}
        sameEmail == IF emailVerified THEN Alive ELSE {}
    IN \/ \E u \in known :
             /\ users[u].active
             /\ Start(r, [Blank EXCEPT !.step = "session", !.user = u])
       \/ \E u \in sameEmail :
             /\ known = {} /\ users[u].active
             /\ Start(r, [Blank EXCEPT !.step = "attach", !.user = u, !.profile = p])
       \/ /\ known = {} /\ sameEmail = {}
          /\ Start(r, [Blank EXCEPT !.step = "signUp", !.profile = p, !.flag = emailVerified])

\* The endpoints: of AuthController, with a password or with a link ...
ByPassword(r) == Register(r) \/ \E u \in Users : Login(r, u)
ByLink(r) ==
    \/ ResendEmailVerification(r)
    \/ ResendPasswordReset(r)
    \/ \E t \in Tokens : FollowLink(r, t)

\* ... of OAuthController, and of AdminUsersController.
ByProvider(r) ==
    \E p \in Profiles, emailVerified \in BOOLEAN : HandleCallback(r, p, emailVerified)
ByAdmin(r) ==
    \/ \E role \in Roles : CreateUserByAdmin(r, role)
    \/ \E u \in Users : UpdateStatus(r, u) \/ \E role \in Roles : ChangeRoles(r, u, role)

Read(r) ==
    /\ ByPassword(r) \/ ByLink(r) \/ ByProvider(r) \/ ByAdmin(r)
    /\ UNCHANGED <<rowVars, linkVars, mailVars, unverified, stale>>

-----------------------------------------------------------------------------
(***************************************************************************)
(* What it writes                                                          *)
(***************************************************************************)
\* The unique index on users.email refuses a second row.
EmailIsFree == Alive = {}

NewAccount(role, active, verified, password) ==
    [role |-> role, active |-> active, verified |-> verified,
     password |-> password]

\* What follows is a link of the kind, or the session.
Insert(r, row, step, kind) ==
    \E u \in Users \ used :
        /\ users' = [users EXCEPT ![u] = row]
        /\ used' = used \union {u}
        /\ Goto(r, [request[r] EXCEPT !.step = step, !.user = u, !.kind = kind])

\* usersRepo.create, then the link.
CreateByRegistration(r) ==
    /\ At(r, "register")
    /\ IF EmailIsFree
         THEN Insert(r, NewAccount("USER", TRUE, FALSE, TRUE), "link", request[r].kind)
         ELSE End(r) /\ UNCHANGED <<users, used>>
    /\ UNCHANGED <<open, linked, signedIn, linkVars, mailVars, unverified, stale>>

\* createByAdmin and createPeriod, in a transaction.
CreateByAdmin(r) ==
    /\ At(r, "adminCreate")
    /\ LET role == request[r].role IN
       IF EmailIsFree
         THEN /\ Insert(r, NewAccount(role, FALSE, FALSE, TRUE), "link", "activate")
              /\ open' = [u \in Users |-> IF u \in used' \ used /\ role \in Tracked
                                          THEN <<role>> ELSE open[u]]
         ELSE End(r) /\ UNCHANGED <<users, used, open>>
    /\ UNCHANGED <<linked, signedIn, linkVars, mailVars, unverified, stale>>

\* createByProvider and the provider account, in a transaction.
CreateByProvider(r) ==
    /\ At(r, "signUp")
    /\ LET p == request[r].profile IN
       IF EmailIsFree /\ linked[p] = Nothing
         THEN /\ Insert(r, NewAccount("USER", TRUE, request[r].flag, FALSE), "session",
                        request[r].kind)
              /\ \E u \in used' \ used : linked' = [linked EXCEPT ![p] = u]
         ELSE End(r) /\ UNCHANGED <<users, used, linked>>
    /\ UNCHANGED <<open, signedIn, linkVars, mailVars, unverified, stale>>

\* The provider account of an account that was there: unique by profile, and
\* its user must exist.
AttachProvider(r) ==
    /\ At(r, "attach")
    /\ LET q == request[r] IN
       IF linked[q.profile] = Nothing /\ Exists(q.user)
         THEN linked' = [linked EXCEPT ![q.profile] = q.user]
              /\ Goto(r, [q EXCEPT !.step = "session"])
         ELSE End(r) /\ UNCHANGED linked
    /\ UNCHANGED <<users, used, open, signedIn, linkVars, mailVars, unverified, stale>>

\* createOrUpdate of the session, whose user must exist.
CreateSession(r) ==
    /\ At(r, "session")
    /\ signedIn' = signedIn \union ({request[r].user} \intersect Alive)
    /\ End(r)
    /\ UNCHANGED <<users, used, open, linked, linkVars, mailVars, unverified, stale>>

\* generateTemporaryLink.
GenerateTemporaryLink(r) ==
    /\ At(r, "link")
    /\ \E t \in Tokens \ issued :
          /\ links' = [links EXCEPT ![t] =
                [kind |-> request[r].kind, user |-> request[r].user,
                 mailed |-> FALSE, used |-> FALSE, cut |-> FALSE]]
          /\ issued' = issued \union {t}
          /\ Goto(r, [request[r] EXCEPT !.step = "mail", !.token = t])
    /\ UNCHANGED <<rowVars, mailVars, unverified, stale>>

\* add: the queue ignores a job whose id, made of the kind and the address, it
\* still has, be it waiting, running or failed.
SendEmail(r) ==
    /\ At(r, "mail")
    /\ LET q == request[r] IN
       job' = IF job[q.kind] = Nothing
              THEN [job EXCEPT ![q.kind] = [state |-> "waiting", token |-> q.token,
                                            tries |-> 0, stalls |-> 0]]
              ELSE job
    /\ End(r)
    /\ UNCHANGED <<rowVars, linkVars, dead, unverified, stale>>

-----------------------------------------------------------------------------
\* markEmailAsVerified, resetPasswordById, activateAccount of the repository.
Effect(kind, row) ==
    CASE kind = "verify"   -> [row EXCEPT !.verified = TRUE]
      [] kind = "reset"    -> [row EXCEPT !.password = TRUE]
      [] kind = "activate" -> [row EXCEPT !.password = TRUE, !.verified = TRUE, !.active = TRUE]

\* An account that is gone makes the request fail, and the link stays.
ApplyLink(r) ==
    /\ At(r, "apply")
    /\ LET q == request[r] IN
       IF Exists(q.user)
         THEN /\ users' = [users EXCEPT ![q.user] = Effect(q.kind, @)]
              /\ links' = IF Live(q.token) THEN [links EXCEPT ![q.token].used = TRUE] ELSE links
              /\ Goto(r, [q EXCEPT !.step = IF q.kind = "verify" THEN "deleteLink"
                                            ELSE "endSessions"])
         ELSE End(r) /\ UNCHANGED <<users, links>>
    /\ UNCHANGED <<used, open, linked, signedIn, issued, mailVars, unverified, stale>>

\* deleteAllSessions.
EndSessions(r) ==
    /\ At(r, "endSessions")
    /\ signedIn' = signedIn \ {request[r].user}
    /\ Goto(r, [request[r] EXCEPT !.step = "deleteLink"])
    /\ UNCHANGED <<users, used, open, linked, linkVars, mailVars, unverified, stale>>

DeleteLink(r) ==
    /\ At(r, "deleteLink")
    /\ links' = [links EXCEPT ![request[r].token] = Nothing]
    /\ End(r)
    /\ UNCHANGED <<rowVars, issued, mailVars, unverified, stale>>

-----------------------------------------------------------------------------
\* updateMany by id: an account that is gone is not found.
SetStatus(r) ==
    /\ At(r, "toggle")
    /\ LET q == request[r] IN
       users' = IF Exists(q.user) THEN [users EXCEPT ![q.user].active = q.flag] ELSE users
    /\ End(r)
    /\ UNCHANGED <<used, open, linked, signedIn, linkVars, mailVars, unverified, stale>>

\* The staff counted are the others, and the role the account had is
\* subtracted all the same.
Count(u, role) ==
    Others[role] + Cardinality({v \in Alive \ {u} : users[v].role = role})
StaffRemains(u, was, role) ==
    \A s \in Tracked :
        Count(u, s) - (IF s = was THEN 1 ELSE 0) + (IF s = role THEN 1 ELSE 0) >= 1

\* closeActivePeriod: which open periods of u are left.  It closes those its
\* statement sees; after a late request began to wait for a row, or before it
\* came so far, another may have committed later ones, which it need not see.
\* The variant is a switch that forgets to close.
KeepPeriods(u, late) == {open[u]}
ClosePeriods(u, late) ==
    IF late THEN {SubSeq(open[u], n, Len(open[u])) : n \in 1..(Len(open[u]) + 1)} ELSE {<<>>}

\* handleRoleChange.
Periods(u, was, role, late) ==
    CASE was = role -> {open[u]}
      [] was # role /\ was \in Tracked /\ role \in Tracked ->
             {Append(left, role) : left \in ClosePeriods(u, late)}
      [] was \notin Tracked /\ role \in Tracked -> {Append(open[u], role)}
      [] OTHER -> ClosePeriods(u, late)

\* The others that have read u's role and are about to change it are late now.
EndChange(r, u) ==
    request' = [p \in Requests |->
                   IF p = r THEN Nothing
                   ELSE IF At(p, "changeRole") /\ request[p].user = u
                     THEN [request[p] EXCEPT !.late = TRUE]
                     ELSE request[p]]

\* The transaction of changeRoles, by the role that was read before it.  Its
\* statements are one step, at its commit: nobody sees them before, and what
\* they may have missed is in ClosePeriods.  With the account gone nothing is
\* left of it.
SetRole(r) ==
    /\ At(r, "changeRole")
    /\ LET q == request[r] IN
       IF Exists(q.user) /\ (q.was = q.role \/ StaffRemains(q.user, q.was, q.role))
         THEN /\ Len(open[q.user]) < MaxOpen
              /\ \E history \in Periods(q.user, q.was, q.role, q.late) :
                    open' = [open EXCEPT ![q.user] = history]
              /\ stale' = IF users[q.user].role = q.was /\ ~q.late
                            THEN stale ELSE stale \union {q.user}
              /\ users' = [users EXCEPT ![q.user].role = q.role]
              /\ IF q.was = q.role THEN End(r) ELSE EndChange(r, q.user)
         ELSE UNCHANGED <<users, open, stale>> /\ End(r)
    /\ UNCHANGED <<used, linked, signedIn, linkVars, mailVars, unverified>>

-----------------------------------------------------------------------------
\* A deleted account takes its periods, provider accounts and sessions along.
Delete(gone) ==
    /\ users' = [u \in Users |-> IF u \in gone THEN Nothing ELSE users[u]]
    /\ open' = [u \in Users |-> IF u \in gone THEN <<>> ELSE open[u]]
    /\ linked' = [p \in Profiles |-> IF linked[p] \in gone THEN Nothing ELSE linked[p]]
    /\ signedIn' = signedIn \ gone
    /\ stale' = stale \ gone
    /\ UNCHANGED <<used, linkVars, mailVars, request>>

\* remove, by the owner, or deleteMany, by an admin.
Remove(u) == Exists(u) /\ Delete({u}) /\ UNCHANGED unverified

\* Unverified, and older than 24 hours, when it is selected; deleted by id.
SelectUnverified ==
    /\ unverified = {}
    /\ \E u \in Alive : ~users[u].verified /\ unverified' = {u}
    /\ UNCHANGED <<rowVars, linkVars, mailVars, request, stale>>

DeleteUnverified == unverified # {} /\ Delete(unverified) /\ unverified' = {}

\* logout, logoutAll, or the session ends.
Logout(u) ==
    /\ u \in signedIn
    /\ signedIn' = signedIn \ {u}
    /\ UNCHANGED <<users, used, open, linked, linkVars, mailVars, request, unverified, stale>>

ExpireLink(t) ==
    /\ links[t] # Nothing
    /\ links' = [links EXCEPT ![t] = Nothing]
    /\ UNCHANGED <<rowVars, issued, mailVars, request, unverified, stale>>

\* A call fails, or the process stops: the rest of the request does not happen.
Fail(r) ==
    /\ request[r] # Nothing
    /\ LET t == request[r].token
           deleting == At(r, "endSessions") \/ At(r, "deleteLink")
       IN links' = IF deleting /\ Live(t) THEN [links EXCEPT ![t].cut = TRUE] ELSE links
    /\ End(r)
    /\ UNCHANGED <<rowVars, issued, mailVars, unverified, stale>>

-----------------------------------------------------------------------------
(***************************************************************************)
(* EmailProcessor                                                          *)
(***************************************************************************)
InState(k, state) == job[k] # Nothing /\ job[k].state = state

\* The mail reaches the owner of the address, who can follow a link that lives.
Arrived(t) == IF Live(t) THEN [links EXCEPT ![t].mailed = TRUE] ELSE links

TakeJob(k) ==
    /\ InState(k, "waiting")
    /\ job' = [job EXCEPT ![k].state = "active"]
    /\ UNCHANGED <<rowVars, linkVars, dead, request, unverified, stale>>

\* Sent, and the job removed (removeOnComplete).
MailSent(k) ==
    /\ InState(k, "active")
    /\ links' = Arrived(job[k].token)
    /\ job' = [job EXCEPT ![k] = Nothing]
    /\ UNCHANGED <<rowVars, issued, dead, request, unverified, stale>>

\* The attempt that just failed was the last; the variant counts from one more.
LastButOne(attemptsMade) == attemptsMade + 2 >= Attempts
IsLastAttempt(attemptsMade) == attemptsMade + 1 >= Attempts

\* The provider refuses or does not answer in time, and may have sent the mail
\* all the same.  The last attempt ends in moveToDlq, which may fail too.
AttemptFails(k) ==
    /\ InState(k, "active")
    /\ LET j == job[k]
           last == IsLastAttempt(j.tries)
           made == j.tries + 1
       IN /\ links' \in {links, Arrived(j.token)}
          /\ dead' \in {dead} \union
                (IF last THEN {dead \union {made}} ELSE {})
          /\ job' = [job EXCEPT ![k] = [j EXCEPT
                        !.tries = made, !.state = IF made < Attempts THEN "waiting" ELSE "failed"]]
    /\ UNCHANGED <<rowVars, issued, request, unverified, stale>>

\* The worker dies, perhaps after the mail has left.  The queue hands a stalled
\* job out once more; the next time it fails without a word of the processor.
WorkerDies(k) ==
    /\ InState(k, "active")
    /\ links' \in {links, Arrived(job[k].token)}
    /\ job' = [job EXCEPT ![k] =
                 IF @.stalls = 0 THEN [@ EXCEPT !.state = "waiting", !.stalls = 1]
                 ELSE [@ EXCEPT !.state = "failed"]]
    /\ UNCHANGED <<rowVars, issued, dead, request, unverified, stale>>

\* removeOnFail keeps the last 100 failures: later ones push this one out.
ForgetFailure(k) ==
    /\ InState(k, "failed")
    /\ job' = [job EXCEPT ![k] = Nothing]
    /\ UNCHANGED <<rowVars, linkVars, dead, request, unverified, stale>>

-----------------------------------------------------------------------------
Write(r) ==
    \/ CreateByRegistration(r) \/ CreateByAdmin(r) \/ CreateByProvider(r)
    \/ AttachProvider(r) \/ CreateSession(r)
    \/ GenerateTemporaryLink(r) \/ SendEmail(r)
    \/ ApplyLink(r) \/ EndSessions(r) \/ DeleteLink(r)
    \/ SetStatus(r) \/ SetRole(r)
    \/ Fail(r)

Mail(k) == TakeJob(k) \/ MailSent(k) \/ AttemptFails(k) \/ WorkerDies(k) \/ ForgetFailure(k)

AccountsNext ==
    \/ \E r \in Requests : Read(r) \/ Write(r)
    \/ \E u \in Users : Remove(u) \/ Logout(u)
    \/ \E t \in Tokens : ExpireLink(t)
    \/ \E k \in Kinds : Mail(k)
    \/ SelectUnverified \/ DeleteUnverified

AccountsSpec == AccountsInit /\ [][AccountsNext]_accountsVars

-----------------------------------------------------------------------------
AccountsTypeOK ==
    /\ users \in [Users -> Account \union {Nothing}]
    /\ used \subseteq Users /\ signedIn \subseteq Users /\ unverified \subseteq Users
    /\ open \in [Users -> Seq(Tracked)] /\ \A u \in Users : Len(open[u]) <= MaxOpen
    /\ linked \in [Profiles -> Users \union {Nothing}]
    /\ links \in [Tokens -> Link \union {Nothing}]
    /\ issued \subseteq Tokens
    /\ job \in [Kinds -> Job \union {Nothing}]
    /\ dead \subseteq 1..Attempts
    /\ request \in [Requests -> RequestState \union {Nothing}]
    /\ stale \subseteq Users

\* However the ways in race, the address has one account, and nothing belongs to
\* an account that is gone: no provider account, no session, no period.
OneAccountEach ==
    /\ Cardinality(Alive) <= 1
    /\ \A p \in Profiles : linked[p] \in Alive \union {Nothing}
    /\ signedIn \subseteq Alive
    /\ \A u \in Users \ Alive : open[u] = <<>>

\* The role history agrees with the roles: staff have one open period, of the
\* role they have, and nobody else has one; save accounts whose role was changed
\* by a request that had read it before another change of it.
PeriodsFollowRoles ==
    \A u \in Alive \ stale :
        open[u] = IF users[u].role \in Tracked THEN <<users[u].role>> ELSE <<>>

\* A link in Redis that has had its effect is about to be deleted by a request
\* that used it, unless one was cut off before it did.
SpentLinksGo ==
    \A t \in Tokens : Live(t) /\ links[t].used /\ ~links[t].cut =>
        \E r \in Requests : (At(r, "endSessions") \/ At(r, "deleteLink")) /\ request[r].token = t

\* What holds of the accounts at any moment.
AccountsAreSound == AccountsTypeOK /\ OneAccountEach /\ PeriodsFollowRoles /\ SpentLinksGo

\* A mail is dead-lettered only after all its attempts, over retries, stalls and
\* the death of workers ("only after all retry attempts are exhausted").
DeadAfterAllTries == dead \subseteq {Attempts}

=============================================================================
