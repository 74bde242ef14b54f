------------------------------ MODULE Sessions ------------------------------
(***************************************************************************)
(* The sessions of one user: the logins of AuthService and OAuthService,   *)
(* SessionsService, SessionsPolicy, RefreshTokenGuard and the job that     *)
(* removes expired sessions.                                               *)
(*                                                                         *)
(* A login is named by itself, and the session id it makes is called after *)
(* it.  It reads the user, the session of its device and the list of       *)
(* sessions before it writes its own; requests, the job and other logins   *)
(* run in between.  Its refresh token holds the session id and the second  *)
(* of its signature and nothing else that differs, so two logins may make  *)
(* the same one.  There is at most one row for each device, which the      *)
(* unique index of (user, device) sees to.  What the user's row must be    *)
(* like for a login to begin is left out: it only keeps some of the logins *)
(* from beginning.                                                         *)
(***************************************************************************)
EXTENDS Integers, FiniteSets

CONSTANTS
    Devices,     \* values of the x-device-id header
    Logins,      \* logins ever begun
    MaxDevices,  \* MAX_DEVICES
    MaxRequests, \* bound: guarded requests under way at a time
    MaxSecond,   \* bound: the last second
    None         \* no session, no device

ASSUME LoginsAssumption == IsFiniteSet(Logins)
ASSUME NoneAssumption == None \notin Logins \union Devices
ASSUME BoundsAssumption ==
    MaxDevices \in Nat /\ MaxRequests \in Nat /\ MaxSecond \in Nat

VARIABLES
    present,     \* the user's row is there
    sessions,    \* the session row of each device
    clock,       \* counts the writes of lastUsedAt
    phase,       \* where each login is
    device,      \* the device it comes from
    sid,         \* the session id in its refresh token
    second,      \* the second in which it signs the token, 0 before
    now,         \* the second of the clock
    victims,     \* session ids its policy has chosen
    requests,    \* guarded deletions past RefreshTokenGuard
    sweep,       \* ids the expired sessions job has selected
    peak,        \* auxiliary: the most logins that ran at a time
    overlapped,  \* auxiliary: logins of one device that ran at a time
    skipped      \* auxiliary: logins whose policy failed

loginVars == <<phase, device, sid, second, now, victims>>
auxVars == <<peak, overlapped, skipped>>
vars == <<present, sessions, clock, phase, device, sid, second, now, victims, requests,
          sweep, peak, overlapped, skipped>>

-----------------------------------------------------------------------------
\* "token" is the login whose token's hash the row holds.
Session == [id : Logins, token : Logins, used : Nat, expired : BOOLEAN]
Request == [op : {"one", "all", "others"}, id : Logins]

InFlight == {"checked", "found", "signed", "pruning", "pruned"}
Signed == {"signed", "pruning", "pruned", "done"}
Running == {l \in Logins : phase[l] \in InFlight}

Rows == {d \in Devices : sessions[d] # None}

\* The refresh token that a login makes, as far as two of them differ.
Token(l) == [id |-> sid[l], at |-> second[l]]

Init ==
    /\ present = TRUE
    /\ sessions = [d \in Devices |-> None]
    /\ clock = 0
    /\ phase = [l \in Logins |-> "new"]
    /\ device = [l \in Logins |-> None]
    /\ sid = [l \in Logins |-> l]
    /\ second = [l \in Logins |-> 0]
    /\ now = 0
    /\ victims = [l \in Logins |-> {}]
    /\ requests = {}
    /\ sweep = {}
    /\ peak = 0
    /\ overlapped = {}
    /\ skipped = {}

-----------------------------------------------------------------------------
\* The sessions go with the row: remove, deleteMany, the unverified users job.
RemoveUser ==
    /\ present
    /\ present' = FALSE
    /\ sessions' = [d \in Devices |-> None]
    /\ UNCHANGED <<clock, loginVars, requests, sweep, auxVars>>

\* deleteAllSessions in setPassword and activateAccount.
ClearSessions ==
    /\ present
    /\ sessions' = [d \in Devices |-> None]
    /\ UNCHANGED <<present, clock, loginVars, requests, sweep, auxVars>>

-----------------------------------------------------------------------------
(***************************************************************************)
(* Logins.  One starts where login has read the user and checked the       *)
(* password, or where resolveOrCreateUser has found or made the user.      *)
(***************************************************************************)
Begin(l, d) ==
    /\ present
    /\ phase[l] = "new"
    /\ phase' = [phase EXCEPT ![l] = "checked"]
    /\ device' = [device EXCEPT ![l] = d]
    /\ peak' = IF Cardinality(Running) < peak THEN peak ELSE Cardinality(Running) + 1
    /\ LET others == {m \in Running : device[m] = d} IN
       overlapped' = IF others = {} THEN overlapped
                     ELSE overlapped \union others \union {l}
    /\ UNCHANGED <<present, sessions, clock, sid, second, now, victims, requests, sweep,
                   skipped>>

\* The session id: that of the device's session, else a new one.  The
\* variants always make a new one, or none.
NewId(l) == l
NoNewId(l) == IF sessions[device[l]] = None THEN None ELSE sessions[device[l]].id
SessionIdFor(l) ==
    IF sessions[device[l]] = None THEN l ELSE sessions[device[l]].id

LookUp(l) ==
    /\ phase[l] = "checked"
    /\ phase' = [phase EXCEPT ![l] = "found"]
    /\ sid' = [sid EXCEPT ![l] = SessionIdFor(l)]
    /\ UNCHANGED <<present, sessions, clock, device, second, now, victims, requests,
                   sweep, auxVars>>

\* signAsync: the payload gets the second of the clock, and no id of its own.
Sign(l) ==
    /\ phase[l] = "found"
    /\ phase' = [phase EXCEPT ![l] = "signed"]
    /\ second' = [second EXCEPT ![l] = now]
    /\ UNCHANGED <<present, sessions, clock, device, sid, now, victims, requests, sweep,
                   auxVars>>

\* The n least recently used of the sessions of ds, or all of them.
Oldest(ds, n) ==
    {d \in ds : Cardinality({e \in ds : sessions[e].used < sessions[d].used}) < n}

\* prepareForLogin: more than MaxDevices sessions, this device's excepted.
\* The variant leaves one more.
ExcessButOne == Cardinality(Rows) - (MaxDevices + 1)
Excess == Cardinality(Rows) - MaxDevices

PolicyRead(l) ==
    /\ phase[l] = "signed"
    /\ LET chosen == Oldest(Rows \ {device[l]}, Excess) IN
       /\ victims' = [victims EXCEPT ![l] = {sessions[d].id : d \in chosen}]
       /\ phase' = [phase EXCEPT ![l] = IF Excess <= 0 THEN "pruned" ELSE "pruning"]
    /\ UNCHANGED <<present, sessions, clock, device, sid, second, now, requests, sweep,
                   auxVars>>

\* deleteMany by id.
DeleteByIds(ids) ==
    sessions' = [d \in Devices |->
                    IF d \in Rows /\ sessions[d].id \in ids THEN None
                                                           ELSE sessions[d]]

PolicyDelete(l) ==
    /\ phase[l] = "pruning"
    /\ DeleteByIds(victims[l])
    /\ phase' = [phase EXCEPT ![l] = "pruned"]
    /\ victims' = [victims EXCEPT ![l] = {}]
    /\ UNCHANGED <<present, clock, device, sid, second, now, requests, sweep, auxVars>>

\* An error of either statement is logged, and the login goes on.
PolicyFails(l) ==
    /\ phase[l] \in {"signed", "pruning"}
    /\ phase' = [phase EXCEPT ![l] = "pruned"]
    /\ victims' = [victims EXCEPT ![l] = {}]
    /\ skipped' = skipped \union {l}
    /\ UNCHANGED <<present, sessions, clock, device, sid, second, now, requests, sweep,
                   peak, overlapped>>

\* upsert keeps the id of a row that is there; only the token changes.
Upsert(l) ==
    /\ phase[l] = "pruned"
    /\ present
    /\ LET d == device[l]
           id == IF d \in Rows THEN sessions[d].id ELSE sid[l]
       IN sessions' = [sessions EXCEPT ![d] = [id |-> id, token |-> l,
                                               used |-> clock + 1, expired |-> FALSE]]
    /\ clock' = clock + 1
    /\ phase' = [phase EXCEPT ![l] = "done"]
    /\ device' = [device EXCEPT ![l] = None]
    /\ UNCHANGED <<present, sid, second, now, victims, requests, sweep, auxVars>>

\* The user is gone, a statement fails, or the process stops.  The login has
\* written nothing, so its name is free for another one.
LoginFails(l) ==
    /\ phase[l] \in InFlight
    /\ phase' = [phase EXCEPT ![l] = "new"]
    /\ device' = [device EXCEPT ![l] = None]
    /\ sid' = [sid EXCEPT ![l] = l]
    /\ second' = [second EXCEPT ![l] = 0]
    /\ victims' = [victims EXCEPT ![l] = {}]
    /\ overlapped' = overlapped \ {l}
    /\ skipped' = skipped \ {l}
    /\ UNCHANGED <<present, sessions, clock, now, requests, sweep, peak>>

-----------------------------------------------------------------------------
(***************************************************************************)
(* What a refresh token opens: a new access token, which changes nothing,  *)
(* and the deletions.  RefreshTokenGuard looks the session up by the id in *)
(* the token and compares the hash of the token, which is that of another  *)
(* login too if the two made the same one.  The variant compares the id    *)
(* only.                                                                   *)
(***************************************************************************)
OpensById(l, d) ==
    /\ phase[l] = "done" /\ d \in Rows
    /\ sessions[d].id = sid[l] /\ ~sessions[d].expired

Opens(l, d) ==
    /\ phase[l] = "done" /\ d \in Rows
    /\ sessions[d].id = sid[l] /\ ~sessions[d].expired
    /\ Token(sessions[d].token) = Token(l)

Valid(l) == \E d \in Devices : Opens(l, d)

\* logout and DELETE :sessionId take a session's id; the others need none,
\* and keep the current session or not.
Guard(l, op, id) ==
    /\ Valid(l)
    /\ op = "one" => id \in {sessions[d].id : d \in Rows}
    /\ op # "one" => id = sid[l]
    /\ Cardinality(requests) < MaxRequests
    /\ requests' = requests \union {[op |-> op, id |-> id]}
    /\ UNCHANGED <<present, sessions, clock, loginVars, sweep, auxVars>>

DeleteSessions(r) ==
    /\ LET ids == {sessions[d].id : d \in Rows} IN
       DeleteByIds(CASE r.op = "one" -> {r.id}
                     [] r.op = "all" -> ids
                     [] r.op = "others" -> ids \ {r.id})
    /\ requests' = requests \ {r}
    /\ UNCHANGED <<present, clock, loginVars, sweep, auxVars>>

ExpireSession(d) ==
    /\ d \in Rows
    /\ ~sessions[d].expired
    /\ sessions' = [sessions EXCEPT ![d].expired = TRUE]
    /\ UNCHANGED <<present, clock, loginVars, requests, sweep, auxVars>>

SweepSelect ==
    /\ sweep = {}
    /\ sweep' = {sessions[d].id : d \in {e \in Rows : sessions[e].expired}}
    /\ UNCHANGED <<present, sessions, clock, loginVars, requests, auxVars>>

SweepDelete ==
    /\ sweep # {}
    /\ DeleteByIds(sweep)
    /\ sweep' = {}
    /\ UNCHANGED <<present, clock, loginVars, requests, auxVars>>

\* A second passes.
Tick ==
    /\ now < MaxSecond
    /\ now' = now + 1
    /\ UNCHANGED <<present, sessions, clock, phase, device, sid, second, victims,
                   requests, sweep, auxVars>>

-----------------------------------------------------------------------------
User == RemoveUser \/ ClearSessions

LogIn ==
    \E l \in Logins :
        \/ \E d \in Devices : Begin(l, d)
        \/ LookUp(l) \/ Sign(l) \/ PolicyRead(l) \/ PolicyDelete(l) \/ PolicyFails(l)
        \/ Upsert(l) \/ LoginFails(l)

Revoke ==
    \/ \E l, id \in Logins, op \in {"one", "all", "others"} : Guard(l, op, id)
    \/ \E r \in requests : DeleteSessions(r)
    \/ \E d \in Devices : ExpireSession(d)
    \/ SweepSelect \/ SweepDelete

Next == User \/ LogIn \/ Revoke \/ Tick

Spec == Init /\ [][Next]_vars

-----------------------------------------------------------------------------
TypeOK ==
    /\ present \in BOOLEAN
    /\ sessions \in [Devices -> Session \union {None}]
    /\ clock \in Nat
    /\ phase \in [Logins -> InFlight \union {"new", "done"}]
    /\ device \in [Logins -> Devices \union {None}]
    /\ sid \in [Logins -> Logins]
    /\ second \in [Logins -> Nat]
    /\ now \in Nat
    /\ victims \in [Logins -> SUBSET Logins]
    /\ requests \subseteq Request
    /\ sweep \subseteq Logins
    /\ peak \in Nat
    /\ overlapped \subseteq Logins
    /\ skipped \subseteq Logins

(***************************************************************************)
(* A user has at most MaxDevices sessions and one more for each login that *)
(* ran at a time, as prepareForLogin counts before the login writes its    *)
(* own; each login whose policy failed may add another one.                *)
(***************************************************************************)
SessionsBounded ==
    Cardinality(Rows) <= MaxDevices + peak + Cardinality(skipped)

(***************************************************************************)
(* The refresh token that login returned names the row that holds its      *)
(* hash, unless another login of that device ran at the same time.         *)
(***************************************************************************)
LoginTokenFits ==
    \A d \in Rows : sessions[d].token \notin overlapped =>
                        sessions[d].id = sid[sessions[d].token]

(***************************************************************************)
(* The sessions implement RefreshTokens: whatever deletions, expiries and  *)
(* other logins do between the steps of a login, a device has one token    *)
(* that is accepted, that of its latest login.  Once the guard has refused *)
(* a token, only the end of another login that made the very same token,   *)
(* for the same session id in the same second, has it accepted again; a    *)
(* token made in another second stays refused though a later login of the  *)
(* device uses the same session id again.                                  *)
(***************************************************************************)
Promised ==
    INSTANCE RefreshTokens WITH
        Ids <- Logins,
        ended <- {l \in Logins : phase[l] = "done"},
        made <- [l \in Logins |-> IF phase[l] \in Signed THEN {Token(l)} ELSE {}],
        accepted <- [d \in Devices |-> {Token(l) : l \in {m \in Logins : Opens(m, d)}}]

ImplementsTokens == Promised!TokensSpec

=============================================================================
