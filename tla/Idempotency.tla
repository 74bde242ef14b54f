----------------------------- MODULE Idempotency -----------------------------
(***************************************************************************)
(* IdempotencyInterceptor: HTTP requests of one operation key, which is    *)
(* the user, the route and the client's Idempotency-Key.                   *)
(*                                                                         *)
(* A request looks for a stored response, takes a lock in Redis, runs the  *)
(* handler, stores the response and deletes the lock; one that finds the   *)
(* lock taken polls for the response.  Requests run in any replica, every  *)
(* Redis command is a step, a command that fails may have been executed,   *)
(* and a process may die between any two steps.                            *)
(***************************************************************************)
EXTENDS Naturals

CONSTANTS
    Requests,    \* the requests that ever carry the key, retries included
    Payload,     \* the hash of body, params and query of each
    None         \* no lock, no response

ASSUME NoneAssumption == None \notin Requests

VARIABLES
    pc,          \* where each request is
    lock,        \* the request that set idem:lock (Redis holds '1')
    response,    \* the request whose response idem:resp holds
    effects,     \* requests whose handler has committed what it does
    answer,      \* auxiliary: the request whose response was replayed
    lost         \* auxiliary: a lock went while the handler under it ran

vars == <<pc, lock, response, effects, answer, lost>>
replyVars == <<response, answer>>

-----------------------------------------------------------------------------
Running == {"running", "returned"}
Answered == {"created", "replayed", "conflict", "busy", "failed"}
Places == Running \union Answered \union
            {"new", "missed", "waiting", "stored", "throwing", "dead"}

To(r, place) == pc' = [pc EXCEPT ![r] = place]

Init ==
    /\ pc = [r \in Requests |-> "new"]
    /\ lock = None
    /\ response = None
    /\ effects = {}
    /\ answer = [r \in Requests |-> None]
    /\ lost = FALSE

\* DEL of the lock key, whoever has set it: by r, or None when it expires.
DeleteLock(r) ==
    /\ lock' = None
    /\ lost' = (lost \/ \E q \in Requests \ {r} : lock = q /\ pc[q] \in Running)

\* The command failed, executed or not.
MayDeleteLock(r) == DeleteLock(r) \/ UNCHANGED <<lock, lost>>

\* ensureSamePayload, then the replay.  The variant replays to anybody.
ReplayToAll(r) ==
    /\ response # None
    /\ To(r, "replayed")
    /\ answer' = [answer EXCEPT ![r] = response]
Replay(r) ==
    /\ response # None
    /\ IF Payload[response] = Payload[r]
         THEN To(r, "replayed") /\ answer' = [answer EXCEPT ![r] = response]
         ELSE To(r, "conflict") /\ UNCHANGED answer

-----------------------------------------------------------------------------
(* The way in *)

\* The first GET of the response.
Look(r) ==
    /\ pc[r] = "new"
    /\ \/ Replay(r)
       \/ response = None /\ To(r, "missed") /\ UNCHANGED answer
    /\ UNCHANGED <<lock, response, effects, lost>>

\* SET NX EX; the response is not looked for again.  The variant is without NX.
TakeAnyLock(r) ==
    /\ pc[r] = "missed"
    /\ lock' = r
    /\ To(r, "running")
    /\ UNCHANGED <<replyVars, effects, lost>>
TakeLock(r) ==
    /\ pc[r] = "missed"
    /\ lock = None
    /\ lock' = r
    /\ To(r, "running")
    /\ UNCHANGED <<replyVars, effects, lost>>

LockBusy(r) ==
    /\ pc[r] = "missed"
    /\ lock # None
    /\ To(r, "waiting")
    /\ UNCHANGED <<lock, replyVars, effects, lost>>

\* A Redis command before the handler fails; the SET may have been executed.
RedisFails(r) ==
    /\ pc[r] \in {"new", "missed", "waiting"}
    /\ To(r, "failed")
    /\ \/ UNCHANGED lock
       \/ pc[r] = "missed" /\ lock = None /\ lock' = r
    /\ UNCHANGED <<replyVars, effects, lost>>

\* waitForResponse: a poll that finds one, or the timeout.
Poll(r) ==
    /\ pc[r] = "waiting"
    /\ Replay(r)
    /\ UNCHANGED <<lock, response, effects, lost>>

\* The variant gives up once there is something to find.
WaitForever(r) ==
    /\ pc[r] = "waiting"
    /\ response # None
    /\ To(r, "busy")
    /\ UNCHANGED <<lock, replyVars, effects, lost>>
WaitTimesOut(r) ==
    /\ pc[r] = "waiting"
    /\ To(r, "busy")
    /\ UNCHANGED <<lock, replyVars, effects, lost>>

-----------------------------------------------------------------------------
(* The handler and the way out *)

Commit(r) ==
    /\ pc[r] = "running"
    /\ effects' = effects \union {r}
    /\ UNCHANGED <<pc, lock, replyVars, lost>>

Return(r) ==
    /\ pc[r] = "running"
    /\ r \in effects
    /\ To(r, "returned")
    /\ UNCHANGED <<lock, replyVars, effects, lost>>

\* The handler throws, before or after what it commits.  The variant takes the
\* error for a response.
ErrorIsResponse(r) ==
    /\ pc[r] = "running"
    /\ To(r, "returned")
    /\ UNCHANGED <<lock, replyVars, effects, lost>>
Throw(r) ==
    /\ pc[r] = "running"
    /\ To(r, "throwing")
    /\ UNCHANGED <<lock, replyVars, effects, lost>>

\* SETEX of the response; when that fails, catchError.
Store(r) ==
    /\ pc[r] = "returned"
    /\ \/ To(r, "stored") /\ response' = r
       \/ To(r, "throwing") /\ response' \in {response, r}
    /\ UNCHANGED <<lock, effects, answer, lost>>

Release(r) ==
    /\ pc[r] = "stored"
    /\ \/ To(r, "created") /\ DeleteLock(r)
       \/ To(r, "throwing") /\ MayDeleteLock(r)
    /\ UNCHANGED <<replyVars, effects>>

\* catchError: the lock is deleted and the error passed on.
Fail(r) ==
    /\ pc[r] = "throwing"
    /\ To(r, "failed")
    /\ MayDeleteLock(r)
    /\ UNCHANGED <<replyVars, effects>>

-----------------------------------------------------------------------------
(* The environment *)

\* The process stops: nobody answers the client, and nobody deletes the lock.
Die(r) ==
    /\ pc[r] \notin Answered \union {"new", "dead"}
    /\ To(r, "dead")
    /\ UNCHANGED <<lock, replyVars, effects, lost>>

\* 30 seconds after the SET, whatever the handler is doing.
ExpireLock ==
    /\ lock # None
    /\ DeleteLock(None)
    /\ UNCHANGED <<pc, replyVars, effects>>

\* An hour after the SETEX, or a day.
ExpireResponse ==
    /\ response # None
    /\ response' = None
    /\ UNCHANGED <<pc, lock, effects, answer, lost>>

-----------------------------------------------------------------------------
Intercept(r) ==
    \/ Look(r)
    \/ TakeLock(r)
    \/ LockBusy(r)
    \/ RedisFails(r)
    \/ Poll(r)
    \/ WaitTimesOut(r)
    \/ Commit(r)
    \/ Return(r)
    \/ Throw(r)
    \/ Store(r)
    \/ Release(r)
    \/ Fail(r)

Environment ==
    \/ \E r \in Requests : Die(r)
    \/ ExpireLock
    \/ ExpireResponse

Next == (\E r \in Requests : Intercept(r)) \/ Environment

Spec == Init /\ [][Next]_vars

\* A request that has arrived is worked on: the process takes its next step,
\* handlers return or throw, a wait has its timeout.  No failure is relied on.
Progress(r) ==
    \/ TakeLock(r) \/ LockBusy(r)
    \/ Poll(r) \/ WaitTimesOut(r)
    \/ Commit(r) \/ Return(r) \/ Throw(r)
    \/ Store(r) \/ Release(r) \/ Fail(r)

FairSpec == Spec /\ \A r \in Requests : WF_vars(Progress(r))

-----------------------------------------------------------------------------
(* Properties *)

\* The types; a stored response is that of a handler that committed.
TypeOK ==
    /\ pc \in [Requests -> Places]
    /\ lock \in Requests \union {None}
    /\ response \in effects \union {None}
    /\ effects \subseteq Requests
    /\ answer \in [Requests -> Requests \union {None}]
    /\ lost \in BOOLEAN

(***************************************************************************)
(* "Duplicate concurrent requests are serialised via a Redis lock": while  *)
(* no lock has gone before its handler ended, one handler runs at a time,  *)
(* whatever fails, dies and is repeated around it.                         *)
(***************************************************************************)
Serialised ==
    ~lost => \A r, q \in Requests :
                pc[r] \in Running /\ pc[q] \in Running => r = q

\* What is replayed is the response to the same payload by a handler that did
\* its work, and a conflict is with a request of another payload that did.
AnswersFit ==
    \A r \in Requests :
        /\ pc[r] = "replayed" =>
             answer[r] \in effects /\ Payload[answer[r]] = Payload[r]
        /\ pc[r] = "conflict" =>
             \E q \in effects : Payload[q] # Payload[r]

\* A request that has looked for its response is answered, unless its process
\* dies: nobody waits for a lock whose owner threw or died.
RequestsEnd ==
    \A r \in Requests :
        pc[r] \notin {"new", "dead"} ~> pc[r] \in Answered \union {"dead"}

=============================================================================
