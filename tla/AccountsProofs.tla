--------------------------- MODULE AccountsProofs ---------------------------
(***************************************************************************)
(* For any number of devices and logins: a login's token names its row     *)
(* unless logins of the device overlapped, a refused token stays so until  *)
(* the same one is made again, and there are no more sessions than the     *)
(* limit, those of logins that run at a time and those of logins whose     *)
(* policy failed.                                                          *)
(*                                                                         *)
(* For any number of account ids, requests, links and Google accounts:     *)
(* the address has one account and nothing outlives it, the role history   *)
(* follows the roles, spent links go, and dead letters were tried enough.  *)
(***************************************************************************)
EXTENDS Sessions, Accounts, FiniteSetTheorems, TLAPS

(***************************************************************************)
(* Sessions                                                                *)
(***************************************************************************)
\* Past LookUp: the session id is chosen.
Chosen == {"found", "signed", "pruning", "pruned"}

\* A login that runs has a device.
RunningHaveDevice == \A l \in Running : device[l] \in Devices

\* The token in a row is that of a login that is over.
TokensAreDone == \A d \in Rows : phase[sessions[d].token] = "done"

\* Two logins that run on one device are known to overlap.
OverlapsKnown ==
    \A l, m \in Running : l # m /\ device[l] = device[m] => l \in overlapped

\* The row that a login is about to overwrite has the id in its token.
ChosenIdFits ==
    \A l \in Logins : phase[l] \in Chosen /\ l \notin overlapped /\ device[l] \in Rows
                        => sessions[device[l]].id = sid[l]

IInv ==
    /\ TypeOK
    /\ RunningHaveDevice
    /\ TokensAreDone
    /\ OverlapsKnown
    /\ ChosenIdFits
    /\ LoginTokenFits

-----------------------------------------------------------------------------
LEMMA SessionFields ==
    ASSUME NEW s \in Session
    PROVE  s.id \in Logins /\ s.token \in Logins /\ s.used \in Nat /\ s.expired \in BOOLEAN
BY DEF Session

LEMMA SessionMade ==
    ASSUME NEW i \in Logins, NEW t \in Logins, NEW n \in Nat, NEW b \in BOOLEAN
    PROVE  /\ [id |-> i, token |-> t, used |-> n, expired |-> b] \in Session
           /\ [id |-> i, token |-> t, used |-> n, expired |-> b].id = i
           /\ [id |-> i, token |-> t, used |-> n, expired |-> b].token = t
           /\ [id |-> i, token |-> t, used |-> n, expired |-> b].used = n
           /\ [id |-> i, token |-> t, used |-> n, expired |-> b].expired = b
BY DEF Session

LEMMA SessionExpired ==
    ASSUME NEW s \in Session
    PROVE  /\ [s EXCEPT !.expired = TRUE] \in Session
           /\ [s EXCEPT !.expired = TRUE].id = s.id
           /\ [s EXCEPT !.expired = TRUE].token = s.token
           /\ [s EXCEPT !.expired = TRUE].used = s.used
           /\ [s EXCEPT !.expired = TRUE].expired = TRUE
BY DEF Session

-----------------------------------------------------------------------------
LEMMA InitIInv == Init => IInv
<1> SUFFICES ASSUME Init PROVE IInv
  OBVIOUS
<1>1. TypeOK
  BY DEF Init, TypeOK, InFlight
<1>2. Rows = {} /\ Running = {}
  BY DEF Init, Rows, Running, InFlight
<1>3. ChosenIdFits
  BY <1>2 DEF Init, ChosenIdFits, Chosen
<1> QED
  BY <1>1, <1>2, <1>3 DEF IInv, RunningHaveDevice, TokensAreDone, OverlapsKnown,
     LoginTokenFits

(***************************************************************************)
(* Most actions leave the logins alone and may only take rows away, or     *)
(* change what no part of the invariant but TypeOK is about.               *)
(***************************************************************************)
RowsOnlyGo ==
    \A d \in Rows' : /\ d \in Rows
                     /\ sessions'[d].id = sessions[d].id
                     /\ sessions'[d].token = sessions[d].token
                     /\ sessions'[d].used = sessions[d].used

LEMMA DeletionTakesRows ==
    ASSUME TypeOK, NEW ids, DeleteByIds(ids)
    PROVE  /\ sessions' \in [Devices -> Session \union {None}]
           /\ RowsOnlyGo
           /\ \A d \in Rows' : sessions'[d] = sessions[d]
<1> DEFINE Kept(d) == IF d \in Rows /\ sessions[d].id \in ids THEN None ELSE sessions[d]
<1>1. sessions' = [d \in Devices |-> Kept(d)]
  BY DEF DeleteByIds
<1>2. \A d \in Devices : Kept(d) \in Session \union {None}
  BY DEF TypeOK
<1>3. \A d \in Devices : Kept(d) # None => d \in Rows /\ Kept(d) = sessions[d]
  BY DEF Rows
<1> HIDE DEF Kept
<1>4. \A d \in Rows' : d \in Devices /\ sessions'[d] = Kept(d) /\ Kept(d) # None
  BY <1>1 DEF Rows
<1>5. sessions' \in [Devices -> Session \union {None}]
  BY <1>1, <1>2
<1> QED
  BY <1>3, <1>4, <1>5 DEF RowsOnlyGo

LEMMA EmptyingTakesRows ==
    ASSUME sessions' = [d \in Devices |-> None]
    PROVE  sessions' \in [Devices -> Session \union {None}] /\ Rows' = {}
BY DEF Rows

\* The invariant, but for TypeOK, when the logins stay and rows only go.
LEMMA RowsGoKeep ==
    ASSUME IInv, RowsOnlyGo, UNCHANGED <<phase, device, sid, overlapped>>
    PROVE  /\ RunningHaveDevice' /\ TokensAreDone' /\ OverlapsKnown'
           /\ ChosenIdFits' /\ LoginTokenFits'
<1>1. /\ phase' = phase /\ device' = device /\ sid' = sid
      /\ overlapped' = overlapped /\ Running' = Running
  BY DEF Running
<1>2. RunningHaveDevice'
  BY <1>1 DEF IInv, RunningHaveDevice
<1>3. TokensAreDone'
  BY <1>1 DEF IInv, TokensAreDone, RowsOnlyGo
<1>4. OverlapsKnown'
  BY <1>1 DEF IInv, OverlapsKnown
<1>5. ChosenIdFits'
  BY <1>1 DEF IInv, ChosenIdFits, RowsOnlyGo
<1>6. LoginTokenFits'
  BY <1>1 DEF IInv, LoginTokenFits, RowsOnlyGo
<1> QED
  BY <1>2, <1>3, <1>4, <1>5, <1>6

\* Sessions are deleted by id.
LEMMA DeletesKeep ==
    ASSUME IInv, NEW ids, DeleteByIds(ids), UNCHANGED <<loginVars, auxVars, present, clock>>,
           requests' \subseteq Request, sweep' \subseteq Logins
    PROVE  IInv'
<1>1. sessions' \in [Devices -> Session \union {None}] /\ RowsOnlyGo
  BY DeletionTakesRows DEF IInv
<1>2. UNCHANGED <<phase, device, sid, overlapped>>
  BY DEF loginVars, auxVars
<1>3. TypeOK'
  BY <1>1 DEF IInv, TypeOK, loginVars, auxVars
<1> QED
  BY <1>1, <1>2, <1>3, RowsGoKeep DEF IInv

LEMMA ClearingKeeps ==
    ASSUME IInv, sessions' = [d \in Devices |-> None],
           UNCHANGED <<loginVars, auxVars, clock, requests, sweep>>, present' \in BOOLEAN
    PROVE  IInv'
<1>1. sessions' \in [Devices -> Session \union {None}] /\ RowsOnlyGo
  BY EmptyingTakesRows DEF RowsOnlyGo
<1>2. UNCHANGED <<phase, device, sid, overlapped>>
  BY DEF loginVars, auxVars
<1>3. TypeOK'
  BY <1>1 DEF IInv, TypeOK, loginVars, auxVars
<1> QED
  BY <1>1, <1>2, <1>3, RowsGoKeep DEF IInv

LEMMA UserKeeps ==
    ASSUME IInv, User
    PROVE  IInv'
BY ClearingKeeps DEF User, RemoveUser, ClearSessions, IInv, TypeOK

LEMMA GuardKeeps ==
    ASSUME IInv, NEW l \in Logins, NEW id \in Logins,
           NEW op \in {"one", "all", "others"}, Guard(l, op, id)
    PROVE  IInv'
<1>1. UNCHANGED <<present, sessions, clock, loginVars, sweep, auxVars>>
  BY DEF Guard
<1>2. [op |-> op, id |-> id] \in Request
  BY DEF Request
<1>3. requests' \subseteq Request
  BY <1>2 DEF Guard, IInv, TypeOK
<1>4. TypeOK'
  BY <1>1, <1>3 DEF IInv, TypeOK, loginVars, auxVars
<1>5. RowsOnlyGo
  BY <1>1 DEF RowsOnlyGo, Rows
<1> QED
  BY <1>1, <1>4, <1>5, RowsGoKeep DEF IInv, loginVars, auxVars

LEMMA DeleteSessionsKeeps ==
    ASSUME IInv, NEW r \in requests, DeleteSessions(r)
    PROVE  IInv'
<1>1. PICK ids : DeleteByIds(ids)
  BY DEF DeleteSessions
<1>2. requests' \subseteq Request /\ sweep' \subseteq Logins
  BY DEF DeleteSessions, IInv, TypeOK
<1>3. UNCHANGED <<loginVars, auxVars, present, clock>>
  BY DEF DeleteSessions
<1> QED
  BY <1>1, <1>2, <1>3, DeletesKeep

LEMMA SweepSelectKeeps ==
    ASSUME IInv, SweepSelect
    PROVE  IInv'
<1>1. UNCHANGED <<present, sessions, clock, loginVars, requests, auxVars>>
  BY DEF SweepSelect
<1>2. \A d \in Rows : sessions[d].id \in Logins
  BY SessionFields DEF IInv, TypeOK, Rows
<1>3. sweep' \subseteq Logins
  BY <1>2 DEF SweepSelect
<1>4. TypeOK'
  BY <1>1, <1>3 DEF IInv, TypeOK, loginVars, auxVars
<1>5. RowsOnlyGo
  BY <1>1 DEF RowsOnlyGo, Rows
<1> QED
  BY <1>1, <1>4, <1>5, RowsGoKeep DEF IInv, loginVars, auxVars

LEMMA SweepDeleteKeeps ==
    ASSUME IInv, SweepDelete
    PROVE  IInv'
<1>1. requests' \subseteq Request /\ sweep' \subseteq Logins
  BY DEF SweepDelete, IInv, TypeOK
<1> QED
  BY <1>1, DeletesKeep DEF SweepDelete

\* What a session that expires keeps.
LEMMA ExpirySession ==
    ASSUME TypeOK, NEW d \in Devices, ExpireSession(d)
    PROVE  /\ sessions' \in [Devices -> Session \union {None}]
           /\ RowsOnlyGo
           /\ \A e \in Rows' : ~sessions'[e].expired => sessions'[e] = sessions[e]
<1> DEFINE late == [sessions[d] EXCEPT !.expired = TRUE]
<1>1. sessions' = [sessions EXCEPT ![d] = late] /\ d \in Rows
  BY DEF ExpireSession
<1>2. sessions[d] \in Session
  BY <1>1 DEF TypeOK, Rows
<1>3. /\ late \in Session /\ late.id = sessions[d].id /\ late.used = sessions[d].used
      /\ late.token = sessions[d].token /\ late.expired = TRUE
  BY <1>2, SessionExpired
<1> HIDE DEF late
<1>4. sessions' \in [Devices -> Session \union {None}]
  BY <1>1, <1>3 DEF TypeOK
<1>5. \A e \in Devices : sessions'[e] = IF e = d THEN late ELSE sessions[e]
  BY <1>1 DEF TypeOK
<1>6. RowsOnlyGo
  BY <1>1, <1>3, <1>5 DEF RowsOnlyGo, Rows
<1>7. \A e \in Rows' : ~sessions'[e].expired => sessions'[e] = sessions[e]
  BY <1>3, <1>5 DEF Rows
<1> QED
  BY <1>4, <1>6, <1>7

LEMMA ExpireSessionKeeps ==
    ASSUME IInv, NEW d \in Devices, ExpireSession(d)
    PROVE  IInv'
<1>1. UNCHANGED <<present, clock, loginVars, requests, sweep, auxVars>>
  BY DEF ExpireSession
<1>2. sessions' \in [Devices -> Session \union {None}] /\ RowsOnlyGo
  BY ExpirySession DEF IInv
<1>3. TypeOK'
  BY <1>1, <1>2 DEF IInv, TypeOK, loginVars, auxVars
<1> QED
  BY <1>1, <1>2, <1>3, RowsGoKeep DEF IInv, loginVars, auxVars

-----------------------------------------------------------------------------
(***************************************************************************)
(* The steps of a login l.                                                 *)
(***************************************************************************)
LEMMA RunningIsFinite == IsFiniteSet(Running) /\ Cardinality(Running) \in Nat
BY LoginsAssumption, FS_Subset, FS_CardinalityType DEF Running

LEMMA BeginKeeps ==
    ASSUME IInv, NEW l \in Logins, NEW d \in Devices, Begin(l, d)
    PROVE  IInv'
<1> DEFINE others == {m \in Running : device[m] = d}
<1>1. /\ phase[l] = "new" /\ phase' = [phase EXCEPT ![l] = "checked"]
      /\ device' = [device EXCEPT ![l] = d]
      /\ UNCHANGED <<present, sessions, clock, sid, second, now, victims, requests, sweep,
                     skipped>>
  BY DEF Begin
<1>2. /\ others = {} => overlapped' = overlapped
      /\ others # {} => overlapped' = overlapped \union others \union {l}
  BY DEF Begin
<1>3. peak' \in Nat
  BY RunningIsFinite DEF Begin, IInv, TypeOK
<1>4. others \subseteq Logins
  BY DEF Running
<1>5. TypeOK'
  BY <1>1, <1>2, <1>3, <1>4 DEF IInv, TypeOK, InFlight
<1>6. /\ l \notin Running
      /\ \A m \in Logins : phase'[m] = IF m = l THEN "checked" ELSE phase[m]
      /\ \A m \in Logins : device'[m] = IF m = l THEN d ELSE device[m]
      /\ overlapped \subseteq overlapped'
  BY <1>1, <1>2 DEF IInv, TypeOK, Running, InFlight
<1>7. Running' = Running \union {l}
  BY <1>6 DEF Running, InFlight
<1>8. RunningHaveDevice'
  BY <1>6, <1>7 DEF IInv, RunningHaveDevice, Running
<1>9. TokensAreDone'
  <2>1. \A e \in Rows : sessions[e].token \in Logins
    BY SessionFields DEF IInv, TypeOK, Rows
  <2> QED
    BY <1>1, <1>6, <2>1 DEF IInv, TokensAreDone, Rows
<1>10. OverlapsKnown'
  <2> SUFFICES ASSUME NEW m \in Running', NEW n \in Running', m # n, device'[m] = device'[n]
               PROVE  m \in overlapped'
    BY DEF OverlapsKnown
  <2>1. m \in Logins /\ n \in Logins
    BY DEF Running
  <2>2. CASE m = l
    BY <1>2, <1>6, <1>7, <2>1, <2>2
  <2>3. CASE n = l
    BY <1>2, <1>6, <1>7, <2>1, <2>3
  <2>4. CASE m # l /\ n # l
    BY <1>6, <1>7, <2>1, <2>4 DEF IInv, OverlapsKnown
  <2> QED
    BY <2>2, <2>3, <2>4
<1>11. ChosenIdFits'
  BY <1>1, <1>6 DEF IInv, ChosenIdFits, Chosen, Rows
<1>12. LoginTokenFits'
  BY <1>1, <1>6 DEF IInv, LoginTokenFits, Rows
<1> QED
  BY <1>5, <1>8, <1>9, <1>10, <1>11, <1>12 DEF IInv

LEMMA LookUpKeeps ==
    ASSUME IInv, NEW l \in Logins, LookUp(l)
    PROVE  IInv'
<1>1. /\ phase[l] = "checked" /\ phase' = [phase EXCEPT ![l] = "found"]
      /\ sid' = [sid EXCEPT ![l] = SessionIdFor(l)]
      /\ UNCHANGED <<present, sessions, clock, device, second, now, victims, requests, sweep,
                     auxVars>>
  BY DEF LookUp
<1>2. device[l] \in Devices
  BY <1>1 DEF IInv, RunningHaveDevice, Running, InFlight
<1>3. SessionIdFor(l) \in Logins
  BY <1>2, SessionFields DEF SessionIdFor, IInv, TypeOK
<1>4. TypeOK'
  BY <1>1, <1>3 DEF IInv, TypeOK, InFlight, auxVars
<1>5. /\ \A m \in Logins : phase'[m] = IF m = l THEN "found" ELSE phase[m]
      /\ \A m \in Logins : sid'[m] = IF m = l THEN SessionIdFor(l) ELSE sid[m]
  BY <1>1 DEF IInv, TypeOK
<1>6. Running' = Running /\ Rows' = Rows /\ overlapped' = overlapped
  BY <1>1, <1>5 DEF Running, InFlight, Rows, auxVars
<1>7. \A e \in Rows : sessions[e].token \in Logins /\ sessions[e].token # l
  BY <1>1, SessionFields DEF IInv, TypeOK, TokensAreDone, Rows
<1>8. RunningHaveDevice' /\ OverlapsKnown'
  BY <1>1, <1>6 DEF IInv, RunningHaveDevice, OverlapsKnown
<1>9. TokensAreDone' /\ LoginTokenFits'
  BY <1>1, <1>5, <1>6, <1>7 DEF IInv, TokensAreDone, LoginTokenFits
<1>10. device[l] \in Rows => SessionIdFor(l) = sessions[device[l]].id
  BY DEF SessionIdFor, Rows
<1>11. ChosenIdFits'
  BY <1>1, <1>5, <1>6, <1>10 DEF IInv, ChosenIdFits, Chosen
<1> QED
  BY <1>4, <1>8, <1>9, <1>11 DEF IInv

\* A signature changes neither rows nor the session id.
LEMMA SignKeeps ==
    ASSUME IInv, NEW l \in Logins, Sign(l)
    PROVE  IInv'
<1>1. /\ phase[l] = "found" /\ phase' = [phase EXCEPT ![l] = "signed"]
      /\ second' = [second EXCEPT ![l] = now]
      /\ UNCHANGED <<present, sessions, clock, device, sid, now, victims, requests, sweep,
                     auxVars>>
  BY DEF Sign
<1>2. TypeOK'
  BY <1>1 DEF IInv, TypeOK, InFlight, auxVars
<1>3. \A m \in Logins : phase'[m] = IF m = l THEN "signed" ELSE phase[m]
  BY <1>1 DEF IInv, TypeOK
<1>4. Running' = Running /\ Rows' = Rows /\ overlapped' = overlapped
  BY <1>1, <1>3 DEF Running, InFlight, Rows, auxVars
<1>5. \A e \in Rows : sessions[e].token \in Logins /\ sessions[e].token # l
  BY <1>1, SessionFields DEF IInv, TypeOK, TokensAreDone, Rows
<1>6. RunningHaveDevice' /\ OverlapsKnown'
  BY <1>1, <1>4 DEF IInv, RunningHaveDevice, OverlapsKnown
<1>7. TokensAreDone' /\ LoginTokenFits'
  BY <1>1, <1>3, <1>4, <1>5 DEF IInv, TokensAreDone, LoginTokenFits
<1>8. ChosenIdFits'
  BY <1>1, <1>3, <1>4 DEF IInv, ChosenIdFits, Chosen
<1> QED
  BY <1>2, <1>6, <1>7, <1>8 DEF IInv

\* The policy's steps move l between chosen phases, and may delete.
LEMMA PolicyKeeps ==
    ASSUME IInv, NEW l \in Logins, PolicyRead(l) \/ PolicyDelete(l) \/ PolicyFails(l)
    PROVE  IInv'
<1>1. /\ phase[l] \in {"signed", "pruning"}
      /\ phase' \in {[phase EXCEPT ![l] = "pruned"], [phase EXCEPT ![l] = "pruning"]}
      /\ UNCHANGED <<present, clock, device, sid, second, now, requests, sweep, peak,
                     overlapped>>
  BY DEF PolicyRead, PolicyDelete, PolicyFails, auxVars
<1>2. sessions' = sessions \/ \E ids : DeleteByIds(ids)
  BY DEF PolicyRead, PolicyDelete, PolicyFails
<1>3. sessions' \in [Devices -> Session \union {None}] /\ RowsOnlyGo
  <2>1. CASE sessions' = sessions
    BY <2>1 DEF IInv, TypeOK, RowsOnlyGo, Rows
  <2>2. CASE \E ids : DeleteByIds(ids)
    BY <2>2, DeletionTakesRows DEF IInv
  <2> QED
    BY <1>2, <2>1, <2>2
<1>4. victims' \in [Logins -> SUBSET Logins]
  <2>1. CASE PolicyRead(l)
    <3> DEFINE chosen == {sessions[d].id : d \in Oldest(Rows \ {device[l]}, Excess)}
    <3>1. Oldest(Rows \ {device[l]}, Excess) \subseteq Rows
      BY DEF Oldest
    <3>2. \A d \in Rows : sessions[d].id \in Logins
      BY SessionFields DEF IInv, TypeOK, Rows
    <3>3. chosen \subseteq Logins
      BY <3>1, <3>2
    <3>4. victims' = [victims EXCEPT ![l] = chosen]
      BY <2>1 DEF PolicyRead
    <3> HIDE DEF chosen
    <3> QED
      BY <3>3, <3>4 DEF IInv, TypeOK
  <2>2. CASE PolicyDelete(l) \/ PolicyFails(l)
    BY <2>2 DEF PolicyDelete, PolicyFails, IInv, TypeOK
  <2> QED
    BY <2>1, <2>2
<1>5. skipped' \subseteq Logins
  BY DEF PolicyRead, PolicyDelete, PolicyFails, auxVars, IInv, TypeOK
<1>6. TypeOK'
  BY <1>1, <1>3, <1>4, <1>5 DEF IInv, TypeOK, InFlight
<1>7. \A m \in Logins : /\ m # l => phase'[m] = phase[m]
                       /\ phase'[l] \in {"pruned", "pruning"}
  BY <1>1 DEF IInv, TypeOK
<1>8. Running' = Running
  BY <1>1, <1>7 DEF Running, InFlight
<1>9. \A e \in Rows : sessions[e].token \in Logins /\ sessions[e].token # l
  BY <1>1, SessionFields DEF IInv, TypeOK, TokensAreDone, Rows
<1>10. RunningHaveDevice' /\ OverlapsKnown'
  BY <1>1, <1>8 DEF IInv, RunningHaveDevice, OverlapsKnown
<1>11. TokensAreDone' /\ LoginTokenFits'
  BY <1>1, <1>3, <1>7, <1>9 DEF IInv, TokensAreDone, LoginTokenFits, RowsOnlyGo
<1>12. ChosenIdFits'
  BY <1>1, <1>3, <1>7 DEF IInv, ChosenIdFits, Chosen, RowsOnlyGo
<1> QED
  BY <1>6, <1>10, <1>11, <1>12 DEF IInv

\* What Upsert(l) writes into the row of its device, and nowhere else.
LEMMA UpsertWrites ==
    ASSUME IInv, NEW l \in Logins, Upsert(l)
    PROVE  /\ device[l] \in Devices
           /\ sessions' \in [Devices -> Session \union {None}]
           /\ sessions'[device[l]].token = l /\ sessions'[device[l]].used = clock + 1
           /\ device[l] \in Rows => sessions'[device[l]].id = sessions[device[l]].id
           /\ device[l] \notin Rows => sessions'[device[l]].id = sid[l]
           /\ \A e \in Devices \ {device[l]} : sessions'[e] = sessions[e]
<1> DEFINE d == device[l]
           id == IF d \in Rows THEN sessions[d].id ELSE sid[l]
           row == [id |-> id, token |-> l, used |-> clock + 1, expired |-> FALSE]
<1>1. sessions' = [sessions EXCEPT ![d] = row]
  BY DEF Upsert
<1>2. d \in Devices
  BY DEF Upsert, IInv, RunningHaveDevice, Running, InFlight
<1>3. id \in Logins
  BY SessionFields DEF IInv, TypeOK, Rows
<1>4. clock + 1 \in Nat
  BY DEF IInv, TypeOK
<1>5. row \in Session /\ row.id = id /\ row.token = l /\ row.used = clock + 1
  <2> HIDE DEF id
  <2> QED
    BY <1>3, <1>4, SessionMade
<1> HIDE DEF row
<1>6. \A e \in Devices : sessions'[e] = IF e = d THEN row ELSE sessions[e]
  BY <1>1, <1>2 DEF IInv, TypeOK
<1>7. sessions' \in [Devices -> Session \union {None}]
  BY <1>1, <1>5 DEF IInv, TypeOK
<1> QED
  BY <1>2, <1>5, <1>6, <1>7

LEMMA UpsertKeeps ==
    ASSUME IInv, NEW l \in Logins, Upsert(l)
    PROVE  IInv'
<1> DEFINE d == device[l]
<1>1. /\ phase[l] = "pruned" /\ phase' = [phase EXCEPT ![l] = "done"]
      /\ device' = [device EXCEPT ![l] = None] /\ clock' = clock + 1
      /\ UNCHANGED <<present, sid, second, now, victims, requests, sweep, auxVars>>
  BY DEF Upsert
<1>2. /\ d \in Devices
      /\ sessions' \in [Devices -> Session \union {None}]
      /\ sessions'[d].token = l
      /\ d \in Rows => sessions'[d].id = sessions[d].id
      /\ d \notin Rows => sessions'[d].id = sid[l]
      /\ \A e \in Devices \ {d} : sessions'[e] = sessions[e]
  BY UpsertWrites
<1>3. TypeOK'
  BY <1>1, <1>2 DEF IInv, TypeOK, auxVars
<1>4. /\ \A m \in Logins : phase'[m] = IF m = l THEN "done" ELSE phase[m]
      /\ \A m \in Logins : device'[m] = IF m = l THEN None ELSE device[m]
  BY <1>1 DEF IInv, TypeOK
<1>5. Running' = Running \ {l}
  BY <1>4 DEF Running, InFlight
<1>6. RunningHaveDevice' /\ OverlapsKnown'
  BY <1>1, <1>4, <1>5 DEF IInv, RunningHaveDevice, OverlapsKnown, Running, auxVars
<1>7. \A e \in Rows' : e \in Devices /\ (e = d \/ e \in Rows)
  BY <1>2 DEF Rows
<1>8. \A e \in Rows : sessions[e].token \in Logins
  BY SessionFields DEF IInv, TypeOK, Rows
<1>9. TokensAreDone'
  BY <1>2, <1>4, <1>7, <1>8 DEF IInv, TokensAreDone
<1>10. l \notin overlapped => sessions'[d].id = sid[l]
  BY <1>1, <1>2 DEF IInv, ChosenIdFits, Chosen
<1>11. LoginTokenFits'
  BY <1>1, <1>2, <1>7, <1>10 DEF IInv, LoginTokenFits, auxVars
<1>12. ChosenIdFits'
  <2> SUFFICES ASSUME NEW m \in Logins, phase'[m] \in Chosen, m \notin overlapped',
                      device'[m] \in Rows'
               PROVE  sessions'[device'[m]].id = sid'[m]
    BY DEF ChosenIdFits
  <2>1. m # l /\ phase[m] \in Chosen /\ device'[m] = device[m] /\ m \notin overlapped
    BY <1>1, <1>4 DEF Chosen, auxVars
  <2>2. m \in Running /\ l \in Running
    BY <1>1, <2>1 DEF Running, Chosen, InFlight
  <2>3. device[m] # d
    BY <2>1, <2>2 DEF IInv, OverlapsKnown
  <2> QED
    BY <1>1, <1>2, <1>7, <2>1, <2>3 DEF IInv, ChosenIdFits
<1> QED
  BY <1>3, <1>6, <1>9, <1>11, <1>12 DEF IInv

LEMMA LoginFailsKeeps ==
    ASSUME IInv, NEW l \in Logins, LoginFails(l)
    PROVE  IInv'
<1>1. /\ phase[l] \in InFlight /\ phase' = [phase EXCEPT ![l] = "new"]
      /\ device' = [device EXCEPT ![l] = None] /\ sid' = [sid EXCEPT ![l] = l]
      /\ victims' = [victims EXCEPT ![l] = {}]
      /\ overlapped' = overlapped \ {l} /\ skipped' = skipped \ {l}
      /\ second' = [second EXCEPT ![l] = 0]
      /\ UNCHANGED <<present, sessions, clock, now, requests, sweep, peak>>
  BY DEF LoginFails
<1>2. TypeOK'
  BY <1>1 DEF IInv, TypeOK
<1>3. /\ \A m \in Logins : phase'[m] = IF m = l THEN "new" ELSE phase[m]
      /\ \A m \in Logins : device'[m] = IF m = l THEN None ELSE device[m]
      /\ \A m \in Logins : sid'[m] = IF m = l THEN l ELSE sid[m]
  BY <1>1 DEF IInv, TypeOK
<1>4. Running' = Running \ {l} /\ Rows' = Rows
  BY <1>1, <1>3 DEF Running, InFlight, Rows
<1>5. RunningHaveDevice' /\ OverlapsKnown'
  BY <1>1, <1>3, <1>4 DEF IInv, RunningHaveDevice, OverlapsKnown, Running
<1>6. \A e \in Rows : sessions[e].token \in Logins /\ sessions[e].token # l
  BY <1>1, SessionFields DEF IInv, TypeOK, TokensAreDone, Rows, InFlight
<1>7. TokensAreDone' /\ LoginTokenFits'
  BY <1>1, <1>3, <1>4, <1>6 DEF IInv, TokensAreDone, LoginTokenFits
<1>8. ChosenIdFits'
  BY <1>1, <1>3, <1>4 DEF IInv, ChosenIdFits, Chosen
<1> QED
  BY <1>2, <1>5, <1>7, <1>8 DEF IInv

-----------------------------------------------------------------------------
LEMMA LogInKeeps ==
    ASSUME IInv, LogIn
    PROVE  IInv'
<1> PICK l \in Logins :
        \/ \E d \in Devices : Begin(l, d)
        \/ LookUp(l) \/ Sign(l) \/ PolicyRead(l) \/ PolicyDelete(l) \/ PolicyFails(l)
        \/ Upsert(l) \/ LoginFails(l)
  BY DEF LogIn
<1> QED
  BY BeginKeeps, LookUpKeeps, SignKeeps, PolicyKeeps, UpsertKeeps, LoginFailsKeeps

LEMMA RevokeKeeps ==
    ASSUME IInv, Revoke
    PROVE  IInv'
<1>1. CASE \E l, id \in Logins, op \in {"one", "all", "others"} : Guard(l, op, id)
  BY <1>1, GuardKeeps
<1>2. CASE \E r \in requests : DeleteSessions(r)
  BY <1>2, DeleteSessionsKeeps
<1>3. CASE \E d \in Devices : ExpireSession(d)
  BY <1>3, ExpireSessionKeeps
<1>4. CASE SweepSelect \/ SweepDelete
  BY <1>4, SweepSelectKeeps, SweepDeleteKeeps
<1> QED
  BY <1>1, <1>2, <1>3, <1>4 DEF Revoke

LEMMA TickKeeps ==
    ASSUME IInv, Tick
    PROVE  IInv'
<1>1. /\ now' = now + 1
      /\ UNCHANGED <<present, sessions, clock, phase, device, sid, second, victims, requests,
                     sweep, auxVars>>
  BY DEF Tick
<1>2. TypeOK'
  BY <1>1 DEF IInv, TypeOK, auxVars
<1>3. RowsOnlyGo
  BY <1>1 DEF RowsOnlyGo, Rows
<1> QED
  BY <1>1, <1>2, <1>3, RowsGoKeep DEF IInv, auxVars

LEMMA StutterKeeps ==
    ASSUME IInv, UNCHANGED vars
    PROVE  IInv'
<1>1. UNCHANGED <<present, sessions, clock, loginVars, requests, sweep, auxVars>>
  BY DEF vars, loginVars, auxVars
<1>2. TypeOK'
  BY <1>1 DEF IInv, TypeOK, loginVars, auxVars
<1>3. RowsOnlyGo
  BY <1>1 DEF RowsOnlyGo, Rows
<1> QED
  BY <1>1, <1>2, <1>3, RowsGoKeep DEF IInv, loginVars, auxVars

(***************************************************************************)
(* The inductive invariant holds in every state of the specification.      *)
(***************************************************************************)
THEOREM Invariance == Spec => []IInv
<1>1. IInv /\ [Next]_vars => IInv'
  BY UserKeeps, LogInKeeps, RevokeKeeps, TickKeeps, StutterKeeps DEF Next
<1> QED
  BY InitIInv, <1>1, PTL DEF Spec

\* Every variable keeps its type, the session ids in rows and tokens too.
THEOREM TypeCorrect == Spec => []TypeOK
BY Invariance, PTL DEF IInv

(***************************************************************************)
(* The refresh token that login returned names the row that holds its      *)
(* hash, unless another login of that device ran at the same time.         *)
(***************************************************************************)
THEOREM TokensFit == Spec => []LoginTokenFits
BY Invariance, PTL DEF IInv

(***************************************************************************)
(* What the abstract specification speaks of, and which token opens a row: *)
(* that of the login whose hash it holds, or none.                         *)
(***************************************************************************)
Made == [l \in Logins |-> IF phase[l] \in Signed THEN {Token(l)} ELSE {}]
Ended == {l \in Logins : phase[l] = "done"}
Accepted == [d \in Devices |-> {Token(l) : l \in {m \in Logins : Opens(m, d)}}]

Opening(d) ==
    IF d \in Rows /\ ~sessions[d].expired /\ sessions[d].id = sid[sessions[d].token]
    THEN {Token(sessions[d].token)} ELSE {}

LEMMA TokenFields == \A l, m : Token(l) = Token(m) => sid[l] = sid[m]
BY DEF Token

LEMMA AcceptedIs ==
    ASSUME TypeOK, TokensAreDone
    PROVE  Accepted = [d \in Devices |-> Opening(d)]
<1> SUFFICES ASSUME NEW d \in Devices
             PROVE  {Token(l) : l \in {m \in Logins : Opens(m, d)}} = Opening(d)
  BY DEF Accepted
<1>1. CASE d \in Rows
  <2>1. PICK t \in Logins : t = sessions[d].token /\ phase[t] = "done"
    BY <1>1, SessionFields DEF TypeOK, TokensAreDone, Rows
  <2>2. \A m \in Logins : Opens(m, d) => Token(m) = Token(t) /\ sid[t] = sessions[d].id
    BY <2>1, TokenFields DEF Opens
  <2>3. CASE ~sessions[d].expired /\ sessions[d].id = sid[t]
    BY <1>1, <2>1, <2>2, <2>3 DEF Opens, Opening
  <2>4. CASE sessions[d].expired \/ sessions[d].id # sid[t]
    BY <2>1, <2>2, <2>4 DEF Opens, Opening
  <2> QED BY <2>3, <2>4
<1>2. CASE d \notin Rows
  BY <1>2 DEF Opens, Opening
<1> QED BY <1>1, <1>2

LEMMA AcceptedIsThen ==
    ASSUME TypeOK', TokensAreDone'
    PROVE  Accepted' = [d \in Devices |-> Opening(d)']
<1> SUFFICES ASSUME NEW d \in Devices
             PROVE  {Token(l)' : l \in {m \in Logins : Opens(m, d)'}} = Opening(d)'
  BY DEF Accepted
<1>1. CASE d \in Rows'
  <2>1. PICK t \in Logins : t = sessions'[d].token /\ phase'[t] = "done"
    BY <1>1, SessionFields DEF TypeOK, TokensAreDone, Rows
  <2>2. \A m \in Logins : Opens(m, d)' => Token(m)' = Token(t)' /\ sid'[t] = sessions'[d].id
    BY <2>1 DEF Opens, Token
  <2>3. CASE ~sessions'[d].expired /\ sessions'[d].id = sid'[t]
    BY <1>1, <2>1, <2>2, <2>3 DEF Opens, Opening
  <2>4. CASE sessions'[d].expired \/ sessions'[d].id # sid'[t]
    BY <2>1, <2>2, <2>4 DEF Opens, Opening
  <2> QED BY <2>3, <2>4
<1>2. CASE d \notin Rows'
  BY <1>2 DEF Opens, Opening
<1> QED BY <1>1, <1>2

\* The tokens of rows stay what they are while their logins do.
LEMMA OpeningStays ==
    ASSUME IInv, NEW d \in Devices, sessions'[d] = sessions[d],
           \A l \in Logins : phase[l] = "done" => sid'[l] = sid[l] /\ second'[l] = second[l]
    PROVE  Opening(d)' = Opening(d)
<1>1. d \in Rows => sessions[d].token \in Logins /\ phase[sessions[d].token] = "done"
  BY SessionFields DEF IInv, TypeOK, TokensAreDone, Rows
<1>2. d \in Rows' <=> d \in Rows
  BY DEF Rows
<1>3. CASE d \in Rows
  <2>1. PICK t \in Logins : t = sessions[d].token /\ t = sessions'[d].token /\ phase[t] = "done"
    BY <1>1, <1>3
  <2>2. sid'[t] = sid[t] /\ Token(t)' = Token(t)
    BY <2>1 DEF Token
  <2> QED BY <1>2, <1>3, <2>1, <2>2 DEF Opening
<1>4. CASE d \notin Rows
  BY <1>2, <1>4 DEF Opening
<1> QED BY <1>3, <1>4

-----------------------------------------------------------------------------
\* A login that goes on without signing or ending.
GoesOnly(m) ==
    \/ \E e \in Devices : Begin(m, e)
    \/ LookUp(m) \/ PolicyRead(m) \/ PolicyDelete(m) \/ PolicyFails(m)

\* Most steps make and give away no token, and leave a device's row as it is,
\* or take it, or mark it as expired.
LEMMA OthersRevoke ==
    ASSUME IInv, User \/ Revoke \/ UNCHANGED vars \/ \E m \in Logins : GoesOnly(m)
    PROVE  /\ now' = now
           /\ \A l \in Logins : /\ phase'[l] \in Signed <=> phase[l] \in Signed
                                /\ phase'[l] = "done" <=> phase[l] = "done"
                                /\ phase[l] \in Signed => sid'[l] = sid[l]
                                /\ second'[l] = second[l]
           /\ \A d \in Rows' : d \in Rows /\ (sessions'[d] = sessions[d] \/ sessions'[d].expired)
<1>1. ASSUME NEW m \in Logins, GoesOnly(m)
      PROVE  /\ now' = now
             /\ \A l \in Logins : /\ phase'[l] \in Signed <=> phase[l] \in Signed
                                  /\ phase'[l] = "done" <=> phase[l] = "done"
                                  /\ phase[l] \in Signed => sid'[l] = sid[l]
                                  /\ second'[l] = second[l]
             /\ \A d \in Rows' : d \in Rows /\ (sessions'[d] = sessions[d] \/ sessions'[d].expired)
  <2> USE DEF Signed
  <2>1. CASE \E e \in Devices : Begin(m, e)
    BY <2>1 DEF Begin, IInv, TypeOK, Rows
  <2>2. CASE LookUp(m)
    BY <2>2 DEF LookUp, IInv, TypeOK, Rows
  <2>3. CASE PolicyRead(m)
    BY <2>3 DEF PolicyRead, IInv, TypeOK, Rows
  <2>4. CASE PolicyDelete(m)
    <3>1. RowsOnlyGo /\ \A d \in Rows' : sessions'[d] = sessions[d]
      BY <2>4, DeletionTakesRows DEF PolicyDelete, IInv
    <3> QED BY <2>4, <3>1 DEF PolicyDelete, IInv, TypeOK, RowsOnlyGo
  <2>5. CASE PolicyFails(m)
    BY <2>5 DEF PolicyFails, IInv, TypeOK, Rows
  <2> QED BY <1>1, <2>1, <2>2, <2>3, <2>4, <2>5 DEF GoesOnly
<1>2. CASE User
  BY <1>2, EmptyingTakesRows DEF User, RemoveUser, ClearSessions, loginVars
<1>3. CASE Revoke
  <2>1. phase' = phase /\ sid' = sid /\ second' = second /\ now' = now
    BY <1>3 DEF Revoke, Guard, DeleteSessions, ExpireSession, SweepSelect, SweepDelete, loginVars
  <2>2. CASE \E r \in requests : DeleteSessions(r)
    <3>1. PICK ids : DeleteByIds(ids)
      BY <2>2 DEF DeleteSessions
    <3> QED BY <2>1, <3>1, DeletionTakesRows DEF IInv, RowsOnlyGo
  <2>3. CASE \E e \in Devices : ExpireSession(e)
    BY <2>1, <2>3, ExpirySession DEF IInv, RowsOnlyGo
  <2>4. CASE SweepDelete
    BY <2>1, <2>4, DeletionTakesRows DEF SweepDelete, IInv, RowsOnlyGo
  <2> QED BY <1>3, <2>1, <2>2, <2>3, <2>4 DEF Revoke, Guard, SweepSelect, Rows
<1>4. CASE UNCHANGED vars
  BY <1>4 DEF vars, Rows
<1> QED BY <1>1, <1>2, <1>3, <1>4

LEMMA RefuseStep ==
    ASSUME IInv, IInv', User \/ Revoke \/ UNCHANGED vars \/ \E m \in Logins : GoesOnly(m)
    PROVE  \E ds \in SUBSET Devices :
               /\ Accepted' = [d \in Devices |-> IF d \in ds THEN {} ELSE Accepted[d]]
               /\ UNCHANGED <<now, Made, Ended>>
<1>1. /\ now' = now
      /\ \A l \in Logins : /\ phase'[l] \in Signed <=> phase[l] \in Signed
                           /\ phase'[l] = "done" <=> phase[l] = "done"
                           /\ phase[l] \in Signed => sid'[l] = sid[l]
                           /\ second'[l] = second[l]
      /\ \A d \in Rows' : d \in Rows /\ (sessions'[d] = sessions[d] \/ sessions'[d].expired)
  BY OthersRevoke
<1>2. PICK ds \in SUBSET Devices : ds = {d \in Devices : d \notin Rows' \/ sessions'[d].expired}
  OBVIOUS
<1>3. ASSUME NEW d \in Devices PROVE Opening(d)' = IF d \in ds THEN {} ELSE Opening(d)
  <2>1. CASE d \in ds
    BY <1>2, <2>1 DEF Opening
  <2>2. CASE d \notin ds
    <3>1. sessions'[d] = sessions[d]
      BY <1>1, <1>2, <2>2
    <3> QED BY <1>1, <2>2, <3>1, OpeningStays DEF Signed
  <2> QED BY <2>1, <2>2
<1>4. Accepted = [d \in Devices |-> Opening(d)] /\ Accepted' = [d \in Devices |-> Opening(d)']
  BY AcceptedIs, AcceptedIsThen DEF IInv
<1>5. Accepted' = [d \in Devices |-> IF d \in ds THEN {} ELSE Accepted[d]]
  BY <1>3, <1>4
<1>6. Made' = Made /\ Ended' = Ended
  BY <1>1 DEF Made, Ended, Token
<1> QED BY <1>1, <1>5, <1>6

LEMMA MakeStep ==
    ASSUME IInv, IInv', NEW l \in Logins, Sign(l)
    PROVE  /\ sid[l] \in Logins /\ Made[l] = {}
           /\ Made' = [Made EXCEPT ![l] = {[id |-> sid[l], at |-> now]}]
           /\ UNCHANGED <<now, Ended, Accepted>>
<1>1. /\ phase[l] = "found" /\ phase' = [phase EXCEPT ![l] = "signed"]
      /\ second' = [second EXCEPT ![l] = now] /\ UNCHANGED <<sessions, sid, now>>
  BY DEF Sign
<1>2. \A m \in Logins : /\ phase'[m] = IF m = l THEN "signed" ELSE phase[m]
                        /\ second'[m] = IF m = l THEN now ELSE second[m]
  BY <1>1 DEF IInv, TypeOK
<1>3. \A d \in Devices : Opening(d)' = Opening(d)
  BY <1>1, <1>2, OpeningStays
<1>4. Accepted' = Accepted
  BY <1>3, AcceptedIs, AcceptedIsThen DEF IInv
<1>5. Ended' = Ended
  BY <1>1, <1>2 DEF Ended
<1>6. Made' = [Made EXCEPT ![l] = {[id |-> sid[l], at |-> now]}]
  BY <1>1, <1>2 DEF Made, Signed, Token
<1>7. Made[l] = {} /\ sid[l] \in Logins
  BY <1>1 DEF Made, Signed, IInv, TypeOK
<1> QED BY <1>1, <1>4, <1>5, <1>6, <1>7

LEMMA FailStep ==
    ASSUME IInv, IInv', NEW l \in Logins, LoginFails(l)
    PROVE  /\ l \notin Ended /\ Made' = [Made EXCEPT ![l] = {}]
           /\ UNCHANGED <<now, Ended, Accepted>>
<1>1. /\ phase[l] \in InFlight /\ phase' = [phase EXCEPT ![l] = "new"]
      /\ sid' = [sid EXCEPT ![l] = l] /\ second' = [second EXCEPT ![l] = 0]
      /\ UNCHANGED <<sessions, now>>
  BY DEF LoginFails
<1>2. \A m \in Logins : /\ phase'[m] = IF m = l THEN "new" ELSE phase[m]
                        /\ sid'[m] = IF m = l THEN l ELSE sid[m]
                        /\ second'[m] = IF m = l THEN 0 ELSE second[m]
  BY <1>1 DEF IInv, TypeOK
<1>3. \A d \in Devices : Opening(d)' = Opening(d)
  BY <1>1, <1>2, OpeningStays DEF InFlight
<1>4. Accepted' = Accepted
  BY <1>3, AcceptedIs, AcceptedIsThen DEF IInv
<1>5. Ended' = Ended /\ l \notin Ended
  BY <1>1, <1>2 DEF Ended, InFlight
<1>6. Made' = [Made EXCEPT ![l] = {}]
  <2>1. phase'[l] \notin Signed
    BY <1>2 DEF Signed
  <2>2. \A m \in Logins \ {l} : (phase'[m] \in Signed <=> phase[m] \in Signed)
                               /\ Token(m)' = Token(m)
    BY <1>2 DEF Token
  <2> QED BY <2>1, <2>2 DEF Made
<1> QED BY <1>1, <1>4, <1>5, <1>6

LEMMA IssueStep ==
    ASSUME IInv, IInv', NEW l \in Logins, Upsert(l)
    PROVE  \E d \in Devices :
               /\ l \notin Ended /\ Made[l] # {} /\ Ended' = Ended \union {l}
               /\ \E opens \in SUBSET Made[l] : Accepted' = [Accepted EXCEPT ![d] = opens]
               /\ UNCHANGED <<now, Made>>
<1>1. PICK d \in Devices : d = device[l]
  BY UpsertWrites
<1>2. /\ sessions'[d].token = l
      /\ \A e \in Devices \ {d} : sessions'[e] = sessions[e]
      /\ phase[l] = "pruned" /\ phase' = [phase EXCEPT ![l] = "done"]
      /\ sid' = sid /\ second' = second /\ now' = now
  BY <1>1, UpsertWrites DEF Upsert
<1>3. \A m \in Logins : phase'[m] = IF m = l THEN "done" ELSE phase[m]
  BY <1>2 DEF IInv, TypeOK
<1>4. l \notin Ended /\ Ended' = Ended \union {l}
  BY <1>2, <1>3 DEF Ended
<1>5. Made' = Made /\ Made[l] = {Token(l)}
  BY <1>2, <1>3 DEF Made, Signed, Token
<1>6. \A e \in Devices \ {d} : Opening(e)' = Opening(e)
  BY <1>2, OpeningStays
<1>7. PICK opens \in SUBSET {Token(l)} : opens = Opening(d)'
  <2>1. Opening(d)' \subseteq {Token(l)'}
    BY <1>2 DEF Opening
  <2> QED BY <1>2, <2>1 DEF Token
<1>8. Accepted' = [Accepted EXCEPT ![d] = opens]
  BY <1>6, <1>7, AcceptedIs, AcceptedIsThen DEF IInv
<1> QED BY <1>2, <1>4, <1>5, <1>8

LEMMA PassStep ==
    ASSUME IInv, IInv', Tick
    PROVE  now' = now + 1 /\ UNCHANGED <<Made, Ended, Accepted>>
<1>1. now' = now + 1 /\ UNCHANGED <<sessions, phase, sid, second>>
  BY DEF Tick
<1>2. \A d \in Devices : Opening(d)' = Opening(d)
  BY <1>1, OpeningStays
<1>3. Accepted' = Accepted
  BY <1>2, AcceptedIs, AcceptedIsThen DEF IInv
<1>4. Made' = Made /\ Ended' = Ended
  BY <1>1 DEF Made, Ended, Token
<1> QED BY <1>1, <1>3, <1>4

LEMMA TokensStep ==
    ASSUME IInv, IInv', [Next]_vars
    PROVE  Promised!TokensNext
<1>1. CASE Tick
  BY <1>1, PassStep
     DEF Promised!TokensNext, Promised!Pass, Made, Ended, Accepted
<1>2. CASE \E l \in Logins : Sign(l)
  BY <1>2, MakeStep
     DEF Promised!TokensNext, Promised!Make, Made, Ended, Accepted
<1>3. CASE \E l \in Logins : Upsert(l)
  BY <1>3, IssueStep
     DEF Promised!TokensNext, Promised!Issue, Made, Ended, Accepted
<1>4. CASE \E l \in Logins : LoginFails(l)
  BY <1>4, FailStep
     DEF Promised!TokensNext, Promised!Fail, Made, Ended, Accepted
<1>5. CASE User \/ Revoke \/ UNCHANGED vars \/ \E m \in Logins : GoesOnly(m)
  BY <1>5, RefuseStep
     DEF Promised!TokensNext, Promised!Refuse, Made, Ended, Accepted
<1> QED BY <1>1, <1>2, <1>3, <1>4, <1>5 DEF Next, LogIn, GoesOnly

(***************************************************************************)
(* Sessions implement RefreshTokens: a device gets in with the token of    *)
(* its latest login at most, and a token that was refused stays so unless  *)
(* another login ends that made the very same one.                         *)
(***************************************************************************)
THEOREM TokensRefinement == Spec => ImplementsTokens
<1>1. Init => Promised!TokensInit
  BY DEF Init, Promised!TokensInit, Opens, Rows, Signed
<1>2. IInv /\ IInv' /\ [Next]_vars
        => [Promised!TokensNext]_<<now, Made, Ended, Accepted>>
  BY TokensStep
<1> QED
  BY <1>1, <1>2, Invariance, PTL
     DEF Spec, ImplementsTokens, Promised!TokensSpec, Made, Ended, Accepted

-----------------------------------------------------------------------------
-----------------------------------------------------------------------------
(***************************************************************************)
(* How many sessions there are.  Take the latest of the policies that let  *)
(* a login through which has written its session: of the rows it read it   *)
(* left MaxDevices, and what was written since is of logins that ran when  *)
(* it read, or whose policy failed.  Which that policy is changes when a   *)
(* login that read later writes, so the same must be known of each login   *)
(* past its policy.  The moment of a reading and the logins that ran then  *)
(* are no part of the state: the invariant says that there are such.       *)
(***************************************************************************)
Past == {l \in Logins : phase[l] \in {"pruning", "pruned"} /\ l \notin skipped}
OldRows(c) == {d \in Rows : sessions[d].used <= c}

\* What the policy of l leaves of the rows that it read.
Left(l, c) == {d \in OldRows(c) : d # device[l] /\ sessions[d].id \notin victims[l]}

\* The rows written since are of logins in W.
Since(c, W) ==
    \A d \in Rows : sessions[d].used > c /\ sessions[d].token \notin skipped
                      => sessions[d].token \in W

\* Rows and logins, each counted.
Counted ==
    /\ IsFiniteSet(Rows)
    /\ Cardinality(Running) <= peak
    /\ \A d \in Rows : sessions[d].used <= clock
    /\ \A d, e \in Rows : sessions[d].token = sessions[e].token => d = e
    /\ \A l \in Logins : phase[l] = "pruned" => victims[l] = {}

\* s and S are of the latest policy, at[l] and with[l] of that of l.
Readings(s, S, at, with) ==
    /\ s <= clock /\ \A l \in Logins : at[l] <= clock
    /\ Cardinality(S) <= peak /\ \A l \in Logins : Cardinality(with[l]) <= peak
    /\ \A m \in Logins : phase[m] = "new" => m \notin S /\ \A l \in Logins : m \notin with[l]
    /\ Since(s, S) /\ Cardinality(OldRows(s)) <= MaxDevices
    /\ \A l \in Past : l \in with[l]
    /\ \A l \in Past \ S :
          /\ Since(at[l], with[l]) /\ Cardinality(Left(l, at[l])) <= MaxDevices
          /\ S \intersect Running \subseteq with[l]
    /\ \A l, m \in Past : \/ with[l] \intersect Running \subseteq with[m]
                          \/ with[m] \intersect Running \subseteq with[l]

PoliciesRead ==
    \E s \in Nat, S \in SUBSET Logins, at \in [Logins -> Nat], with \in [Logins -> SUBSET Logins] :
        Readings(s, S, at, with)

CInv == IInv /\ Counted /\ PoliciesRead

LEMMA RowFields ==
    ASSUME TypeOK, NEW d \in Rows
    PROVE  /\ sessions[d] \in Session /\ sessions[d].id \in Logins
           /\ sessions[d].token \in Logins /\ sessions[d].used \in Nat
BY SessionFields DEF TypeOK, Rows

\* Strict inclusion has no infinite descent among the finite sets.
LEMMA SmallestSet ==
    ASSUME NEW P, IsFiniteSet(P), NEW F \in SUBSET SUBSET P, F # {}
    PROVE  \E A \in F : \A B \in F : B \subseteq A => B = A
<1>1. IsWellFoundedOn(StrictSubsetOrdering(P), FiniteSubsetsOf(P))
  BY FS_StrictSubsetOrderingWellFounded
<1>2. F \subseteq FiniteSubsetsOf(P)
  BY FS_Subset DEF FiniteSubsetsOf
<1>3. PICK A \in F : \A B \in F : ~(<<B, A>> \in StrictSubsetOrdering(P))
  BY <1>1, <1>2, WFMin
<1> QED
  BY <1>3 DEF StrictSubsetOrdering

\* All but at most k rows are among the n that were used least recently.
LEMMA OldestLeaves ==
    ASSUME TypeOK, NEW ds \in SUBSET Rows, IsFiniteSet(ds), NEW n \in Int, NEW k \in Nat,
           Cardinality(ds) <= n + k
    PROVE  IsFiniteSet(ds \ Oldest(ds, n)) /\ Cardinality(ds \ Oldest(ds, n)) <= k
<1> DEFINE Rest == ds \ Oldest(ds, n)
           Before(d) == {e \in ds : sessions[e].used < sessions[d].used}
           F == {Before(d) : d \in Rest}
<1>1. \A d \in ds : sessions[d].used \in Nat
  BY RowFields
<1>2. IsFiniteSet(Rest) /\ Cardinality(Rest) \in Nat
  BY FS_Subset, FS_CardinalityType
<1>3. \A d \in Rest : d \in ds /\ ~(Cardinality(Before(d)) < n)
  BY DEF Oldest
<1>4. CASE Rest = {}
  BY <1>2, <1>4, FS_EmptySet
<1>5. CASE Rest # {}
  <2>1. F \in SUBSET SUBSET ds /\ F # {}
    BY <1>5
  <2>2. PICK A \in F : \A B \in F : B \subseteq A => B = A
    <3> HIDE DEF F
    <3> QED
      BY <2>1, SmallestSet
  <2>3. PICK d \in Rest : A = Before(d)
    BY <2>2
  <2>4. ASSUME NEW e \in Rest, e \in Before(d) PROVE FALSE
    <3>1. e \in ds /\ d \in ds /\ sessions[e].used < sessions[d].used
      BY <1>3, <2>4
    <3>2. Before(e) \subseteq Before(d) /\ e \notin Before(e)
      BY <1>1, <3>1
    <3> QED
      BY <2>2, <2>3, <2>4, <3>2
  <2> DEFINE B == Before(d)
  <2>5. B \subseteq ds /\ Rest \subseteq ds /\ B \intersect Rest = {}
    BY <2>4
  <2>6. ~(Cardinality(B) < n)
    BY <1>3
  <2> HIDE DEF B, Rest
  <2>7. IsFiniteSet(B) /\ IsFiniteSet(Rest) /\ Cardinality(B) \in Nat
    BY <2>5, FS_Subset, FS_CardinalityType
  <2>8. Cardinality(B \union Rest) = Cardinality(B) + Cardinality(Rest)
    BY <1>2, <2>5, <2>7, FS_Union, FS_EmptySet
  <2>9. Cardinality(B \union Rest) <= Cardinality(ds) /\ Cardinality(ds) \in Nat
    BY <2>5, FS_Subset, FS_CardinalityType
  <2>10. Cardinality(Rest) <= k
    BY <1>2, <2>6, <2>7, <2>8, <2>9
  <2> QED
    BY <1>2, <2>10 DEF Rest
<1> QED
  BY <1>4, <1>5

LEMMA UnionBound ==
    ASSUME NEW A, NEW B, IsFiniteSet(A), IsFiniteSet(B)
    PROVE  IsFiniteSet(A \union B) /\ Cardinality(A \union B) <= Cardinality(A) + Cardinality(B)
<1>1. IsFiniteSet(A \intersect B) /\ Cardinality(A \intersect B) \in Nat
  BY FS_Subset, FS_CardinalityType
<1>2. Cardinality(A) \in Nat /\ Cardinality(B) \in Nat
  BY FS_CardinalityType
<1>3. /\ IsFiniteSet(A \union B)
      /\ Cardinality(A \union B) = Cardinality(A) + Cardinality(B) - Cardinality(A \intersect B)
  BY FS_Union
<1> QED
  BY <1>1, <1>2, <1>3

\* Rows are no more than the tokens in them.
LEMMA RowsByToken ==
    ASSUME CInv, NEW D \in SUBSET Rows, NEW W \in SUBSET Logins,
           \A d \in D : sessions[d].token \in W
    PROVE  Cardinality(D) <= Cardinality(W)
<1> DEFINE f == [d \in D |-> sessions[d].token]
<1>1. IsFiniteSet(W)
  BY LoginsAssumption, FS_Subset
<1>2. f \in Injection(D, W)
  <2>1. f \in [D -> W]
    OBVIOUS
  <2>2. \A d, e \in D : f[d] = f[e] => d = e
    BY DEF CInv, Counted
  <2> HIDE DEF f
  <2> QED
    BY <2>1, <2>2 DEF Injection, IsInjective
<1> QED
  BY <1>1, <1>2, FS_Injection

LEMMA BoundFollows == CInv => SessionsBounded
<1> SUFFICES ASSUME CInv PROVE SessionsBounded
  OBVIOUS
<1>1. PICK s \in Nat, S \in SUBSET Logins,
           at \in [Logins -> Nat], with \in [Logins -> SUBSET Logins] : Readings(s, S, at, with)
  BY DEF CInv, PoliciesRead
<1> DEFINE New == {d \in Rows : sessions[d].used > s /\ sessions[d].token \notin skipped}
           Unchecked == {d \in Rows : sessions[d].token \in skipped}
<1>2. TypeOK /\ skipped \in SUBSET Logins /\ peak \in Nat /\ IsFiniteSet(Rows)
  BY DEF CInv, IInv, TypeOK, Counted
<1>3. Rows = OldRows(s) \union (New \union Unchecked)
  BY <1>2, RowFields DEF OldRows
<1>4. /\ IsFiniteSet(OldRows(s)) /\ IsFiniteSet(New) /\ IsFiniteSet(Unchecked)
      /\ IsFiniteSet(S) /\ IsFiniteSet(skipped)
  BY <1>2, LoginsAssumption, FS_Subset DEF OldRows
<1>5. Cardinality(New) <= Cardinality(S) /\ Cardinality(Unchecked) <= Cardinality(skipped)
  BY <1>1, <1>2, RowsByToken DEF Readings, Since
<1>6. Cardinality(OldRows(s)) <= MaxDevices /\ Cardinality(S) <= peak
  BY <1>1 DEF Readings
<1> HIDE DEF New, Unchecked
<1>7. IsFiniteSet(New \union Unchecked)
      /\ Cardinality(New \union Unchecked) <= Cardinality(New) + Cardinality(Unchecked)
  BY <1>4, UnionBound
<1>8. Cardinality(Rows) <= Cardinality(OldRows(s)) + Cardinality(New \union Unchecked)
  BY <1>3, <1>4, <1>7, UnionBound
<1>9. /\ Cardinality(Rows) \in Nat /\ Cardinality(OldRows(s)) \in Nat /\ Cardinality(New) \in Nat
      /\ Cardinality(Unchecked) \in Nat /\ Cardinality(S) \in Nat /\ Cardinality(skipped) \in Nat
      /\ Cardinality(New \union Unchecked) \in Nat
  BY <1>2, <1>4, <1>7, FS_CardinalityType
<1>10. Cardinality(Rows) <= MaxDevices + peak + Cardinality(skipped)
  BY <1>2, <1>5, <1>6, <1>7, <1>8, <1>9, BoundsAssumption
<1> QED
  BY <1>10 DEF SessionsBounded

LEMMA SmallerSet ==
    ASSUME NEW B, IsFiniteSet(B), NEW A \in SUBSET B, NEW n \in Nat, Cardinality(B) <= n
    PROVE  Cardinality(A) <= n
BY FS_Subset, FS_CardinalityType

LEMMA LeftIsFinite ==
    ASSUME Counted, NEW c
    PROVE  IsFiniteSet(OldRows(c)) /\ \A l : IsFiniteSet(Left(l, c))
BY FS_Subset DEF Counted, OldRows, Left

\* Rows go, logins get ahead; those in X end, and are readers no more.
LEMMA ReadingsStay ==
    ASSUME CInv, RowsOnlyGo, clock' = clock, peak' \in Nat, peak <= peak',
           NEW X \in SUBSET Logins, X \intersect Running' = {}, Past' \subseteq Past,
           \A d \in Rows : /\ sessions[d].token \notin X
                           /\ sessions[d].token \in skipped => sessions[d].token \in skipped',
           \A m \in Running' : m \in Running \/ phase[m] = "new",
           \A m \in Logins : phase'[m] = "new" => phase[m] = "new" \/ m \in X,
           \A l \in Past', c \in Nat : Left(l, c)' \subseteq Left(l, c)
    PROVE  PoliciesRead'
<1>1. PICK s \in Nat, S \in SUBSET Logins,
           at \in [Logins -> Nat], with \in [Logins -> SUBSET Logins] : Readings(s, S, at, with)
  BY DEF CInv, PoliciesRead
<1> DEFINE T == S \ X
           w == [m \in Logins |-> with[m] \ X]
<1>2. /\ T \in SUBSET Logins /\ w \in [Logins -> SUBSET Logins]
      /\ T = S \ X /\ \A m \in Logins : w[m] = with[m] \ X
  OBVIOUS
<1> HIDE DEF T, w
<1>3. /\ Past' \subseteq Logins /\ Past' \subseteq Past /\ Past' \intersect X = {}
      /\ Running' \subseteq Logins
  BY DEF Past, Running, InFlight
<1>4. \A c \in Nat, W \in SUBSET Logins : Since(c, W) => Since(c, W \ X)'
  BY DEF Since, RowsOnlyGo
<1>5. peak \in Nat /\ Counted
  BY DEF CInv, IInv, TypeOK
<1>6. s <= clock' /\ \A l \in Logins : at[l] <= clock'
  BY <1>1 DEF Readings
<1>7. Cardinality(T) <= peak' /\ \A l \in Logins : Cardinality(w[l]) <= peak'
  <2>1. ASSUME NEW W \in SUBSET Logins, Cardinality(W) <= peak PROVE Cardinality(W \ X) <= peak'
    <3>1. IsFiniteSet(W)
      BY LoginsAssumption, FS_Subset
    <3>2. Cardinality(W) \in Nat
      BY <3>1, FS_CardinalityType
    <3> QED
      BY <1>5, <2>1, <3>1, <3>2, SmallerSet
  <2> QED
    BY <1>1, <1>2, <2>1 DEF Readings
<1>8. \A m \in Logins : phase'[m] = "new" => m \notin T /\ \A l \in Logins : m \notin w[l]
  BY <1>1, <1>2 DEF Readings
<1>9. Since(s, T)' /\ Cardinality(OldRows(s)') <= MaxDevices
  <2>1. OldRows(s)' \subseteq OldRows(s)
    BY DEF OldRows, RowsOnlyGo
  <2> QED
    BY <1>1, <1>2, <1>4, <1>5, <2>1, LeftIsFinite, SmallerSet, BoundsAssumption DEF Readings
<1>10. \A l \in Past' : l \in w[l]
  BY <1>1, <1>2, <1>3 DEF Readings
<1>11. ASSUME NEW l \in Past', l \notin T
       PROVE  /\ Since(at[l], w[l])' /\ Cardinality(Left(l, at[l])') <= MaxDevices
              /\ T \intersect Running' \subseteq w[l]
  <2>1. l \in Past \ S /\ l \in Logins
    BY <1>2, <1>3, <1>11
  <2>2. /\ Since(at[l], with[l]) /\ Cardinality(Left(l, at[l])) <= MaxDevices
        /\ S \intersect Running \subseteq with[l]
    BY <1>1, <2>1 DEF Readings
  <2>3. Left(l, at[l])' \subseteq Left(l, at[l])
    BY <2>1
  <2>4. Cardinality(Left(l, at[l])') <= MaxDevices
    BY <1>5, <2>2, <2>3, LeftIsFinite, SmallerSet, BoundsAssumption
  <2>5. Since(at[l], w[l])'
    BY <1>2, <1>4, <2>1, <2>2
  <2>6. T \intersect Running' \subseteq w[l]
    BY <1>1, <1>2, <1>3, <2>1, <2>2 DEF Readings
  <2> QED
    BY <2>4, <2>5, <2>6
<1>12. ASSUME NEW l \in Past', NEW m \in Past'
       PROVE  \/ w[l] \intersect Running' \subseteq w[m]
              \/ w[m] \intersect Running' \subseteq w[l]
  <2>1. l \in Past /\ m \in Past /\ l \in Logins /\ m \in Logins
    BY <1>3
  <2>2. \/ with[l] \intersect Running \subseteq with[m]
        \/ with[m] \intersect Running \subseteq with[l]
    BY <1>1, <2>1 DEF Readings
  <2>3. \A n \in Running' : n \in with[l] \/ n \in with[m] => n \in Running
    BY <1>1, <1>3, <2>1 DEF Readings
  <2> QED
    BY <1>2, <2>1, <2>2, <2>3
<1>13. Readings(s, T, at, w)'
  BY <1>6, <1>7, <1>8, <1>9, <1>10, <1>11, <1>12 DEF Readings
<1> QED
  BY <1>2, <1>13 DEF PoliciesRead

\* The counts, when rows go and no login starts.
LEMMA CountsStay ==
    ASSUME CInv, RowsOnlyGo, clock' = clock, peak' = peak, Running' \subseteq Running,
           \A l \in Logins : phase'[l] = "pruned" => victims'[l] = {}
    PROVE  Counted'
<1>1. peak \in Nat /\ Cardinality(Running) <= peak /\ IsFiniteSet(Rows)
  BY DEF CInv, IInv, TypeOK, Counted
<1>2. Rows' \subseteq Rows
  BY DEF RowsOnlyGo
<1>3. IsFiniteSet(Rows')
  BY <1>1, <1>2, FS_Subset
<1>4. Cardinality(Running') <= peak'
  BY <1>1, RunningIsFinite, SmallerSet
<1>5. \A d \in Rows' : sessions'[d].used <= clock'
  BY <1>2 DEF CInv, Counted, RowsOnlyGo
<1>6. \A d, e \in Rows' : sessions'[d].token = sessions'[e].token => d = e
  BY <1>2 DEF CInv, Counted, RowsOnlyGo
<1> QED
  BY <1>3, <1>4, <1>5, <1>6 DEF Counted

\* Steps that take rows away and leave the logins alone.
LEMMA LoginsRest ==
    ASSUME CInv, IInv', RowsOnlyGo,
           UNCHANGED <<phase, device, victims, skipped, peak, clock>>
    PROVE  CInv'
<1>1. /\ phase' = phase /\ device' = device /\ victims' = victims /\ skipped' = skipped
      /\ peak' = peak /\ clock' = clock
  OBVIOUS
<1>2. Running' = Running /\ Past' = Past
  BY <1>1 DEF Running, Past
<1>3. Counted'
  BY <1>1, <1>2, CountsStay DEF CInv, Counted
<1>4. \A l \in Past', c \in Nat : Left(l, c)' \subseteq Left(l, c)
  BY <1>1 DEF Left, OldRows, RowsOnlyGo
<1>5. PoliciesRead'
  <2>1. {} \in SUBSET Logins /\ peak' \in Nat /\ peak <= peak'
    BY <1>1 DEF CInv, IInv, TypeOK
  <2>2. /\ \A d \in Rows : /\ sessions[d].token \notin {}
                         /\ sessions[d].token \in skipped => sessions[d].token \in skipped'
        /\ \A m \in Running' : m \in Running \/ phase[m] = "new"
        /\ \A m \in Logins : phase'[m] = "new" => phase[m] = "new" \/ m \in {}
        /\ {} \intersect Running' = {} /\ Past' \subseteq Past
    BY <1>1, <1>2
  <2> QED
    BY <1>1, <1>4, <2>1, <2>2, ReadingsStay
<1> QED
  BY <1>3, <1>5 DEF CInv

LEMMA UserCounted ==
    ASSUME CInv, User
    PROVE  CInv'
<1>1. sessions' = [d \in Devices |-> None] /\ UNCHANGED <<loginVars, auxVars, clock>>
  BY DEF User, RemoveUser, ClearSessions
<1>2. RowsOnlyGo
  BY <1>1, EmptyingTakesRows DEF RowsOnlyGo
<1>3. IInv'
  BY UserKeeps DEF CInv
<1> QED
  BY <1>1, <1>2, <1>3, LoginsRest DEF loginVars, auxVars

LEMMA RevokeCounted ==
    ASSUME CInv, Revoke
    PROVE  CInv'
<1>1. UNCHANGED <<loginVars, auxVars, clock>>
  BY DEF Revoke, Guard, DeleteSessions, ExpireSession, SweepSelect, SweepDelete
<1>2. TypeOK /\ IInv /\ IInv'
  BY RevokeKeeps DEF CInv, IInv
<1>3. RowsOnlyGo
  <2>1. CASE UNCHANGED sessions
    BY <2>1 DEF RowsOnlyGo, Rows
  <2>2. ASSUME NEW ids, DeleteByIds(ids) PROVE RowsOnlyGo
    BY <1>2, <2>2, DeletionTakesRows
  <2>3. ASSUME NEW d \in Devices, ExpireSession(d) PROVE RowsOnlyGo
    BY <1>2, <2>3, ExpirySession
  <2>4. CASE \E r \in requests : DeleteSessions(r)
    BY <2>2, <2>4 DEF DeleteSessions
  <2>5. CASE SweepDelete
    BY <2>2, <2>5 DEF SweepDelete
  <2> QED
    BY <2>1, <2>3, <2>4, <2>5 DEF Revoke, Guard, SweepSelect
<1> QED
  BY <1>1, <1>2, <1>3, LoginsRest DEF loginVars, auxVars

LEMMA BeginCounted ==
    ASSUME CInv, NEW l \in Logins, NEW d \in Devices, Begin(l, d)
    PROVE  CInv'
<1>1. IInv' /\ TypeOK /\ peak \in Nat
  BY BeginKeeps DEF CInv, IInv, TypeOK
<1>2. /\ phase[l] = "new" /\ phase' = [phase EXCEPT ![l] = "checked"]
      /\ device' = [device EXCEPT ![l] = d]
      /\ peak' = IF Cardinality(Running) < peak THEN peak ELSE Cardinality(Running) + 1
      /\ UNCHANGED <<present, sessions, clock, sid, victims, requests, sweep, skipped>>
  BY DEF Begin
<1>3. /\ \A m \in Logins : phase'[m] = IF m = l THEN "checked" ELSE phase[m]
      /\ \A m \in Logins : m # l => device'[m] = device[m]
  BY <1>1, <1>2 DEF TypeOK
<1>4. Running' = Running \union {l} /\ l \notin Running
  BY <1>2, <1>3 DEF Running, InFlight
<1>5. Past' = Past /\ l \notin Past
  BY <1>2, <1>3 DEF Past
<1>6. RowsOnlyGo /\ Rows' = Rows
  BY <1>2 DEF RowsOnlyGo, Rows
<1>7. peak' \in Nat /\ peak <= peak' /\ Cardinality(Running') <= peak'
  <2>1. IsFiniteSet(Running) /\ Cardinality(Running) \in Nat /\ Cardinality(Running) <= peak
    BY RunningIsFinite DEF CInv, Counted
  <2>2. Cardinality(Running') = Cardinality(Running) + 1
    BY <1>4, <2>1, FS_AddElement
  <2> QED
    BY <1>1, <1>2, <2>1, <2>2
<1>8. Counted'
  BY <1>2, <1>3, <1>6, <1>7 DEF CInv, Counted
<1>9. \A m \in Past', c \in Nat : Left(m, c)' \subseteq Left(m, c)
  BY <1>2, <1>3, <1>5, <1>6 DEF Left, OldRows, Past
<1>10. PoliciesRead'
  <2>1. /\ \A e \in Rows : /\ sessions[e].token \notin {}
                           /\ sessions[e].token \in skipped => sessions[e].token \in skipped'
        /\ \A m \in Running' : m \in Running \/ phase[m] = "new"
        /\ \A m \in Logins : phase'[m] = "new" => phase[m] = "new" \/ m \in {}
        /\ {} \intersect Running' = {} /\ Past' \subseteq Past /\ {} \in SUBSET Logins
        /\ clock' = clock
    BY <1>2, <1>3, <1>4, <1>5
  <2> QED
    BY <1>6, <1>7, <1>9, <2>1, ReadingsStay
<1> QED
  BY <1>1, <1>8, <1>10 DEF CInv

\* A running login that stays so, or ends as a failure; in the latter case it
\* is in X.
LEMMA LoginGoesOn ==
    ASSUME CInv, IInv', NEW l \in Logins, phase[l] \in InFlight, RowsOnlyGo,
           UNCHANGED <<clock, peak>>, NEW X \in SUBSET {l},
           \A m \in Logins : m # l => /\ phase'[m] = phase[m] /\ device'[m] = device[m]
                                      /\ victims'[m] = victims[m]
                                      /\ m \in skipped' <=> m \in skipped,
           X = {} => phase'[l] \in InFlight, X # {} => phase'[l] = "new",
           phase'[l] = "pruned" => victims'[l] = {},
           l \in Past' => l \in Past,
           \A c \in Nat : l \in Past' => Left(l, c)' \subseteq Left(l, c)
    PROVE  CInv'
<1>1. TypeOK /\ peak \in Nat
  BY DEF CInv, IInv, TypeOK
<1>2. l \in Running /\ Running' \subseteq Running /\ X \intersect Running' = {}
  BY DEF Running, InFlight
<1>3. Past' \subseteq Past
  BY DEF Past
<1>4. Counted'
  BY <1>2, CountsStay DEF CInv, Counted
<1>5. \A d \in Rows : sessions[d].token \in Logins /\ sessions[d].token # l
  BY <1>1, RowFields DEF CInv, IInv, TokensAreDone, InFlight
<1>6. \A m \in Past', c \in Nat : Left(m, c)' \subseteq Left(m, c)
  <2>1. ASSUME NEW m \in Past', m # l, NEW c \in Nat PROVE Left(m, c)' \subseteq Left(m, c)
    BY <2>1 DEF Left, OldRows, RowsOnlyGo, Past
  <2> QED
    BY <2>1
<1>7. /\ \A d \in Rows : /\ sessions[d].token \notin X
                         /\ sessions[d].token \in skipped => sessions[d].token \in skipped'
      /\ \A m \in Running' : m \in Running \/ phase[m] = "new"
      /\ \A m \in Logins : phase'[m] = "new" => phase[m] = "new" \/ m \in X
      /\ X \in SUBSET Logins
  BY <1>2, <1>5 DEF InFlight
<1>8. PoliciesRead'
  BY <1>1, <1>2, <1>3, <1>6, <1>7, ReadingsStay
<1> QED
  BY <1>4, <1>8 DEF CInv

LEMMA LookUpCounted ==
    ASSUME CInv, NEW l \in Logins, LookUp(l)
    PROVE  CInv'
<1>1. IInv' /\ TypeOK
  BY LookUpKeeps DEF CInv, IInv
<1>2. /\ phase[l] = "checked" /\ phase' = [phase EXCEPT ![l] = "found"]
      /\ UNCHANGED <<present, sessions, clock, device, victims, requests, sweep, auxVars>>
  BY DEF LookUp
<1>3. \A m \in Logins : phase'[m] = IF m = l THEN "found" ELSE phase[m]
  BY <1>1, <1>2 DEF TypeOK
<1>4. RowsOnlyGo /\ l \notin Past'
  BY <1>2, <1>3 DEF RowsOnlyGo, Rows, Past
<1>5. /\ {} \in SUBSET {l} /\ skipped' = skipped /\ peak' = peak
      /\ phase[l] \in InFlight /\ phase'[l] \in InFlight /\ phase'[l] # "pruned"
  BY <1>2, <1>3 DEF InFlight, auxVars
<1> QED
  BY <1>1, <1>2, <1>3, <1>4, <1>5, LoginGoesOn

LEMMA SignCounted ==
    ASSUME CInv, NEW l \in Logins, Sign(l)
    PROVE  CInv'
<1>1. IInv' /\ TypeOK
  BY SignKeeps DEF CInv, IInv
<1>2. /\ phase[l] = "found" /\ phase' = [phase EXCEPT ![l] = "signed"]
      /\ UNCHANGED <<present, sessions, clock, device, victims, requests, sweep, auxVars>>
  BY DEF Sign
<1>3. \A m \in Logins : phase'[m] = IF m = l THEN "signed" ELSE phase[m]
  BY <1>1, <1>2 DEF TypeOK
<1>4. RowsOnlyGo /\ l \notin Past'
  BY <1>2, <1>3 DEF RowsOnlyGo, Rows, Past
<1>5. /\ {} \in SUBSET {l} /\ skipped' = skipped /\ peak' = peak
      /\ phase[l] \in InFlight /\ phase'[l] \in InFlight /\ phase'[l] # "pruned"
  BY <1>2, <1>3 DEF InFlight, auxVars
<1> QED
  BY <1>1, <1>2, <1>3, <1>4, <1>5, LoginGoesOn

LEMMA PolicyDeleteCounted ==
    ASSUME CInv, NEW l \in Logins, PolicyDelete(l)
    PROVE  CInv'
<1>1. IInv' /\ TypeOK
  BY PolicyKeeps DEF CInv, IInv
<1>2. /\ phase[l] = "pruning" /\ phase' = [phase EXCEPT ![l] = "pruned"]
      /\ DeleteByIds(victims[l]) /\ victims' = [victims EXCEPT ![l] = {}]
      /\ UNCHANGED <<present, clock, device, sid, requests, sweep, auxVars>>
  BY DEF PolicyDelete
<1>3. /\ \A m \in Logins : phase'[m] = IF m = l THEN "pruned" ELSE phase[m]
      /\ \A m \in Logins : victims'[m] = IF m = l THEN {} ELSE victims[m]
  BY <1>1, <1>2 DEF TypeOK
<1>4. RowsOnlyGo /\ \A d \in Rows' : sessions'[d] = sessions[d]
  BY <1>1, <1>2, DeletionTakesRows
<1>5. \A d \in Rows' : d \in Rows /\ sessions[d].id \notin victims[l]
  <2>1. sessions' = [d \in Devices |-> IF d \in Rows /\ sessions[d].id \in victims[l] THEN None
                                                                             ELSE sessions[d]]
    BY <1>2 DEF DeleteByIds
  <2> QED
    BY <2>1 DEF Rows
<1>6. \A c \in Nat : Left(l, c)' \subseteq Left(l, c)
  BY <1>2, <1>4, <1>5 DEF Left, OldRows
<1>7. l \in Past' => l \in Past
  BY <1>2 DEF Past, auxVars
<1> QED
  BY <1>1, <1>2, <1>3, <1>4, <1>6, <1>7, LoginGoesOn DEF InFlight, auxVars

LEMMA PolicyFailsCounted ==
    ASSUME CInv, NEW l \in Logins, PolicyFails(l)
    PROVE  CInv'
<1>1. IInv' /\ TypeOK
  BY PolicyKeeps DEF CInv, IInv
<1>2. /\ phase[l] \in {"signed", "pruning"} /\ phase' = [phase EXCEPT ![l] = "pruned"]
      /\ victims' = [victims EXCEPT ![l] = {}] /\ skipped' = skipped \union {l}
      /\ UNCHANGED <<present, sessions, clock, device, sid, requests, sweep, peak, overlapped>>
  BY DEF PolicyFails
<1>3. /\ \A m \in Logins : phase'[m] = IF m = l THEN "pruned" ELSE phase[m]
      /\ \A m \in Logins : victims'[m] = IF m = l THEN {} ELSE victims[m]
  BY <1>1, <1>2 DEF TypeOK
<1>4. RowsOnlyGo /\ l \notin Past'
  BY <1>2 DEF RowsOnlyGo, Rows, Past
<1> QED
  BY <1>1, <1>2, <1>3, <1>4, LoginGoesOn DEF InFlight

LEMMA LoginFailsCounted ==
    ASSUME CInv, NEW l \in Logins, LoginFails(l)
    PROVE  CInv'
<1>1. IInv' /\ TypeOK
  BY LoginFailsKeeps DEF CInv, IInv
<1>2. /\ phase[l] \in InFlight /\ phase' = [phase EXCEPT ![l] = "new"]
      /\ device' = [device EXCEPT ![l] = None] /\ victims' = [victims EXCEPT ![l] = {}]
      /\ skipped' = skipped \ {l}
      /\ UNCHANGED <<present, sessions, clock, requests, sweep, peak>>
  BY DEF LoginFails
<1>3. /\ \A m \in Logins : phase'[m] = IF m = l THEN "new" ELSE phase[m]
      /\ \A m \in Logins : victims'[m] = IF m = l THEN {} ELSE victims[m]
      /\ \A m \in Logins : m # l => device'[m] = device[m]
  BY <1>1, <1>2 DEF TypeOK
<1>4. RowsOnlyGo /\ l \notin Past'
  BY <1>2, <1>3 DEF RowsOnlyGo, Rows, Past
<1>5. {l} \in SUBSET {l} /\ {l} # {}
  OBVIOUS
<1> QED
  BY <1>1, <1>2, <1>3, <1>4, <1>5, LoginGoesOn DEF InFlight

\* The policy of l reads: its reading is the latest.
LEMMA PolicyReadCounted ==
    ASSUME CInv, NEW l \in Logins, PolicyRead(l)
    PROVE  CInv'
<1> DEFINE ds == Rows \ {device[l]}
           chosen == Oldest(ds, Excess)
           ids == {sessions[d].id : d \in chosen}
<1>1. IInv' /\ TypeOK /\ Counted /\ peak \in Nat /\ clock \in Nat
  BY PolicyKeeps DEF CInv, IInv, TypeOK
<1>2. /\ phase[l] = "signed" /\ victims' = [victims EXCEPT ![l] = ids]
      /\ phase' = [phase EXCEPT ![l] = IF Excess <= 0 THEN "pruned" ELSE "pruning"]
      /\ UNCHANGED <<present, sessions, clock, device, sid, requests, sweep, auxVars>>
  BY DEF PolicyRead
<1>3. /\ skipped' = skipped /\ peak' = peak /\ Rows' = Rows /\ RowsOnlyGo
      /\ \A c : OldRows(c)' = OldRows(c)
  BY <1>2 DEF auxVars, Rows, RowsOnlyGo, OldRows
<1>4. /\ \A m \in Logins : m # l => phase'[m] = phase[m] /\ victims'[m] = victims[m]
      /\ phase'[l] = IF Excess <= 0 THEN "pruned" ELSE "pruning"
      /\ victims'[l] = ids
  BY <1>1, <1>2 DEF TypeOK
<1>5. Running' = Running /\ l \in Running /\ l \notin Past /\ Past' \subseteq Past \union {l}
      /\ Running \in SUBSET Logins
  BY <1>2, <1>3, <1>4 DEF Running, InFlight, Past
<1>6. ds \in SUBSET Rows /\ IsFiniteSet(ds) /\ IsFiniteSet(Rows) /\ Excess \in Int
      /\ Cardinality(ds) <= Excess + MaxDevices
  <2>1. IsFiniteSet(Rows)
    BY <1>1 DEF Counted
  <2>2. IsFiniteSet(ds) /\ Cardinality(ds) <= Cardinality(Rows) /\ Cardinality(Rows) \in Nat
    BY <2>1, FS_Subset, FS_CardinalityType
  <2> QED
    BY <2>1, <2>2, FS_CardinalityType, BoundsAssumption DEF Excess
<1>7. IsFiniteSet(ds \ chosen) /\ Cardinality(ds \ chosen) <= MaxDevices
  <2> HIDE DEF ds
  <2> QED
    BY <1>1, <1>6, OldestLeaves, BoundsAssumption
<1>8. Left(l, clock)' \subseteq ds \ chosen
  BY <1>2, <1>3, <1>4 DEF Left, OldRows
<1>9. Excess <= 0 => ids = {}
  <2>1. \A d \in ds : Cardinality({e \in ds : sessions[e].used < sessions[d].used}) \in Nat
    BY <1>6, FS_Subset, FS_CardinalityType
  <2> HIDE DEF ds
  <2>2. Excess <= 0 => chosen = {}
    BY <1>6, <2>1 DEF Oldest
  <2> QED
    BY <2>2
<1> HIDE DEF ids, chosen, ds
<1>10. Counted'
  BY <1>1, <1>2, <1>3, <1>4, <1>5, <1>9 DEF Counted
<1>11. PICK s \in Nat, S \in SUBSET Logins,
           at \in [Logins -> Nat], with \in [Logins -> SUBSET Logins] : Readings(s, S, at, with)
  BY DEF CInv, PoliciesRead
<1>12. PICK a \in [Logins -> Nat], w \in [Logins -> SUBSET Logins] :
            /\ a[l] = clock /\ w[l] = Running
            /\ \A m \in Logins : m # l => a[m] = at[m] /\ w[m] = with[m]
  <2>1. PICK c \in Nat, R \in SUBSET Logins : c = clock /\ R = Running
    BY <1>1, <1>5
  <2>2. PICK a \in [Logins -> Nat], w \in [Logins -> SUBSET Logins] :
             a = [at EXCEPT ![l] = c] /\ w = [with EXCEPT ![l] = R]
    BY <2>1
  <2>3. /\ a[l] = c /\ w[l] = R
        /\ \A m \in Logins : m # l => a[m] = at[m] /\ w[m] = with[m]
    BY <2>2
  <2> QED
    BY <2>1, <2>3
<1>13. \A c, W : Since(c, W)' <=> Since(c, W)
  BY <1>2, <1>3 DEF Since
<1>14. /\ s <= clock' /\ \A m \in Logins : a[m] <= clock'
       /\ Cardinality(S) <= peak' /\ \A m \in Logins : Cardinality(w[m]) <= peak'
  BY <1>1, <1>2, <1>3, <1>11, <1>12 DEF Readings, Counted
<1>15. \A m \in Logins : phase'[m] = "new" => m \notin S /\ \A n \in Logins : m \notin w[n]
  BY <1>4, <1>11, <1>12 DEF Readings, Running, InFlight
<1>16. Since(s, S)' /\ Cardinality(OldRows(s)') <= MaxDevices
  BY <1>3, <1>11, <1>13 DEF Readings
<1>17. \A m \in Past' : m \in w[m]
  BY <1>5, <1>11, <1>12 DEF Readings, Past
<1>18. ASSUME NEW m \in Past', m \notin S
       PROVE  /\ Since(a[m], w[m])' /\ Cardinality(Left(m, a[m])') <= MaxDevices
              /\ S \intersect Running' \subseteq w[m]
  <2>1. CASE m = l
    <3>1. Since(clock, Running)
      BY <1>1, RowFields DEF Since, Counted
    <3>2. Cardinality(Left(l, clock)') <= MaxDevices
      BY <1>7, <1>8, SmallerSet, BoundsAssumption
    <3>3. a[m] = clock /\ w[m] = Running
      BY <1>12, <2>1
    <3>4. Since(a[m], w[m])'
      BY <1>13, <3>1, <3>3
    <3>5. Left(m, a[m])' = Left(l, clock)'
      BY <1>2, <2>1, <3>3 DEF Left, OldRows
    <3> QED
      BY <1>5, <2>1, <3>2, <3>3, <3>4, <3>5
  <2>2. CASE m # l
    <3>1. m \in Past \ S /\ m \in Logins
      BY <1>5, <1>18, <2>2 DEF Past
    <3>2. Left(m, at[m])' = Left(m, at[m])
      BY <1>2, <1>3, <1>4, <2>2, <3>1 DEF Left
    <3> QED
      BY <1>5, <1>11, <1>12, <1>13, <2>2, <3>1, <3>2 DEF Readings
  <2> QED
    BY <2>1, <2>2
<1>19. ASSUME NEW m \in Past', NEW n \in Past'
       PROVE  \/ w[m] \intersect Running' \subseteq w[n]
              \/ w[n] \intersect Running' \subseteq w[m]
  <2>1. m \in Logins /\ n \in Logins
    BY DEF Past
  <2>2. CASE m = l \/ n = l
    BY <1>5, <1>12, <2>2
  <2>3. CASE m # l /\ n # l
    <3>1. m \in Past /\ n \in Past
      BY <1>5, <2>3
    <3> QED
      BY <1>5, <1>11, <1>12, <2>1, <2>3, <3>1 DEF Readings
  <2> QED
    BY <2>2, <2>3
<1>20. Readings(s, S, a, w)'
  BY <1>14, <1>15, <1>16, <1>17, <1>18, <1>19 DEF Readings
<1>21. PoliciesRead'
  BY <1>12, <1>20 DEF PoliciesRead
<1> QED
  BY <1>1, <1>10, <1>21 DEF CInv

LEMMA UpsertCounted ==
    ASSUME CInv, NEW l \in Logins, Upsert(l)
    PROVE  CInv'
<1> DEFINE d == device[l]
<1>1. IInv' /\ TypeOK /\ Counted /\ peak \in Nat /\ clock \in Nat
  BY UpsertKeeps DEF CInv, IInv, TypeOK
<1>2. /\ phase[l] = "pruned" /\ phase' = [phase EXCEPT ![l] = "done"]
      /\ device' = [device EXCEPT ![l] = None] /\ clock' = clock + 1
      /\ UNCHANGED <<present, sid, second, now, victims, requests, sweep, auxVars>>
  BY DEF Upsert
<1>3. /\ d \in Devices /\ sessions'[d].token = l /\ sessions'[d].used = clock + 1
      /\ \A e \in Devices \ {d} : sessions'[e] = sessions[e]
      /\ sessions' \in [Devices -> Session \union {None}]
  BY UpsertWrites DEF CInv
<1>4. /\ \A m \in Logins : phase'[m] = IF m = l THEN "done" ELSE phase[m]
      /\ \A m \in Logins : m # l => device'[m] = device[m]
      /\ victims' = victims /\ skipped' = skipped /\ peak' = peak
  BY <1>1, <1>2 DEF TypeOK, auxVars
<1>5. Running' = Running \ {l} /\ l \in Running /\ Past' = Past \ {l} /\ Past \subseteq Running
      /\ Running \subseteq Logins /\ victims[l] = {} /\ (l \notin skipped => l \in Past)
  BY <1>1, <1>2, <1>4 DEF Running, InFlight, Past, Counted
<1> HIDE DEF d
<1>6. /\ Rows' \subseteq Rows \union {d}
      /\ \A e \in Rows' : e # d => e \in Rows /\ sessions'[e] = sessions[e]
  BY <1>3 DEF Rows
<1>7. \A e \in Rows : sessions[e].token \in Logins /\ sessions[e].token # l
                      /\ sessions[e].used \in Nat /\ sessions[e].used <= clock
  BY <1>1, <1>2, RowFields DEF CInv, IInv, TokensAreDone, Counted
<1>8. Counted'
  <2>1. IsFiniteSet(Rows \union {d})
    BY <1>1, FS_AddElement DEF Counted
  <2>2. IsFiniteSet(Rows')
    BY <1>6, <2>1, FS_Subset
  <2>3. Cardinality(Running') <= peak'
    BY <1>1, <1>4, <1>5, RunningIsFinite, SmallerSet DEF Counted
  <2>4. \A e \in Rows' : sessions'[e].used <= clock'
    BY <1>1, <1>2, <1>3, <1>6, <1>7
  <2>5. \A e, f \in Rows' : sessions'[e].token = sessions'[f].token => e = f
    BY <1>1, <1>3, <1>6, <1>7 DEF Counted
  <2>6. \A m \in Logins : phase'[m] = "pruned" => victims'[m] = {}
    BY <1>1, <1>4 DEF Counted
  <2> QED
    BY <2>2, <2>3, <2>4, <2>5, <2>6 DEF Counted
<1>9. ASSUME NEW c \in Nat, c <= clock PROVE OldRows(c)' \subseteq OldRows(c) \ {d}
  BY <1>1, <1>3, <1>6, <1>9 DEF OldRows
<1>10. ASSUME NEW c, NEW W, Since(c, W), l \in W \/ l \in skipped PROVE Since(c, W)'
  BY <1>3, <1>4, <1>6, <1>10 DEF Since
<1>11. PICK s \in Nat, S \in SUBSET Logins,
           at \in [Logins -> Nat], with \in [Logins -> SUBSET Logins] : Readings(s, S, at, with)
  BY DEF CInv, PoliciesRead
<1>12. \A m \in Past', c \in Nat : c <= clock => Left(m, c)' \subseteq Left(m, c)
  <2> SUFFICES ASSUME NEW m \in Past', NEW c \in Nat, c <= clock
               PROVE  Left(m, c)' \subseteq Left(m, c)
    OBVIOUS
  <2>1. m \in Logins /\ m # l
    BY <1>5
  <2> QED
    BY <1>4, <1>6, <1>9, <2>1 DEF Left, OldRows
<1>13. ASSUME NEW n \in Nat, NEW T \in SUBSET Logins, n <= clock, Cardinality(T) <= peak,
              \A m \in Logins : phase[m] = "new" => m \notin T,
              l \in T \/ l \in skipped,
              Since(n, T), Cardinality(OldRows(n)') <= MaxDevices,
              \A m \in Past' \ T : m \notin S /\ T \intersect Running \subseteq with[m]
       PROVE  PoliciesRead'
  <2>1. /\ n <= clock' /\ \A m \in Logins : at[m] <= clock'
        /\ Cardinality(T) <= peak' /\ \A m \in Logins : Cardinality(with[m]) <= peak'
    BY <1>1, <1>2, <1>4, <1>11, <1>13 DEF Readings
  <2>2. \A m \in Logins : phase'[m] = "new" => m \notin T /\ \A k \in Logins : m \notin with[k]
    BY <1>4, <1>11, <1>13 DEF Readings
  <2>3. Since(n, T)'
    BY <1>10, <1>13
  <2>4. \A m \in Past' : m \in with[m]
    BY <1>5, <1>11 DEF Readings
  <2>5. ASSUME NEW m \in Past', m \notin T
        PROVE  /\ Since(at[m], with[m])' /\ Cardinality(Left(m, at[m])') <= MaxDevices
               /\ T \intersect Running' \subseteq with[m]
    <3>1. m \in Past \ S /\ m \in Logins /\ T \intersect Running \subseteq with[m]
      BY <1>5, <1>13, <2>5
    <3>2. Since(at[m], with[m]) /\ Cardinality(Left(m, at[m])) <= MaxDevices /\ at[m] <= clock
      BY <1>11, <3>1 DEF Readings
    <3>3. l \in with[m] \/ l \in skipped
      BY <1>5, <1>13, <3>1
    <3>4. Since(at[m], with[m])'
      BY <1>10, <3>2, <3>3
    <3>5. Left(m, at[m])' \subseteq Left(m, at[m])
      BY <1>12, <3>1, <3>2
    <3>6. Cardinality(Left(m, at[m])') <= MaxDevices
      BY <1>1, <3>2, <3>5, LeftIsFinite, SmallerSet, BoundsAssumption
    <3> QED
      BY <1>5, <3>1, <3>4, <3>6
  <2>6. \A m, k \in Past' : \/ with[m] \intersect Running' \subseteq with[k]
                            \/ with[k] \intersect Running' \subseteq with[m]
    BY <1>5, <1>11 DEF Readings
  <2>7. Readings(n, T, at, with)'
    BY <1>13, <2>1, <2>2, <2>3, <2>4, <2>5, <2>6 DEF Readings
  <2> QED
    BY <2>7 DEF PoliciesRead
\* It read before the latest, or was not checked: the latest stays the latest.
<1>14. CASE l \in S \/ l \in skipped
  <2>1. OldRows(s)' \subseteq OldRows(s)
    BY <1>9, <1>11 DEF Readings
  <2>2. Cardinality(OldRows(s)') <= MaxDevices
    BY <1>1, <1>11, <2>1, LeftIsFinite, SmallerSet, BoundsAssumption DEF Readings
  <2>3. \A m \in Past' \ S : m \notin S /\ S \intersect Running \subseteq with[m]
    BY <1>5, <1>11 DEF Readings
  <2>4. PoliciesRead'
    BY <1>11, <1>13, <1>14, <2>2, <2>3 DEF Readings
  <2> QED
    BY <1>1, <1>8, <2>4 DEF CInv
\* It read later: its own reading becomes the latest.
<1>15. CASE l \notin S /\ l \notin skipped
  <2>1. l \in Past \ S
    BY <1>5, <1>15
  <2>2. /\ Since(at[l], with[l]) /\ Cardinality(Left(l, at[l])) <= MaxDevices
        /\ S \intersect Running \subseteq with[l] /\ l \in with[l] /\ at[l] <= clock
        /\ Cardinality(with[l]) <= peak
        /\ \A m \in Logins : phase[m] = "new" => m \notin with[l]
    BY <1>11, <2>1 DEF Readings
  <2>3. OldRows(at[l])' \subseteq Left(l, at[l])
    BY <1>5, <1>9, <2>2 DEF Left, d
  <2>4. Cardinality(OldRows(at[l])') <= MaxDevices
    BY <1>1, <2>2, <2>3, LeftIsFinite, SmallerSet, BoundsAssumption
  <2>5. ASSUME NEW m \in Past' \ with[l]
        PROVE  m \notin S /\ with[l] \intersect Running \subseteq with[m]
    <3>1. m \in Past /\ m \in Running
      BY <1>5
    <3>2. m \in with[m]
      BY <1>11, <3>1 DEF Readings
    <3>3. \/ with[l] \intersect Running \subseteq with[m]
          \/ with[m] \intersect Running \subseteq with[l]
      BY <1>11, <2>1, <3>1 DEF Readings
    <3> QED
      BY <2>2, <3>1, <3>2, <3>3
  <2>6. with[l] \in SUBSET Logins /\ at[l] \in Nat
    OBVIOUS
  <2>7. PoliciesRead'
    BY <1>13, <2>2, <2>4, <2>5, <2>6
  <2> QED
    BY <1>1, <1>8, <2>7 DEF CInv
<1> QED
  BY <1>14, <1>15

LEMMA InitiallyCounted == Init => CInv
<1> SUFFICES ASSUME Init PROVE CInv
  OBVIOUS
<1>1. Rows = {} /\ Running = {} /\ Past = {} /\ peak = 0 /\ clock = 0
  BY DEF Init, Rows, Running, Past, InFlight
<1>2. Counted
  BY <1>1, FS_EmptySet DEF Init, Counted
<1> DEFINE at == [l \in Logins |-> 0]
           with == [l \in Logins |-> {}]
<1>3. /\ at \in [Logins -> Nat] /\ with \in [Logins -> SUBSET Logins]
      /\ \A l \in Logins : at[l] = 0 /\ with[l] = {}
  OBVIOUS
<1> HIDE DEF at, with
<1>4. OldRows(0) = {} /\ Since(0, {})
  BY <1>1 DEF OldRows, Since
<1>5. Readings(0, {}, at, with)
  BY <1>1, <1>3, <1>4, FS_EmptySet, BoundsAssumption DEF Readings
<1>6. PoliciesRead
  <2>1. 0 \in Nat /\ {} \in SUBSET Logins
    OBVIOUS
  <2> QED
    BY <1>3, <1>5, <2>1 DEF PoliciesRead
<1> QED
  BY <1>2, <1>6, InitIInv DEF CInv

\* For any number of devices and logins, whatever they do at once: at most
\* MaxDevices sessions, and one more for each login that ran at a time or whose
\* policy failed.
THEOREM DeviceLimit == Spec => []SessionsBounded
<1>1. Init => CInv
  BY InitiallyCounted
<1>2. CInv /\ [Next]_vars => CInv'
  <2> SUFFICES ASSUME CInv, [Next]_vars PROVE CInv'
    OBVIOUS
  <2>1. CASE User
    BY <2>1, UserCounted
  <2>2. CASE LogIn
    <3> PICK l \in Logins :
            \/ \E d \in Devices : Begin(l, d)
            \/ LookUp(l) \/ Sign(l) \/ PolicyRead(l) \/ PolicyDelete(l) \/ PolicyFails(l)
            \/ Upsert(l) \/ LoginFails(l)
      BY <2>2 DEF LogIn
    <3> QED
      BY BeginCounted, LookUpCounted, SignCounted, PolicyReadCounted, PolicyDeleteCounted,
         PolicyFailsCounted, UpsertCounted, LoginFailsCounted
  <2>3. CASE Revoke
    BY <2>3, RevokeCounted
  <2>4. CASE Tick
    <3>1. UNCHANGED <<phase, device, victims, skipped, peak, clock, sessions>>
      BY <2>4 DEF Tick, auxVars
    <3>2. RowsOnlyGo
      BY <3>1 DEF RowsOnlyGo, Rows
    <3>3. IInv'
      BY <2>4, TickKeeps DEF CInv
    <3> QED
      BY <3>1, <3>2, <3>3, LoginsRest
  <2>5. CASE UNCHANGED vars
    <3>1. UNCHANGED <<phase, device, victims, skipped, peak, clock, sessions>>
      BY <2>5 DEF vars
    <3>2. RowsOnlyGo
      BY <3>1 DEF RowsOnlyGo, Rows
    <3>3. IInv'
      BY <2>5, StutterKeeps DEF CInv
    <3> QED
      BY <3>1, <3>2, <3>3, LoginsRest
  <2> QED
    BY <2>1, <2>2, <2>3, <2>4, <2>5 DEF Next
<1> QED
  BY <1>1, <1>2, BoundFollows, PTL DEF Spec

-----------------------------------------------------------------------------
(***************************************************************************)
(* Accounts                                                                *)
(***************************************************************************)
\* What a request has read is there when the step it is at needs it.
Fits(q) ==
    /\ q \in RequestState
    /\ q.step \notin {"register", "adminCreate", "signUp"} => q.user \in Users
    /\ q.step \in {"mail", "apply", "endSessions", "deleteLink"} => q.token \in Tokens
    /\ q.step \in {"signUp", "attach"} => q.profile \in Profiles

RequestsType ==
    /\ request \in [Requests -> RequestState \union {Nothing}]
    /\ \A r \in Requests : request[r] # Nothing => Fits(request[r])

RowsType ==
    /\ users \in [Users -> Account \union {Nothing}]
    /\ used \in SUBSET Users /\ signedIn \in SUBSET Users
    /\ unverified \in SUBSET Users /\ stale \in SUBSET Users
    /\ open \in [Users -> Seq(Tracked)] /\ \A u \in Users : Len(open[u]) <= MaxOpen
    /\ linked \in [Profiles -> Users \union {Nothing}]

\* Ids are given once, and to one account at a time.
OneAlive == Alive \subseteq used /\ \A u, v \in Alive : u = v

\* Nothing belongs to an account that is gone.
OfTheLiving ==
    /\ \A p \in Profiles : linked[p] \in Alive \union {Nothing}
    /\ signedIn \subseteq Alive
    /\ \A u \in Users \ Alive : open[u] = <<>>

RowsInv == RowsType /\ OneAlive /\ OfTheLiving /\ PeriodsFollowRoles

LinksType == links \in [Tokens -> Link \union {Nothing}] /\ issued \in SUBSET Tokens
LinksInv == LinksType /\ SpentLinksGo

\* A job that is not failed has an attempt left.
TriesLeft == \A k \in Kinds : job[k] # Nothing /\ job[k].state # "failed" => job[k].tries < Attempts
MailInv ==
    /\ job \in [Kinds -> Job \union {Nothing}]
    /\ TriesLeft /\ DeadAfterAllTries

AccountsInv == RequestsType /\ RowsInv /\ LinksInv /\ MailInv

-----------------------------------------------------------------------------
(* Requests *)

LEMMA RequestFields ==
    ASSUME NEW q \in RequestState
    PROVE  /\ q.step \in Steps /\ q.user \in Users \union {Nothing}
           /\ q.token \in Tokens \union {Nothing}
           /\ q.profile \in Profiles \union {Nothing} /\ q.kind \in Kinds
           /\ q.was \in Roles /\ q.role \in Roles /\ q.flag \in BOOLEAN /\ q.late \in BOOLEAN
           /\ q # Nothing
BY NothingAssumption DEF RequestState

LEMMA BlankFields ==
    /\ Blank \in RequestState /\ Blank.step = "register"
    /\ Blank.token = Nothing /\ Blank.kind = "verify"
BY DEF RequestState, Blank, Steps, Kinds, Roles, Tracked

\* A request that goes on.
LEMMA GoesOn ==
    ASSUME RequestsType, NEW r \in Requests, NEW what, Fits(what), Goto(r, what)
    PROVE  /\ RequestsType' /\ request'[r] = what
           /\ \A q \in Requests : q # r => request'[q] = request[q]
BY DEF RequestsType, Goto, Fits

LEMMA Ends ==
    ASSUME RequestsType, NEW r \in Requests, End(r)
    PROVE  /\ RequestsType' /\ request'[r] = Nothing
           /\ \A q \in Requests : q # r => request'[q] = request[q]
BY DEF RequestsType, End, Fits

\* The request is about to delete the link.
Deletes(r, t) ==
    /\ request[r] # Nothing
    /\ request[r].step \in {"endSessions", "deleteLink"}
    /\ request[r].token = t
Spent(t) == links[t] # Nothing /\ links[t].used /\ ~links[t].cut

LEMMA SpentLinks == SpentLinksGo <=> \A t \in Tokens : Spent(t) => \E r \in Requests : Deletes(r, t)
BY DEF SpentLinksGo, Spent, Deletes, Live, At

\* A spent link is deleted by the same request as before or by that of the step.
LEMMA SpentAsBefore ==
    ASSUME SpentLinksGo, NEW r \in Requests,
           \A q \in Requests : q # r => request'[q] = request[q],
           \A t \in Tokens : Spent(t)' => Deletes(r, t)' \/ (Spent(t) /\ ~Deletes(r, t))
    PROVE  SpentLinksGo'
<1>1. \A t \in Tokens : Spent(t) => \E q \in Requests : Deletes(q, t)
  BY SpentLinks
<1>2. \A t \in Tokens, q \in Requests : q # r => (Deletes(q, t)' <=> Deletes(q, t))
  BY DEF Deletes
<1>3. \A t \in Tokens : Spent(t)' => \E q \in Requests : Deletes(q, t)'
  BY <1>1, <1>2
<1> QED
  BY <1>3 DEF SpentLinksGo, Spent, Deletes, Live, At

LEMMA LinksAsBefore ==
    ASSUME LinksInv, NEW r \in Requests, UNCHANGED linkVars,
           \A q \in Requests : q # r => request'[q] = request[q],
           \A t \in Tokens : Deletes(r, t) => Deletes(r, t)'
    PROVE  LinksInv'
<1>1. \A t \in Tokens : Spent(t)' <=> Spent(t)
  BY DEF linkVars, Spent
<1>2. SpentLinksGo'
  BY <1>1, SpentAsBefore DEF LinksInv
<1> QED
  BY <1>2 DEF LinksInv, LinksType, linkVars

LEMMA RowsAlone == ASSUME RowsInv, UNCHANGED <<rowVars, unverified, stale>> PROVE RowsInv'
BY DEF RowsInv, RowsType, OneAlive, OfTheLiving, PeriodsFollowRoles, Alive, Exists, rowVars

LEMMA LinksAlone == ASSUME LinksInv, UNCHANGED <<linkVars, request>> PROVE LinksInv'
BY DEF LinksInv, LinksType, SpentLinksGo, Live, At, linkVars

LEMMA MailAlone == ASSUME MailInv, UNCHANGED mailVars PROVE MailInv'
BY DEF MailInv, TriesLeft, DeadAfterAllTries, mailVars

LEMMA RequestsAlone == ASSUME RequestsType, UNCHANGED request PROVE RequestsType'
BY DEF RequestsType, Fits

-----------------------------------------------------------------------------
(* Reading *)

LEMMA StartKeeps ==
    ASSUME AccountsInv, NEW r \in Requests, NEW what, Fits(what), Start(r, what),
           UNCHANGED <<rowVars, linkVars, mailVars, unverified, stale>>
    PROVE  AccountsInv'
<1> USE DEF AccountsInv
<1>1. Goto(r, what) /\ request[r] = Nothing
  BY DEF Start, Goto
<1>2. /\ RequestsType' /\ request'[r] = what
      /\ \A q \in Requests : q # r => request'[q] = request[q]
  BY <1>1, GoesOn
<1>3. LinksInv'
  BY <1>1, <1>2, LinksAsBefore DEF Deletes
<1>4. RowsInv' /\ MailInv'
  BY RowsAlone, MailAlone
<1> QED
  BY <1>2, <1>3, <1>4

LEMMA ReadKeeps ==
    ASSUME AccountsInv, NEW r \in Requests, Read(r)
    PROVE  AccountsInv'
<1>1. UNCHANGED <<rowVars, linkVars, mailVars, unverified, stale>>
  BY DEF Read
<1> USE DEF Fits, RequestState, Blank, Steps, Kinds, Roles, Tracked
<1>2. CASE Register(r)
  <2>1. Fits(Blank)
    OBVIOUS
  <2> QED
    BY <1>1, <1>2, <2>1, StartKeeps DEF Register
<1>3. ASSUME NEW role \in Roles, CreateUserByAdmin(r, role) PROVE AccountsInv'
  <2>1. Fits([Blank EXCEPT !.step = "adminCreate", !.role = role])
    OBVIOUS
  <2> QED
    BY <1>1, <1>3, <2>1, StartKeeps DEF CreateUserByAdmin
<1>4. CASE ResendEmailVerification(r)
  <2>1. PICK u \in Alive : Start(r, [Blank EXCEPT !.step = "link", !.user = u, !.kind = "verify"])
    BY <1>4 DEF ResendEmailVerification
  <2>2. Fits([Blank EXCEPT !.step = "link", !.user = u, !.kind = "verify"])
    BY <2>1 DEF Alive
  <2> QED
    BY <1>1, <2>1, <2>2, StartKeeps
<1>5. CASE ResendPasswordReset(r)
  <2>1. PICK u \in Alive : Start(r, [Blank EXCEPT !.step = "link", !.user = u, !.kind = "reset"])
    BY <1>5 DEF ResendPasswordReset
  <2>2. Fits([Blank EXCEPT !.step = "link", !.user = u, !.kind = "reset"])
    BY <2>1 DEF Alive
  <2> QED
    BY <1>1, <2>1, <2>2, StartKeeps
<1>6. ASSUME NEW t \in Tokens, FollowLink(r, t) PROVE AccountsInv'
  <2>1. PICK l \in Link : l = links[t]
    BY <1>6 DEF FollowLink, Live, AccountsInv, LinksInv, LinksType
  <2>2. Start(r, [Blank EXCEPT !.step = "apply", !.user = l.user, !.kind = l.kind, !.token = t])
    BY <1>6, <2>1 DEF FollowLink
  <2>3. l.user \in Users /\ l.kind \in Kinds
    BY <2>1 DEF Link
  <2>4. Fits([Blank EXCEPT !.step = "apply", !.user = l.user, !.kind = l.kind, !.token = t])
    BY <2>3
  <2> QED
    BY <1>1, <2>2, <2>4, StartKeeps
<1>7. ASSUME NEW u \in Users, Login(r, u) PROVE AccountsInv'
  <2>1. Fits([Blank EXCEPT !.step = "session", !.user = u])
    OBVIOUS
  <2> QED
    BY <1>1, <1>7, <2>1, StartKeeps DEF Login
<1>8. ASSUME NEW u \in Users, UpdateStatus(r, u) PROVE AccountsInv'
  <2>1. PICK b \in BOOLEAN : b = ~users[u].active
    OBVIOUS
  <2>2. Start(r, [Blank EXCEPT !.step = "toggle", !.user = u, !.flag = b])
    BY <1>8, <2>1 DEF UpdateStatus
  <2>3. Fits([Blank EXCEPT !.step = "toggle", !.user = u, !.flag = b])
    BY <2>1
  <2> QED
    BY <1>1, <2>2, <2>3, StartKeeps
<1>9. ASSUME NEW u \in Users, NEW role \in Roles, ChangeRoles(r, u, role) PROVE AccountsInv'
  <2>1. PICK w \in Roles : w = users[u].role
    BY <1>9 DEF ChangeRoles, Exists, AccountsInv, RowsInv, RowsType, Account
  <2>2. Start(r, [Blank EXCEPT !.step = "changeRole", !.user = u, !.was = w, !.role = role])
    BY <1>9, <2>1 DEF ChangeRoles
  <2>3. Fits([Blank EXCEPT !.step = "changeRole", !.user = u, !.was = w, !.role = role])
    BY <2>1
  <2> QED
    BY <1>1, <2>2, <2>3, StartKeeps
<1>10. ASSUME NEW p \in Profiles, NEW b \in BOOLEAN, HandleCallback(r, p, b) PROVE AccountsInv'
  <2>1. \/ \E u \in Users : Start(r, [Blank EXCEPT !.step = "session", !.user = u])
        \/ \E u \in Users : Start(r, [Blank EXCEPT !.step = "attach", !.user = u, !.profile = p])
        \/ Start(r, [Blank EXCEPT !.step = "signUp", !.profile = p, !.flag = b])
    BY <1>10 DEF HandleCallback, Alive
  <2>2. ASSUME NEW u \in Users, Start(r, [Blank EXCEPT !.step = "session", !.user = u])
        PROVE  AccountsInv'
    <3>1. Fits([Blank EXCEPT !.step = "session", !.user = u])
      OBVIOUS
    <3> QED
      BY <1>1, <2>2, <3>1, StartKeeps
  <2>3. ASSUME NEW u \in Users,
               Start(r, [Blank EXCEPT !.step = "attach", !.user = u, !.profile = p])
        PROVE  AccountsInv'
    <3>1. Fits([Blank EXCEPT !.step = "attach", !.user = u, !.profile = p])
      OBVIOUS
    <3> QED
      BY <1>1, <2>3, <3>1, StartKeeps
  <2>4. CASE Start(r, [Blank EXCEPT !.step = "signUp", !.profile = p, !.flag = b])
    <3>1. Fits([Blank EXCEPT !.step = "signUp", !.profile = p, !.flag = b])
      OBVIOUS
    <3> QED
      BY <1>1, <2>4, <3>1, StartKeeps
  <2> QED
    BY <2>1, <2>2, <2>3, <2>4
<1> QED
  BY <1>2, <1>3, <1>4, <1>5, <1>6, <1>7, <1>8, <1>9, <1>10
     DEF Read, ByPassword, ByLink, ByProvider, ByAdmin

-----------------------------------------------------------------------------
(* The rows *)

\* What belongs to the accounts changes; the accounts do not.
LEMMA BelongingsChange ==
    ASSUME RowsInv, UNCHANGED <<users, used, open, stale>>,
           linked' \in [Profiles -> Users \union {Nothing}],
           \A p \in Profiles : linked'[p] \in Alive \union {Nothing},
           signedIn' \subseteq Alive, unverified' \subseteq Users
    PROVE  RowsInv'
<1>1. Alive' = Alive
  BY DEF Alive, Exists
<1>2. RowsType'
  BY DEF RowsInv, RowsType, Alive
<1>3. OneAlive' /\ OfTheLiving'
  BY <1>1 DEF RowsInv, OneAlive, OfTheLiving
<1>4. PeriodsFollowRoles'
  BY <1>1 DEF RowsInv, PeriodsFollowRoles
<1> QED
  BY <1>2, <1>3, <1>4 DEF RowsInv

\* A row is written anew, of the same role.
LEMMA RowChanges ==
    ASSUME RowsInv, NEW u \in Users, Exists(u), NEW row \in Account, row.role = users[u].role,
           users' = [users EXCEPT ![u] = row],
           UNCHANGED <<used, open, linked, signedIn, unverified, stale>>
    PROVE  RowsInv'
<1>1. row # Nothing /\ users \in [Users -> Account \union {Nothing}]
  BY NothingAssumption DEF RowsInv, RowsType
<1>2. Alive' = Alive
  BY <1>1 DEF Alive, Exists
<1>3. RowsType'
  BY <1>1 DEF RowsInv, RowsType
<1>4. OneAlive' /\ OfTheLiving'
  BY <1>2 DEF RowsInv, OneAlive, OfTheLiving
<1>5. \A v \in Alive : users'[v].role = users[v].role
  BY <1>1 DEF Alive
<1>6. PeriodsFollowRoles'
  BY <1>2, <1>5 DEF RowsInv, PeriodsFollowRoles
<1> QED
  BY <1>3, <1>4, <1>6 DEF RowsInv

\* The first row of an address without one.
LEMMA RowAppears ==
    ASSUME RowsInv, Alive = {}, NEW u \in Users \ used, NEW row \in Account,
           users' = [users EXCEPT ![u] = row], used' = used \union {u},
           open' \in [Users -> Seq(Tracked)],
           open'[u] = IF row.role \in Tracked THEN <<row.role>> ELSE <<>>,
           \A v \in Users : v # u => open'[v] = open[v],
           linked' \in [Profiles -> Users \union {Nothing}],
           \A p \in Profiles : linked'[p] \in {u, Nothing},
           UNCHANGED <<signedIn, unverified, stale>>
    PROVE  RowsInv'
<1>1. row # Nothing /\ users \in [Users -> Account \union {Nothing}] /\ used \in SUBSET Users
  BY NothingAssumption DEF RowsInv, RowsType
<1>2. Alive' = {u}
  BY <1>1 DEF Alive, Exists
<1>3. Len(open'[u]) <= MaxOpen
  BY MaxOpenAssumption
<1>4. \A v \in Users : Len(open'[v]) <= MaxOpen
  BY <1>3 DEF RowsInv, RowsType
<1>5. RowsType'
  BY <1>1, <1>4 DEF RowsInv, RowsType
<1>6. OneAlive'
  BY <1>1, <1>2 DEF OneAlive
<1>7. OfTheLiving'
  BY <1>2 DEF RowsInv, OfTheLiving
<1>8. users'[u].role = row.role
  BY <1>1
<1>9. PeriodsFollowRoles'
  BY <1>2, <1>8 DEF PeriodsFollowRoles
<1> QED
  BY <1>5, <1>6, <1>7, <1>9 DEF RowsInv

LEMMA DeleteKeepsRows ==
    ASSUME RowsInv, NEW gone \in SUBSET Users, Delete(gone), unverified' \subseteq Users
    PROVE  RowsInv'
<1> USE DEF RowsInv, RowsType
<1>1. users' = [u \in Users |-> IF u \in gone THEN Nothing ELSE users[u]]
  BY DEF Delete
<1>2. Alive' = Alive \ gone
  BY <1>1 DEF Alive, Exists
<1>3. open' = [u \in Users |-> IF u \in gone THEN <<>> ELSE open[u]]
  BY DEF Delete
<1>4. open' \in [Users -> Seq(Tracked)] /\ \A u \in Users : Len(open'[u]) <= MaxOpen
  BY <1>3, MaxOpenAssumption
<1>5. RowsType'
  BY <1>4 DEF Delete
<1>6. OneAlive'
  BY <1>2 DEF OneAlive, Delete
<1>7. OfTheLiving'
  BY <1>2, <1>3 DEF OfTheLiving, Delete, Alive
<1>8. PeriodsFollowRoles'
  <2>1. stale' = stale \ gone
    BY DEF Delete
  <2>2. \A u \in Alive' \ stale' : u \in Alive \ stale /\ users'[u] = users[u] /\ open'[u] = open[u]
    BY <1>1, <1>2, <1>3, <2>1 DEF Alive
  <2> QED
    BY <2>2 DEF PeriodsFollowRoles
<1> QED
  BY <1>5, <1>6, <1>7, <1>8

-----------------------------------------------------------------------------
(* Writing *)

\* A step of a request that deletes no link.
LEMMA NotDeleting ==
    ASSUME LinksInv, NEW r \in Requests, UNCHANGED linkVars,
           request[r].step \notin {"endSessions", "deleteLink"},
           \A q \in Requests : q # r => request'[q] = request[q]
    PROVE  LinksInv'
BY LinksAsBefore DEF Deletes

LEMMA Inserted ==
    ASSUME RequestsType, NEW r \in Requests, request[r] # Nothing, NEW row, NEW kind \in Kinds,
           NEW step \in {"link", "session"}, Insert(r, row, step, kind)
    PROVE  /\ RequestsType' /\ \A q \in Requests : q # r => request'[q] = request[q]
           /\ \E u \in Users \ used :
                users' = [users EXCEPT ![u] = row] /\ used' = used \union {u}
<1>1. PICK u \in Users \ used :
           /\ users' = [users EXCEPT ![u] = row] /\ used' = used \union {u}
           /\ Goto(r, [request[r] EXCEPT !.step = step, !.user = u, !.kind = kind])
  BY DEF Insert
<1>2. PICK q \in RequestState : q = request[r]
  BY DEF RequestsType
<1>3. Fits([q EXCEPT !.step = step, !.user = u, !.kind = kind])
  BY <1>1 DEF Fits, RequestState, Steps
<1>4. RequestsType' /\ \A p \in Requests : p # r => request'[p] = request[p]
  BY <1>1, <1>2, <1>3, GoesOn
<1> QED
  BY <1>1, <1>4

LEMMA NewAccountFields ==
    ASSUME NEW role \in Roles, NEW a \in BOOLEAN, NEW v \in BOOLEAN, NEW p \in BOOLEAN
    PROVE  NewAccount(role, a, v, p) \in Account /\ NewAccount(role, a, v, p).role = role
BY DEF NewAccount, Account

LEMMA CreateByRegistrationKeeps ==
    ASSUME AccountsInv, NEW r \in Requests, CreateByRegistration(r)
    PROVE  AccountsInv'
<1> USE DEF AccountsInv
<1>1. /\ request[r] # Nothing /\ request[r].step = "register"
      /\ UNCHANGED <<open, linked, signedIn, linkVars, mailVars, unverified, stale>>
  BY DEF CreateByRegistration, At
<1>2. MailInv'
  BY <1>1, MailAlone
<1>3. CASE EmailIsFree
  <2>1. PICK q \in RequestState : q = request[r]
    BY <1>1 DEF RequestsType
  <2>2. Insert(r, NewAccount("USER", TRUE, FALSE, TRUE), "link", q.kind) /\ q.kind \in Kinds
    BY <1>3, <2>1, RequestFields DEF CreateByRegistration
  <2>3. /\ RequestsType' /\ \A p \in Requests : p # r => request'[p] = request[p]
        /\ \E u \in Users \ used :
             /\ users' = [users EXCEPT ![u] = NewAccount("USER", TRUE, FALSE, TRUE)]
             /\ used' = used \union {u}
    BY <1>1, <2>2, Inserted
  <2>4. PICK u \in Users \ used :
             /\ users' = [users EXCEPT ![u] = NewAccount("USER", TRUE, FALSE, TRUE)]
             /\ used' = used \union {u}
    BY <2>3
  <2>5. LinksInv'
    BY <1>1, <2>3, NotDeleting
  <2>6. "USER" \in Roles /\ "USER" \notin Tracked
    BY DEF Roles, Tracked
  <2>7. /\ NewAccount("USER", TRUE, FALSE, TRUE) \in Account
        /\ NewAccount("USER", TRUE, FALSE, TRUE).role = "USER"
    BY <2>6, NewAccountFields
  <2>8. open \in [Users -> Seq(Tracked)] /\ open[u] = <<>>
    BY <1>3 DEF EmailIsFree, RowsInv, RowsType, OfTheLiving
  <2>9. /\ linked \in [Profiles -> Users \union {Nothing}]
        /\ \A p \in Profiles : linked[p] \in {u, Nothing}
    BY <1>3 DEF EmailIsFree, RowsInv, RowsType, OfTheLiving
  <2>10. RowsInv'
    BY <1>1, <1>3, <2>4, <2>6, <2>7, <2>8, <2>9, RowAppears DEF EmailIsFree
  <2> QED
    BY <1>2, <2>3, <2>5, <2>10
<1>4. CASE ~EmailIsFree
  <2>1. End(r) /\ UNCHANGED <<users, used>>
    BY <1>4 DEF CreateByRegistration
  <2>2. RequestsType' /\ \A p \in Requests : p # r => request'[p] = request[p]
    BY <2>1, Ends
  <2>3. LinksInv'
    BY <1>1, <2>2, NotDeleting
  <2>4. RowsInv'
    BY <1>1, <2>1, RowsAlone DEF rowVars
  <2> QED
    BY <1>2, <2>2, <2>3, <2>4
<1> QED
  BY <1>3, <1>4

LEMMA CreateByAdminKeeps ==
    ASSUME AccountsInv, NEW r \in Requests, CreateByAdmin(r)
    PROVE  AccountsInv'
<1> USE DEF AccountsInv
<1>1. /\ request[r] # Nothing /\ request[r].step = "adminCreate"
      /\ UNCHANGED <<linked, signedIn, linkVars, mailVars, unverified, stale>>
  BY DEF CreateByAdmin, At
<1>2. MailInv'
  BY <1>1, MailAlone
<1>3. PICK q \in RequestState : q = request[r]
  BY <1>1 DEF RequestsType
<1>4. CASE EmailIsFree
  <2> DEFINE row == NewAccount(q.role, FALSE, FALSE, TRUE)
  <2>1. /\ Insert(r, row, "link", "activate")
        /\ open' = [u \in Users |-> IF u \in used' \ used /\ q.role \in Tracked
                                    THEN <<q.role>> ELSE open[u]]
    BY <1>3, <1>4 DEF CreateByAdmin
  <2>2. q.role \in Roles /\ "activate" \in Kinds
    BY RequestFields DEF Kinds
  <2>3. row \in Account /\ row.role = q.role
    BY <2>2, NewAccountFields
  <2> HIDE DEF row
  <2>4. /\ RequestsType' /\ \A p \in Requests : p # r => request'[p] = request[p]
        /\ \E u \in Users \ used : users' = [users EXCEPT ![u] = row] /\ used' = used \union {u}
    BY <1>1, <2>1, <2>2, Inserted
  <2>5. PICK u \in Users \ used : users' = [users EXCEPT ![u] = row] /\ used' = used \union {u}
    BY <2>4
  <2>6. LinksInv'
    BY <1>1, <2>4, NotDeleting
  <2>7. open \in [Users -> Seq(Tracked)] /\ open[u] = <<>>
    BY <1>4 DEF EmailIsFree, RowsInv, RowsType, OfTheLiving
  <2>8. open' \in [Users -> Seq(Tracked)]
    BY <2>1, <2>7
  <2>9. /\ open'[u] = IF row.role \in Tracked THEN <<row.role>> ELSE <<>>
        /\ \A v \in Users : v # u => open'[v] = open[v]
    BY <2>1, <2>3, <2>5, <2>7
  <2>10. /\ linked \in [Profiles -> Users \union {Nothing}]
         /\ \A p \in Profiles : linked[p] \in {u, Nothing}
    BY <1>4 DEF EmailIsFree, RowsInv, RowsType, OfTheLiving
  <2>11. RowsInv'
    BY <1>1, <1>4, <2>3, <2>5, <2>8, <2>9, <2>10, RowAppears DEF EmailIsFree
  <2> QED
    BY <1>2, <2>4, <2>6, <2>11
<1>5. CASE ~EmailIsFree
  <2>1. End(r) /\ UNCHANGED <<users, used, open>>
    BY <1>5 DEF CreateByAdmin
  <2>2. RequestsType' /\ \A p \in Requests : p # r => request'[p] = request[p]
    BY <2>1, Ends
  <2>3. LinksInv'
    BY <1>1, <2>2, NotDeleting
  <2>4. RowsInv'
    BY <1>1, <2>1, RowsAlone DEF rowVars
  <2> QED
    BY <1>2, <2>2, <2>3, <2>4
<1> QED
  BY <1>4, <1>5

LEMMA CreateByProviderKeeps ==
    ASSUME AccountsInv, NEW r \in Requests, CreateByProvider(r)
    PROVE  AccountsInv'
<1> USE DEF AccountsInv
<1>1. /\ request[r] # Nothing /\ request[r].step = "signUp"
      /\ UNCHANGED <<open, signedIn, linkVars, mailVars, unverified, stale>>
  BY DEF CreateByProvider, At
<1>2. MailInv'
  BY <1>1, MailAlone
<1>3. PICK q \in RequestState : q = request[r] /\ q.profile \in Profiles
  BY <1>1 DEF RequestsType, Fits
<1>4. CASE EmailIsFree /\ linked[q.profile] = Nothing
  <2> DEFINE row == NewAccount("USER", TRUE, q.flag, FALSE)
  <2>1. /\ Insert(r, row, "session", q.kind)
        /\ \E u \in used' \ used : linked' = [linked EXCEPT ![q.profile] = u]
    BY <1>3, <1>4 DEF CreateByProvider
  <2>2. "USER" \in Roles /\ "USER" \notin Tracked /\ q.flag \in BOOLEAN /\ q.kind \in Kinds
    BY RequestFields DEF Roles, Tracked
  <2>3. row \in Account /\ row.role = "USER"
    BY <2>2, NewAccountFields
  <2> HIDE DEF row
  <2>4. /\ RequestsType' /\ \A p \in Requests : p # r => request'[p] = request[p]
        /\ \E u \in Users \ used : users' = [users EXCEPT ![u] = row] /\ used' = used \union {u}
    BY <1>1, <2>1, <2>2, Inserted
  <2>5. PICK u \in Users \ used : users' = [users EXCEPT ![u] = row] /\ used' = used \union {u}
    BY <2>4
  <2>6. LinksInv'
    BY <1>1, <2>4, NotDeleting
  <2>7. open \in [Users -> Seq(Tracked)] /\ open[u] = <<>>
    BY <1>4 DEF EmailIsFree, RowsInv, RowsType, OfTheLiving
  <2>8. linked \in [Profiles -> Users \union {Nothing}] /\ \A p \in Profiles : linked[p] = Nothing
    BY <1>4 DEF EmailIsFree, RowsInv, RowsType, OfTheLiving
  <2>9. linked' = [linked EXCEPT ![q.profile] = u]
    BY <2>1, <2>5
  <2>10. /\ linked' \in [Profiles -> Users \union {Nothing}]
         /\ \A p \in Profiles : linked'[p] \in {u, Nothing}
    BY <2>8, <2>9
  <2>11. RowsInv'
    BY <1>1, <1>4, <2>2, <2>3, <2>5, <2>7, <2>10, RowAppears DEF EmailIsFree
  <2> QED
    BY <1>2, <2>4, <2>6, <2>11
<1>5. CASE ~(EmailIsFree /\ linked[q.profile] = Nothing)
  <2>1. End(r) /\ UNCHANGED <<users, used, linked>>
    BY <1>3, <1>5 DEF CreateByProvider
  <2>2. RequestsType' /\ \A p \in Requests : p # r => request'[p] = request[p]
    BY <2>1, Ends
  <2>3. LinksInv'
    BY <1>1, <2>2, NotDeleting
  <2>4. RowsInv'
    BY <1>1, <2>1, RowsAlone DEF rowVars
  <2> QED
    BY <1>2, <2>2, <2>3, <2>4
<1> QED
  BY <1>4, <1>5

LEMMA AttachProviderKeeps ==
    ASSUME AccountsInv, NEW r \in Requests, AttachProvider(r)
    PROVE  AccountsInv'
<1> USE DEF AccountsInv
<1>1. /\ request[r] # Nothing /\ request[r].step = "attach"
      /\ UNCHANGED <<users, used, open, signedIn, linkVars, mailVars, unverified, stale>>
  BY DEF AttachProvider, At
<1>2. MailInv'
  BY <1>1, MailAlone
<1>3. PICK q \in RequestState : q = request[r] /\ q.profile \in Profiles /\ q.user \in Users
  BY <1>1 DEF RequestsType, Fits
<1>4. linked \in [Profiles -> Users \union {Nothing}] /\ unverified \subseteq Users
      /\ signedIn \subseteq Alive /\ \A p \in Profiles : linked[p] \in Alive \union {Nothing}
  BY DEF RowsInv, RowsType, OfTheLiving
<1>5. CASE linked[q.profile] = Nothing /\ Exists(q.user)
  <2>1. linked' = [linked EXCEPT ![q.profile] = q.user] /\ Goto(r, [q EXCEPT !.step = "session"])
    BY <1>3, <1>5 DEF AttachProvider
  <2>2. Fits([q EXCEPT !.step = "session"])
    BY <1>3 DEF Fits, RequestState, Steps
  <2>3. RequestsType' /\ \A p \in Requests : p # r => request'[p] = request[p]
    BY <2>1, <2>2, GoesOn
  <2>4. q.user \in Alive
    BY <1>3, <1>5 DEF Alive
  <2>5. RowsInv'
    BY <1>1, <1>3, <1>4, <2>1, <2>4, BelongingsChange
  <2> QED
    BY <1>1, <1>2, <2>3, <2>5, NotDeleting
<1>6. CASE ~(linked[q.profile] = Nothing /\ Exists(q.user))
  <2>1. End(r) /\ UNCHANGED linked
    BY <1>3, <1>6 DEF AttachProvider
  <2>2. RequestsType' /\ \A p \in Requests : p # r => request'[p] = request[p]
    BY <2>1, Ends
  <2>3. RowsInv'
    BY <1>1, <2>1, RowsAlone DEF rowVars
  <2> QED
    BY <1>1, <1>2, <2>2, <2>3, NotDeleting
<1> QED
  BY <1>5, <1>6

LEMMA CreateSessionKeeps ==
    ASSUME AccountsInv, NEW r \in Requests, CreateSession(r)
    PROVE  AccountsInv'
<1> USE DEF AccountsInv
<1>1. /\ request[r] # Nothing /\ request[r].step = "session" /\ End(r)
      /\ signedIn' = signedIn \union ({request[r].user} \intersect Alive)
      /\ UNCHANGED <<users, used, open, linked, linkVars, mailVars, unverified, stale>>
  BY DEF CreateSession, At
<1>2. MailInv'
  BY <1>1, MailAlone
<1>3. RequestsType' /\ \A p \in Requests : p # r => request'[p] = request[p]
  BY <1>1, Ends
<1>4. RowsInv'
  BY <1>1, BelongingsChange DEF RowsInv, RowsType, OfTheLiving
<1> QED
  BY <1>1, <1>2, <1>3, <1>4, NotDeleting

LEMMA GenerateTemporaryLinkKeeps ==
    ASSUME AccountsInv, NEW r \in Requests, GenerateTemporaryLink(r)
    PROVE  AccountsInv'
<1> USE DEF AccountsInv
<1>1. /\ request[r] # Nothing /\ request[r].step = "link"
      /\ UNCHANGED <<rowVars, mailVars, unverified, stale>>
  BY DEF GenerateTemporaryLink, At
<1>2. MailInv' /\ RowsInv'
  BY <1>1, MailAlone, RowsAlone
<1>3. PICK q \in RequestState : q = request[r] /\ q.user \in Users
  BY <1>1 DEF RequestsType, Fits
<1> DEFINE link == [kind |-> q.kind, user |-> q.user,
                    mailed |-> FALSE, used |-> FALSE, cut |-> FALSE]
<1>4. PICK t \in Tokens : /\ links' = [links EXCEPT ![t] = link] /\ issued' = issued \union {t}
                          /\ Goto(r, [q EXCEPT !.step = "mail", !.token = t])
  BY <1>3 DEF GenerateTemporaryLink
<1>5. Fits([q EXCEPT !.step = "mail", !.token = t])
  BY <1>3 DEF Fits, RequestState, Steps
<1>6. RequestsType' /\ \A p \in Requests : p # r => request'[p] = request[p]
  BY <1>4, <1>5, GoesOn
<1>7. link \in Link /\ ~link.used
  BY <1>3, RequestFields DEF Link
<1> HIDE DEF link
<1>8. links \in [Tokens -> Link \union {Nothing}] /\ SpentLinksGo
  BY DEF LinksInv, LinksType
<1>9. LinksType'
  BY <1>4, <1>7 DEF LinksInv, LinksType
<1>10. \A s \in Tokens : Spent(s)' => Spent(s)
  BY <1>4, <1>7, <1>8 DEF Spent
<1>11. SpentLinksGo'
  BY <1>1, <1>6, <1>8, <1>10, SpentAsBefore DEF Deletes
<1> QED
  BY <1>2, <1>6, <1>9, <1>11 DEF LinksInv

LEMMA SendEmailKeeps ==
    ASSUME AccountsInv, NEW r \in Requests, SendEmail(r)
    PROVE  AccountsInv'
<1> USE DEF AccountsInv
<1>1. /\ request[r] # Nothing /\ request[r].step = "mail" /\ End(r)
      /\ UNCHANGED <<rowVars, linkVars, dead, unverified, stale>>
  BY DEF SendEmail, At
<1>2. RowsInv'
  BY <1>1, RowsAlone
<1>3. RequestsType' /\ \A p \in Requests : p # r => request'[p] = request[p]
  BY <1>1, Ends
<1>4. PICK q \in RequestState : q = request[r] /\ q.token \in Tokens /\ q.kind \in Kinds
  BY <1>1, RequestFields DEF RequestsType, Fits
<1> DEFINE new == [state |-> "waiting", token |-> q.token, tries |-> 0, stalls |-> 0]
<1>5. job' = IF job[q.kind] = Nothing THEN [job EXCEPT ![q.kind] = new] ELSE job
  BY <1>4 DEF SendEmail
<1>6. new \in Job /\ new.tries < Attempts
  BY <1>4, AttemptsAssumption DEF Job
<1> HIDE DEF new
<1>7. MailInv'
  BY <1>1, <1>5, <1>6 DEF MailInv, TriesLeft, DeadAfterAllTries
<1> QED
  BY <1>1, <1>2, <1>3, <1>7, NotDeleting

LEMMA EffectOnRow ==
    ASSUME NEW kind \in Kinds, NEW row \in Account
    PROVE  Effect(kind, row) \in Account /\ Effect(kind, row).role = row.role
BY DEF Kinds, Effect, Account

LEMMA ApplyLinkKeeps ==
    ASSUME AccountsInv, NEW r \in Requests, ApplyLink(r)
    PROVE  AccountsInv'
<1> USE DEF AccountsInv
<1>1. /\ request[r] # Nothing /\ request[r].step = "apply"
      /\ UNCHANGED <<used, open, linked, signedIn, issued, mailVars, unverified, stale>>
  BY DEF ApplyLink, At
<1>2. MailInv'
  BY <1>1, MailAlone
<1>3. PICK q \in RequestState : q = request[r] /\ q.user \in Users /\ q.token \in Tokens
  BY <1>1 DEF RequestsType, Fits
<1>4. CASE Exists(q.user)
  <2>1. PICK row \in Account : row = users[q.user]
    BY <1>3, <1>4 DEF Exists, RowsInv, RowsType
  <2> DEFINE next == IF q.kind = "verify" THEN "deleteLink" ELSE "endSessions"
  <2>2. /\ users' = [users EXCEPT ![q.user] = Effect(q.kind, row)]
        /\ links' = IF Live(q.token) THEN [links EXCEPT ![q.token].used = TRUE] ELSE links
        /\ Goto(r, [q EXCEPT !.step = next])
    BY <1>3, <1>4, <2>1 DEF ApplyLink
  <2>3. next \in {"deleteLink", "endSessions"}
    OBVIOUS
  <2> HIDE DEF next
  <2>4. Effect(q.kind, row) \in Account /\ Effect(q.kind, row).role = row.role
    BY EffectOnRow, RequestFields
  <2>5. RowsInv'
    BY <1>1, <1>3, <1>4, <2>1, <2>2, <2>4, RowChanges
  <2>6. Fits([q EXCEPT !.step = next]) /\ [q EXCEPT !.step = next].token = q.token
        /\ [q EXCEPT !.step = next].step = next /\ [q EXCEPT !.step = next] # Nothing
    BY <1>3, <2>3, NothingAssumption DEF Fits, RequestState, Steps
  <2>7. /\ RequestsType' /\ request'[r] = [q EXCEPT !.step = next]
        /\ \A p \in Requests : p # r => request'[p] = request[p]
    BY <2>2, <2>6, GoesOn
  <2>8. Deletes(r, q.token)'
    BY <2>3, <2>6, <2>7 DEF Deletes
  <2>9. links \in [Tokens -> Link \union {Nothing}] /\ issued \in SUBSET Tokens /\ SpentLinksGo
    BY DEF LinksInv, LinksType
  <2>10. Live(q.token) => [links[q.token] EXCEPT !.used = TRUE] \in Link
    BY <1>3, <2>9 DEF Live, Link
  <2>11. LinksType'
    BY <1>1, <1>3, <2>2, <2>9, <2>10 DEF LinksType
  <2>12. \A t \in Tokens : t # q.token => (Spent(t)' <=> Spent(t))
    BY <1>3, <2>2, <2>9 DEF Spent
  <2>13. \A t \in Tokens : ~Deletes(r, t)
    BY <1>1 DEF Deletes
  <2>14. SpentLinksGo'
    BY <2>7, <2>8, <2>9, <2>12, <2>13, SpentAsBefore
  <2> QED
    BY <1>2, <2>5, <2>7, <2>11, <2>14 DEF LinksInv
<1>5. CASE ~Exists(q.user)
  <2>1. End(r) /\ UNCHANGED <<users, links>>
    BY <1>3, <1>5 DEF ApplyLink
  <2>2. RequestsType' /\ \A p \in Requests : p # r => request'[p] = request[p]
    BY <2>1, Ends
  <2>3. RowsInv' /\ UNCHANGED linkVars
    BY <1>1, <2>1, RowsAlone DEF rowVars, linkVars
  <2> QED
    BY <1>1, <1>2, <2>2, <2>3, NotDeleting
<1> QED
  BY <1>4, <1>5

LEMMA EndSessionsKeeps ==
    ASSUME AccountsInv, NEW r \in Requests, EndSessions(r)
    PROVE  AccountsInv'
<1> USE DEF AccountsInv
<1>1. /\ request[r] # Nothing /\ request[r].step = "endSessions"
      /\ signedIn' = signedIn \ {request[r].user}
      /\ Goto(r, [request[r] EXCEPT !.step = "deleteLink"])
      /\ UNCHANGED <<users, used, open, linked, linkVars, mailVars, unverified, stale>>
  BY DEF EndSessions, At
<1>2. MailInv'
  BY <1>1, MailAlone
<1>3. RowsInv'
  BY <1>1, BelongingsChange DEF RowsInv, RowsType, OfTheLiving
<1>4. PICK q \in RequestState : q = request[r] /\ q.user \in Users /\ q.token \in Tokens
  BY <1>1 DEF RequestsType, Fits
<1> DEFINE what == [q EXCEPT !.step = "deleteLink"]
<1>5. Fits(what) /\ what.token = q.token /\ what.step = "deleteLink" /\ what # Nothing
  BY <1>4, NothingAssumption DEF Fits, RequestState, Steps
<1>6. Goto(r, what)
  BY <1>1, <1>4
<1> HIDE DEF what
<1>7. /\ RequestsType' /\ request'[r] = what
      /\ \A p \in Requests : p # r => request'[p] = request[p]
  BY <1>5, <1>6, GoesOn
<1>8. \A t \in Tokens : Deletes(r, t) => Deletes(r, t)'
  BY <1>4, <1>5, <1>7 DEF Deletes
<1> QED
  BY <1>1, <1>2, <1>3, <1>7, <1>8, LinksAsBefore

LEMMA DeleteLinkKeeps ==
    ASSUME AccountsInv, NEW r \in Requests, DeleteLink(r)
    PROVE  AccountsInv'
<1> USE DEF AccountsInv
<1>1. /\ request[r] # Nothing /\ request[r].step = "deleteLink" /\ End(r)
      /\ links' = [links EXCEPT ![request[r].token] = Nothing]
      /\ UNCHANGED <<rowVars, issued, mailVars, unverified, stale>>
  BY DEF DeleteLink, At
<1>2. MailInv' /\ RowsInv'
  BY <1>1, MailAlone, RowsAlone
<1>3. RequestsType' /\ \A p \in Requests : p # r => request'[p] = request[p]
  BY <1>1, Ends
<1>4. links \in [Tokens -> Link \union {Nothing}] /\ issued \in SUBSET Tokens /\ SpentLinksGo
  BY DEF LinksInv, LinksType
<1>5. LinksType'
  BY <1>1, <1>4 DEF LinksType
<1>6. \A t \in Tokens : Spent(t)' => Spent(t) /\ ~Deletes(r, t)
  BY <1>1, <1>4 DEF Spent, Deletes
<1>7. SpentLinksGo'
  BY <1>3, <1>4, <1>6, SpentAsBefore
<1> QED
  BY <1>2, <1>3, <1>5, <1>7 DEF LinksInv

\* A request cut off between the effect of a link and its deletion leaves a
\* mark on the link.
LEMMA FailKeeps ==
    ASSUME AccountsInv, NEW r \in Requests, Fail(r)
    PROVE  AccountsInv'
<1> USE DEF AccountsInv
<1>1. /\ request[r] # Nothing /\ End(r)
      /\ UNCHANGED <<rowVars, issued, mailVars, unverified, stale>>
  BY DEF Fail
<1>2. MailInv' /\ RowsInv'
  BY <1>1, MailAlone, RowsAlone
<1>3. RequestsType' /\ \A p \in Requests : p # r => request'[p] = request[p]
  BY <1>1, Ends
<1>4. links \in [Tokens -> Link \union {Nothing}] /\ issued \in SUBSET Tokens /\ SpentLinksGo
  BY DEF LinksInv, LinksType
<1>5. PICK q \in RequestState : q = request[r] /\ Fits(q)
  BY <1>1 DEF RequestsType, Fits
<1> DEFINE deleting == q.step \in {"endSessions", "deleteLink"}
<1>6. links' = IF deleting /\ Live(q.token) THEN [links EXCEPT ![q.token].cut = TRUE] ELSE links
  BY <1>1, <1>5 DEF Fail, At
<1>7. deleting => q.token \in Tokens
  BY <1>5 DEF Fits
<1>8. \A t \in Tokens : Deletes(r, t) <=> deleting /\ q.token = t
  BY <1>1, <1>5 DEF Deletes
<1> HIDE DEF deleting
<1>9. deleting /\ Live(q.token) => [links[q.token] EXCEPT !.cut = TRUE] \in Link
                                   /\ [links[q.token] EXCEPT !.cut = TRUE].cut
  BY <1>4, <1>7 DEF Live, Link
<1>10. LinksType'
  BY <1>1, <1>4, <1>6, <1>7, <1>9 DEF LinksType
<1>11. \A t \in Tokens : Spent(t)' => Spent(t) /\ ~Deletes(r, t)
  <2>1. CASE deleting /\ Live(q.token)
    <3>1. links' = [links EXCEPT ![q.token] = [links[q.token] EXCEPT !.cut = TRUE]]
      BY <1>6, <2>1
    <3>2. links'[q.token].cut
      BY <1>4, <1>7, <1>9, <2>1, <3>1
    <3>3. \A t \in Tokens : t # q.token => links'[t] = links[t]
      BY <1>4, <3>1
    <3> QED
      BY <1>8, <3>2, <3>3 DEF Spent
  <2>2. CASE ~(deleting /\ Live(q.token))
    BY <1>6, <1>8, <2>2 DEF Spent, Live
  <2> QED
    BY <2>1, <2>2
<1>12. SpentLinksGo'
  BY <1>3, <1>4, <1>11, SpentAsBefore
<1> QED
  BY <1>2, <1>3, <1>10, <1>12 DEF LinksInv

LEMMA SetStatusKeeps ==
    ASSUME AccountsInv, NEW r \in Requests, SetStatus(r)
    PROVE  AccountsInv'
<1> USE DEF AccountsInv
<1>1. /\ request[r] # Nothing /\ request[r].step = "toggle" /\ End(r)
      /\ UNCHANGED <<used, open, linked, signedIn, linkVars, mailVars, unverified, stale>>
  BY DEF SetStatus, At
<1>2. MailInv'
  BY <1>1, MailAlone
<1>3. RequestsType' /\ \A p \in Requests : p # r => request'[p] = request[p]
  BY <1>1, Ends
<1>4. PICK q \in RequestState : q = request[r] /\ q.user \in Users
  BY <1>1 DEF RequestsType, Fits
<1>5. users' = IF Exists(q.user) THEN [users EXCEPT ![q.user].active = q.flag] ELSE users
  BY <1>4 DEF SetStatus
<1>6. CASE Exists(q.user)
  <2>1. PICK row \in Account : row = users[q.user]
    BY <1>4, <1>6 DEF Exists, RowsInv, RowsType
  <2>2. users' = [users EXCEPT ![q.user] = [row EXCEPT !.active = q.flag]]
    BY <1>5, <1>6, <2>1
  <2>3. q.flag \in BOOLEAN
    BY RequestFields
  <2>4. [row EXCEPT !.active = q.flag] \in Account /\ [row EXCEPT !.active = q.flag].role = row.role
    BY <2>3 DEF Account
  <2> QED
    BY <1>1, <1>2, <1>3, <1>4, <1>6, <2>1, <2>2, <2>4, RowChanges, NotDeleting
<1>7. CASE ~Exists(q.user)
  BY <1>1, <1>2, <1>3, <1>5, <1>7, RowsAlone, NotDeleting DEF rowVars
<1> QED
  BY <1>6, <1>7

\* A close leaves some of the latest periods, and none if it is not late.
LEMMA LeftOpen ==
    ASSUME NEW u, open[u] \in Seq(Tracked), NEW late \in BOOLEAN,
           NEW left \in ClosePeriods(u, late)
    PROVE  /\ left \in Seq(Tracked) /\ Len(left) \in Nat /\ Len(left) <= Len(open[u])
           /\ ~late => left = <<>>
<1>1. CASE late
  <2>1. PICK n \in 1..(Len(open[u]) + 1) : left = SubSeq(open[u], n, Len(open[u]))
    BY <1>1 DEF ClosePeriods
  <2>2. Len(open[u]) \in Nat /\ \A i \in n..Len(open[u]) : open[u][i] \in Tracked
    BY <2>1
  <2>3. left \in Seq(Tracked) /\ Len(left) = IF n <= Len(open[u]) THEN Len(open[u]) - n + 1 ELSE 0
    BY <2>1, <2>2
  <2> QED
    BY <1>1, <2>1, <2>2, <2>3
<1>2. CASE ~late
  <2>1. left = <<>> /\ <<>> \in Seq(Tracked) /\ Len(<<>>) = 0 /\ Len(open[u]) \in Nat
    BY <1>2 DEF ClosePeriods
  <2> QED
    BY <1>2, <2>1
<1> QED
  BY <1>1, <1>2

\* What a change of role leaves of the open periods.
LEMMA PeriodsAfter ==
    ASSUME NEW u, open[u] \in Seq(Tracked), Len(open[u]) < MaxOpen,
           NEW was \in Roles, NEW role \in Roles, NEW late \in BOOLEAN,
           NEW history \in Periods(u, was, role, late)
    PROVE  /\ history \in Seq(Tracked) /\ Len(history) <= MaxOpen
           /\ open[u] = (IF was \in Tracked THEN <<was>> ELSE <<>>) /\ ~late =>
                history = IF role \in Tracked THEN <<role>> ELSE <<>>
<1> Len(open[u]) \in Nat
  OBVIOUS
<1>1. CASE was = role
  <2>1. history = open[u]
    BY <1>1 DEF Periods
  <2> QED
    BY <1>1, <2>1, MaxOpenAssumption
<1>2. CASE was # role /\ was \in Tracked /\ role \in Tracked
  <2>1. PICK left \in ClosePeriods(u, late) : history = Append(left, role)
    BY <1>2 DEF Periods
  <2>2. /\ left \in Seq(Tracked) /\ Len(left) \in Nat /\ Len(left) <= Len(open[u])
        /\ ~late => left = <<>>
    BY LeftOpen
  <2>3. /\ Append(left, role) \in Seq(Tracked) /\ Len(Append(left, role)) = Len(left) + 1
        /\ Append(<<>>, role) = <<role>>
    BY <1>2, <2>2
  <2>4. Len(history) <= MaxOpen
    BY <2>1, <2>2, <2>3, MaxOpenAssumption
  <2>5. ~late => history = <<role>>
    BY <2>1, <2>2, <2>3
  <2> QED
    BY <1>2, <2>1, <2>3, <2>4, <2>5
<1>3. CASE was # role /\ was \notin Tracked /\ role \in Tracked
  <2>1. history = Append(open[u], role)
    BY <1>3 DEF Periods
  <2>2. Append(open[u], role) \in Seq(Tracked) /\ Len(Append(open[u], role)) = Len(open[u]) + 1
        /\ Append(<<>>, role) = <<role>>
    BY <1>3
  <2>3. Len(Append(open[u], role)) <= MaxOpen
    BY <2>2, MaxOpenAssumption
  <2>4. open[u] = <<>> => Append(open[u], role) = <<role>>
    BY <2>2
  <2> QED
    BY <1>3, <2>1, <2>2, <2>3, <2>4
<1>4. CASE was # role /\ role \notin Tracked
  <2>1. history \in ClosePeriods(u, late)
    BY <1>4 DEF Periods
  <2>2. /\ history \in Seq(Tracked) /\ Len(history) \in Nat /\ Len(history) <= Len(open[u])
        /\ ~late => history = <<>>
    BY <2>1, LeftOpen
  <2> QED
    BY <1>4, <2>2, MaxOpenAssumption
<1> QED
  BY <1>1, <1>2, <1>3, <1>4

\* The others go on, late or not.
LEMMA ChangeEnds ==
    ASSUME RequestsType, LinksInv, NEW r \in Requests, NEW u, EndChange(r, u),
           request[r].step = "changeRole", UNCHANGED linkVars
    PROVE  RequestsType' /\ LinksInv'
<1>1. ASSUME NEW p \in Requests
      PROVE  /\ request'[p] \in RequestState \union {Nothing}
             /\ request'[p] # Nothing => Fits(request'[p])
             /\ \A t : Deletes(p, t)' <=> Deletes(p, t)
  <2>1. CASE p = r
    <3>1. request'[p] = Nothing
      BY <2>1 DEF EndChange
    <3> QED
      BY <2>1, <3>1 DEF Deletes
  <2>2. CASE p # r /\ At(p, "changeRole") /\ request[p].user = u
    <3>1. PICK q \in RequestState : q = request[p] /\ Fits(q) /\ q.step = "changeRole"
      BY <2>2 DEF RequestsType, At
    <3>2. request'[p] = [q EXCEPT !.late = TRUE]
      BY <2>2, <3>1 DEF EndChange
    <3>3. [q EXCEPT !.late = TRUE] \in RequestState /\ [q EXCEPT !.late = TRUE].step = "changeRole"
      BY <3>1 DEF RequestState
    <3>4. Fits([q EXCEPT !.late = TRUE])
      BY <3>1, <3>3 DEF Fits, RequestState
    <3> QED
      BY <3>1, <3>2, <3>3, <3>4 DEF Deletes
  <2>3. CASE p # r /\ ~(At(p, "changeRole") /\ request[p].user = u)
    <3>1. request'[p] = request[p]
      BY <2>3 DEF EndChange
    <3> QED
      BY <3>1 DEF RequestsType, Deletes
  <2> QED
    BY <2>1, <2>2, <2>3
<1>2. RequestsType'
  BY <1>1 DEF RequestsType, EndChange
<1>3. \A t \in Tokens : Spent(t)' <=> Spent(t)
  BY DEF linkVars, Spent
<1>4. \A t \in Tokens : Spent(t)' => \E p \in Requests : Deletes(p, t)'
  BY <1>1, <1>3, SpentLinks DEF LinksInv
<1>5. SpentLinksGo'
  BY <1>4 DEF SpentLinksGo, Spent, Deletes, Live, At
<1> QED
  BY <1>2, <1>5 DEF LinksInv, LinksType, linkVars

LEMMA SetRoleKeeps ==
    ASSUME AccountsInv, NEW r \in Requests, SetRole(r)
    PROVE  AccountsInv'
<1> USE DEF AccountsInv
<1>1. /\ request[r] # Nothing /\ request[r].step = "changeRole"
      /\ UNCHANGED <<used, linked, signedIn, linkVars, mailVars, unverified>>
  BY DEF SetRole, At
<1>2. MailInv'
  BY <1>1, MailAlone
<1>3. ASSUME End(r) PROVE RequestsType' /\ LinksInv'
  <2>1. RequestsType' /\ \A p \in Requests : p # r => request'[p] = request[p]
    BY <1>3, Ends
  <2> QED
    BY <1>1, <2>1, NotDeleting
<1>4. RequestsType' /\ LinksInv'
  <2>1. End(r) \/ \E u : EndChange(r, u)
    BY DEF SetRole
  <2> QED
    BY <1>1, <1>3, <2>1, ChangeEnds
<1>5. PICK q \in RequestState :
           /\ q = request[r] /\ q.user \in Users /\ q.was \in Roles /\ q.role \in Roles
           /\ q.late \in BOOLEAN
  BY <1>1, RequestFields DEF RequestsType, Fits
<1>6. CASE Exists(q.user) /\ (q.was = q.role \/ StaffRemains(q.user, q.was, q.role))
  <2>1. /\ Len(open[q.user]) < MaxOpen
        /\ \E history \in Periods(q.user, q.was, q.role, q.late) :
              open' = [open EXCEPT ![q.user] = history]
        /\ stale' = IF users[q.user].role = q.was /\ ~q.late
                      THEN stale ELSE stale \union {q.user}
        /\ users' = [users EXCEPT ![q.user].role = q.role]
    BY <1>5, <1>6 DEF SetRole
  <2>2. PICK row \in Account : row = users[q.user]
    BY <1>5, <1>6 DEF Exists, RowsInv, RowsType
  <2>3. PICK history \in Periods(q.user, q.was, q.role, q.late) :
              open' = [open EXCEPT ![q.user] = history]
    BY <2>1
  <2> DEFINE new == [row EXCEPT !.role = q.role]
  <2>4. new \in Account /\ new.role = q.role /\ new # Nothing
    BY <1>5, NothingAssumption DEF Account
  <2>5. users' = [users EXCEPT ![q.user] = new] /\ open' = [open EXCEPT ![q.user] = history]
    BY <2>1, <2>2, <2>3
  <2>6. /\ users \in [Users -> Account \union {Nothing}] /\ open \in [Users -> Seq(Tracked)]
        /\ stale \in SUBSET Users /\ \A u \in Users : Len(open[u]) <= MaxOpen
    BY DEF RowsInv, RowsType
  <2>7. /\ history \in Seq(Tracked) /\ Len(history) <= MaxOpen
        /\ open[q.user] = (IF q.was \in Tracked THEN <<q.was>> ELSE <<>>) /\ ~q.late =>
             history = IF q.role \in Tracked THEN <<q.role>> ELSE <<>>
    BY <1>5, <2>1, <2>6, PeriodsAfter
  <2> HIDE DEF new
  <2>8. Alive' = Alive /\ q.user \in Alive
    BY <1>5, <1>6, <2>4, <2>5, <2>6 DEF Alive, Exists
  <2>9. open' \in [Users -> Seq(Tracked)] /\ \A u \in Users : Len(open'[u]) <= MaxOpen
    <3>1. \A u \in Users : open'[u] = IF u = q.user THEN history ELSE open[u]
      BY <2>5, <2>6
    <3>2. \A u \in Users : Len(open'[u]) <= MaxOpen
      BY <2>6, <2>7, <3>1
    <3> QED
      BY <2>5, <2>6, <2>7, <3>2
  <2>10. RowsType'
    BY <1>1, <1>5, <2>1, <2>4, <2>5, <2>6, <2>9 DEF RowsInv, RowsType
  <2>11. OneAlive' /\ OfTheLiving'
    BY <1>1, <2>5, <2>6, <2>8 DEF RowsInv, OneAlive, OfTheLiving
  <2>12. ASSUME NEW u \in Alive, u \notin stale'
         PROVE  open'[u] = IF users'[u].role \in Tracked THEN <<users'[u].role>> ELSE <<>>
    <3>1. u \notin stale /\ u \in Users
      BY <2>1, <2>12 DEF Alive
    <3>2. open[u] = IF users[u].role \in Tracked THEN <<users[u].role>> ELSE <<>>
      BY <2>12, <3>1 DEF RowsInv, PeriodsFollowRoles
    <3>3. CASE u = q.user
      <4>1. users[q.user].role = q.was /\ ~q.late
        BY <2>1, <2>12, <3>3
      <4>2. users'[u] = new /\ open'[u] = history
        BY <2>5, <2>6, <3>1, <3>3
      <4>3. open[q.user] = IF q.was \in Tracked THEN <<q.was>> ELSE <<>>
        BY <3>2, <3>3, <4>1
      <4> QED
        BY <2>4, <2>7, <4>1, <4>2, <4>3
    <3>4. CASE u # q.user
      BY <2>5, <2>6, <3>1, <3>2, <3>4
    <3> QED
      BY <3>3, <3>4
  <2>13. PeriodsFollowRoles'
    BY <2>8, <2>12 DEF PeriodsFollowRoles
  <2> QED
    BY <1>2, <1>4, <2>10, <2>11, <2>13 DEF RowsInv
<1>7. CASE ~(Exists(q.user) /\ (q.was = q.role \/ StaffRemains(q.user, q.was, q.role)))
  <2>1. UNCHANGED <<users, open, stale>>
    BY <1>5, <1>7 DEF SetRole
  <2> QED
    BY <1>1, <1>2, <1>4, <2>1, RowsAlone DEF rowVars
<1> QED
  BY <1>6, <1>7

LEMMA WriteKeeps ==
    ASSUME AccountsInv, NEW r \in Requests, Write(r)
    PROVE  AccountsInv'
BY CreateByRegistrationKeeps, CreateByAdminKeeps, CreateByProviderKeeps, AttachProviderKeeps,
   CreateSessionKeeps, GenerateTemporaryLinkKeeps, SendEmailKeeps, ApplyLinkKeeps, EndSessionsKeeps,
   DeleteLinkKeeps, SetStatusKeeps, SetRoleKeeps, FailKeeps
   DEF Write

-----------------------------------------------------------------------------
(* Without a request *)

LEMMA DeletionsKeep ==
    ASSUME AccountsInv, (\E u \in Users : Remove(u)) \/ DeleteUnverified
    PROVE  AccountsInv'
<1>1. PICK gone \in SUBSET Users : Delete(gone) /\ unverified' \subseteq Users
  <2>1. unverified \in SUBSET Users
    BY DEF AccountsInv, RowsInv, RowsType
  <2> QED
    BY <2>1 DEF Remove, DeleteUnverified
<1>2. UNCHANGED <<linkVars, mailVars, request>>
  BY <1>1 DEF Delete
<1> QED
  BY <1>1, <1>2, DeleteKeepsRows, LinksAlone, MailAlone, RequestsAlone DEF AccountsInv

LEMMA SelectUnverifiedKeeps == ASSUME AccountsInv, SelectUnverified PROVE AccountsInv'
<1>1. PICK u \in Alive : unverified' = {u}
  BY DEF SelectUnverified
<1>2. UNCHANGED <<rowVars, linkVars, mailVars, request, stale>>
  BY DEF SelectUnverified
<1>3. RowsInv'
  BY <1>1, <1>2, BelongingsChange DEF AccountsInv, RowsInv, RowsType, OfTheLiving, rowVars, Alive
<1> QED
  BY <1>2, <1>3, LinksAlone, MailAlone, RequestsAlone DEF AccountsInv

LEMMA LogoutKeeps == ASSUME AccountsInv, NEW u \in Users, Logout(u) PROVE AccountsInv'
<1>1. RowsInv'
  BY BelongingsChange DEF AccountsInv, RowsInv, RowsType, OfTheLiving, Logout
<1> QED
  BY <1>1, LinksAlone, MailAlone, RequestsAlone DEF AccountsInv, Logout

\* A link goes, or it arrives: no link is spent by that.
LEMMA LinksChange ==
    ASSUME LinksInv, UNCHANGED <<issued, request>>, NEW t \in Tokens,
           links' \in {links, [links EXCEPT ![t] = Nothing], Arrived(t)}
    PROVE  LinksInv'
<1>1. links \in [Tokens -> Link \union {Nothing}] /\ issued \in SUBSET Tokens /\ SpentLinksGo
  BY DEF LinksInv, LinksType
<1>2. PICK l \in Link \union {Nothing} :
           /\ links' = [links EXCEPT ![t] = l] \/ links' = links
           /\ \/ l = Nothing
              \/ links[t] # Nothing /\ l.used = links[t].used /\ l.cut = links[t].cut
  <2>1. CASE links' \in {links, [links EXCEPT ![t] = Nothing]}
    BY <2>1
  <2>2. CASE links' = Arrived(t) /\ Live(t)
    <3>1. PICK k \in Link : k = links[t]
      BY <1>1, <2>2 DEF Live
    <3>2. [k EXCEPT !.mailed = TRUE] \in Link /\ [k EXCEPT !.mailed = TRUE].used = k.used
          /\ [k EXCEPT !.mailed = TRUE].cut = k.cut
      BY DEF Link
    <3>3. links' = [links EXCEPT ![t] = [k EXCEPT !.mailed = TRUE]]
      BY <2>2, <3>1 DEF Arrived
    <3> QED
      BY <2>2, <3>1, <3>2, <3>3 DEF Live
  <2>3. CASE links' = Arrived(t) /\ ~Live(t)
    BY <2>3 DEF Arrived
  <2> QED
    BY <2>1, <2>2, <2>3
<1>3. LinksType'
  BY <1>1, <1>2 DEF LinksType
<1>4. \A s \in Tokens : Spent(s)' => Spent(s)
  BY <1>1, <1>2 DEF Spent
<1>5. \A s \in Tokens, r \in Requests : Deletes(r, s)' <=> Deletes(r, s)
  BY DEF Deletes
<1>6. \A s \in Tokens : Spent(s) => \E r \in Requests : Deletes(r, s)
  BY <1>1, SpentLinks
<1>7. \A s \in Tokens : Spent(s)' => \E r \in Requests : Deletes(r, s)'
  BY <1>4, <1>5, <1>6
<1>8. SpentLinksGo'
  BY <1>7 DEF SpentLinksGo, Spent, Deletes, Live, At
<1> QED
  BY <1>3, <1>8 DEF LinksInv

LEMMA ExpireLinkKeeps == ASSUME AccountsInv, NEW t \in Tokens, ExpireLink(t) PROVE AccountsInv'
<1>1. LinksInv'
  BY LinksChange DEF AccountsInv, ExpireLink
<1> QED
  BY <1>1, RowsAlone, MailAlone, RequestsAlone DEF AccountsInv, ExpireLink

-----------------------------------------------------------------------------
(* The mail queue *)

\* A job changes, of the same token; a failure is dead-lettered at the last try.
LEMMA JobChanges ==
    ASSUME MailInv, NEW k \in Kinds, NEW j \in Job \union {Nothing}, job' = [job EXCEPT ![k] = j],
           j # Nothing /\ j.state # "failed" => j.tries < Attempts,
           dead' \in {dead, dead \union {Attempts}}
    PROVE  MailInv'
<1>1. job \in [Kinds -> Job \union {Nothing}] /\ dead \subseteq {Attempts}
  BY DEF MailInv, DeadAfterAllTries
<1>2. job' \in [Kinds -> Job \union {Nothing}] /\ dead' \subseteq {Attempts}
  BY <1>1
<1>3. TriesLeft'
  BY <1>1 DEF MailInv, TriesLeft
<1> QED
  BY <1>2, <1>3 DEF MailInv, DeadAfterAllTries

LEMMA MailKeeps ==
    ASSUME AccountsInv, NEW k \in Kinds, Mail(k)
    PROVE  AccountsInv'
<1> USE DEF AccountsInv
<1>1. UNCHANGED <<rowVars, issued, request, unverified, stale>>
  BY DEF Mail, TakeJob, MailSent, AttemptFails, WorkerDies, ForgetFailure, linkVars
<1>2. RowsInv' /\ RequestsType'
  BY <1>1, RowsAlone, RequestsAlone
<1>3. PICK j \in Job : j = job[k]
  BY DEF Mail, TakeJob, MailSent, AttemptFails, WorkerDies, ForgetFailure, InState, MailInv
<1>4. /\ j.token \in Tokens /\ j.tries \in 0..Attempts /\ j.stalls \in 0..1
      /\ j.state # "failed" => j.tries < Attempts
      /\ Attempts \in Nat \ {0}
  <2>1. job[k] # Nothing
    BY DEF Mail, TakeJob, MailSent, AttemptFails, WorkerDies, ForgetFailure, InState
  <2>2. j.state # "failed" => j.tries < Attempts
    BY <1>3, <2>1 DEF MailInv, TriesLeft
  <2> QED
    BY <2>2, AttemptsAssumption DEF Job
<1>5. CASE TakeJob(k)
  <2>1. job' = [job EXCEPT ![k] = [j EXCEPT !.state = "active"]] /\ UNCHANGED <<linkVars, dead>>
        /\ j.state = "waiting"
    BY <1>3, <1>5 DEF TakeJob, InState
  <2>2. [j EXCEPT !.state = "active"] \in Job /\ [j EXCEPT !.state = "active"].tries < Attempts
    BY <1>4, <2>1 DEF Job
  <2> QED
    BY <1>1, <1>2, <2>1, <2>2, JobChanges, LinksAlone
<1>6. CASE MailSent(k)
  <2>1. links' = Arrived(j.token) /\ job' = [job EXCEPT ![k] = Nothing] /\ UNCHANGED dead
    BY <1>3, <1>6 DEF MailSent
  <2> QED
    BY <1>1, <1>2, <1>4, <2>1, JobChanges, LinksChange
<1>7. CASE AttemptFails(k)
  <2> DEFINE made == j.tries + 1
             state == IF made < Attempts THEN "waiting" ELSE "failed"
             new == [j EXCEPT !.tries = made, !.state = state]
  <2>1. /\ links' \in {links, Arrived(j.token)} /\ job' = [job EXCEPT ![k] = new]
        /\ dead' \in {dead} \union (IF made >= Attempts THEN {dead \union {made}} ELSE {})
        /\ j.state = "active"
    BY <1>3, <1>7 DEF AttemptFails, InState, IsLastAttempt
  <2>2. made \in 1..Attempts
    BY <1>4, <2>1
  <2>3. dead' \in {dead, dead \union {Attempts}}
    BY <1>4, <2>1, <2>2
  <2>4. state \in {"waiting", "failed"} /\ (state # "failed" => made < Attempts)
    OBVIOUS
  <2>5. made \in 0..Attempts
    BY <1>4, <2>2
  <2> HIDE DEF made, state
  <2>6. new \in Job /\ new.state = state /\ new.tries = made
    BY <2>4, <2>5 DEF Job
  <2> HIDE DEF new
  <2> QED
    BY <1>1, <1>2, <1>4, <2>1, <2>3, <2>4, <2>6, JobChanges, LinksChange
<1>8. CASE WorkerDies(k)
  <2> DEFINE again == [j EXCEPT !.state = "waiting", !.stalls = 1]
             gone == [j EXCEPT !.state = "failed"]
             new == IF j.stalls = 0 THEN again ELSE gone
  <2>1. links' \in {links, Arrived(j.token)} /\ job' = [job EXCEPT ![k] = new] /\ UNCHANGED dead
        /\ j.state = "active"
    BY <1>3, <1>8 DEF WorkerDies, InState
  <2>2. gone \in Job /\ gone.state = "failed"
    BY DEF Job
  <2>3. again \in Job /\ again.tries = j.tries
    <3>1. /\ again.state = "waiting" /\ again.stalls = 1
          /\ again.token = j.token /\ again.tries = j.tries
      BY DEF Job
    <3>2. 1 \in 0..1
      OBVIOUS
    <3> QED
      BY <3>1, <3>2 DEF Job
  <2> HIDE DEF again, gone
  <2>4. new \in Job /\ (new.state # "failed" => new.tries < Attempts)
    BY <1>4, <2>1, <2>2, <2>3
  <2> HIDE DEF new
  <2> QED
    BY <1>1, <1>2, <1>4, <2>1, <2>4, JobChanges, LinksChange
<1>9. CASE ForgetFailure(k)
  BY <1>1, <1>2, <1>9, JobChanges, LinksAlone DEF ForgetFailure
<1> QED
  BY <1>5, <1>6, <1>7, <1>8, <1>9 DEF Mail

-----------------------------------------------------------------------------
LEMMA InitiallyAccountsInv == AccountsInit => AccountsInv
<1> SUFFICES ASSUME AccountsInit PROVE AccountsInv
  OBVIOUS
<1>1. RequestsType
  BY DEF AccountsInit, RequestsType
<1>2. Alive = {}
  BY DEF AccountsInit, Alive, Exists
<1>3. open = [u \in Users |-> <<>>] /\ \A u \in Users : Len(open[u]) <= MaxOpen
  BY MaxOpenAssumption DEF AccountsInit
<1>4. RowsType
  BY <1>3 DEF AccountsInit, RowsType
<1>5. OneAlive /\ OfTheLiving /\ PeriodsFollowRoles
  BY <1>2 DEF AccountsInit, OneAlive, OfTheLiving, PeriodsFollowRoles
<1>6. LinksInv
  BY DEF AccountsInit, LinksInv, LinksType, SpentLinksGo, Live
<1>7. MailInv
  BY DEF AccountsInit, MailInv, TriesLeft, DeadAfterAllTries
<1> QED
  BY <1>1, <1>4, <1>5, <1>6, <1>7 DEF AccountsInv, RowsInv

\* Every step of the accounts keeps the inductive invariant.
THEOREM AccountsInvariance == AccountsSpec => []AccountsInv
<1>1. AccountsInit => AccountsInv
  BY InitiallyAccountsInv
<1>2. AccountsInv /\ [AccountsNext]_accountsVars => AccountsInv'
  <2> SUFFICES ASSUME AccountsInv, [AccountsNext]_accountsVars PROVE AccountsInv'
    OBVIOUS
  <2>1. ASSUME NEW r \in Requests, Read(r) \/ Write(r) PROVE AccountsInv'
    BY <2>1, ReadKeeps, WriteKeeps
  <2>2. ASSUME NEW u \in Users, Remove(u) PROVE AccountsInv'
    BY <2>2, DeletionsKeep
  <2>3. ASSUME NEW u \in Users, Logout(u) PROVE AccountsInv'
    BY <2>3, LogoutKeeps
  <2>4. ASSUME NEW t \in Tokens, ExpireLink(t) PROVE AccountsInv'
    BY <2>4, ExpireLinkKeeps
  <2>5. ASSUME NEW k \in Kinds, Mail(k) PROVE AccountsInv'
    BY <2>5, MailKeeps
  <2>6. CASE SelectUnverified \/ DeleteUnverified
    BY <2>6, SelectUnverifiedKeeps, DeletionsKeep
  <2>7. CASE UNCHANGED accountsVars
    BY <2>7, RowsAlone, LinksAlone, MailAlone, RequestsAlone DEF AccountsInv, accountsVars
  <2> QED
    BY <2>1, <2>2, <2>3, <2>4, <2>5, <2>6, <2>7 DEF AccountsNext
<1> QED
  BY <1>1, <1>2, PTL DEF AccountsSpec

LEMMA SoundAccounts == AccountsInv => AccountsAreSound
<1> SUFFICES ASSUME AccountsInv PROVE AccountsAreSound
  OBVIOUS
<1>1. Cardinality(Alive) <= 1
  <2>1. CASE Alive = {}
    BY <2>1, FS_EmptySet
  <2>2. ASSUME NEW u \in Alive PROVE Cardinality(Alive) <= 1
    <3>1. Alive = {u}
      BY DEF AccountsInv, RowsInv, OneAlive
    <3> QED
      BY <3>1, FS_Singleton
  <2> QED
    BY <2>1, <2>2
<1>2. OneAccountEach
  BY <1>1 DEF AccountsInv, RowsInv, OfTheLiving, OneAccountEach
<1>3. dead \subseteq 1..Attempts
  BY AttemptsAssumption DEF AccountsInv, MailInv, DeadAfterAllTries
<1>4. AccountsTypeOK
  BY <1>3 DEF AccountsInv, RequestsType, RowsInv, RowsType, LinksInv, LinksType, MailInv,
              AccountsTypeOK
<1> QED
  BY <1>2, <1>4 DEF AccountsAreSound, AccountsInv, RowsInv, LinksInv

\* One account of the address, nothing left of a deleted one, a role history
\* that follows the roles, and no spent link but one about to be deleted.
THEOREM AccountsSound == AccountsSpec => []AccountsAreSound
BY AccountsInvariance, SoundAccounts, PTL

\* Over retries, stalls and workers that die, only a mail that was tried as often
\* as is allowed is dead-lettered.
THEOREM DeadLetters == AccountsSpec => []DeadAfterAllTries
<1>1. AccountsInv => DeadAfterAllTries
  BY DEF AccountsInv, MailInv
<1> QED
  BY <1>1, AccountsInvariance, PTL

=============================================================================
