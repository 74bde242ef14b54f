------------------------------ MODULE HttpProofs ------------------------------
(***************************************************************************)
(* The two guards that every HTTP request passes, for any number of        *)
(* requests, keys and payloads: Idempotency and the limiter of Throttler.  *)
(* They share no state; what is proved of one never cites the other.       *)
(*                                                                         *)
(* Idempotency.  Handlers of a key exclude each other because, until a     *)
(* lock is lost, the lock is that of the request whose handler runs;       *)
(* answers fit because nothing but the response of a handler that          *)
(* committed is ever stored.  What a request does is a walk through        *)
(* stages, none of which is passed twice.                                  *)
(*                                                                         *)
(* Throttler.  A counter never lets through more than it has counted, and  *)
(* counts what it lets through up to the limit only; a counter in Redis    *)
(* without a lifetime is owed one by a call under way, or a call was cut   *)
(* off.  The tables of the process are sequences, and what their           *)
(* compaction keeps is an argument about the ranks of places.              *)
(***************************************************************************)
EXTENDS Idempotency, Throttler, FiniteSetTheorems, TLAPS

\* The lock is held by whoever runs under it.
RunnerHoldsLock ==
    ~lost => \A r \in Requests : pc[r] \in Running => lock = r

\* What a handler returns, it has done.
ReturnedCommitted ==
    \A r \in Requests : pc[r] = "returned" => r \in effects

IInv == TypeOK /\ RunnerHoldsLock /\ ReturnedCommitted /\ AnswersFit

-----------------------------------------------------------------------------
LEMMA InvInit == Init => IInv
  BY NoneAssumption
     DEF Init, IInv, TypeOK, Places, Running, RunnerHoldsLock,
         ReturnedCommitted, AnswersFit

LEMMA TypeStep == TypeOK /\ ReturnedCommitted /\ [Next]_vars => TypeOK'
<1> SUFFICES ASSUME TypeOK, ReturnedCommitted, [Next]_vars PROVE TypeOK'
  OBVIOUS
<1> USE DEF TypeOK, Places, Running, Answered, To, replyVars, DeleteLock,
            MayDeleteLock
<1>1. ASSUME NEW r \in Requests, Look(r) \/ Poll(r) PROVE TypeOK'
  BY <1>1 DEF Look, Poll, Replay
<1>2. ASSUME NEW r \in Requests,
             TakeLock(r) \/ LockBusy(r) \/ RedisFails(r) \/ WaitTimesOut(r)
      PROVE  TypeOK'
  BY <1>2 DEF TakeLock, LockBusy, RedisFails, WaitTimesOut
<1>3. ASSUME NEW r \in Requests, Commit(r) \/ Return(r) \/ Throw(r)
      PROVE  TypeOK'
  BY <1>3 DEF Commit, Return, Throw
<1>4. ASSUME NEW r \in Requests, Store(r) PROVE TypeOK'
  BY <1>4 DEF Store, ReturnedCommitted
<1>5. ASSUME NEW r \in Requests, Release(r) \/ Fail(r) PROVE TypeOK'
  BY <1>5 DEF Release, Fail
<1>6. CASE Environment
  BY <1>6 DEF Environment, Die, ExpireLock, ExpireResponse
<1>7. CASE UNCHANGED vars
  BY <1>7 DEF vars
<1> HIDE DEF TypeOK
<1> QED
  BY <1>1, <1>2, <1>3, <1>4, <1>5, <1>6, <1>7 DEF Next, Intercept

\* Deleting a lock either leaves the lock of a runner alone or is noted.
LEMMA LockStep == IInv /\ [Next]_vars => RunnerHoldsLock'
<1> SUFFICES ASSUME IInv, [Next]_vars PROVE RunnerHoldsLock'
  OBVIOUS
<1> USE DEF IInv, TypeOK, Places, Running, Answered, To, RunnerHoldsLock
<1>1. ASSUME NEW r \in Requests,
             \/ Look(r) \/ LockBusy(r) \/ RedisFails(r) \/ Poll(r)
             \/ WaitTimesOut(r) \/ Commit(r) \/ Return(r) \/ Throw(r)
      PROVE  RunnerHoldsLock'
  BY <1>1, NoneAssumption
     DEF Look, Replay, LockBusy, RedisFails, Poll, WaitTimesOut, Commit,
         Return, Throw
<1>2. ASSUME NEW r \in Requests, TakeLock(r) PROVE RunnerHoldsLock'
  BY <1>2, NoneAssumption DEF TakeLock
<1>3. ASSUME NEW r \in Requests, Store(r) PROVE RunnerHoldsLock'
  BY <1>3 DEF Store
<1>4. ASSUME NEW r \in Requests, Release(r) \/ Fail(r) PROVE RunnerHoldsLock'
  <2>1. /\ pc[r] \notin Running /\ pc'[r] \notin Running
        /\ \A q \in Requests : q # r => pc'[q] = pc[q]
    BY <1>4 DEF Release, Fail
  <2>2. CASE UNCHANGED <<lock, lost>>
    BY <2>1, <2>2
  <2>3. CASE DeleteLock(r)
    <3>1. ~lost' => \A q \in Requests \ {r} : ~(lock = q /\ pc[q] \in Running)
      BY <2>3 DEF DeleteLock
    <3>2. ~lost' => ~lost
      BY <2>3 DEF DeleteLock
    <3> QED
      BY <2>1, <3>1, <3>2
  <2> QED
    BY <1>4, <2>2, <2>3 DEF Release, Fail, MayDeleteLock
<1>5. CASE Environment
  BY <1>5, NoneAssumption DEF Environment, Die, ExpireLock, DeleteLock, ExpireResponse
<1>6. CASE UNCHANGED vars
  BY <1>6 DEF vars
<1> HIDE DEF IInv, TypeOK, RunnerHoldsLock, Places, Running, Answered, To
<1> QED
  BY <1>1, <1>2, <1>3, <1>4, <1>5, <1>6 DEF Next, Intercept

\* Effects only grow, and only what is in them is answered with.
LEMMA AnswerStep == IInv /\ [Next]_vars => ReturnedCommitted' /\ AnswersFit'
<1> SUFFICES ASSUME IInv, [Next]_vars
             PROVE  ReturnedCommitted' /\ AnswersFit'
  OBVIOUS
<1> USE DEF IInv, TypeOK, Places, Running, Answered, To, replyVars,
            ReturnedCommitted, AnswersFit
<1>1. ASSUME NEW r \in Requests, Look(r) \/ Poll(r)
      PROVE  ReturnedCommitted' /\ AnswersFit'
  <2>1. UNCHANGED <<response, effects>> /\ \A q \in Requests : q # r =>
           pc'[q] = pc[q] /\ answer'[q] = answer[q]
    BY <1>1 DEF Look, Poll, Replay
  <2>2. \/ pc'[r] = "missed"
        \/ /\ pc'[r] = "replayed" /\ answer'[r] = response
           /\ response \in effects /\ Payload[response] = Payload[r]
        \/ /\ pc'[r] = "conflict"
           /\ response \in effects /\ Payload[response] # Payload[r]
    BY <1>1 DEF Look, Poll, Replay
  <2> QED
    BY <2>1, <2>2
<1>2. ASSUME NEW r \in Requests,
             \/ TakeLock(r) \/ LockBusy(r) \/ RedisFails(r) \/ WaitTimesOut(r)
             \/ Return(r) \/ Throw(r) \/ Store(r) \/ Release(r) \/ Fail(r)
      PROVE  ReturnedCommitted' /\ AnswersFit'
  BY <1>2 DEF TakeLock, LockBusy, RedisFails, WaitTimesOut, Return, Throw,
              Store, Release, Fail
<1>3. ASSUME NEW r \in Requests, Commit(r)
      PROVE  ReturnedCommitted' /\ AnswersFit'
  BY <1>3 DEF Commit
<1>4. CASE Environment
  BY <1>4 DEF Environment, Die, ExpireLock, ExpireResponse
<1>5. CASE UNCHANGED vars
  BY <1>5 DEF vars
<1> HIDE DEF IInv, TypeOK, ReturnedCommitted, AnswersFit, Places, Running,
             Answered, To, replyVars
<1> QED
  BY <1>1, <1>2, <1>3, <1>4, <1>5 DEF Next, Intercept

-----------------------------------------------------------------------------
(* What holds of Idempotency *)

\* The strengthening of the invariants is inductive.
THEOREM Invariance == Spec => []IInv
<1>1. IInv /\ [Next]_vars => IInv'
  BY TypeStep, LockStep, AnswerStep DEF IInv
<1> QED
  BY InvInit, <1>1, PTL DEF Spec

\* Every variable holds what its declaration says.
THEOREM TypeCorrect == Spec => []TypeOK
<1>1. IInv => TypeOK
  BY DEF IInv
<1> QED
  BY Invariance, <1>1, PTL

\* Handlers of a key exclude each other until a lock is lost.
THEOREM MutualExclusion == Spec => []Serialised
<1>1. IInv => Serialised
  BY DEF IInv, RunnerHoldsLock, Serialised
<1> QED
  BY Invariance, <1>1, PTL

\* Replays and conflicts are those of a handler that did its work.
THEOREM Answers == Spec => []AnswersFit
<1>1. IInv => AnswersFit
  BY DEF IInv
<1> QED
  BY Invariance, <1>1, PTL

-----------------------------------------------------------------------------
(* How far requests come *)

Stage(place) ==
    CASE place = "new" -> 0
      [] place = "missed" -> 1
      [] place \in {"waiting", "running"} -> 2
      [] place = "returned" -> 3
      [] place = "stored" -> 4
      [] place = "throwing" -> 5
      [] place \in Answered \union {"dead"} -> 6

\* One request at a time moves, and only forwards; its answer comes with a move.
Advances ==
    \A r \in Requests :
        \/ pc'[r] = pc[r] /\ answer'[r] = answer[r]
        \/ /\ Stage(pc[r]) < Stage(pc'[r])
           /\ \A q \in Requests \ {r} : pc'[q] = pc[q] /\ answer'[q] = answer[q]

LEMMA Stages ==
    /\ \A place \in Places : Stage(place) \in 0..6
    /\ Stage("new") = 0 /\ Stage("missed") = 1 /\ Stage("waiting") = 2
    /\ Stage("running") = 2 /\ Stage("returned") = 3 /\ Stage("stored") = 4
    /\ Stage("throwing") = 5
    /\ \A place \in Answered \union {"dead"} : Stage(place) = 6
BY DEF Stage, Places, Running, Answered

\* A request moves to a later place, and nothing else changes of the others.
LEMMA MoveAdvances ==
    ASSUME TypeOK, NEW r \in Requests, NEW place, To(r, place),
           Stage(pc[r]) < Stage(place),
           \A q \in Requests \ {r} : answer'[q] = answer[q]
    PROVE  Advances
BY DEF TypeOK, To, Advances

LEMMA StepAdvances ==
    ASSUME TypeOK, [Next]_vars
    PROVE  Advances
<1>1. CASE UNCHANGED <<pc, answer>>
  BY <1>1 DEF Advances
<1>2. ASSUME NEW r \in Requests, Look(r) \/ Poll(r) PROVE Advances
  <2>1. pc[r] \in {"new", "waiting"} /\ \A q \in Requests \ {r} : answer'[q] = answer[q]
    BY <1>2 DEF Look, Poll, Replay, TypeOK
  <2>2. \E place \in {"replayed", "conflict", "missed"} :
           To(r, place) /\ (place = "missed" => pc[r] = "new")
    BY <1>2 DEF Look, Poll, Replay
  <2> QED
    BY <2>1, <2>2, Stages, MoveAdvances DEF Answered
<1>3. ASSUME NEW r \in Requests,
             \/ TakeLock(r) \/ LockBusy(r) \/ RedisFails(r) \/ WaitTimesOut(r)
             \/ Return(r) \/ Throw(r)
      PROVE  Advances
  <2>1. /\ answer' = answer
        /\ \/ pc[r] = "missed" /\ (To(r, "running") \/ To(r, "waiting") \/ To(r, "failed"))
           \/ pc[r] \in {"new", "waiting"} /\ (To(r, "failed") \/ To(r, "busy"))
           \/ pc[r] = "running" /\ (To(r, "returned") \/ To(r, "throwing"))
    BY <1>3 DEF TakeLock, LockBusy, RedisFails, WaitTimesOut, Return, Throw, replyVars
  <2> QED
    BY <2>1, Stages, MoveAdvances DEF Answered
<1>4. ASSUME NEW r \in Requests, Store(r) \/ Release(r) \/ Fail(r) PROVE Advances
  <2>1. /\ answer' = answer
        /\ \/ pc[r] = "returned" /\ (To(r, "stored") \/ To(r, "throwing"))
           \/ pc[r] = "stored" /\ (To(r, "created") \/ To(r, "throwing"))
           \/ pc[r] = "throwing" /\ To(r, "failed")
    BY <1>4 DEF Store, Release, Fail, replyVars
  <2> QED
    BY <2>1, Stages, MoveAdvances DEF Answered
<1>5. ASSUME NEW r \in Requests, Die(r) PROVE Advances
  <2>1. /\ answer' = answer /\ To(r, "dead")
        /\ pc[r] \in {"missed", "waiting", "running", "returned", "stored", "throwing"}
    BY <1>5 DEF Die, replyVars, TypeOK, Places, Running, Answered
  <2> QED
    BY <2>1, Stages, MoveAdvances
<1> QED
  BY <1>1, <1>2, <1>3, <1>4, <1>5
     DEF Next, Intercept, Environment, Commit, ExpireLock, ExpireResponse, replyVars, vars

(***************************************************************************)
(* Requests advance: a step of the interceptor moves one request at most,  *)
(* and to a later stage, so that each is through after six of its steps    *)
(* whatever the others do, and what it was answered is never changed.      *)
(***************************************************************************)
THEOREM RequestsAdvance == Spec => [][Advances]_vars
<1>1. TypeOK /\ [Next]_vars => [Advances]_vars
  BY StepAdvances
<1> QED
  BY <1>1, TypeCorrect, PTL DEF Spec

-----------------------------------------------------------------------------
(* Places of a table and their ranks *)

LEMMA PlacesAreFinite ==
    ASSUME NEW n \in Nat, NEW S \in SUBSET (1..n)
    PROVE  IsFiniteSet(S) /\ Cardinality(S) \in Nat
<1>1. IsFiniteSet(1..n)
  BY FS_Interval
<1> QED
  BY <1>1, FS_Subset, FS_CardinalityType

\* Strict inclusion has no infinite descent among the sets of places.
LEMMA SmallestSet ==
    ASSUME NEW P, IsFiniteSet(P), NEW F \in SUBSET SUBSET P, F # {}
    PROVE  \E A \in F : \A B \in F : B \subseteq A => B = A
<1>1. IsWellFoundedOn(StrictSubsetOrdering(P), FiniteSubsetsOf(P))
  BY FS_StrictSubsetOrderingWellFounded
<1>2. F \subseteq FiniteSubsetsOf(P)
  BY FS_Subset DEF FiniteSubsetsOf
<1>3. PICK A \in F : \A B \in F : ~(<<B, A>> \in StrictSubsetOrdering(P))
  BY <1>1, <1>2, WFMin
<1> QED
  BY <1>3 DEF StrictSubsetOrdering

\* The numbers of a set on one side of one of them.
LEMMA Sides ==
    ASSUME NEW S, \A x \in S : x \in Int, NEW i \in S
    PROVE  /\ i \in {k \in S : k <= i} /\ i \in {k \in S : i <= k}
           /\ {k \in S : k < i} = {k \in S : k <= i} \ {i}
           /\ \A j \in S : j < i => /\ {k \in S : k <= j} \subseteq {k \in S : k <= i}
                                    /\ i \notin {k \in S : k <= j}
           /\ \A j \in S : i < j => /\ {k \in S : j <= k} \subseteq {k \in S : i <= k}
                                    /\ i \notin {k \in S : j <= k}
           /\ \A p \in {k \in S : k < i} :
                 (\A k \in {k \in S : k < i} : k <= p)
                     => {k \in S : k <= p} = {k \in S : k < i}
OBVIOUS

\* A set of places that is not empty has a first and a last one.
LEMMA FirstPlace ==
    ASSUME NEW n \in Nat, NEW S \in SUBSET (1..n), S # {}
    PROVE  \E i \in S : \A j \in S : i <= j
<1> DEFINE upto(i) == {j \in S : j <= i}
           F == {upto(i) : i \in S}
<1>1. PICK A \in F : \A B \in F : B \subseteq A => B = A
  <2>1. \A i \in S : upto(i) \in SUBSET (1..n)
    OBVIOUS
  <2> DEFINE P == 1..n
  <2>2. F \in SUBSET SUBSET P /\ F # {}
    BY <2>1
  <2>3. IsFiniteSet(P)
    BY FS_Interval
  <2> HIDE DEF F, P
  <2> QED
    BY <2>2, <2>3, SmallestSet
<1>2. PICK i \in S : A = upto(i)
  BY <1>1
<1>3. ASSUME NEW j \in S, j < i PROVE FALSE
  <2>1. \A x \in S : x \in Int
    OBVIOUS
  <2>2. upto(j) \in F
    OBVIOUS
  <2>3. upto(j) \subseteq upto(i) /\ i \in upto(i) /\ i \notin upto(j)
    BY <1>3, <2>1, Sides
  <2> HIDE DEF F, upto
  <2> QED
    BY <2>2, <2>3, <1>1, <1>2
<1> QED
  BY <1>3

LEMMA LastPlace ==
    ASSUME NEW n \in Nat, NEW S \in SUBSET (1..n), S # {}
    PROVE  \E i \in S : \A j \in S : j <= i
<1> DEFINE from(i) == {j \in S : i <= j}
           F == {from(i) : i \in S}
<1>1. PICK A \in F : \A B \in F : B \subseteq A => B = A
  <2>1. \A i \in S : from(i) \in SUBSET (1..n)
    OBVIOUS
  <2> DEFINE P == 1..n
  <2>2. F \in SUBSET SUBSET P /\ F # {}
    BY <2>1
  <2>3. IsFiniteSet(P)
    BY FS_Interval
  <2> HIDE DEF F, P
  <2> QED
    BY <2>2, <2>3, SmallestSet
<1>2. PICK i \in S : A = from(i)
  BY <1>1
<1>3. ASSUME NEW j \in S, i < j PROVE FALSE
  <2>1. \A x \in S : x \in Int
    OBVIOUS
  <2>2. from(j) \in F
    OBVIOUS
  <2>3. from(j) \subseteq from(i) /\ i \in from(i) /\ i \notin from(j)
    BY <1>3, <2>1, Sides
  <2> HIDE DEF F, from
  <2> QED
    BY <2>2, <2>3, <1>1, <1>2
<1> QED
  BY <1>3

\* Every number up to the size of a set of places is the rank of one of them.
LEMMA EveryRank ==
    ASSUME NEW n \in Nat, NEW S \in SUBSET (1..n), NEW m \in 1..Cardinality(S)
    PROVE  \E i \in S : Cardinality({j \in S : j <= i}) = m
<1> DEFINE Upto(i) == {j \in S : j <= i}
           rank(i) == Cardinality(Upto(i))
           T == {i \in S : rank(i) >= m}
<1>0. \A x \in S : x \in Int
  OBVIOUS
<1>1. Cardinality(S) \in Nat /\ \A i \in S : rank(i) \in Nat
  <2>1. \A i \in S : Upto(i) \in SUBSET (1..n)
    OBVIOUS
  <2> QED
    BY <2>1, PlacesAreFinite
<1>2. T # {}
  <2>1. S # {}
    BY FS_EmptySet
  <2>2. PICK g \in S : \A j \in S : j <= g
    BY <2>1, LastPlace
  <2>3. Upto(g) = S
    BY <2>2
  <2> QED
    BY <2>3, <1>1
<1>3. PICK i \in T : \A j \in T : i <= j
  <2>1. T \in SUBSET (1..n)
    OBVIOUS
  <2> HIDE DEF T
  <2> QED
    BY <2>1, <1>2, FirstPlace
<1>4. SUFFICES ASSUME rank(i) > m PROVE FALSE
  BY <1>1, <1>3
<1> DEFINE B == {j \in S : j < i}
<1>5. IsFiniteSet(B) /\ Cardinality(B) = rank(i) - 1
  <2>1. Upto(i) \in SUBSET (1..n) /\ i \in Upto(i) /\ B = Upto(i) \ {i}
    BY <1>0, <1>3, Sides
  <2> QED
    BY <2>1, PlacesAreFinite, FS_RemoveElement
<1>6. B # {}
  BY <1>5, <1>4, <1>1, <1>3, FS_EmptySet
<1>7. PICK p \in B : \A j \in B : j <= p
  <2>1. B \in SUBSET (1..n)
    OBVIOUS
  <2> HIDE DEF B
  <2> QED
    BY <2>1, <1>6, LastPlace
<1>8. Upto(p) = B
  BY <1>3, <1>7, <1>0, Sides
<1>9. p \in T
  BY <1>8, <1>5, <1>4, <1>1, <1>3
<1> QED
  BY <1>9, <1>7, <1>3

\* What a table has at some places, in order: as many entries, each that of
\* one of the places, no two that of the same.
LEMMA InOrderEntries ==
    ASSUME NEW E, NEW table \in Seq(E), NEW S \in SUBSET DOMAIN table
    PROVE  /\ InOrder(table, S) \in Seq(E)
           /\ Len(InOrder(table, S)) = Cardinality(S)
           /\ \E f \in [1..Cardinality(S) -> S] :
                 /\ \A a, b \in 1..Cardinality(S) : f[a] = f[b] => a = b
                 /\ \A a \in 1..Cardinality(S) : InOrder(table, S)[a] = table[f[a]]
<1> DEFINE size == Cardinality(S)
           place(m) == CHOOSE i \in S : Cardinality({j \in S : j <= i}) = m
           f == [m \in 1..size |-> place(m)]
<1>1. S \in SUBSET (1..Len(table)) /\ Len(table) \in Nat
  OBVIOUS
<1>2. size \in Nat
  BY <1>1, PlacesAreFinite
<1>3. \A m \in 1..size : place(m) \in S /\ Cardinality({j \in S : j <= place(m)}) = m
  <2> SUFFICES ASSUME NEW m \in 1..size
               PROVE  place(m) \in S /\ Cardinality({j \in S : j <= place(m)}) = m
    OBVIOUS
  <2>1. \E i \in S : Cardinality({j \in S : j <= i}) = m
    BY <1>1, EveryRank
  <2> QED
    BY <2>1
<1>4. f \in [1..size -> S] /\ \A m \in 1..size : f[m] = place(m)
  BY <1>3
<1>5. \A a, b \in 1..size : f[a] = f[b] => a = b
  <2> HIDE DEF f, place
  <2> QED
    BY <1>3, <1>4
<1>6. InOrder(table, S) = [m \in 1..size |-> table[f[m]]]
  BY <1>4 DEF InOrder
<1> HIDE DEF f, size
<1>7. \A m \in 1..size : table[f[m]] \in E
  BY <1>4, <1>1
<1>8. InOrder(table, S) \in Seq(E) /\ Len(InOrder(table, S)) = size
  BY <1>2, <1>6, <1>7
<1> QED
  BY <1>4, <1>5, <1>6, <1>8 DEF size

-----------------------------------------------------------------------------
(* The tables of the process *)

\* Of the places that are alive, at most MaxKeys are kept.
LEMMA NewestAreFew ==
    ASSUME NEW n \in Nat, NEW S \in SUBSET (1..n)
    PROVE  NewestOf(S) \in SUBSET S /\ Cardinality(NewestOf(S)) <= MaxKeys
<1> DEFINE N == NewestOf(S)
           after(i) == {j \in S : j > i}
<1>1. N \in SUBSET S /\ N \in SUBSET (1..n)
  BY DEF NewestOf
<1>2. MaxKeys \in Nat \ {0}
  BY LimitsAssumption
<1>3. CASE N = {}
  BY <1>1, <1>2, <1>3, FS_EmptySet
<1>4. CASE N # {}
  <2>1. PICK e \in N : \A j \in N : e <= j
    <3> HIDE DEF N
    <3> QED
      BY <1>1, <1>4, FirstPlace
  <2>2. after(e) \in SUBSET (1..n)
    OBVIOUS
  <2>3. IsFiniteSet(after(e)) /\ Cardinality(after(e)) \in Nat
    <3> HIDE DEF after
    <3> QED
      BY <2>2, PlacesAreFinite
  <2>4. Cardinality(after(e)) < MaxKeys
    BY DEF NewestOf
  <2>5. N \subseteq after(e) \union {e}
    <3> SUFFICES ASSUME NEW j \in N, j # e PROVE j \in S /\ j > e
      OBVIOUS
    <3>1. j \in S /\ j \in Int /\ e \in Int
      BY <1>1
    <3> QED
      BY <3>1, <2>1
  <2> HIDE DEF N, after
  <2>6. IsFiniteSet(after(e) \union {e}) /\ Cardinality(after(e) \union {e}) <= Cardinality(after(e)) + 1
    BY <2>3, FS_AddElement
  <2>7. Cardinality(N) <= Cardinality(after(e) \union {e}) /\ Cardinality(N) \in Nat
    BY <2>5, <2>6, FS_Subset, FS_CardinalityType
  <2>8. Cardinality(after(e) \union {e}) \in Nat
    BY <2>6, FS_CardinalityType
  <2> QED
    BY <1>1, <1>2, <2>3, <2>4, <2>6, <2>7, <2>8 DEF N
<1> QED
  BY <1>3, <1>4

\* A compacted table has at most MaxKeys entries, each at a place of its own in
\* the table it was.
LEMMA CompactEntries ==
    ASSUME NEW E, NEW table \in Seq(E)
    PROVE  /\ Compact(table) \in Seq(E)
           /\ Len(Compact(table)) <= MaxKeys
           /\ \E f \in [DOMAIN Compact(table) -> DOMAIN table] :
                 /\ \A a, b \in DOMAIN Compact(table) : f[a] = f[b] => a = b
                 /\ \A a \in DOMAIN Compact(table) : Compact(table)[a] = table[f[a]]
<1> DEFINE S == NewestOf(Alive(table))
           size == Cardinality(S)
<1>1. Len(table) \in Nat /\ DOMAIN table = 1..Len(table)
  OBVIOUS
<1>2. Alive(table) \in SUBSET (1..Len(table))
  BY <1>1 DEF Alive
<1>3. S \in SUBSET DOMAIN table /\ size <= MaxKeys
  BY <1>1, <1>2, NewestAreFew
<1> HIDE DEF S
<1>4. /\ InOrder(table, S) \in Seq(E)
      /\ Len(InOrder(table, S)) = size
      /\ \E f \in [1..size -> S] :
            /\ \A a, b \in 1..size : f[a] = f[b] => a = b
            /\ \A a \in 1..size : InOrder(table, S)[a] = table[f[a]]
  BY <1>3, InOrderEntries
<1>5. Compact(table) = InOrder(table, S)
  BY DEF Compact, S
<1> HIDE DEF size
<1>6. DOMAIN Compact(table) = 1..size
  BY <1>4, <1>5
<1>7. PICK f \in [1..size -> S] :
            /\ \A a, b \in 1..size : f[a] = f[b] => a = b
            /\ \A a \in 1..size : InOrder(table, S)[a] = table[f[a]]
  BY <1>4
<1>8. f \in [DOMAIN Compact(table) -> DOMAIN table]
  BY <1>3, <1>6
<1> QED
  BY <1>3, <1>4, <1>5, <1>6, <1>7, <1>8

\* No two entries of a table have the same key, and none that of a payment.
KeysFit(table) ==
    /\ \A i, j \in DOMAIN table : table[i].key = table[j].key => i = j
    /\ \A i \in DOMAIN table : table[i].key \notin Payments

LEMMA CompactFits ==
    ASSUME NEW E, NEW table \in Seq(E), KeysFit(table)
    PROVE  KeysFit(Compact(table))
<1>1. PICK f \in [DOMAIN Compact(table) -> DOMAIN table] :
                 /\ \A a, b \in DOMAIN Compact(table) : f[a] = f[b] => a = b
                 /\ \A a \in DOMAIN Compact(table) : Compact(table)[a] = table[f[a]]
  BY CompactEntries
<1> QED
  BY <1>1 DEF KeysFit

\* Putting an entry adds one at most, and keeps the others.
LEMMA PutEntries ==
    ASSUME NEW E, NEW table \in Seq(E), NEW e \in E
    PROVE  /\ Put(table, e) \in Seq(E)
           /\ Len(Put(table, e)) <= Len(table) + 1
           /\ \A i \in DOMAIN Put(table, e) :
                 Put(table, e)[i] = e \/ \E j \in DOMAIN table : Put(table, e)[i] = table[j]
<1>1. CASE At1(table, e.key) = {}
  BY <1>1 DEF Put
<1>2. CASE At1(table, e.key) # {}
  <2>1. Put(table, e) = [i \in 1..Len(table) |-> IF table[i].key = e.key THEN e ELSE table[i]]
    BY <1>2 DEF Put
  <2>2. Put(table, e) \in Seq(E) /\ Len(Put(table, e)) = Len(table)
    BY <2>1
  <2> QED
    BY <2>1, <2>2
<1> QED
  BY <1>1, <1>2

LEMMA PutFits ==
    ASSUME NEW E, NEW table \in Seq(E), NEW e \in E, KeysFit(table), e.key \notin Payments
    PROVE  KeysFit(Put(table, e))
<1>1. CASE At1(table, e.key) = {}
  <2>1. \A i \in DOMAIN table : table[i].key # e.key
    BY <1>1 DEF At1
  <2>2. Put(table, e) = Append(table, e)
    BY <1>1 DEF Put
  <2> QED
    BY <2>1, <2>2 DEF KeysFit
<1>2. CASE At1(table, e.key) # {}
  <2>1. Put(table, e) = [i \in DOMAIN table |-> IF table[i].key = e.key THEN e ELSE table[i]]
    BY <1>2 DEF Put
  <2>2. DOMAIN Put(table, e) = DOMAIN table
        /\ \A i \in DOMAIN table : Put(table, e)[i].key = table[i].key
    BY <2>1
  <2> QED
    BY <2>2 DEF KeysFit
<1> QED
  BY <1>1, <1>2

-----------------------------------------------------------------------------
(* The invariant of the limiter *)

RedisType ==
    /\ hits \in [Keys -> 0..MaxHits]
    /\ life \in [Keys -> NoExpiry..Ttl]
    /\ block \in [Keys -> 0..BlockDuration]
    /\ call \in [Calls -> Call \union {NoCall}]
    /\ passed \in [Keys -> Nat]
    /\ cut \in SUBSET Keys

MemoryType == memory \in Seq(Counter) /\ blocks \in Seq(Ban)

\* A counter of Redis has some life or none at all, and lets through no more
\* than it has counted.
RedisCounts ==
    \A k \in Keys : (life[k] = 0 <=> hits[k] = 0) /\ passed[k] <= hits[k] /\ passed[k] <= Limit

\* So does a counter of the process.
Counts(table) ==
    \A i \in DOMAIN table : table[i].passed <= table[i].hits /\ table[i].passed <= Limit

RedisInv == RedisType /\ RedisCounts /\ CountersExpire
MemoryInv ==
    /\ MemoryType
    /\ Counts(memory)
    /\ KeysFit(memory) /\ Len(memory) <= MaxKeys + 1
    /\ KeysFit(blocks) /\ Len(blocks) <= MaxKeys + 1

LEMMA Numbers ==
    /\ Limit \in Nat /\ Limit >= 1 /\ Ttl \in Nat /\ Ttl >= 1 /\ MaxKeys \in Nat /\ MaxKeys >= 1
    /\ Block \in Nat /\ MaxHits \in Nat
    /\ BlockDuration \in Nat /\ BlockDuration >= 1
BY LimitsAssumption DEF BlockDuration

-----------------------------------------------------------------------------
(* The memory of the process *)

LEMMA CounterFields ==
    ASSUME NEW c \in Counter
    PROVE  c.key \in Keys /\ c.hits \in Nat /\ c.left \in Nat /\ c.passed \in Nat
BY DEF Counter

LEMMA CounterMade ==
    ASSUME NEW k \in Keys, NEW h \in Nat, NEW l \in Nat, NEW p \in Nat
    PROVE  /\ [key |-> k, hits |-> h, left |-> l, passed |-> p] \in Counter
           /\ [key |-> k, hits |-> h, left |-> l, passed |-> p].key = k
           /\ [key |-> k, hits |-> h, left |-> l, passed |-> p].hits = h
           /\ [key |-> k, hits |-> h, left |-> l, passed |-> p].passed = p
BY DEF Counter

LEMMA CounterAges ==
    ASSUME NEW c \in Counter
    PROVE  /\ [c EXCEPT !.left = Less(c.left)] \in Counter
           /\ [c EXCEPT !.left = Less(c.left)].key = c.key
           /\ [c EXCEPT !.left = Less(c.left)].hits = c.hits
           /\ [c EXCEPT !.left = Less(c.left)].passed = c.passed
BY DEF Counter, Less

LEMMA BanMade ==
    ASSUME NEW k \in Keys, NEW l \in Nat
    PROVE  [key |-> k, left |-> l] \in Ban /\ [key |-> k, left |-> l].key = k
BY DEF Ban

LEMMA BanAges ==
    ASSUME NEW e \in Ban
    PROVE  /\ [e EXCEPT !.left = Less(e.left)] \in Ban
           /\ [e EXCEPT !.left = Less(e.left)].key = e.key
BY DEF Ban, Less

LEMMA CompactCounts ==
    ASSUME NEW table \in Seq(Counter), Counts(table)
    PROVE  Counts(Compact(table))
<1>1. PICK f \in [DOMAIN Compact(table) -> DOMAIN table] :
                 /\ \A a, b \in DOMAIN Compact(table) : f[a] = f[b] => a = b
                 /\ \A a \in DOMAIN Compact(table) : Compact(table)[a] = table[f[a]]
  BY CompactEntries
<1> QED
  BY <1>1 DEF Counts

LEMMA PutCounts ==
    ASSUME NEW table \in Seq(Counter), NEW e \in Counter, Counts(table),
           e.passed <= e.hits, e.passed <= Limit
    PROVE  Counts(Put(table, e))
<1>1. \A i \in DOMAIN Put(table, e) :
         Put(table, e)[i] = e \/ \E j \in DOMAIN table : Put(table, e)[i] = table[j]
  BY PutEntries
<1> QED
  BY <1>1 DEF Counts

\* A hit is counted in a counter that is there or in a new one.
LEMMA IncrementKeeps ==
    ASSUME MemoryInv, NEW k \in Keys \ Payments, IncrementInMemory(k)
    PROVE  MemoryInv'
<1> DEFINE counters == Compact(memory)
           bans == Compact(blocks)
           known == {counters[i] : i \in At1(counters, k)}
           fresh == [key |-> k, hits |-> 0, left |-> Ttl, passed |-> 0]
           counter == CHOOSE c \in known \union {fresh} : known # {} => c \in known
           n == counter.hits + 1
           p == IF Over(n) THEN counter.passed ELSE counter.passed + 1
<1>1. /\ counters \in Seq(Counter) /\ Len(counters) <= MaxKeys
      /\ bans \in Seq(Ban) /\ Len(bans) <= MaxKeys
  BY CompactEntries DEF MemoryInv, MemoryType
<1>2. KeysFit(counters) /\ KeysFit(bans) /\ Counts(counters)
  BY CompactFits, CompactCounts DEF MemoryInv, MemoryType
<1> HIDE DEF counters, bans
<1>3. /\ counter \in Counter /\ counter.key = k
      /\ counter.passed <= counter.hits /\ counter.passed <= Limit
  <2>1. \A c \in known : c \in Counter /\ c.key = k /\ c.passed <= c.hits /\ c.passed <= Limit
    BY <1>1, <1>2 DEF At1, Counts
  <2>2. fresh \in Counter /\ fresh.key = k /\ fresh.passed <= fresh.hits /\ fresh.passed <= Limit
    BY Numbers, CounterMade
  <2> HIDE DEF known, fresh
  <2>3. counter \in known \union {fresh}
    <3>1. \E c \in known \union {fresh} : known # {} => c \in known
      OBVIOUS
    <3> QED
      BY <3>1
  <2> HIDE DEF counter
  <2> QED
    BY <2>1, <2>2, <2>3
<1>4. \/ memory' = counters /\ blocks' = bans
      \/ /\ memory' = Put(counters, [counter EXCEPT !.hits = n, !.passed = p])
         /\ blocks' = IF Over(n) THEN Put(bans, [key |-> k, left |-> BlockDuration]) ELSE bans
  BY DEF IncrementInMemory, counters, bans
<1> HIDE DEF counter
<1>5. n \in Nat /\ p \in Nat /\ p <= n /\ p <= Limit
  BY <1>3, CounterFields, Numbers DEF Over
<1> HIDE DEF n, p
<1> DEFINE entry == [counter EXCEPT !.hits = n, !.passed = p]
           ban == [key |-> k, left |-> BlockDuration]
<1>6. entry \in Counter /\ entry.key = k /\ entry.hits = n /\ entry.passed = p
  <2>1. PICK c \in Counter, h \in Nat, q \in Nat : c = counter /\ h = n /\ q = p
    BY <1>3, <1>5
  <2>2. entry = [c EXCEPT !.hits = h, !.passed = q]
    BY <2>1
  <2> HIDE DEF entry
  <2>3. entry \in Counter /\ entry.key = c.key /\ entry.hits = h /\ entry.passed = q
    BY <2>1, <2>2 DEF Counter
  <2> QED
    BY <1>3, <2>1, <2>3
<1>7. ban \in Ban /\ ban.key = k
  BY Numbers, BanMade
<1> HIDE DEF entry, ban
<1>8. /\ Put(counters, entry) \in Seq(Counter) /\ Len(Put(counters, entry)) <= Len(counters) + 1
      /\ KeysFit(Put(counters, entry)) /\ Counts(Put(counters, entry))
  BY <1>1, <1>2, <1>5, <1>6, PutEntries, PutFits, PutCounts
<1>9. /\ Put(bans, ban) \in Seq(Ban) /\ Len(Put(bans, ban)) <= Len(bans) + 1
      /\ KeysFit(Put(bans, ban))
  BY <1>1, <1>2, <1>7, PutEntries, PutFits
<1>10. /\ memory' \in Seq(Counter) /\ KeysFit(memory') /\ Counts(memory')
       /\ Len(memory') <= MaxKeys + 1
  <2>1. Len(counters) \in Nat /\ Len(Put(counters, entry)) \in Nat
    BY <1>1, <1>8
  <2>2. memory' = counters \/ memory' = Put(counters, entry)
    BY <1>4 DEF entry
  <2> QED
    BY <1>1, <1>2, <1>8, <2>1, <2>2, Numbers
<1>11. blocks' \in Seq(Ban) /\ KeysFit(blocks') /\ Len(blocks') <= MaxKeys + 1
  <2>1. Len(bans) \in Nat /\ Len(Put(bans, ban)) \in Nat
    BY <1>1, <1>9
  <2>2. blocks' = bans \/ blocks' = Put(bans, ban)
    BY <1>4 DEF ban
  <2> QED
    BY <1>1, <1>2, <1>9, <2>1, <2>2, Numbers
<1>12. MemoryType'
  BY <1>10, <1>11 DEF MemoryType
<1>13. /\ Counts(memory)' /\ KeysFit(memory)' /\ KeysFit(blocks)'
       /\ (Len(memory) <= MaxKeys + 1)' /\ (Len(blocks) <= MaxKeys + 1)'
  BY <1>10, <1>11 DEF Counts, KeysFit
<1> QED
  BY <1>12, <1>13 DEF MemoryInv

\* Time changes what is left of the entries, and nothing else of them.
LEMMA AgeingKeeps ==
    ASSUME MemoryInv, Tick
    PROVE  MemoryInv'
<1> USE DEF MemoryInv, MemoryType
<1>1. memory' = [i \in 1..Len(memory) |-> [memory[i] EXCEPT !.left = Less(memory[i].left)]]
  BY DEF Tick
<1>2. blocks' = [i \in 1..Len(blocks) |-> [blocks[i] EXCEPT !.left = Less(blocks[i].left)]]
  BY DEF Tick
<1>3. \A i \in 1..Len(memory) :
         /\ memory[i] \in Counter /\ memory'[i] \in Counter /\ memory'[i].key = memory[i].key
         /\ memory'[i].hits = memory[i].hits /\ memory'[i].passed = memory[i].passed
  <2> SUFFICES ASSUME NEW i \in 1..Len(memory)
               PROVE  /\ memory[i] \in Counter /\ memory'[i] \in Counter
                      /\ memory'[i].key = memory[i].key
                      /\ memory'[i].hits = memory[i].hits /\ memory'[i].passed = memory[i].passed
    OBVIOUS
  <2>1. PICK c \in Counter : memory[i] = c
    OBVIOUS
  <2>2. memory'[i] = [c EXCEPT !.left = Less(c.left)]
    BY <1>1, <2>1
  <2> QED
    BY <2>1, <2>2, CounterAges
<1>4. \A i \in 1..Len(blocks) :
         blocks[i] \in Ban /\ blocks'[i] \in Ban /\ blocks'[i].key = blocks[i].key
  <2> SUFFICES ASSUME NEW i \in 1..Len(blocks)
               PROVE  blocks[i] \in Ban /\ blocks'[i] \in Ban /\ blocks'[i].key = blocks[i].key
    OBVIOUS
  <2>1. PICK e \in Ban : blocks[i] = e
    OBVIOUS
  <2>2. blocks'[i] = [e EXCEPT !.left = Less(e.left)]
    BY <1>2, <2>1
  <2> QED
    BY <2>1, <2>2, BanAges
<1>5. memory' \in Seq(Counter) /\ Len(memory') = Len(memory) /\ DOMAIN memory' = 1..Len(memory)
  <2>1. Len(memory) \in Nat
    OBVIOUS
  <2> QED
    BY <1>1, <1>3, <2>1
<1>6. blocks' \in Seq(Ban) /\ Len(blocks') = Len(blocks) /\ DOMAIN blocks' = 1..Len(blocks)
  <2>1. Len(blocks) \in Nat
    OBVIOUS
  <2> QED
    BY <1>2, <1>4, <2>1
<1>7. DOMAIN memory = 1..Len(memory) /\ DOMAIN blocks = 1..Len(blocks)
  OBVIOUS
<1>8. Counts(memory)'
  BY <1>3, <1>5, <1>7 DEF Counts
<1>9. KeysFit(memory)'
  BY <1>3, <1>5, <1>7 DEF KeysFit
<1>10. KeysFit(blocks)'
  BY <1>4, <1>6, <1>7 DEF KeysFit
<1> QED
  BY <1>5, <1>6, <1>8, <1>9, <1>10

-----------------------------------------------------------------------------
(* The counters of Redis *)

LEMMA CallFields ==
    ASSUME NEW c \in Call
    PROVE  /\ c.key \in Keys /\ c.hits \in Nat /\ c # NoCall
           /\ c.step \in {"blocked", "incr", "expire", "ttl", "repair", "verdict"}
BY NoCallAssumption DEF Call

LEMMA CallMade ==
    ASSUME NEW k \in Keys
    PROVE  [key |-> k, step |-> "blocked", hits |-> 0] \in Call
BY DEF Call

\* The call is about to give the key's counter a lifetime, or to see whether it
\* has one.
Late == {"expire", "repair", "ttl"}
Owes(r, k) == call[r] # NoCall /\ call[r].step \in Late /\ call[r].key = k

LEMMA ExpireInOwes ==
    CountersExpire <=> \A k \in Keys : life[k] = NoExpiry => k \in cut \/ \E r \in Calls : Owes(r, k)
BY DEF CountersExpire, Owes, Late, At, Idle

LEMMA AtCall ==
    ASSUME RedisType, NEW r \in Calls, call[r] # NoCall
    PROVE  call[r] \in Call
BY DEF RedisType

LEMMA GoneTo ==
    ASSUME RedisType, NEW r \in Calls, NEW c \in Call, call[r] = c,
           NEW s \in {"incr", "expire", "ttl", "repair", "verdict"}, Goto(r, s)
    PROVE  /\ call' \in [Calls -> Call \union {NoCall}]
           /\ call'[r] \in Call /\ call'[r].key = c.key /\ call'[r].step = s
           /\ \A q \in Calls : q # r => call'[q] = call[q]
<1>1. call' = [call EXCEPT ![r] = [c EXCEPT !.step = s]]
  BY DEF Goto
<1>2. [c EXCEPT !.step = s] \in Call /\ [c EXCEPT !.step = s].key = c.key
      /\ [c EXCEPT !.step = s].step = s
  BY DEF Call
<1> QED
  BY <1>1, <1>2 DEF RedisType

LEMMA Ended ==
    ASSUME RedisType, NEW r \in Calls, End(r)
    PROVE  /\ call' \in [Calls -> Call \union {NoCall}] /\ call'[r] = NoCall
           /\ \A q \in Calls : q # r => call'[q] = call[q]
BY DEF RedisType, End

\* What is left without a lifetime is owed by the same call as before, by the
\* call of the step, or is known to be cut off.
LEMMA OwedAsBefore ==
    ASSUME CountersExpire, NEW r \in Calls,
           \A q \in Calls : q # r => call'[q] = call[q],
           \A k \in Keys : life'[k] = NoExpiry =>
              \/ k \in cut' \/ Owes(r, k)'
              \/ life[k] = NoExpiry /\ (k \in cut => k \in cut') /\ ~Owes(r, k)
    PROVE  CountersExpire'
<1>1. \A k \in Keys : life[k] = NoExpiry => k \in cut \/ \E q \in Calls : Owes(q, k)
  BY ExpireInOwes
<1>2. \A k \in Keys, q \in Calls : q # r => (Owes(q, k)' <=> Owes(q, k))
  BY DEF Owes
<1>3. ASSUME NEW k \in Keys, life'[k] = NoExpiry
      PROVE  k \in cut' \/ \E q \in Calls : Owes(q, k)'
  <2>1. CASE life[k] = NoExpiry /\ (k \in cut => k \in cut') /\ ~Owes(r, k)
    <3>1. k \in cut \/ \E q \in Calls : q # r /\ Owes(q, k)
      BY <1>1, <2>1
    <3> QED
      BY <2>1, <3>1, <1>2
  <2> QED
    BY <1>3, <2>1
<1> QED
  BY <1>3 DEF CountersExpire, Owes, Late, At, Idle

LEMMA BeginKeeps ==
    ASSUME RedisInv, NEW r \in Calls, NEW k \in Keys, Begin(r, k)
    PROVE  RedisInv'
<1> USE DEF RedisInv
<1>1. [key |-> k, step |-> "blocked", hits |-> 0] \in Call
  BY CallMade
<1>2. /\ call' \in [Calls -> Call \union {NoCall}] /\ call[r] = NoCall
      /\ \A q \in Calls : q # r => call'[q] = call[q]
      /\ UNCHANGED <<hits, life, block, passed, cut>>
  BY <1>1 DEF Begin, Idle, RedisType
<1>3. RedisType' /\ RedisCounts'
  BY <1>2 DEF RedisType, RedisCounts
<1>4. CountersExpire'
  BY <1>2, OwedAsBefore DEF Owes
<1> QED
  BY <1>3, <1>4

LEMMA ReadBlockKeeps ==
    ASSUME RedisInv, NEW r \in Calls, ReadBlock(r)
    PROVE  RedisInv'
<1> USE DEF RedisInv
<1>1. PICK c \in Call : call[r] = c
  BY AtCall DEF ReadBlock, At, Idle
<1>2. c # NoCall /\ c.step = "blocked" /\ UNCHANGED <<hits, life, block, passed, cut>>
  BY <1>1 DEF ReadBlock, At, Idle
<1>3. /\ call' \in [Calls -> Call \union {NoCall}]
      /\ \A q \in Calls : q # r => call'[q] = call[q]
  BY <1>1, GoneTo, Ended DEF ReadBlock
<1>4. RedisType' /\ RedisCounts'
  BY <1>2, <1>3 DEF RedisType, RedisCounts
<1>5. \A k \in Keys : ~Owes(r, k)
  BY <1>1, <1>2 DEF Owes, Late
<1>6. CountersExpire'
  BY <1>2, <1>3, <1>5, OwedAsBefore
<1> QED
  BY <1>4, <1>6

\* A new counter is owed its lifetime by the call that made it.
LEMMA IncrKeeps ==
    ASSUME RedisInv, NEW r \in Calls, Incr(r)
    PROVE  RedisInv'
<1> USE DEF RedisInv
<1>1. PICK c \in Call : call[r] = c
  BY AtCall DEF Incr, At, Idle
<1>2. PICK k \in Keys : k = c.key
  BY <1>1, CallFields
<1>3. PICK n \in Nat : n = hits[k] + 1
  BY <1>2 DEF RedisType
<1>4. /\ c.step = "incr" /\ n <= MaxHits /\ n >= 1
      /\ hits' = [hits EXCEPT ![k] = n]
      /\ life' = IF n = 1 THEN [life EXCEPT ![k] = NoExpiry] ELSE life
      /\ passed' = IF Over(n) THEN passed ELSE [passed EXCEPT ![k] = @ + 1]
      /\ UNCHANGED <<block, cut>>
  BY <1>1, <1>2, <1>3 DEF Incr, At, RedisType
<1>5. PICK s \in {"expire", "ttl"} : s = IF n = 1 THEN "expire" ELSE "ttl"
  OBVIOUS
<1>6. call' = [call EXCEPT ![r] = [c EXCEPT !.hits = n, !.step = s]]
  BY <1>1, <1>2, <1>3, <1>5 DEF Incr
<1>7. /\ [c EXCEPT !.hits = n, !.step = s] \in Call
      /\ [c EXCEPT !.hits = n, !.step = s].key = k
      /\ [c EXCEPT !.hits = n, !.step = s].step = s
  BY <1>1, <1>2, <1>3, <1>5 DEF Call
<1>8. /\ call' \in [Calls -> Call \union {NoCall}]
      /\ call'[r] \in Call /\ call'[r].key = k /\ call'[r].step = s
      /\ \A q \in Calls : q # r => call'[q] = call[q]
  BY <1>6, <1>7 DEF RedisType
<1>9. RedisType'
  <2>1. hits' \in [Keys -> 0..MaxHits]
    BY <1>2, <1>3, <1>4, Numbers DEF RedisType
  <2>2. life' \in [Keys -> NoExpiry..Ttl]
    BY <1>2, <1>4, Numbers DEF RedisType, NoExpiry
  <2>3. passed' \in [Keys -> Nat]
    BY <1>2, <1>4 DEF RedisType
  <2> QED
    BY <1>4, <1>8, <2>1, <2>2, <2>3 DEF RedisType
<1>10. RedisCounts'
  <2> SUFFICES ASSUME NEW j \in Keys
               PROVE  /\ life'[j] = 0 <=> hits'[j] = 0
                      /\ passed'[j] <= hits'[j] /\ passed'[j] <= Limit
    BY DEF RedisCounts
  <2>1. /\ life[j] = 0 <=> hits[j] = 0
        /\ passed[j] <= hits[j] /\ passed[j] <= Limit
        /\ life[j] \in Int /\ hits[j] \in Nat /\ passed[j] \in Nat
    BY Numbers DEF RedisCounts, RedisType, NoExpiry
  <2>2. CASE j # k
    BY <1>4, <2>1, <2>2 DEF RedisType
  <2>3. CASE j = k
    <3>1. hits'[j] = n /\ n = hits[j] + 1 /\ n # 0
      BY <1>3, <1>4, <2>1, <2>3 DEF RedisType
    <3>2. life'[j] # 0
      BY <1>4, <2>1, <2>3, <3>1 DEF RedisType, NoExpiry
    <3>3. passed'[j] = IF Over(n) THEN passed[j] ELSE passed[j] + 1
      BY <1>4, <2>3 DEF RedisType
    <3>4. passed'[j] <= n /\ passed'[j] <= Limit
      BY <1>3, <2>1, <3>1, <3>3, Numbers DEF Over
    <3> QED
      BY <3>1, <3>2, <3>4
  <2> QED
    BY <2>2, <2>3
<1>11. CountersExpire'
  <2>1. \A j \in Keys : ~Owes(r, j)
    BY <1>1, <1>4 DEF Owes, Late
  <2>2. \A j \in Keys : j # k \/ n # 1 => life'[j] = life[j]
    BY <1>2, <1>4 DEF RedisType
  <2>3. n = 1 => Owes(r, k)'
    BY <1>5, <1>8, NoCallAssumption DEF Owes, Late
  <2>4. \A j \in Keys : life'[j] = NoExpiry =>
              \/ j \in cut' \/ Owes(r, j)'
              \/ life[j] = NoExpiry /\ (j \in cut => j \in cut') /\ ~Owes(r, j)
    BY <1>4, <2>1, <2>2, <2>3
  <2> QED
    BY <1>8, <2>4, OwedAsBefore
<1> QED
  BY <1>9, <1>10, <1>11

\* A counter that is given a lifetime is there; one that is gone has none.
LEMMA RenewedLife ==
    ASSUME RedisInv, NEW k \in Keys
    PROVE  /\ Renewed(k) \in [Keys -> NoExpiry..Ttl]
           /\ \A j \in Keys : (Renewed(k)[j] = 0 <=> hits[j] = 0)
           /\ \A j \in Keys : Renewed(k)[j] = NoExpiry => j # k /\ life[j] = NoExpiry
<1>1. \A j \in Keys : (life[j] = 0 <=> hits[j] = 0) /\ hits[j] \in Nat /\ life[j] \in Int
  BY Numbers DEF RedisInv, RedisCounts, RedisType, NoExpiry
<1>2. CASE hits[k] > 0
  <2>1. Renewed(k) = [life EXCEPT ![k] = Ttl]
    BY <1>2 DEF Renewed
  <2> QED
    BY <1>1, <1>2, <2>1, Numbers DEF RedisInv, RedisType, NoExpiry
<1>3. CASE hits[k] = 0
  <2>1. Renewed(k) = life /\ life[k] = 0
    BY <1>1, <1>3 DEF Renewed
  <2> QED
    BY <1>1, <2>1 DEF RedisInv, RedisType, NoExpiry
<1> QED
  BY <1>1, <1>2, <1>3

LEMMA ExpireKeeps ==
    ASSUME RedisInv, NEW r \in Calls, Expire(r)
    PROVE  RedisInv'
<1> USE DEF RedisInv
<1>1. PICK c \in Call : call[r] = c
  BY AtCall DEF Expire, At, Idle
<1>2. PICK k \in Keys : k = c.key
  BY <1>1, CallFields
<1>3. /\ c.step = "expire" /\ life' = Renewed(k) /\ Goto(r, "ttl")
      /\ UNCHANGED <<hits, block, passed, cut>>
  BY <1>1, <1>2 DEF Expire, At
<1>4. /\ call' \in [Calls -> Call \union {NoCall}]
      /\ call'[r] \in Call /\ call'[r].key = k /\ call'[r].step = "ttl"
      /\ \A q \in Calls : q # r => call'[q] = call[q]
  BY <1>1, <1>2, <1>3, GoneTo
<1>5. /\ life' \in [Keys -> NoExpiry..Ttl]
      /\ \A j \in Keys : (life'[j] = 0 <=> hits[j] = 0)
      /\ \A j \in Keys : life'[j] = NoExpiry => j # k /\ life[j] = NoExpiry
  BY <1>3, RenewedLife
<1>6. RedisType' /\ RedisCounts'
  BY <1>3, <1>4, <1>5 DEF RedisType, RedisCounts
<1>7. \A j \in Keys : j # k => ~Owes(r, j)
  BY <1>1, <1>2 DEF Owes
<1>8. CountersExpire'
  BY <1>3, <1>4, <1>5, <1>7, OwedAsBefore
<1> QED
  BY <1>6, <1>8

LEMMA RepairKeeps ==
    ASSUME RedisInv, NEW r \in Calls, Repair(r)
    PROVE  RedisInv'
<1> USE DEF RedisInv
<1>1. PICK c \in Call : call[r] = c
  BY AtCall DEF Repair, At, Idle
<1>2. PICK k \in Keys : k = c.key
  BY <1>1, CallFields
<1>3. /\ c.step = "repair" /\ life' = Renewed(k) /\ cut' = cut \ {k} /\ Goto(r, "verdict")
      /\ UNCHANGED <<hits, block, passed>>
  BY <1>1, <1>2 DEF Repair, At
<1>4. /\ call' \in [Calls -> Call \union {NoCall}]
      /\ \A q \in Calls : q # r => call'[q] = call[q]
  BY <1>1, <1>3, GoneTo
<1>5. /\ life' \in [Keys -> NoExpiry..Ttl]
      /\ \A j \in Keys : (life'[j] = 0 <=> hits[j] = 0)
      /\ \A j \in Keys : life'[j] = NoExpiry => j # k /\ life[j] = NoExpiry
  BY <1>3, RenewedLife
<1>6. RedisType' /\ RedisCounts'
  BY <1>3, <1>4, <1>5 DEF RedisType, RedisCounts
<1>7. \A j \in Keys : j # k => ~Owes(r, j) /\ (j \in cut => j \in cut')
  BY <1>1, <1>2, <1>3 DEF Owes
<1>8. CountersExpire'
  BY <1>4, <1>5, <1>7, OwedAsBefore
<1> QED
  BY <1>6, <1>8

\* A counter that was read to have a lifetime is owed none.
LEMMA ReadTtlKeeps ==
    ASSUME RedisInv, NEW r \in Calls, ReadTtl(r)
    PROVE  RedisInv'
<1> USE DEF RedisInv
<1>1. PICK c \in Call : call[r] = c
  BY AtCall DEF ReadTtl, At, Idle
<1>2. PICK k \in Keys : k = c.key
  BY <1>1, CallFields
<1>3. /\ c.step = "ttl"
      /\ Goto(r, IF NeedsLife(k) THEN "repair" ELSE "verdict")
      /\ cut' = IF NeedsLife(k) THEN cut ELSE cut \ {k}
      /\ UNCHANGED <<hits, life, block, passed>>
  BY <1>1, <1>2 DEF ReadTtl, At
<1>4. PICK s \in {"repair", "verdict"} : s = IF NeedsLife(k) THEN "repair" ELSE "verdict"
  OBVIOUS
<1>5. Goto(r, s)
  BY <1>3, <1>4
<1>6. /\ call' \in [Calls -> Call \union {NoCall}]
      /\ call'[r] \in Call /\ call'[r].key = k /\ call'[r].step = s
      /\ \A q \in Calls : q # r => call'[q] = call[q]
  <2>1. s \in {"incr", "expire", "ttl", "repair", "verdict"}
    BY <1>4
  <2> QED
    BY <1>1, <1>2, <1>5, <2>1, GoneTo
<1>7. RedisType' /\ RedisCounts'
  BY <1>3, <1>6 DEF RedisType, RedisCounts
<1>8. \A j \in Keys : j # k => ~Owes(r, j) /\ (j \in cut => j \in cut')
  BY <1>1, <1>2, <1>3 DEF Owes
<1>9. life'[k] = NoExpiry => Owes(r, k)'
  <2> SUFFICES ASSUME life'[k] = NoExpiry PROVE Owes(r, k)'
    OBVIOUS
  <2>1. NeedsLife(k)
    BY <1>3 DEF NeedsLife
  <2>2. s = "repair"
    BY <1>4, <2>1
  <2> QED
    BY <1>6, <2>2, NoCallAssumption DEF Owes, Late
<1>10. CountersExpire'
  BY <1>3, <1>6, <1>8, <1>9, OwedAsBefore
<1> QED
  BY <1>7, <1>10

LEMMA VerdictKeeps ==
    ASSUME RedisInv, NEW r \in Calls, Verdict(r)
    PROVE  RedisInv'
<1> USE DEF RedisInv
<1>1. PICK c \in Call : call[r] = c
  BY AtCall DEF Verdict, At, Idle
<1>2. PICK k \in Keys : k = c.key
  BY <1>1, CallFields
<1>3. /\ c.step = "verdict" /\ End(r)
      /\ block' = block \/ block' = [block EXCEPT ![k] = BlockDuration]
      /\ UNCHANGED <<hits, life, passed, cut>>
  BY <1>1, <1>2 DEF Verdict, At
<1>4. /\ call' \in [Calls -> Call \union {NoCall}]
      /\ \A q \in Calls : q # r => call'[q] = call[q]
  BY <1>3, Ended
<1>5. block' \in [Keys -> 0..BlockDuration]
  BY <1>2, <1>3, Numbers DEF RedisType
<1>6. RedisType' /\ RedisCounts'
  BY <1>3, <1>4, <1>5 DEF RedisType, RedisCounts
<1>7. \A j \in Keys : ~Owes(r, j)
  BY <1>1, <1>3 DEF Owes, Late
<1>8. CountersExpire'
  BY <1>3, <1>4, <1>7, OwedAsBefore
<1> QED
  BY <1>6, <1>8

\* What a call that ends early leaves without a lifetime is noted.
LEMMA FallbackKeeps ==
    ASSUME RedisInv, NEW r \in Calls, Fallback(r)
    PROVE  RedisInv'
<1> USE DEF RedisInv
<1>1. PICK c \in Call : call[r] = c
  BY AtCall DEF Fallback, Idle
<1>2. PICK k \in Keys : k = c.key
  BY <1>1, CallFields
<1>3. /\ End(r)
      /\ cut' = IF c.step \in {"expire", "ttl", "repair"} THEN cut \union {k} ELSE cut
      /\ UNCHANGED <<hits, life, block, passed>>
  BY <1>1, <1>2 DEF Fallback
<1>4. /\ call' \in [Calls -> Call \union {NoCall}]
      /\ \A q \in Calls : q # r => call'[q] = call[q]
  BY <1>3, Ended
<1>5. RedisType' /\ RedisCounts'
  BY <1>2, <1>3, <1>4 DEF RedisType, RedisCounts
<1>6. \A j \in Keys : Owes(r, j) => j \in cut'
  BY <1>1, <1>2, <1>3 DEF Owes, Late
<1>7. cut \subseteq cut'
  BY <1>3
<1>8. CountersExpire'
  BY <1>3, <1>4, <1>6, <1>7, OwedAsBefore
<1> QED
  BY <1>5, <1>8

LEMMA RestartKeeps ==
    ASSUME RedisInv, Restart
    PROVE  RedisInv'
<1> USE DEF RedisInv
<1> DEFINE late == {q \in Calls : At(q, "expire") \/ At(q, "ttl") \/ At(q, "repair")}
<1>1. /\ call' = [r \in Calls |-> NoCall]
      /\ cut' = cut \union {call[r].key : r \in late}
      /\ UNCHANGED <<hits, life, block, passed>>
  BY DEF Restart
<1>2. \A r \in late : call[r].key \in Keys
  BY AtCall, CallFields DEF At, Idle
<1>3. cut' \in SUBSET Keys /\ \A k \in Keys, r \in Calls : Owes(r, k) => k \in cut'
  BY <1>1, <1>2 DEF Owes, Late, At, Idle, RedisType
<1>4. RedisType' /\ RedisCounts'
  BY <1>1, <1>3 DEF RedisType, RedisCounts
<1>5. CountersExpire'
  BY <1>1, <1>3, ExpireInOwes DEF CountersExpire
<1> QED
  BY <1>4, <1>5

LEMMA TickKeeps ==
    ASSUME RedisInv, Tick
    PROVE  RedisInv'
<1> USE DEF RedisInv
<1> DEFINE expired == {k \in Keys : life[k] = 1}
<1>1. /\ life' = [k \in Keys |-> Less(life[k])]
      /\ hits' = [k \in Keys |-> IF k \in expired THEN 0 ELSE hits[k]]
      /\ passed' = [k \in Keys |-> IF k \in expired THEN 0 ELSE passed[k]]
      /\ block' = [k \in Keys |-> Less(block[k])]
      /\ cut' = cut \ expired
      /\ UNCHANGED call
  BY DEF Tick
<1>2. RedisType'
  BY <1>1, Numbers DEF RedisType, Less, NoExpiry
<1>3. RedisCounts'
  BY <1>1, Numbers DEF RedisCounts, RedisType, Less, NoExpiry
<1>4. \A k \in Keys : life'[k] = NoExpiry => life[k] = NoExpiry /\ (k \in cut => k \in cut')
  BY <1>1, Numbers DEF RedisType, Less, NoExpiry
<1>5. \A k \in Keys, r \in Calls : Owes(r, k)' <=> Owes(r, k)
  BY <1>1 DEF Owes
<1>6. \A k \in Keys : life'[k] = NoExpiry => k \in cut' \/ \E r \in Calls : Owes(r, k)'
  BY <1>4, <1>5, ExpireInOwes
<1>7. CountersExpire'
  BY <1>6 DEF CountersExpire, Owes, Late, At, Idle
<1> QED
  BY <1>2, <1>3, <1>7

-----------------------------------------------------------------------------
(* The limiter *)

LimiterInv == RedisInv /\ MemoryInv

LEMMA LimiterInit == ThrottlerInit => LimiterInv
<1> SUFFICES ASSUME ThrottlerInit PROVE LimiterInv
  OBVIOUS
<1> USE DEF ThrottlerInit
<1>1. RedisType
  BY Numbers DEF RedisType, NoExpiry
<1>2. RedisCounts /\ CountersExpire
  BY Numbers DEF RedisCounts, CountersExpire, NoExpiry
<1>3. MemoryInv
  BY Numbers DEF MemoryInv, MemoryType, Counts, KeysFit
<1> QED
  BY <1>1, <1>2, <1>3 DEF LimiterInv, RedisInv

LEMMA MemoryAlone == ASSUME MemoryInv, UNCHANGED local PROVE MemoryInv'
BY DEF local, MemoryInv, MemoryType, Counts, KeysFit

LEMMA LimiterStep == LimiterInv /\ [ThrottlerNext]_throttlerVars => LimiterInv'
<1> SUFFICES ASSUME LimiterInv, [ThrottlerNext]_throttlerVars PROVE LimiterInv'
  OBVIOUS
<1> USE DEF LimiterInv
<1>1. ASSUME NEW r \in Calls, NEW k \in Keys, Begin(r, k) PROVE LimiterInv'
  BY <1>1, BeginKeeps, MemoryAlone DEF Begin
<1>2. ASSUME NEW r \in Calls, ReadBlock(r) PROVE LimiterInv'
  BY <1>2, ReadBlockKeeps, MemoryAlone DEF ReadBlock
<1>3. ASSUME NEW r \in Calls, Incr(r) PROVE LimiterInv'
  BY <1>3, IncrKeeps, MemoryAlone DEF Incr
<1>4. ASSUME NEW r \in Calls, Expire(r) PROVE LimiterInv'
  BY <1>4, ExpireKeeps, MemoryAlone DEF Expire
<1>5. ASSUME NEW r \in Calls, ReadTtl(r) PROVE LimiterInv'
  BY <1>5, ReadTtlKeeps, MemoryAlone DEF ReadTtl
<1>6. ASSUME NEW r \in Calls, Repair(r) PROVE LimiterInv'
  BY <1>6, RepairKeeps, MemoryAlone DEF Repair
<1>7. ASSUME NEW r \in Calls, Verdict(r) PROVE LimiterInv'
  BY <1>7, VerdictKeeps, MemoryAlone DEF Verdict
<1>8. ASSUME NEW r \in Calls, Fallback(r) PROVE LimiterInv'
  <2>1. RedisInv'
    BY <1>8, FallbackKeeps
  <2>2. PICK k \in Keys : k = call[r].key
    BY <1>8, AtCall, CallFields DEF Fallback, Idle, RedisInv
  <2>3. CASE k \in Payments
    BY <1>8, <2>1, <2>2, <2>3, MemoryAlone DEF Fallback
  <2>4. CASE k \notin Payments
    <3>1. k \in Keys \ Payments /\ IncrementInMemory(k)
      BY <1>8, <2>2, <2>4 DEF Fallback
    <3> QED
      BY <2>1, <3>1, IncrementKeeps
  <2> QED
    BY <2>3, <2>4
<1>9. CASE Restart
  <2>1. MemoryInv'
    BY <1>9, Numbers DEF Restart, MemoryInv, MemoryType, Counts, KeysFit
  <2> QED
    BY <1>9, <2>1, RestartKeeps
<1>10. CASE Tick
  BY <1>10, TickKeeps, AgeingKeeps
<1>11. CASE UNCHANGED throttlerVars
  <2>1. MemoryInv'
    BY <1>11, MemoryAlone DEF throttlerVars, local
  <2>2. RedisInv'
    BY <1>11 DEF throttlerVars, RedisInv, RedisType, RedisCounts, CountersExpire, At, Idle
  <2> QED
    BY <2>1, <2>2
<1> QED
  BY <1>1, <1>2, <1>3, <1>4, <1>5, <1>6, <1>7, <1>8, <1>9, <1>10, <1>11
     DEF ThrottlerNext, Step

\* The strengthening is inductive.
THEOREM LimiterInvariance == ThrottlerSpec => []LimiterInv
<1> QED
  BY LimiterInit, LimiterStep, PTL DEF ThrottlerSpec

\* No window lets more hits through than the limit, in Redis and in memory, and
\* the memory stays within its bound.
THEOREM Limiter == ThrottlerSpec => []LimiterHolds
<1>1. LimiterInv => LimiterHolds
  BY DEF LimiterInv, RedisInv, RedisType, RedisCounts, MemoryInv, MemoryType, Counts, KeysFit,
         LimiterHolds, ThrottlerTypeOK, WithinLimit, MemoryIsBounded
<1> QED
  BY LimiterInvariance, <1>1, PTL

\* A counter gets its lifetime from the call that made it, unless it is cut off.
THEOREM Expiry == ThrottlerSpec => []CountersExpire
<1>1. LimiterInv => CountersExpire
  BY DEF LimiterInv, RedisInv
<1> QED
  BY LimiterInvariance, <1>1, PTL

=============================================================================
