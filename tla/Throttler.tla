----------------------------- MODULE Throttler -----------------------------
(***************************************************************************)
(* The rate limiter: RedisThrottlerStorage, which every request goes       *)
(* through once for each throttler.  A key stands for a throttler and the  *)
(* client it counts.                                                       *)
(*                                                                         *)
(* In Redis a hit is counted by separate commands, each of which may be    *)
(* the one that fails; requests interleave between them and time passes.   *)
(* Whenever Redis is not ready or a command fails, the hit is counted in   *)
(* the memory of the process, or a payment is refused.  Lifetimes are what *)
(* is left of them, so time needs no bound.  Two tables of the process are *)
(* sequences in the order in which their keys were inserted.               *)
(*                                                                         *)
(* Init, Next and the like carry the module's name: HttpProofs extends     *)
(* this module beside Idempotency.                                         *)
(***************************************************************************)
EXTENDS Integers, Sequences, FiniteSets

CONSTANTS
    Keys,       \* throttlers and trackers
    Payments,   \* keys of PAYMENT_THROTTLERS
    Calls,      \* calls of increment that may run at a time
    Limit,      \* hits let through in a window
    Ttl,        \* length of the window
    Block,      \* blockDuration; 0 for throttlers without one
    MaxKeys,    \* throttling.redisFallbackMaxKeys
    MaxHits,    \* bound: hits counted in one window of Redis
    NoCall      \* no call

ASSUME KeysAssumption == Payments \subseteq Keys
ASSUME LimitsAssumption ==
    /\ {Limit, Ttl, MaxKeys} \subseteq Nat \ {0}
    /\ {Block, MaxHits} \subseteq Nat

VARIABLES
    hits,      \* the counter of each key in Redis, 0 when there is none
    life,      \* what is left of it, NoExpiry when it has no lifetime
    block,     \* what is left of the block of each key in Redis
    memory,    \* localHits: a sequence of counters
    blocks,    \* localBlocks: a sequence of blocks
    call,      \* what each call is at
    passed,    \* auxiliary: hits of Redis let through since its counter began
    cut        \* auxiliary: keys a request stopped counting in the middle of

throttlerVars == <<hits, life, block, memory, blocks, call, passed, cut>>
local == <<memory, blocks>>

-----------------------------------------------------------------------------
NoExpiry == -1

Counter == [key : Keys, hits : Nat, left : Nat, passed : Nat]
Ban == [key : Keys, left : Nat]
Call == [key : Keys, step : {"blocked", "incr", "expire", "ttl", "repair", "verdict"},
            hits : Nat]
ASSUME NoCallAssumption == NoCall \notin Call

Idle(r) == call[r] = NoCall
At(r, step) == ~Idle(r) /\ call[r].step = step
Goto(r, step) == call' = [call EXCEPT ![r].step = step]
End(r) == call' = [call EXCEPT ![r] = NoCall]

\* resolveBlockDuration
BlockDuration == IF Block > 0 THEN Block ELSE Ttl

\* More hits than the limit allows; the variant counts from nought.
OverFromNought(n) == n > Limit + 1
Over(n) == n > Limit

ThrottlerInit ==
    /\ hits = [k \in Keys |-> 0]
    /\ life = [k \in Keys |-> 0]
    /\ block = [k \in Keys |-> 0]
    /\ memory = <<>>
    /\ blocks = <<>>
    /\ call = [r \in Calls |-> NoCall]
    /\ passed = [k \in Keys |-> 0]
    /\ cut = {}

\* Redis drops what has expired; the process does so when it next counts.
Less(n) == IF n > 0 THEN n - 1 ELSE n
Tick ==
    LET expired == {k \in Keys : life[k] = 1} IN
    /\ \/ \E k \in Keys : life[k] > 0 \/ block[k] > 0
       \/ \E i \in DOMAIN memory : memory[i].left > 0
       \/ \E i \in DOMAIN blocks : blocks[i].left > 0
    /\ life' = [k \in Keys |-> Less(life[k])]
    /\ hits' = [k \in Keys |-> IF k \in expired THEN 0 ELSE hits[k]]
    /\ passed' = [k \in Keys |-> IF k \in expired THEN 0 ELSE passed[k]]
    /\ block' = [k \in Keys |-> Less(block[k])]
    /\ memory' = [i \in DOMAIN memory |-> [memory[i] EXCEPT !.left = Less(@)]]
    /\ blocks' = [i \in DOMAIN blocks |-> [blocks[i] EXCEPT !.left = Less(@)]]
    /\ cut' = cut \ expired
    /\ UNCHANGED call

-----------------------------------------------------------------------------
(***************************************************************************)
(* incrementInRedis, command by command                                    *)
(***************************************************************************)
\* increment, with Redis ready.
Begin(r, k) ==
    /\ Idle(r)
    /\ call' = [call EXCEPT ![r] = [key |-> k, step |-> "blocked", hits |-> 0]]
    /\ UNCHANGED <<hits, life, block, local, passed, cut>>

\* A blocked key is refused; reading its counter for the answer changes nothing.
ReadBlock(r) ==
    /\ At(r, "blocked")
    /\ IF block[call[r].key] > 0 THEN End(r) ELSE Goto(r, "incr")
    /\ UNCHANGED <<hits, life, block, local, passed, cut>>

\* INCR makes a counter without a lifetime when there is none.
Incr(r) ==
    /\ At(r, "incr")
    /\ LET k == call[r].key
           n == hits[k] + 1
       IN /\ n <= MaxHits
          /\ hits' = [hits EXCEPT ![k] = n]
          /\ life' = IF n = 1 THEN [life EXCEPT ![k] = NoExpiry] ELSE life
          /\ passed' = IF Over(n) THEN passed ELSE [passed EXCEPT ![k] = @ + 1]
          /\ call' = [call EXCEPT ![r] =
                [@ EXCEPT !.hits = n, !.step = IF n = 1 THEN "expire" ELSE "ttl"]]
    /\ UNCHANGED <<block, local, cut>>

\* PEXPIRE does nothing to a counter that is gone.
Renewed(k) == IF hits[k] > 0 THEN [life EXCEPT ![k] = Ttl] ELSE life

Expire(r) ==
    /\ At(r, "expire")
    /\ life' = Renewed(call[r].key)
    /\ Goto(r, "ttl")
    /\ UNCHANGED <<hits, block, local, passed, cut>>

\* A counter that a request left without a lifetime gets one from the next;
\* the variant leaves it.
NeverRepaired(k) == FALSE
NeedsLife(k) == hits[k] = 0 \/ life[k] = NoExpiry

ReadTtl(r) ==
    /\ At(r, "ttl")
    /\ LET k == call[r].key IN
       /\ Goto(r, IF NeedsLife(k) THEN "repair" ELSE "verdict")
       /\ cut' = IF NeedsLife(k) THEN cut ELSE cut \ {k}
    /\ UNCHANGED <<hits, life, block, local, passed>>

Repair(r) ==
    /\ At(r, "repair")
    /\ life' = Renewed(call[r].key)
    /\ cut' = cut \ {call[r].key}
    /\ Goto(r, "verdict")
    /\ UNCHANGED <<hits, block, local, passed>>

\* Over the limit the key is blocked, and the answer says so; else it passes.
Verdict(r) ==
    /\ At(r, "verdict")
    /\ LET k == call[r].key IN
       block' = IF Over(call[r].hits) THEN [block EXCEPT ![k] = BlockDuration] ELSE block
    /\ End(r)
    /\ UNCHANGED <<hits, life, local, passed, cut>>

-----------------------------------------------------------------------------
(***************************************************************************)
(* redisUnavailableFallback: the memory of the process                     *)
(***************************************************************************)
\* What a table has at the given places, in order.
InOrder(table, places) ==
    [n \in 1..Cardinality(places) |->
        table[CHOOSE i \in places : Cardinality({j \in places : j <= i}) = n]]

\* compactInMemoryState: what has expired goes, then the oldest keys until
\* MaxKeys are left.
Alive(table) == {i \in DOMAIN table : table[i].left > 0}
NewestOf(places) == {i \in places : Cardinality({j \in places : j > i}) < MaxKeys}
Compact(table) == InOrder(table, NewestOf(Alive(table)))

\* Map.set: a key that is there keeps its place.
At1(table, k) == {i \in DOMAIN table : table[i].key = k}
Put(table, e) ==
    IF At1(table, e.key) = {} THEN Append(table, e)
    ELSE [i \in DOMAIN table |-> IF table[i].key = e.key THEN e ELSE table[i]]

\* incrementInMemory: one run of the event loop.
IncrementInMemory(k) ==
    LET counters == Compact(memory)
        bans == Compact(blocks)
        known == {counters[i] : i \in At1(counters, k)}
        counter == CHOOSE c \in known \union {[key |-> k, hits |-> 0, left |-> Ttl, passed |-> 0]} :
                      known # {} => c \in known
        n == counter.hits + 1
    IN IF At1(bans, k) # {} THEN memory' = counters /\ blocks' = bans
       ELSE /\ memory' = Put(counters, [counter EXCEPT !.hits = n,
                                            !.passed = IF Over(n) THEN @ ELSE @ + 1])
            /\ blocks' = IF Over(n) THEN Put(bans, [key |-> k, left |-> BlockDuration])
                         ELSE bans

\* Redis is not ready, or a command fails: a payment is refused with 503, any
\* other hit is counted in memory, also when Redis has counted it.
Fallback(r) ==
    /\ ~Idle(r)
    /\ LET k == call[r].key IN
       /\ IF k \in Payments THEN UNCHANGED local ELSE IncrementInMemory(k)
       /\ cut' = IF call[r].step \in {"expire", "ttl", "repair"} THEN cut \union {k} ELSE cut
    /\ End(r)
    /\ UNCHANGED <<hits, life, block, passed>>

\* The process stops, and starts again without its memory.
Restart ==
    /\ memory' = <<>> /\ blocks' = <<>>
    /\ call' = [r \in Calls |-> NoCall]
    /\ cut' = cut \union {call[r].key : r \in {q \in Calls :
                  At(q, "expire") \/ At(q, "ttl") \/ At(q, "repair")}}
    /\ UNCHANGED <<hits, life, block, passed>>

Step(r) ==
    \/ \E k \in Keys : Begin(r, k)
    \/ ReadBlock(r) \/ Incr(r) \/ Expire(r) \/ ReadTtl(r) \/ Repair(r) \/ Verdict(r)
    \/ Fallback(r)

ThrottlerNext == Tick \/ Restart \/ \E r \in Calls : Step(r)

ThrottlerSpec == ThrottlerInit /\ [][ThrottlerNext]_throttlerVars

-----------------------------------------------------------------------------
ThrottlerTypeOK ==
    /\ hits \in [Keys -> 0..MaxHits]
    /\ life \in [Keys -> NoExpiry..Ttl]
    /\ block \in [Keys -> 0..BlockDuration]
    /\ memory \in Seq(Counter)
    /\ blocks \in Seq(Ban)
    /\ call \in [Calls -> Call \union {NoCall}]
    /\ passed \in [Keys -> Nat]
    /\ cut \in SUBSET Keys

\* No window lets more hits through than the limit, in Redis however the
\* commands of its requests interleave and fail, and in memory as long as it
\* remembers the counter.
WithinLimit ==
    /\ \A k \in Keys : passed[k] <= Limit
    /\ \A i \in DOMAIN memory : memory[i].passed <= Limit

\* The two tables hold one entry for a key, none for a payment, and at most one
\* more than redisFallbackMaxKeys: the compaction comes before the insertion.
MemoryIsBounded ==
    \A table \in {memory, blocks} :
        /\ Len(table) <= MaxKeys + 1
        /\ \A i, j \in DOMAIN table : table[i].key = table[j].key => i = j
        /\ \A i \in DOMAIN table : table[i].key \notin Payments

\* What the limiter keeps at any moment.
LimiterHolds == ThrottlerTypeOK /\ WithinLimit /\ MemoryIsBounded

\* A counter without a lifetime would block its client for ever.  There is one
\* only while a request is about to give it a lifetime, or after one was cut
\* off before it did and until the next request of that key.
CountersExpire ==
    \A k \in Keys : life[k] = NoExpiry =>
        \/ k \in cut
        \/ \E r \in Calls : (At(r, "expire") \/ At(r, "repair") \/ At(r, "ttl"))
                                  /\ call[r].key = k

=============================================================================
