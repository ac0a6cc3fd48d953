----------------------------- MODULE TokenGateway -----------------------------
(***************************************************************************)
(* `gatewayd` keeps one provider's OAuth token fresh in a shared Redis key. *)
(* Calls of EnsureService.Ensure run at once, in one daemon or several (the *)
(* Python managers use the same protocol): look at the cache, take a lock   *)
(* that expires by itself, look again, ask for a token, publish it, release.*)
(*                                                                         *)
(* Time is a number of units left until something ends; Tick takes one off. *)
(* What a call has sent but Redis or the provider has not handled yet is in *)
(* its pc; what it has given up on and may still be handled is in late.     *)
(***************************************************************************)
EXTENDS Integers, FiniteSets

CONSTANTS
  Calls,        \* names of running calls; a name is used again once it is free
  Periodic,     \* the call of runPeriodicEnsure, which begins again for ever
  Tokens,       \* tokens; a name is used again once nothing refers to it
  LockTTL,      \* EX of the lock (30 s)
  RedisLimit,   \* one Redis command: dial timeout and deadline (3 s + 3 s)
  IssueLimit,   \* one OAuth POST: client timeout (10 s)
  Buffer,       \* a token this close to its expiry is not fresh (60 or 120 s)
  Life,         \* how long a new token is fresh: expires_in less Buffer
  Polls,        \* looks at the cache while another call has the lock (31 or 101)
  Punctual,     \* FALSE: a call may stop for any time between two steps
  NoCall, NoToken

ASSUME GatewayAssumption ==
  /\ Periodic \in Calls /\ NoCall \notin Calls /\ NoToken \notin Tokens
  /\ {LockTTL, RedisLimit, IssueLimit, Buffer, Life, Polls} \subseteq Nat \ {0}
  /\ Punctual \in BOOLEAN

\* 30 s > 3 * 6 s + 10 s: the lock outlives the answer to SET NX, the second look,
\* the POST and the SET of a punctual call.  60 s > 10 s.
ASSUME LeaseAssumption ==
  LockTTL > 3 * RedisLimit + IssueLimit /\ Buffer > IssueLimit

VARIABLES
  cache,    \* the cached token, and how long it will be fresh
  lock,     \* the lock's value, and how long until it expires
  newest,   \* external: the token issued last, and how long it is valid
  pc,       \* per call
  left,     \* per call: what its step may still take
  held,     \* per call: the token it is to publish
  polls,    \* per call: looks left
  late,     \* requests given up on: <<pc, call>>
  straggled \* history: one of them was handled after all

vars == <<cache, lock, newest, pc, left, held, polls, late, straggled>>

\* Missing, malformed and nearly expired entries are one: none is fresh.
Nothing == [token |-> NoToken, life |-> 0]
Free == [owner |-> NoCall, ttl |-> 0]
Fresh == cache.life > 0

Entries == [token : Tokens \union {NoToken}, life : 0 .. Life]
PCs == {"idle", "locking", "locked", "recheck", "issue", "granted",
        "publish", "release", "wait"}
\* Requests that can still be handled after the call has given up.  A late SET NX
\* or release is that of a call which gives up later, and needs no name here.
Requests == {"issue", "publish"}
\* Steps that have a limit, and begin once the call has the lock.
Timed == {"locked", "recheck", "issue", "granted", "publish"}

TypeOK ==
  /\ cache \in Entries
  /\ lock \in [owner : Calls \union {NoCall}, ttl : 0 .. LockTTL]
  /\ newest \in [token : Tokens, valid : 0 .. (Life + Buffer)]
  /\ pc \in [Calls -> PCs]
  /\ left \in [Calls -> 0 .. (RedisLimit + IssueLimit)]
  /\ held \in [Calls -> Entries]
  /\ polls \in [Calls -> 0 .. Polls]
  /\ late \subseteq (Requests \X Calls)
  /\ straggled \in BOOLEAN

\* What the cache holds once e is stored.
Cached(e) == IF e.life > 0 THEN e ELSE Nothing

\* The daemon starts over what is left of an earlier token.
Init ==
  /\ \E t \in Tokens, n \in 0 .. Life :
       /\ newest = [token |-> t, valid |-> n + Buffer]
       /\ cache \in {Nothing, Cached([token |-> t, life |-> n])}
  /\ lock = Free
  /\ pc = [c \in Calls |-> "idle"]
  /\ left = [c \in Calls |-> 0]
  /\ held = [c \in Calls |-> Nothing]
  /\ polls = [c \in Calls |-> 0]
  /\ late = {}
  /\ straggled = FALSE

-----------------------------------------------------------------------------
(* What Redis and the provider do with a request of call c. *)

\* A mutant of SetNX: the lock expires as if only the POST had to end before it.
SetNXShort(c) == lock' = IF lock = Free THEN [owner |-> c, ttl |-> IssueLimit] ELSE lock

\* SET NX EX: the lock is taken if nobody has it.
SetNX(c) == lock' = IF lock = Free THEN [owner |-> c, ttl |-> LockTTL] ELSE lock

\* SET EX of the payload that c made.
SetCache(c) == cache' = Cached(held[c])

\* A mutant of CompareAndDelete: a plain DEL.
DeleteAny(c) == c \in Calls /\ lock' = Free

\* EVAL of the release script: the lock is deleted if it still has c's value.
CompareAndDelete(c) == lock' = IF lock.owner = c THEN Free ELSE lock

\* A new token, after which older ones are no longer valid.
InUse == {newest.token, cache.token} \union {held[c].token : c \in Calls}
NewToken(t) == t \in Tokens \ InUse /\ newest' = [token |-> t, valid |-> Life + Buffer]

-----------------------------------------------------------------------------
(* Ensure. *)

Goto(c, step, limit) ==
  /\ pc' = [pc EXCEPT ![c] = step]
  /\ left' = [left EXCEPT ![c] = limit]

NameFree(c) == lock.owner # c /\ \A step \in Requests : <<step, c>> \notin late

\* A call that finds a fresh token, or cannot read the cache, returns at once and
\* leaves no trace; the others try to take the lock.
Ensure(c) ==
  /\ pc[c] = "idle" /\ NameFree(c) /\ ~Fresh
  /\ Goto(c, "locking", 0)
  /\ UNCHANGED <<cache, lock, newest, held, polls, late, straggled>>

\* A mutant of TryLock: the answer is read the wrong way round.
TryLockInverted(c) ==
  /\ pc[c] = "locking"
  /\ SetNX(c)
  /\ \/ lock # Free /\ Goto(c, "locked", RedisLimit) /\ UNCHANGED polls
     \/ lock = Free /\ Goto(c, "wait", 0) /\ polls' = [polls EXCEPT ![c] = Polls]
  /\ UNCHANGED <<cache, newest, held, late, straggled>>

\* Redis answers SET NX.
TryLock(c) ==
  /\ pc[c] = "locking"
  /\ SetNX(c)
  /\ \/ lock = Free /\ Goto(c, "locked", RedisLimit) /\ UNCHANGED polls
     \/ lock # Free /\ Goto(c, "wait", 0) /\ polls' = [polls EXCEPT ![c] = Polls]
  /\ UNCHANGED <<cache, newest, held, late, straggled>>

\* The answer arrives: the second look at the cache begins.
Owned(c) ==
  /\ pc[c] = "locked"
  /\ Goto(c, "recheck", RedisLimit)
  /\ UNCHANGED <<cache, lock, newest, held, polls, late, straggled>>

\* A mutant of Recheck: no second look.
RecheckSkipped(c) ==
  /\ pc[c] = "recheck"
  /\ Goto(c, "issue", IssueLimit)
  /\ UNCHANGED <<cache, lock, newest, held, polls, late, straggled>>

\* Still no fresh token: ask for one.
Recheck(c) ==
  /\ pc[c] = "recheck" /\ ~Fresh
  /\ Goto(c, "issue", IssueLimit)
  /\ UNCHANGED <<cache, lock, newest, held, polls, late, straggled>>

\* The provider issues a token; its answer is on its way.
Issue(c) ==
  /\ pc[c] = "issue"
  /\ \E t \in Tokens :
       /\ NewToken(t)
       /\ held' = [held EXCEPT ![c] = [token |-> t, life |-> 0]]
  /\ pc' = [pc EXCEPT ![c] = "granted"]
  /\ UNCHANGED <<cache, lock, left, polls, late, straggled>>

\* A mutant of Payload: fresh until the expiry itself, without the buffer.
PayloadToTheEnd(c) ==
  /\ pc[c] = "granted"
  /\ held' = [held EXCEPT ![c].life = Life + Buffer]
  /\ Goto(c, "publish", RedisLimit)
  /\ UNCHANGED <<cache, lock, newest, polls, late, straggled>>

\* The answer is valid: the payload's expiry counts from now.
Payload(c) ==
  /\ pc[c] = "granted"
  /\ held' = [held EXCEPT ![c].life = Life]
  /\ Goto(c, "publish", RedisLimit)
  /\ UNCHANGED <<cache, lock, newest, polls, late, straggled>>

\* Redis stores the payload.
Publish(c) ==
  /\ pc[c] = "publish"
  /\ SetCache(c)
  /\ held' = [held EXCEPT ![c] = Nothing]
  /\ Goto(c, "release", 0)
  /\ UNCHANGED <<lock, newest, polls, late, straggled>>

\* releaseLock: deferred, and its failure is ignored.
Release(c) ==
  /\ pc[c] = "release"
  /\ CompareAndDelete(c) \/ UNCHANGED lock
  /\ Goto(c, "idle", 0)
  /\ UNCHANGED <<cache, newest, held, polls, late, straggled>>

\* A mutant of Poll: one look too many.
PollPastEnd(c) ==
  /\ pc[c] = "wait" /\ ~Fresh
  /\ polls' = [polls EXCEPT ![c] = @ - 1]
  /\ UNCHANGED <<cache, lock, newest, pc, left, held, late, straggled>>

\* waitForFreshToken: one more look, while there are looks left.
Poll(c) ==
  /\ pc[c] = "wait" /\ polls[c] > 1 /\ ~Fresh
  /\ polls' = [polls EXCEPT ![c] = @ - 1]
  /\ UNCHANGED <<cache, lock, newest, pc, left, held, late, straggled>>

\* A mutant of StopWaiting: it tries the lock again instead of returning.
StopWaitingRetry(c) ==
  /\ pc[c] = "wait"
  /\ Goto(c, "locking", 0)
  /\ polls' = [polls EXCEPT ![c] = 0]
  /\ UNCHANGED <<cache, lock, newest, held, late, straggled>>

\* It found a fresh token, failed, or has looked often enough.
StopWaiting(c) ==
  /\ pc[c] = "wait"
  /\ Goto(c, "idle", 0)
  /\ polls' = [polls EXCEPT ![c] = 0]
  /\ UNCHANGED <<cache, lock, newest, held, late, straggled>>

\* What c leaves behind when it ends early: its request may still be handled.
LeaveBehind(c) ==
  \/ /\ held' = IF pc[c] \in {"granted", "publish"} THEN [held EXCEPT ![c] = Nothing] ELSE held
     /\ UNCHANGED late
  \/ /\ pc[c] \in Requests
     /\ late' = late \union {<<pc[c], c>>}
     /\ UNCHANGED held

\* An error, a timeout, a fresh token found under the lock, an answer that is not
\* valid: the call releases the lock if it knows that it has it, and ends.
GiveUp(c) ==
  /\ pc[c] \in Timed \union {"locking"}
  /\ LeaveBehind(c)
  /\ Goto(c, IF pc[c] \in {"locking", "locked"} THEN "idle" ELSE "release", 0)
  /\ UNCHANGED <<cache, lock, newest, polls, straggled>>

-----------------------------------------------------------------------------
(* The world. *)

\* A request of a call that gave up is handled after all, or is lost.
Straggle(c) ==
  /\ \E step \in Requests :
       /\ <<step, c>> \in late
       /\ late' = late \ {<<step, c>>}
       /\ held' = IF step = "publish" THEN [held EXCEPT ![c] = Nothing] ELSE held
       /\ \/ /\ step = "issue" /\ \E t \in Tokens : NewToken(t)
             /\ straggled' = TRUE
             /\ UNCHANGED cache
          \/ /\ step = "publish" /\ SetCache(c)
             /\ straggled' = TRUE
             /\ UNCHANGED newest
          \/ UNCHANGED <<cache, newest, straggled>>
  /\ UNCHANGED <<lock, pc, left, polls>>

\* The process of call c dies; its lock stays until it expires.
Die(c) ==
  /\ pc[c] # "idle"
  /\ LeaveBehind(c)
  /\ Goto(c, "idle", 0)
  /\ polls' = [polls EXCEPT ![c] = 0]
  /\ UNCHANGED <<cache, lock, newest, straggled>>

Less(n) == IF n > 0 THEN n - 1 ELSE 0

\* Time passes.  A punctual call ends a step before its limit.
Tick ==
  /\ Punctual => \A c \in Calls : pc[c] \in Timed => left[c] > 0
  /\ left' = [c \in Calls |-> Less(left[c])]
  /\ lock' = IF lock.ttl > 1 THEN [lock EXCEPT !.ttl = @ - 1] ELSE Free
  /\ newest' = [newest EXCEPT !.valid = Less(@)]
  /\ cache' = Cached([cache EXCEPT !.life = Less(@)])
  /\ held' = [c \in Calls |-> [held[c] EXCEPT !.life = Less(@)]]
  /\ UNCHANGED <<pc, polls, late, straggled>>

Step(c) ==
  \/ TryLock(c) \/ Owned(c) \/ Recheck(c) \/ Issue(c) \/ Payload(c) \/ Publish(c)
  \/ Release(c) \/ Poll(c) \/ StopWaiting(c) \/ GiveUp(c)

Next == Tick \/ \E c \in Calls : Ensure(c) \/ Step(c) \/ Straggle(c) \/ Die(c)

Spec == Init /\ [][Next]_vars

-----------------------------------------------------------------------------
(* Properties. *)

\* Asking for a token and publishing it.
Replacing(c) == pc[c] \in {"issue", "granted", "publish"}

\* No two calls replace the token at the same time ("issues exactly one
\* replacement token", ensure.go:122-124), however many daemons and crashes.
OneReplacement == \A c, d \in Calls : Replacing(c) /\ Replacing(d) => c = d

\* Nobody asks for a token while the cache has a fresh one: the provider would
\* cancel a token in use.  This is what the second look is for (ensure.go:150-158).
\* It holds until a request that a call gave up on is handled after all.
NoNeedlessIssue == ~straggled => \A c \in Calls : Replacing(c) => ~Fresh

\* A token that consumers take from the cache is the last one issued and still
\* valid, although its expiry is counted from when the answer arrived, and the
\* provider permits one valid token per client (ensure.go:163-169).
\* It holds until a request that a call gave up on is handled after all.
FreshIsUsable == ~straggled /\ Fresh => cache.token = newest.token /\ newest.valid > 0

\* "publish the replacement while still owning this shared lock" (ensure.go:168).
PublishOwnsLock == \A c \in Calls : pc[c] = "publish" => lock.owner = c

-----------------------------------------------------------------------------
(* Liveness. *)

\* Every step of a call ends by its timeout, or, where the code sets none (a TLS
\* handshake with Redis in the periodic loop, redis.go:223), because the peer
\* answers or the connection breaks; the ticker begins the periodic call again;
\* Redis, the provider and the process do not fail for ever.
Fairness ==
  /\ WF_vars(Tick) /\ WF_vars(Ensure(Periodic))
  /\ \A c \in Calls : WF_vars(Step(c)) /\ WF_vars(Straggle(c))
  /\ SF_vars(\E c \in Calls : lock = Free /\ TryLock(c)) /\ SF_vars(\E c \in Calls : Owned(c))
  /\ SF_vars(\E c \in Calls : Recheck(c)) /\ SF_vars(\E c \in Calls : Issue(c))
  /\ SF_vars(\E c \in Calls : Payload(c)) /\ SF_vars(\E c \in Calls : Publish(c))

FairSpec == Spec /\ Fairness

\* Every call returns, also one that waits for another's lock (ensure.go:211-240).
CallsReturn == \A c \in Calls : pc[c] # "idle" ~> pc[c] = "idle"

\* The cache has a fresh token again and again, although a call can die with the
\* lock (ensure.go:20, run.go:141-152).
StaysFresh == []<>Fresh
=============================================================================
