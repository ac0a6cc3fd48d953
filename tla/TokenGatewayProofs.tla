-------------------------- MODULE TokenGatewayProofs --------------------------
(***************************************************************************)
(* TokenGateway for any number of calls, and any limits that satisfy        *)
(* LeaseAssumption.                                                         *)
(***************************************************************************)
EXTENDS TokenGateway, TLAPS

\* The assumptions on the constants hold throughout.
USE GatewayAssumption, LeaseAssumption

-----------------------------------------------------------------------------
(* Types. *)

\* What the cache holds after a SET is an entry.
LEMMA CachedType ==
  ASSUME NEW e \in [token : Tokens \union {NoToken}, life : 0 .. Life]
  PROVE  Cached(e) \in Entries
BY DEF Cached, Entries, Nothing

\* A unit of time less.
LEMMA LessType == \A n \in Nat : Less(n) \in Nat /\ Less(n) =< n
BY DEF Less

\* An entry a unit of time later.
LEMMA LessEntry == \A e \in Entries : [e EXCEPT !.life = Less(@)] \in Entries
BY LessType DEF Entries

\* Every reachable state is well typed.
THEOREM TypeCorrect == Spec => []TypeOK
<1>1. Init => TypeOK
  <2> SUFFICES ASSUME Init PROVE TypeOK
    OBVIOUS
  <2>1. Nothing \in Entries
    BY DEF Nothing, Entries
  <2>2. cache \in Entries /\ newest \in [token : Tokens, valid : 0 .. (Life + Buffer)]
    <3>1. PICK t \in Tokens, n \in 0 .. Life :
            /\ newest = [token |-> t, valid |-> n + Buffer]
            /\ cache \in {Nothing, Cached([token |-> t, life |-> n])}
      BY DEF Init
    <3>2. Cached([token |-> t, life |-> n]) \in Entries
      BY CachedType
    <3> QED
      BY <3>1, <3>2, <2>1
  <2> QED
    <3>1. /\ late \subseteq (Requests \X Calls)
          /\ pc \in [Calls -> PCs] /\ polls \in [Calls -> 0 .. Polls]
      BY DEF Init, PCs
    <3>3. straggled \in BOOLEAN
      BY Zenon DEF Init
    <3>2. /\ lock \in [owner : Calls \union {NoCall}, ttl : 0 .. LockTTL]
          /\ left \in [Calls -> 0 .. (RedisLimit + IssueLimit)]
          /\ held \in [Calls -> Entries]
      BY <2>1 DEF Init, Free
    <3> QED
      BY <2>2, <3>1, <3>2, <3>3 DEF TypeOK
<1>2. TypeOK /\ [Next]_vars => TypeOK'
  <2> SUFFICES ASSUME TypeOK, [Next]_vars PROVE TypeOK'
    OBVIOUS
  <2> USE DEF TypeOK
  <2>0. Nothing \in Entries
    BY DEF Nothing, Entries
  <2>1. CASE Tick
    <3>1. cache' \in Entries
      <4>1. [cache EXCEPT !.life = Less(@)] \in Entries
        BY LessEntry
      <4> QED
        BY <2>1, <4>1, CachedType DEF Tick, Entries
    <3>2. lock' \in [owner : Calls \union {NoCall}, ttl : 0 .. LockTTL]
      BY <2>1 DEF Tick, Free
    <3>3. newest' \in [token : Tokens, valid : 0 .. (Life + Buffer)]
      BY <2>1, LessType DEF Tick
    <3>4. left' \in [Calls -> 0 .. (RedisLimit + IssueLimit)]
      BY <2>1, LessType DEF Tick
    <3>5. held' \in [Calls -> Entries]
      <4>1. \A c \in Calls : [held[c] EXCEPT !.life = Less(@)] \in Entries
        BY LessEntry
      <4> QED
        BY <2>1, <4>1 DEF Tick
    <3> QED
      BY <2>1, <3>1, <3>2, <3>3, <3>4, <3>5 DEF Tick
  <2>2. ASSUME NEW c \in Calls, Ensure(c) PROVE TypeOK'
    BY <2>2 DEF Ensure, Goto, PCs
  <2>3. ASSUME NEW c \in Calls, TryLock(c) PROVE TypeOK'
    BY <2>3 DEF TryLock, SetNX, Goto, PCs, Free
  <2>4. ASSUME NEW c \in Calls, Owned(c) PROVE TypeOK'
    BY <2>4 DEF Owned, Goto, PCs
  <2>5. ASSUME NEW c \in Calls, Recheck(c) PROVE TypeOK'
    BY <2>5 DEF Recheck, Goto, PCs
  <2>6. ASSUME NEW c \in Calls, Issue(c) PROVE TypeOK'
    BY <2>6 DEF Issue, NewToken, PCs, Entries
  <2>7. ASSUME NEW c \in Calls, Payload(c) PROVE TypeOK'
    BY <2>7 DEF Payload, Goto, PCs, Entries
  <2>8. ASSUME NEW c \in Calls, Publish(c) PROVE TypeOK'
    <3>1. cache' \in Entries
      BY <2>8, CachedType DEF Publish, SetCache, Entries
    <3> QED
      BY <2>0, <2>8, <3>1 DEF Publish, Goto, PCs
  <2>9. ASSUME NEW c \in Calls, Release(c) PROVE TypeOK'
    BY <2>9 DEF Release, CompareAndDelete, Goto, PCs, Free
  <2>10. ASSUME NEW c \in Calls, Poll(c) PROVE TypeOK'
    BY <2>10 DEF Poll
  <2>11. ASSUME NEW c \in Calls, StopWaiting(c) PROVE TypeOK'
    BY <2>11 DEF StopWaiting, Goto, PCs
  <2>12. ASSUME NEW c \in Calls, LeaveBehind(c)
         PROVE  held' \in [Calls -> Entries] /\ late' \subseteq (Requests \X Calls)
    BY <2>0, <2>12 DEF LeaveBehind
  <2>13. ASSUME NEW c \in Calls, GiveUp(c) PROVE TypeOK'
    BY <2>13, <2>12 DEF GiveUp, Goto, PCs
  <2>14. ASSUME NEW c \in Calls, Die(c) PROVE TypeOK'
    BY <2>14, <2>12 DEF Die, Goto, PCs
  <2>15. ASSUME NEW c \in Calls, Straggle(c) PROVE TypeOK'
    <3>1. cache' \in Entries /\ newest' \in [token : Tokens, valid : 0 .. (Life + Buffer)]
      BY <2>15, CachedType DEF Straggle, SetCache, NewToken, Entries
    <3>2. held' \in [Calls -> Entries] /\ late' \subseteq (Requests \X Calls)
      BY <2>0, <2>15 DEF Straggle
    <3>3. straggled' \in BOOLEAN
      BY <2>15, Zenon DEF Straggle
    <3> QED
      BY <2>15, <3>1, <3>2, <3>3 DEF Straggle
  <2>16. CASE UNCHANGED vars
    BY <2>16 DEF vars
  <2> QED
    BY <2>1, <2>2, <2>3, <2>4, <2>5, <2>6, <2>7, <2>8, <2>9, <2>10, <2>11, <2>13,
       <2>14, <2>15, <2>16 DEF Next, Step
<1> QED
  BY <1>1, <1>2, PTL DEF Spec

-----------------------------------------------------------------------------
(* The lock. *)

\* A punctual call that knows it has the lock still has it when its SET arrives:
\* the lock outlives what is left of the present step and the steps to come.
Remaining(c) ==
  left[c] + (CASE pc[c] = "locked" -> 2 * RedisLimit + IssueLimit
               [] pc[c] = "recheck" -> RedisLimit + IssueLimit
               [] pc[c] \in {"issue", "granted"} -> RedisLimit
               [] OTHER -> 0)

LeaseInv == \A c \in Calls : pc[c] \in Timed => lock.owner = c /\ lock.ttl > Remaining(c)

\* A step of call c that leaves the lock, the limits and the other calls alone.
LEMMA LeaseStep ==
  ASSUME TypeOK, LeaseInv, NEW c \in Calls, NEW step \in PCs, NEW limit \in Nat,
         Goto(c, step, limit), UNCHANGED lock,
         step \in Timed => lock.owner = c /\ (lock.ttl > Remaining(c))'
  PROVE  LeaseInv'
<1> SUFFICES ASSUME NEW d \in Calls, pc'[d] \in Timed
             PROVE  lock'.owner = d /\ (lock.ttl > Remaining(d))'
  BY DEF LeaseInv
<1>1. CASE d = c
  BY <1>1 DEF Goto, TypeOK
<1>2. CASE d # c
  <2>1. pc'[d] = pc[d] /\ left'[d] = left[d]
    BY <1>2 DEF Goto, TypeOK
  <2>2. Remaining(d)' = Remaining(d)
    BY <2>1 DEF Remaining
  <2> QED
    BY <2>1, <2>2 DEF LeaseInv
<1> QED
  BY <1>1, <1>2

\* Initially and after every step of punctual calls.
LEMMA LeaseInductive ==
  ASSUME Punctual
  PROVE  /\ Init => LeaseInv
         /\ TypeOK /\ LeaseInv /\ [Next]_vars => LeaseInv'
<1>1. Init => LeaseInv
  BY DEF Init, LeaseInv, Timed
<1>2. ASSUME TypeOK, LeaseInv, [Next]_vars PROVE LeaseInv'
  <2> USE <1>2 DEF TypeOK
  <2>1. CASE Tick
    <3> SUFFICES ASSUME NEW c \in Calls, pc'[c] \in Timed
                 PROVE  lock'.owner = c /\ (lock.ttl > Remaining(c))'
      BY DEF LeaseInv
    <3>1. pc'[c] = pc[c] /\ left[c] > 0 /\ left'[c] = left[c] - 1
      BY <2>1 DEF Tick, Less
    <3>2. lock.owner = c /\ lock.ttl > Remaining(c)
      BY <3>1 DEF LeaseInv
    <3>3. Remaining(c)' = Remaining(c) - 1 /\ Remaining(c) \in Nat /\ Remaining(c) > 0
      BY <3>1 DEF Remaining
    <3>4. lock.ttl > 1
      BY <3>2, <3>3
    <3>5. lock'.owner = lock.owner /\ lock'.ttl = lock.ttl - 1
      BY <2>1, <3>4 DEF Tick
    <3> QED
      BY <3>2, <3>3, <3>5
  <2>2. ASSUME NEW c \in Calls, Ensure(c) PROVE LeaseInv'
    BY <2>2, LeaseStep DEF Ensure, PCs, Timed
  <2>3. ASSUME NEW c \in Calls, TryLock(c) PROVE LeaseInv'
    <3>1. CASE lock = Free
      <4> SUFFICES ASSUME NEW d \in Calls, pc'[d] \in Timed
                   PROVE  lock'.owner = d /\ (lock.ttl > Remaining(d))'
        BY DEF LeaseInv
      <4>1. d = c
        <5>1. d # c => pc'[d] = pc[d]
          BY <2>3 DEF TryLock, Goto
        <5> QED
          BY <3>1, <5>1 DEF LeaseInv, Free
      <4>2. pc'[c] = "locked" /\ left'[c] = RedisLimit
        BY <2>3, <3>1 DEF TryLock, Goto
      <4>3. lock'.owner = c /\ lock'.ttl = LockTTL
        BY <2>3, <3>1 DEF TryLock, SetNX
      <4>4. Remaining(c)' = 3 * RedisLimit + IssueLimit
        BY <4>2 DEF Remaining
      <4> QED
        BY <4>1, <4>3, <4>4
    <3>2. CASE lock # Free
      BY <2>3, <3>2, LeaseStep DEF TryLock, SetNX, PCs, Timed
    <3> QED
      BY <3>1, <3>2
  <2>4. ASSUME NEW c \in Calls, Owned(c) PROVE LeaseInv'
    <3>1. lock.owner = c /\ lock.ttl > Remaining(c) /\ pc[c] = "locked"
      BY <2>4 DEF Owned, LeaseInv, Timed
    <3>2. Goto(c, "recheck", RedisLimit) /\ UNCHANGED lock
      BY <2>4 DEF Owned
    <3>3. (lock.ttl > Remaining(c))'
      BY <3>1, <3>2 DEF Goto, Remaining
    <3> QED
      BY <3>1, <3>2, <3>3, LeaseStep DEF PCs
  <2>5. ASSUME NEW c \in Calls, Recheck(c) PROVE LeaseInv'
    <3>1. lock.owner = c /\ lock.ttl > Remaining(c) /\ pc[c] = "recheck"
      BY <2>5 DEF Recheck, LeaseInv, Timed
    <3>2. Goto(c, "issue", IssueLimit) /\ UNCHANGED lock
      BY <2>5 DEF Recheck
    <3>3. (lock.ttl > Remaining(c))'
      BY <3>1, <3>2 DEF Goto, Remaining
    <3> QED
      BY <3>1, <3>2, <3>3, LeaseStep DEF PCs
  <2>6. ASSUME NEW c \in Calls, Issue(c) PROVE LeaseInv'
    <3>1. lock.owner = c /\ lock.ttl > Remaining(c) /\ pc[c] = "issue"
      BY <2>6 DEF Issue, LeaseInv, Timed
    <3>2. Goto(c, "granted", left[c]) /\ UNCHANGED lock
      BY <2>6 DEF Issue, Goto
    <3>3. (lock.ttl > Remaining(c))'
      BY <3>1, <3>2 DEF Goto, Remaining
    <3> QED
      BY <3>1, <3>2, <3>3, LeaseStep DEF PCs
  <2>7. ASSUME NEW c \in Calls, Payload(c) PROVE LeaseInv'
    <3>1. lock.owner = c /\ lock.ttl > Remaining(c) /\ pc[c] = "granted"
      BY <2>7 DEF Payload, LeaseInv, Timed
    <3>2. Goto(c, "publish", RedisLimit) /\ UNCHANGED lock
      BY <2>7 DEF Payload
    <3>3. (lock.ttl > Remaining(c))'
      BY <3>1, <3>2 DEF Goto, Remaining
    <3> QED
      BY <3>1, <3>2, <3>3, LeaseStep DEF PCs
  <2>8. ASSUME NEW c \in Calls, Publish(c) PROVE LeaseInv'
    BY <2>8, LeaseStep DEF Publish, PCs, Timed
  <2>9. ASSUME NEW c \in Calls, Release(c) PROVE LeaseInv'
    <3> SUFFICES ASSUME NEW d \in Calls, pc'[d] \in Timed
                 PROVE  lock'.owner = d /\ (lock.ttl > Remaining(d))'
      BY DEF LeaseInv
    <3>1. d # c /\ pc'[d] = pc[d] /\ left'[d] = left[d]
      BY <2>9 DEF Release, Goto, Timed
    <3>2. lock.owner = d /\ lock.ttl > Remaining(d)
      BY <3>1 DEF LeaseInv
    <3>3. UNCHANGED lock /\ Remaining(d)' = Remaining(d)
      BY <2>9, <3>1, <3>2 DEF Release, CompareAndDelete, Remaining
    <3> QED
      BY <3>2, <3>3
  <2>10. ASSUME NEW c \in Calls, Poll(c) \/ Straggle(c) PROVE LeaseInv'
    BY <2>10 DEF Poll, Straggle, LeaseInv, Remaining
  <2>11. ASSUME NEW c \in Calls, StopWaiting(c) PROVE LeaseInv'
    BY <2>11, LeaseStep DEF StopWaiting, PCs, Timed
  <2>12. ASSUME NEW c \in Calls, GiveUp(c) PROVE LeaseInv'
    BY <2>12, LeaseStep DEF GiveUp, PCs, Timed
  <2>13. ASSUME NEW c \in Calls, Die(c) PROVE LeaseInv'
    BY <2>13, LeaseStep DEF Die, PCs, Timed
  <2>14. CASE UNCHANGED vars
    BY <2>14 DEF vars, LeaseInv, Remaining
  <2> QED
    BY <2>1, <2>2, <2>3, <2>4, <2>5, <2>6, <2>7, <2>8, <2>9, <2>10, <2>11, <2>12,
       <2>13, <2>14 DEF Next, Step
<1> QED
  BY <1>1, <1>2

\* LeaseInv holds in every reachable state of punctual calls.
LEMMA LeaseHolds == ASSUME Punctual PROVE Spec => []LeaseInv
BY TypeCorrect, LeaseInductive, PTL DEF Spec

\* Punctual calls replace the token one at a time, whatever dies or is retried
\* around them.
THEOREM OneAtATime == ASSUME Punctual PROVE Spec => []OneReplacement
<1>1. LeaseInv => OneReplacement
  BY DEF LeaseInv, OneReplacement, Replacing, Timed
<1> QED
  BY <1>1, LeaseHolds, PTL

\* They publish the token while they still have the lock.
THEOREM PublishedUnderLock == ASSUME Punctual PROVE Spec => []PublishOwnsLock
<1>1. LeaseInv => PublishOwnsLock
  BY DEF LeaseInv, PublishOwnsLock, Timed
<1> QED
  BY <1>1, LeaseHolds, PTL

-----------------------------------------------------------------------------
(* The token. *)

\* What a call received is the last token issued, and the expiry it is given
\* ends before the token's own.
HeldInv ==
  \A c \in Calls :
    /\ pc[c] = "issue" => left[c] =< IssueLimit
    /\ pc[c] = "granted" => /\ held[c].token = newest.token
                            /\ newest.valid >= Life + Buffer - IssueLimit + left[c]
    /\ pc[c] = "publish" => /\ held[c].token = newest.token
                            /\ held[c].life > 0 => newest.valid > held[c].life

\* The same of the cache, which is not fresh while a call replaces its token.
CacheInv ==
  /\ Fresh => cache.token = newest.token /\ newest.valid > cache.life
  /\ \A c \in Calls : Replacing(c) => ~Fresh

Sound == HeldInv /\ CacheInv

\* What a call gave up on and is handled after all may break both.
TokenInv == ~straggled => Sound

\* The names of requests given up on are not used again.
LateInv ==
  \A c \in Calls : <<"publish", c>> \in late => pc[c] \in {"idle", "release"}

\* LateInv holds in every reachable state.
LEMMA LateHolds == Spec => []LateInv
<1>1. Init => LateInv
  BY DEF Init, LateInv
<1>2. ASSUME TypeOK, LateInv, [Next]_vars PROVE LateInv'
  <2> SUFFICES ASSUME NEW d \in Calls, <<"publish", d>> \in late'
               PROVE  pc'[d] \in {"idle", "release"}
    BY DEF LateInv
  <2> USE <1>2 DEF TypeOK, LateInv
  <2>1. CASE Tick \/ UNCHANGED vars
    BY <2>1 DEF Tick, vars
  <2>2. ASSUME NEW c \in Calls, Ensure(c) PROVE pc'[d] \in {"idle", "release"}
    BY <2>2 DEF Ensure, NameFree, Requests, Goto
  <2>3. ASSUME NEW c \in Calls, TryLock(c) \/ Owned(c) \/ Recheck(c) \/ Issue(c)
        PROVE  pc'[d] \in {"idle", "release"}
    BY <2>3 DEF TryLock, Owned, Recheck, Issue, Goto
  <2>4. ASSUME NEW c \in Calls,
               Payload(c) \/ Publish(c) \/ Release(c) \/ Poll(c) \/ StopWaiting(c)
        PROVE  pc'[d] \in {"idle", "release"}
    BY <2>4 DEF Payload, Publish, Release, Poll, StopWaiting, Goto
  <2>5. ASSUME NEW c \in Calls, GiveUp(c) PROVE pc'[d] \in {"idle", "release"}
    BY <2>5 DEF GiveUp, LeaveBehind, Goto
  <2>6. ASSUME NEW c \in Calls, Die(c) PROVE pc'[d] \in {"idle", "release"}
    BY <2>6 DEF Die, LeaveBehind, Goto
  <2>7. ASSUME NEW c \in Calls, Straggle(c) PROVE pc'[d] \in {"idle", "release"}
    BY <2>7 DEF Straggle
  <2> QED
    BY <1>2, <2>1, <2>2, <2>3, <2>4, <2>5, <2>6, <2>7 DEF Next, Step
<1> QED
  BY <1>1, <1>2, TypeCorrect, PTL DEF Spec

\* A step of call c that issues nothing, stores nothing, and begins no replacement
\* while the cache is fresh.
LEMMA TokenStep ==
  ASSUME TypeOK, Sound, NEW c \in Calls,
         UNCHANGED <<cache, newest>>,
         \A d \in Calls : d # c => pc'[d] = pc[d] /\ held'[d] = held[d] /\ left'[d] = left[d],
         pc'[c] \notin {"granted", "publish"},
         pc'[c] = "issue" => ~Fresh /\ left'[c] =< IssueLimit
  PROVE  Sound'
<1>1. HeldInv'
  BY DEF Sound, HeldInv
<1>2. \A d \in Calls : Replacing(d)' => ~Fresh'
  <2> SUFFICES ASSUME NEW d \in Calls, Replacing(d)' PROVE ~Fresh'
    OBVIOUS
  <2>1. CASE d = c
    BY <2>1 DEF Replacing, Fresh
  <2>2. CASE d # c
    BY <2>2 DEF Replacing, Fresh, Sound, CacheInv
  <2> QED
    BY <2>1, <2>2
<1> QED
  BY <1>1, <1>2 DEF Sound, CacheInv, Fresh

\* Only the one call that replaces the token issues and publishes, so what it
\* holds stays the last token until it is in the cache.
LEMMA TokenInductive ==
  ASSUME Punctual
  PROVE  /\ Init => TokenInv
         /\ TypeOK /\ LeaseInv /\ LateInv /\ TokenInv /\ [Next]_vars => TokenInv'
<1>1. Init => TokenInv
  <2> SUFFICES ASSUME Init PROVE TokenInv
    OBVIOUS
  <2>1. HeldInv /\ \A c \in Calls : ~Replacing(c)
    BY DEF Init, HeldInv, Replacing
  <2>2. PICK t \in Tokens, n \in 0 .. Life :
          /\ newest = [token |-> t, valid |-> n + Buffer]
          /\ cache \in {Nothing, Cached([token |-> t, life |-> n])}
    BY DEF Init
  <2>3. Fresh => cache.token = newest.token /\ newest.valid > cache.life
    BY <2>2 DEF Fresh, Nothing, Cached
  <2> QED
    BY <2>1, <2>3 DEF TokenInv, Sound, CacheInv
<1>2. ASSUME TypeOK, LeaseInv, LateInv, TokenInv, [Next]_vars PROVE TokenInv'
  <2> USE <1>2 DEF TypeOK
  <2> SUFFICES ASSUME ~straggled' PROVE Sound'
    BY DEF TokenInv
  <2>a. ~straggled
    BY DEF Next, vars, Step, Tick, Ensure, TryLock, Owned, Recheck, Issue, Payload,
           Publish, Release, Poll, StopWaiting, GiveUp, Die, Straggle
  <2>b. Sound
    BY <2>a DEF TokenInv
  <2> USE <2>b
  <2>0. \A c, d \in Calls : Replacing(c) /\ Replacing(d) => c = d
    BY DEF LeaseInv, Replacing, Timed
  <2>1. CASE Tick
    <3>1. HeldInv'
      <4> SUFFICES ASSUME NEW c \in Calls
                   PROVE  /\ pc'[c] = "issue" => left'[c] =< IssueLimit
                          /\ pc'[c] = "granted" =>
                               /\ held'[c].token = newest'.token
                               /\ newest'.valid >= Life + Buffer - IssueLimit + left'[c]
                          /\ pc'[c] = "publish" =>
                               /\ held'[c].token = newest'.token
                               /\ held'[c].life > 0 => newest'.valid > held'[c].life
        BY DEF HeldInv
      <4>1. held[c] \in Entries
        OBVIOUS
      <4>2. /\ pc'[c] = pc[c] /\ held'[c].token = held[c].token
            /\ held'[c].life = Less(held[c].life) /\ left'[c] = Less(left[c])
            /\ newest'.token = newest.token /\ newest'.valid = Less(newest.valid)
        BY <2>1, <4>1 DEF Tick, Entries
      <4>3. CASE pc[c] = "granted"
        <5>1. left[c] > 0
          BY <2>1, <4>3 DEF Tick, Timed
        <5> QED
          BY <4>2, <4>3, <5>1 DEF Sound, HeldInv, Less
      <4>4. CASE pc[c] = "publish"
        BY <4>1, <4>2, <4>4 DEF Sound, HeldInv, Less, Entries
      <4>5. CASE pc[c] = "issue"
        BY <4>2, <4>5 DEF Sound, HeldInv, Less
      <4> QED
        BY <4>2, <4>3, <4>4, <4>5
    <3>2. Fresh' => Fresh /\ cache'.token = cache.token /\ cache'.life = cache.life - 1
      <4>1. cache \in Entries
        OBVIOUS
      <4> QED
        BY <2>1, <4>1 DEF Tick, Fresh, Cached, Less, Nothing, Entries
    <3>3. newest'.token = newest.token /\ newest'.valid = Less(newest.valid)
      BY <2>1 DEF Tick
    <3>4. Fresh' => cache'.token = newest'.token /\ newest'.valid > cache'.life
      <4>1. cache.life \in Nat
        BY DEF Entries
      <4> QED
        BY <3>2, <3>3, <4>1 DEF Sound, CacheInv, Less
    <3>5. \A d \in Calls : Replacing(d)' => ~Fresh'
      BY <2>1, <3>2 DEF Tick, Sound, CacheInv, Replacing
    <3> QED
      BY <2>1, <3>1, <3>4, <3>5 DEF Tick, Sound, CacheInv
  <2>2. ASSUME NEW c \in Calls, Ensure(c) PROVE Sound'
    BY <2>2, TokenStep DEF Ensure, Goto
  <2>3. ASSUME NEW c \in Calls, TryLock(c) PROVE Sound'
    BY <2>3, TokenStep DEF TryLock, Goto
  <2>4. ASSUME NEW c \in Calls, Owned(c) PROVE Sound'
    BY <2>4, TokenStep DEF Owned, Goto
  <2>5. ASSUME NEW c \in Calls, Recheck(c) PROVE Sound'
    BY <2>5, TokenStep DEF Recheck, Goto
  <2>6. ASSUME NEW c \in Calls, Issue(c) PROVE Sound'
    <3>1. ~Fresh /\ UNCHANGED cache
      BY <2>6 DEF Issue, Replacing, Sound, CacheInv
    <3>2. HeldInv'
      <4>1. \A d \in Calls : d # c => pc'[d] \notin {"issue", "granted", "publish"}
        BY <2>0, <2>6 DEF Issue, Replacing
      <4>2. pc'[c] = "granted" /\ left'[c] = left[c]
        BY <2>6 DEF Issue
      <4>3. held'[c].token = newest'.token /\ newest'.valid = Life + Buffer
        BY <2>6 DEF Issue, NewToken
      <4>4. left[c] =< IssueLimit
        BY <2>6 DEF Issue, Sound, HeldInv
      <4> QED
        BY <4>1, <4>2, <4>3, <4>4 DEF HeldInv
    <3> QED
      BY <3>1, <3>2 DEF Sound, CacheInv, Fresh
  <2>7. ASSUME NEW c \in Calls, Payload(c) PROVE Sound'
    <3>1. ~Fresh /\ UNCHANGED <<cache, newest>>
      BY <2>7 DEF Payload, Replacing, Sound, CacheInv
    <3>2. HeldInv'
      <4>1. \A d \in Calls : d # c => pc'[d] \notin {"issue", "granted", "publish"}
        BY <2>0, <2>7 DEF Payload, Goto, Replacing
      <4>2. pc'[c] = "publish" /\ pc[c] = "granted"
        BY <2>7 DEF Payload, Goto
      <4>3. held'[c].token = held[c].token /\ held'[c].life = Life
        BY <2>7 DEF Payload, Entries
      <4>4. held[c].token = newest.token /\ newest.valid > Life
        BY <4>2 DEF Sound, HeldInv
      <4> QED
        BY <3>1, <4>1, <4>2, <4>3, <4>4 DEF HeldInv
    <3> QED
      BY <3>1, <3>2 DEF Sound, CacheInv, Fresh
  <2>8. ASSUME NEW c \in Calls, Publish(c) PROVE Sound'
    <3>1. \A d \in Calls : pc'[d] \notin {"issue", "granted", "publish"}
      BY <2>0, <2>8 DEF Publish, Goto, Replacing
    <3>2. Fresh' => cache' = held[c] /\ held[c].life > 0
      BY <2>8 DEF Publish, SetCache, Cached, Nothing, Fresh
    <3>3. Fresh' => cache'.token = newest'.token /\ newest'.valid > cache'.life
      BY <2>8, <3>2 DEF Publish, Sound, HeldInv
    <3> QED
      BY <2>8, <3>1, <3>3 DEF Publish, Sound, HeldInv, CacheInv, Replacing
  <2>9. ASSUME NEW c \in Calls, Release(c) PROVE Sound'
    BY <2>9, TokenStep DEF Release, Goto
  <2>10. ASSUME NEW c \in Calls, Poll(c) PROVE Sound'
    BY <2>10, TokenStep DEF Poll
  <2>11. ASSUME NEW c \in Calls, StopWaiting(c) PROVE Sound'
    BY <2>11, TokenStep DEF StopWaiting, Goto
  <2>12. ASSUME NEW c \in Calls, GiveUp(c) PROVE Sound'
    BY <2>12, TokenStep DEF GiveUp, LeaveBehind, Goto
  <2>13. ASSUME NEW c \in Calls, Die(c) PROVE Sound'
    BY <2>13, TokenStep DEF Die, LeaveBehind, Goto
  <2>14. ASSUME NEW c \in Calls, Straggle(c) PROVE Sound'
    <3>1. UNCHANGED <<cache, newest, pc, left>>
      BY <2>14 DEF Straggle
    <3>2. CASE UNCHANGED held
      BY <3>1, <3>2 DEF Sound, HeldInv, CacheInv, Fresh, Replacing
    <3>3. CASE <<"publish", c>> \in late /\ held' = [held EXCEPT ![c] = Nothing]
      BY <3>1, <3>3, TokenStep DEF LateInv
    <3> QED
      BY <2>14, <3>2, <3>3 DEF Straggle
  <2>15. CASE UNCHANGED vars
    BY <2>15 DEF vars, Sound, HeldInv, CacheInv, Replacing, Fresh
  <2> QED
    BY <2>1, <2>2, <2>3, <2>4, <2>5, <2>6, <2>7, <2>8, <2>9, <2>10, <2>11, <2>12,
       <2>13, <2>14, <2>15 DEF Next, Step
<1> QED
  BY <1>1, <1>2

\* TokenInv holds in every reachable state of punctual calls.
LEMMA TokenHolds == ASSUME Punctual PROVE Spec => []TokenInv
BY TypeCorrect, LeaseHolds, LateHolds, TokenInductive, PTL DEF Spec

\* Consumers of the cache only ever take the last token issued, while it is valid,
\* until a request that its call gave up on is handled after all.
THEOREM CacheIsSound == ASSUME Punctual PROVE Spec => []FreshIsUsable
<1>1. TypeOK /\ TokenInv => FreshIsUsable
  BY DEF TypeOK, TokenInv, Sound, CacheInv, FreshIsUsable, Fresh, Entries
<1> QED
  BY <1>1, TypeCorrect, TokenHolds, PTL

\* Until then no token in use is replaced.
THEOREM NeverNeedless == ASSUME Punctual PROVE Spec => []NoNeedlessIssue
<1>1. TokenInv => NoNeedlessIssue
  BY DEF TokenInv, Sound, CacheInv, NoNeedlessIssue
<1> QED
  BY <1>1, TokenHolds, PTL
=============================================================================
