--------------------------- MODULE PermCacheProofs ---------------------------
(* Machine-checked proofs about PermCache, for every value of the          *)
(* constants that ConstAssumption allows.                                  *)
EXTENDS PermCache, TLAPS

\* Every kind's cache lifetime is at least one tick and at most MaxTTL.
LEMMA TTLBounds == \A k \in AllKinds : TTL(k) \in 1..MaxTTL
  <1>1. TickSeconds \in Nat \ {0} /\ 600 % TickSeconds = 0
    BY ConstAssumption DEF PermDuration, AllKinds
  <1>2. TickSeconds <= 600
    BY <1>1
  <1>3. QED
    BY <1>1, <1>2 DEF TTL, MaxTTL, PermDuration, AllKinds

\* The request slot of an idle worker is a request.
LEMMA NoReqType == NoReq \in Requests
  <1>1. PICK k \in Kinds, u \in Users, a \in Apps : TRUE
    BY ConstAssumption
  <1>2. [kind |-> k, user |-> u, app |-> a] \in Requests
    BY DEF Requests
  <1>3. QED
    BY <1>2 DEF NoReq

\* A cache entry written at tick now lives for TTL(k) ticks within the bound.
LEMMA EntryType ==
    ASSUME NEW k \in Kinds, NEW b \in BOOLEAN, now \in 0..MaxTime
    PROVE  [perm |-> b, exp |-> now + TTL(k)]
             \in [perm : BOOLEAN, exp : 1..(MaxTime + MaxTTL)]
  <1>1. TTL(k) \in 1..MaxTTL
    BY TTLBounds, ConstAssumption
  <1>2. MaxTTL \in Nat /\ MaxTime \in Nat
    BY TTLBounds, ConstAssumption DEF MaxTTL, AllKinds
  <1>3. QED
    BY <1>1, <1>2

LEMMA TypeInit == Init => TypeOK
  <1> SUFFICES ASSUME Init PROVE TypeOK
    OBVIOUS
  <1>1. cache \in [Keys -> {NoEntry} \cup [perm : BOOLEAN, exp : 1..(MaxTime + MaxTTL)]]
    BY DEF Init
  <1>2. QED
    BY <1>1, NoReqType, ConstAssumption DEF Init, TypeOK, Granted, Reply, NoResp

LEMMA TypeStep == TypeOK /\ [Next]_vars => TypeOK'
    <2> SUFFICES ASSUME TypeOK, [Next]_vars PROVE TypeOK'
      OBVIOUS
    <2> USE DEF TypeOK
    <2>1. ASSUME NEW w \in Workers, NEW r \in Requests, Start(w, r)
          PROVE TypeOK'
      BY <2>1 DEF Start
    <2>2. ASSUME NEW w \in Workers, NEW up \in BOOLEAN, Lookup(w, up)
          PROVE TypeOK'
      <3>1. ReqKey(w) \in Keys
        BY DEF ReqKey, Key, Keys, Requests
      <3>2. cache[ReqKey(w)] # NoEntry => cache[ReqKey(w)].perm \in BOOLEAN
        BY <3>1
      <3>3. QED
        BY <2>2, <3>2 DEF Lookup, Granted, Reply
    <2>3. ASSUME NEW w \in Workers, NEW up \in BOOLEAN, StoreQuery(w, up)
          PROVE TypeOK'
      BY <2>3 DEF StoreQuery
    <2>4. ASSUME NEW w \in Workers, NEW up \in BOOLEAN, CacheSet(w, up)
          PROVE TypeOK'
      <3>1. ReqKey(w) \in Keys /\ req[w].kind \in Kinds
        BY DEF ReqKey, Key, Keys, Requests
      <3>2. [perm |-> val[w], exp |-> now + TTL(req[w].kind)]
              \in [perm : BOOLEAN, exp : 1..(MaxTime + MaxTTL)]
        BY <3>1, EntryType
      <3>3. QED
        BY <2>4, <3>1, <3>2 DEF CacheSet, Granted, Reply
    <2>5. ASSUME NEW w \in Workers, Finish(w)
          PROVE TypeOK'
      BY <2>5, NoReqType DEF Finish
    <2>6. ASSUME NEW u \in Users, NEW p \in PermIds, Revoke(u, p)
          PROVE TypeOK'
      BY <2>6 DEF Revoke
    <2>7. CASE Tick
      <3> DEFINE Entries == {NoEntry} \cup [perm : BOOLEAN, exp : 1..(MaxTime + MaxTTL)]
      <3>1. ASSUME NEW key \in Keys
            PROVE  (IF cache[key] # NoEntry /\ cache[key].exp <= now + 1
                      THEN NoEntry ELSE cache[key]) \in Entries
        OBVIOUS
      <3>2. cache' \in [Keys -> Entries]
        BY <2>7, <3>1 DEF Tick
      <3>3. now' \in 0..MaxTime
        BY <2>7, ConstAssumption DEF Tick
      <3>4. QED
        BY <2>7, <3>2, <3>3 DEF Tick
    <2>8. CASE UNCHANGED vars
      BY <2>8 DEF vars
    <2>9. QED
      BY <2>1, <2>2, <2>3, <2>4, <2>5, <2>6, <2>7, <2>8 DEF Next

\* Type correctness: every reachable state satisfies TypeOK.
THEOREM TypeCorrect == Spec => []TypeOK
  BY TypeInit, TypeStep, PTL DEF Spec

-----------------------------------------------------------------------------
(* GrantWasHeld is not inductive by itself: a hit returns whatever Redis   *)
(* holds, and CacheSet returns and caches what the worker read. The        *)
(* strengthening says the same of those two places, and of the database.   *)

\* Every permission in the database has been held (the store's answers).
DBHeld == \A u \in Users : \A p \in rolePerms[u] : <<u, p>> \in everHeld

\* Every TRUE in Redis, under the key of (k, u, a), was held by u.
CacheHeld ==
    \A key \in Keys :
        cache[key] # NoEntry /\ cache[key].perm = TRUE =>
            <<key[2], PermId[key[1]]>> \in everHeld

\* Every TRUE a worker read from the store and has yet to cache was held.
ValHeld ==
    \A w \in Workers :
        pc[w] = "set" /\ val[w] = TRUE =>
            <<req[w].user, PermId[req[w].kind]>> \in everHeld

\* A call that has not returned has no reply yet.
Pending == \A w \in Workers : pc[w] # "done" => resp[w] = NoResp

IInv == TypeOK /\ DBHeld /\ CacheHeld /\ ValHeld /\ Pending /\ GrantWasHeld

\* Keys and requests: the key of a worker's request is a key of Redis, and
\* its components are the request's.
LEMMA ReqKeyFacts ==
    ASSUME TypeOK, NEW w \in Workers
    PROVE  /\ ReqKey(w) \in Keys
           /\ ReqKey(w)[1] = req[w].kind
           /\ ReqKey(w)[2] = req[w].user
  BY DEF TypeOK, ReqKey, Key, Keys, Requests

LEMMA IInvInit == Init => IInv
  <1> SUFFICES ASSUME Init PROVE IInv
    OBVIOUS
  <1>1. TypeOK
    BY TypeInit
  <1>2. DBHeld
    BY DEF Init, DBHeld
  <1>3. CacheHeld
    BY DEF Init, CacheHeld
  <1>4. ValHeld
    BY DEF Init, ValHeld
  <1>5. GrantWasHeld
    BY DEF Init, GrantWasHeld, NoResp, Granted, Reply
  <1>6. Pending
    BY DEF Init, Pending
  <1>7. QED
    BY <1>1, <1>2, <1>3, <1>4, <1>5, <1>6 DEF IInv

LEMMA IInvStep == IInv /\ [Next]_vars => IInv'
  <1> SUFFICES ASSUME IInv, [Next]_vars PROVE IInv'
    OBVIOUS
  <1>0. TypeOK /\ TypeOK'
    BY TypeStep DEF IInv
  <1> USE DEF IInv
  <1>1. ASSUME NEW w \in Workers, NEW r \in Requests, Start(w, r)
        PROVE IInv'
    <2>1. resp'[w] = NoResp
      BY <1>1 DEF Start, Pending
    <2>2. QED
      BY <1>0, <1>1, <2>1 DEF Start, DBHeld, CacheHeld, ValHeld, Pending,
         GrantWasHeld, NoResp, Granted, Reply, TypeOK
  <1>2. ASSUME NEW w \in Workers, NEW up \in BOOLEAN, Lookup(w, up)
        PROVE IInv'
    <2> DEFINE e == cache[ReqKey(w)]
    <2>1. ReqKey(w) \in Keys /\ ReqKey(w)[1] = req[w].kind /\ ReqKey(w)[2] = req[w].user
      BY <1>0, ReqKeyFacts
    <2>2. e # NoEntry /\ e.perm = TRUE => <<req[w].user, PermId[req[w].kind]>> \in everHeld
      BY <2>1 DEF CacheHeld
    <2>3. GrantWasHeld'
      BY <1>2, <2>2, <1>0 DEF Lookup, GrantWasHeld, Granted, Reply, TypeOK
    <2>4. ValHeld'
      BY <1>2, <1>0 DEF Lookup, ValHeld, TypeOK
    <2>5. Pending'
      BY <1>2, <1>0 DEF Lookup, Pending, TypeOK
    <2>6. QED
      BY <1>2, <2>3, <2>4, <2>5, <1>0 DEF Lookup, DBHeld, CacheHeld
  <1>3. ASSUME NEW w \in Workers, NEW up \in BOOLEAN, StoreQuery(w, up)
        PROVE IInv'
    <2>1. ValHeld'
      <3>1. CASE up /\ StoreDecision(req[w].user, req[w].kind)
        <4>1. PermId[req[w].kind] \in rolePerms[req[w].user]
          BY <3>1 DEF StoreDecision
        <4>2. req[w].user \in Users
          BY <1>0 DEF TypeOK, Requests
        <4>3. QED
          BY <1>3, <3>1, <4>1, <4>2, <1>0 DEF StoreQuery, ValHeld, DBHeld, TypeOK
      <3>2. CASE ~(up /\ StoreDecision(req[w].user, req[w].kind))
        BY <1>3, <3>2, <1>0 DEF StoreQuery, ValHeld, TypeOK
      <3>3. QED
        BY <3>1, <3>2
    <2>2. GrantWasHeld'
      BY <1>3, <1>0 DEF StoreQuery, GrantWasHeld, ErrAppNotFound, Granted, Reply, TypeOK
    <2>3. Pending'
      BY <1>3, <1>0 DEF StoreQuery, Pending, TypeOK
    <2>4. QED
      BY <1>0, <1>3, <2>1, <2>2, <2>3 DEF StoreQuery, DBHeld, CacheHeld
  <1>4. ASSUME NEW w \in Workers, NEW up \in BOOLEAN, CacheSet(w, up)
        PROVE IInv'
    <2>1. ReqKey(w) \in Keys /\ ReqKey(w)[1] = req[w].kind /\ ReqKey(w)[2] = req[w].user
      BY <1>0, ReqKeyFacts
    <2>2. val[w] = TRUE => <<req[w].user, PermId[req[w].kind]>> \in everHeld
      BY <1>4 DEF CacheSet, ValHeld
    <2>3. CacheHeld'
      BY <1>4, <2>1, <2>2, <1>0 DEF CacheSet, CacheHeld, TypeOK
    <2>4. GrantWasHeld'
      BY <1>4, <2>2, <1>0 DEF CacheSet, GrantWasHeld, Granted, Reply, TypeOK
    <2>5. ValHeld'
      BY <1>4, <1>0 DEF CacheSet, ValHeld, TypeOK
    <2>6. Pending'
      BY <1>4, <1>0 DEF CacheSet, Pending, TypeOK
    <2>7. QED
      BY <1>0, <1>4, <2>3, <2>4, <2>5, <2>6 DEF CacheSet, DBHeld
  <1>5. ASSUME NEW w \in Workers, Finish(w)
        PROVE IInv'
    BY <1>5, <1>0 DEF Finish, DBHeld, CacheHeld, ValHeld, GrantWasHeld, Pending,
       NoResp, Granted, Reply, TypeOK
  <1>6. ASSUME NEW u \in Users, NEW p \in PermIds, Revoke(u, p)
        PROVE IInv'
    BY <1>6, <1>0 DEF Revoke, DBHeld, CacheHeld, ValHeld, GrantWasHeld, Pending, TypeOK
  <1>7. CASE Tick
    BY <1>7, <1>0 DEF Tick, DBHeld, CacheHeld, ValHeld, GrantWasHeld, Pending, TypeOK
  <1>8. CASE UNCHANGED vars
    BY <1>8, <1>0 DEF vars, DBHeld, CacheHeld, ValHeld, GrantWasHeld, Pending, TypeOK
  <1>9. QED
    BY <1>1, <1>2, <1>3, <1>4, <1>5, <1>6, <1>7, <1>8 DEF Next

\* Authorization soundness, for every number of users, apps, workers,
\* kinds and ticks: no Check call returns TRUE for a permission its user
\* never held in the database.
THEOREM GrantSound == Spec => []GrantWasHeld
  <1>1. Spec => []IInv
    BY IInvInit, IInvStep, PTL DEF Spec
  <1>2. QED
    BY <1>1, PTL DEF IInv

=============================================================================
