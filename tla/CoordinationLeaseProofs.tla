---------------------- MODULE CoordinationLeaseProofs ----------------------
(***************************************************************************)
(* Proofs about CoordinationLease, for every set of owners, terms and      *)
(* subscriptions and every bound.                                          *)
(***************************************************************************)
EXTENDS CoordinationLease, TLAPS

-----------------------------------------------------------------------------
(* Lemmas on the operators the actions are built from.                     *)

(* The chosen defaults are members of their sets, so the empty record is a *)
(* record.                                                                 *)
LEMMA Defaults == AnyOwner \in Owners /\ AnyTerm \in Terms /\ NoRecord \in Record
  BY LeaseAssumption DEF AnyOwner, AnyTerm, NoRecord, Record

(* A handle accepted by matchHandle is the exact identity of a live record. *)
LEMMA MatchIsLiveIdentity ==
  ASSUME NEW r \in Record, NEW q, NEW t \in Nat, matchHandle(r, q, t) = "ok"
  PROVE  r.state = "active" /\ r.expiresAt > t /\ SameIdentity(r, q)
  BY DEF matchHandle, settledState, SameIdentity, Record

(* A grant is a live record of the next generation.                        *)
LEMMA GrantedRecord ==
  ASSUME NEW o \in Owners, NEW e \in Nat, NEW k \in Nat, NEW r \in Record
  PROVE  LET g == buildRecord(o, e, k, r) IN
         /\ g \in Record
         /\ g.generation = r.generation + 1 /\ g.version = 0
         /\ g.state = "active" /\ g.expiresAt = e
  BY DEF buildRecord, Record

(* The handle of a record carries its identity.                            *)
LEMMA HandleOfRecord ==
  ASSUME NEW r \in Record
  PROVE  /\ buildHandle(r) \in Handle
         /\ buildHandle(r).generation = r.generation
         /\ buildHandle(r).owner = r.owner /\ buildHandle(r).token = r.token
  BY DEF buildHandle, Handle, Record

(* Storing a record of the type keeps the types of what Store changes.     *)
LEMMA StoreKeepsTypes ==
  ASSUME TypeOK, NEW r \in Record, r.state # "none", NEW hs \in SUBSET Handle,
         Store(r, hs)
  PROVE  /\ record' \in Record
         /\ issued' \subseteq Handle
         /\ subs' \in [Subscribers -> Subscription]
  BY DEF TypeOK, Store, emitChange, EventOf, Subscription, Record

(* The lane holds requests: so do its head and what follows it.            *)
LEMMA HeadRequest ==
  ASSUME TypeOK, lane # <<>>
  PROVE  Head(lane) \in Request /\ Tail(lane) \in Seq(Request)
  BY DEF TypeOK

-----------------------------------------------------------------------------
(* Type correctness.                                                       *)

LEMMA TypeInit == Init => TypeOK
  <1> SUFFICES ASSUME Init PROVE TypeOK
    OBVIOUS
  <1>1. subs \in [Subscribers -> Subscription]
    BY DEF Init, Subscription, NoEvent
  <1>2. record \in Record
    BY Defaults DEF Init
  <1>3. disposed \in BOOLEAN
    BY Zenon DEF Init
  <1>4. now \in Nat /\ nextToken \in Nat /\ calls \in Nat /\ issued \subseteq Handle
    BY DEF Init
  <1>5. lane \in Seq(Request)
    BY DEF Init
  <1> QED BY <1>1, <1>2, <1>3, <1>4, <1>5 DEF TypeOK

(* Executing a request keeps the types of everything it may change.        *)
ExecutionTypes ==
  /\ record \in Record /\ nextToken \in Nat
  /\ issued \subseteq Handle /\ subs \in [Subscribers -> Subscription]

LEMMA ExecuteKeepsTypes ==
  ASSUME TypeOK, NEW q \in Request,
         acquire(q) \/ heartbeat(q) \/ release(q) \/ takeover(q)
           \/ compareAndSet(q) \/ refuse(q)
  PROVE  ExecutionTypes'
  <1>a. now \in Nat /\ record \in Record /\ nextToken \in Nat
    BY DEF TypeOK
  <1>b. q.owner \in Owners /\ q.term \in Nat
    BY LeaseAssumption DEF Request
  <1>0. /\ q.owner \in Owners /\ q.term \in Nat /\ now + q.term \in Nat
        /\ record \in Record /\ nextToken \in Nat
    BY <1>a, <1>b
  <1>1. ASSUME Grant(q) PROVE ExecutionTypes'
    <2> DEFINE r == buildRecord(q.owner, now + q.term, nextToken, record)
    <2>1. r \in Record /\ r.state = "active" /\ buildHandle(r) \in Handle
      BY <1>0, GrantedRecord, HandleOfRecord
    <2> HIDE DEF r
    <2>2. Store(r, {buildHandle(r)}) /\ nextToken' = nextToken + 1
      BY <1>1 DEF Grant, r
    <2> QED BY <1>0, <2>1, <2>2, StoreKeepsTypes DEF ExecutionTypes
  <1>2. ASSUME NEW r \in Record, r.state # "none", NEW hs \in SUBSET Handle, Update(r, hs)
        PROVE  ExecutionTypes'
    BY <1>0, <1>2, StoreKeepsTypes DEF Update, ExecutionTypes
  <1>3. CASE acquire(q) \/ takeover(q)
    BY <1>1, <1>3 DEF acquire, takeover
  <1>4. CASE heartbeat(q)
    <2> DEFINE r == [record EXCEPT !.expiresAt = now + q.term]
    <2>1. r \in Record /\ r.state = record.state
      BY <1>0 DEF Record
    <2>2. record.state # "none"
      BY <1>0, <1>4, MatchIsLiveIdentity DEF heartbeat, TypeOK
    <2>3. Update(r, {buildHandle(r)})
      BY <1>4 DEF heartbeat
    <2> HIDE DEF r
    <2>4. buildHandle(r) \in Handle
      BY <2>1, HandleOfRecord
    <2> QED BY <1>2, <2>1, <2>2, <2>3, <2>4
  <1>5. CASE release(q)
    <2> DEFINE r == [record EXCEPT !.state = "released"]
    <2>1. r \in Record /\ r.state = "released"
      BY <1>0 DEF Record
    <2>2. Update(r, {})
      BY <1>5 DEF release
    <2> HIDE DEF r
    <2> QED BY <1>2, <2>1, <2>2
  <1>6. CASE compareAndSet(q)
    <2> DEFINE r == [record EXCEPT !.version = record.version + 1]
    <2>1. r \in Record /\ r.state = record.state
      BY <1>0 DEF Record
    <2>2. record.state # "none"
      BY <1>0, <1>6, MatchIsLiveIdentity DEF compareAndSet, TypeOK
    <2>3. Update(r, {buildHandle(r)})
      BY <1>6 DEF compareAndSet
    <2> HIDE DEF r
    <2>4. buildHandle(r) \in Handle
      BY <2>1, HandleOfRecord
    <2> QED BY <1>2, <2>1, <2>2, <2>3, <2>4
  <1>7. CASE refuse(q)
    BY <1>7 DEF refuse, TypeOK, ExecutionTypes
  <1> QED BY <1>3, <1>4, <1>5, <1>6, <1>7

LEMMA TypeNext == TypeOK /\ [Next]_vars => TypeOK'
  <1> SUFFICES ASSUME TypeOK, [Next]_vars PROVE TypeOK'
    OBVIOUS
  <1> USE DEF TypeOK
  <1>1. ASSUME NEW q \in Request, Submit(q) PROVE TypeOK'
    BY <1>1 DEF Submit
  <1>2. CASE SubmitAcquire
    <2>1. PICK o \in Owners, t \in Terms : Submit(FreshCall("acquire", o, t, "none", 0))
      BY <1>2 DEF SubmitAcquire
    <2>2. FreshCall("acquire", o, t, "none", 0) \in Request
      BY DEF FreshCall, Request, Operations
    <2> QED BY <2>1, <2>2, <1>1
  <1>3. ASSUME NEW op \in Operations, NEW h \in issued, NEW t \in Terms, NEW v \in Nat
        PROVE  HandleCall(op, h, t, v) \in Request
    BY <1>3 DEF HandleCall, Request, Operations, Handle
  <1>4. CASE SubmitHeartbeat
    BY <1>1, <1>3, <1>4 DEF SubmitHeartbeat, Operations
  <1>5. CASE SubmitRelease
    BY <1>1, <1>3, <1>5, Defaults DEF SubmitRelease, Operations
  <1>6. CASE SubmitTakeover
    <2>1. PICK o \in Owners, h \in issued :
            \/ Submit(FreshCall("takeover", o, AnyTerm, "generation", h.generation))
            \/ Submit(FreshCall("takeover", o, AnyTerm, "expiresAt", h.expiresAt))
            \/ Submit(FreshCall("takeover", o, AnyTerm, "proof", 0))
      BY <1>6 DEF SubmitTakeover
    <2>2. /\ FreshCall("takeover", o, AnyTerm, "generation", h.generation) \in Request
          /\ FreshCall("takeover", o, AnyTerm, "expiresAt", h.expiresAt) \in Request
          /\ FreshCall("takeover", o, AnyTerm, "proof", 0) \in Request
      BY Defaults DEF FreshCall, Request, Operations, Handle
    <2> QED BY <2>1, <2>2, <1>1
  <1>7. CASE SubmitCompareAndSet
    BY <1>1, <1>3, <1>7, Defaults DEF SubmitCompareAndSet, Operations
  <1>8. CASE Serve
    <2>1. Head(lane) \in Request /\ lane' \in Seq(Request)
      BY <1>8, HeadRequest DEF Serve
    <2>2. ExecutionTypes'
      BY <1>8, <2>1, ExecuteKeepsTypes DEF Serve
    <2> QED BY <1>8, <2>1, <2>2 DEF Serve, ExecutionTypes
  <1>9. ASSUME NEW s \in Subscribers, unwatch(s) \/ watch(s) PROVE TypeOK'
    <2>a. /\ [attached |-> TRUE, last |-> NoEvent] \in Subscription
          /\ [subs[s] EXCEPT !.attached = FALSE] \in Subscription
      BY DEF Subscription, NoEvent
    <2>b. CASE watch(s)
      BY <2>a, <2>b DEF watch
    <2>c. CASE unwatch(s)
      BY <2>a, <2>c DEF unwatch
    <2> QED BY <1>9, <2>b, <2>c
  <1>10. CASE dispose
    BY <1>10, Defaults DEF dispose, Subscription
  <1>11. CASE Tick
    BY <1>11 DEF Tick
  <1>12. CASE UNCHANGED vars
    BY <1>12 DEF vars
  <1> QED BY <1>2, <1>4, <1>5, <1>6, <1>7, <1>8, <1>9, <1>10, <1>11, <1>12 DEF Next

(* Every reachable state of the lease has the declared types.              *)
THEOREM TypeCorrect == Spec => []TypeOK
  <1> QED BY TypeInit, TypeNext, PTL DEF Spec

-----------------------------------------------------------------------------
(* What a step can do to the lease, as one case split that the safety      *)
(* proofs share.                                                           *)

(* The head request is granted a new generation.                           *)
GrantStep ==
  \E q \in Request :
    /\ lane # <<>> /\ q = Head(lane)
    /\ Grant(q)
    /\ \/ q.op = "acquire" /\ ~live
       \/ q.op = "takeover" /\ proofMatches(record, q)
    /\ UNCHANGED <<now, disposed>>

(* The head request changes the record of the grant it identifies.         *)
UpdateStep ==
  \E q \in Request, r \in Record : \E hs \in {{}, {buildHandle(r)}} :
    /\ lane # <<>> /\ q = Head(lane)
    /\ live /\ SameIdentity(record, q)
    /\ Update(r, hs)
    /\ r.generation = record.generation /\ r.owner = record.owner /\ r.token = record.token
    /\ \/ r.version = record.version /\ r.state = "released"
       \/ r.version = record.version /\ r.state = "active" /\ r.expiresAt > now
       \/ /\ r.version = record.version + 1
          /\ r.expiresAt = record.expiresAt /\ r.state = record.state
    /\ UNCHANGED <<now, disposed>>

(* The record, the handles and the watchers stay as they are.              *)
QuietStep ==
  /\ UNCHANGED <<record, issued, disposed>>
  /\ \/ UNCHANGED subs
     \/ \E s \in Subscribers : watch(s) \/ unwatch(s)
  /\ now' = now \/ now' = now + 1

LEMMA StepCases ==
  ASSUME TypeOK, [Next]_vars
  PROVE  GrantStep \/ UpdateStep \/ QuietStep \/ dispose
  <1>1. ASSUME NEW q, Submit(q) PROVE QuietStep
    BY <1>1 DEF Submit, QuietStep
  <1>2. CASE SubmitAcquire \/ SubmitHeartbeat \/ SubmitRelease \/ SubmitTakeover
               \/ SubmitCompareAndSet
    BY <1>1, <1>2 DEF SubmitAcquire, SubmitHeartbeat, SubmitRelease, SubmitTakeover,
                      SubmitCompareAndSet
  <1>3. CASE Serve
    <2> DEFINE q == Head(lane)
    <2>1. lane # <<>> /\ q \in Request /\ UNCHANGED <<now, disposed>>
      BY <1>3, HeadRequest DEF Serve
    <2>2. acquire(q) \/ heartbeat(q) \/ release(q) \/ takeover(q) \/ compareAndSet(q) \/ refuse(q)
      BY <1>3 DEF Serve
    <2>3. record \in Record /\ now \in Nat /\ q.term \in Nat \ {0}
      <3>1. record \in Record /\ now \in Nat
        BY DEF TypeOK
      <3> HIDE DEF q
      <3>2. q.term \in Nat \ {0}
        BY <2>1, LeaseAssumption DEF Request
      <3> QED BY <3>1, <3>2
    <2> HIDE DEF q
    <2>4. q = Head(lane)
      BY DEF q
    <2>5. CASE acquire(q) \/ takeover(q)
      BY <2>1, <2>4, <2>5 DEF GrantStep, acquire, takeover, live
    <2>6. ASSUME matchHandle(record, q, now) = "ok"
          PROVE  live /\ SameIdentity(record, q) /\ record.expiresAt > now /\ record.state = "active"
      BY <2>3, <2>6, MatchIsLiveIdentity DEF live, settledState, Record
    <2>7. CASE heartbeat(q)
      <3> DEFINE r == [record EXCEPT !.expiresAt = now + q.term]
      <3>1. /\ r \in Record /\ r.expiresAt > now /\ r.version = record.version
            /\ r.generation = record.generation /\ r.owner = record.owner
            /\ r.token = record.token /\ r.state = record.state
        BY <2>3 DEF Record
      <3>2. Update(r, {buildHandle(r)}) /\ matchHandle(record, q, now) = "ok"
        BY <2>7 DEF heartbeat
      <3> HIDE DEF r
      <3> QED BY <2>1, <2>4, <2>6, <3>1, <3>2 DEF UpdateStep
    <2>8. CASE release(q)
      <3> DEFINE r == [record EXCEPT !.state = "released"]
      <3>1. /\ r \in Record /\ r.version = record.version
            /\ r.generation = record.generation /\ r.owner = record.owner
            /\ r.token = record.token /\ r.state = "released"
        BY <2>3 DEF Record
      <3>2. Update(r, {}) /\ matchHandle(record, q, now) = "ok"
        BY <2>8 DEF release
      <3> HIDE DEF r
      <3> QED BY <2>1, <2>4, <2>6, <3>1, <3>2 DEF UpdateStep
    <2>9. CASE compareAndSet(q)
      <3> DEFINE r == [record EXCEPT !.version = record.version + 1]
      <3>1. /\ r \in Record /\ r.version = record.version + 1
            /\ r.generation = record.generation /\ r.owner = record.owner
            /\ r.token = record.token /\ r.state = record.state
            /\ r.expiresAt = record.expiresAt
        BY <2>3 DEF Record
      <3>2. Update(r, {buildHandle(r)}) /\ matchHandle(record, q, now) = "ok"
        BY <2>9 DEF compareAndSet
      <3> HIDE DEF r
      <3> QED BY <2>1, <2>4, <2>6, <3>1, <3>2 DEF UpdateStep
    <2>10. CASE refuse(q)
      BY <2>1, <2>10 DEF refuse, QuietStep
    <2> QED BY <2>2, <2>5, <2>7, <2>8, <2>9, <2>10
  <1>4. ASSUME NEW s \in Subscribers, unwatch(s) \/ watch(s) PROVE QuietStep
    BY <1>4 DEF watch, unwatch, QuietStep
  <1>5. CASE Tick
    BY <1>5 DEF Tick, QuietStep
  <1>6. CASE UNCHANGED vars
    BY <1>6 DEF vars, QuietStep
  <1> QED BY <1>2, <1>3, <1>4, <1>5, <1>6 DEF Next

-----------------------------------------------------------------------------
(* Safety.                                                                 *)

(* Every handle in circulation is of the current generation or an older    *)
(* one, and those of the current generation carry its identity.  This is   *)
(* what makes GenerationNeverReminted inductive: a new grant takes a       *)
(* number no handle carries yet.                                           *)
NoHandleAhead ==
  ~disposed =>
    \A h \in issued :
      /\ h.generation <= record.generation
      /\ h.generation = record.generation => h.owner = record.owner /\ h.token = record.token

GenerationInv == TypeOK /\ NoHandleAhead /\ GenerationNeverReminted

LEMMA GenerationInvNext == GenerationInv /\ [Next]_vars => GenerationInv'
  <1> SUFFICES ASSUME GenerationInv, [Next]_vars
               PROVE  NoHandleAhead' /\ GenerationNeverReminted'
    BY TypeNext DEF GenerationInv
  <1>1. /\ TypeOK /\ record \in Record /\ issued \subseteq Handle
        /\ NoHandleAhead /\ GenerationNeverReminted
    BY DEF GenerationInv, TypeOK
  <1>2. ASSUME NEW r \in Record, NEW hs \in {{}, {buildHandle(r)}},
               record' = r, issued' = issued \cup hs, disposed' = disposed,
               \/ r.generation = record.generation + 1
               \/ /\ r.generation = record.generation
                  /\ r.owner = record.owner /\ r.token = record.token
        PROVE  NoHandleAhead' /\ GenerationNeverReminted'
    <2>1. \A h \in issued : h.generation \in Nat
      BY <1>1 DEF Handle
    <2>2. record.generation \in Nat /\ r.generation \in Nat
      BY <1>1, <1>2 DEF Record
    <2>3. \A h \in hs : /\ h.generation = r.generation
                        /\ h.owner = r.owner /\ h.token = r.token
      BY <1>2, HandleOfRecord
    <2> QED BY <1>1, <1>2, <2>1, <2>2, <2>3 DEF NoHandleAhead, GenerationNeverReminted
  <1>3. CASE GrantStep
    <2>1. PICK q \in Request : Grant(q) /\ disposed' = disposed
      BY <1>3 DEF GrantStep
    <2> DEFINE r == buildRecord(q.owner, now + q.term, nextToken, record)
    <2>2. r \in Record /\ r.generation = record.generation + 1
      <3>1. now \in Nat /\ nextToken \in Nat
        BY <1>1 DEF TypeOK
      <3>2. q.owner \in Owners /\ q.term \in Nat
        BY LeaseAssumption DEF Request
      <3> QED BY <1>1, <3>1, <3>2, GrantedRecord
    <2>3. record' = r /\ issued' = issued \cup {buildHandle(r)}
      BY <2>1 DEF Grant, Store
    <2> HIDE DEF r
    <2> QED BY <1>2, <2>1, <2>2, <2>3
  <1>4. CASE UpdateStep
    BY <1>2, <1>4 DEF UpdateStep, Update, Store
  <1>5. CASE QuietStep
    BY <1>1, <1>5 DEF QuietStep, NoHandleAhead, GenerationNeverReminted
  <1>6. CASE dispose
    BY <1>6 DEF dispose, NoHandleAhead, GenerationNeverReminted
  <1> QED BY <1>1, <1>3, <1>4, <1>5, <1>6, StepCases

(* A generation names one grant for ever: no interleaving of queued        *)
(* operations mints a generation that a handle already carries.            *)
THEOREM GenerationUnique == Spec => []GenerationNeverReminted
  <1>1. Init => GenerationInv
    BY TypeInit DEF Init, GenerationInv, NoHandleAhead, GenerationNeverReminted
  <1> QED BY <1>1, GenerationInvNext, PTL DEF Spec, GenerationInv

(* What an attached watcher was told last is what the record holds.        *)
THEOREM WatchersInformed == Spec => []WatcherNeverBehind
  <1>1. Init => WatcherNeverBehind
    BY DEF Init, WatcherNeverBehind
  <1>2. TypeOK /\ WatcherNeverBehind /\ [Next]_vars => WatcherNeverBehind'
    <2> SUFFICES ASSUME TypeOK, WatcherNeverBehind, [Next]_vars
                 PROVE  WatcherNeverBehind'
      OBVIOUS
    <2>0. subs \in [Subscribers -> Subscription]
      BY DEF TypeOK
    <2>1. ASSUME NEW r, NEW hs, Store(r, hs) PROVE WatcherNeverBehind'
      BY <2>0, <2>1 DEF Store, emitChange, EventOf, WatcherNeverBehind, Subscription
    <2>2. CASE GrantStep
      BY <2>1, <2>2 DEF GrantStep, Grant
    <2>3. CASE UpdateStep
      BY <2>1, <2>3 DEF UpdateStep, Update
    <2>4. CASE QuietStep
      BY <2>0, <2>4 DEF QuietStep, WatcherNeverBehind, watch, unwatch, Subscription
    <2>5. CASE dispose
      BY <2>0, <2>5 DEF dispose, WatcherNeverBehind, Subscription
    <2> QED BY <2>2, <2>3, <2>4, <2>5, StepCases
  <1> QED BY <1>1, <1>2, TypeInit, TypeNext, PTL DEF Spec

(* A grant steps to the next generation, as a fresh live record.           *)
LEMMA GrantEffect ==
  ASSUME TypeOK, NEW q \in Request, Grant(q)
  PROVE  /\ record'.generation = record.generation + 1 /\ record'.version = 0
         /\ record'.state = "active" /\ record'.expiresAt > now
         /\ record' \in Record
  <1>1. record \in Record /\ now \in Nat /\ nextToken \in Nat
    BY DEF TypeOK
  <1>2. q.owner \in Owners /\ q.term \in Nat \ {0}
    BY LeaseAssumption DEF Request
  <1> DEFINE r == buildRecord(q.owner, now + q.term, nextToken, record)
  <1>3. now + q.term \in Nat /\ now + q.term > now
    BY <1>1, <1>2
  <1>4. /\ r \in Record /\ r.generation = record.generation + 1 /\ r.version = 0
        /\ r.state = "active" /\ r.expiresAt = now + q.term
    BY <1>1, <1>2, <1>3, GrantedRecord
  <1>5. record' = r
    BY DEF Grant, Store
  <1> HIDE DEF r
  <1> QED BY <1>3, <1>4, <1>5

(* Generation 0 is the unleased record and nothing else.                   *)
Unleased == record.generation = 0 => record = NoRecord

LEMMA UnleasedNext == TypeOK /\ Unleased /\ [Next]_vars => Unleased'
  <1> SUFFICES ASSUME TypeOK, Unleased, [Next]_vars PROVE Unleased'
    OBVIOUS
  <1>0. record \in Record
    BY DEF TypeOK
  <1>1. CASE GrantStep
    BY <1>0, <1>1, GrantEffect DEF GrantStep, Unleased, Record
  <1>2. CASE UpdateStep
    BY <1>2 DEF UpdateStep, Update, Store, Unleased, live, settledState, NoRecord
  <1>3. CASE QuietStep
    BY <1>3 DEF QuietStep, Unleased
  <1>4. CASE dispose
    BY <1>4 DEF dispose, Unleased
  <1> QED BY <1>1, <1>2, <1>3, <1>4, StepCases

LEMMA UnleasedInit == Init => Unleased
  BY DEF Init, Unleased

(* Only the live holder, named exactly, changes the record of its grant.   *)
THEOREM HolderOnly == Spec => OnlyTheHolderChangesAGrant
  <1>1. TypeOK /\ Unleased /\ [Next]_vars =>
          [ record' # record /\ record'.generation = record.generation =>
              /\ live
              /\ lane # <<>> /\ SameIdentity(record, Head(lane))
              /\ SameIdentity(record', Head(lane)) ]_vars
    <2> SUFFICES ASSUME TypeOK, Unleased, [Next]_vars, record' # record,
                        record'.generation = record.generation
                 PROVE  /\ live
                        /\ lane # <<>> /\ SameIdentity(record, Head(lane))
                        /\ SameIdentity(record', Head(lane))
      OBVIOUS
    <2>0. record \in Record /\ now \in Nat /\ nextToken \in Nat
      BY DEF TypeOK
    <2>1. ~GrantStep
      BY <2>0, GrantEffect DEF GrantStep, Record
    <2>2. CASE UpdateStep
      BY <2>2 DEF UpdateStep, Update, Store, SameIdentity
    <2>3. ~QuietStep
      BY DEF QuietStep
    <2>4. CASE dispose
      BY <2>4 DEF dispose, Unleased, NoRecord
    <2> QED BY <2>1, <2>2, <2>3, <2>4, StepCases
  <1> QED BY <1>1, TypeInit, TypeNext, UnleasedInit, UnleasedNext, PTL
          DEF Spec, OnlyTheHolderChangesAGrant

(* A live lease is displaced only by a takeover that quotes its current    *)
(* generation or expiry when it runs.                                      *)
THEOREM DisplacedByProof == Spec => LiveLeaseDisplacedOnlyByProof
  <1>1. TypeOK /\ [Next]_vars =>
          [ live /\ record'.generation # record.generation /\ ~disposed' =>
              Head(lane).op = "takeover" /\ proofMatches(record, Head(lane)) ]_vars
    <2> SUFFICES ASSUME TypeOK, [Next]_vars, live, ~disposed',
                        record'.generation # record.generation
                 PROVE  Head(lane).op = "takeover" /\ proofMatches(record, Head(lane))
      OBVIOUS
    <2>1. CASE GrantStep
      BY <2>1 DEF GrantStep
    <2>2. ~UpdateStep
      BY DEF UpdateStep, Update, Store
    <2>3. ~QuietStep /\ ~dispose
      BY DEF QuietStep, dispose
    <2> QED BY <2>1, <2>2, <2>3, StepCases
  <1> QED BY <1>1, TypeInit, TypeNext, PTL DEF Spec, LiveLeaseDisplacedOnlyByProof

-----------------------------------------------------------------------------
(* Refinement.                                                             *)

(* The memory adapter implements the abstract fenced lease: a granted      *)
(* request is a Grant, a write a Put, a release and an expiry a Retire,    *)
(* disposal a Close, and every other step a stutter.                       *)
THEOREM Refinement == Spec => ImplementsFencedLease
  <1>1. Init => Fence!Init
    BY DEF Init, Fence!Init, NoRecord, live, settledState
  <1>2. TypeOK /\ [Next]_vars => [Fence!Next]_(Fence!vars)
    <2> SUFFICES ASSUME TypeOK, [Next]_vars PROVE [Fence!Next]_(Fence!vars)
      OBVIOUS
    <2>0. record \in Record /\ now \in Nat
      BY DEF TypeOK
    <2> USE DEF Fence!Next, Fence!vars
    <2>1. CASE GrantStep
      <3>1. PICK q \in Request : Grant(q) /\ UNCHANGED <<now, disposed>>
        BY <2>1 DEF GrantStep
      <3>2. /\ record'.generation = record.generation + 1 /\ record'.version = 0
            /\ record'.state = "active" /\ record'.expiresAt > now /\ record' \in Record
        BY <3>1, GrantEffect
      <3>3. live'
        BY <2>0, <3>1, <3>2 DEF live, settledState, Record
      <3> QED BY <3>1, <3>2, <3>3 DEF Fence!Grant
    <2>2. CASE UpdateStep
      <3>1. PICK r \in Record :
              /\ live /\ record' = r /\ r.generation = record.generation
              /\ \/ r.version = record.version /\ r.state = "released"
                 \/ r.version = record.version /\ r.state = "active" /\ r.expiresAt > now
                 \/ /\ r.version = record.version + 1
                    /\ r.expiresAt = record.expiresAt /\ r.state = record.state
              /\ UNCHANGED <<now, disposed>>
        BY <2>2 DEF UpdateStep, Update, Store
      <3>2. CASE r.version = record.version /\ r.state = "released"
        BY <3>1, <3>2 DEF Fence!Retire, live, settledState
      <3>3. CASE r.version = record.version /\ r.state = "active" /\ r.expiresAt > now
        BY <2>0, <3>1, <3>3 DEF live, settledState, Record
      <3>4. CASE /\ r.version = record.version + 1
                 /\ r.expiresAt = record.expiresAt /\ r.state = record.state
        BY <3>1, <3>4 DEF Fence!Put, live, settledState
      <3> QED BY <3>1, <3>2, <3>3, <3>4
    <2>3. CASE QuietStep
      <3>1. ~live => ~live'
        BY <2>0, <2>3 DEF QuietStep, live, settledState, Record
      <3>2. UNCHANGED <<record, disposed>>
        BY <2>3 DEF QuietStep
      <3> QED BY <3>1, <3>2 DEF Fence!Retire
    <2>4. CASE dispose
      BY <2>4 DEF dispose, Fence!Close
    <2> QED BY <2>1, <2>2, <2>3, <2>4, StepCases
  <1> QED BY <1>1, <1>2, TypeInit, TypeNext, PTL DEF Spec, ImplementsFencedLease, Fence!Spec

-----------------------------------------------------------------------------
(* The lane moves.                                                         *)

(* A step of the lane answers one call; no other step takes an answer back *)
(* or adds a call in front of those that wait.                             *)
Answered == calls - Len(lane)

LEMMA AnsweredStep ==
  ASSUME TypeOK, [Next]_vars
  PROVE  /\ calls' >= calls
         /\ Answered' = Answered \/ Answered' = Answered + 1
         /\ Serve => Answered' = Answered + 1
  <1> USE DEF Answered
  <1>0. calls \in Nat /\ Len(lane) \in Nat
    BY DEF TypeOK
  <1>1. ASSUME NEW q, Submit(q)
        PROVE  calls' = calls + 1 /\ Len(lane') = Len(lane) + 1
    <2>1. \E S : lane \in Seq(S) /\ q \in S
      <3>1. lane \in Seq(Request \cup {q})
        BY DEF TypeOK
      <3> QED BY <3>1
    <2> QED BY <1>1, <2>1 DEF Submit
  <1>2. CASE SubmitAcquire \/ SubmitHeartbeat \/ SubmitRelease
               \/ SubmitTakeover \/ SubmitCompareAndSet
    <2>1. \E q : Submit(q)
      BY <1>2 DEF SubmitAcquire, SubmitHeartbeat, SubmitRelease, SubmitTakeover,
                  SubmitCompareAndSet
    <2>2. ~Serve
      BY <1>0, <1>1, <2>1 DEF Serve
    <2> QED BY <1>0, <1>1, <2>1, <2>2
  <1>3. ASSUME Serve PROVE calls' = calls /\ Len(lane') = Len(lane) - 1
    BY <1>3 DEF Serve, TypeOK
  <1>4. CASE Serve
    BY <1>0, <1>3, <1>4
  <1>5. CASE UNCHANGED <<calls, lane>>
    <2>1. ~Serve
      BY <1>0, <1>3, <1>5
    <2> QED BY <1>0, <1>5, <2>1
  <1>6. ASSUME NEW s \in Subscribers, watch(s) \/ unwatch(s) PROVE UNCHANGED <<calls, lane>>
    BY <1>6 DEF watch, unwatch
  <1>7. CASE dispose \/ Tick \/ UNCHANGED vars
    BY <1>5, <1>7 DEF dispose, Tick, vars
  <1> QED BY <1>2, <1>4, <1>5, <1>6, <1>7 DEF Next

(* The lane can run its next link whenever one waits: each operation has   *)
(* an outcome for every record, a refusal at the least.                    *)
LaneCanRun == [](lane # <<>> => ENABLED <<Serve>>_vars)

(* When n calls are answered and another one waits, it gets its answer.    *)
Advances(n) == calls > n /\ Answered = n ~> Answered > n

LEMMA CallAdvances ==
  ASSUME NEW n \in Nat
  PROVE  FairSpec /\ LaneCanRun => Advances(n)
  <1>1. TypeOK /\ calls > n /\ Answered = n => lane # <<>>
    BY DEF TypeOK, Answered
  <1>2. TypeOK /\ calls > n /\ Answered = n /\ [Next]_vars
           => (calls > n /\ Answered = n)' \/ (Answered > n)'
    <2> SUFFICES ASSUME TypeOK, calls > n, Answered = n, [Next]_vars
                 PROVE  (calls > n /\ Answered = n)' \/ (Answered > n)'
      OBVIOUS
    <2>1. calls \in Nat /\ calls' \in Nat
      BY TypeNext DEF TypeOK
    <2> QED BY <2>1, AnsweredStep
  <1>3. TypeOK /\ Answered = n /\ [Next]_vars /\ <<Serve>>_vars => (Answered > n)'
    BY AnsweredStep
  <1> QED BY <1>1, <1>2, <1>3, TypeCorrect, PTL DEF FairSpec, Spec, LaneCanRun, Advances

(* Every waiting call gets its turn, whatever is queued behind it, however *)
(* those before it ended and also after a disposal.                        *)
THEOREM LaneAdvances ==
  FairSpec /\ LaneCanRun =>
      \A n \in Nat : calls > n /\ Answered = n ~> Answered > n
  <1>1. FairSpec /\ LaneCanRun => \A n \in Nat : Advances(n)
    BY CallAdvances
  <1> QED BY <1>1, PTL DEF Advances
=============================================================================
