------------------------- MODULE CoordinationLease -------------------------
(***************************************************************************)
(* The coordination lease of one resource over the in-memory adapter       *)
(* (lib/coordination-lease.js over lib/coordination-adapters.js).          *)
(*                                                                         *)
(* Callers queue operations on the resource's serial lane; each operation  *)
(* runs to its end before the next one starts, but the handle, the proof   *)
(* and the version it carries were read when it was submitted, so by the   *)
(* time it runs the lease may have been extended, released, taken over or  *)
(* expired.  Resources share nothing but an epoch label, so one is         *)
(* modelled.  Time is an integer clock that only Tick moves.               *)
(***************************************************************************)
EXTENDS LeaseRecords, Sequences

CONSTANTS
    Subscribers,    \* watch subscriptions
    MaxNow,         \* bound: the clock stops here
    MaxCalls,       \* bound: operations submitted in all, so also on grants and writes
    MaxLane         \* bound: operations waiting in the lane

VARIABLES
    now,       \* the adapter's clock
    record,    \* the stored record, or NoRecord
    nextToken, \* idFactory: the next fresh fencing token
    lane,      \* operations waiting for their turn, with their arguments
    calls,     \* operations submitted so far
    issued,    \* every handle an operation has answered with
    subs,      \* the watch subscriptions
    disposed   \* the facade and its adapter are disposed

vars == <<now, record, nextToken, lane, calls, issued, subs, disposed>>

-----------------------------------------------------------------------------
(* emitChange and the facade's onEvent: every attached subscription is told *)
(* of the new record before the operation answers.  (The resync flag of a  *)
(* subscription that names a generation to resume from is left out.)       *)
NoEvent == [generation |-> 0, version |-> 0, state |-> "none", expiresAt |-> 0]

EventOf(r) == [generation |-> r.generation, version |-> r.version,
               state |-> r.state, expiresAt |-> r.expiresAt]

emitChange(r) ==
    subs' = [s \in Subscribers |->
               IF subs[s].attached THEN [subs[s] EXCEPT !.last = EventOf(r)] ELSE subs[s]]

(* A stored change: the record is replaced, the watchers are told and, but *)
(* for a release, the caller gets a handle.                                *)
Store(r, handles) ==
    /\ record' = r
    /\ issued' = issued \cup handles
    /\ emitChange(r)

-----------------------------------------------------------------------------
(* Submission.  Arguments are what a caller can hold: any handle ever      *)
(* issued, however old, a generation or expiry seen in one, any version.   *)

Submit(q) ==
    /\ ~disposed
    /\ calls < MaxCalls /\ Len(lane) < MaxLane
    /\ lane' = Append(lane, q)
    /\ calls' = calls + 1
    /\ UNCHANGED <<now, record, nextToken, issued, subs, disposed>>

SubmitAcquire == \E o \in Owners, t \in Terms :
    Submit(FreshCall("acquire", o, t, "none", 0))

SubmitHeartbeat == \E h \in issued, t \in Terms :
    Submit(HandleCall("heartbeat", h, t, 0))

SubmitRelease == \E h \in issued : Submit(HandleCall("release", h, AnyTerm, 0))

SubmitTakeover == \E o \in Owners, h \in issued :
    \/ Submit(FreshCall("takeover", o, AnyTerm, "generation", h.generation))
    \/ Submit(FreshCall("takeover", o, AnyTerm, "expiresAt", h.expiresAt))
    \/ Submit(FreshCall("takeover", o, AnyTerm, "proof", 0))

SubmitCompareAndSet == \E h \in issued, v \in 0 .. 1 :
    Submit(HandleCall("compareAndSet", h, AnyTerm, v))

-----------------------------------------------------------------------------
(* Execution: the operation at the head of the lane.  A missing record      *)
(* settles as "none", so it matches no handle.                             *)

Grant(q) ==
    LET r == buildRecord(q.owner, now + q.term, nextToken, record) IN
    /\ Store(r, {buildHandle(r)})
    /\ nextToken' = nextToken + 1

Update(r, handles) == Store(r, handles) /\ UNCHANGED nextToken

(* Mutant: an acquire after a release or an expiry restarts the sequence.  *)
acquireAfresh(q) ==
    LET r == buildRecord(q.owner, now + q.term, nextToken, NoRecord) IN
    /\ q.op = "acquire"
    /\ settledState(record, now) # "active"
    /\ Store(r, {buildHandle(r)})
    /\ nextToken' = nextToken + 1

acquire(q) ==
    /\ q.op = "acquire"
    /\ settledState(record, now) # "active"
    /\ Grant(q)

(* Mutant: a heartbeat revives the lease of the handle it names.           *)
heartbeatReviving(q) ==
    /\ q.op = "heartbeat"
    /\ SameIdentity(record, q)
    /\ LET r == [record EXCEPT !.expiresAt = now + q.term, !.state = "active"] IN
          Update(r, {buildHandle(r)})

heartbeat(q) ==
    /\ q.op = "heartbeat"
    /\ matchHandle(record, q, now) = "ok"
    /\ LET r == [record EXCEPT !.expiresAt = now + q.term] IN
          Update(r, {buildHandle(r)})

(* Mutant: the release is stored without telling the watchers.             *)
releaseQuietly(q) ==
    /\ q.op = "release"
    /\ matchHandle(record, q, now) = "ok"
    /\ record' = [record EXCEPT !.state = "released"]
    /\ UNCHANGED <<nextToken, issued, subs>>

(* Mutant: the settled state is what a release stores.                     *)
releaseAsExpired(q) ==
    /\ q.op = "release"
    /\ matchHandle(record, q, now) = "ok"
    /\ Update([record EXCEPT !.state = "expired"], {})

release(q) ==
    /\ q.op = "release"
    /\ matchHandle(record, q, now) = "ok"
    /\ Update([record EXCEPT !.state = "released"], {})

(* Mutant: the proof is not compared with the record of the moment.        *)
takeoverUnproved(q) ==
    /\ q.op = "takeover"
    /\ record # NoRecord
    /\ Grant(q)

takeover(q) ==
    /\ q.op = "takeover"
    /\ record # NoRecord
    /\ proofMatches(record, q)
    /\ Grant(q)

compareAndSet(q) ==
    /\ q.op = "compareAndSet"
    /\ matchHandle(record, q, now) = "ok"
    /\ record.version = q.value
    /\ LET r == [record EXCEPT !.version = record.version + 1] IN
          Update(r, {buildHandle(r)})

(* The early returns: whatever its code, an operation that is turned down  *)
(* changes nothing.  A repeated release is one of them, answered as a      *)
(* success to the handle it names; so is failSafe, when idFactory throws   *)
(* before a grant is stored.                                               *)
Turned(q) ==
    \/ q.op = "acquire"
    \/ q.op = "takeover"
    \/ q.op \in {"heartbeat", "release"} /\ matchHandle(record, q, now) # "ok"
    \/ /\ q.op = "compareAndSet"
       /\ matchHandle(record, q, now) # "ok" \/ record.version # q.value

refuse(q) == Turned(q) /\ UNCHANGED <<record, nextToken, issued, subs>>

(* Mutant: a failed operation breaks the chain of the lane.                *)
ServeStoppingAtRefusal ==
    /\ lane # <<>>
    /\ LET q == Head(lane) IN
          \/ acquire(q) \/ heartbeat(q) \/ release(q) \/ takeover(q) \/ compareAndSet(q)
    /\ lane' = Tail(lane)
    /\ UNCHANGED <<now, calls, disposed>>

(* The lane runs one operation and, whatever its outcome, goes on with the *)
(* next one.                                                               *)
Serve ==
    /\ lane # <<>>
    /\ LET q == Head(lane) IN
          acquire(q) \/ heartbeat(q) \/ release(q) \/ takeover(q)
            \/ compareAndSet(q) \/ refuse(q)
    /\ lane' = Tail(lane)
    /\ UNCHANGED <<now, calls, disposed>>

-----------------------------------------------------------------------------
(* Watching, disposal and the clock.                                       *)

Subscription == [attached : BOOLEAN,
                 last : [generation : Nat, version : Nat,
                         state : {"none", "active", "released"}, expiresAt : Nat]]

watch(s) ==
    /\ ~disposed /\ ~subs[s].attached
    /\ subs' = [subs EXCEPT ![s] = [attached |-> TRUE, last |-> NoEvent]]
    /\ UNCHANGED <<now, record, nextToken, lane, calls, issued, disposed>>

(* The observer handle's dispose, also reached through the abort signal.   *)
unwatch(s) ==
    /\ subs[s].attached
    /\ subs' = [subs EXCEPT ![s].attached = FALSE]
    /\ UNCHANGED <<now, record, nextToken, lane, calls, issued, disposed>>

(* Records and listeners are dropped at once; operations already in the    *)
(* lane still run, on the emptied maps.                                    *)
dispose ==
    /\ ~disposed
    /\ disposed' = TRUE
    /\ record' = NoRecord
    /\ subs' = [s \in Subscribers |-> [subs[s] EXCEPT !.attached = FALSE]]
    /\ UNCHANGED <<now, nextToken, lane, calls, issued>>

Tick ==
    /\ now < MaxNow
    /\ now' = now + 1
    /\ UNCHANGED <<record, nextToken, lane, calls, issued, subs, disposed>>

Init ==
    /\ now = 0
    /\ record = NoRecord
    /\ nextToken = 1
    /\ lane = <<>>
    /\ calls = 0
    /\ issued = {}
    /\ subs = [s \in Subscribers |-> [attached |-> FALSE, last |-> NoEvent]]
    /\ disposed = FALSE

Next ==
    \/ SubmitAcquire \/ SubmitHeartbeat \/ SubmitRelease
    \/ SubmitTakeover \/ SubmitCompareAndSet
    \/ Serve
    \/ \E s \in Subscribers : watch(s) \/ unwatch(s)
    \/ dispose
    \/ Tick

Spec == Init /\ [][Next]_vars

(* The lane is a promise chain: the runtime always runs the next link.     *)
FairSpec == Spec /\ WF_vars(Serve)

-----------------------------------------------------------------------------
(* Properties.                                                             *)

(* Every variable keeps its type.                                          *)
TypeOK ==
    /\ now \in Nat
    /\ record \in Record
    /\ nextToken \in Nat
    /\ lane \in Seq(Request)
    /\ calls \in Nat
    /\ issued \subseteq Handle
    /\ subs \in [Subscribers -> Subscription]
    /\ disposed \in BOOLEAN

live == settledState(record, now) = "active"

(* A generation names one grant for ever: two handles that any callers hold *)
(* and that carry the same generation carry the same owner and fencing     *)
(* token, however the operations queued in the lane interleave (disposing  *)
(* the adapter restarts its sequence).                                     *)
GenerationNeverReminted ==
    ~disposed =>
        \A g, h \in issued :
            g.generation = h.generation => g.owner = h.owner /\ g.token = h.token

(* The record of a grant is changed only for the exact identity of that    *)
(* grant while it is live, and keeps its identity; a lease that expired or *)
(* was released is never revived by the handle that held it.               *)
OnlyTheHolderChangesAGrant ==
    [][ record' # record /\ record'.generation = record.generation =>
          /\ live
          /\ lane # <<>> /\ SameIdentity(record, Head(lane))
          /\ SameIdentity(record', Head(lane)) ]_vars

(* A live lease is displaced only by a takeover that quotes its current    *)
(* generation or expiry at the moment it runs, not when it was submitted.  *)
LiveLeaseDisplacedOnlyByProof ==
    [][ live /\ record'.generation # record.generation /\ ~disposed' =>
          Head(lane).op = "takeover" /\ proofMatches(record, Head(lane)) ]_vars

(* A watcher is never left behind: what an attached subscription was told  *)
(* last is what the record holds, so a superseded or released holder that  *)
(* watches has been told.                                                  *)
WatcherNeverBehind ==
    \A s \in Subscribers :
        subs[s].attached /\ subs[s].last # NoEvent =>
            /\ subs[s].last.generation = record.generation
            /\ subs[s].last.version = record.version
            /\ subs[s].last.state = record.state
            /\ subs[s].last.expiresAt = record.expiresAt

(* Every submitted operation is answered, in order, although those before  *)
(* it in the lane may fail or the adapter be disposed meanwhile.           *)
EveryCallAnswered ==
    \A n \in 1 .. MaxCalls : calls >= n ~> calls - Len(lane) >= n

(* The adapter implements the abstract fenced lease.                       *)
Fence == INSTANCE FencedLease WITH
    fence <- IF disposed THEN 0 ELSE record.generation,
    live <- ~disposed /\ live,
    version <- IF disposed THEN 0 ELSE record.version,
    closed <- disposed

ImplementsFencedLease == Fence!Spec
=============================================================================
