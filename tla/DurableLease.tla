---------------------------- MODULE DurableLease ----------------------------
(***************************************************************************)
(* The coordination lease over the storage-domain bridge                   *)
(* (createStorageDomainCoordinationAdapter of coordination-adapters.js):   *)
(* the record of one resource lives in a domain unit that outlives the     *)
(* adapters, and each process runs one adapter over it.                    *)
(*                                                                         *)
(* An operation reads the unit, decides, and then writes it (acquire,      *)
(* heartbeat, release) or swaps it on the record's version (takeover,      *)
(* compareAndSet).  The two unit calls run without a pause inside one      *)
(* process, whose lane admits one operation at a time; another process or  *)
(* a crash can come between them.                                          *)
(***************************************************************************)
EXTENDS LeaseRecords

CONSTANTS
    Processes,  \* the processes that run an adapter over the unit
    MaxNow,     \* bound: the clock stops here
    MaxCalls    \* bound: operations started in all

VARIABLES
    now,        \* the clock, the same for every process
    unit,       \* the persisted record, or NoRecord
    nextToken,  \* the next fresh fencing token
    op,         \* per process: the operation between its two unit calls, or Idle
    calls,      \* operations started so far
    issued      \* every handle an operation has answered with

vars == <<now, unit, nextToken, op, calls, issued>>

(* An operation that passed its checks: how it stores what, and the version *)
(* a swap expects.                                                         *)
Idle == [how |-> "none", next |-> NoRecord, expected |-> 0, handles |-> {}]

(* The unit calls.  A write either takes effect or fails; one that answers *)
(* with a promise is reported as unknown and has taken effect by then, or  *)
(* never does.                                                             *)
UnitAnswers == {"done", "failed", "unconfirmed"}

-----------------------------------------------------------------------------
(* First half: read the unit and decide.  An operation that is turned down *)
(* changes nothing and is not shown.                                       *)

Begin(p, how, next, handles) ==
    /\ op[p] = Idle
    /\ calls < MaxCalls
    /\ calls' = calls + 1
    /\ op' = [op EXCEPT ![p] = [how |-> how, next |-> next,
                                expected |-> unit.version, handles |-> handles]]
    /\ UNCHANGED <<now, unit, issued>>

BeginGrant(p, how, owner, term) ==
    LET r == buildRecord(owner, now + term, nextToken, unit) IN
    /\ Begin(p, how, r, {buildHandle(r)})
    /\ nextToken' = nextToken + 1

BeginUpdate(p, how, r, handles) ==
    Begin(p, how, r, handles) /\ UNCHANGED nextToken

(* Mutant: the sequence restarts with the adapter instead of continuing    *)
(* from the persisted record.                                              *)
acquireAfresh(p) == \E o \in Owners, t \in Terms :
    /\ settledState(unit, now) # "active"
    /\ LET r == buildRecord(o, now + t, nextToken, NoRecord) IN
          Begin(p, "write", r, {buildHandle(r)})
    /\ nextToken' = nextToken + 1

(* Mutant: an acquire overwrites whatever it finds.                        *)
acquireUnchecked(p) == \E o \in Owners, t \in Terms : BeginGrant(p, "write", o, t)

acquire(p) == \E o \in Owners, t \in Terms :
    /\ settledState(unit, now) # "active"
    /\ BeginGrant(p, "write", o, t)

heartbeat(p) == \E h \in issued, t \in Terms :
    /\ matchHandle(unit, h, now) = "ok"
    /\ LET r == [unit EXCEPT !.expiresAt = now + t] IN
          BeginUpdate(p, "write", r, {buildHandle(r)})

(* Mutant: the settled state is what a release persists.                   *)
releaseAsExpired(p) == \E h \in issued :
    /\ matchHandle(unit, h, now) = "ok"
    /\ BeginUpdate(p, "write", [unit EXCEPT !.state = "expired"], {})

release(p) == \E h \in issued :
    /\ matchHandle(unit, h, now) = "ok"
    /\ BeginUpdate(p, "write", [unit EXCEPT !.state = "released"], {})

(* The proofs a caller may know: what a handle says, and the generation    *)
(* that any refused call is answered with, of a grant that was never       *)
(* confirmed as well.                                                      *)
KnownProofs ==
    {[proof |-> "expiresAt", value |-> h.expiresAt] : h \in issued}
        \cup {[proof |-> "generation", value |-> g] : g \in 1 .. unit.generation}

takeover(p) == \E o \in Owners, q \in KnownProofs :
    /\ unit # NoRecord
    /\ proofMatches(unit, q)
    /\ BeginGrant(p, "swap", o, AnyTerm)

compareAndSet(p) == \E h \in issued :
    /\ matchHandle(unit, h, now) = "ok"
    /\ LET r == [unit EXCEPT !.version = unit.version + 1] IN
          BeginUpdate(p, "swap", r, {buildHandle(r)})

-----------------------------------------------------------------------------
(* Second half: store, and answer with a handle when that was confirmed.   *)

(* Mutant: a write that failed is answered as if it had been done.         *)
ConfirmAlways(p, answer) == issued' = issued \cup op[p].handles

Confirm(p, answer) ==
    issued' = IF answer = "done" THEN issued \cup op[p].handles ELSE issued

unitWrite(p) ==
    /\ op[p].how = "write"
    /\ \E answer \in UnitAnswers :
          /\ unit' = IF answer = "failed" THEN unit ELSE op[p].next
          /\ Confirm(p, answer)
    /\ op' = [op EXCEPT ![p] = Idle]
    /\ UNCHANGED <<now, nextToken, calls>>

(* The unit swaps when the version it holds is the one that was read.      *)
SwapApplies(p) == unit # NoRecord /\ unit.version = op[p].expected

unitCompareAndSwap(p) ==
    /\ op[p].how = "swap"
    /\ \E answer \in UnitAnswers :
          /\ answer # "failed" => SwapApplies(p)
          /\ unit' = IF answer = "failed" THEN unit ELSE op[p].next
          /\ Confirm(p, answer)
    /\ op' = [op EXCEPT ![p] = Idle]
    /\ UNCHANGED <<now, nextToken, calls>>

(* A process dies, or its adapter is disposed, and a fresh adapter starts  *)
(* over the same unit: all it keeps is what was persisted.                 *)
restart(p) ==
    /\ op[p] # Idle
    /\ op' = [op EXCEPT ![p] = Idle]
    /\ UNCHANGED <<now, unit, nextToken, calls, issued>>

(* The second unit call reads no clock, so a tick between the two calls of *)
(* a lone process could as well come after them: it is taken there.        *)
Tick ==
    /\ now < MaxNow
    /\ \A p \in Processes : op[p] = Idle
    /\ now' = now + 1
    /\ UNCHANGED <<unit, nextToken, op, calls, issued>>

Init ==
    /\ now = 0
    /\ unit = NoRecord
    /\ nextToken = 1
    /\ op = [p \in Processes |-> Idle]
    /\ calls = 0
    /\ issued = {}

Next ==
    \/ \E p \in Processes :
          \/ acquire(p) \/ heartbeat(p) \/ release(p) \/ takeover(p) \/ compareAndSet(p)
          \/ unitWrite(p) \/ unitCompareAndSwap(p) \/ restart(p)
    \/ Tick

Spec == Init /\ [][Next]_vars

-----------------------------------------------------------------------------
(* Properties.                                                             *)

(* Every variable keeps its type.                                          *)
TypeOK ==
    /\ now \in Nat /\ nextToken \in Nat /\ calls \in Nat
    /\ unit \in Record
    /\ issued \subseteq Handle
    /\ op \in [Processes -> [how : {"none", "write", "swap"}, next : Record,
                             expected : Nat, handles : SUBSET Handle]]

(* A generation names one grant for ever, across restarts of the adapter:  *)
(* two handles with the same generation name the same owner and token.     *)
GenerationNeverReminted ==
    \A g, h \in issued :
        g.generation = h.generation => g.owner = h.owner /\ g.token = h.token

(* A handle that a caller was given is never ahead of the unit, and the    *)
(* handle of the current generation is the identity the unit persists: a   *)
(* confirmed grant survives any crash.                                     *)
ConfirmedGrantPersisted ==
    \A h \in issued :
        /\ h.generation <= unit.generation
        /\ h.generation = unit.generation => h.owner = unit.owner /\ h.token = unit.token

live == settledState(unit, now) = "active"

(* A lease that was seen free stays free until the write of the operation  *)
(* that saw it: a live lease is displaced only by a swap, never by the     *)
(* unconditional write of an acquire.                                      *)
LiveLeaseNotOverwritten ==
    [][ live /\ unit'.generation # unit.generation =>
          \E p \in Processes : op[p].how = "swap" /\ op'[p] = Idle ]_vars

(* One process at a time, restarts included, the bridge implements the     *)
(* abstract fenced lease.                                                  *)
Fence == INSTANCE FencedLease WITH
    fence <- unit.generation, live <- live, version <- unit.version, closed <- FALSE

ImplementsFencedLease == Fence!Spec
=============================================================================
