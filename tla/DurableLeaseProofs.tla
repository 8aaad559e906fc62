------------------------- MODULE DurableLeaseProofs -------------------------
(***************************************************************************)
(* Proofs about DurableLease, for every set of owners and terms and every  *)
(* bound.  Types hold for any number of processes; the promises of the     *)
(* lease are proved for processes no two of which are between their two    *)
(* unit calls at a time.  One process with its lane and its restarts is    *)
(* such a case; nothing is said here of processes that overlap.            *)
(***************************************************************************)
EXTENDS DurableLease, TLAPS

(* Only one process runs an adapter over the unit.                         *)
OneProcess == \A p, q \in Processes : p = q

(* The processes take turns: no operation starts while that of another one *)
(* is between its two unit calls.                                          *)
Turns == \A p, q \in Processes : op[p] # Idle /\ op[q] # Idle => p = q

Pending == [how : {"none", "write", "swap"}, next : Record,
            expected : Nat, handles : SUBSET Handle]

-----------------------------------------------------------------------------
(* What an operation between its two unit calls may store.  A grant goes   *)
(* on from the generation of the unit, and waits to be written only while  *)
(* the lease it saw is free; an update keeps the identity of the lease     *)
(* that is still live.                                                     *)

GrantWaits(o) ==
    /\ o.next.generation = unit.generation + 1 /\ o.next.version = 0
    /\ settledState(o.next, now) = "active"
    /\ o.how = "write" => ~live

UpdateWaits(o) ==
    /\ SameIdentity(o.next, unit) /\ live
    /\ \/ o.next.version = unit.version
       \/ o.next.version = unit.version + 1 /\ settledState(o.next, now) = "active"

Waits(o) ==
    /\ o \in Pending /\ o.how # "none"
    /\ o.handles \subseteq {buildHandle(o.next)}
    /\ GrantWaits(o) \/ UpdateWaits(o)

AllWait == \A p \in Processes : op[p] # Idle => Waits(op[p])

IInv == TypeOK /\ AllWait /\ GenerationNeverReminted /\ ConfirmedGrantPersisted

-----------------------------------------------------------------------------
(* The steps, by what they change.                                         *)

BeginStep(p) ==
    /\ \E o \in Pending : Waits(o) /\ op' = [op EXCEPT ![p] = o]
    /\ nextToken' \in Nat /\ calls' \in Nat
    /\ UNCHANGED <<now, unit, issued>>

StoreStep(p) ==
    /\ op[p] # Idle
    /\ op' = [op EXCEPT ![p] = Idle]
    /\ \/ unit' = op[p].next /\ (issued' = issued \/ issued' = issued \cup op[p].handles)
       \/ UNCHANGED <<unit, issued>>
    /\ UNCHANGED <<now, nextToken, calls>>

LEMMA Defaults == AnyOwner \in Owners /\ AnyTerm \in Terms /\ NoRecord \in Record
  BY LeaseAssumption DEF AnyOwner, AnyTerm, NoRecord, Record

LEMMA IdleIsPending == Idle \in Pending
  BY Defaults DEF Idle, Pending, Handle

LEMMA HandleOfRecord ==
  ASSUME NEW r \in Record
  PROVE  /\ buildHandle(r) \in Handle
         /\ buildHandle(r).generation = r.generation
         /\ buildHandle(r).owner = r.owner /\ buildHandle(r).token = r.token
  BY DEF buildHandle, Handle, Record

(* What a grant stores, whether it is written or swapped.                  *)
LEMMA GrantBegins ==
  ASSUME TypeOK, NEW p \in Processes, NEW how \in {"write", "swap"},
         NEW o \in Owners, NEW t \in Terms,
         BeginGrant(p, how, o, t), how = "write" => ~live
  PROVE  BeginStep(p)
  <1> DEFINE r == buildRecord(o, now + t, nextToken, unit)
             w == [how |-> how, next |-> r, expected |-> unit.version,
                   handles |-> {buildHandle(r)}]
  <1>1. /\ r \in Record /\ r.generation = unit.generation + 1 /\ r.version = 0
        /\ r.state = "active" /\ r.expiresAt > now
    BY LeaseAssumption DEF TypeOK, buildRecord, Record
  <1>2. op' = [op EXCEPT ![p] = w] /\ nextToken' \in Nat /\ calls' \in Nat
        /\ UNCHANGED <<now, unit, issued>>
    BY DEF BeginGrant, Begin, TypeOK
  <1> HIDE DEF r
  <1>3. w \in Pending
    BY <1>1, HandleOfRecord DEF Pending, TypeOK, Record
  <1>4. settledState(r, now) = "active"
    BY <1>1 DEF settledState, Record, TypeOK
  <1>5. Waits(w)
    BY <1>1, <1>3, <1>4 DEF Waits, GrantWaits
  <1> HIDE DEF w
  <1> QED BY <1>2, <1>3, <1>5 DEF BeginStep

(* What an update stores.                                                  *)
LEMMA UpdateBegins ==
  ASSUME TypeOK, NEW p \in Processes, NEW how \in {"write", "swap"}, NEW r \in Record,
         NEW handles \in SUBSET {buildHandle(r)}, BeginUpdate(p, how, r, handles),
         SameIdentity(r, unit), live,
         \/ r.version = unit.version
         \/ r.version = unit.version + 1 /\ settledState(r, now) = "active"
  PROVE  BeginStep(p)
  <1> DEFINE w == [how |-> how, next |-> r, expected |-> unit.version, handles |-> handles]
  <1>1. op' = [op EXCEPT ![p] = w] /\ nextToken' \in Nat /\ calls' \in Nat
        /\ UNCHANGED <<now, unit, issued>>
    BY DEF BeginUpdate, Begin, TypeOK
  <1>2. w \in Pending
    BY HandleOfRecord DEF Pending, TypeOK, Record
  <1>3. Waits(w)
    BY <1>2 DEF Waits, UpdateWaits
  <1> HIDE DEF w
  <1> QED BY <1>1, <1>2, <1>3 DEF BeginStep

LEMMA MatchMeansLive ==
  ASSUME TypeOK, NEW h \in issued, matchHandle(unit, h, now) = "ok"
  PROVE  live /\ unit.state = "active" /\ unit.expiresAt > now
  BY DEF matchHandle, settledState, live, TypeOK, Record

LEMMA FirstHalf ==
  ASSUME TypeOK, NEW p \in Processes,
         acquire(p) \/ heartbeat(p) \/ release(p) \/ takeover(p) \/ compareAndSet(p)
  PROVE  BeginStep(p)
  <1>0. unit \in Record /\ now \in Nat
    BY DEF TypeOK
  <1>1. CASE acquire(p)
    BY <1>1, GrantBegins DEF acquire, live
  <1>2. CASE takeover(p)
    BY <1>2, GrantBegins, Defaults DEF takeover
  <1>3. CASE heartbeat(p)
    <2>1. PICK h \in issued, t \in Terms :
             /\ matchHandle(unit, h, now) = "ok"
             /\ BeginUpdate(p, "write", [unit EXCEPT !.expiresAt = now + t],
                            {buildHandle([unit EXCEPT !.expiresAt = now + t])})
      BY <1>3 DEF heartbeat
    <2> DEFINE r == [unit EXCEPT !.expiresAt = now + t]
    <2>2. r \in Record /\ SameIdentity(r, unit) /\ r.version = unit.version
      BY <1>0, LeaseAssumption DEF Record, SameIdentity
    <2>3. live
      BY <2>1, MatchMeansLive
    <2> HIDE DEF r
    <2> QED BY <2>1, <2>2, <2>3, UpdateBegins DEF r
  <1>4. CASE release(p)
    <2>1. PICK h \in issued :
             /\ matchHandle(unit, h, now) = "ok"
             /\ BeginUpdate(p, "write", [unit EXCEPT !.state = "released"], {})
      BY <1>4 DEF release
    <2> DEFINE r == [unit EXCEPT !.state = "released"]
    <2>2. r \in Record /\ SameIdentity(r, unit) /\ r.version = unit.version
      BY <1>0 DEF Record, SameIdentity
    <2>3. live
      BY <2>1, MatchMeansLive
    <2> QED BY <2>1, <2>2, <2>3, UpdateBegins
  <1>5. CASE compareAndSet(p)
    <2>1. PICK h \in issued :
             /\ matchHandle(unit, h, now) = "ok"
             /\ BeginUpdate(p, "swap", [unit EXCEPT !.version = unit.version + 1],
                            {buildHandle([unit EXCEPT !.version = unit.version + 1])})
      BY <1>5 DEF compareAndSet
    <2> DEFINE r == [unit EXCEPT !.version = unit.version + 1]
    <2>2. live /\ unit.state = "active" /\ unit.expiresAt > now
      BY <2>1, MatchMeansLive
    <2>3. /\ r \in Record /\ SameIdentity(r, unit) /\ r.version = unit.version + 1
          /\ settledState(r, now) = "active"
      BY <1>0, <2>2 DEF Record, SameIdentity, settledState
    <2> QED BY <2>1, <2>2, <2>3, UpdateBegins
  <1> QED BY <1>1, <1>2, <1>3, <1>4, <1>5

LEMMA SecondHalf ==
  ASSUME TypeOK, NEW p \in Processes, unitWrite(p) \/ unitCompareAndSwap(p) \/ restart(p)
  PROVE  StoreStep(p)
  <1>1. CASE unitWrite(p)
    BY <1>1 DEF unitWrite, Confirm, StoreStep, Idle, UnitAnswers
  <1>2. CASE unitCompareAndSwap(p)
    BY <1>2 DEF unitCompareAndSwap, Confirm, StoreStep, Idle, UnitAnswers
  <1>3. CASE restart(p)
    BY <1>3 DEF restart, StoreStep
  <1> QED BY <1>1, <1>2, <1>3

LEMMA StepCases ==
  ASSUME TypeOK, [Next]_vars
  PROVE  \/ \E p \in Processes : BeginStep(p) \/ StoreStep(p)
         \/ Tick
         \/ UNCHANGED vars
  BY FirstHalf, SecondHalf DEF Next

-----------------------------------------------------------------------------
(* Types, for any number of processes.                                     *)

LEMMA TypeInit == Init => TypeOK
  BY Defaults, IdleIsPending DEF Init, TypeOK, Pending

LEMMA TypeNext == TypeOK /\ [Next]_vars => TypeOK'
  <1> SUFFICES ASSUME TypeOK, [Next]_vars PROVE TypeOK'
    OBVIOUS
  <1>0. op \in [Processes -> Pending]
    BY DEF TypeOK, Pending
  <1>1. ASSUME NEW p \in Processes, BeginStep(p) PROVE TypeOK'
    <2>1. op' \in [Processes -> Pending]
      BY <1>0, <1>1 DEF BeginStep, Waits
    <2> QED BY <1>1, <2>1 DEF BeginStep, TypeOK, Pending
  <1>2. ASSUME NEW p \in Processes, StoreStep(p) PROVE TypeOK'
    <2>1. op' \in [Processes -> Pending]
      BY <1>0, <1>2, IdleIsPending DEF StoreStep
    <2>2. op[p].next \in Record /\ op[p].handles \in SUBSET Handle
      BY <1>0 DEF Pending
    <2>3. unit' \in Record /\ issued' \subseteq Handle
      BY <1>2, <2>2 DEF StoreStep, TypeOK
    <2> QED BY <1>2, <2>1, <2>3 DEF StoreStep, TypeOK, Pending
  <1>3. CASE Tick
    BY <1>3 DEF Tick, TypeOK
  <1>4. CASE UNCHANGED vars
    BY <1>4 DEF vars, TypeOK
  <1> QED BY <1>1, <1>2, <1>3, <1>4, StepCases

(* Every variable keeps its type, with any number of processes.            *)
THEOREM TypeCorrect == Spec => []TypeOK
  BY TypeInit, TypeNext, PTL DEF Spec

-----------------------------------------------------------------------------
(* Processes that take turns.                                              *)

LEMMA InvInit == Init => IInv
  BY TypeInit DEF Init, IInv, AllWait, GenerationNeverReminted, ConfirmedGrantPersisted

(* Storing what waits never takes the identity of a generation that was    *)
(* handed out, and what is handed out is what was stored.                  *)
LEMMA StoredIdentity ==
  ASSUME IInv, NEW p \in Processes, StoreStep(p)
  PROVE  GenerationNeverReminted' /\ ConfirmedGrantPersisted'
  <1>0. /\ unit \in Record /\ issued \subseteq Handle /\ op[p].next \in Record
        /\ Waits(op[p])
    BY DEF IInv, TypeOK, AllWait, StoreStep
  <1> DEFINE r == op[p].next
  <1>1. \/ r.generation = unit.generation + 1
        \/ SameIdentity(r, unit)
    BY <1>0 DEF Waits, GrantWaits, UpdateWaits
  <1>2. CASE UNCHANGED <<unit, issued>>
    BY <1>2 DEF IInv, GenerationNeverReminted, ConfirmedGrantPersisted
  <1>3. CASE unit' = r /\ issued' \subseteq issued \cup {buildHandle(r)}
    <2> HIDE DEF r
    <2>0. r \in Record
      BY <1>0 DEF r
    <2>1. ASSUME NEW h \in issued
          PROVE  /\ h.generation <= r.generation
                 /\ h.generation = r.generation => h.owner = r.owner /\ h.token = r.token
      BY <1>0, <1>1, <2>0 DEF IInv, ConfirmedGrantPersisted, SameIdentity, Record, Handle
    <2>2. ConfirmedGrantPersisted'
      BY <1>3, <2>0, <2>1, HandleOfRecord DEF ConfirmedGrantPersisted, Record
    <2>3. GenerationNeverReminted'
      BY <1>3, <2>0, <2>1, HandleOfRecord DEF IInv, GenerationNeverReminted
    <2> QED BY <2>2, <2>3
  <1> QED BY <1>0, <1>2, <1>3 DEF StoreStep, Waits

LEMMA InvNext == IInv /\ Turns /\ Turns' /\ [Next]_vars => IInv'
  <1> SUFFICES ASSUME IInv, Turns, Turns', [Next]_vars PROVE IInv'
    OBVIOUS
  <1>0. TypeOK /\ TypeOK'
    BY TypeNext DEF IInv
  <1>1. ASSUME NEW p \in Processes, BeginStep(p) PROVE IInv'
    <2>1. op'[p] \in Pending /\ Waits(op'[p]) /\ UNCHANGED <<now, unit, issued>>
      BY <1>0, <1>1 DEF BeginStep, TypeOK, Waits
    <2>2. op'[p] # Idle
      BY <2>1 DEF Waits, Idle
    <2>3. \A q \in Processes : op'[q] # Idle => q = p
      BY <2>2 DEF Turns
    <2>4. PICK o : o = op'[p] /\ Waits(o) /\ UNCHANGED <<now, unit>>
      BY <2>1
    <2>5. AllWait'
      BY <2>3, <2>4 DEF AllWait, Waits, GrantWaits, UpdateWaits, live
    <2> QED BY <1>0, <2>1, <2>5 DEF IInv, GenerationNeverReminted, ConfirmedGrantPersisted
  <1>2. ASSUME NEW p \in Processes, StoreStep(p) PROVE IInv'
    <2>1. op'[p] = Idle
      BY <1>0, <1>2 DEF StoreStep, TypeOK
    <2>2. \A q \in Processes : op'[q] = Idle
      BY <1>0, <1>2, <2>1 DEF StoreStep, Turns, TypeOK
    <2>3. AllWait'
      BY <2>2 DEF AllWait
    <2> QED BY <1>0, <1>2, <2>3, StoredIdentity DEF IInv
  <1>3. CASE Tick
    <2>1. AllWait'
      BY <1>3 DEF Tick, AllWait
    <2> QED BY <1>0, <1>3, <2>1
            DEF Tick, IInv, GenerationNeverReminted, ConfirmedGrantPersisted
  <1>4. CASE UNCHANGED vars
    BY <1>0, <1>4 DEF vars, IInv, AllWait, Waits, GrantWaits, UpdateWaits, live,
                      GenerationNeverReminted, ConfirmedGrantPersisted
  <1> QED BY <1>0, <1>1, <1>2, <1>3, <1>4, StepCases

LEMMA Invariance == Spec /\ []Turns => []IInv
  BY InvInit, InvNext, PTL DEF Spec

(* An acquire's unconditional write never replaces a live lease.           *)
LEMMA TurnsNotOverwritten == Spec /\ []Turns => LiveLeaseNotOverwritten
  <1>1. IInv /\ [Next]_vars =>
          [ live /\ unit'.generation # unit.generation =>
              \E p \in Processes : op[p].how = "swap" /\ op'[p] = Idle ]_vars
    <2> SUFFICES ASSUME IInv, [Next]_vars, live, unit'.generation # unit.generation
                 PROVE  \E p \in Processes : op[p].how = "swap" /\ op'[p] = Idle
      OBVIOUS
    <2>1. PICK p \in Processes : StoreStep(p)
      BY StepCases DEF IInv, BeginStep, Tick, vars
    <2>2. Waits(op[p]) /\ unit' = op[p].next /\ op'[p] = Idle
      BY <2>1 DEF StoreStep, IInv, AllWait, TypeOK
    <2>3. GrantWaits(op[p])
      BY <2>2 DEF Waits, UpdateWaits, SameIdentity
    <2>4. op[p].how \in {"write", "swap"}
      BY <2>2 DEF Waits, Pending
    <2> QED BY <2>2, <2>3, <2>4 DEF GrantWaits
  <1> QED BY <1>1, Invariance, PTL DEF Spec, LiveLeaseNotOverwritten

(* The bridge implements the abstract fenced lease: the second unit call   *)
(* of a grant is a Grant, of a compareAndSet a Put, of a release a Retire, *)
(* the expiry a Retire, and everything else a stutter.                     *)
LEMMA TurnsRefine == Spec /\ []Turns => ImplementsFencedLease
  <1>1. Init => Fence!Init
    BY DEF Init, Fence!Init, NoRecord, live, settledState
  <1>2. IInv /\ [Next]_vars => [Fence!Next]_(Fence!vars)
    <2> SUFFICES ASSUME IInv, [Next]_vars PROVE [Fence!Next]_(Fence!vars)
      OBVIOUS
    <2>0. unit \in Record /\ now \in Nat
      BY DEF IInv, TypeOK
    <2> USE DEF Fence!Next, Fence!vars
    <2>1. CASE UNCHANGED <<unit, now>>
      BY <2>1 DEF live
    <2>2. CASE Tick
      <3>1. ~live => ~live'
        BY <2>0, <2>2 DEF Tick, live, settledState, Record
      <3>2. unit' = unit
        BY <2>2 DEF Tick
      <3> QED BY <3>1, <3>2 DEF Fence!Retire, live
    <2>3. ASSUME NEW p \in Processes, StoreStep(p), unit' = op[p].next
          PROVE  [Fence!Next]_(Fence!vars)
      <3>1. Waits(op[p]) /\ now' = now
        BY <2>3 DEF StoreStep, IInv, AllWait
      <3>2. CASE GrantWaits(op[p])
        BY <2>3, <3>1, <3>2 DEF GrantWaits, Fence!Grant, live
      <3>3. CASE UpdateWaits(op[p]) /\ unit'.version = unit.version
        BY <2>3, <3>1, <3>3 DEF UpdateWaits, SameIdentity, Fence!Retire, live
      <3>4. CASE UpdateWaits(op[p]) /\ unit'.version # unit.version
        BY <2>3, <3>1, <3>4 DEF UpdateWaits, SameIdentity, Fence!Put, live
      <3> QED BY <3>1, <3>2, <3>3, <3>4 DEF Waits
    <2> QED BY <2>1, <2>2, <2>3, StepCases DEF IInv, BeginStep, StoreStep, vars
  <1> QED BY <1>1, <1>2, Invariance, PTL DEF Spec, ImplementsFencedLease, Fence!Spec

-----------------------------------------------------------------------------
(* What the bridge promises.                                               *)

(* Any number of processes over one unit keep every promise of the lease   *)
(* in a behaviour in which they take turns.                                *)
THEOREM TurnsSuffice ==
  Spec /\ []Turns =>
     /\ []GenerationNeverReminted /\ []ConfirmedGrantPersisted
     /\ LiveLeaseNotOverwritten /\ ImplementsFencedLease
  <1>1. IInv => GenerationNeverReminted /\ ConfirmedGrantPersisted
    BY DEF IInv
  <1> QED BY <1>1, Invariance, TurnsNotOverwritten, TurnsRefine, PTL

(* One process takes turns with itself: its lane admits one operation.     *)
LEMMA OneTakesTurns == OneProcess => (Spec => []Turns)
  <1> SUFFICES ASSUME OneProcess PROVE Spec => []Turns
    OBVIOUS
  <1>1. Turns
    BY DEF OneProcess, Turns
  <1> QED BY <1>1, PTL

(* One process after the other, with any crashes, lost writes and          *)
(* unconfirmed writes between: no generation is minted twice.              *)
THEOREM GenerationUnique == OneProcess => (Spec => []GenerationNeverReminted)
  BY OneTakesTurns, TurnsSuffice, PTL

(* What a caller was given is what the unit holds, or older than it.       *)
THEOREM GrantPersisted == OneProcess => (Spec => []ConfirmedGrantPersisted)
  BY OneTakesTurns, TurnsSuffice, PTL

(* An acquire's unconditional write never replaces a live lease.           *)
THEOREM NotOverwritten == OneProcess => (Spec => LiveLeaseNotOverwritten)
  BY OneTakesTurns, TurnsSuffice, PTL

(* The bridge implements the abstract fenced lease: the second unit call   *)
(* of a grant is a Grant, of a compareAndSet a Put, of a release a Retire, *)
(* the expiry a Retire, and everything else a stutter.                     *)
THEOREM Refinement == OneProcess => (Spec => ImplementsFencedLease)
  BY OneTakesTurns, TurnsSuffice, PTL
=============================================================================
