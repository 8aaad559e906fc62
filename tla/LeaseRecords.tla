---------------------------- MODULE LeaseRecords ----------------------------
(***************************************************************************)
(* The lease record, the handle and the checks that both coordination      *)
(* adapters share (the top-level helpers of lib/coordination-adapters.js). *)
(*                                                                         *)
(* A generation string is the zero-padded sequence number; the code only   *)
(* compares generations for equality, so the number stands for the string  *)
(* and for the internal seq.  Fencing tokens are fresh ids: numbers drawn  *)
(* in order.  The value a compareAndSet writes is represented by its       *)
(* version, provenance and backend labels are left out.                    *)
(***************************************************************************)
EXTENDS Naturals

CONSTANTS
    Owners,  \* owner ids
    Terms    \* lease durations a caller may ask for

ASSUME LeaseAssumption == Owners # {} /\ Terms # {} /\ Terms \subseteq Nat \ {0}

AnyOwner == CHOOSE o \in Owners : TRUE
AnyTerm == CHOOSE t \in Terms : TRUE

Record == [owner : Owners, generation : Nat, token : Nat, expiresAt : Nat,
           state : {"none", "active", "released"}, version : Nat]

(* The resource has never been leased.                                     *)
NoRecord == [owner |-> AnyOwner, generation |-> 0, token |-> 0, expiresAt |-> 0,
             state |-> "none", version |-> 0]

Handle == [owner : Owners, generation : Nat, token : Nat, expiresAt : Nat]

buildHandle(r) == [owner |-> r.owner, generation |-> r.generation,
                   token |-> r.token, expiresAt |-> r.expiresAt]

(* A new grant continues the sequence of the record it replaces.           *)
buildRecord(owner, expiresAt, token, previous) ==
    [owner |-> owner, generation |-> previous.generation + 1, token |-> token,
     expiresAt |-> expiresAt, state |-> "active", version |-> 0]

(* One shape for the arguments of every operation: proof is the kind of a  *)
(* takeover's proof, value that proof's value or the version that a        *)
(* compareAndSet expects.                                                  *)
Operations == {"acquire", "heartbeat", "release", "takeover", "compareAndSet"}

Request == [op : Operations, owner : Owners, term : Terms, generation : Nat,
            token : Nat, proof : {"none", "generation", "expiresAt", "proof"},
            value : Nat]

HandleCall(op, h, term, value) ==
    [op |-> op, owner |-> h.owner, term |-> term, generation |-> h.generation,
     token |-> h.token, proof |-> "none", value |-> value]

FreshCall(op, owner, term, proof, value) ==
    [op |-> op, owner |-> owner, term |-> term, generation |-> 0, token |-> 0,
     proof |-> proof, value |-> value]

(* An active record past its expiry answers as expired; that state is      *)
(* never stored.                                                           *)
settledState(r, time) ==
    IF r.state = "active" /\ r.expiresAt <= time THEN "expired" ELSE r.state

SameIdentity(r, q) ==
    r.generation = q.generation /\ r.owner = q.owner /\ r.token = q.token

(* Mutant: the expiry is not looked at.                                    *)
matchHandleIgnoringExpiry(r, q, time) ==
    IF r.state # "active" THEN r.state
    ELSE IF ~SameIdentity(r, q) THEN "stale-holder" ELSE "ok"

(* Mutant: owner and token are not compared within a generation.           *)
matchHandleByGeneration(r, q, time) ==
    IF settledState(r, time) # "active" THEN settledState(r, time)
    ELSE IF r.generation # q.generation THEN "superseded" ELSE "ok"

matchHandle(r, q, time) ==
    IF settledState(r, time) # "active" THEN settledState(r, time)
    ELSE IF r.generation # q.generation THEN "superseded"
    ELSE IF ~SameIdentity(r, q) THEN "stale-holder"
    ELSE "ok"

(* A takeover quotes the current generation or the current expiry; an      *)
(* adapter that issues no staleness proofs verifies none.                  *)
proofMatches(r, q) ==
    \/ q.proof = "generation" /\ r.generation = q.value
    \/ q.proof = "expiresAt" /\ r.expiresAt = q.value
=============================================================================
