------------------------- MODULE InteractionBoundary -------------------------
(***************************************************************************)
(* The agent loop's side of an external session request: one interaction   *)
(* slot per session (packages/agent-loop/lib/interaction-slice.js).  A slot *)
(* exists once a turn has begun on its session; it holds the admissions    *)
(* that wait for a turn, first in first out, the attempt that is live, and *)
(* the operation a queued follow-up turn continues.                        *)
(***************************************************************************)
EXTENDS Naturals, Sequences, FiniteSets

CONSTANTS
    Sessions,     \* session ids
    MaxRequests   \* bound: operation ids that can be minted

ASSUME BoundaryAssumption == Sessions # {} /\ MaxRequests \in Nat

Requests == 1 .. MaxRequests

(* No operation; ids are numbers from 1 on, in the order they are minted.  *)
Nobody == 0

(* Live is whether an attempt is open; op the operation it is attributed   *)
(* to, when it is to one; follow the operation the next turn inherits.     *)
Slot == [attached : BOOLEAN, pending : Seq(Requests), live : BOOLEAN,
         op : Requests \cup {Nobody}, follow : Requests \cup {Nobody}]

NoSlot == [attached |-> FALSE, pending |-> <<>>, live |-> FALSE,
           op |-> Nobody, follow |-> Nobody]

Waiting(slot) == {slot.pending[i] : i \in 1 .. Len(slot.pending)}

(* admit turns a request down without a slot ("no-agent"), during an       *)
(* attempt ("busy") and for a key that waits already ("pending").          *)
admissible(slot) == slot.attached /\ ~slot.live

admit(slot, r) == [slot EXCEPT !.pending = Append(slot.pending, r)]

(* What is left of a queue after the withdrawal of some entries.           *)
Without(queue, gone) ==
    LET kept == {i \in 1 .. Len(queue) : queue[i] \notin gone}
        place(i) == Cardinality({j \in kept : j <= i})
    IN  [n \in 1 .. Cardinality(kept) |-> queue[CHOOSE i \in kept : place(i) = n]]

(* The live attempt is told to stop, which changes nothing here; otherwise *)
(* a waiting admission is withdrawn.                                       *)
cancelAttempt(slot, stopped) ==
    [slot EXCEPT !.pending = Without(slot.pending, stopped)]

(* A turn opens: it takes the oldest admission or, when none waits, goes   *)
(* on with the operation whose attempt ended with a follow-up queued.      *)
beginAttempt(slot) ==
    IF slot.pending # <<>>
    THEN [slot EXCEPT !.attached = TRUE, !.live = TRUE,
                      !.op = Head(slot.pending), !.pending = Tail(slot.pending)]
    ELSE [slot EXCEPT !.attached = TRUE, !.live = TRUE, !.op = slot.follow]

endAttempt(slot, queued) ==
    [slot EXCEPT !.live = FALSE, !.op = Nobody,
                 !.follow = IF queued THEN slot.op ELSE Nobody]
=============================================================================
