------------------------------ MODULE EventLog ------------------------------
(***************************************************************************)
(* What a session channel promises of its event stream: the events of a    *)
(* session form one log that only grows, and every answer to a reader is   *)
(* either the uninterrupted continuation of the cursor it named or the     *)
(* explicit statement that the reader has to resynchronize.                *)
(***************************************************************************)
EXTENDS Naturals, Sequences, FiniteSets

CONSTANT Kind           \* the kinds of events

VARIABLES
    log,                \* the kinds of all events; an event is its position
    answer              \* what the last step told a reader

Anywhere == 0           \* the reader named no cursor

NoAnswer == [code |-> "none", from |-> Anywhere, kinds |-> {}, cap |-> 0, frames |-> {}]

(* The first cap of a set of positions. *)
First(positions, cap) == {p \in positions : Cardinality({q \in positions : q <= p}) <= cap}

(* The first cap events after c whose kind the reader asked for. *)
Continuation(c, kinds, cap) == First({p \in (c + 1)..Len(log) : log[p] \in kinds}, cap)

Init == log = <<>> /\ answer = NoAnswer

Publish ==
    /\ \E k \in Kind : log' = Append(log, k)
    /\ answer' = NoAnswer

(* A reader that named a cursor gets what follows it. *)
Continue ==
    /\ answer'.code = "ok"
    /\ answer'.from # Anywhere
    /\ answer'.frames = Continuation(answer'.from, answer'.kinds, answer'.cap)
    /\ UNCHANGED log

(* A reader that named none gets an uninterrupted stretch of the log. *)
Begin ==
    /\ answer'.code = "ok"
    /\ answer'.from = Anywhere
    /\ \E c \in 0..Len(log) : answer'.frames = Continuation(c, answer'.kinds, answer'.cap)
    /\ UNCHANGED log

(* A reader is told that its cursor cannot be continued, or nothing is answered. *)
Resync == answer'.code = "resync" /\ answer'.frames = {} /\ UNCHANGED log
Quiet  == answer' = NoAnswer /\ UNCHANGED log

Next == Publish \/ Continue \/ Begin \/ Resync \/ Quiet

Spec == Init /\ [][Next]_<<log, answer>>
=============================================================================
