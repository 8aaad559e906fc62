-------------------------- MODULE RequestAuthority --------------------------
(***************************************************************************)
(* The single authority for external session requests                      *)
(* (lib/session-interaction-operation-authority.js) over the interaction   *)
(* slots of the agent loop (InteractionBoundary).                          *)
(*                                                                         *)
(* A request with content is admitted at the loop boundary, then awaits    *)
(* the durable append and only after it becomes an operation; meanwhile    *)
(* anything may run: other requests, turns of the loop, their facts, the   *)
(* caller's abort, a loop restart, disposal.  Attempt facts are delivered  *)
(* synchronously.  One owner makes the requests, and no request delivers   *)
(* into a live operation (steer, queue); the projection of activities and  *)
(* the waiting phase it lends are left out, and so is the superseded       *)
(* outcome, which no caller of requestCancel asks for.                     *)
(***************************************************************************)
EXTENDS InteractionBoundary

CONSTANTS
    Keys,          \* idempotency keys
    NoKey,         \* a request without one
    Reports,       \* outcomes, other than aborted, that an attempt may end with
    MaxRestarts    \* bound: restarts of the agent loop

ASSUME AuthorityAssumption == NoKey \notin Keys /\ MaxRestarts \in Nat

VARIABLES
    op,           \* every request, by the operation id it would have
    sessionLive,  \* the operation each session is taken by
    dedupe,       \* the operation each key is taken by
    slots,        \* the interaction slots of the agent loop
    turning,      \* sessions with a turn open in the loop
    loopUp,       \* the agent loop's boundary resolves
    restarts,     \* restarts of the loop so far
    disposed      \* the authority is disposed

vars == <<op, sessionLive, dedupe, slots, turning, loopUp, restarts, disposed>>

loop == <<turning, loopUp, restarts>>

-----------------------------------------------------------------------------
(* Requests and operations.  "appending" awaits the durable append;        *)
(* "failed" was rolled back; "duplicate" is an id that was minted, refused *)
(* as pending and still handed out; "dropped" was forgotten by dispose.    *)
(* An operation has an attempt exactly when it is running.                 *)
Phases == {"unused", "appending", "failed", "duplicate",
           "accepted", "running", "terminal", "dropped"}

Outcomes == Reports \cup {"aborted"}

Request == [phase : Phases, session : Sessions, key : Keys \cup {NoKey},
            parent : Requests \cup {Nobody}, gone : BOOLEAN, cancelled : BOOLEAN,
            timer : BOOLEAN, outcome : Outcomes \cup {"none"}]

AnySession == CHOOSE s \in Sessions : TRUE

Unused == [phase |-> "unused", session |-> AnySession, key |-> NoKey,
           parent |-> Nobody, gone |-> FALSE, cancelled |-> FALSE,
           timer |-> FALSE, outcome |-> "none"]

(* The operations map holds r, and r has no terminal yet.                  *)
live(r) == op[r].phase \in {"accepted", "running"}

(* commitTerminal also takes the operation from the children of its parent.*)
Settled(o, outcome) ==
    [o EXCEPT !.phase = "terminal", !.outcome = outcome, !.timer = FALSE, !.parent = Nobody]

(* Mutant: the indexes are left to the next reader.                        *)
forgetNothing(done) == UNCHANGED <<sessionLive, dedupe>>

(* What commitTerminal does to the indexes for the operations in done.     *)
forget(done) ==
    /\ sessionLive' = [s \in Sessions |->
          IF sessionLive[s] \in done THEN Nobody ELSE sessionLive[s]]
    /\ dedupe' = [k \in Keys |-> IF dedupe[k] \in done THEN Nobody ELSE dedupe[k]]

-----------------------------------------------------------------------------
(* Cancellation.                                                           *)

(* A stop request reaches a live operation and, down the tree, its         *)
(* children that are live, but nothing below one that is over, and no      *)
(* child whose content write is still under way.  That the recursive walk  *)
(* over the shrinking index comes to no more and no less is the matter of  *)
(* StopCascade; here it is the smallest set closed under live children.    *)
ClosedUnderStop(root, S) ==
    root \in S /\ \A c \in Requests : live(c) /\ op[c].parent \in S => c \in S

StoppedWith(root) ==
    LET candidates == {r \in Requests : live(r)}
    IN  {r \in candidates :
            \A S \in SUBSET candidates : ClosedUnderStop(root, S) => r \in S}

(* Mutant: the confirmation is awaited without a bound.                    *)
stopUnbounded(o) ==
    IF o.phase = "accepted" \/ ~loopUp
    THEN [Settled(o, "aborted") EXCEPT !.cancelled = TRUE]
    ELSE [o EXCEPT !.cancelled = TRUE]

(* Without an attempt, or a boundary that could confirm its end, the       *)
(* operation is aborted at once; otherwise the confirmation is awaited.    *)
stop(o) ==
    IF o.phase = "accepted" \/ ~loopUp
    THEN [Settled(o, "aborted") EXCEPT !.cancelled = TRUE]
    ELSE [o EXCEPT !.cancelled = TRUE, !.timer = TRUE]

requestCancel(root) ==
    LET stopped == StoppedWith(root) IN
    /\ op' = [r \in Requests |-> IF r \in stopped THEN stop(op[r]) ELSE op[r]]
    /\ forget({r \in stopped : stop(op[r]).phase = "terminal"})
    /\ slots' = [s \in Sessions |-> cancelAttempt(slots[s], stopped)]

(* cancel by operation or by session, the handle's dispose and the abort   *)
(* of the caller's signal all come to this.                                *)
cancel(r) ==
    /\ ~disposed /\ live(r)
    /\ requestCancel(r)
    /\ UNCHANGED <<loop, disposed>>

confirmTimeout(r) ==
    /\ live(r) /\ op[r].timer
    /\ op' = [op EXCEPT ![r] = Settled(op[r], "aborted")]
    /\ forget({r})
    /\ UNCHANGED <<slots, loop, disposed>>

(* The caller goes away while its request is in flight.                    *)
callerAborts(r) ==
    /\ op[r].phase = "appending" /\ ~op[r].gone
    /\ op' = [op EXCEPT ![r].gone = TRUE]
    /\ UNCHANGED <<sessionLive, dedupe, slots, loop, disposed>>

-----------------------------------------------------------------------------
(* request.                                                                *)

Taken(index) == index # Nobody /\ live(index)

(* The checks made before the boundary is asked: those that fail are       *)
(* answered (duplicate, already-running, unavailable) and change nothing.  *)
Passes(s, k) ==
    /\ ~disposed
    /\ k \in Keys => ~Taken(dedupe[k])
    /\ ~Taken(sessionLive[s])
    /\ loopUp

Mint(r, phase, s, k, p) ==
    op' = [op EXCEPT ![r] = [Unused EXCEPT !.phase = phase, !.session = s,
                                           !.key = k, !.parent = p]]

NextId(r) == op[r].phase = "unused" /\ \A q \in 1 .. r - 1 : op[q].phase # "unused"

(* A key that waits in the slot is answered as a duplicate of the id that  *)
(* was minted for this request.                                            *)
requestRepeated(r, s, k) ==
    /\ NextId(r) /\ Passes(s, k)
    /\ admissible(slots[s])
    /\ \E q \in Waiting(slots[s]) : k \in Keys /\ op[q].key = k
    /\ op' = [op EXCEPT ![r] = [Unused EXCEPT !.phase = "duplicate"]]
    /\ UNCHANGED <<sessionLive, dedupe, slots, loop, disposed>>

Admitted(r, s, k) ==
    /\ NextId(r) /\ Passes(s, k)
    /\ admissible(slots[s])
    /\ \A q \in Waiting(slots[s]) : k \in Keys => op[q].key # k
    /\ slots' = [slots EXCEPT ![s] = admit(slots[s], r)]

Parents == {Nobody} \cup {p \in Requests : op[p].phase \in {"accepted", "running", "terminal"}}

(* A request with content goes on to the durable append.                   *)
request(r, s, k) ==
    /\ Admitted(r, s, k)
    /\ \E p \in Parents : Mint(r, "appending", s, k, p)
    /\ UNCHANGED <<sessionLive, dedupe, loop, disposed>>

Indexed(r, s, k) ==
    /\ sessionLive' = [sessionLive EXCEPT ![s] = r]
    /\ dedupe' = [j \in Keys |-> IF j = k THEN r ELSE dedupe[j]]

(* A request without content becomes an operation at once.                 *)
requestBare(r, s, k) ==
    /\ Admitted(r, s, k)
    /\ \E p \in Parents : Mint(r, "accepted", s, k, p)
    /\ Indexed(r, s, k)
    /\ UNCHANGED <<loop, disposed>>

(* Mutant: the admission of a request whose content was refused stays.     *)
appendFailsKeeping(r) ==
    /\ op[r].phase = "appending"
    /\ op' = [op EXCEPT ![r] = [Unused EXCEPT !.phase = "failed"]]
    /\ UNCHANGED <<sessionLive, dedupe, slots, loop, disposed>>

appendFails(r) ==
    LET s == op[r].session IN
    /\ op[r].phase = "appending"
    /\ op' = [op EXCEPT ![r] = [Unused EXCEPT !.phase = "failed"]]
    /\ slots' = [slots EXCEPT ![s] = cancelAttempt(slots[s], {r})]
    /\ UNCHANGED <<sessionLive, dedupe, loop, disposed>>

(* The operation is registered, whatever happened during the append; a     *)
(* caller that went away meanwhile has it stopped on the spot, unless the  *)
(* authority was disposed.                                                 *)
appendSucceeds(r) ==
    LET s == op[r].session
        stopped == op[r].gone /\ ~disposed
    IN
    /\ op[r].phase = "appending"
    /\ IF stopped
       THEN /\ op' = [op EXCEPT ![r] = [Settled(op[r], "aborted")
                                          EXCEPT !.cancelled = TRUE, !.gone = FALSE]]
            /\ sessionLive' = [sessionLive EXCEPT ![s] = Nobody]
            /\ dedupe' = [k \in Keys |-> IF k = op[r].key THEN Nobody ELSE dedupe[k]]
            /\ slots' = [slots EXCEPT ![s] = cancelAttempt(slots[s], {r})]
       ELSE /\ op' = [op EXCEPT ![r].phase = "accepted", ![r].gone = FALSE]
            /\ Indexed(r, s, op[r].key)
            /\ UNCHANGED slots
    /\ UNCHANGED <<loop, disposed>>

-----------------------------------------------------------------------------
(* The turns of the loop and the facts they report.                        *)

(* A start fact moves a live operation to running; a fact of an operation  *)
(* that is not registered, or not any more, changes nothing.               *)
turnBegins(s) ==
    LET slot == beginAttempt(slots[s]) IN
    /\ loopUp /\ s \notin turning
    /\ turning' = turning \cup {s}
    /\ slots' = [slots EXCEPT ![s] = slot]
    /\ op' = IF slot.op # Nobody /\ ~disposed /\ live(slot.op)
             THEN [op EXCEPT ![slot.op].phase = "running"] ELSE op
    /\ UNCHANGED <<sessionLive, dedupe, loopUp, restarts, disposed>>

(* Mutant: a stopped attempt gets an outcome of its own.                   *)
adjudicateCancelled(o, outcome) == IF o.cancelled THEN "cancelled" ELSE outcome

(* Mutant: the attempt's own outcome counts although a stop was asked for. *)
adjudicateFactFirst(o, outcome) == outcome

(* The terminal: a stop request precedes what the attempt reports.         *)
adjudicateTerminal(o, outcome) == IF o.cancelled THEN "aborted" ELSE outcome

(* Mutant: the end fact is committed whether a terminal is there or not.   *)
ingestEndAlways(r, outcome) ==
    IF r # Nobody /\ op[r].phase \in {"accepted", "running", "terminal"}
    THEN /\ op' = [op EXCEPT ![r] = Settled(op[r], adjudicateTerminal(op[r], outcome))]
         /\ forget({r})
    ELSE UNCHANGED <<op, sessionLive, dedupe>>

ingestEnd(r, outcome) ==
    IF r # Nobody /\ ~disposed /\ live(r)
    THEN /\ op' = [op EXCEPT ![r] = Settled(op[r], adjudicateTerminal(op[r], outcome))]
         /\ forget({r})
    ELSE UNCHANGED <<op, sessionLive, dedupe>>

turnEnds(s) ==
    /\ loopUp /\ s \in turning
    /\ turning' = turning \ {s}
    /\ \E queued \in BOOLEAN : slots' = [slots EXCEPT ![s] = endAttempt(slots[s], queued)]
    /\ \E outcome \in Outcomes : ingestEnd(slots[s].op, outcome)
    /\ UNCHANGED <<loopUp, restarts, disposed>>

(* The durable turn end could not be written: the turn is over and its     *)
(* attempt was never closed.                                               *)
turnBreaks(s) ==
    /\ loopUp /\ s \in turning
    /\ turning' = turning \ {s}
    /\ UNCHANGED <<op, sessionLive, dedupe, slots, loopUp, restarts, disposed>>

(* The agent loop goes away, with its slots and the turns under way, and   *)
(* may come back with a boundary of its own.                               *)
loopStops ==
    /\ loopUp
    /\ loopUp' = FALSE
    /\ slots' = [s \in Sessions |-> NoSlot]
    /\ turning' = {}
    /\ UNCHANGED <<op, sessionLive, dedupe, restarts, disposed>>

loopReturns ==
    /\ ~loopUp /\ restarts < MaxRestarts
    /\ loopUp' = TRUE
    /\ restarts' = restarts + 1
    /\ UNCHANGED <<op, sessionLive, dedupe, slots, turning, disposed>>

dispose ==
    /\ ~disposed
    /\ disposed' = TRUE
    /\ op' = [r \in Requests |->
                IF live(r) THEN [Unused EXCEPT !.phase = "dropped"] ELSE op[r]]
    /\ sessionLive' = [s \in Sessions |-> Nobody]
    /\ dedupe' = [k \in Keys |-> Nobody]
    /\ UNCHANGED <<slots, loop>>

-----------------------------------------------------------------------------
Init ==
    /\ op = [r \in Requests |-> Unused]
    /\ sessionLive = [s \in Sessions |-> Nobody]
    /\ dedupe = [k \in Keys |-> Nobody]
    /\ slots = [s \in Sessions |-> NoSlot]
    /\ turning = {}
    /\ loopUp = TRUE
    /\ restarts = 0
    /\ disposed = FALSE

Next ==
    \/ \E r \in Requests, s \in Sessions, k \in Keys \cup {NoKey} :
          request(r, s, k) \/ requestBare(r, s, k) \/ requestRepeated(r, s, k)
    \/ \E r \in Requests :
          appendSucceeds(r) \/ appendFails(r) \/ callerAborts(r)
            \/ cancel(r) \/ confirmTimeout(r)
    \/ \E s \in Sessions : turnBegins(s) \/ turnEnds(s) \/ turnBreaks(s)
    \/ loopStops \/ loopReturns \/ dispose

Spec == Init /\ [][Next]_vars

(* The confirmation timer that is armed fires.                             *)
FairSpec == Spec /\ \A r \in Requests : WF_vars(confirmTimeout(r))

-----------------------------------------------------------------------------
(* Properties.                                                             *)

(* Every variable keeps its type.                                          *)
TypeOK ==
    /\ op \in [Requests -> Request]
    /\ sessionLive \in [Sessions -> Requests \cup {Nobody}]
    /\ dedupe \in [Keys -> Requests \cup {Nobody}]
    /\ slots \in [Sessions -> Slot]
    /\ turning \subseteq Sessions
    /\ loopUp \in BOOLEAN /\ disposed \in BOOLEAN
    /\ restarts \in Nat

(* What is on file for a request, and what became of its work, which an    *)
(* attempt that ended with a follow-up queued has not finished.            *)
StatusOf(phase) ==
    CASE phase = "unused" -> "new"
      [] phase = "appending" -> "filed"
      [] phase \in {"accepted", "running"} -> "open"
      [] phase = "terminal" -> "ended"
      [] OTHER -> "void"

FileOf(o) == [status |-> StatusOf(o.phase), stopped |-> o.cancelled,
              outcome |-> o.outcome, parent |-> o.parent]

Waits(r) == \E s \in Sessions : r \in Waiting(slots[s])
Begun(r) == \E s \in Sessions : r \in {slots[s].op, slots[s].follow}

WorkOf(r) ==
    IF op[r].phase = "unused" THEN "none"
    ELSE IF Waits(r) THEN "waiting" ELSE IF Begun(r) THEN "begun" ELSE "over"

file == [r \in Requests |-> FileOf(op[r])]
work == [r \in Requests |-> WorkOf(r)]

Orders == INSTANCE WorkOrder

(* The authority over the slots of the loop keeps the promises made for    *)
(* each request, although between its admission and its registration, and  *)
(* between a stop and its confirmation, the loop goes on by itself: work   *)
(* is begun once at most and never after it was withdrawn, an outcome is   *)
(* said once, by the request's own work or by a stop that came first, and  *)
(* no late fact or timer changes it.                                       *)
ImplementsWorkOrder == Orders!Spec

(* Once a stop was asked for, the operation never ends as anything but     *)
(* aborted, although its attempt may report a success in the same moment.  *)
CancelPrecedesOutcome ==
    \A r \in Requests : op[r].cancelled /\ op[r].outcome # "none" => op[r].outcome = "aborted"

(* The indexes never outlive what they name: a session or a key is taken   *)
(* by an operation of that session or key that has no terminal, so a       *)
(* finished operation never answers for a new request.                     *)
IndexesNameLiveOperations ==
    /\ \A s \in Sessions : sessionLive[s] # Nobody =>
          live(sessionLive[s]) /\ op[sessionLive[s]].session = s
    /\ \A k \in Keys : dedupe[k] # Nobody =>
          live(dedupe[k]) /\ op[dedupe[k]].key = k

(* Work is handed to the loop once, and only work that somebody still      *)
(* wants: an admission that waits for a turn belongs to a request in       *)
(* flight or an accepted operation of that session, waits once, and is not *)
(* in an attempt.                                                          *)
WaitingWorkIsWanted ==
    \A s \in Sessions :
        LET waiting == slots[s].pending IN
        /\ \A i \in 1 .. Len(waiting) :
              /\ \/ disposed
                 \/ op[waiting[i]].session = s /\ op[waiting[i]].phase \in {"appending", "accepted"}
              /\ waiting[i] # slots[s].op
        /\ Cardinality(Waiting(slots[s])) = Len(waiting)

(* Once a stop was asked for, the operation ends, although its attempt may *)
(* never report, the loop may be gone and the turn may never close.        *)
CancelSettles ==
    \A r \in Requests : live(r) /\ op[r].cancelled ~> ~live(r)

(* At most one external request is live on a session at a time.            *)
OneLiveRequestPerSession ==
    \A q, r \in Requests : live(q) /\ live(r) /\ op[q].session = op[r].session => q = r
=============================================================================
