----------------------------- MODULE ToolCalls -----------------------------
(***************************************************************************)
(* The tool calls of one assistant step: executeToolCalls and runGroup of  *)
(* src/packages/agent-loop/lib/forked-loop.js, with the recovery of a      *)
(* failed preparation or dispatch through RecoveryPolicy.                  *)
(*                                                                         *)
(* One thread of control (main) starts the calls in model order and        *)
(* appends their results in that order; the dispatches it has started run  *)
(* beside it.  Each action of main runs from one await to the next.        *)
(***************************************************************************)
EXTENDS RecoveryPolicy, Sequences, FiniteSets

CONSTANTS
    Calls,           \* the number of calls of the step
    MaxParallel,     \* maxParallelToolCalls
    MaxRegistrations \* bound: changes to the set of policies during the step

ASSUME CallsAssumption ==
    /\ Calls \in Nat /\ MaxParallel \in Nat \ {0} /\ MaxRegistrations \in Nat
    /\ Window = 1..Calls

Call == 1..Calls

VARIABLES
    signal,          \* the step's abort signal is aborted
    main,            \* where main waits
    group,           \* the calls of the current group: first, last and mode
    next,            \* the call to start next
    committed,       \* the calls whose results are appended: 1..committed
    aborted,         \* main has seen the abort
    failed,          \* schedulerFailure is set
    run,             \* what the dispatch of each call does
    inFlight,        \* the dispatches main still waits for
    slot,            \* the outcome of a call is there and its result not appended yet
    log,             \* the events appended to the session
    reruns,          \* preparations and dispatches repeated by recovery (for checking)
    opposed,         \* calls repeated although a current policy asked to stop (for checking)
    changes          \* changes to the policies so far

poolVars == <<signal, main, group, next, committed, aborted, failed, run, inFlight, slot, log,
              reruns, opposed>>
vars == <<poolVars, changes, recoveryVars>>

Event == [type : {"tool/call", "tool/result"}, call : Call]

TypeOK ==
    /\ RecoveryTypeOK
    /\ signal \in BOOLEAN /\ aborted \in BOOLEAN /\ failed \in BOOLEAN
    /\ main \in {"fill", "prepare", "recover", "reprepare", "started", "commit", "finalize", "race",
                 "drain", "done", "failed"}
    /\ group \in [first : Nat, last : Nat, mode : {"parallel", "exclusive"}]
    /\ next \in 1..(Calls + 1) /\ committed \in 0..Calls
    /\ run \in [Call -> {"none", "dispatch", "recover", "redispatch", "settled", "rejected"}]
    /\ inFlight \subseteq Call
    /\ slot \in [Call -> BOOLEAN]
    /\ log \in Seq(Event)
    /\ reruns \in [Call -> Nat] /\ opposed \subseteq Call
    /\ changes \in 0..MaxRegistrations

(* A group of the calls from c on: the rest of the step when the call is   *)
(* parallel at this moment, else the call alone.                           *)
GroupFrom(c, mode) ==
    [first |-> c, last |-> IF mode = "parallel" THEN Calls ELSE c, mode |-> mode]

Init ==
    /\ RecoveryInit
    /\ signal = FALSE /\ aborted = FALSE /\ failed = FALSE
    /\ \E mode \in {"parallel", "exclusive"} : group = GroupFrom(1, mode)
    /\ main = IF Calls = 0 THEN "done" ELSE "fill"
    /\ next = 1 /\ committed = 0
    /\ run = [c \in Call |-> "none"]
    /\ inFlight = {}
    /\ slot = [c \in Call |-> FALSE]
    /\ log = <<>>
    /\ reruns = [c \in Call |-> 0] /\ opposed = {}
    /\ changes = 0

-----------------------------------------------------------------------------
(* The thread of control.                                                  *)

appendToolCall(c)   == <<[type |-> "tool/call", call |-> c]>>
appendToolResult(c) == <<[type |-> "tool/result", call |-> c]>>

(* n pairs of a call and its result, for the calls from c on. *)
Pairs(c, n) ==
    [i \in 1..(2 * n) |-> [type |-> IF i % 2 = 1 THEN "tool/call" ELSE "tool/result",
                          call |-> c + ((i - 1) \div 2)]]

(* Mutant: one pair too many. *)
appendSkippedBeyond(c) == Pairs(c, Calls - c + 2)

(* The call and result pairs of the calls from c to the end of the step,   *)
(* which are skipped after an abort.                                       *)
appendSkipped(c) == Pairs(c, Calls - c + 1)

(* The signal is read as a group opens and whenever results were committed. *)
Seen == aborted \/ (next = group.first /\ signal)

(* The pool has room, and the next call may join it: the first of a group  *)
(* always does, a later one if it is still parallel.                       *)
MayStart == ~Seen /\ next <= group.last /\ Cardinality(inFlight) < MaxParallel

startCall ==
    /\ log' = log \o appendToolCall(next)
    /\ main' = "prepare"
    /\ UNCHANGED <<group, next, committed, aborted>>

(* Mutant: only the calls after the group are skipped, not those left in it. *)
EndGroupForgetting ==
    IF Seen \/ next > Calls
    THEN /\ main' = "done"
         /\ log' = IF Seen THEN log \o appendSkipped(group.last + 1) ELSE log
         /\ UNCHANGED <<group, next, committed, aborted>>
    ELSE /\ \E mode \in {"parallel", "exclusive"} : group' = GroupFrom(next, mode)
         /\ UNCHANGED <<main, log, next, committed, aborted>>

(* The group is over: after an abort the calls left get their pairs, and   *)
(* otherwise the next group starts where this one stopped.                 *)
EndGroup ==
    IF Seen \/ next > Calls
    THEN /\ main' = "done"
         /\ log' = IF Seen THEN log \o appendSkipped(next) ELSE log
         /\ UNCHANGED <<group, next, committed, aborted>>
    ELSE /\ \E mode \in {"parallel", "exclusive"} : group' = GroupFrom(next, mode)
         /\ UNCHANGED <<main, log, next, committed, aborted>>

(* fillPool, up to the preparation of a call, or its end. *)
fillPool ==
    /\ main = "fill"
    /\ \/ MayStart /\ startCall
       \/ /\ MayStart => next > group.first /\ group.mode = "parallel"  \* it turned exclusive
          /\ IF inFlight # {}
             THEN main' = "race" /\ UNCHANGED <<log, group, next, committed, aborted>>
             ELSE EndGroup
    /\ UNCHANGED <<signal, failed, run, inFlight, slot, reruns, opposed, changes, recoveryVars>>

(* A failure set meanwhile is thrown, and what is in flight is awaited. *)
Throw == main' = "drain" /\ failed' = TRUE

(* A prepared call is dispatched, or has its result already. *)
prepared ==
    IF failed
    THEN Throw /\ UNCHANGED <<run, inFlight, slot, next>>
    ELSE /\ \/ /\ run' = [run EXCEPT ![next] = "dispatch"]
               /\ inFlight' = inFlight \union {next}
               /\ UNCHANGED slot
            \/ /\ slot' = [slot EXCEPT ![next] = TRUE]
               /\ UNCHANGED <<run, inFlight>>
         /\ next' = next + 1
         /\ main' = "started"
         /\ UNCHANGED failed

prepare ==
    /\ main = "prepare"
    /\ prepared
    /\ UNCHANGED <<signal, group, committed, aborted, log, reruns, opposed, changes, recoveryVars>>

(* The preparation fails: the recovery authority is asked about the call. *)
prepareFails ==
    /\ main = "prepare"
    /\ decide(next, signal)
    /\ main' = "recover"
    /\ UNCHANGED <<signal, group, next, committed, aborted, failed, run, inFlight, slot, log,
                   reruns, opposed, changes>>

Rerun(c) ==
    /\ reruns' = [reruns EXCEPT ![c] = @ + 1]
    /\ opposed' = IF evaluation[c].opposed THEN opposed \union {c} ELSE opposed

consumeToolRecovery ==
    /\ main = "recover"
    /\ commit(next)
    /\ IF Committed(next) = "retry"
       THEN main' = "reprepare" /\ Rerun(next) /\ UNCHANGED failed
       ELSE Throw /\ UNCHANGED <<reruns, opposed>>
    /\ UNCHANGED <<signal, group, next, committed, aborted, run, inFlight, slot, log, changes>>

(* The repeated preparation answers, or throws with nobody to ask again. *)
reprepare ==
    /\ main = "reprepare"
    /\ prepared \/ (Throw /\ UNCHANGED <<run, inFlight, slot, next>>)
    /\ UNCHANGED <<signal, group, committed, aborted, log, reruns, opposed, changes, recoveryVars>>

(* commitReady: the next result in model order, if it is there, is         *)
(* appended at once or, when the outcome asks for it, finalized first,     *)
(* which takes an await.                                                   *)
Ready == committed < group.last /\ slot[committed + 1]

(* A failure is looked for before the first result and after the last. *)
Throws == failed /\ (main = "started" \/ ~Ready)

AppendResult ==
    /\ log' = log \o appendToolResult(committed + 1)
    /\ committed' = committed + 1
    /\ slot' = [slot EXCEPT ![committed + 1] = FALSE]
    /\ main' = "commit"

commitReady ==
    /\ main \in {"started", "commit"}
    /\ \/ Throws /\ Throw /\ UNCHANGED <<log, committed, slot, aborted>>
       \/ /\ Ready /\ ~Throws
          /\ AppendResult \/ (main' = "finalize" /\ UNCHANGED <<log, committed, slot>>)
          /\ UNCHANGED <<failed, aborted>>
       \/ /\ ~Ready /\ ~Throws
          /\ main' = "fill"
          /\ aborted' = (aborted \/ signal)
          /\ UNCHANGED <<log, committed, slot, failed>>
    /\ UNCHANGED <<signal, group, next, run, inFlight, reruns, opposed, changes, recoveryVars>>

finalize ==
    /\ main = "finalize"
    /\ \/ AppendResult /\ UNCHANGED failed
       \/ Throw /\ UNCHANGED <<log, committed, slot>>
    /\ UNCHANGED <<signal, group, next, aborted, run, inFlight, reruns, opposed, changes,
                   recoveryVars>>

(* Mutant: a dispatch that is over stays in flight. *)
raceKeeping(c) ==
    /\ main = "race"
    /\ c \in inFlight
    /\ \/ /\ run[c] = "settled"
          /\ IF failed THEN Throw ELSE main' = "commit" /\ UNCHANGED failed
       \/ run[c] = "rejected" /\ Throw
    /\ UNCHANGED <<signal, group, next, committed, aborted, run, inFlight, slot, log, reruns,
                   opposed, changes, recoveryVars>>

(* A dispatch in flight is over. *)
race(c) ==
    /\ main = "race"
    /\ c \in inFlight
    /\ \/ /\ run[c] = "settled"
          /\ inFlight' = inFlight \ {c}
          /\ IF failed THEN Throw ELSE main' = "commit" /\ UNCHANGED failed
       \/ run[c] = "rejected" /\ Throw /\ UNCHANGED inFlight
    /\ UNCHANGED <<signal, group, next, committed, aborted, run, slot, log, reruns, opposed,
                   changes, recoveryVars>>

(* All dispatches are over: the step fails with the first failure. *)
drained ==
    /\ main = "drain"
    /\ \A c \in inFlight : run[c] \in {"settled", "rejected"}
    /\ main' = "failed"
    /\ UNCHANGED <<signal, group, next, committed, aborted, failed, run, inFlight, slot, log,
                   reruns, opposed, changes, recoveryVars>>

-----------------------------------------------------------------------------
(* The dispatches, which run beside main.                                  *)

Outcome(c) ==
    /\ slot' = [slot EXCEPT ![c] = TRUE]
    /\ run' = [run EXCEPT ![c] = "settled"]

dispatch(c) ==
    /\ run[c] = "dispatch"
    /\ Outcome(c)
    /\ UNCHANGED <<signal, main, group, next, committed, aborted, failed, inFlight, log, reruns,
                   opposed, changes, recoveryVars>>

dispatchFails(c) ==
    /\ run[c] = "dispatch"
    /\ decide(c, signal)
    /\ run' = [run EXCEPT ![c] = "recover"]
    /\ UNCHANGED <<signal, main, group, next, committed, aborted, failed, inFlight, slot, log,
                   reruns, opposed, changes>>

consumeDispatchRecovery(c) ==
    /\ run[c] = "recover"
    /\ commit(c)
    /\ IF Committed(c) = "retry"
       THEN run' = [run EXCEPT ![c] = "redispatch"] /\ Rerun(c) /\ UNCHANGED failed
       ELSE /\ run' = [run EXCEPT ![c] = "settled"]
            /\ failed' = TRUE
            /\ UNCHANGED <<reruns, opposed>>
    /\ UNCHANGED <<signal, main, group, next, committed, aborted, inFlight, slot, log, changes>>

(* The repeated dispatch is outside the try: if it fails, the promise of   *)
(* the call rejects and nothing tells main before it waits for the pool.   *)
redispatch(c) ==
    /\ run[c] = "redispatch"
    /\ Outcome(c) \/ (run' = [run EXCEPT ![c] = "rejected"] /\ UNCHANGED slot)
    /\ UNCHANGED <<signal, main, group, next, committed, aborted, failed, inFlight, log, reruns,
                   opposed, changes, recoveryVars>>

-----------------------------------------------------------------------------
(* The policies and the caller.                                            *)

policyAnswers(c) ==
    /\ \/ \E reply \in {"yes", "no", "throws"} : matchAnswered(c, reply, signal)
       \/ \E reply \in Action \union {"throws"} : decideAnswered(c, reply, signal)
    /\ UNCHANGED <<poolVars, changes>>

policiesChange ==
    /\ changes < MaxRegistrations
    /\ changes' = changes + 1
    /\ \/ \E p \in Policy : registerPolicy(p) \/ releasePolicy(p)
       \/ disposeRecovery
    /\ UNCHANGED poolVars

abort ==
    /\ ~signal /\ main \notin {"done", "failed"}
    /\ signal' = TRUE
    /\ UNCHANGED <<main, group, next, committed, aborted, failed, run, inFlight, slot, log, reruns,
                   opposed, changes, recoveryVars>>

Stopped == main \in {"done", "failed"} /\ UNCHANGED vars

Main == fillPool \/ prepare \/ prepareFails \/ consumeToolRecovery \/ reprepare
            \/ commitReady \/ finalize \/ (\E c \in Call : race(c)) \/ drained
Run(c) == dispatch(c) \/ dispatchFails(c) \/ consumeDispatchRecovery(c) \/ redispatch(c)

Progress == Main \/ \E c \in Call : Run(c) \/ policyAnswers(c)

Next ==
    \/ Progress
    \/ policiesChange
    \/ abort
    \/ Stopped

(* As long as main, a dispatch or a policy can take a step, one of them does. *)
Spec == Init /\ [][Next]_vars /\ WF_vars(Progress)

-----------------------------------------------------------------------------
(* Properties.                                                             *)

Position(type, c) == {i \in 1..Len(log) : log[i] = [type |-> type, call |-> c]}

(* The log stays one a model can be shown again: a call is appended once,  *)
(* results follow in the order of the calls, each after its own call; and  *)
(* when the step ends without a failure, also after an abort, every call   *)
(* of the model has its result and nothing is still running.               *)
CallsAnsweredInOrder ==
    /\ \A c \in Call :
           /\ Cardinality(Position("tool/call", c)) <= 1
           /\ Cardinality(Position("tool/result", c)) <= 1
           /\ \A i \in Position("tool/result", c) :
                  /\ \E j \in Position("tool/call", c) : j < i
                  /\ \A d \in 1..(c - 1) : \E j \in Position("tool/result", d) : j < i
    /\ main = "done" => \A c \in Call : Position("tool/result", c) # {}
    /\ main \in {"done", "failed"} =>
           \A c \in Call : run[c] \in {"none", "settled", "rejected"}

(* Recovery repeats a call once at most, be it the preparation or the      *)
(* dispatch that fails, and never when a policy that was current as it     *)
(* answered asked to stop.                                                 *)
RerunsAuthorised ==
    /\ \A c \in Call : reruns[c] <= 1
    /\ opposed = {}

(* A step ends, although dispatches and policies answer in any order, the  *)
(* step may be aborted and any of the calls may fail.                      *)
StepEnds == <>(main \in {"done", "failed"})
=============================================================================
