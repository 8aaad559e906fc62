--------------------------- MODULE RecoveryPolicy ---------------------------
(***************************************************************************)
(* The recovery authority: src/lib/recovery-policy.js as the agent loop    *)
(* consumes it through packages/agent-loop/lib/recovery-slice.js.          *)
(*                                                                         *)
(* A failure opens a decision window.  The registered policies are asked   *)
(* one after the other, each with two awaits (match, decide); the decision *)
(* is remembered for the window and may be committed once.  Policies come  *)
(* and go, the operation may be cancelled and the authority be disposed    *)
(* while an answer is awaited.                                             *)
(***************************************************************************)
EXTENDS Naturals

CONSTANTS
    Window,          \* the decision windows
    Policy,          \* the policies that may be registered
    Priority,        \* the place of each of them in the order they are asked in
    AtFirst          \* the policies registered as the step begins

ASSUME PolicyAssumption == Priority \in [Policy -> Nat] /\ AtFirst \subseteq Policy

VARIABLES
    registered,      \* the policies that are registered
    disposed,        \* the authority has been disposed
    decisions,       \* the decision remembered for each window
    evaluation       \* the evaluation of each window that is under way

recoveryVars == <<registered, disposed, decisions, evaluation>>

(* A proposal that is not valid for the failure, a no-op and a policy that *)
(* throws propose "none"; "stop" stands for stop and abort.                *)
Action == {"none", "retry", "stop"}

Decision  == [action : Action, consumed : BOOLEAN]
Undecided == [action |-> "none", consumed |-> FALSE]

(* left: the policies of the snapshot that are not done, the first of them *)
(* being asked; fresh: those of the snapshot still registered as they were;*)
(* opposed: an answer that counted was stop (for checking).                *)
Evaluation == [at : {"idle", "match", "decide", "decided"}, left : SUBSET Policy,
               fresh : SUBSET Policy, best : Action, matched : BOOLEAN, answer : Action,
               opposed : BOOLEAN]

Idle == [at |-> "idle", left |-> {}, fresh |-> {}, best |-> "none",
         matched |-> FALSE, answer |-> "none", opposed |-> FALSE]

RecoveryTypeOK ==
    /\ registered \subseteq Policy
    /\ disposed \in BOOLEAN
    /\ decisions \in [Window -> Decision]
    /\ evaluation \in [Window -> Evaluation]

RecoveryInit ==
    /\ registered = AtFirst
    /\ disposed = FALSE
    /\ decisions = [w \in Window |-> Undecided]
    /\ evaluation = [w \in Window |-> Idle]

-----------------------------------------------------------------------------
(* One evaluation.                                                         *)

Rank(action) == CASE action = "none" -> 0 [] action = "retry" -> 1 [] action = "stop" -> 2

(* Mutant: the proposal of the policy asked last wins. *)
betterDecisionLast(current, candidate) ==
    IF Rank(candidate) > 0 THEN candidate ELSE current

betterDecision(current, candidate) ==
    IF Rank(candidate) > Rank(current) THEN candidate ELSE current

Decided(e, action) == [e EXCEPT !.at = "decided", !.answer = action, !.left = {}, !.fresh = {}]

(* No policy is left: the strongest proposal; else a safe stop, when a     *)
(* policy had matched; else the official default governs ("none").         *)
Concluded(e) ==
    CASE e.best # "none" -> e.best
      [] e.best = "none" /\ e.matched -> "stop"
      [] OTHER -> "none"

Asked(e) == CHOOSE p \in e.left : \A q \in e.left : Priority[p] <= Priority[q]

(* The next policy of the snapshot that is still current is asked.         *)
Remaining(e) == (e.left \ {Asked(e)}) \intersect e.fresh

Proceed(e) == [e EXCEPT !.at = "match", !.left = Remaining(e)]

rememberDecision(w, action) ==
    decisions' = [decisions EXCEPT ![w] =
                     IF action = "none" THEN @ ELSE [action |-> action, consumed |-> FALSE]]

Evaluate(w, e) == evaluation' = [evaluation EXCEPT ![w] = e]

(* The evaluation goes on with e, or concludes when nobody is left to ask. *)
Continue(w, e, cancelled) ==
    IF cancelled \/ Remaining(e) = {}
    THEN /\ Evaluate(w, Decided(e, Concluded(e)))
         /\ rememberDecision(w, Concluded(e))
    ELSE /\ Evaluate(w, Proceed(e))
         /\ UNCHANGED decisions

(* decide, up to its first await: the decision of the window is reused, a  *)
(* cancelled operation is a stop, and without a policy nothing is decided. *)
decide(w, cancelled) ==
    /\ evaluation[w].at = "idle"
    /\ \/ /\ disposed \/ registered = {}
          /\ Evaluate(w, Decided(Idle, "none"))
          /\ UNCHANGED decisions
       \/ /\ ~disposed /\ registered # {}
          /\ decisions[w] # Undecided
          /\ Evaluate(w, Decided(Idle, decisions[w].action))
          /\ UNCHANGED decisions
       \/ /\ ~disposed /\ registered # {}
          /\ decisions[w] = Undecided /\ cancelled
          /\ Evaluate(w, Decided(Idle, "stop"))
          /\ rememberDecision(w, "stop")
       \/ /\ ~disposed /\ registered # {}
          /\ decisions[w] = Undecided /\ ~cancelled
          /\ Evaluate(w, [Idle EXCEPT !.at = "match", !.left = registered, !.fresh = registered])
          /\ UNCHANGED decisions
    /\ UNCHANGED <<registered, disposed>>

(* The result of a policy counts only while the operation is wanted and    *)
(* the registration that gave it is the current one.  One that throws is   *)
(* passed over before the cancellation is looked at.                       *)
counts(e, cancelled) == ~cancelled /\ Asked(e) \in e.fresh

matchAnswered(w, reply, cancelled) ==
    LET e == evaluation[w]
    IN  /\ e.at = "match"
        /\ IF counts(e, cancelled) /\ reply = "yes"
           THEN /\ Evaluate(w, [e EXCEPT !.at = "decide", !.matched = TRUE])
                /\ UNCHANGED decisions
           ELSE Continue(w, e, cancelled /\ reply # "throws")
        /\ UNCHANGED <<registered, disposed>>

decideAnswered(w, reply, cancelled) ==
    LET e == evaluation[w]
        proposal == IF counts(e, cancelled) /\ reply \in Action THEN reply ELSE "none"
    IN  /\ e.at = "decide"
        /\ Continue(w, [e EXCEPT !.best = betterDecision(@, proposal),
                                 !.opposed = @ \/ proposal = "stop"],
                    cancelled /\ reply # "throws")
        /\ UNCHANGED <<registered, disposed>>

(* commit: a decision is consumed once; one that is unknown or consumed    *)
(* already is a conflict, which the loop takes for a stop.                 *)
(* Mutant: a decision can be committed again. *)
committableAgain(w) == decisions[w] # Undecided

committable(w) == decisions[w] # Undecided /\ ~decisions[w].consumed

Committed(w) ==
    CASE evaluation[w].answer = "none" -> "official"
      [] evaluation[w].answer = "retry" /\ committable(w) -> "retry"
      [] OTHER -> "terminal"

commit(w) ==
    /\ evaluation[w].at = "decided"
    /\ Evaluate(w, Idle)
    /\ decisions' = IF evaluation[w].answer # "none" /\ committable(w)
                    THEN [decisions EXCEPT ![w].consumed = TRUE] ELSE decisions
    /\ UNCHANGED <<registered, disposed>>

-----------------------------------------------------------------------------
(* The policies and the authority.                                         *)

(* A registration that is replaced or released is not current any more. *)
Superseded(p) == evaluation' = [w \in Window |-> [evaluation[w] EXCEPT !.fresh = @ \ {p}]]

registerPolicy(p) ==
    /\ ~disposed
    /\ registered' = registered \union {p}
    /\ Superseded(p)
    /\ UNCHANGED <<disposed, decisions>>

releasePolicy(p) ==
    /\ p \in registered
    /\ registered' = registered \ {p}
    /\ Superseded(p)
    /\ UNCHANGED <<disposed, decisions>>

disposeRecovery ==
    /\ ~disposed
    /\ disposed' = TRUE
    /\ registered' = {}
    /\ decisions' = [w \in Window |-> Undecided]
    /\ evaluation' = [w \in Window |-> [evaluation[w] EXCEPT !.fresh = {}]]
=============================================================================
