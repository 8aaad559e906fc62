-------------------------- MODULE ToolCallsProofs --------------------------
(***************************************************************************)
(* Proofs about ToolCalls and the RecoveryPolicy it consults, for every    *)
(* number of calls, size of the pool, set of policies and order of         *)
(* priorities.                                                             *)
(***************************************************************************)
EXTENDS ToolCalls, FiniteSetTheorems, SequenceTheorems, TLAPS

-----------------------------------------------------------------------------
(* The inductive invariant.                                                *)

(* A stop that counted is the strongest proposal from then on, and what    *)
(* the evaluation answers.                                                 *)
OpposedMeansStop ==
    \A w \in Window :
        evaluation[w].opposed =>
            /\ evaluation[w].best = "stop"
            /\ evaluation[w].at = "decided" => evaluation[w].answer = "stop"

(* The window's decision was used: it is remembered as consumed, or was    *)
(* forgotten with the whole authority; either way no new one is made.      *)
Spent(w) ==
    /\ evaluation[w].at \in {"idle", "decided"}
    /\ \/ decisions[w].consumed
       \/ disposed /\ decisions[w] = Undecided

RepeatedOnce ==
    /\ reruns \in [Call -> {0, 1}]
    /\ \A c \in Call : reruns[c] = 1 => Spent(c)

(* What the authority has decided, and what was repeated on its word.      *)
AuthorityInv == RecoveryTypeOK /\ OpposedMeansStop /\ RepeatedOnce /\ opposed = {}

(* Main asks for and repeats calls of the step only.                       *)
MainAtACall ==
    /\ next \in 1..(Calls + 1)
    /\ main # "done" => group.last \in 0..Calls
    /\ main \in {"prepare", "recover", "reprepare"} => next \in Call

IInv == AuthorityInv /\ MainAtACall /\ signal \in BOOLEAN

-----------------------------------------------------------------------------
(* The recovery authority.                                                 *)

LEMMA WindowIsCall == Window = Call /\ Calls \in Nat
  BY CallsAssumption DEF Call

LEMMA IdleIsEvaluation == Idle \in Evaluation /\ Undecided \in Decision
  BY DEF Idle, Evaluation, Undecided, Decision, Action

(* The strongest proposal is a proposal, and a stop is never outdone.      *)
LEMMA BetterDecision ==
  ASSUME NEW a \in Action, NEW b \in Action
  PROVE  /\ betterDecision(a, b) \in Action
         /\ a = "stop" \/ b = "stop" => betterDecision(a, b) = "stop"
  BY DEF betterDecision, Rank, Action

(* What an authority step keeps, whatever it does.                         *)
RecoveryKept == /\ RecoveryTypeOK' /\ OpposedMeansStop'
                /\ \A w \in Window : Spent(w) => Spent(w)'

(* An evaluation that may follow: a stop that counted is still its answer. *)
Obedient(e) == e.opposed => /\ e.best = "stop"
                            /\ e.at = "decided" => e.answer = "stop"

(* A step of one window, to the evaluation e and the decision d.           *)
LEMMA OneWindow ==
  ASSUME RecoveryTypeOK, OpposedMeansStop, NEW w \in Window,
         NEW e \in Evaluation, NEW d \in Decision, Obedient(e),
         evaluation' = [evaluation EXCEPT ![w] = e],
         decisions' = [decisions EXCEPT ![w] = d],
         UNCHANGED <<registered, disposed>>,
         Spent(w) => e.at \in {"idle", "decided"} /\ (d.consumed \/ (disposed /\ d = Undecided))
  PROVE  RecoveryKept
  <1>1. RecoveryTypeOK'
    BY DEF RecoveryTypeOK
  <1>2. OpposedMeansStop'
    BY DEF RecoveryTypeOK, OpposedMeansStop, Obedient
  <1>3. ASSUME NEW v \in Window, Spent(v) PROVE Spent(v)'
    <2>1. CASE v = w
      BY <1>3, <2>1 DEF RecoveryTypeOK, Spent
    <2>2. CASE v # w
      BY <1>3, <2>2 DEF RecoveryTypeOK, Spent
    <2> QED BY <2>1, <2>2
  <1> QED BY <1>1, <1>2, <1>3 DEF RecoveryKept

LEMMA DecideStep ==
  ASSUME RecoveryTypeOK, OpposedMeansStop, NEW w \in Window, NEW cancelled \in BOOLEAN,
         decide(w, cancelled)
  PROVE  RecoveryKept
  <1> USE IdleIsEvaluation
  <1> DEFINE first == [Idle EXCEPT !.at = "match", !.left = registered, !.fresh = registered]
  <1>1. /\ decisions[w] \in Decision
        /\ \A a \in Action : Decided(Idle, a) \in Evaluation /\ Obedient(Decided(Idle, a))
        /\ first \in Evaluation /\ Obedient(first)
    BY DEF RecoveryTypeOK, Decided, Idle, Evaluation, Obedient
  <1>2. UNCHANGED <<registered, disposed>>
    BY DEF decide
  <1>3. CASE decisions' = decisions /\ (disposed \/ registered = {} \/ decisions[w] # Undecided)
    <2>1. PICK a \in Action : evaluation' = [evaluation EXCEPT ![w] = Decided(Idle, a)]
      <3>1. "none" \in Action /\ decisions[w].action \in Action
        BY <1>1 DEF Decision, Action
      <3>2. CASE disposed \/ registered = {}
        BY <3>1, <3>2 DEF decide, Evaluate
      <3>3. CASE ~disposed /\ registered # {} /\ decisions[w] # Undecided
        BY <3>1, <3>3 DEF decide, Evaluate
      <3> QED BY <1>3, <3>2, <3>3
    <2>2. decisions' = [decisions EXCEPT ![w] = decisions[w]]
      BY <1>3 DEF RecoveryTypeOK
    <2>3. Decided(Idle, a).at = "decided"
      BY DEF Decided, Idle
    <2>4. Spent(w) => decisions[w].consumed \/ (disposed /\ decisions[w] = Undecided)
      BY DEF Spent
    <2> QED BY <1>1, <1>2, <2>1, <2>2, <2>3, <2>4, OneWindow
  <1>4. CASE ~disposed /\ registered # {} /\ decisions[w] = Undecided
    <2>1. ~Spent(w)
      BY <1>4 DEF Spent, Undecided
    <2>2. CASE cancelled
      <3> DEFINE stop == [action |-> "stop", consumed |-> FALSE]
      <3>1. stop \in Decision
        BY DEF Decision, Action
      <3>2. decisions' = [decisions EXCEPT ![w] = stop]
        BY <1>4, <2>2 DEF decide, rememberDecision, RecoveryTypeOK
      <3>3. evaluation' = [evaluation EXCEPT ![w] = Decided(Idle, "stop")]
        BY <1>4, <2>2 DEF decide, Evaluate
      <3>4. "stop" \in Action
        BY DEF Action
      <3> HIDE DEF stop
      <3> QED BY <1>1, <1>2, <2>1, <3>1, <3>2, <3>3, <3>4, OneWindow
    <2>3. CASE ~cancelled
      <3>1. evaluation' = [evaluation EXCEPT ![w] = first] /\ decisions' = decisions
        BY <1>4, <2>3 DEF decide, Evaluate
      <3>2. decisions' = [decisions EXCEPT ![w] = decisions[w]]
        BY <3>1 DEF RecoveryTypeOK
      <3> HIDE DEF first
      <3> QED BY <1>1, <1>2, <2>1, <3>1, <3>2, OneWindow
    <2> QED BY <2>2, <2>3
  <1> QED BY <1>3, <1>4 DEF decide

(* An evaluation that goes on with e, and was not over.                    *)
LEMMA ContinueStep ==
  ASSUME RecoveryTypeOK, OpposedMeansStop, NEW w \in Window, NEW e \in Evaluation,
         NEW cancelled \in BOOLEAN, Continue(w, e, cancelled),
         UNCHANGED <<registered, disposed>>, ~Spent(w), e.at # "decided",
         e.opposed => e.best = "stop"
  PROVE  RecoveryKept
  <1>1. decisions[w] \in Decision
    BY DEF RecoveryTypeOK
  <1>2. CASE cancelled \/ Remaining(e) = {}
    <2> DEFINE a == Concluded(e)
    <2>1. a \in Action /\ (e.opposed => a = "stop")
      BY DEF Concluded, Evaluation, Action
    <2>2. Decided(e, a) \in Evaluation /\ Obedient(Decided(e, a))
      <3> HIDE DEF a
      <3> QED BY <2>1 DEF Decided, Evaluation, Obedient
    <2>3. PICK d \in Decision : decisions' = [decisions EXCEPT ![w] = d]
      <3>1. decisions' = [decisions EXCEPT ![w] =
                            IF a = "none" THEN decisions[w]
                            ELSE [action |-> a, consumed |-> FALSE]]
        BY <1>2 DEF Continue, rememberDecision
      <3> HIDE DEF a
      <3>2. [action |-> a, consumed |-> FALSE] \in Decision
        BY <2>1 DEF Decision
      <3> QED BY <1>1, <3>1, <3>2
    <2>4. evaluation' = [evaluation EXCEPT ![w] = Decided(e, a)]
      BY <1>2 DEF Continue, Evaluate
    <2> HIDE DEF a
    <2> QED BY <2>2, <2>3, <2>4, OneWindow
  <1>3. CASE ~(cancelled \/ Remaining(e) = {})
    <2>1. Proceed(e) \in Evaluation /\ Obedient(Proceed(e))
      <3>1. Remaining(e) \in SUBSET Policy
        BY DEF Remaining, Evaluation
      <3> QED BY <3>1 DEF Proceed, Evaluation, Obedient
    <2>2. evaluation' = [evaluation EXCEPT ![w] = Proceed(e)] /\ decisions' = decisions
      BY <1>3 DEF Continue, Evaluate
    <2>3. decisions' = [decisions EXCEPT ![w] = decisions[w]]
      BY <2>2 DEF RecoveryTypeOK
    <2> QED BY <1>1, <2>1, <2>2, <2>3, OneWindow
  <1> QED BY <1>2, <1>3

LEMMA MatchStep ==
  ASSUME RecoveryTypeOK, OpposedMeansStop, NEW w \in Window, NEW reply,
         NEW cancelled \in BOOLEAN, matchAnswered(w, reply, cancelled)
  PROVE  RecoveryKept
  <1> DEFINE e == evaluation[w]
  <1>1. /\ e \in Evaluation /\ e.at = "match" /\ ~Spent(w)
        /\ e.opposed => e.best = "stop"
        /\ UNCHANGED <<registered, disposed>>
    BY DEF matchAnswered, RecoveryTypeOK, OpposedMeansStop, Spent
  <1>2. CASE counts(e, cancelled) /\ reply = "yes"
    <2> DEFINE f == [e EXCEPT !.at = "decide", !.matched = TRUE]
    <2>1. f \in Evaluation /\ Obedient(f)
      BY <1>1 DEF Evaluation, Obedient
    <2>2. evaluation' = [evaluation EXCEPT ![w] = f] /\ decisions' = decisions
      BY <1>2 DEF matchAnswered, Evaluate
    <2>3. decisions' = [decisions EXCEPT ![w] = decisions[w]] /\ decisions[w] \in Decision
      BY <2>2 DEF RecoveryTypeOK
    <2> HIDE DEF f
    <2> QED BY <1>1, <2>1, <2>2, <2>3, OneWindow
  <1>3. CASE ~(counts(e, cancelled) /\ reply = "yes")
    <2>1. Continue(w, e, cancelled /\ reply # "throws")
      BY <1>3 DEF matchAnswered
    <2>2. (cancelled /\ reply # "throws") \in BOOLEAN
      OBVIOUS
    <2> HIDE DEF e
    <2> QED BY <1>1, <2>1, <2>2, ContinueStep
  <1> QED BY <1>2, <1>3

LEMMA AnswerStep ==
  ASSUME RecoveryTypeOK, OpposedMeansStop, NEW w \in Window, NEW reply,
         NEW cancelled \in BOOLEAN, decideAnswered(w, reply, cancelled)
  PROVE  RecoveryKept
  <1> DEFINE e == evaluation[w]
             proposal == IF counts(e, cancelled) /\ reply \in Action THEN reply ELSE "none"
             f == [e EXCEPT !.best = betterDecision(@, proposal),
                            !.opposed = @ \/ proposal = "stop"]
  <1>1. /\ e \in Evaluation /\ e.at = "decide" /\ ~Spent(w)
        /\ e.opposed => e.best = "stop"
        /\ UNCHANGED <<registered, disposed>>
    BY DEF decideAnswered, RecoveryTypeOK, OpposedMeansStop, Spent
  <1>2. e.best \in Action /\ proposal \in Action
    BY <1>1 DEF Evaluation, Action
  <1>3. /\ betterDecision(e.best, proposal) \in Action
        /\ e.best = "stop" \/ proposal = "stop" => betterDecision(e.best, proposal) = "stop"
    <2> HIDE DEF e, proposal
    <2> QED BY <1>2, BetterDecision
  <1>4. f \in Evaluation /\ f.at = "decide" /\ (f.opposed => f.best = "stop")
    <2> HIDE DEF e, proposal
    <2> QED BY <1>1, <1>3 DEF Evaluation
  <1>5. Continue(w, f, cancelled /\ reply # "throws")
    BY DEF decideAnswered
  <1>6. (cancelled /\ reply # "throws") \in BOOLEAN
    OBVIOUS
  <1> HIDE DEF f
  <1> QED BY <1>1, <1>4, <1>5, <1>6, ContinueStep

(* Registrations come and go and the authority is disposed: no evaluation  *)
(* loses its strongest proposal or its answer.                             *)
LEMMA PoliciesStep ==
  ASSUME RecoveryTypeOK, OpposedMeansStop,
         \/ \E p \in Policy : registerPolicy(p) \/ releasePolicy(p)
         \/ disposeRecovery
  PROVE  RecoveryKept
  <1>1. PICK gone \in SUBSET Policy :
           evaluation' = [w \in Window |-> [evaluation[w] EXCEPT !.fresh = @ \ gone]]
    <2>1. CASE \E p \in Policy : registerPolicy(p) \/ releasePolicy(p)
      BY <2>1 DEF registerPolicy, releasePolicy, Superseded
    <2>2. CASE disposeRecovery
      <3>1. \A w \in Window : [evaluation[w] EXCEPT !.fresh = {}]
                                = [evaluation[w] EXCEPT !.fresh = @ \ Policy]
        BY DEF RecoveryTypeOK, Evaluation
      <3>2. evaluation' = [w \in Window |-> [evaluation[w] EXCEPT !.fresh = {}]]
        BY <2>2 DEF disposeRecovery
      <3>3. evaluation' = [w \in Window |-> [evaluation[w] EXCEPT !.fresh = @ \ Policy]]
        BY <3>1, <3>2
      <3> QED BY <3>3
    <2> QED BY <2>1, <2>2
  <1>2. \A w \in Window : /\ evaluation'[w] \in Evaluation
                          /\ evaluation'[w].at = evaluation[w].at
                          /\ evaluation'[w].best = evaluation[w].best
                          /\ evaluation'[w].answer = evaluation[w].answer
                          /\ evaluation'[w].opposed = evaluation[w].opposed
    BY <1>1 DEF RecoveryTypeOK, Evaluation
  <1>3. registered' \subseteq Policy /\ disposed' \in BOOLEAN
    BY DEF RecoveryTypeOK, registerPolicy, releasePolicy, disposeRecovery
  <1>4. \A w \in Window : \/ decisions'[w] = decisions[w] /\ (disposed => disposed')
                          \/ decisions'[w] = Undecided /\ disposed'
    BY DEF registerPolicy, releasePolicy, disposeRecovery
  <1>5. RecoveryTypeOK'
    <2>1. evaluation' \in [Window -> Evaluation]
      BY <1>1, <1>2
    <2>2. decisions' \in [Window -> Decision]
      BY IdleIsEvaluation DEF RecoveryTypeOK, registerPolicy, releasePolicy, disposeRecovery
    <2> QED BY <1>3, <2>1, <2>2, Zenon DEF RecoveryTypeOK
  <1>6. OpposedMeansStop'
    BY <1>2 DEF OpposedMeansStop
  <1>7. ASSUME NEW w \in Window, Spent(w) PROVE Spent(w)'
    <2>1. evaluation'[w].at \in {"idle", "decided"}
      BY <1>2, <1>7 DEF Spent
    <2>2. decisions'[w].consumed \/ (disposed' /\ decisions'[w] = Undecided)
      <3>1. decisions[w].consumed \/ (disposed /\ decisions[w] = Undecided)
        BY <1>7 DEF Spent
      <3> QED BY <1>4, <3>1
    <2> QED BY <2>1, <2>2, Zenon DEF Spent
  <1> QED BY <1>5, <1>6, <1>7 DEF RecoveryKept

(* A decision is committed: one that repeats the call was not spent and is *)
(* spent now, and no stop had counted against it.                          *)
LEMMA CommitStep ==
  ASSUME RecoveryTypeOK, OpposedMeansStop, NEW w \in Window, commit(w)
  PROVE  /\ RecoveryKept
         /\ Committed(w) = "retry" => ~Spent(w) /\ Spent(w)' /\ ~evaluation[w].opposed
  <1> DEFINE d == IF evaluation[w].answer # "none" /\ committable(w)
                  THEN [decisions[w] EXCEPT !.consumed = TRUE] ELSE decisions[w]
  <1>1. d \in Decision
    BY DEF RecoveryTypeOK, Decision
  <1>2. /\ evaluation' = [evaluation EXCEPT ![w] = Idle]
        /\ decisions' = [decisions EXCEPT ![w] = d]
        /\ UNCHANGED <<registered, disposed>>
    BY DEF commit, Evaluate, RecoveryTypeOK
  <1>3. Obedient(Idle) /\ Idle.at = "idle"
    BY DEF Obedient, Idle
  <1>4. Spent(w) => d.consumed \/ (disposed /\ d = Undecided)
    BY DEF RecoveryTypeOK, Decision, Spent, committable
  <1>5. RecoveryKept
    <2> HIDE DEF d
    <2> QED BY <1>1, <1>2, <1>3, <1>4, IdleIsEvaluation, OneWindow
  <1>6. ASSUME Committed(w) = "retry" PROVE ~Spent(w) /\ Spent(w)' /\ ~evaluation[w].opposed
    <2>1. evaluation[w].answer = "retry" /\ committable(w) /\ evaluation[w].at = "decided"
      BY <1>6 DEF Committed, commit
    <2>2. ~Spent(w)
      BY <2>1 DEF Spent, committable
    <2>3. ~evaluation[w].opposed
      BY <2>1 DEF OpposedMeansStop
    <2>4. evaluation'[w].at = "idle" /\ decisions'[w].consumed
      BY <1>2, <1>3, <2>1 DEF RecoveryTypeOK, Decision
    <2> QED BY <2>2, <2>3, <2>4 DEF Spent
  <1> QED BY <1>5, <1>6

-----------------------------------------------------------------------------
(* The steps of the tool calls.                                            *)

(* A step of the authority that repeats nothing.                           *)
LEMMA AuthorityKept ==
  ASSUME AuthorityInv, RecoveryKept, UNCHANGED <<reruns, opposed>>
  PROVE  AuthorityInv'
  BY WindowIsCall DEF AuthorityInv, RecoveryKept, RepeatedOnce

LEMMA AuthorityFrame ==
  ASSUME AuthorityInv, UNCHANGED <<recoveryVars, reruns, opposed>>
  PROVE  AuthorityInv'
  <1>1. RecoveryTypeOK' /\ OpposedMeansStop'
    BY DEF AuthorityInv, recoveryVars, RecoveryTypeOK, OpposedMeansStop
  <1>2. RepeatedOnce'
    BY DEF AuthorityInv, recoveryVars, RepeatedOnce, Spent
  <1> QED BY <1>1, <1>2 DEF AuthorityInv

(* A call is repeated when its decision says so, which is spent with that. *)
LEMMA CommitKept ==
  ASSUME AuthorityInv, NEW c \in Call, commit(c),
         IF Committed(c) = "retry" THEN Rerun(c) ELSE UNCHANGED <<reruns, opposed>>
  PROVE  AuthorityInv'
  <1>1. /\ RecoveryKept
        /\ Committed(c) = "retry" => ~Spent(c) /\ Spent(c)' /\ ~evaluation[c].opposed
    BY WindowIsCall, CommitStep DEF AuthorityInv
  <1>2. CASE Committed(c) = "retry"
    <2>1. reruns[c] = 0
      BY <1>1, <1>2 DEF AuthorityInv, RepeatedOnce
    <2>2. reruns' = [reruns EXCEPT ![c] = 1] /\ opposed' = {}
      BY <1>1, <1>2, <2>1 DEF Rerun, AuthorityInv
    <2>3. RepeatedOnce'
      BY <1>1, <1>2, <2>2, WindowIsCall DEF AuthorityInv, RepeatedOnce, RecoveryKept
    <2> QED BY <1>1, <2>2, <2>3 DEF AuthorityInv, RecoveryKept
  <1>3. CASE Committed(c) # "retry"
    BY <1>1, <1>3, AuthorityKept
  <1> QED BY <1>2, <1>3

LEMMA InitInv == Init => IInv
  <1> SUFFICES ASSUME Init PROVE IInv
    OBVIOUS
  <1>1. RecoveryTypeOK /\ OpposedMeansStop
    BY IdleIsEvaluation, PolicyAssumption
       DEF Init, RecoveryInit, RecoveryTypeOK, OpposedMeansStop, Idle
  <1>2. RepeatedOnce /\ opposed = {}
    BY DEF Init, RepeatedOnce
  <1>3. MainAtACall /\ signal \in BOOLEAN
    <2>1. group.last = Calls \/ group.last = 1
      BY DEF Init, GroupFrom
    <2>2. signal = FALSE /\ main \in {"done", "fill"} /\ (main # "done" => Calls # 0) /\ next = 1
      BY DEF Init
    <2>3. next \in 1..(Calls + 1)
      BY <2>2, CallsAssumption
    <2>4. main # "done" => group.last \in 0..Calls
      BY <2>1, <2>2, CallsAssumption
    <2>5. main \notin {"prepare", "recover", "reprepare"} /\ signal \in BOOLEAN
      BY <2>2
    <2> QED BY <2>3, <2>4, <2>5, Zenon DEF MainAtACall
  <1> QED BY <1>1, <1>2, <1>3 DEF IInv, AuthorityInv

(* The steps of main that ask the authority nothing.                       *)
LEMMA MainSteps ==
  ASSUME IInv,
         fillPool \/ prepare \/ reprepare \/ commitReady \/ finalize
            \/ (\E c \in Call : race(c)) \/ drained
  PROVE  IInv'
  <1> USE CallsAssumption DEF IInv, MainAtACall, Call
  <1>1. CASE fillPool
    <2>1. AuthorityInv' /\ signal' \in BOOLEAN
      BY <1>1, AuthorityFrame DEF fillPool
    <2>2. CASE MayStart /\ startCall
      BY <1>1, <2>1, <2>2 DEF fillPool, MayStart, startCall
    <2>3. CASE main' = "race" /\ UNCHANGED <<log, group, next, committed, aborted>>
      BY <1>1, <2>1, <2>3 DEF fillPool
    <2>4. CASE EndGroup
      BY <1>1, <2>1, <2>4 DEF fillPool, EndGroup, GroupFrom
    <2> QED BY <1>1, <2>2, <2>3, <2>4 DEF fillPool
  <1>2. CASE prepare \/ reprepare
    <2>1. AuthorityInv' /\ signal' \in BOOLEAN /\ group' = group
      BY <1>2, AuthorityFrame DEF prepare, reprepare
    <2>2. next \in Call /\ main # "done"
      BY <1>2 DEF prepare, reprepare
    <2>3. \/ main' = "drain" /\ next' = next
          \/ main' = "started" /\ next' = next + 1
      BY <1>2 DEF prepare, reprepare, prepared, Throw
    <2> QED BY <2>1, <2>2, <2>3
  <1>3. CASE commitReady \/ finalize \/ (\E c \in Call : race(c)) \/ drained
    <2>1. /\ UNCHANGED <<recoveryVars, reruns, opposed, signal, group, next>>
          /\ main # "done" /\ main' \in {"commit", "finalize", "fill", "drain", "failed"}
      BY <1>3 DEF commitReady, AppendResult, finalize, race, drained, Throw
    <2> QED BY <2>1, AuthorityFrame
  <1> QED BY <1>1, <1>2, <1>3

(* The failure of a preparation or dispatch, and what is decided about it. *)
LEMMA RecoverySteps ==
  ASSUME IInv,
         \/ prepareFails \/ consumeToolRecovery
         \/ \E c \in Call : dispatchFails(c) \/ consumeDispatchRecovery(c) \/ policyAnswers(c)
         \/ policiesChange
  PROVE  IInv'
  <1> USE CallsAssumption DEF IInv, MainAtACall, Call
  <1>1. CASE prepareFails
    <2>1. next \in Window /\ decide(next, signal) /\ UNCHANGED <<reruns, opposed>>
      BY <1>1, WindowIsCall DEF prepareFails
    <2>2. AuthorityInv'
      BY <2>1, DecideStep, AuthorityKept DEF AuthorityInv
    <2> QED BY <1>1, <2>2 DEF prepareFails
  <1>2. CASE consumeToolRecovery
    <2>1. AuthorityInv'
      BY <1>2, CommitKept DEF consumeToolRecovery
    <2> QED BY <1>2, <2>1 DEF consumeToolRecovery, Throw
  <1>3. ASSUME NEW c \in Call, dispatchFails(c) PROVE IInv'
    <2>1. c \in Window /\ decide(c, signal) /\ UNCHANGED <<reruns, opposed>>
      BY <1>3, WindowIsCall DEF dispatchFails
    <2>2. AuthorityInv'
      BY <2>1, DecideStep, AuthorityKept DEF AuthorityInv
    <2> QED BY <1>3, <2>2 DEF dispatchFails
  <1>4. ASSUME NEW c \in Call, consumeDispatchRecovery(c) PROVE IInv'
    <2>1. AuthorityInv'
      BY <1>4, CommitKept DEF consumeDispatchRecovery
    <2> QED BY <1>4, <2>1 DEF consumeDispatchRecovery
  <1>5. ASSUME NEW c \in Call, policyAnswers(c) PROVE IInv'
    <2>1. c \in Window /\ UNCHANGED poolVars
      BY <1>5, WindowIsCall DEF policyAnswers
    <2>2. RecoveryKept
      BY <1>5, <2>1, MatchStep, AnswerStep DEF policyAnswers, AuthorityInv
    <2>3. AuthorityInv'
      BY <2>1, <2>2, AuthorityKept DEF poolVars
    <2> QED BY <2>1, <2>3 DEF poolVars
  <1>6. CASE policiesChange
    <2>1. RecoveryKept
      BY <1>6, PoliciesStep DEF policiesChange, AuthorityInv
    <2>2. AuthorityInv'
      BY <1>6, <2>1, AuthorityKept DEF policiesChange, poolVars
    <2> QED BY <1>6, <2>2 DEF policiesChange, poolVars
  <1> QED BY <1>1, <1>2, <1>3, <1>4, <1>5, <1>6

LEMMA NextInv == IInv /\ [Next]_vars => IInv'
  <1> SUFFICES ASSUME IInv, [Next]_vars PROVE IInv'
    OBVIOUS
  <1>1. CASE fillPool \/ prepare \/ reprepare \/ commitReady \/ finalize
               \/ (\E c \in Call : race(c)) \/ drained
    BY <1>1, MainSteps
  <1>2. CASE \/ prepareFails \/ consumeToolRecovery
             \/ \E c \in Call : dispatchFails(c) \/ consumeDispatchRecovery(c) \/ policyAnswers(c)
             \/ policiesChange
    BY <1>2, RecoverySteps
  <1>3. CASE abort \/ (\E c \in Call : dispatch(c) \/ redispatch(c))
    <2>1. /\ UNCHANGED <<recoveryVars, reruns, opposed, main, group, next>>
          /\ signal' \in BOOLEAN
      BY <1>3 DEF abort, dispatch, redispatch, IInv
    <2> QED BY <2>1, AuthorityFrame DEF IInv, MainAtACall
  <1>4. CASE UNCHANGED vars
    BY <1>4, AuthorityFrame DEF vars, poolVars, IInv, MainAtACall
  <1> QED BY <1>1, <1>2, <1>3, <1>4 DEF Next, Progress, Main, Run, Stopped

(* The invariant holds in every reachable state.                           *)
THEOREM Invariance == Spec => []IInv
  BY InitInv, NextInv, PTL DEF Spec

(* Whatever policies come and go, fail or answer late, no call is repeated *)
(* twice, and none after a current policy asked to stop.                   *)
THEOREM RerunsBounded == Spec => []RerunsAuthorised
  <1>1. IInv => RerunsAuthorised
    BY DEF IInv, AuthorityInv, RepeatedOnce, RerunsAuthorised
  <1> QED BY <1>1, Invariance, PTL

-----------------------------------------------------------------------------
(* The pool and the log.                                                   *)

Running(c) == run[c] \in {"dispatch", "recover", "redispatch"}

PoolTypes ==
    /\ main \in {"fill", "prepare", "recover", "reprepare", "started", "commit", "finalize", "race",
                 "drain", "done", "failed"}
    /\ aborted \in BOOLEAN /\ failed \in BOOLEAN
    /\ group \in [first : Nat, last : Nat, mode : {"parallel", "exclusive"}]
    /\ committed \in Nat
    /\ run \in [Call -> {"none", "dispatch", "recover", "redispatch", "settled", "rejected"}]
    /\ inFlight \subseteq Call
    /\ slot \in [Call -> BOOLEAN]
    /\ changes \in 0..MaxRegistrations

(* The call whose result is due next.                                      *)
Due(c) == c = committed + 1

(* Main has neither failed nor finished.                                   *)
Working == main \notin {"drain", "failed", "done"}

(* A call that was started is under way, has its outcome, or has its       *)
(* result in the log; what main waits for is under way.                    *)
PoolInv ==
    /\ PoolTypes
    /\ main # "done" => next <= group.last + 1
    /\ main \in {"prepare", "recover", "reprepare"} => next <= group.last
    /\ committed < next
    /\ \A c \in Call :
           /\ c \in inFlight \/ slot[c] => c < next
           /\ Running(c) => c \in inFlight
           /\ run[c] = "settled" => failed \/ slot[c] \/ c <= committed
           /\ Working /\ committed < c /\ c < next => c \in inFlight \/ slot[c]
           /\ main = "fill" /\ Due(c) /\ slot[c] => c \in inFlight
           /\ main \in {"done", "failed"} => ~Running(c)
    /\ main = "finalize" => \E c \in Call : Due(c) /\ slot[c]

CallOf(c)   == [type |-> "tool/call", call |-> c]
ResultOf(c) == [type |-> "tool/result", call |-> c]
Has(s, e)   == \E i \in 1..Len(s) : s[i] = e

(* Calls and results each in the order of the model, and no result without *)
(* its call before it.                                                     *)
InOrder(s) ==
    /\ s \in Seq(Event)
    /\ \A i, j \in 1..Len(s) : i < j /\ s[i].type = s[j].type => s[i].call < s[j].call
    /\ \A i \in 1..Len(s), c \in Call :
           s[i] = ResultOf(c) => \E j \in 1..Len(s) : j < i /\ s[j] = CallOf(c)

Started(c) == c < next \/ (c = next /\ main \in {"prepare", "recover", "reprepare"})

(* The log holds the calls that were started and the results that were     *)
(* committed; as the step is done, all results.                            *)
LogInv ==
    /\ InOrder(log)
    /\ main # "done" => \A c \in Call : Has(log, ResultOf(c)) <=> c <= committed
    /\ Working => \A c \in Call : Has(log, CallOf(c)) <=> Started(c)
    /\ main = "done" => \A c \in Call : Has(log, ResultOf(c))

Invariants == IInv /\ PoolInv /\ LogInv

LEMMA Events ==
  \A c \in Call : /\ CallOf(c) \in Event /\ ResultOf(c) \in Event
                  /\ CallOf(c).type = "tool/call" /\ ResultOf(c).type = "tool/result"
                  /\ CallOf(c).call = c /\ ResultOf(c).call = c
  BY DEF CallOf, ResultOf, Event

LEMMA EventIs ==
  \A e \in Event : /\ e.call \in Call
                   /\ e = CallOf(e.call) \/ e = ResultOf(e.call)
                   /\ e.type = "tool/call" => e = CallOf(e.call)
                   /\ e.type = "tool/result" => e = ResultOf(e.call)
  BY DEF CallOf, ResultOf, Event

(* An event may follow: it comes after those of its type, and a result     *)
(* after its call.                                                         *)
MayFollow(s, e) ==
    /\ e \in Event
    /\ \A i \in 1..Len(s) : s[i].type = e.type => s[i].call < e.call
    /\ e.type = "tool/result" => Has(s, CallOf(e.call))

Extends(t, s, e) == \A x : Has(t, x) <=> Has(s, x) \/ x = e

LEMMA OneMore ==
  ASSUME NEW s, InOrder(s), NEW e, MayFollow(s, e), NEW t, t = s \o <<e>>
  PROVE  InOrder(t) /\ Extends(t, s, e)
  <1>1. /\ t \in Seq(Event) /\ Len(s) \in Nat /\ Len(t) = Len(s) + 1
        /\ \A i \in 1..Len(s) : t[i] = s[i]
        /\ t[Len(s) + 1] = e
    BY DEF InOrder, MayFollow
  <1>2. 1..Len(t) = (1..Len(s)) \union {Len(s) + 1} /\ Len(s) + 1 \in 1..Len(t)
    BY <1>1
  <1>3. ASSUME NEW i \in 1..Len(t), NEW j \in 1..Len(t), i < j, t[i].type = t[j].type
        PROVE  t[i].call < t[j].call
    <2>1. i \in 1..Len(s) /\ t[i] = s[i]
      BY <1>1, <1>3
    <2>2. CASE j \in 1..Len(s)
      BY <1>1, <1>3, <2>1, <2>2 DEF InOrder
    <2>3. CASE j = Len(s) + 1
      BY <1>1, <1>3, <2>1, <2>3 DEF MayFollow
    <2> QED
      BY <1>2, <2>2, <2>3
  <1>4. ASSUME NEW i \in 1..Len(t), NEW c \in Call, t[i] = ResultOf(c)
        PROVE  \E j \in 1..Len(t) : j < i /\ t[j] = CallOf(c)
    <2>1. CASE i \in 1..Len(s)
      <3>1. PICK j \in 1..Len(s) : j < i /\ s[j] = CallOf(c)
        BY <1>1, <1>4, <2>1 DEF InOrder
      <3> QED
        BY <1>1, <1>2, <3>1
    <2>2. CASE i = Len(s) + 1
      <3>1. e = ResultOf(c) /\ e.type = "tool/result" /\ e.call = c
        BY <1>1, <1>4, <2>2, Events
      <3>2. PICK j \in 1..Len(s) : s[j] = CallOf(c)
        BY <3>1 DEF Has, MayFollow
      <3> QED
        BY <1>1, <1>2, <2>2, <3>2
    <2> QED
      BY <1>2, <2>1, <2>2
  <1>5. ASSUME NEW x PROVE Has(t, x) <=> Has(s, x) \/ x = e
    BY <1>1, <1>2 DEF Has
  <1> QED
    BY <1>1, <1>3, <1>4, <1>5 DEF InOrder, Extends

(* What the pairs of skipped calls consist of.                             *)
ArePairs(p, c) ==
    /\ p \in Seq(Event)
    /\ \A i \in 1..Len(p) :
           \E d \in c..Calls : \/ i = 2 * (d - c) + 1 /\ p[i] = CallOf(d)
                               \/ i = 2 * (d - c) + 2 /\ p[i] = ResultOf(d)
    /\ \A d \in c..Calls :
           /\ 2 * (d - c) + 1 \in 1..Len(p) /\ p[2 * (d - c) + 1] = CallOf(d)
           /\ 2 * (d - c) + 2 \in 1..Len(p) /\ p[2 * (d - c) + 2] = ResultOf(d)

LEMMA PairsAre ==
  ASSUME NEW c \in Nat \ {0}, NEW n \in Nat, c + n = Calls + 1
  PROVE  ArePairs(Pairs(c, n), c)
  <1> USE CallsAssumption
  <1> DEFINE At(i) == [type |-> IF i % 2 = 1 THEN "tool/call" ELSE "tool/result",
                       call |-> c + ((i - 1) \div 2)]
  <1>1. Pairs(c, n) = [i \in 1..(2 * n) |-> At(i)]
    BY DEF Pairs
  <1>2. 2 * n \in Nat
    OBVIOUS
  <1>3. ASSUME NEW d \in Nat, d >= c
        PROVE  At(2 * (d - c) + 1) = CallOf(d) /\ At(2 * (d - c) + 2) = ResultOf(d)
    <2>1. PICK m \in Nat : m = d - c
      BY <1>3
    <2>2. /\ (2 * m + 1) % 2 = 1 /\ (2 * m + 2) % 2 = 0
          /\ (2 * m + 1 - 1) \div 2 = m /\ (2 * m + 2 - 1) \div 2 = m
      OBVIOUS
    <2> QED
      BY <1>3, <2>1, <2>2 DEF CallOf, ResultOf
  <1>4. ASSUME NEW i \in 1..(2 * n)
        PROVE  \E d \in c..Calls : i = 2 * (d - c) + 1 \/ i = 2 * (d - c) + 2
    <2>1. PICK m \in 0..(n - 1) : i = 2 * m + 1 \/ i = 2 * m + 2
      <3>1. (i - 1) \div 2 \in 0..(n - 1)
        OBVIOUS
      <3>2. i = 2 * ((i - 1) \div 2) + 1 \/ i = 2 * ((i - 1) \div 2) + 2
        OBVIOUS
      <3> QED
        BY <3>1, <3>2
    <2>2. c + m \in c..Calls /\ (c + m) - c = m
      BY <2>1
    <2> QED
      BY <2>1, <2>2
  <1>5. ASSUME NEW d \in c..Calls
        PROVE  2 * (d - c) + 1 \in 1..(2 * n) /\ 2 * (d - c) + 2 \in 1..(2 * n)
    OBVIOUS
  <1>6. ASSUME NEW i \in 1..(2 * n)
        PROVE  \E d \in c..Calls : \/ i = 2 * (d - c) + 1 /\ At(i) = CallOf(d)
                                   \/ i = 2 * (d - c) + 2 /\ At(i) = ResultOf(d)
    <2> HIDE DEF At
    <2>1. PICK d \in c..Calls : i = 2 * (d - c) + 1 \/ i = 2 * (d - c) + 2
      BY <1>4
    <2>2. d \in Nat /\ d >= c
      BY <2>1
    <2> QED
      BY <1>3, <2>1, <2>2
  <1>7. \A i \in 1..(2 * n) : At(i) \in Event
    <2> HIDE DEF At
    <2>1. \A d \in c..Calls : d \in Call
      BY DEF Call
    <2> QED
      BY <1>6, <2>1, Events
  <1>8. Pairs(c, n) \in Seq(Event) /\ Len(Pairs(c, n)) = 2 * n
    <2> HIDE DEF At
    <2> QED
      BY <1>1, <1>2, <1>7
  <1>9. \A i \in 1..(2 * n) : Pairs(c, n)[i] = At(i)
    <2> HIDE DEF At
    <2> QED
      BY <1>1
  <1>10. \A d \in c..Calls : d \in Nat /\ d >= c
    OBVIOUS
  <1> HIDE DEF At
  <1>11. PICK p : p = Pairs(c, n)
    OBVIOUS
  <1>12. p \in Seq(Event) /\ Len(p) = 2 * n /\ \A i \in 1..Len(p) : p[i] = At(i)
    BY <1>8, <1>9, <1>11
  <1>13. ASSUME NEW i \in 1..Len(p)
         PROVE  \E d \in c..Calls : \/ i = 2 * (d - c) + 1 /\ p[i] = CallOf(d)
                                    \/ i = 2 * (d - c) + 2 /\ p[i] = ResultOf(d)
    BY <1>6, <1>12
  <1>14. ASSUME NEW d \in c..Calls
         PROVE  /\ 2 * (d - c) + 1 \in 1..Len(p) /\ p[2 * (d - c) + 1] = CallOf(d)
                /\ 2 * (d - c) + 2 \in 1..Len(p) /\ p[2 * (d - c) + 2] = ResultOf(d)
    <2>1. 2 * (d - c) + 1 \in 1..Len(p) /\ 2 * (d - c) + 2 \in 1..Len(p)
      BY <1>5, <1>12
    <2>2. At(2 * (d - c) + 1) = CallOf(d) /\ At(2 * (d - c) + 2) = ResultOf(d)
      BY <1>3, <1>10
    <2> QED
      BY <1>12, <2>1, <2>2
  <1>15. ArePairs(p, c)
    BY <1>12, <1>13, <1>14 DEF ArePairs
  <1> QED
    BY <1>11, <1>15

(* The calls that are left get their pairs: then every call has a result.  *)
LEMMA AllSkipped ==
  ASSUME NEW s, InOrder(s), NEW c \in 1..(Calls + 1), NEW t, t = s \o appendSkipped(c),
         \A i \in 1..Len(s) : s[i].call < c,
         \A d \in Call : d < c => Has(s, ResultOf(d))
  PROVE  InOrder(t) /\ \A d \in Call : Has(t, ResultOf(d))
  <1>1. PICK p : p = appendSkipped(c) /\ ArePairs(p, c)
    <2>1. PICK n \in Nat : n = Calls - c + 1
      BY CallsAssumption
    <2>2. c \in Nat \ {0} /\ c + n = Calls + 1
      BY <2>1, CallsAssumption
    <2>3. ArePairs(Pairs(c, n), c)
      BY <2>1, <2>2, PairsAre
    <2> QED
      BY <2>1, <2>3 DEF appendSkipped
  <1>2. c \in Nat /\ \A d \in c..Calls : d \in Call /\ d \in Nat
    BY CallsAssumption DEF Call
  <1>3. ASSUME NEW i \in 1..Len(p)
        PROVE  \E d \in c..Calls : /\ p[i].call = d
                                   /\ \/ /\ i = 2 * (d - c) + 1
                                         /\ p[i] = CallOf(d) /\ p[i].type = "tool/call"
                                      \/ /\ i = 2 * (d - c) + 2
                                         /\ p[i] = ResultOf(d) /\ p[i].type = "tool/result"
    <2>1. PICK d \in c..Calls : \/ i = 2 * (d - c) + 1 /\ p[i] = CallOf(d)
                                \/ i = 2 * (d - c) + 2 /\ p[i] = ResultOf(d)
      BY <1>1 DEF ArePairs
    <2>2. /\ CallOf(d).call = d /\ ResultOf(d).call = d
          /\ CallOf(d).type = "tool/call" /\ ResultOf(d).type = "tool/result"
      BY <1>2, Events
    <2> QED
      BY <2>1, <2>2
  <1>4. t = s \o p /\ s \in Seq(Event) /\ p \in Seq(Event)
    BY <1>1 DEF InOrder, ArePairs
  <1>5. /\ t \in Seq(Event) /\ Len(s) \in Nat /\ Len(p) \in Nat /\ Len(t) = Len(s) + Len(p)
        /\ \A i \in 1..Len(s) : t[i] = s[i] /\ i \in 1..Len(t)
        /\ \A i \in 1..Len(p) : t[Len(s) + i] = p[i] /\ Len(s) + i \in 1..Len(t)
    <2>1. /\ s \o p \in Seq(Event) /\ Len(s) \in Nat /\ Len(p) \in Nat
          /\ Len(s \o p) = Len(s) + Len(p)
          /\ \A i \in 1..(Len(s) + Len(p)) :
                 (s \o p)[i] = IF i <= Len(s) THEN s[i] ELSE p[i - Len(s)]
      BY <1>4, ConcatProperties
    <2>2. \A i \in 1..Len(p) : Len(s) + i \in 1..(Len(s) + Len(p)) /\ ~(Len(s) + i <= Len(s))
                                 /\ (Len(s) + i) - Len(s) = i
      BY <2>1
    <2>3. \A i \in 1..Len(s) : i \in 1..(Len(s) + Len(p)) /\ i <= Len(s)
      BY <2>1
    <2> QED
      BY <1>4, <2>1, <2>2, <2>3
  <1>6. ASSUME NEW i \in 1..Len(t), i \notin 1..Len(s)
        PROVE  \E k \in 1..Len(p) : i = Len(s) + k /\ t[i] = p[k]
    <2>1. i - Len(s) \in 1..Len(p) /\ i = Len(s) + (i - Len(s))
      BY <1>5, <1>6
    <2> QED
      BY <1>5, <2>1
  <1>8. ASSUME NEW i \in 1..Len(t), NEW j \in 1..Len(t), i < j, t[i].type = t[j].type
        PROVE  t[i].call < t[j].call
    <2>1. CASE j \in 1..Len(s)
      <3>1. i \in 1..Len(s)
        BY <1>5, <1>8, <2>1
      <3> QED
        BY <1>5, <1>8, <2>1, <3>1 DEF InOrder
    <2>2. CASE j \notin 1..Len(s)
      <3>1. PICK l \in 1..Len(p) : j = Len(s) + l /\ t[j] = p[l]
        BY <1>6, <2>2
      <3>2. PICK e \in c..Calls : /\ t[j].call = e
                                  /\ \/ l = 2 * (e - c) + 1 /\ t[j].type = "tool/call"
                                     \/ l = 2 * (e - c) + 2 /\ t[j].type = "tool/result"
        BY <1>3, <3>1
      <3>3. t[j].call = e /\ e \in Call /\ e \in Nat /\ c \in Nat
        BY <1>2, <3>2
      <3>4. CASE i \in 1..Len(s)
        <4>1. t[i].call < c /\ t[i].call \in Call
          BY <1>4, <1>5, <3>4, EventIs
        <4> QED
          <5>1. PICK x \in Nat : x = t[i].call
            BY <4>1, CallsAssumption DEF Call
          <5>2. c <= e /\ x < c
            BY <3>3, <4>1, <5>1, CallsAssumption
          <5>3. x < e
            BY <3>3, <5>2
          <5> QED
            BY <3>2, <5>1, <5>3
      <3>5. CASE i \notin 1..Len(s)
        <4>1. PICK k \in 1..Len(p) : i = Len(s) + k /\ t[i] = p[k]
          BY <1>6, <3>5
        <4>2. PICK d \in c..Calls : /\ t[i].call = d
                                    /\ \/ k = 2 * (d - c) + 1 /\ t[i].type = "tool/call"
                                       \/ k = 2 * (d - c) + 2 /\ t[i].type = "tool/result"
          BY <1>3, <4>1
        <4>3. k < l /\ d \in Nat
          BY <1>2, <1>5, <1>8, <3>1, <4>1
        <4>4. \/ k = 2 * (d - c) + 1 /\ l = 2 * (e - c) + 1
              \/ k = 2 * (d - c) + 2 /\ l = 2 * (e - c) + 2
          BY <1>8, <3>2, <4>2
        <4>5. d < e
          BY <3>3, <4>3, <4>4
        <4> QED
          BY <3>2, <4>2, <4>5
      <3> QED
        BY <3>4, <3>5
    <2> QED
      BY <2>1, <2>2
  <1>9. ASSUME NEW i \in 1..Len(t), NEW d \in Call, t[i] = ResultOf(d)
        PROVE  \E j \in 1..Len(t) : j < i /\ t[j] = CallOf(d)
    <2>1. CASE i \in 1..Len(s)
      <3>1. PICK j \in 1..Len(s) : j < i /\ s[j] = CallOf(d)
        BY <1>5, <1>9, <2>1 DEF InOrder
      <3> QED
        BY <1>5, <3>1
    <2>2. CASE i \notin 1..Len(s)
      <3>1. PICK k \in 1..Len(p) : i = Len(s) + k /\ t[i] = p[k]
        BY <1>6, <2>2
      <3>2. PICK e \in c..Calls : /\ p[k].call = e
                                  /\ \/ p[k].type = "tool/call"
                                     \/ k = 2 * (e - c) + 2 /\ p[k].type = "tool/result"
        BY <1>3
      <3>3. e = d /\ k = 2 * (e - c) + 2
        BY <1>9, <3>1, <3>2, Events
      <3>4. 2 * (e - c) + 1 \in 1..Len(p) /\ p[2 * (e - c) + 1] = CallOf(e)
        BY <1>1 DEF ArePairs
      <3>5. PICK l \in 1..Len(p) : l = 2 * (e - c) + 1 /\ p[l] = CallOf(e)
        BY <3>4
      <3>6. Len(s) + l \in 1..Len(t) /\ t[Len(s) + l] = CallOf(d)
        BY <1>5, <3>3, <3>5
      <3>7. Len(s) + l < i
        BY <1>2, <1>5, <3>1, <3>3, <3>5
      <3> QED
        BY <3>6, <3>7
    <2> QED
      BY <2>1, <2>2
  <1>10. ASSUME NEW d \in Call PROVE Has(t, ResultOf(d))
    <2>1. CASE d < c
      BY <1>5, <2>1 DEF Has
    <2>2. CASE ~(d < c)
      <3>1. d \in c..Calls
        BY <1>2, <2>2, CallsAssumption DEF Call
      <3>2. PICK k \in 1..Len(p) : p[k] = ResultOf(d)
        BY <1>1, <3>1 DEF ArePairs
      <3> QED
        BY <1>5, <3>2 DEF Has
    <2> QED
      BY <2>1, <2>2
  <1> QED
    BY <1>5, <1>8, <1>9, <1>10 DEF InOrder

(* Nothing is appended, and main does not go back to work.                 *)
LEMMA LogStands ==
  ASSUME LogInv, main \notin {"done"}, main' # "done",
         UNCHANGED <<log, committed>>,
         Working' => Working /\ \A c \in Call : Started(c) <=> Started(c)'
  PROVE  LogInv'
  <1>1. InOrder(log)'
    BY DEF LogInv, InOrder
  <1>2. \A c \in Call : Has(log, ResultOf(c))' <=> c <= committed'
    BY DEF LogInv, Has
  <1>3. ASSUME Working', NEW c \in Call PROVE Has(log, CallOf(c))' <=> Started(c)'
    BY <1>3 DEF LogInv, Has
  <1> QED
    BY <1>1, <1>2, <1>3 DEF LogInv

Kept == PoolInv' /\ LogInv'

(* The calls in the log were started, and those with a result committed.   *)
LEMMA LoggedCalls ==
  ASSUME Invariants, Working, NEW i \in 1..Len(log)
  PROVE  /\ log[i].call \in Call /\ Started(log[i].call)
         /\ log[i].type = "tool/result" => log[i].call <= committed
  <1> DEFINE c == log[i].call
  <1>1. log[i] \in Event
    BY DEF Invariants, LogInv, InOrder
  <1>2. c \in Call /\ (log[i] = CallOf(c) \/ log[i] = ResultOf(c))
        /\ (log[i].type = "tool/result" => log[i] = ResultOf(c))
    BY <1>1, EventIs
  <1>3. main # "done"
    BY DEF Working
  <1>4. CASE log[i] = CallOf(c)
    <2>1. Has(log, CallOf(c))
      BY <1>4 DEF Has
    <2>2. log[i].type # "tool/result"
      BY <1>2, <1>4, Events
    <2> QED
      BY <1>2, <2>1, <2>2 DEF Invariants, LogInv
  <1>5. CASE log[i] = ResultOf(c)
    <2>1. Has(log, ResultOf(c))
      BY <1>5 DEF Has
    <2>2. c <= committed
      BY <1>2, <1>3, <2>1 DEF Invariants, LogInv
    <2>3. c < next
      <3>1. c \in Nat /\ committed \in Nat /\ next \in Nat /\ committed < next
        BY <1>2, CallsAssumption DEF Call, Invariants, PoolInv, PoolTypes, IInv, MainAtACall
      <3> QED
        BY <2>2, <3>1
    <2> QED
      BY <1>2, <2>2, <2>3 DEF Started
  <1> QED
    BY <1>2, <1>4, <1>5

(* The pool has room for a call, which is appended to the log.             *)
LEMMA StartStep == ASSUME Invariants, fillPool, MayStart /\ startCall PROVE Kept
  <1> USE CallsAssumption
  <1>1. /\ main = "fill" /\ main' = "prepare" /\ next \in Call /\ next <= group.last
        /\ log' = log \o <<CallOf(next)>>
        /\ UNCHANGED <<group, next, committed, aborted, failed, run, inFlight, slot, changes>>
    BY DEF Invariants, IInv, MainAtACall, fillPool, MayStart, startCall, appendToolCall, CallOf, Call
  <1>2. PoolInv'
    BY <1>1 DEF Invariants, PoolInv, PoolTypes, Running, Working, Due
  <1>3. LogInv'
    <2>1. Working /\ \A c \in Call : Started(c) <=> c < next
      BY <1>1 DEF Working, Started, Call
    <2>2. \A i \in 1..Len(log) : log[i].call < next
      BY <2>1, LoggedCalls
    <2>3. CallOf(next) \in Event /\ CallOf(next).call = next /\ CallOf(next).type # "tool/result"
      BY <1>1, Events
    <2>4. /\ InOrder(log')
          /\ \A x : Has(log', x) <=> Has(log, x) \/ x = CallOf(next)
      <3>1. InOrder(log)
        BY DEF Invariants, LogInv
      <3>2. PICK e : e = CallOf(next)
        OBVIOUS
      <3>3. MayFollow(log, e)
        BY <2>2, <2>3, <3>2 DEF MayFollow
      <3>4. PICK t : t = log \o <<e>>
        OBVIOUS
      <3>5. InOrder(t) /\ Extends(t, log, e)
        BY <3>1, <3>3, <3>4, OneMore
      <3> QED
        BY <1>1, <3>2, <3>4, <3>5 DEF Extends
    <2>5. \A c \in Call : ResultOf(c) # CallOf(next) /\ (CallOf(c) = CallOf(next) <=> c = next)
      BY <1>1, Events
    <2>6. \A c \in Call : Has(log', ResultOf(c)) <=> c <= committed'
      BY <1>1, <2>4, <2>5 DEF Invariants, LogInv
    <2>7. \A c \in Call : Has(log', CallOf(c)) <=> c < next \/ c = next
      BY <2>1, <2>4, <2>5 DEF Invariants, LogInv
    <2>8. \A c \in Call : Has(log', CallOf(c)) <=> Started(c)'
      BY <1>1, <2>7 DEF Started
    <2> QED
      BY <1>1, <2>4, <2>6, <2>8 DEF LogInv, Working
  <1> QED
    BY <1>2, <1>3 DEF Kept

(* When main waits for nobody, all that was started is committed: what the *)
(* code calls unreachable after the pool (uncommitted settled calls) is.   *)
LEMMA AllCommitted ==
  ASSUME Invariants, main = "fill", inFlight = {}
  PROVE  committed = next - 1
  <1>1. committed \in Nat /\ next \in 1..(Calls + 1) /\ committed < next
    BY DEF Invariants, PoolInv, PoolTypes, IInv, MainAtACall
  <1>2. ASSUME committed + 1 < next PROVE FALSE
    <2>1. PICK c \in Call : c = committed + 1
      BY <1>1, <1>2, CallsAssumption DEF Call
    <2>2. committed < c /\ c < next /\ Due(c)
      BY <1>1, <1>2, <2>1 DEF Due
    <2> QED
      BY <2>2 DEF Invariants, PoolInv, Working
  <1> QED
    BY <1>1, <1>2, CallsAssumption

(* The group is over.                                                      *)
LEMMA EndStep == ASSUME Invariants, fillPool, inFlight = {}, EndGroup PROVE Kept
  <1> USE CallsAssumption
  <1>1. /\ main = "fill" /\ committed = next - 1 /\ next \in 1..(Calls + 1)
        /\ UNCHANGED <<next, committed, aborted, failed, run, inFlight, slot, changes>>
    BY AllCommitted DEF Invariants, IInv, MainAtACall, fillPool, EndGroup
  <1>2. \A c \in Call : ~Running(c)
    BY DEF Invariants, PoolInv
  <1>3. \A d \in Call : d < next => Has(log, ResultOf(d))
    BY <1>1 DEF Invariants, LogInv, Call
  <1>4. CASE Seen \/ next > Calls
    <2>1. main' = "done" /\ group' = group
      BY <1>4 DEF EndGroup
    <2>2. PoolInv'
      BY <1>1, <1>2, <2>1 DEF Invariants, PoolInv, PoolTypes, Running, Working, Due
    <2>3. InOrder(log') /\ \A d \in Call : Has(log', ResultOf(d))
      <3>1. CASE Seen
        <4>1. log' = log \o appendSkipped(next)
          BY <1>4, <3>1 DEF EndGroup
        <4>2. \A i \in 1..Len(log) : log[i].call < next
          BY <1>1, LoggedCalls DEF Working, Started
        <4>3. InOrder(log)
          BY DEF Invariants, LogInv
        <4> QED
          BY <1>1, <1>3, <4>1, <4>2, <4>3, AllSkipped
      <3>2. CASE ~Seen
        <4>1. log' = log /\ next > Calls
          BY <1>4, <3>2 DEF EndGroup
        <4>2. \A d \in Call : d < next
          BY <1>1, <4>1 DEF Call
        <4> QED
          BY <1>3, <4>1, <4>2 DEF Invariants, LogInv
      <3> QED
        BY <3>1, <3>2
    <2> QED
      BY <2>1, <2>2, <2>3 DEF Kept, LogInv, Working
  <1>5. CASE ~(Seen \/ next > Calls)
    <2>1. PICK mode \in {"parallel", "exclusive"} : group' = GroupFrom(next, mode)
      BY <1>5 DEF EndGroup
    <2>2. main' = main /\ log' = log
      BY <1>5 DEF EndGroup
    <2>3. group' \in [first : Nat, last : Nat, mode : {"parallel", "exclusive"}]
          /\ next <= group'.last + 1
      BY <1>1, <1>5, <2>1 DEF GroupFrom
    <2>4. PoolInv'
      BY <1>1, <2>2, <2>3 DEF Invariants, PoolInv, PoolTypes, Running, Working, Due
    <2>5. LogInv'
      BY <1>1, <2>2, LogStands DEF Invariants, Started, Working
    <2> QED
      BY <2>4, <2>5 DEF Kept
  <1> QED
    BY <1>4, <1>5

LEMMA FillStep == ASSUME Invariants, fillPool PROVE Kept
  <1>1. CASE MayStart /\ startCall
    BY <1>1, StartStep
  <1>2. CASE main' = "race" /\ UNCHANGED <<log, group, next, committed, aborted>>
    <2>1. main = "fill" /\ UNCHANGED <<failed, run, inFlight, slot, changes>>
      BY DEF fillPool
    <2>2. PoolInv'
      BY <1>2, <2>1 DEF Invariants, PoolInv, PoolTypes, Running, Working, Due
    <2>3. LogInv'
      BY <1>2, <2>1, LogStands DEF Invariants, Started, Working
    <2> QED
      BY <2>2, <2>3 DEF Kept
  <1>3. CASE inFlight = {} /\ EndGroup
    BY <1>3, EndStep
  <1> QED
    BY <1>1, <1>2, <1>3 DEF fillPool

(* A failure is thrown and nothing else happens.                           *)
LEMMA ThrowStep ==
  ASSUME Invariants, Throw, main # "done",
         UNCHANGED <<group, next, committed, aborted, run, inFlight, slot, log, changes>>
  PROVE  Kept
  <1>1. main' = "drain" /\ failed' = TRUE
    BY DEF Throw
  <1>2. PoolInv'
    BY <1>1 DEF Invariants, PoolInv, PoolTypes, Running, Working, Due
  <1>3. LogInv'
    BY <1>1, LogStands DEF Invariants, Working
  <1> QED
    BY <1>2, <1>3 DEF Kept

(* The preparation of a call is over.                                      *)
LEMMA PreparedStep == ASSUME Invariants, prepare \/ reprepare PROVE Kept
  <1> USE CallsAssumption
  <1>1. /\ main \in {"prepare", "reprepare"} /\ next \in Call
        /\ UNCHANGED <<group, committed, aborted, log, changes>>
    BY DEF Invariants, IInv, MainAtACall, prepare, reprepare
  <1>2. CASE Throw /\ UNCHANGED <<run, inFlight, slot, next>>
    BY <1>1, <1>2, ThrowStep
  <1>3. CASE ~failed /\ prepared
    <2>1. next' = next + 1 /\ main' = "started" /\ failed' = failed
      BY <1>3 DEF prepared
    <2>2. LogInv'
      <3>1. \A c \in Call : Started(c) <=> Started(c)'
        BY <1>1, <2>1 DEF Started, Call
      <3> QED
        BY <1>1, <2>1, <3>1, LogStands DEF Invariants, Working
    <2>3. next < group.last + 1
      <3>1. group.last \in Nat /\ next \in Nat
        BY <1>1 DEF Invariants, PoolInv, PoolTypes, Call
      <3> QED
        BY <1>1, <3>1 DEF Invariants, PoolInv
    <2>4. PoolInv'
      <3> USE DEF Invariants, PoolInv, PoolTypes, Running, Working, Due, Call
      <3>1. CASE /\ run' = [run EXCEPT ![next] = "dispatch"]
                 /\ inFlight' = inFlight \union {next}
                 /\ UNCHANGED slot
        <4>1. PoolTypes'
          BY <1>1, <2>1, <3>1
        <4>2. \A c \in Call :
                 /\ run'[c] = IF c = next THEN "dispatch" ELSE run[c]
                 /\ slot'[c] = slot[c]
                 /\ c \in inFlight' <=> c = next \/ c \in inFlight
          BY <3>1
        <4>3. committed < next /\ committed \in Nat /\ next \in Nat /\ group.last \in Nat
          BY <1>1
        <4>4. main' = "started" /\ main # "done" /\ Working
          BY <1>1, <2>1
        <4>5. ASSUME NEW c \in Call
              PROVE  /\ c \in inFlight' \/ slot'[c] => c < next'
                     /\ Running(c)' => c \in inFlight'
                     /\ run'[c] = "settled" => failed' \/ slot'[c] \/ c <= committed'
                     /\ committed' < c /\ c < next' => c \in inFlight' \/ slot'[c]
          <5>1. CASE c = next
            BY <1>1, <2>1, <4>2, <4>3, <5>1
          <5>2. CASE c # next
            <6>1. /\ c \in inFlight' <=> c \in inFlight
                  /\ slot'[c] = slot[c] /\ run'[c] = run[c]
              BY <4>2, <5>2
            <6>2. c \in Nat /\ (c < next + 1 => c < next)
              BY <4>3, <5>2
            <6> QED
              BY <1>1, <2>1, <4>3, <4>4, <6>1, <6>2
          <5> QED
            BY <5>1, <5>2
        <4> QED
          BY <1>1, <2>1, <2>3, <4>1, <4>3, <4>4, <4>5
      <3>2. CASE slot' = [slot EXCEPT ![next] = TRUE] /\ UNCHANGED <<run, inFlight>>
        <4>1. PoolTypes'
          BY <1>1, <2>1, <3>2
        <4>2. \A c \in Call :
                 /\ run'[c] = run[c]
                 /\ slot'[c] = (c = next \/ slot[c])
                 /\ c \in inFlight' <=> c \in inFlight
          BY <3>2
        <4> QED
          BY <1>1, <2>1, <2>3, <4>1, <4>2
      <3> QED
        BY <1>3, <3>1, <3>2 DEF prepared
    <2> QED
      BY <2>2, <2>4 DEF Kept
  <1> QED
    BY <1>2, <1>3 DEF prepare, reprepare, prepared

(* The result that is due is appended.                                     *)
LEMMA AppendStep ==
  ASSUME Invariants, AppendResult, Working, NEW c \in Call, Due(c), slot[c],
         main \in {"started", "commit", "finalize"},
         UNCHANGED <<group, next, aborted, failed, run, inFlight, changes>>
  PROVE  Kept
  <1> USE CallsAssumption
  <1>1. /\ log' = log \o <<ResultOf(c)>> /\ committed' = c /\ main' = "commit"
        /\ slot' = [slot EXCEPT ![c] = FALSE]
        /\ committed = c - 1 /\ c \in Nat /\ committed \in Nat /\ next \in Nat
        /\ c < next
    BY DEF AppendResult, appendToolResult, ResultOf, Due, Call, Invariants, PoolInv, PoolTypes,
           IInv, MainAtACall
  <1>2. PoolInv'
    <2> USE DEF Invariants, PoolInv, PoolTypes, Running, Working, Due, Call
    <2>1. PoolTypes'
      BY <1>1
    <2>2. ASSUME NEW d \in Call
          PROVE  /\ d \in inFlight' \/ slot'[d] => d < next'
                 /\ Running(d)' => d \in inFlight'
                 /\ run'[d] = "settled" => failed' \/ slot'[d] \/ d <= committed'
                 /\ committed' < d /\ d < next' => d \in inFlight' \/ slot'[d]
      <3>1. slot'[d] = (d # c /\ slot[d])
        BY <1>1
      <3> QED
        BY <1>1, <3>1
    <2> QED
      BY <1>1, <2>1, <2>2
  <1>3. LogInv'
    <2>1. main # "done" /\ \A d \in Call : Started(d) <=> d < next
      BY <1>1 DEF Started, Working, Call
    <2>2. InOrder(log)
      BY DEF Invariants, LogInv
    <2>3. PICK e : e = ResultOf(c)
      OBVIOUS
    <2>4. e \in Event /\ e.call = c /\ e.type = "tool/result"
      BY <2>3, Events
    <2>5. MayFollow(log, e)
      <3>1. \A i \in 1..Len(log) :
               log[i].type = "tool/result" => /\ log[i].call <= committed /\ log[i].call \in Call
        BY LoggedCalls
      <3>2. \A i \in 1..Len(log) : log[i].type = e.type => log[i].call < e.call
        BY <1>1, <2>4, <3>1 DEF Call
      <3>3. Has(log, CallOf(c))
        BY <1>1, <2>1 DEF Invariants, LogInv
      <3> QED
        BY <2>4, <3>2, <3>3 DEF MayFollow
    <2>6. PICK t : t = log \o <<e>>
      OBVIOUS
    <2>7. InOrder(t) /\ Extends(t, log, e)
      BY <2>2, <2>5, <2>6, OneMore
    <2>8. log' = t
      BY <1>1, <2>3, <2>6
    <2>9. \A d \in Call : CallOf(d) # e /\ (ResultOf(d) = e <=> d = c)
      BY <2>3, Events
    <2>10. \A d \in Call : Has(t, ResultOf(d)) <=> d <= c
      <3>1. \A d \in Call : Has(log, ResultOf(d)) <=> d <= committed
        BY <2>1 DEF Invariants, LogInv
      <3>2. \A d \in Call : Has(t, ResultOf(d)) <=> d <= committed \/ d = c
        BY <2>7, <2>9, <3>1 DEF Extends
      <3>3. \A d \in Call : d <= c <=> d <= committed \/ d = c
        BY <1>1 DEF Call
      <3> QED
        BY <3>2, <3>3
    <2>11. \A d \in Call : Has(t, CallOf(d)) <=> d < next
      <3>1. \A d \in Call : Has(log, CallOf(d)) <=> d < next
        BY <2>1 DEF Invariants, LogInv
      <3> QED
        BY <2>7, <2>9, <3>1 DEF Extends
    <2>12. \A d \in Call : Started(d)' <=> d < next
      BY <1>1 DEF Started
    <2> QED
      BY <1>1, <2>7, <2>8, <2>10, <2>11, <2>12 DEF LogInv, Working
  <1> QED
    BY <1>2, <1>3 DEF Kept

LEMMA CommitReadyStep == ASSUME Invariants, commitReady PROVE Kept
  <1> USE CallsAssumption
  <1>1. /\ main \in {"started", "commit"} /\ main # "done" /\ Working
        /\ committed \in Nat /\ group.last \in 0..Calls
        /\ UNCHANGED <<group, next, run, inFlight, changes>>
    BY DEF commitReady, Invariants, PoolInv, PoolTypes, IInv, MainAtACall, Working
  <1>2. Ready <=> \E c \in Call : Due(c) /\ c <= group.last /\ slot[c]
    BY <1>1 DEF Ready, Due, Call
  <1>3. CASE Throws /\ Throw /\ UNCHANGED <<log, committed, slot, aborted>>
    BY <1>1, <1>3, ThrowStep
  <1>4. CASE Ready /\ AppendResult /\ UNCHANGED <<failed, aborted>>
    BY <1>1, <1>2, <1>4, AppendStep
  <1>5. CASE /\ Ready /\ main' = "finalize"
             /\ UNCHANGED <<log, committed, slot, failed, aborted>>
    <2>1. PoolInv'
      BY <1>1, <1>2, <1>5 DEF Invariants, PoolInv, PoolTypes, Running, Working, Due
    <2>2. LogInv'
      BY <1>1, <1>5, LogStands DEF Invariants, Started, Working
    <2> QED
      BY <2>1, <2>2 DEF Kept
  <1>6. CASE /\ ~Ready /\ main' = "fill" /\ aborted' = (aborted \/ signal)
             /\ UNCHANGED <<log, committed, slot, failed>>
    <2>1. \A c \in Call : Due(c) => ~slot[c]
      <3>1. ASSUME NEW c \in Call, Due(c), slot[c] PROVE c <= group.last
        <4>1. c < next /\ next <= group.last + 1 /\ c \in Nat /\ next \in Nat
          BY <1>1, <3>1 DEF Invariants, PoolInv, IInv, MainAtACall, Call
        <4> QED
          BY <1>1, <4>1
      <3> QED
        BY <1>2, <1>6, <3>1
    <2>2. PoolInv'
      BY <1>1, <1>6, <2>1 DEF Invariants, PoolInv, PoolTypes, Running, Working, Due, IInv
    <2>3. LogInv'
      BY <1>1, <1>6, LogStands DEF Invariants, Started, Working
    <2> QED
      BY <2>2, <2>3 DEF Kept
  <1> QED
    BY <1>3, <1>4, <1>5, <1>6 DEF commitReady

LEMMA FinalizeStep == ASSUME Invariants, finalize PROVE Kept
  <1>1. /\ main = "finalize" /\ Working /\ main # "done"
        /\ UNCHANGED <<group, next, aborted, run, inFlight, changes>>
    BY DEF finalize, Working
  <1>2. PICK c \in Call : Due(c) /\ slot[c]
    BY <1>1 DEF Invariants, PoolInv
  <1>3. CASE AppendResult /\ UNCHANGED failed
    BY <1>1, <1>2, <1>3, AppendStep
  <1>4. CASE Throw /\ UNCHANGED <<log, committed, slot>>
    BY <1>1, <1>4, ThrowStep
  <1> QED
    BY <1>3, <1>4 DEF finalize

(* A dispatch is over: its outcome is there, or a failure is thrown.       *)
LEMMA RaceStep == ASSUME Invariants, NEW c \in Call, race(c) PROVE Kept
  <1>1. /\ main = "race" /\ main # "done" /\ c \in inFlight
        /\ UNCHANGED <<group, next, committed, aborted, run, slot, log, changes>>
    BY DEF race
  <1>2. CASE Throw /\ UNCHANGED inFlight
    BY <1>1, <1>2, ThrowStep
  <1>3. CASE run[c] = "settled" /\ inFlight' = inFlight \ {c} /\ main' \in {"drain", "commit"}
             /\ failed' = failed /\ (main' = "commit" => ~failed)
    <2>1. PoolInv'
      BY <1>1, <1>3, CallsAssumption
         DEF Invariants, PoolInv, PoolTypes, Running, Working, Due, Call
    <2>2. LogInv'
      BY <1>1, <1>3, LogStands DEF Invariants, Started, Working
    <2> QED
      BY <2>1, <2>2 DEF Kept
  <1>4. failed \in BOOLEAN
    BY DEF Invariants, PoolInv, PoolTypes
  <1> QED
    BY <1>2, <1>3, <1>4 DEF race, Throw

LEMMA DrainedStep == ASSUME Invariants, drained PROVE Kept
  <1>1. /\ main = "drain" /\ main' = "failed"
        /\ \A c \in inFlight : run[c] \in {"settled", "rejected"}
        /\ UNCHANGED <<group, next, committed, aborted, failed, run, inFlight, slot, log, changes>>
    BY DEF drained
  <1>2. PoolInv'
    BY <1>1 DEF Invariants, PoolInv, PoolTypes, Running, Working, Due
  <1>3. LogInv'
    BY <1>1, LogStands DEF Invariants, Working
  <1> QED
    BY <1>2, <1>3 DEF Kept

(* A preparation has failed, and is decided about.                         *)
LEMMA PrepareRecoverySteps ==
  ASSUME Invariants, prepareFails \/ consumeToolRecovery PROVE Kept
  <1>1. /\ main \in {"prepare", "recover"} /\ main # "done"
        /\ UNCHANGED <<group, next, committed, aborted, run, inFlight, slot, log, changes>>
    BY DEF prepareFails, consumeToolRecovery
  <1>2. CASE Throw
    BY <1>1, <1>2, ThrowStep
  <1>3. CASE main' \in {"recover", "reprepare"} /\ UNCHANGED failed
    <2>1. PoolInv'
      BY <1>1, <1>3 DEF Invariants, PoolInv, PoolTypes, Running, Working, Due
    <2>2. LogInv'
      BY <1>1, <1>3, LogStands DEF Invariants, Started, Working
    <2> QED
      BY <2>1, <2>2 DEF Kept
  <1> QED
    BY <1>2, <1>3 DEF prepareFails, consumeToolRecovery

(* A dispatch goes on beside main: it gets its outcome, asks for recovery, *)
(* is repeated, gives up or is rejected.                                   *)
LEMMA RunStep ==
  ASSUME Invariants, NEW c \in Call, Run(c) PROVE Kept
  <1>1. /\ Running(c) /\ UNCHANGED <<main, group, next, committed, aborted, inFlight, log, changes>>
        /\ run' = [run EXCEPT ![c] = run'[c]]
        /\ run'[c] \in {"recover", "redispatch", "settled", "rejected"}
        /\ slot' = [slot EXCEPT ![c] = slot'[c]] /\ slot'[c] \in BOOLEAN
        /\ slot[c] => slot'[c]
        /\ failed' \in BOOLEAN /\ (failed => failed')
        /\ run'[c] = "settled" => slot'[c] \/ failed'
    <2> USE DEF Running
    <2>1. run[c] # "none" /\ slot[c] \in BOOLEAN /\ failed \in BOOLEAN
          /\ DOMAIN run = Call /\ DOMAIN slot = Call /\ slot = [slot EXCEPT ![c] = slot[c]]
      BY DEF Run, dispatch, dispatchFails, consumeDispatchRecovery, redispatch,
             Invariants, PoolInv, PoolTypes
    <2>2. CASE dispatch(c)
      BY <2>1, <2>2 DEF dispatch, Outcome, Invariants, PoolInv, PoolTypes
    <2>3. CASE dispatchFails(c)
      BY <2>1, <2>3 DEF dispatchFails, Invariants, PoolInv, PoolTypes
    <2>4. CASE consumeDispatchRecovery(c)
      BY <2>1, <2>4 DEF consumeDispatchRecovery, Invariants, PoolInv, PoolTypes
    <2>5. CASE redispatch(c)
      BY <2>1, <2>5 DEF redispatch, Outcome, Invariants, PoolInv, PoolTypes
    <2> QED
      BY <2>2, <2>3, <2>4, <2>5 DEF Run
  <1>2. c \in inFlight /\ main \notin {"done", "failed"}
    BY <1>1 DEF Invariants, PoolInv
  <1>3. PoolInv'
    <2>1. PoolTypes'
      BY <1>1 DEF Invariants, PoolInv, PoolTypes
    <2>2. \A d \in Call : /\ d # c => run'[d] = run[d] /\ slot'[d] = slot[d]
                          /\ slot[d] => slot'[d]
      BY <1>1 DEF Invariants, PoolInv, PoolTypes
    <2> QED
      BY <1>1, <1>2, <2>1, <2>2 DEF Invariants, PoolInv, Running, Working, Due
  <1>4. LogInv'
    BY <1>1, <1>2, LogStands DEF Invariants, Started, Working
  <1> QED
    BY <1>3, <1>4 DEF Kept

(* Steps of the policies and of the caller.                                *)
LEMMA ElsewhereStep ==
  ASSUME Invariants,
         UNCHANGED <<main, group, next, committed, aborted, failed, run, inFlight, slot, log>>,
         changes' \in 0..MaxRegistrations
  PROVE  Kept
  <1>1. PoolInv'
    BY DEF Invariants, PoolInv, PoolTypes, Running, Working, Due
  <1>2. LogInv'
    BY DEF Invariants, LogInv, InOrder, Has, Started, Working
  <1> QED
    BY <1>1, <1>2 DEF Kept

LEMMA InvariantsNext == Invariants /\ [Next]_vars => Invariants'
  <1> SUFFICES ASSUME Invariants, [Next]_vars PROVE Kept
    BY NextInv DEF Invariants, Kept
  <1>1. CASE Main
    BY <1>1, FillStep, PreparedStep, PrepareRecoverySteps, CommitReadyStep, FinalizeStep,
       RaceStep, DrainedStep DEF Main
  <1>2. CASE \E c \in Call : Run(c)
    BY <1>2, RunStep
  <1>3. CASE (\E c \in Call : policyAnswers(c)) \/ policiesChange \/ abort \/ UNCHANGED vars
    <2>1. changes \in 0..MaxRegistrations
      BY DEF Invariants, PoolInv, PoolTypes
    <2>2. changes' \in 0..MaxRegistrations
      BY <1>3, <2>1, CallsAssumption DEF policyAnswers, policiesChange, abort, vars
    <2>3. UNCHANGED <<main, group, next, committed, aborted, failed, run, inFlight, slot, log>>
      BY <1>3 DEF policyAnswers, policiesChange, abort, vars, poolVars
    <2> QED
      BY <2>2, <2>3, ElsewhereStep
  <1> QED
    BY <1>1, <1>2, <1>3 DEF Next, Progress, Stopped

LEMMA InvariantsInit == Init => Invariants
  <1> SUFFICES ASSUME Init PROVE PoolInv /\ LogInv
    BY InitInv DEF Invariants
  <1> USE CallsAssumption
  <1>1. PICK mode \in {"parallel", "exclusive"} : group = GroupFrom(1, mode)
    BY DEF Init
  <1>2. /\ group \in [first : Nat, last : Nat, mode : {"parallel", "exclusive"}]
        /\ Calls # 0 => 1 <= group.last
    BY <1>1 DEF GroupFrom
  <1>3. main \in {"done", "fill"} /\ (main = "done" <=> Calls = 0)
    BY DEF Init
  <1>4. PoolInv
    <2>1. /\ aborted = FALSE /\ failed = FALSE /\ next = 1 /\ committed = 0 /\ inFlight = {}
          /\ changes = 0 /\ 0 \in 0..MaxRegistrations
          /\ run = [c \in Call |-> "none"] /\ slot = [c \in Call |-> FALSE]
      BY DEF Init
    <2>2. PoolTypes
      BY <1>2, <1>3, <2>1 DEF PoolTypes
    <2>3. \A c \in Call : ~slot[c] /\ run[c] = "none" /\ c \notin inFlight
                           /\ ~(committed < c /\ c < next)
      BY <2>1 DEF Call
    <2>4. main # "done" => next <= group.last + 1
      BY <1>2, <1>3, <2>1
    <2> QED
      BY <1>3, <2>1, <2>2, <2>3, <2>4 DEF PoolInv, Running
  <1>5. InOrder(log) /\ \A x : ~Has(log, x)
    BY DEF Init, InOrder, Has
  <1>6. LogInv
    BY <1>3, <1>5 DEF Init, LogInv, Call, Started, Working
  <1> QED
    BY <1>4, <1>6

(* The pool and the log are as described in every reachable state.         *)
THEOREM PoolInvariance == Spec => []Invariants
  BY InvariantsInit, InvariantsNext, PTL DEF Spec

(* Every state of the step and of the recovery authority is well typed.    *)
THEOREM TypeCorrect == Spec => []TypeOK
  <1>1. ASSUME Invariants PROVE TypeOK
    <2>1. RecoveryTypeOK /\ signal \in BOOLEAN /\ reruns \in [Call -> Nat] /\ opposed \subseteq Call
      BY <1>1 DEF Invariants, IInv, AuthorityInv, RepeatedOnce
    <2>2. PoolTypes /\ next \in 1..(Calls + 1) /\ committed < next /\ log \in Seq(Event)
      BY <1>1 DEF Invariants, IInv, MainAtACall, PoolInv, LogInv, InOrder
    <2>3. committed \in 0..Calls
      BY <2>2, CallsAssumption DEF PoolTypes
    <2> QED
      BY <2>1, <2>2, <2>3 DEF TypeOK, PoolTypes
  <1> QED
    BY <1>1, PoolInvariance, PTL

(* However the dispatches overtake each other, fail, are repeated or are   *)
(* aborted: call and result of every call are in the log once, in the      *)
(* order of the model, all of them as the step is done, and nothing runs   *)
(* on when it ends.                                                        *)
THEOREM AnsweredInOrder == Spec => []CallsAnsweredInOrder
  <1>1. ASSUME Invariants PROVE CallsAnsweredInOrder
    <2>1. /\ InOrder(log) /\ log \in Seq(Event)
          /\ main # "done" => \A c \in Call : Has(log, ResultOf(c)) <=> c <= committed
          /\ main = "done" => \A c \in Call : Has(log, ResultOf(c))
      BY <1>1 DEF Invariants, LogInv, InOrder
    <2>2. \A i, j \in 1..Len(log) : i < j /\ log[i].type = log[j].type => log[i].call < log[j].call
      BY <2>1 DEF InOrder
    <2>3. \A i \in 1..Len(log) : log[i].call \in Nat
      <3>1. \A i \in 1..Len(log) : log[i] \in Event
        BY <2>1
      <3>2. \A i \in 1..Len(log) : log[i].call \in Call
        BY <3>1, EventIs
      <3> QED
        BY <3>2, CallsAssumption DEF Call
    <2>4. /\ \A c : Position("tool/call", c) = {i \in 1..Len(log) : log[i] = CallOf(c)}
          /\ \A c : Position("tool/result", c) = {i \in 1..Len(log) : log[i] = ResultOf(c)}
      BY DEF Position, CallOf, ResultOf
    <2>5. ASSUME NEW e PROVE Cardinality({i \in 1..Len(log) : log[i] = e}) <= 1
      <3> DEFINE P == {i \in 1..Len(log) : log[i] = e}
      <3>1. \A i, j \in P : i = j
        BY <2>2, <2>3
      <3>2. P = {} \/ \E i : P = {i}
        BY <3>1
      <3> HIDE DEF P
      <3>3. Cardinality(P) = 0 \/ Cardinality(P) = 1
        BY <3>2, FS_EmptySet, FS_Singleton
      <3> QED
        BY <3>3 DEF P
    <2>6. ASSUME NEW c \in Call, NEW i \in Position("tool/result", c)
          PROVE  /\ \E j \in Position("tool/call", c) : j < i
                 /\ \A d \in 1..(c - 1) : \E j \in Position("tool/result", d) : j < i
      <3>1. i \in 1..Len(log) /\ log[i] = ResultOf(c) /\ Has(log, ResultOf(c))
        BY <2>4 DEF Has
      <3>2. \E j \in Position("tool/call", c) : j < i
        BY <2>1, <2>4, <3>1 DEF InOrder
      <3>3. ASSUME NEW d \in 1..(c - 1) PROVE \E j \in Position("tool/result", d) : j < i
        <4>1. d \in Call /\ d < c /\ c \in Nat
          BY CallsAssumption DEF Call
        <4>2. Has(log, ResultOf(d))
          <5>1. committed \in Nat
            BY <1>1 DEF Invariants, PoolInv, PoolTypes
          <5>2. c <= committed => d <= committed
            BY <4>1, <5>1
          <5> QED
            BY <2>1, <3>1, <4>1, <5>2
        <4>3. PICK j \in 1..Len(log) : log[j] = ResultOf(d)
          BY <4>2 DEF Has
        <4>4. /\ log[i].call = c /\ log[j].call = d /\ log[i].type = log[j].type
          BY <3>1, <4>1, <4>3, Events
        <4>5. j < i
          BY <2>2, <3>1, <4>1, <4>4
        <4> QED
          BY <2>4, <4>3, <4>5
      <3> QED
        BY <3>2, <3>3
    <2>7. main = "done" => \A c \in Call : Position("tool/result", c) # {}
      BY <2>1, <2>4 DEF Has
    <2>8. main \in {"done", "failed"} =>
             \A c \in Call : run[c] \in {"none", "settled", "rejected"}
      BY <1>1 DEF Invariants, PoolInv, PoolTypes, Running
    <2> QED
      BY <2>4, <2>5, <2>6, <2>7, <2>8 DEF CallsAnsweredInOrder
  <1> QED
    BY <1>1, PoolInvariance, PTL

-----------------------------------------------------------------------------
(* The step never gets stuck.                                              *)

(* Somebody waits for the decision about the call.                         *)
Asking(c) == run[c] = "recover" \/ (main = "recover" /\ next = c)

(* An evaluation is under way for the calls somebody asks about, and for   *)
(* no others; main races for something; and what it waits for was started. *)
AliveInv ==
    /\ \A c \in Call : evaluation[c].at # "idle" <=> Asking(c)
    /\ main = "race" => inFlight # {}
    /\ \A c \in inFlight : run[c] # "none"

(* Main, a dispatch or a policy has a step to take.                        *)
CanGo ==
    \/ main \in {"fill", "prepare", "reprepare", "started", "commit", "finalize"}
    \/ main = "recover" /\ evaluation[next].at # "idle"
    \/ main = "race" /\ \E c \in inFlight : run[c] \in {"settled", "rejected"}
    \/ main = "drain" /\ \A c \in inFlight : run[c] \in {"settled", "rejected"}
    \/ \E c \in Call : \/ run[c] \in {"dispatch", "redispatch"}
                       \/ run[c] = "recover" /\ evaluation[c].at # "idle"

(* Which evaluations are under way after a step of the authority.          *)
LEMMA DecideAsks ==
  ASSUME RecoveryTypeOK, NEW w \in Window, NEW cancelled \in BOOLEAN, decide(w, cancelled)
  PROVE  \A v \in Window : evaluation'[v].at # "idle" <=> v = w \/ evaluation[v].at # "idle"
  <1> DEFINE first == [Idle EXCEPT !.at = "match", !.left = registered, !.fresh = registered]
  <1>1. PICK e : evaluation' = [evaluation EXCEPT ![w] = e] /\ e.at # "idle"
    <2>1. first.at # "idle" /\ \A a : Decided(Idle, a).at # "idle"
      BY DEF Idle, Decided
    <2> QED
      BY <2>1 DEF decide, Evaluate
  <1> QED
    BY <1>1 DEF RecoveryTypeOK

LEMMA ContinueAsks ==
  ASSUME RecoveryTypeOK, NEW w \in Window, NEW e \in Evaluation, NEW cancelled \in BOOLEAN,
         Continue(w, e, cancelled)
  PROVE  \E f : evaluation' = [evaluation EXCEPT ![w] = f] /\ f.at # "idle"
  <1>1. Proceed(e).at # "idle" /\ \A a : Decided(e, a).at # "idle"
    BY DEF Proceed, Decided, Evaluation
  <1> QED
    BY <1>1 DEF Continue, Evaluate

LEMMA AnswerAsks ==
  ASSUME RecoveryTypeOK, NEW w \in Window, NEW reply, NEW cancelled \in BOOLEAN,
         matchAnswered(w, reply, cancelled) \/ decideAnswered(w, reply, cancelled)
  PROVE  \A v \in Window : evaluation'[v].at # "idle" <=> evaluation[v].at # "idle"
  <1> DEFINE e == evaluation[w]
  <1>1. e \in Evaluation /\ e.at # "idle"
    BY DEF RecoveryTypeOK, matchAnswered, decideAnswered
  <1>2. PICK f : evaluation' = [evaluation EXCEPT ![w] = f] /\ f.at # "idle"
    <2>1. CASE matchAnswered(w, reply, cancelled)
      <3>1. CASE counts(e, cancelled) /\ reply = "yes"
        <4>1. [e EXCEPT !.at = "decide", !.matched = TRUE].at # "idle"
          BY <1>1 DEF Evaluation
        <4> QED
          BY <2>1, <3>1, <4>1 DEF matchAnswered, Evaluate
      <3>2. CASE ~(counts(e, cancelled) /\ reply = "yes")
        <4>1. Continue(w, e, cancelled /\ reply # "throws")
          BY <2>1, <3>2 DEF matchAnswered
        <4> QED
          BY <1>1, <4>1, ContinueAsks
      <3> QED
        BY <3>1, <3>2
    <2>2. CASE decideAnswered(w, reply, cancelled)
      <3> DEFINE proposal == IF counts(e, cancelled) /\ reply \in Action THEN reply ELSE "none"
                 g == [e EXCEPT !.best = betterDecision(@, proposal),
                                !.opposed = @ \/ proposal = "stop"]
      <3>1. proposal \in Action
        BY DEF Action
      <3>2. betterDecision(e.best, proposal) \in Action
        <4>1. e.best \in Action
          BY <1>1 DEF Evaluation
        <4> HIDE DEF proposal
        <4> QED
          BY <3>1, <4>1, BetterDecision
      <3>3. g \in Evaluation
        <4>1. (e.opposed \/ proposal = "stop") \in BOOLEAN
          OBVIOUS
        <4> HIDE DEF proposal
        <4> QED
          BY <1>1, <3>2, <4>1 DEF Evaluation
      <3>4. Continue(w, g, cancelled /\ reply # "throws")
        BY <2>2 DEF decideAnswered
      <3> HIDE DEF g
      <3> QED
        BY <3>3, <3>4, ContinueAsks
    <2> QED
      BY <2>1, <2>2
  <1> QED
    BY <1>1, <1>2 DEF RecoveryTypeOK

LEMMA CommitAsks ==
  ASSUME RecoveryTypeOK, NEW w \in Window, commit(w)
  PROVE  \A v \in Window : evaluation'[v].at # "idle" <=> v # w /\ evaluation[v].at # "idle"
  BY DEF RecoveryTypeOK, commit, Evaluate, Idle

LEMMA PoliciesAsk ==
  ASSUME RecoveryTypeOK,
         \/ \E p \in Policy : registerPolicy(p) \/ releasePolicy(p)
         \/ disposeRecovery
  PROVE  \A v \in Window : evaluation'[v].at # "idle" <=> evaluation[v].at # "idle"
  <1>1. CASE \E p \in Policy : registerPolicy(p) \/ releasePolicy(p)
    BY <1>1 DEF RecoveryTypeOK, Evaluation, registerPolicy, releasePolicy, Superseded
  <1>2. CASE disposeRecovery
    BY <1>2 DEF RecoveryTypeOK, Evaluation, disposeRecovery
  <1> QED
    BY <1>1, <1>2

LEMMA AliveInit == Init => AliveInv
  BY WindowIsCall DEF Init, RecoveryInit, Idle, AliveInv, Asking

(* A step of main that asks nobody.                                        *)
LEMMA AliveMain ==
  ASSUME Invariants, AliveInv,
         fillPool \/ prepare \/ reprepare \/ commitReady \/ finalize
            \/ (\E c \in Call : race(c)) \/ drained
  PROVE  AliveInv'
  <1> USE DEF Invariants, PoolInv, PoolTypes
  <1>1. evaluation' = evaluation /\ main # "recover" /\ main' # "recover"
    BY DEF fillPool, startCall, EndGroup, prepare, reprepare, prepared, commitReady, finalize,
           AppendResult, race, drained, Throw, recoveryVars
  <1>2. \A c \in Call : (run'[c] = "recover" <=> run[c] = "recover")
    <2>1. CASE prepare \/ reprepare
      <3>1. run' = run \/ run' = [run EXCEPT ![next] = "dispatch"]
        BY <2>1 DEF prepare, reprepare, prepared
      <3>2. next \in Call => run[next] # "recover"
        <4>1. next \in Nat
          BY CallsAssumption DEF IInv, MainAtACall
        <4> QED
          BY <4>1 DEF Running
      <3> QED
        BY <3>1, <3>2
    <2>2. CASE ~(prepare \/ reprepare)
      BY <2>2 DEF fillPool, commitReady, finalize, race, drained
    <2> QED
      BY <2>1, <2>2
  <1>3. main' = "race" => inFlight' # {}
    BY DEF fillPool, startCall, EndGroup, prepare, reprepare, prepared, commitReady, finalize,
           AppendResult, race, drained, Throw
  <1>4. \A c \in inFlight' : run'[c] # "none"
    <2>1. CASE prepare \/ reprepare
      <3>1. next \in Call
        BY <2>1 DEF prepare, reprepare, IInv, MainAtACall
      <3> QED
        BY <2>1, <3>1 DEF prepare, reprepare, prepared, AliveInv
    <2>2. CASE ~(prepare \/ reprepare)
      <3>1. run' = run /\ inFlight' \subseteq inFlight
        BY <2>2 DEF fillPool, commitReady, finalize, race, drained
      <3> QED
        BY <3>1 DEF AliveInv
    <2> QED
      BY <2>1, <2>2
  <1> QED
    BY <1>1, <1>2, <1>3, <1>4 DEF AliveInv, Asking

(* A preparation that fails, and the decision about it.                    *)
LEMMA AlivePrepare ==
  ASSUME Invariants, AliveInv, prepareFails \/ consumeToolRecovery
  PROVE  AliveInv'
  <1>1. /\ next \in Call /\ next' = next /\ run' = run /\ inFlight' = inFlight
        /\ run[next] # "recover" /\ main' # "race"
    BY CallsAssumption DEF prepareFails, consumeToolRecovery, Throw, Invariants, PoolInv, Running,
                           IInv, MainAtACall
  <1>2. CASE prepareFails
    <2>1. \A c \in Call : evaluation'[c].at # "idle" <=> c = next \/ evaluation[c].at # "idle"
      BY <1>1, <1>2, WindowIsCall, DecideAsks DEF prepareFails, Invariants, IInv, AuthorityInv
    <2>2. main # "recover" /\ main' = "recover"
      BY <1>2 DEF prepareFails
    <2> QED
      BY <1>1, <2>1, <2>2 DEF AliveInv, Asking
  <1>3. CASE consumeToolRecovery
    <2>1. \A c \in Call : evaluation'[c].at # "idle" <=> c # next /\ evaluation[c].at # "idle"
      BY <1>1, <1>3, WindowIsCall, CommitAsks
         DEF consumeToolRecovery, Invariants, IInv, AuthorityInv
    <2>2. main' # "recover"
      BY <1>3 DEF consumeToolRecovery, Throw
    <2> QED
      BY <1>1, <2>1, <2>2 DEF AliveInv, Asking
  <1> QED
    BY <1>2, <1>3

(* A step of a dispatch.                                                   *)
LEMMA AliveRun ==
  ASSUME Invariants, AliveInv, NEW c \in Call, Run(c)
  PROVE  AliveInv'
  <1>1. /\ Running(c) /\ main' = main /\ next' = next /\ inFlight' = inFlight
        /\ RecoveryTypeOK /\ signal \in BOOLEAN /\ c \in Window
        /\ run \in [Call -> {"none", "dispatch", "recover", "redispatch", "settled", "rejected"}]
    BY WindowIsCall DEF Run, dispatch, dispatchFails, consumeDispatchRecovery, redispatch, Running,
                        Invariants, PoolInv, PoolTypes, IInv, AuthorityInv
  <1>2. main = "recover" => next # c
    BY <1>1, CallsAssumption DEF Invariants, PoolInv, IInv, MainAtACall
  <1>3. CASE dispatch(c) \/ redispatch(c)
    <2>1. /\ evaluation' = evaluation /\ run[c] # "recover"
          /\ \E r \in {"settled", "rejected"} : run' = [run EXCEPT ![c] = r]
      BY <1>3 DEF dispatch, redispatch, Outcome, recoveryVars
    <2>2. \A d \in Call : /\ run'[d] = "recover" <=> run[d] = "recover"
                         /\ run[d] # "none" => run'[d] # "none"
      BY <1>1, <2>1
    <2>3. inFlight \subseteq Call
      BY DEF Invariants, PoolInv, PoolTypes
    <2> QED
      BY <1>1, <2>1, <2>2, <2>3 DEF AliveInv, Asking
  <1>4. CASE dispatchFails(c)
    <2>1. \A d \in Call : evaluation'[d].at # "idle" <=> d = c \/ evaluation[d].at # "idle"
      BY <1>1, <1>4, WindowIsCall, DecideAsks DEF dispatchFails
    <2>2. run' = [run EXCEPT ![c] = "recover"]
      BY <1>4 DEF dispatchFails
    <2> QED
      BY <1>1, <2>1, <2>2 DEF AliveInv, Asking
  <1>5. CASE consumeDispatchRecovery(c)
    <2>1. \A d \in Call : evaluation'[d].at # "idle" <=> d # c /\ evaluation[d].at # "idle"
      BY <1>1, <1>5, WindowIsCall, CommitAsks DEF consumeDispatchRecovery
    <2>2. PICK r \in {"redispatch", "settled"} : run' = [run EXCEPT ![c] = r]
      BY <1>5 DEF consumeDispatchRecovery
    <2> QED
      BY <1>1, <1>2, <2>1, <2>2 DEF AliveInv, Asking
  <1> QED
    BY <1>3, <1>4, <1>5 DEF Run

LEMMA AliveNext == Invariants /\ AliveInv /\ [Next]_vars => AliveInv'
  <1> SUFFICES ASSUME Invariants, AliveInv, [Next]_vars PROVE AliveInv'
    OBVIOUS
  <1>1. CASE Main
    BY <1>1, AliveMain, AlivePrepare DEF Main
  <1>2. CASE \E c \in Call : Run(c)
    BY <1>2, AliveRun
  <1>3. CASE (\E c \in Call : policyAnswers(c)) \/ policiesChange \/ abort \/ UNCHANGED vars
    <2>1. \A c \in Call : evaluation'[c].at # "idle" <=> evaluation[c].at # "idle"
      <3>1. RecoveryTypeOK /\ signal \in BOOLEAN
        BY DEF Invariants, IInv, AuthorityInv
      <3>2. ASSUME NEW d \in Call, policyAnswers(d)
            PROVE \A c \in Call : evaluation'[c].at # "idle" <=> evaluation[c].at # "idle"
        BY <3>1, <3>2, WindowIsCall, AnswerAsks DEF policyAnswers
      <3>3. CASE policiesChange
        BY <3>1, <3>3, WindowIsCall, PoliciesAsk DEF policiesChange
      <3>4. CASE abort \/ UNCHANGED vars
        BY <3>4 DEF abort, vars, recoveryVars
      <3> QED
        BY <1>3, <3>2, <3>3, <3>4
    <2>2. UNCHANGED <<main, next, run, inFlight>>
      BY <1>3 DEF policyAnswers, policiesChange, abort, vars, poolVars
    <2> QED
      BY <2>1, <2>2 DEF AliveInv, Asking
  <1> QED
    BY <1>1, <1>2, <1>3 DEF Next, Progress, Stopped

(* As long as the step has neither finished nor failed, main, one of the   *)
(* dispatches or a policy that was asked can go on: nobody waits for a     *)
(* dispatch that was never started, for a decision nobody is making, or    *)
(* for an outcome that cannot come any more, whatever is aborted, fails,   *)
(* is registered, released or disposed meanwhile.                          *)
THEOREM NoDeadlock == Spec => [](main \notin {"done", "failed"} => CanGo)
  <1>1. ASSUME Invariants, AliveInv, main \notin {"done", "failed"} PROVE CanGo
    <2> USE DEF Invariants, PoolInv, PoolTypes
    <2>1. main \in {"race", "drain"} /\ ~(\A c \in inFlight : run[c] \in {"settled", "rejected"})
             => CanGo
      BY <1>1 DEF AliveInv, Asking, CanGo
    <2>2. main \in {"race", "drain"} /\ (\A c \in inFlight : run[c] \in {"settled", "rejected"})
             => CanGo
      BY <1>1 DEF AliveInv, CanGo
    <2>3. main = "recover" => CanGo
      BY <1>1 DEF AliveInv, Asking, CanGo, IInv, MainAtACall
    <2> QED
      BY <1>1, <2>1, <2>2, <2>3 DEF CanGo
  <1> QED
    BY <1>1, AliveInit, AliveNext, InvariantsInit, InvariantsNext, PTL DEF Spec
=============================================================================
