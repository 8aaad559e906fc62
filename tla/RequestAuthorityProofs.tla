----------------------- MODULE RequestAuthorityProofs -----------------------
(***************************************************************************)
(* Proofs about RequestAuthority, for every set of sessions and keys, any  *)
(* number of requests and any number of restarts of the loop.              *)
(*                                                                         *)
(* The first part does not rest on what the slots of the loop hold:        *)
(* whatever facts it reports, for whatever operation, the records and the  *)
(* indexes of the authority keep their agreement.  The second part is      *)
(* about the slots, the third about the stops that were asked for, and the *)
(* last shows that the authority implements WorkOrder.                     *)
(***************************************************************************)
EXTENDS RequestAuthority, FiniteSetTheorems, TLAPS

-----------------------------------------------------------------------------
(* The inductive invariant.                                                *)

OperationTypes ==
    /\ op \in [Requests -> Request]
    /\ sessionLive \in [Sessions -> Requests \cup {Nobody}]
    /\ dedupe \in [Keys -> Requests \cup {Nobody}]

(* Only a terminal operation has an outcome: this is what lets a stop      *)
(* request find every live operation undecided.                            *)
OutcomeMeansTerminal ==
    \A r \in Requests : op[r].outcome # "none" => op[r].phase = "terminal"

IInv == /\ OperationTypes
        /\ OutcomeMeansTerminal
        /\ CancelPrecedesOutcome
        /\ IndexesNameLiveOperations

-----------------------------------------------------------------------------
(* Lemmas on the operators.                                                *)

LEMMA UnusedIsRequest == Unused \in Request /\ Nobody \notin Requests
  BY BoundaryAssumption DEF Unused, Request, AnySession, Phases, Nobody, Requests

(* Settling keeps the type; the outcome is the one given.                  *)
LEMMA SettledRequest ==
  ASSUME NEW o \in Request, NEW x \in Outcomes
  PROVE  /\ Settled(o, x) \in Request
         /\ Settled(o, x).phase = "terminal" /\ Settled(o, x).outcome = x
         /\ Settled(o, x).cancelled = o.cancelled
  BY DEF Settled, Request, Phases

(* What a stop request makes of one operation: it is asked to stop, and if *)
(* it ends at once it ends aborted.                                        *)
LEMMA StoppedRequest ==
  ASSUME NEW o \in Request, o.phase \in {"accepted", "running"}, o.outcome = "none"
  PROVE  /\ stop(o) \in Request
         /\ stop(o).cancelled = TRUE
         /\ stop(o).session = o.session /\ stop(o).key = o.key
         /\ \/ stop(o).phase = "terminal" /\ stop(o).outcome = "aborted"
            \/ stop(o).phase = o.phase /\ stop(o).outcome = "none"
  BY DEF stop, Settled, Request, Phases, Outcomes

(* A stop reaches live operations only, the root if it is live, and every  *)
(* live child of an operation it reaches.                                  *)
LEMMA StopReaches ==
  ASSUME NEW root \in Requests, live(root)
  PROVE  /\ root \in StoppedWith(root)
         /\ \A r \in StoppedWith(root) : r \in Requests /\ live(r)
         /\ \A c \in Requests :
               live(c) /\ op[c].parent \in StoppedWith(root) => c \in StoppedWith(root)
  BY Zenon DEF StoppedWith, ClosedUnderStop

-----------------------------------------------------------------------------
LEMMA InitInv == Init => IInv
  <1> SUFFICES ASSUME Init PROVE IInv
    OBVIOUS
  <1>1. OperationTypes
    BY UnusedIsRequest DEF Init, OperationTypes
  <1>2. OutcomeMeansTerminal /\ CancelPrecedesOutcome
    BY DEF Init, OutcomeMeansTerminal, CancelPrecedesOutcome, Unused
  <1>3. IndexesNameLiveOperations
    BY DEF Init, IndexesNameLiveOperations
  <1> QED BY <1>1, <1>2, <1>3 DEF IInv

-----------------------------------------------------------------------------
(* One operation changes, and the indexes are left alone: enough for the   *)
(* steps that only move a request that no index names, or a field that the *)
(* indexes do not look at.                                                 *)
LEMMA ChangeOne ==
  ASSUME IInv, NEW r \in Requests, NEW o \in Request,
         op' = [op EXCEPT ![r] = o],
         UNCHANGED <<sessionLive, dedupe>>,
         o.outcome # "none" => o.phase = "terminal",
         o.cancelled /\ o.outcome # "none" => o.outcome = "aborted",
         live(r) => /\ o.phase \in {"accepted", "running"}
                    /\ o.session = op[r].session /\ o.key = op[r].key
  PROVE  IInv'
  <1>1. OperationTypes'
    BY DEF IInv, OperationTypes
  <1>2. OutcomeMeansTerminal' /\ CancelPrecedesOutcome'
    BY DEF IInv, OperationTypes, OutcomeMeansTerminal, CancelPrecedesOutcome
  <1>3. \A q \in Requests : live(q) =>
           live(q)' /\ op'[q].session = op[q].session /\ op'[q].key = op[q].key
    BY DEF IInv, OperationTypes, live
  <1>4. IndexesNameLiveOperations'
    BY <1>3 DEF IInv, OperationTypes, IndexesNameLiveOperations
  <1> QED BY <1>1, <1>2, <1>4 DEF IInv

(* One request becomes an operation and takes its session and its key.     *)
LEMMA RegisterOne ==
  ASSUME IInv, NEW r \in Requests, NEW o \in Request, NEW s \in Sessions,
         NEW k \in Keys \cup {NoKey},
         ~live(r), op' = [op EXCEPT ![r] = o], Indexed(r, s, k),
         o.phase = "accepted", o.outcome = "none", o.session = s, o.key = k
  PROVE  IInv'
  <1>1. OperationTypes'
    BY DEF IInv, OperationTypes, Indexed
  <1>2. OutcomeMeansTerminal' /\ CancelPrecedesOutcome'
    BY DEF IInv, OperationTypes, OutcomeMeansTerminal, CancelPrecedesOutcome
  <1>3. live(r)' /\ op'[r].session = s /\ op'[r].key = k
    BY DEF IInv, OperationTypes, live
  <1>4. \A q \in Requests \ {r} : op'[q] = op[q] /\ (live(q) => live(q)')
    BY DEF IInv, OperationTypes, live
  <1>5. ASSUME NEW z \in Sessions, sessionLive'[z] # Nobody
        PROVE  live(sessionLive[z])' /\ op'[sessionLive'[z]].session = z
    <2>1. CASE z = s
      BY <1>3, <2>1 DEF IInv, OperationTypes, Indexed
    <2>2. CASE z # s
      <3>1. sessionLive'[z] = sessionLive[z] /\ sessionLive[z] \in Requests
        BY <1>5, <2>2 DEF IInv, OperationTypes, Indexed
      <3>2. live(sessionLive[z]) /\ op[sessionLive[z]].session = z
        BY <1>5, <3>1 DEF IInv, IndexesNameLiveOperations
      <3> QED BY <1>4, <3>1, <3>2 DEF live
    <2> QED BY <2>1, <2>2
  <1>6. ASSUME NEW j \in Keys, dedupe'[j] # Nobody
        PROVE  live(dedupe[j])' /\ op'[dedupe'[j]].key = j
    <2>1. CASE j = k
      BY <1>3, <2>1 DEF IInv, OperationTypes, Indexed
    <2>2. CASE j # k
      <3>1. dedupe'[j] = dedupe[j] /\ dedupe[j] \in Requests
        BY <1>6, <2>2 DEF IInv, OperationTypes, Indexed
      <3>2. live(dedupe[j]) /\ op[dedupe[j]].key = j
        BY <1>6, <3>1 DEF IInv, IndexesNameLiveOperations
      <3> QED BY <1>4, <3>1, <3>2 DEF live
    <2> QED BY <2>1, <2>2
  <1>7. IndexesNameLiveOperations'
    BY <1>5, <1>6 DEF IndexesNameLiveOperations, live
  <1> QED BY <1>1, <1>2, <1>7 DEF IInv

(* Operations end, and whatever indexes named them name nobody any more.   *)
LEMMA EndMany ==
  ASSUME IInv, NEW done \in SUBSET Requests,
         op' \in [Requests -> Request], forget(done),
         \A q \in Requests :
            /\ op'[q].outcome # "none" => op'[q].phase = "terminal"
            /\ op'[q].cancelled /\ op'[q].outcome # "none" => op'[q].outcome = "aborted"
            /\ live(q) /\ q \notin done =>
                  /\ op'[q].phase \in {"accepted", "running"}
                  /\ op'[q].session = op[q].session /\ op'[q].key = op[q].key
  PROVE  IInv'
  <1>1. OperationTypes'
    BY DEF IInv, OperationTypes, forget
  <1>2. OutcomeMeansTerminal' /\ CancelPrecedesOutcome'
    BY DEF OutcomeMeansTerminal, CancelPrecedesOutcome
  <1>3. \A q \in Requests \ done : live(q) =>
           live(q)' /\ op'[q].session = op[q].session /\ op'[q].key = op[q].key
    BY DEF live
  <1>4. \A s \in Sessions : sessionLive'[s] # Nobody =>
           sessionLive'[s] = sessionLive[s] /\ sessionLive[s] \in Requests \ done
    BY DEF IInv, OperationTypes, forget
  <1>5. \A k \in Keys : dedupe'[k] # Nobody =>
           dedupe'[k] = dedupe[k] /\ dedupe[k] \in Requests \ done
    BY DEF IInv, OperationTypes, forget
  <1>6. IndexesNameLiveOperations'
    BY <1>3, <1>4, <1>5 DEF IInv, IndexesNameLiveOperations
  <1> QED BY <1>1, <1>2, <1>6 DEF IInv

-----------------------------------------------------------------------------
(* Requests.                                                               *)

LEMMA RequestSteps ==
  ASSUME IInv, NEW r \in Requests, NEW s \in Sessions, NEW k \in Keys \cup {NoKey},
         request(r, s, k) \/ requestBare(r, s, k) \/ requestRepeated(r, s, k)
  PROVE  IInv'
  <1> DEFINE minted(phase, p) == [Unused EXCEPT !.phase = phase, !.session = s,
                                                !.key = k, !.parent = p]
  <1>1. ~live(r)
    BY DEF request, requestBare, requestRepeated, Admitted, NextId, live
  <1>2. \A p \in Parents, phase \in {"appending", "accepted"} :
           /\ minted(phase, p) \in Request
           /\ minted(phase, p).phase = phase /\ minted(phase, p).outcome = "none"
           /\ minted(phase, p).session = s /\ minted(phase, p).key = k
    BY UnusedIsRequest DEF Parents, Unused, Request, Phases
  <1>3. CASE request(r, s, k)
    <2>1. PICK p \in Parents : op' = [op EXCEPT ![r] = minted("appending", p)]
      BY <1>3 DEF request, Mint
    <2> HIDE DEF minted
    <2> QED BY <1>1, <1>2, <1>3, <2>1, ChangeOne DEF request
  <1>4. CASE requestBare(r, s, k)
    <2>1. PICK p \in Parents : op' = [op EXCEPT ![r] = minted("accepted", p)]
      BY <1>4 DEF requestBare, Mint
    <2> HIDE DEF minted
    <2> QED BY <1>1, <1>2, <1>4, <2>1, RegisterOne DEF requestBare
  <1>5. CASE requestRepeated(r, s, k)
    <2> DEFINE o == [Unused EXCEPT !.phase = "duplicate"]
    <2>1. o \in Request /\ o.outcome = "none"
      BY UnusedIsRequest DEF Unused, Request, Phases
    <2> HIDE DEF o
    <2>2. op' = [op EXCEPT ![r] = o] /\ UNCHANGED <<sessionLive, dedupe>>
      BY <1>5 DEF requestRepeated, o
    <2> QED BY <1>1, <2>1, <2>2, ChangeOne
  <1> QED BY <1>3, <1>4, <1>5

LEMMA AppendSteps ==
  ASSUME IInv, NEW r \in Requests,
         appendSucceeds(r) \/ appendFails(r) \/ callerAborts(r)
  PROVE  IInv'
  <1>1. op[r].phase = "appending" /\ ~live(r) /\ op[r] \in Request /\ op[r].outcome = "none"
    BY DEF appendSucceeds, appendFails, callerAborts, live, IInv, OperationTypes,
           OutcomeMeansTerminal
  <1>2. CASE appendFails(r)
    <2> DEFINE o == [Unused EXCEPT !.phase = "failed"]
    <2>1. o \in Request /\ o.outcome = "none"
      BY UnusedIsRequest DEF Unused, Request, Phases
    <2>2. op' = [op EXCEPT ![r] = o] /\ UNCHANGED <<sessionLive, dedupe>>
      BY <1>2 DEF appendFails
    <2> HIDE DEF o
    <2> QED BY <1>1, <2>1, <2>2, ChangeOne
  <1>3. CASE callerAborts(r)
    <2> DEFINE o == [op[r] EXCEPT !.gone = TRUE]
    <2>1. o \in Request /\ o.outcome = "none"
      BY <1>1 DEF Request
    <2>2. op' = [op EXCEPT ![r] = o] /\ UNCHANGED <<sessionLive, dedupe>>
      BY <1>3 DEF callerAborts
    <2> HIDE DEF o
    <2> QED BY <1>1, <2>1, <2>2, ChangeOne
  <1>4. CASE appendSucceeds(r) /\ op[r].gone /\ ~disposed
    <2> DEFINE o == [Settled(op[r], "aborted") EXCEPT !.cancelled = TRUE, !.gone = FALSE]
    <2>1. o \in Request /\ o.phase = "terminal" /\ o.outcome = "aborted"
      BY <1>1 DEF Settled, Request, Phases, Outcomes
    <2>2. op' = [op EXCEPT ![r] = o]
      BY <1>4 DEF appendSucceeds
    <2> HIDE DEF o
    <2>3. OperationTypes'
      BY <1>4, <2>1, <2>2 DEF appendSucceeds, IInv, OperationTypes
    <2>4. OutcomeMeansTerminal' /\ CancelPrecedesOutcome'
      BY <2>1, <2>2 DEF IInv, OperationTypes, OutcomeMeansTerminal, CancelPrecedesOutcome
    <2>5. \A q \in Requests \ {r} : op'[q] = op[q]
      BY <2>2 DEF IInv, OperationTypes
    <2>6. /\ \A s \in Sessions : sessionLive'[s] # Nobody =>
                 sessionLive'[s] = sessionLive[s] /\ sessionLive[s] \in Requests \ {r}
          /\ \A k \in Keys : dedupe'[k] # Nobody =>
                 dedupe'[k] = dedupe[k] /\ dedupe[k] \in Requests \ {r}
      BY <1>1, <1>4 DEF appendSucceeds, IInv, OperationTypes, IndexesNameLiveOperations
    <2>7. IndexesNameLiveOperations'
      BY <2>5, <2>6 DEF IInv, IndexesNameLiveOperations, live
    <2> QED BY <2>3, <2>4, <2>7 DEF IInv
  <1>5. CASE appendSucceeds(r) /\ ~(op[r].gone /\ ~disposed)
    <2> DEFINE o == [op[r] EXCEPT !.phase = "accepted", !.gone = FALSE]
    <2>1. /\ o \in Request /\ o.phase = "accepted" /\ o.outcome = "none"
          /\ o.session = op[r].session /\ o.key = op[r].key
          /\ op[r].session \in Sessions /\ op[r].key \in Keys \cup {NoKey}
      BY <1>1 DEF Request, Phases
    <2>2. op' = [op EXCEPT ![r] = o] /\ Indexed(r, op[r].session, op[r].key)
      BY <1>5 DEF appendSucceeds
    <2> HIDE DEF o
    <2> QED BY <1>1, <2>1, <2>2, RegisterOne
  <1> QED BY <1>2, <1>3, <1>4, <1>5

-----------------------------------------------------------------------------
(* Cancellation, the facts of the loop, and disposal.                      *)

LEMMA CancelStep ==
  ASSUME IInv, NEW r \in Requests, cancel(r)
  PROVE  IInv'
  <1> DEFINE stopped == StoppedWith(r)
             done == {q \in stopped : stop(op[q]).phase = "terminal"}
  <1>1. op' = [q \in Requests |-> IF q \in stopped THEN stop(op[q]) ELSE op[q]] /\ forget(done)
    BY DEF cancel, requestCancel
  <1>2. \A q \in stopped : q \in Requests /\ live(q)
    BY StopReaches DEF cancel
  <1> HIDE DEF stopped
  <1>3. \A q \in stopped : op[q] \in Request /\ op[q].phase \in {"accepted", "running"}
                           /\ op[q].outcome = "none"
    BY <1>2 DEF IInv, OperationTypes, OutcomeMeansTerminal, live
  <1>4. \A q \in stopped :
           /\ op'[q] \in Request /\ op'[q].session = op[q].session /\ op'[q].key = op[q].key
           /\ \/ op'[q].phase = "terminal" /\ op'[q].outcome = "aborted" /\ q \in done
              \/ op'[q].phase = op[q].phase /\ op'[q].outcome = "none"
    BY <1>1, <1>2, <1>3, StoppedRequest
  <1>5. \A q \in Requests \ stopped : op'[q] = op[q] /\ op[q] \in Request
    BY <1>1 DEF IInv, OperationTypes
  <1>6. op' \in [Requests -> Request] /\ done \in SUBSET Requests
    BY <1>1, <1>2, <1>4, <1>5
  <1>7. ASSUME NEW q \in Requests
        PROVE  /\ op'[q].outcome # "none" => op'[q].phase = "terminal"
               /\ op'[q].cancelled /\ op'[q].outcome # "none" => op'[q].outcome = "aborted"
               /\ live(q) /\ q \notin done =>
                     /\ op'[q].phase \in {"accepted", "running"}
                     /\ op'[q].session = op[q].session /\ op'[q].key = op[q].key
    <2>1. CASE q \in stopped
      BY <1>3, <1>4, <2>1
    <2>2. CASE q \notin stopped
      BY <1>5, <2>2 DEF IInv, OutcomeMeansTerminal, CancelPrecedesOutcome, live
    <2> QED BY <2>1, <2>2
  <1> HIDE DEF done
  <1> QED BY <1>1, <1>6, <1>7, EndMany

(* One live operation ends, aborted if a stop was asked for.               *)
LEMMA SettleOne ==
  ASSUME IInv, NEW r \in Requests, live(r), NEW x \in Outcomes,
         op[r].cancelled => x = "aborted",
         op' = [op EXCEPT ![r] = Settled(op[r], x)], forget({r})
  PROVE  IInv'
  <1>1. op[r] \in Request
    BY DEF IInv, OperationTypes
  <1>2. /\ op'[r] \in Request /\ op'[r].phase = "terminal" /\ op'[r].outcome = x
        /\ op'[r].cancelled = op[r].cancelled
        /\ op' \in [Requests -> Request]
        /\ \A q \in Requests \ {r} : op'[q] = op[q]
    BY <1>1, SettledRequest DEF IInv, OperationTypes
  <1>3. ASSUME NEW q \in Requests
        PROVE  /\ op'[q].outcome # "none" => op'[q].phase = "terminal"
               /\ op'[q].cancelled /\ op'[q].outcome # "none" => op'[q].outcome = "aborted"
               /\ live(q) /\ q \notin {r} =>
                     /\ op'[q].phase \in {"accepted", "running"}
                     /\ op'[q].session = op[q].session /\ op'[q].key = op[q].key
    BY <1>2 DEF IInv, OutcomeMeansTerminal, CancelPrecedesOutcome, live
  <1> QED BY <1>2, <1>3, EndMany

LEMMA TimeoutStep ==
  ASSUME IInv, NEW r \in Requests, confirmTimeout(r)
  PROVE  IInv'
  BY SettleOne DEF confirmTimeout, Outcomes

LEMMA TurnSteps ==
  ASSUME IInv, NEW s \in Sessions, turnBegins(s) \/ turnEnds(s) \/ turnBreaks(s)
  PROVE  IInv'
  <1>1. CASE turnBegins(s)
    <2> DEFINE r == beginAttempt(slots[s]).op
    <2>1. CASE op' = op
      <3>1. UNCHANGED <<op, sessionLive, dedupe>>
        BY <1>1, <2>1 DEF turnBegins
      <3> QED BY <3>1 DEF IInv, OperationTypes, OutcomeMeansTerminal, CancelPrecedesOutcome,
                          IndexesNameLiveOperations, live
    <2>2. CASE op' # op
      <3>1. live(r) /\ op' = [op EXCEPT ![r].phase = "running"]
        BY <1>1, <2>2 DEF turnBegins
      <3> HIDE DEF r
      <3>2. r \in Requests
        BY <2>2, <3>1 DEF IInv, OperationTypes
      <3> DEFINE o == [op[r] EXCEPT !.phase = "running"]
      <3>3. /\ o \in Request /\ o.phase = "running" /\ o.outcome = "none"
            /\ o.session = op[r].session /\ o.key = op[r].key
        BY <3>1, <3>2 DEF IInv, OperationTypes, OutcomeMeansTerminal, live, Request, Phases
      <3>4. op' = [op EXCEPT ![r] = o] /\ UNCHANGED <<sessionLive, dedupe>>
        BY <1>1, <3>1 DEF turnBegins
      <3> HIDE DEF o
      <3> QED BY <3>2, <3>3, <3>4, ChangeOne
    <2> QED BY <2>1, <2>2
  <1>2. CASE turnEnds(s)
    <2>1. PICK x \in Outcomes : ingestEnd(slots[s].op, x)
      BY <1>2 DEF turnEnds
    <2> DEFINE r == slots[s].op
    <2>2. CASE UNCHANGED <<op, sessionLive, dedupe>>
      BY <2>2 DEF IInv, OperationTypes, OutcomeMeansTerminal, CancelPrecedesOutcome,
                  IndexesNameLiveOperations, live
    <2>3. CASE ~UNCHANGED <<op, sessionLive, dedupe>>
      <3> DEFINE y == adjudicateTerminal(op[r], x)
      <3>1. live(r) /\ op' = [op EXCEPT ![r] = Settled(op[r], y)] /\ forget({r})
        BY <2>1, <2>3 DEF ingestEnd
      <3>2. y \in Outcomes /\ (op[r].cancelled => y = "aborted")
        BY DEF adjudicateTerminal, Outcomes
      <3> HIDE DEF r, y
      <3>3. CASE r \in Requests
        BY <3>1, <3>2, <3>3, SettleOne
      <3>4. CASE r \notin Requests
        <4>1. op' = op /\ sessionLive' = sessionLive /\ dedupe' = dedupe
          BY <3>1, <3>4 DEF IInv, OperationTypes, forget, Nobody
        <4> QED BY <2>3, <4>1
      <3> QED BY <3>3, <3>4
    <2> QED BY <2>2, <2>3
  <1>3. CASE turnBreaks(s)
    <2>1. UNCHANGED <<op, sessionLive, dedupe>>
      BY <1>3 DEF turnBreaks
    <2> QED BY <2>1 DEF IInv, OperationTypes, OutcomeMeansTerminal, CancelPrecedesOutcome,
                        IndexesNameLiveOperations, live
  <1> QED BY <1>1, <1>2, <1>3

LEMMA DisposeStep == IInv /\ dispose => IInv'
  <1> SUFFICES ASSUME IInv, dispose PROVE IInv'
    OBVIOUS
  <1> DEFINE o == [Unused EXCEPT !.phase = "dropped"]
  <1>1. o \in Request /\ o.outcome = "none"
    BY UnusedIsRequest DEF Unused, Request, Phases
  <1>2. op' = [r \in Requests |-> IF live(r) THEN o ELSE op[r]]
    BY DEF dispose
  <1> HIDE DEF o
  <1>3. OperationTypes'
    BY <1>1, <1>2 DEF dispose, IInv, OperationTypes
  <1>4. OutcomeMeansTerminal' /\ CancelPrecedesOutcome'
    BY <1>1, <1>2 DEF IInv, OutcomeMeansTerminal, CancelPrecedesOutcome
  <1>5. IndexesNameLiveOperations'
    BY DEF dispose, IndexesNameLiveOperations
  <1> QED BY <1>3, <1>4, <1>5 DEF IInv

(* No step of the authority or of the loop disturbs the invariant.         *)
LEMMA NextInv == IInv /\ [Next]_vars => IInv'
  <1> SUFFICES ASSUME IInv, [Next]_vars PROVE IInv'
    OBVIOUS
  <1>1. ASSUME NEW r \in Requests, NEW s \in Sessions, NEW k \in Keys \cup {NoKey},
               request(r, s, k) \/ requestBare(r, s, k) \/ requestRepeated(r, s, k)
        PROVE  IInv'
    BY <1>1, RequestSteps
  <1>2. ASSUME NEW r \in Requests,
               appendSucceeds(r) \/ appendFails(r) \/ callerAborts(r)
                 \/ cancel(r) \/ confirmTimeout(r)
        PROVE  IInv'
    BY <1>2, AppendSteps, CancelStep, TimeoutStep
  <1>3. ASSUME NEW s \in Sessions, turnBegins(s) \/ turnEnds(s) \/ turnBreaks(s)
        PROVE  IInv'
    BY <1>3, TurnSteps
  <1>4. CASE dispose
    BY <1>4, DisposeStep
  <1>5. CASE loopStops \/ loopReturns \/ UNCHANGED vars
    <2>1. UNCHANGED <<op, sessionLive, dedupe>>
      BY <1>5 DEF loopStops, loopReturns, vars
    <2> QED BY <2>1 DEF IInv, OperationTypes, OutcomeMeansTerminal, CancelPrecedesOutcome,
                        IndexesNameLiveOperations, live
  <1> QED BY <1>1, <1>2, <1>3, <1>4, <1>5 DEF Next

THEOREM Invariance == Spec => []IInv
  BY InitInv, NextInv, PTL DEF Spec

(* A session or a key is never taken by an operation that is over: the     *)
(* answers "already running" and "duplicate" always name live work.        *)
THEOREM IndexesCurrent == Spec => []IndexesNameLiveOperations
  BY Invariance, PTL DEF IInv

(* A stop request wins over whatever the attempt reports later.            *)
THEOREM CancelWins == Spec => []CancelPrecedesOutcome
  BY Invariance, PTL DEF IInv

-----------------------------------------------------------------------------
(* What a step does to the record of one operation.                        *)

(* A step that is not a cancel leaves terminals alone, and asks no live    *)
(* operation to stop.                                                      *)
LEMMA OtherStepsFrame ==
  ASSUME IInv, NEW q \in Requests, [Next]_vars, ~ \E r \in Requests : cancel(r)
  PROVE  /\ op[q].phase = "terminal" => op'[q] = op[q]
         /\ live(q) => (op'[q].cancelled => op[q].cancelled)
  <1> USE DEF IInv, OperationTypes
  <1>1. ASSUME NEW r \in Requests, NEW s \in Sessions, NEW k \in Keys \cup {NoKey},
               request(r, s, k) \/ requestBare(r, s, k) \/ requestRepeated(r, s, k)
        PROVE  /\ op[q].phase = "terminal" => op'[q] = op[q]
               /\ live(q) => (op'[q].cancelled => op[q].cancelled)
    <2>1. op[r].phase = "unused" /\ \E o : op' = [op EXCEPT ![r] = o]
      BY <1>1 DEF request, requestBare, requestRepeated, Admitted, NextId, Mint
    <2> QED BY <2>1 DEF live
  <1>2. ASSUME NEW r \in Requests, appendSucceeds(r) \/ appendFails(r)
        PROVE  /\ op[q].phase = "terminal" => op'[q] = op[q]
               /\ live(q) => (op'[q].cancelled => op[q].cancelled)
    <2>1. op[r].phase = "appending" /\ \A z \in Requests \ {r} : op'[z] = op[z]
      BY <1>2 DEF appendSucceeds, appendFails
    <2> QED BY <2>1 DEF live
  <1>3. ASSUME NEW r \in Requests, callerAborts(r)
        PROVE  /\ op[q].phase = "terminal" => op'[q] = op[q]
               /\ live(q) => (op'[q].cancelled => op[q].cancelled)
    BY <1>3 DEF callerAborts, live
  <1>4. ASSUME NEW r \in Requests, confirmTimeout(r)
        PROVE  /\ op[q].phase = "terminal" => op'[q] = op[q]
               /\ live(q) => (op'[q].cancelled => op[q].cancelled)
    BY <1>4 DEF confirmTimeout, live, Settled, Request
  <1>5. ASSUME NEW s \in Sessions, turnBegins(s)
        PROVE  /\ op[q].phase = "terminal" => op'[q] = op[q]
               /\ live(q) => (op'[q].cancelled => op[q].cancelled)
    <2>1. \/ op' = op
          \/ \E r : live(r) /\ op' = [op EXCEPT ![r].phase = "running"]
      BY <1>5 DEF turnBegins
    <2> QED BY <2>1 DEF live, Request
  <1>6. ASSUME NEW s \in Sessions, turnEnds(s)
        PROVE  /\ op[q].phase = "terminal" => op'[q] = op[q]
               /\ live(q) => (op'[q].cancelled => op[q].cancelled)
    <2>1. \/ op' = op
          \/ \E r, x : live(r) /\ op' = [op EXCEPT ![r] = Settled(op[r], x)]
      BY <1>6 DEF turnEnds, ingestEnd
    <2>2. ASSUME NEW r, NEW x, live(r), op' = [op EXCEPT ![r] = Settled(op[r], x)]
          PROVE  /\ op[q].phase = "terminal" => op'[q] = op[q]
                 /\ live(q) => (op'[q].cancelled => op[q].cancelled)
      <3>1. CASE q = r
        <4>1. PICK o : o = Settled(op[q], x)
          OBVIOUS
        <4>2. o.cancelled = op[q].cancelled
          BY <4>1 DEF Settled, Request
        <4> QED BY <2>2, <3>1, <4>1, <4>2 DEF live
      <3>2. CASE q # r
        BY <2>2, <3>2
      <3> QED BY <3>1, <3>2
    <2> QED BY <2>1, <2>2
  <1>7. CASE dispose
    BY <1>7 DEF dispose, live, Unused
  <1>8. CASE UNCHANGED op
    BY <1>8
  <1>9. ASSUME NEW s \in Sessions, turnBreaks(s) PROVE UNCHANGED op
    BY <1>9 DEF turnBreaks
  <1>10. CASE loopStops \/ loopReturns \/ UNCHANGED vars
    BY <1>10 DEF loopStops, loopReturns, vars
  <1> QED BY <1>1, <1>2, <1>3, <1>4, <1>5, <1>6, <1>7, <1>8, <1>9, <1>10 DEF Next

(* A cancel leaves terminals alone.                                        *)
LEMMA CancelFrame ==
  ASSUME IInv, NEW r \in Requests, cancel(r)
  PROVE  \A q \in Requests : op[q].phase = "terminal" => op'[q] = op[q]
  <1> DEFINE stopped == StoppedWith(r)
  <1>1. op' = [q \in Requests |-> IF q \in stopped THEN stop(op[q]) ELSE op[q]]
    BY DEF cancel, requestCancel
  <1>2. \A q \in stopped : live(q)
    BY StopReaches DEF cancel
  <1> HIDE DEF stopped
  <1> QED BY <1>1, <1>2 DEF live

(* No fact, cancel, timer or disposal that comes late changes anything of  *)
(* an operation that has its terminal.                                     *)
THEOREM TerminalKept ==
  Spec => [][\A r \in Requests : op[r].phase = "terminal" => op'[r] = op[r]]_vars
  <1>1. IInv /\ [Next]_vars =>
          [\A r \in Requests : op[r].phase = "terminal" => op'[r] = op[r]]_vars
    BY CancelFrame, OtherStepsFrame
  <1> QED BY <1>1, Invariance, PTL DEF Spec

-----------------------------------------------------------------------------
(* The queues of the slots: a withdrawal leaves a part of them.            *)

(* t holds entries of q, each at most as often as q does.                  *)
PartOf(t, q) ==
    /\ t \in Seq(Requests)
    /\ \E f \in [1 .. Len(t) -> 1 .. Len(q)] :
           /\ \A n \in 1 .. Len(t) : t[n] = q[f[n]]
           /\ \A m, n \in 1 .. Len(t) : f[m] = f[n] => m = n

LEMMA WholeIsPart == \A q \in Seq(Requests) : PartOf(q, q)
  <1> SUFFICES ASSUME NEW q \in Seq(Requests) PROVE PartOf(q, q)
    OBVIOUS
  <1>1. PICK f : f = [n \in 1 .. Len(q) |-> n]
    OBVIOUS
  <1>2. /\ f \in [1 .. Len(q) -> 1 .. Len(q)]
        /\ \A n \in 1 .. Len(q) : q[n] = q[f[n]]
        /\ \A m, n \in 1 .. Len(q) : f[m] = f[n] => m = n
    BY <1>1
  <1> QED
    BY <1>2 DEF PartOf

(* Every place up to the number of elements is some element's place.       *)
LEMMA PlacesTaken ==
  ASSUME NEW len \in Nat, NEW K \in SUBSET (1 .. len),
         NEW n \in 1 .. Cardinality(K)
  PROVE  \E i \in K : Cardinality({j \in K : j <= i}) = n
  <1> DEFINE place(i) == Cardinality({j \in K : j <= i})
  <1>1. IsFiniteSet(K) /\ Cardinality(K) \in Nat
    <2>1. IsFiniteSet(1 .. len)
      BY FS_Interval
    <2>2. IsFiniteSet(K)
      BY <2>1, FS_Subset
    <2> QED
      BY <2>2, FS_CardinalityType
  <1>2. ASSUME NEW i \in K
        PROVE  /\ IsFiniteSet({j \in K : j <= i}) /\ place(i) \in 1 .. Cardinality(K)
    <2>1. {j \in K : j <= i} \subseteq K /\ i \in {j \in K : j <= i}
      OBVIOUS
    <2>2. IsFiniteSet({j \in K : j <= i}) /\ place(i) <= Cardinality(K)
      BY <1>1, <2>1, FS_Subset
    <2>3. place(i) \in Nat /\ place(i) # 0
      BY <2>1, <2>2, FS_CardinalityType, FS_EmptySet
    <2> QED
      BY <1>1, <2>2, <2>3
  <1>3. ASSUME NEW i \in K, NEW j \in K, i < j PROVE place(i) # place(j)
    <2>1. {k \in K : k <= i} \subseteq {k \in K : k <= j}
      <3>1. i \in Nat /\ j \in Nat /\ \A k \in K : k \in Nat
        OBVIOUS
      <3>2. ASSUME NEW k \in K, k <= i PROVE k <= j
        BY <1>3, <3>1, <3>2
      <3> QED
        BY <3>2
    <2>2. j \in {k \in K : k <= j} /\ j \notin {k \in K : k <= i}
      BY <1>3
    <2> QED
      BY <1>2, <2>1, <2>2, FS_Subset
  <1>4. SUFFICES ASSUME \A i \in K : place(i) # n PROVE FALSE
    OBVIOUS
  <1> DEFINE T == (1 .. Cardinality(K)) \ {n}
             f == [i \in K |-> place(i)]
  <1>5. IsFiniteSet(T) /\ Cardinality(T) = Cardinality(K) - 1
    <2>1. IsFiniteSet(1 .. Cardinality(K)) /\ Cardinality(1 .. Cardinality(K)) = Cardinality(K)
      BY <1>1, FS_Interval
    <2> QED
      BY <2>1, FS_RemoveElement
  <1>6. f \in [K -> T]
    BY <1>2, <1>4
  <1>7. \A i, j \in K : f[i] = f[j] => i = j
    BY <1>3
  <1>8. f \in Injection(K, T)
    <2> HIDE DEF f, T
    <2> QED
      BY <1>6, <1>7 DEF Injection, IsInjective
  <1>9. Cardinality(K) <= Cardinality(T)
    <2> HIDE DEF f, T
    <2> QED
      BY <1>1, <1>5, <1>8, FS_Injection
  <1> QED
    BY <1>1, <1>5, <1>9

LEMMA Withdrawn ==
  ASSUME NEW q \in Seq(Requests), NEW gone
  PROVE  /\ PartOf(Without(q, gone), q)
         /\ \A n \in 1 .. Len(Without(q, gone)) : Without(q, gone)[n] \notin gone
  <1> DEFINE K == {i \in 1 .. Len(q) : q[i] \notin gone}
             place(i) == Cardinality({j \in K : j <= i})
             at(n) == CHOOSE i \in K : place(i) = n
  <1>1. PICK t : t = Without(q, gone)
    OBVIOUS
  <1>2. t = [n \in 1 .. Cardinality(K) |-> q[at(n)]]
    BY <1>1 DEF Without
  <1>3. Cardinality(K) \in Nat
    <2>1. IsFiniteSet(1 .. Len(q)) /\ K \subseteq 1 .. Len(q)
      BY FS_Interval
    <2>2. IsFiniteSet(K)
      BY <2>1, FS_Subset
    <2> QED
      BY <2>2, FS_CardinalityType
  <1>4. ASSUME NEW n \in 1 .. Cardinality(K) PROVE at(n) \in K /\ place(at(n)) = n
    <2>1. \E i \in K : place(i) = n
      <3> HIDE DEF K
      <3>1. K \in SUBSET (1 .. Len(q)) /\ Len(q) \in Nat
        BY DEF K
      <3> QED
        BY <3>1, PlacesTaken
    <2> HIDE DEF place, K
    <2> QED
      BY <2>1
  <1>5. \A i \in K : i \in 1 .. Len(q) /\ q[i] \in Requests /\ q[i] \notin gone
    OBVIOUS
  <1> HIDE DEF K, place, at
  <1>6. t \in Seq(Requests) /\ Len(t) = Cardinality(K)
    BY <1>2, <1>3, <1>4, <1>5
  <1>7. PICK f : f = [n \in 1 .. Len(t) |-> at(n)]
    OBVIOUS
  <1>8. f \in [1 .. Len(t) -> 1 .. Len(q)]
    BY <1>4, <1>5, <1>6, <1>7
  <1>9. \A n \in 1 .. Len(t) : t[n] = q[f[n]] /\ t[n] \notin gone
    BY <1>2, <1>4, <1>5, <1>6, <1>7
  <1>10. \A m, n \in 1 .. Len(t) : f[m] = f[n] => m = n
    BY <1>4, <1>6, <1>7
  <1> QED
    BY <1>1, <1>6, <1>8, <1>9, <1>10 DEF PartOf

-----------------------------------------------------------------------------
(* What the slots hold.                                                    *)

SlotTypes ==
    /\ slots \in [Sessions -> Slot]
    /\ turning \subseteq Sessions
    /\ loopUp \in BOOLEAN /\ disposed \in BOOLEAN
    /\ restarts \in Nat

(* An id waits in one place of one slot, and not where it is in an attempt *)
(* or is to be inherited.                                                  *)
Apart ==
    \A y, z \in Sessions : \A i \in 1 .. Len(slots[y].pending) :
        /\ \A j \in 1 .. Len(slots[z].pending) :
              slots[y].pending[i] = slots[z].pending[j] => y = z /\ i = j
        /\ slots[y].pending[i] \notin {slots[z].op, slots[z].follow}

(* The slots know no id that was not minted.                               *)
Minted ==
    \A z \in Sessions, r \in Requests :
        \/ \E i \in 1 .. Len(slots[z].pending) : slots[z].pending[i] = r
        \/ r \in {slots[z].op, slots[z].follow}
        => op[r].phase # "unused"

Wanted(r, z) == op[r].session = z /\ op[r].phase \in {"appending", "accepted"}

WaitingWanted ==
    \A z \in Sessions : \A i \in 1 .. Len(slots[z].pending) :
        disposed \/ Wanted(slots[z].pending[i], z)

(* A stop waits for its confirmation only with an attempt to confirm it.   *)
TimersRun == \A r \in Requests : op[r].timer => op[r].phase = "running"

SlotInv == SlotTypes /\ Apart /\ Minted /\ WaitingWanted /\ TimersRun

(* What happens to the operations: no id is taken back, and timers are     *)
(* armed for attempts only.                                                *)
OperationsGoOn ==
    \A r \in Requests : /\ op[r].phase # "unused" => op'[r].phase # "unused"
                        /\ op'[r].timer => op'[r].phase = "running"

(* An operation waited on a session and waits nowhere after the step.      *)
TakenUp(r, z) ==
    /\ \E i \in 1 .. Len(slots[z].pending) : slots[z].pending[i] = r
    /\ \A y \in Sessions : \A n \in 1 .. Len(slots'[y].pending) : slots'[y].pending[n] # r

(* Slots that only lose entries, and hand on what they hold.               *)
LEMMA SlotsShrink ==
  ASSUME SlotInv, SlotTypes', OperationsGoOn, WaitingWanted',
         \A z \in Sessions :
            /\ PartOf(slots'[z].pending, slots[z].pending)
            /\ \/ slots'[z].op \in {Nobody, slots[z].op, slots[z].follow}
               \/ TakenUp(slots'[z].op, z)
            /\ slots'[z].follow \in {Nobody, slots[z].op, slots[z].follow}
  PROVE  SlotInv'
  <1>1. ASSUME NEW z \in Sessions
        PROVE  \E f \in [1 .. Len(slots'[z].pending) -> 1 .. Len(slots[z].pending)] :
                  /\ \A n \in 1 .. Len(slots'[z].pending) :
                        slots'[z].pending[n] = slots[z].pending[f[n]]
                  /\ \A m, n \in 1 .. Len(slots'[z].pending) : f[m] = f[n] => m = n
    BY DEF PartOf
  <1>2. \A z \in Sessions : \A n \in 1 .. Len(slots'[z].pending) :
           /\ slots'[z].pending[n] \in Requests /\ slots'[z].pending[n] # Nobody
           /\ \E i \in 1 .. Len(slots[z].pending) : slots'[z].pending[n] = slots[z].pending[i]
    <2> SUFFICES ASSUME NEW z \in Sessions, NEW n \in 1 .. Len(slots'[z].pending)
                 PROVE  /\ slots'[z].pending[n] \in Requests /\ slots'[z].pending[n] # Nobody
                        /\ \E i \in 1 .. Len(slots[z].pending) :
                              slots'[z].pending[n] = slots[z].pending[i]
      OBVIOUS
    <2>1. slots'[z].pending \in Seq(Requests)
      BY DEF PartOf
    <2>2. slots'[z].pending[n] \in Requests
      BY <2>1
    <2> QED
      BY <1>1, <2>2, UnusedIsRequest
  <1>3. Apart'
    <2>1. ASSUME NEW y \in Sessions, NEW z \in Sessions,
                 NEW i \in 1 .. Len(slots'[y].pending), NEW j \in 1 .. Len(slots'[z].pending),
                 slots'[y].pending[i] = slots'[z].pending[j]
          PROVE  y = z /\ i = j
      <3>1. PICK f \in [1 .. Len(slots'[y].pending) -> 1 .. Len(slots[y].pending)] :
                 /\ \A n \in 1 .. Len(slots'[y].pending) :
                       slots'[y].pending[n] = slots[y].pending[f[n]]
                 /\ \A m, n \in 1 .. Len(slots'[y].pending) : f[m] = f[n] => m = n
        BY <1>1
      <3>2. PICK g \in [1 .. Len(slots'[z].pending) -> 1 .. Len(slots[z].pending)] :
                 \A n \in 1 .. Len(slots'[z].pending) :
                    slots'[z].pending[n] = slots[z].pending[g[n]]
        BY <1>1
      <3>3. y = z
        <4>1. PICK k \in 1 .. Len(slots[y].pending) : k = f[i]
          BY <3>1
        <4>2. PICK l \in 1 .. Len(slots[z].pending) : l = g[j]
          BY <3>2
        <4>3. slots[y].pending[k] = slots[z].pending[l]
          BY <2>1, <3>1, <3>2, <4>1, <4>2
        <4> QED
          BY <4>3 DEF SlotInv, Apart
      <3>4. f[i] = f[j]
        <4>1. PICK k \in 1 .. Len(slots[y].pending) : k = f[i]
          BY <3>1
        <4>2. PICK l \in 1 .. Len(slots[y].pending) : l = f[j]
          BY <3>1, <3>3
        <4>3. slots[y].pending[k] = slots[y].pending[l]
          BY <2>1, <3>1, <3>3, <4>1, <4>2
        <4>4. k = l
          BY <4>3 DEF SlotInv, Apart
        <4> QED
          BY <4>1, <4>2, <4>4
      <3> QED
        BY <3>1, <3>3, <3>4
    <2>2. ASSUME NEW y \in Sessions, NEW z \in Sessions, NEW i \in 1 .. Len(slots'[y].pending)
          PROVE  slots'[y].pending[i] \notin {slots'[z].op, slots'[z].follow}
      <3>1. slots'[y].pending[i] # Nobody
        BY <1>2
      <3>2. PICK k \in 1 .. Len(slots[y].pending) : slots'[y].pending[i] = slots[y].pending[k]
        BY <1>2
      <3>3. slots[y].pending[k] \notin {slots[z].op, slots[z].follow}
        BY DEF SlotInv, Apart
      <3>4. slots'[z].follow # slots'[y].pending[i]
        BY <3>1, <3>2, <3>3
      <3>5. slots'[z].op # slots'[y].pending[i]
        BY <3>1, <3>2, <3>3 DEF TakenUp
      <3> QED
        BY <3>4, <3>5
    <2> QED
      BY <2>1, <2>2 DEF Apart
  <1>4. Minted'
    <2> SUFFICES ASSUME NEW z \in Sessions, NEW r \in Requests,
                        \/ \E i \in 1 .. Len(slots'[z].pending) : slots'[z].pending[i] = r
                        \/ r \in {slots'[z].op, slots'[z].follow}
                 PROVE  op'[r].phase # "unused"
      BY DEF Minted
    <2>1. \/ \E i \in 1 .. Len(slots[z].pending) : slots[z].pending[i] = r
          \/ r \in {slots[z].op, slots[z].follow}
      BY <1>2, UnusedIsRequest DEF TakenUp
    <2> QED
      BY <2>1 DEF SlotInv, Minted, OperationsGoOn
  <1>5. TimersRun'
    BY DEF OperationsGoOn, TimersRun
  <1> QED
    BY <1>3, <1>4, <1>5 DEF SlotInv

LEMMA WaitingMinted ==
  ASSUME SlotInv, NEW z \in Sessions, NEW i \in 1 .. Len(slots[z].pending)
  PROVE  /\ slots[z].pending[i] \in Requests
         /\ op[slots[z].pending[i]].phase # "unused"
  <1>1. slots[z].pending \in Seq(Requests)
    BY DEF SlotInv, SlotTypes, Slot
  <1>2. slots[z].pending[i] \in Requests
    BY <1>1
  <1> QED
    BY <1>2 DEF SlotInv, Minted

(* The operations that still wait are wanted as before.                    *)
WantedStill(r, z) ==
    ~disposed' /\ Wanted(r, z) =>
        op'[r].session = z /\ op'[r].phase \in {"appending", "accepted"}

LEMMA WantedKept ==
  ASSUME SlotInv, disposed => disposed',
         \A z \in Sessions : PartOf(slots'[z].pending, slots[z].pending),
         \A z \in Sessions : \A n \in 1 .. Len(slots'[z].pending) :
            WantedStill(slots'[z].pending[n], z)
  PROVE  WaitingWanted'
  <1> SUFFICES ASSUME NEW z \in Sessions, NEW n \in 1 .. Len(slots'[z].pending), ~disposed'
               PROVE  Wanted(slots[z].pending[n], z)'
    BY DEF WaitingWanted
  <1>1. PICK i \in 1 .. Len(slots[z].pending) : slots'[z].pending[n] = slots[z].pending[i]
    <2>1. PICK f \in [1 .. Len(slots'[z].pending) -> 1 .. Len(slots[z].pending)] :
             \A m \in 1 .. Len(slots'[z].pending) : slots'[z].pending[m] = slots[z].pending[f[m]]
      BY DEF PartOf
    <2>2. f[n] \in 1 .. Len(slots[z].pending)
      BY <2>1
    <2> QED
      BY <2>1, <2>2
  <1>2. Wanted(slots[z].pending[i], z)
    BY DEF SlotInv, WaitingWanted
  <1> QED
    BY <1>1, <1>2 DEF WantedStill, Wanted

(* The slots stay as they are.                                             *)
LEMMA SlotsStand ==
  ASSUME SlotInv, UNCHANGED slots, SlotTypes', OperationsGoOn, disposed => disposed',
         \A z \in Sessions : \A n \in 1 .. Len(slots[z].pending) :
            WantedStill(slots[z].pending[n], z)
  PROVE  SlotInv'
  <1>1. \A z \in Sessions : PartOf(slots'[z].pending, slots[z].pending)
    BY WholeIsPart DEF SlotInv, SlotTypes, Slot
  <1>2. WaitingWanted'
    BY <1>1, WantedKept
  <1> QED
    BY <1>1, <1>2, SlotsShrink

(* Slots from which some operations are withdrawn.                         *)
LEMMA SlotsWithdraw ==
  ASSUME SlotInv, NEW gone, DOMAIN slots' = Sessions, slots' = [s \in Sessions |-> slots'[s]],
         UNCHANGED <<turning, loopUp, restarts, disposed>>, OperationsGoOn,
         \A z \in Sessions :
            \/ /\ slots'[z] = slots[z]
               /\ \A r \in Requests : WantedStill(r, z)
            \/ /\ slots'[z] = cancelAttempt(slots[z], gone)
               /\ \A r \in Requests \ gone : WantedStill(r, z)
  PROVE  SlotInv'
  <1>1. ASSUME NEW z \in Sessions
        PROVE  /\ slots'[z] \in Slot
               /\ slots'[z].op = slots[z].op /\ slots'[z].follow = slots[z].follow
               /\ PartOf(slots'[z].pending, slots[z].pending)
               /\ \A n \in 1 .. Len(slots'[z].pending) : WantedStill(slots'[z].pending[n], z)
    <2>1. slots[z] \in Slot /\ slots[z].pending \in Seq(Requests)
      BY DEF SlotInv, SlotTypes, Slot
    <2>2. CASE slots'[z] = slots[z] /\ \A r \in Requests : WantedStill(r, z)
      <3>1. \A n \in 1 .. Len(slots[z].pending) : slots[z].pending[n] \in Requests
        BY <2>1
      <3> QED
        BY <2>1, <2>2, <3>1, WholeIsPart
    <2>3. CASE /\ slots'[z] = cancelAttempt(slots[z], gone)
               /\ \A r \in Requests \ gone : WantedStill(r, z)
      <3>1. PICK t : t = Without(slots[z].pending, gone)
        OBVIOUS
      <3>2. PartOf(t, slots[z].pending) /\ \A n \in 1 .. Len(t) : t[n] \notin gone
        BY <2>1, <3>1, Withdrawn
      <3>3. t \in Seq(Requests)
        BY <3>2 DEF PartOf
      <3>4. slots'[z] = [slots[z] EXCEPT !.pending = t]
        BY <2>3, <3>1 DEF cancelAttempt
      <3>5. /\ slots'[z] \in Slot /\ slots'[z].pending = t
            /\ slots'[z].op = slots[z].op /\ slots'[z].follow = slots[z].follow
        BY <2>1, <3>3, <3>4 DEF Slot
      <3>6. \A n \in 1 .. Len(t) : t[n] \in Requests \ gone
        BY <3>2, <3>3
      <3> QED
        BY <2>3, <3>2, <3>5, <3>6
    <2> QED
      BY <2>2, <2>3
  <1>2. SlotTypes'
    BY <1>1 DEF SlotInv, SlotTypes
  <1>3. WaitingWanted'
    BY <1>1, WantedKept
  <1> QED
    BY <1>1, <1>2, <1>3, SlotsShrink

-----------------------------------------------------------------------------
(* The steps, seen from the slots.                                         *)

LEMMA AdmitStep ==
  ASSUME IInv, SlotInv, NEW r \in Requests, NEW s \in Sessions, NEW k \in Keys \cup {NoKey},
         request(r, s, k) \/ requestBare(r, s, k)
  PROVE  SlotInv'
  <1>1. /\ op[r].phase = "unused" /\ ~disposed
        /\ slots' = [slots EXCEPT ![s] = admit(slots[s], r)]
        /\ UNCHANGED <<turning, loopUp, restarts, disposed>>
    BY DEF request, requestBare, Admitted, NextId, Passes, loop
  <1>2. PICK o : /\ op' = [op EXCEPT ![r] = o] /\ o.phase \in {"appending", "accepted"}
                 /\ o.session = s /\ o.timer = FALSE
    <2> DEFINE minted(phase, p) == [Unused EXCEPT !.phase = phase, !.session = s,
                                                  !.key = k, !.parent = p]
    <2>1. \A phase \in {"appending", "accepted"} : \A p \in Parents :
             /\ minted(phase, p).phase \in {"appending", "accepted"}
             /\ minted(phase, p).session = s /\ minted(phase, p).timer = FALSE
      BY DEF Unused
    <2>2. CASE request(r, s, k)
      <3>1. PICK p \in Parents : op' = [op EXCEPT ![r] = minted("appending", p)]
        BY <2>2 DEF request, Mint
      <3> HIDE DEF minted
      <3> QED
        BY <2>1, <3>1
    <2>3. CASE requestBare(r, s, k)
      <3>1. PICK p \in Parents : op' = [op EXCEPT ![r] = minted("accepted", p)]
        BY <2>3 DEF requestBare, Mint
      <3> HIDE DEF minted
      <3> QED
        BY <2>1, <3>1
    <2> QED
      BY <2>2, <2>3
  <1>3. /\ op'[r] = o /\ \A q \in Requests \ {r} : op'[q] = op[q]
    BY <1>2 DEF IInv, OperationTypes
  <1>4. PICK q \in Seq(Requests) : q = slots[s].pending
    BY DEF SlotInv, SlotTypes, Slot
  <1>5. PICK t : t = Append(q, r)
    OBVIOUS
  <1>6. /\ t \in Seq(Requests) /\ Len(q) \in Nat /\ Len(t) = Len(q) + 1
        /\ t[Len(q) + 1] = r /\ \A i \in 1 .. Len(q) : t[i] = q[i]
        /\ 1 .. Len(t) = (1 .. Len(q)) \cup {Len(q) + 1}
    BY <1>4, <1>5
  <1>7. /\ slots'[s] \in Slot /\ slots'[s].pending = t
        /\ slots'[s].op = slots[s].op /\ slots'[s].follow = slots[s].follow
        /\ \A z \in Sessions \ {s} : slots'[z] = slots[z]
    <2>1. slots[s] \in Slot /\ slots'[s] = [slots[s] EXCEPT !.pending = t]
      BY <1>1, <1>4, <1>5 DEF SlotInv, SlotTypes, admit
    <2> QED
      BY <1>1, <1>6, <2>1 DEF SlotInv, SlotTypes, Slot
  <1>8. SlotTypes'
    BY <1>1, <1>7 DEF SlotInv, SlotTypes
  <1>9. /\ \A z \in Sessions : r \notin {slots[z].op, slots[z].follow}
        /\ \A z \in Sessions : \A i \in 1 .. Len(slots[z].pending) : slots[z].pending[i] # r
    BY <1>1 DEF SlotInv, Minted
  <1>10. ASSUME NEW z \in Sessions, NEW n \in 1 .. Len(slots'[z].pending)
         PROVE  \/ z = s /\ n = Len(q) + 1 /\ slots'[z].pending[n] = r
                \/ /\ n \in 1 .. Len(slots[z].pending)
                   /\ slots'[z].pending[n] = slots[z].pending[n]
    BY <1>4, <1>6, <1>7
  <1>11. \A z \in Sessions : slots'[z].op = slots[z].op /\ slots'[z].follow = slots[z].follow
    BY <1>7
  <1>12. Apart'
    <2>1. ASSUME NEW y \in Sessions, NEW z \in Sessions,
                 NEW i \in 1 .. Len(slots'[y].pending), NEW j \in 1 .. Len(slots'[z].pending),
                 slots'[y].pending[i] = slots'[z].pending[j]
          PROVE  y = z /\ i = j
      <3>1. CASE slots'[y].pending[i] = r
        <4>1. y = s /\ i = Len(q) + 1
          <5>1. ~(/\ i \in 1 .. Len(slots[y].pending)
                  /\ slots'[y].pending[i] = slots[y].pending[i])
            BY <1>9, <3>1
          <5> QED
            BY <1>10, <5>1
        <4>2. z = s /\ j = Len(q) + 1
          <5>1. ~(/\ j \in 1 .. Len(slots[z].pending)
                  /\ slots'[z].pending[j] = slots[z].pending[j])
            BY <1>9, <2>1, <3>1
          <5> QED
            BY <1>10, <5>1
        <4> QED
          BY <4>1, <4>2
      <3>2. CASE slots'[y].pending[i] # r
        BY <1>10, <2>1, <3>2 DEF SlotInv, Apart
      <3> QED
        BY <3>1, <3>2
    <2>2. ASSUME NEW y \in Sessions, NEW z \in Sessions, NEW i \in 1 .. Len(slots'[y].pending)
          PROVE  slots'[y].pending[i] \notin {slots'[z].op, slots'[z].follow}
      BY <1>9, <1>10, <1>11 DEF SlotInv, Apart
    <2> QED
      BY <2>1, <2>2 DEF Apart
  <1>13. Minted'
    <2> SUFFICES ASSUME NEW z \in Sessions, NEW p \in Requests, p # r,
                        \/ \E i \in 1 .. Len(slots'[z].pending) : slots'[z].pending[i] = p
                        \/ p \in {slots'[z].op, slots'[z].follow}
                 PROVE  op[p].phase # "unused"
      BY <1>2, <1>3 DEF Minted
    <2>1. CASE p \in {slots'[z].op, slots'[z].follow}
      BY <1>11, <2>1 DEF SlotInv, Minted
    <2>2. CASE \E i \in 1 .. Len(slots'[z].pending) : slots'[z].pending[i] = p
      <3>1. PICK i \in 1 .. Len(slots'[z].pending) : slots'[z].pending[i] = p
        BY <2>2
      <3>2. i \in 1 .. Len(slots[z].pending) /\ slots[z].pending[i] = p
        BY <1>10, <3>1
      <3> QED
        BY <3>2 DEF SlotInv, Minted
    <2> QED
      BY <2>1, <2>2
  <1>14. WaitingWanted'
    <2> SUFFICES ASSUME NEW z \in Sessions, NEW n \in 1 .. Len(slots'[z].pending)
                 PROVE  Wanted(slots[z].pending[n], z)'
      BY DEF WaitingWanted
    <2>1. CASE slots'[z].pending[n] = r
      <3>1. z = s
        BY <1>9, <1>10, <2>1
      <3>2. op'[r].session = s /\ op'[r].phase \in {"appending", "accepted"}
        BY <1>2, <1>3
      <3> QED
        BY <2>1, <3>1, <3>2 DEF Wanted
    <2>2. CASE slots'[z].pending[n] # r
      <3>1. n \in 1 .. Len(slots[z].pending) /\ slots'[z].pending[n] = slots[z].pending[n]
        BY <1>10, <2>2
      <3>2. slots[z].pending[n] \in Requests /\ Wanted(slots[z].pending[n], z)
        BY <1>1, <3>1, WaitingMinted DEF SlotInv, WaitingWanted
      <3> QED
        BY <1>3, <2>2, <3>1, <3>2 DEF Wanted
    <2> QED
      BY <2>1, <2>2
  <1>15. TimersRun'
    BY <1>2, <1>3 DEF SlotInv, TimersRun
  <1> QED
    BY <1>8, <1>12, <1>13, <1>14, <1>15 DEF SlotInv
(* One operation changes: what waits elsewhere is wanted as before.        *)
LEMMA OneChanges ==
  ASSUME IInv, SlotInv, NEW r \in Requests, NEW o, op' = [op EXCEPT ![r] = o],
         o.phase # "unused", o.timer => o.phase = "running"
  PROVE  /\ OperationsGoOn
         /\ op'[r] = o
         /\ \A q \in Requests \ {r} : \A z \in Sessions : WantedStill(q, z)
  <1>1. op'[r] = o /\ \A q \in Requests \ {r} : op'[q] = op[q]
    BY DEF IInv, OperationTypes
  <1> QED
    BY <1>1 DEF SlotInv, TimersRun, OperationsGoOn, WantedStill, Wanted

(* No operation changes.                                                   *)
LEMMA NoneChanges ==
  ASSUME SlotInv, UNCHANGED op
  PROVE  /\ OperationsGoOn
         /\ \A q \in Requests : \A z \in Sessions : WantedStill(q, z)
  BY DEF SlotInv, TimersRun, OperationsGoOn, WantedStill, Wanted

LEMMA RepeatedStep ==
  ASSUME IInv, SlotInv, NEW r \in Requests, NEW s \in Sessions, NEW k \in Keys \cup {NoKey},
         requestRepeated(r, s, k)
  PROVE  SlotInv'
  <1>1. /\ op[r].phase = "unused"
        /\ UNCHANGED <<slots, turning, loopUp, restarts, disposed>>
    BY DEF requestRepeated, NextId, loop
  <1>2. PICK o : op' = [op EXCEPT ![r] = o] /\ o.phase = "duplicate" /\ o.timer = FALSE
    <2>1. PICK o : o = [Unused EXCEPT !.phase = "duplicate"]
      OBVIOUS
    <2>2. o.phase = "duplicate" /\ o.timer = FALSE
      BY <2>1 DEF Unused
    <2> QED
      BY <2>1, <2>2 DEF requestRepeated
  <1>3. OperationsGoOn /\ \A q \in Requests \ {r} : \A z \in Sessions : WantedStill(q, z)
    BY <1>2, OneChanges
  <1>4. ASSUME NEW z \in Sessions, NEW n \in 1 .. Len(slots[z].pending)
        PROVE  WantedStill(slots[z].pending[n], z)
    BY <1>1, <1>3, WaitingMinted
  <1>5. SlotTypes'
    BY <1>1 DEF SlotInv, SlotTypes
  <1> QED
    BY <1>1, <1>3, <1>4, <1>5, SlotsStand

(* A request in flight whose admission is withdrawn.                       *)
LEMMA WithdrawOne ==
  ASSUME IInv, SlotInv, NEW r \in Requests, NEW o, op' = [op EXCEPT ![r] = o],
         op[r].phase = "appending", o.phase # "unused", o.timer = FALSE,
         slots' = [slots EXCEPT ![op[r].session] = cancelAttempt(slots[op[r].session], {r})],
         UNCHANGED <<turning, loopUp, restarts, disposed>>
  PROVE  SlotInv'
  <1>1. OperationsGoOn /\ \A q \in Requests \ {r} : \A z \in Sessions : WantedStill(q, z)
    BY OneChanges
  <1>2. op[r].session \in Sessions /\ slots \in [Sessions -> Slot]
    BY DEF IInv, OperationTypes, Request, SlotInv, SlotTypes
  <1>3. ASSUME NEW z \in Sessions
        PROVE  \/ /\ slots'[z] = slots[z]
                  /\ \A q \in Requests : WantedStill(q, z)
               \/ /\ slots'[z] = cancelAttempt(slots[z], {r})
                  /\ \A q \in Requests \ {r} : WantedStill(q, z)
    <2>1. CASE z = op[r].session
      BY <1>1, <1>2, <2>1
    <2>2. CASE z # op[r].session
      <3>1. WantedStill(r, z)
        BY <2>2 DEF WantedStill, Wanted
      <3> QED
        BY <1>1, <1>2, <2>2, <3>1
    <2> QED
      BY <2>1, <2>2
  <1>4. DOMAIN slots' = Sessions /\ slots' = [z \in Sessions |-> slots'[z]]
    BY <1>2
  <1> QED
    BY <1>1, <1>3, <1>4, SlotsWithdraw

LEMMA AppendSlotSteps ==
  ASSUME IInv, SlotInv, NEW r \in Requests,
         appendSucceeds(r) \/ appendFails(r) \/ callerAborts(r)
  PROVE  SlotInv'
  <1>1. /\ op[r].phase = "appending" /\ op[r] \in Request /\ op[r].timer = FALSE
        /\ UNCHANGED <<turning, loopUp, restarts, disposed>>
    <2>1. /\ op[r].phase = "appending" /\ op[r] \in Request
          /\ UNCHANGED <<turning, loopUp, restarts, disposed>>
      BY DEF appendSucceeds, appendFails, callerAborts, IInv, OperationTypes, loop
    <2>2. op[r].timer \in BOOLEAN
      BY <2>1 DEF Request
    <2> QED
      BY <2>1, <2>2 DEF SlotInv, TimersRun
  <1>2. CASE appendFails(r)
    <2>1. PICK o : o = [Unused EXCEPT !.phase = "failed"]
      OBVIOUS
    <2>2. o.phase = "failed" /\ o.timer = FALSE
      BY <2>1 DEF Unused
    <2>3. /\ op' = [op EXCEPT ![r] = o]
          /\ slots' = [slots EXCEPT ![op[r].session] = cancelAttempt(slots[op[r].session], {r})]
      BY <1>2, <2>1 DEF appendFails
    <2> QED
      BY <1>1, <2>2, <2>3, WithdrawOne
  <1>3. CASE appendSucceeds(r) /\ op[r].gone /\ ~disposed
    <2>1. PICK o : o = [Settled(op[r], "aborted") EXCEPT !.cancelled = TRUE, !.gone = FALSE]
      OBVIOUS
    <2>2. o.phase = "terminal" /\ o.timer = FALSE
      BY <1>1, <2>1 DEF Settled, Request
    <2>3. /\ op' = [op EXCEPT ![r] = o]
          /\ slots' = [slots EXCEPT ![op[r].session] = cancelAttempt(slots[op[r].session], {r})]
      BY <1>3, <2>1 DEF appendSucceeds
    <2> QED
      BY <1>1, <2>2, <2>3, WithdrawOne
  <1>4. CASE callerAborts(r) \/ (appendSucceeds(r) /\ ~(op[r].gone /\ ~disposed))
    <2>1. PICK o : /\ op' = [op EXCEPT ![r] = o] /\ o.timer = FALSE
                   /\ o.session = op[r].session /\ o.phase \in {"appending", "accepted"}
      <3>1. CASE callerAborts(r)
        <4>1. PICK o : o = [op[r] EXCEPT !.gone = TRUE]
          OBVIOUS
        <4>2. o.timer = FALSE /\ o.session = op[r].session /\ o.phase = "appending"
          BY <1>1, <4>1 DEF Request
        <4>3. op' = [op EXCEPT ![r] = o]
          BY <3>1, <4>1 DEF callerAborts
        <4> QED
          BY <4>2, <4>3
      <3>2. CASE appendSucceeds(r) /\ ~(op[r].gone /\ ~disposed)
        <4>1. PICK o : o = [op[r] EXCEPT !.phase = "accepted", !.gone = FALSE]
          OBVIOUS
        <4>2. o.timer = FALSE /\ o.session = op[r].session /\ o.phase = "accepted"
          BY <1>1, <4>1 DEF Request
        <4>3. op' = [op EXCEPT ![r] = o]
          BY <3>2, <4>1 DEF appendSucceeds
        <4> QED
          BY <4>2, <4>3
      <3> QED
        BY <1>4, <3>1, <3>2
    <2>2. UNCHANGED slots
      BY <1>4 DEF callerAborts, appendSucceeds
    <2>3. /\ OperationsGoOn /\ op'[r] = o
          /\ \A q \in Requests \ {r} : \A z \in Sessions : WantedStill(q, z)
      BY <2>1, OneChanges
    <2>4. \A z \in Sessions : WantedStill(r, z)
      BY <2>1, <2>3 DEF WantedStill, Wanted
    <2>5. ASSUME NEW z \in Sessions, NEW n \in 1 .. Len(slots[z].pending)
          PROVE  WantedStill(slots[z].pending[n], z)
      BY <2>3, <2>4, WaitingMinted
    <2>6. SlotTypes'
      BY <1>1, <2>2 DEF SlotInv, SlotTypes
    <2> QED
      BY <1>1, <2>2, <2>3, <2>5, <2>6, SlotsStand
  <1> QED
    BY <1>2, <1>3, <1>4

LEMMA CancelSlotStep ==
  ASSUME IInv, SlotInv, NEW r \in Requests, cancel(r)
  PROVE  SlotInv'
  <1>1. PICK stopped : stopped = StoppedWith(r)
    OBVIOUS
  <1>2. /\ op' = [q \in Requests |-> IF q \in stopped THEN stop(op[q]) ELSE op[q]]
        /\ slots' = [z \in Sessions |-> cancelAttempt(slots[z], stopped)]
        /\ UNCHANGED <<turning, loopUp, restarts, disposed>>
    BY <1>1 DEF cancel, requestCancel, loop
  <1>3. \A q \in stopped : q \in Requests /\ live(q)
    BY <1>1, StopReaches DEF cancel
  <1>4. ASSUME NEW q \in Requests
        PROVE  /\ op[q].phase # "unused" => op'[q].phase # "unused"
               /\ op'[q].timer => op'[q].phase = "running"
               /\ q \notin stopped => \A z \in Sessions : WantedStill(q, z)
    <2>1. CASE q \in stopped
      <3>1. op[q] \in Request /\ op[q].phase \in {"accepted", "running"}
        BY <1>3, <2>1 DEF IInv, OperationTypes, live
      <3>2. /\ stop(op[q]).phase # "unused"
            /\ stop(op[q]).timer => stop(op[q]).phase = "running"
        BY <3>1 DEF stop, Settled, Request
      <3> QED
        BY <1>2, <2>1, <3>2
    <2>2. CASE q \notin stopped
      <3>1. op'[q] = op[q]
        BY <1>2, <2>2
      <3> QED
        BY <3>1 DEF SlotInv, TimersRun, WantedStill, Wanted
    <2> QED
      BY <2>1, <2>2
  <1>5. OperationsGoOn
    BY <1>4 DEF OperationsGoOn
  <1>6. DOMAIN slots' = Sessions /\ slots' = [z \in Sessions |-> slots'[z]]
    BY <1>2
  <1>7. \A z \in Sessions : /\ slots'[z] = cancelAttempt(slots[z], stopped)
                            /\ \A q \in Requests \ stopped : WantedStill(q, z)
    BY <1>2, <1>4
  <1> QED
    BY <1>2, <1>5, <1>6, <1>7, SlotsWithdraw

LEMMA TimeoutSlotStep ==
  ASSUME IInv, SlotInv, NEW r \in Requests, confirmTimeout(r)
  PROVE  SlotInv'
  <1>1. /\ op[r].phase = "running" /\ op[r] \in Request
        /\ UNCHANGED <<slots, turning, loopUp, restarts, disposed>>
    BY DEF confirmTimeout, SlotInv, TimersRun, IInv, OperationTypes, loop
  <1>2. PICK o : op' = [op EXCEPT ![r] = o] /\ o.phase = "terminal" /\ o.timer = FALSE
    <2>1. PICK o : o = Settled(op[r], "aborted")
      OBVIOUS
    <2>2. o.phase = "terminal" /\ o.timer = FALSE
      BY <1>1, <2>1 DEF Settled, Request
    <2> QED
      BY <2>1, <2>2 DEF confirmTimeout
  <1>3. OperationsGoOn /\ \A q \in Requests \ {r} : \A z \in Sessions : WantedStill(q, z)
    BY <1>2, OneChanges
  <1>4. \A z \in Sessions : WantedStill(r, z)
    BY <1>1 DEF WantedStill, Wanted
  <1>5. ASSUME NEW z \in Sessions, NEW n \in 1 .. Len(slots[z].pending)
        PROVE  WantedStill(slots[z].pending[n], z)
    BY <1>3, <1>4, WaitingMinted
  <1>6. SlotTypes'
    BY <1>1 DEF SlotInv, SlotTypes
  <1> QED
    BY <1>1, <1>3, <1>5, <1>6, SlotsStand

(* A turn takes the oldest admission.                                      *)
LEMMA HeadIsTaken ==
  ASSUME SlotInv, NEW s \in Sessions, slots[s].pending # <<>>,
         slots'[s] = beginAttempt(slots[s]), \A z \in Sessions \ {s} : slots'[z] = slots[z]
  PROVE  /\ slots'[s] \in Slot /\ slots'[s].follow = slots[s].follow
         /\ PartOf(slots'[s].pending, slots[s].pending)
         /\ TakenUp(slots'[s].op, s)
  <1>1. PICK q \in Seq(Requests) : q = slots[s].pending
    BY DEF SlotInv, SlotTypes, Slot
  <1>2. PICK t : t = Tail(q)
    OBVIOUS
  <1>3. /\ Len(q) \in Nat \ {0} /\ q[1] \in Requests
        /\ t \in Seq(Requests) /\ Len(t) = Len(q) - 1
        /\ \A n \in 1 .. Len(t) : n + 1 \in 1 .. Len(q) /\ t[n] = q[n + 1]
    BY <1>1, <1>2
  <1>4. /\ slots'[s] = [slots[s] EXCEPT !.attached = TRUE, !.live = TRUE,
                                        !.op = q[1], !.pending = t]
        /\ slots[s] \in Slot
    BY <1>1, <1>2 DEF beginAttempt, SlotInv, SlotTypes
  <1>5. /\ slots'[s] \in Slot /\ slots'[s].follow = slots[s].follow
        /\ slots'[s].op = q[1] /\ slots'[s].pending = t
    BY <1>3, <1>4 DEF Slot
  <1>6. PartOf(t, q)
    <2>1. PICK f : f = [n \in 1 .. Len(t) |-> n + 1]
      OBVIOUS
    <2>2. f \in [1 .. Len(t) -> 1 .. Len(q)] /\ \A n \in 1 .. Len(t) : f[n] = n + 1
      BY <1>3, <2>1
    <2>3. /\ \A n \in 1 .. Len(t) : t[n] = q[f[n]]
          /\ \A m, n \in 1 .. Len(t) : f[m] = f[n] => m = n
      BY <1>3, <2>2
    <2> QED
      BY <1>3, <2>2, <2>3 DEF PartOf
  <1>7. 1 \in 1 .. Len(slots[s].pending) /\ slots[s].pending[1] = q[1]
    BY <1>1, <1>3
  <1>8. ASSUME NEW y \in Sessions, NEW n \in 1 .. Len(slots'[y].pending)
        PROVE  slots'[y].pending[n] # q[1]
    <2>1. CASE y = s
      <3>1. slots'[y].pending[n] = q[n + 1] /\ n + 1 \in 1 .. Len(q) /\ n + 1 # 1
        BY <1>3, <1>5, <2>1
      <3>2. PICK m : m = n + 1
        OBVIOUS
      <3>3. m \in 1 .. Len(slots[s].pending) /\ m # 1
            /\ slots'[y].pending[n] = slots[s].pending[m]
        BY <1>1, <3>1, <3>2
      <3>4. slots[s].pending[m] # slots[s].pending[1]
        BY <1>7, <3>3 DEF SlotInv, Apart
      <3> QED
        BY <1>7, <3>3, <3>4
    <2>2. CASE y # s
      <3>1. n \in 1 .. Len(slots[y].pending) /\ slots'[y].pending[n] = slots[y].pending[n]
        BY <2>2
      <3>2. slots[y].pending[n] # slots[s].pending[1]
        BY <1>7, <2>2, <3>1 DEF SlotInv, Apart
      <3> QED
        BY <1>7, <3>1, <3>2
    <2> QED
      BY <2>1, <2>2
  <1>9. TakenUp(slots'[s].op, s)
    BY <1>5, <1>7, <1>8 DEF TakenUp
  <1> QED
    BY <1>1, <1>5, <1>6, <1>9

(* A turn of a slot where nothing waits goes on with what the slot holds.  *)
LEMMA FollowIsTaken ==
  ASSUME SlotInv, NEW s \in Sessions, slots[s].pending = <<>>,
         slots'[s] = beginAttempt(slots[s])
  PROVE  /\ slots'[s] \in Slot /\ slots'[s].follow = slots[s].follow
         /\ slots'[s].pending = slots[s].pending /\ slots'[s].op = slots[s].follow
  <1>1. /\ slots'[s] = [slots[s] EXCEPT !.attached = TRUE, !.live = TRUE, !.op = slots[s].follow]
        /\ slots[s] \in Slot
    BY DEF beginAttempt, SlotInv, SlotTypes
  <1> QED
    BY <1>1 DEF Slot

LEMMA BeginSlotStep ==
  ASSUME IInv, SlotInv, NEW s \in Sessions, turnBegins(s)
  PROVE  SlotInv'
  <1>1. /\ slots'[s] = beginAttempt(slots[s])
        /\ \A z \in Sessions \ {s} : slots'[z] = slots[z]
        /\ DOMAIN slots' = Sessions /\ slots' = [z \in Sessions |-> slots'[z]]
        /\ turning' \subseteq Sessions /\ UNCHANGED <<loopUp, restarts, disposed>>
    BY DEF turnBegins, SlotInv, SlotTypes
  <1>2. /\ slots'[s] \in Slot /\ slots'[s].follow = slots[s].follow
        /\ PartOf(slots'[s].pending, slots[s].pending)
        /\ slots'[s].op = slots[s].follow \/ TakenUp(slots'[s].op, s)
    <2>1. CASE slots[s].pending # <<>>
      BY <1>1, <2>1, HeadIsTaken
    <2>2. CASE slots[s].pending = <<>>
      BY <1>1, <2>2, FollowIsTaken, WholeIsPart DEF SlotInv, SlotTypes, Slot
    <2> QED
      BY <2>1, <2>2
  <1>3. /\ OperationsGoOn
        /\ \A q \in Requests \ {slots'[s].op} : \A z \in Sessions : WantedStill(q, z)
    <2>1. PICK r : r = slots'[s].op
      OBVIOUS
    <2>2. op' = IF r # Nobody /\ ~disposed /\ live(r)
                THEN [op EXCEPT ![r].phase = "running"] ELSE op
      BY <1>1, <2>1 DEF turnBegins
    <2>3. CASE op' = op
      BY <2>3, NoneChanges
    <2>4. CASE op' # op
      <3>1. live(r) /\ r \in Requests
        BY <2>2, <2>4 DEF IInv, OperationTypes
      <3>2. PICK o : o = [op[r] EXCEPT !.phase = "running"]
        OBVIOUS
      <3>3. o.phase = "running"
        BY <3>1, <3>2 DEF IInv, OperationTypes, Request
      <3>4. op' = [op EXCEPT ![r] = o]
        BY <2>2, <2>4, <3>2
      <3> QED
        BY <2>1, <3>1, <3>3, <3>4, OneChanges
    <2> QED
      BY <2>3, <2>4
  <1>4. ASSUME NEW z \in Sessions
        PROVE  /\ slots'[z] \in Slot
               /\ PartOf(slots'[z].pending, slots[z].pending)
               /\ \/ slots'[z].op \in {Nobody, slots[z].op, slots[z].follow}
                  \/ TakenUp(slots'[z].op, z)
               /\ slots'[z].follow \in {Nobody, slots[z].op, slots[z].follow}
    <2>1. CASE z = s
      BY <1>2, <2>1
    <2>2. CASE z # s
      <3>1. slots'[z] = slots[z] /\ slots[z] \in Slot /\ slots[z].pending \in Seq(Requests)
        BY <1>1, <2>2 DEF SlotInv, SlotTypes, Slot
      <3> QED
        BY <3>1, WholeIsPart
    <2> QED
      BY <2>1, <2>2
  <1>5. SlotTypes'
    BY <1>1, <1>4 DEF SlotInv, SlotTypes
  <1>6. ASSUME NEW z \in Sessions, NEW n \in 1 .. Len(slots'[z].pending)
        PROVE  WantedStill(slots'[z].pending[n], z)
    <2>1. slots'[z].pending \in Seq(Requests)
      BY <1>4 DEF PartOf
    <2>2. slots'[z].pending[n] \in Requests
      BY <2>1
    <2>3. slots'[z].pending[n] # slots'[s].op
      <3>1. CASE TakenUp(slots'[s].op, s)
        BY <3>1 DEF TakenUp
      <3>2. CASE slots'[s].op = slots[s].follow
        <4>1. PICK f \in [1 .. Len(slots'[z].pending) -> 1 .. Len(slots[z].pending)] :
                 \A m \in 1 .. Len(slots'[z].pending) : slots'[z].pending[m] = slots[z].pending[f[m]]
          BY <1>4 DEF PartOf
        <4>2. PICK i \in 1 .. Len(slots[z].pending) : i = f[n]
          BY <4>1
        <4>3. slots[z].pending[i] # slots[s].follow
          BY DEF SlotInv, Apart
        <4> QED
          BY <3>2, <4>1, <4>2, <4>3
      <3> QED
        BY <1>2, <3>1, <3>2
    <2> QED
      BY <1>3, <2>2, <2>3
  <1>7. WaitingWanted'
    BY <1>1, <1>4, <1>6, WantedKept
  <1> QED
    BY <1>3, <1>4, <1>5, <1>7, SlotsShrink

LEMMA EndSlotStep ==
  ASSUME IInv, SlotInv, NEW s \in Sessions, turnEnds(s)
  PROVE  SlotInv'
  <1>1. /\ \E queued \in BOOLEAN : slots'[s] = endAttempt(slots[s], queued)
        /\ \A z \in Sessions \ {s} : slots'[z] = slots[z]
        /\ DOMAIN slots' = Sessions /\ slots' = [z \in Sessions |-> slots'[z]]
        /\ turning' \subseteq Sessions /\ UNCHANGED <<loopUp, restarts, disposed>>
    BY DEF turnEnds, SlotInv, SlotTypes
  <1>2. /\ OperationsGoOn
        /\ \A q \in Requests \ {slots[s].op} : \A z \in Sessions : WantedStill(q, z)
    <2>1. PICK r : r = slots[s].op
      OBVIOUS
    <2>2. PICK x \in Outcomes : ingestEnd(r, x)
      BY <2>1 DEF turnEnds
    <2>3. CASE op' = op
      BY <2>3, NoneChanges
    <2>4. CASE op' # op
      <3>1. live(r) /\ r \in Requests
        BY <2>2, <2>4 DEF ingestEnd, IInv, OperationTypes
      <3>2. PICK o : o = Settled(op[r], adjudicateTerminal(op[r], x))
        OBVIOUS
      <3>3. o.phase = "terminal" /\ o.timer = FALSE
        BY <3>1, <3>2 DEF IInv, OperationTypes, Request, Settled
      <3>4. op' = [op EXCEPT ![r] = o]
        BY <2>2, <2>4, <3>2 DEF ingestEnd
      <3> QED
        BY <2>1, <3>1, <3>3, <3>4, OneChanges
    <2> QED
      BY <2>3, <2>4
  <1>3. ASSUME NEW z \in Sessions
        PROVE  /\ slots'[z] \in Slot /\ slots[z].pending \in Seq(Requests)
               /\ slots'[z].pending = slots[z].pending
               /\ slots'[z].op \in {Nobody, slots[z].op}
               /\ slots'[z].follow \in {Nobody, slots[z].op, slots[z].follow}
    <2>1. slots[z] \in Slot /\ slots[z].pending \in Seq(Requests)
      BY DEF SlotInv, SlotTypes, Slot
    <2>2. CASE z = s
      <3>1. PICK x \in Requests \cup {Nobody} :
               /\ x \in {Nobody, slots[z].op}
               /\ slots'[z] = [slots[z] EXCEPT !.live = FALSE, !.op = Nobody, !.follow = x]
        BY <1>1, <2>1, <2>2 DEF endAttempt, Slot
      <3> QED
        BY <2>1, <3>1 DEF Slot
    <2>3. CASE z # s
      BY <1>1, <2>1, <2>3
    <2> QED
      BY <2>2, <2>3
  <1>4. SlotTypes'
    BY <1>1, <1>3 DEF SlotInv, SlotTypes
  <1>5. ASSUME NEW z \in Sessions, NEW n \in 1 .. Len(slots'[z].pending)
        PROVE  WantedStill(slots'[z].pending[n], z)
    <2>1. n \in 1 .. Len(slots[z].pending) /\ slots'[z].pending[n] = slots[z].pending[n]
      BY <1>3
    <2>2. slots[z].pending[n] \in Requests
      BY <2>1, WaitingMinted
    <2>3. slots[z].pending[n] # slots[s].op
      BY <2>1 DEF SlotInv, Apart
    <2> QED
      BY <1>2, <2>1, <2>2, <2>3
  <1>6. \A z \in Sessions : PartOf(slots'[z].pending, slots[z].pending)
    BY <1>3, WholeIsPart
  <1>7. WaitingWanted'
    BY <1>1, <1>5, <1>6, WantedKept
  <1>8. \A z \in Sessions : /\ slots'[z].op \in {Nobody, slots[z].op, slots[z].follow}
                            /\ slots'[z].follow \in {Nobody, slots[z].op, slots[z].follow}
    BY <1>3
  <1> QED
    BY <1>2, <1>4, <1>6, <1>7, <1>8, SlotsShrink

(* The loop stops with its slots, or comes back; a turn breaks; the        *)
(* authority is disposed; nothing happens.                                 *)
LEMMA QuietSlotSteps ==
  ASSUME SlotInv,
         \/ loopStops \/ loopReturns \/ dispose \/ UNCHANGED vars
         \/ \E s \in Sessions : turnBreaks(s)
  PROVE  SlotInv'
  <1>1. CASE loopStops
    <2>1. /\ slots' = [z \in Sessions |-> NoSlot] /\ UNCHANGED <<op, restarts, disposed>>
          /\ loopUp' = FALSE /\ turning' = {}
      BY <1>1 DEF loopStops
    <2>2. OperationsGoOn
      BY <2>1, NoneChanges
    <2>3. \A z \in Sessions : /\ slots'[z].pending = <<>> /\ slots'[z].op = Nobody
                              /\ slots'[z].follow = Nobody
      BY <2>1 DEF NoSlot
    <2>4. NoSlot \in Slot
      BY DEF NoSlot, Slot
    <2>5. SlotTypes'
      BY <2>1, <2>4 DEF SlotInv, SlotTypes
    <2>6. \A q : PartOf(<<>>, q)
      <3> SUFFICES ASSUME NEW q PROVE PartOf(<<>>, q)
        OBVIOUS
      <3>1. PICK t : t = <<>>
        OBVIOUS
      <3>2. t \in Seq(Requests) /\ 1 .. Len(t) = {}
        BY <3>1
      <3>3. PICK f : f = [n \in 1 .. Len(t) |-> 1]
        OBVIOUS
      <3>4. f \in [1 .. Len(t) -> 1 .. Len(q)]
        BY <3>2, <3>3
      <3>5. PartOf(t, q)
        BY <3>2, <3>4 DEF PartOf
      <3> QED
        BY <3>1, <3>5
    <2>7. WaitingWanted'
      BY <2>3 DEF WaitingWanted
    <2> QED
      BY <2>2, <2>3, <2>5, <2>6, <2>7, SlotsShrink
  <1>2. CASE loopReturns \/ (\E s \in Sessions : turnBreaks(s)) \/ UNCHANGED vars
    <2>1. UNCHANGED <<op, slots, disposed>> /\ SlotTypes'
      <3>1. CASE loopReturns
        BY <3>1 DEF loopReturns, SlotInv, SlotTypes
      <3>2. ASSUME NEW s \in Sessions, turnBreaks(s)
            PROVE  UNCHANGED <<op, slots, disposed>> /\ SlotTypes'
        BY <3>2 DEF turnBreaks, SlotInv, SlotTypes
      <3>3. CASE UNCHANGED vars
        BY <3>3 DEF vars, SlotInv, SlotTypes
      <3> QED
        BY <1>2, <3>1, <3>2, <3>3
    <2>2. ASSUME NEW z \in Sessions, NEW n \in 1 .. Len(slots[z].pending)
          PROVE  WantedStill(slots[z].pending[n], z)
      BY <2>1, NoneChanges, WaitingMinted
    <2> QED
      BY <2>1, <2>2, NoneChanges, SlotsStand
  <1>3. CASE dispose
    <2>1. UNCHANGED slots /\ disposed' = TRUE /\ SlotTypes'
      BY <1>3 DEF dispose, loop, SlotInv, SlotTypes
    <2>2. OperationsGoOn
      <3>1. PICK o : o = [Unused EXCEPT !.phase = "dropped"]
        OBVIOUS
      <3>2. o.phase = "dropped" /\ o.timer = FALSE
        BY <3>1 DEF Unused
      <3>3. op' = [q \in Requests |-> IF live(q) THEN o ELSE op[q]]
        BY <1>3, <3>1 DEF dispose
      <3> QED
        BY <3>2, <3>3 DEF SlotInv, TimersRun, OperationsGoOn
    <2>3. \A z \in Sessions : \A n \in 1 .. Len(slots[z].pending) :
             WantedStill(slots[z].pending[n], z)
      BY <2>1 DEF WantedStill
    <2> QED
      BY <2>1, <2>2, <2>3, SlotsStand
  <1> QED
    BY <1>1, <1>2, <1>3

-----------------------------------------------------------------------------
LEMMA SlotsInit == Init => SlotInv
  <1> SUFFICES ASSUME Init PROVE SlotInv
    OBVIOUS
  <1>1. NoSlot \in Slot
    BY DEF NoSlot, Slot
  <1>2. SlotTypes
    BY <1>1 DEF Init, SlotTypes
  <1>3. Apart /\ Minted /\ WaitingWanted
    BY UnusedIsRequest DEF Init, NoSlot, Apart, Minted, WaitingWanted
  <1>4. TimersRun
    BY DEF Init, TimersRun, Unused
  <1> QED
    BY <1>2, <1>3, <1>4 DEF SlotInv

LEMMA SlotsNext == IInv /\ SlotInv /\ [Next]_vars => SlotInv'
  <1> SUFFICES ASSUME IInv, SlotInv, [Next]_vars PROVE SlotInv'
    OBVIOUS
  <1>1. ASSUME NEW r \in Requests, NEW s \in Sessions, NEW k \in Keys \cup {NoKey},
               request(r, s, k) \/ requestBare(r, s, k) \/ requestRepeated(r, s, k)
        PROVE  SlotInv'
    BY <1>1, AdmitStep, RepeatedStep
  <1>2. ASSUME NEW r \in Requests,
               appendSucceeds(r) \/ appendFails(r) \/ callerAborts(r)
                 \/ cancel(r) \/ confirmTimeout(r)
        PROVE  SlotInv'
    BY <1>2, AppendSlotSteps, CancelSlotStep, TimeoutSlotStep
  <1>3. ASSUME NEW s \in Sessions, turnBegins(s) \/ turnEnds(s)
        PROVE  SlotInv'
    BY <1>3, BeginSlotStep, EndSlotStep
  <1>4. CASE \/ loopStops \/ loopReturns \/ dispose \/ UNCHANGED vars
             \/ \E s \in Sessions : turnBreaks(s)
    BY <1>4, QuietSlotSteps
  <1> QED
    BY <1>1, <1>2, <1>3, <1>4 DEF Next

(* The slots and the records agree in every state: what waits is minted,   *)
(* wanted, in one place, and in no attempt.                                *)
THEOREM SlotsInvariance == Spec => []SlotInv
  <1>1. Init => IInv /\ SlotInv
    BY InitInv, SlotsInit
  <1>2. (IInv /\ SlotInv) /\ [Next]_vars => (IInv /\ SlotInv)'
    BY NextInv, SlotsNext
  <1> QED
    BY <1>1, <1>2, PTL DEF Spec

(* Every variable keeps its type.                                          *)
THEOREM TypeCorrect == Spec => []TypeOK
  <1>1. IInv /\ SlotInv => TypeOK
    BY DEF IInv, OperationTypes, SlotInv, SlotTypes, TypeOK
  <1> QED
    BY <1>1, Invariance, SlotsInvariance, PTL

(* As many operations wait in a queue as it has entries.                   *)
LEMMA WaitingCounted ==
  ASSUME SlotInv, NEW s \in Sessions
  PROVE  Cardinality(Waiting(slots[s])) = Len(slots[s].pending)
  <1>1. PICK q \in Seq(Requests) : q = slots[s].pending
    BY DEF SlotInv, SlotTypes, Slot
  <1>2. \A i, j \in 1 .. Len(q) : q[i] = q[j] => i = j
    BY <1>1 DEF SlotInv, Apart
  <1>3. PICK f : f = [i \in 1 .. Len(q) |-> q[i]]
    OBVIOUS
  <1>4. PICK W : W = {q[i] : i \in 1 .. Len(q)}
    OBVIOUS
  <1>5. f \in [1 .. Len(q) -> W] /\ \A i \in 1 .. Len(q) : f[i] = q[i]
    BY <1>3, <1>4
  <1>6. f \in Bijection(1 .. Len(q), W)
    <2>1. f \in Injection(1 .. Len(q), W)
      BY <1>2, <1>5 DEF Injection, IsInjective
    <2>2. f \in Surjection(1 .. Len(q), W)
      BY <1>4, <1>5 DEF Surjection
    <2> QED
      BY <2>1, <2>2 DEF Bijection
  <1>7. IsFiniteSet(1 .. Len(q)) /\ Cardinality(1 .. Len(q)) = Len(q)
    BY <1>1, FS_Interval
  <1>8. Cardinality(W) = Len(q)
    <2>1. ExistsBijection(1 .. Len(q), W)
      BY <1>6 DEF ExistsBijection
    <2> QED
      BY <1>7, <2>1, FS_Bijection
  <1> QED
    BY <1>1, <1>4, <1>8 DEF Waiting

(* Work is handed to the loop once, and only work that somebody still      *)
(* wants, whatever happens between the admission and the turn.             *)
THEOREM WaitingIsWanted == Spec => []WaitingWorkIsWanted
  <1>1. SlotInv => WaitingWorkIsWanted
    <2> SUFFICES ASSUME SlotInv PROVE WaitingWorkIsWanted
      OBVIOUS
    <2>1. ASSUME NEW s \in Sessions, NEW i \in 1 .. Len(slots[s].pending)
          PROVE  /\ \/ disposed
                    \/ /\ op[slots[s].pending[i]].session = s
                       /\ op[slots[s].pending[i]].phase \in {"appending", "accepted"}
                 /\ slots[s].pending[i] # slots[s].op
      BY DEF SlotInv, WaitingWanted, Wanted, Apart
    <2> QED
      BY <2>1, WaitingCounted DEF WaitingWorkIsWanted
  <1> QED
    BY <1>1, SlotsInvariance, PTL

-----------------------------------------------------------------------------
(* A stop settles.                                                         *)

(* Whoever was asked to stop has ended, or waits with its timer armed, and *)
(* no timer is armed for another.                                          *)
StopsAwaited ==
    \A r \in Requests :
        /\ op[r].cancelled => op[r].phase = "terminal" \/ (live(r) /\ op[r].timer)
        /\ op[r].timer => op[r].cancelled

Awaited(o) ==
    /\ o.cancelled => o.phase = "terminal" \/ (o.phase \in {"accepted", "running"} /\ o.timer)
    /\ o.timer => o.cancelled

(* One operation becomes o, the others stay.                               *)
LEMMA OneAwaited ==
  ASSUME IInv, StopsAwaited, NEW r \in Requests, NEW o, op' = [op EXCEPT ![r] = o], Awaited(o)
  PROVE  StopsAwaited'
  <1>1. op'[r] = o /\ \A q \in Requests \ {r} : op'[q] = op[q]
    BY DEF IInv, OperationTypes
  <1> QED BY <1>1 DEF StopsAwaited, Awaited, live

LEMMA StopsNext ==
  ASSUME IInv, StopsAwaited, [Next]_vars
  PROVE  StopsAwaited'
  <1>1. ASSUME NEW r \in Requests, NEW s \in Sessions, NEW k \in Keys \cup {NoKey},
               request(r, s, k) \/ requestBare(r, s, k) \/ requestRepeated(r, s, k)
        PROVE  StopsAwaited'
    <2>1. PICK o : op' = [op EXCEPT ![r] = o] /\ o.cancelled = FALSE /\ o.timer = FALSE
      <3>1. CASE requestRepeated(r, s, k)
        <4>1. PICK o : o = [Unused EXCEPT !.phase = "duplicate"]
          OBVIOUS
        <4>2. op' = [op EXCEPT ![r] = o]
          BY <3>1, <4>1 DEF requestRepeated
        <4>3. o.cancelled = FALSE /\ o.timer = FALSE
          BY <4>1 DEF Unused
        <4> QED BY <4>2, <4>3
      <3>2. CASE request(r, s, k) \/ requestBare(r, s, k)
        <4>1. PICK phase, p : Mint(r, phase, s, k, p)
          BY <3>2 DEF request, requestBare
        <4>2. PICK o : o = [Unused EXCEPT !.phase = phase, !.session = s, !.key = k, !.parent = p]
          OBVIOUS
        <4>3. op' = [op EXCEPT ![r] = o]
          BY <4>1, <4>2 DEF Mint
        <4>4. o.cancelled = FALSE /\ o.timer = FALSE
          BY <4>2 DEF Unused
        <4> QED BY <4>3, <4>4
      <3> QED BY <1>1, <3>1, <3>2
    <2> QED BY <2>1, OneAwaited DEF Awaited
  <1>2. ASSUME NEW r \in Requests, appendSucceeds(r) \/ appendFails(r) \/ callerAborts(r)
        PROVE  StopsAwaited'
    <2>1. op[r] \in Request /\ op[r].phase = "appending" /\ op[r].cancelled = FALSE
         /\ op[r].timer = FALSE
      BY <1>2 DEF IInv, OperationTypes, StopsAwaited, Request, live,
                  appendSucceeds, appendFails, callerAborts
    <2>2. PICK o : op' = [op EXCEPT ![r] = o] /\ Awaited(o)
      <3>1. CASE op' = [op EXCEPT ![r] = [Unused EXCEPT !.phase = "failed"]]
        <4>1. PICK o : o = [Unused EXCEPT !.phase = "failed"]
          OBVIOUS
        <4>2. op' = [op EXCEPT ![r] = o]
          BY <3>1, <4>1
        <4>3. Awaited(o)
          BY <4>1 DEF Unused, Awaited
        <4> QED BY <4>2, <4>3
      <3>2. CASE op' = [op EXCEPT ![r].gone = TRUE]
        <4>1. PICK o : o = [op[r] EXCEPT !.gone = TRUE]
          OBVIOUS
        <4>2. op' = [op EXCEPT ![r] = o]
          BY <3>2, <4>1 DEF IInv, OperationTypes
        <4>3. Awaited(o)
          BY <2>1, <4>1 DEF Request, Awaited
        <4> QED BY <4>2, <4>3
      <3>3. CASE op' = [op EXCEPT ![r].phase = "accepted", ![r].gone = FALSE]
        <4>1. PICK o : o = [op[r] EXCEPT !.phase = "accepted", !.gone = FALSE]
          OBVIOUS
        <4>2. op' = [op EXCEPT ![r] = o]
          BY <3>3, <4>1 DEF IInv, OperationTypes
        <4>3. Awaited(o)
          BY <2>1, <4>1 DEF Request, Awaited
        <4> QED BY <4>2, <4>3
      <3>4. CASE op' = [op EXCEPT ![r] = [Settled(op[r], "aborted")
                                            EXCEPT !.cancelled = TRUE, !.gone = FALSE]]
        <4>1. PICK o : o = [Settled(op[r], "aborted") EXCEPT !.cancelled = TRUE, !.gone = FALSE]
          OBVIOUS
        <4>2. op' = [op EXCEPT ![r] = o]
          BY <3>4, <4>1
        <4>3. PICK t : t = Settled(op[r], "aborted")
          OBVIOUS
        <4>4. t \in Request /\ t.phase = "terminal" /\ t.timer = FALSE
          BY <2>1, <4>3 DEF Settled, Request, Phases, Outcomes
        <4>5. Awaited(o)
          BY <4>1, <4>3, <4>4 DEF Request, Awaited
        <4> QED BY <4>2, <4>5
      <3> QED BY <1>2, <3>1, <3>2, <3>3, <3>4 DEF appendSucceeds, appendFails, callerAborts
    <2> QED BY <2>2, OneAwaited
  <1>3. ASSUME NEW r \in Requests, NEW x, op' = [op EXCEPT ![r] = Settled(op[r], x)]
        PROVE  StopsAwaited'
    <2>1. PICK o : o = Settled(op[r], x)
      OBVIOUS
    <2>2. o.phase = "terminal" /\ o.timer = FALSE
      BY <2>1 DEF Settled, IInv, OperationTypes, Request
    <2> QED BY <1>3, <2>1, <2>2, OneAwaited DEF Awaited
  <1>4. ASSUME NEW r \in Requests, cancel(r)
        PROVE  StopsAwaited'
    <2> DEFINE stopped == StoppedWith(r)
    <2>1. op' = [q \in Requests |-> IF q \in stopped THEN stop(op[q]) ELSE op[q]]
      BY <1>4 DEF cancel, requestCancel
    <2>2. \A q \in stopped : q \in Requests /\ live(q)
      BY <1>4, StopReaches DEF cancel
    <2> HIDE DEF stopped
    <2>3. ASSUME NEW q \in Requests, q \in stopped PROVE Awaited(op'[q])
      <3>1. PICK o \in Request : o = op[q] /\ o.phase \in {"accepted", "running"}
        BY <2>2, <2>3 DEF IInv, OperationTypes, live
      <3>2. Awaited(stop(o))
        BY <3>1 DEF Awaited, stop, Settled, Request
      <3> QED BY <2>1, <2>3, <3>1, <3>2
    <2>4. \A q \in Requests : q \notin stopped => op'[q] = op[q]
      BY <2>1
    <2> QED BY <2>3, <2>4 DEF StopsAwaited, Awaited, live
  <1>5. ASSUME NEW s \in Sessions, turnBegins(s)
        PROVE  StopsAwaited'
    <2>1. \/ op' = op
          \/ \E r : live(r) /\ op' = [op EXCEPT ![r].phase = "running"]
      BY <1>5 DEF turnBegins
    <2> QED BY <2>1 DEF StopsAwaited, live, IInv, OperationTypes, Request
  <1>6. ASSUME NEW s \in Sessions, turnEnds(s)
        PROVE  StopsAwaited'
    <2>1. \/ op' = op
          \/ \E x : slots[s].op # Nobody /\ live(slots[s].op)
                       /\ op' = [op EXCEPT ![slots[s].op] = Settled(op[slots[s].op], x)]
      BY <1>6 DEF turnEnds, ingestEnd
    <2>2. CASE op' = op
      BY <2>2 DEF StopsAwaited, live
    <2>3. CASE slots[s].op \in Requests
      BY <1>3, <2>1, <2>2, <2>3
    <2>4. CASE slots[s].op \notin Requests
      <3>1. \A q \in Requests : op'[q] = op[q]
        BY <2>1, <2>4 DEF IInv, OperationTypes
      <3> QED BY <3>1 DEF StopsAwaited, live
    <2> QED BY <2>3, <2>4
  <1>7. CASE dispose
    <2>1. op' = [r \in Requests |->
                   IF live(r) THEN [Unused EXCEPT !.phase = "dropped"] ELSE op[r]]
      BY <1>7 DEF dispose
    <2>2. PICK o : o = [Unused EXCEPT !.phase = "dropped"]
      OBVIOUS
    <2>3. o.cancelled = FALSE /\ o.timer = FALSE
      BY <2>2 DEF Unused
    <2>4. \A r \in Requests : op'[r] = o \/ (~live(r) /\ op'[r] = op[r])
      BY <2>1, <2>2
    <2> QED BY <2>3, <2>4 DEF StopsAwaited, live
  <1>8. ASSUME NEW r \in Requests, confirmTimeout(r)
        PROVE  StopsAwaited'
    BY <1>3, <1>8 DEF confirmTimeout
  <1>9. CASE UNCHANGED op
    BY <1>9 DEF StopsAwaited, live
  <1>10. ASSUME NEW s \in Sessions, turnBreaks(s) PROVE UNCHANGED op
    BY <1>10 DEF turnBreaks
  <1>11. CASE loopStops \/ loopReturns \/ UNCHANGED vars
    BY <1>9, <1>11 DEF loopStops, loopReturns, vars
  <1> QED BY <1>1, <1>2, <1>4, <1>5, <1>6, <1>7, <1>8, <1>9, <1>10, <1>11 DEF Next

LEMMA StopsInvariance == Spec => [](IInv /\ StopsAwaited)
  <1>1. Init => StopsAwaited
    BY DEF Init, StopsAwaited, Unused
  <1> QED BY <1>1, InitInv, NextInv, StopsNext, PTL DEF Spec

(* No step takes a stop back: the operation has been asked until it ends.  *)
Stands(q) == op'[q].cancelled \/ ~live(q)'

LEMMA StopStands ==
  ASSUME IInv, [Next]_vars, NEW q \in Requests, live(q), op[q].cancelled
  PROVE  Stands(q)
  <1>0. op[q] \in Request /\ op \in [Requests -> Request]
    BY DEF IInv, OperationTypes
  <1> USE DEF Stands
  <1>1. ASSUME NEW r \in Requests, NEW s \in Sessions, NEW k \in Keys \cup {NoKey},
               request(r, s, k) \/ requestBare(r, s, k) \/ requestRepeated(r, s, k)
        PROVE  Stands(q)
    <2>1. op[r].phase = "unused" /\ \E o : op' = [op EXCEPT ![r] = o]
      BY <1>1 DEF request, requestBare, requestRepeated, Admitted, NextId, Mint
    <2> QED BY <1>0, <2>1 DEF live
  <1>2. ASSUME NEW r \in Requests, appendSucceeds(r) \/ appendFails(r) \/ callerAborts(r)
        PROVE  Stands(q)
    <2>1. op[r].phase = "appending" /\ \E o : op' = [op EXCEPT ![r] = o]
      <3>1. op[r].phase = "appending" /\ \A z \in Requests \ {r} : op'[z] = op[z]
        BY <1>0, <1>2 DEF appendSucceeds, appendFails, callerAborts
      <3>2. CASE op' = [op EXCEPT ![r].gone = TRUE]
        BY <3>1, <3>2
      <3>3. CASE op' = [op EXCEPT ![r].phase = "accepted", ![r].gone = FALSE]
        <4>1. op' = [op EXCEPT ![r] = [op[r] EXCEPT !.phase = "accepted", !.gone = FALSE]]
          BY <1>0, <3>3
        <4> QED BY <3>1, <4>1
      <3> QED BY <1>2, <3>1, <3>2, <3>3 DEF appendSucceeds, appendFails, callerAborts
    <2>2. q # r
      BY <2>1 DEF live
    <2> QED BY <1>0, <2>1, <2>2
  <1>3. ASSUME NEW r, NEW x, op' = [op EXCEPT ![r] = Settled(op[r], x)]
        PROVE  Stands(q)
    <2>1. CASE q = r
      <3>1. PICK o : o = Settled(op[q], x)
        OBVIOUS
      <3>2. o.phase = "terminal"
        BY <1>0, <3>1 DEF Settled, Request
      <3>3. op'[q] = o
        BY <1>0, <1>3, <2>1, <3>1
      <3> QED BY <3>2, <3>3 DEF live
    <2>2. CASE q # r
      BY <1>0, <1>3, <2>2
    <2> QED BY <2>1, <2>2
  <1>4. ASSUME NEW r \in Requests, cancel(r)
        PROVE  Stands(q)
    <2> DEFINE stopped == StoppedWith(r)
    <2>1. op' = [z \in Requests |-> IF z \in stopped THEN stop(op[z]) ELSE op[z]]
      BY <1>4 DEF cancel, requestCancel
    <2> HIDE DEF stopped
    <2>2. stop(op[q]).cancelled = TRUE
      BY StoppedRequest DEF IInv, OperationTypes, OutcomeMeansTerminal, live
    <2> QED BY <2>1, <2>2
  <1>5. ASSUME NEW s \in Sessions, turnBegins(s)
        PROVE  Stands(q)
    <2>1. \/ op' = op
          \/ \E r : op' = [op EXCEPT ![r].phase = "running"]
      BY <1>5 DEF turnBegins
    <2> QED BY <1>0, <2>1 DEF Request
  <1>6. ASSUME NEW s \in Sessions, turnEnds(s)
        PROVE  Stands(q)
    <2>1. \/ op' = op
          \/ \E r, x : op' = [op EXCEPT ![r] = Settled(op[r], x)]
      BY <1>6 DEF turnEnds, ingestEnd
    <2> QED BY <1>3, <2>1
  <1>7. CASE dispose
    <2>1. PICK o : o = [Unused EXCEPT !.phase = "dropped"]
      OBVIOUS
    <2>2. op'[q] = o /\ o.phase = "dropped"
      BY <1>7, <2>1 DEF dispose, Unused
    <2> QED BY <2>2 DEF live
  <1>8. ASSUME NEW r \in Requests, confirmTimeout(r)
        PROVE  Stands(q)
    BY <1>3, <1>8 DEF confirmTimeout
  <1>9. CASE UNCHANGED op
    BY <1>9
  <1>10. ASSUME NEW s \in Sessions, turnBreaks(s) PROVE UNCHANGED op
    BY <1>10 DEF turnBreaks
  <1>11. CASE loopStops \/ loopReturns \/ UNCHANGED vars
    BY <1>9, <1>11 DEF loopStops, loopReturns, vars
  <1> QED BY <1>1, <1>2, <1>4, <1>5, <1>6, <1>7, <1>8, <1>9, <1>10, <1>11 DEF Next

(* The timer of r fires at last, and can fire whenever it is armed and r   *)
(* is live: this is all that is asked by confirmTimeout, whose other       *)
(* conjuncts are assignments.                                              *)
TimerFires(r) == WF_vars(confirmTimeout(r))
TimerCanFire(r) == [](live(r) /\ op[r].timer => ENABLED <<confirmTimeout(r)>>_vars)

Settles(r) == live(r) /\ op[r].cancelled ~> ~live(r)

LEMMA OneCancelSettles ==
  ASSUME NEW r \in Requests
  PROVE  Spec /\ TimerFires(r) /\ TimerCanFire(r) => Settles(r)
  <1>1. IInv /\ StopsAwaited /\ live(r) /\ op[r].cancelled => live(r) /\ op[r].timer
    BY DEF StopsAwaited, live
  <1>2. IInv /\ live(r) /\ op[r].cancelled /\ [Next]_vars
           => (live(r) /\ op[r].cancelled)' \/ ~live(r)'
    BY StopStands DEF Stands
  <1>3. IInv /\ <<confirmTimeout(r)>>_vars => ~live(r)'
    <2> SUFFICES ASSUME IInv, confirmTimeout(r) PROVE ~live(r)'
      OBVIOUS
    <2>1. PICK o : o = Settled(op[r], "aborted")
      OBVIOUS
    <2>2. op'[r] = o /\ o.phase = "terminal"
      BY <2>1 DEF confirmTimeout, Settled, IInv, OperationTypes, Request
    <2> QED BY <2>2 DEF live
  <1> QED BY <1>1, <1>2, <1>3, StopsInvariance, PTL
          DEF Spec, TimerFires, TimerCanFire, Settles

(* Once a stop was asked for, the operation ends, whatever its attempt and *)
(* the loop do and also when they do nothing: the armed timer is enough.   *)
THEOREM StopsSettle ==
  FairSpec /\ (\A r \in Requests : TimerCanFire(r)) => CancelSettles
  <1>1. Spec /\ (\A r \in Requests : TimerFires(r)) /\ (\A r \in Requests : TimerCanFire(r))
           => \A r \in Requests : Settles(r)
    BY OneCancelSettles
  <1>2. FairSpec => Spec /\ \A r \in Requests : TimerFires(r)
    BY PTL DEF FairSpec, TimerFires
  <1>3. (\A r \in Requests : Settles(r)) => CancelSettles
    BY PTL DEF Settles, CancelSettles
  <1> QED BY <1>1, <1>2, <1>3, PTL

-----------------------------------------------------------------------------
(* The authority implements WorkOrder.  First, what the operators of the   *)
(* slots do to what waits and to what was begun.                           *)

LEMMA SlotWaits ==
  ASSUME NEW slot \in Slot
  PROVE  Waiting(slot) \subseteq Requests /\ slot.pending \in Seq(Requests)
  BY DEF Slot, Waiting

LEMMA AdmitWaits ==
  ASSUME NEW slot \in Slot, NEW r \in Requests
  PROVE  /\ Waiting(admit(slot, r)) = Waiting(slot) \cup {r}
         /\ admit(slot, r).op = slot.op /\ admit(slot, r).follow = slot.follow
  <1>1. PICK q \in Seq(Requests) : q = slot.pending
    BY DEF Slot
  <1>2. PICK t : t = Append(q, r)
    OBVIOUS
  <1>3. admit(slot, r) = [slot EXCEPT !.pending = t]
    BY <1>1, <1>2 DEF admit
  <1>4. /\ admit(slot, r).pending = t
        /\ admit(slot, r).op = slot.op /\ admit(slot, r).follow = slot.follow
    BY <1>3 DEF Slot
  <1>5. /\ Len(t) = Len(q) + 1 /\ t[Len(q) + 1] = r /\ \A i \in 1 .. Len(q) : t[i] = q[i]
        /\ 1 .. Len(t) = (1 .. Len(q)) \cup {Len(q) + 1}
    BY <1>2
  <1>6. {t[i] : i \in 1 .. Len(t)} = {q[i] : i \in 1 .. Len(q)} \cup {r}
    BY <1>5
  <1> QED
    BY <1>1, <1>4, <1>6 DEF Waiting

(* What is not withdrawn stays.                                            *)
LEMMA KeptStays ==
  ASSUME NEW q \in Seq(Requests), NEW gone, NEW i \in 1 .. Len(q), q[i] \notin gone
  PROVE  \E n \in 1 .. Len(Without(q, gone)) : Without(q, gone)[n] = q[i]
  <1> DEFINE K == {j \in 1 .. Len(q) : q[j] \notin gone}
             place(j) == Cardinality({k \in K : k <= j})
             at(n) == CHOOSE j \in K : place(j) = n
  <1>1. PICK t : t = Without(q, gone)
    OBVIOUS
  <1>2. t = [n \in 1 .. Cardinality(K) |-> q[at(n)]]
    BY <1>1 DEF Without
  <1>3. i \in K /\ K \in SUBSET (1 .. Len(q)) /\ Len(q) \in Nat
    OBVIOUS
  <1>4. IsFiniteSet(K) /\ Cardinality(K) \in Nat
    <2>1. IsFiniteSet(1 .. Len(q))
      BY FS_Interval
    <2>2. IsFiniteSet(K)
      BY <1>3, <2>1, FS_Subset
    <2> QED
      BY <2>2, FS_CardinalityType
  <1>5. ASSUME NEW j \in K
        PROVE  IsFiniteSet({k \in K : k <= j}) /\ place(j) \in 1 .. Cardinality(K)
    <2>1. {k \in K : k <= j} \subseteq K /\ j \in {k \in K : k <= j}
      BY <1>3
    <2>2. IsFiniteSet({k \in K : k <= j}) /\ place(j) <= Cardinality(K)
      BY <1>4, <2>1, FS_Subset
    <2>3. place(j) \in Nat /\ place(j) # 0
      BY <2>1, <2>2, FS_CardinalityType, FS_EmptySet
    <2> QED
      BY <1>4, <2>2, <2>3
  <1>6. ASSUME NEW j \in K, NEW k \in K, j < k PROVE place(j) # place(k)
    <2>1. {l \in K : l <= j} \subseteq {l \in K : l <= k}
      <3>1. j \in Nat /\ k \in Nat /\ \A l \in K : l \in Nat
        BY <1>3
      <3>2. ASSUME NEW l \in K, l <= j PROVE l <= k
        BY <1>6, <3>1, <3>2
      <3> QED
        BY <3>2
    <2>2. k \in {l \in K : l <= k} /\ k \notin {l \in K : l <= j}
      BY <1>3, <1>6
    <2> QED
      BY <1>5, <2>1, <2>2, FS_Subset
  <1> DEFINE n == place(i)
  <1>7. at(n) \in K /\ place(at(n)) = n
    <2>1. \E j \in K : place(j) = n
      BY <1>3
    <2> HIDE DEF place, K, n
    <2> QED
      BY <2>1
  <1>8. at(n) = i
    <2>1. PICK j : j = at(n)
      OBVIOUS
    <2>2. j \in K /\ place(j) = place(i)
      BY <1>7, <2>1
    <2>3. j \in Nat /\ i \in Nat
      BY <1>3, <2>2
    <2>4. ~(j < i) /\ ~(i < j)
      <3> HIDE DEF place, K
      <3> QED
        BY <1>3, <1>6, <2>2
    <2> QED
      BY <2>1, <2>3, <2>4
  <1>9. n \in 1 .. Cardinality(K)
    BY <1>3, <1>5
  <1>10. Len(t) = Cardinality(K) /\ t[n] = q[i]
    <2>1. \A m \in 1 .. Cardinality(K) : t[m] = q[at(m)]
      <3> HIDE DEF K, at
      <3> QED
        BY <1>2
    <2>2. t[n] = q[i]
      <3> HIDE DEF K, at, n
      <3> QED
        BY <1>8, <1>9, <2>1
    <2>3. PartOf(t, q)
      BY <1>1, Withdrawn
    <2>4. t \in Seq(Requests) /\ DOMAIN t = 1 .. Cardinality(K)
      <3> HIDE DEF K, at
      <3> QED
        BY <1>2, <2>3 DEF PartOf
    <2>5. Len(t) = Cardinality(K)
      <3> HIDE DEF K
      <3> QED
        BY <1>4, <2>4
    <2> QED
      BY <2>2, <2>5
  <1> HIDE DEF n
  <1> QED
    BY <1>1, <1>9, <1>10

LEMMA CancelWaits ==
  ASSUME NEW slot \in Slot, NEW gone
  PROVE  /\ Waiting(cancelAttempt(slot, gone)) = Waiting(slot) \ gone
         /\ cancelAttempt(slot, gone).op = slot.op
         /\ cancelAttempt(slot, gone).follow = slot.follow
  <1>1. PICK q \in Seq(Requests) : q = slot.pending
    BY DEF Slot
  <1>2. PICK t : t = Without(q, gone)
    OBVIOUS
  <1>3. cancelAttempt(slot, gone) = [slot EXCEPT !.pending = t]
    BY <1>1, <1>2 DEF cancelAttempt
  <1>4. /\ cancelAttempt(slot, gone).pending = t
        /\ cancelAttempt(slot, gone).op = slot.op
        /\ cancelAttempt(slot, gone).follow = slot.follow
    BY <1>3 DEF Slot
  <1>5. ASSUME NEW n \in 1 .. Len(t)
        PROVE  t[n] \notin gone /\ \E i \in 1 .. Len(q) : t[n] = q[i]
    BY <1>2, Withdrawn DEF PartOf
  <1>6. ASSUME NEW i \in 1 .. Len(q), q[i] \notin gone
        PROVE  \E n \in 1 .. Len(t) : t[n] = q[i]
    BY <1>2, <1>6, KeptStays
  <1>7. {t[n] : n \in 1 .. Len(t)} = {q[i] : i \in 1 .. Len(q)} \ gone
    BY <1>5, <1>6
  <1> QED
    BY <1>1, <1>4, <1>7 DEF Waiting

(* A turn takes up what waited longest, or else what the slot hands on.    *)
LEMMA BeginWaits ==
  ASSUME NEW slot \in Slot
  PROVE  /\ beginAttempt(slot).follow = slot.follow
         /\ Waiting(beginAttempt(slot)) \subseteq Waiting(slot)
         /\ \/ /\ beginAttempt(slot).op \in Waiting(slot)
               /\ Waiting(slot) \subseteq Waiting(beginAttempt(slot)) \cup {beginAttempt(slot).op}
            \/ /\ Waiting(beginAttempt(slot)) = Waiting(slot)
               /\ beginAttempt(slot).op = slot.follow
  <1>1. PICK q \in Seq(Requests) : q = slot.pending
    BY DEF Slot
  <1>2. CASE q # <<>>
    <2>1. PICK t : t = Tail(q)
      OBVIOUS
    <2>2. /\ Len(q) \in Nat /\ Len(q) # 0 /\ Len(t) = Len(q) - 1
          /\ \A n \in 1 .. Len(t) : n + 1 \in 1 .. Len(q) /\ t[n] = q[n + 1]
      BY <1>2, <2>1
    <2>3. beginAttempt(slot) = [slot EXCEPT !.attached = TRUE, !.live = TRUE,
                                            !.op = q[1], !.pending = t]
      BY <1>1, <1>2, <2>1 DEF beginAttempt
    <2>4. /\ beginAttempt(slot).pending = t /\ beginAttempt(slot).op = q[1]
          /\ beginAttempt(slot).follow = slot.follow
      BY <2>3 DEF Slot
    <2>5. 1 \in 1 .. Len(q)
      BY <2>2
    <2>6. ASSUME NEW i \in 1 .. Len(q) PROVE q[i] = q[1] \/ \E n \in 1 .. Len(t) : t[n] = q[i]
      <3>1. CASE i = 1
        BY <3>1
      <3>2. CASE i # 1
        <4>1. i - 1 \in 1 .. Len(t) /\ (i - 1) + 1 = i
          BY <2>2, <3>2
        <4>2. t[i - 1] = q[i]
          BY <2>2, <4>1
        <4> QED
          BY <4>1, <4>2
      <3> QED
        BY <3>1, <3>2
    <2>7. {t[n] : n \in 1 .. Len(t)} \subseteq {q[i] : i \in 1 .. Len(q)}
      BY <2>2
    <2>8. {q[i] : i \in 1 .. Len(q)} \subseteq {t[n] : n \in 1 .. Len(t)} \cup {q[1]}
      BY <2>6
    <2>9. q[1] \in {q[i] : i \in 1 .. Len(q)}
      BY <2>5
    <2>10. Waiting(slot) = {q[i] : i \in 1 .. Len(q)}
      BY <1>1 DEF Waiting
    <2>11. Waiting(beginAttempt(slot)) = {t[n] : n \in 1 .. Len(t)}
      BY <2>4 DEF Waiting
    <2>12. PICK W, V : W = Waiting(slot) /\ V = Waiting(beginAttempt(slot))
      OBVIOUS
    <2>13. V \subseteq W /\ q[1] \in W /\ W \subseteq V \cup {q[1]}
      BY <2>7, <2>8, <2>9, <2>10, <2>11, <2>12
    <2> QED
      BY <2>4, <2>12, <2>13
  <1>3. CASE q = <<>>
    <2>1. beginAttempt(slot) = [slot EXCEPT !.attached = TRUE, !.live = TRUE, !.op = slot.follow]
      BY <1>1, <1>3 DEF beginAttempt
    <2>2. /\ beginAttempt(slot).pending = slot.pending /\ beginAttempt(slot).op = slot.follow
          /\ beginAttempt(slot).follow = slot.follow
      BY <2>1 DEF Slot
    <2> QED
      BY <2>2 DEF Waiting
  <1> QED
    BY <1>2, <1>3

LEMMA EndWaits ==
  ASSUME NEW slot \in Slot, NEW queued \in BOOLEAN
  PROVE  /\ Waiting(endAttempt(slot, queued)) = Waiting(slot)
         /\ endAttempt(slot, queued).op = Nobody
         /\ endAttempt(slot, queued).follow \in {Nobody, slot.op}
  <1>1. PICK x : /\ x \in {Nobody, slot.op}
                 /\ endAttempt(slot, queued) = [slot EXCEPT !.live = FALSE, !.op = Nobody,
                                                           !.follow = x]
    BY DEF endAttempt
  <1>2. /\ endAttempt(slot, queued).pending = slot.pending
        /\ endAttempt(slot, queued).op = Nobody /\ endAttempt(slot, queued).follow = x
    BY <1>1 DEF Slot
  <1> QED
    BY <1>1, <1>2 DEF Waiting

(* What is on file when a record changes.                                  *)
LEMMA Statuses ==
  /\ StatusOf("unused") = "new" /\ StatusOf("appending") = "filed"
  /\ StatusOf("accepted") = "open" /\ StatusOf("running") = "open"
  /\ StatusOf("terminal") = "ended"
  /\ StatusOf("failed") = "void" /\ StatusOf("duplicate") = "void"
  /\ StatusOf("dropped") = "void"
  BY DEF StatusOf

LEMMA NewOnFile ==
  /\ FileOf(Unused) = Orders!NoFile
  /\ \A phase \in {"failed", "duplicate", "dropped"} :
        FileOf([Unused EXCEPT !.phase = phase]) = Orders!Void
  <1>1. FileOf(Unused) = Orders!NoFile
    BY Statuses DEF FileOf, Unused, Orders!NoFile, Orders!File
  <1>2. ASSUME NEW phase \in {"failed", "duplicate", "dropped"}
        PROVE  FileOf([Unused EXCEPT !.phase = phase]) = Orders!Void
    <2>1. PICK o : o = [Unused EXCEPT !.phase = phase]
      OBVIOUS
    <2>2. o.phase = phase /\ o.cancelled = FALSE /\ o.outcome = "none" /\ o.parent = Nobody
      BY <2>1 DEF Unused
    <2>3. StatusOf(phase) = "void"
      BY Statuses
    <2> QED
      BY <2>1, <2>2, <2>3 DEF FileOf, Orders!Void, Orders!File
  <1> QED
    BY <1>1, <1>2

LEMMA EndedOnFile ==
  ASSUME NEW o \in Request, NEW x
  PROVE  /\ FileOf(Settled(o, x)) = Orders!Ended(FileOf(o), x)
         /\ FileOf([Settled(o, "aborted") EXCEPT !.cancelled = TRUE]) = Orders!Aborted
         /\ FileOf([Settled(o, "aborted") EXCEPT !.cancelled = TRUE, !.gone = FALSE])
               = Orders!Aborted
         /\ o.cancelled = TRUE => FileOf(Settled(o, "aborted")) = Orders!Aborted
  <1>1. PICK t, a : t = Settled(o, x) /\ a = Settled(o, "aborted")
    OBVIOUS
  <1>2. /\ t.phase = "terminal" /\ t.outcome = x /\ t.cancelled = o.cancelled /\ t.parent = Nobody
        /\ a.phase = "terminal" /\ a.outcome = "aborted" /\ a.cancelled = o.cancelled
        /\ a.parent = Nobody
    BY <1>1 DEF Settled, Request
  <1>3. PICK u, v : /\ u = [a EXCEPT !.cancelled = TRUE]
                    /\ v = [a EXCEPT !.cancelled = TRUE, !.gone = FALSE]
    OBVIOUS
  <1>4. /\ u.phase = "terminal" /\ u.outcome = "aborted" /\ u.cancelled = TRUE
        /\ u.parent = Nobody
        /\ v.phase = "terminal" /\ v.outcome = "aborted" /\ v.cancelled = TRUE
        /\ v.parent = Nobody
    BY <1>1, <1>3 DEF Settled, Request
  <1>5. FileOf(o).stopped = o.cancelled
    BY DEF FileOf
  <1>6. FileOf(t) = Orders!Ended(FileOf(o), x)
    BY <1>2, <1>5, Statuses DEF FileOf, Orders!Ended, Orders!File
  <1>7. /\ FileOf(u) = Orders!Aborted /\ FileOf(v) = Orders!Aborted
        /\ o.cancelled = TRUE => FileOf(a) = Orders!Aborted
    BY <1>2, <1>4, Statuses DEF FileOf, Orders!Aborted, Orders!File
  <1> QED
    BY <1>1, <1>3, <1>6, <1>7

(* The status tells the phases apart that matter.                          *)
LEMMA StatusIs ==
  ASSUME NEW o
  PROVE  /\ FileOf(o).status = "new" <=> o.phase = "unused"
         /\ FileOf(o).status = "filed" <=> o.phase = "appending"
         /\ FileOf(o).status = "open" <=> o.phase \in {"accepted", "running"}
         /\ FileOf(o).status = "ended" <=> o.phase = "terminal"
         /\ FileOf(o).stopped = o.cancelled /\ FileOf(o).parent = o.parent
  <1>1. /\ FileOf(o).status = StatusOf(o.phase)
        /\ FileOf(o).stopped = o.cancelled /\ FileOf(o).parent = o.parent
    BY DEF FileOf
  <1>2. PICK x : x = o.phase
    OBVIOUS
  <1>3. /\ StatusOf(x) = "new" <=> x = "unused"
        /\ StatusOf(x) = "filed" <=> x = "appending"
        /\ StatusOf(x) = "open" <=> x \in {"accepted", "running"}
        /\ StatusOf(x) = "ended" <=> x = "terminal"
    BY DEF StatusOf
  <1> QED
    BY <1>1, <1>2, <1>3

(* What became of the work.                                                *)
WorkTells ==
    \A r \in Requests : /\ work[r] = "none" <=> op[r].phase = "unused"
                        /\ work[r] = "waiting" <=> Waits(r)
                        /\ work[r] = "begun" <=> Begun(r)
                        /\ work[r] \in {"none", "waiting", "begun", "over"}

LEMMA WorkIs == SlotInv => WorkTells
  <1> SUFFICES ASSUME SlotInv, NEW r \in Requests
               PROVE  /\ work[r] = "none" <=> op[r].phase = "unused"
                      /\ work[r] = "waiting" <=> Waits(r)
                      /\ work[r] = "begun" <=> Begun(r)
                      /\ work[r] \in {"none", "waiting", "begun", "over"}
    BY DEF WorkTells
  <1>1. Waits(r) \/ Begun(r) => op[r].phase # "unused"
    BY DEF SlotInv, Minted, Waits, Begun, Waiting
  <1>2. Waits(r) => ~Begun(r)
    BY DEF SlotInv, Apart, Waits, Begun, Waiting
  <1>3. work[r] = WorkOf(r)
    BY DEF work
  <1> QED
    BY <1>1, <1>2, <1>3 DEF WorkOf

LEMMA WorkNext == SlotInv' => WorkTells'
  BY WorkIs, PTL

(* What is on file, before and after a step.                               *)
LEMMA FileIs ==
  /\ \A r \in Requests : file[r] = FileOf(op[r]) /\ file'[r] = FileOf(op'[r])
  /\ file = [r \in Requests |-> file[r]] /\ file' = [r \in Requests |-> file'[r]]
  /\ work = [r \in Requests |-> work[r]] /\ work' = [r \in Requests |-> work'[r]]
  BY DEF file, work

(* One file changes, or none.                                              *)
LEMMA FileOne ==
  ASSUME NEW r \in Requests, NEW f, FileOf(op'[r]) = f,
         \A q \in Requests \ {r} : op'[q] = op[q]
  PROVE  file' = [file EXCEPT ![r] = f]
  BY FileIs

LEMMA FileNone ==
  ASSUME \A q \in Requests : FileOf(op'[q]) = FileOf(op[q])
  PROVE  file' = file
  BY FileIs

(* A slot where the same waits and was begun.                              *)
Keeps(z) == /\ Waiting(slots'[z]) = Waiting(slots[z])
            /\ slots'[z].op = slots[z].op /\ slots'[z].follow = slots[z].follow

LEMMA WorkStays ==
  ASSUME SlotInv, SlotInv', \A z \in Sessions : Keeps(z),
         \A q \in Requests : op'[q].phase = "unused" <=> op[q].phase = "unused"
  PROVE  work' = work
  <1>1. \A q \in Requests : (Waits(q)' <=> Waits(q)) /\ (Begun(q)' <=> Begun(q))
    BY DEF Keeps, Waits, Begun
  <1>2. ASSUME NEW q \in Requests PROVE work'[q] = work[q]
    BY <1>1, WorkIs, WorkNext DEF WorkTells
  <1> QED
    BY <1>2, FileIs

(* Some of what waited is withdrawn.                                       *)
LEMMA WorkWithdrawn ==
  ASSUME SlotInv, SlotInv', NEW S,
         \A q \in Requests : /\ Waits(q)' <=> Waits(q) /\ q \notin S
                             /\ Begun(q)' <=> Begun(q)
                             /\ op'[q].phase = "unused" <=> op[q].phase = "unused"
  PROVE  Orders!Withdraw(S)
  <1>1. ASSUME NEW q \in Requests
        PROVE  work'[q] = IF q \in S /\ work[q] = "waiting" THEN "over" ELSE work[q]
    <2>1. Waits(q) => ~Begun(q) /\ op[q].phase # "unused"
      BY WorkIs DEF WorkTells
    <2> QED
      BY <2>1, WorkIs, WorkNext DEF WorkTells
  <1> QED
    BY <1>1, FileIs DEF Orders!Withdraw

(* Nothing new is begun.                                                   *)
LEMMA WorkLapses ==
  ASSUME SlotInv, SlotInv',
         \A q \in Requests : /\ Waits(q)' <=> Waits(q)
                             /\ Begun(q)' => Begun(q)
                             /\ op'[q].phase = "unused" <=> op[q].phase = "unused"
  PROVE  Orders!Lapse
  <1> DEFINE lapsed == {q \in Requests : Begun(q) /\ ~Begun(q)'}
  <1>1. \A q \in lapsed : q \in Requests /\ work[q] = "begun"
    BY WorkIs DEF WorkTells
  <1>2. ASSUME NEW q \in Requests
        PROVE  work'[q] = IF q \in lapsed THEN "over" ELSE work[q]
    BY WorkIs, WorkNext DEF WorkTells
  <1> HIDE DEF lapsed
  <1>3. lapsed \in SUBSET {q \in Requests : work[q] = "begun"}
    BY <1>1
  <1>4. work' = [q \in Requests |-> IF q \in lapsed THEN "over" ELSE work[q]]
    BY <1>2, FileIs
  <1> QED
    BY <1>3, <1>4 DEF Orders!Lapse

(* A request whose append is awaited waits on its own session only.        *)
AtHome ==
    \A z \in Sessions : \A r \in Waiting(slots[z]) :
        op[r].phase = "appending" => op[r].session = z

LEMMA HomeKept ==
  ASSUME SlotInv', AtHome,
         \A z \in Sessions : Waiting(slots'[z]) \subseteq Waiting(slots[z]),
         \A r \in Requests : op'[r].phase = "appending" =>
            op[r].phase = "appending" /\ op'[r].session = op[r].session
  PROVE  AtHome'
  <1>1. ASSUME NEW z \in Sessions PROVE Waiting(slots'[z]) \subseteq Requests
    BY SlotWaits DEF SlotInv, SlotTypes
  <1> QED
    BY <1>1 DEF AtHome

-----------------------------------------------------------------------------
(* Requests ask, and their appends are answered.                           *)

LEMMA RequestAsks ==
  ASSUME IInv, SlotInv, SlotInv', AtHome,
         NEW r \in Requests, NEW s \in Sessions, NEW k \in Keys \cup {NoKey},
         request(r, s, k) \/ requestBare(r, s, k)
  PROVE  Orders!Ask(r) /\ AtHome'
  <1>1. /\ op[r].phase = "unused"
        /\ slots' = [slots EXCEPT ![s] = admit(slots[s], r)]
    BY DEF request, requestBare, Admitted, NextId
  <1>2. PICK p \in Parents, phase \in {"appending", "accepted"} : Mint(r, phase, s, k, p)
    BY DEF request, requestBare
  <1>3. PICK o : o = [Unused EXCEPT !.phase = phase, !.session = s, !.key = k, !.parent = p]
    OBVIOUS
  <1>4. /\ op'[r] = o /\ \A q \in Requests \ {r} : op'[q] = op[q]
        /\ o.phase = phase /\ o.session = s
    <2>1. op' = [op EXCEPT ![r] = o]
      BY <1>2, <1>3 DEF Mint
    <2>2. o.phase = phase /\ o.session = s
      BY <1>3 DEF Unused
    <2> QED
      BY <2>1, <2>2 DEF IInv, OperationTypes
  <1>5. file' = [file EXCEPT ![r] = Orders!File(StatusOf(phase), FALSE, "none", p)]
    <2>1. FileOf(o) = Orders!File(StatusOf(phase), FALSE, "none", p)
      <3>1. o.phase = phase /\ o.cancelled = FALSE /\ o.outcome = "none" /\ o.parent = p
        BY <1>3 DEF Unused
      <3> QED
        BY <3>1 DEF FileOf, Orders!File
    <2>2. PICK f : f = Orders!File(StatusOf(phase), FALSE, "none", p)
      OBVIOUS
    <2> QED
      BY <1>4, <2>1, <2>2, FileOne
  <1>6. p \in {Nobody} \cup {q \in Requests : file[q].status \in {"open", "ended"}}
    BY FileIs, StatusIs DEF Parents
  <1>7. StatusOf(phase) \in {"filed", "open"} /\ file[r].status = "new"
    BY <1>1, Statuses, FileIs, StatusIs
  <1>8. /\ Waiting(slots'[s]) = Waiting(slots[s]) \cup {r}
        /\ slots'[s].op = slots[s].op /\ slots'[s].follow = slots[s].follow
        /\ \A z \in Sessions \ {s} : slots'[z] = slots[z]
    BY <1>1, AdmitWaits DEF SlotInv, SlotTypes
  <1>9. \A q \in Requests : /\ Waits(q)' <=> Waits(q) \/ q = r
                            /\ Begun(q)' <=> Begun(q)
    BY <1>8 DEF Waits, Begun
  <1>10. ASSUME NEW q \in Requests
         PROVE  work'[q] = IF q = r THEN "waiting" ELSE work[q]
    BY <1>4, <1>9, WorkIs, WorkNext DEF WorkTells
  <1>11. work' = [work EXCEPT ![r] = "waiting"]
    BY <1>10, FileIs
  <1>12. AtHome'
    <2>1. ~Waits(r)
      BY <1>1, WorkIs DEF WorkTells
    <2>2. ASSUME NEW z \in Sessions, NEW q \in Waiting(slots'[z]), op'[q].phase = "appending"
          PROVE  op'[q].session = z
      <3>1. q \in Requests
        BY SlotWaits DEF SlotInv, SlotTypes
      <3>2. CASE q = r
        BY <1>4, <1>8, <2>1, <2>2, <3>2 DEF Waits
      <3>3. CASE q # r
        BY <1>4, <1>8, <2>2, <3>1, <3>3 DEF AtHome
      <3> QED
        BY <3>2, <3>3
    <2> QED
      BY <2>2 DEF AtHome
  <1> QED
    BY <1>5, <1>6, <1>7, <1>11, <1>12 DEF Orders!Ask

LEMMA RepeatedAsks ==
  ASSUME IInv, SlotInv, SlotInv', AtHome,
         NEW r \in Requests, NEW s \in Sessions, NEW k \in Keys \cup {NoKey},
         requestRepeated(r, s, k)
  PROVE  Orders!Ask(r) /\ AtHome'
  <1>1. op[r].phase = "unused" /\ UNCHANGED slots
    BY DEF requestRepeated, NextId
  <1>2. PICK o : o = [Unused EXCEPT !.phase = "duplicate"]
    OBVIOUS
  <1>3. /\ op'[r] = o /\ \A q \in Requests \ {r} : op'[q] = op[q]
        /\ o.phase = "duplicate"
    <2>1. op' = [op EXCEPT ![r] = o]
      BY <1>2 DEF requestRepeated
    <2>2. o.phase = "duplicate"
      BY <1>2 DEF Unused
    <2> QED
      BY <2>1, <2>2 DEF IInv, OperationTypes
  <1>4. file' = [file EXCEPT ![r] = Orders!Void] /\ file[r].status = "new"
    <2>1. FileOf(op'[r]) = Orders!Void
      BY <1>2, <1>3, NewOnFile
    <2> QED
      BY <1>1, <1>3, <2>1, FileOne, FileIs, StatusIs
  <1>5. \A q \in Requests : (Waits(q)' <=> Waits(q)) /\ (Begun(q)' <=> Begun(q))
    BY <1>1 DEF Waits, Begun
  <1>6. ~Waits(r) /\ ~Begun(r)
    BY <1>1, WorkIs DEF WorkTells
  <1>7. ASSUME NEW q \in Requests
        PROVE  work'[q] = IF q = r THEN "over" ELSE work[q]
    BY <1>3, <1>5, <1>6, WorkIs, WorkNext DEF WorkTells
  <1>8. work' = [work EXCEPT ![r] = "over"]
    BY <1>7, FileIs
  <1>9. AtHome'
    BY <1>1, <1>3, HomeKept
  <1> QED
    BY <1>4, <1>8, <1>9 DEF Orders!Ask

(* The append fails: the request is refused, and its admission withdrawn.  *)
LEMMA FailureRefuses ==
  ASSUME IInv, SlotInv, SlotInv', AtHome, NEW r \in Requests, appendFails(r)
  PROVE  Orders!Refuse(r) /\ AtHome'
  <1>1. /\ op[r].phase = "appending" /\ op[r].session \in Sessions
        /\ slots' = [slots EXCEPT ![op[r].session] = cancelAttempt(slots[op[r].session], {r})]
    BY DEF appendFails, IInv, OperationTypes, Request
  <1>2. PICK s \in Sessions : s = op[r].session
    BY <1>1
  <1>3. PICK o : o = [Unused EXCEPT !.phase = "failed"]
    OBVIOUS
  <1>4. /\ op'[r] = o /\ \A q \in Requests \ {r} : op'[q] = op[q]
        /\ o.phase = "failed"
    <2>1. op' = [op EXCEPT ![r] = o]
      BY <1>3 DEF appendFails
    <2>2. o.phase = "failed"
      BY <1>3 DEF Unused
    <2> QED
      BY <2>1, <2>2 DEF IInv, OperationTypes
  <1>5. file' = [file EXCEPT ![r] = Orders!Void] /\ file[r].status = "filed"
    <2>1. FileOf(op'[r]) = Orders!Void
      BY <1>3, <1>4, NewOnFile
    <2> QED
      BY <1>1, <1>4, <2>1, FileOne, FileIs, StatusIs
  <1>6. /\ Waiting(slots'[s]) = Waiting(slots[s]) \ {r}
        /\ slots'[s].op = slots[s].op /\ slots'[s].follow = slots[s].follow
        /\ \A z \in Sessions \ {s} : slots'[z] = slots[z] /\ r \notin Waiting(slots[z])
    BY <1>1, <1>2, CancelWaits DEF SlotInv, SlotTypes, AtHome
  <1>7. \A q \in Requests : /\ Waits(q)' <=> Waits(q) /\ q \notin {r}
                            /\ Begun(q)' <=> Begun(q)
    BY <1>6 DEF Waits, Begun
  <1>8. Orders!Withdraw({r})
    <2>1. \A q \in Requests : op'[q].phase = "unused" <=> op[q].phase = "unused"
      BY <1>1, <1>4
    <2> QED
      BY <1>7, <2>1, WorkWithdrawn
  <1>9. AtHome'
    BY <1>4, <1>6, HomeKept
  <1> QED
    BY <1>5, <1>8, <1>9 DEF Orders!Refuse

(* The append succeeds: the request is accepted, or at once aborted when   *)
(* its caller is gone.                                                     *)
LEMMA SuccessAccepts ==
  ASSUME IInv, SlotInv, SlotInv', AtHome, NEW r \in Requests, appendSucceeds(r)
  PROVE  (Orders!Accept(r) \/ Orders!Abandon(r)) /\ AtHome'
  <1>1. /\ op[r] \in Request /\ op[r].phase = "appending" /\ op[r].session \in Sessions
        /\ file[r].status = "filed"
    BY FileIs, StatusIs DEF appendSucceeds, IInv, OperationTypes, Request
  <1>2. CASE op[r].gone /\ ~disposed
    <2>1. PICK s \in Sessions : s = op[r].session
      BY <1>1
    <2>2. PICK o : o = [Settled(op[r], "aborted") EXCEPT !.cancelled = TRUE, !.gone = FALSE]
      OBVIOUS
    <2>3. /\ op'[r] = o /\ \A q \in Requests \ {r} : op'[q] = op[q]
          /\ slots' = [slots EXCEPT ![s] = cancelAttempt(slots[s], {r})]
      BY <1>2, <2>1, <2>2 DEF appendSucceeds, IInv, OperationTypes
    <2>4. file' = [file EXCEPT ![r] = Orders!Aborted] /\ o.phase = "terminal"
      <3>1. FileOf(o) = Orders!Aborted
        BY <1>1, <2>2, EndedOnFile
      <3>2. o.phase = "terminal"
        BY <1>1, <2>2 DEF Settled, Request
      <3> QED
        BY <2>3, <3>1, <3>2, FileOne
    <2>5. /\ Waiting(slots'[s]) = Waiting(slots[s]) \ {r}
          /\ slots'[s].op = slots[s].op /\ slots'[s].follow = slots[s].follow
          /\ \A z \in Sessions \ {s} : slots'[z] = slots[z] /\ r \notin Waiting(slots[z])
      BY <1>1, <2>1, <2>3, CancelWaits DEF SlotInv, SlotTypes, AtHome
    <2>6. \A q \in Requests : /\ Waits(q)' <=> Waits(q) /\ q \notin {r}
                              /\ Begun(q)' <=> Begun(q)
      BY <2>5 DEF Waits, Begun
    <2>7. Orders!Withdraw({r})
      <3>1. \A q \in Requests : op'[q].phase = "unused" <=> op[q].phase = "unused"
        BY <1>1, <2>3, <2>4
      <3> QED
        BY <2>6, <3>1, WorkWithdrawn
    <2>8. AtHome'
      BY <2>3, <2>4, <2>5, HomeKept
    <2> QED
      BY <1>1, <2>4, <2>7, <2>8 DEF Orders!Abandon
  <1>3. CASE ~(op[r].gone /\ ~disposed)
    <2>1. PICK o : o = [op[r] EXCEPT !.phase = "accepted", !.gone = FALSE]
      OBVIOUS
    <2>2. /\ o.phase = "accepted" /\ o.cancelled = op[r].cancelled
          /\ o.outcome = op[r].outcome /\ o.parent = op[r].parent
      BY <1>1, <2>1 DEF Request
    <2>3. /\ op'[r] = o /\ \A q \in Requests \ {r} : op'[q] = op[q]
          /\ UNCHANGED slots
      <3>1. op' = [op EXCEPT ![r] = o] /\ UNCHANGED slots
        BY <1>3, <2>1 DEF appendSucceeds, IInv, OperationTypes
      <3> QED
        BY <3>1 DEF IInv, OperationTypes
    <2>4. file' = [file EXCEPT ![r].status = "open"]
      <3>1. PICK f : f = FileOf(op[r])
        OBVIOUS
      <3>2. FileOf(o) = [f EXCEPT !.status = "open"]
        BY <2>2, <3>1, Statuses DEF FileOf
      <3>3. file' = [file EXCEPT ![r] = [f EXCEPT !.status = "open"]] /\ file[r] = f
        BY <2>3, <3>1, <3>2, FileOne, FileIs
      <3> QED
        BY <3>3
    <2>5. work' = work
      <3>1. \A z \in Sessions : Keeps(z)
        BY <2>3 DEF Keeps
      <3>2. \A q \in Requests : op'[q].phase = "unused" <=> op[q].phase = "unused"
        BY <1>1, <2>2, <2>3
      <3> QED
        BY <3>1, <3>2, WorkStays
    <2>6. AtHome'
      BY <2>2, <2>3, HomeKept
    <2> QED
      BY <1>1, <2>4, <2>5, <2>6 DEF Orders!Accept
  <1> QED
    BY <1>2, <1>3

(* The caller going away is on nobody's file yet.                          *)
LEMMA AbortIsSilent ==
  ASSUME IInv, SlotInv, SlotInv', AtHome, NEW r \in Requests, callerAborts(r)
  PROVE  UNCHANGED <<file, work>> /\ AtHome'
  <1>1. PICK o : o = [op[r] EXCEPT !.gone = TRUE]
    OBVIOUS
  <1>2. /\ o.phase = op[r].phase /\ o.cancelled = op[r].cancelled /\ o.session = op[r].session
        /\ o.outcome = op[r].outcome /\ o.parent = op[r].parent
    BY <1>1 DEF IInv, OperationTypes, Request
  <1>3. /\ op'[r] = o /\ \A q \in Requests \ {r} : op'[q] = op[q]
        /\ UNCHANGED slots
    <2>1. op' = [op EXCEPT ![r] = o] /\ UNCHANGED slots
      BY <1>1 DEF callerAborts, IInv, OperationTypes
    <2> QED
      BY <2>1 DEF IInv, OperationTypes
  <1>4. file' = file
    <2>1. FileOf(o) = FileOf(op[r])
      BY <1>2 DEF FileOf
    <2> QED
      BY <1>3, <2>1, FileNone
  <1>5. work' = work
    <2>1. \A z \in Sessions : Keeps(z)
      BY <1>3 DEF Keeps
    <2>2. \A q \in Requests : op'[q].phase = "unused" <=> op[q].phase = "unused"
      BY <1>2, <1>3
    <2> QED
      BY <2>1, <2>2, WorkStays
  <1>6. AtHome'
    BY <1>2, <1>3, HomeKept
  <1> QED
    BY <1>4, <1>5, <1>6

-----------------------------------------------------------------------------
(* Stops.                                                                  *)

(* What a stop makes of the file of a live operation.                      *)
LEMMA StopOnFile ==
  ASSUME NEW o \in Request, o.phase \in {"accepted", "running"}
  PROVE  /\ stop(o).phase = "terminal" => FileOf(stop(o)) = Orders!Aborted
         /\ stop(o).phase # "terminal" => FileOf(stop(o)) = Orders!Told(FileOf(o))
         /\ o.phase = "accepted" => stop(o).phase = "terminal"
         /\ stop(o).phase \in {"terminal", o.phase}
  <1>1. CASE o.phase = "accepted" \/ ~loopUp
    <2>1. stop(o) = [Settled(o, "aborted") EXCEPT !.cancelled = TRUE]
      BY <1>1 DEF stop
    <2>2. FileOf(stop(o)) = Orders!Aborted
      BY <2>1, EndedOnFile
    <2>3. stop(o).phase = "terminal"
      BY <2>1 DEF Settled, Request
    <2> QED
      BY <2>2, <2>3
  <1>2. CASE ~(o.phase = "accepted" \/ ~loopUp)
    <2>1. PICK u : u = [o EXCEPT !.cancelled = TRUE, !.timer = TRUE] /\ u = stop(o)
      BY <1>2 DEF stop
    <2>2. /\ u.phase = o.phase /\ u.cancelled = TRUE /\ u.outcome = o.outcome
          /\ u.parent = o.parent
      BY <2>1 DEF Request
    <2>3. FileOf(u) = Orders!Told(FileOf(o))
      BY <2>2 DEF FileOf, Orders!Told, Orders!File
    <2> QED
      BY <1>2, <2>1, <2>2, <2>3
  <1> QED
    BY <1>1, <1>2

LEMMA CancelStops ==
  ASSUME IInv, SlotInv, SlotInv', AtHome, NEW r \in Requests, cancel(r)
  PROVE  (\E S \in SUBSET {q \in Requests : Orders!Open(q)} : Orders!Stop(S)) /\ AtHome'
  <1>1. PICK S : S = StoppedWith(r)
    OBVIOUS
  <1>2. /\ op' = [q \in Requests |-> IF q \in S THEN stop(op[q]) ELSE op[q]]
        /\ slots' = [z \in Sessions |-> cancelAttempt(slots[z], S)]
        /\ ~disposed /\ live(r)
    BY <1>1 DEF cancel, requestCancel
  <1>3. /\ r \in S /\ \A q \in S : q \in Requests /\ live(q)
        /\ \A c \in Requests : live(c) /\ op[c].parent \in S => c \in S
    BY <1>1, <1>2, StopReaches
  <1>4. \A q \in Requests : Orders!Open(q) <=> live(q)
    BY FileIs, StatusIs DEF Orders!Open, live
  <1>5. \A c \in Requests : Orders!Open(c) /\ file[c].parent \in S => c \in S
    BY <1>3, <1>4, FileIs, StatusIs
  <1>6. PICK A : A = {q \in S : stop(op[q]).phase = "terminal"}
    OBVIOUS
  <1>7. ASSUME NEW q \in S
        PROVE  /\ q \in Requests /\ op[q] \in Request /\ op'[q] = stop(op[q])
               /\ q \in A => FileOf(op'[q]) = Orders!Aborted
               /\ q \notin A => FileOf(op'[q]) = Orders!Told(file[q])
               /\ op[q].phase = "accepted" => q \in A
               /\ op[q].phase \in {"accepted", "running"}
               /\ op'[q].phase \in {"terminal", "accepted", "running"}
    <2>1. q \in Requests /\ op[q] \in Request /\ op'[q] = stop(op[q])
      BY <1>2, <1>3 DEF IInv, OperationTypes
    <2>2. q \in A <=> stop(op[q]).phase = "terminal"
      BY <1>6
    <2>3. op[q].phase \in {"accepted", "running"}
      BY <1>3 DEF live
    <2> QED
      BY <2>1, <2>2, <2>3, StopOnFile, FileIs
  <1>8. \A q \in Requests \ S : op'[q] = op[q]
    BY <1>2
  <1>9. \A q \in S : work[q] = "waiting" => q \in A
    <2> SUFFICES ASSUME NEW q \in S, work[q] = "waiting" PROVE q \in A
      OBVIOUS
    <2>1. q \in Requests /\ op[q].phase \in {"accepted", "running"}
      BY <1>7
    <2>2. Waits(q)
      BY <2>1, WorkIs DEF WorkTells
    <2>3. op[q].phase \in {"appending", "accepted"}
      BY <1>2, <2>2 DEF Waits, Waiting, SlotInv, WaitingWanted, Wanted
    <2> QED
      BY <1>7, <2>1, <2>3
  <1>10. file' = [q \in Requests |->
                    IF q \in A THEN Orders!Aborted
                    ELSE IF q \in S THEN Orders!Told(file[q])
                    ELSE file[q]]
    <2>1. A \subseteq S
      BY <1>6
    <2>2. ASSUME NEW q \in Requests
          PROVE  file'[q] = IF q \in A THEN Orders!Aborted
                            ELSE IF q \in S THEN Orders!Told(file[q])
                            ELSE file[q]
      <3>1. CASE q \in S
        BY <1>7, <2>1, <3>1, FileIs
      <3>2. CASE q \notin S
        BY <1>8, <2>1, <3>2, FileIs
      <3> QED
        BY <3>1, <3>2
    <2> QED
      BY <2>2, FileIs
  <1>11. \A z \in Sessions : /\ Waiting(slots'[z]) = Waiting(slots[z]) \ S
                             /\ slots'[z].op = slots[z].op /\ slots'[z].follow = slots[z].follow
    BY <1>2, CancelWaits DEF SlotInv, SlotTypes
  <1>12. Orders!Withdraw(S)
    <2>1. \A q \in Requests : /\ Waits(q)' <=> Waits(q) /\ q \notin S
                              /\ Begun(q)' <=> Begun(q)
      BY <1>11 DEF Waits, Begun
    <2>2. \A q \in Requests : op'[q].phase = "unused" <=> op[q].phase = "unused"
      BY <1>7, <1>8
    <2> QED
      BY <2>1, <2>2, WorkWithdrawn
  <1>13. AtHome'
    <2>1. \A q \in Requests : op'[q].phase = "appending" => op'[q] = op[q]
      BY <1>7, <1>8
    <2> QED
      BY <1>11, <2>1, HomeKept
  <1>14. Orders!Stop(S)
    <2>1. S # {} /\ A \in SUBSET S
      BY <1>3, <1>6
    <2> QED
      BY <1>5, <1>9, <1>10, <1>12, <2>1 DEF Orders!Stop
  <1>15. S \in SUBSET {q \in Requests : Orders!Open(q)}
    BY <1>3, <1>4
  <1> QED
    BY <1>13, <1>14, <1>15

LEMMA TimeoutGivesUp ==
  ASSUME IInv, SlotInv, SlotInv', AtHome, StopsAwaited, NEW r \in Requests, confirmTimeout(r)
  PROVE  Orders!GiveUp(r) /\ AtHome'
  <1>1. /\ op[r] \in Request /\ live(r) /\ op[r].cancelled = TRUE
        /\ UNCHANGED slots
    BY DEF confirmTimeout, StopsAwaited, IInv, OperationTypes, Request
  <1>2. PICK o : o = Settled(op[r], "aborted")
    OBVIOUS
  <1>3. /\ op'[r] = o /\ \A q \in Requests \ {r} : op'[q] = op[q]
        /\ o.phase = "terminal"
    BY <1>1, <1>2 DEF confirmTimeout, Settled, Request, IInv, OperationTypes
  <1>4. file' = [file EXCEPT ![r] = Orders!Aborted]
    <2>1. FileOf(o) = Orders!Aborted
      BY <1>1, <1>2, EndedOnFile
    <2> QED
      BY <1>3, <2>1, FileOne
  <1>5. Orders!Open(r) /\ file[r].stopped
    BY <1>1, FileIs, StatusIs DEF Orders!Open, live
  <1>6. work' = work
    <2>1. \A z \in Sessions : Keeps(z)
      BY <1>1 DEF Keeps
    <2>2. \A q \in Requests : op'[q].phase = "unused" <=> op[q].phase = "unused"
      BY <1>1, <1>3 DEF live
    <2> QED
      BY <2>1, <2>2, WorkStays
  <1>7. AtHome'
    BY <1>1, <1>3, HomeKept
  <1> QED
    BY <1>4, <1>5, <1>6, <1>7 DEF Orders!GiveUp

-----------------------------------------------------------------------------
(* The turns of the loop.                                                  *)

LEMMA TurnBegins ==
  ASSUME IInv, SlotInv, SlotInv', AtHome, NEW s \in Sessions, turnBegins(s)
  PROVE  ((\E r \in Requests : Orders!Begin(r)) \/ Orders!Expire) /\ AtHome'
  <1>1. /\ slots'[s] = beginAttempt(slots[s])
        /\ \A z \in Sessions \ {s} : slots'[z] = slots[z]
        /\ slots[s] \in Slot
    BY DEF turnBegins, SlotInv, SlotTypes
  <1>2. PICK h : h = slots'[s].op
    OBVIOUS
  <1>3. op' = IF h # Nobody /\ ~disposed /\ live(h) THEN [op EXCEPT ![h].phase = "running"] ELSE op
    BY <1>1, <1>2 DEF turnBegins
  <1>4. ASSUME NEW q \in Requests
        PROVE  /\ op'[q].session = op[q].session
               /\ op'[q].phase = op[q].phase
                    \/ (op'[q].phase = "running" /\ op[q].phase \in {"accepted", "running"})
               /\ op'[q].cancelled = op[q].cancelled /\ op'[q].outcome = op[q].outcome
               /\ op'[q].parent = op[q].parent
    BY <1>3 DEF live, IInv, OperationTypes, Request
  <1>5. file' = file
    <2>1. ASSUME NEW q \in Requests PROVE FileOf(op'[q]) = FileOf(op[q])
      <3>1. StatusOf(op'[q].phase) = StatusOf(op[q].phase)
        BY <1>4, Statuses
      <3> QED
        BY <1>4, <3>1 DEF FileOf
    <2> QED
      BY <2>1, FileNone
  <1>6. \A q \in Requests : op'[q].phase = "unused" <=> op[q].phase = "unused"
    BY <1>4
  <1>7. /\ slots'[s].follow = slots[s].follow
        /\ Waiting(slots'[s]) \subseteq Waiting(slots[s])
    BY <1>1, BeginWaits
  <1>8. AtHome'
    <2>1. \A z \in Sessions : Waiting(slots'[z]) \subseteq Waiting(slots[z])
      BY <1>1, <1>7
    <2>2. \A q \in Requests : op'[q].phase = "appending" =>
             op[q].phase = "appending" /\ op'[q].session = op[q].session
      BY <1>4
    <2> QED
      BY <2>1, <2>2, HomeKept
  <1>9. CASE slots[s].pending # <<>>
    <2>1. TakenUp(h, s)
      BY <1>1, <1>2, <1>9, HeadIsTaken
    <2>2. h \in Waiting(slots[s]) /\ h \in Requests
      <3>1. h \in Waiting(slots[s])
        BY <2>1 DEF TakenUp, Waiting
      <3> QED
        BY <1>1, <3>1, SlotWaits
    <2>3. Waits(h) /\ ~Waits(h)' /\ Begun(h)'
      BY <1>2, <2>1, <2>2 DEF TakenUp, Waits, Waiting, Begun
    <2>4. Waiting(slots[s]) \subseteq Waiting(slots'[s]) \cup {h}
      BY <1>1, <1>2, BeginWaits
    <2>5. ASSUME NEW q \in Requests, q # h
          PROVE  (Waits(q)' <=> Waits(q)) /\ (Begun(q)' => Begun(q))
      <3>1. Waits(q)' <=> Waits(q)
        BY <1>1, <1>7, <2>4, <2>5 DEF Waits
      <3>2. Begun(q)' => Begun(q)
        BY <1>1, <1>2, <1>7, <2>5 DEF Begun
      <3> QED
        BY <3>1, <3>2
    <2> DEFINE lapsed == {q \in Requests : Begun(q) /\ ~Begun(q)'}
    <2>6. \A q \in lapsed : q \in Requests /\ work[q] = "begun"
      BY WorkIs DEF WorkTells
    <2>7. ASSUME NEW q \in Requests
          PROVE  work'[q] = IF q = h THEN "begun" ELSE IF q \in lapsed THEN "over" ELSE work[q]
      <3>1. CASE q = h
        BY <2>3, <3>1, WorkNext DEF WorkTells
      <3>2. CASE q # h
        BY <1>6, <2>5, <3>2, WorkIs, WorkNext DEF WorkTells
      <3> QED
        BY <3>1, <3>2
    <2>8. work[h] = "waiting"
      BY <2>2, <2>3, WorkIs DEF WorkTells
    <2> HIDE DEF lapsed
    <2>9. work' = [q \in Requests |->
                     IF q = h THEN "begun" ELSE IF q \in lapsed THEN "over" ELSE work[q]]
      BY <2>7, FileIs
    <2>10. lapsed \in SUBSET {q \in Requests : work[q] = "begun"}
      BY <2>6
    <2>11. Orders!Begin(h)
      BY <1>5, <2>8, <2>9, <2>10 DEF Orders!Begin
    <2> QED
      BY <1>8, <2>2, <2>11
  <1>10. CASE slots[s].pending = <<>>
    <2>1. slots'[s].pending = slots[s].pending /\ slots'[s].op = slots[s].follow
      BY <1>1, <1>10, FollowIsTaken
    <2>2. Waiting(slots'[s]) = Waiting(slots[s])
      BY <2>1 DEF Waiting
    <2>3. \A q \in Requests : (Waits(q)' <=> Waits(q)) /\ (Begun(q)' => Begun(q))
      BY <1>1, <1>7, <2>1, <2>2 DEF Waits, Begun
    <2>4. Orders!Lapse
      BY <1>6, <2>3, WorkLapses
    <2> QED
      BY <1>5, <1>8, <2>4 DEF Orders!Expire
  <1> QED
    BY <1>9, <1>10

LEMMA TurnReports ==
  ASSUME IInv, SlotInv, SlotInv', AtHome, NEW s \in Sessions, turnEnds(s)
  PROVE  ((\E r \in Requests : Orders!Report(r)) \/ Orders!Expire) /\ AtHome'
  <1>1. PICK queued \in BOOLEAN : slots' = [slots EXCEPT ![s] = endAttempt(slots[s], queued)]
    BY DEF turnEnds
  <1>2. /\ slots'[s] = endAttempt(slots[s], queued)
        /\ \A z \in Sessions \ {s} : slots'[z] = slots[z]
        /\ slots[s] \in Slot
    BY <1>1 DEF SlotInv, SlotTypes
  <1>3. /\ Waiting(slots'[s]) = Waiting(slots[s])
        /\ slots'[s].op = Nobody /\ slots'[s].follow \in {Nobody, slots[s].op}
    BY <1>2, EndWaits
  <1>4. \A q \in Requests : (Waits(q)' <=> Waits(q)) /\ (Begun(q)' => Begun(q))
    BY <1>2, <1>3, UnusedIsRequest DEF Waits, Begun
  <1>5. PICK r : r = slots[s].op
    OBVIOUS
  <1>6. PICK x \in Outcomes : ingestEnd(r, x)
    BY <1>5 DEF turnEnds
  <1>7. \A z \in Sessions : Waiting(slots'[z]) \subseteq Waiting(slots[z])
    BY <1>2, <1>3
  <1>8. CASE r # Nobody /\ ~disposed /\ live(r)
    <2>1. r \in Requests /\ op[r] \in Request /\ Begun(r)
      BY <1>2, <1>5, <1>8 DEF Slot, Begun, IInv, OperationTypes
    <2>2. PICK o : o = Settled(op[r], adjudicateTerminal(op[r], x))
      OBVIOUS
    <2>3. /\ op'[r] = o /\ \A q \in Requests \ {r} : op'[q] = op[q]
          /\ o.phase = "terminal"
      <3>1. op' = [op EXCEPT ![r] = o]
        BY <1>6, <1>8, <2>2 DEF ingestEnd
      <3>2. o.phase = "terminal"
        BY <2>1, <2>2 DEF Settled, Request
      <3> QED
        BY <2>1, <3>1, <3>2 DEF IInv, OperationTypes
    <2>4. FileOf(o) = IF file[r].stopped THEN Orders!Aborted ELSE Orders!Ended(file[r], x)
      <3>1. file[r] = FileOf(op[r]) /\ file[r].stopped = op[r].cancelled
        BY <2>1, FileIs, StatusIs
      <3>2. CASE op[r].cancelled = TRUE
        <4>1. o = Settled(op[r], "aborted")
          BY <2>2, <3>2 DEF adjudicateTerminal
        <4>2. FileOf(o) = Orders!Aborted
          BY <2>1, <3>2, <4>1, EndedOnFile
        <4> QED
          BY <3>1, <3>2, <4>2
      <3>3. CASE op[r].cancelled = FALSE
        <4>1. o = Settled(op[r], x)
          BY <2>2, <3>3 DEF adjudicateTerminal
        <4>2. FileOf(o) = Orders!Ended(FileOf(op[r]), x)
          BY <2>1, <4>1, EndedOnFile
        <4> QED
          BY <3>1, <3>3, <4>2
      <3> QED
        BY <2>1, <3>2, <3>3 DEF Request
    <2>5. file' = [file EXCEPT ![r] =
                     IF file[r].stopped THEN Orders!Aborted ELSE Orders!Ended(file[r], x)]
      <3>1. PICK f : f = IF file[r].stopped THEN Orders!Aborted ELSE Orders!Ended(file[r], x)
        OBVIOUS
      <3> QED
        BY <2>1, <2>3, <2>4, <3>1, FileOne
    <2>6. Orders!Open(r) /\ work[r] = "begun"
      BY <1>8, <2>1, FileIs, StatusIs, WorkIs DEF Orders!Open, live, WorkTells
    <2>7. Orders!Lapse
      <3>1. \A q \in Requests : op'[q].phase = "unused" <=> op[q].phase = "unused"
        BY <1>8, <2>3 DEF live
      <3> QED
        BY <1>4, <3>1, WorkLapses
    <2>8. Orders!Report(r)
      BY <2>5, <2>6, <2>7 DEF Orders!Report
    <2>9. AtHome'
      BY <1>7, <2>3, HomeKept
    <2> QED
      BY <2>1, <2>8, <2>9
  <1>9. CASE ~(r # Nobody /\ ~disposed /\ live(r))
    <2>1. op' = op
      BY <1>6, <1>9 DEF ingestEnd
    <2>2. file' = file
      BY <2>1, FileNone
    <2>3. Orders!Lapse
      BY <1>4, <2>1, WorkLapses
    <2>4. AtHome'
      BY <1>7, <2>1, HomeKept
    <2> QED
      BY <2>2, <2>3, <2>4 DEF Orders!Expire
  <1> QED
    BY <1>8, <1>9

(* The loop stops, and all work is lost with its slots.                    *)
LEMMA StopLoses ==
  ASSUME IInv, SlotInv, SlotInv', AtHome, loopStops
  PROVE  Orders!Lose /\ AtHome'
  <1>1. op' = op /\ \A z \in Sessions : slots'[z] = NoSlot
    BY DEF loopStops
  <1>2. \A z \in Sessions : /\ Waiting(slots'[z]) = {}
                            /\ slots'[z].op = Nobody /\ slots'[z].follow = Nobody
    BY <1>1 DEF NoSlot, Waiting
  <1>3. \A q \in Requests : ~Waits(q)' /\ ~Begun(q)'
    BY <1>2, UnusedIsRequest DEF Waits, Begun
  <1>4. file' = file
    BY <1>1, FileNone
  <1>5. ASSUME NEW q \in Requests
        PROVE  work'[q] = IF work[q] = "none" THEN "none" ELSE "over"
    BY <1>1, <1>3, WorkIs, WorkNext DEF WorkTells
  <1>6. work' = [q \in Requests |-> IF work[q] = "none" THEN "none" ELSE "over"]
    BY <1>5, FileIs
  <1>7. AtHome'
    BY <1>2 DEF AtHome
  <1> QED
    BY <1>4, <1>6, <1>7 DEF Orders!Lose

LEMMA DisposeForgets ==
  ASSUME IInv, SlotInv, SlotInv', AtHome, dispose
  PROVE  Orders!Forget /\ AtHome'
  <1>1. PICK o : o = [Unused EXCEPT !.phase = "dropped"]
    OBVIOUS
  <1>2. FileOf(o) = Orders!Void /\ o.phase = "dropped"
    BY <1>1, NewOnFile DEF Unused
  <1>3. UNCHANGED slots /\ \A q \in Requests : op'[q] = IF live(q) THEN o ELSE op[q]
    BY <1>1 DEF dispose
  <1>4. \A q \in Requests : Orders!Open(q) <=> live(q)
    BY FileIs, StatusIs DEF Orders!Open, live
  <1>5. ASSUME NEW q \in Requests
        PROVE  file'[q] = IF Orders!Open(q) THEN Orders!Void ELSE file[q]
    BY <1>2, <1>3, <1>4, FileIs
  <1>6. file' = [q \in Requests |-> IF Orders!Open(q) THEN Orders!Void ELSE file[q]]
    BY <1>5, FileIs
  <1>7. work' = work
    <2>1. \A z \in Sessions : Keeps(z)
      BY <1>3 DEF Keeps
    <2>2. \A q \in Requests : op'[q].phase = "unused" <=> op[q].phase = "unused"
      BY <1>2, <1>3 DEF live
    <2> QED
      BY <2>1, <2>2, WorkStays
  <1>8. AtHome'
    BY <1>2, <1>3, HomeKept
  <1> QED
    BY <1>6, <1>7, <1>8 DEF Orders!Forget

(* A turn that breaks and a loop that returns are silent.                  *)
LEMMA SilentSteps ==
  ASSUME SlotInv, SlotInv', AtHome, UNCHANGED <<op, slots>>
  PROVE  UNCHANGED <<file, work>> /\ AtHome'
  <1>1. file' = file
    BY FileNone
  <1>2. work' = work
    BY WorkStays DEF Keeps
  <1> QED
    BY <1>1, <1>2 DEF AtHome

-----------------------------------------------------------------------------
(* The refinement.                                                         *)

LEMMA OrdersStep ==
  ASSUME IInv, SlotInv, SlotInv', AtHome, StopsAwaited, [Next]_vars
  PROVE  [Orders!Next]_<<file, work>> /\ AtHome'
  <1>1. ASSUME NEW r \in Requests, NEW s \in Sessions, NEW k \in Keys \cup {NoKey},
               request(r, s, k) \/ requestBare(r, s, k) \/ requestRepeated(r, s, k)
        PROVE  Orders!Next /\ AtHome'
    BY <1>1, RequestAsks, RepeatedAsks DEF Orders!Next
  <1>2. ASSUME NEW r \in Requests, appendSucceeds(r) \/ appendFails(r) \/ confirmTimeout(r)
        PROVE  Orders!Next /\ AtHome'
    BY <1>2, SuccessAccepts, FailureRefuses, TimeoutGivesUp DEF Orders!Next
  <1>3. ASSUME NEW r \in Requests, callerAborts(r)
        PROVE  UNCHANGED <<file, work>> /\ AtHome'
    BY <1>3, AbortIsSilent
  <1>4. ASSUME NEW r \in Requests, cancel(r)
        PROVE  Orders!Next /\ AtHome'
    BY <1>4, CancelStops DEF Orders!Next
  <1>5. ASSUME NEW s \in Sessions, turnBegins(s) \/ turnEnds(s)
        PROVE  Orders!Next /\ AtHome'
    BY <1>5, TurnBegins, TurnReports DEF Orders!Next
  <1>6. CASE loopStops \/ dispose
    BY <1>6, StopLoses, DisposeForgets DEF Orders!Next
  <1>7. CASE loopReturns \/ UNCHANGED vars \/ \E s \in Sessions : turnBreaks(s)
    BY <1>7, SilentSteps DEF loopReturns, vars, turnBreaks
  <1> QED
    BY <1>1, <1>2, <1>3, <1>4, <1>5, <1>6, <1>7 DEF Next

LEMMA OrdersInit == Init => Orders!Init /\ AtHome
  <1> SUFFICES ASSUME Init PROVE Orders!Init /\ AtHome
    OBVIOUS
  <1>1. op = [r \in Requests |-> Unused] /\ slots = [s \in Sessions |-> NoSlot]
    BY DEF Init
  <1>2. \A r \in Requests : op[r] = Unused /\ op[r].phase = "unused"
    BY <1>1 DEF Unused
  <1>3. file = [r \in Requests |-> Orders!NoFile]
    BY <1>2, NewOnFile DEF file
  <1>4. work = [r \in Requests |-> "none"]
    BY <1>2 DEF work, WorkOf
  <1>5. AtHome
    BY <1>1 DEF AtHome, NoSlot, Waiting
  <1> QED
    BY <1>3, <1>4, <1>5 DEF Orders!Init

(* The authority over the slots of the loop keeps what WorkOrder promises: *)
(* the work of a request is begun once and never after it was withdrawn,   *)
(* its outcome is said once, by its own work or a stop that came first,    *)
(* and a stop that reaches a request reaches all below it in the step.     *)
THEOREM Refinement == Spec => ImplementsWorkOrder
  <1>1. Init => Orders!Init /\ AtHome
    BY OrdersInit
  <1>2. IInv /\ SlotInv /\ SlotInv' /\ StopsAwaited /\ AtHome /\ [Next]_vars
          => [Orders!Next]_(Orders!vars) /\ AtHome'
    BY OrdersStep DEF Orders!vars
  <1> QED
    BY <1>1, <1>2, StopsInvariance, SlotsInvariance, PTL
       DEF Spec, ImplementsWorkOrder, Orders!Spec
=============================================================================
