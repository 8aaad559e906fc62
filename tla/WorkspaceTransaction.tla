------------------------ MODULE WorkspaceTransaction ------------------------
(***************************************************************************)
(* One workspace mutation transaction (lib/workspace-mutation-transaction.js *)
(* over the registries of lib/workspace-transaction-adapters.js), driven by *)
(* concurrent calls of prepare, record, commit, rollback and recover, over  *)
(* a coordination lease that may be retired or taken over at any moment.    *)
(*                                                                         *)
(* A call runs without a pause between two awaits; a step below is one     *)
(* such stretch.  Every call works on the snapshot of the record that it   *)
(* read first, and writes by compare-and-swap on that snapshot's revision. *)
(* Calls that only read (preview, get, observe) are left out, and so are   *)
(* the outcomes of a call that change nothing.  Disposing the facade is a  *)
(* store that refuses every write from then on, which a step may meet at   *)
(* any moment.                                                             *)
(***************************************************************************)
EXTENDS Naturals, FiniteSets

CONSTANTS
    Calls,          \* slots for concurrent calls
    Rollbackable,   \* mutations a declared adapter can restore
    External,       \* mutations with an external or unknown side effect
    Files,          \* file resources that prepare must claim
    Durable,        \* the registry is the storage-domain one
    None,           \* no record, no owner of a claim
    MaxStarts,      \* bound: calls started in all
    MaxGeneration   \* bound: grants of the lease

Mutations == Rollbackable \cup External

ASSUME TransactionAssumption ==
    /\ Rollbackable \cap External = {}
    /\ Durable \in BOOLEAN
    /\ None \notin Calls
    /\ MaxStarts \in Nat /\ MaxGeneration \in Nat

VARIABLES
    rec,        \* the registry's record, or NoRecord
    call,       \* what each slot is doing
    starts,     \* calls started so far
    fence,      \* generation of the lease's latest grant
    live,       \* whether that grant still holds
    claims,     \* which prepare holds the claim of each file
    ledger,     \* change-ledger entries appended for this transaction
    restored,   \* mutations an adapter confirmed as restored
    acked,      \* mutations whose record call was answered "recorded"
    told        \* outcomes that a caller was told

vars == <<rec, call, starts, fence, live, claims, ledger, restored, acked, told>>

-----------------------------------------------------------------------------
(* Records and the state table.                                            *)

States == {"absent", "prepared", "committing", "committed", "rolling-back",
           "rolled-back", "recovering", "failed", "unknown"}

Terminal == {"committed", "rolled-back", "failed"}

Record == [state : States, revision : Nat, generation : Nat, by : Calls \cup {None},
           mutations : SUBSET Mutations, approved : BOOLEAN]

NoRecord == [state |-> "absent", revision |-> 0, generation |-> 0, by |-> None,
             mutations |-> {}, approved |-> FALSE]

(* The state table of canTransition, less the superseded state, which no   *)
(* operation writes.                                                       *)
successors(from) ==
    CASE from = "prepared"     -> {"committing", "rolling-back", "recovering", "failed"}
      [] from = "committing"   -> {"committed", "recovering", "failed"}
      [] from = "rolling-back" -> {"rolled-back", "recovering", "failed"}
      [] from = "recovering"   -> {"committed", "rolled-back", "failed", "unknown"}
      [] from = "unknown"      -> {"recovering"}
      [] OTHER                 -> {}

canTransition(from, to) == to \in successors(from)

-----------------------------------------------------------------------------
(* Calls.                                                                  *)

Steps == {"idle",
          "prepare fence", "prepare claim", "prepare clean", "prepare bind", "prepare write",
          "record fence", "record write",
          "commit fence", "commit approve", "commit start", "commit append",
          "commit finish", "commit fail",
          "rollback fence", "rollback divert", "rollback start", "rollback restore",
          "rollback partial", "rollback finish", "rollback fail",
          "recover query", "recover confirm", "recover continue", "recover park",
          "recover reopen", "recover again"}

(* snap is the record the call works on, item the mutation of a record;    *)
(* held remembers, for a property, whether the lease held at the start.    *)
Call == [at : Steps, snap : Record, item : Mutations \cup {None}, held : BOOLEAN]

Idle == [at |-> "idle", snap |-> NoRecord, item |-> None, held |-> FALSE]

GoTo(c, step) == call' = [call EXCEPT ![c].at = step]
GoWith(c, step, snap) == call' = [call EXCEPT ![c].at = step, ![c].snap = snap]
Return(c) == call' = [call EXCEPT ![c] = Idle]

(* A call starts and reads the record; item and generation are arguments.  *)
Start(c, step, snap, item) ==
    /\ call[c] = Idle
    /\ starts < MaxStarts
    /\ starts' = starts + 1
    /\ call' = [call EXCEPT ![c] = [at |-> step, snap |-> snap, item |-> item,
                                    held |-> live]]
    /\ UNCHANGED <<rec, fence, live, claims, ledger, restored, acked, told>>

(* Everything but the record and the call itself stays as it is.           *)
Others == UNCHANGED <<starts, fence, live, claims, ledger, restored, acked>>

(* validateFencing reads the lease once, at the moment of the step; when   *)
(* the lease cannot be read the call is turned down as well.               *)
fencingValid(generation) == live /\ fence = generation

(* Mutant: the registry writes without comparing the revision.             *)
writeCasBlind(expected, next) == rec' = [next EXCEPT !.revision = expected + 1]

(* The registry's compare-and-swap.                                        *)
writeCas(expected, next) ==
    /\ rec.revision = expected
    /\ rec' = [next EXCEPT !.revision = expected + 1]

publishTransition(c, to) ==
    LET snap == call[c].snap IN
    /\ canTransition(snap.state, to)
    /\ writeCas(snap.revision, [snap EXCEPT !.state = to])

(* The call publishes a state and goes on with the record it wrote.        *)
PublishAndGo(c, to, step) ==
    /\ publishTransition(c, to)
    /\ GoWith(c, step, rec')
    /\ Others /\ UNCHANGED told

(* The call publishes a state and answers with it.                         *)
PublishAndTell(c, to) ==
    /\ publishTransition(c, to)
    /\ Return(c)
    /\ told' = told \cup {to}
    /\ Others

(* The registry refuses the write, on a conflict or for the store's own    *)
(* reasons, and the call goes on knowing that it did; but a durable unit   *)
(* that answers with a promise is taken for a failure while it has stored. *)
NotWritten(c, to, step) ==
    /\ UNCHANGED rec \/ (Durable /\ publishTransition(c, to))
    /\ IF step = "idle" THEN Return(c) ELSE GoTo(c, step)
    /\ Others /\ UNCHANGED told

(* The call goes on, or ends without an outcome; nothing is stored.        *)
Proceed(c, step) ==
    /\ GoTo(c, step)
    /\ Others /\ UNCHANGED <<rec, told>>

GiveUp(c) ==
    /\ Return(c)
    /\ Others /\ UNCHANGED <<rec, told>>

-----------------------------------------------------------------------------
(* prepare.                                                                *)

(* The caller's lease evidence names some generation granted so far.       *)
prepare(c) ==
    /\ rec = NoRecord
    /\ \E g \in 1 .. fence :
          Start(c, "prepare fence", [NoRecord EXCEPT !.state = "prepared",
                                                     !.generation = g, !.by = c], None)

prepareFence(c) ==
    /\ call[c].at = "prepare fence"
    /\ \/ fencingValid(call[c].snap.generation) /\ Proceed(c, "prepare claim")
       \/ GiveUp(c)

Claimed(c) == {f \in Files : claims[f] = c}

(* Files are claimed one await at a time; the claim seam refuses a file    *)
(* that another prepare holds, and may refuse any.                         *)
prepareClaim(c) ==
    /\ call[c].at = "prepare claim"
    /\ \/ /\ Claimed(c) = Files
          /\ Proceed(c, "prepare bind")
       \/ \E f \in Files \ Claimed(c) :
             /\ claims[f] = None
             /\ claims' = [claims EXCEPT ![f] = c]
             /\ UNCHANGED <<rec, call, starts, fence, live, ledger, restored, acked, told>>
       \/ /\ Claimed(c) # Files
          /\ Proceed(c, "prepare clean")

(* A refused claim releases the claims made so far.                        *)
prepareClean(c) ==
    /\ call[c].at = "prepare clean"
    /\ claims' = [f \in Files |-> IF claims[f] = c THEN None ELSE claims[f]]
    /\ Return(c)
    /\ UNCHANGED <<rec, starts, fence, live, ledger, restored, acked, told>>

(* The declared checkpoint is bound and the declared approval confirmed.   *)
prepareBind(c) ==
    /\ call[c].at = "prepare bind"
    /\ \/ /\ \E approved \in BOOLEAN :
                GoWith(c, "prepare write", [call[c].snap EXCEPT !.approved = approved])
          /\ Others /\ UNCHANGED <<rec, told>>
       \/ GiveUp(c)

prepareWrite(c) ==
    /\ call[c].at = "prepare write"
    /\ \/ /\ writeCas(0, call[c].snap)
          /\ Return(c)
          /\ Others /\ UNCHANGED told
       \/ GiveUp(c)

-----------------------------------------------------------------------------
(* record.                                                                 *)

record(c) ==
    /\ rec.state = "prepared"
    /\ \E m \in Mutations : Start(c, "record fence", rec, m)

(* A mutation that the snapshot holds already is answered at once.         *)
recordFence(c) ==
    LET snap == call[c].snap IN
    /\ call[c].at = "record fence"
    /\ \/ /\ fencingValid(snap.generation)
          /\ call[c].item \notin snap.mutations
          /\ Proceed(c, "record write")
       \/ /\ fencingValid(snap.generation)
          /\ call[c].item \in snap.mutations
          /\ acked' = acked \cup {call[c].item}
          /\ Return(c)
          /\ UNCHANGED <<rec, starts, fence, live, claims, ledger, restored, told>>
       \/ GiveUp(c)

(* Mutant: a recording puts its snapshot back without a compare.           *)
recordWriteBlind(c) ==
    LET snap == call[c].snap IN
    /\ call[c].at = "record write"
    /\ rec' = [snap EXCEPT !.mutations = snap.mutations \cup {call[c].item},
                           !.revision = snap.revision + 1]
    /\ acked' = acked \cup {call[c].item}
    /\ Return(c)
    /\ UNCHANGED <<starts, fence, live, claims, ledger, restored, told>>

(* A recording that the unit answers with a promise is stored but unknown. *)
recordWrite(c) ==
    LET snap == call[c].snap IN
    /\ call[c].at = "record write"
    /\ \/ /\ writeCas(snap.revision,
                      [snap EXCEPT !.mutations = snap.mutations \cup {call[c].item}])
          /\ acked' = acked \cup {call[c].item} \/ (Durable /\ UNCHANGED acked)
          /\ Return(c)
          /\ UNCHANGED <<starts, fence, live, claims, ledger, restored, told>>
       \/ GiveUp(c)

-----------------------------------------------------------------------------
(* commit.                                                                 *)

commit(c) ==
    \/ rec.state = "prepared" /\ Start(c, "commit fence", rec, None)
    \/ /\ rec.state = "committed" /\ call[c] = Idle
       /\ told' = told \cup {"committed"}
       /\ UNCHANGED call /\ Others /\ UNCHANGED rec

commitFence(c) ==
    /\ call[c].at = "commit fence"
    /\ \/ fencingValid(call[c].snap.generation) /\ Proceed(c, "commit approve")
       \/ GiveUp(c)

(* External effects need an approval, recorded before or confirmed now.    *)
commitApprove(c) ==
    LET snap == call[c].snap IN
    /\ call[c].at = "commit approve"
    /\ \/ /\ snap.approved \/ snap.mutations \cap External = {}
          /\ Proceed(c, "commit start")
       \/ /\ snap.mutations \cap External # {} /\ ~snap.approved
          /\ \/ /\ GoWith(c, "commit start", [snap EXCEPT !.approved = TRUE])
                /\ Others /\ UNCHANGED <<rec, told>>
             \/ GiveUp(c)

(* Mutant: the committing state is published from a fresh read, not from   *)
(* the record that was checked.                                            *)
commitStartFresh(c) ==
    /\ call[c].at = "commit start"
    /\ rec.state = "prepared"
    /\ rec' = [rec EXCEPT !.state = "committing", !.revision = rec.revision + 1]
    /\ GoWith(c, "commit append", rec')
    /\ Others /\ UNCHANGED told

(* Mutant: the ledger is appended before the committing state is published. *)
commitStartLate(c) ==
    /\ call[c].at = "commit start"
    /\ Proceed(c, "commit append")

commitStart(c) ==
    /\ call[c].at = "commit start"
    /\ \/ PublishAndGo(c, "committing", "commit append")
       \/ NotWritten(c, "committing", "idle")

(* A change ledger is told when there is one.  An append that it refuses   *)
(* fails the commit, and so does one that it makes but answers with a      *)
(* promise.                                                                *)
commitAppend(c) ==
    /\ call[c].at = "commit append"
    /\ \/ /\ ledger' = ledger + 1
          /\ GoTo(c, "commit finish") \/ GoTo(c, "commit fail")
          /\ UNCHANGED <<rec, starts, fence, live, claims, restored, acked, told>>
       \/ Proceed(c, "commit finish")
       \/ Proceed(c, "commit fail")

(* Mutant: the answer does not wait for the publication.                   *)
commitFinishUnchecked(c) ==
    /\ call[c].at = "commit finish"
    /\ rec' = rec \/ publishTransition(c, "committed")
    /\ Return(c)
    /\ told' = told \cup {"committed"}
    /\ Others

commitFinish(c) ==
    /\ call[c].at = "commit finish"
    /\ \/ PublishAndTell(c, "committed")
       \/ NotWritten(c, "committed", "commit fail")

commitFail(c) ==
    /\ call[c].at = "commit fail"
    /\ PublishAndTell(c, "failed") \/ NotWritten(c, "failed", "idle")

-----------------------------------------------------------------------------
(* rollback.                                                               *)

rollback(c) ==
    \/ /\ rec.state \notin {"absent", "rolled-back", "committed"}
       /\ Start(c, "rollback fence", rec, None)
    \/ /\ rec.state = "rolled-back" /\ call[c] = Idle
       /\ told' = told \cup {"rolled-back"}
       /\ UNCHANGED call /\ Others /\ UNCHANGED rec

(* The transaction's own lease is validated or, when that is stale, the    *)
(* evidence of a takeover, which is valid for the current grant.           *)
rollbackFence(c) ==
    LET snap == call[c].snap IN
    /\ call[c].at = "rollback fence"
    /\ \/ /\ live
          /\ Proceed(c, IF snap.state = "committing" THEN "rollback divert"
                             ELSE "rollback start")
       \/ GiveUp(c)

(* An interrupted commit is only handed to recovery.                       *)
rollbackDivert(c) ==
    /\ call[c].at = "rollback divert"
    /\ PublishAndTell(c, "recovering") \/ NotWritten(c, "recovering", "idle")

rollbackStart(c) ==
    /\ call[c].at = "rollback start"
    /\ \/ PublishAndGo(c, "rolling-back", "rollback restore")
       \/ NotWritten(c, "rolling-back", "idle")

(* Each rollbackable mutation is restored by its adapter or is not; one    *)
(* that claimed a file is undone by releasing the claim.                   *)
rollbackRestore(c) ==
    LET wanted == call[c].snap.mutations \cap Rollbackable IN
    /\ call[c].at = "rollback restore"
    /\ \E done \in SUBSET wanted :
          /\ restored' = restored \cup done
          /\ GoTo(c, IF done = wanted THEN "rollback finish" ELSE "rollback partial")
    /\ \E freed \in SUBSET Claimed(call[c].snap.by) :
          /\ freed # {} => wanted # {}
          /\ claims' = [f \in Files |-> IF f \in freed THEN None ELSE claims[f]]
    /\ UNCHANGED <<rec, starts, fence, live, ledger, acked, told>>

(* Mutant: a partial rollback writes a state outside the table.            *)
rollbackPartialSuperseded(c) ==
    /\ call[c].at = "rollback partial"
    /\ writeCas(call[c].snap.revision, [call[c].snap EXCEPT !.state = "superseded"])
    /\ Return(c)
    /\ Others /\ UNCHANGED told

rollbackPartial(c) ==
    /\ call[c].at = "rollback partial"
    /\ LET to == IF Durable THEN "recovering" ELSE "failed" IN
          PublishAndTell(c, to) \/ NotWritten(c, to, "idle")

rollbackFinish(c) ==
    /\ call[c].at = "rollback finish"
    /\ \/ PublishAndTell(c, "rolled-back")
       \/ NotWritten(c, "rolled-back", "rollback fail")

rollbackFail(c) ==
    /\ call[c].at = "rollback fail"
    /\ PublishAndTell(c, "failed") \/ NotWritten(c, "failed", "idle")

-----------------------------------------------------------------------------
(* recover.                                                                *)

(* Where recover goes on from a state that was interrupted.                *)
recoverStep(state) ==
    CASE state = "unknown"      -> "recover reopen"
      [] state = "committing"   -> "recover query"
      [] state = "rolling-back" -> "recover continue"
      [] state = "recovering"   -> "recover park"

Interrupted == {"unknown", "committing", "rolling-back", "recovering"}

(* Only a durable registry recovers; a state that was not interrupted is   *)
(* reported as it is.                                                      *)
recover(c) ==
    /\ Durable
    /\ rec.state \in Interrupted
    /\ Start(c, recoverStep(rec.state), rec, None)

(* An unknown state is reopened, and recover starts over with a new read.  *)
recoverReopen(c) ==
    /\ call[c].at = "recover reopen"
    /\ \/ PublishAndGo(c, "recovering", "recover again")
       \/ NotWritten(c, "recovering", "idle")

recoverAgain(c) ==
    /\ call[c].at = "recover again"
    /\ \/ /\ rec.state \in Interrupted
          /\ GoWith(c, recoverStep(rec.state), rec)
          /\ Others /\ UNCHANGED <<rec, told>>
       \/ rec.state \notin Interrupted /\ GiveUp(c)

(* Without a ledger, or when the query fails, there is no evidence.        *)
recoverQuery(c) ==
    /\ call[c].at = "recover query"
    /\ \/ ledger > 0 /\ Proceed(c, "recover confirm")
       \/ Proceed(c, "recover continue")

recoverConfirm(c) ==
    /\ call[c].at = "recover confirm"
    /\ PublishAndTell(c, "committed") \/ NotWritten(c, "committed", "idle")

recoverContinue(c) ==
    /\ call[c].at = "recover continue"
    /\ \/ PublishAndGo(c, "recovering", "recover park")
       \/ NotWritten(c, "recovering", "idle")

recoverPark(c) ==
    /\ call[c].at = "recover park"
    /\ PublishAndTell(c, "unknown") \/ NotWritten(c, "unknown", "idle")

-----------------------------------------------------------------------------
(* The environment and the specification.                                  *)

(* The lease as FencedLease promises it: granted anew, by acquisition or   *)
(* takeover, or retired.                                                   *)
leaseGrant ==
    /\ fence < MaxGeneration
    /\ fence' = fence + 1
    /\ live' = TRUE
    /\ UNCHANGED <<rec, call, starts, claims, ledger, restored, acked, told>>

leaseRetire ==
    /\ live
    /\ live' = FALSE
    /\ UNCHANGED <<rec, fence, call, starts, claims, ledger, restored, acked, told>>

(* The process dies: its calls are gone, what was persisted stays.         *)
crash ==
    /\ Durable
    /\ \E c \in Calls : call[c] # Idle
    /\ call' = [c \in Calls |-> Idle]
    /\ Others /\ UNCHANGED <<rec, told>>

Init ==
    /\ rec = NoRecord
    /\ call = [c \in Calls |-> Idle]
    /\ starts = 0
    /\ fence = 0 /\ live = FALSE
    /\ claims = [f \in Files |-> None]
    /\ ledger = 0
    /\ restored = {} /\ acked = {} /\ told = {}

Next ==
    \/ \E c \in Calls :
          \/ prepare(c) \/ prepareFence(c) \/ prepareClaim(c) \/ prepareClean(c)
          \/ prepareBind(c) \/ prepareWrite(c)
          \/ record(c) \/ recordFence(c) \/ recordWrite(c)
          \/ commit(c) \/ commitFence(c) \/ commitApprove(c) \/ commitStart(c)
          \/ commitAppend(c) \/ commitFinish(c) \/ commitFail(c)
          \/ rollback(c) \/ rollbackFence(c) \/ rollbackDivert(c) \/ rollbackStart(c)
          \/ rollbackRestore(c) \/ rollbackPartial(c) \/ rollbackFinish(c) \/ rollbackFail(c)
          \/ recover(c) \/ recoverReopen(c) \/ recoverAgain(c) \/ recoverQuery(c)
          \/ recoverConfirm(c) \/ recoverContinue(c) \/ recoverPark(c)
    \/ leaseGrant \/ leaseRetire \/ crash

Spec == Init /\ [][Next]_vars

-----------------------------------------------------------------------------
(* Properties.                                                             *)

(* Every variable keeps its type.                                          *)
TypeOK ==
    /\ rec \in Record
    /\ call \in [Calls -> Call]
    /\ starts \in Nat /\ fence \in Nat /\ ledger \in Nat
    /\ live \in BOOLEAN
    /\ claims \in [Files -> Calls \cup {None}]
    /\ restored \subseteq Mutations /\ acked \subseteq Mutations
    /\ told \subseteq States

(* The concurrent calls, on snapshots that may be old, with a lease that   *)
(* comes and goes, writes of unknown fate and crashes, amount to one       *)
(* transaction that takes one step after another: it is committed or       *)
(* undone, its outcome is final in the record, in the ledger and in the    *)
(* workspace, and what was interrupted is parked for good.                 *)
Transaction == INSTANCE AtomicMutation WITH
    state <- rec.state, mutations <- rec.mutations, approved <- rec.approved,
    listed <- ledger > 0, undone <- restored

ImplementsAtomicMutation == Transaction!Spec

(* A caller is never told an outcome that another caller's answer, or the  *)
(* record, contradicts.                                                    *)
OutcomesAgree ==
    \A o \in told \cap Terminal : rec.state = o

(* A mutation whose recording was confirmed stays in the record, although  *)
(* other calls write the whole record from their own snapshots.            *)
NoRecordedMutationLost == acked \subseteq rec.mutations

(* The ledger lists a transaction once at most, and one that it lists is   *)
(* never undone: a rollback and a commit that race leave one of the two.   *)
LedgerMatchesCommit ==
    /\ ledger <= 1
    /\ ledger = 1 => /\ rec.state \notin {"prepared", "rolling-back", "rolled-back"}
                     /\ restored = {}

(* No commit starts on an external effect that nobody approved, not even   *)
(* when the effect is recorded while the commit is being checked.          *)
ExternalEffectsApproved ==
    rec.state \in {"committing", "committed"} /\ rec.mutations \cap External # {} =>
        rec.approved

(* A transaction is rolled back only when every rollbackable mutation it   *)
(* holds was confirmed as restored, and one that committed never was.      *)
RolledBackMeansRestored ==
    /\ rec.state = "rolled-back" => rec.mutations \cap Rollbackable \subseteq restored
    /\ rec.state = "committed" => restored = {}

(* A stale owner cannot recover: recover changes the record only when the  *)
(* lease held as the call started or holds now.                            *)
RecoverSteps == {"recover reopen", "recover confirm", "recover continue", "recover park"}

StaleOwnerNeverRecovers ==
    [][ \A c \in Calls :
          call[c].at \in RecoverSteps /\ call'[c] # call[c] /\ rec' # rec =>
            live \/ call[c].held ]_vars

(* A claim is held by a prepare under way or by the one that made the      *)
(* record.                                                                 *)
FailedPrepareHoldsNoClaim ==
    \A f \in Files : claims[f] # None =>
        \/ call[claims[f]].at \in {"prepare claim", "prepare clean", "prepare bind", "prepare write"}
        \/ rec.by = claims[f]
=============================================================================
