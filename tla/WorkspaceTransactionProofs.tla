---------------------- MODULE WorkspaceTransactionProofs ----------------------
(***************************************************************************)
(* Proofs about WorkspaceTransaction, for every number of concurrent calls *)
(* and of starts, any mutations, files and lease grants, with a durable    *)
(* registry or without.                                                    *)
(***************************************************************************)
EXTENDS WorkspaceTransaction, TLAPS

-----------------------------------------------------------------------------
(* The inductive invariant.                                                *)

PrepareSteps ==
    {"prepare fence", "prepare claim", "prepare clean", "prepare bind", "prepare write"}

(* The state of the record a call works on, by where the call is.          *)
SnapshotState(k) ==
    /\ k.at = "idle" => k = Idle
    /\ k.at \in PrepareSteps \cup {"record fence", "record write", "commit fence",
                                   "commit approve", "commit start"} =>
           k.snap.state = "prepared"
    /\ k.at \in {"commit append", "commit finish", "commit fail", "rollback divert",
                 "recover query", "recover confirm"} =>
           k.snap.state = "committing"
    /\ k.at \in {"rollback restore", "rollback partial", "rollback finish", "rollback fail"} =>
           k.snap.state = "rolling-back"
    /\ k.at = "recover continue" => k.snap.state \in {"committing", "rolling-back"}
    /\ k.at \in {"record fence", "record write"} => k.item \in Mutations

(* A snapshot is the record, or older than it and then unable to replace   *)
(* it; the record has every mutation an older snapshot had.                *)
SnapshotAge(k) ==
    /\ k.snap.revision <= rec.revision
    /\ k.snap.mutations \subseteq rec.mutations
    /\ k.at \in PrepareSteps => k.snap.revision = 0
    /\ k.at \notin PrepareSteps \cup {"idle"} =>
           /\ k.snap.revision > 0
           /\ k.snap.revision = rec.revision =>
                  k.snap.state = rec.state /\ k.snap.mutations = rec.mutations

Approved(r) == r.mutations \cap External # {} => r.approved

(* What a call is about to publish has been checked.                       *)
SnapshotChecked(k) ==
    /\ k.at = "commit start" \/ k.snap.state \in {"committing", "committed"} => Approved(k.snap)
    /\ k.at = "rollback finish" => k.snap.mutations \cap Rollbackable \subseteq restored

Sound(k) == SnapshotState(k) /\ SnapshotAge(k) /\ SnapshotChecked(k)

RecordExists ==
    /\ rec.state = "absent" <=> rec.revision = 0
    /\ rec.state = "absent" => rec.mutations = {}

(* Somebody started to commit, or to roll back: it shows in the record, in *)
(* a snapshot or in what was done, and at most one of the two ever shows.  *)
CommitBegun ==
    \/ rec.state \in {"committing", "committed"} \/ ledger > 0
    \/ \E c \in Calls : call[c].snap.state = "committing"

RollbackBegun ==
    \/ rec.state \in {"rolling-back", "rolled-back"} \/ restored # {}
    \/ \E c \in Calls : call[c].snap.state = "rolling-back"

OneWay ==
    /\ ~(CommitBegun /\ RollbackBegun)
    /\ rec.state \in {"absent", "prepared"} => ~CommitBegun /\ ~RollbackBegun

(* One call at most is about to append to the ledger, which is empty then. *)
AppendOnce ==
    /\ ledger <= 1
    /\ \A c \in Calls : call[c].at = "commit append" =>
          ledger = 0 /\ \A d \in Calls : call[d].at = "commit append" => d = c

IInv ==
    /\ TypeOK /\ OutcomesAgree /\ NoRecordedMutationLost
    /\ ExternalEffectsApproved /\ RolledBackMeansRestored
    /\ RecordExists /\ OneWay /\ AppendOnce
    /\ \A c \in Calls : Sound(call[c])

-----------------------------------------------------------------------------
(* The two kinds of steps: those that leave the record and those that      *)
(* write it.                                                               *)

LEMMA IdleIsSound ==
  /\ NoRecord \in Record /\ Idle \in Call /\ Idle.at = "idle" /\ Idle.snap = NoRecord
  /\ NoRecord.state = "absent" /\ NoRecord.revision = 0 /\ NoRecord.mutations = {}
  BY DEF NoRecord, Record, States, Idle, Call, Steps

LEMMA IdleSound ==
  /\ rec \in Record => Sound(Idle)
  /\ rec' \in Record => Sound(Idle)'
  BY IdleIsSound DEF Sound, SnapshotState, SnapshotAge, SnapshotChecked, PrepareSteps, Record

(* A snapshot stays sound while the record and what was restored stay.     *)
LEMMA SoundStays ==
  ASSUME NEW k, Sound(k), UNCHANGED <<rec, restored>>
  PROVE  Sound(k)'
  BY DEF Sound, SnapshotState, SnapshotAge, SnapshotChecked

(* One that is too old for a record that is written stays sound as well.   *)
LEMMA SoundAgain ==
  ASSUME NEW k \in Call, Sound(k), rec \in Record, rec' \in Record,
         rec'.revision = rec.revision + 1, rec.mutations \subseteq rec'.mutations,
         restored \subseteq restored'
  PROVE  Sound(k)'
  <1>1. k.snap.revision \in Nat /\ rec.revision \in Nat
    BY DEF Call, Record
  <1>2. SnapshotAge(k)'
    <2>1. k.snap.revision < rec'.revision
      BY <1>1 DEF Sound, SnapshotAge
    <2>2. k.snap.mutations \subseteq rec'.mutations
      BY DEF Sound, SnapshotAge
    <2> QED BY <1>1, <2>1, <2>2 DEF Sound, SnapshotAge
  <1>3. SnapshotChecked(k)'
    BY DEF Sound, SnapshotChecked
  <1> QED BY <1>2, <1>3 DEF Sound

LEMMA Counting ==
  /\ \A n \in Nat : n + 1 # 0 /\ n + 1 > 0 /\ n <= n /\ (~(n > 0) => n = 0)
  /\ 0 + 1 = 1 /\ 1 \in Nat /\ 1 <= 1
  OBVIOUS

OtherTypes ==
    /\ starts \in Nat /\ fence \in Nat /\ live \in BOOLEAN
    /\ claims \in [Files -> Calls \cup {None}]

(* One call moves on and the record stays: its new snapshot is the old one, *)
(* the record, or none.                                                    *)
LEMMA CallMoves ==
  ASSUME IInv, NEW c \in Calls, NEW k \in Call, call' = [call EXCEPT ![c] = k],
         UNCHANGED <<rec, ledger, restored>>, OtherTypes',
         acked' \in SUBSET rec.mutations, told' \in SUBSET (told \cup {rec.state}),
         Sound(k), k.at # "commit append",
         k.snap.state \in {call[c].snap.state, rec.state, "absent", "prepared"}
  PROVE  IInv'
  <1>1. TypeOK'
    BY DEF IInv, TypeOK, OtherTypes, Record
  <1>2. OutcomesAgree' /\ NoRecordedMutationLost'
    BY DEF IInv, OutcomesAgree, NoRecordedMutationLost
  <1>3. ExternalEffectsApproved' /\ RolledBackMeansRestored' /\ RecordExists'
    BY DEF IInv, ExternalEffectsApproved, RolledBackMeansRestored, RecordExists
  <1>4. call'[c] = k /\ \A d \in Calls : d # c => call'[d] = call[d]
    BY DEF IInv, TypeOK
  <1>5. (CommitBegun' => CommitBegun) /\ (RollbackBegun' => RollbackBegun)
    BY <1>4 DEF CommitBegun, RollbackBegun
  <1>6. OneWay'
    BY <1>5 DEF IInv, OneWay
  <1>7. AppendOnce'
    BY <1>4 DEF IInv, AppendOnce
  <1>8. ASSUME NEW d \in Calls PROVE Sound(call[d])'
    <2>1. PICK x : x = call'[d] /\ Sound(x)
      BY <1>4 DEF IInv
    <2>2. Sound(x)'
      BY <2>1, SoundStays
    <2> QED BY <2>1, <2>2 DEF Sound, SnapshotState, SnapshotAge, SnapshotChecked
  <1> QED BY <1>1, <1>2, <1>3, <1>6, <1>7, <1>8 DEF IInv

(* The lease or the claims change, or somebody is told what the record is. *)
LEMMA NobodyMoves ==
  ASSUME IInv, UNCHANGED <<rec, call, ledger, restored, acked>>, OtherTypes',
         told' \in SUBSET (told \cup {rec.state})
  PROVE  IInv'
  <1>1. TypeOK' /\ OutcomesAgree'
    BY DEF IInv, TypeOK, OtherTypes, Record, OutcomesAgree
  <1>2. /\ NoRecordedMutationLost' /\ ExternalEffectsApproved' /\ RolledBackMeansRestored'
        /\ RecordExists' /\ OneWay' /\ AppendOnce'
    BY DEF IInv, NoRecordedMutationLost, ExternalEffectsApproved, RolledBackMeansRestored,
           RecordExists, OneWay, CommitBegun, RollbackBegun, AppendOnce
  <1>3. (\A c \in Calls : Sound(call[c]))'
    BY DEF IInv, Sound, SnapshotState, SnapshotAge, SnapshotChecked
  <1> QED BY <1>1, <1>2, <1>3 DEF IInv

(* The record is written: its revision grows, so no older snapshot is the  *)
(* record any more, and only the states of the table follow each other.    *)
LEMMA RecordMoves ==
  ASSUME IInv, NEW c \in Calls, NEW k \in Call, call' = [call EXCEPT ![c] = k],
         rec' \in Record, UNCHANGED <<ledger, restored>>, OtherTypes',
         rec'.revision = rec.revision + 1, rec.mutations \subseteq rec'.mutations,
         rec.state \notin Terminal, rec'.state # "absent",
         acked' \in SUBSET rec'.mutations, told' \in SUBSET (told \cup {rec'.state}),
         Sound(k)', k.snap.state \in {call[c].snap.state, rec'.state, "absent", "prepared"},
         rec'.state = "prepared" => rec.state \in {"absent", "prepared"},
         rec'.state \in {"committing", "rolling-back"} => rec.state = "prepared",
         rec'.state = "committed" => rec.state = "committing",
         rec'.state = "rolled-back" => rec.state = "rolling-back",
         rec'.state \in {"committing", "committed"} => Approved(rec'),
         rec'.state = "rolled-back" => rec'.mutations \cap Rollbackable \subseteq restored,
         k.at = "commit append" => rec.state = "prepared" /\ k.snap.state = "committing"
  PROVE  IInv'
  <1>1. TypeOK'
    <2>1. call' \in [Calls -> Call] /\ ledger' \in Nat /\ restored' \subseteq Mutations
      BY DEF IInv, TypeOK
    <2>2. acked' \subseteq Mutations /\ told' \subseteq States
      BY DEF IInv, TypeOK, Record
    <2> QED BY <2>1, <2>2 DEF TypeOK, OtherTypes
  <1>2. OutcomesAgree' /\ NoRecordedMutationLost'
    BY DEF IInv, OutcomesAgree, NoRecordedMutationLost
  <1>3. call'[c] = k /\ \A d \in Calls : d # c => call'[d] = call[d]
    BY DEF IInv, TypeOK
  <1>4. /\ CommitBegun' => CommitBegun \/ rec'.state = "committing"
        /\ RollbackBegun' => RollbackBegun \/ rec'.state = "rolling-back"
    BY <1>3 DEF CommitBegun, RollbackBegun
  <1>5. rec.state = "prepared" => /\ ~CommitBegun /\ ~RollbackBegun
                                 /\ ledger = 0 /\ restored = {}
                                 /\ \A d \in Calls : call[d].snap.state # "committing"
    <2>1. rec.state = "prepared" => ~CommitBegun /\ ~RollbackBegun
      BY DEF IInv, OneWay
    <2>2. ledger \in Nat
      BY DEF IInv, TypeOK
    <2>3. ~CommitBegun => ledger = 0 /\ \A d \in Calls : call[d].snap.state # "committing"
      <3>1. ~CommitBegun => ~(ledger > 0)
        BY DEF CommitBegun
      <3>2. ~CommitBegun => \A d \in Calls : call[d].snap.state # "committing"
        BY DEF CommitBegun
      <3>3. ~(ledger > 0) => ledger = 0
        BY <2>2, Counting
      <3> QED BY <3>1, <3>2, <3>3
    <2>4. ~RollbackBegun => restored = {}
      BY DEF RollbackBegun
    <2> QED BY <2>1, <2>3, <2>4
  <1>6. OneWay'
    BY <1>4, <1>5 DEF IInv, OneWay
  <1>7. ExternalEffectsApproved' /\ RecordExists'
    <2>1. rec.revision \in Nat
      BY DEF IInv, TypeOK, Record
    <2>2. RecordExists'
      <3>1. rec'.revision # 0 /\ rec'.state # "absent"
        BY <2>1, Counting, Zenon
      <3> QED BY <3>1, Zenon DEF RecordExists
    <2>3. ExternalEffectsApproved'
      BY Zenon DEF ExternalEffectsApproved, Approved
    <2> QED BY <2>2, <2>3
  <1>8. RolledBackMeansRestored'
    BY <1>5 DEF IInv, RolledBackMeansRestored, OneWay, CommitBegun, RollbackBegun
  <1>9. AppendOnce'
    <2>1. rec.state = "prepared" => \A d \in Calls : call[d].at # "commit append"
      BY <1>5 DEF IInv, Sound, SnapshotState
    <2> QED BY <1>3, <1>5, <2>1 DEF IInv, AppendOnce
  <1>10. ASSUME NEW d \in Calls PROVE Sound(call[d])'
    <2>1. PICK x \in Call : x = call'[d] /\ Sound(x)'
      <3>1. CASE d = c
        BY <1>3, <3>1
      <3>2. CASE d # c
        <4>1. call'[d] = call[d] /\ call[d] \in Call /\ Sound(call[d]) /\ rec \in Record
          BY <1>3, <3>2 DEF IInv, TypeOK
        <4> QED BY <4>1, SoundAgain
      <3> QED BY <3>1, <3>2
    <2> QED BY <2>1 DEF Sound, SnapshotState, SnapshotAge, SnapshotChecked
  <1> QED BY <1>1, <1>2, <1>6, <1>7, <1>8, <1>9, <1>10 DEF IInv

-----------------------------------------------------------------------------
(* How a call moves on.                                                    *)

LEMMA Moves ==
  ASSUME NEW c \in Calls, NEW step, NEW snap, call \in [Calls -> Call]
  PROVE  /\ GoTo(c, step) => call' = [call EXCEPT ![c] = [call[c] EXCEPT !.at = step]]
         /\ GoWith(c, step, snap) =>
               call' = [call EXCEPT ![c] = [call[c] EXCEPT !.at = step, !.snap = snap]]
  BY DEF GoTo, GoWith, Call

(* A call ends and leaves the record.                                      *)
LEMMA Returns ==
  ASSUME IInv, NEW c \in Calls, Return(c), UNCHANGED <<rec, ledger, restored>>, OtherTypes',
         acked' \in SUBSET rec.mutations, told' = told
  PROVE  IInv'
  <1>1. rec \in Record /\ told' \in SUBSET (told \cup {rec.state})
    BY DEF IInv, TypeOK
  <1>2. Sound(Idle) /\ Idle.at # "commit append" /\ Idle.snap.state = "absent" /\ Idle \in Call
    BY <1>1, IdleSound, IdleIsSound
  <1>3. call' = [call EXCEPT ![c] = Idle]
    BY DEF Return
  <1> QED BY <1>1, <1>2, <1>3, CallMoves

LEMMA GivesUp ==
  ASSUME IInv, NEW c \in Calls, GiveUp(c)
  PROVE  IInv'
  <1>1. /\ Return(c) /\ UNCHANGED <<rec, ledger, restored, told>> /\ OtherTypes'
        /\ acked' \in SUBSET rec.mutations
    BY DEF GiveUp, Others, IInv, TypeOK, OtherTypes, NoRecordedMutationLost
  <1> QED BY <1>1, Returns

(* A call goes on with the snapshot it has.                                *)
LEMMA Proceeds ==
  ASSUME IInv, NEW c \in Calls, NEW step \in Steps \ {"idle", "commit append", "rollback finish"},
         GoTo(c, step), Others, UNCHANGED <<rec, told>>,
         call[c].at # "idle", step \in PrepareSteps <=> call[c].at \in PrepareSteps,
         SnapshotState([call[c] EXCEPT !.at = step]),
         step = "commit start" => Approved(call[c].snap)
  PROVE  IInv'
  <1> DEFINE k == [call[c] EXCEPT !.at = step]
  <1>1. call[c] \in Call /\ Sound(call[c]) /\ call \in [Calls -> Call]
    BY DEF IInv, TypeOK
  <1>2. k \in Call /\ k.at = step /\ k.snap = call[c].snap
    BY <1>1 DEF Call
  <1>3. call' = [call EXCEPT ![c] = k]
    BY <1>1, Moves
  <1>4. SnapshotAge(k) /\ SnapshotChecked(k)
    <2> HIDE DEF k
    <2> QED BY <1>1, <1>2 DEF Sound, SnapshotAge, SnapshotChecked
  <1>5. /\ UNCHANGED <<rec, ledger, restored>> /\ OtherTypes'
        /\ acked' \in SUBSET rec.mutations /\ told' \in SUBSET (told \cup {rec.state})
    BY DEF Others, IInv, TypeOK, OtherTypes, NoRecordedMutationLost
  <1>6. Sound(k)
    BY <1>4 DEF Sound
  <1> HIDE DEF k
  <1> QED BY <1>2, <1>3, <1>5, <1>6, CallMoves

LEMMA StartFrame ==
  ASSUME IInv, NEW c, NEW step, NEW snap, NEW item, Start(c, step, snap, item)
  PROVE  /\ UNCHANGED <<rec, ledger, restored>> /\ OtherTypes'
         /\ acked' \in SUBSET rec.mutations /\ told' \in SUBSET (told \cup {rec.state})
  <1>1. starts' \in Nat
    BY DEF Start, IInv, TypeOK
  <1>2. UNCHANGED <<rec, ledger, restored, fence, live, claims, acked, told>>
    BY DEF Start
  <1> QED BY <1>1, <1>2 DEF IInv, TypeOK, OtherTypes, NoRecordedMutationLost

(* A call starts on the record there is.                                   *)
LEMMA Starts ==
  ASSUME IInv, NEW c \in Calls, NEW item \in Mutations \cup {None},
         NEW step \in Steps \ ({"idle", "commit append", "commit start", "rollback finish"}
                                  \cup PrepareSteps),
         Start(c, step, rec, item), rec.state # "absent",
         SnapshotState([at |-> step, snap |-> rec, item |-> item, held |-> live])
  PROVE  IInv'
  <1> DEFINE k == [at |-> step, snap |-> rec, item |-> item, held |-> live]
  <1>1. rec \in Record /\ live \in BOOLEAN
    BY DEF IInv, TypeOK
  <1>2. k \in Call /\ k.at = step /\ k.snap = rec
    BY <1>1 DEF Call
  <1>3. call' = [call EXCEPT ![c] = k]
    BY DEF Start
  <1>4. rec.revision \in Nat /\ rec.revision # 0
    BY <1>1 DEF IInv, RecordExists, Record
  <1>5. SnapshotAge(k) /\ SnapshotChecked(k)
    <2>1. rec.state \in {"committing", "committed"} => Approved(rec)
      BY Zenon DEF IInv, ExternalEffectsApproved, Approved
    <2>2. rec.revision > 0 /\ rec.revision <= rec.revision
      BY <1>4, Counting
    <2> HIDE DEF k
    <2>3. SnapshotAge(k)
      BY <1>2, <2>2, Zenon DEF SnapshotAge
    <2>4. SnapshotChecked(k)
      BY <1>2, <2>1 DEF SnapshotChecked
    <2> QED BY <2>3, <2>4
  <1>6. /\ UNCHANGED <<rec, ledger, restored>> /\ OtherTypes'
        /\ acked' \in SUBSET rec.mutations /\ told' \in SUBSET (told \cup {rec.state})
    BY StartFrame
  <1>7. Sound(k)
    BY <1>5 DEF Sound
  <1> HIDE DEF k
  <1> QED BY <1>2, <1>3, <1>6, <1>7, CallMoves

-----------------------------------------------------------------------------
(* How a call publishes a state.                                           *)

(* What may be published: a commit by the call that checked it, and a      *)
(* rollback by the one that restored.                                      *)
May(c, to) ==
    /\ call[c].at \notin PrepareSteps \cup {"idle"}
    /\ to = "committing" => call[c].at = "commit start"
    /\ to = "committed" => call[c].snap.state = "committing"
    /\ to = "rolled-back" => call[c].at = "rollback finish"

LEMMA Published ==
  ASSUME IInv, NEW c \in Calls, NEW to, May(c, to), publishTransition(c, to)
  PROVE  /\ rec' \in Record /\ rec'.state = to /\ rec'.revision = rec.revision + 1
         /\ rec'.mutations = rec.mutations /\ rec'.mutations = call[c].snap.mutations
         /\ rec'.approved = call[c].snap.approved
         /\ rec.state = call[c].snap.state /\ rec.revision = call[c].snap.revision
         /\ rec.state \notin Terminal /\ to \notin {"absent", "prepared"}
         /\ to \in {"committing", "rolling-back"} => rec.state = "prepared"
         /\ to \in {"committing", "committed"} => Approved(rec')
         /\ to = "rolled-back" => /\ rec.state = "rolling-back"
                                  /\ rec'.mutations \cap Rollbackable \subseteq restored
  <1> DEFINE snap == call[c].snap
  <1>1. rec \in Record /\ call[c] \in Call /\ snap \in Record /\ Sound(call[c])
    BY DEF IInv, TypeOK, Call
  <1>2. /\ to \in successors(snap.state) /\ rec.revision = snap.revision
        /\ rec' = [[snap EXCEPT !.state = to] EXCEPT !.revision = snap.revision + 1]
    BY DEF publishTransition, writeCas, canTransition
  <1>3. /\ to \in States \ {"absent", "prepared"} /\ snap.state \notin Terminal
        /\ to \in {"committing", "rolling-back"} => snap.state = "prepared"
    BY <1>1, <1>2 DEF successors, States, Terminal
  <1>4. rec' \in Record
    <2>1. [snap EXCEPT !.state = to] \in Record /\ snap.revision + 1 \in Nat
      BY <1>1, <1>3 DEF Record
    <2> QED BY <1>2, <2>1 DEF Record
  <1>5. /\ rec'.state = to /\ rec'.revision = snap.revision + 1
        /\ rec'.mutations = snap.mutations /\ rec'.approved = snap.approved
    BY <1>1, <1>2 DEF Record
  <1>6. rec.state = snap.state /\ rec.mutations = snap.mutations
    BY <1>1, <1>2 DEF May, Sound, SnapshotAge
  <1>7. to \in {"committing", "committed"} => Approved(snap)
    BY <1>1 DEF May, Sound, SnapshotChecked
  <1>8. to = "rolled-back" => /\ snap.state = "rolling-back"
                              /\ snap.mutations \cap Rollbackable \subseteq restored
    BY <1>1 DEF May, Sound, SnapshotChecked, SnapshotState
  <1>9. Approved(snap) => Approved(rec')
    BY <1>5 DEF Approved
  <1> HIDE DEF snap
  <1>10. rec'.revision = rec.revision + 1 /\ rec'.mutations = rec.mutations
    BY <1>2, <1>5, <1>6
  <1> QED BY <1>2, <1>3, <1>4, <1>5, <1>6, <1>7, <1>8, <1>9, <1>10 DEF snap

(* A publication, after which the call is k.                               *)
LEMMA Publishes ==
  ASSUME IInv, NEW c \in Calls, NEW to, May(c, to), publishTransition(c, to), Others,
         NEW k \in Call, call' = [call EXCEPT ![c] = k], Sound(k)',
         told' \in SUBSET (told \cup {to}),
         k.snap.state \in {call[c].snap.state, to, "absent"},
         k.at = "commit append" => to = "committing"
  PROVE  IInv'
  <1>1. /\ rec' \in Record /\ rec'.state = to /\ rec'.revision = rec.revision + 1
        /\ rec'.mutations = rec.mutations /\ rec.state = call[c].snap.state
        /\ rec.state \notin Terminal /\ to \notin {"absent", "prepared"}
        /\ to \in {"committing", "rolling-back"} => rec.state = "prepared"
        /\ to \in {"committing", "committed"} => Approved(rec')
        /\ to = "rolled-back" => /\ rec.state = "rolling-back"
                                 /\ rec'.mutations \cap Rollbackable \subseteq restored
    BY Published
  <1>2. to = "committed" => rec.state = "committing"
    BY <1>1 DEF May
  <1>3. k.at = "commit append" => k.snap.state = "committing"
    BY DEF Sound, SnapshotState
  <1>4. UNCHANGED <<ledger, restored>> /\ OtherTypes' /\ acked' \in SUBSET rec.mutations
    BY DEF Others, IInv, TypeOK, OtherTypes, NoRecordedMutationLost
  <1> QED BY <1>1, <1>2, <1>3, <1>4, RecordMoves

LEMMA PublishesAndTells ==
  ASSUME IInv, NEW c \in Calls, NEW to, May(c, to), PublishAndTell(c, to)
  PROVE  IInv'
  <1>1. /\ publishTransition(c, to) /\ Others /\ call' = [call EXCEPT ![c] = Idle]
        /\ told' \in SUBSET (told \cup {to})
    BY DEF PublishAndTell, Return
  <1>2. Sound(Idle)'
    BY <1>1, Published, IdleSound
  <1>3. Idle \in Call /\ Idle.at # "commit append" /\ Idle.snap.state = "absent"
    BY IdleIsSound
  <1> QED BY <1>1, <1>2, <1>3, Publishes

LEMMA PublishesAndGoes ==
  ASSUME IInv, NEW c \in Calls, NEW to, May(c, to),
         NEW step \in Steps \ ({"idle", "commit start", "rollback finish"} \cup PrepareSteps),
         PublishAndGo(c, to, step),
         SnapshotState([call[c] EXCEPT !.at = step, !.snap = rec']),
         step = "commit append" => to = "committing"
  PROVE  IInv'
  <1>1. /\ publishTransition(c, to) /\ Others /\ GoWith(c, step, rec')
        /\ told' \in SUBSET (told \cup {to})
    BY DEF PublishAndGo
  <1>2. call[c] \in Call /\ call \in [Calls -> Call] /\ rec.revision \in Nat
    BY DEF IInv, TypeOK, Record
  <1>3. /\ rec' \in Record /\ rec'.state = to /\ rec'.revision = rec.revision + 1
        /\ to \in {"committing", "committed"} => Approved(rec')
    BY <1>1, Published
  <1>4. PICK k \in Call : /\ call' = [call EXCEPT ![c] = k]
                         /\ k.at = step /\ k.snap = rec' /\ SnapshotState(k)
    <2> DEFINE moved == [call[c] EXCEPT !.at = step, !.snap = rec']
    <2>1. moved \in Call /\ moved.at = step /\ moved.snap = rec'
      BY <1>2, <1>3 DEF Call
    <2>2. call' = [call EXCEPT ![c] = moved]
      BY <1>1, <1>2 DEF GoWith, Call
    <2>3. SnapshotState(moved)
      OBVIOUS
    <2> HIDE DEF moved
    <2> QED BY <2>1, <2>2, <2>3
  <1>5. Sound(k)'
    <2>1. rec'.revision > 0 /\ rec'.revision <= rec'.revision
      <3>1. rec'.revision \in Nat
        BY <1>2, <1>3 DEF Record
      <3> QED BY <1>2, <1>3, <3>1, Counting
    <2>2. SnapshotAge(k)'
      BY <1>4, <2>1, Zenon DEF SnapshotAge
    <2>3. SnapshotChecked(k)'
      BY <1>3, <1>4 DEF SnapshotChecked
    <2>4. SnapshotState(k)'
      BY <1>4 DEF SnapshotState
    <2> QED BY <2>2, <2>3, <2>4 DEF Sound
  <1> QED BY <1>1, <1>3, <1>4, <1>5, Publishes

(* A write that the registry refuses, or stores all the same.              *)
LEMMA NotWrittenSteps ==
  ASSUME IInv, NEW c \in Calls, NEW to, May(c, to),
         NEW step \in {"idle", "commit fail", "rollback fail"}, NotWritten(c, to, step),
         step # "idle" => SnapshotState([call[c] EXCEPT !.at = step])
  PROVE  IInv'
  <1>1. call[c] \in Call /\ Sound(call[c]) /\ call \in [Calls -> Call] /\ rec \in Record
    BY DEF IInv, TypeOK
  <1>2. PICK k \in Call : /\ call' = [call EXCEPT ![c] = k] /\ Sound(k)
                         /\ k.at \notin {"commit append", "commit start", "rollback finish"}
                         /\ k.snap.state \in {call[c].snap.state, "absent"}
    <2>1. CASE step = "idle"
      <3>1. call' = [call EXCEPT ![c] = Idle]
        BY <2>1 DEF NotWritten, Return
      <3>2. Sound(Idle)
        BY <1>1, IdleSound
      <3> QED BY <3>1, <3>2, IdleIsSound
    <2>2. CASE step # "idle"
      <3> DEFINE moved == [call[c] EXCEPT !.at = step]
      <3>1. moved \in Call /\ moved.at = step /\ moved.snap = call[c].snap /\ SnapshotState(moved)
        BY <1>1, <2>2 DEF Call, Steps
      <3>2. call' = [call EXCEPT ![c] = moved]
        BY <1>1, <2>2, Moves DEF NotWritten
      <3> HIDE DEF moved
      <3>3. SnapshotAge(moved) /\ SnapshotChecked(moved)
        BY <1>1, <2>2, <3>1 DEF May, Sound, SnapshotAge, SnapshotChecked, PrepareSteps
      <3>4. Sound(moved)
        BY <3>1, <3>3 DEF Sound
      <3> QED BY <2>2, <3>1, <3>2, <3>4
    <2> QED BY <2>1, <2>2
  <1>3. /\ UNCHANGED <<ledger, restored, acked, told>> /\ OtherTypes' /\ Others
        /\ acked' \in SUBSET rec.mutations /\ told' = told
    BY DEF NotWritten, Others, IInv, TypeOK, OtherTypes, NoRecordedMutationLost
  <1>4. CASE UNCHANGED rec
    BY <1>2, <1>3, <1>4, CallMoves
  <1>5. CASE publishTransition(c, to)
    <2>1. rec' \in Record /\ rec'.revision = rec.revision + 1 /\ rec'.mutations = rec.mutations
      BY <1>5, Published
    <2>2. Sound(k)'
      BY <1>1, <1>2, <1>3, <2>1, SoundAgain
    <2> QED BY <1>2, <1>3, <1>5, <2>2, Publishes
  <1> QED BY <1>4, <1>5 DEF NotWritten

-----------------------------------------------------------------------------
(* The calls.                                                              *)

(* What holds of a call that is under way.                                 *)
LEMMA CallTypes ==
  ASSUME IInv, NEW c \in Calls
  PROVE  /\ call[c] \in Call /\ call[c].snap \in Record /\ rec \in Record
         /\ call \in [Calls -> Call] /\ Sound(call[c])
  BY DEF IInv, TypeOK, Call

LEMMA PrepareCalls ==
  ASSUME IInv, NEW c \in Calls,
         prepare(c) \/ prepareFence(c) \/ prepareClaim(c) \/ prepareClean(c)
            \/ prepareBind(c) \/ prepareWrite(c)
  PROVE  IInv'
  <1>1. CASE prepare(c)
    <2>1. PICK g \in 1 .. fence :
             Start(c, "prepare fence", [NoRecord EXCEPT !.state = "prepared",
                                                        !.generation = g, !.by = c], None)
      BY <1>1 DEF prepare
    <2>2. PICK k \in Call : /\ call' = [call EXCEPT ![c] = k]
                           /\ k.at = "prepare fence" /\ k.snap.state = "prepared"
                           /\ k.snap.revision = 0 /\ k.snap.mutations = {}
      <3> DEFINE snap == [NoRecord EXCEPT !.state = "prepared", !.generation = g, !.by = c]
                 k == [at |-> "prepare fence", snap |-> snap, item |-> None, held |-> live]
      <3>1. g \in Nat /\ live \in BOOLEAN
        BY DEF IInv, TypeOK
      <3>2. snap \in Record /\ snap.state = "prepared" /\ snap.revision = 0 /\ snap.mutations = {}
        BY <3>1, IdleIsSound DEF Record, States
      <3>3. k \in Call
        BY <3>1, <3>2 DEF Call, Steps
      <3>4. call' = [call EXCEPT ![c] = k]
        BY <2>1 DEF Start
      <3> HIDE DEF snap
      <3> QED BY <3>2, <3>3, <3>4
    <2>3. Sound(k)
      <3>1. rec.revision = 0 /\ rec.mutations = {}
        BY <1>1, IdleIsSound DEF prepare
      <3> QED BY <2>2, <3>1, Counting DEF Sound, SnapshotState, SnapshotAge, SnapshotChecked, PrepareSteps
    <2> QED BY <2>1, <2>2, <2>3, StartFrame, CallMoves
  <1>2. CASE prepareFence(c)
    <2>1. CASE call[c].at = "prepare fence" /\ Proceed(c, "prepare claim")
      BY <2>1, CallTypes, Proceeds DEF Proceed, PrepareSteps, Steps, Call, Sound, SnapshotState
    <2> QED BY <1>2, <2>1, GivesUp DEF prepareFence
  <1>3. CASE prepareClaim(c)
    <2>1. CASE \E step \in {"prepare bind", "prepare clean"} :
                  call[c].at = "prepare claim" /\ Proceed(c, step)
      BY <2>1, CallTypes, Proceeds DEF Proceed, PrepareSteps, Steps, Call, Sound, SnapshotState
    <2>2. CASE \E f \in Files :
                  /\ claims' = [claims EXCEPT ![f] = c]
                  /\ UNCHANGED <<rec, call, starts, fence, live, ledger, restored, acked, told>>
      <3>1. OtherTypes' /\ UNCHANGED <<rec, call, ledger, restored, acked, told>>
        BY <2>2 DEF IInv, TypeOK, OtherTypes
      <3> QED BY <3>1, NobodyMoves
    <2> QED BY <1>3, <2>1, <2>2 DEF prepareClaim
  <1>4. CASE prepareClean(c)
    <2>1. /\ Return(c) /\ UNCHANGED <<rec, ledger, restored, told>> /\ OtherTypes'
          /\ acked' \in SUBSET rec.mutations
      BY <1>4 DEF prepareClean, IInv, TypeOK, OtherTypes, NoRecordedMutationLost
    <2> QED BY <2>1, Returns
  <1>5. CASE prepareBind(c)
    <2>1. CASE \E approved \in BOOLEAN :
                  /\ call[c].at = "prepare bind"
                  /\ GoWith(c, "prepare write", [call[c].snap EXCEPT !.approved = approved])
                  /\ Others /\ UNCHANGED <<rec, told>>
      <3>1. PICK approved \in BOOLEAN :
               GoWith(c, "prepare write", [call[c].snap EXCEPT !.approved = approved])
        BY <2>1
      <3>2. PICK k \in Call : /\ call' = [call EXCEPT ![c] = k]
                             /\ k.at = "prepare write" /\ k.snap.state = call[c].snap.state
                             /\ k.snap.revision = call[c].snap.revision
                             /\ k.snap.mutations = call[c].snap.mutations
        <4>1. PICK snap \in Record : /\ snap = [call[c].snap EXCEPT !.approved = approved]
                                    /\ snap.state = call[c].snap.state
                                    /\ snap.revision = call[c].snap.revision
                                    /\ snap.mutations = call[c].snap.mutations
          <5> DEFINE snap == [call[c].snap EXCEPT !.approved = approved]
          <5>1. /\ snap \in Record /\ snap.state = call[c].snap.state
                /\ snap.revision = call[c].snap.revision
                /\ snap.mutations = call[c].snap.mutations
            BY CallTypes DEF Record
          <5> QED BY <5>1
        <4>2. "prepare write" \in Steps /\ call \in [Calls -> Call]
          BY CallTypes DEF Steps
        <4>3. GoWith(c, "prepare write", snap)
          BY <3>1, <4>1
        <4>4. PICK k \in Call : /\ call' = [call EXCEPT ![c] = k]
                               /\ k.at = "prepare write" /\ k.snap = snap
          <5> DEFINE moved == [call[c] EXCEPT !.at = "prepare write", !.snap = snap]
          <5>1. moved \in Call /\ moved.at = "prepare write" /\ moved.snap = snap
            BY <4>2, CallTypes DEF Call
          <5>2. call' = [call EXCEPT ![c] = moved]
            BY <4>2, <4>3, CallTypes DEF GoWith, Call
          <5> HIDE DEF moved
          <5> QED BY <5>1, <5>2
        <4> QED BY <4>1, <4>4
      <3>3. Sound(k)
        BY <2>1, <3>2, CallTypes DEF Sound, SnapshotState, SnapshotAge, SnapshotChecked, PrepareSteps
      <3>4. OtherTypes' /\ acked' \in SUBSET rec.mutations /\ told' \in SUBSET (told \cup {rec.state})
        BY <2>1 DEF Others, IInv, TypeOK, OtherTypes, NoRecordedMutationLost
      <3>5. UNCHANGED <<rec, ledger, restored>>
        BY <2>1 DEF Others
      <3> QED BY <3>2, <3>3, <3>4, <3>5, CallMoves
    <2> QED BY <1>5, <2>1, GivesUp DEF prepareBind
  <1>6. CASE prepareWrite(c)
    <2>1. CASE /\ call[c].at = "prepare write" /\ writeCas(0, call[c].snap)
               /\ Return(c) /\ Others /\ UNCHANGED told
      <3>1. /\ rec.revision = 0 /\ rec.state = "absent" /\ rec.mutations = {}
            /\ call[c].snap.state = "prepared"
        BY <2>1, CallTypes DEF writeCas, IInv, RecordExists, Sound, SnapshotState, PrepareSteps
      <3>2. /\ rec' \in Record /\ rec'.state = "prepared" /\ rec'.revision = rec.revision + 1
        <4>1. call[c].snap \in Record /\ rec' = [call[c].snap EXCEPT !.revision = 0 + 1]
          BY <2>1, CallTypes DEF writeCas
        <4>2. rec' \in Record /\ rec'.revision = 0 + 1 /\ rec'.state = call[c].snap.state
          BY <4>1 DEF Record
        <4> QED BY <3>1, <4>2
      <3>3. Sound(Idle)' /\ Idle \in Call /\ Idle.at # "commit append" /\ Idle.snap.state = "absent"
        BY <3>2, IdleSound, IdleIsSound
      <3>4. /\ UNCHANGED <<ledger, restored>> /\ OtherTypes' /\ call' = [call EXCEPT ![c] = Idle]
            /\ acked' \in SUBSET rec'.mutations /\ told' \in SUBSET (told \cup {rec'.state})
        BY <2>1, <3>1 DEF Others, Return, IInv, TypeOK, OtherTypes, NoRecordedMutationLost
      <3>5. rec.state \notin Terminal /\ rec.mutations \subseteq rec'.mutations
        BY <3>1 DEF Terminal
      <3> QED BY <3>1, <3>2, <3>3, <3>4, <3>5, RecordMoves
    <2> QED BY <1>6, <2>1, GivesUp DEF prepareWrite
  <1> QED BY <1>1, <1>2, <1>3, <1>4, <1>5, <1>6

LEMMA RecordCalls ==
  ASSUME IInv, NEW c \in Calls, record(c) \/ recordFence(c) \/ recordWrite(c)
  PROVE  IInv'
  <1>1. CASE record(c)
    <2>1. PICK m \in Mutations : Start(c, "record fence", rec, m)
      BY <1>1 DEF record
    <2>2. rec.state = "prepared"
      BY <1>1 DEF record
    <2>3. SnapshotState([at |-> "record fence", snap |-> rec, item |-> m, held |-> live])
      BY <2>2 DEF SnapshotState, PrepareSteps
    <2>4. "record fence" \in Steps \ ({"idle", "commit append", "commit start", "rollback finish"}
                                       \cup PrepareSteps)
      BY DEF Steps, PrepareSteps
    <2> QED BY <2>1, <2>2, <2>3, <2>4, Starts
  <1>2. CASE recordFence(c)
    <2>1. CASE call[c].at = "record fence" /\ Proceed(c, "record write")
      BY <2>1, CallTypes, Proceeds DEF Proceed, PrepareSteps, Steps, Call, Sound, SnapshotState
    <2>2. CASE /\ call[c].item \in call[c].snap.mutations
               /\ acked' = acked \cup {call[c].item}
               /\ Return(c)
               /\ UNCHANGED <<rec, starts, fence, live, claims, ledger, restored, told>>
      <3>1. OtherTypes' /\ acked' \in SUBSET rec.mutations
        BY <2>2, CallTypes DEF IInv, TypeOK, OtherTypes, NoRecordedMutationLost, Sound, SnapshotAge
      <3> QED BY <2>2, <3>1, Returns
    <2> QED BY <1>2, <2>1, <2>2, GivesUp DEF recordFence
  <1>3. CASE recordWrite(c)
    <2> DEFINE snap == call[c].snap
    <2>1. CASE /\ call[c].at = "record write"
               /\ writeCas(snap.revision, [snap EXCEPT !.mutations = snap.mutations \cup {call[c].item}])
               /\ acked' = acked \cup {call[c].item} \/ UNCHANGED acked
               /\ Return(c)
               /\ UNCHANGED <<starts, fence, live, claims, ledger, restored, told>>
      <3>1. /\ snap.state = "prepared" /\ call[c].item \in Mutations
            /\ rec.state = "prepared" /\ rec.mutations = snap.mutations /\ rec.revision = snap.revision
        BY <2>1, CallTypes DEF writeCas, Sound, SnapshotState, SnapshotAge, PrepareSteps
      <3>2. /\ rec' \in Record /\ rec'.state = "prepared" /\ rec'.revision = rec.revision + 1
            /\ rec'.mutations = rec.mutations \cup {call[c].item}
        <4> DEFINE more == [snap EXCEPT !.mutations = snap.mutations \cup {call[c].item}]
        <4>1. /\ more \in Record /\ more.state = snap.state
              /\ more.mutations = snap.mutations \cup {call[c].item}
          BY <3>1, CallTypes DEF Record
        <4>2. rec' = [more EXCEPT !.revision = snap.revision + 1] /\ snap.revision + 1 \in Nat
          <5>1. rec' = [more EXCEPT !.revision = snap.revision + 1]
            BY <2>1 DEF writeCas
          <5>2. snap.revision \in Nat
            BY CallTypes DEF Record
          <5> QED BY <5>1, <5>2
        <4> HIDE DEF more, snap
        <4>3. /\ rec' \in Record /\ rec'.revision = snap.revision + 1 /\ rec'.state = more.state
              /\ rec'.mutations = more.mutations
          BY <4>1, <4>2 DEF Record
        <4> QED BY <3>1, <4>1, <4>3
      <3>3. Sound(Idle)' /\ Idle \in Call /\ Idle.at # "commit append" /\ Idle.snap.state = "absent"
        BY <3>2, IdleSound, IdleIsSound
      <3>4. /\ UNCHANGED <<ledger, restored>> /\ OtherTypes' /\ call' = [call EXCEPT ![c] = Idle]
            /\ acked' \in SUBSET rec'.mutations /\ told' \in SUBSET (told \cup {rec'.state})
        BY <2>1, <3>2 DEF Return, IInv, TypeOK, OtherTypes, NoRecordedMutationLost
      <3>5. rec.state \notin Terminal /\ rec.mutations \subseteq rec'.mutations
        BY <3>1, <3>2 DEF Terminal
      <3> QED BY <3>1, <3>2, <3>3, <3>4, <3>5, RecordMoves
    <2> QED BY <1>3, <2>1, GivesUp DEF recordWrite
  <1> QED BY <1>1, <1>2, <1>3

(* The append to the ledger: the only one, by the call that started the    *)
(* commit, so nobody has begun to roll back.                               *)
LEMMA AppendStep ==
  ASSUME IInv, NEW c \in Calls, call[c].at = "commit append", ledger' = ledger + 1,
         NEW step \in {"commit finish", "commit fail"}, GoTo(c, step),
         UNCHANGED <<rec, starts, fence, live, claims, restored, acked, told>>
  PROVE  IInv'
  <1>1. ledger = 0 /\ \A d \in Calls : call[d].at = "commit append" => d = c
    BY DEF IInv, AppendOnce
  <1>2. call[c].snap.state = "committing"
    BY CallTypes DEF Sound, SnapshotState
  <1>3. PICK k \in Call : /\ call' = [call EXCEPT ![c] = k]
                         /\ k.at = step /\ k.snap = call[c].snap
    <2> DEFINE moved == [call[c] EXCEPT !.at = step]
    <2>1. moved \in Call /\ moved.at = step /\ moved.snap = call[c].snap
      BY CallTypes DEF Call, Steps
    <2>2. call' = [call EXCEPT ![c] = moved]
      BY CallTypes, Moves
    <2> HIDE DEF moved
    <2> QED BY <2>1, <2>2
  <1>4. call'[c] = k /\ \A d \in Calls : d # c => call'[d] = call[d]
    BY <1>3, CallTypes
  <1>5. TypeOK'
    <2>1. ledger' \in Nat
      BY <1>1, Counting, Zenon
    <2>2. call' \in [Calls -> Call]
      BY <1>3, CallTypes
    <2> QED BY <2>1, <2>2 DEF IInv, TypeOK
  <1>6. /\ OutcomesAgree' /\ NoRecordedMutationLost' /\ ExternalEffectsApproved'
        /\ RolledBackMeansRestored' /\ RecordExists'
    BY DEF IInv, OutcomesAgree, NoRecordedMutationLost, ExternalEffectsApproved,
           RolledBackMeansRestored, RecordExists
  <1>7. OneWay'
    <2>1. CommitBegun /\ ~RollbackBegun /\ rec.state \notin {"absent", "prepared"}
      BY <1>2 DEF CommitBegun, IInv, OneWay
    <2>2. ~RollbackBegun'
      BY <1>2, <1>3, <1>4, <2>1 DEF RollbackBegun
    <2> QED BY <2>1, <2>2 DEF OneWay
  <1>8. AppendOnce'
    <2>1. ledger' <= 1
      BY <1>1, Counting, Zenon
    <2>2. \A d \in Calls : call'[d].at # "commit append"
      BY <1>1, <1>3, <1>4
    <2> QED BY <2>1, <2>2, Zenon DEF AppendOnce
  <1>9. Sound(k)
    BY <1>2, <1>3, CallTypes DEF Sound, SnapshotState, SnapshotAge, SnapshotChecked, PrepareSteps
  <1>10. ASSUME NEW d \in Calls PROVE Sound(call[d])'
    <2>1. PICK x : x = call'[d] /\ Sound(x)
      BY <1>4, <1>9 DEF IInv
    <2>2. Sound(x)'
      BY <2>1, SoundStays
    <2> QED BY <2>1, <2>2 DEF Sound, SnapshotState, SnapshotAge, SnapshotChecked
  <1> QED BY <1>5, <1>6, <1>7, <1>8, <1>10 DEF IInv

LEMMA CommitCalls ==
  ASSUME IInv, NEW c \in Calls,
         commit(c) \/ commitFence(c) \/ commitApprove(c) \/ commitStart(c)
            \/ commitAppend(c) \/ commitFinish(c) \/ commitFail(c)
  PROVE  IInv'
  <1>1. CASE commit(c)
    <2>1. CASE rec.state = "prepared" /\ Start(c, "commit fence", rec, None)
      <3>1. SnapshotState([at |-> "commit fence", snap |-> rec, item |-> None, held |-> live])
        BY <2>1 DEF SnapshotState, PrepareSteps
      <3>2. "commit fence" \in Steps \ ({"idle", "commit append", "commit start", "rollback finish"}
                                         \cup PrepareSteps)
        BY DEF Steps, PrepareSteps
      <3> QED BY <2>1, <3>1, <3>2, Starts
    <2>2. CASE /\ rec.state = "committed" /\ told' = told \cup {"committed"}
               /\ UNCHANGED call /\ Others /\ UNCHANGED rec
      <3>1. OtherTypes' /\ told' \in SUBSET (told \cup {rec.state})
        BY <2>2 DEF Others, IInv, TypeOK, OtherTypes
      <3> QED BY <2>2, <3>1, NobodyMoves DEF Others
    <2> QED BY <1>1, <2>1, <2>2 DEF commit
  <1>2. CASE commitFence(c)
    <2>1. CASE call[c].at = "commit fence" /\ Proceed(c, "commit approve")
      BY <2>1, CallTypes, Proceeds DEF Proceed, PrepareSteps, Steps, Call, Sound, SnapshotState
    <2> QED BY <1>2, <2>1, GivesUp DEF commitFence
  <1>3. CASE commitApprove(c)
    <2>1. CASE /\ call[c].at = "commit approve" /\ Proceed(c, "commit start")
               /\ call[c].snap.approved \/ call[c].snap.mutations \cap External = {}
      <3>1. Approved(call[c].snap)
        BY <2>1, Zenon DEF Approved
      <3> QED BY <2>1, <3>1, CallTypes, Proceeds DEF Proceed, PrepareSteps, Steps, Call, Sound, SnapshotState
    <2>2. CASE /\ call[c].at = "commit approve"
               /\ GoWith(c, "commit start", [call[c].snap EXCEPT !.approved = TRUE])
               /\ Others /\ UNCHANGED <<rec, told>>
      <3>1. PICK k \in Call : /\ call' = [call EXCEPT ![c] = k]
                             /\ k.at = "commit start" /\ k.snap.approved = TRUE
                             /\ k.snap.state = call[c].snap.state
                             /\ k.snap.revision = call[c].snap.revision
                             /\ k.snap.mutations = call[c].snap.mutations
        <4> DEFINE snap == [call[c].snap EXCEPT !.approved = TRUE]
                   moved == [call[c] EXCEPT !.at = "commit start", !.snap = snap]
        <4>1. /\ snap \in Record /\ snap.approved = TRUE /\ snap.state = call[c].snap.state
              /\ snap.revision = call[c].snap.revision /\ snap.mutations = call[c].snap.mutations
          BY CallTypes DEF Record
        <4>2. call' = [call EXCEPT ![c] = moved]
          BY <2>2, CallTypes DEF GoWith, Call
        <4> HIDE DEF snap
        <4>3. moved \in Call /\ moved.at = "commit start" /\ moved.snap = snap
          BY <4>1, CallTypes DEF Call, Steps
        <4> HIDE DEF moved
        <4> QED BY <4>1, <4>2, <4>3
      <3>2. Approved(k.snap)
        BY <3>1 DEF Approved
      <3>3. Sound(k)
        BY <2>2, <3>1, <3>2, CallTypes DEF Sound, SnapshotState, SnapshotAge, SnapshotChecked, PrepareSteps
      <3>4. OtherTypes' /\ acked' \in SUBSET rec.mutations /\ told' \in SUBSET (told \cup {rec.state})
        BY <2>2 DEF Others, IInv, TypeOK, OtherTypes, NoRecordedMutationLost
      <3>5. UNCHANGED <<rec, ledger, restored>>
        BY <2>2 DEF Others
      <3> QED BY <3>1, <3>3, <3>4, <3>5, CallMoves
    <2> QED BY <1>3, <2>1, <2>2, GivesUp DEF commitApprove
  <1>4. CASE commitStart(c)
    <2>1. May(c, "committing") /\ Sound(call[c]) /\ call[c] \in Call
      BY <1>4, CallTypes DEF commitStart, May, PrepareSteps
    <2>2. CASE PublishAndGo(c, "committing", "commit append")
      <3>1. rec'.state = "committing"
        <4>1. publishTransition(c, "committing")
          BY <2>2 DEF PublishAndGo
        <4> QED BY <2>1, <4>1, Published
      <3>2. SnapshotState([call[c] EXCEPT !.at = "commit append", !.snap = rec'])
        BY <2>1, <3>1 DEF SnapshotState, PrepareSteps, Call
      <3>3. "commit append" \in Steps \ ({"idle", "commit start", "rollback finish"} \cup PrepareSteps)
        BY DEF Steps, PrepareSteps
      <3> QED BY <2>1, <2>2, <3>2, <3>3, PublishesAndGoes
    <2> QED BY <1>4, <2>1, <2>2, NotWrittenSteps DEF commitStart
  <1>5. CASE commitAppend(c)
    <2>1. CASE \E step \in {"commit finish", "commit fail"} :
                  call[c].at = "commit append" /\ Proceed(c, step)
      BY <2>1, CallTypes, Proceeds DEF Proceed, PrepareSteps, Steps, Call, Sound, SnapshotState
    <2> QED BY <1>5, <2>1, AppendStep DEF commitAppend
  <1>6. CASE commitFinish(c)
    <2>1. May(c, "committed") /\ Sound(call[c]) /\ call[c] \in Call
      BY <1>6, CallTypes DEF commitFinish, May, PrepareSteps, Sound, SnapshotState
    <2>2. SnapshotState([call[c] EXCEPT !.at = "commit fail"])
      BY <1>6, <2>1 DEF commitFinish, Sound, SnapshotState, PrepareSteps, Call
    <2> QED BY <1>6, <2>1, <2>2, PublishesAndTells, NotWrittenSteps DEF commitFinish
  <1>7. CASE commitFail(c)
    <2>1. May(c, "failed")
      BY <1>7 DEF commitFail, May, PrepareSteps
    <2> QED BY <1>7, <2>1, PublishesAndTells, NotWrittenSteps DEF commitFail
  <1> QED BY <1>1, <1>2, <1>3, <1>4, <1>5, <1>6, <1>7

(* The restoring of mutations, by the call that published rolling-back, so *)
(* nobody has begun to commit.                                             *)
LEMMA RestoreStep ==
  ASSUME IInv, NEW c \in Calls, rollbackRestore(c)
  PROVE  IInv'
  <1>1. PICK wanted, done, step :
           /\ wanted = call[c].snap.mutations \cap Rollbackable
           /\ done \in SUBSET wanted
           /\ restored' = restored \cup done
           /\ GoTo(c, step)
           /\ step \in {"rollback finish", "rollback partial"}
           /\ (step = "rollback finish") => (done = wanted)
    <2> DEFINE all == call[c].snap.mutations \cap Rollbackable
    <2>1. PICK done \in SUBSET all :
             /\ restored' = restored \cup done
             /\ GoTo(c, IF done = all THEN "rollback finish" ELSE "rollback partial")
      BY DEF rollbackRestore
    <2> HIDE DEF all
    <2>2. CASE done = all
      BY <2>1, <2>2, Zenon DEF all
    <2>3. CASE done # all
      <3>1. GoTo(c, "rollback partial")
        BY <2>1, <2>3
      <3>2. ("rollback partial" = "rollback finish") => (done = all)
        OBVIOUS
      <3> WITNESS all, done, "rollback partial"
      <3> QED BY <2>1, <3>1, <3>2 DEF all
    <2> QED BY <2>2, <2>3
  <1>2. call[c].at = "rollback restore" /\ UNCHANGED <<rec, starts, fence, live, ledger, acked, told>>
    BY DEF rollbackRestore
  <1>0. claims' \in [Files -> Calls \cup {None}]
    BY DEF rollbackRestore, IInv, TypeOK
  <1>3. call[c].snap.state = "rolling-back"
    BY <1>2, CallTypes DEF Sound, SnapshotState
  <1>4. PICK k \in Call : /\ call' = [call EXCEPT ![c] = k]
                         /\ k.snap = call[c].snap
                         /\ k.at = step
    <2> DEFINE moved == [call[c] EXCEPT !.at = step]
    <2>2. moved \in Call /\ moved.at = step /\ moved.snap = call[c].snap
      BY <1>1, CallTypes DEF Call, Steps
    <2>3. call' = [call EXCEPT ![c] = moved]
      BY <1>1, CallTypes, Moves
    <2> HIDE DEF moved
    <2> QED BY <2>2, <2>3
  <1>5. call'[c] = k /\ \A d \in Calls : d # c => call'[d] = call[d]
    BY <1>4, CallTypes
  <1>6. TypeOK'
    <2>1. restored' \subseteq Mutations
      BY <1>1, CallTypes DEF IInv, TypeOK, Mutations, Record
    <2>2. call' \in [Calls -> Call]
      BY <1>4, CallTypes
    <2> QED BY <1>0, <1>2, <2>1, <2>2 DEF IInv, TypeOK
  <1>7. ~CommitBegun /\ RollbackBegun /\ rec.state \notin {"absent", "prepared"}
    BY <1>3 DEF RollbackBegun, IInv, OneWay
  <1>8. /\ OutcomesAgree' /\ NoRecordedMutationLost' /\ ExternalEffectsApproved' /\ RecordExists'
    BY <1>2 DEF IInv, OutcomesAgree, NoRecordedMutationLost, ExternalEffectsApproved, RecordExists
  <1>9. RolledBackMeansRestored'
    BY <1>1, <1>2, <1>7 DEF IInv, RolledBackMeansRestored, CommitBegun
  <1>10. OneWay'
    <2>1. ~CommitBegun'
      BY <1>2, <1>3, <1>4, <1>5, <1>7 DEF CommitBegun
    <2> QED BY <1>2, <1>7, <2>1 DEF OneWay
  <1>11. AppendOnce'
    <2>1. k.at # "commit append"
      BY <1>1, <1>4
    <2> QED BY <1>2, <1>5, <2>1 DEF IInv, AppendOnce
  <1>12. ASSUME NEW d \in Calls PROVE Sound(call[d])'
    <2>1. PICK x \in Call : x = call'[d] /\ Sound(x)'
      <3>1. CASE d = c
        <4>1. k.at = "rollback finish" => k.snap.mutations \cap Rollbackable \subseteq restored'
          BY <1>1, <1>4
        <4>2. k.at \in {"rollback finish", "rollback partial"}
          BY <1>1, <1>4
        <4>3. SnapshotState(k)'
          BY <1>3, <1>4, <4>2 DEF SnapshotState, PrepareSteps
        <4>4. SnapshotAge(k)'
          BY <1>2, <1>4, <4>2, CallTypes DEF Sound, SnapshotAge, PrepareSteps
        <4>5. SnapshotChecked(k)'
          BY <1>3, <1>4, <4>1, <4>2 DEF SnapshotChecked
        <4> QED BY <1>5, <3>1, <4>3, <4>4, <4>5 DEF Sound
      <3>2. CASE d # c
        <4>1. call'[d] = call[d] /\ call[d] \in Call /\ Sound(call[d])
          BY <1>5, <3>2, CallTypes
        <4>2. PICK x \in Call : x = call[d] /\ Sound(x)
          BY <4>1
        <4>3. Sound(x)'
          BY <1>1, <1>2, <4>2 DEF Sound, SnapshotState, SnapshotAge, SnapshotChecked
        <4> QED BY <4>1, <4>2, <4>3
      <3> QED BY <3>1, <3>2
    <2> QED BY <2>1 DEF Sound, SnapshotState, SnapshotAge, SnapshotChecked
  <1> QED BY <1>6, <1>8, <1>9, <1>10, <1>11, <1>12 DEF IInv

LEMMA RollbackCalls ==
  ASSUME IInv, NEW c \in Calls,
         rollback(c) \/ rollbackFence(c) \/ rollbackDivert(c) \/ rollbackStart(c)
            \/ rollbackPartial(c) \/ rollbackFinish(c) \/ rollbackFail(c)
  PROVE  IInv'
  <1>1. CASE rollback(c)
    <2>1. CASE rec.state # "absent" /\ Start(c, "rollback fence", rec, None)
      <3>1. SnapshotState([at |-> "rollback fence", snap |-> rec, item |-> None, held |-> live])
        BY DEF SnapshotState, PrepareSteps
      <3>2. "rollback fence" \in Steps \ ({"idle", "commit append", "commit start", "rollback finish"}
                                           \cup PrepareSteps)
        BY DEF Steps, PrepareSteps
      <3> QED BY <2>1, <3>1, <3>2, Starts
    <2>2. CASE /\ rec.state = "rolled-back" /\ told' = told \cup {"rolled-back"}
               /\ UNCHANGED call /\ Others /\ UNCHANGED rec
      <3>1. OtherTypes' /\ told' \in SUBSET (told \cup {rec.state})
        BY <2>2 DEF Others, IInv, TypeOK, OtherTypes
      <3> QED BY <2>2, <3>1, NobodyMoves DEF Others
    <2> QED BY <1>1, <2>1, <2>2 DEF rollback
  <1>2. CASE rollbackFence(c)
    <2>1. CASE /\ call[c].at = "rollback fence" /\ call[c].snap.state = "committing"
               /\ Proceed(c, "rollback divert")
      BY <2>1, CallTypes, Proceeds DEF Proceed, PrepareSteps, Steps, Call, Sound, SnapshotState
    <2>2. CASE call[c].at = "rollback fence" /\ Proceed(c, "rollback start")
      BY <2>2, CallTypes, Proceeds DEF Proceed, PrepareSteps, Steps, Call, Sound, SnapshotState
    <2> QED BY <1>2, <2>1, <2>2, GivesUp DEF rollbackFence
  <1>3. CASE rollbackDivert(c)
    <2>1. May(c, "recovering")
      BY <1>3 DEF rollbackDivert, May, PrepareSteps
    <2> QED BY <1>3, <2>1, PublishesAndTells, NotWrittenSteps DEF rollbackDivert
  <1>4. CASE rollbackStart(c)
    <2>1. May(c, "rolling-back") /\ Sound(call[c]) /\ call[c] \in Call
      BY <1>4, CallTypes DEF rollbackStart, May, PrepareSteps
    <2>2. CASE PublishAndGo(c, "rolling-back", "rollback restore")
      <3>1. rec'.state = "rolling-back"
        <4>1. publishTransition(c, "rolling-back")
          BY <2>2 DEF PublishAndGo
        <4> QED BY <2>1, <4>1, Published
      <3>2. SnapshotState([call[c] EXCEPT !.at = "rollback restore", !.snap = rec'])
        BY <2>1, <3>1 DEF SnapshotState, PrepareSteps, Call
      <3>3. "rollback restore" \in Steps \ ({"idle", "commit start", "rollback finish"} \cup PrepareSteps)
        BY DEF Steps, PrepareSteps
      <3> QED BY <2>1, <2>2, <3>2, <3>3, PublishesAndGoes
    <2> QED BY <1>4, <2>1, <2>2, NotWrittenSteps DEF rollbackStart
  <1>5. CASE rollbackPartial(c)
    <2>1. PICK to \in {"recovering", "failed"} : PublishAndTell(c, to) \/ NotWritten(c, to, "idle")
      BY <1>5 DEF rollbackPartial
    <2>2. May(c, to)
      BY <1>5 DEF rollbackPartial, May, PrepareSteps
    <2> QED BY <2>1, <2>2, PublishesAndTells, NotWrittenSteps
  <1>6. CASE rollbackFinish(c)
    <2>1. May(c, "rolled-back") /\ Sound(call[c]) /\ call[c] \in Call
      BY <1>6, CallTypes DEF rollbackFinish, May, PrepareSteps
    <2>2. SnapshotState([call[c] EXCEPT !.at = "rollback fail"])
      BY <1>6, <2>1 DEF rollbackFinish, Sound, SnapshotState, PrepareSteps, Call
    <2> QED BY <1>6, <2>1, <2>2, PublishesAndTells, NotWrittenSteps DEF rollbackFinish
  <1>7. CASE rollbackFail(c)
    <2>1. May(c, "failed")
      BY <1>7 DEF rollbackFail, May, PrepareSteps
    <2> QED BY <1>7, <2>1, PublishesAndTells, NotWrittenSteps DEF rollbackFail
  <1> QED BY <1>1, <1>2, <1>3, <1>4, <1>5, <1>6, <1>7

(* The step recover goes on with fits the state it read.                   *)
LEMMA RecoverStep ==
  ASSUME NEW state \in Interrupted
  PROVE  /\ recoverStep(state) \in {"recover reopen", "recover query", "recover continue", "recover park"}
         /\ recoverStep(state) = "recover query" => state = "committing"
         /\ recoverStep(state) = "recover continue" => state = "rolling-back"
  BY DEF recoverStep, Interrupted

LEMMA RecoverCalls ==
  ASSUME IInv, NEW c \in Calls,
         recover(c) \/ recoverReopen(c) \/ recoverAgain(c) \/ recoverQuery(c)
            \/ recoverConfirm(c) \/ recoverContinue(c) \/ recoverPark(c)
  PROVE  IInv'
  <1> DEFINE step == recoverStep(rec.state)
  <1>1. rec.state \in Interrupted =>
           /\ step \in {"recover reopen", "recover query", "recover continue", "recover park"}
           /\ step = "recover query" => rec.state = "committing"
           /\ step = "recover continue" => rec.state = "rolling-back"
    BY RecoverStep
  <1>2. rec.state \in Interrupted =>
           \A k : k.at = step /\ k.snap = rec => SnapshotState(k)
    <2> HIDE DEF step
    <2> QED BY <1>1 DEF SnapshotState, PrepareSteps
  <1>3. CASE recover(c)
    <2>1. rec.state \in Interrupted /\ Start(c, step, rec, None)
      BY <1>3 DEF recover
    <2>2. PICK s \in {"recover reopen", "recover query", "recover continue", "recover park"} : s = step
      BY <1>1, <2>1
    <2>3. SnapshotState([at |-> s, snap |-> rec, item |-> None, held |-> live])
      BY <1>2, <2>1, <2>2
    <2>4. s \in Steps \ ({"idle", "commit append", "commit start", "rollback finish"}
                            \cup PrepareSteps)
      BY DEF Steps, PrepareSteps
    <2>5. Start(c, s, rec, None) /\ rec.state # "absent"
      BY <2>1, <2>2 DEF Start, Interrupted
    <2> QED BY <2>3, <2>4, <2>5, Starts
  <1>4. CASE recoverReopen(c)
    <2>1. May(c, "recovering") /\ call[c] \in Call
      BY <1>4, CallTypes DEF recoverReopen, May, PrepareSteps
    <2>2. SnapshotState([call[c] EXCEPT !.at = "recover again", !.snap = rec'])
      BY <2>1 DEF SnapshotState, PrepareSteps, Call
    <2>3. "recover again" \in Steps \ ({"idle", "commit start", "rollback finish"} \cup PrepareSteps)
      BY DEF Steps, PrepareSteps
    <2> QED BY <1>4, <2>1, <2>2, <2>3, PublishesAndGoes, NotWrittenSteps DEF recoverReopen
  <1>5. CASE recoverAgain(c)
    <2>1. CASE /\ call[c].at = "recover again" /\ rec.state \in Interrupted
               /\ GoWith(c, step, rec) /\ Others /\ UNCHANGED <<rec, told>>
      <3>1. PICK k \in Call : call' = [call EXCEPT ![c] = k] /\ k.at = step /\ k.snap = rec
        <4> DEFINE moved == [call[c] EXCEPT !.at = step, !.snap = rec]
        <4>1. call' = [call EXCEPT ![c] = moved]
          BY <2>1, CallTypes DEF GoWith, Call
        <4> HIDE DEF step
        <4>2. moved \in Call /\ moved.at = step /\ moved.snap = rec
          BY <1>1, <2>1, CallTypes DEF Call, Steps
        <4> HIDE DEF moved
        <4> QED BY <4>1, <4>2
      <3>2. SnapshotState(k)
        BY <1>2, <2>1, <3>1
      <3> HIDE DEF step
      <3>3. SnapshotAge(k)
        <4>1. rec.revision \in Nat /\ rec.revision # 0
          BY <2>1, CallTypes DEF Record, IInv, RecordExists, Interrupted
        <4>2. rec.revision > 0 /\ rec.revision <= rec.revision
          BY <4>1, Counting
        <4>3. k.at \notin PrepareSteps
          BY <1>1, <2>1, <3>1 DEF PrepareSteps
        <4> QED BY <3>1, <4>2, <4>3, Zenon DEF SnapshotAge
      <3>4. SnapshotChecked(k) /\ k.at # "commit append"
        <4>1. rec.state \in {"committing", "committed"} => Approved(rec)
          BY Zenon DEF IInv, ExternalEffectsApproved, Approved
        <4> QED BY <1>1, <2>1, <3>1, <4>1 DEF SnapshotChecked
      <3>5. OtherTypes' /\ acked' \in SUBSET rec.mutations /\ told' \in SUBSET (told \cup {rec.state})
        BY <2>1 DEF Others, IInv, TypeOK, OtherTypes, NoRecordedMutationLost
      <3>6. UNCHANGED <<rec, ledger, restored>>
        BY <2>1 DEF Others
      <3> QED BY <3>1, <3>2, <3>3, <3>4, <3>5, <3>6, CallMoves DEF Sound
    <2> QED BY <1>5, <2>1, GivesUp DEF recoverAgain
  <1>6. CASE recoverQuery(c)
    <2>1. CASE \E s \in {"recover confirm", "recover continue"} :
                  call[c].at = "recover query" /\ Proceed(c, s)
      BY <2>1, CallTypes, Proceeds DEF Proceed, PrepareSteps, Steps, Call, Sound, SnapshotState
    <2> QED BY <1>6, <2>1 DEF recoverQuery
  <1>7. CASE recoverConfirm(c)
    <2>1. May(c, "committed")
      BY <1>7, CallTypes DEF recoverConfirm, May, PrepareSteps, Sound, SnapshotState
    <2> QED BY <1>7, <2>1, PublishesAndTells, NotWrittenSteps DEF recoverConfirm
  <1>8. CASE recoverContinue(c)
    <2>1. May(c, "recovering") /\ call[c] \in Call
      BY <1>8, CallTypes DEF recoverContinue, May, PrepareSteps
    <2>2. SnapshotState([call[c] EXCEPT !.at = "recover park", !.snap = rec'])
      BY <2>1 DEF SnapshotState, PrepareSteps, Call
    <2>3. "recover park" \in Steps \ ({"idle", "commit start", "rollback finish"} \cup PrepareSteps)
      BY DEF Steps, PrepareSteps
    <2> QED BY <1>8, <2>1, <2>2, <2>3, PublishesAndGoes, NotWrittenSteps DEF recoverContinue
  <1>9. CASE recoverPark(c)
    <2>1. May(c, "unknown")
      BY <1>9 DEF recoverPark, May, PrepareSteps
    <2> QED BY <1>9, <2>1, PublishesAndTells, NotWrittenSteps DEF recoverPark
  <1> QED BY <1>3, <1>4, <1>5, <1>6, <1>7, <1>8, <1>9

(* The lease changes, or the process dies: its calls, and with them their  *)
(* snapshots, are gone.                                                    *)
LEMMA EnvironmentSteps ==
  ASSUME IInv, leaseGrant \/ leaseRetire \/ crash
  PROVE  IInv'
  <1>1. told \in SUBSET (told \cup {rec.state})
    OBVIOUS
  <1>2. CASE leaseGrant \/ leaseRetire
    <2>1. UNCHANGED <<rec, call, starts, claims, ledger, restored, acked, told>>
      BY <1>2 DEF leaseGrant, leaseRetire
    <2>2. fence' \in Nat
      BY <1>2 DEF leaseGrant, leaseRetire, IInv, TypeOK
    <2>3. live' \in BOOLEAN
      BY <1>2, Zenon DEF leaseGrant, leaseRetire
    <2>4. OtherTypes'
      BY <2>1, <2>2, <2>3 DEF IInv, TypeOK, OtherTypes
    <2> QED BY <1>1, <2>1, <2>4, NobodyMoves
  <1>3. CASE crash
    <2>1. /\ call' = [c \in Calls |-> Idle]
          /\ UNCHANGED <<rec, starts, fence, live, claims, ledger, restored, acked, told>>
      BY <1>3 DEF crash, Others
    <2>2. \A c \in Calls : call'[c] = Idle /\ call'[c].at = "idle" /\ call'[c].snap.state = "absent"
      BY <2>1, IdleIsSound
    <2>3. TypeOK'
      BY <2>1, IdleIsSound DEF IInv, TypeOK
    <2>4. /\ OutcomesAgree' /\ NoRecordedMutationLost' /\ ExternalEffectsApproved'
          /\ RolledBackMeansRestored' /\ RecordExists'
      BY <2>1 DEF IInv, OutcomesAgree, NoRecordedMutationLost, ExternalEffectsApproved,
                  RolledBackMeansRestored, RecordExists
    <2>5. (CommitBegun' => CommitBegun) /\ (RollbackBegun' => RollbackBegun)
      BY <2>1, <2>2 DEF CommitBegun, RollbackBegun
    <2>6. OneWay'
      BY <2>1, <2>5 DEF IInv, OneWay
    <2>7. AppendOnce'
      BY <2>1, <2>2 DEF IInv, AppendOnce
    <2>8. ASSUME NEW c \in Calls PROVE Sound(call[c])'
      <3>1. Sound(Idle)'
        BY <2>3, IdleSound DEF TypeOK
      <3> QED BY <2>2, <3>1 DEF Sound, SnapshotState, SnapshotAge, SnapshotChecked
    <2> QED BY <2>3, <2>4, <2>6, <2>7, <2>8 DEF IInv
  <1> QED BY <1>2, <1>3

LEMMA InitInv == Init => IInv
  <1> SUFFICES ASSUME Init PROVE IInv
    OBVIOUS
  <1>1. rec = NoRecord /\ \A c \in Calls : call[c] = Idle /\ call[c].snap = NoRecord
    BY IdleIsSound DEF Init
  <1>2. TypeOK
    BY IdleIsSound DEF Init, TypeOK
  <1>3. /\ OutcomesAgree /\ NoRecordedMutationLost /\ ExternalEffectsApproved
        /\ RolledBackMeansRestored /\ RecordExists
    BY <1>1, IdleIsSound DEF Init, OutcomesAgree, NoRecordedMutationLost,
       ExternalEffectsApproved, RolledBackMeansRestored, RecordExists, Terminal
  <1>4. ~CommitBegun /\ ~RollbackBegun
    BY <1>1, IdleIsSound DEF Init, CommitBegun, RollbackBegun
  <1>5. AppendOnce
    <2>1. ledger <= 1
      BY DEF Init
    <2>2. \A c \in Calls : call[c].at # "commit append"
      BY <1>1, IdleIsSound
    <2> QED BY <2>1, <2>2 DEF AppendOnce
  <1>6. \A c \in Calls : Sound(call[c])
    BY <1>1, <1>2, IdleSound DEF TypeOK
  <1> QED BY <1>2, <1>3, <1>4, <1>5, <1>6 DEF IInv, OneWay

LEMMA NextInv == IInv /\ [Next]_vars => IInv'
  <1> SUFFICES ASSUME IInv, [Next]_vars PROVE IInv'
    OBVIOUS
  <1>1. ASSUME NEW c \in Calls,
               \/ prepare(c) \/ prepareFence(c) \/ prepareClaim(c) \/ prepareClean(c)
               \/ prepareBind(c) \/ prepareWrite(c)
        PROVE  IInv'
    BY <1>1, PrepareCalls
  <1>2. ASSUME NEW c \in Calls, record(c) \/ recordFence(c) \/ recordWrite(c)
        PROVE  IInv'
    BY <1>2, RecordCalls
  <1>3. ASSUME NEW c \in Calls,
               \/ commit(c) \/ commitFence(c) \/ commitApprove(c) \/ commitStart(c)
               \/ commitAppend(c) \/ commitFinish(c) \/ commitFail(c)
        PROVE  IInv'
    BY <1>3, CommitCalls
  <1>4. ASSUME NEW c \in Calls,
               \/ rollback(c) \/ rollbackFence(c) \/ rollbackDivert(c) \/ rollbackStart(c)
               \/ rollbackPartial(c) \/ rollbackFinish(c) \/ rollbackFail(c)
        PROVE  IInv'
    BY <1>4, RollbackCalls
  <1>5. ASSUME NEW c \in Calls, rollbackRestore(c)
        PROVE  IInv'
    BY <1>5, RestoreStep
  <1>6. ASSUME NEW c \in Calls,
               \/ recover(c) \/ recoverReopen(c) \/ recoverAgain(c) \/ recoverQuery(c)
               \/ recoverConfirm(c) \/ recoverContinue(c) \/ recoverPark(c)
        PROVE  IInv'
    BY <1>6, RecoverCalls
  <1>7. CASE leaseGrant \/ leaseRetire \/ crash
    BY <1>7, EnvironmentSteps
  <1>8. CASE UNCHANGED vars
    <2>1. /\ UNCHANGED <<rec, call, ledger, restored, acked, told>> /\ OtherTypes'
          /\ told' \in SUBSET (told \cup {rec.state})
      BY <1>8 DEF vars, IInv, TypeOK, OtherTypes
    <2> QED BY <2>1, NobodyMoves
  <1> QED BY <1>1, <1>2, <1>3, <1>4, <1>5, <1>6, <1>7, <1>8 DEF Next

(* Every reachable state satisfies the inductive invariant.                *)
THEOREM Invariance == Spec => []IInv
  BY InitInv, NextInv, PTL DEF Spec

-----------------------------------------------------------------------------
(* What the invariant shows.                                               *)

(* Every variable keeps its type.                                          *)
THEOREM TypeCorrect == Spec => []TypeOK
  <1>1. IInv => TypeOK
    BY DEF IInv
  <1> QED BY <1>1, Invariance, PTL

(* Nobody is told an outcome that the record, or another answer of commit, *)
(* rollback and recover, contradicts, however the calls are interleaved.   *)
THEOREM OutcomesAgreed == Spec => []OutcomesAgree
  <1>1. IInv => OutcomesAgree
    BY DEF IInv
  <1> QED BY <1>1, Invariance, PTL

(* A mutation that record confirmed is in the record from then on, though  *)
(* every call writes the whole record back from the snapshot it read.      *)
THEOREM MutationsKept == Spec => []NoRecordedMutationLost
  <1>1. IInv => NoRecordedMutationLost
    BY DEF IInv
  <1> QED BY <1>1, Invariance, PTL

(* The change ledger lists the transaction once at most, and one it lists  *)
(* is neither rolled back nor restored, by any of the racing calls.        *)
THEOREM LedgerTrue == Spec => []LedgerMatchesCommit
  <1>1. IInv => LedgerMatchesCommit
    <2> SUFFICES ASSUME IInv PROVE LedgerMatchesCommit
      OBVIOUS
    <2>1. ledger = 1 => CommitBegun
      BY Counting DEF CommitBegun
    <2>2. CommitBegun => /\ ~RollbackBegun
                         /\ rec.state \notin {"absent", "prepared"}
      BY DEF IInv, OneWay
    <2>3. ~RollbackBegun => rec.state \notin {"rolling-back", "rolled-back"} /\ restored = {}
      BY DEF RollbackBegun
    <2>4. ledger <= 1
      BY DEF IInv, AppendOnce
    <2> QED BY <2>1, <2>2, <2>3, <2>4 DEF LedgerMatchesCommit
  <1> QED BY <1>1, Invariance, PTL

(* No commit starts on an external effect that was not approved, even when *)
(* record adds the effect while commit is between its check and its write. *)
THEOREM EffectsApproved == Spec => []ExternalEffectsApproved
  <1>1. IInv => ExternalEffectsApproved
    BY DEF IInv
  <1> QED BY <1>1, Invariance, PTL

(* A transaction is rolled back only when every rollbackable mutation of   *)
(* its record was restored, and a committed one was never restored.        *)
THEOREM RestoredFirst == Spec => []RolledBackMeansRestored
  <1>1. IInv => RolledBackMeansRestored
    BY DEF IInv
  <1> QED BY <1>1, Invariance, PTL

(* Who writes the record had read it as it is, in a state that has         *)
(* successors.                                                             *)
LEMMA WriterReadIt ==
  ASSUME IInv, NEW c \in Calls, NEW to, call[c].at \notin PrepareSteps \cup {"idle"},
         publishTransition(c, to)
  PROVE  rec.state \notin Terminal
  <1>1. call[c].snap \in Record /\ Sound(call[c])
    BY CallTypes
  <1>2. to \in successors(call[c].snap.state) /\ rec.revision = call[c].snap.revision
    BY DEF publishTransition, writeCas, canTransition
  <1>3. call[c].snap.state \notin Terminal
    BY <1>2 DEF successors, Terminal
  <1>4. rec.state = call[c].snap.state
    BY <1>1, <1>2 DEF Sound, SnapshotAge
  <1> QED BY <1>3, <1>4

(* The steps that publish a state of the table.                            *)
LEMMA PublishingSteps ==
  ASSUME IInv, NEW c \in Calls, rec' # rec,
         \/ commitStart(c) \/ commitFinish(c) \/ commitFail(c)
         \/ rollbackDivert(c) \/ rollbackStart(c) \/ rollbackPartial(c)
         \/ rollbackFinish(c) \/ rollbackFail(c)
         \/ recoverReopen(c) \/ recoverConfirm(c) \/ recoverContinue(c) \/ recoverPark(c)
  PROVE  rec.state \notin Terminal
  <1>1. call[c].at \notin PrepareSteps \cup {"idle"}
    BY DEF PrepareSteps, commitStart, commitFinish, commitFail, rollbackDivert, rollbackStart,
           rollbackPartial, rollbackFinish, rollbackFail, recoverReopen, recoverConfirm,
           recoverContinue, recoverPark
  <1>2. PICK to : publishTransition(c, to)
    BY Zenon DEF commitStart, commitFinish, commitFail, rollbackDivert, rollbackStart,
           rollbackPartial, rollbackFinish, rollbackFail, recoverReopen, recoverConfirm,
           recoverContinue, recoverPark, PublishAndGo, PublishAndTell, NotWritten
  <1> QED BY <1>1, <1>2, WriterReadIt

(* The steps that write the record of a transaction being prepared.        *)
LEMMA WritingSteps ==
  ASSUME IInv, NEW c \in Calls, rec' # rec, prepareWrite(c) \/ recordWrite(c)
  PROVE  rec.state \notin Terminal
  <1>1. CASE prepareWrite(c)
    <2>1. rec.revision = 0
      BY <1>1 DEF prepareWrite, writeCas, GiveUp
    <2> QED BY <2>1 DEF IInv, RecordExists, Terminal
  <1>2. CASE recordWrite(c)
    <2>1. call[c].at = "record write" /\ rec.revision = call[c].snap.revision
      BY <1>2 DEF recordWrite, writeCas, GiveUp
    <2>2. rec.state = call[c].snap.state /\ call[c].snap.state = "prepared"
      BY <2>1, CallTypes DEF Sound, SnapshotState, SnapshotAge, PrepareSteps
    <2> QED BY <2>2 DEF Terminal
  <1> QED BY <1>1, <1>2

(* The other steps leave the record.                                       *)
LEMMA OtherSteps ==
  ASSUME NEW c \in Calls,
         \/ prepare(c) \/ prepareFence(c) \/ prepareClaim(c) \/ prepareClean(c) \/ prepareBind(c)
         \/ record(c) \/ recordFence(c)
         \/ commit(c) \/ commitFence(c) \/ commitApprove(c) \/ commitAppend(c)
         \/ rollback(c) \/ rollbackFence(c) \/ rollbackRestore(c)
         \/ recover(c) \/ recoverAgain(c) \/ recoverQuery(c)
  PROVE  rec' = rec
  <1>1. CASE prepare(c) \/ prepareFence(c) \/ prepareClaim(c) \/ prepareClean(c) \/ prepareBind(c)
    BY <1>1 DEF prepare, prepareFence, prepareClaim, prepareClean, prepareBind, Start, Proceed, GiveUp
  <1>2. CASE record(c) \/ recordFence(c)
    BY <1>2 DEF record, recordFence, Start, Proceed, GiveUp
  <1>3. CASE commit(c) \/ commitFence(c) \/ commitApprove(c) \/ commitAppend(c)
    BY <1>3 DEF commit, commitFence, commitApprove, commitAppend, Start, Proceed, GiveUp
  <1>4. CASE rollback(c) \/ rollbackFence(c) \/ rollbackRestore(c)
    BY <1>4 DEF rollback, rollbackFence, rollbackRestore, Start, Proceed, GiveUp
  <1>5. CASE recover(c) \/ recoverAgain(c) \/ recoverQuery(c)
    BY <1>5 DEF recover, recoverAgain, recoverQuery, Start, Proceed, GiveUp
  <1> QED BY <1>1, <1>2, <1>3, <1>4, <1>5

-----------------------------------------------------------------------------
(* The calls amount to one atomic transaction.  For this the invariant     *)
(* needs to know who does what of the commit or the rollback.              *)

CommitSteps == {"commit append", "commit finish", "commit fail"}

RollbackSteps == {"rollback restore", "rollback partial", "rollback finish", "rollback fail"}

OwnerSteps == CommitSteps \cup RollbackSteps

(* What a call may do to the ledger and the workspace comes before any     *)
(* outcome, and a snapshot that is the record has its approval, or a       *)
(* newer one.                                                              *)
Owns(k) ==
    /\ k.at \in {"commit append", "rollback restore"} => rec.state \notin Terminal
    /\ k.at = "recover confirm" => ledger > 0
    /\ k.at = "recover reopen" => k.snap.state = "unknown"
    /\ k.at \notin PrepareSteps \cup {"idle"} /\ k.snap.revision = rec.revision =>
           /\ rec.approved => k.snap.approved
           /\ k.at # "commit start" => k.snap.approved = rec.approved

(* One call at most carries the commit or the rollback out: the one that   *)
(* published its beginning.                                                *)
OneOwner ==
    \A c, d \in Calls : call[c].at \in OwnerSteps /\ call[d].at \in OwnerSteps => c = d

Owned == OneOwner /\ \A c \in Calls : Owns(call[c])

LEMMA StepSets ==
  /\ \A at \in OwnerSteps : at \notin PrepareSteps \cup {"idle", "commit start", "recover confirm"}
  /\ "commit append" \in CommitSteps /\ "rollback restore" \in RollbackSteps
  /\ \A at \in CommitSteps : at \in OwnerSteps /\ at \notin RollbackSteps
  /\ \A at \in RollbackSteps : at \in OwnerSteps /\ at \notin CommitSteps
  BY DEF OwnerSteps, CommitSteps, RollbackSteps, PrepareSteps

(* The ledger counts its entries.                                          *)
LEMMA LedgerStays ==
  ASSUME IInv
  PROVE  /\ ledger \in Nat
         /\ UNCHANGED ledger => ledger' \in Nat /\ ledger' >= ledger
  BY DEF IInv, TypeOK

LEMMA Longer ==
  ASSUME NEW m \in Nat, NEW n \in Nat, n >= m
  PROVE  m > 0 => n > 0
  OBVIOUS

LEMMA OneMore ==
  ASSUME NEW m \in Nat
  PROVE  /\ m + 1 \in Nat /\ m + 1 >= m /\ m + 1 > 0
         /\ m > 0 <=> m # 0
         /\ \A n \in Nat : n <= m => n # m + 1
  OBVIOUS

(* Whoever carries out the commit, or the rollback, shows that it began.   *)
LEMMA OwnersBegan ==
  ASSUME IInv, NEW c \in Calls
  PROVE  /\ call[c].at \in CommitSteps \cup {"recover confirm"} => CommitBegun
         /\ call[c].at \in RollbackSteps => RollbackBegun
         /\ call[c].at \in OwnerSteps => rec.state \notin {"absent", "prepared"}
  <1>1. /\ call[c].at \in CommitSteps \cup {"recover confirm"} => call[c].snap.state = "committing"
        /\ call[c].at \in RollbackSteps => call[c].snap.state = "rolling-back"
    BY CallTypes DEF Sound, SnapshotState, CommitSteps, RollbackSteps
  <1>2. /\ call[c].snap.state = "committing" => CommitBegun
        /\ call[c].snap.state = "rolling-back" => RollbackBegun
    BY DEF CommitBegun, RollbackBegun
  <1>3. rec.state \in {"absent", "prepared"} => ~CommitBegun /\ ~RollbackBegun
    BY DEF IInv, OneWay
  <1> QED BY <1>1, <1>2, <1>3 DEF OwnerSteps

(* A call moves on as k.  Only who carries out the commit or the rollback, *)
(* or finds the transaction listed, writes an outcome.                     *)
LEMMA OwnedMoves ==
  ASSUME IInv, Owned, NEW c \in Calls, NEW k \in Call, call' = [call EXCEPT ![c] = k],
         rec \in Record,
         rec' = rec \/ rec'.revision = rec.revision + 1,
         ledger' \in Nat, ledger' >= ledger,
         Owns(k)',
         k.at \in OwnerSteps => call[c].at \in OwnerSteps \/ rec.state = "prepared",
         rec' = rec \/ rec'.state \notin Terminal
            \/ call[c].at \in OwnerSteps \cup {"recover confirm"}
  PROVE  Owned'
  <1>1. call'[c] = k /\ \A d \in Calls : d # c => call'[d] = call[d]
    BY DEF IInv, TypeOK
  <1>2. OneOwner'
    <2>1. rec.state = "prepared" => \A d \in Calls : call[d].at \notin OwnerSteps
      BY OwnersBegan
    <2> QED BY <1>1, <2>1 DEF Owned, OneOwner
  <1>3. ASSUME NEW d \in Calls, d # c PROVE Owns(call[d])'
    <2>1. PICK x : /\ x = call[d] /\ x \in Call /\ Owns(x) /\ Sound(x)
      BY CallTypes DEF Owned
    <2>2. x.at \in {"commit append", "rollback restore"} => rec'.state \notin Terminal
      <3>1. CASE rec' = rec \/ rec'.state \notin Terminal
        BY <2>1, <3>1 DEF Owns
      <3>2. CASE call[c].at \in OwnerSteps
        BY <1>3, <2>1, <3>2, StepSets DEF Owned, OneOwner
      <3>3. CASE call[c].at = "recover confirm"
        <4>1. CommitBegun /\ ~RollbackBegun /\ ledger > 0
          BY <3>3, OwnersBegan DEF IInv, OneWay, Owned, Owns
        <4>2. x.at # "rollback restore"
          BY <2>1, <4>1, OwnersBegan, StepSets
        <4>3. ledger # 0
          BY <4>1, LedgerStays, OneMore
        <4>4. x.at # "commit append"
          BY <2>1, <4>3 DEF IInv, AppendOnce
        <4> QED BY <4>2, <4>4
      <3> QED BY <3>1, <3>2, <3>3
    <2>3. x.at = "recover confirm" => ledger' > 0
      <3>1. ledger > 0 => ledger' > 0
        BY LedgerStays, Longer
      <3> QED BY <2>1, <3>1 DEF Owns
    <2>4. x.snap.revision <= rec.revision /\ x.snap.revision \in Nat /\ rec.revision \in Nat
      BY <2>1 DEF Sound, SnapshotAge, Call, Record
    <2>5. rec' = rec \/ x.snap.revision # rec'.revision
      BY <2>4, OneMore
    <2>6. Owns(x)'
      BY <2>1, <2>2, <2>3, <2>5 DEF Owns
    <2>7. call'[d] = x
      BY <1>1, <1>3, <2>1
    <2> QED BY <2>6, <2>7 DEF Owns
  <1>4. Owns(call[c])'
    BY <1>1 DEF Owns
  <1> QED BY <1>2, <1>3, <1>4 DEF Owned

(* A call that is under way goes on and the record stays.                  *)
LEMMA OwnedGoesOn ==
  ASSUME IInv, Owned, NEW c \in Calls,
         NEW step \in Steps \ {"idle", "commit append", "rollback restore", "recover reopen"},
         GoTo(c, step), UNCHANGED rec, ledger' \in Nat, ledger' >= ledger,
         call[c].at \notin {"idle", "commit start"},
         step \in PrepareSteps <=> call[c].at \in PrepareSteps,
         step \in OwnerSteps => call[c].at \in OwnerSteps,
         step = "recover confirm" => ledger > 0
  PROVE  Owned'
  <1>1. call[c] \in Call /\ call \in [Calls -> Call] /\ rec \in Record /\ Owns(call[c])
    BY CallTypes DEF Owned
  <1>2. PICK k \in Call : /\ call' = [call EXCEPT ![c] = k]
                         /\ k.at = step /\ k.snap = call[c].snap
    <2> DEFINE moved == [call[c] EXCEPT !.at = step]
    <2>1. moved \in Call /\ moved.at = step /\ moved.snap = call[c].snap
      BY <1>1 DEF Call
    <2>2. call' = [call EXCEPT ![c] = moved]
      BY <1>1, Moves
    <2> HIDE DEF moved
    <2> QED BY <2>1, <2>2
  <1>3. Owns(k)'
    <2>1. ledger > 0 => ledger' > 0
      BY LedgerStays, Longer
    <2>2. k.at \notin PrepareSteps \cup {"idle"} => call[c].at \notin PrepareSteps \cup {"idle", "commit start"}
      BY <1>2
    <2> QED BY <1>1, <1>2, <2>1, <2>2 DEF Owns
  <1> QED BY <1>1, <1>2, <1>3, OwnedMoves

(* A call ends.                                                            *)
LEMMA OwnedReturns ==
  ASSUME IInv, Owned, NEW c \in Calls, Return(c), UNCHANGED ledger,
         rec' = rec \/ rec'.revision = rec.revision + 1,
         rec' = rec \/ rec'.state \notin Terminal
            \/ call[c].at \in OwnerSteps \cup {"recover confirm"}
  PROVE  Owned'
  <1>1. Idle \in Call /\ Idle.at = "idle" /\ call' = [call EXCEPT ![c] = Idle]
    BY IdleIsSound DEF Return
  <1>2. Owns(Idle)'
    BY <1>1 DEF Owns
  <1>3. ledger' \in Nat /\ ledger' >= ledger
    BY LedgerStays
  <1> QED BY <1>1, <1>2, <1>3, StepSets, CallTypes, OwnedMoves

(* A call starts, or starts over, on the record there is.                  *)
LEMMA OwnedStarts ==
  ASSUME IInv, Owned, NEW c \in Calls, NEW k \in Call, call' = [call EXCEPT ![c] = k],
         UNCHANGED <<rec, ledger>>,
         k.at \notin OwnerSteps \cup {"recover confirm", "idle"},
         k.at \in PrepareSteps \/ k.snap = rec,
         k.at = "recover reopen" => rec.state = "unknown"
  PROVE  Owned'
  <1>1. Owns(k)'
    BY StepSets DEF Owns, PrepareSteps
  <1>2. ledger' \in Nat /\ ledger' >= ledger
    BY LedgerStays
  <1> QED BY <1>1, <1>2, CallTypes, OwnedMoves

(* The steps that publish.  A publication is a step of the abstract        *)
(* transaction: it gives an outcome only from a commit or a rollback that  *)
(* began, and parks nothing that did not begin.                            *)
May2(c, to) ==
    /\ May(c, to)
    /\ to \in Terminal => call[c].at \in OwnerSteps \cup {"recover confirm"}
    /\ to = "failed" => call[c].at \in OwnerSteps
    /\ to = "recovering" => call[c].snap.state # "prepared"
    /\ to # "committing" => call[c].at # "commit start"

LEMMA PublishedStep ==
  ASSUME IInv, Owned, NEW c \in Calls, NEW to, May2(c, to), publishTransition(c, to),
         UNCHANGED <<ledger, restored>>
  PROVE  Transaction!Next
  <1>1. /\ rec' \in Record /\ rec'.state = to
        /\ rec'.mutations = rec.mutations /\ rec'.approved = call[c].snap.approved
        /\ rec.state = call[c].snap.state /\ rec.revision = call[c].snap.revision
        /\ rec.state \notin Terminal /\ to \notin {"absent", "prepared"}
        /\ to \in {"committing", "rolling-back"} => rec.state = "prepared"
        /\ to \in {"committing", "committed"} => Approved(rec')
        /\ to = "rolled-back" => /\ rec.state = "rolling-back"
                                 /\ rec'.mutations \cap Rollbackable \subseteq restored
    BY Published DEF May2
  <1>2. to \in successors(rec.state)
    BY <1>1 DEF publishTransition, canTransition
  <1>3. call[c].at \in OwnerSteps => rec.state \in {"committing", "rolling-back"}
    BY <1>1, CallTypes DEF OwnerSteps, CommitSteps, RollbackSteps, Sound, SnapshotState
  <1>4. /\ rec.approved => rec'.approved
        /\ to # "committing" => rec'.approved = rec.approved
    <2>1. /\ Owns(call[c]) /\ call[c].at \notin PrepareSteps \cup {"idle"}
          /\ to # "committing" => call[c].at # "commit start"
      BY DEF May2, May, Owned
    <2> QED BY <1>1, <2>1 DEF Owns
  <1>5. rec'.approved \in BOOLEAN
    BY <1>1 DEF Record
  <1>6. CASE to = "committing"
    <2>1. Transaction!BeginCommit
      BY <1>1, <1>4, <1>5, <1>6, Zenon DEF Transaction!BeginCommit, Approved
    <2> QED BY <2>1 DEF Transaction!Next
  <1>7. CASE to = "rolling-back"
    <2>1. Transaction!BeginUndo
      BY <1>1, <1>4, <1>7 DEF Transaction!BeginUndo
    <2> QED BY <2>1 DEF Transaction!Next
  <1>8. CASE to \in {"recovering", "unknown"}
    <2>1. rec.state \in {"committing", "rolling-back", "recovering", "unknown"}
      BY <1>1, <1>2, <1>8 DEF May2, successors
    <2>2. Transaction!Park
      BY <1>1, <1>4, <1>8, <2>1 DEF Transaction!Park, Transaction!Parked
    <2> QED BY <2>2 DEF Transaction!Next
  <1>9. CASE to \in Terminal
    <2>1. to = "committed" => rec.state = "committing"
      BY <1>1 DEF May2, May
    <2>2. Transaction!Outcome
      BY <1>1, <1>3, <1>4, <1>9, <2>1 DEF Transaction!Outcome, May2, Terminal
    <2> QED BY <2>2 DEF Transaction!Next
  <1>10. to \in States
    BY <1>1 DEF Record
  <1> QED BY <1>1, <1>6, <1>7, <1>8, <1>9, <1>10 DEF States, Terminal

LEMMA OwnedTells ==
  ASSUME IInv, Owned, NEW c \in Calls, NEW to, May2(c, to), PublishAndTell(c, to)
  PROVE  Owned' /\ Transaction!Next
  <1>1. Return(c) /\ UNCHANGED <<ledger, restored>> /\ publishTransition(c, to)
    BY DEF PublishAndTell, Others
  <1>2. rec'.revision = rec.revision + 1 /\ rec'.state = to
    BY <1>1, Published DEF May2
  <1>3. Owned'
    BY <1>1, <1>2, OwnedReturns DEF May2
  <1> QED BY <1>1, <1>3, PublishedStep

LEMMA OwnedGoes ==
  ASSUME IInv, Owned, NEW c \in Calls, NEW to, May2(c, to), to \notin Terminal,
         NEW step \in {"commit append", "rollback restore", "recover again", "recover park"},
         step \in OwnerSteps => to \in {"committing", "rolling-back"},
         PublishAndGo(c, to, step)
  PROVE  Owned' /\ Transaction!Next
  <1>1. GoWith(c, step, rec') /\ UNCHANGED <<ledger, restored>> /\ publishTransition(c, to)
    BY DEF PublishAndGo, Others
  <1>2. /\ rec' \in Record /\ rec'.revision = rec.revision + 1 /\ rec'.state = to
        /\ to \in {"committing", "rolling-back"} => rec.state = "prepared"
    BY <1>1, Published DEF May2
  <1>3. PICK k \in Call : /\ call' = [call EXCEPT ![c] = k]
                         /\ k.at = step /\ k.snap = rec'
    <2> DEFINE moved == [call[c] EXCEPT !.at = step, !.snap = rec']
    <2>1. moved \in Call /\ moved.at = step /\ moved.snap = rec'
      BY <1>2, CallTypes DEF Call, Steps
    <2>2. call' = [call EXCEPT ![c] = moved]
      BY <1>1, CallTypes DEF GoWith, Call
    <2> HIDE DEF moved
    <2> QED BY <2>1, <2>2
  <1>4. Owns(k)'
    BY <1>2, <1>3 DEF Owns
  <1>5. ledger' \in Nat /\ ledger' >= ledger
    BY <1>1, LedgerStays
  <1>6. Owned'
    BY <1>2, <1>3, <1>4, <1>5, CallTypes, OwnedMoves
  <1> QED BY <1>1, <1>6, PublishedStep

LEMMA OwnedNotWritten ==
  ASSUME IInv, Owned, NEW c \in Calls, NEW to, May2(c, to),
         NEW step \in {"idle", "commit fail", "rollback fail"},
         step # "idle" => call[c].at \in OwnerSteps,
         NotWritten(c, to, step)
  PROVE  Owned' /\ [Transaction!Next]_(Transaction!vars)
  <1>1. UNCHANGED <<ledger, restored>> /\ (UNCHANGED rec \/ publishTransition(c, to))
    BY DEF NotWritten, Others
  <1>2. publishTransition(c, to) => rec'.revision = rec.revision + 1 /\ rec'.state = to
    BY Published DEF May2
  <1>3. [Transaction!Next]_(Transaction!vars)
    <2>1. UNCHANGED rec => Transaction!vars' = Transaction!vars
      BY <1>1 DEF Transaction!vars
    <2> QED BY <1>1, <2>1, PublishedStep
  <1>4. CASE step = "idle"
    <2>1. Return(c)
      BY <1>4 DEF NotWritten
    <2>2. Owned'
      BY <1>1, <1>2, <2>1, OwnedReturns DEF May2
    <2> QED BY <1>3, <2>2
  <1>5. CASE step # "idle"
    <2>1. GoTo(c, step) /\ call[c].at \in OwnerSteps /\ step \in Steps
      BY <1>5 DEF NotWritten, Steps
    <2>2. PICK k \in Call : /\ call' = [call EXCEPT ![c] = k]
                           /\ k.at = step /\ k.snap = call[c].snap
      <3> DEFINE moved == [call[c] EXCEPT !.at = step]
      <3>1. moved \in Call /\ moved.at = step /\ moved.snap = call[c].snap
        BY <2>1, CallTypes DEF Call
      <3>2. call' = [call EXCEPT ![c] = moved]
        BY <2>1, CallTypes, Moves
      <3> HIDE DEF moved
      <3> QED BY <3>1, <3>2
    <2>3. Owns(k)'
      <3>1. call[c].at \notin PrepareSteps \cup {"idle", "commit start"} /\ Owns(call[c])
        BY <2>1, StepSets DEF Owned
      <3>2. CASE rec' = rec
        BY <1>5, <2>2, <3>1, <3>2 DEF Owns
      <3>3. CASE publishTransition(c, to)
        <4>1. rec.revision \in Nat /\ call[c].snap.revision = rec.revision
          BY <3>3, CallTypes DEF publishTransition, writeCas, Record
        <4>2. k.snap.revision # rec'.revision
          BY <1>2, <2>2, <3>3, <4>1, OneMore
        <4> QED BY <1>5, <2>2, <4>2 DEF Owns
      <3> QED BY <1>1, <3>2, <3>3
    <2>4. ledger' \in Nat /\ ledger' >= ledger
      BY <1>1, LedgerStays
    <2>5. Owned'
      BY <1>1, <1>2, <2>1, <2>2, <2>3, <2>4, CallTypes, OwnedMoves
    <2> QED BY <1>3, <2>5
  <1> QED BY <1>4, <1>5

(* The steps that leave the record, the ledger and the workspace.          *)
Quiet == UNCHANGED <<rec, ledger, restored>>

LEMMA QuietStep == Quiet => UNCHANGED (Transaction!vars)
  BY DEF Quiet, Transaction!vars

LEMMA OwnedGivesUp ==
  ASSUME IInv, Owned, NEW c \in Calls, GiveUp(c)
  PROVE  Owned' /\ Quiet
  <1>1. Return(c) /\ Quiet
    BY DEF GiveUp, Others, Quiet
  <1> QED BY <1>1, OwnedReturns DEF Quiet

LEMMA OwnedProceeds ==
  ASSUME IInv, Owned, NEW c \in Calls,
         NEW step \in Steps \ {"idle", "commit append", "rollback restore", "recover reopen"},
         Proceed(c, step),
         call[c].at \notin {"idle", "commit start"},
         step \in PrepareSteps <=> call[c].at \in PrepareSteps,
         step \in OwnerSteps => call[c].at \in OwnerSteps,
         step = "recover confirm" => ledger > 0
  PROVE  Owned' /\ Quiet
  <1>1. GoTo(c, step) /\ Quiet
    BY DEF Proceed, Others, Quiet
  <1>2. ledger' \in Nat /\ ledger' >= ledger
    BY <1>1, LedgerStays DEF Quiet
  <1> QED BY <1>1, <1>2, OwnedGoesOn DEF Quiet

LEMMA OwnedBegins ==
  ASSUME IInv, Owned, NEW c \in Calls, NEW item \in Mutations \cup {None},
         NEW step \in Steps \ (OwnerSteps \cup PrepareSteps \cup {"recover confirm", "idle"}),
         Start(c, step, rec, item),
         step = "recover reopen" => rec.state = "unknown"
  PROVE  Owned' /\ Quiet
  <1> DEFINE k == [at |-> step, snap |-> rec, item |-> item, held |-> live]
  <1>1. rec \in Record /\ live \in BOOLEAN
    BY DEF IInv, TypeOK
  <1>2. k \in Call /\ k.at = step /\ k.snap = rec
    BY <1>1 DEF Call
  <1>3. call' = [call EXCEPT ![c] = k] /\ Quiet
    BY DEF Start, Quiet
  <1> HIDE DEF k
  <1> QED BY <1>2, <1>3, OwnedStarts DEF Quiet

(* Nobody moves.                                                           *)
LEMMA OwnedStays ==
  ASSUME Owned, UNCHANGED <<rec, call, ledger>>
  PROVE  Owned'
  BY DEF Owned, OneOwner, Owns

LEMMA PrepareOwned ==
  ASSUME IInv, Owned, NEW c \in Calls,
         prepare(c) \/ prepareFence(c) \/ prepareClaim(c) \/ prepareClean(c)
            \/ prepareBind(c) \/ prepareWrite(c)
  PROVE  Owned' /\ [Transaction!Next]_(Transaction!vars)
  <1>0. call \in [Calls -> Call] /\ call[c] \in Call /\ Sound(call[c]) /\ rec \in Record
    BY CallTypes
  <1>1. CASE prepare(c)
    <2>1. PICK k : k \in Call /\ call' = [call EXCEPT ![c] = k] /\ k.at = "prepare fence"
      <3>1. PICK g \in 1 .. fence :
               Start(c, "prepare fence", [NoRecord EXCEPT !.state = "prepared",
                                                          !.generation = g, !.by = c], None)
        BY <1>1 DEF prepare
      <3> DEFINE snap == [NoRecord EXCEPT !.state = "prepared", !.generation = g, !.by = c]
                 k == [at |-> "prepare fence", snap |-> snap, item |-> None, held |-> live]
      <3>2. g \in Nat /\ live \in BOOLEAN
        BY DEF IInv, TypeOK
      <3>3. snap \in Record
        BY <3>2, IdleIsSound DEF Record, States
      <3>4. k \in Call /\ k.at = "prepare fence"
        BY <3>2, <3>3 DEF Call, Steps
      <3>5. call' = [call EXCEPT ![c] = k]
        BY <3>1 DEF Start
      <3> HIDE DEF k, snap
      <3> QED BY <3>4, <3>5
    <2>2. Quiet
      BY <1>1 DEF prepare, Start, Quiet
    <2>3. k.at \in PrepareSteps /\ k.at \notin OwnerSteps \cup {"recover confirm", "idle"}
      BY <2>1, StepSets DEF PrepareSteps
    <2>4. Owned'
      BY <2>1, <2>2, <2>3, OwnedStarts DEF Quiet, PrepareSteps
    <2> QED BY <2>2, <2>4, QuietStep
  <1>2. CASE prepareFence(c)
    <2>1. CASE call[c].at = "prepare fence" /\ Proceed(c, "prepare claim")
      <3>1. "prepare claim" \in Steps /\ "prepare claim" \in PrepareSteps /\ "prepare fence" \in PrepareSteps
        BY DEF Steps, PrepareSteps
      <3> QED BY <2>1, <3>1, StepSets, OwnedProceeds, QuietStep
    <2> QED BY <1>2, <2>1, OwnedGivesUp, QuietStep DEF prepareFence
  <1>3. CASE prepareClaim(c)
    <2>1. CASE UNCHANGED <<rec, call, ledger, restored>>
      BY <2>1, OwnedStays, QuietStep DEF Quiet
    <2>2. CASE \E step \in {"prepare bind", "prepare clean"} :
                  call[c].at = "prepare claim" /\ Proceed(c, step)
      <3>1. PICK step \in {"prepare bind", "prepare clean"} :
               call[c].at = "prepare claim" /\ Proceed(c, step)
        BY <2>2
      <3>2. step \in Steps /\ step \in PrepareSteps /\ "prepare claim" \in PrepareSteps
        BY DEF Steps, PrepareSteps
      <3> QED BY <3>1, <3>2, StepSets, OwnedProceeds, QuietStep
    <2> QED BY <1>3, <2>1, <2>2 DEF prepareClaim
  <1>4. CASE prepareClean(c)
    <2>1. Return(c) /\ Quiet
      BY <1>4 DEF prepareClean, Quiet
    <2>2. Owned'
      BY <2>1, OwnedReturns DEF Quiet
    <2> QED BY <2>1, <2>2, QuietStep
  <1>5. CASE prepareBind(c)
    <2>1. CASE \E approved \in BOOLEAN :
                  /\ GoWith(c, "prepare write", [call[c].snap EXCEPT !.approved = approved])
                  /\ Others /\ UNCHANGED <<rec, told>>
      <3>1. PICK approved \in BOOLEAN :
               GoWith(c, "prepare write", [call[c].snap EXCEPT !.approved = approved])
        BY <2>1
      <3>2. PICK k \in Call : call' = [call EXCEPT ![c] = k] /\ k.at = "prepare write"
        <4> DEFINE snap == [call[c].snap EXCEPT !.approved = approved]
                   k == [call[c] EXCEPT !.at = "prepare write", !.snap = snap]
        <4>1. snap \in Record
          BY <1>0 DEF Call, Record
        <4>2. k \in Call /\ k.at = "prepare write"
          BY <1>0, <4>1 DEF Call, Steps
        <4>3. call' = [call EXCEPT ![c] = k]
          BY <1>0, <3>1 DEF GoWith, Call
        <4> HIDE DEF k
        <4> QED BY <4>2, <4>3
      <3>3. Quiet
        BY <2>1 DEF Others, Quiet
      <3>4. k.at \in PrepareSteps /\ k.at \notin OwnerSteps \cup {"recover confirm", "idle"}
        BY <3>2, StepSets DEF PrepareSteps
      <3>5. Owned'
        BY <3>2, <3>3, <3>4, OwnedStarts DEF Quiet, PrepareSteps
      <3> QED BY <3>3, <3>5, QuietStep
    <2> QED BY <1>5, <2>1, OwnedGivesUp, QuietStep DEF prepareBind
  <1>6. CASE prepareWrite(c)
    <2>1. CASE /\ call[c].at = "prepare write" /\ writeCas(0, call[c].snap)
               /\ Return(c) /\ Others
      <3>1. /\ rec.revision = 0 /\ rec' = [call[c].snap EXCEPT !.revision = 0 + 1]
            /\ call[c].snap \in Record /\ call[c].snap.state = "prepared"
            /\ call[c].snap.mutations \subseteq rec.mutations
        BY <1>0, <2>1 DEF writeCas, Sound, SnapshotState, SnapshotAge, PrepareSteps, Call
      <3>2. rec.state = "absent" /\ rec.mutations = {}
        BY <3>1 DEF IInv, RecordExists
      <3>3. /\ rec'.revision = rec.revision + 1 /\ rec'.state = "prepared"
            /\ rec'.mutations = {} /\ rec'.approved \in BOOLEAN
        BY <3>1, <3>2 DEF Record
      <3>4. UNCHANGED <<ledger, restored>>
        BY <2>1 DEF Others
      <3>5. Owned'
        BY <2>1, <3>3, <3>4, OwnedReturns DEF Terminal
      <3>6. Transaction!Prepare
        BY <3>2, <3>3, <3>4 DEF Transaction!Prepare
      <3> QED BY <3>5, <3>6 DEF Transaction!Next
    <2> QED BY <1>6, <2>1, OwnedGivesUp, QuietStep DEF prepareWrite
  <1> QED BY <1>1, <1>2, <1>3, <1>4, <1>5, <1>6

LEMMA RecordOwned ==
  ASSUME IInv, Owned, NEW c \in Calls, record(c) \/ recordFence(c) \/ recordWrite(c)
  PROVE  Owned' /\ [Transaction!Next]_(Transaction!vars)
  <1>0. call \in [Calls -> Call] /\ call[c] \in Call /\ Sound(call[c]) /\ rec \in Record
    BY CallTypes
  <1>1. CASE record(c)
    <2>1. PICK m \in Mutations : Start(c, "record fence", rec, m)
      BY <1>1 DEF record
    <2>2. "record fence" \in Steps \ (OwnerSteps \cup PrepareSteps \cup {"recover confirm", "idle"})
      BY DEF Steps, PrepareSteps, OwnerSteps, CommitSteps, RollbackSteps
    <2> QED BY <2>1, <2>2, OwnedBegins, QuietStep
  <1>2. CASE recordFence(c)
    <2>1. CASE call[c].at = "record fence" /\ Proceed(c, "record write")
      <3>1. "record write" \in Steps \ (OwnerSteps \cup PrepareSteps) /\ "record fence" \notin PrepareSteps
        BY DEF Steps, PrepareSteps, OwnerSteps, CommitSteps, RollbackSteps
      <3> QED BY <2>1, <3>1, OwnedProceeds, QuietStep
    <2>2. CASE Return(c) /\ Quiet
      BY <2>2, OwnedReturns, QuietStep DEF Quiet
    <2> QED BY <1>2, <2>1, <2>2, OwnedGivesUp, QuietStep DEF recordFence, Quiet
  <1>3. CASE recordWrite(c)
    <2> DEFINE snap == call[c].snap
               next == [snap EXCEPT !.mutations = snap.mutations \cup {call[c].item}]
    <2>1. CASE /\ call[c].at = "record write" /\ writeCas(snap.revision, next)
               /\ Return(c) /\ UNCHANGED <<ledger, restored>>
      <3>1. /\ snap \in Record /\ snap.state = "prepared" /\ call[c].item \in Mutations
            /\ call[c].at \notin PrepareSteps \cup {"idle", "commit start"} /\ Owns(call[c])
        BY <1>0, <2>1 DEF Sound, SnapshotState, PrepareSteps, Call, Owned
      <3>2. rec.revision = snap.revision /\ rec' = [next EXCEPT !.revision = snap.revision + 1]
        BY <2>1 DEF writeCas
      <3>3. /\ rec.state = "prepared" /\ rec.mutations = snap.mutations
            /\ rec.approved = snap.approved
        BY <1>0, <3>1, <3>2 DEF Sound, SnapshotAge, Owns
      <3>4. /\ rec'.revision = rec.revision + 1 /\ rec'.state = "prepared"
            /\ rec'.mutations = rec.mutations \cup {call[c].item}
            /\ rec'.approved = rec.approved
        BY <3>1, <3>2, <3>3 DEF Record
      <3>5. Owned'
        BY <2>1, <3>4, OwnedReturns DEF Terminal
      <3>6. Transaction!Include
        BY <2>1, <3>1, <3>3, <3>4 DEF Transaction!Include, Mutations
      <3> QED BY <3>5, <3>6 DEF Transaction!Next
    <2> HIDE DEF next
    <2> QED BY <1>3, <2>1, OwnedGivesUp, QuietStep DEF recordWrite, next
  <1> QED BY <1>1, <1>2, <1>3

(* The entry in the ledger is the one of the transaction being committed,  *)
(* which may have been parked meanwhile.                                   *)
LEMMA AppendOwned ==
  ASSUME IInv, Owned, NEW c \in Calls, commitAppend(c)
  PROVE  Owned' /\ [Transaction!Next]_(Transaction!vars)
  <1>1. PICK step \in {"commit finish", "commit fail"} :
           /\ GoTo(c, step) /\ UNCHANGED <<rec, restored>>
           /\ ledger' = ledger \/ ledger' = ledger + 1
    BY DEF commitAppend, Proceed, Others
  <1>2. call[c].at = "commit append" /\ ledger = 0
    BY DEF commitAppend, IInv, AppendOnce
  <1>3. ledger \in Nat /\ ledger' \in Nat /\ ledger' >= ledger
    BY <1>1, LedgerStays, OneMore
  <1>4. Owned'
    <2>1. step \in Steps \ (PrepareSteps \cup {"idle", "commit append", "rollback restore", "recover reopen"})
      BY DEF Steps, PrepareSteps
    <2>2. call[c].at \in OwnerSteps /\ call[c].at \notin PrepareSteps \cup {"idle", "commit start"}
      BY <1>2, StepSets
    <2> QED BY <1>1, <1>3, <2>1, <2>2, OwnedGoesOn
  <1>5. CASE ledger' = ledger
    BY <1>1, <1>4, <1>5, QuietStep DEF Quiet
  <1>6. CASE ledger' = ledger + 1
    <2>1. CommitBegun /\ rec.state \notin Terminal \cup {"absent", "prepared"}
      BY <1>2, OwnersBegan, StepSets DEF Owned, Owns
    <2>2. ~RollbackBegun
      BY <2>1 DEF IInv, OneWay
    <2>3. restored = {} /\ rec.state # "rolling-back"
      BY <2>2 DEF RollbackBegun
    <2>4. rec.state \in {"committing", "recovering", "unknown"}
      BY <2>1, <2>3, CallTypes DEF Record, States, Terminal
    <2>5. ~(ledger > 0) /\ ledger' > 0
      <3>1. ledger = 0 /\ ledger' = ledger + 1 /\ ledger \in Nat
        BY <1>2, <1>3, <1>6
      <3>2. ~(ledger > 0)
        BY <3>1, OneMore
      <3>3. ledger' > 0
        BY <3>1, OneMore
      <3> QED BY <3>2, <3>3
    <2>6. Transaction!List
      BY <1>1, <2>3, <2>4, <2>5 DEF Transaction!List, Transaction!Parked
    <2> QED BY <1>4, <2>6 DEF Transaction!Next
  <1> QED BY <1>1, <1>4, <1>5, <1>6

(* A mutation is restored while the transaction is rolled back, or parked. *)
LEMMA RestoreOwned ==
  ASSUME IInv, Owned, NEW c \in Calls, rollbackRestore(c)
  PROVE  Owned' /\ [Transaction!Next]_(Transaction!vars)
  <1>1. PICK done \in SUBSET (call[c].snap.mutations \cap Rollbackable) : restored' = restored \cup done
    BY DEF rollbackRestore
  <1>2. PICK step \in {"rollback finish", "rollback partial"} : GoTo(c, step)
    BY Zenon DEF rollbackRestore
  <1>3. call[c].at = "rollback restore" /\ UNCHANGED <<rec, ledger>>
    BY DEF rollbackRestore
  <1>4. Owned'
    <2>1. step \in Steps \ (PrepareSteps \cup {"idle", "commit append", "rollback restore", "recover reopen"})
      BY DEF Steps, PrepareSteps
    <2>2. call[c].at \in OwnerSteps /\ call[c].at \notin PrepareSteps \cup {"idle", "commit start"}
      BY <1>3, StepSets
    <2>3. ledger' \in Nat /\ ledger' >= ledger
      BY <1>3, LedgerStays
    <2> QED BY <1>2, <1>3, <2>1, <2>2, <2>3, OwnedGoesOn
  <1>5. RollbackBegun /\ rec.state \notin Terminal \cup {"absent", "prepared"}
    BY <1>3, OwnersBegan, StepSets DEF Owned, Owns
  <1>6. ~CommitBegun
    BY <1>5 DEF IInv, OneWay
  <1>7. ~(ledger > 0) /\ rec.state # "committing"
    BY <1>6 DEF CommitBegun
  <1>8. rec.state \in {"rolling-back", "recovering", "unknown"}
    BY <1>5, <1>7, CallTypes DEF Record, States, Terminal
  <1>9. done \in SUBSET (rec.mutations \cap Rollbackable)
    BY CallTypes DEF Sound, SnapshotAge
  <1>10. Transaction!Undo
    BY <1>1, <1>3, <1>7, <1>8, <1>9 DEF Transaction!Undo, Transaction!Parked
  <1> QED BY <1>4, <1>10 DEF Transaction!Next

LEMMA CommitOwned ==
  ASSUME IInv, Owned, NEW c \in Calls,
         commit(c) \/ commitFence(c) \/ commitApprove(c) \/ commitStart(c)
            \/ commitFinish(c) \/ commitFail(c)
  PROVE  Owned' /\ [Transaction!Next]_(Transaction!vars)
  <1>0. call \in [Calls -> Call] /\ call[c] \in Call /\ Sound(call[c]) /\ rec \in Record
    BY CallTypes
  <1>1. CASE commit(c)
    <2>1. CASE Start(c, "commit fence", rec, None)
      <3>1. "commit fence" \in Steps \ (OwnerSteps \cup PrepareSteps \cup {"recover confirm", "idle"})
        BY DEF Steps, PrepareSteps, OwnerSteps, CommitSteps, RollbackSteps
      <3> QED BY <2>1, <3>1, OwnedBegins, QuietStep
    <2>2. CASE Quiet /\ UNCHANGED call
      BY <2>2, OwnedStays, QuietStep DEF Quiet
    <2> QED BY <1>1, <2>1, <2>2 DEF commit, Others, Quiet
  <1>2. CASE commitFence(c)
    <2>1. CASE call[c].at = "commit fence" /\ Proceed(c, "commit approve")
      <3>1. "commit approve" \in Steps \ (OwnerSteps \cup PrepareSteps) /\ "commit fence" \notin PrepareSteps
        BY DEF Steps, PrepareSteps, OwnerSteps, CommitSteps, RollbackSteps
      <3> QED BY <2>1, <3>1, OwnedProceeds, QuietStep
    <2> QED BY <1>2, <2>1, OwnedGivesUp, QuietStep DEF commitFence
  <1>3. CASE commitApprove(c)
    <2>1. CASE call[c].at = "commit approve" /\ Proceed(c, "commit start")
      <3>1. "commit start" \in Steps \ (OwnerSteps \cup PrepareSteps) /\ "commit approve" \notin PrepareSteps
        BY DEF Steps, PrepareSteps, OwnerSteps, CommitSteps, RollbackSteps
      <3> QED BY <2>1, <3>1, OwnedProceeds, QuietStep
    <2>2. CASE /\ GoWith(c, "commit start", [call[c].snap EXCEPT !.approved = TRUE])
               /\ Others /\ UNCHANGED <<rec, told>>
      <3>1. PICK k \in Call : /\ call' = [call EXCEPT ![c] = k]
                             /\ k.at = "commit start" /\ k.snap.approved = TRUE
        <4> DEFINE snap == [call[c].snap EXCEPT !.approved = TRUE]
                   k == [call[c] EXCEPT !.at = "commit start", !.snap = snap]
        <4>1. snap \in Record /\ snap.approved = TRUE
          BY <1>0 DEF Call, Record
        <4>2. k \in Call /\ k.at = "commit start" /\ k.snap = snap
          BY <1>0, <4>1 DEF Call, Steps
        <4>3. call' = [call EXCEPT ![c] = k]
          BY <1>0, <2>2 DEF GoWith, Call
        <4> HIDE DEF k, snap
        <4> QED BY <4>1, <4>2, <4>3
      <3>2. Quiet /\ ledger' \in Nat /\ ledger' >= ledger
        <4>1. Quiet
          BY <2>2 DEF Others, Quiet
        <4> QED BY <4>1, LedgerStays DEF Quiet
      <3>3. Owns(k)' /\ k.at \notin OwnerSteps
        BY <3>1, StepSets DEF Owns
      <3>4. Owned'
        BY <1>0, <3>1, <3>2, <3>3, OwnedMoves DEF Quiet
      <3> QED BY <3>2, <3>4, QuietStep
    <2> QED BY <1>3, <2>1, <2>2, OwnedGivesUp, QuietStep DEF commitApprove
  <1>4. CASE commitStart(c)
    <2>1. May2(c, "committing") /\ "committing" \notin Terminal
      BY <1>4 DEF commitStart, May2, May, PrepareSteps, Terminal
    <2> QED BY <1>4, <2>1, OwnedGoes, OwnedNotWritten DEF commitStart
  <1>5. CASE commitFinish(c)
    <2>1. call[c].at \in OwnerSteps /\ call[c].at = "commit finish"
      BY <1>5 DEF commitFinish, OwnerSteps, CommitSteps
    <2>2. May2(c, "committed")
      BY <1>0, <2>1 DEF May2, May, PrepareSteps, Sound, SnapshotState
    <2> QED BY <1>5, <2>1, <2>2, OwnedTells, OwnedNotWritten DEF commitFinish
  <1>6. CASE commitFail(c)
    <2>1. call[c].at \in OwnerSteps /\ call[c].at = "commit fail"
      BY <1>6 DEF commitFail, OwnerSteps, CommitSteps
    <2>2. May2(c, "failed")
      BY <2>1 DEF May2, May, PrepareSteps
    <2> QED BY <1>6, <2>1, <2>2, OwnedTells, OwnedNotWritten DEF commitFail
  <1> QED BY <1>1, <1>2, <1>3, <1>4, <1>5, <1>6

LEMMA RollbackOwned ==
  ASSUME IInv, Owned, NEW c \in Calls,
         rollback(c) \/ rollbackFence(c) \/ rollbackDivert(c) \/ rollbackStart(c)
            \/ rollbackPartial(c) \/ rollbackFinish(c) \/ rollbackFail(c)
  PROVE  Owned' /\ [Transaction!Next]_(Transaction!vars)
  <1>0. call[c] \in Call /\ Sound(call[c])
    BY CallTypes
  <1>1. CASE rollback(c)
    <2>1. CASE Start(c, "rollback fence", rec, None)
      <3>1. "rollback fence" \in Steps \ (OwnerSteps \cup PrepareSteps \cup {"recover confirm", "idle"})
        BY DEF Steps, PrepareSteps, OwnerSteps, CommitSteps, RollbackSteps
      <3> QED BY <2>1, <3>1, OwnedBegins, QuietStep
    <2>2. CASE Quiet /\ UNCHANGED call
      BY <2>2, OwnedStays, QuietStep DEF Quiet
    <2> QED BY <1>1, <2>1, <2>2 DEF rollback, Others, Quiet
  <1>2. CASE rollbackFence(c)
    <2>1. CASE \E step \in {"rollback divert", "rollback start"} :
                  call[c].at = "rollback fence" /\ Proceed(c, step)
      <3>1. PICK step \in {"rollback divert", "rollback start"} :
               call[c].at = "rollback fence" /\ Proceed(c, step)
        BY <2>1
      <3>2. step \in Steps \ (OwnerSteps \cup PrepareSteps) /\ "rollback fence" \notin PrepareSteps
        BY DEF Steps, PrepareSteps, OwnerSteps, CommitSteps, RollbackSteps
      <3> QED BY <3>1, <3>2, OwnedProceeds, QuietStep
    <2> QED BY <1>2, <2>1, OwnedGivesUp, QuietStep DEF rollbackFence
  <1>3. CASE rollbackDivert(c)
    <2>1. May2(c, "recovering")
      BY <1>0, <1>3 DEF rollbackDivert, May2, May, PrepareSteps, Terminal, Sound, SnapshotState
    <2> QED BY <1>3, <2>1, OwnedTells, OwnedNotWritten DEF rollbackDivert
  <1>4. CASE rollbackStart(c)
    <2>1. May2(c, "rolling-back") /\ "rolling-back" \notin Terminal
      BY <1>4 DEF rollbackStart, May2, May, PrepareSteps, Terminal
    <2> QED BY <1>4, <2>1, OwnedGoes, OwnedNotWritten DEF rollbackStart
  <1>5. CASE rollbackPartial(c)
    <2>1. PICK to \in {"recovering", "failed"} : PublishAndTell(c, to) \/ NotWritten(c, to, "idle")
      BY <1>5 DEF rollbackPartial
    <2>2. call[c].at \in OwnerSteps /\ call[c].snap.state = "rolling-back"
      BY <1>0, <1>5 DEF rollbackPartial, OwnerSteps, RollbackSteps, Sound, SnapshotState
    <2>3. May2(c, to)
      BY <1>5, <2>1, <2>2 DEF rollbackPartial, May2, May, PrepareSteps
    <2> QED BY <2>1, <2>3, OwnedTells, OwnedNotWritten
  <1>6. CASE rollbackFinish(c)
    <2>1. call[c].at \in OwnerSteps /\ call[c].at = "rollback finish"
      BY <1>6 DEF rollbackFinish, OwnerSteps, RollbackSteps
    <2>2. May2(c, "rolled-back")
      BY <2>1 DEF May2, May, PrepareSteps
    <2> QED BY <1>6, <2>1, <2>2, OwnedTells, OwnedNotWritten DEF rollbackFinish
  <1>7. CASE rollbackFail(c)
    <2>1. call[c].at \in OwnerSteps /\ call[c].at = "rollback fail"
      BY <1>7 DEF rollbackFail, OwnerSteps, RollbackSteps
    <2>2. May2(c, "failed")
      BY <2>1 DEF May2, May, PrepareSteps
    <2> QED BY <1>7, <2>1, <2>2, OwnedTells, OwnedNotWritten DEF rollbackFail
  <1> QED BY <1>1, <1>2, <1>3, <1>4, <1>5, <1>6, <1>7

LEMMA RecoverOwned ==
  ASSUME IInv, Owned, NEW c \in Calls,
         recover(c) \/ recoverReopen(c) \/ recoverAgain(c) \/ recoverQuery(c)
            \/ recoverConfirm(c) \/ recoverContinue(c) \/ recoverPark(c)
  PROVE  Owned' /\ [Transaction!Next]_(Transaction!vars)
  <1>0. call \in [Calls -> Call] /\ call[c] \in Call /\ Sound(call[c]) /\ rec \in Record
    BY CallTypes
  <1>1. rec.state \in Interrupted =>
           \E s \in {"recover reopen", "recover query", "recover continue", "recover park"} :
              s = recoverStep(rec.state) /\ (s = "recover reopen" => rec.state = "unknown")
    BY DEF recoverStep, Interrupted
  <1>2. \A s \in {"recover reopen", "recover query", "recover continue", "recover park"} :
           s \in Steps \ (OwnerSteps \cup PrepareSteps \cup {"recover confirm", "idle"})
    BY DEF Steps, PrepareSteps, OwnerSteps, CommitSteps, RollbackSteps
  <1>3. CASE recover(c)
    <2>1. rec.state \in Interrupted /\ Start(c, recoverStep(rec.state), rec, None)
      BY <1>3 DEF recover
    <2>2. PICK s \in {"recover reopen", "recover query", "recover continue", "recover park"} :
             Start(c, s, rec, None) /\ (s = "recover reopen" => rec.state = "unknown")
      BY <1>1, <2>1
    <2> QED BY <1>2, <2>2, OwnedBegins, QuietStep
  <1>4. CASE recoverReopen(c)
    <2>1. call[c].snap.state = "unknown" /\ call[c].at = "recover reopen"
      BY <1>4 DEF recoverReopen, Owned, Owns
    <2>2. May2(c, "recovering") /\ "recovering" \notin Terminal
      BY <2>1 DEF May2, May, PrepareSteps, Terminal
    <2>3. "recover again" \notin OwnerSteps
      BY DEF OwnerSteps, CommitSteps, RollbackSteps
    <2> QED BY <1>4, <2>2, <2>3, OwnedGoes, OwnedNotWritten DEF recoverReopen
  <1>5. CASE recoverAgain(c)
    <2>1. CASE /\ rec.state \in Interrupted
               /\ GoWith(c, recoverStep(rec.state), rec) /\ Others /\ UNCHANGED <<rec, told>>
      <3>1. PICK s \in {"recover reopen", "recover query", "recover continue", "recover park"} :
               GoWith(c, s, rec) /\ (s = "recover reopen" => rec.state = "unknown")
        BY <1>1, <2>1
      <3>2. PICK k \in Call : call' = [call EXCEPT ![c] = k] /\ k.at = s /\ k.snap = rec
        <4> DEFINE moved == [call[c] EXCEPT !.at = s, !.snap = rec]
        <4>1. moved \in Call /\ moved.at = s /\ moved.snap = rec
          BY <1>0, <1>2 DEF Call
        <4>2. call' = [call EXCEPT ![c] = moved]
          BY <1>0, <3>1 DEF GoWith, Call
        <4> HIDE DEF moved
        <4> QED BY <4>1, <4>2
      <3>3. Quiet
        BY <2>1 DEF Others, Quiet
      <3>4. Owned'
        BY <1>2, <3>1, <3>2, <3>3, OwnedStarts DEF Quiet
      <3> QED BY <3>3, <3>4, QuietStep
    <2> QED BY <1>5, <2>1, OwnedGivesUp, QuietStep DEF recoverAgain
  <1>6. CASE recoverQuery(c)
    <2>1. CASE call[c].at = "recover query" /\ ledger > 0 /\ Proceed(c, "recover confirm")
      <3>1. /\ "recover confirm" \in Steps \ (OwnerSteps \cup PrepareSteps)
            /\ "recover query" \notin PrepareSteps
        BY DEF Steps, PrepareSteps, OwnerSteps, CommitSteps, RollbackSteps
      <3> QED BY <2>1, <3>1, OwnedProceeds, QuietStep
    <2>2. CASE call[c].at = "recover query" /\ Proceed(c, "recover continue")
      <3>1. "recover query" \notin PrepareSteps
        BY DEF PrepareSteps
      <3> QED BY <1>2, <2>2, <3>1, OwnedProceeds, QuietStep
    <2> QED BY <1>6, <2>1, <2>2 DEF recoverQuery
  <1>7. CASE recoverConfirm(c)
    <2>1. May2(c, "committed")
      BY <1>0, <1>7 DEF recoverConfirm, May2, May, PrepareSteps, Sound, SnapshotState
    <2> QED BY <1>7, <2>1, OwnedTells, OwnedNotWritten DEF recoverConfirm
  <1>8. CASE recoverContinue(c)
    <2>1. May2(c, "recovering") /\ "recovering" \notin Terminal
      BY <1>0, <1>8 DEF recoverContinue, May2, May, PrepareSteps, Terminal, Sound, SnapshotState
    <2> QED BY <1>2, <1>8, <2>1, OwnedGoes, OwnedNotWritten DEF recoverContinue
  <1>9. CASE recoverPark(c)
    <2>1. May2(c, "unknown")
      BY <1>9 DEF recoverPark, May2, May, PrepareSteps, Terminal
    <2> QED BY <1>9, <2>1, OwnedTells, OwnedNotWritten DEF recoverPark
  <1> QED BY <1>3, <1>4, <1>5, <1>6, <1>7, <1>8, <1>9

LEMMA EnvironmentOwned ==
  ASSUME IInv, Owned, leaseGrant \/ leaseRetire \/ crash \/ UNCHANGED vars
  PROVE  Owned' /\ [Transaction!Next]_(Transaction!vars)
  <1>1. CASE leaseGrant \/ leaseRetire \/ UNCHANGED vars
    <2>1. Quiet /\ UNCHANGED call
      BY <1>1 DEF leaseGrant, leaseRetire, vars, Quiet
    <2> QED BY <2>1, OwnedStays, QuietStep DEF Quiet
  <1>2. CASE crash
    <2>1. Quiet /\ call' = [c \in Calls |-> Idle]
      BY <1>2 DEF crash, Others, Quiet
    <2>2. \A c \in Calls : call'[c].at = "idle"
      BY <2>1, IdleIsSound
    <2>3. Owned'
      BY <2>2, StepSets DEF Owned, OneOwner, Owns
    <2> QED BY <2>1, <2>3, QuietStep
  <1> QED BY <1>1, <1>2

LEMMA InitOwned == Init => Owned /\ Transaction!Init
  <1> SUFFICES ASSUME Init PROVE Owned /\ Transaction!Init
    OBVIOUS
  <1>1. \A c \in Calls : call[c].at = "idle"
    BY IdleIsSound DEF Init
  <1>2. Owned
    BY <1>1, StepSets DEF Owned, OneOwner, Owns
  <1>3. Transaction!Init
    BY DEF Init, Transaction!Init, NoRecord
  <1> QED BY <1>2, <1>3

LEMMA NextOwned ==
  IInv /\ Owned /\ [Next]_vars => Owned' /\ [Transaction!Next]_(Transaction!vars)
  <1> SUFFICES ASSUME IInv, Owned, [Next]_vars
               PROVE  Owned' /\ [Transaction!Next]_(Transaction!vars)
    OBVIOUS
  <1>1. ASSUME NEW c \in Calls,
               \/ prepare(c) \/ prepareFence(c) \/ prepareClaim(c) \/ prepareClean(c)
               \/ prepareBind(c) \/ prepareWrite(c)
        PROVE  Owned' /\ [Transaction!Next]_(Transaction!vars)
    BY <1>1, PrepareOwned
  <1>2. ASSUME NEW c \in Calls, record(c) \/ recordFence(c) \/ recordWrite(c)
        PROVE  Owned' /\ [Transaction!Next]_(Transaction!vars)
    BY <1>2, RecordOwned
  <1>3. ASSUME NEW c \in Calls,
               \/ commit(c) \/ commitFence(c) \/ commitApprove(c) \/ commitStart(c)
               \/ commitFinish(c) \/ commitFail(c)
        PROVE  Owned' /\ [Transaction!Next]_(Transaction!vars)
    BY <1>3, CommitOwned
  <1>4. ASSUME NEW c \in Calls, commitAppend(c)
        PROVE  Owned' /\ [Transaction!Next]_(Transaction!vars)
    BY <1>4, AppendOwned
  <1>5. ASSUME NEW c \in Calls,
               \/ rollback(c) \/ rollbackFence(c) \/ rollbackDivert(c) \/ rollbackStart(c)
               \/ rollbackPartial(c) \/ rollbackFinish(c) \/ rollbackFail(c)
        PROVE  Owned' /\ [Transaction!Next]_(Transaction!vars)
    BY <1>5, RollbackOwned
  <1>6. ASSUME NEW c \in Calls, rollbackRestore(c)
        PROVE  Owned' /\ [Transaction!Next]_(Transaction!vars)
    BY <1>6, RestoreOwned
  <1>7. ASSUME NEW c \in Calls,
               \/ recover(c) \/ recoverReopen(c) \/ recoverAgain(c) \/ recoverQuery(c)
               \/ recoverConfirm(c) \/ recoverContinue(c) \/ recoverPark(c)
        PROVE  Owned' /\ [Transaction!Next]_(Transaction!vars)
    BY <1>7, RecoverOwned
  <1>8. CASE leaseGrant \/ leaseRetire \/ crash \/ UNCHANGED vars
    BY <1>8, EnvironmentOwned
  <1> QED BY <1>1, <1>2, <1>3, <1>4, <1>5, <1>6, <1>7, <1>8, Zenon DEF Next

(* The concurrent calls, whatever they interleave with and wherever the    *)
(* process dies, implement one atomic transaction: every step is a step of *)
(* it or leaves it as it is.                                               *)
THEOREM Refinement == Spec => ImplementsAtomicMutation
  <1>1. Spec => [](IInv /\ Owned)
    BY InitInv, NextInv, InitOwned, NextOwned, PTL DEF Spec
  <1> QED BY <1>1, InitOwned, NextOwned, PTL
          DEF Spec, ImplementsAtomicMutation, Transaction!Spec

(* A terminal outcome is final, in the record, in the ledger and in the    *)
(* workspace: no call that had read the record before it was reached, and  *)
(* no restart, rewrites it, lists it late or restores a mutation of it.    *)
THEOREM TerminalKept ==
  Spec => [][rec.state \in Terminal => UNCHANGED <<rec, ledger, restored>>]_vars
  <1>1. ASSUME IInv, Next, rec.state \in Terminal PROVE rec' = rec
    <2>1. CASE leaseGrant \/ leaseRetire \/ crash
      BY <2>1 DEF leaseGrant, leaseRetire, crash
    <2> QED BY <1>1, <2>1, PublishingSteps, WritingSteps, OtherSteps, Zenon DEF Next
  <1>2. ASSUME IInv, Owned, Next, rec.state \in Terminal PROVE UNCHANGED <<ledger, restored>>
    <2>1. [Transaction!Next]_(Transaction!vars) /\ IInv'
      BY <1>2, NextInv, NextOwned
    <2>2. ~Transaction!Next
      BY <1>2 DEF Terminal, Transaction!Next, Transaction!Prepare, Transaction!Include,
         Transaction!BeginCommit, Transaction!BeginUndo, Transaction!List, Transaction!Undo,
         Transaction!Outcome, Transaction!Park, Transaction!Parked
    <2>3. (ledger > 0)' = (ledger > 0) /\ restored' = restored
      BY <2>1, <2>2 DEF Transaction!vars
    <2>4. ledger \in Nat /\ ledger <= 1 /\ ledger' \in Nat /\ ledger' <= 1
      BY <1>2, <2>1 DEF IInv, TypeOK, AppendOnce
    <2> QED BY <2>3, <2>4
  <1>3. IInv /\ Owned /\ [Next]_vars =>
           [rec.state \in Terminal => UNCHANGED <<rec, ledger, restored>>]_vars
    BY <1>1, <1>2
  <1>4. Spec => [](IInv /\ Owned)
    BY InitInv, NextInv, InitOwned, NextOwned, PTL DEF Spec
  <1> QED BY <1>3, <1>4, PTL DEF Spec

(* A transaction that was interrupted never reaches an outcome again.      *)
THEOREM ParkedForGood ==
  Spec => [][rec.state \in {"recovering", "unknown"} =>
                rec'.state \in {"recovering", "unknown"}]_vars
  <1>1. IInv /\ Owned /\ [Next]_vars =>
           [rec.state \in {"recovering", "unknown"} => rec'.state \in {"recovering", "unknown"}]_vars
    <2> SUFFICES ASSUME [Transaction!Next]_(Transaction!vars),
                        rec.state \in {"recovering", "unknown"}
                 PROVE  rec'.state \in {"recovering", "unknown"}
      BY NextOwned
    <2> QED BY DEF Transaction!Next, Transaction!vars, Transaction!Prepare, Transaction!Include,
                   Transaction!BeginCommit, Transaction!BeginUndo, Transaction!List,
                   Transaction!Undo, Transaction!Outcome, Transaction!Park, Transaction!Parked
  <1>2. Spec => [](IInv /\ Owned)
    BY InitInv, NextInv, InitOwned, NextOwned, PTL DEF Spec
  <1> QED BY <1>1, <1>2, PTL DEF Spec
=============================================================================
