---------------------------- MODULE AtomicMutation ----------------------------
(***************************************************************************)
(* What a workspace transaction promises, whoever works on it: one set of  *)
(* mutations that is committed as a whole or undone, and is parked when    *)
(* neither can be said any more.                                           *)
(*                                                                         *)
(* There are no calls here, no snapshots and no revisions: each step is    *)
(* taken on the transaction as it is.                                      *)
(***************************************************************************)
CONSTANTS
    Rollbackable,   \* mutations that can be undone
    External        \* mutations that need an approval

VARIABLES
    state,       \* where the transaction stands
    mutations,   \* what it holds
    approved,    \* its external mutations are approved
    listed,      \* it is listed as a change of the workspace
    undone       \* mutations that were undone

vars == <<state, mutations, approved, listed, undone>>

(* It was interrupted.  From here there is no way to an outcome.           *)
Parked == {"recovering", "unknown"}

Init ==
    /\ state = "absent"
    /\ mutations = {}
    /\ approved = FALSE /\ listed = FALSE
    /\ undone = {}

Prepare ==
    /\ state = "absent"
    /\ state' = "prepared"
    /\ approved' \in BOOLEAN
    /\ UNCHANGED <<mutations, listed, undone>>

Include ==
    /\ state = "prepared"
    /\ \E m \in Rollbackable \cup External : mutations' = mutations \cup {m}
    /\ UNCHANGED <<state, approved, listed, undone>>

(* From here on the mutations are fixed, and only a commit or only an      *)
(* undoing follows.                                                        *)
BeginCommit ==
    /\ state = "prepared"
    /\ state' = "committing"
    /\ approved' \in BOOLEAN
    /\ approved => approved'
    /\ mutations \cap External # {} => approved'
    /\ UNCHANGED <<mutations, listed, undone>>

BeginUndo ==
    /\ state = "prepared"
    /\ state' = "rolling-back"
    /\ UNCHANGED <<mutations, approved, listed, undone>>

(* It is listed before its commit is confirmed, and not a second time; the *)
(* entry may come when the transaction was parked already, but never after *)
(* an outcome.                                                             *)
List ==
    /\ state \in {"committing"} \cup Parked
    /\ undone = {} /\ ~listed
    /\ listed' = TRUE
    /\ UNCHANGED <<state, mutations, approved, undone>>

Undo ==
    /\ state \in {"rolling-back"} \cup Parked
    /\ ~listed
    /\ \E some \in SUBSET (mutations \cap Rollbackable) : undone' = undone \cup some
    /\ UNCHANGED <<state, mutations, approved, listed>>

Outcome ==
    /\ \/ state = "committing" /\ state' \in {"committed", "failed"}
       \/ state = "rolling-back" /\ state' = "failed"
       \/ /\ state = "rolling-back" /\ state' = "rolled-back"
          /\ mutations \cap Rollbackable \subseteq undone
    /\ UNCHANGED <<mutations, approved, listed, undone>>

Park ==
    /\ state \in {"committing", "rolling-back"} \cup Parked
    /\ state' \in Parked
    /\ UNCHANGED <<mutations, approved, listed, undone>>

Next ==
    \/ Prepare \/ Include \/ BeginCommit \/ BeginUndo
    \/ List \/ Undo \/ Outcome \/ Park

Spec == Init /\ [][Next]_vars
=============================================================================
