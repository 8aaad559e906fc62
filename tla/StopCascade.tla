---------------------------- MODULE StopCascade ----------------------------
(***************************************************************************)
(* How a stop request goes down the tree of operations: requestCancel and  *)
(* commitTerminal of lib/session-interaction-operation-authority.js, call  *)
(* by call, over the index of children that the commits shrink while the   *)
(* calls walk it.                                                          *)
(*                                                                         *)
(* A call stops one operation and then calls itself for each child it      *)
(* found.  All of it runs without a pause, but not without running code    *)
(* from outside: a commit tells the operation's observers, and the abort   *)
(* of an attempt runs the abort handlers of its tools.  Either may call    *)
(* back: stop something else, register an operation, dispose the           *)
(* authority.  RequestAuthority takes a whole stop as one step.            *)
(***************************************************************************)
EXTENDS Naturals, Sequences

CONSTANT MaxRequests  \* bound: operation ids that can be minted

ASSUME CascadeAssumption == MaxRequests \in Nat

Requests == 1 .. MaxRequests
Nobody == 0

VARIABLES
    op,        \* every operation, by id
    children,  \* the index of children, by parent
    frames,    \* the calls of requestCancel under way, the innermost last
    disposed,  \* the authority is disposed
    roots,     \* history: operations that a caller asked to stop
    owed       \* history: operations a stop under way has to ask, and has not yet

vars == <<op, children, frames, disposed, roots, owed>>

Phases == {"unused", "accepted", "running", "terminal", "dropped"}

Operation == [phase : Phases, parent : Requests \cup {Nobody}, cancelled : BOOLEAN]

Unused == [phase |-> "unused", parent |-> Nobody, cancelled |-> FALSE]

(* A call is outside, in an observer or an abort handler, or walks the     *)
(* children it found; left are those it has not come to.                   *)
Frame == [of : Requests, at : {"outside", "children"}, left : SUBSET Requests]

live(r) == op[r].phase \in {"accepted", "running"}

(* What the tree says a stop of root has to reach: the live operations     *)
(* below it along operations that are live.                                *)
ClosedUnderStop(root, S) ==
    root \in S /\ \A c \in Requests : live(c) /\ op[c].parent \in S => c \in S

LiveBelow(root) ==
    LET candidates == {r \in Requests : live(r)}
    IN  {r \in candidates :
            \A S \in SUBSET candidates : ClosedUnderStop(root, S) => r \in S}

-----------------------------------------------------------------------------
(* Callers, and observers and handlers that call back.                     *)

Top == frames[Len(frames)]
Outer == SubSeq(frames, 1, Len(frames) - 1)

Idle == frames = <<>>
MayCall == ~disposed /\ IF Idle THEN TRUE ELSE Top.at = "outside"

NextId(r) == op[r].phase = "unused" /\ \A q \in 1 .. r - 1 : op[q].phase # "unused"

Registered == {r \in Requests : op[r].phase # "unused"}

(* A request becomes an operation, below one that may be over already.     *)
register(r) == \E p \in Registered \cup {Nobody} :
    /\ MayCall /\ NextId(r)
    /\ op' = [op EXCEPT ![r] = [Unused EXCEPT !.phase = "accepted", !.parent = p]]
    /\ children' = [q \in Requests |->
          IF q = p THEN children[q] \cup {r} ELSE children[q]]
    /\ UNCHANGED <<frames, disposed, roots, owed>>

(* An attempt of the loop begins.                                          *)
begin(r) ==
    /\ Idle /\ op[r].phase = "accepted"
    /\ op' = [op EXCEPT ![r].phase = "running"]
    /\ UNCHANGED <<children, frames, disposed, roots, owed>>

(* The terminal is committed, and the operation leaves the index.          *)
commitTerminal(r, cancelled) ==
    /\ op' = [op EXCEPT ![r].phase = "terminal", ![r].cancelled = cancelled]
    /\ children' = [p \in Requests |->
          IF p = op[r].parent THEN children[p] \ {r} ELSE children[p]]

(* An attempt reports its end, or the bound on its confirmation passes.    *)
end(r) ==
    /\ Idle /\ op[r].phase = "running"
    /\ commitTerminal(r, op[r].cancelled)
    /\ UNCHANGED <<frames, disposed, roots, owed>>

dispose ==
    /\ MayCall
    /\ disposed' = TRUE
    /\ op' = [r \in Requests |-> IF op[r].phase = "unused" THEN op[r]
                                 ELSE [op[r] EXCEPT !.phase = "dropped"]]
    /\ children' = [p \in Requests |-> {}]
    /\ owed' = {}
    /\ UNCHANGED <<frames, roots>>

-----------------------------------------------------------------------------
(* requestCancel.                                                          *)

(* Mutant: the walk takes the children of the parent.                      *)
kidsOfParent(r) == IF op[r].parent = Nobody THEN children[r] ELSE children[op[r].parent]

kids(r) == children[r]

Calling(r) == [of |-> r, at |-> "outside", left |-> {}]
Walking(r) == [of |-> r, at |-> "children", left |-> kids(r)]

(* Called for a live operation, over the calls in under.  Without an       *)
(* attempt, or a boundary that could confirm its end, the operation is     *)
(* aborted at once and its observers are told; otherwise the attempt is    *)
(* aborted, which runs its handlers the first time only.                   *)
requestCancel(r, under) ==
    \/ /\ commitTerminal(r, TRUE)
       /\ frames' = Append(under, Calling(r))
    \/ /\ op[r].phase = "running"
       /\ op' = [op EXCEPT ![r].cancelled = TRUE]
       /\ frames' = Append(under, IF op[r].cancelled THEN Walking(r) ELSE Calling(r))
       /\ UNCHANGED children

(* cancel by operation or by session, the handle's dispose, the caller's   *)
(* signal.                                                                 *)
cancel(r) ==
    /\ MayCall /\ live(r)
    /\ requestCancel(r, frames)
    /\ roots' = roots \cup {r}
    /\ owed' = (owed \cup LiveBelow(r)) \ {r}
    /\ UNCHANGED disposed

(* The code outside returns, and the children are copied.                  *)
copyChildren ==
    /\ ~Idle /\ Top.at = "outside"
    /\ frames' = Append(Outer, Walking(Top.of))
    /\ UNCHANGED <<op, children, disposed, roots, owed>>

(* The calls, with child c of the innermost one taken.                     *)
Taking(c) == ~Idle /\ Top.at = "children" /\ c \in Top.left
Rest(c) == Append(Outer, [Top EXCEPT !.left = Top.left \ {c}])

(* Mutant: a child that was asked to stop before is not called again.      *)
visitOnce(c) ==
    /\ Taking(c) /\ live(c)
    /\ IF op[c].cancelled
       THEN frames' = Rest(c) /\ UNCHANGED <<op, children, owed>>
       ELSE requestCancel(c, Rest(c)) /\ owed' = owed \ {c}
    /\ UNCHANGED <<disposed, roots>>

visit(c) ==
    /\ Taking(c) /\ live(c)
    /\ requestCancel(c, Rest(c))
    /\ owed' = owed \ {c}
    /\ UNCHANGED <<disposed, roots>>

(* A child that has its terminal by now, or is gone with the authority.    *)
skip(c) ==
    /\ Taking(c) /\ ~live(c)
    /\ frames' = Rest(c)
    /\ UNCHANGED <<op, children, disposed, roots, owed>>

return ==
    /\ ~Idle /\ Top.at = "children" /\ Top.left = {}
    /\ frames' = Outer
    /\ UNCHANGED <<op, children, disposed, roots, owed>>

-----------------------------------------------------------------------------
Init ==
    /\ op = [r \in Requests |-> Unused]
    /\ children = [r \in Requests |-> {}]
    /\ frames = <<>>
    /\ disposed = FALSE
    /\ roots = {}
    /\ owed = {}

Next ==
    \/ \E r \in Requests :
          register(r) \/ begin(r) \/ end(r) \/ cancel(r) \/ visit(r) \/ skip(r)
    \/ copyChildren \/ return \/ dispose

Spec == Init /\ [][Next]_vars

-----------------------------------------------------------------------------
(* Properties.                                                             *)

(* Every variable keeps its type.                                          *)
TypeOK ==
    /\ op \in [Requests -> Operation]
    /\ children \in [Requests -> SUBSET Requests]
    /\ frames \in Seq(Frame)
    /\ disposed \in BOOLEAN
    /\ roots \subseteq Requests /\ owed \subseteq Requests

(* When the outermost call returns, every operation that was live below    *)
(* the one stopped, along live operations, has been asked, although the    *)
(* index shrank under the walk and code outside stopped and registered     *)
(* operations in the middle of it.                                         *)
NothingLeftBehind == Idle => owed = {}

(* A stop goes down the tree only: who was asked to stop was asked by a    *)
(* caller, or is the child of one that was asked; a stop of a child or a   *)
(* sibling never stops the parent.                                         *)
StopsGoDown ==
    \A r \in Requests : op[r].cancelled =>
        \/ r \in roots
        \/ op[r].parent \in Requests /\ op[op[r].parent].cancelled

(* The index holds exactly the live children of every operation: no commit *)
(* in a nested call leaves an entry behind, or removes one of an operation *)
(* that can still be stopped.                                              *)
ChildrenIndexed ==
    ~disposed => \A p \in Requests :
                    children[p] = {c \in Requests : live(c) /\ op[c].parent = p}
=============================================================================
