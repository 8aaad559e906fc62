------------------------- MODULE StopCascadeProofs -------------------------
(***************************************************************************)
(* Proofs about StopCascade, for any number of operations, any tree of     *)
(* them and any nesting of calls.                                          *)
(*                                                                         *)
(* The calls under way say what they will still come to: the children left *)
(* in a call that walks, and all children of the operation of a call that  *)
(* is outside.  The invariant Owes says that what a stop owes lies in      *)
(* every set that holds those operations and, with an operation, its live  *)
(* children.  When no call is under way the empty set is such a set.       *)
(***************************************************************************)
EXTENDS StopCascade, SequenceTheorems, TLAPS

ComesTo(f, r) ==
    \/ f.at = "outside" /\ f.of = op[r].parent
    \/ f.at = "children" /\ r \in f.left

Waiting(calls, r) == live(r) /\ \E i \in 1 .. Len(calls) : ComesTo(calls[i], r)

Closed(S) == \A c \in Requests : live(c) /\ op[c].parent \in S => c \in S

Holds(S) == Closed(S) /\ \A r \in Requests : Waiting(frames, r) => r \in S

Owes == \A S \in SUBSET Requests : Holds(S) => owed \subseteq S

(* A call is for an operation that was asked to stop, and walks some of    *)
(* its children.                                                           *)
Sound(f) == /\ op[f.of].cancelled
            /\ \A c \in f.left : op[c].parent = f.of

CallsSound(calls) == \A i \in 1 .. Len(calls) : Sound(calls[i])

UnusedPlain == \A r \in Requests : op[r].phase = "unused" => op[r] = Unused

Dead == disposed => owed = {} /\ \A r \in Requests : ~live(r) /\ children[r] = {}

IInv == TypeOK /\ UnusedPlain /\ Dead /\ ChildrenIndexed /\ StopsGoDown
          /\ CallsSound(frames) /\ Owes

-----------------------------------------------------------------------------
(* Sequences of calls.                                                     *)

LEMMA Pushed ==
  ASSUME NEW calls \in Seq(Frame), NEW f \in Frame
  PROVE  /\ Append(calls, f) \in Seq(Frame)
         /\ Len(Append(calls, f)) = Len(calls) + 1 /\ Len(calls) \in Nat
         /\ Append(calls, f)[Len(calls) + 1] = f
         /\ \A i \in 1 .. Len(calls) : Append(calls, f)[i] = calls[i]
  BY AppendProperties

LEMMA TopCall ==
  ASSUME frames \in Seq(Frame), ~Idle
  PROVE  /\ Top \in Frame /\ Outer \in Seq(Frame)
         /\ Len(Outer) = Len(frames) - 1 /\ Len(frames) \in Nat \ {0}
         /\ Top = frames[Len(frames)]
         /\ \A i \in 1 .. Len(Outer) : Outer[i] = frames[i]
  <1>1. Len(frames) \in Nat /\ Len(frames) # 0
    BY DEF Idle
  <1>2. Top \in Frame /\ Top = frames[Len(frames)]
    BY <1>1 DEF Top
  <1>3. \A i \in 1 .. Len(frames) - 1 : frames[i] \in Frame
    BY <1>1
  <1>4. Outer \in Seq(Frame) /\ Len(Outer) = Len(frames) - 1
        /\ \A i \in 1 .. Len(Outer) : Outer[i] = frames[i]
    <2>1. PICK n \in Nat : n = Len(frames) - 1
      BY <1>1
    <2>2. Outer = SubSeq(frames, 1, n)
      BY <2>1 DEF Outer
    <2>3. \A i \in 1 .. n : frames[i] \in Frame
      BY <1>3, <2>1
    <2>4. /\ SubSeq(frames, 1, n) \in Seq(Frame)
          /\ Len(SubSeq(frames, 1, n)) = IF 1 <= n THEN n - 1 + 1 ELSE 0
          /\ \A i \in 1 .. n - 1 + 1 : SubSeq(frames, 1, n)[i] = frames[1 + i - 1]
      BY <2>1, <2>3, SubSeqProperties
    <2> QED BY <2>1, <2>2, <2>4
  <1> QED BY <1>1, <1>2, <1>4

(* The innermost call replaced.                                            *)
LEMMA Replaced ==
  ASSUME frames \in Seq(Frame), ~Idle, NEW f \in Frame
  PROVE  /\ Append(Outer, f) \in Seq(Frame)
         /\ Len(Append(Outer, f)) = Len(frames) /\ Len(frames) \in Nat \ {0}
         /\ Append(Outer, f)[Len(frames)] = f
         /\ \A i \in 1 .. Len(frames) : i # Len(frames) => Append(Outer, f)[i] = frames[i]
  <1>1. Len(Outer) = Len(frames) - 1 /\ Outer \in Seq(Frame) /\ Len(frames) \in Nat \ {0}
        /\ \A i \in 1 .. Len(Outer) : Outer[i] = frames[i]
    BY TopCall
  <1>2. Append(Outer, f) \in Seq(Frame) /\ Len(Append(Outer, f)) = Len(Outer) + 1
        /\ Append(Outer, f)[Len(Outer) + 1] = f
        /\ \A i \in 1 .. Len(Outer) : Append(Outer, f)[i] = Outer[i]
    BY <1>1, Pushed
  <1> QED BY <1>1, <1>2

-----------------------------------------------------------------------------
(* A call of requestCancel, over calls that come to everything but r that  *)
(* the calls so far come to.                                               *)

(* The call of r will come to every live child of r, and walks no other.   *)
Walks(f, r) ==
    /\ f.of = r
    /\ \A c \in f.left : op[c].parent = r
    /\ f.at # "outside" =>
          f.at = "children" /\ \A c \in Requests : live(c) /\ op[c].parent = r => c \in f.left

LEMMA CallFrame ==
  ASSUME IInv, NEW r \in Requests, live(r), NEW under, requestCancel(r, under)
  PROVE  \E f \in Frame : frames' = Append(under, f) /\ Walks(f, r)
  <1>1. ~disposed
    BY DEF IInv, Dead
  <1>2. children[r] = {c \in Requests : live(c) /\ op[c].parent = r}
    BY <1>1 DEF IInv, ChildrenIndexed
  <1>3. CASE frames' = Append(under, Calling(r))
    <2>1. PICK f : f = Calling(r)
      OBVIOUS
    <2>2. f \in Frame /\ f.of = r /\ f.at = "outside" /\ f.left = {}
      BY <2>1 DEF Frame, Calling
    <2>3. Walks(f, r)
      BY <2>2 DEF Walks
    <2> QED BY <1>3, <2>1, <2>2, <2>3
  <1>4. CASE frames' = Append(under, Walking(r))
    <2>1. PICK f : f = Walking(r)
      OBVIOUS
    <2>2. f \in Frame /\ f.of = r /\ f.at = "children" /\ f.left = kids(r)
      BY <1>2, <2>1 DEF Frame, Walking, kids
    <2>3. Walks(f, r)
      BY <1>2, <2>2 DEF Walks, kids
    <2> QED BY <1>4, <2>1, <2>2, <2>3
  <1> QED BY <1>3, <1>4 DEF requestCancel

LEMMA CallOp ==
  ASSUME IInv, NEW r \in Requests, live(r), NEW under, requestCancel(r, under)
  PROVE  /\ op' \in [Requests -> Operation]
         /\ \A q \in Requests \ {r} : op'[q] = op[q]
         /\ op'[r].cancelled /\ op'[r].parent = op[r].parent
         /\ op'[r].phase \in {"running", "terminal"}
         /\ op'[r].phase = "running" => children' = children
         /\ op'[r].phase = "terminal" =>
               children' = [p \in Requests |->
                  IF p = op[r].parent THEN children[p] \ {r} ELSE children[p]]
  <1>1. op \in [Requests -> Operation]
    BY DEF IInv, TypeOK
  <1>2. CASE commitTerminal(r, TRUE)
    <2>1. PICK o : o = [op[r] EXCEPT !.phase = "terminal", !.cancelled = TRUE]
      OBVIOUS
    <2>2. o \in Operation /\ o.cancelled /\ o.parent = op[r].parent /\ o.phase = "terminal"
      BY <1>1, <2>1 DEF Operation, Phases
    <2>3. op' = [op EXCEPT ![r] = o]
      BY <1>1, <1>2, <2>1 DEF commitTerminal, Operation
    <2> QED BY <1>1, <1>2, <2>2, <2>3 DEF commitTerminal
  <1>3. CASE op[r].phase = "running" /\ op' = [op EXCEPT ![r].cancelled = TRUE] /\ UNCHANGED children
    <2>1. PICK o : o = [op[r] EXCEPT !.cancelled = TRUE]
      OBVIOUS
    <2>2. o \in Operation /\ o.cancelled /\ o.parent = op[r].parent /\ o.phase = "running"
      BY <1>1, <1>3, <2>1 DEF Operation, Phases
    <2>3. op' = [op EXCEPT ![r] = o]
      BY <1>1, <1>3, <2>1
    <2> QED BY <1>1, <1>3, <2>2, <2>3
  <1> QED BY <1>2, <1>3 DEF requestCancel
(* Everything else about a call of requestCancel, whether a caller's stop  *)
(* (which owes what is live below) or the visit of a child (which owes     *)
(* nothing new).                                                           *)
LEMMA CallOwes ==
  ASSUME IInv, NEW r \in Requests, live(r), NEW under \in Seq(Frame), requestCancel(r, under),
         \A q \in Requests : Waiting(frames, q) => q = r \/ Waiting(under, q),
         NEW more, more \subseteq LiveBelow(r), owed' = (owed \cup more) \ {r}
  PROVE  Owes'
  <1> SUFFICES ASSUME NEW S \in SUBSET Requests, Holds(S)'
               PROVE  owed' \subseteq S
    BY DEF Owes
  <1>1. PICK f \in Frame : frames' = Append(under, f) /\ Walks(f, r)
    BY CallFrame
  <1>2. /\ Len(frames') = Len(under) + 1 /\ Len(under) \in Nat /\ frames'[Len(under) + 1] = f
        /\ \A i \in 1 .. Len(under) : frames'[i] = under[i]
    BY <1>1, Pushed
  <1>3. /\ \A q \in Requests \ {r} : op'[q] = op[q]
        /\ op'[r].parent = op[r].parent
    BY CallOp
  <1>4. ASSUME NEW q \in Requests, q # r, Waiting(under, q)
        PROVE  q \in S
    <2>1. PICK i \in 1 .. Len(under) : ComesTo(under[i], q)
      BY <1>4 DEF Waiting
    <2>2. i \in 1 .. Len(frames') /\ frames'[i] = under[i]
      BY <1>2
    <2>3. ComesTo(frames[i], q)'
      BY <1>3, <1>4, <2>1, <2>2 DEF ComesTo
    <2>4. live(q)'
      BY <1>3, <1>4 DEF Waiting, live
    <2> QED BY <2>2, <2>3, <2>4 DEF Holds, Waiting
  <1>5. ASSUME NEW c \in Requests, c # r, live(c), op[c].parent \in S \cup {r}
        PROVE  c \in S
    <2>1. live(c)' /\ op'[c].parent = op[c].parent
      BY <1>3, <1>5 DEF live
    <2>2. CASE op[c].parent \in S
      BY <2>1, <2>2 DEF Holds, Closed
    <2>3. CASE op[c].parent = r
      <3>1. ComesTo(f, c)'
        BY <1>1, <1>5, <2>1, <2>3 DEF ComesTo, Walks
      <3>2. Len(under) + 1 \in 1 .. Len(frames')
        BY <1>2
      <3>3. Waiting(frames, c)'
        BY <1>2, <2>1, <3>1, <3>2 DEF Waiting, ComesTo
      <3> QED BY <3>3 DEF Holds
    <2> QED BY <1>5, <2>2, <2>3
  <1>6. owed \subseteq S \cup {r}
    <2>1. Holds(S \cup {r})
      BY <1>4, <1>5 DEF Holds, Closed
    <2>2. S \cup {r} \in SUBSET Requests
      OBVIOUS
    <2> QED BY <2>1, <2>2 DEF IInv, Owes
  <1>7. LiveBelow(r) \subseteq S \cup {r}
    <2> DEFINE T == {c \in Requests : live(c) /\ c \in S \cup {r}}
    <2>1. T \in SUBSET {c \in Requests : live(c)}
      OBVIOUS
    <2>2. ClosedUnderStop(r, T)
      BY <1>5 DEF ClosedUnderStop
    <2> QED BY <2>1, <2>2 DEF LiveBelow
  <1> QED BY <1>6, <1>7

LEMMA CallIndex ==
  ASSUME IInv, NEW r \in Requests, live(r), NEW under, requestCancel(r, under),
         UNCHANGED disposed
  PROVE  ChildrenIndexed'
  <1>1. /\ \A q \in Requests \ {r} : op'[q] = op[q]
        /\ op'[r].parent = op[r].parent /\ op'[r].phase \in {"running", "terminal"}
    BY CallOp
  <1>2. ~disposed /\ children \in [Requests -> SUBSET Requests]
    BY DEF IInv, Dead, TypeOK
  <1>3. \A p \in Requests : children[p] = {c \in Requests : live(c) /\ op[c].parent = p}
    BY <1>2 DEF IInv, ChildrenIndexed
  <1>4. CASE op'[r].phase = "running"
    <2>1. children' = children
      BY <1>4, CallOp
    <2>2. \A c \in Requests : live(c)' <=> live(c)
      BY <1>1, <1>4 DEF live
    <2>3. \A c \in Requests : op'[c].parent = op[c].parent
      BY <1>1
    <2> QED BY <1>3, <2>1, <2>2, <2>3 DEF ChildrenIndexed
  <1>5. CASE op'[r].phase = "terminal"
    <2>1. \A p \in Requests : children'[p] = children[p] \ {r}
      <3>1. children' = [p \in Requests |->
               IF p = op[r].parent THEN children[p] \ {r} ELSE children[p]]
        BY <1>5, CallOp
      <3>2. \A p \in Requests : p # op[r].parent => r \notin children[p]
        BY <1>3
      <3> QED BY <1>2, <3>1, <3>2
    <2>2. \A c \in Requests : live(c)' <=> live(c) /\ c # r
      BY <1>1, <1>5 DEF live
    <2>3. \A c \in Requests : op'[c].parent = op[c].parent
      BY <1>1
    <2> QED BY <1>3, <2>1, <2>2, <2>3 DEF ChildrenIndexed
  <1> QED BY <1>1, <1>4, <1>5

LEMMA CallStep ==
  ASSUME IInv, NEW r \in Requests, live(r), NEW under \in Seq(Frame), requestCancel(r, under),
         CallsSound(under),
         \A q \in Requests : Waiting(frames, q) => q = r \/ Waiting(under, q),
         NEW more, more \subseteq LiveBelow(r), owed' = (owed \cup more) \ {r},
         UNCHANGED disposed, roots \subseteq roots', roots' \subseteq Requests,
         r \in roots' \/ (op[r].parent \in Requests /\ op[op[r].parent].cancelled)
  PROVE  IInv'
  <1>1. PICK f \in Frame : frames' = Append(under, f) /\ Walks(f, r)
    BY CallFrame
  <1>2. /\ frames' \in Seq(Frame)
        /\ Len(frames') = Len(under) + 1 /\ Len(under) \in Nat /\ frames'[Len(under) + 1] = f
        /\ \A i \in 1 .. Len(under) : frames'[i] = under[i]
    BY <1>1, Pushed
  <1>3. /\ op' \in [Requests -> Operation]
        /\ \A q \in Requests \ {r} : op'[q] = op[q]
        /\ op'[r].cancelled /\ op'[r].parent = op[r].parent
        /\ op'[r].phase \in {"running", "terminal"}
    BY CallOp
  <1>4. TypeOK'
    <2>1. children' \in [Requests -> SUBSET Requests]
      BY <1>3, CallOp DEF IInv, TypeOK
    <2>2. owed' \subseteq Requests
      BY DEF LiveBelow, IInv, TypeOK
    <2> QED BY <1>2, <1>3, <2>1, <2>2 DEF IInv, TypeOK
  <1>5. UnusedPlain'
    BY <1>3 DEF IInv, UnusedPlain
  <1>6. Dead'
    BY DEF IInv, Dead
  <1>7. StopsGoDown'
    BY <1>3 DEF IInv, StopsGoDown
  <1>8. CallsSound(frames)'
    <2>1. ASSUME NEW i \in 1 .. Len(under) PROVE Sound(frames[i])'
      <3>1. under[i] \in Frame /\ Sound(under[i])
        BY <1>2 DEF CallsSound
      <3>2. PICK g : g = under[i]
        OBVIOUS
      <3>3. g.of \in Requests /\ g.left \subseteq Requests /\ frames'[i] = g
        BY <1>2, <3>1, <3>2 DEF Frame
      <3>4. op'[g.of].cancelled /\ \A c \in g.left : op'[c].parent = g.of
        BY <1>3, <3>1, <3>2, <3>3 DEF Sound
      <3> QED BY <3>3, <3>4 DEF Sound
    <2>2. Sound(f)'
      BY <1>1, <1>3 DEF Sound, Walks, Frame
    <2> QED BY <1>2, <2>1, <2>2 DEF CallsSound, Sound
  <1> QED BY <1>4, <1>5, <1>6, <1>7, <1>8, CallIndex, CallOwes DEF IInv

-----------------------------------------------------------------------------
(* The steps.                                                              *)

LEMMA CancelStep ==
  ASSUME IInv, NEW r \in Requests, cancel(r)
  PROVE  IInv'
  <1>1. live(r) /\ frames \in Seq(Frame) /\ CallsSound(frames) /\ requestCancel(r, frames)
    BY DEF cancel, IInv, TypeOK
  <1>2. /\ owed' = (owed \cup LiveBelow(r)) \ {r} /\ UNCHANGED disposed
        /\ roots \subseteq roots' /\ r \in roots' /\ roots' \subseteq Requests
    BY DEF cancel, IInv, TypeOK
  <1> QED BY <1>1, <1>2, CallStep

(* What the calls come to, with child c of the innermost one taken.        *)
LEMMA Taken ==
  ASSUME IInv, NEW c \in Requests, Taking(c)
  PROVE  /\ Rest(c) \in Seq(Frame) /\ CallsSound(Rest(c))
         /\ op[c].parent \in Requests /\ op[op[c].parent].cancelled
         /\ \A q \in Requests : Waiting(frames, q) => q = c \/ Waiting(Rest(c), q)
  <1>1. frames \in Seq(Frame) /\ ~Idle /\ CallsSound(frames)
    BY DEF IInv, TypeOK, Taking
  <1>2. /\ Top \in Frame /\ Top = frames[Len(frames)] /\ Len(frames) \in Nat \ {0}
        /\ Top.at = "children" /\ c \in Top.left
    BY <1>1, TopCall DEF Taking
  <1>3. Sound(Top)
    BY <1>1, <1>2 DEF CallsSound
  <1>4. PICK f : f = [Top EXCEPT !.left = Top.left \ {c}]
    OBVIOUS
  <1>5. f \in Frame /\ f.of = Top.of /\ f.at = "children" /\ f.left = Top.left \ {c}
    BY <1>2, <1>4 DEF Frame
  <1>6. /\ Rest(c) \in Seq(Frame) /\ Len(Rest(c)) = Len(frames)
        /\ Rest(c)[Len(frames)] = f
        /\ \A i \in 1 .. Len(frames) : i # Len(frames) => Rest(c)[i] = frames[i]
    BY <1>1, <1>4, <1>5, Replaced DEF Rest
  <1>7. CallsSound(Rest(c))
    <2>1. Sound(f)
      BY <1>3, <1>5 DEF Sound
    <2> QED BY <1>1, <1>6, <2>1 DEF CallsSound
  <1>8. ASSUME NEW q \in Requests, Waiting(frames, q), q # c
        PROVE  Waiting(Rest(c), q)
    <2>1. PICK i \in 1 .. Len(frames) : ComesTo(frames[i], q)
      BY <1>8 DEF Waiting
    <2>2. ComesTo(Rest(c)[i], q)
      <3>1. CASE i = Len(frames)
        BY <1>2, <1>5, <1>6, <1>8, <2>1, <3>1 DEF ComesTo
      <3>2. CASE i # Len(frames)
        BY <1>6, <2>1, <3>2
      <3> QED BY <3>1, <3>2
    <2> QED BY <1>6, <1>8, <2>1, <2>2 DEF Waiting
  <1>9. op[c].parent \in Requests /\ op[op[c].parent].cancelled
    BY <1>2, <1>3 DEF Sound, Frame
  <1> QED BY <1>6, <1>7, <1>8, <1>9

LEMMA VisitStep ==
  ASSUME IInv, NEW c \in Requests, visit(c)
  PROVE  IInv'
  <1>1. Taking(c) /\ live(c) /\ requestCancel(c, Rest(c))
        /\ owed' = (owed \cup {}) \ {c} /\ UNCHANGED <<disposed, roots>> /\ roots \subseteq Requests
    BY DEF visit, IInv, TypeOK
  <1>2. /\ {} \subseteq LiveBelow(c) /\ roots \subseteq roots' /\ roots' \subseteq Requests
        /\ UNCHANGED disposed
    BY <1>1
  <1>3. /\ Rest(c) \in Seq(Frame) /\ CallsSound(Rest(c))
        /\ op[c].parent \in Requests /\ op[op[c].parent].cancelled
        /\ \A q \in Requests : Waiting(frames, q) => q = c \/ Waiting(Rest(c), q)
    BY <1>1, Taken
  <1> QED BY <1>1, <1>2, <1>3, CallStep

(* The calls change, and nothing that is live is forgotten by them.        *)
LEMMA CallsChange ==
  ASSUME IInv, UNCHANGED <<op, children, disposed, roots, owed>>,
         frames' \in Seq(Frame), CallsSound(frames'),
         \A q \in Requests : Waiting(frames, q) => Waiting(frames', q)
  PROVE  IInv'
  <1>1. TypeOK' /\ UnusedPlain' /\ Dead' /\ ChildrenIndexed' /\ StopsGoDown'
    BY DEF IInv, TypeOK, UnusedPlain, Dead, ChildrenIndexed, StopsGoDown, live
  <1>2. CallsSound(frames)'
    BY DEF CallsSound, Sound
  <1>3. Owes'
    <2> SUFFICES ASSUME NEW S \in SUBSET Requests, Holds(S)'
                 PROVE  owed \subseteq S
      BY DEF Owes
    <2>1. \A q \in Requests : Waiting(frames', q) => Waiting(frames, q)'
      BY DEF Waiting, ComesTo, live
    <2>2. Holds(S)
      BY <2>1 DEF Holds, Closed, live
    <2> QED BY <2>2 DEF IInv, Owes
  <1> QED BY <1>1, <1>2, <1>3 DEF IInv

LEMMA SkipStep ==
  ASSUME IInv, NEW c \in Requests, skip(c)
  PROVE  IInv'
  <1>1. Taking(c) /\ ~live(c) /\ frames' = Rest(c) /\ UNCHANGED <<op, children, disposed, roots, owed>>
    BY DEF skip
  <1>2. \A q \in Requests : Waiting(frames, q) => q # c
    BY <1>1 DEF Waiting
  <1> QED BY <1>1, <1>2, Taken, CallsChange

LEMMA CopyStep ==
  ASSUME IInv, copyChildren
  PROVE  IInv'
  <1>1. frames \in Seq(Frame) /\ ~Idle /\ CallsSound(frames)
    BY DEF IInv, TypeOK, copyChildren
  <1>2. /\ Top \in Frame /\ Top = frames[Len(frames)] /\ Len(frames) \in Nat \ {0}
        /\ Top.at = "outside"
    BY <1>1, TopCall DEF copyChildren
  <1>3. PICK r \in Requests : r = Top.of
    BY <1>2 DEF Frame
  <1>4. kids(r) \subseteq Requests /\ \A c \in kids(r) : op[c].parent = r
    BY DEF IInv, TypeOK, Dead, ChildrenIndexed, kids
  <1>5. PICK f : f = Walking(Top.of)
    OBVIOUS
  <1>6. f \in Frame /\ f.of = r /\ f.at = "children" /\ f.left = kids(r)
    BY <1>3, <1>4, <1>5 DEF Frame, Walking
  <1>7. /\ frames' \in Seq(Frame) /\ Len(frames') = Len(frames) /\ frames'[Len(frames)] = f
        /\ \A i \in 1 .. Len(frames) : i # Len(frames) => frames'[i] = frames[i]
    BY <1>1, <1>5, <1>6, Replaced DEF copyChildren
  <1>8. Sound(f)
    BY <1>1, <1>2, <1>3, <1>4, <1>6 DEF CallsSound, Sound
  <1>9. CallsSound(frames')
    BY <1>1, <1>7, <1>8 DEF CallsSound
  <1>10. ASSUME NEW q \in Requests, Waiting(frames, q)
         PROVE  Waiting(frames', q)
    <2>1. PICK i \in 1 .. Len(frames) : ComesTo(frames[i], q)
      BY <1>10 DEF Waiting
    <2>2. live(q)
      BY <1>10 DEF Waiting
    <2>3. ComesTo(frames'[i], q)
      <3>1. CASE i = Len(frames)
        <4>1. op[q].parent = r
          BY <1>2, <1>3, <2>1, <3>1 DEF ComesTo
        <4>2. q \in kids(r)
          BY <2>2, <4>1 DEF IInv, Dead, ChildrenIndexed, kids
        <4> QED BY <1>6, <1>7, <3>1, <4>2 DEF ComesTo
      <3>2. CASE i # Len(frames)
        BY <1>7, <2>1, <3>2
      <3> QED BY <3>1, <3>2
    <2> QED BY <1>7, <2>1, <2>2, <2>3 DEF Waiting
  <1>11. UNCHANGED <<op, children, disposed, roots, owed>>
    BY DEF copyChildren
  <1> QED BY <1>7, <1>9, <1>10, <1>11, CallsChange

LEMMA ReturnStep ==
  ASSUME IInv, return
  PROVE  IInv'
  <1>1. frames \in Seq(Frame) /\ ~Idle /\ CallsSound(frames)
    BY DEF IInv, TypeOK, return
  <1>2. /\ Top = frames[Len(frames)] /\ Top.at = "children" /\ Top.left = {}
        /\ frames' = Outer /\ Outer \in Seq(Frame)
        /\ Len(Outer) = Len(frames) - 1 /\ Len(frames) \in Nat \ {0}
        /\ \A i \in 1 .. Len(Outer) : Outer[i] = frames[i]
    BY <1>1, TopCall DEF return
  <1>3. CallsSound(frames')
    BY <1>1, <1>2 DEF CallsSound
  <1>4. ASSUME NEW q \in Requests, Waiting(frames, q)
        PROVE  Waiting(frames', q)
    <2>1. PICK i \in 1 .. Len(frames) : ComesTo(frames[i], q)
      BY <1>4 DEF Waiting
    <2>2. i \in 1 .. Len(Outer)
      BY <1>2, <2>1 DEF ComesTo
    <2> QED BY <1>2, <1>4, <2>1, <2>2 DEF Waiting
  <1> QED BY <1>2, <1>3, <1>4, CallsChange DEF return

(* Without a call under way nothing is owed: the empty set holds all that  *)
(* the calls come to.                                                      *)
LEMMA IdleOwesNothing ==
  ASSUME IInv
  PROVE  NothingLeftBehind
  <1> SUFFICES ASSUME Idle PROVE owed = {}
    BY DEF NothingLeftBehind
  <1>1. Holds({})
    BY DEF Holds, Closed, Waiting, Idle
  <1> QED BY <1>1 DEF IInv, Owes


LEMMA RegisterStep ==
  ASSUME IInv, NEW r \in Requests, register(r)
  PROVE  IInv'
  <1>1. PICK p \in Requests \cup {Nobody} :
           /\ p = Nobody \/ op[p].phase # "unused"
           /\ op' = [op EXCEPT ![r] = [Unused EXCEPT !.phase = "accepted", !.parent = p]]
           /\ children' = [q \in Requests |->
                 IF q = p THEN children[q] \cup {r} ELSE children[q]]
    <2>1. PICK p \in Registered \cup {Nobody} :
             /\ op' = [op EXCEPT ![r] = [Unused EXCEPT !.phase = "accepted", !.parent = p]]
             /\ children' = [q \in Requests |->
                   IF q = p THEN children[q] \cup {r} ELSE children[q]]
      BY DEF register
    <2>2. p = Nobody \/ (p \in Requests /\ op[p].phase # "unused")
      BY <2>1 DEF Registered
    <2> QED BY <2>1, <2>2
  <1>2. UNCHANGED <<frames, disposed, roots, owed>> /\ ~disposed /\ op[r].phase = "unused"
    BY DEF register, MayCall, NextId
  <1>3. op \in [Requests -> Operation] /\ children \in [Requests -> SUBSET Requests]
        /\ frames \in Seq(Frame)
    BY DEF IInv, TypeOK
  <1>4. PICK o : o = [Unused EXCEPT !.phase = "accepted", !.parent = p]
    OBVIOUS
  <1>5. o \in Operation /\ o.phase = "accepted" /\ o.parent = p /\ ~o.cancelled
    BY <1>4 DEF Unused, Operation, Phases
  <1>6. /\ op' \in [Requests -> Operation] /\ op'[r] = o
        /\ \A q \in Requests \ {r} : op'[q] = op[q]
    BY <1>1, <1>3, <1>4, <1>5
  <1>7. ~op[r].cancelled /\ op[r].parent = Nobody /\ ~live(r)
    BY <1>2 DEF IInv, UnusedPlain, Unused, live
  <1>8. \A q \in Requests : live(q)' <=> live(q) \/ q = r
    BY <1>5, <1>6 DEF live
  <1>9. TypeOK'
    BY <1>1, <1>2, <1>3, <1>6 DEF IInv, TypeOK
  <1>10. UnusedPlain' /\ Dead'
    BY <1>2, <1>5, <1>6 DEF IInv, UnusedPlain, Dead
  <1>11. StopsGoDown'
    BY <1>2, <1>5, <1>6, <1>7 DEF IInv, StopsGoDown
  <1>12. ChildrenIndexed'
    <2>1. \A q \in Requests : children[q] = {c \in Requests : live(c) /\ op[c].parent = q}
      BY <1>2 DEF IInv, ChildrenIndexed
    <2>2. \A q \in Requests : children'[q] = IF q = p THEN children[q] \cup {r} ELSE children[q]
      BY <1>1
    <2>3. \A c \in Requests : op'[c].parent = IF c = r THEN p ELSE op[c].parent
      BY <1>5, <1>6
    <2> SUFFICES ASSUME NEW q \in Requests
                 PROVE  children'[q] = {c \in Requests : live(c)' /\ op'[c].parent = q}
      BY DEF ChildrenIndexed
    <2>4. CASE q = p
      <3>1. children'[q] = {c \in Requests : live(c) /\ op[c].parent = q} \cup {r}
        BY <2>1, <2>2, <2>4
      <3>2. \A c \in Requests : live(c)' /\ op'[c].parent = q
                                <=> (live(c) /\ op[c].parent = q) \/ c = r
        BY <1>7, <1>8, <2>3, <2>4
      <3> QED BY <3>1, <3>2
    <2>5. CASE q # p
      <3>1. children'[q] = {c \in Requests : live(c) /\ op[c].parent = q}
        BY <2>1, <2>2, <2>5
      <3>2. \A c \in Requests : live(c)' /\ op'[c].parent = q
                                <=> live(c) /\ op[c].parent = q
        BY <1>7, <1>8, <2>3, <2>5
      <3> QED BY <3>1, <3>2
    <2> QED BY <2>4, <2>5
  <1>13. CallsSound(frames)'
    <2> SUFFICES ASSUME NEW i \in 1 .. Len(frames) PROVE Sound(frames[i])'
      BY <1>2 DEF CallsSound
    <2>1. PICK g \in Frame : g = frames[i] /\ Sound(g)
      BY <1>3 DEF IInv, CallsSound
    <2>2. g.of \in Requests /\ g.left \subseteq Requests /\ g.of # Nobody
      BY <2>1 DEF Frame, Nobody, Requests
    <2>3. op'[g.of].cancelled /\ \A c \in g.left : op'[c].parent = g.of
      BY <1>6, <1>7, <2>1, <2>2 DEF Sound
    <2> QED BY <1>2, <2>1, <2>3 DEF Sound
  <1>14. Owes'
    <2> SUFFICES ASSUME NEW S \in SUBSET Requests, Holds(S)'
                 PROVE  owed \subseteq S
      BY <1>2 DEF Owes
    <2>1. ASSUME NEW q \in Requests, Waiting(frames, q) PROVE q \in S
      <3>1. Waiting(frames, q)'
        BY <1>2, <1>6, <1>7, <1>8, <2>1 DEF Waiting, ComesTo
      <3> QED BY <3>1 DEF Holds
    <2>2. Closed(S)
      BY <1>6, <1>7, <1>8 DEF Holds, Closed
    <2> QED BY <2>1, <2>2 DEF Holds, IInv, Owes
  <1> QED BY <1>9, <1>10, <1>11, <1>12, <1>13, <1>14 DEF IInv

LEMMA BeginStep ==
  ASSUME IInv, NEW r \in Requests, begin(r)
  PROVE  IInv'
  <1>1. op \in [Requests -> Operation]
    BY DEF IInv, TypeOK
  <1>2. PICK o : o = [op[r] EXCEPT !.phase = "running"]
    OBVIOUS
  <1>3. o \in Operation /\ o.phase = "running" /\ o.parent = op[r].parent
        /\ o.cancelled = op[r].cancelled
    BY <1>1, <1>2 DEF Operation, Phases
  <1>4. /\ op' \in [Requests -> Operation] /\ op'[r] = o
        /\ \A q \in Requests \ {r} : op'[q] = op[q]
    BY <1>1, <1>2, <1>3 DEF begin
  <1>5. Idle /\ op[r].phase = "accepted" /\ UNCHANGED <<children, frames, disposed, roots, owed>>
    BY DEF begin
  <1>6. \A q \in Requests : /\ live(q)' <=> live(q)
                            /\ op'[q].parent = op[q].parent /\ op'[q].cancelled = op[q].cancelled
    BY <1>3, <1>4, <1>5 DEF live
  <1>7. TypeOK' /\ UnusedPlain' /\ StopsGoDown' /\ ChildrenIndexed'
    BY <1>3, <1>4, <1>5, <1>6 DEF IInv, TypeOK, UnusedPlain, StopsGoDown, ChildrenIndexed
  <1>8. CallsSound(frames)' /\ Owes'
    BY <1>5, IdleOwesNothing DEF NothingLeftBehind, Idle, CallsSound, Owes
  <1>9. Dead'
    BY <1>5, <1>6 DEF IInv, Dead
  <1> QED BY <1>7, <1>8, <1>9 DEF IInv

LEMMA EndStep ==
  ASSUME IInv, NEW r \in Requests, end(r)
  PROVE  IInv'
  <1>1. op \in [Requests -> Operation] /\ children \in [Requests -> SUBSET Requests]
    BY DEF IInv, TypeOK
  <1>2. PICK o : o = [op[r] EXCEPT !.phase = "terminal", !.cancelled = op[r].cancelled]
    OBVIOUS
  <1>3. o \in Operation /\ o.phase = "terminal" /\ o.parent = op[r].parent
        /\ o.cancelled = op[r].cancelled
    BY <1>1, <1>2 DEF Operation, Phases
  <1>4. /\ op' \in [Requests -> Operation] /\ op'[r] = o
        /\ \A q \in Requests \ {r} : op'[q] = op[q]
    <2>1. op' = [op EXCEPT ![r] = o]
      BY <1>1, <1>2 DEF end, commitTerminal, Operation
    <2> QED BY <1>1, <1>3, <2>1
  <1>5. Idle /\ op[r].phase = "running" /\ UNCHANGED <<frames, disposed, roots, owed>>
        /\ children' = [p \in Requests |->
              IF p = op[r].parent THEN children[p] \ {r} ELSE children[p]]
    BY DEF end, commitTerminal
  <1>6. \A q \in Requests : /\ live(q)' <=> live(q) /\ q # r
                            /\ op'[q].parent = op[q].parent /\ op'[q].cancelled = op[q].cancelled
    BY <1>3, <1>4, <1>5 DEF live
  <1>7. TypeOK' /\ UnusedPlain' /\ StopsGoDown'
    BY <1>1, <1>3, <1>4, <1>5, <1>6 DEF IInv, TypeOK, UnusedPlain, StopsGoDown
  <1>8. CallsSound(frames)' /\ Owes'
    BY <1>5, IdleOwesNothing DEF NothingLeftBehind, Idle, CallsSound, Owes
  <1>9. ~disposed
    BY <1>5 DEF IInv, Dead, live
  <1>10. ChildrenIndexed'
    <2>1. \A p \in Requests : children[p] = {c \in Requests : live(c) /\ op[c].parent = p}
      BY <1>9 DEF IInv, ChildrenIndexed
    <2>2. \A p \in Requests : children'[p] = children[p] \ {r}
      BY <1>1, <1>5, <2>1
    <2> QED BY <1>6, <2>1, <2>2 DEF ChildrenIndexed
  <1>11. Dead'
    BY <1>5, <1>9 DEF Dead
  <1> QED BY <1>7, <1>8, <1>10, <1>11 DEF IInv

LEMMA DisposeStep ==
  ASSUME IInv, dispose
  PROVE  IInv'
  <1>1. op \in [Requests -> Operation] /\ frames \in Seq(Frame)
    BY DEF IInv, TypeOK
  <1>2. ASSUME NEW r \in Requests
        PROVE  /\ op'[r] \in Operation /\ ~live(r)' /\ op'[r].parent = op[r].parent
               /\ op'[r].cancelled = op[r].cancelled
               /\ op'[r].phase = "unused" => op'[r] = op[r] /\ op[r].phase = "unused"
    <2>1. CASE op[r].phase = "unused"
      BY <1>1, <2>1 DEF dispose, live
    <2>2. CASE op[r].phase # "unused"
      <3>1. PICK o : o = [op[r] EXCEPT !.phase = "dropped"]
        OBVIOUS
      <3>2. o \in Operation /\ o.phase = "dropped" /\ o.parent = op[r].parent
            /\ o.cancelled = op[r].cancelled
        BY <1>1, <3>1 DEF Operation, Phases
      <3>3. op'[r] = o
        BY <2>2, <3>1 DEF dispose
      <3> QED BY <3>2, <3>3 DEF live
    <2> QED BY <2>1, <2>2
  <1>3. TypeOK'
    <2>1. op' = [r \in Requests |-> op'[r]]
      BY DEF dispose
    <2>2. op' \in [Requests -> Operation]
      BY <1>2, <2>1
    <2> QED BY <2>2 DEF dispose, IInv, TypeOK
  <1>4. UnusedPlain' /\ StopsGoDown'
    BY <1>2 DEF dispose, IInv, UnusedPlain, StopsGoDown
  <1>5. Dead' /\ ChildrenIndexed' /\ Owes'
    BY <1>2 DEF dispose, Dead, ChildrenIndexed, Owes
  <1>6. CallsSound(frames)'
    <2> SUFFICES ASSUME NEW i \in 1 .. Len(frames) PROVE Sound(frames[i])'
      BY DEF CallsSound, dispose
    <2>1. PICK g \in Frame : g = frames[i] /\ Sound(g)
      BY <1>1 DEF IInv, CallsSound
    <2>2. op'[g.of].cancelled /\ \A c \in g.left : op'[c].parent = g.of
      BY <1>2, <2>1 DEF Sound, Frame
    <2> QED BY <2>1, <2>2 DEF Sound, dispose
  <1> QED BY <1>3, <1>4, <1>5, <1>6 DEF IInv

-----------------------------------------------------------------------------
LEMMA Invariance == Spec => []IInv
  <1>1. Init => IInv
    <2> SUFFICES ASSUME Init PROVE IInv
      OBVIOUS
    <2>1. Unused \in Operation /\ Unused.phase = "unused" /\ ~Unused.cancelled
      BY DEF Unused, Operation, Phases
    <2>2. \A r \in Requests : op[r] = Unused /\ ~live(r)
      BY <2>1 DEF Init, live
    <2>3. TypeOK
      <3>1. op \in [Requests -> Operation] /\ children \in [Requests -> SUBSET Requests]
        BY <2>1 DEF Init
      <3>2. frames \in Seq(Frame)
        BY DEF Init
      <3> QED BY <3>1, <3>2 DEF Init, TypeOK
    <2>4. UnusedPlain /\ Dead /\ ChildrenIndexed /\ StopsGoDown
      BY <2>1, <2>2 DEF Init, UnusedPlain, Dead, ChildrenIndexed, StopsGoDown
    <2>5. CallsSound(frames) /\ Owes
      BY DEF Init, CallsSound, Owes
    <2> QED BY <2>3, <2>4, <2>5 DEF IInv
  <1>2. IInv /\ [Next]_vars => IInv'
    <2> SUFFICES ASSUME IInv, [Next]_vars PROVE IInv'
      OBVIOUS
    <2>1. ASSUME NEW r \in Requests, register(r) PROVE IInv'
      BY <2>1, RegisterStep
    <2>2. ASSUME NEW r \in Requests, begin(r) PROVE IInv'
      BY <2>2, BeginStep
    <2>3. ASSUME NEW r \in Requests, end(r) PROVE IInv'
      BY <2>3, EndStep
    <2>4. ASSUME NEW r \in Requests, cancel(r) PROVE IInv'
      BY <2>4, CancelStep
    <2>5. ASSUME NEW r \in Requests, visit(r) PROVE IInv'
      BY <2>5, VisitStep
    <2>6. ASSUME NEW r \in Requests, skip(r) PROVE IInv'
      BY <2>6, SkipStep
    <2>7. CASE copyChildren
      BY <2>7, CopyStep
    <2>8. CASE return
      BY <2>8, ReturnStep
    <2>9. CASE dispose
      BY <2>9, DisposeStep
    <2>10. CASE UNCHANGED vars
      <3>1. UNCHANGED <<op, children, disposed, roots, owed>> /\ frames' = frames
        BY <2>10 DEF vars
      <3>2. frames' \in Seq(Frame) /\ CallsSound(frames')
        BY <3>1 DEF IInv, TypeOK
      <3>3. \A q \in Requests : Waiting(frames, q) => Waiting(frames', q)
        BY <3>1
      <3> QED BY <3>1, <3>2, <3>3, CallsChange
    <2> QED BY <2>1, <2>2, <2>3, <2>4, <2>5, <2>6, <2>7, <2>8, <2>9, <2>10 DEF Next
  <1> QED BY <1>1, <1>2, PTL DEF Spec

(* Whatever the operations, the tree and the nesting of calls, the index,  *)
(* the calls and the history stay what the module says they are.           *)
THEOREM TypeCorrect == Spec => []TypeOK
  <1>1. IInv => TypeOK
    BY DEF IInv
  <1> QED BY <1>1, Invariance, PTL

(* requestCancel reaches, by the time the outermost call returns, every    *)
(* operation that was live below the one stopped along live operations,    *)
(* with the index shrinking under the walk and observers calling back.     *)
THEOREM StopReachesAll == Spec => []NothingLeftBehind
  <1>1. IInv => NothingLeftBehind
    BY IdleOwesNothing
  <1> QED BY <1>1, Invariance, PTL

(* requestCancel stops nothing but what a caller named and what is below   *)
(* it: no stop goes up the tree.                                           *)
THEOREM StopsDescend == Spec => []StopsGoDown
  <1>1. IInv => StopsGoDown
    BY DEF IInv
  <1> QED BY <1>1, Invariance, PTL

(* After every commit of a nested call, and at every call back, the index  *)
(* of children holds exactly the live children of every operation.         *)
THEOREM IndexKept == Spec => []ChildrenIndexed
  <1>1. IInv => ChildrenIndexed
    BY DEF IInv
  <1> QED BY <1>1, Invariance, PTL
=============================================================================
