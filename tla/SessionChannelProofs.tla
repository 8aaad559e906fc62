------------------------ MODULE SessionChannelProofs ------------------------
(***************************************************************************)
(* Proofs about SessionChannel, for any devices, kinds, windows and        *)
(* deadlines, and any number of events, channels, subscriptions and        *)
(* remounts.                                                               *)
(***************************************************************************)
EXTENDS SessionChannel, FiniteSetTheorems, SequenceTheorems, TLAPS

-----------------------------------------------------------------------------
(* The inductive invariant.                                                *)

Offset == Len(history) - Len(log)

(* No two events have the same cursor, among those of this engine when it  *)
(* is the engine that numbers them.                                        *)
Numbered ==
    /\ Len(cursors) = Len(history)
    /\ feed = "sequenced" => \A p \in 1..Len(history) : cursors[p] = p
    /\ feed = "object" =>
           /\ \A p \in (since + 1)..Len(history) : cursors[p] \in 1..seq
           /\ \A p, q \in (since + 1)..Len(history) : p < q => cursors[p] < cursors[q]

(* What is retained is the end of the session's log, from this engine.     *)
Retained ==
    /\ feed # "array" \/ log = <<>>
    /\ since + Len(log) <= Len(history)
    /\ Numbered
    /\ \A i \in 1..Len(log) :
           /\ log[i].event = Offset + i
           /\ log[i].cursor = cursors[Offset + i]
           /\ log[i].kind = history[Offset + i]

(* What a reader who named a cursor has of the events it asked for has no  *)
(* gap, and its watermark is in there.                                     *)
Reader(sub) ==
    /\ sub.arrived \subseteq 1..Len(history)
    /\ sub.start \in 0..Len(history)
    /\ sub.next \in {sub.start} \union sub.arrived
    /\ sub.start # NoCursor /\ ~Foreign(sub.start) =>
           \A p \in sub.arrived :
               /\ p > sub.start
               /\ \A q \in (sub.start + 1)..p :
                      history[q] \in sub.kinds => q \in sub.arrived

IInv == TypeOK /\ Retained /\ \A s \in 1..Len(subs) : Reader(subs[s])

(* What a step may do to a dead channel and to its subscriptions.          *)
Unmoved(i) ==
    Dead(channels[i]) =>
        /\ Dead(channels[i])'
        /\ channels[i].expiresAt' = channels[i].expiresAt
        /\ \A s \in 1..Len(subs) :
               subs[s].channel = i =>
                   /\ subs'[s].next = subs[s].next
                   /\ subs'[s].arrived = subs[s].arrived

AllUnmoved == \A i \in 1..Len(channels) : Unmoved(i)

Kept == IInv' /\ AllUnmoved /\ [Log!Next]_<<history, Promised>>

-----------------------------------------------------------------------------
(* The bounded log: eviction keeps its end.                                *)

EndOf(t, s) == \E m \in 1..(Len(s) + 1) : t = SubSeq(s, m, Len(s))

LEMMA EndProperties ==
  ASSUME NEW S, NEW s \in Seq(S), NEW t, EndOf(t, s)
  PROVE  /\ t \in Seq(S) /\ Len(t) <= Len(s)
         /\ \A i \in 1..Len(t) : t[i] = s[Len(s) - Len(t) + i]
  <1>1. PICK m \in 1..(Len(s) + 1) : t = SubSeq(s, m, Len(s))
    BY DEF EndOf
  <1>2. m \in Int /\ Len(s) \in Int /\ \A i \in m..Len(s) : s[i] \in S
    OBVIOUS
  <1>3. /\ t \in Seq(S)
        /\ Len(t) = Len(s) - m + 1
        /\ \A i \in 1..(Len(s) - m + 1) : t[i] = s[m + i - 1]
    BY <1>1, <1>2, SubSeqProperties
  <1> QED
    BY <1>2, <1>3

LEMMA EndOfEnd ==
  ASSUME NEW S, NEW s \in Seq(S), NEW t, EndOf(t, s), NEW u, EndOf(u, t)
  PROVE  EndOf(u, s)
  <1>1. /\ t \in Seq(S) /\ Len(t) <= Len(s)
        /\ \A i \in 1..Len(t) : t[i] = s[Len(s) - Len(t) + i]
    BY EndProperties
  <1>2. /\ u \in Seq(S) /\ Len(u) <= Len(t)
        /\ \A i \in 1..Len(u) : u[i] = t[Len(t) - Len(u) + i]
    BY <1>1, EndProperties
  <1>3. PICK m \in 1..(Len(s) + 1) : m = Len(s) - Len(u) + 1
    <2>1. Len(s) \in Nat /\ Len(t) \in Nat /\ Len(u) \in Nat
      BY <1>1, <1>2
    <2>2. Len(u) <= Len(s)
      BY <1>1, <1>2, <2>1
    <2>3. Len(s) - Len(u) + 1 \in 1..(Len(s) + 1)
      BY <2>1, <2>2
    <2> QED
      BY <2>3
  <1>4. /\ SubSeq(s, m, Len(s)) \in Seq(S)
        /\ Len(SubSeq(s, m, Len(s))) = Len(u)
        /\ \A i \in 1..Len(u) : SubSeq(s, m, Len(s))[i] = s[m + i - 1]
    BY <1>1, <1>2, <1>3, SubSeqProperties
  <1>5. ASSUME NEW i \in 1..Len(u) PROVE SubSeq(s, m, Len(s))[i] = u[i]
    <2>1. Len(t) - Len(u) + i \in 1..Len(t)
      BY <1>1, <1>2
    <2> QED
      BY <1>1, <1>2, <1>3, <1>4, <2>1
  <1>6. u = SubSeq(s, m, Len(s))
    BY <1>2, <1>4, <1>5, SeqEqual
  <1> QED
    BY <1>3, <1>6 DEF EndOf

(* A set of naturals has a least element.                                  *)
LEMMA Least ==
  ASSUME NEW T \in SUBSET Nat, T # {}
  PROVE  \E x \in T : \A y \in T : x <= y
  <1>1. PICK x \in T : \A y \in T : ~(<<y, x>> \in OpToRel(<, Nat))
    BY WFMin, NatLessThanWellFounded
  <1>2. ASSUME NEW y \in T PROVE x <= y
    <2>1. x \in Nat /\ y \in Nat
      OBVIOUS
    <2>2. ~(y < x)
      BY <1>1, <2>1 DEF OpToRel
    <2> QED
      BY <2>1, <2>2
  <1> QED
    BY <1>2

LEMMA LastNIsEnd ==
  ASSUME NEW S, NEW s \in Seq(S), NEW n \in Nat
  PROVE  EndOf(LastN(s, n), s)
  <1>1. PICK m : m = Len(s) - (IF n < Len(s) THEN n ELSE Len(s)) + 1
    OBVIOUS
  <1>2. m \in 1..(Len(s) + 1)
    <2>1. PICK l \in Nat : l = Len(s)
      OBVIOUS
    <2>2. PICK k \in 0..l : k = IF n < l THEN n ELSE l
      BY <2>1
    <2>3. m = l - k + 1
      BY <1>1, <2>1, <2>2
    <2>4. l - k + 1 \in 1..(l + 1)
      BY <2>2
    <2> QED
      BY <2>1, <2>3, <2>4
  <1>3. LastN(s, n) = SubSeq(s, m, Len(s))
    BY <1>1 DEF LastN
  <1> QED
    BY <1>2, <1>3 DEF EndOf

LEMMA DropAgedIsEnd ==
  ASSUME NEW S, NEW s \in Seq(S)
  PROVE  EndOf(DropAged(s), s)
  <1>1. PICK young : young = {i \in 1..Len(s) : s[i].emittedAt + WindowTime >= clock}
    OBVIOUS
  <1>2. CASE young = {}
    <2>1. SubSeq(s, Len(s) + 1, Len(s)) = <<>>
      BY SubSeqEmpty
    <2> QED
      BY <1>1, <1>2, <2>1 DEF DropAged, EndOf
  <1>3. CASE young # {}
    <2>0. young \in SUBSET Nat
      BY <1>1
    <2>1. \E i \in young : \A j \in young : i <= j
      BY <1>3, <2>0, Least
    <2>2. PICK m : m = CHOOSE i \in young : \A j \in young : i <= j
      OBVIOUS
    <2>3. m \in young
      BY <2>1, <2>2
    <2>4. DropAged(s) = SubSeq(s, m, Len(s))
      BY <1>1, <1>3, <2>2 DEF DropAged
    <2> QED
      BY <1>1, <2>3, <2>4 DEF EndOf
  <1> QED
    BY <1>2, <1>3

(* The next event gets a cursor that no event of this engine has.          *)
LEMMA NumberedGrows ==
  ASSUME TypeOK, Numbered, since \in 0..Len(history), feed # "array", NEW kind \in Kind,
         NEW others \in Nat, seq' = seq + others + 1, UNCHANGED <<feed, since>>,
         NEW cursor, cursor = (IF feed = "sequenced" THEN Len(history) + 1 ELSE seq'),
         history' = Append(history, kind), cursors' = Append(cursors, cursor)
  PROVE  cursor \in Nat \ {0} /\ cursors' \in Seq(Nat) /\ Numbered'
  <1>1. /\ Len(history) \in Nat /\ seq \in Nat /\ since \in Nat /\ seq' \in Nat \ {0}
        /\ cursors \in Seq(Nat) /\ Len(cursors) = Len(history)
        /\ history \in Seq(Kind)
    BY DEF TypeOK, Numbered
  <1>2. cursor \in Nat \ {0}
    BY <1>1
  <1>3. /\ cursors' \in Seq(Nat) /\ Len(cursors') = Len(history) + 1
        /\ cursors'[Len(history) + 1] = cursor
        /\ \A p \in 1..Len(history) : cursors'[p] = cursors[p]
    BY <1>1, <1>2, AppendProperties
  <1>4. Len(history') = Len(history) + 1
    BY <1>1, AppendProperties
  <1>5. \A p \in 1..Len(history') : p \in 1..Len(history) \/ p = Len(history) + 1
    BY <1>1, <1>4
  <1>6. CASE feed = "sequenced"
    <2>1. \A p \in 1..Len(history') : cursors'[p] = p
      BY <1>3, <1>5, <1>6 DEF Numbered
    <2> QED
      BY <1>2, <1>3, <1>4, <1>6, <2>1 DEF Numbered
  <1>7. CASE feed # "sequenced"
    <2>1. feed = "object" /\ cursor = seq'
      BY <1>7, ChannelAssumption DEF TypeOK
    <2>2. ASSUME NEW p \in (since + 1)..Len(history)
          PROVE  /\ cursors'[p] = cursors[p] /\ cursors[p] \in 1..seq
                 /\ cursors'[p] \in 1..seq' /\ cursors'[p] < seq'
      <3>1. p \in 1..Len(history) /\ cursors[p] \in 1..seq
        BY <1>1, <2>1 DEF Numbered
      <3>2. cursors'[p] = cursors[p]
        BY <1>3, <3>1
      <3> QED
        BY <1>1, <3>1, <3>2
    <2>3. \A p \in (since + 1)..Len(history') :
              p \in (since + 1)..Len(history) \/ p = Len(history) + 1
      BY <1>1, <1>4
    <2>4. ASSUME NEW p \in (since + 1)..Len(history') PROVE cursors'[p] \in 1..seq'
      BY <1>1, <1>3, <2>1, <2>2, <2>3
    <2>5. ASSUME NEW p \in (since + 1)..Len(history'), NEW q \in (since + 1)..Len(history'),
                 p < q
          PROVE  cursors'[p] < cursors'[q]
      <3>1. p \in (since + 1)..Len(history)
        BY <1>1, <1>4, <2>5
      <3>2. CASE q = Len(history) + 1
        BY <1>3, <2>1, <2>2, <3>1, <3>2
      <3>3. CASE q \in (since + 1)..Len(history)
        <4>1. cursors[p] < cursors[q]
          BY <2>1, <2>5, <3>1, <3>3 DEF Numbered
        <4> QED
          BY <2>2, <3>1, <3>3, <4>1
      <3> QED
        BY <2>3, <3>2, <3>3
    <2> QED
      BY <1>2, <1>3, <1>4, <1>7, <2>4, <2>5 DEF Numbered
  <1> QED
    BY <1>6, <1>7

(* observeEvent keeps the end of the session's log.                        *)
LEMMA ObserveRetains ==
  ASSUME TypeOK, Retained, feed # "array", NEW kind \in Kind, NEW others \in Nat,
         observeEvent(kind, others), history' = Append(history, kind),
         UNCHANGED <<feed, since>>
  PROVE  seq' \in Nat /\ cursors' \in Seq(Nat) /\ log' \in Seq(Entry) /\ Retained'
  <1>0. /\ Len(history) \in Nat /\ clock \in Nat /\ seq \in Nat /\ since \in Nat
        /\ Len(log) \in Nat /\ since + Len(log) <= Len(history) /\ Numbered
    BY DEF TypeOK, Retained
  <1>1. PICK cursor : cursor = IF feed = "sequenced" THEN Len(history) + 1 ELSE seq'
    OBVIOUS
  <1>2. seq' = seq + others + 1 /\ Retain(kind, cursor)
    BY <1>1 DEF observeEvent
  <1>3. cursors' = Append(cursors, cursor)
    BY <1>2 DEF Retain
  <1>4. since \in 0..Len(history)
    BY <1>0
  <1>5. cursor \in Nat \ {0} /\ cursors' \in Seq(Nat) /\ Numbered'
    BY <1>0, <1>1, <1>2, <1>3, <1>4, NumberedGrows
  <1>6. PICK entry \in Entry :
          entry = [event |-> Len(history) + 1, cursor |-> cursor, kind |-> kind,
                   emittedAt |-> clock]
    <2>1. Len(history) + 1 \in Nat \ {0}
      BY <1>0
    <2> QED
      BY <1>0, <1>5, <2>1 DEF Entry
  <1>7. PICK s : s = Append(log, entry)
    OBVIOUS
  <1>8. /\ s \in Seq(Entry) /\ Len(s) = Len(log) + 1
        /\ s[Len(log) + 1] = entry /\ \A i \in 1..Len(log) : s[i] = log[i]
    BY <1>7, AppendProperties DEF TypeOK
  <1>9. log' = DropAged(LastN(s, WindowEvents))
    BY <1>2, <1>6, <1>7 DEF Retain
  <1>10. EndOf(LastN(s, WindowEvents), s) /\ LastN(s, WindowEvents) \in Seq(Entry)
    BY <1>8, ChannelAssumption, LastNIsEnd, EndProperties
  <1>11. EndOf(log', s)
    BY <1>8, <1>9, <1>10, DropAgedIsEnd, EndOfEnd
  <1>12. /\ log' \in Seq(Entry) /\ Len(log') <= Len(s)
         /\ \A i \in 1..Len(log') : log'[i] = s[Len(s) - Len(log') + i]
    <2>1. PICK t : t = log'
      OBVIOUS
    <2>2. EndOf(t, s)
      BY <1>11, <2>1
    <2>0. s \in Seq(Entry)
      BY <1>8
    <2>3. /\ t \in Seq(Entry) /\ Len(t) <= Len(s)
          /\ \A i \in 1..Len(t) : t[i] = s[Len(s) - Len(t) + i]
      BY <2>0, <2>2, EndProperties
    <2> QED
      BY <2>1, <2>3
  <1>13. /\ Len(history') = Len(history) + 1
         /\ history'[Len(history) + 1] = kind
         /\ \A p \in 1..Len(history) : history'[p] = history[p]
    BY AppendProperties DEF TypeOK
  <1>14. /\ cursors'[Len(history) + 1] = cursor
         /\ \A p \in 1..Len(history) : cursors'[p] = cursors[p]
    BY <1>0, <1>3, <1>5, AppendProperties DEF TypeOK, Numbered
  <1>15. ASSUME NEW i \in 1..Len(s)
         PROVE  /\ s[i].event = Len(history') - Len(s) + i
                /\ s[i].cursor = cursors'[Len(history') - Len(s) + i]
                /\ s[i].kind = history'[Len(history') - Len(s) + i]
    <2>1. CASE i = Len(log) + 1
      <3>1. Len(history') - Len(s) + i = Len(history) + 1
        BY <1>0, <1>8, <1>13, <2>1
      <3> QED
        BY <1>6, <1>8, <1>13, <1>14, <2>1, <3>1
    <2>2. CASE i \in 1..Len(log)
      <3>1. /\ log[i].event = Offset + i /\ log[i].cursor = cursors[Offset + i]
            /\ log[i].kind = history[Offset + i]
        BY <2>2 DEF Retained
      <3>2. Offset + i \in 1..Len(history) /\ Offset + i = Len(history') - Len(s) + i
        BY <1>0, <1>8, <1>13, <2>2 DEF Offset
      <3>3. s[i] = log[i]
        BY <1>8, <2>2
      <3>4. cursors'[Offset + i] = cursors[Offset + i] /\ history'[Offset + i] = history[Offset + i]
        BY <1>13, <1>14, <3>2
      <3> QED
        BY <3>1, <3>2, <3>3, <3>4
    <2>3. i = Len(log) + 1 \/ i \in 1..Len(log)
      BY <1>0, <1>8
    <2> QED
      BY <2>1, <2>2, <2>3
  <1>16. ASSUME NEW i \in 1..Len(log')
         PROVE  /\ log'[i].event = Len(history') - Len(log') + i
                /\ log'[i].cursor = cursors'[Len(history') - Len(log') + i]
                /\ log'[i].kind = history'[Len(history') - Len(log') + i]
    <2>0. Len(s) \in Nat /\ Len(log') \in Nat /\ Len(history') \in Nat
      BY <1>0, <1>8, <1>12, <1>13
    <2>1. PICK j \in 1..Len(s) : j = Len(s) - Len(log') + i
      BY <1>12, <2>0
    <2>2. log'[i] = s[j] /\ Len(history') - Len(s) + j = Len(history') - Len(log') + i
      BY <1>12, <2>0, <2>1
    <2> QED
      BY <1>15, <2>2
  <1>17. since' + Len(log') <= Len(history')
    BY <1>0, <1>8, <1>12, <1>13
  <1>18. seq' \in Nat
    BY <1>0, <1>2
  <1> QED
    BY <1>5, <1>12, <1>16, <1>17, <1>18 DEF Retained, Offset

-----------------------------------------------------------------------------
(* Answers: the frames collected from the log are those of the whole log.  *)

LEMMA OneCardinality == \A A : Log!Cardinality(A) = Cardinality(A)
  BY DEF Log!Cardinality, Cardinality

LEMMA Shifted ==
  ASSUME NEW A \in SUBSET Int, IsFiniteSet(A), NEW B \in SUBSET Int, NEW o \in Int,
         \A a \in A : a + o \in B, \A b \in B : b - o \in A
  PROVE  Cardinality(B) = Cardinality(A)
  <1>1. PICK f : f = [a \in A |-> a + o]
    OBVIOUS
  <1>2. f \in [A -> B] /\ \A a, b \in A : f[a] = f[b] => a = b
    BY <1>1
  <1>3. ASSUME NEW b \in B PROVE \E a \in A : f[a] = b
    <2>1. b - o \in A /\ f[b - o] = b
      BY <1>1
    <2> QED
      BY <2>1
  <1>4. f \in Bijection(A, B)
    BY <1>2, <1>3 DEF Bijection, Injection, Surjection, IsInjective
  <1>5. ExistsBijection(A, B)
    BY <1>4 DEF ExistsBijection
  <1> QED
    BY <1>5, FS_Bijection

LEMMA FramesOfTheLog ==
  ASSUME TypeOK, Retained, NEW start \in 1..(Len(log) + 1), NEW cap, NEW kinds
  PROVE  collectFrames(start, cap, kinds) = Log!Continuation(Offset + start - 1, kinds, cap)
  <1>1. /\ Len(log) \in Nat /\ Len(history) \in Nat /\ Offset \in Nat
        /\ Len(history) = Len(log) + Offset
    BY DEF TypeOK, Retained, Offset
  <1>2. PICK wanted : wanted = {i \in start..Len(log) : log[i].kind \in kinds}
    OBVIOUS
  <1>3. PICK W : W = {p \in (Offset + start - 1 + 1)..Len(history) : history[p] \in kinds}
    OBVIOUS
  <1>4. ASSUME NEW i \in start..Len(log)
        PROVE  log[i].event = i + Offset /\ (i \in wanted <=> i + Offset \in W)
    <2>1. i \in 1..Len(log) /\ i + Offset \in (Offset + start - 1 + 1)..Len(history)
      BY <1>1
    <2>2. log[i].event = i + Offset /\ log[i].kind = history[i + Offset]
      BY <1>1, <2>1 DEF Retained
    <2> QED
      BY <1>2, <1>3, <2>1, <2>2
  <1>5. ASSUME NEW p \in W
        PROVE  p \in Int /\ p - Offset \in wanted
    <2>1. p \in (Offset + start - 1 + 1)..Len(history)
      BY <1>3
    <2>2. p \in Int /\ p - Offset \in start..Len(log) /\ (p - Offset) + Offset = p
      BY <1>1, <2>1
    <2> QED
      BY <1>4, <2>2
  <1>6. ASSUME NEW j \in wanted
        PROVE  /\ j \in Int /\ j + Offset \in W /\ log[j].event = j + Offset
               /\ Cardinality({q \in W : q <= j + Offset}) = Cardinality({k \in wanted : k <= j})
    <2>1. j \in Int /\ j + Offset \in W /\ log[j].event = j + Offset
      BY <1>2, <1>4
    <2>2. PICK A : A = {k \in wanted : k <= j}
      OBVIOUS
    <2>3. PICK B : B = {q \in W : q <= j + Offset}
      OBVIOUS
    <2>4. A \subseteq start..Len(log) /\ A \in SUBSET Int /\ B \in SUBSET Int
      BY <1>2, <1>5, <2>2, <2>3
    <2>5. IsFiniteSet(A)
      <3>1. start \in Int /\ Len(log) \in Int
        BY <1>1
      <3>2. IsFiniteSet(start..Len(log))
        BY <3>1, FS_Interval
      <3> QED
        BY <2>4, <3>2, FS_Subset
    <2>6. ASSUME NEW a \in A PROVE a + Offset \in B
      BY <1>1, <1>4, <2>1, <2>2, <2>3, <2>4
    <2>7. ASSUME NEW b \in B PROVE b - Offset \in A
      BY <1>1, <1>5, <2>1, <2>2, <2>3
    <2>8. Cardinality(B) = Cardinality(A)
      BY <1>1, <2>4, <2>5, <2>6, <2>7, Shifted
    <2> QED
      BY <2>1, <2>2, <2>3, <2>8
  <1>7. PICK F : F = {j \in wanted : Cardinality({k \in wanted : k <= j}) <= cap}
    OBVIOUS
  <1>8. PICK G : G = {p \in W : Cardinality({q \in W : q <= p}) <= cap}
    OBVIOUS
  <1>9. ASSUME NEW j \in F PROVE log[j].event \in G
    BY <1>6, <1>7, <1>8
  <1>10. ASSUME NEW p \in G PROVE \E j \in F : log[j].event = p
    <2>1. PICK j \in wanted : j = p - Offset
      BY <1>5, <1>8
    <2>2. j + Offset = p
      BY <1>1, <1>5, <1>8, <2>1
    <2>3. j \in F /\ log[j].event = p
      BY <1>6, <1>7, <1>8, <2>2
    <2> QED
      BY <2>3
  <1>11. collectFrames(start, cap, kinds) = {log[i].event : i \in F}
    BY <1>2, <1>7 DEF collectFrames
  <1>12. Log!Continuation(Offset + start - 1, kinds, cap) = G
    BY <1>3, <1>8, OneCardinality DEF Log!Continuation, Log!First
  <1> QED
    BY <1>9, <1>10, <1>11, <1>12

(* A continuation has no gap.                                              *)
LEMMA NoGap ==
  ASSUME TypeOK, NEW c \in Nat, NEW kinds, NEW cap \in Nat,
         NEW p \in Log!Continuation(c, kinds, cap)
  PROVE  /\ p \in (c + 1)..Len(history)
         /\ \A q \in (c + 1)..p :
                history[q] \in kinds => q \in Log!Continuation(c, kinds, cap)
  <1>1. Len(history) \in Nat
    BY DEF TypeOK
  <1>2. PICK W : W = {q \in (c + 1)..Len(history) : history[q] \in kinds}
    OBVIOUS
  <1>3. Log!Continuation(c, kinds, cap) = {q \in W : Cardinality({r \in W : r <= q}) <= cap}
    BY <1>2, OneCardinality DEF Log!Continuation, Log!First
  <1>4. p \in (c + 1)..Len(history) /\ Cardinality({r \in W : r <= p}) <= cap
    BY <1>2, <1>3
  <1>5. ASSUME NEW q \in (c + 1)..p, history[q] \in kinds
        PROVE  q \in Log!Continuation(c, kinds, cap)
    <2>1. q \in W
      BY <1>1, <1>2, <1>4, <1>5
    <2>2. PICK A : A = {r \in W : r <= q}
      OBVIOUS
    <2>3. PICK B : B = {r \in W : r <= p}
      OBVIOUS
    <2>4. A \in SUBSET B /\ B \subseteq (c + 1)..Len(history)
      BY <1>1, <1>2, <1>4, <2>2, <2>3
    <2>5. IsFiniteSet(B)
      <3>1. c + 1 \in Int /\ Len(history) \in Int
        BY <1>1
      <3>2. IsFiniteSet((c + 1)..Len(history))
        BY <3>1, FS_Interval
      <3> QED
        BY <2>4, <3>2, FS_Subset
    <2>6. IsFiniteSet(A) /\ Cardinality(A) <= Cardinality(B)
      BY <2>4, <2>5, FS_Subset
    <2>7. Cardinality(A) \in Nat /\ Cardinality(B) \in Nat
      BY <2>5, <2>6, FS_CardinalityType
    <2>8. Cardinality(A) <= cap
      BY <1>4, <2>3, <2>6, <2>7
    <2> QED
      BY <1>3, <2>1, <2>2, <2>8
  <1> QED
    BY <1>4, <1>5

(* A cursor that may be told from another engine's is that of one event.   *)
LEMMA OneEventPerCursor ==
  ASSUME TypeOK, Retained, NEW p \in 1..Len(history), ~Foreign(p),
         NEW i \in 1..Len(log), log[i].cursor = cursors[p]
  PROVE  Offset + i = p
  <1>1. /\ Len(log) \in Nat /\ Len(history) \in Nat /\ since \in Nat /\ p \in Nat /\ i \in Nat
        /\ since + Len(log) <= Len(history) /\ Numbered
    BY DEF TypeOK, Retained
  <1>2. PICK q \in (since + 1)..Len(history) : q = Offset + i
    <2>1. Offset \in Nat /\ since <= Offset /\ Offset + i <= Len(history)
      BY <1>1 DEF Offset
    <2>2. Offset + i \in (since + 1)..Len(history)
      BY <1>1, <2>1
    <2> QED
      BY <2>2
  <1>3. cursors[q] = cursors[p]
    BY <1>2 DEF Retained
  <1>4. q \in 1..Len(history)
    BY <1>1, <1>2
  <1>5. feed # "array"
    BY <1>1 DEF Retained
  <1>6. CASE feed = "sequenced"
    BY <1>1, <1>2, <1>3, <1>4, <1>6 DEF Numbered
  <1>7. CASE feed = "object"
    <2>1. p # NoCursor
      BY <1>1 DEF NoCursor
    <2>2. p > since
      BY <1>1, <1>7, <2>1 DEF Foreign
    <2>3. p \in (since + 1)..Len(history)
      BY <1>1, <2>2
    <2>4. /\ cursors[p] \in 1..seq /\ cursors[q] \in 1..seq
          /\ p < q => cursors[p] < cursors[q]
          /\ q < p => cursors[q] < cursors[p]
      BY <1>1, <1>2, <1>7, <2>3 DEF Numbered
    <2>5. seq \in Nat
      BY DEF TypeOK
    <2>6. ~(p < q) /\ ~(q < p)
      BY <1>3, <2>4, <2>5
    <2> QED
      BY <1>1, <1>2, <1>4, <2>6
  <1> QED
    BY <1>5, <1>6, <1>7, ChannelAssumption DEF TypeOK

LEMMA IndexFound ==
  ASSUME TypeOK, NEW cursor, indexOfCursor(cursor) # 0
  PROVE  /\ indexOfCursor(cursor) \in 1..Len(log)
         /\ log[indexOfCursor(cursor)].cursor = cursors[cursor]
  <1>1. PICK found : found = {i \in 1..Len(log) : log[i].cursor = cursors[cursor]}
    OBVIOUS
  <1>2. found # {} /\ indexOfCursor(cursor) = CHOOSE i \in found : \A j \in found : i <= j
    BY <1>1 DEF indexOfCursor
  <1>3. found \in SUBSET Nat
    BY <1>1 DEF TypeOK
  <1>4. \E i \in found : \A j \in found : i <= j
    BY <1>2, <1>3, Least
  <1>5. indexOfCursor(cursor) \in found
    BY <1>2, <1>4
  <1> QED
    BY <1>1, <1>5

(* An answer continues the cursor, begins somewhere when there is none or  *)
(* it is another engine's, or asks for a resync.                           *)
LEMMA AnswerOfTheLog ==
  ASSUME TypeOK, Retained, NEW cursor \in 0..Len(history), NEW cap \in Nat, NEW kinds,
         NEW a, a = Answer(cursor, cap, kinds)
  PROVE  /\ a.from = cursor /\ a.kinds = kinds /\ a.cap = cap
         /\ \/ outsideWindow(cursor) /\ a.code = "resync" /\ a.frames = {}
            \/ /\ ~outsideWindow(cursor) /\ a.code = "ok"
               /\ \E c \in 0..Len(history) :
                     /\ a.frames = Log!Continuation(c, kinds, cap)
                     /\ cursor # NoCursor /\ ~Foreign(cursor) => c = cursor
  <1>1. /\ Len(log) \in Nat /\ Len(history) \in Nat /\ Offset \in Nat
        /\ Len(history) = Len(log) + Offset /\ cursor \in Nat
    BY DEF TypeOK, Retained, Offset
  <1>2. a.from = cursor /\ a.kinds = kinds /\ a.cap = cap
    BY DEF Answer
  <1>3. CASE outsideWindow(cursor)
    BY <1>2, <1>3 DEF Answer
  <1>4. CASE ~outsideWindow(cursor)
    <2>1. a.code = "ok" /\ a.frames = collectFrames(After(cursor), cap, kinds)
      BY <1>4 DEF Answer
    <2>2. /\ After(cursor) \in 1..(Len(log) + 1)
          /\ cursor # NoCursor /\ ~Foreign(cursor) => Offset + After(cursor) - 1 = cursor
      <3>1. CASE cursor = NoCursor
        BY <1>1, <3>1 DEF After
      <3>2. CASE cursor # NoCursor
        <4>1. indexOfCursor(cursor) # 0 /\ After(cursor) = indexOfCursor(cursor) + 1
          BY <1>4, <3>2 DEF outsideWindow, After
        <4>2. PICK i \in 1..Len(log) : i = indexOfCursor(cursor) /\ log[i].cursor = cursors[cursor]
          BY <4>1, IndexFound
        <4>3. cursor \in 1..Len(history)
          BY <1>1, <3>2 DEF NoCursor
        <4>4. ~Foreign(cursor) => Offset + i = cursor
          BY <4>2, <4>3, OneEventPerCursor
        <4> QED
          BY <1>1, <4>1, <4>2, <4>4
      <3> QED
        BY <3>1, <3>2
    <2>3. PICK start \in 1..(Len(log) + 1) : start = After(cursor)
      BY <2>2
    <2>4. a.frames = Log!Continuation(Offset + start - 1, kinds, cap)
      BY <2>1, <2>3, FramesOfTheLog
    <2>5. Offset + start - 1 \in 0..Len(history)
      BY <1>1
    <2> QED
      BY <1>2, <1>4, <2>1, <2>2, <2>3, <2>4, <2>5
  <1> QED
    BY <1>3, <1>4

(* What such an answer is to the abstract log.                             *)
LEMMA AnswerSpeaks ==
  ASSUME TypeOK, Retained, NEW cursor \in 0..Len(history), NEW cap \in Nat, NEW kinds,
         answer' = Answer(cursor, cap, kinds), UNCHANGED <<history, feed, since>>
  PROVE  Log!Next /\ answer'.code \in {"ok", "resync"}
  <1>1. PICK a : a = Answer(cursor, cap, kinds)
    OBVIOUS
  <1>2. /\ a.from = cursor /\ a.kinds = kinds /\ a.cap = cap
        /\ \/ outsideWindow(cursor) /\ a.code = "resync" /\ a.frames = {}
           \/ /\ ~outsideWindow(cursor) /\ a.code = "ok"
              /\ \E c \in 0..Len(history) :
                    /\ a.frames = Log!Continuation(c, kinds, cap)
                    /\ cursor # NoCursor /\ ~Foreign(cursor) => c = cursor
    BY <1>1, AnswerOfTheLog
  <1>3. answer' = a
    BY <1>1
  <1>4. Promised' = IF Foreign(cursor) THEN NoAnswer ELSE a
    BY <1>2, <1>3 DEF Promised, Foreign
  <1>5. CASE Foreign(cursor)
    <2>1. Promised' = Log!NoAnswer
      BY <1>4, <1>5 DEF NoAnswer, Log!NoAnswer, Log!Anywhere, NoCursor
    <2> QED
      BY <1>2, <1>3, <2>1 DEF Log!Next, Log!Quiet
  <1>6. CASE ~Foreign(cursor) /\ a.code = "resync"
    BY <1>2, <1>3, <1>4, <1>6 DEF Log!Next, Log!Resync
  <1>7. CASE ~Foreign(cursor) /\ a.code = "ok"
    <2>1. PICK c \in 0..Len(history) :
            /\ a.frames = Log!Continuation(c, kinds, cap)
            /\ cursor # NoCursor => c = cursor
      BY <1>2, <1>7
    <2>2. CASE cursor = NoCursor
      <3>1. Log!Begin
        BY <1>2, <1>4, <1>7, <2>1, <2>2 DEF Log!Begin, Log!Anywhere, NoCursor
      <3> QED
        BY <1>3, <1>7, <3>1 DEF Log!Next
    <2>3. CASE cursor # NoCursor
      <3>1. Log!Continue
        BY <1>2, <1>4, <1>7, <2>1, <2>3 DEF Log!Continue, Log!Anywhere, NoCursor
      <3> QED
        BY <1>3, <1>7, <3>1 DEF Log!Next
    <2> QED
      BY <2>2, <2>3
  <1> QED
    BY <1>2, <1>5, <1>6, <1>7

(* What may reach a reader who named a cursor of this engine has no gap    *)
(* after it.                                                               *)
LEMMA WhatArrives ==
  ASSUME TypeOK, Retained, NEW cursor \in 0..Len(history), NEW cap \in Nat, NEW kinds,
         NEW got \in Reaches(Answer(cursor, cap, kinds))
  PROVE  /\ got \subseteq 1..Len(history)
         /\ cursor # NoCursor /\ ~Foreign(cursor) =>
               \A p \in got :
                   /\ p > cursor
                   /\ \A q \in (cursor + 1)..p : history[q] \in kinds => q \in got
  <1>1. PICK a : a = Answer(cursor, cap, kinds)
    OBVIOUS
  <1>2. CASE got = {}
    BY <1>2
  <1>3. CASE got = a.frames /\ got # {}
    <2>1. PICK c \in 0..Len(history) :
            /\ got = Log!Continuation(c, kinds, cap)
            /\ cursor # NoCursor /\ ~Foreign(cursor) => c = cursor
      BY <1>1, <1>3, AnswerOfTheLog
    <2>2. c \in Nat
      BY DEF TypeOK
    <2>3. ASSUME NEW p \in got
          PROVE  /\ p \in (c + 1)..Len(history)
                 /\ \A q \in (c + 1)..p : history[q] \in kinds => q \in got
      <3>1. p \in Log!Continuation(c, kinds, cap)
        BY <2>1
      <3>2. /\ p \in (c + 1)..Len(history)
            /\ \A q \in (c + 1)..p :
                   history[q] \in kinds => q \in Log!Continuation(c, kinds, cap)
        BY <2>2, <3>1, NoGap
      <3> QED
        BY <2>1, <3>2
    <2>4. got \subseteq 1..Len(history)
      BY <2>2, <2>3
    <2>5. ASSUME NEW p \in got PROVE p > c
      BY <2>2, <2>3
    <2>6. CASE cursor # NoCursor /\ ~Foreign(cursor)
      <3>1. c = cursor
        BY <2>1, <2>6
      <3> QED
        BY <2>3, <2>4, <2>5, <3>1
    <2> QED
      BY <2>4, <2>6
  <1> QED
    BY <1>1, <1>2, <1>3 DEF Reaches

-----------------------------------------------------------------------------
(* Steps by what they leave alone.                                         *)

LEMMA LogUnchanged ==
  ASSUME IInv, UNCHANGED events, clock' \in Nat, mounts' \in Nat,
         channels' \in Seq(Channel), subs' \in Seq(Sub),
         \A s \in 1..Len(subs') : Reader(subs'[s]),
         answer'.code \in {"none", "ok", "resync"}
  PROVE  IInv'
  <1>1. TypeOK'
    BY DEF IInv, TypeOK, events
  <1>2. Retained'
    BY DEF IInv, Retained, Numbered, Offset, events
  <1>3. \A s \in 1..Len(subs') : Reader(subs[s])'
    BY DEF Reader, Foreign, events
  <1> QED
    BY <1>1, <1>2, <1>3 DEF IInv

LEMMA Quietly ==
  ASSUME answer' = NoAnswer, UNCHANGED history
  PROVE  Log!Next /\ answer'.code = "none"
  <1>1. Promised' = NoAnswer /\ NoAnswer = Log!NoAnswer /\ answer'.code = "none"
    BY DEF Promised, NoAnswer, Log!NoAnswer, Log!Anywhere, NoCursor
  <1> QED
    BY <1>1 DEF Log!Next, Log!Quiet

(* findChannel serves a channel only while it is alive.                    *)
LEMMA ServedIsAlive ==
  ASSUME TypeOK, NEW i \in 1..Len(channels), findChannel(i)
  PROVE  ~Dead(channels[i]) /\ channels[i].lifecycle = "active"
  <1>1. PICK ch \in Channel : ch = channels[i]
    BY DEF TypeOK
  <1>2. Visited(ch).lifecycle = "active"
    BY <1>1 DEF findChannel
  <1>3. ~isExpired(ch)
    BY <1>2 DEF Visited, Channel
  <1>4. ch.lifecycle = "active" /\ clock <= ch.expiresAt
    BY <1>2, <1>3 DEF Visited, isExpired, TypeOK, Channel
  <1> QED
    BY <1>1, <1>4 DEF Dead, TypeOK, Channel

(* Applying the expiry keeps the deadline, and wakes nobody.               *)
LEMMA VisitedKeeps ==
  ASSUME NEW ch \in Channel
  PROVE  /\ Visited(ch) \in Channel /\ Visited(ch).expiresAt = ch.expiresAt
         /\ ch.lifecycle # "active" => Visited(ch).lifecycle # "active"
  BY DEF Visited, isExpired, Channel

(* Nothing changes but what was answered.                                  *)
LEMMA OnlyAnswered ==
  ASSUME IInv, UNCHANGED <<clock, events, channels, subs, mounts>>,
         Log!Next, answer'.code \in {"none", "ok", "resync"}
  PROVE  Kept
  <1>1. IInv'
    BY LogUnchanged DEF IInv, TypeOK
  <1>2. AllUnmoved
    BY DEF AllUnmoved, Unmoved, Dead
  <1> QED
    BY <1>1, <1>2 DEF Kept

(* One channel changes, which was alive, or not by much.                   *)
LEMMA OneChannel ==
  ASSUME IInv, NEW i \in 1..Len(channels), NEW ch \in Channel,
         channels' = [channels EXCEPT ![i] = ch],
         UNCHANGED <<clock, events, subs, mounts>>, answer' = NoAnswer,
         Dead(channels[i]) => Dead(ch) /\ ch.expiresAt = channels[i].expiresAt
  PROVE  Kept
  <1>1. /\ channels \in Seq(Channel) /\ channels' \in Seq(Channel) /\ channels'[i] = ch
        /\ \A j \in 1..Len(channels) : j # i => channels'[j] = channels[j]
    BY DEF IInv, TypeOK
  <1>2. Log!Next /\ answer'.code = "none"
    BY Quietly DEF events
  <1>3. IInv'
    BY <1>1, <1>2, LogUnchanged DEF IInv, TypeOK
  <1>4. ASSUME NEW j \in 1..Len(channels) PROVE Unmoved(j)
    BY <1>1 DEF Unmoved, Dead
  <1> QED
    BY <1>2, <1>3, <1>4 DEF AllUnmoved, Kept

(* One subscription changes, which is none of a dead channel.              *)
LEMMA OneSubscription ==
  ASSUME IInv, NEW s \in 1..Len(subs), findSubscription(s),
         NEW sub \in Sub, Reader(sub), subs' = [subs EXCEPT ![s] = sub],
         UNCHANGED <<clock, events, channels, mounts>>,
         Log!Next, answer'.code \in {"none", "ok", "resync"}
  PROVE  Kept
  <1>1. /\ subs \in Seq(Sub) /\ subs' \in Seq(Sub) /\ Len(subs') = Len(subs)
        /\ subs'[s] = sub
        /\ \A t \in 1..Len(subs) : t # s => subs'[t] = subs[t]
    BY DEF IInv, TypeOK
  <1>2. \A t \in 1..Len(subs') : Reader(subs'[t])
    BY <1>1 DEF IInv
  <1>3. IInv'
    BY <1>1, <1>2, LogUnchanged DEF IInv, TypeOK
  <1>4. ASSUME NEW i \in 1..Len(channels), Dead(channels[i])
        PROVE  subs[s].channel # i
    BY <1>4, ServedIsAlive DEF findSubscription, IInv
  <1>5. ASSUME NEW i \in 1..Len(channels) PROVE Unmoved(i)
    BY <1>1, <1>4 DEF Unmoved, Dead
  <1> QED
    BY <1>3, <1>5 DEF AllUnmoved, Kept

-----------------------------------------------------------------------------
(* The calls.                                                              *)

LEMMA OpenStep ==
  ASSUME IInv, NEW d \in Device, open(d)
  PROVE  Kept
  <1>1. PICK ch : ch = [lifecycle |-> "active", generation |-> 1,
                        device |-> d, expiresAt |-> clock + ChannelTtl]
    OBVIOUS
  <1>2. ch \in Channel
    BY <1>1, ChannelAssumption DEF Channel, IInv, TypeOK
  <1>3. channels' = Append(channels, ch) /\ UNCHANGED <<clock, events, subs, mounts>>
    BY <1>1 DEF open
  <1>4. channels' \in Seq(Channel) /\ \A i \in 1..Len(channels) : channels'[i] = channels[i]
    BY <1>2, <1>3 DEF IInv, TypeOK
  <1>5. Log!Next /\ answer'.code = "none"
    BY <1>3, Quietly DEF open, events
  <1>6. IInv'
    BY <1>3, <1>4, <1>5, LogUnchanged DEF IInv, TypeOK
  <1>7. AllUnmoved
    BY <1>3, <1>4 DEF AllUnmoved, Unmoved, Dead
  <1> QED
    BY <1>5, <1>6, <1>7 DEF Kept

LEMMA KnownIsAnEvent ==
  ASSUME TypeOK, NEW cursor \in Known \union {NoCursor}
  PROVE  cursor \in 0..Len(history)
  BY DEF TypeOK, Known, NoCursor

LEMMA SubscribeStep ==
  ASSUME IInv, NEW i \in 1..Len(channels), NEW cursor \in Known \union {NoCursor},
         NEW kinds \in SUBSET Kind, subscribe(i, cursor, kinds)
  PROVE  Kept
  <1>0. cursor \in 0..Len(history) /\ cursor \in Nat /\ MaxBatch \in Nat /\ i \in Nat
    BY ChannelAssumption, KnownIsAnEvent DEF IInv, TypeOK
  <1>1. UNCHANGED <<clock, events, channels, mounts>>
    BY DEF subscribe
  <1>2. Log!Next /\ answer'.code \in {"ok", "resync"}
    BY <1>0, <1>1, AnswerSpeaks DEF subscribe, IInv, events
  <1>3. CASE UNCHANGED subs
    BY <1>1, <1>2, <1>3, OnlyAnswered
  <1>4. CASE ~UNCHANGED subs
    <2>1. PICK got \in Reaches(Answer(cursor, MaxBatch, kinds)) :
            subs' = Append(subs, [channel |-> i, lifecycle |-> "active", kinds |-> kinds,
                                  start |-> cursor, next |-> cursor, arrived |-> got])
      BY <1>4 DEF subscribe
    <2>2. /\ got \subseteq 1..Len(history)
          /\ cursor # NoCursor /\ ~Foreign(cursor) =>
                \A p \in got :
                    /\ p > cursor
                    /\ \A q \in (cursor + 1)..p : history[q] \in kinds => q \in got
      BY <1>0, WhatArrives DEF IInv
    <2>3. PICK sub : sub = [channel |-> i, lifecycle |-> "active", kinds |-> kinds,
                            start |-> cursor, next |-> cursor, arrived |-> got]
      OBVIOUS
    <2>4. got \in SUBSET Nat
      BY <2>2 DEF IInv, TypeOK
    <2>5. sub \in Sub /\ Reader(sub)
      BY <1>0, <2>2, <2>3, <2>4 DEF Sub, Reader
    <2>6. /\ subs' \in Seq(Sub) /\ Len(subs') = Len(subs) + 1
          /\ subs'[Len(subs) + 1] = sub /\ \A s \in 1..Len(subs) : subs'[s] = subs[s]
      BY <2>1, <2>3, <2>5, AppendProperties DEF IInv, TypeOK
    <2>7. \A s \in 1..Len(subs') : s \in 1..Len(subs) \/ s = Len(subs) + 1
      BY <2>6 DEF IInv, TypeOK
    <2>8. \A s \in 1..Len(subs') : Reader(subs'[s])
      BY <2>5, <2>6, <2>7 DEF IInv
    <2>9. IInv'
      BY <1>1, <1>2, <2>6, <2>8, LogUnchanged DEF IInv, TypeOK
    <2>10. AllUnmoved
      BY <1>1, <2>6 DEF AllUnmoved, Unmoved, Dead
    <2> QED
      BY <1>2, <2>9, <2>10 DEF Kept
  <1> QED
    BY <1>3, <1>4

LEMMA FetchStep ==
  ASSUME IInv, NEW s \in 1..Len(subs), NEW cap \in 1..MaxBatch,
         NEW cursor \in subs[s].arrived \union {NoCursor, subs[s].start},
         fetchEvents(s, cursor, cap)
  PROVE  Kept
  <1>1. PICK sub \in Sub : sub = subs[s]
    BY DEF IInv, TypeOK
  <1>2. Reader(sub)
    BY <1>1 DEF IInv
  <1>3. PICK from : from = IF cursor # NoCursor THEN cursor ELSE sub.next
    OBVIOUS
  <1>4. from \in 0..Len(history) /\ from \in Nat /\ cap \in Nat
    <2>1. Len(history) \in Nat /\ MaxBatch \in Nat /\ NoCursor \in 0..Len(history)
      BY ChannelAssumption DEF IInv, TypeOK, NoCursor
    <2>2. /\ sub.arrived \subseteq 1..Len(history) /\ sub.start \in 0..Len(history)
          /\ sub.next \in {sub.start} \union sub.arrived
      BY <1>2 DEF Reader
    <2>3. cursor \in 0..Len(history) /\ sub.next \in 0..Len(history)
      BY <1>1, <2>1, <2>2
    <2> QED
      BY <1>3, <2>1, <2>3
  <1>5. sub.start # NoCursor /\ ~Foreign(sub.start) =>
           from \in {sub.start} \union sub.arrived /\ from # NoCursor /\ ~Foreign(from)
    <2>1. ASSUME sub.start # NoCursor, ~Foreign(sub.start)
          PROVE  from \in {sub.start} \union sub.arrived /\ from # NoCursor
      BY <1>1, <1>2, <1>3, <2>1 DEF Reader, NoCursor, Sub
    <2>2. ASSUME sub.start # NoCursor, ~Foreign(sub.start), from \in sub.arrived
          PROVE  ~Foreign(from)
      <3>1. from > sub.start /\ sub.start \in Nat /\ since \in Nat
        BY <1>1, <1>2, <2>2 DEF Reader, Sub, IInv, TypeOK
      <3> QED
        BY <1>4, <2>2, <3>1 DEF Foreign
    <2> QED
      BY <2>1, <2>2
  <1>6. PICK got \in Reaches(Answer(from, cap, sub.kinds)) :
          subs' = [subs EXCEPT ![s].arrived = @ \union got]
    BY <1>1, <1>3 DEF fetchEvents
  <1>7. /\ got \subseteq 1..Len(history)
        /\ from # NoCursor /\ ~Foreign(from) =>
              \A p \in got :
                  /\ p > from
                  /\ \A q \in (from + 1)..p : history[q] \in sub.kinds => q \in got
    BY <1>4, WhatArrives DEF IInv
  <1>8. PICK more : more = [sub EXCEPT !.arrived = @ \union got]
    OBVIOUS
  <1>9. got \in SUBSET Nat
    BY <1>7 DEF IInv, TypeOK
  <1>10. /\ more \in Sub
         /\ more.start = sub.start /\ more.next = sub.next /\ more.kinds = sub.kinds
         /\ more.arrived = sub.arrived \union got
    BY <1>8, <1>9 DEF Sub
  <1>11. Reader(more)
    <2>1. more.arrived \subseteq 1..Len(history)
      BY <1>2, <1>7, <1>10 DEF Reader
    <2>2. ASSUME sub.start # NoCursor, ~Foreign(sub.start), NEW p \in sub.arrived \union got
          PROVE  /\ p > sub.start
                 /\ \A q \in (sub.start + 1)..p :
                        history[q] \in sub.kinds => q \in sub.arrived \union got
      <3>1. CASE p \in sub.arrived
        BY <1>2, <2>2, <3>1 DEF Reader
      <3>2. CASE p \in got
        <4>1. /\ p \in Nat /\ sub.start \in Nat /\ from \in Nat /\ p > from
              /\ \A q \in (from + 1)..p : history[q] \in sub.kinds => q \in got
          BY <1>1, <1>4, <1>5, <1>7, <1>9, <2>2, <3>2 DEF Sub
        <4>2. CASE from = sub.start
          BY <4>1, <4>2
        <4>3. CASE from \in sub.arrived
          <5>1. /\ from > sub.start
                /\ \A q \in (sub.start + 1)..from : history[q] \in sub.kinds => q \in sub.arrived
            BY <1>2, <2>2, <4>3 DEF Reader
          <5>2. \A q \in (sub.start + 1)..p :
                   q \in (sub.start + 1)..from \/ q \in (from + 1)..p
            BY <4>1
          <5> QED
            BY <4>1, <5>1, <5>2
        <4> QED
          BY <1>5, <2>2, <4>2, <4>3
      <3> QED
        BY <2>2, <3>1, <3>2
    <2>3. sub.start \in 0..Len(history) /\ sub.next \in {sub.start} \union sub.arrived
      BY <1>2 DEF Reader
    <2> QED
      BY <1>10, <2>1, <2>2, <2>3 DEF Reader
  <1>12. subs' = [subs EXCEPT ![s] = more]
    BY <1>1, <1>6, <1>8 DEF IInv, TypeOK
  <1>13. answer' = Answer(from, cap, sub.kinds) /\ UNCHANGED <<history, feed, since>>
    BY <1>1, <1>3 DEF fetchEvents, events
  <1>14. Log!Next /\ answer'.code \in {"ok", "resync"}
    BY <1>4, <1>13, AnswerSpeaks DEF IInv
  <1>15. findSubscription(s) /\ UNCHANGED <<clock, events, channels, mounts>>
    BY DEF fetchEvents
  <1> QED
    BY <1>10, <1>11, <1>12, <1>14, <1>15, OneSubscription

LEMMA AckStep ==
  ASSUME IInv, NEW s \in 1..Len(subs), NEW cursor \in subs[s].arrived, ack(s, cursor)
  PROVE  Kept
  <1>1. Log!Next /\ answer'.code = "none"
    BY Quietly DEF ack, events
  <1>2. CASE ~advances(s, cursor)
    BY <1>1, <1>2, OnlyAnswered DEF ack
  <1>3. CASE advances(s, cursor)
    <2>1. PICK sub \in Sub : sub = subs[s]
      BY DEF IInv, TypeOK
    <2>2. Reader(sub)
      BY <2>1 DEF IInv
    <2>3. PICK moved : moved = [sub EXCEPT !.next = cursor]
      OBVIOUS
    <2>4. moved \in Sub /\ Reader(moved)
      BY <2>1, <2>2, <2>3 DEF Sub, Reader
    <2>5. subs' = [subs EXCEPT ![s] = moved]
      BY <1>3, <2>1, <2>3 DEF ack, IInv, TypeOK
    <2> QED
      BY <1>1, <2>4, <2>5, OneSubscription DEF ack
  <1> QED
    BY <1>2, <1>3

LEMMA ResumeStep ==
  ASSUME IInv, NEW i \in 1..Len(channels), NEW d, NEW cursor \in Known \union {NoCursor},
         resume(i, d, cursor)
  PROVE  Kept
  <1>1. cursor \in 0..Len(history) /\ MaxBatch \in Nat
    BY ChannelAssumption, KnownIsAnEvent DEF IInv
  <1>2. Log!Next /\ answer'.code \in {"ok", "resync"}
    BY <1>1, AnswerSpeaks DEF resume, IInv, events
  <1> QED
    BY <1>2, OnlyAnswered DEF resume

LEMMA ChannelSteps ==
  ASSUME IInv, NEW i \in 1..Len(channels), heartbeat(i) \/ refused(i)
  PROVE  Kept
  <1>0. channels \in Seq(Channel) /\ channels[i] \in Channel /\ clock \in Nat
    BY DEF IInv, TypeOK
  <1>1. CASE heartbeat(i)
    <2>1. PICK ch : ch = [channels[i] EXCEPT !.expiresAt = clock + ChannelTtl]
      OBVIOUS
    <2>2. /\ channels' = [channels EXCEPT ![i] = ch] /\ answer' = NoAnswer
          /\ UNCHANGED <<clock, events, subs, mounts>>
      BY <1>1, <2>1 DEF heartbeat
    <2>3. clock + ChannelTtl \in Nat
      BY <1>0, ChannelAssumption
    <2>4. ch \in Channel
      BY <1>0, <2>1, <2>3 DEF Channel
    <2>5. ~Dead(channels[i])
      BY <1>1, ServedIsAlive DEF heartbeat, IInv
    <2> QED
      BY <2>2, <2>4, <2>5, OneChannel
  <1>2. CASE refused(i)
    <2>1. PICK ch : ch = Visited(channels[i])
      OBVIOUS
    <2>2. /\ ch \in Channel /\ ch.expiresAt = channels[i].expiresAt
          /\ channels[i].lifecycle # "active" => ch.lifecycle # "active"
      BY <1>0, <2>1, VisitedKeeps
    <2>3. /\ channels' = [channels EXCEPT ![i] = ch] /\ answer' = NoAnswer
          /\ UNCHANGED <<clock, events, subs, mounts>>
      BY <1>2, <2>1 DEF refused
    <2>4. Dead(channels[i]) => Dead(ch)
      BY <2>2 DEF Dead
    <2> QED
      BY <2>2, <2>3, <2>4, OneChannel
  <1> QED
    BY <1>1, <1>2

LEMMA RevokeStep ==
  ASSUME IInv, NEW i \in 1..Len(channels), revoke(i)
  PROVE  Kept
  <1>0. channels \in Seq(Channel) /\ channels[i] \in Channel
    BY DEF IInv, TypeOK
  <1>1. PICK ch : ch = [channels[i] EXCEPT !.lifecycle = "revoked", !.generation = 2]
    OBVIOUS
  <1>2. ch \in Channel /\ channels' = [channels EXCEPT ![i] = ch]
    BY <1>0, <1>1 DEF revoke, Channel
  <1>3. ~Dead(channels[i])
    BY ServedIsAlive DEF revoke, IInv
  <1>4. ASSUME NEW s \in 1..Len(subs)
        PROVE  /\ subs[s] \in Sub /\ Reader(subs[s])
               /\ Revoked(subs[s]) \in Sub /\ Reader(Revoked(subs[s]))
    <2>1. PICK sub \in Sub : sub = subs[s]
      BY DEF IInv, TypeOK
    <2>2. Reader(sub)
      BY <2>1 DEF IInv
    <2>3. Revoked(sub) \in Sub /\ Reader(Revoked(sub))
      BY <2>2 DEF Revoked, Sub, Reader
    <2> QED
      BY <2>1, <2>2, <2>3
  <1>5. subs' = [s \in 1..Len(subs) |->
                    IF subs[s].channel = i THEN Revoked(subs[s]) ELSE subs[s]]
    BY DEF revoke
  <1>6. Len(subs) \in Nat
    BY DEF IInv, TypeOK
  <1>7. /\ subs' \in Seq(Sub) /\ Len(subs') = Len(subs)
        /\ \A s \in 1..Len(subs) : Reader(subs'[s])
        /\ \A s \in 1..Len(subs) : subs[s].channel # i => subs'[s] = subs[s]
    BY <1>4, <1>5, <1>6
  <1>8. /\ channels' \in Seq(Channel) /\ channels'[i] = ch
        /\ \A j \in 1..Len(channels) : j # i => channels'[j] = channels[j]
    BY <1>0, <1>2
  <1>9. UNCHANGED <<clock, events, mounts>> /\ Log!Next /\ answer'.code = "none"
    BY Quietly DEF revoke, events
  <1>10. IInv'
    BY <1>7, <1>8, <1>9, LogUnchanged DEF IInv, TypeOK
  <1>11. ASSUME NEW j \in 1..Len(channels) PROVE Unmoved(j)
    BY <1>3, <1>7, <1>8, <1>9 DEF Unmoved, Dead
  <1> QED
    BY <1>9, <1>10, <1>11 DEF AllUnmoved, Kept

LEMMA CallSteps == ASSUME IInv, Calls PROVE Kept
  BY OpenStep, SubscribeStep, FetchStep, AckStep, ResumeStep, ChannelSteps, RevokeStep DEF Calls

-----------------------------------------------------------------------------
(* The session, the clock and the feature's own life.                      *)

(* A reader lacks none of the events that come later.                      *)
LEMMA ReaderGrows ==
  ASSUME NEW h \in Seq(Kind), NEW sub \in Sub, Reader(sub), history \in Seq(Kind),
         history' = h, Len(history) <= Len(h), \A p \in 1..Len(history) : h[p] = history[p],
         UNCHANGED feed, since \in Nat, since' \in Nat, since <= since'
  PROVE  Reader(sub)'
  <1>1. Len(history) \in Nat /\ Len(h) \in Nat
    OBVIOUS
  <1>2. sub.arrived \subseteq 1..Len(history) /\ 1..Len(history) \subseteq 1..Len(h)
    BY <1>1 DEF Reader
  <1>3. ASSUME NEW p \in sub.arrived, NEW q \in (sub.start + 1)..p
        PROVE  h[q] = history[q]
    <2>1. sub.start \in Nat /\ p \in 1..Len(history)
      BY <1>2 DEF Sub
    <2>2. q \in 1..Len(history)
      BY <1>1, <2>1
    <2> QED
      BY <2>2
  <1>4. ~Foreign(sub.start)' => ~Foreign(sub.start)
    BY DEF Foreign, Sub
  <1>5. sub.start \in 0..Len(h) /\ sub.next \in {sub.start} \union sub.arrived
    BY <1>1 DEF Reader
  <1>6. ASSUME sub.start # NoCursor, ~Foreign(sub.start)', NEW p \in sub.arrived
        PROVE  /\ p > sub.start
               /\ \A q \in (sub.start + 1)..p : h[q] \in sub.kinds => q \in sub.arrived
    BY <1>3, <1>4, <1>6 DEF Reader
  <1> QED
    BY <1>1, <1>2, <1>5, <1>6 DEF Reader

LEMMA EventStep ==
  ASSUME IInv, NEW kind \in Kind, sessionEvent(kind)
  PROVE  Kept
  <1>1. /\ history' = Append(history, kind) /\ UNCHANGED <<clock, feed, since, channels, subs, mounts>>
        /\ answer' = NoAnswer
    BY DEF sessionEvent
  <1>2. PICK h \in Seq(Kind) :
          /\ h = history' /\ Len(h) = Len(history) + 1
          /\ \A p \in 1..Len(history) : h[p] = history[p]
    <2>1. PICK h : h = Append(history, kind)
      OBVIOUS
    <2>2. /\ h \in Seq(Kind) /\ Len(h) = Len(history) + 1
          /\ \A p \in 1..Len(history) : h[p] = history[p]
      BY <2>1, AppendProperties DEF IInv, TypeOK
    <2> QED
      BY <1>1, <2>1, <2>2
  <1>3. seq' \in Nat /\ cursors' \in Seq(Nat) /\ log' \in Seq(Entry) /\ Retained'
    <2>1. CASE feed # "array"
      <3>1. PICK others \in Nat : observeEvent(kind, others)
        BY <2>1 DEF sessionEvent, Others, IInv, TypeOK
      <3> QED
        BY <1>1, <2>1, <3>1, ObserveRetains DEF IInv
    <2>2. CASE feed = "array"
      <3>1. /\ log = <<>> /\ log' = <<>> /\ seq' = seq
            /\ cursors' = Append(cursors, NoCursor)
        BY <2>2 DEF sessionEvent, IInv, Retained
      <3>2. /\ cursors \in Seq(Nat) /\ Len(cursors) = Len(history) /\ NoCursor \in Nat
            /\ since + Len(log) <= Len(history) /\ since \in Nat /\ seq \in Nat
            /\ log \in Seq(Entry) /\ Len(history) \in Nat
        BY DEF IInv, TypeOK, Retained, Numbered, NoCursor
      <3>3. cursors' \in Seq(Nat) /\ Len(cursors') = Len(history')
        BY <1>2, <3>1, <3>2, AppendProperties
      <3>4. Len(log') = Len(log) /\ Len(log') = 0 /\ since' + Len(log') <= Len(history')
        BY <1>1, <1>2, <3>1, <3>2
      <3>5. Numbered'
        BY <1>1, <2>2, <3>3 DEF Numbered
      <3> QED
        BY <3>1, <3>2, <3>3, <3>4, <3>5 DEF Retained
    <2> QED
      BY <2>1, <2>2
  <1>4. TypeOK'
    BY <1>1, <1>2, <1>3 DEF IInv, TypeOK, NoAnswer
  <1>5. ASSUME NEW s \in 1..Len(subs) PROVE Reader(subs[s])'
    <2>1. PICK sub \in Sub : sub = subs[s]
      BY DEF IInv, TypeOK
    <2>2. Reader(sub)
      BY <2>1 DEF IInv
    <2>3. /\ history \in Seq(Kind) /\ Len(history) <= Len(history') /\ since \in Nat
          /\ since <= since'
      BY <1>1, <1>2 DEF IInv, TypeOK
    <2>4. Reader(sub)'
      BY <1>1, <1>2, <2>2, <2>3, ReaderGrows
    <2> QED
      BY <1>1, <2>1, <2>4
  <1>6. IInv'
    BY <1>1, <1>3, <1>4, <1>5 DEF IInv
  <1>7. AllUnmoved
    BY <1>1 DEF AllUnmoved, Unmoved, Dead
  <1>8. Log!Next
    <2>1. Promised' = Log!NoAnswer
      BY <1>1 DEF Promised, NoAnswer, Log!NoAnswer, Log!Anywhere, NoCursor
    <2> QED
      BY <1>1, <2>1 DEF Log!Next, Log!Publish
  <1> QED
    BY <1>6, <1>7, <1>8 DEF Kept

LEMMA RemountStep ==
  ASSUME IInv, remount
  PROVE  Kept
  <1>1. PICK missed \in {<<>>} \union {<<k>> : k \in Kind} :
          /\ history' = history \o missed
          /\ cursors' = cursors \o [i \in 1..Len(missed) |->
                 IF feed = "sequenced" THEN Len(history) + i ELSE NoCursor]
    BY DEF remount
  <1>2. missed \in Seq(Kind)
    <2>1. <<>> \in Seq(Kind)
      OBVIOUS
    <2>2. ASSUME NEW k \in Kind PROVE <<k>> \in Seq(Kind)
      OBVIOUS
    <2> QED
      BY <2>1, <2>2
  <1>3. PICK h \in Seq(Kind) :
          /\ h = history' /\ Len(history) <= Len(h) /\ Len(h) = Len(history) + Len(missed)
          /\ \A p \in 1..Len(history) : h[p] = history[p]
    <2>1. history \in Seq(Kind)
      BY DEF IInv, TypeOK
    <2>2. PICK h : h = history \o missed
      OBVIOUS
    <2>3. h \in Seq(Kind) /\ Len(h) = Len(history) + Len(missed)
      BY <1>2, <2>1, <2>2, ConcatProperties
    <2>4. Len(history) \in Nat /\ Len(missed) \in Nat
      BY <1>2, <2>1
    <2>5. \A p \in 1..Len(history) : h[p] = history[p]
      BY <1>2, <2>1, <2>2, <2>4, ConcatProperties
    <2>6. /\ h = history' /\ Len(history) <= Len(h)
          /\ Len(h) = Len(history) + Len(missed)
      BY <1>1, <2>2, <2>3, <2>4
    <2> QED
      BY <2>3, <2>5, <2>6
  <1>9. /\ log' = <<>> /\ UNCHANGED <<clock, feed>> /\ mounts' = mounts + 1
        /\ answer' = NoAnswer /\ seq' = 0 /\ since' = Len(history')
        /\ since \in Nat /\ since' \in Nat /\ since <= since'
    <2>1. /\ log' = <<>> /\ UNCHANGED <<clock, feed>> /\ mounts' = mounts + 1
          /\ answer' = NoAnswer /\ seq' = 0 /\ since' = Len(history')
      BY DEF remount
    <2>2. /\ since \in Nat /\ Len(log) \in Nat /\ Len(history) \in Nat
          /\ since + Len(log) <= Len(history)
      BY DEF IInv, TypeOK, Retained
    <2>3. Len(history') \in Nat /\ Len(history) <= Len(history')
      BY <1>3
    <2> QED
      BY <2>1, <2>2, <2>3
  <1>15. /\ cursors' \in Seq(Nat) /\ Len(cursors') = Len(history')
         /\ feed = "sequenced" => \A p \in 1..Len(history') : cursors'[p] = p
    <2>1. PICK more : more = [i \in 1..Len(missed) |->
                 IF feed = "sequenced" THEN Len(history) + i ELSE NoCursor]
      OBVIOUS
    <2>2. /\ cursors \in Seq(Nat) /\ Len(cursors) = Len(history) /\ Len(history) \in Nat
          /\ Len(missed) \in Nat
      BY <1>2 DEF IInv, TypeOK, Retained, Numbered
    <2>3. \A i \in 1..Len(missed) : more[i] \in Nat
      BY <2>1, <2>2 DEF NoCursor
    <2>4. more \in Seq(Nat) /\ Len(more) = Len(missed)
      BY <2>1, <2>2, <2>3
    <2>5. /\ cursors' \in Seq(Nat) /\ Len(cursors') = Len(cursors) + Len(more)
          /\ \A p \in 1..(Len(cursors) + Len(more)) :
                 cursors'[p] = IF p <= Len(cursors) THEN cursors[p] ELSE more[p - Len(cursors)]
      BY <1>1, <2>1, <2>2, <2>4, ConcatProperties
    <2>6. Len(history') = Len(history) + Len(missed)
      BY <1>3
    <2>7. ASSUME feed = "sequenced", NEW p \in 1..Len(history') PROVE cursors'[p] = p
      <3>1. CASE p <= Len(history)
        <4>1. cursors[p] = p
          BY <2>2, <2>7, <3>1 DEF IInv, Retained, Numbered
        <4> QED
          BY <2>2, <2>4, <2>5, <2>6, <3>1, <4>1
      <3>2. CASE ~(p <= Len(history))
        <4>1. p - Len(history) \in 1..Len(missed)
          BY <2>2, <2>6, <3>2
        <4>2. more[p - Len(history)] = Len(history) + (p - Len(history))
          BY <2>1, <2>7, <4>1
        <4>3. cursors'[p] = more[p - Len(history)]
          BY <2>2, <2>4, <2>5, <2>6, <3>2
        <4> QED
          BY <2>2, <4>2, <4>3
      <3> QED
        BY <3>1, <3>2
    <2> QED
      BY <2>2, <2>4, <2>5, <2>6, <2>7
  <1>4. ASSUME NEW i \in 1..Len(channels)
        PROVE  LET ch == [channels[i] EXCEPT !.lifecycle = "gone"] IN
               ch \in Channel /\ ch.lifecycle = "gone" /\ ch.expiresAt = channels[i].expiresAt
    <2>1. PICK ch \in Channel : ch = channels[i]
      BY DEF IInv, TypeOK
    <2> QED
      BY <2>1 DEF Channel
  <1>5. ASSUME NEW s \in 1..Len(subs)
        PROVE  \E sub \in Sub :
                   /\ sub = [subs[s] EXCEPT !.lifecycle = "gone"]
                   /\ sub.next = subs[s].next /\ sub.arrived = subs[s].arrived
                   /\ Reader(sub)'
    <2>1. PICK old \in Sub : old = subs[s]
      BY DEF IInv, TypeOK
    <2>2. PICK sub : sub = [old EXCEPT !.lifecycle = "gone"]
      OBVIOUS
    <2>3. sub \in Sub /\ sub.next = old.next /\ sub.arrived = old.arrived
      BY <2>2 DEF Sub
    <2>4. Reader(old)
      BY <2>1 DEF IInv
    <2>5. Reader(sub)
      BY <2>2, <2>4 DEF Reader, Sub
    <2>6. Reader(sub)'
      BY <1>3, <1>9, <2>3, <2>5, ReaderGrows DEF IInv, TypeOK
    <2> QED
      BY <2>1, <2>2, <2>3, <2>6
  <1>6. Len(channels) \in Nat /\ Len(subs) \in Nat
    BY DEF IInv, TypeOK
  <1>7. /\ channels' \in Seq(Channel)
        /\ \A i \in 1..Len(channels) : /\ channels'[i].lifecycle = "gone"
                                       /\ channels'[i].expiresAt = channels[i].expiresAt
    <2>1. channels' = [i \in 1..Len(channels) |-> [channels[i] EXCEPT !.lifecycle = "gone"]]
      BY DEF remount
    <2>2. channels' \in Seq(Channel)
      BY <1>4, <1>6, <2>1
    <2> QED
      BY <1>4, <2>1, <2>2
  <1>8. /\ subs' \in Seq(Sub) /\ Len(subs') = Len(subs)
        /\ \A s \in 1..Len(subs) : /\ subs'[s].next = subs[s].next
                                   /\ subs'[s].arrived = subs[s].arrived
                                   /\ Reader(subs[s])'
    <2>1. subs' = [s \in 1..Len(subs) |-> [subs[s] EXCEPT !.lifecycle = "gone"]]
      BY DEF remount
    <2>2. subs' \in Seq(Sub) /\ Len(subs') = Len(subs)
      BY <1>5, <1>6, <2>1
    <2> QED
      BY <1>5, <2>1, <2>2
  <1>10. TypeOK'
    BY <1>3, <1>7, <1>8, <1>9, <1>15 DEF IInv, TypeOK, NoAnswer
  <1>11. Retained'
    <2>1. Len(log') = 0 /\ Len(history') \in Nat /\ (since' + 1)..Len(history') = {}
      BY <1>3, <1>9
    <2>2. Numbered'
      BY <1>9, <1>15, <2>1 DEF Numbered
    <2> QED
      BY <1>9, <2>1, <2>2 DEF Retained
  <1>12. IInv'
    BY <1>8, <1>10, <1>11 DEF IInv
  <1>13. AllUnmoved
    BY <1>7, <1>8 DEF AllUnmoved, Unmoved, Dead
  <1>14. Log!Next
    <2>1. CASE missed = <<>>
      <3>1. history' = history
        BY <1>1, <2>1 DEF IInv, TypeOK
      <3> QED
        BY <1>9, <3>1, Quietly
    <2>2. CASE \E k \in Kind : missed = <<k>>
      <3>1. PICK k \in Kind : missed = <<k>>
        BY <2>2
      <3>2. history' = Append(history, k)
        BY <1>1, <3>1 DEF IInv, TypeOK
      <3>3. Promised' = Log!NoAnswer
        BY <1>9 DEF Promised, NoAnswer, Log!NoAnswer, Log!Anywhere, NoCursor
      <3> QED
        BY <3>2, <3>3 DEF Log!Next, Log!Publish
    <2> QED
      BY <2>1, <2>2
  <1> QED
    BY <1>12, <1>13, <1>14 DEF Kept

(* Time makes no channel alive.                                            *)
LEMMA TickStep ==
  ASSUME IInv, tick
  PROVE  Kept
  <1>1. clock' = clock + 1 /\ clock \in Nat /\ UNCHANGED <<events, channels, subs, mounts>>
    BY DEF tick, IInv, TypeOK
  <1>2. Log!Next /\ answer'.code = "none"
    BY Quietly DEF tick, events
  <1>3. IInv'
    BY <1>1, <1>2, LogUnchanged DEF IInv, TypeOK
  <1>4. ASSUME NEW i \in 1..Len(channels), Dead(channels[i]) PROVE Dead(channels[i])'
    <2>1. channels[i] \in Channel
      BY DEF IInv, TypeOK
    <2> QED
      BY <1>1, <1>4, <2>1 DEF Dead, Channel
  <1> QED
    BY <1>1, <1>2, <1>3, <1>4 DEF AllUnmoved, Unmoved, Kept

-----------------------------------------------------------------------------
(* The invariant.                                                          *)

LEMMA InitInv == Init => IInv
  BY DEF Init, IInv, TypeOK, Retained, Numbered, NoAnswer

LEMMA StepKeeps == ASSUME IInv, [Next]_vars PROVE Kept
  <1>1. CASE UNCHANGED vars
    <2>1. UNCHANGED <<clock, events, channels, subs, mounts, answer>>
      BY <1>1 DEF vars
    <2>2. IInv'
      BY <2>1, LogUnchanged DEF IInv, TypeOK
    <2>3. AllUnmoved
      BY <2>1 DEF AllUnmoved, Unmoved, Dead
    <2> QED
      BY <2>1, <2>2, <2>3 DEF Kept, Promised, Foreign, events
  <1> QED
    BY <1>1, CallSteps, EventStep, RemountStep, TickStep DEF Next

(* The shape of every variable, of the log that observeEvent cuts and of   *)
(* the subscriptions that the calls make, is kept, for every instance.     *)
THEOREM TypeCorrect == Spec => []TypeOK
  <1>1. IInv => TypeOK
    BY DEF IInv
  <1>2. IInv /\ [Next]_vars => IInv'
    BY StepKeeps DEF Kept
  <1> QED
    BY InitInv, <1>1, <1>2, PTL DEF Spec

(* fetchEvents and ack: the watermark of a reader that started from a      *)
(* cursor, of an event's own sequence or of the engine it reads from,      *)
(* passes no event that the reader asked for and did not get.              *)
THEOREM ReadersSkipNothing == Spec => []NothingSkipped
  <1>1. ASSUME IInv, NEW s \in 1..Len(subs), subs[s].start # NoCursor,
               ~Foreign(subs[s].start),
               NEW p \in (subs[s].start + 1)..subs[s].next, history[p] \in subs[s].kinds
        PROVE  p \in subs[s].arrived
    <2>1. PICK sub \in Sub : sub = subs[s]
      BY <1>1 DEF IInv, TypeOK
    <2>2. Reader(sub)
      BY <1>1, <2>1 DEF IInv
    <2>3. sub.next # sub.start
      BY <2>1 DEF Sub
    <2> QED
      BY <1>1, <2>1, <2>2, <2>3 DEF Reader
  <1>2. IInv => NothingSkipped
    BY <1>1 DEF NothingSkipped
  <1>3. IInv /\ [Next]_vars => IInv'
    BY StepKeeps DEF Kept
  <1> QED
    BY InitInv, <1>2, <1>3, PTL DEF Spec

(* collectFrames over the bounded window answers as the session's whole    *)
(* log would, or asks for a resync, whenever the cursor it is asked for is *)
(* an event's own sequence or was numbered by the same engine.             *)
THEOREM Refinement == Spec => ImplementsEventLog
  <1>1. Init => Log!Init
    BY DEF Init, Log!Init, Promised, NoAnswer, Log!NoAnswer, Log!Anywhere, NoCursor
  <1>2. IInv /\ [Next]_vars => IInv' /\ [Log!Next]_<<history, Promised>>
    BY StepKeeps DEF Kept
  <1> QED
    BY InitInv, <1>1, <1>2, PTL DEF Spec, ImplementsEventLog, Log!Spec

(* findChannel and evaluateExpiry: a channel past its deadline, revoked or *)
(* left behind by a remount is never served, revived or extended, and its  *)
(* subscriptions stand still, whatever call was under way when it died.    *)
THEOREM DeadStaysDead == Spec => DeadChannelStaysDead
  <1>1. IInv /\ [Next]_vars => IInv'
    BY StepKeeps DEF Kept
  <1>2. IInv /\ [Next]_vars =>
          [ \A i \in 1..Len(channels) :
              Dead(channels[i]) =>
                /\ Dead(channels[i])'
                /\ channels[i].expiresAt' = channels[i].expiresAt
                /\ \A s \in 1..Len(subs) :
                       subs[s].channel = i =>
                           /\ subs'[s].next = subs[s].next
                           /\ subs'[s].arrived = subs[s].arrived ]_vars
    BY StepKeeps DEF Kept, AllUnmoved, Unmoved
  <1> QED
    BY InitInv, <1>1, <1>2, PTL DEF Spec, DeadChannelStaysDead
=============================================================================
