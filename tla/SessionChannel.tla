--------------------------- MODULE SessionChannel ---------------------------
(***************************************************************************)
(* The session channel of the host facade: src/lib/session-channel-core.js *)
(* behind the controlled methods of src/lib/session-channel.js.            *)
(*                                                                         *)
(* One session, its bounded event log, channels of remote devices and      *)
(* their subscriptions.  A call passes the authorization gate, awaits, and *)
(* then runs its engine method, which looks at the channel from the start, *)
(* in one step.  The gate leaves nothing behind in the engine, so a call   *)
(* is its engine step, with arguments that may be as old as its caller's   *)
(* knowledge.  Its answer may be lost.                                     *)
(***************************************************************************)
EXTENDS Naturals, Sequences, FiniteSets

CONSTANTS
    Device,          \* the canonical device identities of the verifiers
    Kind,            \* the kinds of session events
    WindowEvents,    \* replayWindowEvents
    WindowTime,      \* replayWindowMs
    ChannelTtl,      \* channelTtlMs
    MaxBatch,        \* MAX_FRAME_BATCH
    Feeds,           \* how the session surface may hand its events over
    MaxEvents, MaxSeq, MaxChannels, MaxSubs, MaxTime, MaxMounts  \* bounds

ASSUME ChannelAssumption ==
    /\ Device # {} /\ Kind # {}
    /\ WindowEvents \in Nat \ {0} /\ MaxBatch \in Nat \ {0}
    /\ WindowTime \in Nat /\ ChannelTtl \in Nat
    /\ Feeds \subseteq {"array", "object", "sequenced"} /\ Feeds # {}
    /\ {MaxEvents, MaxSeq, MaxChannels, MaxSubs, MaxTime, MaxMounts} \subseteq Nat

VARIABLES
    clock,           \* Date.now()
    feed,            \* how this session surface hands its events over
    history,         \* the kinds of the session's events; an event is its position
    cursors,         \* the cursor each event of the history was given, if any
    log,             \* eventLogs.get(session): the retained events
    seq,             \* seq: the engine's count of the events of all sessions
    since,           \* the events of the history from before this engine
    channels,        \* every channel opened so far
    subs,            \* every subscription made so far
    mounts,          \* mounts of the feature so far
    answer           \* what the last step answered about the event stream (for checking)

events == <<feed, history, cursors, log, seq, since>>
vars   == <<clock, events, channels, subs, mounts, answer>>

(* Cursors are numbers, and a reader only ever hands back one it was       *)
(* given.  What a reader hands back is written as the event it was given   *)
(* for; what the engine compares is cursors of that event.                 *)
NoCursor == 0        \* no cursor given, or none kept

NoAnswer == [code |-> "none", from |-> NoCursor, kinds |-> {}, cap |-> 0, frames |-> {}]

(* An event without a sequence of its own is numbered by the engine, which *)
(* starts again from one with every mount: a cursor of an earlier engine   *)
(* is good for nothing, and the engine cannot tell.                        *)
Foreign(cursor) == feed = "object" /\ cursor # NoCursor /\ cursor <= since

(* The answers that the channel can be held to.                            *)
Promised == IF Foreign(answer.from) THEN NoAnswer ELSE answer

Log == INSTANCE EventLog WITH log <- history, answer <- Promised

Entry   == [event : Nat \ {0}, cursor : Nat \ {0}, kind : Kind, emittedAt : Nat]
Channel == [lifecycle : {"active", "revoked", "expired", "gone"}, generation : {1, 2},
            device : Device, expiresAt : Nat]
Sub     == [channel : Nat, lifecycle : {"active", "revoked", "gone"}, kinds : SUBSET Kind,
            start : Nat, next : Nat, arrived : SUBSET Nat]
TypeOK ==
    /\ clock \in Nat /\ mounts \in Nat /\ seq \in Nat /\ since \in Nat
    /\ feed \in Feeds
    /\ history \in Seq(Kind)
    /\ cursors \in Seq(Nat)
    /\ log \in Seq(Entry)
    /\ channels \in Seq(Channel)
    /\ subs \in Seq(Sub)
    /\ answer.code \in {"none", "ok", "resync"}

Init ==
    /\ clock = 0 /\ feed \in Feeds
    /\ history = <<>> /\ cursors = <<>> /\ log = <<>>
    /\ seq = 0 /\ since = 0
    /\ channels = <<>> /\ subs = <<>>
    /\ mounts = 1
    /\ answer = NoAnswer

-----------------------------------------------------------------------------
(* The bounded log.                                                        *)

LastN(s, n) == SubSeq(s, Len(s) - (IF n < Len(s) THEN n ELSE Len(s)) + 1, Len(s))

(* Old entries leave at the head, up to the first that is young enough. *)
DropAged(s) ==
    LET young == {i \in 1..Len(s) : s[i].emittedAt + WindowTime >= clock}
    IN  IF young = {} THEN <<>>
        ELSE SubSeq(s, CHOOSE i \in young : \A j \in young : i <= j, Len(s))

Retain(kind, cursor) ==
    LET entry == [event |-> Len(history) + 1, cursor |-> cursor, kind |-> kind,
                  emittedAt |-> clock]
    IN  /\ cursors' = Append(cursors, cursor)
        /\ log' = DropAged(LastN(Append(log, entry), WindowEvents))

(* Mutant: the cursor is read before the sequence is counted up. *)
observeEventUncounted(kind, others) ==
    /\ seq' = seq + others + 1
    /\ Retain(kind, IF feed = "sequenced" THEN Len(history) ELSE seq)

(* The engine counts the events of all sessions, so others of them come in *)
(* between; the count numbers the events that have no sequence of their    *)
(* session.                                                                *)
observeEvent(kind, others) ==
    /\ seq' = seq + others + 1
    /\ Retain(kind, IF feed = "sequenced" THEN Len(history) + 1 ELSE seq')

(* The first entry with this number, whoever gave it. *)
indexOfCursor(cursor) ==
    LET found == {i \in 1..Len(log) : log[i].cursor = cursors[cursor]}
    IN  IF found = {} THEN 0 ELSE CHOOSE i \in found : \A j \in found : i <= j

(* Mutant: a cursor that is not retained any more reads from the head. *)
outsideWindowNever(cursor) == FALSE

(* A cursor is continued strictly after its entry, or asks for a resync. *)
outsideWindow(cursor) == cursor # NoCursor /\ indexOfCursor(cursor) = 0

After(cursor) == IF cursor = NoCursor THEN 1 ELSE indexOfCursor(cursor) + 1

(* Mutant: the cap counts entries that are filtered out. *)
collectFramesCapped(start, cap, kinds) ==
    {log[i].event : i \in {j \in start..Len(log) : j < start + cap /\ log[j].kind \in kinds}}

(* The first cap entries from start on that the filter allows.  Frames are *)
(* the events of the entries handed out, which follow each other as in the *)
(* log.                                                                    *)
collectFrames(start, cap, kinds) ==
    LET wanted == {i \in start..Len(log) : log[i].kind \in kinds}
    IN  {log[i].event : i \in {j \in wanted : Cardinality({k \in wanted : k <= j}) <= cap}}

Answer(cursor, cap, kinds) ==
    [code |-> IF outsideWindow(cursor) THEN "resync" ELSE "ok", from |-> cursor,
     kinds |-> kinds, cap |-> cap,
     frames |-> IF outsideWindow(cursor) THEN {} ELSE collectFrames(After(cursor), cap, kinds)]

-----------------------------------------------------------------------------
(* Channels and subscriptions.                                             *)

isExpired(ch) == ch.lifecycle # "gone" /\ clock > ch.expiresAt

(* Mutant: expiry is left to somebody else. *)
VisitedLate(ch) == ch

(* What findChannel leaves of a channel it looks at: expiry is applied     *)
(* there.  The only generation a caller is ever told is the first.         *)
Visited(ch) ==
    IF isExpired(ch) THEN [ch EXCEPT !.lifecycle = "expired", !.generation = 2] ELSE ch

findChannel(i) ==
    LET ch == Visited(channels[i]) IN ch.lifecycle = "active" /\ ch.generation = 1

findSubscription(s) == findChannel(subs[s].channel) /\ subs[s].lifecycle = "active"

-----------------------------------------------------------------------------
(* Calls that the gate lets through.                                       *)

(* A call for a channel or subscription that is not served, or on behalf   *)
(* of another device, does no more than apply the expiry.                  *)
refused(i) ==
    /\ channels' = [channels EXCEPT ![i] = Visited(@)]
    /\ answer' = NoAnswer
    /\ UNCHANGED <<clock, events, subs, mounts>>

open(device) ==
    /\ Len(channels) < MaxChannels
    /\ channels' = Append(channels, [lifecycle |-> "active", generation |-> 1,
                                     device |-> device, expiresAt |-> clock + ChannelTtl])
    /\ answer' = NoAnswer
    /\ UNCHANGED <<clock, events, subs, mounts>>

(* An answer that reaches its reader adds its frames to what the reader has. *)
Reaches(a) == {{}, a.frames}

subscribe(i, cursor, kinds) ==
    /\ findChannel(i)
    /\ answer' = Answer(cursor, MaxBatch, kinds)
    /\ \/ outsideWindow(cursor) /\ UNCHANGED subs
       \/ /\ ~outsideWindow(cursor) /\ Len(subs) < MaxSubs
          /\ \E got \in Reaches(Answer(cursor, MaxBatch, kinds)) :
                 subs' = Append(subs, [channel |-> i, lifecycle |-> "active", kinds |-> kinds,
                                       start |-> cursor, next |-> cursor, arrived |-> got])
    /\ UNCHANGED <<clock, events, channels, mounts>>

(* fetchEvents reads from the given cursor or from the watermark, and moves neither. *)
fetchEvents(s, cursor, cap) ==
    LET a == Answer(IF cursor # NoCursor THEN cursor ELSE subs[s].next, cap, subs[s].kinds)
    IN  /\ findSubscription(s)
        /\ answer' = a
        /\ \E got \in Reaches(a) : subs' = [subs EXCEPT ![s].arrived = @ \union got]
        /\ UNCHANGED <<clock, events, channels, mounts>>

(* ack moves the watermark forward only; an older cursor is answered and ignored. *)
advances(s, cursor) ==
    subs[s].next = NoCursor \/ cursors[cursor] > cursors[subs[s].next]

ack(s, cursor) ==
    /\ findSubscription(s)
    /\ subs' = IF advances(s, cursor) THEN [subs EXCEPT ![s].next = cursor] ELSE subs
    /\ answer' = NoAnswer
    /\ UNCHANGED <<clock, events, channels, mounts>>

resume(i, device, cursor) ==
    /\ findChannel(i) /\ device = channels[i].device
    /\ answer' = Answer(cursor, MaxBatch, Kind)
    /\ UNCHANGED <<clock, events, channels, subs, mounts>>

heartbeat(i) ==
    /\ findChannel(i)
    /\ channels' = [channels EXCEPT ![i].expiresAt = clock + ChannelTtl]
    /\ answer' = NoAnswer
    /\ UNCHANGED <<clock, events, subs, mounts>>

(* A revocation takes the channel's active subscriptions with it. *)
Revoked(sub) == [sub EXCEPT !.lifecycle = IF @ = "active" THEN "revoked" ELSE @]

revoke(i) ==
    /\ findChannel(i)
    /\ channels' = [channels EXCEPT ![i].lifecycle = "revoked", ![i].generation = 2]
    /\ subs' = [s \in 1..Len(subs) |->
                   IF subs[s].channel = i THEN Revoked(subs[s]) ELSE subs[s]]
    /\ answer' = NoAnswer
    /\ UNCHANGED <<clock, events, mounts>>

(* The events whose cursor a reader may know, from a channel of any mount. *)
Known == {p \in 1..Len(history) : cursors[p] # NoCursor}

(* A reader names a cursor it was given, or none and relies on the         *)
(* watermark; it acknowledges what reached it, in any order.               *)
Calls ==
    \/ \E d \in Device : open(d)
    \/ \E i \in 1..Len(channels) :
           \/ \E cursor \in Known \union {NoCursor} :
                  \/ \E kinds \in SUBSET Kind \ {{}} : subscribe(i, cursor, kinds)
                  \/ \E d \in Device : resume(i, d, cursor)
           \/ heartbeat(i) \/ revoke(i) \/ refused(i)
    \/ \E s \in 1..Len(subs) :
           \/ \E cursor \in subs[s].arrived \union {NoCursor, subs[s].start}, cap \in 1..MaxBatch :
                  fetchEvents(s, cursor, cap)
           \/ \E cursor \in subs[s].arrived : ack(s, cursor)

-----------------------------------------------------------------------------
(* The session, the clock and the feature's own life.                      *)

(* How many events of other sessions may come before the next one of this. *)
Others == 0..(MaxSeq - seq - 1)

(* The session commits an event.  The listener finds the session's id only *)
(* in a payload that is one object; the cursor is the sequence that comes  *)
(* with the event, or left to the engine.                                  *)
sessionEvent(kind) ==
    /\ Len(history) < MaxEvents
    /\ history' = Append(history, kind)
    /\ \/ /\ feed = "array"
          /\ cursors' = Append(cursors, NoCursor)
          /\ UNCHANGED <<log, seq>>
       \/ feed = "object" /\ \E others \in Others : observeEvent(kind, others)
       \/ feed = "sequenced" /\ observeEvent(kind, 0)
    /\ answer' = NoAnswer
    /\ UNCHANGED <<clock, feed, since, channels, subs, mounts>>

(* The feature is disposed and mounted again: a new engine knows nothing,  *)
(* and the session may have gone on in the meantime.                       *)
remount ==
    /\ mounts < MaxMounts
    /\ mounts' = mounts + 1
    /\ log' = <<>> /\ seq' = 0
    /\ \E missed \in {<<>>} \union {<<k>> : k \in Kind} :
           /\ Len(history) + Len(missed) <= MaxEvents
           /\ history' = history \o missed
           /\ cursors' = cursors \o [i \in 1..Len(missed) |->
                  IF feed = "sequenced" THEN Len(history) + i ELSE NoCursor]
    /\ since' = Len(history')
    /\ channels' = [i \in 1..Len(channels) |-> [channels[i] EXCEPT !.lifecycle = "gone"]]
    /\ subs' = [i \in 1..Len(subs) |-> [subs[i] EXCEPT !.lifecycle = "gone"]]
    /\ answer' = NoAnswer
    /\ UNCHANGED <<clock, feed>>

tick ==
    /\ clock < MaxTime
    /\ clock' = clock + 1
    /\ answer' = NoAnswer
    /\ UNCHANGED <<events, channels, subs, mounts>>

Next ==
    \/ Calls
    \/ \E kind \in Kind : sessionEvent(kind)
    \/ remount
    \/ tick

Spec == Init /\ [][Next]_vars

-----------------------------------------------------------------------------
(* Properties.                                                             *)

(* The bounded log answers as the session's whole log would, or says that  *)
(* it cannot: no answer has a gap that the reader is not told of, whatever *)
(* was evicted, filtered, acknowledged out of order or lost to a remount.  *)
(* Only a cursor numbered by an earlier engine is left out, which a feed   *)
(* without sequences may silently continue at another event.               *)
ImplementsEventLog == Log!Spec

(* The watermark of a reader that started from a cursor, not one of an     *)
(* earlier engine's numbers, never passes an event it asked for and did    *)
(* not get: what it skips by relying on the watermark, it has, also when   *)
(* answers are lost and acks overtake.                                     *)
NothingSkipped ==
    \A s \in 1..Len(subs) :
        subs[s].start # NoCursor /\ ~Foreign(subs[s].start) =>
            \A p \in (subs[s].start + 1)..subs[s].next :
                history[p] \in subs[s].kinds => p \in subs[s].arrived

(* A channel past its deadline is dead although nobody has looked at it    *)
(* yet; a dead channel is never served, revived or extended, whatever call *)
(* was under way when it died.                                             *)
Dead(ch) == ch.lifecycle # "active" \/ clock > ch.expiresAt

DeadChannelStaysDead ==
    [][ \A i \in 1..Len(channels) :
            Dead(channels[i]) =>
                /\ Dead(channels[i])'
                /\ channels[i].expiresAt' = channels[i].expiresAt
                /\ \A s \in 1..Len(subs) :
                       subs[s].channel = i =>
                           /\ subs'[s].next = subs[s].next
                           /\ subs'[s].arrived = subs[s].arrived ]_vars
=============================================================================
