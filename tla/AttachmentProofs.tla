--------------------------- MODULE AttachmentProofs ---------------------------
(***************************************************************************)
(* Proofs about AttachmentPipeline and the journal under it, for any       *)
(* owners, contents, number of calls, records and mishaps.                 *)
(***************************************************************************)
EXTENDS AttachmentPipeline, WellFoundedInduction, TLAPS

-----------------------------------------------------------------------------
(* The inductive invariant.                                                *)

Existing == 1 .. Len(made)

Writing == {"checking", "writing object", "writing metadata", "writing record", "written"}

Restoring == {"restoring object", "restoring metadata", "restoring record"}

Deleting == {"syncing record", "scanning", "reading content", "rescanning", "unlinking object",
             "unlinking metadata", "syncing object", "confirming", "answering"}

Removing == {"unlinking record"} \cup Deleting \cup Restoring

Opening == {"loading", "loaded", "opening", "reading", "running", "unread"}

Producing(k) == k.task \in {"ingest", "transform"}

Untouched(k) == ~k.recordRemoved /\ ~k.objectRemoved /\ ~k.metadataRemoved /\ ~k.caught

(* What a call is about, by its task and by where it is.  The record of a  *)
(* call that produces one was answered to nobody; a cleanup of a derived   *)
(* record names one that was.                                              *)
Produces(k) ==
    IF k.at \in Writing \cup Removing
    THEN /\ k.rec \in Existing /\ k.rec \notin answered
         /\ made[k.rec].owner = k.owner /\ made[k.rec].parent = k.source
    ELSE k.rec = NoRecord

Transforms(k) ==
    /\ k.at \in Opening \cup Writing \cup Removing
    /\ k.source \in answered /\ made[k.source].owner = k.owner
    /\ k.at # "loading" => k.owner \in loaded

CleansUp(k) ==
    /\ k.at \in {"loading", "loaded"} \cup Removing
    /\ k.rec \in Existing /\ made[k.rec].owner = k.owner
    /\ made[k.rec].parent # NoRecord => k.rec \in answered
    /\ k.at # "loading" => k.owner \in loaded

Staged(k) ==
    /\ k.task = "none" \/ k.at = "idle" => k = Idle
    /\ k.task = "ingest" => k.at \in {"preparing"} \cup Writing \cup Removing /\ k.source = NoRecord
    /\ k.task = "transform" => Transforms(k)
    /\ k.task = "cleanup" => CleansUp(k)
    /\ Producing(k) => Produces(k)
    /\ k.at \notin Deleting \cup Restoring => Untouched(k)

Awaited(k) == k.at = "loading" /\ load[k.owner].at = "none" => k.owner \in loaded

(* The content of a digest can be read, or was lost; a record names it.    *)
Readable(d) == d \in lost \/ d \in objects \cap metadata

Named(d) == \E r \in records : made[r].digest = d

(* What a call at work on the content of d knows of its files.             *)
Sound(k, d) ==
    /\ k.at = "writing metadata" => d \in objects
    /\ k.at = "writing record" => Readable(d)
    /\ k.at \in {"unlinking object", "unlinking metadata"} => (Named(d) => d \in lost)
    /\ k.recordRemoved =>
          /\ \/ d \in lost
             \/ /\ k.objectRemoved \/ d \in objects
                /\ k.metadataRemoved \/ d \in metadata
          /\ k.at = "restoring metadata" => d \in lost \/ d \in objects
          /\ k.at = "restoring record" => Readable(d)

Busy(k) == k.at \in Entering \cup Inside

ContentKnown == \A c \in Calls : Busy(call[c]) => Sound(call[c], digestOf(c))

(* Nobody queues twice.                                                    *)
Queued ==
    \A d \in Digests : \A i, j \in 1 .. Len(locks[d]) : locks[d][i] = locks[d][j] => i = j

JournalInv == LockDiscipline /\ Queued /\ RecordsReadable /\ ContentKnown

(* A record is younger than the one it was derived from, which was         *)
(* answered.                                                               *)
Lineage ==
    \A r \in Existing :
        made[r].parent # NoRecord =>
            /\ made[r].parent < r /\ made[r].parent \in answered
            /\ made[made[r].parent].owner = made[r].owner

OneMaker ==
    \A b, c \in Calls :
        /\ Producing(call[b]) /\ Producing(call[c])
        /\ call[b].rec = call[c].rec /\ call[b].rec # NoRecord
        => b = c

Found ==
    \A o \in Owners :
        /\ load[o].found # NoRecord =>
              load[o].found \in Existing /\ made[load[o].found].owner = o
        /\ current[o] # NoRecord => current[o] \in Existing

(* What was listed of an owner's records; as long as it has none in        *)
(* memory, none that was answered is missing.                              *)
Listed ==
    \A o \in Owners :
        load[o].at = "reading" =>
            /\ \A q \in load[o].listed : q \in Existing /\ made[q].owner = o
            /\ o \notin loaded =>
                  \A q \in answered \cap records : made[q].owner = o => q \in load[o].listed

(* A record that is about to be published is on disk, and no cleanup has   *)
(* touched it.                                                             *)
WrittenThere ==
    \A c \in Calls : call[c].at = "written" /\ call[c].wanted => call[c].rec \in records

Untaken ==
    \A c, e \in Calls :
        /\ Producing(call[c]) /\ call[c].wanted
        /\ call[e].task = "cleanup" /\ call[e].rec = call[c].rec
        => ~call[e].recordRemoved

(* What an owner's current record is, or is about to be, is on disk.       *)
CurrentThere ==
    \A o \in Owners \ overtaken :
        /\ CurrentOf(o) \in answered => CurrentOf(o) \in records
        /\ o \notin loaded /\ load[o].at = "read" /\ load[o].found \in answered =>
              load[o].found \in records

NewestCurrent ==
    \A o \in Owners :
        newest[o] # NoRecord =>
            o \in loaded /\ newest[o] \in answered /\ (o \in overtaken \/ current[o] = newest[o])

RemovedNotNewest ==
    \A e \in Calls :
        call[e].task = "cleanup" /\ call[e].recordRemoved =>
            call[e].owner \in overtaken \/ newest[call[e].owner] # call[e].rec

(* A record is on disk, or a cleanup has removed it and may put it back.   *)
Kept(q) ==
    \/ q \in records
    \/ \E e \in Calls :
          call[e].task = "cleanup" /\ call[e].recordRemoved /\ call[e].rec = q

(* As long as a record may be there, its parent is not current again.  A   *)
(* process that has read past a record may take its parent for current.    *)
ChildKnown ==
    \A q \in answered :
        LET o == made[q].owner IN
        /\ made[q].parent # NoRecord
        /\ o \notin overtaken \cup misread /\ Kept(q)
        => /\ CurrentOf(o) # made[q].parent
           /\ o \notin loaded /\ load[o].at = "read" => load[o].found # made[q].parent

OnlyChild ==
    \A q, r \in answered :
        /\ Kept(q) /\ Kept(r)
        /\ made[q].parent # NoRecord /\ made[q].parent = made[r].parent
        /\ made[q].owner \notin overtaken \cup misread
        => q = r

CallsStaged == \A c \in Calls : Staged(call[c]) /\ Awaited(call[c])

ServiceInv ==
    /\ Lineage /\ OneMaker /\ Found /\ Listed /\ WrittenThere /\ Untaken /\ CurrentThere
    /\ NewestCurrent /\ RemovedNotNewest /\ ChildKnown /\ OnlyChild /\ SourceStaysReadable

IInv == TypeOK /\ CallsStaged /\ JournalInv /\ ServiceInv

-----------------------------------------------------------------------------
(* Helpers.                                                                *)

USE DEF Entering, Inside, Writing, Restoring, Deleting, Removing, Opening

LEMMA IdleIsCall ==
  /\ Idle \in Call /\ Idle.at = "idle" /\ Idle.task = "none" /\ Idle.rec = NoRecord
  /\ Idle.source = NoRecord /\ Untouched(Idle) /\ Idle.wanted = FALSE /\ Idle.owner \in Owners
  BY JournalAssumption DEF Idle, Call, Steps, Untouched

LEMMA ExistingIsSome ==
  ASSUME TypeOK, NEW r \in Existing
  PROVE  r # NoRecord
  <1>1. Len(made) \in Nat
    BY DEF TypeOK, JournalTypeOK
  <1> QED
    BY <1>1 DEF Existing, NoRecord

LEMMA MadeOwners ==
  ASSUME TypeOK, NEW r \in Existing
  PROVE  made[r] \in Made /\ made[r].owner \in Owners /\ made[r].digest \in Digests
  <1>1. made \in Seq(Made)
    BY DEF TypeOK, JournalTypeOK
  <1>2. made[r] \in Made
    BY <1>1 DEF Existing
  <1> QED
    BY <1>2 DEF Made

(* The content a call works on.                                            *)
LEMMA BusyDigest ==
  ASSUME TypeOK, CallsStaged, NEW c \in Calls, Busy(call[c])
  PROVE  /\ call[c] \in Call /\ call[c].task # "none"
         /\ call[c].rec \in Existing /\ call[c].rec \in Records
         /\ digestOf(c) \in Digests /\ digestOf(c) = made[call[c].rec].digest
         /\ made[call[c].rec].owner = call[c].owner
  <1>1. call[c] \in Call /\ Staged(call[c]) /\ made \in Seq(Made) /\ Len(made) \in Nat
    BY DEF TypeOK, JournalTypeOK, CallsStaged
  <1>2. call[c].task # "none"
    BY <1>1, IdleIsCall DEF Staged, Busy
  <1>3. call[c].rec \in Existing /\ made[call[c].rec].owner = call[c].owner
    BY <1>1, <1>2 DEF Staged, Busy, CleansUp, Produces, Producing, Call
  <1>4. made[call[c].rec] \in Made
    BY <1>1, <1>3 DEF Existing
  <1>5. Len(made) <= MaxRecords
    BY DEF TypeOK, JournalTypeOK
  <1> QED
    BY <1>1, <1>2, <1>3, <1>4, <1>5, JournalAssumption DEF digestOf, Made, Records, Existing

-----------------------------------------------------------------------------
(* A step of put, remove or restore: call c, at the head of the lock of    *)
(* its content, becomes k.                                                 *)

SameTask(k, j) ==
    /\ k.task = j.task /\ k.owner = j.owner /\ k.rec = j.rec
    /\ k.source = j.source /\ k.wanted = j.wanted

(* It stays inside the lock, or leaves it with its record written or done. *)
Stays(c, k) ==
    /\ k.at \in Inside /\ SameTask(k, call[c])
    /\ k.at \in Writing <=> call[c].at \in Writing
    /\ UNCHANGED locks

Leaves(c, k) ==
    /\ \/ k = Idle
       \/ /\ call[c].at = "writing record" /\ k = [call[c] EXCEPT !.at = "written"]
          /\ call[c].rec \in records'
    /\ locks' = [locks EXCEPT ![digestOf(c)] = Tail(@)]

(* The files of its content only, and of its record.                       *)
FilesOf(d) ==
    /\ objects' \in {objects, objects \cup {d}, objects \ {d}}
    /\ metadata' \in {metadata, metadata \cup {d}, metadata \ {d}}
    /\ lost' \in {lost, lost \cup {d}}

RecordOf(c, k) ==
    LET r == call[c].rec IN
    \/ records' = records /\ (k.recordRemoved => call[c].recordRemoved)
    \/ /\ records' = records \cup {r} /\ (k.recordRemoved => call[c].recordRemoved)
       /\ call[c].at = "writing record" \/ call[c].recordRemoved
    \/ /\ records' = records \ {r} /\ call[c].at = "unlinking record" /\ canRemove(c)
       /\ k.recordRemoved <=> r \in records
       /\ k.at \in Inside

Works(c, k) ==
    /\ k \in Call /\ call' = [call EXCEPT ![c] = k]
    /\ Busy(call[c]) /\ holds(c)
    /\ Stays(c, k) \/ Leaves(c, k)
    /\ k.at \notin Deleting \cup Restoring => Untouched(k)
    /\ FilesOf(digestOf(c)) /\ RecordOf(c, k)
    /\ UNCHANGED made /\ mishaps' \in 0 .. MaxMishaps + 1

(* What it leaves behind on disk.                                          *)
Tidy(k, d) == Sound(k, d)' /\ (Named(d)' => Readable(d)')

(* The facts a step starts from.                                           *)
Starting(c, d) ==
    /\ call \in [Calls -> Call] /\ call[c] \in Call
    /\ d = digestOf(c) /\ d \in Digests
    /\ call[c].task # "none" /\ made[call[c].rec].digest = d
    /\ call[c].at \in Inside => holds(c)
    /\ call[c].at \notin Deleting \cup Restoring => Untouched(call[c])
    /\ Sound(call[c], d)
    /\ Named(d) => Readable(d)
    /\ mishaps \in 0 .. MaxMishaps + 1

LEMMA StartingFacts ==
  ASSUME TypeOK, CallsStaged, JournalInv, NEW c \in Calls, Busy(call[c])
  PROVE  Starting(c, digestOf(c))
  <1>1. /\ call[c] \in Call /\ call[c].task # "none"
        /\ digestOf(c) \in Digests /\ digestOf(c) = made[call[c].rec].digest
    BY BusyDigest
  <1>2. call[c].at \in Inside => holds(c)
    BY DEF JournalInv, LockDiscipline
  <1>3. call[c].at \notin Deleting \cup Restoring => Untouched(call[c])
    BY DEF CallsStaged, Staged
  <1>4. Sound(call[c], digestOf(c))
    BY DEF JournalInv, ContentKnown
  <1>5. Named(digestOf(c)) => Readable(digestOf(c))
    BY DEF JournalInv, RecordsReadable, Named, Readable
  <1>6. call \in [Calls -> Call] /\ mishaps \in 0 .. MaxMishaps + 1
    BY DEF TypeOK, JournalTypeOK
  <1> QED
    BY <1>1, <1>2, <1>3, <1>4, <1>5, <1>6 DEF Starting

LEMMA IoMishaps ==
  ASSUME NEW ok \in BOOLEAN, io(ok), mishaps \in 0 .. MaxMishaps + 1
  PROVE  mishaps' \in 0 .. MaxMishaps + 1
  BY JournalAssumption DEF io, mishap

LEMMA IoAgainMishaps ==
  ASSUME NEW ok \in BOOLEAN, ioAgain(ok), mishaps \in 0 .. MaxMishaps + 1
  PROVE  mishaps' \in 0 .. MaxMishaps + 1
  BY JournalAssumption DEF ioAgain, mishapAgain

(* A put that leaves its files as they are, or has written one of them.    *)
LEMMA PutEnds ==
  ASSUME NEW c \in Calls, NEW d, Starting(c, d), Busy(call[c]), holds(c),
         call[c].at \in Writing, putFails(c),
         UNCHANGED <<made, lost>>, mishaps' \in 0 .. MaxMishaps + 1,
         objects' \in {objects, objects \cup {d}},
         metadata' \in {metadata, metadata \cup {d}},
         records' = records \/ (/\ records' = records \cup {call[c].rec}
                                /\ call[c].at = "writing record")
  PROVE  \E k : Works(c, k) /\ Tidy(k, d)
  <1>1. Works(c, Idle)
    BY IdleIsCall DEF putFails, release, end, Starting, Works, Leaves, FilesOf, RecordOf, Untouched
  <1>2. PICK k : k = Idle
    OBVIOUS
  <1>3. Tidy(k, d)
    BY <1>2, IdleIsCall DEF Starting, Tidy, Sound, Named, Readable, Untouched
  <1> QED
    BY <1>1, <1>2, <1>3

LEMMA PutGoesOn ==
  ASSUME NEW c \in Calls, NEW d, Starting(c, d), Busy(call[c]), holds(c),
         call[c].at \in {"checking", "writing object", "writing metadata"},
         NEW at \in {"writing object", "writing metadata", "writing record"}, goTo(c, at),
         UNCHANGED <<made, lost, locks, records>>, mishaps' \in 0 .. MaxMishaps + 1,
         objects' \in {objects, objects \cup {d}},
         metadata' \in {metadata, metadata \cup {d}},
         at = "writing metadata" => d \in objects',
         at = "writing record" => Readable(d)'
  PROVE  \E k : Works(c, k) /\ Tidy(k, d)
  <1>0. PICK k : k = [call[c] EXCEPT !.at = at]
    OBVIOUS
  <1>1. k \in Call /\ k.at = at /\ SameTask(k, call[c]) /\ Untouched(k)
    <2>1. call[c] \in Call /\ Untouched(call[c])
      BY DEF Starting
    <2> QED
      BY <1>0, <2>1 DEF Call, Steps, SameTask, Untouched
  <1>2. call' = [call EXCEPT ![c] = k]
    BY <1>0 DEF goTo, Starting
  <1>3. Works(c, k)
    BY <1>1, <1>2 DEF Starting, Works, Stays, FilesOf, RecordOf, Untouched
  <1>5. Named(d)' => Readable(d)'
    BY DEF Starting, Named, Readable
  <1>6. Sound(k, d)'
    BY <1>1 DEF Sound, Untouched
  <1> QED
    BY <1>3, <1>5, <1>6 DEF Tidy

LEMMA PutSteps ==
  ASSUME NEW c \in Calls, NEW d, Starting(c, d), Busy(call[c]), put(c)
  PROVE  \E k : Works(c, k) /\ Tidy(k, d)
  <1>1. CASE putChecks(c)
    <2>1. CASE d \in objects /\ d \in metadata /\ goTo(c, "writing record") /\ UNCHANGED <<locks, mishaps>>
      BY <1>1, <2>1, PutGoesOn DEF putChecks, Starting, Readable
    <2>2. CASE d \in objects /\ d \notin metadata /\ putFails(c) /\ UNCHANGED mishaps
      BY <1>1, <2>2, PutEnds DEF putChecks, Starting
    <2>3. CASE d \notin objects /\ goTo(c, "writing object") /\ UNCHANGED <<locks, mishaps>>
      BY <1>1, <2>3, PutGoesOn DEF putChecks, Starting
    <2>4. CASE mishap /\ putFails(c)
      <3>1. mishaps' \in 0 .. MaxMishaps + 1
        <4>1. mishaps \in 0 .. MaxMishaps + 1 /\ mishaps < MaxMishaps /\ mishaps' = mishaps + 1
          BY <2>4 DEF mishap, Starting
        <4> QED
          BY <4>1, JournalAssumption
      <3> QED
        BY <1>1, <2>4, <3>1, PutEnds DEF putChecks, Starting
    <2> QED
      BY <1>1, <2>1, <2>2, <2>3, <2>4 DEF putChecks, Starting
  <1>2. CASE putObject(c)
    <2>1. PICK ok \in BOOLEAN :
             /\ io(ok) /\ objects' \in Written(objects, digestOf(c), ok)
             /\ IF ok THEN goTo(c, "writing metadata") /\ UNCHANGED locks ELSE putFails(c)
      BY <1>2 DEF putObject
    <2>2. mishaps' \in 0 .. MaxMishaps + 1
      BY <2>1, IoMishaps DEF Starting
    <2>3. CASE ok
      BY <1>2, <2>1, <2>2, <2>3, PutGoesOn DEF putObject, Written, Starting
    <2>4. CASE ~ok
      BY <1>2, <2>1, <2>2, <2>4, PutEnds DEF putObject, Written, Starting
    <2> QED
      BY <2>3, <2>4
  <1>3. CASE putMetadata(c)
    <2>1. PICK ok \in BOOLEAN :
             /\ io(ok) /\ metadata' \in Written(metadata, digestOf(c), ok)
             /\ IF ok THEN goTo(c, "writing record") /\ UNCHANGED locks ELSE putFails(c)
      BY <1>3 DEF putMetadata
    <2>2. mishaps' \in 0 .. MaxMishaps + 1
      BY <2>1, IoMishaps DEF Starting
    <2>3. CASE ok
      <3>1. Readable(d)'
        BY <1>3, <2>1, <2>3 DEF putMetadata, Written, Starting, Sound, Readable
      <3> QED
        BY <1>3, <2>1, <2>2, <2>3, <3>1, PutGoesOn DEF putMetadata, Written, Starting
    <2>4. CASE ~ok
      BY <1>3, <2>1, <2>2, <2>4, PutEnds DEF putMetadata, Written, Starting
    <2> QED
      BY <2>3, <2>4
  <1>4. CASE putRecord(c)
    <2>1. PICK ok \in BOOLEAN :
             /\ io(ok) /\ records' \in Written(records, call[c].rec, ok)
             /\ IF ok THEN goTo(c, "written") /\ release(c, FALSE) ELSE putFails(c)
      BY <1>4 DEF putRecord
    <2>2. mishaps' \in 0 .. MaxMishaps + 1
      BY <2>1, IoMishaps DEF Starting
    <2>3. CASE ok
      <3>0. PICK k : k = [call[c] EXCEPT !.at = "written"]
        OBVIOUS
      <3>1. /\ k \in Call /\ k.at = "written" /\ k.rec = call[c].rec
            /\ k.recordRemoved = FALSE /\ Untouched(k)
        BY <1>4, <3>0 DEF putRecord, Starting, Untouched, Call, Steps
      <3>2. call' = [call EXCEPT ![c] = k] /\ locks' = [locks EXCEPT ![d] = Tail(@)]
        BY <2>1, <2>3, <3>0 DEF goTo, Starting, release
      <3>3. Works(c, k)
        <4>1. Leaves(c, k)
          BY <1>4, <2>1, <2>3, <3>0, <3>2 DEF putRecord, Leaves, Written, Starting
        <4> QED
          BY <1>4, <2>1, <2>2, <2>3, <3>1, <3>2, <4>1 DEF putRecord, Written, Starting, Works, FilesOf, RecordOf
      <3>4. Readable(d)'
        BY <1>4 DEF putRecord, Starting, Sound, Readable
      <3>5. Sound(k, d)'
        BY <3>1 DEF Sound, Untouched
      <3> QED
        BY <3>3, <3>4, <3>5 DEF Tidy
    <2>4. CASE ~ok
      BY <1>4, <2>1, <2>2, <2>4, PutEnds DEF putRecord, Written, Starting
    <2> QED
      BY <2>3, <2>4
  <1> QED
    BY <1>1, <1>2, <1>3, <1>4 DEF put

(* A step of remove or of a restoration that stays inside the lock.        *)
LEMMA RemoveStays ==
  ASSUME NEW c \in Calls, NEW d, Starting(c, d), Busy(call[c]), holds(c),
         call[c].at \in Removing,
         NEW k \in Call, call' = [call EXCEPT ![c] = k], SameTask(k, call[c]),
         k.at \in Deleting \cup Restoring,
         UNCHANGED <<made, locks>>, mishaps' \in 0 .. MaxMishaps + 1,
         FilesOf(d), RecordOf(c, k), Tidy(k, d)
  PROVE  \E q : Works(c, q) /\ Tidy(q, d)
  BY DEF Works, Stays, Starting

(* One that leaves the lock.                                               *)
LEMMA RemoveEnds ==
  ASSUME NEW c \in Calls, NEW d, Starting(c, d), Busy(call[c]), holds(c),
         call[c].at \in Removing,
         end(c), NEW thrown, release(c, thrown),
         UNCHANGED made, mishaps' \in 0 .. MaxMishaps + 1,
         FilesOf(d), RecordOf(c, Idle), Named(d)' => Readable(d)'
  PROVE  \E q : Works(c, q) /\ Tidy(q, d)
  <1>1. Works(c, Idle)
    BY IdleIsCall DEF release, end, Starting, Works, Leaves
  <1>2. PICK k : k = Idle
    OBVIOUS
  <1>3. Tidy(k, d)
    BY <1>2, IdleIsCall DEF Tidy, Sound, Untouched
  <1> QED
    BY <1>1, <1>2, <1>3

(* What was deleted is to be put back.                                     *)
LEMMA Undoes ==
  ASSUME NEW c \in Calls, NEW d, Starting(c, d), Busy(call[c]), holds(c),
         call[c].at \in Removing, NEW thrown \in BOOLEAN, undo(c, thrown),
         UNCHANGED <<made, records, objects, metadata, lost>>, mishaps' \in 0 .. MaxMishaps + 1
  PROVE  \E q : Works(c, q) /\ Tidy(q, d)
  <1>1. PICK k : k = [call[c] EXCEPT !.at = "restoring object",
                                     !.caught = thrown \/ call[c].caught]
    OBVIOUS
  <1>2. call[c] \in Call
    BY DEF Starting
  <1>3. /\ k \in Call /\ SameTask(k, call[c]) /\ k.at = "restoring object"
        /\ k.recordRemoved = call[c].recordRemoved /\ k.objectRemoved = call[c].objectRemoved
        /\ k.metadataRemoved = call[c].metadataRemoved
    BY <1>1, <1>2 DEF Call, Steps, SameTask
  <1>4. call' = [call EXCEPT ![c] = k]
    BY <1>1 DEF undo, Starting
  <1>5. Sound(k, d)'
    BY <1>3 DEF Starting, Sound
  <1>6. Tidy(k, d)
    BY <1>5 DEF Starting, Tidy, Named, Readable
  <1>7. FilesOf(d) /\ RecordOf(c, k)
    BY <1>3 DEF FilesOf, RecordOf
  <1> QED
    BY <1>3, <1>4, <1>6, <1>7, RemoveStays DEF undo

LEMMA RemoveRecordStep ==
  ASSUME NEW c \in Calls, NEW d, Starting(c, d), Busy(call[c]), removeRecord(c, canRemove(c))
  PROVE  \E q : Works(c, q) /\ Tidy(q, d)
  <1>1. /\ call[c].at = "unlinking record" /\ holds(c) /\ call[c] \in Call
        /\ UNCHANGED <<made, objects, metadata, lost>>
        /\ Untouched(call[c])
    BY DEF removeRecord, Starting
  <1>2. CASE ~canRemove(c)
    <2>1. kept(c) /\ UNCHANGED <<records, mishaps>>
      BY <1>2 DEF removeRecord
    <2>2. FilesOf(d) /\ RecordOf(c, Idle) /\ (Named(d)' => Readable(d)') /\ mishaps' \in 0 .. MaxMishaps + 1
      BY <1>1, <2>1, IdleIsCall DEF FilesOf, RecordOf, Named, Readable, Starting, Untouched
    <2> QED
      BY <1>1, <2>1, <2>2, RemoveEnds DEF kept
  <1>3. CASE canRemove(c)
    <2>1. PICK ok \in BOOLEAN :
            /\ io(ok)
            /\ records' = IF ok THEN records \ {call[c].rec} ELSE records
            /\ IF ok
               THEN /\ call' = [call EXCEPT ![c].at = "syncing record",
                                            ![c].recordRemoved = call[c].rec \in records]
                    /\ UNCHANGED locks
               ELSE undo(c, TRUE)
      BY <1>3 DEF removeRecord
    <2>2. mishaps' \in 0 .. MaxMishaps + 1
      BY <2>1, IoMishaps DEF Starting
    <2>3. CASE ok
      <3>0. PICK there \in BOOLEAN : there <=> call[c].rec \in records
        OBVIOUS
      <3>1. PICK k : k = [call[c] EXCEPT !.at = "syncing record", !.recordRemoved = there]
        OBVIOUS
      <3>2. /\ k \in Call /\ SameTask(k, call[c]) /\ k.at = "syncing record"
            /\ k.recordRemoved <=> call[c].rec \in records
        BY <1>1, <3>0, <3>1 DEF Call, Steps, SameTask
      <3>3. call' = [call EXCEPT ![c] = k]
        BY <2>1, <2>3, <3>0, <3>1 DEF Starting
      <3>4. call[c].rec \in records => Readable(d)
        BY DEF Starting, Named
      <3>5. Tidy(k, d)
        BY <1>1, <2>1, <2>3, <3>2, <3>4 DEF Tidy, Sound, Readable, Named, Starting
      <3>6. FilesOf(d) /\ RecordOf(c, k)
        BY <1>1, <1>3, <2>1, <2>3, <3>2 DEF FilesOf, RecordOf
      <3> QED
        BY <1>1, <2>1, <2>2, <2>3, <3>2, <3>3, <3>5, <3>6, RemoveStays
    <2>4. CASE ~ok
      BY <1>1, <2>1, <2>2, <2>4, Undoes
    <2> QED
      BY <2>3, <2>4
  <1> QED
    BY <1>2, <1>3

LEMMA RemoveWaitsStep ==
  ASSUME NEW c \in Calls, NEW d, Starting(c, d), Busy(call[c]), removeWaits(c, canRemove(c))
  PROVE  \E q : Works(c, q) /\ Tidy(q, d)
  <1>1. UNCHANGED <<made, records, objects, metadata, lost>> /\ call[c] \in Call
    BY DEF removeWaits, Starting
  <1>2. FilesOf(d) /\ (Named(d)' => Readable(d)')
    BY <1>1 DEF FilesOf, Named, Readable, Starting
  <1>3. CASE removeReads(c)
    <2> DEFINE next == CASE call[c].at = "syncing record" -> "scanning"
                  [] call[c].at = "scanning" ->
                        IF referenced(c) THEN "confirming" ELSE "reading content"
                  [] call[c].at = "reading content" ->
                        IF digestOf(c) \in objects \cap metadata THEN "rescanning" ELSE "answering"
                  [] call[c].at = "rescanning" ->
                        IF referenced(c) THEN "answering" ELSE "unlinking object"
                  [] OTHER -> "confirming"
    <2>1. /\ call[c].at \in {"syncing record", "scanning", "reading content", "rescanning",
                             "syncing object"}
          /\ \E ok \in BOOLEAN :
                io(ok) /\ IF ok THEN goOn(c, next) ELSE undo(c, TRUE)
      BY <1>3 DEF removeReads
    <2>2. PICK ok \in BOOLEAN : io(ok) /\ IF ok THEN goOn(c, next) ELSE undo(c, TRUE)
      BY <2>1
    <2>3. mishaps' \in 0 .. MaxMishaps + 1
      BY <2>2, IoMishaps DEF Starting
    <2>4. holds(c)
      BY <2>1 DEF Starting
    <2>5. CASE ok
      <3>1. PICK k : k = [call[c] EXCEPT !.at = next]
        OBVIOUS
      <3>2. next \in {"scanning", "confirming", "reading content", "rescanning", "answering",
                      "unlinking object"}
        BY <2>1
      <3>3. next = "unlinking object" => ~Named(d)
        BY <2>1 DEF referenced, Named, Starting
      <3> HIDE DEF next
      <3>4. /\ k \in Call /\ k.at = next /\ SameTask(k, call[c])
            /\ k.recordRemoved = call[c].recordRemoved
            /\ k.objectRemoved = call[c].objectRemoved
            /\ k.metadataRemoved = call[c].metadataRemoved
        BY <1>1, <3>1, <3>2 DEF Call, Steps, SameTask
      <3>5. call' = [call EXCEPT ![c] = k] /\ UNCHANGED locks
        BY <2>2, <2>5, <3>1 DEF Starting, goOn, goTo
      <3>6. Tidy(k, d)
        <4>1. PICK at : at = next
          OBVIOUS
        <4>2. Sound(k, d)'
          BY <1>1, <2>1, <3>2, <3>3, <3>4, <4>1 DEF Sound, Starting, Named
        <4> QED
          BY <1>2, <4>2 DEF Tidy
      <3>7. RecordOf(c, k)
        BY <1>1, <3>4 DEF RecordOf
      <3> QED
        BY <1>1, <1>2, <2>1, <2>3, <2>4, <3>2, <3>4, <3>5, <3>6, <3>7, RemoveStays
    <2>6. CASE ~ok
      BY <1>1, <2>1, <2>2, <2>3, <2>4, <2>6, Undoes
    <2> QED
      BY <2>5, <2>6
  <1>4. CASE vetoed(c)
    <2>1. /\ call[c].at \in Removing /\ holds(c) /\ mishaps' \in 0 .. MaxMishaps + 1
          /\ (~call[c].wanted) \in BOOLEAN /\ undo(c, ~call[c].wanted)
      BY <1>4 DEF vetoed, Starting
    <2> QED
      BY <1>1, <2>1, Undoes
  <1>5. CASE removeAnswers(c, canRemove(c))
    <2>1. /\ call[c].at \in Removing /\ holds(c) /\ mishaps' \in 0 .. MaxMishaps + 1
          /\ release(c, FALSE) /\ end(c)
      BY <1>5 DEF removeAnswers, removed, Starting
    <2>2. RecordOf(c, Idle)
      BY <1>1, IdleIsCall DEF RecordOf, Untouched
    <2> QED
      BY <1>1, <1>2, <2>1, <2>2, RemoveEnds
  <1> QED
    BY <1>3, <1>4, <1>5 DEF removeWaits

(* A count that overlooks the references of the content.                   *)
LEMMA RemoveOverlooksStep ==
  ASSUME NEW c \in Calls, NEW d, Starting(c, d), Busy(call[c]), removeOverlooks(c, canRemove(c))
  PROVE  \E q : Works(c, q) /\ Tidy(q, d)
  <1>1. /\ call[c].at \in {"scanning", "rescanning"} /\ call[c] \in Call /\ holds(c)
        /\ UNCHANGED <<made, records, objects, metadata, locks>>
    BY DEF removeOverlooks, Starting, goOn
  <1>8. mishaps' \in 0 .. MaxMishaps + 1
    <2>1. mishaps \in 0 .. MaxMishaps + 1 /\ mishaps <= MaxMishaps /\ mishaps' = mishaps + 1
      BY DEF removeOverlooks, mishapAgain, Starting
    <2> QED
      BY <2>1, JournalAssumption
  <1>2. PICK at : /\ at = IF call[c].at = "scanning" THEN "reading content" ELSE "unlinking object"
                  /\ goTo(c, at)
                  /\ lost' = IF call[c].at = "scanning" THEN lost ELSE lost \cup {d}
    BY DEF removeOverlooks, Starting, goOn
  <1>3. PICK k : k = [call[c] EXCEPT !.at = at]
    OBVIOUS
  <1>4. /\ k \in Call /\ k.at = at /\ SameTask(k, call[c])
        /\ k.recordRemoved = call[c].recordRemoved
        /\ k.objectRemoved = call[c].objectRemoved
        /\ k.metadataRemoved = call[c].metadataRemoved
    BY <1>1, <1>2, <1>3 DEF Call, Steps, SameTask
  <1>5. call' = [call EXCEPT ![c] = k]
    BY <1>2, <1>3 DEF goTo, Starting
  <1>6. FilesOf(d) /\ RecordOf(c, k)
    BY <1>1, <1>2, <1>4 DEF FilesOf, RecordOf
  <1>7. Tidy(k, d)
    <2>1. Named(d)' => Readable(d)'
      BY <1>1, <1>2 DEF Starting, Named, Readable
    <2>2. Sound(k, d)'
      BY <1>1, <1>2, <1>4 DEF Sound, Starting
    <2> QED
      BY <2>1, <2>2 DEF Tidy
  <1> QED
    BY <1>1, <1>2, <1>4, <1>5, <1>6, <1>7, <1>8, RemoveStays

LEMMA RemoveFileSteps ==
  ASSUME NEW c \in Calls, NEW d, Starting(c, d), Busy(call[c]),
         removeObject(c, canRemove(c)) \/ removeMetadata(c)
  PROVE  \E q : Works(c, q) /\ Tidy(q, d)
  <1>1. /\ call[c].at \in {"unlinking object", "unlinking metadata"}
        /\ UNCHANGED <<made, records, lost>>
    BY DEF removeObject, removeMetadata
  <1>2. holds(c) /\ call[c] \in Call /\ (Named(d) => d \in lost)
    BY <1>1 DEF Starting, Sound
  <1>3. (Named(d)' => d \in lost') /\ (Named(d)' => Readable(d)')
    BY <1>1, <1>2 DEF Named, Readable
  <1>4. CASE removeObject(c, canRemove(c))
    <2>1. PICK ok \in BOOLEAN :
            /\ io(ok)
            /\ objects' = IF ok THEN objects \ {digestOf(c)} ELSE objects
            /\ IF ok
               THEN /\ call' = [call EXCEPT ![c].at = "unlinking metadata",
                                            ![c].objectRemoved = TRUE]
                    /\ UNCHANGED locks
               ELSE undo(c, TRUE)
      BY <1>4 DEF removeObject
    <2>2. mishaps' \in 0 .. MaxMishaps + 1 /\ metadata' = metadata /\ call[c].at = "unlinking object"
      BY <1>4, <2>1, IoMishaps DEF Starting, removeObject
    <2>3. CASE ok
      <3>1. PICK k : k = [call[c] EXCEPT !.at = "unlinking metadata", !.objectRemoved = TRUE]
        OBVIOUS
      <3>2. /\ k \in Call /\ SameTask(k, call[c]) /\ k.at = "unlinking metadata"
            /\ k.recordRemoved = call[c].recordRemoved /\ k.objectRemoved
            /\ k.metadataRemoved = call[c].metadataRemoved
        BY <1>2, <3>1 DEF Call, Steps, SameTask
      <3>3. call' = [call EXCEPT ![c] = k]
        BY <2>1, <2>3, <3>1 DEF Starting
      <3>4. Tidy(k, d)
        BY <1>1, <1>3, <2>2, <3>2 DEF Tidy, Sound, Starting
      <3>5. FilesOf(d) /\ RecordOf(c, k)
        BY <1>1, <2>1, <2>2, <2>3, <3>2 DEF FilesOf, RecordOf, Starting
      <3> QED
        BY <1>1, <1>2, <2>1, <2>2, <2>3, <3>2, <3>3, <3>4, <3>5, RemoveStays
    <2>4. CASE ~ok
      BY <1>1, <1>2, <2>1, <2>2, <2>4, Undoes
    <2> QED
      BY <2>3, <2>4
  <1>5. CASE removeMetadata(c)
    <2>1. PICK ok \in BOOLEAN :
            /\ io(ok)
            /\ metadata' = IF ok THEN metadata \ {digestOf(c)} ELSE metadata
            /\ IF ok
               THEN /\ call' = [call EXCEPT ![c].at = "syncing object",
                                            ![c].metadataRemoved = TRUE]
                    /\ UNCHANGED locks
               ELSE undo(c, TRUE)
      BY <1>5 DEF removeMetadata
    <2>2. mishaps' \in 0 .. MaxMishaps + 1 /\ objects' = objects
      BY <1>5, <2>1, IoMishaps DEF Starting, removeMetadata
    <2>3. CASE ok
      <3>1. PICK k : k = [call[c] EXCEPT !.at = "syncing object", !.metadataRemoved = TRUE]
        OBVIOUS
      <3>2. /\ k \in Call /\ SameTask(k, call[c]) /\ k.at = "syncing object"
            /\ k.recordRemoved = call[c].recordRemoved
            /\ k.objectRemoved = call[c].objectRemoved /\ k.metadataRemoved
        BY <1>2, <3>1 DEF Call, Steps, SameTask
      <3>3. call' = [call EXCEPT ![c] = k]
        BY <2>1, <2>3, <3>1 DEF Starting
      <3>4. Tidy(k, d)
        BY <1>1, <1>3, <2>2, <3>2 DEF Tidy, Sound, Starting
      <3>5. FilesOf(d) /\ RecordOf(c, k)
        BY <1>1, <2>1, <2>2, <2>3, <3>2 DEF FilesOf, RecordOf, Starting
      <3> QED
        BY <1>1, <1>2, <2>1, <2>2, <2>3, <3>2, <3>3, <3>4, <3>5, RemoveStays
    <2>4. CASE ~ok
      BY <1>1, <1>2, <2>1, <2>2, <2>4, Undoes
    <2> QED
      BY <2>3, <2>4
  <1> QED
    BY <1>4, <1>5

(* A step of a restoration goes on to the next file, or starts again.      *)
LEMMA RestoreGoesOn ==
  ASSUME NEW c \in Calls, NEW d, Starting(c, d), Busy(call[c]),
         call[c].at \in Restoring, NEW at \in Restoring, NEW k \in Call,
         call' = [call EXCEPT ![c] = k], k.at = at, SameTask(k, call[c]),
         k.recordRemoved = call[c].recordRemoved,
         UNCHANGED <<made, records, locks>>, mishaps' \in 0 .. MaxMishaps + 1,
         objects' \in {objects, objects \cup {d}}, metadata' \in {metadata, metadata \cup {d}},
         lost' \in {lost, lost \cup {d}},
         k.recordRemoved =>
            d \in lost' \/
              /\ k.objectRemoved \/ d \in objects'
              /\ k.metadataRemoved \/ d \in metadata'
              /\ at = "restoring metadata" => d \in objects'
              /\ at = "restoring record" => d \in objects' \cap metadata'
  PROVE  \E q : Works(c, q) /\ Tidy(q, d)
  <1>1. holds(c)
    BY DEF Starting
  <1>2. FilesOf(d) /\ RecordOf(c, k)
    BY DEF FilesOf, RecordOf
  <1>3. Sound(k, d)'
    BY DEF Sound, Readable
  <1>4. Named(d)' => Readable(d)'
    BY DEF Starting, Named, Readable
  <1> QED
    BY <1>1, <1>2, <1>3, <1>4, RemoveStays DEF Tidy

LEMMA RestoreObjectStep ==
  ASSUME NEW c \in Calls, NEW d, Starting(c, d), Busy(call[c]), restoreObject(c)
  PROVE  \E q : Works(c, q) /\ Tidy(q, d)
  <1>1. /\ call[c].at = "restoring object" /\ call[c] \in Call
        /\ UNCHANGED <<made, records, metadata, locks>>
        /\ call[c].recordRemoved =>
             d \in lost \/ ((call[c].objectRemoved \/ d \in objects)
                              /\ (call[c].metadataRemoved \/ d \in metadata))
    BY DEF restoreObject, Starting, Sound
  <1>2. CASE ~call[c].objectRemoved
    <2>1. goTo(c, "restoring metadata") /\ UNCHANGED <<objects, lost, mishaps>>
      BY <1>2 DEF restoreObject
    <2>2. PICK k : k = [call[c] EXCEPT !.at = "restoring metadata"]
      OBVIOUS
    <2>3. /\ k \in Call /\ SameTask(k, call[c]) /\ k.at = "restoring metadata"
          /\ k.recordRemoved = call[c].recordRemoved
          /\ ~k.objectRemoved /\ k.metadataRemoved = call[c].metadataRemoved
      BY <1>1, <1>2, <2>2 DEF Call, Steps, SameTask
    <2>4. call' = [call EXCEPT ![c] = k] /\ mishaps' \in 0 .. MaxMishaps + 1
      BY <2>1, <2>2 DEF goTo, Starting
    <2> QED
      BY <1>1, <1>2, <2>1, <2>3, <2>4, RestoreGoesOn
  <1>3. CASE call[c].objectRemoved
    <2>1. PICK ok \in BOOLEAN :
            /\ ioAgain(ok)
            /\ objects' \in Written(objects, digestOf(c), ok)
            /\ giveUp(c, ~ok /\ call[c].caught)
            /\ CASE ok -> goTo(c, "restoring metadata")
                 [] ~ok /\ ~call[c].caught -> call' = [call EXCEPT ![c].caught = TRUE]
                 [] OTHER -> goTo(c, "restoring record")
      BY <1>3 DEF restoreObject
    <2>2. /\ mishaps' \in 0 .. MaxMishaps + 1
          /\ objects' \in {objects, objects \cup {d}} /\ (ok => d \in objects')
      BY <2>1, IoAgainMishaps DEF Starting, Written
    <2>3. CASE ok
      <3>1. PICK k : k = [call[c] EXCEPT !.at = "restoring metadata"]
        OBVIOUS
      <3>2. /\ k \in Call /\ SameTask(k, call[c]) /\ k.at = "restoring metadata"
            /\ k.recordRemoved = call[c].recordRemoved
            /\ k.metadataRemoved = call[c].metadataRemoved
        BY <1>1, <3>1 DEF Call, Steps, SameTask
      <3>3. call' = [call EXCEPT ![c] = k] /\ lost' = lost
        BY <2>1, <2>3, <3>1 DEF goTo, Starting, giveUp
      <3> QED
        BY <1>1, <2>2, <2>3, <3>2, <3>3, RestoreGoesOn
    <2>4. CASE ~ok /\ ~call[c].caught
      <3>1. PICK k : k = [call[c] EXCEPT !.caught = TRUE]
        OBVIOUS
      <3>2. /\ k \in Call /\ SameTask(k, call[c]) /\ k.at = "restoring object"
            /\ k.recordRemoved = call[c].recordRemoved
            /\ k.objectRemoved /\ k.metadataRemoved = call[c].metadataRemoved
        BY <1>1, <1>3, <3>1 DEF Call, Steps, SameTask
      <3>3. call' = [call EXCEPT ![c] = k] /\ lost' = lost
        BY <2>1, <2>4, <3>1 DEF Starting, giveUp
      <3> QED
        BY <1>1, <2>2, <3>2, <3>3, RestoreGoesOn
    <2>5. CASE ~ok /\ call[c].caught
      <3>1. PICK k : k = [call[c] EXCEPT !.at = "restoring record"]
        OBVIOUS
      <3>2. /\ k \in Call /\ SameTask(k, call[c]) /\ k.at = "restoring record"
            /\ k.recordRemoved = call[c].recordRemoved
        BY <1>1, <3>1 DEF Call, Steps, SameTask
      <3>3. call' = [call EXCEPT ![c] = k] /\ lost' = lost \cup {d}
        BY <2>1, <2>5, <3>1 DEF Starting, giveUp, goTo
      <3> QED
        BY <1>1, <2>2, <3>2, <3>3, RestoreGoesOn
    <2> QED
      BY <2>3, <2>4, <2>5
  <1> QED
    BY <1>2, <1>3

LEMMA RestoreMetadataStep ==
  ASSUME NEW c \in Calls, NEW d, Starting(c, d), Busy(call[c]), restoreMetadata(c)
  PROVE  \E q : Works(c, q) /\ Tidy(q, d)
  <1>1. /\ call[c].at = "restoring metadata" /\ call[c] \in Call /\ holds(c)
        /\ UNCHANGED <<made, records, objects, locks>>
        /\ call[c].recordRemoved =>
             d \in lost \/ (d \in objects /\ (call[c].metadataRemoved \/ d \in metadata))
    BY DEF restoreMetadata, Starting, Sound
  <1>2. PICK r : r = [call[c] EXCEPT !.at = "restoring record",
                                     !.objectRemoved = FALSE, !.metadataRemoved = FALSE]
    OBVIOUS
  <1>3. /\ r \in Call /\ SameTask(r, call[c]) /\ r.at = "restoring record"
        /\ r.recordRemoved = call[c].recordRemoved
        /\ ~r.objectRemoved /\ ~r.metadataRemoved
    BY <1>1, <1>2 DEF Call, Steps, SameTask
  <1>4. CASE ~call[c].metadataRemoved
    <2>1. call' = [call EXCEPT ![c] = r] /\ UNCHANGED <<metadata, lost, mishaps>>
      BY <1>2, <1>4 DEF restoreMetadata, Starting
    <2>2. mishaps' \in 0 .. MaxMishaps + 1
      BY <2>1 DEF Starting
    <2> QED
      BY <1>1, <1>3, <1>4, <2>1, <2>2, RestoreGoesOn
  <1>5. CASE call[c].metadataRemoved
    <2>1. PICK ok \in BOOLEAN :
            /\ ioAgain(ok)
            /\ metadata' \in Written(metadata, digestOf(c), ok)
            /\ giveUp(c, ~ok /\ call[c].caught)
            /\ ok => call' = [call EXCEPT ![c] = r]
            /\ ~ok /\ ~call[c].caught => undo(c, TRUE)
            /\ ~ok /\ call[c].caught => goTo(c, "restoring record")
      BY <1>2, <1>5 DEF restoreMetadata, Starting
    <2>2. /\ mishaps' \in 0 .. MaxMishaps + 1
          /\ metadata' \in {metadata, metadata \cup {d}} /\ (ok => d \in metadata')
      BY <2>1, IoAgainMishaps DEF Starting, Written
    <2>3. CASE ok
      <3>1. lost' = lost
        BY <2>1, <2>3 DEF giveUp
      <3> QED
        BY <1>1, <1>3, <2>1, <2>2, <2>3, <3>1, RestoreGoesOn
    <2>4. CASE ~ok /\ ~call[c].caught
      <3>1. PICK k : k = [call[c] EXCEPT !.at = "restoring object", !.caught = TRUE]
        OBVIOUS
      <3>2. /\ k \in Call /\ SameTask(k, call[c]) /\ k.at = "restoring object"
            /\ k.recordRemoved = call[c].recordRemoved
            /\ k.metadataRemoved
        BY <1>1, <1>5, <3>1 DEF Call, Steps, SameTask
      <3>3. call' = [call EXCEPT ![c] = k] /\ lost' = lost
        BY <2>1, <2>4, <3>1 DEF Starting, giveUp, undo
      <3> QED
        BY <1>1, <2>2, <3>2, <3>3, RestoreGoesOn
    <2>5. CASE ~ok /\ call[c].caught
      <3>1. PICK k : k = [call[c] EXCEPT !.at = "restoring record"]
        OBVIOUS
      <3>2. /\ k \in Call /\ SameTask(k, call[c]) /\ k.at = "restoring record"
            /\ k.recordRemoved = call[c].recordRemoved
        BY <1>1, <3>1 DEF Call, Steps, SameTask
      <3>3. call' = [call EXCEPT ![c] = k] /\ lost' = lost \cup {d}
        BY <2>1, <2>5, <3>1 DEF Starting, giveUp, goTo
      <3> QED
        BY <1>1, <2>2, <3>2, <3>3, RestoreGoesOn
    <2> QED
      BY <2>3, <2>4, <2>5
  <1> QED
    BY <1>4, <1>5

LEMMA RestoreRecordStep ==
  ASSUME NEW c \in Calls, NEW d, Starting(c, d), Busy(call[c]), restoreRecord(c)
  PROVE  \E q : Works(c, q) /\ Tidy(q, d)
  <1>1. /\ call[c].at = "restoring record" /\ call[c] \in Call /\ holds(c)
        /\ UNCHANGED <<made, objects, metadata, lost>>
        /\ call[c].recordRemoved => Readable(d)
    BY DEF restoreRecord, Starting, Sound
  <1>2. FilesOf(d)
    BY <1>1 DEF FilesOf
  <1>3. CASE ~call[c].recordRemoved
    <2>1. kept(c) /\ UNCHANGED <<records, mishaps>>
      BY <1>3 DEF restoreRecord
    <2>2. /\ RecordOf(c, Idle) /\ mishaps' \in 0 .. MaxMishaps + 1
          /\ Named(d)' => Readable(d)'
      BY <1>1, <2>1, IdleIsCall DEF RecordOf, Starting, Named, Readable, Untouched
    <2> QED
      BY <1>1, <1>2, <2>1, <2>2, RemoveEnds DEF kept
  <1>4. CASE call[c].recordRemoved
    <2>1. PICK ok \in BOOLEAN :
            /\ ioAgain(ok)
            /\ records' \in Written(records, call[c].rec, ok)
            /\ IF ok \/ call[c].caught THEN kept(c) ELSE undo(c, TRUE)
      BY <1>4 DEF restoreRecord
    <2>2. /\ mishaps' \in 0 .. MaxMishaps + 1
          /\ records' \in {records, records \cup {call[c].rec}}
          /\ Readable(d)'
      BY <1>1, <1>4, <2>1, IoAgainMishaps DEF Starting, Written, Readable
    <2>3. CASE ok \/ call[c].caught
      <3>1. RecordOf(c, Idle)
        BY <1>4, <2>2, IdleIsCall DEF RecordOf, Untouched
      <3> QED
        BY <1>1, <1>2, <2>1, <2>2, <2>3, <3>1, RemoveEnds DEF kept
    <2>4. CASE ~(ok \/ call[c].caught)
      <3>1. PICK k : k = [call[c] EXCEPT !.at = "restoring object", !.caught = TRUE]
        OBVIOUS
      <3>2. /\ k \in Call /\ SameTask(k, call[c]) /\ k.at = "restoring object"
            /\ k.recordRemoved = call[c].recordRemoved
            /\ k.objectRemoved = call[c].objectRemoved
            /\ k.metadataRemoved = call[c].metadataRemoved
        BY <1>1, <3>1 DEF Call, Steps, SameTask
      <3>3. call' = [call EXCEPT ![c] = k] /\ UNCHANGED locks
        BY <2>1, <2>4, <3>1 DEF Starting, undo
      <3>4. Tidy(k, d)
        BY <1>1, <1>4, <2>2, <3>2 DEF Tidy, Sound, Readable
      <3>5. RecordOf(c, k)
        BY <1>4, <2>2, <3>2 DEF RecordOf
      <3> QED
        BY <1>1, <1>2, <2>2, <3>2, <3>3, <3>4, <3>5, RemoveStays
    <2> QED
      BY <2>3, <2>4
  <1> QED
    BY <1>3, <1>4

(* What put, remove and restore do comes down to Works and Tidy.           *)
LEMMA JournalSteps ==
  ASSUME TypeOK, CallsStaged, JournalInv, NEW c \in Calls,
         put(c) \/ remove(c, canRemove(c)) \/ restore(c)
  PROVE  \E d, k : d = digestOf(c) /\ Works(c, k) /\ Tidy(k, d)
  <1>1. Busy(call[c])
    <2>1. CASE put(c)
      BY <2>1 DEF put, putChecks, putObject, putMetadata, putRecord, Busy
    <2>2. CASE remove(c, canRemove(c))
      BY <2>2 DEF remove, removeRecord, removeWaits, removeReads, vetoed, removeAnswers,
                  removeOverlooks, removeObject, removeMetadata, Busy
    <2>3. CASE restore(c)
      BY <2>3 DEF restore, restoreObject, restoreMetadata, restoreRecord, Busy
    <2> QED
      BY <2>1, <2>2, <2>3
  <1>2. PICK d : d = digestOf(c)
    OBVIOUS
  <1>3. Starting(c, d)
    BY <1>1, <1>2, StartingFacts
  <1>4. CASE put(c)
    BY <1>1, <1>2, <1>3, <1>4, PutSteps
  <1>5. CASE remove(c, canRemove(c))
    BY <1>1, <1>2, <1>3, <1>5, RemoveRecordStep, RemoveWaitsStep, RemoveOverlooksStep,
       RemoveFileSteps DEF remove
  <1>6. CASE restore(c)
    BY <1>1, <1>2, <1>3, <1>6, RestoreObjectStep, RestoreMetadataStep, RestoreRecordStep DEF restore
  <1> QED
    BY <1>4, <1>5, <1>6

-----------------------------------------------------------------------------
(* The queue of a lock.                                                    *)

InQueue(q, e) == \E i \in 1 .. Len(q) : q[i] = e

Distinct(q) == \A i, j \in 1 .. Len(q) : q[i] = q[j] => i = j

LEMMA LeavesQueue ==
  ASSUME NEW q \in Seq(Calls), NEW c \in Calls, InQueue(q, c), Head(q) = c, Distinct(q)
  PROVE  /\ Tail(q) \in Seq(Calls) /\ Distinct(Tail(q)) /\ ~InQueue(Tail(q), c)
         /\ \A e \in Calls : e # c => (InQueue(Tail(q), e) <=> InQueue(q, e))
  <1>1. /\ Len(q) \in Nat /\ Len(q) > 0 /\ q[1] = c /\ q # <<>>
    BY DEF InQueue
  <1>2. /\ Tail(q) \in Seq(Calls) /\ Len(Tail(q)) = Len(q) - 1
        /\ \A i \in 1 .. Len(q) - 1 : Tail(q)[i] = q[i + 1]
    BY <1>1
  <1>3. Distinct(Tail(q))
    BY <1>1, <1>2 DEF Distinct
  <1>4. ~InQueue(Tail(q), c)
    BY <1>1, <1>2 DEF Distinct, InQueue
  <1>5. ASSUME NEW e \in Calls, e # c
        PROVE  InQueue(Tail(q), e) <=> InQueue(q, e)
    <2>1. InQueue(Tail(q), e) => InQueue(q, e)
      BY <1>1, <1>2 DEF InQueue
    <2>2. ASSUME InQueue(q, e) PROVE InQueue(Tail(q), e)
      <3>1. PICK i \in 1 .. Len(q) : q[i] = e
        BY <2>2 DEF InQueue
      <3>2. i # 1 /\ i - 1 \in 1 .. Len(q) - 1 /\ Tail(q)[i - 1] = e
        BY <1>1, <1>2, <1>5, <3>1
      <3> QED
        BY <1>2, <3>2 DEF InQueue
    <2> QED
      BY <2>1, <2>2
  <1> QED
    BY <1>2, <1>3, <1>4, <1>5

LEMMA JoinsQueue ==
  ASSUME NEW q \in Seq(Calls), NEW c \in Calls, ~InQueue(q, c), Distinct(q)
  PROVE  /\ Append(q, c) \in Seq(Calls) /\ Distinct(Append(q, c)) /\ InQueue(Append(q, c), c)
         /\ \A e \in Calls : e # c => (InQueue(Append(q, c), e) <=> InQueue(q, e))
         /\ q # <<>> => Head(Append(q, c)) = Head(q)
  <1>1. /\ Len(q) \in Nat /\ Append(q, c) \in Seq(Calls) /\ Len(Append(q, c)) = Len(q) + 1
        /\ \A i \in 1 .. Len(q) : Append(q, c)[i] = q[i]
        /\ Append(q, c)[Len(q) + 1] = c
    OBVIOUS
  <1>2. Distinct(Append(q, c))
    BY <1>1 DEF Distinct, InQueue
  <1>3. InQueue(Append(q, c), c)
    BY <1>1 DEF InQueue
  <1>4. ASSUME NEW e \in Calls, e # c
        PROVE  InQueue(Append(q, c), e) <=> InQueue(q, e)
    BY <1>1, <1>4 DEF InQueue
  <1>5. q # <<>> => Head(Append(q, c)) = Head(q)
    BY <1>1
  <1> QED
    BY <1>1, <1>2, <1>3, <1>4, <1>5

LEMMA EmptyQueue == \A e : ~InQueue(<<>>, e)
  BY DEF InQueue

(* The lock discipline in terms of queues.                                 *)
Locked(c) ==
    /\ \A d \in Digests : InQueue(locks[d], c) <=> Busy(call[c]) /\ digestOf(c) = d
    /\ call[c].at \in Inside => holds(c)

LEMMA Discipline ==
  /\ LockDiscipline <=> \A c \in Calls : Locked(c)
  /\ LockDiscipline' <=> \A c \in Calls : Locked(c)'
  /\ Queued <=> \A d \in Digests : Distinct(locks[d])
  /\ Queued' <=> \A d \in Digests : Distinct(locks[d])'
  BY DEF LockDiscipline, Locked, InQueue, Busy, Queued, Distinct

(* Only the first in the queue of a content is inside its lock.            *)
LEMMA Exclusive ==
  ASSUME JournalInv, NEW c \in Calls, holds(c), NEW e \in Calls, e # c,
         call[e].at \in Inside
  PROVE  digestOf(e) # digestOf(c)
  BY DEF JournalInv, LockDiscipline, holds

(* What a call knows of a content stays true while others are at work.     *)
LEMMA SoundElsewhere ==
  ASSUME NEW k, NEW d, NEW x, x # d, Sound(k, x), FilesOf(d),
         \A r \in records' : made'[r].digest = x => r \in records /\ made[r].digest = x
  PROVE  Sound(k, x)'
  <1>1. (x \in objects' <=> x \in objects) /\ (x \in metadata' <=> x \in metadata)
        /\ (x \in lost' <=> x \in lost)
    BY DEF FilesOf
  <1>2. ~Named(x) => ~Named(x)'
    BY DEF Named
  <1> QED
    BY <1>1, <1>2 DEF Sound, Readable

LEMMA SoundUntouched ==
  ASSUME NEW k, NEW x, Untouched(k), k.at \in Entering
  PROVE  Sound(k, x) /\ Sound(k, x)'
  BY DEF Sound, Untouched

-----------------------------------------------------------------------------
(* The invariant of the journal.                                           *)

LEMMA WorksKeepsJournal ==
  ASSUME TypeOK, CallsStaged, JournalInv, NEW c \in Calls, NEW d, d = digestOf(c),
         NEW k, Works(c, k), Tidy(k, d)
  PROVE  JournalInv'
  <1>1. /\ call \in [Calls -> Call] /\ locks \in [Digests -> Seq(Calls)] /\ call[c] \in Call
        /\ made' = made
    BY DEF TypeOK, JournalTypeOK, Works
  <1>2. /\ d \in Digests /\ made[call[c].rec].digest = d /\ call[c].rec \in Existing
        /\ Busy(call[c]) /\ holds(c) /\ Locked(c) /\ InQueue(locks[d], c)
    BY BusyDigest, Discipline DEF Works, JournalInv, Locked
  <1>3. call' = [call EXCEPT ![c] = k] /\ call'[c] = k
    BY <1>1 DEF Works
  <1>4. ASSUME NEW e \in Calls, e # c
        PROVE  /\ call'[e] = call[e] /\ digestOf(e)' = digestOf(e)
               /\ Locked(e) /\ (call[e].at \in Inside => digestOf(e) # d)
    BY <1>1, <1>2, <1>3, <1>4, Exclusive, Discipline DEF digestOf, JournalInv
  <1>5. FilesOf(d) /\ RecordOf(c, k)
    BY DEF Works
  <1>6. \A r \in records' : r \in records \/ made[r].digest = d
    BY <1>2, <1>5 DEF RecordOf
  <1>9. ContentKnown' /\ RecordsReadable'
    <2>1. Busy(k) => digestOf(c)' = d
      BY <1>1, <1>2, <1>3, IdleIsCall DEF Works, Stays, Leaves, SameTask, digestOf, Busy, Call
    <2>2. ContentKnown'
      <3>1. ASSUME NEW e \in Calls, Busy(call[e])'
            PROVE  Sound(call[e], digestOf(e))'
        <4>1. CASE e = c
          BY <1>3, <2>1, <3>1, <4>1 DEF Tidy, Sound, Readable, Named, Busy
        <4>2. CASE e # c /\ call[e].at \in Inside
          <5>1. PICK q, x : q = call[e] /\ x = digestOf(e)
            OBVIOUS
          <5>2. Sound(q, x) /\ x # d
            BY <1>4, <4>2, <5>1 DEF JournalInv, ContentKnown, Busy
          <5>3. Sound(q, x)'
            BY <1>1, <1>5, <1>6, <5>2, SoundElsewhere
          <5> QED
            BY <1>4, <4>2, <5>1, <5>3
        <4>3. CASE e # c /\ call[e].at \notin Inside
          <5>1. PICK q, x : q = call[e] /\ x = digestOf(e)
            OBVIOUS
          <5>2. Untouched(q) /\ q.at \in Entering
            BY <1>4, <3>1, <4>3, <5>1 DEF CallsStaged, Staged, Busy
          <5>3. Sound(q, x)'
            BY <5>2, SoundUntouched
          <5> QED
            BY <1>4, <4>3, <5>1, <5>3
        <4> QED
          BY <4>1, <4>2, <4>3
      <3> QED
        BY <3>1 DEF ContentKnown
    <2>3. RecordsReadable'
      BY <1>1, <1>5, <1>6 DEF JournalInv, RecordsReadable, Tidy, Named, Readable, FilesOf
    <2> QED
      BY <2>2, <2>3
  <1>7. CASE Stays(c, k)
    <2>1. digestOf(c)' = d /\ Busy(k) /\ UNCHANGED locks
      BY <1>1, <1>2, <1>3, <1>7 DEF Stays, SameTask, digestOf, Busy
    <2>2. Locked(c)'
      BY <1>2, <1>3, <2>1 DEF Locked, Busy, holds
    <2>3. \A e \in Calls : e # c => Locked(e)'
      BY <1>4, <2>1 DEF Locked, Busy, holds
    <2>4. LockDiscipline' /\ Queued'
      BY <2>1, <2>2, <2>3, Discipline DEF JournalInv, Queued
    <2> QED
      BY <1>9, <2>4 DEF JournalInv
  <1>8. CASE Leaves(c, k)
    <2>1. ~Busy(k) /\ locks' = [locks EXCEPT ![d] = Tail(@)]
      BY <1>1, <1>2, <1>8, IdleIsCall DEF Leaves, Busy, Call
    <2>2. Locked(c)'
      BY <1>1, <1>2, <1>3, <2>1, LeavesQueue, Discipline DEF Locked, JournalInv, holds, Busy
    <2>3. ASSUME NEW e \in Calls, e # c PROVE Locked(e)'
      <3>1. ASSUME NEW x \in Digests PROVE InQueue(locks'[x], e) <=> InQueue(locks[x], e)
        BY <1>1, <1>2, <2>1, <2>3, LeavesQueue, Discipline DEF JournalInv, holds
      <3>2. call[e].at \in Inside => digestOf(e) # d /\ holds(e)
        BY <1>4, <2>3 DEF Locked
      <3>3. call[e].at \in Inside => locks'[digestOf(e)] = locks[digestOf(e)]
        BY <1>1, <2>1, <3>2, BusyDigest DEF Busy
      <3> QED
        BY <1>4, <2>3, <3>1, <3>2, <3>3 DEF Locked, holds
    <2>4. Queued'
      BY <1>1, <1>2, <2>1, LeavesQueue, Discipline DEF JournalInv, holds
    <2> QED
      BY <2>1, <2>2, <2>3, <2>4, <1>9, Discipline DEF JournalInv
  <1> QED
    BY <1>7, <1>8 DEF Works

(* A call that queues for the lock of a content.                           *)
Enters(c, k) ==
    /\ k \in Call /\ call' = [call EXCEPT ![c] = k]
    /\ ~Busy(call[c]) /\ k.at \in Entering /\ Untouched(k)
    /\ k.rec \in 1 .. Len(made')
    /\ made'[k.rec].digest \in Digests
    /\ locks' = [locks EXCEPT ![made'[k.rec].digest] = Append(@, c)]
    /\ made' = made \/ \E x \in Made : made' = Append(made, x)
    /\ UNCHANGED <<records, objects, metadata, lost>>

(* A call for which no lock and no file matters.                           *)
Quiet(c, k) ==
    /\ k \in Call /\ call' = [call EXCEPT ![c] = k]
    /\ Busy(k) \/ Busy(call[c]) =>
          /\ k.at = call[c].at /\ k.rec = call[c].rec
          /\ k.recordRemoved = call[c].recordRemoved
          /\ k.objectRemoved = call[c].objectRemoved
          /\ k.metadataRemoved = call[c].metadataRemoved
    /\ UNCHANGED <<made, records, objects, metadata, locks, lost>>

(* Records that exist keep what they say.                                  *)
LEMMA MadeGrows ==
  ASSUME made \in Seq(Made), made' = made \/ \E x \in Made : made' = Append(made, x)
  PROVE  /\ made' \in Seq(Made) /\ \A r \in Existing : r \in 1 .. Len(made') /\ made'[r] = made[r]
         /\ Len(made) \in Nat /\ Len(made') \in {Len(made), Len(made) + 1}
         /\ made' # made => Len(made') = Len(made) + 1
  BY DEF Existing

LEMMA EntersKeepsJournal ==
  ASSUME TypeOK, CallsStaged, JournalInv, NEW c \in Calls, NEW k, Enters(c, k)
  PROVE  JournalInv'
  <1>1. /\ call \in [Calls -> Call] /\ locks \in [Digests -> Seq(Calls)] /\ call[c] \in Call
        /\ made \in Seq(Made) /\ records \subseteq Existing
        /\ call' = [call EXCEPT ![c] = k] /\ call'[c] = k
        /\ UNCHANGED <<records, objects, metadata, lost>>
    BY DEF TypeOK, JournalTypeOK, Enters, Existing
  <1>2. \A r \in Existing : r \in 1 .. Len(made') /\ made'[r] = made[r]
    BY <1>1, MadeGrows DEF Enters
  <1>3. PICK d \in Digests : d = made'[k.rec].digest
    BY DEF Enters
  <1>4. digestOf(c)' = d /\ Busy(k) /\ k.at \notin Inside /\ locks' = [locks EXCEPT ![d] = Append(@, c)]
    BY <1>1, <1>3 DEF digestOf, Enters, Busy
  <1>5. \A x \in Digests : ~InQueue(locks[x], c)
    BY Discipline DEF JournalInv, Locked, Enters
  <1>6. ASSUME NEW e \in Calls, e # c
        PROVE  /\ call'[e] = call[e] /\ Locked(e)
               /\ Busy(call[e]) => digestOf(e)' = digestOf(e) /\ digestOf(e) \in Digests
    BY <1>1, <1>2, <1>6, BusyDigest, Discipline DEF digestOf, JournalInv
  <1>7. Locked(c)'
    BY <1>1, <1>4, <1>5, JoinsQueue, Discipline DEF Locked, JournalInv
  <1>8. ASSUME NEW e \in Calls, e # c
        PROVE  Locked(e)'
    <2>1. ASSUME NEW x \in Digests
          PROVE  /\ InQueue(locks'[x], e) <=> InQueue(locks[x], e)
                 /\ locks[x] # <<>> => Head(locks'[x]) = Head(locks[x])
      BY <1>1, <1>4, <1>5, <1>8, JoinsQueue, Discipline DEF JournalInv
    <2>2. call[e].at \in Inside => locks[digestOf(e)] # <<>>
      BY <1>6, <1>8, EmptyQueue DEF Locked, Busy
    <2>3. call[e].at \in Inside => holds(e)'
      <3>1. PICK x : x = digestOf(e)
        OBVIOUS
      <3>2. SUFFICES ASSUME call[e].at \in Inside PROVE Head(locks'[digestOf(e)']) = e
        BY DEF holds
      <3>3. x \in Digests /\ digestOf(e)' = x /\ Head(locks[x]) = e /\ locks[x] # <<>>
        BY <1>6, <1>8, <2>2, <3>1, <3>2 DEF Locked, holds, Busy
      <3>4. Head(locks'[x]) = Head(locks[x])
        BY <2>1, <3>3
      <3> QED
        BY <3>3, <3>4
    <2>4. \A x \in Digests : InQueue(locks'[x], e) <=> Busy(call[e])' /\ digestOf(e)' = x
      BY <1>6, <1>8, <2>1 DEF Locked, Busy
    <2> QED
      BY <1>6, <1>8, <2>3, <2>4 DEF Locked
  <1>9. Queued'
    BY <1>1, <1>4, <1>5, JoinsQueue, Discipline DEF JournalInv
  <1>10. \A x : (Named(x)' <=> Named(x)) /\ (Readable(x)' <=> Readable(x))
    BY <1>1, <1>2 DEF Named, Readable
  <1>11. RecordsReadable'
    BY <1>1, <1>2 DEF JournalInv, RecordsReadable
  <1>12. ContentKnown'
    <2>1. ASSUME NEW e \in Calls, Busy(call[e])'
          PROVE  Sound(call[e], digestOf(e))'
      <3>1. CASE e = c
        BY <1>1, <1>4, <3>1 DEF Sound, Untouched, Enters
      <3>2. CASE e # c
        <4>1. Busy(call[e]) /\ Sound(call[e], digestOf(e)) /\ digestOf(e)' = digestOf(e)
          BY <1>6, <2>1, <3>2 DEF JournalInv, ContentKnown, Busy
        <4>2. PICK q, x : q = call[e] /\ x = digestOf(e)
          OBVIOUS
        <4>3. Sound(q, x)'
          BY <1>1, <1>10, <4>1, <4>2 DEF Sound
        <4> QED
          BY <1>6, <3>2, <4>1, <4>2, <4>3
      <3> QED
        BY <3>1, <3>2
    <2> QED
      BY <2>1 DEF ContentKnown
  <1> QED
    BY <1>7, <1>8, <1>9, <1>11, <1>12, Discipline DEF JournalInv

LEMMA QuietKeepsJournal ==
  ASSUME TypeOK, JournalInv, NEW c \in Calls, NEW k, Quiet(c, k)
  PROVE  JournalInv'
  <1>1. /\ call \in [Calls -> Call] /\ call'[c] = k /\ \A e \in Calls : e # c => call'[e] = call[e]
        /\ UNCHANGED <<made, records, objects, metadata, locks, lost>>
    BY DEF TypeOK, JournalTypeOK, Quiet
  <1>2. \A e \in Calls : Busy(call[e])' <=> Busy(call[e])
    BY <1>1 DEF Quiet, Busy
  <1>3. \A e \in Calls : Busy(call[e]) =>
           /\ digestOf(e)' = digestOf(e) /\ call'[e].at = call[e].at
           /\ call'[e].recordRemoved = call[e].recordRemoved
           /\ call'[e].objectRemoved = call[e].objectRemoved
           /\ call'[e].metadataRemoved = call[e].metadataRemoved
    BY <1>1 DEF Quiet, digestOf
  <1>4. LockDiscipline' /\ Queued'
    <2>1. \A e \in Calls : Locked(e) => Locked(e)'
      BY <1>1, <1>2, <1>3 DEF Locked, holds, Busy
    <2> QED
      BY <1>1, <2>1, Discipline DEF JournalInv
  <1>5. RecordsReadable'
    BY <1>1 DEF JournalInv, RecordsReadable
  <1>6. ContentKnown'
    BY <1>1, <1>2, <1>3 DEF JournalInv, ContentKnown, Sound, Readable, Named
  <1> QED
    BY <1>4, <1>5, <1>6 DEF JournalInv

LEMMA IdleKeepsJournal ==
  ASSUME TypeOK, JournalInv, UNCHANGED <<made, records, objects, metadata, locks, lost, call>>
  PROVE  JournalInv'
  <1>1. Queued' /\ LockDiscipline'
    <2>1. \A e \in Calls : Locked(e) => Locked(e)'
      BY DEF Locked, holds, Busy, digestOf
    <2> QED
      BY <2>1, Discipline DEF JournalInv
  <1>2. RecordsReadable'
    BY DEF JournalInv, RecordsReadable
  <1>3. ContentKnown'
    BY DEF JournalInv, ContentKnown, Sound, Readable, Named, Busy, digestOf
  <1> QED
    BY <1>1, <1>2, <1>3 DEF JournalInv

LEMMA RestartKeepsJournal ==
  ASSUME TypeOK, JournalInv, restart
  PROVE  JournalInv'
  <1>1. /\ \A c \in Calls : call'[c] = Idle
        /\ \A d \in Digests : locks'[d] = <<>>
        /\ UNCHANGED <<made, records, objects, metadata, lost>>
    BY DEF restart
  <1>2. LockDiscipline' /\ Queued'
    <2>1. \A c \in Calls : Locked(c)'
      BY <1>1, IdleIsCall, EmptyQueue DEF Locked, Busy
    <2>2. \A d \in Digests : Distinct(locks'[d])
      BY <1>1 DEF Distinct
    <2> QED
      BY <2>1, <2>2, Discipline
  <1>3. RecordsReadable'
    BY <1>1 DEF JournalInv, RecordsReadable
  <1>4. ContentKnown'
    BY <1>1, IdleIsCall DEF ContentKnown, Busy
  <1> QED
    BY <1>2, <1>3, <1>4 DEF JournalInv

-----------------------------------------------------------------------------
(* The steps of put, remove and restore keep the rest of the invariant.    *)

LEMMA WorksKeepsTypes ==
  ASSUME TypeOK, CallsStaged, JournalInv, NEW c \in Calls, NEW k, Works(c, k),
         UNCHANGED <<service, history>>
  PROVE  TypeOK'
  <1>1. /\ digestOf(c) \in Digests /\ call[c].rec \in Existing /\ InQueue(locks[digestOf(c)], c)
    BY BusyDigest, Discipline DEF Works, JournalInv, Locked
  <1>2. locks' \in [Digests -> Seq(Calls)]
    <2>1. locks \in [Digests -> Seq(Calls)] /\ Distinct(locks[digestOf(c)])
      BY <1>1, Discipline DEF TypeOK, JournalTypeOK, JournalInv
    <2>2. Tail(locks[digestOf(c)]) \in Seq(Calls)
      BY <1>1, <2>1, LeavesQueue DEF Works, holds
    <2> QED
      BY <1>1, <2>1, <2>2 DEF Works, Stays, Leaves
  <1>3. call' \in [Calls -> Call]
    BY DEF TypeOK, JournalTypeOK, Works
  <1>4. objects' \subseteq Digests /\ metadata' \subseteq Digests /\ lost' \subseteq Digests
    BY <1>1 DEF TypeOK, JournalTypeOK, Works, FilesOf
  <1>5. records' \subseteq 1 .. Len(made') /\ made' = made
    BY <1>1 DEF TypeOK, JournalTypeOK, Works, RecordOf, Existing
  <1> QED
    BY <1>2, <1>3, <1>4, <1>5 DEF TypeOK, JournalTypeOK, Works, service, history

LEMMA WorksKeepsStages ==
  ASSUME TypeOK, CallsStaged, JournalInv, NEW c \in Calls, NEW k, Works(c, k),
         UNCHANGED <<service, history>>
  PROVE  CallsStaged'
  <1>1. /\ call \in [Calls -> Call] /\ call[c] \in Call /\ call'[c] = k
        /\ UNCHANGED <<made, answered, loaded, load>>
    BY DEF TypeOK, JournalTypeOK, Works, service, history
  <1>2. \A e \in Calls : e # c => call'[e] = call[e]
    BY <1>1 DEF Works
  <1>3. Staged(call[c]) /\ call[c].task # "none" /\ call[c].at # "idle" /\ Busy(call[c])
    BY BusyDigest, IdleIsCall DEF CallsStaged, Works, Busy
  <1>4. Staged(k)
    <2>1. CASE k = Idle
      BY <2>1, IdleIsCall DEF Staged, Producing
    <2>2. CASE Stays(c, k)
      <3>1. k.task # "none" /\ k.at # "idle"
        BY <1>3, <2>2 DEF Stays, SameTask
      <3>2. k.task = "cleanup" => k.at \in Removing
        BY <1>1, <1>3, <2>2 DEF Stays, SameTask, Staged, CleansUp
      <3> QED
        BY <1>1, <1>3, <2>2, <3>1, <3>2
           DEF Stays, SameTask, Staged, CleansUp, Transforms, Produces, Producing, Works, Busy
    <2>3. CASE call[c].at = "writing record" /\ k = [call[c] EXCEPT !.at = "written"]
      <3>1. SameTask(k, call[c]) /\ k.at = "written" /\ Untouched(k)
        BY <1>1, <1>3, <2>3 DEF SameTask, Call, Works, Busy
      <3> QED
        BY <1>3, <2>3, <3>1 DEF SameTask, Staged, CleansUp, Transforms, Produces, Producing
    <2> QED
      BY <2>1, <2>2, <2>3 DEF Works, Leaves
  <1>5. Awaited(k)
    BY <1>1, IdleIsCall DEF Works, Stays, Leaves, Awaited, Call
  <1>6. \A q : (Staged(q) <=> Staged(q)') /\ (Awaited(q) <=> Awaited(q)')
    BY <1>1 DEF Staged, Awaited, CleansUp, Transforms, Produces, Producing, Existing
  <1> QED
    BY <1>1, <1>2, <1>4, <1>5, <1>6 DEF CallsStaged

(* A record that a cleanup may remove is not about to be published.        *)
LEMMA NoRival ==
  ASSUME IInv, NEW c \in Calls, call[c].task = "cleanup", canRemove(c),
         NEW e \in Calls, Producing(call[e]), call[e].wanted, call[e].rec = call[c].rec
  PROVE  FALSE
  <1>1. Staged(call[c]) /\ Staged(call[e]) /\ answered \subseteq Existing /\ Len(made) \in Nat
    BY DEF IInv, TypeOK, JournalTypeOK, CallsStaged, Existing
  <1>2. CleansUp(call[c]) /\ Produces(call[e])
    BY <1>1 DEF Staged
  <1>3. call[c].rec \in Existing /\ call[e].rec # NoRecord
    <2>1. call[c].rec \in Existing
      BY <1>2 DEF CleansUp
    <2>2. call[c].rec # NoRecord
      BY <1>1, <2>1 DEF Existing, NoRecord
    <2> QED
      BY <2>1, <2>2
  <1>4. /\ call[e].rec \notin answered /\ made[call[e].rec].owner = call[e].owner
        /\ made[call[e].rec].parent = call[e].source
    BY <1>2, <1>3 DEF Produces
  <1>5. call[e].task = "transform"
    BY <1>4 DEF canRemove, removable, ingesting, Producing
  <1>6. call[e].source \in Existing
    BY <1>1, <1>5 DEF Staged, Transforms
  <1>7. made[call[c].rec].parent # NoRecord
    BY <1>4, <1>6 DEF Existing, NoRecord
  <1> QED
    BY <1>2, <1>4, <1>7 DEF CleansUp

(* A record that was answered may be back only if it may have been there.  *)
LEMMA KeptBefore ==
  ASSUME IInv, NEW c \in Calls, NEW k, Works(c, k), NEW q \in answered, Kept(q)'
  PROVE  Kept(q)
  <1>1. /\ call \in [Calls -> Call] /\ call'[c] = k
        /\ \A e \in Calls : e # c => call'[e] = call[e]
        /\ Staged(call[c]) /\ call[c].task # "none" /\ RecordOf(c, k) /\ Busy(call[c])
        /\ call[c] \in Call
    BY BusyDigest DEF IInv, TypeOK, JournalTypeOK, CallsStaged, Works
  <1>2. Producing(call[c]) => call[c].rec \notin answered
    BY <1>1 DEF Staged, Produces, Busy
  <1>3. call[c].task = "cleanup" \/ Producing(call[c])
    BY <1>1 DEF Producing, Call
  <1>4. call[c].at = "writing record" => Producing(call[c])
    BY <1>1, <1>3 DEF Staged, CleansUp
  <1>5. CASE q \in records'
    BY <1>1, <1>2, <1>3, <1>4, <1>5 DEF RecordOf, Kept
  <1>6. ASSUME NEW e \in Calls, call'[e].task = "cleanup", call'[e].recordRemoved,
               call'[e].rec = q
        PROVE  Kept(q)
    <2>1. CASE e # c
      BY <1>1, <1>6, <2>1 DEF Kept
    <2>2. CASE e = c
      <3>1. k # Idle /\ k.task = call[c].task /\ k.rec = call[c].rec
        <4>1. call'[c].task # "none"
          BY <1>6, <2>2
        <4>2. k # Idle
          BY <1>1, <4>1, IdleIsCall
        <4>3. SameTask(k, call[c])
          BY <1>1, <4>2 DEF Works, Stays, Leaves, SameTask, Call
        <4> QED
          BY <4>2, <4>3 DEF SameTask
      <3>2. call[c].recordRemoved \/ call[c].rec \in records
        BY <1>1, <1>6, <2>2 DEF RecordOf
      <3> QED
        BY <1>1, <1>6, <2>2, <3>1, <3>2 DEF Kept
    <2> QED
      BY <2>1, <2>2
  <1> QED
    BY <1>5, <1>6 DEF Kept

(* A cleanup that has removed its record knows its owner's current one.    *)
LEMMA RemoverLoaded ==
  ASSUME IInv, NEW e \in Calls, call[e].task = "cleanup", call[e].recordRemoved
  PROVE  call[e].owner \in loaded /\ made[call[e].rec].owner = call[e].owner
  <1>1. Staged(call[e])
    BY DEF IInv, CallsStaged
  <1>2. call[e].at # "loading"
    BY <1>1 DEF Staged, Untouched
  <1> QED
    BY <1>1, <1>2 DEF Staged, CleansUp

(* What of the calls and of the service a step of the journal keeps.       *)
LEMMA WorksFacts ==
  ASSUME IInv, NEW c \in Calls, NEW k, Works(c, k), UNCHANGED <<service, history>>
  PROVE  /\ call' = [call EXCEPT ![c] = k] /\ call'[c] = k
         /\ \A e \in Calls : e # c => call'[e] = call[e]
         /\ UNCHANGED <<made, current, loaded, load, answered, newest, overtaken, misread>>
         /\ \A o : CurrentOf(o)' = CurrentOf(o)
         /\ Busy(call[c]) /\ Staged(call[c]) /\ call[c].rec \in Existing
         /\ made[call[c].rec].owner = call[c].owner
         /\ call[c].task = "cleanup" \/ Producing(call[c])
         /\ Producing(call[c]) => call[c].rec \notin answered
         /\ k = Idle \/ SameTask(k, call[c])
         /\ k.at # "unread" /\ (k.at = "written" => call[c].rec \in records')
         /\ lost \subseteq lost'
  <1>1. /\ call \in [Calls -> Call] /\ call' = [call EXCEPT ![c] = k] /\ call[c] \in Call
        /\ UNCHANGED <<made, current, loaded, load, answered, newest, overtaken, misread>>
    BY DEF IInv, TypeOK, JournalTypeOK, Works, service, history
  <1>2. call'[c] = k /\ \A e \in Calls : e # c => call'[e] = call[e]
    BY <1>1
  <1>3. \A o : CurrentOf(o)' = CurrentOf(o)
    BY <1>1 DEF CurrentOf
  <1>4. /\ Busy(call[c]) /\ Staged(call[c]) /\ call[c].rec \in Existing
        /\ made[call[c].rec].owner = call[c].owner /\ call[c].task # "none"
    BY BusyDigest DEF IInv, CallsStaged, Works
  <1>5. call[c].task = "cleanup" \/ Producing(call[c])
    BY <1>1, <1>4 DEF Call, Producing
  <1>6. Producing(call[c]) => call[c].rec \notin answered
    BY <1>4 DEF Staged, Produces, Busy
  <1>7. k = Idle \/ SameTask(k, call[c])
    BY <1>1 DEF Works, Stays, Leaves, SameTask, Call
  <1>8. k.at # "unread" /\ (k.at = "written" => call[c].rec \in records')
    BY <1>1, IdleIsCall DEF Works, Stays, Leaves, Call
  <1>9. lost \subseteq lost'
    BY DEF Works, FilesOf
  <1> QED
    BY <1>1, <1>2, <1>3, <1>4, <1>5, <1>6, <1>7, <1>8, <1>9

(* A record that disappears from disk is one that a cleanup could remove,  *)
(* or one that its own call takes back.                                    *)
LEMMA Disappears ==
  ASSUME IInv, NEW c \in Calls, NEW k, Works(c, k), NEW q \in records \ records'
  PROVE  q = call[c].rec /\ call[c].at = "unlinking record" /\ canRemove(c)
  BY DEF Works, RecordOf

LEMMA WorksKeepsPublishable ==
  ASSUME IInv, NEW c \in Calls, NEW k, Works(c, k), UNCHANGED <<service, history>>
  PROVE  OneMaker' /\ WrittenThere' /\ Untaken'
  <1>1. \A e \in Calls : call'[e].task # "none" =>
          /\ call'[e].task = call[e].task /\ call'[e].rec = call[e].rec
          /\ call'[e].wanted = call[e].wanted
    BY WorksFacts, IdleIsCall DEF SameTask
  <1>2. OneMaker'
    BY <1>1 DEF IInv, ServiceInv, OneMaker, Producing
  <1>3. ASSUME NEW e \in Calls, call'[e].at = "written", call'[e].wanted
        PROVE  call'[e].rec \in records'
    <2>1. CASE e = c
      BY <1>3, <2>1, WorksFacts, IdleIsCall DEF SameTask
    <2>2. CASE e # c
      <3>1. call[e].at = "written" /\ call[e].wanted /\ call'[e].rec = call[e].rec
        BY <1>3, <2>2, WorksFacts
      <3>2. Staged(call[e]) /\ call[e] \in Call
        BY DEF IInv, CallsStaged, TypeOK, JournalTypeOK
      <3>3. Producing(call[e])
        BY <3>1, <3>2, IdleIsCall DEF Staged, CleansUp, Producing, Call
      <3>4. call[e].rec \in records
        BY <3>1 DEF IInv, ServiceInv, WrittenThere
      <3>5. ASSUME call[e].rec \notin records' PROVE FALSE
        <4>1. call[e].rec = call[c].rec /\ canRemove(c)
          BY <3>4, <3>5, Disappears
        <4>2. ~Producing(call[c])
          BY <2>2, <3>3, <4>1, WorksFacts DEF IInv, ServiceInv, OneMaker, Existing, NoRecord
        <4> QED
          BY <3>1, <3>3, <4>1, <4>2, WorksFacts, NoRival
      <3> QED
        BY <3>1, <3>5
    <2> QED
      BY <2>1, <2>2
  <1>4. ASSUME NEW b \in Calls, NEW e \in Calls, Producing(call'[b]), call'[b].wanted,
               call'[e].task = "cleanup", call'[e].rec = call'[b].rec, call'[e].recordRemoved
        PROVE  FALSE
    <2>1. /\ Producing(call[b]) /\ call[b].wanted
          /\ call[e].task = "cleanup" /\ call[e].rec = call[b].rec
      BY <1>1, <1>4 DEF Producing
    <2>2. ~call[e].recordRemoved
      BY <2>1 DEF IInv, ServiceInv, Untaken
    <2>3. e = c
      BY <1>4, <2>2, WorksFacts
    <2>4. RecordOf(c, k) /\ k.recordRemoved
      BY <1>4, <2>3, WorksFacts DEF Works
    <2>5. canRemove(c)
      BY <2>2, <2>3, <2>4 DEF RecordOf
    <2> QED
      BY <2>1, <2>3, <2>5, NoRival
  <1>5. WrittenThere'
    BY <1>3 DEF WrittenThere
  <1>6. Untaken'
    BY <1>4 DEF Untaken
  <1> QED
    BY <1>2, <1>5, <1>6

(* A cleanup that may remove its record does not remove what its owner has *)
(* or is about to have.                                                    *)
LEMMA Spares ==
  ASSUME IInv, NEW c \in Calls, canRemove(c), call[c].at = "unlinking record",
         call[c].task = "cleanup"
  PROVE  /\ call[c].owner \in loaded /\ current[call[c].owner] # call[c].rec
         /\ \A o \in Owners : CurrentOf(o) # call[c].rec
         /\ \A o \in Owners : o \notin loaded => load[o].found # call[c].rec
  <1>1. CleansUp(call[c])
    BY DEF IInv, CallsStaged, Staged
  <1>2. /\ call[c].rec \in Existing /\ made[call[c].rec].owner = call[c].owner
        /\ call[c].owner \in loaded
    BY <1>1 DEF CleansUp
  <1>3. call[c].rec # NoRecord
    BY <1>2, ExistingIsSome DEF IInv
  <1>4. CurrentOf(call[c].owner) # call[c].rec
    BY <1>2 DEF canRemove, removable
  <1>5. \A o \in Owners : CurrentOf(o) # call[c].rec
    BY <1>2, <1>3, <1>4 DEF CurrentOf, IInv, TypeOK
  <1>6. \A o \in Owners : o \notin loaded => load[o].found # call[c].rec
    BY <1>2, <1>3 DEF IInv, ServiceInv, Found
  <1> QED
    BY <1>2, <1>4, <1>5, <1>6 DEF CurrentOf

LEMMA WorksKeepsService ==
  ASSUME IInv, NEW c \in Calls, NEW k, Works(c, k), UNCHANGED <<service, history>>
  PROVE  ServiceInv'
  <1>1. Lineage' /\ Found' /\ NewestCurrent'
    BY WorksFacts DEF IInv, ServiceInv, Lineage, Found, NewestCurrent, Existing
  <1>2. OneMaker' /\ WrittenThere' /\ Untaken'
    BY WorksKeepsPublishable
  <1>9. Listed'
    <2>1. ASSUME NEW q \in answered, q \in records', q \notin records
          PROVE  made[q].owner \in loaded
      <3>1. Kept(q)
        BY <2>1, KeptBefore DEF Kept
      <3> QED
        BY <2>1, <3>1, RemoverLoaded DEF Kept
    <2> QED
      BY <2>1, WorksFacts DEF IInv, ServiceInv, Listed, Existing
  <1>3. CurrentThere'
    <2>1. ASSUME NEW q \in answered, q \in records,
                 \/ \E o \in Owners : q = CurrentOf(o)
                 \/ \E o \in Owners : o \notin loaded /\ q = load[o].found
          PROVE  q \in records'
      <3>1. ASSUME q \notin records' PROVE FALSE
        <4>1. q = call[c].rec /\ call[c].at = "unlinking record" /\ canRemove(c)
          BY <2>1, <3>1, Disappears
        <4>2. call[c].task = "cleanup"
          BY <4>1, WorksFacts
        <4> QED
          BY <2>1, <4>1, <4>2, Spares
      <3> QED
        BY <3>1
    <2> QED
      BY <2>1, WorksFacts DEF IInv, ServiceInv, CurrentThere
  <1>4. RemovedNotNewest'
    <2>1. ASSUME NEW e \in Calls, call'[e].task = "cleanup", call'[e].recordRemoved,
                 call'[e].owner \notin overtaken', newest'[call'[e].owner] = call'[e].rec
          PROVE  FALSE
      <3>1. CASE e # c
        BY <2>1, <3>1, WorksFacts DEF IInv, ServiceInv, RemovedNotNewest
      <3>2. CASE e = c
        <4>1. /\ SameTask(k, call[c]) /\ call[c].task = "cleanup" /\ k.recordRemoved
              /\ newest[call[c].owner] = call[c].rec /\ call[c].owner \notin overtaken
          BY <2>1, <3>2, WorksFacts, IdleIsCall DEF SameTask
        <4>2. ~call[c].recordRemoved
          BY <4>1 DEF IInv, ServiceInv, RemovedNotNewest
        <4>3. canRemove(c) /\ call[c].at = "unlinking record"
          BY <4>1, <4>2 DEF Works, RecordOf
        <4>4. current[call[c].owner] # call[c].rec /\ call[c].owner \in Owners
          BY <4>1, <4>3, Spares DEF IInv, TypeOK, JournalTypeOK, Call
        <4>5. call[c].rec # NoRecord
          BY WorksFacts, ExistingIsSome DEF IInv
        <4> QED
          BY <4>1, <4>4, <4>5 DEF IInv, ServiceInv, NewestCurrent
      <3> QED
        BY <3>1, <3>2
    <2> QED
      BY <2>1 DEF RemovedNotNewest
  <1>5. \A q \in answered : Kept(q)' => Kept(q)
    BY KeptBefore
  <1>6. ChildKnown'
    BY <1>5, WorksFacts DEF IInv, ServiceInv, ChildKnown
  <1>7. OnlyChild'
    BY <1>5, WorksFacts DEF IInv, ServiceInv, OnlyChild
  <1>8. SourceStaysReadable'
    <2>1. \A e \in Calls : call'[e].at = "unread" => call'[e] = call[e]
      BY WorksFacts
    <2> QED
      BY <2>1, WorksFacts DEF IInv, ServiceInv, SourceStaysReadable
  <1> QED
    BY <1>1, <1>2, <1>3, <1>4, <1>6, <1>7, <1>8, <1>9 DEF ServiceInv

LEMMA WorksKeepsAll ==
  ASSUME IInv, NEW c \in Calls, put(c) \/ remove(c, canRemove(c)) \/ restore(c),
         UNCHANGED <<service, history>>
  PROVE  IInv'
  <1>1. PICK d, k : d = digestOf(c) /\ Works(c, k) /\ Tidy(k, d)
    BY JournalSteps DEF IInv
  <1> QED
    BY <1>1, WorksKeepsTypes, WorksKeepsStages, WorksKeepsJournal, WorksKeepsService DEF IInv

-----------------------------------------------------------------------------
(* The steps of the calls outside the journal.                             *)

Unhurt(k) ==
    /\ made[k.source].digest \notin lost
    /\ k.owner \notin overtaken
    => CurrentOf(k.owner) # k.source

(* Call c becomes k, and no file changes; a read of a current record may   *)
(* be started.                                                             *)
Turns(c, k) ==
    /\ Staged(k) /\ Awaited(k)'
    /\ Producing(k) /\ k.rec # NoRecord =>
          Producing(call[c]) /\ call[c].rec = k.rec /\ (k.wanted => call[c].wanted)
    /\ k.at = "written" => call[c].at = "written"
    /\ k.task = "cleanup" /\ k.recordRemoved =>
          /\ call[c].task = "cleanup" /\ call[c].recordRemoved
          /\ call[c].rec = k.rec /\ call[c].owner = k.owner
    /\ k.at = "unread" => Unhurt(k)
    /\ UNCHANGED <<made, records, current, loaded, history>>
    /\ load' = load \/ \E o \in Owners : load[o].at = "none" /\ load' = [load EXCEPT ![o].at = "listing"]
    /\ mishaps' \in 0 .. MaxMishaps + 1

LEMMA LocksTyped ==
  ASSUME TypeOK, NEW c \in Calls, NEW k, Enters(c, k) \/ Quiet(c, k)
  PROVE  locks' \in [Digests -> Seq(Calls)]
  <1>1. locks \in [Digests -> Seq(Calls)]
    BY DEF TypeOK, JournalTypeOK
  <1>2. CASE Enters(c, k)
    <2>1. PICK d \in Digests : locks' = [locks EXCEPT ![d] = Append(@, c)]
      BY <1>2 DEF Enters
    <2>2. Append(locks[d], c) \in Seq(Calls)
      BY <1>1
    <2> QED
      BY <1>1, <2>1, <2>2
  <1>3. CASE Quiet(c, k)
    BY <1>1, <1>3 DEF Quiet
  <1> QED
    BY <1>2, <1>3

LEMMA TurnsFacts ==
  ASSUME IInv, NEW c \in Calls, NEW k, Turns(c, k), Enters(c, k) \/ Quiet(c, k)
  PROVE  /\ call' = [call EXCEPT ![c] = k] /\ call'[c] = k /\ k \in Call
         /\ call' \in [Calls -> Call]
         /\ \A e \in Calls : e # c => call'[e] = call[e]
         /\ UNCHANGED <<made, records, objects, metadata, lost, current, loaded,
                        answered, newest, overtaken, misread>>
         /\ \A o : CurrentOf(o)' = CurrentOf(o)
         /\ load' \in [Owners -> Load]
         /\ \A o \in Owners : /\ load'[o].found = load[o].found
                              /\ load'[o].at = "read" => load[o].at = "read"
                              /\ load'[o].at = "none" => load[o].at = "none"
                              /\ load'[o].at = "reading" => load'[o] = load[o]
  <1>1. /\ call \in [Calls -> Call] /\ call' = [call EXCEPT ![c] = k] /\ k \in Call
        /\ UNCHANGED <<made, records, objects, metadata, lost, current, loaded,
                       answered, newest, overtaken, misread>>
    BY DEF IInv, TypeOK, JournalTypeOK, Turns, Enters, Quiet, history
  <1>2. call'[c] = k /\ call' \in [Calls -> Call] /\ \A e \in Calls : e # c => call'[e] = call[e]
    BY <1>1
  <1>3. \A o : CurrentOf(o)' = CurrentOf(o)
    BY <1>1 DEF CurrentOf
  <1>4. load \in [Owners -> Load]
    BY DEF IInv, TypeOK
  <1>5. CASE load' = load
    BY <1>1, <1>2, <1>3, <1>4, <1>5
  <1>6. CASE \E o \in Owners : load[o].at = "none" /\ load' = [load EXCEPT ![o].at = "listing"]
    <2>1. PICK o \in Owners : load[o].at = "none" /\ load' = [load EXCEPT ![o].at = "listing"]
      BY <1>6
    <2>2. PICK l : l = [load[o] EXCEPT !.at = "listing"]
      OBVIOUS
    <2>3. l \in Load /\ l.at = "listing" /\ l.found = load[o].found
      BY <1>4, <2>2 DEF Load
    <2>4. load' = [load EXCEPT ![o] = l]
      BY <1>4, <2>1, <2>2
    <2> QED
      BY <1>1, <1>2, <1>3, <1>4, <2>3, <2>4
  <1> QED
    BY <1>5, <1>6 DEF Turns

LEMMA TurnsKeepsService ==
  ASSUME IInv, NEW c \in Calls, NEW k, Turns(c, k), Enters(c, k) \/ Quiet(c, k)
  PROVE  ServiceInv'
  <1>0. Listed'
    BY TurnsFacts DEF IInv, ServiceInv, Listed, Existing
  <1>1. Lineage' /\ Found' /\ NewestCurrent' /\ CurrentThere'
    BY TurnsFacts DEF IInv, ServiceInv, Lineage, Found, NewestCurrent, CurrentThere, Existing
  <1>2. \A e \in Calls : Producing(call'[e]) /\ call'[e].rec # NoRecord =>
          /\ Producing(call[e]) /\ call[e].rec = call'[e].rec
          /\ call'[e].wanted => call[e].wanted
    BY TurnsFacts DEF Turns
  <1>3. OneMaker'
    BY <1>2 DEF IInv, ServiceInv, OneMaker, Producing, NoRecord
  <1>4. \A e \in Calls : call'[e].task = "cleanup" /\ call'[e].recordRemoved =>
          /\ call[e].task = "cleanup" /\ call[e].recordRemoved
          /\ call[e].rec = call'[e].rec /\ call[e].owner = call'[e].owner
    BY TurnsFacts DEF Turns
  <1>5. WrittenThere'
    <2>1. ASSUME NEW e \in Calls, call'[e].at = "written", call'[e].wanted
          PROVE  call'[e].rec \in records
      <3>1. CASE e # c
        BY <2>1, <3>1, TurnsFacts DEF IInv, ServiceInv, WrittenThere
      <3>2. CASE e = c
        <4>1. Staged(k) /\ k.at = "written" /\ k \in Call /\ call[c].at = "written"
          BY <2>1, <3>2, TurnsFacts DEF Turns
        <4>2. Producing(k)
          BY <4>1, IdleIsCall DEF Staged, CleansUp, Producing, Call
        <4>3. k.rec # NoRecord
          BY <4>1, <4>2, ExistingIsSome DEF Staged, Produces, IInv
        <4> QED
          BY <1>2, <2>1, <3>2, <4>1, <4>2, <4>3, TurnsFacts DEF IInv, ServiceInv, WrittenThere
      <3> QED
        BY <3>1, <3>2
    <2> QED
      BY <2>1, TurnsFacts DEF WrittenThere
  <1>6. Untaken'
    <2>1. ASSUME NEW b \in Calls, NEW e \in Calls, Producing(call'[b]), call'[b].wanted,
                 call'[e].task = "cleanup", call'[e].rec = call'[b].rec, call'[e].recordRemoved
          PROVE  FALSE
      <3>1. call[e].task = "cleanup" /\ call[e].recordRemoved /\ call[e].rec = call'[e].rec
        BY <1>4, <2>1
      <3>2. call[e].rec # NoRecord
        BY <3>1, ExistingIsSome DEF IInv, CallsStaged, Staged, CleansUp
      <3>3. Producing(call[b]) /\ call[b].wanted /\ call[b].rec = call[e].rec
        BY <1>2, <2>1, <3>1, <3>2
      <3> QED
        BY <3>1, <3>3 DEF IInv, ServiceInv, Untaken
    <2> QED
      BY <2>1 DEF Untaken
  <1>7. RemovedNotNewest'
    BY <1>4, TurnsFacts DEF IInv, ServiceInv, RemovedNotNewest
  <1>8. \A q : Kept(q)' => Kept(q)
    BY <1>4, TurnsFacts DEF Kept
  <1>9. ChildKnown'
    <2>1. \A q \in answered : made[q].owner \in Owners
      BY MadeOwners DEF IInv, TypeOK, Existing
    <2> QED
      BY <1>8, <2>1, TurnsFacts DEF IInv, ServiceInv, ChildKnown
  <1>10. OnlyChild'
    BY <1>8, TurnsFacts DEF IInv, ServiceInv, OnlyChild
  <1>11. SourceStaysReadable'
    <2>1. \A e \in Calls : call'[e].at = "unread" => Unhurt(call'[e])
      BY TurnsFacts DEF Turns, Unhurt, IInv, ServiceInv, SourceStaysReadable
    <2> QED
      BY <2>1, TurnsFacts DEF SourceStaysReadable, Unhurt
  <1> QED
    BY <1>0, <1>1, <1>3, <1>5, <1>6, <1>7, <1>9, <1>10, <1>11 DEF ServiceInv

LEMMA TurnsKeeps ==
  ASSUME IInv, NEW c \in Calls, NEW k, Turns(c, k), Enters(c, k) \/ Quiet(c, k)
  PROVE  IInv'
  <1>1. TypeOK'
    BY TurnsFacts, LocksTyped DEF IInv, TypeOK, JournalTypeOK, Turns
  <1>2. CallsStaged'
    <2>1. \A q : Staged(q)' <=> Staged(q)
      <3>1. UNCHANGED <<made, answered, loaded>>
        BY TurnsFacts
      <3> QED
        BY <3>1 DEF Staged, CleansUp, Transforms, Produces, Producing, Existing
    <2>2. ASSUME NEW e \in Calls, e # c PROVE Awaited(call[e])'
      <3>1. PICK q \in Call : q = call[e]
        BY DEF IInv, TypeOK, JournalTypeOK
      <3>2. q.owner \in Owners /\ Awaited(q)
        BY <3>1 DEF Call, IInv, CallsStaged
      <3>3. Awaited(q)'
        BY <3>2, TurnsFacts DEF Awaited
      <3> QED
        BY <2>2, <3>1, <3>3, TurnsFacts
    <2> QED
      BY <2>1, <2>2, TurnsFacts DEF Turns, IInv, CallsStaged
  <1>3. JournalInv'
    BY EntersKeepsJournal, QuietKeepsJournal DEF IInv
  <1> QED
    BY <1>1, <1>2, <1>3, TurnsKeepsService DEF IInv

-----------------------------------------------------------------------------
(* The actions of the calls.                                               *)

(* A call that ends.                                                       *)
LEMMA EndsKeeps ==
  ASSUME IInv, NEW c \in Calls, ~Busy(call[c]), end(c),
         UNCHANGED <<made, locks, records, objects, metadata, lost>>, mishaps' \in 0 .. MaxMishaps + 1,
         UNCHANGED <<service, history>>
  PROVE  IInv'
  <1>1. /\ Staged(Idle) /\ Awaited(Idle)' /\ ~Producing(Idle) /\ Idle.at = "idle"
        /\ ~Idle.recordRemoved /\ Idle \in Call
    BY IdleIsCall DEF Staged, Awaited, Producing, Untouched
  <1>2. PICK k : k = Idle
    OBVIOUS
  <1>3. Turns(c, k)
    BY <1>1, <1>2 DEF Turns, service, history
  <1>4. Quiet(c, k)
    BY <1>1, <1>2 DEF Quiet, end, Busy
  <1> QED
    BY <1>3, <1>4, TurnsKeeps

(* A call whose caller or deadline gives it up.                            *)
LEMMA GivesUpKeeps ==
  ASSUME IInv, NEW c \in Calls, givesUp(c)
  PROVE  IInv'
  <1>0. call[c] \in Call /\ Staged(call[c]) /\ Awaited(call[c])
    BY DEF IInv, TypeOK, JournalTypeOK, CallsStaged
  <1>1. PICK k : k = [call[c] EXCEPT !.wanted = FALSE]
    OBVIOUS
  <1>2. /\ k \in Call /\ ~k.wanted /\ k.task = call[c].task /\ k.at = call[c].at
        /\ k.owner = call[c].owner /\ k.rec = call[c].rec /\ k.source = call[c].source
        /\ k.recordRemoved = call[c].recordRemoved /\ k.objectRemoved = call[c].objectRemoved
        /\ k.metadataRemoved = call[c].metadataRemoved /\ k.caught = call[c].caught
    BY <1>0, <1>1 DEF Call
  <1>3. call' = [call EXCEPT ![c] = k]
    BY <1>1 DEF givesUp, IInv, TypeOK, JournalTypeOK
  <1>4. call[c].wanted /\ mishaps' \in 0 .. MaxMishaps + 1
    BY JournalAssumption DEF givesUp, mishap, IInv, TypeOK, JournalTypeOK
  <1>5. call[c].task # "none" /\ call[c].at # "idle"
    BY <1>0, <1>4, IdleIsCall DEF Staged
  <1>6. Staged(k) /\ Awaited(k)'
    BY <1>0, <1>2, <1>5
       DEF Staged, Awaited, CleansUp, Transforms, Produces, Producing, Untouched, givesUp, service
  <1>7. k.at = "unread" => Unhurt(k)
    BY <1>2 DEF IInv, ServiceInv, SourceStaysReadable, Unhurt
  <1>8. Turns(c, k)
    BY <1>2, <1>4, <1>6, <1>7 DEF Turns, givesUp, service, history, Producing
  <1>9. Quiet(c, k)
    BY <1>2, <1>3 DEF Quiet, givesUp
  <1> QED
    BY <1>8, <1>9, TurnsKeeps

(* A call that starts.                                                     *)
LEMMA StartKeeps ==
  ASSUME IInv, NEW c \in Calls, NEW o \in Owners, NEW task \in {"ingest", "transform", "cleanup"},
         NEW step \in {"preparing", "loading", "loaded"},
         NEW rec \in Records \cup {NoRecord}, NEW source \in Records \cup {NoRecord},
         start(c, o, task, step, rec, source),
         UNCHANGED <<current, loaded, history>>,
         load' = load \/ \E p \in Owners : load[p].at = "none" /\ load' = [load EXCEPT ![p].at = "listing"],
         step = "loading" => load'[o].at # "none" \/ o \in loaded,
         step = "loaded" => o \in loaded,
         task = "ingest" => step = "preparing" /\ rec = NoRecord /\ source = NoRecord,
         task # "ingest" => step # "preparing",
         task = "transform" => rec = NoRecord /\ source \in answered /\ made[source].owner = o,
         task = "cleanup" => /\ rec \in Existing /\ made[rec].owner = o
                             /\ made[rec].parent # NoRecord => rec \in answered
  PROVE  IInv'
  <1>1. PICK k : k = [Idle EXCEPT !.task = task, !.at = step, !.owner = o,
                                  !.rec = rec, !.source = source, !.wanted = TRUE]
    OBVIOUS
  <1>2. /\ k \in Call /\ k.task = task /\ k.at = step /\ k.owner = o /\ k.rec = rec
        /\ k.source = source /\ k.wanted /\ Untouched(k)
    BY <1>1, IdleIsCall DEF Call, Steps, Untouched
  <1>3. /\ call' = [call EXCEPT ![c] = k] /\ call[c].at = "idle"
        /\ UNCHANGED <<made, records, objects, metadata, locks, lost, mishaps>>
    BY <1>1, IdleIsCall DEF start, IInv, TypeOK, JournalTypeOK
  <1>4. Staged(k)
    BY <1>2 DEF Staged, CleansUp, Transforms, Produces, Producing
  <1>5. Awaited(k)'
    BY <1>2 DEF Awaited
  <1>6. Turns(c, k)
    BY <1>2, <1>3, <1>4, <1>5 DEF Turns, Untouched, Producing, IInv, TypeOK, JournalTypeOK
  <1>7. Quiet(c, k)
    BY <1>2, <1>3 DEF Quiet, Busy
  <1> QED
    BY <1>6, <1>7, TurnsKeeps

LEMMA StartsKeep ==
  ASSUME IInv, NEW c \in Calls,
         \/ \E o \in Owners : ingest(c, o)
         \/ \E r \in Existing : transform(c, r) \/ cleanup(c, r)
  PROVE  IInv'
  <1>0. answered \subseteq Existing /\ Existing \subseteq Records /\ load \in [Owners -> Load]
    BY JournalAssumption DEF IInv, TypeOK, JournalTypeOK, Existing, Records
  <1>1. CASE \E o \in Owners : ingest(c, o)
    BY <1>1, StartKeeps DEF ingest, service
  <1>2. ASSUME NEW r \in Existing, ensureCurrent(made[r].owner), UNCHANGED loaded
        PROVE  /\ \/ load' = load
                  \/ \E p \in Owners : load[p].at = "none" /\ load' = [load EXCEPT ![p].at = "listing"]
               /\ awaitCurrent(made[r].owner) \in {"loading", "loaded"}
               /\ awaitCurrent(made[r].owner) = "loading" =>
                     load'[made[r].owner].at # "none" \/ made[r].owner \in loaded
               /\ awaitCurrent(made[r].owner) = "loaded" => made[r].owner \in loaded
    <2>1. PICK o \in Owners : o = made[r].owner
      BY MadeOwners DEF IInv
    <2> QED
      BY <1>0, <1>2, <2>1 DEF ensureCurrent, awaitCurrent, Load
  <1>3. ASSUME NEW r \in Existing, transform(c, r) PROVE IInv'
    <2>1. PICK step \in {"loading", "loaded"} : step = awaitCurrent(made[r].owner)
      BY <1>2, <1>3 DEF transform
    <2>2. PICK o \in Owners : o = made[r].owner
      BY MadeOwners DEF IInv
    <2> QED
      BY <1>0, <1>2, <1>3, <2>1, <2>2, StartKeeps DEF transform
  <1>4. ASSUME NEW r \in Existing, cleanup(c, r) PROVE IInv'
    <2>1. PICK step \in {"loading", "loaded"} : step = awaitCurrent(made[r].owner)
      BY <1>2, <1>4 DEF cleanup
    <2>2. PICK o \in Owners : o = made[r].owner
      BY MadeOwners DEF IInv
    <2> QED
      BY <1>0, <1>2, <1>4, <2>1, <2>2, StartKeeps DEF cleanup
  <1> QED
    BY <1>1, <1>3, <1>4

(* A transform on its way to its operation.                                *)
LEMMA MovesKeeps ==
  ASSUME IInv, NEW c \in Calls, call[c].task = "transform",
         call[c].at \in {"loading", "loaded", "opening", "reading"},
         call[c].owner \in loaded,
         NEW step \in {"opening", "reading", "running", "unread"}, goTo(c, step),
         step = "unread" => Unhurt(call[c]),
         UNCHANGED <<made, locks>>, UNCHANGED <<disk, service, history>>
  PROVE  IInv'
  <1>0. call[c] \in Call /\ Staged(call[c])
    BY DEF IInv, TypeOK, JournalTypeOK, CallsStaged
  <1>1. PICK k : k = [call[c] EXCEPT !.at = step]
    OBVIOUS
  <1>2. /\ k \in Call /\ SameTask(k, call[c]) /\ k.at = step /\ Untouched(k)
    <2>1. Untouched(call[c])
      BY <1>0 DEF Staged
    <2> QED
      BY <1>0, <1>1, <2>1 DEF Call, Steps, SameTask, Untouched
  <1>3. call' = [call EXCEPT ![c] = k]
    BY <1>1 DEF goTo, IInv, TypeOK, JournalTypeOK
  <1>4. Staged(k)
    BY <1>0, <1>2 DEF Staged, SameTask, Transforms, Produces, Producing
  <1>5. Awaited(k)'
    BY <1>2 DEF Awaited
  <1>6. k.at = "unread" => Unhurt(k)
    BY <1>2 DEF Unhurt, SameTask
  <1>7. Turns(c, k)
    BY <1>0, <1>2, <1>4, <1>5, <1>6
       DEF Turns, SameTask, Producing, disk, service, history, IInv, TypeOK, JournalTypeOK
  <1>8. Quiet(c, k)
    BY <1>2, <1>3 DEF Quiet, Busy, disk
  <1> QED
    BY <1>7, <1>8, TurnsKeeps

(* A current record is on disk and can be read.                            *)
LEMMA CurrentReadable ==
  ASSUME IInv, NEW o \in Owners, o \notin overtaken, CurrentOf(o) \in answered
  PROVE  /\ CurrentOf(o) \in records
         /\ LET d == made[CurrentOf(o)].digest IN d \in lost \/ d \in objects \cap metadata
  BY DEF IInv, ServiceInv, CurrentThere, JournalInv, RecordsReadable

LEMMA TransformsKeep ==
  ASSUME IInv, NEW c \in Calls,
         \/ transformStarts(c) \/ transformOpens(c) \/ transformMisled(c)
         \/ transformReads(c) \/ transformFails(c)
  PROVE  IInv'
  <1>1. /\ call[c] \in Call /\ Staged(call[c]) /\ Awaited(call[c])
        /\ call[c].task \in {"none", "ingest", "transform", "cleanup"} /\ call[c].owner \in Owners
    BY DEF IInv, TypeOK, JournalTypeOK, CallsStaged, Call
  <1>2. /\ call[c].at \in {"loading", "loaded", "opening", "reading", "unread"}
        /\ call[c].task = "transform" /\ call[c].owner \in loaded
        /\ call[c].source \in answered
    <2>1. /\ call[c].at \in {"loading", "loaded", "opening", "reading", "unread"}
          /\ call[c].at \in {"loading", "loaded"} => call[c].task = "transform"
          /\ call[c].at = "loading" => load[call[c].owner].at = "none"
      BY DEF transformStarts, transformOpens, transformMisled, transformReads, transformFails, Ready
    <2>2. call[c].task = "transform"
      BY <1>1, <2>1, IdleIsCall DEF Staged, CleansUp
    <2> QED
      BY <1>1, <2>1, <2>2 DEF Staged, Transforms, Awaited
  <1>3. ~Busy(call[c])
    BY <1>2 DEF Busy
  <1>4. /\ call[c].owner \notin overtaken /\ CurrentOf(call[c].owner) = call[c].source =>
             /\ call[c].source \in records
             /\ LET d == made[call[c].source].digest IN d \in lost \/ d \in objects \cap metadata
    BY <1>1, <1>2, CurrentReadable
  <1>9. mishaps \in 0 .. MaxMishaps + 1 /\ (mishap => mishaps' \in 0 .. MaxMishaps + 1)
    BY JournalAssumption DEF mishap, IInv, TypeOK, JournalTypeOK
  <1>5. CASE transformStarts(c)
    BY <1>2, <1>3, <1>5, <1>9, MovesKeeps, EndsKeeps DEF transformStarts, Ready, disk
  <1>6. CASE transformOpens(c)
    <2>1. call[c].source \notin records => Unhurt(call[c])
      BY <1>4 DEF Unhurt
    <2> QED
      BY <1>2, <1>6, <2>1, MovesKeeps DEF transformOpens
  <1>7. CASE transformReads(c)
    <2>1. made[call[c].source].digest \notin objects \cap metadata => Unhurt(call[c])
      BY <1>4 DEF Unhurt
    <2> QED
      BY <1>2, <1>3, <1>7, <1>9, <2>1, MovesKeeps, EndsKeeps DEF transformReads, disk
  <1>8. CASE transformFails(c)
    BY <1>3, <1>8, <1>9, EndsKeeps DEF transformFails, disk
  <1>10. CASE transformMisled(c)
    BY <1>3, <1>9, <1>10, EndsKeeps DEF transformMisled
  <1> QED
    BY <1>5, <1>6, <1>7, <1>8, <1>10

(* A call that queues to have its record removed.                          *)
LEMMA QueuesKeeps ==
  ASSUME IInv, NEW c \in Calls, call[c].rec \in Existing,
         \/ call[c].task = "cleanup" /\ call[c].at \in {"loading", "loaded"} /\ call[c].owner \in loaded
         \/ call[c].at = "written",
         goTo(c, "unlinking record"), awaitLock(c, digestOf(c)),
         UNCHANGED <<made, load, disk>>, UNCHANGED <<current, loaded, history>>
  PROVE  IInv'
  <1>0. call[c] \in Call /\ Staged(call[c]) /\ digestOf(c) \in Digests
    BY MadeOwners DEF IInv, TypeOK, JournalTypeOK, CallsStaged, digestOf
  <1>1. PICK k : k = [call[c] EXCEPT !.at = "unlinking record"]
    OBVIOUS
  <1>2. /\ k \in Call /\ SameTask(k, call[c]) /\ k.at = "unlinking record" /\ Untouched(k)
    <2>1. Untouched(call[c])
      BY <1>0 DEF Staged
    <2> QED
      BY <1>0, <1>1, <2>1 DEF Call, Steps, SameTask, Untouched
  <1>3. call' = [call EXCEPT ![c] = k]
    BY <1>1 DEF goTo, IInv, TypeOK, JournalTypeOK
  <1>4. Staged(k)
    <2>1. call[c].task # "none" /\ ~(call[c].task = "ingest" /\ call[c].at # "written")
      BY <1>0, IdleIsCall DEF Staged
    <2>2. call[c].task = "cleanup" => CleansUp(k)
      BY <1>0, <1>2 DEF Staged, CleansUp, SameTask
    <2>3. call[c].task = "transform" => Transforms(k)
      BY <1>0, <1>2 DEF Staged, Transforms, SameTask
    <2>4. Producing(k) => Produces(k)
      BY <1>0, <1>2 DEF Staged, Produces, Producing, SameTask
    <2> QED
      BY <1>0, <1>2, <2>1, <2>2, <2>3, <2>4 DEF Staged, SameTask
  <1>5. Awaited(k)'
    BY <1>2 DEF Awaited
  <1>6. Turns(c, k)
    BY <1>0, <1>2, <1>4, <1>5
       DEF Turns, SameTask, Producing, Untouched, disk, history, IInv, TypeOK, JournalTypeOK
  <1>7. Enters(c, k)
    <2>1. ~Busy(call[c])
      BY DEF Busy
    <2>2. k.rec = call[c].rec /\ made[k.rec].digest = digestOf(c)
      BY <1>2 DEF SameTask, digestOf
    <2> QED
      BY <1>0, <1>2, <1>3, <2>1, <2>2 DEF Enters, awaitLock, disk, Existing
  <1> QED
    BY <1>6, <1>7, TurnsKeeps

LEMMA CleanupListsKeeps ==
  ASSUME IInv, NEW c \in Calls, cleanupLists(c)
  PROVE  IInv'
  <1>1. /\ call[c].task = "cleanup" /\ call[c].at \in {"loading", "loaded"} /\ ~Busy(call[c])
        /\ call[c].at = "loading" => load[call[c].owner].at = "none"
    BY DEF cleanupLists, Ready, Busy
  <1>2. Staged(call[c]) /\ Awaited(call[c])
    BY DEF IInv, CallsStaged
  <1>3. call[c].owner \in loaded /\ call[c].rec \in Existing
    BY <1>1, <1>2 DEF Staged, CleansUp, Awaited
  <1>4. mishaps \in 0 .. MaxMishaps + 1 /\ (mishap => mishaps' \in 0 .. MaxMishaps + 1)
    BY JournalAssumption DEF mishap, IInv, TypeOK, JournalTypeOK
  <1> QED
    BY <1>1, <1>3, <1>4, EndsKeeps, QueuesKeeps DEF cleanupLists, service, disk

(* A record is created and handed to the journal.                          *)
LEMMA PersistKeeps ==
  ASSUME IInv, NEW c \in Calls, NEW parent, persist(c, parent),
         \/ call[c].at = "preparing" /\ parent = NoRecord
         \/ call[c].at = "running" /\ parent = call[c].source,
         UNCHANGED <<disk, service, history>>
  PROVE  IInv'
  <1>0. /\ call \in [Calls -> Call] /\ call[c] \in Call /\ Staged(call[c])
        /\ made \in Seq(Made) /\ Len(made) \in Nat /\ answered \subseteq Existing
        /\ mishaps \in 0 .. MaxMishaps + 1
    BY DEF IInv, TypeOK, JournalTypeOK, CallsStaged, Existing
  <1>1. /\ call[c].at \in {"preparing", "running"} /\ Producing(call[c])
        /\ parent = call[c].source /\ Untouched(call[c])
        /\ call[c].source # NoRecord =>
              call[c].source \in answered /\ made[call[c].source].owner = call[c].owner
    <2>1. call[c].at = "preparing" => call[c].task = "ingest"
      BY <1>0, IdleIsCall DEF Staged, CleansUp, Transforms, Call
    <2>2. call[c].at = "running" => call[c].task = "transform"
      BY <1>0, IdleIsCall DEF Staged, CleansUp, Call
    <2> QED
      BY <1>0, <2>1, <2>2 DEF Staged, Producing, Transforms
  <1>2. PICK d, r :
          /\ d \in Digests /\ r = Len(made) + 1 /\ r \in Records
          /\ made' = Append(made, [owner |-> call[c].owner, digest |-> d, parent |-> parent])
          /\ call' = [call EXCEPT ![c].at = "checking", ![c].rec = r]
          /\ awaitLock(c, d)
    BY DEF persist
  <1>3. PICK x : x = [owner |-> call[c].owner, digest |-> d, parent |-> parent]
    OBVIOUS
  <1>4. x \in Made /\ x.owner = call[c].owner /\ x.digest = d /\ x.parent = parent
    BY <1>0, <1>1, <1>2, <1>3 DEF Made, Call
  <1>5. /\ made' = Append(made, x) /\ made' \in Seq(Made) /\ Len(made') = r
        /\ made'[r] = x /\ r \notin Existing /\ r \in 1 .. Len(made') /\ Len(made') <= MaxRecords
        /\ \A q \in Existing : q \in 1 .. Len(made') /\ made'[q] = made[q] /\ q < r
        /\ \A q \in 1 .. Len(made') : q \in Existing \/ q = r
    BY <1>0, <1>2, <1>3, <1>4, JournalAssumption DEF Existing, Records
  <1>6. PICK k : k = [call[c] EXCEPT !.at = "checking", !.rec = r]
    OBVIOUS
  <1>7. /\ k \in Call /\ k.at = "checking" /\ k.rec = r /\ k.task = call[c].task
        /\ k.owner = call[c].owner /\ k.source = call[c].source /\ k.wanted = call[c].wanted
        /\ Untouched(k) /\ Producing(k)
    BY <1>0, <1>1, <1>2, <1>6 DEF Call, Steps, Untouched, Producing
  <1>8. /\ call' = [call EXCEPT ![c] = k] /\ call'[c] = k /\ call' \in [Calls -> Call]
        /\ \A e \in Calls : e # c => call'[e] = call[e]
    BY <1>0, <1>2, <1>6, <1>7
  <1>9. /\ UNCHANGED <<records, objects, metadata, lost, mishaps, current, loaded, load,
                       answered, newest, overtaken, misread>>
        /\ \A o : CurrentOf(o)' = CurrentOf(o)
    BY DEF disk, service, history, CurrentOf
  <1>10. Enters(c, k)
    BY <1>1, <1>2, <1>4, <1>5, <1>7, <1>8, <1>9 DEF Enters, awaitLock, Busy
  <1>11. JournalInv'
    BY <1>10, EntersKeepsJournal DEF IInv
  <1>12. TypeOK'
    <2>1. locks' \in [Digests -> Seq(Calls)]
      BY <1>10, LocksTyped DEF IInv
    <2>2. records \subseteq Existing /\ \A o \in Owners : current[o] # NoRecord => current[o] \in Existing
      BY DEF IInv, TypeOK, JournalTypeOK, Existing, ServiceInv, Found
    <2> QED
      BY <1>0, <1>5, <1>8, <1>9, <2>1, <2>2 DEF IInv, TypeOK, JournalTypeOK
  <1>13. CallsStaged'
    <2>1. Staged(k)'
      <3>1. Produces(k)'
        BY <1>0, <1>1, <1>4, <1>5, <1>7, <1>9 DEF Produces, Existing
      <3>2. k.task = "transform" => Transforms(k)'
        BY <1>0, <1>5, <1>7, <1>9 DEF Staged, Transforms
      <3>3. k.task = "ingest" => k.source = NoRecord
        BY <1>0, <1>7 DEF Staged
      <3> QED
        BY <1>7, <3>1, <3>2, <3>3 DEF Staged, Producing
    <2>2. Awaited(k)'
      BY <1>7 DEF Awaited
    <2>3. ASSUME NEW e \in Calls, e # c PROVE Staged(call[e])' /\ Awaited(call[e])'
      <3>1. PICK q \in Call : q = call[e]
        BY <1>0
      <3>2. Staged(q) /\ Awaited(q)
        BY <3>1 DEF IInv, CallsStaged
      <3>3. q.task = "transform" => Transforms(q)'
        BY <1>0, <1>5, <1>9, <3>2 DEF Staged, Transforms
      <3>4. q.task = "cleanup" => CleansUp(q)'
        BY <1>0, <1>5, <1>9, <3>2 DEF Staged, CleansUp, Existing
      <3>5. Producing(q) => Produces(q)'
        BY <1>0, <1>5, <1>9, <3>2 DEF Staged, Produces, Existing
      <3>6. Staged(q)'
        BY <3>2, <3>3, <3>4, <3>5 DEF Staged
      <3>7. Awaited(q)'
        BY <1>9, <3>2 DEF Awaited
      <3> QED
        BY <1>8, <2>3, <3>1, <3>6, <3>7
    <2> QED
      BY <1>8, <2>1, <2>2, <2>3 DEF CallsStaged
  <1>14. \A e \in Calls : e # c => call[e].rec # r
    <2>1. ASSUME NEW e \in Calls PROVE call[e].rec \in Existing \cup {NoRecord}
      <3>1. call[e] \in Call /\ Staged(call[e])
        BY <1>0 DEF IInv, CallsStaged
      <3> QED
        BY <3>1, IdleIsCall DEF Staged, CleansUp, Produces, Producing, Call
    <2> QED
      BY <1>0, <1>2, <1>5, <2>1 DEF NoRecord
  <1>15. Lineage'
    <2>1. ASSUME NEW q \in Existing', made'[q].parent # NoRecord
          PROVE  /\ made'[q].parent < q /\ made'[q].parent \in answered
                 /\ made'[made'[q].parent].owner = made'[q].owner
      <3>1. CASE q = r
        BY <1>0, <1>1, <1>4, <1>5, <2>1, <3>1
      <3>2. CASE q \in Existing
        <4>1. /\ made'[q] = made[q] /\ made[q].parent < q /\ made[q].parent \in answered
              /\ made[made[q].parent].owner = made[q].owner
          BY <1>5, <2>1, <3>2 DEF IInv, ServiceInv, Lineage
        <4> QED
          BY <1>0, <1>5, <4>1
      <3> QED
        BY <1>5, <2>1, <3>1, <3>2 DEF Existing
    <2> QED
      BY <1>9, <2>1 DEF Lineage
  <1>16. OneMaker' /\ WrittenThere' /\ Untaken'
    <2>1. OneMaker'
      BY <1>7, <1>8, <1>14 DEF IInv, ServiceInv, OneMaker, Producing
    <2>2. WrittenThere'
      BY <1>7, <1>8, <1>9 DEF IInv, ServiceInv, WrittenThere
    <2>3. Untaken'
      BY <1>7, <1>8, <1>14 DEF IInv, ServiceInv, Untaken, Producing, Untouched
    <2> QED
      BY <2>1, <2>2, <2>3
  <1>17. Found' /\ Listed' /\ CurrentThere' /\ NewestCurrent'
    <2>3. Listed'
      <3>1. answered \cap records \subseteq Existing
        BY <1>0
      <3> QED
        BY <1>5, <1>9, <3>1 DEF IInv, ServiceInv, Listed, Existing
    <2>1. Found'
      BY <1>5, <1>9 DEF IInv, ServiceInv, Found, Existing
    <2>2. CurrentThere' /\ NewestCurrent'
      BY <1>9 DEF IInv, ServiceInv, CurrentThere, NewestCurrent
    <2> QED
      BY <2>1, <2>2, <2>3
  <1>18. RemovedNotNewest'
    BY <1>7, <1>8, <1>9 DEF IInv, ServiceInv, RemovedNotNewest, Untouched
  <1>19. \A q : Kept(q)' => Kept(q)
    BY <1>7, <1>8, <1>9 DEF Kept, Untouched
  <1>20. \A q \in answered : made'[q] = made[q]
    BY <1>0, <1>5
  <1>21. ChildKnown'
    BY <1>9, <1>19, <1>20 DEF IInv, ServiceInv, ChildKnown
  <1>22. OnlyChild'
    BY <1>9, <1>19, <1>20 DEF IInv, ServiceInv, OnlyChild
  <1>23. SourceStaysReadable'
    <2>1. ASSUME NEW e \in Calls, call'[e].at = "unread"
          PROVE  call'[e] = call[e] /\ made'[call[e].source] = made[call[e].source]
      <3>1. call'[e] = call[e]
        BY <1>7, <1>8, <2>1
      <3>2. Staged(call[e]) /\ call[e] \in Call /\ call[e].at = "unread"
        BY <1>0, <2>1, <3>1 DEF IInv, CallsStaged
      <3>3. call[e].task = "transform"
        BY <3>2, IdleIsCall DEF Staged, CleansUp, Call
      <3> QED
        BY <1>20, <3>1, <3>2, <3>3 DEF Staged, Transforms
    <2> QED
      BY <1>9, <2>1 DEF IInv, ServiceInv, SourceStaysReadable
  <1> QED
    BY <1>11, <1>12, <1>13, <1>15, <1>16, <1>17, <1>18, <1>21, <1>22, <1>23 DEF IInv, ServiceInv

(* A record is published.                                                  *)
LEMMA PublishKeeps ==
  ASSUME IInv, NEW c \in Calls, publish(c)
  PROVE  IInv'
  <1>0. /\ call \in [Calls -> Call] /\ call[c] \in Call /\ Staged(call[c])
        /\ call[c].at = "written" /\ ~Busy(call[c]) /\ answered \subseteq Existing
    BY DEF IInv, TypeOK, JournalTypeOK, CallsStaged, publish, Busy, Existing
  <1>1. PICK r, o : r = call[c].rec /\ o = call[c].owner
    OBVIOUS
  <1>2. Producing(call[c])
    BY <1>0, IdleIsCall DEF Staged, CleansUp, Producing, Call
  <1>3. /\ r \in Existing /\ r \notin answered /\ made[r].owner = o
        /\ made[r].parent = call[c].source /\ o \in Owners /\ r # NoRecord
    BY <1>0, <1>1, <1>2, ExistingIsSome, MadeOwners DEF Staged, Produces, IInv
  <1>4. CASE ~valid(c)
    BY <1>0, <1>1, <1>3, <1>4, QueuesKeeps DEF publish, digestOf, disk, history
  <1>5. CASE valid(c)
    <2>1. /\ current' = [current EXCEPT ![o] = r] /\ loaded' = loaded \cup {o}
          /\ answered' = answered \cup {r} /\ newest' = [newest EXCEPT ![o] = r] /\ end(c)
          /\ UNCHANGED <<made, records, objects, metadata, locks, lost, mishaps, load, overtaken, misread>>
      BY <1>1, <1>5 DEF publish
    <2>2. /\ r \in records /\ call[c].wanted
          /\ made[r].parent # NoRecord => CurrentOf(o) = made[r].parent
      <3>1. call[c].wanted /\ (call[c].task = "transform" => CurrentOf(o) = made[r].parent)
        BY <1>1, <1>3, <1>5 DEF valid
      <3>2. call[c].task # "transform" => made[r].parent = NoRecord
        BY <1>0, <1>2, <1>3 DEF Staged, Producing
      <3> QED
        BY <1>0, <1>1, <3>1, <3>2 DEF IInv, ServiceInv, WrittenThere
    <2>3. /\ call' \in [Calls -> Call] /\ call'[c] = Idle
          /\ \A e \in Calls : e # c => call'[e] = call[e]
      BY <1>0, <2>1, IdleIsCall DEF end
    <2>4. /\ current' \in [Owners -> Records \cup {NoRecord}] /\ current'[o] = r
          /\ newest' \in [Owners -> Records \cup {NoRecord}] /\ newest'[o] = r
          /\ CurrentOf(o)' = r
          /\ \A p \in Owners : p # o => /\ current'[p] = current[p] /\ newest'[p] = newest[p]
                                        /\ (p \in loaded' <=> p \in loaded)
                                        /\ CurrentOf(p)' = CurrentOf(p)
      <3>1. /\ current \in [Owners -> Records \cup {NoRecord}]
            /\ newest \in [Owners -> Records \cup {NoRecord}] /\ r \in Records
        BY <1>0, <1>1, <1>3 DEF IInv, TypeOK, Call
      <3> QED
        BY <1>3, <2>1, <3>1 DEF CurrentOf
    <2>5. TypeOK'
      BY <1>3, <2>1, <2>3, <2>4 DEF IInv, TypeOK, JournalTypeOK, Existing
    <2>6. CallsStaged'
      <3>1. Staged(Idle)' /\ Awaited(Idle)'
        BY IdleIsCall DEF Staged, Awaited, Producing, Untouched
      <3>2. ASSUME NEW e \in Calls, e # c PROVE Staged(call[e])' /\ Awaited(call[e])'
        <4>1. PICK q \in Call : q = call[e]
          BY <1>0
        <4>2. Staged(q) /\ Awaited(q) /\ (Producing(q) => q.rec # r)
          BY <1>1, <1>2, <1>3, <3>2, <4>1 DEF IInv, CallsStaged, ServiceInv, OneMaker
        <4>3. Transforms(q) => Transforms(q)'
          BY <2>1 DEF Transforms
        <4>4. CleansUp(q) => CleansUp(q)'
          BY <2>1 DEF CleansUp, Existing
        <4>5. Producing(q) => Produces(q)'
          BY <2>1, <4>2 DEF Staged, Produces, Existing
        <4>6. Staged(q)'
          BY <4>2, <4>3, <4>4, <4>5 DEF Staged
        <4>7. Awaited(q)'
          BY <2>1, <4>2 DEF Awaited
        <4> QED
          BY <2>3, <3>2, <4>1, <4>6, <4>7
      <3> QED
        BY <2>3, <3>1, <3>2 DEF CallsStaged
    <2>7. JournalInv'
      <3>1. PICK k : k = Idle
        OBVIOUS
      <3>2. Quiet(c, k)
        BY <1>0, <2>1, <3>1, IdleIsCall DEF Quiet, end, Busy
      <3> QED
        BY <3>2, QuietKeepsJournal DEF IInv
    <2>8. Lineage'
      BY <2>1 DEF IInv, ServiceInv, Lineage, Existing
    <2>9. OneMaker' /\ WrittenThere' /\ Untaken'
      BY <2>1, <2>3, IdleIsCall
         DEF IInv, ServiceInv, OneMaker, WrittenThere, Untaken, Producing
    <2>10. Found'
      BY <1>3, <2>1, <2>4 DEF IInv, ServiceInv, Found, Existing
    <2>21. Listed'
      BY <1>3, <2>1 DEF IInv, ServiceInv, Listed, Existing
    <2>11. \A p \in Owners : p # o => CurrentOf(p) # r /\ load[p].found # r
      BY <1>3 DEF IInv, TypeOK, ServiceInv, Found, CurrentOf
    <2>12. CurrentThere'
      <3>1. ASSUME NEW p \in Owners, p \notin overtaken
            PROVE  /\ CurrentOf(p)' \in answered' => CurrentOf(p)' \in records'
                   /\ p \notin loaded' /\ load'[p].at = "read" /\ load'[p].found \in answered' =>
                         load'[p].found \in records'
        <4>1. CASE p = o
          BY <2>1, <2>2, <2>4, <4>1
        <4>2. CASE p # o
          BY <2>1, <2>4, <2>11, <3>1, <4>2 DEF IInv, ServiceInv, CurrentThere
        <4> QED
          BY <4>1, <4>2
      <3> QED
        BY <2>1, <3>1 DEF CurrentThere
    <2>13. NewestCurrent'
      BY <2>1, <2>4 DEF IInv, ServiceInv, NewestCurrent
    <2>14. RemovedNotNewest'
      <3>1. ASSUME NEW e \in Calls, call'[e].task = "cleanup", call'[e].recordRemoved,
                   call'[e].owner \notin overtaken', newest'[call'[e].owner] = call'[e].rec
            PROVE  FALSE
        <4>1. e # c /\ call'[e] = call[e] /\ call[e].owner \in Owners
          BY <1>0, <2>3, <3>1, IdleIsCall DEF Call
        <4>2. call[e].rec # r
          BY <1>1, <1>2, <2>2, <3>1, <4>1 DEF IInv, ServiceInv, Untaken
        <4>3. call[e].owner # o
          BY <2>4, <3>1, <4>1, <4>2
        <4> QED
          BY <2>1, <2>4, <3>1, <4>1, <4>3 DEF IInv, ServiceInv, RemovedNotNewest
      <3> QED
        BY <3>1 DEF RemovedNotNewest
    <2>15. \A q : Kept(q)' => Kept(q)
      BY <2>1, <2>3, IdleIsCall DEF Kept
    <2>16. \A q \in answered : made[q].parent # NoRecord =>
              made[q].parent \in answered /\ made[made[q].parent].owner = made[q].owner
      BY <1>0 DEF IInv, ServiceInv, Lineage
    <2>17. made[r].parent # NoRecord =>
              made[r].parent \in answered /\ made[made[r].parent].owner = o
      BY <1>3 DEF IInv, ServiceInv, Lineage
    <2>18. ChildKnown'
      <3>1. ASSUME NEW q \in answered', made[q].parent # NoRecord,
                   made[q].owner \notin overtaken \cup misread, Kept(q)'
            PROVE  /\ CurrentOf(made[q].owner)' # made[q].parent
                   /\ made[q].owner \notin loaded' /\ load[made[q].owner].at = "read" =>
                         load[made[q].owner].found # made[q].parent
        <4>1. made[q].parent \in answered /\ made[q].owner \in Owners
          BY <1>0, <1>3, <2>1, <2>16, <2>17, <3>1, MadeOwners DEF IInv
        <4>2. CASE made[q].owner = o
          BY <1>3, <2>1, <2>4, <4>1, <4>2
        <4>3. CASE made[q].owner # o
          BY <1>3, <2>1, <2>4, <2>15, <3>1, <4>1, <4>3 DEF IInv, ServiceInv, ChildKnown
        <4> QED
          BY <4>2, <4>3
      <3> QED
        BY <2>1, <3>1 DEF ChildKnown
    <2>19. OnlyChild'
      <3>1. ASSUME NEW q \in answered, Kept(q), made[q].parent # NoRecord,
                   made[q].parent = made[r].parent, made[q].owner \notin overtaken \cup misread
            PROVE  FALSE
        BY <2>2, <2>16, <2>17, <3>1 DEF IInv, ServiceInv, ChildKnown
      <3>2. \A q \in answered : made[q].parent # NoRecord /\ made[q].parent = made[r].parent =>
               made[q].owner = made[r].owner
        BY <1>3, <2>16, <2>17
      <3> QED
        BY <2>1, <2>15, <3>1, <3>2 DEF IInv, ServiceInv, OnlyChild
    <2>20. SourceStaysReadable'
      <3>1. ASSUME NEW e \in Calls, call'[e].at = "unread"
            PROVE  \E q \in Call : q = call'[e] /\ Unhurt(q)'
        <4>1. PICK q \in Call : q = call[e]
          BY <1>0
        <4>2. e # c /\ call'[e] = q /\ q.at = "unread" /\ Staged(q) /\ Unhurt(q)
          BY <2>3, <3>1, <4>1, IdleIsCall
             DEF IInv, CallsStaged, ServiceInv, SourceStaysReadable, Unhurt
        <4>3. q.task = "transform" /\ q.owner \in Owners
          BY <4>2, IdleIsCall DEF Staged, CleansUp, Call
        <4>4. q.source # r
          BY <1>3, <4>2, <4>3 DEF Staged, Transforms
        <4>5. CASE q.owner = o
          BY <2>4, <4>2, <4>4, <4>5 DEF Unhurt
        <4>6. CASE q.owner # o
          BY <2>1, <2>4, <4>2, <4>3, <4>6 DEF Unhurt
        <4> QED
          BY <4>2, <4>5, <4>6
      <3> QED
        BY <3>1 DEF SourceStaysReadable, Unhurt
    <2> QED
      BY <2>5, <2>6, <2>7, <2>8, <2>9, <2>10, <2>12, <2>13, <2>14, <2>18, <2>19, <2>20, <2>21
         DEF IInv, ServiceInv
  <1> QED
    BY <1>4, <1>5

-----------------------------------------------------------------------------
(* The reads of the journal, and the restart.                              *)

(* A set of records that exist has a youngest.                             *)
LEMMA Youngest ==
  ASSUME NEW n \in Nat, NEW S \in SUBSET (1 .. n), S # {}
  PROVE  \E r \in S : \A q \in S : q <= r
  <1>1. PICK T : T = {n - r : r \in S}
    OBVIOUS
  <1>2. T \subseteq Nat /\ T # {}
    <2>1. \A r \in S : n - r \in Nat
      OBVIOUS
    <2> QED
      BY <1>1, <2>1
  <1>3. PICK x \in T : \A y \in T : ~(<<y, x>> \in OpToRel(<, Nat))
    BY <1>2, WFMin, NatLessThanWellFounded
  <1>4. \A y \in T : ~(y < x)
    BY <1>2, <1>3 DEF OpToRel
  <1>5. PICK r \in S : x = n - r
    BY <1>1, <1>3
  <1>6. \A q \in S : n - q \in T
    BY <1>1
  <1> QED
    BY <1>4, <1>5, <1>6

LEMMA LatestIsYoungest ==
  ASSUME NEW n \in Nat, NEW S \in SUBSET (1 .. n)
  PROVE  /\ latest(S) # NoRecord => latest(S) \in S
         /\ \A q \in S : latest(S) \in S /\ q <= latest(S)
  <1>1. CASE S = {}
    BY <1>1 DEF latest
  <1>2. CASE S # {}
    <2>1. \E r \in S : \A q \in S : q <= r
      BY <1>2, Youngest
    <2>2. latest(S) = CHOOSE r \in S : \A q \in S : q <= r
      BY <1>2 DEF latest
    <2> QED
      BY <2>1, <2>2
  <1> QED
    BY <1>1, <1>2

(* A step of the read of an owner's records, short of its last.            *)
LEMMA LoadStepKeeps ==
  ASSUME IInv, NEW o \in Owners, load[o].at # "none",
         NEW l \in Load, load' = [load EXCEPT ![o] = l], l.at \in {"reading", "read"},
         mishaps' \in 0 .. MaxMishaps + 1,
         UNCHANGED <<made, records, objects, metadata, locks, lost, call>>,
         UNCHANGED <<current, loaded, answered, newest, overtaken>>,
         misread \subseteq misread', misread' \subseteq Owners,
         l.found # NoRecord => l.found \in records /\ made[l.found].owner = o,
         l.at = "reading" => l.found = NoRecord /\ l.listed = {r \in records : made[r].owner = o},
         l.at = "read" /\ o \notin loaded /\ o \notin misread' =>
             \A q \in answered : made[q].parent # NoRecord /\ made[q].owner = o /\ q \in records =>
                 l.found # made[q].parent
  PROVE  IInv'
  <1>0. load \in [Owners -> Load] /\ records \subseteq Existing
    BY DEF IInv, TypeOK, JournalTypeOK, Existing
  <1>2. \A p : CurrentOf(p)' = CurrentOf(p)
    BY DEF CurrentOf
  <1>5. /\ load' \in [Owners -> Load] /\ load'[o] = l
        /\ \A p \in Owners : p # o => load'[p] = load[p]
    BY <1>0
  <1>6. TypeOK'
    BY <1>5 DEF IInv, TypeOK, JournalTypeOK
  <1>7. CallsStaged'
    <2>1. ASSUME NEW e \in Calls PROVE Staged(call[e])' /\ Awaited(call[e])'
      <3>1. PICK q \in Call : q = call[e]
        BY DEF IInv, TypeOK, JournalTypeOK
      <3>2. Staged(q) /\ Awaited(q) /\ q.owner \in Owners
        BY <3>1 DEF IInv, CallsStaged, Call
      <3>3. Staged(q)'
        BY <3>2 DEF Staged, CleansUp, Transforms, Produces, Producing, Existing
      <3>4. Awaited(q)'
        BY <1>5, <3>2 DEF Awaited
      <3> QED
        BY <3>1, <3>3, <3>4
    <2> QED
      BY <2>1 DEF CallsStaged
  <1>8. JournalInv'
    BY IdleKeepsJournal DEF IInv
  <1>9. Lineage' /\ OneMaker' /\ WrittenThere' /\ Untaken' /\ NewestCurrent' /\ RemovedNotNewest'
    BY DEF IInv, ServiceInv, Lineage, OneMaker, WrittenThere, Untaken, NewestCurrent,
           RemovedNotNewest, Producing, Existing
  <1>10. Found' /\ Listed'
    <2>1. Found'
      BY <1>0, <1>5 DEF IInv, ServiceInv, Found, Existing
    <2>2. ASSUME NEW p \in Owners, load'[p].at = "reading"
          PROVE  /\ \A q \in load'[p].listed : q \in Existing /\ made[q].owner = p
                 /\ p \notin loaded =>
                       \A q \in answered \cap records : made[q].owner = p => q \in load'[p].listed
      <3>1. CASE p = o
        BY <1>0, <1>5, <2>2, <3>1
      <3>2. CASE p # o
        BY <1>5, <2>2, <3>2 DEF IInv, ServiceInv, Listed
      <3> QED
        BY <3>1, <3>2
    <2> QED
      BY <2>1, <2>2 DEF Listed, Existing
  <1>11. CurrentThere'
    <2>1. NoRecord \notin answered
      BY DEF IInv, TypeOK, NoRecord, JournalTypeOK
    <2> QED
      BY <1>2, <1>5, <2>1 DEF IInv, ServiceInv, CurrentThere
  <1>13. \A q : Kept(q)' <=> Kept(q)
    BY DEF Kept
  <1>14. ChildKnown'
    <2>1. ASSUME NEW q \in answered, made[q].parent # NoRecord, Kept(q),
                 made[q].owner \notin overtaken \cup misread'
          PROVE  /\ CurrentOf(made[q].owner)' # made[q].parent
                 /\ made[q].owner \notin loaded /\ load'[made[q].owner].at = "read" =>
                       load'[made[q].owner].found # made[q].parent
      <3>1. PICK p \in Owners : p = made[q].owner
        BY MadeOwners DEF IInv, TypeOK, Existing
      <3>2. /\ CurrentOf(p) # made[q].parent
            /\ p \notin loaded /\ load[p].at = "read" => load[p].found # made[q].parent
        BY <2>1, <3>1 DEF IInv, ServiceInv, ChildKnown
      <3>3. CASE p = o
        <4>1. p \notin loaded => q \in records
          BY <2>1, <3>1, RemoverLoaded DEF Kept
        <4> QED
          BY <1>2, <1>5, <2>1, <3>1, <3>2, <3>3, <4>1
      <3>4. CASE p # o
        BY <1>2, <1>5, <3>1, <3>2, <3>4
      <3> QED
        BY <3>3, <3>4
    <2> QED
      BY <1>13, <2>1 DEF ChildKnown
  <1>15. OnlyChild' /\ SourceStaysReadable'
    <2>1. OnlyChild'
      BY <1>13 DEF IInv, ServiceInv, OnlyChild
    <2>2. SourceStaysReadable'
      BY <1>2 DEF IInv, ServiceInv, SourceStaysReadable
    <2> QED
      BY <2>1, <2>2
  <1> QED
    BY <1>6, <1>7, <1>8, <1>9, <1>10, <1>11, <1>14, <1>15 DEF IInv, ServiceInv

LEMMA LoadListsKeeps ==
  ASSUME IInv, NEW o \in Owners, loadLists(o)
  PROVE  IInv'
  <1>1. PICK ok \in BOOLEAN :
          /\ io(ok)
          /\ load' = [load EXCEPT ![o] =
                [NoLoad EXCEPT !.at = IF ok THEN "reading" ELSE "read",
                               !.listed = IF ok THEN listed(o) ELSE {}]]
    BY DEF loadLists
  <1>2. PICK l : l = [NoLoad EXCEPT !.at = IF ok THEN "reading" ELSE "read",
                                    !.listed = IF ok THEN listed(o) ELSE {}]
    OBVIOUS
  <1>3. records \subseteq Records
    BY JournalAssumption DEF IInv, TypeOK, JournalTypeOK, Records
  <1>4. /\ l \in Load /\ l.found = NoRecord /\ l.at = IF ok THEN "reading" ELSE "read"
        /\ l.at = "reading" => l.listed = listed(o)
    BY <1>2, <1>3 DEF NoLoad, Load, listed
  <1>5. mishaps' \in 0 .. MaxMishaps + 1
    BY <1>1, IoMishaps DEF IInv, TypeOK, JournalTypeOK
  <1>6. \A q \in answered : made[q].parent # NoRecord => l.found # made[q].parent
    BY <1>4
  <1>7. misread \subseteq Owners
    BY DEF IInv, TypeOK
  <1>8. load' = [load EXCEPT ![o] = l]
    BY <1>1, <1>2
  <1>9. l.at \in {"reading", "read"} /\ (l.at = "reading" => l.listed = {r \in records : made[r].owner = o})
    BY <1>4 DEF listed
  <1>10. /\ load[o].at # "none"
         /\ UNCHANGED <<made, records, objects, metadata, locks, lost, call>>
         /\ UNCHANGED <<current, loaded, answered, newest, overtaken, misread>>
    BY DEF loadLists, history
  <1> QED
    BY <1>4, <1>5, <1>6, <1>7, <1>8, <1>9, <1>10, LoadStepKeeps

LEMMA LoadReadsKeeps ==
  ASSUME IInv, NEW o \in Owners, loadReads(o)
  PROVE  IInv'
  <1>1. PICK there : there = load[o].listed \cap records
    OBVIOUS
  <1>2. PICK unread \in SUBSET there :
          /\ ioAgain(unread = {})
          /\ load' = [load EXCEPT ![o] =
                [NoLoad EXCEPT !.at = "read", !.found = latest(there \ unread)]]
          /\ misread' = IF latest(there \ unread) \in {NoRecord, latest(there)}
                        THEN misread ELSE misread \cup {o}
    BY <1>1 DEF loadReads
  <1>3. PICK found : found = latest(there \ unread)
    OBVIOUS
  <1>4. PICK l : l = [NoLoad EXCEPT !.at = "read", !.found = found]
    OBVIOUS
  <1>5. /\ load[o].at = "reading" /\ Len(made) \in Nat /\ there \subseteq 1 .. Len(made)
        /\ \A q \in there : q \in records /\ made[q].owner = o
        /\ records \subseteq Records
    BY <1>1, JournalAssumption
       DEF loadReads, IInv, TypeOK, JournalTypeOK, ServiceInv, Listed, Existing, Records
  <1>6. found # NoRecord => found \in there
    BY <1>3, <1>5, LatestIsYoungest
  <1>7. l \in Load /\ l.at = "read" /\ l.found = found
    BY <1>4, <1>5, <1>6 DEF NoLoad, Load
  <1>8. load' = [load EXCEPT ![o] = l]
    BY <1>2, <1>3, <1>4
  <1>9. mishaps' \in 0 .. MaxMishaps + 1
    BY <1>2, IoAgainMishaps DEF IInv, TypeOK, JournalTypeOK
  <1>10. misread \subseteq misread' /\ misread' \subseteq Owners
    BY <1>2 DEF IInv, TypeOK
  <1>11. ASSUME NEW q \in answered, o \notin loaded, o \notin misread',
                made[q].parent # NoRecord, made[q].owner = o, q \in records
         PROVE  found # made[q].parent
    <2>1. q \in there
      BY <1>1, <1>5, <1>11 DEF IInv, ServiceInv, Listed
    <2>2. latest(there) \in there /\ q <= latest(there)
      BY <1>5, <2>1, LatestIsYoungest
    <2>3. made[q].parent < q /\ made[q].parent \in 1 .. Len(made)
      BY <1>5, <1>11 DEF IInv, ServiceInv, Lineage, Existing, TypeOK, JournalTypeOK
    <2>4. found = NoRecord \/ found = latest(there)
      BY <1>2, <1>3, <1>11
    <2>5. CASE found = latest(there)
      <3>1. PICK p \in 1 .. Len(made) : p = made[q].parent
        BY <2>3
      <3>2. found \in 1 .. Len(made) /\ p < q /\ q <= found /\ q \in 1 .. Len(made)
        BY <1>5, <2>1, <2>2, <2>3, <2>5, <3>1
      <3>3. found # p
        BY <1>5, <3>2
      <3> QED
        BY <3>1, <3>3
    <2> QED
      BY <1>11, <2>4, <2>5
  <1>12. /\ UNCHANGED <<made, records, objects, metadata, locks, lost, call>>
         /\ UNCHANGED <<current, loaded, answered, newest, overtaken>>
    BY DEF loadReads
  <1> QED
    BY <1>5, <1>6, <1>7, <1>8, <1>9, <1>10, <1>11, <1>12, LoadStepKeeps

LEMMA LoadResolvesKeeps ==
  ASSUME IInv, NEW o \in Owners, loadResolves(o)
  PROVE  IInv'
  <1>0. load \in [Owners -> Load] /\ current \in [Owners -> Records \cup {NoRecord}]
    BY DEF IInv, TypeOK
  <1>1. PICK found \in Records \cup {NoRecord} : found = load[o].found
    BY <1>0 DEF Load
  <1>2. /\ load[o].at = "read" /\ current' = [current EXCEPT ![o] = found]
        /\ loaded' = loaded \cup {o} /\ load' = [load EXCEPT ![o] = NoLoad]
        /\ UNCHANGED <<made, records, objects, metadata, locks, lost, mishaps, call,
                       answered, newest, misread>>
        /\ overtaken' = IF o \in loaded THEN overtaken \cup {o} ELSE overtaken
    BY <1>1 DEF loadResolves, journal
  <1>3. /\ NoLoad \in Load /\ NoLoad.at = "none" /\ NoLoad.found = NoRecord
        /\ load' \in [Owners -> Load] /\ load'[o] = NoLoad
        /\ current' \in [Owners -> Records \cup {NoRecord}] /\ current'[o] = found
        /\ CurrentOf(o)' = found
        /\ \A p \in Owners : p # o => /\ load'[p] = load[p] /\ current'[p] = current[p]
                                      /\ (p \in loaded' <=> p \in loaded)
                                      /\ CurrentOf(p)' = CurrentOf(p)
                                      /\ (p \in overtaken' <=> p \in overtaken)
        /\ o \in loaded' /\ (o \in overtaken' <=> o \in loaded \/ o \in overtaken)
    BY <1>0, <1>2 DEF NoLoad, Load, CurrentOf
  <1>4. found # NoRecord => found \in Existing /\ made[found].owner = o
    BY <1>1 DEF IInv, ServiceInv, Found
  <1>5. TypeOK'
    BY <1>2, <1>3, <1>4 DEF IInv, TypeOK, JournalTypeOK
  <1>6. CallsStaged'
    <2>1. ASSUME NEW e \in Calls PROVE Staged(call[e])' /\ Awaited(call[e])'
      <3>1. PICK q \in Call : q = call[e]
        BY DEF IInv, TypeOK, JournalTypeOK
      <3>2. Staged(q) /\ Awaited(q) /\ q.owner \in Owners
        BY <3>1 DEF IInv, CallsStaged, Call
      <3>3. Staged(q)'
        BY <1>2, <3>2 DEF Staged, CleansUp, Transforms, Produces, Producing, Existing
      <3>4. Awaited(q)'
        BY <1>3, <3>2 DEF Awaited
      <3> QED
        BY <1>2, <3>1, <3>3, <3>4
    <2> QED
      BY <2>1 DEF CallsStaged
  <1>7. JournalInv'
    BY <1>2, IdleKeepsJournal DEF IInv
  <1>8. Lineage' /\ OneMaker' /\ WrittenThere' /\ Untaken'
    BY <1>2 DEF IInv, ServiceInv, Lineage, OneMaker, WrittenThere, Untaken, Producing, Existing
  <1>9. Found'
    BY <1>2, <1>3, <1>4 DEF IInv, ServiceInv, Found, Existing
  <1>17. Listed'
    BY <1>2, <1>3 DEF IInv, ServiceInv, Listed, Existing
  <1>10. CurrentThere'
    BY <1>1, <1>2, <1>3 DEF IInv, ServiceInv, CurrentThere
  <1>11. NewestCurrent'
    BY <1>2, <1>3 DEF IInv, ServiceInv, NewestCurrent
  <1>12. RemovedNotNewest'
    BY <1>2 DEF IInv, ServiceInv, RemovedNotNewest
  <1>13. \A q : Kept(q)' <=> Kept(q)
    BY <1>2 DEF Kept
  <1>14. ChildKnown'
    <2>1. ASSUME NEW q \in answered, made[q].parent # NoRecord,
                 made[q].owner \notin overtaken' \cup misread, Kept(q)
          PROVE  /\ CurrentOf(made[q].owner)' # made[q].parent
                 /\ made[q].owner \notin loaded' /\ load'[made[q].owner].at = "read" =>
                       load'[made[q].owner].found # made[q].parent
      <3>1. made[q].owner \in Owners
        BY MadeOwners DEF IInv, TypeOK, Existing
      <3>2. CASE made[q].owner = o
        <4>1. o \notin loaded /\ o \notin overtaken \cup misread
          BY <1>3, <2>1, <3>2
        <4>2. load[o].found # made[q].parent
          BY <1>2, <2>1, <3>2, <4>1 DEF IInv, ServiceInv, ChildKnown
        <4> QED
          BY <1>1, <1>2, <1>3, <3>2, <4>2
      <3>3. CASE made[q].owner # o
        <4>1. PICK p \in Owners : p = made[q].owner
          BY <3>1
        <4>2. /\ p # o /\ p \notin overtaken \cup misread
              /\ CurrentOf(p)' = CurrentOf(p) /\ load'[p] = load[p]
              /\ p \in loaded' <=> p \in loaded
          BY <1>2, <1>3, <2>1, <3>3, <4>1
        <4>3. /\ CurrentOf(p) # made[q].parent
              /\ p \notin loaded /\ load[p].at = "read" => load[p].found # made[q].parent
          BY <2>1, <4>1, <4>2 DEF IInv, ServiceInv, ChildKnown
        <4> QED
          BY <1>2, <4>1, <4>2, <4>3
      <3> QED
        BY <3>2, <3>3
    <2> QED
      BY <1>2, <1>13, <2>1 DEF ChildKnown
  <1>15. OnlyChild'
    BY <1>2, <1>13 DEF IInv, ServiceInv, OnlyChild
  <1>16. SourceStaysReadable'
    <2>1. ASSUME NEW e \in Calls, call[e].at = "unread" PROVE Unhurt(call[e])'
      <3>1. PICK q \in Call : q = call[e]
        BY DEF IInv, TypeOK, JournalTypeOK
      <3>2. q.at = "unread" /\ Staged(q) /\ Unhurt(q)
        BY <2>1, <3>1 DEF IInv, CallsStaged, ServiceInv, SourceStaysReadable, Unhurt
      <3>3. q.task = "transform" /\ q.owner \in Owners
        BY <3>2, IdleIsCall DEF Staged, CleansUp, Call
      <3>4. q.owner \in loaded
        BY <3>2, <3>3 DEF Staged, Transforms
      <3>5. Unhurt(q)'
        BY <1>2, <1>3, <3>2, <3>3, <3>4 DEF Unhurt
      <3> QED
        BY <1>2, <3>1, <3>5
    <2> QED
      BY <1>2, <2>1 DEF SourceStaysReadable, Unhurt
  <1> QED
    BY <1>5, <1>6, <1>7, <1>8, <1>9, <1>10, <1>11, <1>12, <1>14, <1>15, <1>16, <1>17
       DEF IInv, ServiceInv

LEMMA RestartKeeps ==
  ASSUME IInv, restart
  PROVE  IInv'
  <1>1. /\ \A c \in Calls : call'[c] = Idle
        /\ loaded' = {} /\ \A o \in Owners : load'[o] = NoLoad /\ current'[o] = NoRecord /\ newest'[o] = NoRecord
        /\ UNCHANGED <<made, records, objects, metadata, lost, answered, overtaken, misread>>
        /\ \A o : CurrentOf(o)' = NoRecord
    BY DEF restart, CurrentOf
  <1>2. NoLoad \in Load /\ NoLoad.at = "none" /\ NoLoad.found = NoRecord
    BY DEF NoLoad, Load
  <1>3. TypeOK'
    <2>1. /\ locks' \in [Digests -> Seq(Calls)] /\ call' \in [Calls -> Call]
          /\ load' \in [Owners -> Load] /\ current' \in [Owners -> Records \cup {NoRecord}]
          /\ newest' \in [Owners -> Records \cup {NoRecord}] /\ mishaps' \in 0 .. MaxMishaps + 1
      BY <1>2, IdleIsCall, JournalAssumption DEF restart, mishap, IInv, TypeOK, JournalTypeOK
    <2> QED
      BY <1>1, <2>1 DEF IInv, TypeOK, JournalTypeOK
  <1>4. CallsStaged'
    <2>1. Staged(Idle)' /\ Awaited(Idle)'
      BY IdleIsCall DEF Staged, Awaited, Producing, Untouched
    <2> QED
      BY <1>1, <2>1 DEF CallsStaged
  <1>5. JournalInv'
    BY RestartKeepsJournal DEF IInv
  <1>6. Lineage'
    BY <1>1 DEF IInv, ServiceInv, Lineage, Existing
  <1>7. OneMaker' /\ WrittenThere' /\ Untaken' /\ RemovedNotNewest' /\ SourceStaysReadable'
    BY <1>1, IdleIsCall
       DEF OneMaker, WrittenThere, Untaken, RemovedNotNewest, SourceStaysReadable, Producing
  <1>8. Found' /\ Listed' /\ NewestCurrent'
    BY <1>1, <1>2 DEF Found, Listed, NewestCurrent
  <1>9. CurrentThere'
    BY <1>1, <1>2 DEF CurrentThere, IInv, TypeOK, JournalTypeOK, NoRecord
  <1>10. \A q : Kept(q)' => Kept(q)
    BY <1>1, IdleIsCall DEF Kept
  <1>11. ChildKnown'
    <2>1. \A q \in answered : made[q].owner \in Owners
      BY MadeOwners DEF IInv, TypeOK, Existing
    <2> QED
      BY <1>1, <1>2, <2>1 DEF ChildKnown
  <1>12. OnlyChild'
    BY <1>1, <1>10 DEF IInv, ServiceInv, OnlyChild
  <1> QED
    BY <1>3, <1>4, <1>5, <1>6, <1>7, <1>8, <1>9, <1>11, <1>12 DEF IInv, ServiceInv

-----------------------------------------------------------------------------
(* The invariant.                                                          *)

LEMMA InitInv == Init => IInv
  <1> SUFFICES ASSUME Init PROVE IInv
    OBVIOUS
  <1>1. PICK d \in Digests : /\ made = << [owner |-> Idle.owner, digest |-> d, parent |-> NoRecord] >>
                             /\ objects = {d} /\ metadata = {d}
    BY JournalAssumption DEF Init
  <1>2. PICK x : x = [owner |-> Idle.owner, digest |-> d, parent |-> NoRecord]
    OBVIOUS
  <1>3. x \in Made /\ x.parent = NoRecord /\ x.owner = Idle.owner /\ x.digest = d
    BY <1>2, IdleIsCall DEF Made
  <1>4. /\ made = <<x>> /\ Len(made) = 1 /\ made \in Seq(Made) /\ made[1] = x
        /\ \A r \in Existing : r = 1
    BY <1>1, <1>2, <1>3 DEF Existing
  <1>5. /\ records = {1} /\ answered = {1} /\ lost = {} /\ mishaps = 0 /\ overtaken = {} /\ misread = {}
        /\ loaded = {}
        /\ \A c \in Calls : call[c] = Idle
        /\ \A o \in Owners : load[o] = NoLoad /\ current[o] = NoRecord /\ newest[o] = NoRecord
        /\ \A o : CurrentOf(o) = NoRecord
        /\ \A e \in Digests : locks[e] = <<>>
    BY DEF Init, CurrentOf
  <1>6. NoLoad \in Load /\ NoLoad.at = "none" /\ NoLoad.found = NoRecord
    BY DEF NoLoad, Load
  <1>7. TypeOK
    <2>1. /\ locks \in [Digests -> Seq(Calls)] /\ call \in [Calls -> Call]
          /\ load \in [Owners -> Load] /\ current \in [Owners -> Records \cup {NoRecord}]
          /\ newest \in [Owners -> Records \cup {NoRecord}]
      BY <1>6, IdleIsCall DEF Init
    <2> QED
      BY <1>1, <1>4, <1>5, <2>1, JournalAssumption DEF TypeOK, JournalTypeOK
  <1>8. CallsStaged
    BY <1>5, IdleIsCall DEF CallsStaged, Staged, Awaited, Producing
  <1>9. JournalInv
    <2>1. LockDiscipline /\ Queued
      <3>1. \A c \in Calls : Locked(c)
        BY <1>5, IdleIsCall, EmptyQueue DEF Locked, Busy
      <3>2. \A e \in Digests : Distinct(locks[e])
        BY <1>5 DEF Distinct
      <3> QED
        BY <3>1, <3>2, Discipline
    <2>2. RecordsReadable
      BY <1>1, <1>3, <1>4, <1>5 DEF RecordsReadable
    <2>3. ContentKnown
      BY <1>5, IdleIsCall DEF ContentKnown, Busy
    <2> QED
      BY <2>1, <2>2, <2>3 DEF JournalInv
  <1>10. ServiceInv
    <2>1. Lineage
      BY <1>3, <1>4 DEF Lineage
    <2>2. OneMaker /\ WrittenThere /\ Untaken /\ RemovedNotNewest /\ SourceStaysReadable
      BY <1>5, IdleIsCall
         DEF OneMaker, WrittenThere, Untaken, RemovedNotNewest, SourceStaysReadable, Producing
    <2>3. Found /\ Listed /\ NewestCurrent
      BY <1>5, <1>6 DEF Found, Listed, NewestCurrent
    <2>4. CurrentThere
      BY <1>5, <1>6 DEF CurrentThere
    <2>5. ChildKnown
      BY <1>3, <1>4, <1>5 DEF ChildKnown
    <2>6. OnlyChild
      BY <1>5 DEF OnlyChild
    <2> QED
      BY <2>1, <2>2, <2>3, <2>4, <2>5, <2>6 DEF ServiceInv
  <1> QED
    BY <1>7, <1>8, <1>9, <1>10 DEF IInv

LEMMA NextInv == IInv /\ [Next]_vars => IInv'
  <1> SUFFICES ASSUME IInv, [Next]_vars PROVE IInv'
    OBVIOUS
  <1>1. CASE UNCHANGED vars
    <2>1. UNCHANGED <<made, records, objects, metadata, locks, lost, mishaps, call,
                      current, loaded, load, answered, newest, overtaken, misread>>
      BY <1>1 DEF vars, journal, service, history
    <2>2. TypeOK'
      BY <2>1 DEF IInv, TypeOK, JournalTypeOK
    <2>3. CallsStaged'
      BY <2>1 DEF IInv, CallsStaged, Staged, Awaited, CleansUp, Transforms, Produces,
                  Producing, Existing
    <2>4. JournalInv'
      BY <2>1, IdleKeepsJournal DEF IInv
    <2>5. \A o : CurrentOf(o)' = CurrentOf(o)
      BY <2>1 DEF CurrentOf
    <2>6. \A q : Kept(q)' <=> Kept(q)
      BY <2>1 DEF Kept
    <2>7. ServiceInv'
      BY <2>1, <2>5, <2>6
         DEF IInv, ServiceInv, Lineage, OneMaker, Found, Listed, WrittenThere, Untaken, CurrentThere,
             NewestCurrent, RemovedNotNewest, ChildKnown, OnlyChild, SourceStaysReadable,
             Producing, Existing
    <2> QED
      BY <2>2, <2>3, <2>4, <2>7 DEF IInv
  <1>2. ASSUME NEW c \in Calls, proceed(c) PROVE IInv'
    <2>1. CASE (put(c) \/ remove(c, canRemove(c)) \/ restore(c)) /\ UNCHANGED <<service, history>>
      BY <2>1, WorksKeepsAll
    <2>4. mishaps \in 0 .. MaxMishaps + 1
      BY DEF IInv, TypeOK, JournalTypeOK
    <2>2. CASE ingestPrepares(c)
      <3>1. call[c].at = "preparing" /\ ~Busy(call[c])
        BY <2>2 DEF ingestPrepares, Busy
      <3> QED
        BY <2>2, <2>4, <3>1, EndsKeeps, PersistKeeps DEF ingestPrepares, disk
    <2>3. CASE transformRuns(c)
      <3>1. call[c].at = "running" /\ ~Busy(call[c])
        BY <2>3 DEF transformRuns, Busy
      <3> QED
        BY <2>3, <2>4, <3>1, EndsKeeps, PersistKeeps DEF transformRuns, disk
    <2> QED
      BY <1>2, <2>1, <2>2, <2>3, PublishKeeps, CleanupListsKeeps, TransformsKeep DEF proceed
  <1>3. CASE Next
    BY <1>2, <1>3, GivesUpKeeps, StartsKeep, LoadListsKeeps, LoadReadsKeeps,
       LoadResolvesKeeps, RestartKeeps
       DEF Next, Existing
  <1> QED
    BY <1>1, <1>3

THEOREM Invariance == Spec => []IInv
  BY InitInv, NextInv, PTL DEF Spec

-----------------------------------------------------------------------------
(* Every variable keeps its type, and an owner's current record is one of  *)
(* its own, through every put, remove, publication, late read and restart. *)
THEOREM TypeCorrect == Spec => []TypeOK
  <1>1. IInv => TypeOK
    BY DEF IInv
  <1> QED
    BY <1>1, Invariance, PTL

(* withObjectLock: the calls queued for a content are those that work on   *)
(* it or wait to, and only the first is inside, whatever failed.           *)
THEOREM LockDisciplineKept == Spec => []LockDiscipline
  <1>1. IInv => LockDiscipline
    BY DEF IInv, JournalInv
  <1> QED
    BY <1>1, Invariance, PTL

(* A record on disk names content whose files are both there, unless       *)
(* remove failed to put the content back, or both of its counts failed to  *)
(* read every record that names it.                                        *)
THEOREM RecordsStayReadable == Spec => []RecordsReadable
  <1>1. IInv => RecordsReadable
    BY DEF IInv, JournalInv
  <1> QED
    BY <1>1, Invariance, PTL

(* Of the transforms of one record at most one is answered with success    *)
(* and kept, unless a late read has overwritten the owner's record, or the *)
(* journal was read past the child to a record before it.                  *)
THEOREM SingleChildKept == Spec => []SingleChild
  <1>1. IInv => SingleChild
    BY DEF IInv, ServiceInv, OnlyChild, Kept, SingleChild
  <1> QED
    BY <1>1, Invariance, PTL

(* A transform whose source could not be read does not find that source    *)
(* still current: no cleanup deletes the content of a current record, but  *)
(* that of one whose files could not be read when they were counted.       *)
THEOREM SourceKept == Spec => []SourceStaysReadable
  <1>1. IInv => SourceStaysReadable
    BY DEF IInv, ServiceInv
  <1> QED
    BY <1>1, Invariance, PTL

(* A cleanup that removed its record did not remove the one its owner was  *)
(* given last, unless a late read has made the service forget that one.    *)
THEOREM NewestSpared == Spec => NewestSparedUnlessOvertaken
  <1>1. IInv => \A c \in Calls :
                  Cleans(c) /\ call[c].owner \notin overtaken =>
                      newest[call[c].owner] # call[c].rec
    BY DEF IInv, ServiceInv, RemovedNotNewest, Cleans
  <1> QED
    BY <1>1, Invariance, PTL DEF NewestSparedUnlessOvertaken
=============================================================================
