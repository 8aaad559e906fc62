-------------------------- MODULE AttachmentJournal --------------------------
(***************************************************************************)
(* The durable journal of the attachment pipeline                          *)
(* (packages/attachments/lib/journal.js): record files that name content   *)
(* by digest, one object file and one metadata file per digest, and a lock *)
(* per digest that every journal of the process shares.                    *)
(*                                                                         *)
(* put and remove are sequences of file operations with an await at each;  *)
(* a step here is one of them with the synchronous code up to the next.    *)
(* Any of them may fail, and a failed write may or may not have left its   *)
(* file (the rename is done before the directory is synchronised).  Bytes  *)
(* and media are those of the digest, so the verification of what is read  *)
(* comes down to both files being there.  Official storage is left out.    *)
(***************************************************************************)
EXTENDS Naturals, Sequences, FiniteSets

CONSTANTS
    Owners,       \* a scope with an owner in it
    Digests,      \* content identities
    Calls,        \* calls to the pipeline that may be under way at a time
    MaxRecords,   \* bound: records ever created
    MaxMishaps    \* bound: file operations that fail, calls given up and restarts, not
                  \*   counting one more that compounds them

ASSUME JournalAssumption ==
    /\ Owners # {} /\ Digests # {}
    /\ MaxRecords \in Nat \ {0} /\ MaxMishaps \in Nat

VARIABLES
    made,       \* every record created so far, in the order of createdAt
    records,    \* the records whose file is on disk
    objects,    \* the digests whose object file is on disk
    metadata,   \* the digests whose metadata file is on disk
    locks,      \* per digest, the calls that hold or await the object lock
    call,       \* the calls
    lost,       \* history: content that remove failed to put back, or judged unreferenced
                \*   over records that it could not read
    mishaps     \* the failures, given-up calls and restarts so far

journal == <<made, records, objects, metadata, locks, lost, mishaps, call>>

-----------------------------------------------------------------------------
Records == 1 .. MaxRecords
NoRecord == 0

(* What a record says; the parent is the record it was derived from.       *)
Made == [owner : Owners, digest : Digests, parent : Records \cup {NoRecord}]

Steps == {"idle",
          "loading", "loaded", "preparing", "opening", "reading", "running", "unread",
          "checking", "writing object", "writing metadata", "writing record", "written",
          "unlinking record", "syncing record", "scanning", "reading content", "rescanning",
          "unlinking object", "unlinking metadata", "syncing object", "confirming", "answering",
          "restoring object", "restoring metadata", "restoring record"}

(* A call: its task, where it is, the owner it works for, the record that  *)
(* it puts or removes and the one it reads.  Wanted is FALSE once its      *)
(* caller or its deadline gave it up.  The last fields are the locals of   *)
(* remove: what it deleted so far, and whether it is in its catch block.   *)
Call == [task : {"none", "ingest", "transform", "cleanup"}, at : Steps,
         owner : Owners, rec : Records \cup {NoRecord}, source : Records \cup {NoRecord},
         wanted : BOOLEAN, recordRemoved : BOOLEAN, objectRemoved : BOOLEAN,
         metadataRemoved : BOOLEAN, caught : BOOLEAN]

Idle == [task |-> "none", at |-> "idle", owner |-> CHOOSE o \in Owners : TRUE,
         rec |-> NoRecord, source |-> NoRecord, wanted |-> FALSE,
         recordRemoved |-> FALSE, objectRemoved |-> FALSE,
         metadataRemoved |-> FALSE, caught |-> FALSE]

digestOf(c) == made[call[c].rec].digest

goTo(c, step) == call' = [call EXCEPT ![c].at = step]

mishap == mishaps < MaxMishaps /\ mishaps' = mishaps + 1

(* A file operation: it succeeds, or it is one of the failures allowed.    *)
io(ok) == IF ok THEN UNCHANGED mishaps ELSE mishap

(* One that an earlier failure may have brought about: restoring what a    *)
(* remove deleted, counting again, loading after a restart.  The bound     *)
(* allows it to fail once more, unless it allows nothing to fail.           *)
mishapAgain == mishaps <= MaxMishaps /\ MaxMishaps > 0 /\ mishaps' = mishaps + 1

ioAgain(ok) == IF ok THEN UNCHANGED mishaps ELSE mishapAgain

(* The content of a set of files after x was written to it; a write that   *)
(* fails may have left its file.                                           *)
Written(files, x, ok) == IF ok THEN {files \cup {x}} ELSE {files, files \cup {x}}

-----------------------------------------------------------------------------
(* The object lock: first come, first served.                              *)

awaitLock(c, d) == locks' = [locks EXCEPT ![d] = Append(@, c)]

(* Mutant: a call goes on without waiting for the one before it.           *)
holdsAnyway(c) == TRUE

holds(c) == Head(locks[digestOf(c)]) = c

(* Mutant: the lock is released only by an operation that succeeds.        *)
releaseUnlessThrown(c, thrown) ==
    locks' = IF thrown THEN locks ELSE [locks EXCEPT ![digestOf(c)] = Tail(@)]

(* Released whether the operation under it returned or threw.              *)
release(c, thrown) == locks' = [locks EXCEPT ![digestOf(c)] = Tail(@)]

(* A call has entered withObjectLock, or works inside it.                  *)
Entering == {"checking", "unlinking record"}

Inside == {"writing object", "writing metadata", "writing record",
           "syncing record", "scanning", "reading content", "rescanning",
           "unlinking object", "unlinking metadata", "syncing object",
           "confirming", "answering",
           "restoring object", "restoring metadata", "restoring record"}

end(c) == call' = [call EXCEPT ![c] = Idle]

-----------------------------------------------------------------------------
(* put, from inside the lock on.                                           *)

putFails(c) == release(c, TRUE) /\ end(c)

(* A present object is reused if it can be verified; one without metadata  *)
(* is never adopted.                                                       *)
putChecks(c) ==
    LET d == digestOf(c) IN
    /\ call[c].at = "checking" /\ holds(c)
    /\ \/ /\ d \in objects /\ d \in metadata
          /\ goTo(c, "writing record") /\ UNCHANGED <<locks, mishaps>>
       \/ d \in objects /\ d \notin metadata /\ putFails(c) /\ UNCHANGED mishaps
       \/ d \notin objects /\ goTo(c, "writing object") /\ UNCHANGED <<locks, mishaps>>
       \/ mishap /\ putFails(c)
    /\ UNCHANGED <<made, records, objects, metadata, lost>>

putObject(c) ==
    /\ call[c].at = "writing object"
    /\ \E ok \in BOOLEAN :
          /\ io(ok)
          /\ objects' \in Written(objects, digestOf(c), ok)
          /\ IF ok THEN goTo(c, "writing metadata") /\ UNCHANGED locks ELSE putFails(c)
    /\ UNCHANGED <<made, records, metadata, lost>>

putMetadata(c) ==
    /\ call[c].at = "writing metadata"
    /\ \E ok \in BOOLEAN :
          /\ io(ok)
          /\ metadata' \in Written(metadata, digestOf(c), ok)
          /\ IF ok THEN goTo(c, "writing record") /\ UNCHANGED locks ELSE putFails(c)
    /\ UNCHANGED <<made, records, objects, lost>>

putRecord(c) ==
    /\ call[c].at = "writing record"
    /\ \E ok \in BOOLEAN :
          /\ io(ok)
          /\ records' \in Written(records, call[c].rec, ok)
          /\ IF ok THEN goTo(c, "written") /\ release(c, FALSE) ELSE putFails(c)
    /\ UNCHANGED <<made, objects, metadata, lost>>

put(c) == putChecks(c) \/ putObject(c) \/ putMetadata(c) \/ putRecord(c)

-----------------------------------------------------------------------------
(* remove, from inside the lock on.  Its parameter allowed is the caller's *)
(* canRemove, asked again at every boundary.                               *)

(* Mutant: only the records of the same owner are counted.                 *)
referencedByOwner(c) ==
    \E r \in records : made[r].digest = digestOf(c) /\ made[r].owner = call[c].owner

(* Some record, of whatever scope and owner, still names the content.      *)
referenced(c) == \E r \in records : made[r].digest = digestOf(c)

(* What was deleted is put back, the object and its metadata first; an     *)
(* abort of the caller is thrown, canRemove saying no is not.              *)
undo(c, thrown) ==
    /\ call' = [call EXCEPT ![c].at = "restoring object",
                            ![c].caught = thrown \/ call[c].caught]
    /\ UNCHANGED locks

removed(c) == release(c, FALSE) /\ end(c)

kept(c) == release(c, call[c].caught) /\ end(c)

goOn(c, step) == goTo(c, step) /\ UNCHANGED locks

removeRecord(c, allowed) ==
    /\ call[c].at = "unlinking record" /\ holds(c)
    /\ \/ ~allowed /\ kept(c) /\ UNCHANGED <<records, mishaps>>
       \/ /\ allowed
          /\ \E ok \in BOOLEAN :
                /\ io(ok)
                /\ records' = IF ok THEN records \ {call[c].rec} ELSE records
                /\ IF ok
                   THEN /\ call' = [call EXCEPT
                              ![c].at = "syncing record",
                              ![c].recordRemoved = call[c].rec \in records]
                        /\ UNCHANGED locks
                   ELSE undo(c, TRUE)
    /\ UNCHANGED <<made, objects, metadata, lost>>

(* The steps that change no file.  The directory is synchronised, the      *)
(* references are counted and counted again, and in between the content is *)
(* copied so that it can be put back.  A record that was gone already has  *)
(* no directory to synchronise.  What fails here is thrown.                *)
removeReads(c) ==
    LET next == CASE call[c].at = "syncing record" -> "scanning"
                  [] call[c].at = "scanning" ->
                        IF referenced(c) THEN "confirming" ELSE "reading content"
                  [] call[c].at = "reading content" ->
                        IF digestOf(c) \in objects \cap metadata THEN "rescanning" ELSE "answering"
                  [] call[c].at = "rescanning" ->
                        IF referenced(c) THEN "answering" ELSE "unlinking object"
                  [] OTHER -> "confirming"
    IN
    /\ call[c].at \in {"syncing record", "scanning", "reading content", "rescanning", "syncing object"}
    /\ \E ok \in BOOLEAN :
          /\ io(ok)
          /\ call[c].at = "syncing record" /\ ~call[c].recordRemoved => ok
          /\ IF ok THEN goOn(c, next) ELSE undo(c, TRUE)

(* listAll throws only if it cannot list the records or an owner's         *)
(* directory.  A file that it cannot read or parse is listed as corrupt,   *)
(* and a scope that it cannot list is skipped: what they name is not       *)
(* counted, and the count goes on as if nothing did.                       *)
removeOverlooks(c, allowed) ==
    /\ call[c].at \in {"scanning", "rescanning"} /\ allowed /\ referenced(c)
    /\ mishapAgain
    /\ IF call[c].at = "scanning"
       THEN goOn(c, "reading content") /\ UNCHANGED lost
       ELSE goOn(c, "unlinking object") /\ lost' = lost \cup {digestOf(c)}
    /\ UNCHANGED <<made, records, objects, metadata>>

(* The caller's veto, at each of its boundaries.                           *)
vetoed(c) ==
    /\ call[c].at \in {"syncing record", "scanning", "reading content", "rescanning",
                       "unlinking object", "syncing object", "confirming"}
    /\ undo(c, ~call[c].wanted)
    /\ UNCHANGED mishaps

(* The answer that the record is gone; the last boundary is not asked when *)
(* there was no content to delete.                                         *)
removeAnswers(c, allowed) ==
    /\ \/ call[c].at = "answering"
       \/ call[c].at = "confirming" /\ allowed
    /\ removed(c)
    /\ UNCHANGED mishaps

removeWaits(c, allowed) ==
    /\ \/ allowed /\ removeReads(c)
       \/ ~allowed /\ vetoed(c)
       \/ removeAnswers(c, allowed)
    /\ UNCHANGED <<made, records, objects, metadata, lost>>

removeObject(c, allowed) ==
    /\ call[c].at = "unlinking object" /\ allowed
    /\ \E ok \in BOOLEAN :
          /\ io(ok)
          /\ objects' = IF ok THEN objects \ {digestOf(c)} ELSE objects
          /\ IF ok
             THEN /\ call' = [call EXCEPT ![c].at = "unlinking metadata",
                                          ![c].objectRemoved = TRUE]
                  /\ UNCHANGED locks
             ELSE undo(c, TRUE)
    /\ UNCHANGED <<made, records, metadata, lost>>

removeMetadata(c) ==
    /\ call[c].at = "unlinking metadata"
    /\ \E ok \in BOOLEAN :
          /\ io(ok)
          /\ metadata' = IF ok THEN metadata \ {digestOf(c)} ELSE metadata
          /\ IF ok
             THEN /\ call' = [call EXCEPT ![c].at = "syncing object",
                                          ![c].metadataRemoved = TRUE]
                  /\ UNCHANGED locks
             ELSE undo(c, TRUE)
    /\ UNCHANGED <<made, records, objects, lost>>

remove(c, allowed) ==
    \/ removeRecord(c, allowed) \/ removeWaits(c, allowed) \/ removeOverlooks(c, allowed)
    \/ removeObject(c, allowed) \/ removeMetadata(c)

-----------------------------------------------------------------------------
(* restoreObject and restoreRecord.  A failure sends the first attempt to  *)
(* the catch block, which tries once more and swallows its own failures.   *)

giveUp(c, swallowed) ==
    lost' = IF swallowed THEN lost \cup {digestOf(c)} ELSE lost

restoreObject(c) ==
    /\ call[c].at = "restoring object"
    /\ \/ /\ ~call[c].objectRemoved
          /\ goTo(c, "restoring metadata") /\ UNCHANGED <<objects, lost, mishaps>>
       \/ /\ call[c].objectRemoved
          /\ \E ok \in BOOLEAN :
                /\ ioAgain(ok)
                /\ objects' \in Written(objects, digestOf(c), ok)
                /\ giveUp(c, ~ok /\ call[c].caught)
                /\ CASE ok -> goTo(c, "restoring metadata")
                     [] ~ok /\ ~call[c].caught -> call' = [call EXCEPT ![c].caught = TRUE]
                     [] OTHER -> goTo(c, "restoring record")
    /\ UNCHANGED <<made, records, metadata, locks>>

restoreMetadata(c) ==
    LET restored == [call EXCEPT ![c].at = "restoring record",
                                 ![c].objectRemoved = FALSE, ![c].metadataRemoved = FALSE]
    IN
    /\ call[c].at = "restoring metadata"
    /\ \/ ~call[c].metadataRemoved /\ call' = restored
          /\ UNCHANGED <<metadata, lost, mishaps>>
       \/ /\ call[c].metadataRemoved
          /\ \E ok \in BOOLEAN :
                /\ ioAgain(ok)
                /\ metadata' \in Written(metadata, digestOf(c), ok)
                /\ giveUp(c, ~ok /\ call[c].caught)
                /\ CASE ok -> call' = restored
                     [] ~ok /\ ~call[c].caught -> undo(c, TRUE)
                     [] OTHER -> goTo(c, "restoring record")
    /\ UNCHANGED <<made, records, objects, locks>>

restoreRecord(c) ==
    /\ call[c].at = "restoring record"
    /\ \/ ~call[c].recordRemoved /\ kept(c) /\ UNCHANGED <<records, mishaps>>
       \/ /\ call[c].recordRemoved
          /\ \E ok \in BOOLEAN :
                /\ ioAgain(ok)
                /\ records' \in Written(records, call[c].rec, ok)
                /\ IF ok \/ call[c].caught THEN kept(c) ELSE undo(c, TRUE)
    /\ UNCHANGED <<made, objects, metadata, lost>>

restore(c) == restoreObject(c) \/ restoreMetadata(c) \/ restoreRecord(c)

-----------------------------------------------------------------------------
(* Every variable of the journal keeps its type.                           *)
JournalTypeOK ==
    /\ made \in Seq(Made) /\ Len(made) <= MaxRecords
    /\ records \subseteq 1 .. Len(made)
    /\ objects \subseteq Digests /\ metadata \subseteq Digests
    /\ locks \in [Digests -> Seq(Calls)]
    /\ call \in [Calls -> Call]
    /\ lost \subseteq Digests
    /\ mishaps \in 0 .. MaxMishaps + 1

(* Whatever calls share the content, fail half way or die with the process *)
(* between two files, a record on disk can be read: the object it names    *)
(* and the metadata that verifies it are there.  The exceptions are        *)
(* content that remove deleted and then failed to put back, and content    *)
(* that it deleted because both of its counts failed to read every record  *)
(* that names it; one count that fails is made good by the other.          *)
RecordsReadable ==
    \A r \in records :
        made[r].digest \notin lost => made[r].digest \in objects \cap metadata

(* The lock is never leaked and never shared: the calls in the queue of a  *)
(* content are those at work on it or waiting to be, whatever failed, and  *)
(* only the first of them is past its entry.                               *)
LockDiscipline ==
    \A c \in Calls :
        /\ \A d \in Digests :
              (\E i \in 1 .. Len(locks[d]) : locks[d][i] = c) <=>
              call[c].at \in Entering \cup Inside /\ digestOf(c) = d
        /\ call[c].at \in Inside => holds(c)
=============================================================================
