------------------------- MODULE AttachmentPipeline --------------------------
(***************************************************************************)
(* Ingest, transform and cleanup of the attachment pipeline                *)
(* (packages/attachments/lib/pipeline-service.js) over the journal.        *)
(*                                                                         *)
(* The service keeps one current record per owner, loaded from the journal *)
(* on first need and set by every publication; it decides what a transform *)
(* may start from and what a cleanup has to spare.  Every record has a     *)
(* generation of its own, so that a cleanup names one record.  Batches     *)
(* and the official store are left out, and so are the concurrency limits: *)
(* at most as many calls are under way as there are Calls.                 *)
(***************************************************************************)
EXTENDS AttachmentJournal

VARIABLES
    current,    \* per owner, the record published last as the service knows it
    loaded,     \* owners whose current record is in memory
    load,       \* per owner, the read of the journal that is under way
    answered,   \* history: records whose call was answered with success
    newest,     \* history: per owner, the record answered last by this process
    overtaken,  \* history: owners whose current record a late read has overwritten
    misread     \* history: owners whose journal was read past a record, to an older one

service == <<current, loaded, load>>

history == <<answered, newest, overtaken, misread>>

vars == <<journal, service, history>>

(* The files, which only the steps of put and remove change.               *)
disk == <<records, objects, metadata, lost, mishaps>>

-----------------------------------------------------------------------------
Load == [at : {"none", "listing", "reading", "read"}, listed : SUBSET Records,
         found : Records \cup {NoRecord}]

NoLoad == [at |-> "none", listed |-> {}, found |-> NoRecord]

(* Mutant: the files of whatever owner are listed.                         *)
listedOfAnyone(o) == records

listed(o) == {r \in records : made[r].owner = o}

(* The record created last, of those whose files were read.                *)
latest(read) ==
    IF read = {} THEN NoRecord ELSE CHOOSE r \in read : \A q \in read : q <= r

(* _ensureCurrent: a call that needs an owner's record goes on with what   *)
(* is in memory; if nothing is, it joins the read under way or starts one. *)
awaitCurrent(o) == IF o \in loaded THEN "loaded" ELSE "loading"

ensureCurrent(o) ==
    load' = IF o \in loaded \/ load[o].at # "none" THEN load
            ELSE [load EXCEPT ![o].at = "listing"]

(* The directory is listed; if it cannot be, that counts as finding        *)
(* nothing.                                                                *)
loadLists(o) ==
    /\ load[o].at = "listing"
    /\ \E ok \in BOOLEAN :
          /\ io(ok)
          /\ load' = [load EXCEPT ![o] =
                [NoLoad EXCEPT !.at = IF ok THEN "reading" ELSE "read",
                               !.listed = IF ok THEN listed(o) ELSE {}]]
    /\ UNCHANGED <<made, records, objects, metadata, locks, lost, call>>
    /\ UNCHANGED <<current, loaded, history>>

(* The files that were listed are read.  One that has gone meanwhile or    *)
(* cannot be read is skipped, and an older one is taken for the last.      *)
loadReads(o) ==
    LET there == load[o].listed \cap records IN
    /\ load[o].at = "reading"
    /\ \E unread \in SUBSET there :
          /\ ioAgain(unread = {})
          /\ load' = [load EXCEPT ![o] =
                [NoLoad EXCEPT !.at = "read", !.found = latest(there \ unread)]]
          /\ misread' = IF latest(there \ unread) \in {NoRecord, latest(there)}
                        THEN misread ELSE misread \cup {o}
    /\ UNCHANGED <<made, records, objects, metadata, locks, lost, call>>
    /\ UNCHANGED <<current, loaded, answered, newest, overtaken>>

(* What was read is stored, even if a record was published meanwhile.      *)
loadResolves(o) ==
    /\ load[o].at = "read"
    /\ current' = [current EXCEPT ![o] = load[o].found]
    /\ loaded' = loaded \cup {o}
    /\ load' = [load EXCEPT ![o] = NoLoad]
    /\ overtaken' = IF o \in loaded THEN overtaken \cup {o} ELSE overtaken
    /\ UNCHANGED <<journal, answered, newest, misread>>

(* What a call has awaited of ensureCurrent is there.                      *)
Ready(c) ==
    \/ call[c].at = "loaded"
    \/ call[c].at = "loading" /\ load[call[c].owner].at = "none"

(* The caller's abort or the deadline gives the call up: an ingest is      *)
(* answered then and there, while its work goes on until the next check.   *)
givesUp(c) ==
    /\ call[c].wanted
    /\ mishap
    /\ call' = [call EXCEPT ![c].wanted = FALSE]
    /\ UNCHANGED <<made, records, objects, metadata, locks, lost>>
    /\ UNCHANGED <<service, history>>

-----------------------------------------------------------------------------
(* The guards.                                                             *)

(* Keeps _activeIngestKeys: an ingest for the owner is under way and not   *)
(* answered yet.                                                           *)
ingesting(o) ==
    \E c \in Calls : call[c].task = "ingest" /\ call[c].wanted /\ call[c].owner = o

(* Keeps activeRecords: a transform works from the record.                 *)
active(r) ==
    \E c \in Calls : call[c].task = "transform" /\ call[c].source = r /\ call[c].at \notin {"loading", "loaded"}

CurrentOf(o) == IF o \in loaded THEN current[o] ELSE NoRecord

(* Mutant: the current record is not looked at.                            *)
removableIgnoringCurrent(r) ==
    ~active(r) /\ ~ingesting(made[r].owner)

removable(r) ==
    /\ ~active(r)
    /\ CurrentOf(made[r].owner) # r
    /\ ~ingesting(made[r].owner)

(* The canRemove of a cleanup; a publication that is taken back is not     *)
(* asked.                                                                  *)
canRemove(c) == call[c].task = "cleanup" => call[c].wanted /\ removable(call[c].rec)

(* Mutant: whoever finishes first is not looked at.                        *)
validWhileWanted(c) == call[c].wanted

(* _operationFailure: a call that was given up is not published, nor a     *)
(* transform whose source is no longer the current record.                 *)
valid(c) ==
    /\ call[c].wanted
    /\ call[c].task = "transform" => CurrentOf(call[c].owner) = call[c].source

-----------------------------------------------------------------------------
(* _persist.                                                               *)

(* A record is created and handed to the journal, or the call ends.        *)
persist(c, parent) ==
    LET r == Len(made) + 1 IN
    \E d \in Digests :
        /\ r \in Records
        /\ made' = Append(made, [owner |-> call[c].owner, digest |-> d, parent |-> parent])
        /\ call' = [call EXCEPT ![c].at = "checking", ![c].rec = r]
        /\ awaitLock(c, d)

(* The record is on disk: the call is answered and the record becomes the  *)
(* current one, or it is removed again.                                    *)
publish(c) ==
    LET r == call[c].rec
        o == call[c].owner
    IN
    /\ call[c].at = "written"
    /\ \/ /\ valid(c)
          /\ current' = [current EXCEPT ![o] = r]
          /\ loaded' = loaded \cup {o}
          /\ answered' = answered \cup {r}
          /\ newest' = [newest EXCEPT ![o] = r]
          /\ end(c)
          /\ UNCHANGED locks
       \/ /\ ~valid(c)
          /\ goTo(c, "unlinking record")
          /\ awaitLock(c, made[r].digest)
          /\ UNCHANGED <<current, loaded, answered, newest>>
    /\ UNCHANGED <<made, records, objects, metadata, lost, mishaps, load, overtaken, misread>>

-----------------------------------------------------------------------------
(* The calls.                                                              *)

start(c, o, task, step, rec, source) ==
    /\ call[c] = Idle
    /\ call' = [call EXCEPT ![c] = [Idle EXCEPT !.task = task, !.at = step, !.owner = o,
                                      !.rec = rec, !.source = source, !.wanted = TRUE]]
    /\ UNCHANGED <<made, records, objects, metadata, locks, lost, mishaps>>

ingest(c, o) ==
    /\ start(c, o, "ingest", "preparing", NoRecord, NoRecord)
    /\ UNCHANGED <<service, history>>

(* The source is read and admitted, or not.                                *)
ingestPrepares(c) ==
    /\ call[c].at = "preparing"
    /\ \/ valid(c) /\ persist(c, NoRecord)
       \/ end(c) /\ UNCHANGED <<made, locks>>
    /\ UNCHANGED <<disk, service, history>>

(* A transform starts from a record that a success handed out.             *)
transform(c, s) ==
    /\ s \in answered
    /\ start(c, made[s].owner, "transform", awaitCurrent(made[s].owner), NoRecord, s)
    /\ ensureCurrent(made[s].owner)
    /\ UNCHANGED <<current, loaded, history>>

transformStarts(c) ==
    /\ call[c].task = "transform" /\ Ready(c)
    /\ IF valid(c) THEN goTo(c, "opening") ELSE end(c)
    /\ UNCHANGED <<made, locks, disk, service, history>>

(* open: the record is looked up, then its content is read, without the    *)
(* lock; "unread" answers that it is missing.                              *)
transformOpens(c) ==
    /\ call[c].at = "opening"
    /\ goTo(c, IF call[c].source \in records THEN "reading" ELSE "unread")
    /\ UNCHANGED <<made, locks, disk, service, history>>

(* A record of the owner that is gone when its file is read, though it was *)
(* listed, is taken for the one looked for, and answers that it is         *)
(* corrupt; so does a file that cannot be read.                            *)
transformMisled(c) ==
    /\ call[c].at = "opening"
    /\ end(c)
    /\ \/ mishap
       \/ /\ \E r \in 1 .. Len(made) : r \notin records /\ made[r].owner = call[c].owner
          /\ UNCHANGED mishaps
    /\ UNCHANGED <<made, locks, records, objects, metadata, lost, service, history>>

transformReads(c) ==
    /\ call[c].at = "reading"
    /\ \/ /\ CASE made[call[c].source].digest \notin objects \cap metadata -> goTo(c, "unread")
               [] valid(c) -> goTo(c, "running")
               [] OTHER -> end(c)
          /\ UNCHANGED mishaps
       \/ mishap /\ end(c)
    /\ UNCHANGED <<made, locks, records, objects, metadata, lost, service, history>>

transformFails(c) ==
    /\ call[c].at = "unread"
    /\ end(c)
    /\ UNCHANGED <<made, locks, disk, service, history>>

(* The operation runs and its output is admitted, or not.                  *)
transformRuns(c) ==
    /\ call[c].at = "running"
    /\ \/ valid(c) /\ persist(c, call[c].source)
       \/ end(c) /\ UNCHANGED <<made, locks>>
    /\ UNCHANGED <<disk, service, history>>

(* A cleanup names the record by its generation, which a caller chooses    *)
(* for an ingest and learns from the answer of a transform.                *)
cleanup(c, r) ==
    /\ made[r].parent # NoRecord => r \in answered
    /\ start(c, made[r].owner, "cleanup", awaitCurrent(made[r].owner), r, NoRecord)
    /\ ensureCurrent(made[r].owner)
    /\ UNCHANGED <<current, loaded, history>>

(* The owner's records are listed; the one named is removed unless it is   *)
(* to be retained.  One that cannot be read is passed over.                *)
cleanupLists(c) ==
    /\ call[c].task = "cleanup" /\ Ready(c)
    /\ \/ /\ IF call[c].rec \in records /\ canRemove(c)
             THEN goTo(c, "unlinking record") /\ awaitLock(c, digestOf(c))
             ELSE end(c) /\ UNCHANGED locks
          /\ UNCHANGED mishaps
       \/ mishap /\ end(c) /\ UNCHANGED locks
    /\ UNCHANGED <<made, records, objects, metadata, lost, service, history>>

(* The process dies and comes back with what is on disk.                   *)
restart ==
    /\ mishap
    /\ call' = [c \in Calls |-> Idle]
    /\ locks' = [d \in Digests |-> <<>>]
    /\ loaded' = {}
    /\ load' = [o \in Owners |-> NoLoad]
    /\ current' = [o \in Owners |-> NoRecord]
    /\ newest' = [o \in Owners |-> NoRecord]
    /\ UNCHANGED <<made, records, objects, metadata, lost, answered, overtaken, misread>>

-----------------------------------------------------------------------------
(* A process starts over one record that an earlier one has stored.        *)
Init ==
    /\ LET d == CHOOSE x \in Digests : TRUE IN
          /\ made = << [owner |-> Idle.owner, digest |-> d, parent |-> NoRecord] >>
          /\ objects = {d} /\ metadata = {d}
    /\ records = {1} /\ answered = {1}
    /\ locks = [d \in Digests |-> <<>>]
    /\ call = [c \in Calls |-> Idle]
    /\ lost = {} /\ mishaps = 0 /\ overtaken = {} /\ misread = {}
    /\ current = [o \in Owners |-> NoRecord]
    /\ newest = [o \in Owners |-> NoRecord]
    /\ loaded = {}
    /\ load = [o \in Owners |-> NoLoad]

(* What a call that is under way does next.                                *)
proceed(c) ==
    \/ (put(c) \/ remove(c, canRemove(c)) \/ restore(c)) /\ UNCHANGED <<service, history>>
    \/ publish(c) \/ ingestPrepares(c) \/ cleanupLists(c)
    \/ transformStarts(c) \/ transformOpens(c) \/ transformMisled(c) \/ transformReads(c)
    \/ transformFails(c) \/ transformRuns(c)

Next ==
    \/ \E c \in Calls :
          \/ proceed(c) \/ givesUp(c)
          \/ \E o \in Owners : ingest(c, o)
          \/ \E r \in 1 .. Len(made) : transform(c, r) \/ cleanup(c, r)
    \/ \E o \in Owners : loadLists(o) \/ loadReads(o) \/ loadResolves(o)
    \/ restart

Spec == Init /\ [][Next]_vars

-----------------------------------------------------------------------------
(* Properties.                                                             *)

(* Every variable keeps its type, and the record an owner is said to have  *)
(* is one of its own.                                                      *)
TypeOK ==
    /\ JournalTypeOK
    /\ current \in [Owners -> Records \cup {NoRecord}]
    /\ \A o \in Owners : current[o] # NoRecord => made[current[o]].owner = o
    /\ newest \in [Owners -> Records \cup {NoRecord}]
    /\ loaded \subseteq Owners
    /\ load \in [Owners -> Load]
    /\ answered \subseteq 1 .. Len(made)
    /\ overtaken \subseteq Owners /\ misread \subseteq Owners

(* Of the transforms that start from one record at most one is answered    *)
(* with success, as long as its record is there; all of them may have      *)
(* written one.  The exceptions are an owner whose current record a late   *)
(* read has overwritten, and one whose journal was read, after a restart,  *)
(* past a child that could not be read to the record it came from.         *)
SingleChild ==
    \A q, r \in answered \cap records :
        /\ made[q].parent # NoRecord
        /\ made[q].parent = made[r].parent
        /\ made[q].owner \notin overtaken \cup misread
        => q = r

(* A transform that was let start finds the content of its source for as   *)
(* long as that is the current record: no cleanup, of any owner, and no    *)
(* publication that is taken back deletes it in between.                   *)
SourceStaysReadable ==
    \A c \in Calls :
        /\ call[c].at = "unread"
        /\ made[call[c].source].digest \notin lost
        /\ call[c].owner \notin overtaken
        => CurrentOf(call[c].owner) # call[c].source

(* A cleanup ends, and the record it named is gone.                        *)
Cleans(c) ==
    /\ call[c].task = "cleanup" /\ call'[c].task = "none"
    /\ call[c].recordRemoved /\ call[c].rec \notin records'
    /\ mishaps' = mishaps

(* The record an owner was given last is never cleaned, whatever was       *)
(* published or taken back since the cleanup looked first, unless a late   *)
(* read has made the service forget that record.                           *)
NewestSparedUnlessOvertaken ==
    [][ \A c \in Calls :
          Cleans(c) /\ call[c].owner \notin overtaken =>
              newest[call[c].owner] # call[c].rec ]_vars

(* The same without the exception, as the requirements state it.           *)
NewestNotCleaned ==
    [][ \A c \in Calls : Cleans(c) => newest[call[c].owner] # call[c].rec ]_vars
=============================================================================
