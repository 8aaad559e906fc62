------------------------------ MODULE WorkOrder ------------------------------
(***************************************************************************)
(* What the authority promises about requests that many parties make: the  *)
(* work of each is begun once at most, its outcome is said once and is     *)
(* that of its own work or a stop, and a stop reaches all that was ordered *)
(* on behalf of the stopped, and is never taken back.                      *)
(*                                                                         *)
(* There are no sessions, slots, keys, turns and timers here: a file holds *)
(* what the parties were told, and work is what became of the request.     *)
(***************************************************************************)
CONSTANTS
    Requests,
    Nobody,      \* the parent of a request made on nobody's behalf
    Outcomes     \* "aborted" is one

VARIABLES
    file,        \* what is on file for each request
    work         \* what became of its work

vars == <<file, work>>

File(status, stopped, outcome, parent) ==
    [status |-> status, stopped |-> stopped, outcome |-> outcome, parent |-> parent]

NoFile == File("new", FALSE, "none", Nobody)
Void   == File("void", FALSE, "none", Nobody)

Open(r) == file[r].status = "open"

Ended(f, outcome) == File("ended", f.stopped, outcome, Nobody)
Aborted           == File("ended", TRUE, "aborted", Nobody)
Told(f)           == File(f.status, TRUE, f.outcome, f.parent)

(* Work that waits is taken back; work that was begun is not.              *)
Withdraw(S) ==
    work' = [r \in Requests |-> IF r \in S /\ work[r] = "waiting" THEN "over" ELSE work[r]]

(* Some of the work under way is over.                                     *)
Lapse ==
    \E lapsed \in SUBSET {r \in Requests : work[r] = "begun"} :
        work' = [r \in Requests |-> IF r \in lapsed THEN "over" ELSE work[r]]

-----------------------------------------------------------------------------
Init ==
    /\ file = [r \in Requests |-> NoFile]
    /\ work = [r \in Requests |-> "none"]

(* A request is made, by itself or on behalf of one that was accepted, and *)
(* its work waits; or it is refused.                                       *)
Ask(r) ==
    /\ file[r].status = "new"
    /\ \/ /\ \E status \in {"filed", "open"},
                p \in {Nobody} \cup {q \in Requests : file[q].status \in {"open", "ended"}} :
                 file' = [file EXCEPT ![r] = File(status, FALSE, "none", p)]
          /\ work' = [work EXCEPT ![r] = "waiting"]
       \/ /\ file' = [file EXCEPT ![r] = Void]
          /\ work' = [work EXCEPT ![r] = "over"]

(* A request on file is accepted, or refused, or accepted and stopped in   *)
(* one, since nobody wants it any more.  Meanwhile its work may have been  *)
(* begun, and be over.                                                     *)
Accept(r) ==
    /\ file[r].status = "filed"
    /\ file' = [file EXCEPT ![r].status = "open"]
    /\ UNCHANGED work

Refuse(r) ==
    /\ file[r].status = "filed"
    /\ file' = [file EXCEPT ![r] = Void]
    /\ Withdraw({r})

Abandon(r) ==
    /\ file[r].status = "filed"
    /\ file' = [file EXCEPT ![r] = Aborted]
    /\ Withdraw({r})

(* Open requests are stopped, with all that was ordered on their behalf.   *)
(* What had not been begun ends at once and is never begun.                *)
Stop(S) ==
    /\ S # {}
    /\ \A c \in Requests : Open(c) /\ file[c].parent \in S => c \in S
    /\ \E atOnce \in SUBSET S :
          /\ \A r \in S : work[r] = "waiting" => r \in atOnce
          /\ file' = [r \in Requests |->
                        IF r \in atOnce THEN Aborted
                        ELSE IF r \in S THEN Told(file[r])
                        ELSE file[r]]
    /\ Withdraw(S)

(* The others that were stopped end aborted, with or without their work.   *)
GiveUp(r) ==
    /\ Open(r) /\ file[r].stopped
    /\ file' = [file EXCEPT ![r] = Aborted]
    /\ UNCHANGED work

(* The work of a request is begun, and other work may be over by that.     *)
Begin(r) ==
    /\ work[r] = "waiting"
    /\ UNCHANGED file
    /\ \E lapsed \in SUBSET {q \in Requests : work[q] = "begun"} :
          work' = [q \in Requests |-> IF q = r THEN "begun"
                                      ELSE IF q \in lapsed THEN "over" ELSE work[q]]

(* The work of an open request reports its outcome, which does not count   *)
(* once it was told to stop.                                               *)
Report(r) ==
    /\ Open(r) /\ work[r] = "begun"
    /\ \E outcome \in Outcomes :
          file' = [file EXCEPT ![r] =
                     IF file[r].stopped THEN Aborted ELSE Ended(file[r], outcome)]
    /\ Lapse

(* Work is over and nobody is told.                                        *)
Expire == UNCHANGED file /\ Lapse

(* Whoever does the work is gone, and all work with it.                    *)
Lose ==
    /\ UNCHANGED file
    /\ work' = [r \in Requests |-> IF work[r] = "none" THEN "none" ELSE "over"]

(* The files are closed: what is open is forgotten, and its work goes on.  *)
Forget ==
    /\ file' = [r \in Requests |-> IF Open(r) THEN Void ELSE file[r]]
    /\ UNCHANGED work

Next ==
    \/ \E r \in Requests :
          Begin(r) \/ Report(r) \/ GiveUp(r) \/ Ask(r) \/ Accept(r) \/ Refuse(r) \/ Abandon(r)
    \/ \E S \in SUBSET {r \in Requests : Open(r)} : Stop(S)
    \/ Expire \/ Lose \/ Forget

Spec == Init /\ [][Next]_vars
=============================================================================
