------------------------ MODULE MCAttachmentPipeline -------------------------
(***************************************************************************)
(* AttachmentPipeline for TLC.  The calls are told apart by nothing but    *)
(* what they are doing, so that states which differ in their names only    *)
(* are explored once; the runs check no liveness.                          *)
(***************************************************************************)
EXTENDS AttachmentPipeline, TLC

CallSymmetry == Permutations(Calls)

(* A second mishap is followed up while a remove that failed has to put    *)
(* back what it deleted.  Any other is checked where it strikes.           *)
SecondMishapCompounds ==
    \/ mishaps <= 1
    \/ \E c \in Calls : call[c].recordRemoved /\ call[c].caught
=============================================================================
