-------------------------- MODULE MCSessionChannel --------------------------
(* The model values TLC gives to the parameters of SessionChannel.         *)
EXTENDS SessionChannel, TLC

(* Devices and kinds are only ever compared for equality. *)
Alike == Permutations(Device) \union Permutations(Kind)

(* No action reads the answer of the step before, and the properties read  *)
(* it only as what a step answers: it does not tell states apart.          *)
Unanswered == <<clock, events, channels, subs, mounts>>
=============================================================================
