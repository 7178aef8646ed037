------------------------------ MODULE DaisyRun ------------------------------
(***************************************************************************)
(* What finish-image-build relies on of a run of Daisy, and BuildSession   *)
(* assumes of one: the image is made at most once and while Daisy runs; a  *)
(* run that ends well has made it; one that ends otherwise, or is lost,    *)
(* may have.  DaisyWorkflow implements this.                               *)
(***************************************************************************)
VARIABLES
  outcome,  \* running, ok, error
  made      \* the image with the output name is there

vars == <<outcome, made>>

Init == outcome = "running" /\ made = FALSE

Make == outcome = "running" /\ ~made /\ made' = TRUE /\ UNCHANGED outcome

Succeed == outcome = "running" /\ made /\ outcome' = "ok" /\ UNCHANGED made

\* At the worst the call that makes the image has its effect and fails.
Fail ==
  /\ outcome = "running"
  /\ outcome' = "error"
  /\ made' \in {made, TRUE}

Next == Make \/ Succeed \/ Fail

Spec == Init /\ [][Next]_vars
=============================================================================
