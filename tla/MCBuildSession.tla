--------------------------- MODULE MCBuildSession ---------------------------
(***************************************************************************)
(* Two directories of GPU files, both with a file of the same name.        *)
(***************************************************************************)
EXTENDS BuildSession

CONSTANTS d1, d2, none

MCDepNames == [d \in {d1, d2} |-> IF d = d1 THEN {"installer"}
                                  ELSE {"installer", "signature"}]

\* gs://bucket/workdir/cos-customizer-notes, next to .../cos-customizer/.
MCSibling == {Object("cos-customizer-notes", none)}
=============================================================================
