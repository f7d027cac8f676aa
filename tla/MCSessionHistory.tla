--------------------------- MODULE MCSessionHistory ---------------------------
(* Values for the constants of SessionHistory that a .cfg cannot write. *)
EXTENDS SessionHistory

BackOne == {-1}
TwoForward == {2}

CommitOnly == {"commit"}
CommitOrRaise == {"commit", "raise"}
AnyOutcome == {"commit", "download", "redirect", "raise"}
=============================================================================
