--------------------------- MODULE MCServiceWorker ---------------------------
(* Two versions, after an active one or not, and one document; the active   *)
(* one gets a message.                                                      *)
EXTENDS ServiceWorker

ThreeVersions == 0 .. 2
OneToTheFirst == [v \in ThreeVersions |-> IF v = 0 THEN 1 ELSE 0]
=============================================================================
