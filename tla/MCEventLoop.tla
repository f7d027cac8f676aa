---------------------------- MODULE MCEventLoop ----------------------------
(* Values for the constants of EventLoop that a .cfg cannot write. *)
EXTENDS EventLoop

(* Which documents a realm's scripts write: the main one only, each its     *)
(* own, or also the parent's (parent.document in a same-origin iframe).     *)
MainDocument == {<<Main, Main>>}
OwnDocument == {<<r, r>> : r \in Realm}
ParentDocument == OwnDocument \cup {<<r, Main>> : r \in Realm}

BothModes == BOOLEAN
=============================================================================
