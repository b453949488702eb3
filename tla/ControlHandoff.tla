---------------------------- MODULE ControlHandoff ----------------------------
(***************************************************************************)
(* What the session promises about control of the debugged program: at any *)
(* time either the client may inspect it or it runs, and control passes    *)
(* through a grant the debuggee has to take (or refuse) and a stop the     *)
(* adapter has to notice.                                                  *)
(***************************************************************************)

VARIABLE control

Init == control = "none"

Begin  == control = "none"     /\ control' = "client"
Grant  == control = "client"   /\ control' = "granted"
Refuse == control = "granted"  /\ control' = "client"
Take   == control = "granted"  /\ control' = "program"
Stop   == control = "program"  /\ control' = "returned"
Notice == control = "returned" /\ control' = "client"
End    == control # "none"     /\ control' = "over"

Next == Begin \/ Grant \/ Refuse \/ Take \/ Stop \/ Notice \/ End

Spec == Init /\ [][Next]_control
=============================================================================
