----------------------------- MODULE MCDashboard -----------------------------
(* Dashboard on small instances: the controls mirrored in each. *)
EXTENDS Dashboard

AppleOnly == <<"apple">>
PauseOnly == <<"pause">>
=============================================================================
