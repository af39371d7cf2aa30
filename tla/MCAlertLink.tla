---------------------------- MODULE MCAlertLink ----------------------------
(***************************************************************************)
(* AlertLink for TLC: backends and connections are model values of the     *)
(* configuration, without symmetry, as liveness is checked.                *)
(***************************************************************************)
EXTENDS AlertLink
=============================================================================
