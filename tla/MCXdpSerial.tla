---------------------------- MODULE MCXdpSerial ----------------------------
(***************************************************************************)
(* The instance of XdpSerial for TLC, with the packets of MCXdpFirewall.   *)
(***************************************************************************)
EXTENDS MCXdpFirewall, XdpSerial
=============================================================================
