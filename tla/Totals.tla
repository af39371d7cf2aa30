------------------------------- MODULE Totals -------------------------------
(***************************************************************************)
(* The sum of a function over a set, in which the properties of XdpFirewall*)
(* count packets.                                                          *)
(***************************************************************************)
EXTENDS FiniteSetsExt

Total(f, S) == MapThenSumSet(LAMBDA x : f[x], S)
=============================================================================
