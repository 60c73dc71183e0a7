----------------------------- MODULE MCSendPath -----------------------------
(***************************************************************************)
(* Instances of SendPath for TLC.                                          *)
(***************************************************************************)
EXTENDS SendPath

=============================================================================
