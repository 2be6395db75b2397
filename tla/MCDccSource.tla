---------------------------- MODULE MCDccSource ----------------------------
(***************************************************************************)
(* Small instances of DccSource for TLC: the numbers are set in the cfgs.  *)
(***************************************************************************)
EXTENDS DccSource

OneSpeed == {40}

=============================================================================
