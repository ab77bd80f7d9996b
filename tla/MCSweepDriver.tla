---------------------------- MODULE MCSweepDriver ----------------------------
(***************************************************************************)
(* Instances of SweepDriver for TLC.                                       *)
(***************************************************************************)
EXTENDS SweepDriver

AllModes == {"matrix", "cells", "brokers", "sweep"}

=============================================================================
