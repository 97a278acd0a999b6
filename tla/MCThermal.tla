----------------------------- MODULE MCThermal ------------------------------
(***************************************************************************)
(* Instances of Thermal for TLC.                                           *)
(***************************************************************************)
EXTENDS Thermal

\* No work at all, or efficiency 0 alone.
TwoCapabilities == {<<0, 0>>, <<1, 0>>}
=============================================================================
