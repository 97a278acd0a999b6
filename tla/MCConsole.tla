----------------------------- MODULE MCConsole ------------------------------
(***************************************************************************)
(* Instances of Console for TLC.                                           *)
(***************************************************************************)
EXTENDS Console

\* A client lists one cpu.
OneNumber == {<<1>>}

\* "1 0": the second number is lost.
TwoNumbers == {<<1, 0>>}

Masks == {{}, {1}}
=============================================================================
