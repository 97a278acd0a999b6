----------------------------- MODULE MCMainLoop -----------------------------
(***************************************************************************)
(* Instances of MainLoop for TLC.                                          *)
(***************************************************************************)
EXTENDS MainLoop

\* "settings cpus 1 0": a list of words, of which the first counts
OneList == {<<{1}, {0}>>}

SomeIrqs == {{7}}
Masks == {{}, {2}}
=============================================================================
