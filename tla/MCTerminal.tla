----------------------------- MODULE MCTerminal -----------------------------
(***************************************************************************)
(* Instances of Terminal for TLC.                                          *)
(***************************************************************************)
EXTENDS Terminal

TwoGlyphs == {"a", "b"}
OneBlank  == {"cr"}
=============================================================================
