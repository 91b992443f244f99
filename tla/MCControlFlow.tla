---------------------------- MODULE MCControlFlow ----------------------------
(* Every function of at most MaxSize statements.                              *)
EXTENDS ControlFlow
=============================================================================
