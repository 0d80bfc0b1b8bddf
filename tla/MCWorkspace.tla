----------------------------- MODULE MCWorkspace ------------------------------
(***************************************************************************)
(* An instance of Workspace for TLC: samples of two e-mails, a text of     *)
(* three, an invalid one, and chunks of two.                               *)
(***************************************************************************)
EXTENDS Workspace, TLC

CONSTANTS e1, e2, e3

MCSamples == <<e1, e2>>
MCText == {<<e1, e1>>, MCSamples, <<e1, e2, e3>>}
MCSymmetry == Permutations(Batch)
===============================================================================
