------------------------------- MODULE MCNsp -------------------------------
(***************************************************************************)
(* A base title and a patch that share a content.                          *)
(***************************************************************************)
EXTENDS NspInstaller

MCTitles == {"base", "patch"}
MCPackage == [base |-> {"b", "s"}, patch |-> {"p", "s"}]
=============================================================================
