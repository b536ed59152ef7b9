----------------------------- MODULE AvlTableMC -----------------------------
(* Instances of AvlTable for TLC. *)
EXTENDS AvlTable
=============================================================================
