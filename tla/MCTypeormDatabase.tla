-------------------------- MODULE MCTypeormDatabase --------------------------
(***************************************************************************)
(* The database on its own, with a client that may submit anything a data   *)
(* source can deliver.                                                      *)
(***************************************************************************)
EXTENDS TypeormDatabase, MCBlockTree

==============================================================================
