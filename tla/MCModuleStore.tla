--------------------------- MODULE MCModuleStore ---------------------------
(***************************************************************************)
(* A small instance of ModuleStore for TLC.                                *)
(***************************************************************************)
EXTENDS ModuleStore

CONSTANTS none, t1, t2, part

SomeText == {none, t1, t2}

=============================================================================
