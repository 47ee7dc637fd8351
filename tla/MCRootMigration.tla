--------------------------- MODULE MCRootMigration ---------------------------
(* Small instances of RootMigration for TLC. *)
EXTENDS RootMigration, TLC

Interchangeable == Permutations(Servers) \cup Permutations(Roots)
=============================================================================
