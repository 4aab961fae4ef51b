--------------------------- MODULE MCFileLogStore ---------------------------
(***************************************************************************)
(* Small instances of FileLogStore for TLC.                                *)
(***************************************************************************)
EXTENDS FileLogStore, TLC

=============================================================================
