---------------------------- MODULE MCFileStore ----------------------------
(* Small instances of FileStore: their constants are in the .cfg files. *)
EXTENDS FileStore
=============================================================================
