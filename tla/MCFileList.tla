---------------------------- MODULE MCFileList ----------------------------
(* FileList with a few addresses; memory that is freed is used again.      *)
EXTENDS FileList

MCAddress == 1 .. 4
===========================================================================
