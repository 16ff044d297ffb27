----------------------------- MODULE MCFilePush -----------------------------
(* Small instances of FilePush for TLC: a buffer of two blocks, so that     *)
(* writes may be short and buffers partly filtered.                         *)
EXTENDS FilePush
=============================================================================
