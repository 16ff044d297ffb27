---------------------------- MODULE MCFileEraser ----------------------------
(* Three files, and a pthread for each: none is joined before the end.      *)
EXTENDS FileEraser, TLC

CONSTANTS t1, t2, t3, f1, f2, f3

MCThreads == {t1, t2, t3}
MCFiles == {f1, f2, f3}
=============================================================================
