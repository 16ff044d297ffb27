----------------------------- MODULE MCEThread -----------------------------
(* Two pthreads are enough: one handle, and one that may have been lost.    *)
EXTENDS EThread

CONSTANTS t1, t2

MCThreads == {t1, t2}
=============================================================================
