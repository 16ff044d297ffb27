------------------------------ MODULE MCAotom ------------------------------
(* A small instance of Aotom for TLC.                                       *)
EXTENDS Aotom, TLC
=============================================================================
