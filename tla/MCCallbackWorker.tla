-------------------------- MODULE MCCallbackWorker --------------------------
(***************************************************************************)
(* An instance of CallbackWorker for TLC: fewer callbacks than fit in ten  *)
(* slots need a smaller Prefetch for one to wait for another.              *)
(***************************************************************************)
EXTENDS CallbackWorker

CONSTANTS c1, c2, c3
=============================================================================
