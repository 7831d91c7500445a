--------------------------- MODULE MCSessionAuth ---------------------------
(***************************************************************************)
(* Instances of SessionAuth for TLC.                                       *)
(***************************************************************************)
EXTENDS SessionAuth, TLC

CONSTANTS w1, w2, a, b

(* One thread in each of two workers / two threads in one worker.          *)
ThreadPerWorker == (a :> w1) @@ (b :> w2)

SameWorker == (a :> w1) @@ (b :> w1)
=============================================================================
