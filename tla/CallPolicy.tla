----------------------------- MODULE CallPolicy -----------------------------
(***************************************************************************)
(* What the circuit breaker promises to the backend, without its three     *)
(* modes: one caller at a time, and after FailMax failures in a row a      *)
(* pause of ResetTimeout ticks between any two calls until one succeeds.   *)
(* SessionAuth implements it once per worker process.                      *)
(***************************************************************************)
EXTENDS Naturals

CONSTANTS FailMax, ResetTimeout

VARIABLES calling,   \* is a call to the backend in flight?
          bad,       \* failures since the last success, counted up to FailMax
          pause      \* ticks during which no call may begin

policyVars == <<calling, bad, pause>>

PolicyInit == calling = FALSE /\ bad = 0 /\ pause = 0

Begin == /\ ~calling
         /\ pause = 0
         /\ calling' = TRUE
         /\ UNCHANGED <<bad, pause>>

Succeed == /\ calling
           /\ calling' = FALSE
           /\ bad' = 0
           /\ pause' = 0

Fail == /\ calling
        /\ calling' = FALSE
        /\ bad' = IF bad = FailMax THEN FailMax ELSE bad + 1
        /\ pause' = IF bad' = FailMax THEN ResetTimeout ELSE 0

Elapse == /\ pause > 0
          /\ pause' = pause - 1
          /\ UNCHANGED <<calling, bad>>

(* The process dies: its successor knows nothing.                          *)
Forget == calling' = FALSE /\ bad' = 0 /\ pause' = 0

PolicyNext == Begin \/ Succeed \/ Fail \/ Elapse \/ Forget

PolicySpec == PolicyInit /\ [][PolicyNext]_policyVars
=============================================================================
