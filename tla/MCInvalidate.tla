---------------------------- MODULE MCInvalidate ----------------------------
(***************************************************************************)
(* SessionAuth with a history variable: the tokens for which the           *)
(* invalidation endpoint answered ok after the backend had stopped         *)
(* accepting them (the order a logout would use).                          *)
(***************************************************************************)
EXTENDS MCSessionAuth

VARIABLE purged

HInit == Init /\ purged = {}

HNext ==
    \/ \E w \in Worker, t \in Token :
          /\ InvalidateSessionCache(w, t)
          /\ purged' = IF valid[t] THEN purged ELSE purged \cup {t}
    \/ /\ \/ \E th \in Thread : Arrive(th) \/ ThreadStep(th)
          \/ Environment
       /\ UNCHANGED purged

HSpec == HInit /\ [][HNext]_<<vars, purged>>

(* auth.py names POST /internal/cache/invalidate as the way to invalidate  *)
(* at once: after it, no request with that token is served from the cache. *)
InvalidationIsImmediate ==
    [][\A th \in Thread :
          At(th, "lookup") /\ Admits(th) =>
             request[th].tok \notin purged]_<<vars, purged>>
=============================================================================
