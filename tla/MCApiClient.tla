---------------------------- MODULE MCApiClient ----------------------------
(***************************************************************************)
(* An instance of ApiClient for TLC: two calls of one page, or of the      *)
(* server that renders it; both may be apiClient.fetch at the same time,   *)
(* and the second may meet a silent network.                               *)
(***************************************************************************)
EXTENDS ApiClient, TLC

CONSTANTS c1, c2

MCUses == (c1 :> {<<"client", "report">>, <<"reports", "report">>,
                  <<"api", "me">>, <<"api", "csp-report">>})
       @@ (c2 :> {<<"client", "report">>, <<"lib", "me">>,
                  <<"libSignal", "me">>})
=============================================================================
