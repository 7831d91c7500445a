----------------------------- MODULE RemoteCall -----------------------------
(***************************************************************************)
(* What a caller may conclude from the outcome of a call to a service:     *)
(*                                                                         *)
(*   done     its work was done, once                                      *)
(*   refused  its work was not done and never will be                      *)
(*   unknown  its work was done at most once, or still may be              *)
(*                                                                         *)
(* however often the client sends the request.  ApiClient implements it.   *)
(***************************************************************************)
EXTENDS Naturals

CONSTANT Calls

VARIABLES phase,     \* "idle", "open" or "closed"
          verdict,   \* what the caller was told of a closed call
          work       \* how often the service has done the call's work

callVars == <<phase, verdict, work>>

CallInit == /\ phase = [c \in Calls |-> "idle"]
            /\ verdict = [c \in Calls |-> "none"]
            /\ work = [c \in Calls |-> 0]

Open(c) == /\ phase[c] # "open"
           /\ phase' = [phase EXCEPT ![c] = "open"]
           /\ verdict' = [verdict EXCEPT ![c] = "none"]
           /\ work' = [work EXCEPT ![c] = 0]

Work(c) == /\ phase[c] = "open" \/ verdict[c] = "unknown"
           /\ work[c] = 0
           /\ work' = [work EXCEPT ![c] = 1]
           /\ UNCHANGED <<phase, verdict>>

Close(c, v) == /\ phase[c] = "open"
               /\ v = "done" => work[c] = 1
               /\ v = "refused" => work[c] = 0
               /\ phase' = [phase EXCEPT ![c] = "closed"]
               /\ verdict' = [verdict EXCEPT ![c] = v]
               /\ UNCHANGED work

(* The page that made the calls goes away.                                 *)
Abandon(S) == /\ \A c \in S : phase[c] = "open"
              /\ phase' = [c \in Calls |-> IF c \in S THEN "closed" ELSE phase[c]]
              /\ verdict' = [c \in Calls |-> IF c \in S THEN "unknown" ELSE verdict[c]]
              /\ UNCHANGED work

CallNext == \/ \E c \in Calls : Open(c) \/ Work(c)
            \/ \E c \in Calls, v \in {"done", "refused", "unknown"} : Close(c, v)
            \/ \E S \in SUBSET Calls : Abandon(S)

CallSpec == CallInit /\ [][CallNext]_callVars
=============================================================================
