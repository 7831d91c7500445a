--------------------------- MODULE SessionPromise ---------------------------
(***************************************************************************)
(* What the clients of reports-api may rely on, without its threads' ways, *)
(* its caches and its breakers: a request ends at most once, about the     *)
(* token it came with; it is admitted on a token that is trusted and not   *)
(* withdrawn longer than Grace ago, refused on one that is accepted only   *)
(* if nobody could tell, and fails only while something is away, when it   *)
(* is odd, or when a failure, of another's odd request for one, is no      *)
(* older than Pause.  Trust once lost is not regained.                     *)
(* SessionAuth implements it.                                              *)
(***************************************************************************)
EXTENDS Naturals

CONSTANTS Client,      \* whoever asks, one request at a time
          Process,     \* what serves them
          ProcessOf,   \* the process that serves a client
          Tokens, NoToken,
          Grace,       \* ticks a withdrawn token may still be admitted
          Pause        \* ticks a failure of the backend may be held against it

VARIABLES asked,       \* the token each client asks with, or NoToken
          outcome,     \* none, due, odd (not to be passed on as it is),
                       \* unsure, admitted, refused or failed
          accepted,    \* does the backend accept the token?
          age,         \* ticks since it stopped, up to Grace
          trusted,     \* tokens that may still be admitted
          paused,      \* ticks each process goes on refusing to ask
          backendUp,
          cacheUp

promiseVars == <<asked, outcome, accepted, age, trusted, paused, backendUp, cacheUp>>
tokens == <<accepted, age>>
services == <<backendUp, cacheUp>>

(* How a request stands before anything is known about its token.          *)
Open == {"due", "odd"}

PromiseInit ==
    /\ asked = [c \in Client |-> NoToken]
    /\ outcome = [c \in Client |-> "none"]
    /\ accepted \in [Tokens -> BOOLEAN]
    /\ age = [t \in Tokens |-> 0]
    /\ trusted = {t \in Tokens : accepted[t]}
    /\ paused = [p \in Process |-> 0]
    /\ backendUp = TRUE
    /\ cacheUp = TRUE

Ask(c, t) == /\ outcome[c] = "none"
             /\ \E o \in Open : outcome' = [outcome EXCEPT ![c] = o]
             /\ asked' = [asked EXCEPT ![c] = t]
             /\ UNCHANGED <<tokens, paused, services>>

Ends(c, o) == /\ outcome' = [outcome EXCEPT ![c] = o]
              /\ UNCHANGED <<asked, tokens, services>>

Admit(c) == /\ outcome[c] \in Open
            /\ asked[c] \in trusted
            /\ accepted[asked[c]] \/ age[asked[c]] < Grace
            /\ Ends(c, "admitted")
            /\ UNCHANGED paused

(* The backend answers, and does not say whether it accepts the token.     *)
Puzzle(c) == /\ outcome[c] = "due"
             /\ Ends(c, "unsure")
             /\ UNCHANGED paused

Refuse(c) == /\ \/ outcome[c] = "unsure"
                \/ /\ outcome[c] \in Open
                   /\ asked[c] \in Tokens /\ accepted[asked[c]] => ~cacheUp
             /\ Ends(c, "refused")
             /\ UNCHANGED paused

(* Asking the backend on behalf of c may fail.                             *)
AskingFails(c) == ~backendUp \/ outcome[c] = "odd"

Fail(c) == /\ outcome[c] \in Open \cup {"unsure"}
           /\ \/ /\ ~cacheUp \/ AskingFails(c) \/ paused[ProcessOf[c]] > 0
                 /\ UNCHANGED paused
              \/ /\ AskingFails(c)
                 /\ paused' = [paused EXCEPT ![ProcessOf[c]] = Pause]
           /\ Ends(c, "failed")

Leave(c) == /\ outcome[c] \in {"admitted", "refused", "failed"}
            /\ outcome' = [outcome EXCEPT ![c] = "none"]
            /\ asked' = [asked EXCEPT ![c] = NoToken]
            /\ UNCHANGED <<tokens, paused, services>>

(* A process dies with its requests and its grudge against the backend.    *)
Restart(p) ==
    /\ outcome' = [c \in Client |-> IF ProcessOf[c] = p THEN "none" ELSE outcome[c]]
    /\ asked' = [c \in Client |-> IF ProcessOf[c] = p THEN NoToken ELSE asked[c]]
    /\ paused' = [paused EXCEPT ![p] = 0]
    /\ UNCHANGED <<tokens, services>>

Withdraw(t) == /\ accepted[t]
               /\ accepted' = [accepted EXCEPT ![t] = FALSE]
               /\ UNCHANGED <<asked, outcome, age, paused, services>>

Pass == /\ age' = [t \in Tokens |-> IF accepted[t] \/ age[t] = Grace
                                       THEN age[t] ELSE age[t] + 1]
        /\ paused' = [p \in Process |-> IF paused[p] = 0 THEN 0 ELSE paused[p] - 1]
        /\ UNCHANGED <<asked, outcome, accepted, services>>

ServicesChange == /\ services' # services
                  /\ UNCHANGED <<asked, outcome, tokens, paused>>

Forget == UNCHANGED <<asked, outcome, tokens, paused, services>>

(* Trust is lost at any time, save in a token that the backend accepts.    *)
NoNewTrust == /\ trusted' \subseteq trusted
              /\ {t \in Tokens : accepted'[t]} \subseteq trusted'

PromiseNext ==
    /\ \/ \E c \in Client : \/ \E t \in Tokens \cup {NoToken} : Ask(c, t)
                            \/ Admit(c) \/ Puzzle(c) \/ Refuse(c) \/ Fail(c)
                            \/ Leave(c)
       \/ \E p \in Process : Restart(p)
       \/ \E t \in Tokens : Withdraw(t)
       \/ Pass \/ ServicesChange \/ Forget
    /\ NoNewTrust

PromiseSpec == PromiseInit /\ [][PromiseNext]_promiseVars
=============================================================================
