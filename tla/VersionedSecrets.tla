-------------------------- MODULE VersionedSecrets --------------------------
(***************************************************************************)
(* What the operator may rely on when secrets are generated and rotated:   *)
(* a secret is a growing set of versions, never shared with another secret *)
(* and never lost, but the newest when the operator types over it; a       *)
(* process takes the newest version there is when it takes one, and keeps  *)
(* it until it ends.  StartUp implements it.                               *)
(***************************************************************************)
EXTENDS Naturals

CONSTANTS Secrets,     \* secrets with versions
          Overwritten, \* those the operator types over
          Version,     \* numbers of versions, all positive
          Users,       \* places in processes that keep a copy of one
          SecretOf(_)  \* the secret a place keeps a copy of

VARIABLES versions,    \* versions of each secret that can be had, by number
          inUse        \* version in each place, 0 if none or a typed value

secretVars == <<versions, inUse>>

NoSecrets == /\ versions = [s \in Secrets |-> {}]
             /\ inUse = [u \in Users |-> 0]

Add(s, n) == /\ \A t \in Secrets : \A m \in versions[t] : m < n
             /\ versions' = [versions EXCEPT ![s] = @ \cup {n}]
             /\ UNCHANGED inUse

Overwrite(s, n) == /\ s \in Overwritten
                   /\ n \in versions[s] /\ \A m \in versions[s] : m <= n
                   /\ versions' = [versions EXCEPT ![s] = @ \ {n}]
                   /\ UNCHANGED inUse

Take(u, n) == /\ n \in versions[SecretOf(u)]
              /\ \A m \in versions[SecretOf(u)] : m <= n
              /\ inUse' = [inUse EXCEPT ![u] = n]
              /\ UNCHANGED versions

Drop(U) == /\ inUse' = [u \in Users |-> IF u \in U THEN 0 ELSE inUse[u]]
           /\ UNCHANGED versions

SecretsNext == \/ \E s \in Secrets, n \in Version : Add(s, n) \/ Overwrite(s, n)
               \/ \E u \in Users, n \in Version : Take(u, n)
               \/ \E U \in SUBSET Users : Drop(U)

SecretsSpec == NoSecrets /\ [][SecretsNext]_secretVars
=============================================================================
