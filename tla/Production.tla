----------------------------- MODULE Production -----------------------------
(***************************************************************************)
(* What users of the deployed system may rely on, whatever the scripts do  *)
(* on the way: services are replaced one by one, by commits of main, each  *)
(* after the services it depends on and started after them; the database   *)
(* only moves forward; and what a deployer announces as deployed is what   *)
(* every service runs, until the next deployment begins.  A deployment     *)
(* that fails may leave a mixed release, but never an announced one.       *)
(* Deploy implements it.                                                   *)
(*                                                                         *)
(* Two stronger promises depend on how it is deployed:                     *)
(*   ForwardOnly   no service is replaced by an older commit               *)
(*   SchemaFirst   no service is newer than the database's migrations      *)
(***************************************************************************)
EXTENDS Naturals

CONSTANTS Services, Deployers,
          DependsOn,            \* the services each service needs
          ForwardOnly, SchemaFirst

VARIABLES head,      \* main has the commits 1 .. head
          db,        \* commit whose migrations the database has, 0 if none
          installed, \* commit of each service's container, 0 if none
          up,        \* services that have been started
          announced  \* commit each deployer says is deployed, 0 if none

productionVars == <<head, db, installed, up, announced>>

EmptyProduction ==
    /\ head = 1
    /\ db = 0
    /\ installed = [s \in Services |-> 0]
    /\ up = {}
    /\ announced = [d \in Deployers |-> 0]

Commits == 1 .. head

Unannounced == \A d \in Deployers : announced[d] = 0

Develop == /\ head' = head + 1
           /\ UNCHANGED <<db, installed, up, announced>>

Migrate(c) == /\ c > db
              /\ db' = c
              /\ UNCHANGED <<head, installed, up, announced>>

Replace(s, c) == /\ Unannounced
                 /\ ForwardOnly => installed[s] <= c
                 /\ SchemaFirst => c <= db
                 /\ \A n \in DependsOn[s] : installed[n] = c
                 /\ installed' = [installed EXCEPT ![s] = c]
                 /\ up' = up \ {s}
                 /\ UNCHANGED <<head, db, announced>>

Stop(s) == /\ Unannounced
           /\ up' = up \ {s}
           /\ UNCHANGED <<head, db, installed, announced>>

Start(s) == /\ Unannounced
            /\ DependsOn[s] \subseteq up
            /\ up' = up \cup {s}
            /\ UNCHANGED <<head, db, installed, announced>>

Announce(d, c) == /\ announced[d] = 0
                  /\ up = Services /\ \A s \in Services : installed[s] = c
                  /\ announced' = [announced EXCEPT ![d] = c]
                  /\ UNCHANGED <<head, db, installed, up>>

Withdraw(d) == /\ announced' = [announced EXCEPT ![d] = 0]
               /\ UNCHANGED <<head, db, installed, up>>

ProductionNext ==
    \/ Develop
    \/ \E c \in Commits : Migrate(c)
    \/ \E s \in Services : Stop(s) \/ Start(s) \/ \E c \in Commits : Replace(s, c)
    \/ \E d \in Deployers : Withdraw(d) \/ \E c \in Commits : Announce(d, c)

ProductionSpec == EmptyProduction /\ [][ProductionNext]_productionVars
=============================================================================
