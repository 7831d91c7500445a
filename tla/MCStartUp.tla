----------------------------- MODULE MCStartUp -----------------------------
(* Values of the constants of StartUp for TLC.                             *)
EXTENDS StartUp

TwoRotated == <<"jwt_secret", "redis_secret">>

Env(n, a, p) == [node |-> n, auth |-> a, app |-> p]

ProductionDotEnv == {Env("production", "real", "production")}

(* .env for production, without AUTH_MODE, or with a developer's NODE_ENV. *)
SeveralDotEnvs ==
    ProductionDotEnv \cup {Env("production", "unset", "production"),
                           Env("development", "real", "production")}

ProdEnv(password) == [node |-> "production", auth |-> "real",
                      redisPassword |-> password, complete |-> TRUE]

(* .env.production as its template has it, with REDIS_PASSWORD added.      *)
WorkingProdEnv == {ProdEnv(TRUE)}
=============================================================================
