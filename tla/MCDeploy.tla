------------------------------ MODULE MCDeploy ------------------------------
(* Values of the constants of Deploy for TLC.                              *)
EXTENDS Deploy

(* A tag per commit, as make prod asks for: export TAG=<sha>.              *)
ShaTag == [c \in Commit |-> {c}]

ShaTags == Commit

(* One tag for every commit, or TAG forgotten.                             *)
LatestTag == [c \in Commit |-> {"latest", NoTag}]
=============================================================================
