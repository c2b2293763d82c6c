------------------------------- MODULE Deployment -------------------------------
(***************************************************************************)
(* The steps of src/scripts/deploy.sh and what is left running when one of *)
(* them fails.                                                             *)
(***************************************************************************)
EXTENDS Naturals

CONSTANT Polls  \* health checks before the script gives up

VARIABLES
  step,   \* where the script is, or how its last run ended
  app,    \* the app container: none, one of an earlier run, or this run's
  polled

vars == <<step, app, polled>>

Idle == {"none", "deployed", "failed"}

Init == step = "none" /\ app = "down" /\ polled = 0

\* The script starts, and is past its checks of .env and of the environment, or
\* refuses: whatever ran before runs on.
Deploy ==
  /\ step \in Idle
  /\ app' = IF app = "new" THEN "old" ELSE app
  /\ step' \in {"checked", "failed"}
  /\ polled' = 0

\* docker compose up -d --build: what it has replaced when it fails differs.
Up ==
  /\ step = "checked"
  /\ \/ step' = "started" /\ app' = "new"
     \/ step' = "failed" /\ app' \in {app, "down", "new"}
  /\ UNCHANGED polled

\* One turn of the loop over the container's health, and what follows it.
Poll ==
  /\ step = "started"
  /\ polled' = polled + 1
  /\ \E health \in {"healthy", "unhealthy", "starting"} :
       step' = CASE health = "healthy" -> "healthy"
                 [] health = "unhealthy" -> "failed"
                 [] OTHER -> IF polled' = Polls THEN "failed" ELSE step
  /\ UNCHANGED app

SmokeTest ==
  /\ step = "healthy"
  /\ \/ step' = "deployed" /\ UNCHANGED app
     \/ step' = "failed" /\ app' = "down"
  /\ UNCHANGED polled

\* deploy.sh --rollback, and deploy.sh --down.
Rollback ==
  /\ step \in Idle
  /\ step' = "none" /\ app' = "down"
  /\ UNCHANGED polled

Next == Deploy \/ Up \/ Poll \/ SmokeTest \/ Rollback

Spec == Init /\ [][Next]_vars

-----------------------------------------------------------------------------
\* README.md:112: when the health check times out, the deployment is rolled
\* back: nothing of it is left running.
TimeoutRollsBack == step = "failed" /\ polled = Polls => app # "new"
=============================================================================
