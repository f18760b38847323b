---------------------------- MODULE MCAsyncBroker ---------------------------
(* Two api_calls on two projects with two event types; retries outnumber  *)
(* the environment's failures (MaxFaults < MaxRetry), so a task is never  *)
(* archived for running out of retries, and any loss or duplicate is the *)
(* processors' doing.                                                     *)
EXTENDS AsyncBroker
=============================================================================
