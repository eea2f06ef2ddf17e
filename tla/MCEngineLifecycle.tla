-------------------------- MODULE MCEngineLifecycle --------------------------
(* EngineLifecycle for TLC; every constant is a number given in the .cfg.   *)
EXTENDS EngineLifecycle
=============================================================================
