---------------------------- MODULE MCRecurring ----------------------------
(***************************************************************************)
(* TLC instance of three parts whose timers repair what was missed: Timers *)
(* itself, ServiceDiscovery and FoxRedis. A behaviour is about one of them. *)
(***************************************************************************)
EXTENDS Timers, ServiceDiscovery, FoxRedis

VARIABLE part

RecurringInit ==
    /\ part \in {"timers", "discovery", "redis"}
    /\ Init /\ SdInit /\ RedisInit
    /\ part # "discovery" => zk = {}

RecurringNext ==
    /\ UNCHANGED part
    /\ \/ part = "timers" /\ Next /\ UNCHANGED <<sdVars, redisVars>>
       \/ part = "discovery" /\ SdNext /\ UNCHANGED <<vars, redisVars>>
       \/ part = "redis" /\ (RedisNext \/ UNCHANGED redisVars) /\ UNCHANGED <<vars, sdVars>>

RecurringSpec == RecurringInit /\ [][RecurringNext]_<<part, vars, sdVars, redisVars>>
=============================================================================
