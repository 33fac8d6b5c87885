------------------------------ MODULE FoxRedis ------------------------------
(***************************************************************************)
(* FoxRedis (db/redis.cc): a fiber hands its command to a FoxThread and    *)
(* suspends itself; the thread sends it through hiredis and schedules the  *)
(* fiber on the reply, on an error or on a timeout. What they share, FCtx, *)
(* is on the fiber's stack; a Ctx for hiredis and the timer lives until    *)
(* hiredis calls back, however late. All callbacks run in the one thread.  *)
(***************************************************************************)
EXTENDS Naturals, SequencesExt

CONSTANTS Commands,  \* the calls of cmd()
          MaxConns   \* bound: connections; a later attempt fails

ASSUME RedisAssumption == MaxConns \in Nat

VARIABLES status,  \* m_status
          alive,   \* m_context is one that hiredis has not freed
          links,   \* counted for the bound
          todo,    \* what was dispatched to the thread
          pipe,    \* the commands hiredis has to answer, in order
          ctx,     \* the Ctx of each command
          caller,  \* where the fiber in cmd() is
          handle,  \* fctx.fiber: emptied by schedule()
          wakes,   \* how often it is scheduled
          misuse,  \* an FCtx, a Ctx or a context was used after its end
          wild     \* the same, by the ping of every 120 s

redisLink == <<status, alive, links>>
redisFiber == <<caller, handle, wakes>>
redisVars == <<redisLink, todo, pipe, ctx, redisFiber, misuse, wild>>

NoCtx == [is |-> "no", timeout |-> FALSE, timer |-> FALSE]

\* RedisManager::init() calls init(), which dispatches pinit().
RedisInit ==
    /\ status = "UNCONNECTED" /\ alive = FALSE /\ links = 0
    /\ todo = <<"init">> /\ pipe = <<>>
    /\ ctx = [c \in Commands |-> NoCtx]
    /\ caller = [c \in Commands |-> "new"]
    /\ handle = [c \in Commands |-> TRUE] /\ wakes = [c \in Commands |-> 0]
    /\ misuse = FALSE /\ wild = FALSE

-----------------------------------------------------------------------------
\* cmd(): the FCtx, dispatch(), YieldToHold(), and the return that ends the
\* FCtx, once the fiber was scheduled.
Cmd(c) ==
    /\ caller[c] = "new"
    /\ caller' = [caller EXCEPT ![c] = "called"]
    /\ todo' = Append(todo, c)
    /\ UNCHANGED <<redisLink, pipe, ctx, handle, wakes, misuse, wild>>

YieldToHold(c) ==
    /\ caller[c] = "called"
    /\ caller' = [caller EXCEPT ![c] = "held"]
    /\ UNCHANGED <<redisLink, todo, pipe, ctx, handle, wakes, misuse, wild>>

Resumed(c) ==
    /\ caller[c] = "held" /\ wakes[c] > 0
    /\ caller' = [caller EXCEPT ![c] = "done"]
    /\ wakes' = [wakes EXCEPT ![c] = @ - 1]
    /\ UNCHANGED <<redisLink, todo, pipe, ctx, handle, misuse, wild>>

-----------------------------------------------------------------------------
\* if(fctx->fiber) schedule(&fctx->fiber), for each command of cs; bad says
\* whether something else was used after its end.
WakeUp(cs, bad) ==
    /\ wakes' = [c \in Commands |-> IF c \in cs /\ handle[c] THEN wakes[c] + 1 ELSE wakes[c]]
    /\ handle' = [c \in Commands |-> handle[c] /\ c \notin cs]
    /\ misuse' = (misuse \/ bad \/ \E c \in cs : caller[c] = "done")
    /\ UNCHANGED caller

\* pinit() without a connection: it begins one, or fails at once; a ping is
\* the first command.
Pinit ==
    \/ /\ links < MaxConns /\ links' = links + 1
       /\ status' = "CONNECTING" /\ alive' = TRUE
       /\ pipe' = <<"ping">>
    \/ UNCHANGED <<redisLink, pipe>>

\* The first pinit() may come after a command that has connected.
RunInit ==
    /\ todo # <<>> /\ Head(todo) = "init" /\ todo' = Tail(todo)
    /\ IF status = "UNCONNECTED" THEN Pinit ELSE UNCHANGED <<redisLink, pipe>>
    /\ UNCHANGED <<ctx, redisFiber, misuse, wild>>

\* Mutant: a command that finds no connection only makes one.
PcmdSilent(c) ==
    /\ todo # <<>> /\ Head(todo) = c /\ todo' = Tail(todo)
    /\ IF status = "UNCONNECTED"
       THEN WakeUp({}, FALSE) /\ Pinit /\ UNCHANGED ctx
       ELSE /\ ctx' = [ctx EXCEPT ![c] = [is |-> "live", timeout |-> FALSE, timer |-> TRUE]]
            /\ pipe' = Append(pipe, c)
            /\ WakeUp({}, ~alive)
            /\ UNCHANGED redisLink
    /\ UNCHANGED wild

\* pcmd(): without a connection the command fails and a connection is begun;
\* otherwise its Ctx is made, the timer set, and hiredis given the command.
Pcmd(c) ==
    /\ todo # <<>> /\ Head(todo) = c /\ todo' = Tail(todo)
    /\ IF status = "UNCONNECTED"
       THEN WakeUp({c}, FALSE) /\ Pinit /\ UNCHANGED ctx
       ELSE /\ ctx' = [ctx EXCEPT ![c] = [is |-> "live", timeout |-> FALSE, timer |-> TRUE]]
            /\ pipe' = Append(pipe, c)
            /\ WakeUp({}, ~alive)
            /\ UNCHANGED redisLink
    /\ UNCHANGED wild

\* Mutant: a late callback is not told from one in time.
CmdCbLate(cs) ==
    /\ WakeUp(cs, \E c \in cs : ctx[c].is # "live")
    /\ ctx' = [c \in Commands |-> IF c \in cs THEN [NoCtx EXCEPT !.is = "deleted"] ELSE ctx[c]]

\* CmdCb() for each of cs: after a timeout the Ctx is only deleted.
CmdCb(cs) ==
    /\ WakeUp({c \in cs : ~ctx[c].timeout}, \E c \in cs : ctx[c].is # "live")
    /\ ctx' = [c \in Commands |-> IF c \in cs THEN [NoCtx EXCEPT !.is = "deleted"] ELSE ctx[c]]

\* EventCb(): the timeout, after which only hiredis still has the Ctx.
EventCb(c) ==
    /\ ctx[c].is = "live" /\ ctx[c].timer
    /\ ctx' = [ctx EXCEPT ![c].timeout = TRUE, ![c].timer = FALSE]
    /\ WakeUp({c}, FALSE)
    /\ UNCHANGED <<redisLink, todo, pipe, wild>>

\* TimeCb(), from the first connection on: it does not look at m_status (bound:
\* one ping at a time; what follows the use of a freed context is not modelled).
TimeCb ==
    /\ links > 0
    /\ IF alive THEN ~Contains(pipe, "ping") /\ pipe' = Append(pipe, "ping") /\ UNCHANGED wild
       ELSE wild' = TRUE /\ UNCHANGED pipe
    /\ UNCHANGED <<redisLink, todo, ctx, redisFiber, misuse>>

-----------------------------------------------------------------------------
\* hiredis frees the context when the connection fails or is lost, after it
\* has called back for all that it still had to answer.
FreeContext ==
    /\ alive' = FALSE
    /\ pipe' = <<>> /\ CmdCb(ToSet(pipe) \cap Commands)
    /\ UNCHANGED <<links, todo, wild>>

\* ConnectCb(): connected, and authenticated where there is a password (the
\* reply to auth is only logged), or failed.
ConnectCb ==
    /\ status = "CONNECTING"
    /\ \/ /\ status' = "CONNECTED" /\ pipe' \in {pipe, Append(pipe, "auth")}
          /\ UNCHANGED <<alive, links, todo, ctx, redisFiber, misuse, wild>>
       \/ status' = "UNCONNECTED" /\ FreeContext

DisconnectCb == status = "CONNECTED" /\ status' = "UNCONNECTED" /\ FreeContext

\* The server answers the next command.
Reply ==
    /\ status = "CONNECTED" /\ pipe # <<>> /\ pipe' = Tail(pipe)
    /\ CmdCb({Head(pipe)} \cap Commands)
    /\ UNCHANGED <<redisLink, todo, wild>>

RedisNext ==
    /\ ~wild
    /\ \/ \E c \in Commands : Cmd(c) \/ YieldToHold(c) \/ Resumed(c) \/ Pcmd(c) \/ EventCb(c)
       \/ RunInit \/ TimeCb \/ ConnectCb \/ Reply \/ DisconnectCb

\* The thread runs what it is handed (JobRuns of FoxThread), timers expire and
\* fibers that can run do; of the server nothing is assumed.
RedisFair ==
    /\ WF_redisVars(~wild /\ (RunInit \/ \E c \in Commands : Pcmd(c)))
    /\ \A c \in Commands : /\ WF_redisVars(~wild /\ EventCb(c))
                           /\ WF_redisVars(~wild /\ (YieldToHold(c) \/ Resumed(c)))

-----------------------------------------------------------------------------
\* However a reply, an error, a timeout and a lost connection race, a command
\* schedules its fiber once, no FCtx is touched after its fiber has returned,
\* no Ctx after its deletion, and none is left behind; and a fiber that waits
\* still has its place in the list, its timer, or its wake-up.
CommandOnce ==
    /\ ~misuse
    /\ \A c \in Commands :
         /\ wakes[c] <= 1
         /\ ctx[c].is = "live" <=> Contains(pipe, c)
         /\ caller[c] \in {"called", "held"} =>
              wakes[c] = 1 \/ Contains(todo, c) \/ (ctx[c].is = "live" /\ ctx[c].timer)

\* Every command returns to its caller, whatever the server does.
CommandEnds ==
    RedisFair => \A c \in Commands : caller[c] # "new" ~> caller[c] = "done" \/ wild
=============================================================================
