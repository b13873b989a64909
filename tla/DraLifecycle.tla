----------------------------- MODULE DraLifecycle -----------------------------
(***************************************************************************)
(* Start-up and shutdown of opncell-drad (main.c:275-461 and :807-858):    *)
(* the order in which the daemon and freeDiameter take hold of each        *)
(* other, and lets go, on every path.                                      *)
(*                                                                         *)
(* Three kinds of thread run here: the main thread (pc), freeDiameter's    *)
(* peer state machines, which call the peer hook, and its routing threads. *)
(* The last two exist while the core runs.  The loop between start-up and  *)
(* shutdown is the subject of DraDaemon; here a pass only publishes.       *)
(*                                                                         *)
(* Taken of freeDiameter: registering a hook or a callback and removing it *)
(* exclude its being called (both sides take the same lock); a core that   *)
(* was asked to stop stops; a start that fails may have started threads.   *)
(***************************************************************************)
EXTENDS Naturals, FiniteSets

CONSTANT Peers   \* number of enabled peers in dra.yaml

ASSUME PeersAssumption == Peers \in Nat

VARIABLES
  pc,        \* position of the main thread
  core,      \* freeDiameter: "off", "ready" (initialised), "running", "stopping", "down"
  ctx,       \* "none", "empty", "writing" (without context_lock), "loaded", "final"
  added,     \* number of peers handed to freeDiameter
  hook,      \* the peer hook is registered
  inHook,    \* a state machine is inside peer_hook_cb()
  callback,  \* the routing callback is registered
  valid,     \* routing_snapshot_valid
  handlers,  \* the signal handlers are installed
  shutdown,  \* shutdown_requested
  conf,      \* the generated freeDiameter configuration lies in /tmp
  failed,    \* calls into freeDiameter and the system that failed
  last       \* how the last request was routed

lifeVars == <<pc, core, ctx, added, hook, inHook, callback, valid, handlers,
              shutdown, conf, failed, last>>

coreVars   == <<core, added>>
hookVars   == <<hook, inHook>>
routeVars  == <<callback, valid, last>>
signalVars == <<handlers, shutdown>>

Booting  == {"boot", "context", "hook", "signals", "load", "loading", "write", "parse",
             "preflight", "add", "start", "wait", "snapshot", "register", "diagnose"}
Stopping == {"unregister", "clear", "stop", "waitstop", "unhook", "unlink", "finish"}
Aborting == {"abortRoute", "abortClear", "abortStop", "abortWait", "abort", "abortFinish"}
Ended    == {"terminated", "failure", "killed"}

Calls == {"start", "waitstart", "unregister", "stop", "waitstop", "unhook", "unlink"}

Init ==
  /\ pc = "boot" /\ core = "off" /\ ctx = "none" /\ added = 0
  /\ hook = FALSE /\ inHook = FALSE
  /\ callback = FALSE /\ valid = FALSE /\ last = "none"
  /\ handlers = FALSE /\ shutdown = FALSE
  /\ conf = FALSE /\ failed = {}

Fails(call) == failed' = failed \union {call}

-----------------------------------------------------------------------------
(* Start-up.  Every step may fail; where it goes then is the code's choice. *)

Initialize ==
  /\ pc = "boot"
  /\ \/ core' = "ready" /\ pc' = "context"
     \/ core' = "off" /\ pc' = "failure"
  /\ UNCHANGED <<ctx, added, conf, failed, hookVars, routeVars, signalVars>>

InitContext ==
  /\ pc = "context" /\ pc' = "hook"
  /\ ctx' = "empty"
  /\ UNCHANGED <<conf, failed, coreVars, hookVars, routeVars, signalVars>>

\* From here on freeDiameter holds a pointer to ctx.
RegisterHook ==
  /\ pc = "hook"
  /\ \/ hook' = TRUE /\ pc' = "signals" /\ UNCHANGED ctx
     \/ hook' = FALSE /\ ctx' = "final" /\ pc' = "failure"
  /\ UNCHANGED <<inHook, conf, failed, coreVars, routeVars, signalVars>>

InstallHandlers ==
  /\ pc = "signals"
  /\ \/ handlers' = TRUE /\ pc' = "load"
     \/ handlers' = FALSE /\ pc' = "abort"
  /\ UNCHANGED <<ctx, conf, failed, shutdown, coreVars, hookVars, routeVars>>

\* dra_provisioning_load() fills ctx in place and takes no lock.
LoadBegin ==
  /\ pc = "load" /\ pc' = "loading"
  /\ ctx' = "writing"
  /\ UNCHANGED <<conf, failed, coreVars, hookVars, routeVars, signalVars>>

LoadEnd ==
  /\ pc = "loading"
  /\ \/ ctx' = "loaded" /\ pc' = "write"
     \/ ctx' = "empty" /\ pc' = "abort"
  /\ UNCHANGED <<conf, failed, coreVars, hookVars, routeVars, signalVars>>

WriteConfig ==
  /\ pc = "write"
  /\ conf' \in BOOLEAN
  /\ \/ conf' /\ pc' = "parse"
     \/ pc' = "abort"
  /\ UNCHANGED <<ctx, failed, coreVars, hookVars, routeVars, signalVars>>

ParseConf ==
  /\ pc = "parse" /\ pc' \in {"preflight", "abort"}
  /\ UNCHANGED <<ctx, conf, failed, coreVars, hookVars, routeVars, signalVars>>

PreflightPeers ==
  /\ pc = "preflight" /\ pc' \in {"add", "abort"}
  /\ UNCHANGED <<ctx, conf, failed, coreVars, hookVars, routeVars, signalVars>>

\* Defect for the checks: a peer that cannot be added is skipped.
BugSkipsPeer ==
  /\ pc = "add" /\ pc' \in {"add", "start"}
  /\ \/ added < Peers /\ added' = added + 1 /\ pc' = "add"
     \/ added' = added /\ pc' = "start"
  /\ UNCHANGED <<core, ctx, conf, failed, hookVars, routeVars, signalVars>>

\* Defect for the checks: the loop over the peers runs once too often.
BugOnePeerMore ==
  /\ pc = "add"
  /\ added' = added + 1 /\ pc' = IF added = Peers THEN "start" ELSE "add"
  /\ UNCHANGED <<core, ctx, conf, failed, hookVars, routeVars, signalVars>>

\* dra_diameter_add_configured_peers(): one call per peer, the first failure ends it.
AddPeer ==
  /\ pc = "add"
  /\ \/ added < Peers /\ added' = added + 1 /\ pc' = "add"
     \/ added < Peers /\ added' = added /\ pc' = "abort"
     \/ added = Peers /\ added' = added /\ pc' = "start"
  /\ UNCHANGED <<core, ctx, conf, failed, hookVars, routeVars, signalVars>>

\* A failed start is not followed by fd_core_shutdown().
StartCore ==
  /\ pc = "start"
  /\ \/ core' = "running" /\ pc' = "wait" /\ UNCHANGED failed
     \/ core' \in {"ready", "running"} /\ pc' = "abort" /\ Fails("start")
  /\ UNCHANGED <<ctx, added, conf, hookVars, routeVars, signalVars>>

WaitStarted ==
  /\ pc = "wait"
  /\ \/ pc' = "snapshot" /\ UNCHANGED failed
     \/ pc' = "abortStop" /\ Fails("waitstart")
  /\ UNCHANGED <<ctx, conf, coreVars, hookVars, routeVars, signalVars>>

\* Defect for the checks: a start-up that cannot fill the snapshot goes on without
\* the callback.
BugNoCallback ==
  /\ pc = "snapshot"
  /\ \/ valid' = TRUE /\ pc' = "register"
     \/ valid' = valid /\ pc' = "diagnose"
  /\ UNCHANGED <<ctx, conf, failed, callback, last, coreVars, hookVars, signalVars>>

\* dra_diameter_register_routing(): the snapshot is filled, then the callback is
\* registered.
FillSnapshot ==
  /\ pc = "snapshot"
  /\ \/ valid' = TRUE /\ pc' = "register"
     \/ valid' = valid /\ pc' = "abortStop"
  /\ UNCHANGED <<ctx, conf, failed, callback, last, coreVars, hookVars, signalVars>>

RegisterRouting ==
  /\ pc = "register"
  /\ \/ callback' = TRUE /\ pc' = "diagnose"
     \/ callback' = FALSE /\ pc' = "abortStop"
  /\ UNCHANGED <<ctx, conf, failed, valid, last, coreVars, hookVars, signalVars>>

\* Defect for the checks: the diagnostic's failure path forgets the core.
BugAbandonCore ==
  /\ pc = "diagnose" /\ pc' \in {"ready", "abort"}
  /\ UNCHANGED <<ctx, conf, failed, coreVars, hookVars, routeVars, signalVars>>

\* dra_diameter_test_routing() fails unless the peers it names are configured.
Diagnose ==
  /\ pc = "diagnose" /\ pc' \in {"ready", "abortRoute"}
  /\ UNCHANGED <<ctx, conf, failed, coreVars, hookVars, routeVars, signalVars>>

-----------------------------------------------------------------------------
(* The loop and the way out. *)

\* As far as start-up and shutdown are concerned, a pass publishes or fails to.
Pass ==
  /\ pc = "ready" /\ ~shutdown
  /\ valid' = TRUE \/ UNCHANGED valid
  /\ UNCHANGED <<pc, ctx, conf, failed, callback, last, coreVars, hookVars, signalVars>>

LeaveLoop ==
  /\ pc = "ready" /\ shutdown /\ pc' = "unregister"
  /\ UNCHANGED <<ctx, conf, failed, coreVars, hookVars, routeVars, signalVars>>

\* Defect for the checks: the snapshot goes before the callback.
BugClearFirst(from, next, after) ==
  /\ pc = from /\ pc' = next
  /\ valid' = FALSE
  /\ UNCHANGED <<ctx, conf, failed, callback, last, coreVars, hookVars, signalVars>>

\* dra_diameter_unregister_routing(): if freeDiameter keeps the callback, the
\* snapshot is kept as well.
Unregister(from, next, after) ==
  /\ pc = from
  /\ \/ callback' = FALSE /\ pc' = next /\ UNCHANGED failed
     \/ UNCHANGED callback /\ pc' = after /\ Fails("unregister")
  /\ UNCHANGED <<ctx, conf, valid, last, coreVars, hookVars, signalVars>>

ClearSnapshot(from, next) ==
  /\ pc = from /\ pc' = next
  /\ valid' = FALSE
  /\ UNCHANGED <<ctx, conf, failed, callback, last, coreVars, hookVars, signalVars>>

\* Defect for the checks: the core is waited for but never asked to stop.
BugNoRequest(from, next) ==
  /\ pc = from /\ pc' = next
  /\ UNCHANGED <<ctx, conf, failed, coreVars, hookVars, routeVars, signalVars>>

ShutdownCore(from, next) ==
  /\ pc = from /\ pc' = next
  /\ \/ core' = "stopping" /\ UNCHANGED failed
     \/ UNCHANGED core /\ Fails("stop")
  /\ UNCHANGED <<ctx, added, conf, hookVars, routeVars, signalVars>>

\* fd_core_wait_shutdown_complete(): returns when the core is down ...
WaitShutdown(from, next) ==
  /\ pc = from /\ pc' = next
  /\ core = "down"
  /\ UNCHANGED <<ctx, conf, failed, coreVars, hookVars, routeVars, signalVars>>

\* ... or with an error.
WaitShutdownFails(from, next) ==
  /\ pc = from /\ pc' = next
  /\ Fails("waitstop")
  /\ UNCHANGED <<ctx, conf, coreVars, hookVars, routeVars, signalVars>>

\* Defect for the checks: the peer hook stays registered.
BugKeepsHook(from, next) ==
  /\ pc = from /\ pc' = next
  /\ UNCHANGED <<ctx, conf, failed, coreVars, hookVars, routeVars, signalVars>>

\* fd_hook_unregister() waits for a hook that is running.
UnregisterHook(from, next) ==
  /\ pc = from /\ pc' = next
  /\ ~inHook
  /\ \/ hook' = FALSE /\ UNCHANGED failed
     \/ UNCHANGED hook /\ Fails("unhook")
  /\ UNCHANGED <<ctx, inHook, conf, coreVars, routeVars, signalVars>>

Unlink ==
  /\ pc = "unlink" /\ pc' = "finish"
  /\ \/ conf' = FALSE /\ UNCHANGED failed
     \/ UNCHANGED conf /\ Fails("unlink")
  /\ UNCHANGED <<ctx, coreVars, hookVars, routeVars, signalVars>>

\* dra_context_final() takes no lock.
Finish(from, next) ==
  /\ pc = from /\ pc' = next
  /\ ctx' = "final"
  /\ UNCHANGED <<conf, failed, coreVars, hookVars, routeVars, signalVars>>

Shutdown ==
  \/ LeaveLoop
  \/ Unregister("unregister", "clear", "stop")
  \/ ClearSnapshot("clear", "stop")
  \/ ShutdownCore("stop", "waitstop")
  \/ WaitShutdown("waitstop", "unhook")
  \/ UnregisterHook("unhook", "unlink")
  \/ Unlink
  \/ Finish("finish", "terminated")

\* The failure paths repeat parts of the shutdown; none of them removes the
\* generated configuration.
Abort ==
  \/ Unregister("abortRoute", "abortClear", "abortStop")
  \/ ClearSnapshot("abortClear", "abortStop")
  \/ ShutdownCore("abortStop", "abortWait")
  \/ WaitShutdown("abortWait", "abort")
  \/ UnregisterHook("abort", "abortFinish")
  \/ Finish("abortFinish", "failure")

Startup ==
  \/ Initialize \/ InitContext \/ RegisterHook \/ InstallHandlers
  \/ LoadBegin \/ LoadEnd \/ WriteConfig \/ ParseConf \/ PreflightPeers \/ AddPeer
  \/ StartCore \/ WaitStarted \/ FillSnapshot \/ RegisterRouting \/ Diagnose

WaitFails == \/ WaitShutdownFails("waitstop", "unhook")
             \/ WaitShutdownFails("abortWait", "abort")

Main == Startup \/ Pass \/ Shutdown \/ Abort

-----------------------------------------------------------------------------
(* The others. *)

\* SIGTERM or SIGINT: without a handler it ends the process.
Terminate ==
  /\ pc \notin Ended
  /\ IF handlers THEN shutdown' = TRUE /\ UNCHANGED pc
     ELSE pc' = "killed" /\ UNCHANGED shutdown
  /\ UNCHANGED <<ctx, handlers, conf, failed, coreVars, hookVars, routeVars>>

ThreadsRun == core \in {"running", "stopping"} /\ pc \notin Ended

HookEnter ==
  /\ ThreadsRun /\ hook /\ ~inHook
  /\ inHook' = TRUE
  /\ UNCHANGED <<pc, ctx, hook, conf, failed, coreVars, routeVars, signalVars>>

HookLeave ==
  /\ inHook /\ pc \notin Ended
  /\ inHook' = FALSE
  /\ UNCHANGED <<pc, ctx, hook, conf, failed, coreVars, routeVars, signalVars>>

\* A request comes in: the callback decides, with the snapshot or (fail closed)
\* without; if there is no callback, freeDiameter decides alone.
RouteRequest ==
  /\ ThreadsRun
  /\ last' = IF ~callback THEN "native" ELSE IF valid THEN "policy" ELSE "refused"
  /\ UNCHANGED <<pc, ctx, callback, valid, conf, failed, coreVars, hookVars, signalVars>>

CoreStops ==
  /\ core = "stopping" /\ ~inHook /\ pc \notin Ended
  /\ core' = "down"
  /\ UNCHANGED <<pc, ctx, added, conf, failed, hookVars, routeVars, signalVars>>

Over == pc \in Ended /\ UNCHANGED lifeVars

Next == \/ Main \/ WaitFails \/ Terminate \/ HookEnter \/ HookLeave
        \/ RouteRequest \/ CoreStops \/ Over

Spec == Init /\ [][Next]_lifeVars

\* The main thread never blocks for good but in the wait for the core, and is not kept
\* out for good by hooks that come and go; a hook holds context_lock for a moment; a
\* core that was asked to stop ends its state machines one by one, between two hooks.
FairSpec == Spec /\ WF_lifeVars(Main) /\ WF_lifeVars(HookLeave)
                 /\ SF_lifeVars(Shutdown \/ Abort) /\ SF_lifeVars(CoreStops)

-----------------------------------------------------------------------------
\* Type invariant, in two parts.
PositionsTyped ==
  /\ pc \in Booting \union {"ready"} \union Stopping \union Aborting \union Ended
  /\ core \in {"off", "ready", "running", "stopping", "down"}
  /\ ctx \in {"none", "empty", "writing", "loaded", "final"}
  /\ added \in 0..Peers
  /\ failed \subseteq Calls
  /\ last \in {"none", "native", "policy", "refused"}

FlagsTyped ==
  /\ hook \in BOOLEAN /\ inHook \in BOOLEAN
  /\ callback \in BOOLEAN /\ valid \in BOOLEAN
  /\ handlers \in BOOLEAN /\ shutdown \in BOOLEAN
  /\ conf \in BOOLEAN

TypeOK == PositionsTyped /\ FlagsTyped

\* main.c:305 and :809-860.  A state machine in peer_hook_cb() finds a context that
\* is loaded: not one being filled without context_lock, and not one that was
\* finalised, on every failure path.  Only a hook that could not be removed from a
\* core that could not be stopped defeats this.
HookMeetsContext ==
  inHook => \/ ctx = "loaded"
            \/ "unhook" \in failed /\ failed \cap {"start", "waitstop"} # {}

\* main.c:370: "This prevents a partially populated peer table during startup."
\* Connections are made only once every configured peer is in the table.
CoreStartsComplete == core \notin {"off", "ready"} => added = Peers

\* diameter.c:888 and :961.  The callback never has to refuse a request because the
\* snapshot is missing: it is filled before registration, and kept for as long as
\* freeDiameter keeps the callback.
NeverRefusedUnfilled == last # "refused"

\* main.c:421 and :809.  Requests freeDiameter routes without the daemon's policy
\* are confined to the time before registration and after its removal; none falls
\* between the diagnostic and the removal.
NativeOnlyAtTheEdges ==
  [][last # "native" /\ last' = "native" => pc \notin {"diagnose", "ready", "unregister"}]_lifeVars

\* main.c:395-455.  The process does not end under a running core, so that peers see
\* their associations closed, unless the core could not be started or waited for.
NoAbandonedCore ==
  pc \in {"terminated", "failure"} /\ core \in {"running", "stopping"} =>
    failed \cap {"start", "waitstop"} # {}

\* main.c:463 and :807-860.  A request to terminate is honoured at every point of
\* start-up, loop and shutdown, unless the core could not be started or stopped.
TerminationEnds ==
  shutdown ~> (pc \in Ended \/ failed \cap {"start", "stop", "waitstop"} # {})
=============================================================================
