-------------------------- MODULE DraLifecycle_proofs --------------------------
(***************************************************************************)
(* Proofs about start-up and shutdown, for every number of peers, every    *)
(* failure and every interleaving with freeDiameter's threads.             *)
(*                                                                         *)
(* The invariant says, for the stretches of the main thread's way, what    *)
(* holds of the core, the peers, the context, the hook and the callback.   *)
(***************************************************************************)
EXTENDS DraLifecycle, TLAPS

CoreLost == failed \cap {"start", "waitstop"} # {}

\* Before the core is started, from there to the end of a shutdown, and once the main
\* thread has finished waiting for the core.
BeforeStart == {"boot", "context", "hook", "signals", "load", "loading", "write", "parse",
                "preflight", "add", "start"}
PeersAdded  == {"start", "wait", "snapshot", "register", "diagnose", "ready"} \union Stopping \union
               {"abortRoute", "abortClear", "abortStop", "abortWait"}
CoreGone    == {"unhook", "unlink", "finish", "terminated", "abort", "abortFinish", "failure"}
HookGone    == {"unlink", "finish", "abortFinish"}

PeersComplete ==
  /\ pc \in PeersAdded => added = Peers
  /\ core \notin {"off", "ready"} => added = Peers

CorePhases ==
  /\ pc \in BeforeStart => core \in {"off", "ready"}
  /\ pc \in CoreGone /\ core \in {"running", "stopping"} => CoreLost

ContextPhases ==
  /\ pc \in PeersAdded \union {"write", "parse", "preflight", "add"} => ctx = "loaded"
  /\ core \notin {"off", "ready"} /\ pc \notin Ended => ctx = "loaded"

HookPhases ==
  /\ inHook => core \in {"running", "stopping"}
  /\ pc \in HookGone /\ inHook => CoreLost
  /\ pc \in HookGone /\ hook => "unhook" \in failed
  /\ pc \in HookGone /\ inHook => hook
  /\ HookMeetsContext

CallbackPhases ==
  /\ callback => valid
  /\ pc = "register" => valid
  /\ pc \in {"clear", "abortClear"} => ~callback
  /\ pc \in {"diagnose", "ready", "unregister"} => callback
  /\ last # "refused"

Phases == PeersComplete /\ CorePhases /\ ContextPhases /\ HookPhases /\ CallbackPhases

IInv == TypeOK /\ Phases

-----------------------------------------------------------------------------
(* Every step keeps the invariant.                                         *)

\* Start-up, whatever fails.
LEMMA StartupKeeps ==
  ASSUME IInv, Startup
  PROVE  Phases'
<1>. USE DEF IInv, TypeOK, FlagsTyped, Phases, PeersComplete, CorePhases, ContextPhases, HookPhases,
             CallbackPhases, HookMeetsContext, CoreLost, BeforeStart, PeersAdded, CoreGone,
             HookGone, Stopping, Ended, Fails, coreVars, hookVars, routeVars, signalVars
<1>1. CASE Initialize
  BY <1>1 DEF Initialize
<1>2. CASE InitContext
  BY <1>2 DEF InitContext
<1>3. CASE RegisterHook
  BY <1>3 DEF RegisterHook
<1>4. CASE InstallHandlers
  BY <1>4 DEF InstallHandlers
<1>5. CASE LoadBegin
  BY <1>5 DEF LoadBegin
<1>6. CASE LoadEnd
  BY <1>6 DEF LoadEnd
<1>7. CASE WriteConfig
  BY <1>7 DEF WriteConfig
<1>8. CASE ParseConf
  BY <1>8 DEF ParseConf
<1>9. CASE PreflightPeers
  BY <1>9 DEF PreflightPeers
<1>10. CASE AddPeer
  BY <1>10 DEF AddPeer
<1>11. CASE StartCore
  BY <1>11 DEF StartCore
<1>12. CASE WaitStarted
  BY <1>12 DEF WaitStarted
<1>13. CASE FillSnapshot
  BY <1>13 DEF FillSnapshot
<1>14. CASE RegisterRouting
  BY <1>14 DEF RegisterRouting
<1>15. CASE Diagnose
  BY <1>15 DEF Diagnose
<1>. QED  BY <1>1, <1>2, <1>3, <1>4, <1>5, <1>6, <1>7, <1>8, <1>9, <1>10, <1>11, <1>12, <1>13, <1>14, <1>15 DEF Startup

\* The orderly way out.
LEMMA ShutdownKeeps ==
  ASSUME IInv, Shutdown
  PROVE  Phases'
<1>. USE DEF IInv, TypeOK, FlagsTyped, Phases, PeersComplete, CorePhases, ContextPhases, HookPhases,
             CallbackPhases, HookMeetsContext, CoreLost, BeforeStart, PeersAdded, CoreGone,
             HookGone, Stopping, Ended, Fails, coreVars, hookVars, routeVars, signalVars
<1>1. CASE LeaveLoop
  BY <1>1 DEF LeaveLoop
<1>2. CASE Unregister("unregister", "clear", "stop")
  BY <1>2 DEF Unregister
<1>3. CASE ClearSnapshot("clear", "stop")
  BY <1>3 DEF ClearSnapshot
<1>4. CASE ShutdownCore("stop", "waitstop")
  BY <1>4 DEF ShutdownCore
<1>5. CASE WaitShutdown("waitstop", "unhook")
  BY <1>5 DEF WaitShutdown
<1>6. CASE UnregisterHook("unhook", "unlink")
  BY <1>6 DEF UnregisterHook
<1>7. CASE Unlink
  BY <1>7 DEF Unlink
<1>8. CASE Finish("finish", "terminated")
  BY <1>8 DEF Finish
<1>. QED  BY <1>1, <1>2, <1>3, <1>4, <1>5, <1>6, <1>7, <1>8 DEF Shutdown

\* The failure paths.
LEMMA AbortKeeps ==
  ASSUME IInv, Abort
  PROVE  Phases'
<1>. USE DEF IInv, TypeOK, FlagsTyped, Phases, PeersComplete, CorePhases, ContextPhases, HookPhases,
             CallbackPhases, HookMeetsContext, CoreLost, BeforeStart, PeersAdded, CoreGone,
             HookGone, Stopping, Ended, Fails, coreVars, hookVars, routeVars, signalVars
<1>1. CASE Unregister("abortRoute", "abortClear", "abortStop")
  BY <1>1 DEF Unregister
<1>2. CASE ClearSnapshot("abortClear", "abortStop")
  BY <1>2 DEF ClearSnapshot
<1>3. CASE ShutdownCore("abortStop", "abortWait")
  BY <1>3 DEF ShutdownCore
<1>4. CASE WaitShutdown("abortWait", "abort")
  BY <1>4 DEF WaitShutdown
<1>5. CASE UnregisterHook("abort", "abortFinish")
  BY <1>5 DEF UnregisterHook
<1>6. CASE Finish("abortFinish", "failure")
  BY <1>6 DEF Finish
<1>. QED  BY <1>1, <1>2, <1>3, <1>4, <1>5, <1>6 DEF Abort

\* The loop, a failed wait, signals, hooks, requests and the core.
LEMMA OthersKeep ==
  ASSUME IInv, Pass \/ WaitFails \/ Terminate \/ HookEnter \/ HookLeave \/ RouteRequest
         \/ CoreStops \/ UNCHANGED lifeVars
  PROVE  Phases'
<1>. USE DEF IInv, TypeOK, FlagsTyped, Phases, PeersComplete, CorePhases, ContextPhases, HookPhases,
             CallbackPhases, HookMeetsContext, CoreLost, BeforeStart, PeersAdded, CoreGone,
             HookGone, Stopping, Ended, Fails, coreVars, hookVars, routeVars, signalVars
<1>1. CASE Pass
  <2>1. UNCHANGED <<pc, core, ctx, added, hook, inHook, callback, failed, last>>
    BY <1>1 DEF Pass
  <2>2. valid => valid'
    <3>1. CASE valid' = TRUE
      BY <3>1
    <3>2. CASE valid' = valid
      BY <3>2
    <3>. QED  BY <1>1, <3>1, <3>2 DEF Pass
  <2>3. CallbackPhases'
    BY <2>1, <2>2
  <2>. QED  BY <2>1, <2>3
<1>2. CASE WaitShutdownFails("waitstop", "unhook")
  BY <1>2 DEF WaitShutdownFails
<1>3. CASE WaitShutdownFails("abortWait", "abort")
  BY <1>3 DEF WaitShutdownFails
<1>4. CASE Terminate
  BY <1>4 DEF Terminate
<1>5. CASE HookEnter
  BY <1>5 DEF HookEnter, ThreadsRun
<1>6. CASE HookLeave
  BY <1>6 DEF HookLeave
<1>7. CASE RouteRequest
  BY <1>7 DEF RouteRequest, ThreadsRun
<1>8. CASE CoreStops
  BY <1>8 DEF CoreStops
<1>9. CASE UNCHANGED lifeVars
  BY <1>9 DEF lifeVars
<1>. QED  BY <1>1, <1>2, <1>3, <1>4, <1>5, <1>6, <1>7, <1>8, <1>9 DEF WaitFails

LEMMA StartupTyped ==
  ASSUME TypeOK, Startup
  PROVE  TypeOK'
<1>. USE DEF TypeOK, Fails, coreVars, hookVars, routeVars, signalVars
<1>1. CASE Initialize
  <2>1. PositionsTyped'
    BY PeersAssumption, <1>1
    DEF PositionsTyped, Booting, Stopping, Aborting, Ended, Calls, Initialize
  <2>2. FlagsTyped'
    BY <1>1 DEF FlagsTyped, Initialize
  <2>. QED  BY <2>1, <2>2
<1>2. CASE InitContext
  <2>1. PositionsTyped'
    BY PeersAssumption, <1>2
    DEF PositionsTyped, Booting, Stopping, Aborting, Ended, Calls, InitContext
  <2>2. FlagsTyped'
    BY <1>2 DEF FlagsTyped, InitContext
  <2>. QED  BY <2>1, <2>2
<1>3. CASE RegisterHook
  <2>1. PositionsTyped'
    BY PeersAssumption, <1>3
    DEF PositionsTyped, Booting, Stopping, Aborting, Ended, Calls, RegisterHook
  <2>2. FlagsTyped'
    BY <1>3 DEF FlagsTyped, RegisterHook
  <2>. QED  BY <2>1, <2>2
<1>4. CASE InstallHandlers
  <2>1. PositionsTyped'
    BY PeersAssumption, <1>4
    DEF PositionsTyped, Booting, Stopping, Aborting, Ended, Calls, InstallHandlers
  <2>2. FlagsTyped'
    BY <1>4 DEF FlagsTyped, InstallHandlers
  <2>. QED  BY <2>1, <2>2
<1>5. CASE LoadBegin
  <2>1. PositionsTyped'
    BY PeersAssumption, <1>5
    DEF PositionsTyped, Booting, Stopping, Aborting, Ended, Calls, LoadBegin
  <2>2. FlagsTyped'
    BY <1>5 DEF FlagsTyped, LoadBegin
  <2>. QED  BY <2>1, <2>2
<1>6. CASE LoadEnd
  <2>1. PositionsTyped'
    BY PeersAssumption, <1>6
    DEF PositionsTyped, Booting, Stopping, Aborting, Ended, Calls, LoadEnd
  <2>2. FlagsTyped'
    BY <1>6 DEF FlagsTyped, LoadEnd
  <2>. QED  BY <2>1, <2>2
<1>7. CASE WriteConfig
  <2>1. PositionsTyped'
    BY PeersAssumption, <1>7
    DEF PositionsTyped, Booting, Stopping, Aborting, Ended, Calls, WriteConfig
  <2>2. FlagsTyped'
    BY <1>7 DEF FlagsTyped, WriteConfig
  <2>. QED  BY <2>1, <2>2
<1>8. CASE ParseConf
  <2>1. PositionsTyped'
    BY PeersAssumption, <1>8
    DEF PositionsTyped, Booting, Stopping, Aborting, Ended, Calls, ParseConf
  <2>2. FlagsTyped'
    BY <1>8 DEF FlagsTyped, ParseConf
  <2>. QED  BY <2>1, <2>2
<1>9. CASE PreflightPeers
  <2>1. PositionsTyped'
    BY PeersAssumption, <1>9
    DEF PositionsTyped, Booting, Stopping, Aborting, Ended, Calls, PreflightPeers
  <2>2. FlagsTyped'
    BY <1>9 DEF FlagsTyped, PreflightPeers
  <2>. QED  BY <2>1, <2>2
<1>10. CASE AddPeer
  <2>1. PositionsTyped'
    BY PeersAssumption, <1>10
    DEF PositionsTyped, Booting, Stopping, Aborting, Ended, Calls, AddPeer
  <2>2. FlagsTyped'
    BY <1>10 DEF FlagsTyped, AddPeer
  <2>. QED  BY <2>1, <2>2
<1>11. CASE StartCore
  <2>1. PositionsTyped'
    BY PeersAssumption, <1>11
    DEF PositionsTyped, Booting, Stopping, Aborting, Ended, Calls, StartCore
  <2>2. FlagsTyped'
    BY <1>11 DEF FlagsTyped, StartCore
  <2>. QED  BY <2>1, <2>2
<1>12. CASE WaitStarted
  <2>1. PositionsTyped'
    BY PeersAssumption, <1>12
    DEF PositionsTyped, Booting, Stopping, Aborting, Ended, Calls, WaitStarted
  <2>2. FlagsTyped'
    BY <1>12 DEF FlagsTyped, WaitStarted
  <2>. QED  BY <2>1, <2>2
<1>13. CASE FillSnapshot
  <2>1. PositionsTyped'
    BY PeersAssumption, <1>13
    DEF PositionsTyped, Booting, Stopping, Aborting, Ended, Calls, FillSnapshot
  <2>2. FlagsTyped'
    BY <1>13 DEF FlagsTyped, FillSnapshot
  <2>. QED  BY <2>1, <2>2
<1>14. CASE RegisterRouting
  <2>1. PositionsTyped'
    BY PeersAssumption, <1>14
    DEF PositionsTyped, Booting, Stopping, Aborting, Ended, Calls, RegisterRouting
  <2>2. FlagsTyped'
    BY <1>14 DEF FlagsTyped, RegisterRouting
  <2>. QED  BY <2>1, <2>2
<1>15. CASE Diagnose
  <2>1. PositionsTyped'
    BY PeersAssumption, <1>15
    DEF PositionsTyped, Booting, Stopping, Aborting, Ended, Calls, Diagnose
  <2>2. FlagsTyped'
    BY <1>15 DEF FlagsTyped, Diagnose
  <2>. QED  BY <2>1, <2>2
<1>. QED  BY <1>1, <1>2, <1>3, <1>4, <1>5, <1>6, <1>7, <1>8, <1>9, <1>10, <1>11, <1>12, <1>13, <1>14, <1>15 DEF Startup

LEMMA ShutdownTyped ==
  ASSUME TypeOK, Shutdown
  PROVE  TypeOK'
<1>. USE DEF TypeOK, Fails, coreVars, hookVars, routeVars, signalVars
<1>1. CASE LeaveLoop
  <2>1. PositionsTyped'
    BY PeersAssumption, <1>1
    DEF PositionsTyped, Booting, Stopping, Aborting, Ended, Calls, LeaveLoop
  <2>2. FlagsTyped'
    BY <1>1 DEF FlagsTyped, LeaveLoop
  <2>. QED  BY <2>1, <2>2
<1>2. CASE Unregister("unregister", "clear", "stop")
  <2>1. PositionsTyped'
    BY PeersAssumption, <1>2
    DEF PositionsTyped, Booting, Stopping, Aborting, Ended, Calls, Unregister
  <2>2. FlagsTyped'
    BY <1>2 DEF FlagsTyped, Unregister
  <2>. QED  BY <2>1, <2>2
<1>3. CASE ClearSnapshot("clear", "stop")
  <2>1. PositionsTyped'
    BY PeersAssumption, <1>3
    DEF PositionsTyped, Booting, Stopping, Aborting, Ended, Calls, ClearSnapshot
  <2>2. FlagsTyped'
    BY <1>3 DEF FlagsTyped, ClearSnapshot
  <2>. QED  BY <2>1, <2>2
<1>4. CASE ShutdownCore("stop", "waitstop")
  <2>1. PositionsTyped'
    BY PeersAssumption, <1>4
    DEF PositionsTyped, Booting, Stopping, Aborting, Ended, Calls, ShutdownCore
  <2>2. FlagsTyped'
    BY <1>4 DEF FlagsTyped, ShutdownCore
  <2>. QED  BY <2>1, <2>2
<1>5. CASE WaitShutdown("waitstop", "unhook")
  <2>1. PositionsTyped'
    BY PeersAssumption, <1>5
    DEF PositionsTyped, Booting, Stopping, Aborting, Ended, Calls, WaitShutdown
  <2>2. FlagsTyped'
    BY <1>5 DEF FlagsTyped, WaitShutdown
  <2>. QED  BY <2>1, <2>2
<1>6. CASE UnregisterHook("unhook", "unlink")
  <2>1. PositionsTyped'
    BY PeersAssumption, <1>6
    DEF PositionsTyped, Booting, Stopping, Aborting, Ended, Calls, UnregisterHook
  <2>2. FlagsTyped'
    BY <1>6 DEF FlagsTyped, UnregisterHook
  <2>. QED  BY <2>1, <2>2
<1>7. CASE Unlink
  <2>1. PositionsTyped'
    BY PeersAssumption, <1>7
    DEF PositionsTyped, Booting, Stopping, Aborting, Ended, Calls, Unlink
  <2>2. FlagsTyped'
    BY <1>7 DEF FlagsTyped, Unlink
  <2>. QED  BY <2>1, <2>2
<1>8. CASE Finish("finish", "terminated")
  <2>1. PositionsTyped'
    BY PeersAssumption, <1>8
    DEF PositionsTyped, Booting, Stopping, Aborting, Ended, Calls, Finish
  <2>2. FlagsTyped'
    BY <1>8 DEF FlagsTyped, Finish
  <2>. QED  BY <2>1, <2>2
<1>. QED  BY <1>1, <1>2, <1>3, <1>4, <1>5, <1>6, <1>7, <1>8 DEF Shutdown

LEMMA AbortTyped ==
  ASSUME TypeOK, Abort
  PROVE  TypeOK'
<1>. USE DEF TypeOK, Fails, coreVars, hookVars, routeVars, signalVars
<1>1. CASE Unregister("abortRoute", "abortClear", "abortStop")
  <2>1. PositionsTyped'
    BY PeersAssumption, <1>1
    DEF PositionsTyped, Booting, Stopping, Aborting, Ended, Calls, Unregister
  <2>2. FlagsTyped'
    BY <1>1 DEF FlagsTyped, Unregister
  <2>. QED  BY <2>1, <2>2
<1>2. CASE ClearSnapshot("abortClear", "abortStop")
  <2>1. PositionsTyped'
    BY PeersAssumption, <1>2
    DEF PositionsTyped, Booting, Stopping, Aborting, Ended, Calls, ClearSnapshot
  <2>2. FlagsTyped'
    BY <1>2 DEF FlagsTyped, ClearSnapshot
  <2>. QED  BY <2>1, <2>2
<1>3. CASE ShutdownCore("abortStop", "abortWait")
  <2>1. PositionsTyped'
    BY PeersAssumption, <1>3
    DEF PositionsTyped, Booting, Stopping, Aborting, Ended, Calls, ShutdownCore
  <2>2. FlagsTyped'
    BY <1>3 DEF FlagsTyped, ShutdownCore
  <2>. QED  BY <2>1, <2>2
<1>4. CASE WaitShutdown("abortWait", "abort")
  <2>1. PositionsTyped'
    BY PeersAssumption, <1>4
    DEF PositionsTyped, Booting, Stopping, Aborting, Ended, Calls, WaitShutdown
  <2>2. FlagsTyped'
    BY <1>4 DEF FlagsTyped, WaitShutdown
  <2>. QED  BY <2>1, <2>2
<1>5. CASE UnregisterHook("abort", "abortFinish")
  <2>1. PositionsTyped'
    BY PeersAssumption, <1>5
    DEF PositionsTyped, Booting, Stopping, Aborting, Ended, Calls, UnregisterHook
  <2>2. FlagsTyped'
    BY <1>5 DEF FlagsTyped, UnregisterHook
  <2>. QED  BY <2>1, <2>2
<1>6. CASE Finish("abortFinish", "failure")
  <2>1. PositionsTyped'
    BY PeersAssumption, <1>6
    DEF PositionsTyped, Booting, Stopping, Aborting, Ended, Calls, Finish
  <2>2. FlagsTyped'
    BY <1>6 DEF FlagsTyped, Finish
  <2>. QED  BY <2>1, <2>2
<1>. QED  BY <1>1, <1>2, <1>3, <1>4, <1>5, <1>6 DEF Abort

LEMMA OthersTyped ==
  ASSUME TypeOK, Pass \/ WaitFails \/ Terminate \/ HookEnter \/ HookLeave \/ RouteRequest
         \/ CoreStops \/ UNCHANGED lifeVars
  PROVE  TypeOK'
<1>. USE DEF TypeOK, Fails, coreVars, hookVars, routeVars, signalVars
<1>1. CASE Pass
  <2>1. PositionsTyped'
    BY PeersAssumption, <1>1
    DEF PositionsTyped, Booting, Stopping, Aborting, Ended, Calls, Pass
  <2>2. FlagsTyped'
    BY <1>1 DEF FlagsTyped, Pass
  <2>. QED  BY <2>1, <2>2
<1>2. CASE WaitShutdownFails("waitstop", "unhook")
  <2>1. PositionsTyped'
    BY PeersAssumption, <1>2
    DEF PositionsTyped, Booting, Stopping, Aborting, Ended, Calls, WaitShutdownFails
  <2>2. FlagsTyped'
    BY <1>2 DEF FlagsTyped, WaitShutdownFails
  <2>. QED  BY <2>1, <2>2
<1>3. CASE WaitShutdownFails("abortWait", "abort")
  <2>1. PositionsTyped'
    BY PeersAssumption, <1>3
    DEF PositionsTyped, Booting, Stopping, Aborting, Ended, Calls, WaitShutdownFails
  <2>2. FlagsTyped'
    BY <1>3 DEF FlagsTyped, WaitShutdownFails
  <2>. QED  BY <2>1, <2>2
<1>4. CASE Terminate
  <2>1. PositionsTyped'
    BY PeersAssumption, <1>4
    DEF PositionsTyped, Booting, Stopping, Aborting, Ended, Calls, Terminate
  <2>2. FlagsTyped'
    BY <1>4 DEF FlagsTyped, Terminate
  <2>. QED  BY <2>1, <2>2
<1>5. CASE HookEnter
  <2>1. PositionsTyped'
    BY PeersAssumption, <1>5
    DEF PositionsTyped, Booting, Stopping, Aborting, Ended, Calls, HookEnter, ThreadsRun
  <2>2. FlagsTyped'
    BY <1>5 DEF FlagsTyped, HookEnter, ThreadsRun
  <2>. QED  BY <2>1, <2>2
<1>6. CASE HookLeave
  <2>1. PositionsTyped'
    BY PeersAssumption, <1>6
    DEF PositionsTyped, Booting, Stopping, Aborting, Ended, Calls, HookLeave
  <2>2. FlagsTyped'
    BY <1>6 DEF FlagsTyped, HookLeave
  <2>. QED  BY <2>1, <2>2
<1>7. CASE RouteRequest
  <2>1. PositionsTyped'
    BY PeersAssumption, <1>7
    DEF PositionsTyped, Booting, Stopping, Aborting, Ended, Calls, RouteRequest, ThreadsRun
  <2>2. FlagsTyped'
    BY <1>7 DEF FlagsTyped, RouteRequest, ThreadsRun
  <2>. QED  BY <2>1, <2>2
<1>8. CASE CoreStops
  <2>1. PositionsTyped'
    BY PeersAssumption, <1>8
    DEF PositionsTyped, Booting, Stopping, Aborting, Ended, Calls, CoreStops
  <2>2. FlagsTyped'
    BY <1>8 DEF FlagsTyped, CoreStops
  <2>. QED  BY <2>1, <2>2
<1>9. CASE UNCHANGED lifeVars
  <2>1. PositionsTyped'
    BY PeersAssumption, <1>9
    DEF PositionsTyped, Booting, Stopping, Aborting, Ended, Calls, lifeVars
  <2>2. FlagsTyped'
    BY <1>9 DEF FlagsTyped, lifeVars
  <2>. QED  BY <2>1, <2>2
<1>. QED  BY <1>1, <1>2, <1>3, <1>4, <1>5, <1>6, <1>7, <1>8, <1>9 DEF WaitFails

LEMMA LifecycleInvariant == Spec => []IInv
<1>1. Init => TypeOK
  <2>1. Init => PositionsTyped
    BY PeersAssumption DEF Init, PositionsTyped, Booting, Calls
  <2>2. Init => FlagsTyped
    BY DEF Init, FlagsTyped
  <2>. QED  BY <2>1, <2>2 DEF TypeOK
<1>2. Init => Phases
  BY DEF Init, Phases, PeersComplete, CorePhases, ContextPhases, HookPhases, CallbackPhases,
         HookMeetsContext, CoreLost, BeforeStart, PeersAdded, CoreGone, HookGone, Stopping, Ended
<1>3. IInv /\ [Next]_lifeVars => TypeOK'
  BY StartupTyped, ShutdownTyped, AbortTyped, OthersTyped DEF Next, Main, Over, IInv
<1>4. IInv /\ [Next]_lifeVars => Phases'
  BY StartupKeeps, ShutdownKeeps, AbortKeeps, OthersKeep DEF Next, Main, Over
<1>5. Init => IInv
  BY <1>1, <1>2 DEF IInv
<1>6. IInv /\ [Next]_lifeVars => IInv'
  BY <1>3, <1>4 DEF IInv
<1>. QED  BY <1>5, <1>6, PTL DEF Spec

-----------------------------------------------------------------------------
\* Type correctness, for every number of peers.
THEOREM TypeCorrect == Spec => []TypeOK
<1>1. IInv => TypeOK
  BY DEF IInv
<1>. QED  BY <1>1, LifecycleInvariant, PTL

\* main.c:295 and :806-858.  On every path, whatever fails in it, a state machine in
\* peer_hook_cb() finds a loaded context.
THEOREM HookAlwaysMeetsContext == Spec => []HookMeetsContext
<1>1. IInv => HookMeetsContext
  BY DEF IInv, Phases, HookPhases
<1>. QED  BY <1>1, LifecycleInvariant, PTL

\* main.c:357.  The core never runs with some of the configured peers only.
THEOREM CoreAlwaysStartsComplete == Spec => []CoreStartsComplete
<1>1. IInv => CoreStartsComplete
  BY DEF IInv, Phases, PeersComplete, CoreStartsComplete
<1>. QED  BY <1>1, LifecycleInvariant, PTL

\* diameter.c:888 and :961.  No request is refused for want of a snapshot.
THEOREM NeverRefused == Spec => []NeverRefusedUnfilled
<1>1. IInv => NeverRefusedUnfilled
  BY DEF IInv, Phases, CallbackPhases, NeverRefusedUnfilled
<1>. QED  BY <1>1, LifecycleInvariant, PTL

\* main.c:388-450.  The process ends under a running core only if the core could not
\* be started or waited for.
THEOREM NoCoreAbandoned == Spec => []NoAbandonedCore
<1>1. IInv => NoAbandonedCore
  BY DEF IInv, Phases, CorePhases, CoreGone, CoreLost, NoAbandonedCore
<1>. QED  BY <1>1, LifecycleInvariant, PTL

\* main.c:421 and :809.  Between the diagnostic and the removal of the callback every
\* request is routed by the daemon's policy.
THEOREM PolicyBetweenTheEdges == Spec => NativeOnlyAtTheEdges
<1>1. IInv /\ [Next]_lifeVars =>
        [last # "native" /\ last' = "native" => pc \notin {"diagnose", "ready", "unregister"}]_lifeVars
  <2>. SUFFICES ASSUME IInv, Next, last # "native", last' = "native"
       PROVE  pc \notin {"diagnose", "ready", "unregister"}
    OBVIOUS
  <2>1. CASE RouteRequest
    BY <2>1 DEF RouteRequest, IInv, Phases, CallbackPhases
  <2>2. CASE ~RouteRequest
    <3>1. last' = last
      BY <2>2 DEF Next, Main, Startup, Shutdown, Abort, WaitFails, Over, lifeVars, routeVars,
           Initialize, InitContext, RegisterHook, InstallHandlers, LoadBegin, LoadEnd,
           WriteConfig, ParseConf, PreflightPeers, AddPeer, StartCore, WaitStarted,
           FillSnapshot, RegisterRouting, Diagnose, Pass, LeaveLoop, Unregister,
           ClearSnapshot, ShutdownCore, WaitShutdown, WaitShutdownFails, UnregisterHook,
           Unlink, Finish, Terminate, HookEnter, HookLeave, CoreStops
    <3>. QED  BY <3>1
  <2>. QED  BY <2>1, <2>2
<1>. QED  BY <1>1, LifecycleInvariant, PTL DEF Spec, NativeOnlyAtTheEdges
===============================================================================
