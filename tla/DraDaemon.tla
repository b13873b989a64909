------------------------------ MODULE DraDaemon ------------------------------
(***************************************************************************)
(* The running Diameter Routing Agent, opncell-drad: the main loop of      *)
(* main.c, the reconciliation of freeDiameter's peer table in diameter.c,  *)
(* the peer hook that freeDiameter's peer state machines (PSMs) call on    *)
(* their own threads, and the routing snapshot the routing callback reads. *)
(*                                                                         *)
(* Threads.  `main' executes the loop; its position is pc.  Every PSM is a *)
(* thread: its steps are the Psm* actions, and while hook[c] # "none" it   *)
(* is inside peer_hook_cb waiting for context_lock.  A critical section of *)
(* context_lock is one action, because every other user of what it touches *)
(* takes the lock too.  The exception is the copy of ctx into the routing  *)
(* snapshot, which takes only routing_snapshot_lock and races with         *)
(* peer_hook_cb: it is two actions, and each run-time state it copies may  *)
(* be any value the state had in between.  freeDiameter is never called    *)
(* under context_lock, so each call into it is an action of its own.       *)
(*                                                                         *)
(* freeDiameter itself is external and modelled from the patch that adds   *)
(* fd_peer_remove() and from how diameter.c uses it.                       *)
(*                                                                         *)
(* The specification starts at the head of the loop ("ready"), with a      *)
(* committed configuration whose peers are in the table and have not yet   *)
(* connected; shutdown is not part of it.                                  *)
(***************************************************************************)
EXTENDS DraConfig

CONSTANTS
  Files,      \* the contents dra.yaml may be given
  FaultKinds, \* the calls that may fail: "alloc", "add", "terminate"
  MaxFaults,  \* bound: failures in a behaviour
  MaxEvents,  \* bound: connection events of all PSMs in a behaviour
  MaxEdits    \* bound: changes of dra.yaml in a behaviour

ASSUME FilesAreConfigs == Files \subseteq Config
ASSUME BoundsAreNat    == MaxFaults \in Nat /\ MaxEvents \in Nat /\ MaxEdits \in Nat

VARIABLES
  file,            \* what dra.yaml holds
  edits,           \* changes of dra.yaml so far
  reloadRequested, \* the flag set by the SIGHUP handler
  ctx,             \* the active context
  pend,            \* pending_ctx, the candidate of a transaction
  pendingReload,   \* forward reconciliation in progress
  rollbackPending, \* rollback in progress
  pc,              \* position of the main thread in the loop
  idx,             \* loop index i of the reconciliation and refresh loops
  again,           \* some removal of this pass answered EAGAIN
  sampled,         \* state read from freeDiameter, not yet published
  snap,            \* routing_snapshot
  seen,            \* values each run-time state had since the copy started
  fd,              \* freeDiameter's peer table, keyed by folded identity
  hook,            \* hook[c]: the event the PSM of c is reporting
  events,          \* connection events so far
  faults,          \* failures so far
  \* history of what happened, read by no action
  unread,          \* a SIGHUP arrived and dra.yaml was not read since
  terminateFailed, \* some fd_psm_terminate() failed
  rollbackFailed   \* some rollback was given up

fdVars    == <<fd, hook, events>>
fileVars  == <<file, edits>>
flagVars  == <<reloadRequested, unread>>
txnVars   == <<pendingReload, rollbackPending>>
loopVars  == <<pc, idx, again, sampled>>
viewVars  == <<snap, seen>>
faultVars == <<faults, terminateFailed>>
vars == <<fileVars, flagVars, ctx, pend, txnVars, loopVars, viewVars, fdVars,
          faultVars, rollbackFailed>>

-----------------------------------------------------------------------------
(***************************************************************************)
(* freeDiameter's peer table.                                              *)
(***************************************************************************)
NoId == ""
NoEp == ""

FdStates == {"absent", "connecting", "open", "zombie"}
Entry == [st   : FdStates,
          id   : Ids \union {NoId},       \* as spelled when it was added
          ep   : Endpoints \union {NoEp},
          term : BOOLEAN,                 \* termination was requested
          up   : BOOLEAN]                 \* has been OPEN since it was added

Absent      == [st |-> "absent", id |-> NoId, ep |-> NoEp, term |-> FALSE, up |-> FALSE]
NewEntry(p) == [st |-> "connecting", id |-> p.id, ep |-> p.ep, term |-> FALSE, up |-> FALSE]

Present(c) == fd[c].st # "absent"
Active(c)  == fd[c].st \in {"connecting", "open"}

\* One more call fails, within the bound.
Fault(kind) ==
  /\ kind \in FaultKinds
  /\ faults < MaxFaults
  /\ faults' = faults + 1

\* Defect for the checks: a zombie is never unlinked.
BugNeverReap(id, rc) ==
  LET c == Canon[id] IN
  \/ rc = "ENOENT" /\ ~Present(c) /\ UNCHANGED <<fd, faultVars>>
  \/ /\ rc = "EAGAIN" /\ Present(c)
     /\ fd' = [fd EXCEPT ![c].term = TRUE]
     /\ UNCHANGED faultVars

\* fd_peer_remove(): the identity is looked up without regard to case.
FdRemove(id, rc) ==
  LET c == Canon[id] IN
  \/ /\ rc = "ENOENT" /\ ~Present(c)
     /\ UNCHANGED <<fd, faultVars>>
  \/ /\ rc = "0" /\ fd[c].st = "zombie"
     /\ fd' = [fd EXCEPT ![c] = Absent]
     /\ UNCHANGED faultVars
  \/ /\ rc = "EAGAIN" /\ Active(c)
     /\ fd' = [fd EXCEPT ![c].term = TRUE]
     /\ UNCHANGED faultVars
  \/ /\ rc = "EINVAL" /\ Active(c)
     /\ Fault("terminate") /\ terminateFailed' = TRUE
     /\ UNCHANGED fd

\* Defect for the checks: an identity already in the table counts as added.
BugAddTolerant(p, ok) ==
  LET c == Canon[p.id] IN
  \/ ok /\ fd' = [fd EXCEPT ![c] = IF Present(c) THEN @ ELSE NewEntry(p)] /\ UNCHANGED faultVars
  \/ ~ok /\ ~Present(c) /\ Fault("add") /\ UNCHANGED <<fd, terminateFailed>>

\* dra_diameter_add_peer() of an enabled peer: fd_peer_add() refuses an
\* identity that is in the table, in any spelling and in any state.
FdAdd(p, ok) ==
  LET c == Canon[p.id] IN
  \/ /\ ok /\ ~Present(c)
     /\ fd' = [fd EXCEPT ![c] = NewEntry(p)]
     /\ UNCHANGED faultVars
  \/ /\ ~ok /\ Present(c)
     /\ UNCHANGED <<fd, faultVars>>
  \/ /\ ~ok /\ ~Present(c)
     /\ Fault("add")
     /\ UNCHANGED <<fd, terminateFailed>>

\* dra_diameter_get_peer_state(): a disabled peer is DOWN, and the identity
\* is looked up exactly as it is spelled.
PolledState(p) ==
  LET e == fd[Canon[p.id]] IN
  IF ~p.enabled \/ e.id # p.id \/ e.st = "zombie" THEN "down"
  ELSE IF e.st = "open" THEN "open" ELSE "connecting"

\* Steps of the PSM thread of c.  It calls the hook when a capabilities
\* exchange succeeds, before or after the state becomes OPEN, and when a
\* connection attempt fails.  It does nothing else until the hook returns.
PsmIdle(c) == Active(c) /\ hook[c] = "none"

ConnectionEvent(c) ==
  /\ PsmIdle(c)
  /\ events < MaxEvents
  /\ events' = events + 1

psmFrame == <<fileVars, flagVars, ctx, pend, txnVars, loopVars, viewVars,
              faultVars, rollbackFailed>>

PsmOpen(c) ==
  /\ ConnectionEvent(c) /\ fd[c].st = "connecting"
  /\ fd' = [fd EXCEPT ![c].st = "open", ![c].up = TRUE]
  /\ hook' \in {hook, [hook EXCEPT ![c] = "success"]}
  /\ UNCHANGED psmFrame

PsmHandshake(c) ==
  /\ ConnectionEvent(c) /\ fd[c].st = "connecting"
  /\ hook' = [hook EXCEPT ![c] = "success"]
  /\ UNCHANGED <<psmFrame, fd>>

PsmFail(c) ==
  /\ ConnectionEvent(c) /\ fd[c].st = "connecting"
  /\ hook' = [hook EXCEPT ![c] = "failed"]
  /\ UNCHANGED <<psmFrame, fd>>

PsmDisconnect(c) ==
  /\ ConnectionEvent(c) /\ fd[c].st = "open"
  /\ fd' = [fd EXCEPT ![c].st = "connecting"]
  /\ UNCHANGED <<psmFrame, hook>>

\* The PSM handles the termination event and ends as a zombie.
PsmTerminate(c) ==
  /\ PsmIdle(c) /\ fd[c].term
  /\ fd' = [fd EXCEPT ![c].st = "zombie"]
  /\ UNCHANGED <<psmFrame, hook, events>>

-----------------------------------------------------------------------------
(***************************************************************************)
(* peer_hook_cb(): one critical section of context_lock.  The configured   *)
(* peer is found by the exact identity of the freeDiameter peer.           *)
(***************************************************************************)
\* Defect for the checks: a success event is taken to mean OPEN.
BugTrustEvent(c) == IF hook[c] = "failed" THEN "down" ELSE "open"

HookState(c) ==
  IF hook[c] = "failed" THEN "down"
  ELSE IF fd[c].st = "open" THEN "open" ELSE "connecting"

PeerHook(c) ==
  /\ hook[c] # "none"
  /\ hook' = [hook EXCEPT ![c] = "none"]
  /\ LET mine == {k \in 1..Len(ctx.cfg.peers) : ctx.cfg.peers[k].id = fd[c].id}
     IN  /\ ctx' = [ctx EXCEPT !.rt =
                      [k \in DOMAIN @ |-> IF k \in mine THEN HookState(c) ELSE @[k]]]
         /\ seen' = [k \in DOMAIN seen |->
                      IF k \in mine THEN seen[k] \union {HookState(c)} ELSE seen[k]]
  /\ UNCHANGED <<fileVars, flagVars, pend, txnVars, loopVars, snap, fd, events,
                 faultVars, rollbackFailed>>

-----------------------------------------------------------------------------
(***************************************************************************)
(* The operator and the SIGHUP handler.                                    *)
(***************************************************************************)
EditFile ==
  /\ edits < MaxEdits
  /\ file' \in Files \ {file}
  /\ edits' = edits + 1
  /\ UNCHANGED <<flagVars, ctx, pend, txnVars, loopVars, viewVars, fdVars,
                 faultVars, rollbackFailed>>

Sighup ==
  /\ reloadRequested' = TRUE
  /\ unread' = TRUE
  /\ UNCHANGED <<fileVars, ctx, pend, txnVars, loopVars, viewVars, fdVars,
                 faultVars, rollbackFailed>>

-----------------------------------------------------------------------------
(***************************************************************************)
(* The head of the loop: the SIGHUP flag.                                  *)
(***************************************************************************)
InTransaction == pendingReload \/ rollbackPending

GoTo(l) == pc' = l /\ idx' = 1 /\ again' = FALSE /\ UNCHANGED sampled

\* The blocks `if (pending_reload)' and `if (rollback_pending)' of a pass.
\* A rollback that was pending before this pass skips the first one.
Proceed ==
  GoTo(IF pendingReload' THEN "remove"
       ELSE IF rollbackPending' THEN "unadd" ELSE "refresh")

topFrame == <<fileVars, fdVars, rollbackFailed>>

NoReload ==
  /\ pc = "top" /\ ~reloadRequested
  /\ UNCHANGED <<flagVars, ctx, pend, txnVars, viewVars, faultVars, topFrame>>
  /\ Proceed

\* "reload deferred": the flag is cleared and dra.yaml is not read.
DeferReload ==
  /\ pc = "top" /\ reloadRequested /\ InTransaction
  /\ reloadRequested' = FALSE
  /\ UNCHANGED <<unread, ctx, pend, txnVars, viewVars, faultVars, topFrame>>
  /\ Proceed

ReadFile ==
  /\ pc = "top" /\ reloadRequested /\ ~InTransaction
  /\ reloadRequested' = FALSE
  /\ unread' = FALSE

\* The file does not load, is not a change, does not pass the preflight, or
\* an allocation fails on the way: nothing is touched.
RejectReload ==
  /\ ReadFile
  /\ \/ /\ ~ValidConfig(file) \/ ConfigEqual(ctx.cfg, file) \/ ~Preflight(file)
        /\ UNCHANGED faultVars
     \/ /\ ValidConfig(file) /\ ~ConfigEqual(ctx.cfg, file) /\ Preflight(file)
        /\ Fault("alloc") /\ UNCHANGED terminateFailed
  /\ UNCHANGED <<ctx, pend, txnVars, viewVars, topFrame>>
  /\ Proceed

\* Some association has to change: the candidate is retained.
StageReload ==
  /\ ReadFile
  /\ ValidConfig(file) /\ ~ConfigEqual(ctx.cfg, file) /\ Preflight(file)
  /\ PeersChange(ctx.cfg, file)
  /\ pend' = Prepared(file, ctx)
  /\ pendingReload' = TRUE
  /\ UNCHANGED <<rollbackPending, ctx, viewVars, faultVars, topFrame>>
  /\ Proceed

\* Routing and policy only: committed at once, and published to the routing
\* snapshot in the same critical section unless the copy cannot be allocated.
CommitReload ==
  /\ ReadFile
  /\ ValidConfig(file) /\ ~ConfigEqual(ctx.cfg, file) /\ Preflight(file)
  /\ ~PeersChange(ctx.cfg, file)
  /\ ctx' = Prepared(file, ctx)
  /\ \/ snap' = ctx' /\ UNCHANGED faultVars
     \/ UNCHANGED snap /\ Fault("alloc") /\ UNCHANGED terminateFailed
  /\ UNCHANGED <<pend, txnVars, seen, topFrame>>
  /\ Proceed

-----------------------------------------------------------------------------
(***************************************************************************)
(* Forward reconciliation: remove what is stale, add what is new, commit.  *)
(***************************************************************************)
txnFrame == <<fileVars, flagVars, viewVars, hook, events>>

\* Peer idx of a list needs no call.
Next1 == idx' = idx + 1 /\ UNCHANGED <<pc, sampled>>

StartRollback ==
  /\ pendingReload' = FALSE /\ rollbackPending' = TRUE
  /\ GoTo("unadd")

\* dra_diameter_remove_stale_peers(), one iteration.
RemoveStale ==
  /\ pc = "remove" /\ idx <= Len(ctx.cfg.peers)
  /\ LET p == ctx.cfg.peers[idx] IN
     \/ /\ ~p.enabled \/ Kept(p, pend.cfg)
        /\ Next1 /\ UNCHANGED <<again, fd, txnVars, faultVars>>
     \/ /\ p.enabled /\ ~Kept(p, pend.cfg)
        /\ \/ /\ \E rc \in {"0", "ENOENT"} : FdRemove(p.id, rc)
              /\ Next1 /\ UNCHANGED <<again, txnVars>>
           \/ /\ FdRemove(p.id, "EAGAIN")
              /\ Next1 /\ again' = TRUE /\ UNCHANGED txnVars
           \/ /\ FdRemove(p.id, "EINVAL")
              /\ StartRollback
  /\ UNCHANGED <<txnFrame, ctx, pend, rollbackFailed>>

\* Removals in progress are looked at again in the next pass.
RemovalsDone ==
  /\ pc = "remove" /\ idx > Len(ctx.cfg.peers)
  /\ GoTo(IF again THEN "refresh" ELSE "add")
  /\ UNCHANGED <<txnFrame, ctx, pend, txnVars, fd, faultVars, rollbackFailed>>

\* dra_diameter_add_pending_peers(), one iteration.
AddPending ==
  /\ pc = "add" /\ idx <= Len(pend.cfg.peers)
  /\ LET p == pend.cfg.peers[idx] IN
     \/ /\ ~p.enabled \/ Kept(p, ctx.cfg)
        /\ Next1 /\ UNCHANGED <<again, fd, txnVars, faultVars>>
     \/ /\ p.enabled /\ ~Kept(p, ctx.cfg)
        /\ \/ FdAdd(p, TRUE) /\ Next1 /\ UNCHANGED <<again, txnVars>>
           \/ FdAdd(p, FALSE) /\ StartRollback
  /\ UNCHANGED <<txnFrame, ctx, pend, rollbackFailed>>

\* Commit of the candidate under context_lock.  It replaces the run-time
\* states too, by those copied into the candidate when it was staged.
CommitPending ==
  /\ pc = "add" /\ idx > Len(pend.cfg.peers)
  /\ \/ /\ ctx' = pend
        /\ pend' = EmptyContext
        /\ pendingReload' = FALSE
        /\ GoTo("refresh")
        /\ UNCHANGED <<rollbackPending, faultVars>>
     \/ /\ Fault("alloc")
        /\ StartRollback
        /\ UNCHANGED <<ctx, pend, terminateFailed>>
  /\ UNCHANGED <<txnFrame, fd, rollbackFailed>>

-----------------------------------------------------------------------------
(***************************************************************************)
(* Rollback: remove what the candidate added, restore what it removed.     *)
(***************************************************************************)

\* A failed rollback is given up; pending_ctx is kept for diagnosis.
GiveUpRollback ==
  /\ rollbackPending' = FALSE
  /\ rollbackFailed' = TRUE
  /\ GoTo("refresh")
  /\ UNCHANGED pendingReload

\* Defect for the checks: the rollback does not look for unchanged peers.
BugRemoveUnchanged ==
  /\ pc = "unadd" /\ idx <= Len(pend.cfg.peers)
  /\ \/ /\ \E rc \in {"0", "ENOENT"} : FdRemove(pend.cfg.peers[idx].id, rc)
        /\ UNCHANGED again
     \/ /\ FdRemove(pend.cfg.peers[idx].id, "EAGAIN")
        /\ again' = TRUE
  /\ Next1
  /\ UNCHANGED <<txnFrame, ctx, pend, txnVars, rollbackFailed>>

\* dra_diameter_remove_candidate_peers(), one iteration.
RemoveCandidate ==
  /\ pc = "unadd" /\ idx <= Len(pend.cfg.peers)
  /\ LET p == pend.cfg.peers[idx] IN
     \/ /\ ~p.enabled \/ Kept(p, ctx.cfg)
        /\ Next1 /\ UNCHANGED <<again, fd, txnVars, faultVars, rollbackFailed>>
     \/ /\ p.enabled /\ ~Kept(p, ctx.cfg)
        /\ \/ /\ \E rc \in {"0", "ENOENT"} : FdRemove(p.id, rc)
              /\ Next1 /\ UNCHANGED <<again, txnVars, rollbackFailed>>
           \/ /\ FdRemove(p.id, "EAGAIN")
              /\ Next1 /\ again' = TRUE /\ UNCHANGED <<txnVars, rollbackFailed>>
           \/ /\ FdRemove(p.id, "EINVAL")
              /\ GiveUpRollback
  /\ UNCHANGED <<txnFrame, ctx, pend>>

\* Defect for the checks: restoring does not wait for the removals.
BugRestoreAtOnce ==
  /\ pc = "unadd" /\ idx > Len(pend.cfg.peers)
  /\ GoTo("restore")
  /\ UNCHANGED <<txnFrame, ctx, pend, txnVars, fd, faultVars, rollbackFailed>>

CandidatesGone ==
  /\ pc = "unadd" /\ idx > Len(pend.cfg.peers)
  /\ GoTo(IF again THEN "refresh" ELSE "restore")
  /\ UNCHANGED <<txnFrame, ctx, pend, txnVars, fd, faultVars, rollbackFailed>>

\* dra_diameter_restore_current_peers(), one iteration.
RestoreCurrent ==
  /\ pc = "restore" /\ idx <= Len(ctx.cfg.peers)
  /\ LET p == ctx.cfg.peers[idx] IN
     \/ /\ ~p.enabled \/ Kept(p, pend.cfg)
        /\ Next1 /\ UNCHANGED <<again, fd, txnVars, faultVars, rollbackFailed>>
     \/ /\ p.enabled /\ ~Kept(p, pend.cfg)
        /\ \/ FdAdd(p, TRUE) /\ Next1 /\ UNCHANGED <<again, txnVars, rollbackFailed>>
           \/ FdAdd(p, FALSE) /\ GiveUpRollback
  /\ UNCHANGED <<txnFrame, ctx, pend>>

RollbackComplete ==
  /\ pc = "restore" /\ idx > Len(ctx.cfg.peers)
  /\ rollbackPending' = FALSE
  /\ pend' = EmptyContext
  /\ GoTo("refresh")
  /\ UNCHANGED <<txnFrame, ctx, pendingReload, fd, faultVars, rollbackFailed>>

-----------------------------------------------------------------------------
(***************************************************************************)
(* refresh_peer_runtime_states(): poll freeDiameter without context_lock,  *)
(* publish under it.  Only main replaces ctx.peers, so the copy of peers[] *)
(* is ctx's own list and the same peer is always still there.              *)
(***************************************************************************)
refreshFrame == <<fileVars, flagVars, pend, txnVars, viewVars, fdVars,
                  rollbackFailed>>

Sample ==
  /\ pc = "refresh" /\ idx <= Len(ctx.cfg.peers)
  /\ sampled' = PolledState(ctx.cfg.peers[idx])
  /\ pc' = "publish"
  /\ UNCHANGED <<refreshFrame, ctx, idx, again, faultVars>>

Publish ==
  /\ pc = "publish"
  /\ ctx' = [ctx EXCEPT !.rt[idx] = sampled]
  /\ sampled' = "down"
  /\ idx' = idx + 1
  /\ pc' = "refresh"
  /\ UNCHANGED <<refreshFrame, again, faultVars>>

\* The copy of peers[] cannot be allocated: this pass polls nothing.
SkipRefresh ==
  /\ pc = "refresh" /\ idx = 1 /\ Len(ctx.cfg.peers) # 0
  /\ Fault("alloc") /\ UNCHANGED terminateFailed
  /\ GoTo("update")
  /\ UNCHANGED <<refreshFrame, ctx>>

\* Defect for the checks: the snapshot is updated by commits only.
BugNoPeriodicUpdate ==
  /\ pc = "refresh" /\ idx > Len(ctx.cfg.peers)
  /\ GoTo("sleep")
  /\ UNCHANGED <<refreshFrame, ctx, faultVars>>

RefreshDone ==
  /\ pc = "refresh" /\ idx > Len(ctx.cfg.peers)
  /\ GoTo("update")
  /\ UNCHANGED <<refreshFrame, ctx, faultVars>>

-----------------------------------------------------------------------------
(***************************************************************************)
(* dra_diameter_update_routing(): the copy holds routing_snapshot_lock and *)
(* not context_lock, so peer_hook_cb may write while it reads.             *)
(***************************************************************************)
updateFrame == <<fileVars, flagVars, ctx, pend, txnVars, fdVars, rollbackFailed>>

UpdateBegin ==
  /\ pc = "update"
  /\ seen' = [k \in DOMAIN ctx.rt |-> {ctx.rt[k]}]
  /\ GoTo("copy")
  /\ UNCHANGED <<updateFrame, snap, faultVars>>

UpdateEnd ==
  /\ pc = "copy"
  /\ \/ /\ \E rt \in [DOMAIN ctx.rt -> PeerStates] :
             /\ \A k \in DOMAIN ctx.rt : rt[k] \in seen[k]
             /\ snap' = [ctx EXCEPT !.rt = rt]
        /\ UNCHANGED faultVars
     \/ /\ Fault("alloc") /\ UNCHANGED <<terminateFailed, snap>>
  /\ seen' = << >>
  /\ GoTo("sleep")
  /\ UNCHANGED updateFrame

\* Defect for the checks: the SIGHUP flag is cleared at the end of a pass.
BugClearFlagLate ==
  /\ pc = "sleep" /\ reloadRequested' = FALSE
  /\ GoTo("top")
  /\ UNCHANGED <<fileVars, unread, ctx, pend, txnVars, fdVars, rollbackFailed, viewVars, faultVars>>

\* sleep(1), then the next pass.
Wake ==
  /\ pc = "sleep"
  /\ GoTo("top")
  /\ UNCHANGED <<updateFrame, viewVars, faultVars>>

-----------------------------------------------------------------------------
\* The runtime states of a configuration nobody has connected to yet.
AllDown(c) == [k \in 1..Len(c.peers) |-> "down"]

\* Start-up adds the enabled peers one by one and gives up on the first that
\* freeDiameter refuses, so no two of them fold to the same identity.
Enabled(c)   == {p \in PeersOf(c) : p.enabled}
Startable(c) == /\ ValidConfig(c) /\ Preflight(c)
                /\ \A p, q \in Enabled(c) : Canon[p.id] = Canon[q.id] => p = q

Installed(c) ==
  [k \in Canons |-> IF \E p \in Enabled(c) : Canon[p.id] = k
                     THEN NewEntry(CHOOSE p \in Enabled(c) : Canon[p.id] = k)
                     ELSE Absent]

Init ==
  /\ file \in {f \in Files : Startable(f)}
  /\ edits = 0
  /\ reloadRequested = FALSE /\ unread = FALSE
  /\ ctx = [gen |-> 1, cfg |-> file, rt |-> AllDown(file)]
  /\ pend = EmptyContext
  /\ pendingReload = FALSE /\ rollbackPending = FALSE
  /\ pc = "top" /\ idx = 1 /\ again = FALSE /\ sampled = "down"
  /\ snap = ctx /\ seen = << >>
  /\ fd = Installed(file)
  /\ hook = [c \in Canons |-> "none"]
  /\ events = 0
  /\ faults = 0 /\ terminateFailed = FALSE /\ rollbackFailed = FALSE

Main ==
  \/ NoReload \/ DeferReload \/ RejectReload \/ StageReload \/ CommitReload
  \/ RemoveStale \/ RemovalsDone \/ AddPending \/ CommitPending
  \/ RemoveCandidate \/ CandidatesGone \/ RestoreCurrent \/ RollbackComplete
  \/ Sample \/ Publish \/ SkipRefresh \/ RefreshDone
  \/ UpdateBegin \/ UpdateEnd \/ Wake

Psm(c) ==
  \/ PsmOpen(c) \/ PsmHandshake(c) \/ PsmFail(c) \/ PsmDisconnect(c)
  \/ PsmTerminate(c) \/ PeerHook(c)

Operator == EditFile \/ Sighup

Next == Main \/ (\E c \in Canons : Psm(c)) \/ Operator

Spec == Init /\ [][Next]_vars

-----------------------------------------------------------------------------
PCs == {"top", "remove", "add", "unadd", "restore", "refresh", "publish",
        "update", "copy", "sleep"}

\* Type invariant.
TypeOK ==
  /\ file \in Files /\ edits \in 0..MaxEdits
  /\ reloadRequested \in BOOLEAN /\ unread \in BOOLEAN
  /\ ctx \in Context /\ pend \in Context /\ snap \in Context
  /\ pendingReload \in BOOLEAN /\ rollbackPending \in BOOLEAN
  /\ pc \in PCs /\ idx \in Nat \ {0} /\ again \in BOOLEAN /\ sampled \in PeerStates
  /\ seen \in Seq(SUBSET PeerStates)
  /\ fd \in [Canons -> Entry]
  /\ hook \in [Canons -> {"none", "success", "failed"}]
  /\ events \in 0..MaxEvents
  /\ faults \in 0..MaxFaults
  /\ terminateFailed \in BOOLEAN /\ rollbackFailed \in BOOLEAN

-----------------------------------------------------------------------------
(***************************************************************************)
(* Safety.                                                                 *)
(***************************************************************************)

\* An association that is meant to stay: its PSM was not told to terminate.
Live(c) == Active(c) /\ ~fd[c].term

\* freeDiameter's table is the one configuration cfg asks for.
Reflects(cfg) ==
  \A c \in Canons :
    \/ \E p \in Enabled(cfg) :
         Canon[p.id] = c /\ Live(c) /\ fd[c].id = p.id /\ fd[c].ep = p.ep
    \/ ~Present(c) /\ \A p \in Enabled(cfg) : Canon[p.id] # c

\* main.c:667 and :784.  Between transactions freeDiameter's table holds a live
\* association for exactly the enabled peers of the active configuration, each
\* under its spelling and with its endpoint, unless a rollback was given up.
TableMatchesConfig == ~InTransaction /\ ~rollbackFailed => Reflects(ctx.cfg)

\* diameter.c:1187.  No step ends the association of an enabled peer that the
\* active configuration and the candidate agree on, forward or in a rollback,
\* and outside a transaction no step ends any.
UnchangedPeersStay ==
  [][\A c \in Canons :
       Live(c) /\ ~Live(c)' =>
         /\ InTransaction
         /\ \A p \in Enabled(ctx.cfg) : Canon[p.id] = c => ~Kept(p, pend.cfg)]_vars

\* main.c:663, :700.  A reload that fails while adding peers or committing is
\* undone: giving up takes a second failure, or a termination that failed.
RollbackSurvivesOneFault == rollbackFailed => terminateFailed \/ faults >= 2

\* main.c:667, at the commit: "freeDiameter now reflects the candidate".
CommitReflectsTable ==
  [][pendingReload /\ ~pendingReload' /\ ~rollbackPending' => Reflects(pend.cfg)]_vars

\* The routing callback works on a configuration that was committed, never on a
\* candidate: the snapshot has the generation of ctx or an earlier one, and at
\* the same generation the same configuration.
SnapshotIsCommitted ==
  /\ snap.gen <= ctx.gen
  /\ snap.gen = ctx.gen => snap.cfg = ctx.cfg

\* Between passes a peer the snapshot calls OPEN has an association under that
\* identity that did open since it was added; and, unless a rollback is undoing
\* a replacement, to the endpoint of the snapshot's own configuration.  The
\* states copied into a staged candidate, the hooks of replaced associations
\* and the unlocked copy could each break it.  A pass that fails to allocate
\* memory for polling or copying keeps older states and does break it, so this is
\* about daemons without such failures.
SnapshotOpenIsReal ==
  pc \in {"sleep", "top"} =>
    \A k \in DOMAIN snap.rt :
      LET p == snap.cfg.peers[k]
          e == fd[Canon[p.id]]
      IN  p.enabled /\ snap.rt[k] = "open" =>
            /\ e.id = p.id /\ e.up
            /\ rollbackPending \/ rollbackFailed \/ e.ep = p.ep

-----------------------------------------------------------------------------
(***************************************************************************)
(* The reload protocol implements ConfigTransaction.                       *)
(***************************************************************************)
LiveAssociations == {[id |-> fd[c].id, ep |-> fd[c].ep] : c \in {k \in Canons : Live(k)}}

Transaction == INSTANCE ConfigTransaction WITH
  Candidates <- Files,
  active     <- [gen |-> ctx.gen, cfg |-> ctx.cfg],
  candidate  <- IF InTransaction THEN pend.cfg ELSE EmptyContext.cfg,
  phase      <- IF pendingReload THEN "forward"
                ELSE IF rollbackPending THEN "backward" ELSE "idle",
  installed  <- LiveAssociations,
  damaged    <- rollbackFailed,
  view       <- [gen |-> snap.gen, cfg |-> snap.cfg]

\* Every behaviour of the daemon is one of the abstract transaction: a candidate
\* is committed only with its associations in place, undone without a trace, and
\* published only after its commit.
ImplementsTransaction == Transaction!TxnSpec

-----------------------------------------------------------------------------
(***************************************************************************)
(* Liveness.  The loop has no blocking wait but sleep(1); a PSM reports an *)
(* event by calling the hook, which waits for short critical sections; a   *)
(* PSM reads its event queue in order, so it reaches a termination request *)
(* after finitely many other events.  Nothing obliges a peer to connect.   *)
(***************************************************************************)
Fairness ==
  /\ WF_vars(Main)
  /\ \A c \in Canons : WF_vars(PeerHook(c)) /\ WF_vars(PsmTerminate(c))

FairSpec == Spec /\ Fairness

\* Every reconciliation ends: committed, rolled back or given up.
TransactionEnds == InTransaction ~> ~InTransaction

\* A SIGHUP the loop finds while no transaction is open makes it read dra.yaml.
IdleRequestHonoured == (reloadRequested /\ ~InTransaction) ~> ~unread

\* Once peers, operator and failures come to rest, the snapshot holds the active
\* configuration and the state freeDiameter has for each peer: an update that a
\* commit or the unlocked copy lost is made up for.
SnapshotConverges ==
  <>[](/\ snap.gen = ctx.gen
       /\ \A k \in DOMAIN snap.rt : snap.rt[k] = PolledState(snap.cfg.peers[k]))

\* main.c:474 says "reload deferred": the file is read for every SIGHUP, sooner
\* or later.
EveryRequestHonoured == unread ~> ~unread
=============================================================================
