--------------------------- MODULE DraDaemon_proofs ---------------------------
(***************************************************************************)
(* Proofs about the Diameter Routing Agent, for every set of configuration *)
(* files, every identity and every bound.                                  *)
(***************************************************************************)
EXTENDS DraDaemon, TLAPS

-----------------------------------------------------------------------------
(* Sequences and contexts.                                                 *)

\* A function on 1..n is a sequence of length n.
LEMMA FunctionIsSequence ==
  ASSUME NEW S, NEW n \in Nat, NEW f \in [1..n -> S]
  PROVE  f \in Seq(S) /\ Len(f) = n
OBVIOUS

\* The run-time states of a context may be replaced one for one.
LEMMA ContextWithStates ==
  ASSUME NEW x \in Context, NEW rt \in [DOMAIN x.rt -> PeerStates]
  PROVE  [x EXCEPT !.rt = rt] \in Context
<1>1. x.rt \in Seq(PeerStates) /\ Len(x.rt) = Len(x.cfg.peers) /\ x \in [gen : Nat, cfg : Config, rt : Seq(PeerStates)]
  BY DEF Context
<1>2. DOMAIN x.rt = 1..Len(x.rt) /\ Len(x.rt) \in Nat
  BY <1>1
<1>3. rt \in Seq(PeerStates) /\ Len(rt) = Len(x.rt)
  BY <1>2, FunctionIsSequence
<1>. QED  BY <1>1, <1>3 DEF Context

\* The peers of a configuration are peers.
LEMMA PeersArePeers ==
  ASSUME NEW c \in Config
  PROVE  PeersOf(c) \subseteq Peer
BY DEF Config, PeersOf

\* Preparing a candidate yields a context: one run-time state for each peer.
LEMMA PreparedIsContext ==
  ASSUME NEW next \in Config, NEW x \in Context
  PROVE  Prepared(next, x) \in Context
<1>. DEFINE n == Len(next.peers)
            same(k) == {j \in 1..Len(x.cfg.peers) :
                          /\ x.cfg.peers[j].name = next.peers[k].name
                          /\ TransportEqual(x.cfg.peers[j], next.peers[k])}
            state(k) == IF same(k) = {} THEN "down" ELSE x.rt[CHOOSE j \in same(k) : TRUE]
<1>1. n \in Nat
  BY DEF Config
<1>2. x.gen \in Nat /\ x.rt \in Seq(PeerStates) /\ Len(x.rt) = Len(x.cfg.peers)
  BY DEF Context
<1>3. ASSUME NEW k \in 1..n PROVE state(k) \in PeerStates
  <2>1. CASE same(k) = {}
    BY <2>1 DEF PeerStates
  <2>2. CASE same(k) # {}
    <3>1. (CHOOSE j \in same(k) : TRUE) \in same(k)
      BY <2>2
    <3>2. (CHOOSE j \in same(k) : TRUE) \in 1..Len(x.rt)
      BY <3>1, <1>2
    <3>. QED  BY <3>2, <2>2, <1>2
  <2>. QED  BY <2>1, <2>2
<1>4. CarriedRuntime(next, x) = [k \in 1..n |-> state(k)]
  BY DEF CarriedRuntime
<1>5. CarriedRuntime(next, x) \in [1..n -> PeerStates]
  BY <1>3, <1>4
<1>6. CarriedRuntime(next, x) \in Seq(PeerStates) /\ Len(CarriedRuntime(next, x)) = n
  BY <1>1, <1>5, FunctionIsSequence
<1>. QED  BY <1>2, <1>6 DEF Prepared, Context

\* A context that was reset is a context.
LEMMA EmptyIsContext == EmptyContext \in Context
BY DEF EmptyContext, Context, Config

\* The table start-up leaves behind has the right type.
LEMMA InstalledIsTable ==
  ASSUME NEW c \in Config
  PROVE  Installed(c) \in [Canons -> Entry]
<1>1. Absent \in Entry
  BY DEF Absent, Entry, FdStates
<1>2. ASSUME NEW p \in Enabled(c) PROVE NewEntry(p) \in Entry
  <2>1. p \in Peer
    BY PeersArePeers DEF Enabled
  <2>. QED  BY <2>1 DEF NewEntry, Entry, FdStates, Peer
<1>. QED  BY <1>1, <1>2 DEF Installed

-----------------------------------------------------------------------------
(* The calls into freeDiameter keep the table and the fault count typed.   *)

TableTyped ==
  /\ fd \in [Canons -> Entry]
  /\ faults \in 0..MaxFaults
  /\ terminateFailed \in BOOLEAN

LEMMA FaultTyped ==
  ASSUME NEW kind, faults \in 0..MaxFaults, Fault(kind)
  PROVE  faults' \in 0..MaxFaults
BY BoundsAreNat DEF Fault

LEMMA RemoveTyped ==
  ASSUME TableTyped, NEW id \in Ids, NEW rc, FdRemove(id, rc)
  PROVE  TableTyped'
<1>. DEFINE c == Canon[id]
<1>1. c \in Canons /\ Absent \in Entry
  BY DEF Canons, Absent, Entry, FdStates
<1>2. [fd EXCEPT ![c] = Absent] \in [Canons -> Entry]
  BY <1>1 DEF TableTyped
<1>3. [fd EXCEPT ![c].term = TRUE] \in [Canons -> Entry]
  BY <1>1 DEF TableTyped, Entry
<1>. QED  BY <1>2, <1>3, FaultTyped DEF TableTyped, FdRemove, faultVars

LEMMA AddTyped ==
  ASSUME TableTyped, NEW p \in Peer, NEW ok, FdAdd(p, ok)
  PROVE  TableTyped'
<1>1. Canon[p.id] \in Canons
  BY DEF Canons, Peer
<1>2. NewEntry(p) \in Entry
  BY DEF NewEntry, Entry, FdStates, Peer
<1>. QED  BY <1>1, <1>2, FaultTyped DEF TableTyped, FdAdd, faultVars

-----------------------------------------------------------------------------
(* Type correctness.                                                       *)

\* The parts of TypeOK that a step of the loop handles together.
LoopTyped ==
  /\ pc \in PCs /\ idx \in Nat \ {0} /\ again \in BOOLEAN /\ sampled \in PeerStates

LEMMA GoToTyped ==
  ASSUME LoopTyped, NEW l \in PCs, GoTo(l)
  PROVE  LoopTyped'
<1>1. pc' = l /\ idx' = 1 /\ again' = FALSE /\ sampled' = sampled
  BY DEF GoTo
<1>2. idx' \in Nat \ {0}
  BY <1>1
<1>3. pc' \in PCs /\ again' \in BOOLEAN /\ sampled' \in PeerStates
  BY <1>1, Zenon DEF LoopTyped
<1>. QED  BY <1>2, <1>3, Zenon DEF LoopTyped

\* Going on to the next peer of a list.
LEMMA Next1Typed ==
  ASSUME LoopTyped, Next1, again' = again \/ again' = TRUE
  PROVE  LoopTyped'
<1>1. idx' \in Nat \ {0}
  BY DEF LoopTyped, Next1
<1>2. pc' \in PCs /\ sampled' \in PeerStates
  BY DEF LoopTyped, Next1
<1>3. again' \in BOOLEAN
  BY Zenon DEF LoopTyped
<1>. QED  BY <1>1, <1>2, <1>3, Zenon DEF LoopTyped

LEMMA ProceedTyped ==
  ASSUME LoopTyped, Proceed
  PROVE  LoopTyped'
<1>. DEFINE l == IF pendingReload' THEN "remove" ELSE IF rollbackPending' THEN "unadd" ELSE "refresh"
<1>1. l \in PCs
  BY DEF PCs
<1>2. GoTo(l)
  BY Zenon DEF Proceed
<1>. QED  BY <1>1, <1>2, GoToTyped

\* The other parts of TypeOK.
OutsideTyped ==
  /\ file \in Files /\ edits \in 0..MaxEdits
  /\ reloadRequested \in BOOLEAN /\ unread \in BOOLEAN

ContextsTyped == ctx \in Context /\ pend \in Context /\ snap \in Context

TxnTyped ==
  /\ pendingReload \in BOOLEAN /\ rollbackPending \in BOOLEAN
  /\ rollbackFailed \in BOOLEAN

SeenTyped == seen \in Seq(SUBSET PeerStates)

PsmsTyped ==
  /\ hook \in [Canons -> {"none", "success", "failed"}]
  /\ events \in 0..MaxEvents

AllParts == /\ OutsideTyped /\ ContextsTyped /\ TxnTyped /\ LoopTyped
            /\ SeenTyped /\ TableTyped /\ PsmsTyped

LEMMA TypeParts == (TypeOK <=> AllParts) /\ (TypeOK' <=> AllParts')
BY Zenon DEF TypeOK, AllParts, OutsideTyped, ContextsTyped, TxnTyped, LoopTyped,
   SeenTyped, TableTyped, PsmsTyped

\* What a step leaves alone stays typed.
LEMMA FramesTyped ==
  /\ OutsideTyped /\ UNCHANGED <<fileVars, flagVars>> => OutsideTyped'
  /\ ContextsTyped /\ UNCHANGED <<ctx, pend, snap>> => ContextsTyped'
  /\ TxnTyped /\ UNCHANGED <<txnVars, rollbackFailed>> => TxnTyped'
  /\ LoopTyped /\ UNCHANGED loopVars => LoopTyped'
  /\ SeenTyped /\ UNCHANGED seen => SeenTyped'
  /\ TableTyped /\ UNCHANGED <<fd, faultVars>> => TableTyped'
  /\ PsmsTyped /\ UNCHANGED <<hook, events>> => PsmsTyped'
<1>1. OutsideTyped /\ UNCHANGED <<fileVars, flagVars>> => OutsideTyped'
  BY Zenon DEF OutsideTyped, fileVars, flagVars
<1>2. ContextsTyped /\ UNCHANGED <<ctx, pend, snap>> => ContextsTyped'
  BY Zenon DEF ContextsTyped
<1>3. TxnTyped /\ UNCHANGED <<txnVars, rollbackFailed>> => TxnTyped'
  BY Zenon DEF TxnTyped, txnVars
<1>4. LoopTyped /\ UNCHANGED loopVars => LoopTyped'
  BY Zenon DEF LoopTyped, loopVars
<1>5. SeenTyped /\ UNCHANGED seen => SeenTyped'
  BY Zenon DEF SeenTyped
<1>6. TableTyped /\ UNCHANGED <<fd, faultVars>> => TableTyped'
  BY Zenon DEF TableTyped, faultVars
<1>7. PsmsTyped /\ UNCHANGED <<hook, events>> => PsmsTyped'
  BY Zenon DEF PsmsTyped
<1>. QED  BY <1>1, <1>2, <1>3, <1>4, <1>5, <1>6, <1>7, Zenon

LEMMA InitTyped == Init => TypeOK
<1>. SUFFICES ASSUME Init PROVE TypeOK
  OBVIOUS
<1>1. file \in Files /\ file \in Config
  BY FilesAreConfigs DEF Init
<1>2. Len(file.peers) \in Nat
  BY <1>1 DEF Config
<1>3. AllDown(file) \in [1..Len(file.peers) -> PeerStates]
  BY DEF AllDown, PeerStates
<1>4. AllDown(file) \in Seq(PeerStates) /\ Len(AllDown(file)) = Len(file.peers)
  BY <1>2, <1>3, FunctionIsSequence
<1>5. ctx \in Context
  BY <1>1, <1>4 DEF Init, Context
<1>6. fd \in [Canons -> Entry]
  BY <1>1, InstalledIsTable DEF Init
<1>7. 0 \in 0..MaxEdits /\ 0 \in 0..MaxEvents /\ 0 \in 0..MaxFaults /\ 1 \in Nat \ {0}
  BY BoundsAreNat
<1>8. OutsideTyped /\ TxnTyped
  BY <1>1, <1>7, Zenon DEF Init, OutsideTyped, TxnTyped
<1>9. ContextsTyped
  BY <1>5, EmptyIsContext, Zenon DEF Init, ContextsTyped
<1>10. LoopTyped
  <2>1. "top" \in PCs /\ "down" \in PeerStates
    BY DEF PCs, PeerStates
  <2>. QED  BY <1>7, <2>1, Zenon DEF Init, LoopTyped
<1>11. SeenTyped
  BY DEF Init, SeenTyped
<1>12. TableTyped
  BY <1>6, <1>7, Zenon DEF Init, TableTyped
<1>13. PsmsTyped
  <2>1. hook \in [Canons -> {"none", "success", "failed"}]
    BY DEF Init
  <2>. QED  BY <1>7, <2>1, Zenon DEF Init, PsmsTyped
<1>. QED
  BY <1>8, <1>9, <1>10, <1>11, <1>12, <1>13, TypeParts, Zenon DEF AllParts

\* A connection event changes one entry of the table and one pending event.
LEMMA EntryTyped ==
  ASSUME TableTyped, NEW c \in Canons, NEW st \in FdStates, UNCHANGED faultVars,
         \/ fd' = [fd EXCEPT ![c].st = st]
         \/ fd' = [fd EXCEPT ![c].st = st, ![c].up = TRUE]
  PROVE  TableTyped'
<1>1. fd' \in [Canons -> Entry]
  <2>1. CASE fd' = [fd EXCEPT ![c].st = st]
    BY <2>1 DEF TableTyped, Entry
  <2>2. CASE fd' = [fd EXCEPT ![c].st = st, ![c].up = TRUE]
    BY <2>2 DEF TableTyped, Entry
  <2>. QED  BY <2>1, <2>2
<1>. QED  BY <1>1, Zenon DEF TableTyped, faultVars

LEMMA HookTyped ==
  ASSUME PsmsTyped, NEW c \in Canons, ConnectionEvent(c),
         hook' \in {hook} \union {[hook EXCEPT ![c] = e] : e \in {"success", "failed"}}
  PROVE  PsmsTyped'
<1>1. events' \in 0..MaxEvents
  BY BoundsAreNat DEF ConnectionEvent, PsmsTyped
<1>2. hook' \in [Canons -> {"none", "success", "failed"}]
  BY DEF PsmsTyped
<1>. QED  BY <1>1, <1>2, Zenon DEF PsmsTyped

\* The steps of the PSM threads.
LEMMA PsmTyped ==
  ASSUME TypeOK, NEW c \in Canons, Psm(c)
  PROVE  TypeOK'
<1>. USE TypeParts, FramesTyped DEF AllParts
<1>1. psmFrame' = psmFrame => OutsideTyped' /\ ContextsTyped' /\ TxnTyped' /\ LoopTyped' /\ SeenTyped'
  BY Zenon DEF psmFrame, viewVars
<1>2. psmFrame' = psmFrame => UNCHANGED faultVars
  BY Zenon DEF psmFrame
<1>3. "open" \in FdStates /\ "connecting" \in FdStates /\ "zombie" \in FdStates
  BY DEF FdStates
<1>4. CASE PsmOpen(c)
  <2>1. TableTyped'
    BY <1>2, <1>3, <1>4, EntryTyped, Zenon DEF PsmOpen
  <2>2. PsmsTyped'
    <3>1. hook' \in {hook} \union {[hook EXCEPT ![c] = e] : e \in {"success", "failed"}}
      BY <1>4 DEF PsmOpen
    <3>. QED  BY <1>4, <3>1, HookTyped, Zenon DEF PsmOpen
  <2>. QED  BY <1>1, <1>4, <2>1, <2>2, Zenon DEF PsmOpen
<1>5. CASE PsmHandshake(c) \/ PsmFail(c)
  <2>1. PsmsTyped'
    <3>1. hook' \in {hook} \union {[hook EXCEPT ![c] = e] : e \in {"success", "failed"}}
      BY <1>5 DEF PsmHandshake, PsmFail
    <3>. QED  BY <1>5, <3>1, HookTyped, Zenon DEF PsmHandshake, PsmFail
  <2>. QED  BY <1>1, <1>2, <1>5, <2>1, Zenon DEF PsmHandshake, PsmFail
<1>6. CASE PsmDisconnect(c)
  <2>1. TableTyped'
    BY <1>2, <1>3, <1>6, EntryTyped, Zenon DEF PsmDisconnect
  <2>2. PsmsTyped'
    BY <1>6, HookTyped DEF PsmDisconnect
  <2>. QED  BY <1>1, <1>6, <2>1, <2>2, Zenon DEF PsmDisconnect
<1>7. CASE PsmTerminate(c)
  <2>1. TableTyped'
    BY <1>2, <1>3, <1>7, EntryTyped, Zenon DEF PsmTerminate
  <2>. QED  BY <1>1, <1>7, <2>1, Zenon DEF PsmTerminate
<1>8. CASE PeerHook(c)
  <2>. DEFINE mine == {k \in 1..Len(ctx.cfg.peers) : ctx.cfg.peers[k].id = fd[c].id}
              rt   == [k \in DOMAIN ctx.rt |-> IF k \in mine THEN HookState(c) ELSE ctx.rt[k]]
              sn   == [k \in DOMAIN seen |-> IF k \in mine THEN seen[k] \union {HookState(c)} ELSE seen[k]]
  <2>1. HookState(c) \in PeerStates
    BY DEF HookState, PeerStates
  <2>2. rt \in [DOMAIN ctx.rt -> PeerStates]
    BY <2>1 DEF ContextsTyped, Context
  <2>3. ctx' = [ctx EXCEPT !.rt = rt] /\ seen' = sn
    BY <1>8, Zenon DEF PeerHook
  <2>4. ctx' \in Context
    BY <2>2, <2>3, ContextWithStates DEF ContextsTyped
  <2>5. SeenTyped'
    <3>1. Len(seen) \in Nat /\ DOMAIN seen = 1..Len(seen)
      BY DEF SeenTyped
    <3>2. sn \in [1..Len(seen) -> SUBSET PeerStates]
      BY <2>1, <3>1 DEF SeenTyped
    <3>. QED  BY <2>3, <3>1, <3>2, FunctionIsSequence DEF SeenTyped
  <2>6. ContextsTyped'
    BY <1>8, <2>4, Zenon DEF PeerHook, ContextsTyped
  <2>7. PsmsTyped'
    BY <1>8 DEF PeerHook, PsmsTyped
  <2>. QED  BY <1>8, <2>5, <2>6, <2>7, Zenon DEF PeerHook
<1>. QED  BY <1>4, <1>5, <1>6, <1>7, <1>8, Zenon DEF Psm

\* The operator and the SIGHUP handler.
LEMMA OperatorTyped ==
  ASSUME TypeOK, Operator
  PROVE  TypeOK'
<1>. USE TypeParts, FramesTyped DEF AllParts
<1>1. CASE EditFile
  <2>1. edits' \in 0..MaxEdits
    BY <1>1, BoundsAreNat DEF EditFile, OutsideTyped
  <2>2. file' \in Files
    BY <1>1 DEF EditFile
  <2>3. OutsideTyped'
    BY <1>1, <2>1, <2>2, Zenon DEF EditFile, OutsideTyped, flagVars
  <2>. QED  BY <1>1, <2>3, Zenon DEF EditFile, viewVars, fdVars
<1>2. CASE Sighup
  <2>1. OutsideTyped'
    BY <1>2, Zenon DEF Sighup, OutsideTyped, fileVars
  <2>. QED  BY <1>2, <2>1, Zenon DEF Sighup, viewVars, fdVars
<1>. QED  BY <1>1, <1>2, Zenon DEF Operator

\* The peers the loops look at are peers.
LEMMA IndexedPeers ==
  ASSUME TypeOK
  PROVE  /\ idx <= Len(ctx.cfg.peers)  => ctx.cfg.peers[idx] \in Peer /\ idx \in DOMAIN ctx.rt
         /\ idx <= Len(pend.cfg.peers) => pend.cfg.peers[idx] \in Peer
<1>1. idx \in Nat \ {0} /\ ctx \in Context /\ pend \in Context
  BY Zenon DEF TypeOK
<1>2. ctx.cfg.peers \in Seq(Peer) /\ pend.cfg.peers \in Seq(Peer) /\ ctx.rt \in Seq(PeerStates)
      /\ Len(ctx.rt) = Len(ctx.cfg.peers)
  BY <1>1 DEF Context, Config
<1>. QED  BY <1>1, <1>2

\* The head of the loop.
LEMMA ReloadTyped ==
  ASSUME TypeOK, NoReload \/ DeferReload \/ RejectReload \/ StageReload \/ CommitReload
  PROVE  TypeOK'
<1>. USE TypeParts, FramesTyped DEF AllParts
<1>1. LoopTyped'
  BY ProceedTyped, Zenon DEF NoReload, DeferReload, RejectReload, StageReload, CommitReload
<1>2. PsmsTyped'
  BY Zenon DEF NoReload, DeferReload, RejectReload, StageReload, CommitReload, topFrame, fdVars
<1>3. OutsideTyped'
  BY Zenon DEF NoReload, DeferReload, RejectReload, StageReload, CommitReload, ReadFile,
     topFrame, OutsideTyped, fileVars, flagVars
<1>4. TableTyped'
  BY FaultTyped, Zenon DEF NoReload, DeferReload, RejectReload, StageReload, CommitReload,
     topFrame, fdVars, faultVars, TableTyped
<1>5. SeenTyped'
  BY Zenon DEF NoReload, DeferReload, RejectReload, StageReload, CommitReload, viewVars
<1>6. TxnTyped'
  BY Zenon DEF NoReload, DeferReload, RejectReload, StageReload, CommitReload, topFrame,
     txnVars, TxnTyped
<1>7. ContextsTyped'
  <2>1. file \in Config
    BY FilesAreConfigs, Zenon DEF OutsideTyped
  <2>2. Prepared(file, ctx) \in Context
    BY <2>1, PreparedIsContext, Zenon DEF ContextsTyped
  <2>. QED
    BY <2>2, Zenon DEF NoReload, DeferReload, RejectReload, StageReload, CommitReload,
       viewVars, ContextsTyped
<1>. QED  BY <1>1, <1>2, <1>3, <1>4, <1>5, <1>6, <1>7, Zenon

LEMMA StartRollbackTyped ==
  ASSUME LoopTyped, TxnTyped, StartRollback, UNCHANGED rollbackFailed
  PROVE  LoopTyped' /\ TxnTyped'
<1>1. "unadd" \in PCs
  BY DEF PCs
<1>. QED  BY <1>1, GoToTyped, Zenon DEF StartRollback, TxnTyped

LEMMA GiveUpTyped ==
  ASSUME LoopTyped, TxnTyped, GiveUpRollback
  PROVE  LoopTyped' /\ TxnTyped'
<1>1. "refresh" \in PCs
  BY DEF PCs
<1>. QED  BY <1>1, GoToTyped, Zenon DEF GiveUpRollback, TxnTyped

\* Forward reconciliation.
LEMMA ForwardTyped ==
  ASSUME TypeOK, RemoveStale \/ RemovalsDone \/ AddPending \/ CommitPending
  PROVE  TypeOK'
<1>. USE TypeParts, FramesTyped DEF AllParts
<1>1. OutsideTyped' /\ SeenTyped' /\ PsmsTyped'
  BY Zenon DEF RemoveStale, RemovalsDone, AddPending, CommitPending, txnFrame, viewVars
<1>2. "add" \in PCs /\ "refresh" \in PCs
  BY DEF PCs
<1>3. CASE RemoveStale
  <2>. DEFINE p == ctx.cfg.peers[idx]
  <2>1. p \in Peer /\ p.id \in Ids
    BY <1>3, IndexedPeers DEF RemoveStale, Peer
  <2>2. TableTyped'
    BY <1>3, <2>1, RemoveTyped, Zenon DEF RemoveStale
  <2>3. LoopTyped' /\ TxnTyped'
    BY <1>3, Next1Typed, StartRollbackTyped, Zenon DEF RemoveStale
  <2>4. ContextsTyped'
    BY <1>3, Zenon DEF RemoveStale, txnFrame, viewVars
  <2>. QED  BY <1>1, <2>2, <2>3, <2>4, Zenon
<1>4. CASE RemovalsDone
  <2>1. LoopTyped'
    BY <1>2, <1>4, GoToTyped, Zenon DEF RemovalsDone
  <2>. QED  BY <1>1, <1>4, <2>1, Zenon DEF RemovalsDone, txnFrame, viewVars
<1>5. CASE AddPending
  <2>. DEFINE p == pend.cfg.peers[idx]
  <2>1. p \in Peer
    BY <1>5, IndexedPeers DEF AddPending
  <2>2. TableTyped'
    BY <1>5, <2>1, AddTyped, Zenon DEF AddPending
  <2>3. LoopTyped' /\ TxnTyped'
    BY <1>5, Next1Typed, StartRollbackTyped, Zenon DEF AddPending
  <2>4. ContextsTyped'
    BY <1>5, Zenon DEF AddPending, txnFrame, viewVars
  <2>. QED  BY <1>1, <2>2, <2>3, <2>4, Zenon
<1>6. CASE CommitPending
  <2>1. LoopTyped' /\ TxnTyped'
    BY <1>2, <1>6, GoToTyped, StartRollbackTyped, Zenon DEF CommitPending, TxnTyped
  <2>2. TableTyped'
    BY <1>6, FaultTyped, Zenon DEF CommitPending, TableTyped, faultVars
  <2>3. ContextsTyped'
    BY <1>6, EmptyIsContext, Zenon DEF CommitPending, txnFrame, viewVars, ContextsTyped
  <2>. QED  BY <1>1, <2>1, <2>2, <2>3, Zenon
<1>. QED  BY <1>3, <1>4, <1>5, <1>6, Zenon

\* Rollback.
LEMMA BackwardTyped ==
  ASSUME TypeOK, RemoveCandidate \/ CandidatesGone \/ RestoreCurrent \/ RollbackComplete
  PROVE  TypeOK'
<1>. USE TypeParts, FramesTyped DEF AllParts
<1>1. OutsideTyped' /\ SeenTyped' /\ PsmsTyped'
  BY Zenon DEF RemoveCandidate, CandidatesGone, RestoreCurrent, RollbackComplete, txnFrame, viewVars
<1>2. "restore" \in PCs /\ "refresh" \in PCs
  BY DEF PCs
<1>3. CASE RemoveCandidate
  <2>. DEFINE p == pend.cfg.peers[idx]
  <2>1. p \in Peer /\ p.id \in Ids
    BY <1>3, IndexedPeers DEF RemoveCandidate, Peer
  <2>2. TableTyped'
    BY <1>3, <2>1, RemoveTyped, Zenon DEF RemoveCandidate
  <2>3. LoopTyped' /\ TxnTyped'
    BY <1>3, Next1Typed, GiveUpTyped, Zenon DEF RemoveCandidate
  <2>4. ContextsTyped'
    BY <1>3, Zenon DEF RemoveCandidate, txnFrame, viewVars
  <2>. QED  BY <1>1, <2>2, <2>3, <2>4, Zenon
<1>4. CASE CandidatesGone
  <2>1. LoopTyped'
    BY <1>2, <1>4, GoToTyped, Zenon DEF CandidatesGone
  <2>. QED  BY <1>1, <1>4, <2>1, Zenon DEF CandidatesGone, txnFrame, viewVars
<1>5. CASE RestoreCurrent
  <2>. DEFINE p == ctx.cfg.peers[idx]
  <2>1. p \in Peer
    BY <1>5, IndexedPeers DEF RestoreCurrent
  <2>2. TableTyped'
    BY <1>5, <2>1, AddTyped, Zenon DEF RestoreCurrent
  <2>3. LoopTyped' /\ TxnTyped'
    BY <1>5, Next1Typed, GiveUpTyped, Zenon DEF RestoreCurrent
  <2>4. ContextsTyped'
    BY <1>5, Zenon DEF RestoreCurrent, txnFrame, viewVars
  <2>. QED  BY <1>1, <2>2, <2>3, <2>4, Zenon
<1>6. CASE RollbackComplete
  <2>1. LoopTyped' /\ TxnTyped'
    BY <1>2, <1>6, GoToTyped, Zenon DEF RollbackComplete, TxnTyped
  <2>2. ContextsTyped'
    BY <1>6, EmptyIsContext, Zenon DEF RollbackComplete, txnFrame, viewVars, ContextsTyped
  <2>. QED  BY <1>1, <1>6, <2>1, <2>2, Zenon DEF RollbackComplete
<1>. QED  BY <1>3, <1>4, <1>5, <1>6, Zenon

\* The refresh of the run-time states and the copy into the snapshot.
LEMMA PollTyped ==
  ASSUME TypeOK, \/ Sample \/ Publish \/ SkipRefresh \/ RefreshDone
                 \/ UpdateBegin \/ UpdateEnd \/ Wake
  PROVE  TypeOK'
<1>. USE TypeParts, FramesTyped DEF AllParts
<1>1. OutsideTyped' /\ PsmsTyped' /\ TxnTyped'
  BY Zenon DEF Sample, Publish, SkipRefresh, RefreshDone, UpdateBegin, UpdateEnd, Wake,
     refreshFrame, updateFrame, fdVars
<1>2. TableTyped'
  BY FaultTyped, Zenon DEF Sample, Publish, SkipRefresh, RefreshDone, UpdateBegin, UpdateEnd, Wake,
     refreshFrame, updateFrame, fdVars, faultVars, TableTyped
<1>3. {"top", "refresh", "publish", "update", "copy", "sleep"} \subseteq PCs
  BY DEF PCs
<1>4. CASE Sample
  <2>1. sampled' \in PeerStates
    BY <1>4 DEF Sample, PolledState, PeerStates
  <2>2. LoopTyped'
    BY <1>3, <1>4, <2>1 DEF Sample, LoopTyped
  <2>. QED  BY <1>1, <1>2, <1>4, <2>2, Zenon DEF Sample, refreshFrame, viewVars
<1>5. CASE Publish
  <2>1. idx' \in Nat \ {0}
    BY <1>5 DEF Publish, LoopTyped
  <2>2. LoopTyped'
    <3>1. "down" \in PeerStates /\ "refresh" \in PCs
      BY <1>3 DEF PeerStates
    <3>. QED  BY <1>5, <2>1, <3>1, Zenon DEF Publish, LoopTyped
  <2>3. ctx' \in Context
    <3>1. [ctx.rt EXCEPT ![idx] = sampled] \in [DOMAIN ctx.rt -> PeerStates]
      <4>1. sampled \in PeerStates
        BY Zenon DEF LoopTyped
      <4>2. ctx.rt \in [DOMAIN ctx.rt -> PeerStates]
        BY DEF ContextsTyped, Context
      <4>. QED  BY <4>1, <4>2
    <3>2. ctx' = [ctx EXCEPT !.rt = [ctx.rt EXCEPT ![idx] = sampled]]
      BY <1>5 DEF Publish
    <3>. QED  BY <3>1, <3>2, ContextWithStates DEF ContextsTyped
  <2>4. ContextsTyped' /\ SeenTyped'
    BY <1>5, <2>3, Zenon DEF Publish, refreshFrame, viewVars, ContextsTyped
  <2>. QED  BY <1>1, <1>2, <2>2, <2>4, Zenon
<1>6. CASE SkipRefresh \/ RefreshDone
  <2>1. LoopTyped'
    BY <1>3, <1>6, GoToTyped DEF SkipRefresh, RefreshDone
  <2>. QED
    BY <1>1, <1>2, <1>6, <2>1, Zenon DEF SkipRefresh, RefreshDone, refreshFrame, viewVars
<1>7. CASE UpdateBegin
  <2>1. LoopTyped'
    BY <1>3, <1>7, GoToTyped DEF UpdateBegin
  <2>2. SeenTyped'
    <3>1. Len(ctx.rt) \in Nat /\ DOMAIN ctx.rt = 1..Len(ctx.rt) /\ ctx.rt \in Seq(PeerStates)
      BY DEF ContextsTyped, Context
    <3>2. [k \in DOMAIN ctx.rt |-> {ctx.rt[k]}] \in [1..Len(ctx.rt) -> SUBSET PeerStates]
      BY <3>1
    <3>3. seen' \in Seq(SUBSET PeerStates)
      BY <1>7, <3>1, <3>2, FunctionIsSequence DEF UpdateBegin
    <3>. QED  BY <3>3 DEF SeenTyped
  <2>. QED  BY <1>1, <1>2, <1>7, <2>1, <2>2, Zenon DEF UpdateBegin, updateFrame
<1>8. CASE UpdateEnd
  <2>1. LoopTyped'
    BY <1>3, <1>8, GoToTyped DEF UpdateEnd
  <2>2. SeenTyped'
    BY <1>8 DEF UpdateEnd, SeenTyped
  <2>3. snap' \in Context
    <3>1. snap' = snap \/ \E rt \in [DOMAIN ctx.rt -> PeerStates] : snap' = [ctx EXCEPT !.rt = rt]
      BY <1>8, Zenon DEF UpdateEnd
    <3>2. ASSUME NEW rt \in [DOMAIN ctx.rt -> PeerStates] PROVE [ctx EXCEPT !.rt = rt] \in Context
      BY ContextWithStates DEF ContextsTyped
    <3>. QED  BY <3>1, <3>2, Zenon DEF ContextsTyped
  <2>4. ContextsTyped'
    BY <1>8, <2>3, Zenon DEF UpdateEnd, updateFrame, ContextsTyped
  <2>. QED  BY <1>1, <1>2, <2>1, <2>2, <2>4, Zenon
<1>9. CASE Wake
  <2>1. LoopTyped'
    BY <1>3, <1>9, GoToTyped DEF Wake
  <2>. QED  BY <1>1, <1>2, <1>9, <2>1, Zenon DEF Wake, updateFrame, viewVars
<1>. QED  BY <1>4, <1>5, <1>6, <1>7, <1>8, <1>9, Zenon

LEMMA NextTyped ==
  ASSUME TypeOK, [Next]_vars
  PROVE  TypeOK'
<1>1. CASE Main
  BY <1>1, ReloadTyped, ForwardTyped, BackwardTyped, PollTyped, Zenon DEF Main
<1>2. CASE \E c \in Canons : Psm(c)
  BY <1>2, PsmTyped, Zenon
<1>3. CASE Operator
  BY <1>3, OperatorTyped, Zenon
<1>4. CASE UNCHANGED vars
  BY <1>4, TypeParts, FramesTyped, Zenon DEF AllParts, vars, fdVars, viewVars
<1>. QED  BY <1>1, <1>2, <1>3, <1>4, Zenon DEF Next

\* Every variable of the daemon stays in its type: a context always has one
\* run-time state for each of its peers, freeDiameter's table one entry for each
\* identity, and the loops never leave their lists.
THEOREM TypeCorrect == Spec => []TypeOK
<1>1. Init => TypeOK
  BY InitTyped
<1>2. TypeOK /\ [Next]_vars => TypeOK'
  BY NextTyped
<1>. QED  BY <1>1, <1>2, PTL DEF Spec

-----------------------------------------------------------------------------
(* The routing callback never sees a configuration that was not committed. *)

\* Where the loop is tells which of the two transaction flags is set, and a
\* candidate that may still be committed is one generation ahead.
PhaseMatchesPC ==
  /\ ~(pendingReload /\ rollbackPending)
  /\ pc \in {"remove", "add"} => pendingReload
  /\ pc \in {"unadd", "restore"} => rollbackPending
  /\ pendingReload => pend.gen = ctx.gen + 1

SnapshotInv == TypeOK /\ PhaseMatchesPC /\ SnapshotIsCommitted

LEMMA InitSnapshot == Init => SnapshotInv
<1>. SUFFICES ASSUME Init PROVE SnapshotInv
  OBVIOUS
<1>1. TypeOK
  BY InitTyped
<1>2. PhaseMatchesPC
  BY DEF Init, PhaseMatchesPC
<1>3. SnapshotIsCommitted
  BY <1>1 DEF Init, SnapshotIsCommitted, TypeOK, Context
<1>. QED  BY <1>1, <1>2, <1>3, Zenon DEF SnapshotInv

\* Steps that neither replace a context nor leave a transaction.
LEMMA SameGenerations ==
  ASSUME PhaseMatchesPC, SnapshotIsCommitted,
         ctx'.gen = ctx.gen, ctx'.cfg = ctx.cfg, UNCHANGED pend
  PROVE  /\ \/ UNCHANGED snap
            \/ snap'.gen = ctx.gen /\ snap'.cfg = ctx.cfg
            => (ctx.gen \in Nat => SnapshotIsCommitted')
         /\ UNCHANGED txnVars /\ (pc' = pc \/ pc' \notin {"remove", "add", "unadd", "restore"})
            => PhaseMatchesPC'
         /\ StartRollback => PhaseMatchesPC'
         /\ pendingReload' = pendingReload /\ rollbackPending' = FALSE
            /\ pc' \notin {"remove", "add", "unadd", "restore"} => PhaseMatchesPC'
         /\ UNCHANGED txnVars /\ pc \in {"remove", "add"} /\ pc' \in {"remove", "add"} => PhaseMatchesPC'
         /\ UNCHANGED txnVars /\ pc \in {"unadd", "restore"} /\ pc' \in {"unadd", "restore"} => PhaseMatchesPC'
         /\ UNCHANGED txnVars /\ Proceed => PhaseMatchesPC'
<1>1. ASSUME ctx.gen \in Nat, UNCHANGED snap \/ (snap'.gen = ctx.gen /\ snap'.cfg = ctx.cfg)
      PROVE  SnapshotIsCommitted'
  BY <1>1 DEF SnapshotIsCommitted
<1>2. ASSUME UNCHANGED txnVars, pc' = pc \/ pc' \notin {"remove", "add", "unadd", "restore"}
      PROVE  PhaseMatchesPC'
  BY <1>2 DEF PhaseMatchesPC, txnVars
<1>3. ASSUME StartRollback PROVE PhaseMatchesPC'
  BY <1>3 DEF PhaseMatchesPC, StartRollback, GoTo
<1>4. ASSUME pendingReload' = pendingReload, rollbackPending' = FALSE,
             pc' \notin {"remove", "add", "unadd", "restore"}
      PROVE  PhaseMatchesPC'
  BY <1>4 DEF PhaseMatchesPC
<1>5. ASSUME UNCHANGED txnVars,
             \/ pc \in {"remove", "add"} /\ pc' \in {"remove", "add"}
             \/ pc \in {"unadd", "restore"} /\ pc' \in {"unadd", "restore"}
      PROVE  PhaseMatchesPC'
  BY <1>5 DEF PhaseMatchesPC, txnVars
<1>6. ASSUME UNCHANGED txnVars, Proceed PROVE PhaseMatchesPC'
  BY <1>6 DEF PhaseMatchesPC, txnVars, Proceed, GoTo
<1>. QED  BY <1>1, <1>2, <1>3, <1>4, <1>5, <1>6, Zenon

LEMMA NextSnapshot ==
  ASSUME SnapshotInv, [Next]_vars
  PROVE  PhaseMatchesPC' /\ SnapshotIsCommitted'
<1>. DEFINE Quiet == ctx'.gen = ctx.gen /\ ctx'.cfg = ctx.cfg /\ UNCHANGED pend
<1>0. PhaseMatchesPC /\ SnapshotIsCommitted /\ TypeOK
  BY Zenon DEF SnapshotInv
<1>1. ctx.gen \in Nat /\ snap.gen \in Nat /\ pend.gen \in Nat
  BY <1>0 DEF TypeOK, Context
<1>2. CASE NoReload \/ DeferReload \/ RejectReload
  <2>1. UNCHANGED <<ctx, pend, snap, txnVars>> /\ Proceed
    BY <1>2, Zenon DEF NoReload, DeferReload, RejectReload, viewVars
  <2>. QED  BY <1>0, <1>1, <2>1, SameGenerations
<1>3. CASE StageReload
  <2>1. ~rollbackPending /\ ctx' = ctx /\ snap' = snap /\ pend' = Prepared(file, ctx)
        /\ pendingReload' = TRUE /\ rollbackPending' = rollbackPending /\ pc' = "remove"
    BY <1>3 DEF StageReload, ReadFile, InTransaction, viewVars, Proceed, GoTo
  <2>2. pend'.gen = ctx'.gen + 1
    BY <2>1 DEF Prepared
  <2>3. PhaseMatchesPC'
    BY <2>1, <2>2 DEF PhaseMatchesPC
  <2>. QED  BY <1>0, <2>1, <2>3 DEF SnapshotIsCommitted
<1>4. CASE CommitReload
  <2>1. ~pendingReload /\ ~rollbackPending /\ UNCHANGED <<pend, txnVars>> /\ Proceed
        /\ ctx' = Prepared(file, ctx) /\ (snap' = ctx' \/ snap' = snap)
    BY <1>4 DEF CommitReload, ReadFile, InTransaction
  <2>2. ctx'.gen = ctx.gen + 1
    BY <2>1 DEF Prepared
  <2>3. SnapshotIsCommitted'
    BY <1>0, <1>1, <2>1, <2>2 DEF SnapshotIsCommitted
  <2>4. PhaseMatchesPC'
    BY <2>1 DEF PhaseMatchesPC, Proceed, GoTo, txnVars
  <2>. QED  BY <2>3, <2>4
<1>5. CASE RemoveStale \/ AddPending
  <2>1. UNCHANGED <<ctx, pend, snap>> /\ (StartRollback \/ (UNCHANGED <<txnVars, pc>>))
    BY <1>5, Zenon DEF RemoveStale, AddPending, txnFrame, viewVars, Next1
  <2>. QED  BY <1>0, <1>1, <2>1, SameGenerations
<1>6. CASE RemovalsDone \/ CandidatesGone
  <2>1. UNCHANGED <<ctx, pend, snap, txnVars>>
    BY <1>6, Zenon DEF RemovalsDone, CandidatesGone, txnFrame, viewVars
  <2>2. \/ pc' = "refresh"
        \/ pc = "remove" /\ pc' = "add"
        \/ pc = "unadd" /\ pc' = "restore"
    BY <1>6 DEF RemovalsDone, CandidatesGone, GoTo
  <2>. QED  BY <1>0, <1>1, <2>1, <2>2, SameGenerations
<1>7. CASE CommitPending
  <2>1. CASE StartRollback /\ UNCHANGED <<ctx, pend, snap>>
    BY <1>0, <1>1, <2>1, SameGenerations
  <2>2. CASE ctx' = pend /\ pendingReload' = FALSE /\ rollbackPending' = rollbackPending
             /\ pc' = "refresh" /\ snap' = snap
    <3>1. ctx'.gen = ctx.gen + 1
      BY <1>0, <1>7, <2>2 DEF PhaseMatchesPC, CommitPending
    <3>2. SnapshotIsCommitted'
      BY <1>0, <1>1, <2>2, <3>1 DEF SnapshotIsCommitted
    <3>3. PhaseMatchesPC'
      BY <2>2 DEF PhaseMatchesPC
    <3>. QED  BY <3>2, <3>3
  <2>. QED  BY <1>7, <2>1, <2>2, Zenon DEF CommitPending, txnFrame, viewVars, GoTo
<1>8. CASE RemoveCandidate \/ RestoreCurrent
  <2>1. UNCHANGED <<ctx, pend, snap>> /\ (GiveUpRollback \/ UNCHANGED <<txnVars, pc>>)
    BY <1>8, Zenon DEF RemoveCandidate, RestoreCurrent, txnFrame, viewVars, Next1
  <2>2. GiveUpRollback => pendingReload' = pendingReload /\ rollbackPending' = FALSE /\ pc' = "refresh"
    BY Zenon DEF GiveUpRollback, GoTo
  <2>. QED  BY <1>0, <1>1, <2>1, <2>2, SameGenerations
<1>9. CASE RollbackComplete
  <2>1. ~pendingReload
    BY <1>0, <1>9 DEF RollbackComplete, PhaseMatchesPC
  <2>2. pendingReload' = pendingReload /\ rollbackPending' = FALSE /\ pc' = "refresh"
        /\ UNCHANGED <<ctx, snap>>
    BY <1>9, Zenon DEF RollbackComplete, GoTo, txnFrame, viewVars
  <2>. QED  BY <1>0, <2>1, <2>2 DEF PhaseMatchesPC, SnapshotIsCommitted
<1>10. CASE Sample \/ SkipRefresh \/ RefreshDone \/ UpdateBegin \/ Wake
  <2>1. UNCHANGED <<ctx, pend, snap, txnVars>>
    BY <1>10, Zenon DEF Sample, SkipRefresh, RefreshDone, UpdateBegin, Wake, refreshFrame,
       updateFrame, viewVars
  <2>2. pc' \notin {"remove", "add", "unadd", "restore"}
    BY <1>10 DEF Sample, SkipRefresh, RefreshDone, UpdateBegin, Wake, GoTo
  <2>. QED  BY <1>0, <1>1, <2>1, <2>2, SameGenerations
<1>11. CASE Publish
  <2>1. Quiet /\ UNCHANGED <<snap, txnVars>> /\ pc' = "refresh"
    BY <1>11 DEF Publish, refreshFrame, viewVars
  <2>. QED  BY <1>0, <1>1, <2>1, SameGenerations
<1>12. CASE UpdateEnd
  <2>1. UNCHANGED <<ctx, pend, txnVars>> /\ pc' = "sleep"
    BY <1>12, Zenon DEF UpdateEnd, updateFrame, GoTo
  <2>2. snap' = snap \/ (snap'.gen = ctx.gen /\ snap'.cfg = ctx.cfg)
    <3>1. snap' = snap \/ \E rt : snap' = [ctx EXCEPT !.rt = rt]
      BY <1>12, Zenon DEF UpdateEnd
    <3>2. ctx \in [gen : Nat, cfg : Config, rt : Seq(PeerStates)]
      BY <1>0 DEF TypeOK, Context
    <3>. QED  BY <3>1, <3>2
  <2>. QED  BY <1>0, <1>1, <2>1, <2>2, SameGenerations
<1>13. CASE \E c \in Canons : Psm(c)
  <2>. PICK c \in Canons : Psm(c)
    BY <1>13
  <2>1. Quiet
    <3>1. CASE PeerHook(c)
      <4>1. PICK rt : ctx' = [ctx EXCEPT !.rt = rt] /\ UNCHANGED pend
        BY <3>1, Zenon DEF PeerHook
      <4>2. ctx \in [gen : Nat, cfg : Config, rt : Seq(PeerStates)]
        BY <1>0 DEF TypeOK, Context
      <4>. QED  BY <4>1, <4>2
    <3>2. CASE ~PeerHook(c)
      BY <3>2, Zenon DEF Psm, PsmOpen, PsmHandshake, PsmFail, PsmDisconnect, PsmTerminate, psmFrame
    <3>. QED  BY <3>1, <3>2
  <2>2. UNCHANGED <<snap, txnVars, pc>>
    BY Zenon DEF Psm, PsmOpen, PsmHandshake, PsmFail, PsmDisconnect, PsmTerminate, PeerHook,
       psmFrame, loopVars, viewVars
  <2>. QED  BY <1>0, <1>1, <2>1, <2>2, SameGenerations
<1>14. CASE Operator \/ UNCHANGED vars
  <2>1. UNCHANGED <<ctx, pend, snap, txnVars, pc>>
    BY <1>14, Zenon DEF Operator, EditFile, Sighup, vars, loopVars, viewVars
  <2>. QED  BY <1>0, <1>1, <2>1, SameGenerations
<1>. QED
  BY <1>2, <1>3, <1>4, <1>5, <1>6, <1>7, <1>8, <1>9, <1>10, <1>11, <1>12, <1>13, <1>14, Zenon
  DEF Next, Main

\* Whatever reloads, failures, rollbacks and connection events do, the routing
\* callback works on the active configuration or on one that was active before,
\* and never on the candidate of a transaction.
THEOREM SnapshotAlwaysCommitted == Spec => []SnapshotIsCommitted
<1>1. Init => SnapshotInv
  BY InitSnapshot
<1>2. SnapshotInv /\ [Next]_vars => SnapshotInv'
  <2>. SUFFICES ASSUME SnapshotInv, [Next]_vars PROVE SnapshotInv'
    OBVIOUS
  <2>1. TypeOK'
    BY NextTyped, Zenon DEF SnapshotInv
  <2>. QED  BY <2>1, NextSnapshot, Zenon DEF SnapshotInv
<1>3. SnapshotInv => SnapshotIsCommitted
  BY DEF SnapshotInv
<1>. QED  BY <1>1, <1>2, <1>3, PTL DEF Spec
=============================================================================
