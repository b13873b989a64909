--------------------------- MODULE DraTransaction_proofs ---------------------------
(***************************************************************************)
(* Two results that put the main loop and its surroundings together, for   *)
(* every set of files the daemon could also be started with and every      *)
(* bound: each step of the daemon is a step of ConfigTransaction or none,  *)
(* and what a published snapshot calls open did open.                      *)
(***************************************************************************)
EXTENDS DraReconcile_proofs

-----------------------------------------------------------------------------
(* The abstract transaction's vocabulary in the daemon's terms.            *)

AssocOf(S) == {[id |-> p.id, ep |-> p.ep] : p \in S}

LEMMA SameVocabulary ==
  ASSUME NEW c, NEW d
  PROVE  /\ Transaction!Wanted(c) = AssocOf(Enabled(c))
         /\ Transaction!Common(c, d) = AssocOf(Unchanged(c, d))
         /\ Transaction!Acceptable(c) <=> ValidConfig(c) /\ Preflight(c)
         /\ Transaction!PeersChange(c, d) <=> PeersChange(c, d)
         /\ Transaction!NoCandidate = EmptyContext.cfg
<1>1. Transaction!PeersOf(c) = PeersOf(c) /\ Transaction!PeersOf(d) = PeersOf(d)
      /\ Transaction!RoutesOf(c) = RoutesOf(c)
  BY DEF Transaction!PeersOf, PeersOf, Transaction!RoutesOf, RoutesOf
<1>2. \A p : /\ Transaction!Kept(p, c) <=> Kept(p, c)
             /\ Transaction!Kept(p, d) <=> Kept(p, d)
  BY <1>1 DEF Transaction!Kept, Kept, Transaction!TransportEqual, TransportEqual
<1>3. Transaction!Wanted(c) = AssocOf(Enabled(c))
  BY <1>1 DEF Transaction!Wanted, Transaction!Assoc, AssocOf, Enabled
<1>4. Transaction!Common(c, d) = AssocOf(Unchanged(c, d))
  BY <1>1, <1>2 DEF Transaction!Common, Transaction!Assoc, AssocOf, Enabled, Unchanged
<1>5. Transaction!Acceptable(c) <=> ValidConfig(c) /\ Preflight(c)
  BY <1>1 DEF Transaction!Acceptable, Transaction!ValidConfig, ValidConfig,
     Transaction!Preflight, Preflight
<1>6. Transaction!PeersChange(c, d) <=> PeersChange(c, d)
  BY <1>1, <1>2 DEF Transaction!PeersChange, PeersChange
<1>7. Transaction!NoCandidate = EmptyContext.cfg
  BY DEF Transaction!NoCandidate, Transaction!EmptyContext, EmptyContext, Transaction!NoLocal, NoLocal
<1>. QED  BY <1>3, <1>4, <1>5, <1>6, <1>7

-----------------------------------------------------------------------------
(* The associations of a table.                                            *)

AssocAt(t, c) == [id |-> t[c].id, ep |-> t[c].ep]
LiveIn(t)     == {AssocAt(t, c) : c \in {k \in Canons : Serves(t, k)}}

\* An entry is found under the identity it was added with.
Filed(t) == \A c \in Canons : Occupied(t, c) => Canon[t[c].id] = c

LEMMA LiveTable == LiveAssociations = LiveIn(fd) /\ LiveAssociations' = LiveIn(fd')
BY DEF LiveAssociations, LiveIn, AssocAt, Live, Active, Serves

LEMMA LiveSame ==
  ASSUME NEW t, NEW u, SameTable(t, u)
  PROVE  LiveIn(u) = LiveIn(t)
BY DEF LiveIn, AssocAt, SameTable

LEMMA LiveHeld ==
  ASSUME NEW t, NEW S, AllHold(t, S), \A p \in S : Canon[p.id] \in Canons
  PROVE  AssocOf(S) \subseteq LiveIn(t)
BY DEF AssocOf, LiveIn, AssocAt, AllHold, Holds

LEMMA LiveIdle ==
  ASSUME NEW t, NEW A \in Config, IdleTable(t, A)
  PROVE  LiveIn(t) = AssocOf(Enabled(A))
<1>1. AssocOf(Enabled(A)) \subseteq LiveIn(t)
  BY LiveHeld, PlacesInTable DEF IdleTable
<1>2. ASSUME NEW c \in Canons, Serves(t, c) PROVE AssocAt(t, c) \in AssocOf(Enabled(A))
  <2>1. PICK p \in Enabled(A) : Canon[p.id] = c
    BY <1>2 DEF IdleTable, Only, Serves, Occupied
  <2>2. t[c].id = p.id /\ t[c].ep = p.ep
    BY <2>1 DEF IdleTable, AllHold, Holds
  <2>. QED  BY <2>2 DEF AssocAt, AssocOf
<1>. QED  BY <1>1, <1>2 DEF LiveIn

LEMMA LiveAdded ==
  ASSUME NEW t, NEW u, NEW p, Canon[p.id] \in Canons, Adds(t, u, p)
  PROVE  LiveIn(u) = LiveIn(t) \union {[id |-> p.id, ep |-> p.ep]}
<1>. DEFINE c == Canon[p.id]
<1>1. Serves(u, c) /\ AssocAt(u, c) = [id |-> p.id, ep |-> p.ep]
  BY DEF Adds, Holds, AssocAt
<1>2. ~Serves(t, c)
  BY DEF Adds, Occupied, Serves
<1>3. \A d \in Canons : d # c => AssocAt(u, d) = AssocAt(t, d) /\ (Serves(u, d) <=> Serves(t, d))
  BY DEF Adds, Elsewhere, Serves, AssocAt
<1>. QED  BY <1>1, <1>2, <1>3 DEF LiveIn

LEMMA LiveRemoved ==
  ASSUME NEW t, NEW u, NEW c \in Canons, Filed(t), Removes(t, u, c), ~Serves(u, c)
  PROVE  \/ LiveIn(u) = LiveIn(t)
         \/ AssocAt(t, c) \in LiveIn(t) /\ LiveIn(u) = LiveIn(t) \ {AssocAt(t, c)}
<1>1. \A d \in Canons : d # c => AssocAt(u, d) = AssocAt(t, d) /\ (Serves(u, d) <=> Serves(t, d))
  BY DEF Removes, Elsewhere, Serves, AssocAt
<1>2. CASE ~Serves(t, c)
  BY <1>1, <1>2 DEF LiveIn
<1>3. CASE Serves(t, c)
  <2>1. ASSUME NEW d \in Canons, d # c, Serves(t, d) PROVE AssocAt(t, d) # AssocAt(t, c)
    BY <1>3, <2>1 DEF Filed, Serves, Occupied, AssocAt
  <2>. QED  BY <1>1, <1>3, <2>1 DEF LiveIn
<1>. QED  BY <1>2, <1>3

\* Entries stay filed under their identity.
LEMMA NextFiled ==
  ASSUME SnapshotInv, Filed(fd), [Next]_vars
  PROVE  Filed(fd')
<1>1. TypeOK
  BY Zenon DEF SnapshotInv
<1>2. CASE SameTable(fd, fd')
  BY <1>2 DEF SameTable, Filed
<1>3. ASSUME NEW p, TouchesOne(p) PROVE Filed(fd')
  <2>1. CASE Adds(fd, fd', p)
    BY <2>1 DEF Adds, Elsewhere, Holds, Filed, Occupied
  <2>2. CASE Removes(fd, fd', Canon[p.id])
    BY <2>2 DEF Removes, Elsewhere, Filed, Occupied
  <2>. QED  BY <1>3, <2>1, <2>2 DEF TouchesOne
<1>. QED  BY <1>2, <1>3, TableSteps

LEMMA InitFiled ==
  ASSUME Init
  PROVE  Filed(fd)
<1>1. fd = Installed(file) /\ file \in Config
  BY FilesAreConfigs DEF Init
<1>2. ASSUME NEW c \in Canons, Occupied(fd, c) PROVE Canon[fd[c].id] = c
  <2>1. \E p \in Enabled(file) : Canon[p.id] = c
    BY <1>1, <1>2 DEF Installed, Occupied, Absent
  <2>2. fd[c] = NewEntry(CHOOSE p \in Enabled(file) : Canon[p.id] = c)
    BY <1>1, <2>1 DEF Installed
  <2>. QED  BY <2>1, <2>2 DEF NewEntry
<1>. QED  BY <1>2 DEF Filed

-----------------------------------------------------------------------------
(* The steps.                                                              *)

TransactionInv == ReconcileInv /\ Filed(fd)

\* Steps the abstract transaction does not see.
LEMMA InvisibleStep ==
  ASSUME ctx'.gen = ctx.gen, ctx'.cfg = ctx.cfg, UNCHANGED <<txnVars, rollbackFailed>>,
         InTransaction => pend'.cfg = pend.cfg,
         snap'.gen = snap.gen, snap'.cfg = snap.cfg, SameTable(fd, fd')
  PROVE  UNCHANGED Transaction!txn
<1>1. UNCHANGED LiveAssociations
  <2>1. LiveIn(fd') = LiveIn(fd)
    BY LiveSame
  <2>. QED  BY <2>1, LiveTable
<1>2. UNCHANGED <<pendingReload, rollbackPending, InTransaction>>
  BY DEF txnVars, InTransaction
<1>. QED  BY <1>1, <1>2 DEF Transaction!txn

\* A call that changes an association is a Move.
LEMMA CallMoves ==
  ASSUME TransactionInv, ReconcileInv', InTransaction,
         UNCHANGED <<ctx, pend, txnVars, viewVars, rollbackFailed>>,
         \/ \E p \in Enabled(ctx.cfg) : TouchesOne(p)
         \/ \E p \in Enabled(pend.cfg) : TouchesOne(p)
  PROVE  Transaction!Move \/ UNCHANGED Transaction!txn
<1>. DEFINE A == ctx.cfg
            B == pend.cfg
<1>1. /\ A \in Config /\ B \in Config /\ Filed(fd)
  BY ConfigsTyped DEF TransactionInv, ReconcileInv, SnapshotInv
<1>2. /\ UNCHANGED <<pendingReload, rollbackPending, InTransaction, snap>>
      /\ pendingReload \/ rollbackPending
  BY DEF txnVars, InTransaction, viewVars
<1>3. PICK p \in Enabled(A) \union Enabled(B) : TouchesOne(p)
  OBVIOUS
<1>4. Canon[p.id] \in Canons
  BY <1>1, PlacesInTable
<1>5. \/ UNCHANGED LiveAssociations
      \/ \E a \in LiveAssociations : LiveAssociations' = LiveAssociations \ {a}
      \/ \E a \in AssocOf(Enabled(A)) \union AssocOf(Enabled(B)) :
            LiveAssociations' = LiveAssociations \union {a}
  <2>1. CASE Adds(fd, fd', p)
    <3>1. LiveIn(fd') = LiveIn(fd) \union {[id |-> p.id, ep |-> p.ep]}
      BY <1>4, <2>1, LiveAdded
    <3>2. [id |-> p.id, ep |-> p.ep] \in AssocOf(Enabled(A)) \union AssocOf(Enabled(B))
      BY <1>3 DEF AssocOf
    <3>. QED  BY <3>1, <3>2, LiveTable
  <2>2. CASE Removes(fd, fd', Canon[p.id]) /\ ~Serves(fd', Canon[p.id])
    BY <1>1, <1>4, <2>2, LiveRemoved, LiveTable
  <2>. QED  BY <1>3, <2>1, <2>2 DEF TouchesOne
<1>6. rollbackFailed \/ AssocOf(Unchanged(A, B)) \subseteq LiveAssociations'
  <2>. SUFFICES ASSUME ~rollbackFailed PROVE AssocOf(Unchanged(A, B)) \subseteq LiveAssociations'
    OBVIOUS
  <2>1. AllHold(fd', Unchanged(A, B))
    BY <1>2 DEF ReconcileInv, TableInv
  <2>2. \A q \in Unchanged(A, B) : Canon[q.id] \in Canons
    BY <1>1, PhasePlaces
  <2>. QED  BY <2>1, <2>2, LiveHeld, LiveTable
<1>7. CASE UNCHANGED LiveAssociations
  BY <1>2, <1>7 DEF Transaction!txn
<1>8. CASE ~(UNCHANGED LiveAssociations)
  BY <1>2, <1>5, <1>6, <1>8, SameVocabulary DEF Transaction!Move
<1>. QED  BY <1>7, <1>8

LEMMA ReloadSimulates ==
  ASSUME TransactionInv,
         NoReload \/ DeferReload \/ RejectReload \/ StageReload \/ CommitReload
  PROVE  Transaction!TxnNext \/ UNCHANGED Transaction!txn
<1>. USE DEF InTransaction
<1>1. UNCHANGED <<fd, rollbackFailed>> /\ SameTable(fd, fd')
  BY DEF NoReload, DeferReload, RejectReload, StageReload, CommitReload, topFrame, fdVars, SameTable
<1>2. UNCHANGED LiveAssociations
  BY <1>1, LiveSame, LiveTable
<1>3. file \in Files
  BY DEF TransactionInv, ReconcileInv, SnapshotInv, TypeOK
<1>4. CASE NoReload \/ DeferReload \/ RejectReload
  <2>1. UNCHANGED <<ctx, pend, txnVars, snap>>
    BY <1>4, Zenon DEF NoReload, DeferReload, RejectReload, viewVars
  <2>. QED  BY <1>1, <2>1, InvisibleStep
<1>5. CASE StageReload
  <2>1. /\ ~pendingReload /\ ~rollbackPending /\ pendingReload' /\ ~rollbackPending'
        /\ UNCHANGED <<ctx, snap>> /\ pend'.cfg = file
        /\ ValidConfig(file) /\ Preflight(file) /\ PeersChange(ctx.cfg, file)
    BY <1>5 DEF StageReload, ReadFile, viewVars, Prepared
  <2>2. file \in {c \in Files : Transaction!Acceptable(c) /\ Transaction!PeersChange(ctx.cfg, c)}
    BY <1>3, <2>1, SameVocabulary
  <2>3. Transaction!Stage
    BY <1>1, <1>2, <2>1, <2>2 DEF Transaction!Stage
  <2>. QED  BY <2>3 DEF Transaction!TxnNext
<1>6. CASE CommitReload
  <2>1. /\ ~pendingReload /\ ~rollbackPending /\ UNCHANGED <<pend, txnVars>>
        /\ ValidConfig(file) /\ Preflight(file) /\ file # ctx.cfg /\ ~PeersChange(ctx.cfg, file)
        /\ ctx'.cfg = file /\ ctx'.gen = ctx.gen + 1
        /\ snap' = ctx' \/ snap' = snap
    BY <1>6 DEF CommitReload, ReadFile, Prepared, ConfigEqual
  <2>2. Transaction!Acceptable(file) /\ ~Transaction!PeersChange(ctx.cfg, file)
    BY <2>1, SameVocabulary
  <2>3. UNCHANGED <<pendingReload, rollbackPending>>
    BY <2>1 DEF txnVars
  <2>4. Transaction!CommitPolicy
    BY <1>1, <1>2, <1>3, <2>1, <2>2, <2>3 DEF Transaction!CommitPolicy, Transaction!Committed
  <2>. QED  BY <2>4 DEF Transaction!TxnNext
<1>. QED  BY <1>4, <1>5, <1>6

\* The forward reconciliation may turn back at every step.
LEMMA ForwardSimulates ==
  ASSUME TransactionInv, ReconcileInv', [Next]_vars,
         RemoveStale \/ RemovalsDone \/ AddPending \/ CommitPending
  PROVE  Transaction!TxnNext \/ UNCHANGED Transaction!txn
<1>. USE DEF InTransaction
<1>1. /\ SnapshotInv /\ TypeOK /\ PhaseMatchesPC /\ TableInv /\ pendingReload /\ ~rollbackPending
      /\ UNCHANGED <<viewVars, rollbackFailed>> /\ UNCHANGED <<snap>>
  BY DEF TransactionInv, ReconcileInv, SnapshotInv, PhaseMatchesPC, RemoveStale, RemovalsDone,
     AddPending, CommitPending, txnFrame, viewVars
<1>2. ASSUME StartRollback, UNCHANGED <<ctx, pend>>, fd' = fd PROVE Transaction!TurnBack
  <2>1. ~pendingReload' /\ rollbackPending'
    BY <1>2 DEF StartRollback
  <2>2. UNCHANGED LiveAssociations
    BY <1>2, LiveTable
  <2>. QED  BY <1>1, <1>2, <2>1, <2>2 DEF Transaction!TurnBack
<1>3. CASE RemovalsDone
  <2>1. UNCHANGED <<ctx, pend, txnVars, fd>>
    BY <1>3, Zenon DEF RemovalsDone
  <2>. QED  BY <1>1, <2>1, InvisibleStep DEF SameTable
<1>4. CASE RemoveStale \/ AddPending
  <2>1. UNCHANGED <<ctx, pend>>
    BY <1>4, Zenon DEF RemoveStale, AddPending
  <2>2. CASE UNCHANGED txnVars
    <3>1. CASE SameTable(fd, fd')
      BY <1>1, <2>1, <2>2, <3>1, InvisibleStep
    <3>2. CASE \/ \E p \in Enabled(ctx.cfg) : TouchesOne(p)
               \/ \E p \in Enabled(pend.cfg) : TouchesOne(p)
      BY <1>1, <2>1, <2>2, <3>2, CallMoves DEF Transaction!TxnNext
    <3>. QED  BY <1>1, <3>1, <3>2, TableSteps
  <2>3. CASE StartRollback
    <3>1. ~(UNCHANGED txnVars)
      BY <1>1, <2>3 DEF StartRollback, txnVars
    <3>2. SameTable(fd, fd')
      BY <1>1, <3>1, TableSteps
    <3>3. fd' = fd
      <4>1. CASE RemoveStale
        <5>1. FdRemove(ctx.cfg.peers[idx].id, "EINVAL")
          BY <3>1, <4>1, Zenon DEF RemoveStale
        <5>. QED  BY <5>1 DEF FdRemove
      <4>2. CASE AddPending
        <5>1. FdAdd(pend.cfg.peers[idx], FALSE)
          BY <3>1, <4>2, Zenon DEF AddPending
        <5>. QED  BY <5>1 DEF FdAdd
      <4>. QED  BY <1>4, <4>1, <4>2
    <3>. QED  BY <1>2, <2>1, <2>3, <3>3 DEF Transaction!TxnNext
  <2>. QED  BY <1>4, <2>2, <2>3, Zenon DEF RemoveStale, AddPending
<1>5. CASE CommitPending
  <2>1. CASE StartRollback /\ UNCHANGED <<ctx, pend>>
    BY <1>2, <1>5, <2>1 DEF CommitPending, Transaction!TxnNext
  <2>2. CASE ctx' = pend /\ pendingReload' = FALSE /\ UNCHANGED rollbackPending
    <3>1. /\ ctx'.cfg = pend.cfg /\ ctx'.gen = ctx.gen + 1 /\ fd' = fd
          /\ ~pendingReload' /\ ~rollbackPending'
      BY <1>1, <1>5, <2>2 DEF PhaseMatchesPC, CommitPending
    <3>2. ~rollbackFailed => IdleTable(fd', ctx'.cfg)
      BY <1>1, <3>1 DEF ReconcileInv, TableInv
    <3>3. ~rollbackFailed => LiveAssociations = AssocOf(Enabled(pend.cfg))
      <4>1. pend.cfg \in Config
        BY <1>1, ConfigsTyped
      <4>. QED  BY <3>1, <3>2, <4>1, LiveIdle, LiveTable
    <3>4. UNCHANGED LiveAssociations
      BY <3>1, LiveTable
    <3>5. Transaction!Commit
      BY <1>1, <3>1, <3>3, <3>4, SameVocabulary DEF Transaction!Commit, Transaction!Committed
    <3>. QED  BY <3>5 DEF Transaction!TxnNext
  <2>. QED  BY <1>5, <2>1, <2>2, Zenon DEF CommitPending
<1>. QED  BY <1>3, <1>4, <1>5

\* The rollback ends without a trace or is given up.
LEMMA BackwardSimulates ==
  ASSUME TransactionInv, ReconcileInv', [Next]_vars,
         RemoveCandidate \/ CandidatesGone \/ RestoreCurrent \/ RollbackComplete
  PROVE  Transaction!TxnNext \/ UNCHANGED Transaction!txn
<1>. USE DEF InTransaction
<1>1. /\ SnapshotInv /\ TypeOK /\ PhaseMatchesPC /\ TableInv /\ ~pendingReload /\ rollbackPending
      /\ UNCHANGED <<ctx, viewVars>> /\ UNCHANGED <<snap>>
  BY DEF TransactionInv, ReconcileInv, SnapshotInv, PhaseMatchesPC, RemoveCandidate, CandidatesGone,
     RestoreCurrent, RollbackComplete, txnFrame, viewVars
<1>2. CASE CandidatesGone
  <2>1. UNCHANGED <<pend, txnVars, fd, rollbackFailed>>
    BY <1>2, Zenon DEF CandidatesGone
  <2>. QED  BY <1>1, <2>1, InvisibleStep DEF SameTable
<1>3. CASE RemoveCandidate \/ RestoreCurrent
  <2>1. UNCHANGED pend
    BY <1>3, Zenon DEF RemoveCandidate, RestoreCurrent
  <2>2. CASE UNCHANGED <<txnVars, rollbackFailed>>
    <3>1. CASE SameTable(fd, fd')
      BY <1>1, <2>1, <2>2, <3>1, InvisibleStep
    <3>2. CASE \/ \E p \in Enabled(ctx.cfg) : TouchesOne(p)
               \/ \E p \in Enabled(pend.cfg) : TouchesOne(p)
      BY <1>1, <2>1, <2>2, <3>2, CallMoves DEF Transaction!TxnNext
    <3>. QED  BY <1>1, <3>1, <3>2, TableSteps
  <2>3. CASE GiveUpRollback
    <3>1. ~pendingReload' /\ ~rollbackPending' /\ rollbackFailed' = TRUE /\ ~(UNCHANGED txnVars)
      BY <1>1, <2>3 DEF GiveUpRollback, txnVars
    <3>2. fd' = fd
      <4>1. CASE RemoveCandidate
        <5>1. FdRemove(pend.cfg.peers[idx].id, "EINVAL")
          BY <3>1, <4>1, Zenon DEF RemoveCandidate
        <5>. QED  BY <5>1 DEF FdRemove
      <4>2. CASE RestoreCurrent
        <5>1. FdAdd(ctx.cfg.peers[idx], FALSE)
          BY <3>1, <4>2, Zenon DEF RestoreCurrent
        <5>. QED  BY <5>1 DEF FdAdd
      <4>. QED  BY <1>3, <4>1, <4>2
    <3>3. UNCHANGED LiveAssociations
      BY <3>2, LiveTable
    <3>4. Transaction!GiveUp
      BY <1>1, <3>1, <3>3, SameVocabulary DEF Transaction!GiveUp
    <3>. QED  BY <3>4 DEF Transaction!TxnNext
  <2>. QED  BY <1>3, <2>2, <2>3, Zenon DEF RemoveCandidate, RestoreCurrent
<1>4. CASE RollbackComplete
  <2>1. /\ ~pendingReload' /\ ~rollbackPending' /\ UNCHANGED <<fd, rollbackFailed>>
    BY <1>1, <1>4 DEF RollbackComplete
  <2>2. ~rollbackFailed => IdleTable(fd, ctx.cfg)
    BY <1>1, <2>1 DEF ReconcileInv, TableInv
  <2>3. ~rollbackFailed => LiveAssociations = AssocOf(Enabled(ctx.cfg))
    <3>1. ctx.cfg \in Config
      BY <1>1, ConfigsTyped
    <3>. QED  BY <2>2, <3>1, LiveIdle, LiveTable
  <2>4. UNCHANGED LiveAssociations
    BY <2>1, LiveTable
  <2>5. Transaction!RolledBack
    BY <1>1, <2>1, <2>3, <2>4, SameVocabulary DEF Transaction!RolledBack
  <2>. QED  BY <2>5 DEF Transaction!TxnNext
<1>. QED  BY <1>2, <1>3, <1>4

\* Everything else is invisible, but for the copy into the snapshot.
LEMMA QuietSimulates ==
  ASSUME TransactionInv, [Next]_vars,
         \/ Sample \/ Publish \/ SkipRefresh \/ RefreshDone \/ UpdateBegin \/ UpdateEnd \/ Wake
         \/ (\E c \in Canons : Psm(c)) \/ Operator \/ UNCHANGED vars
  PROVE  Transaction!TxnNext \/ UNCHANGED Transaction!txn
<1>1. SnapshotInv /\ TypeOK
  BY DEF TransactionInv, ReconcileInv, SnapshotInv
<1>2. /\ ctx \in [gen : Nat, cfg : Config, rt : Seq(PeerStates)]
      /\ \A rt : /\ [ctx EXCEPT !.rt = rt].gen = ctx.gen
                 /\ [ctx EXCEPT !.rt = rt].cfg = ctx.cfg
  BY <1>1 DEF TypeOK, Context
<1>3. CASE UpdateEnd
  <2>1. /\ UNCHANGED <<ctx, pend, txnVars, fd, rollbackFailed>>
        /\ snap' = snap \/ \E rt : snap' = [ctx EXCEPT !.rt = rt]
    BY <1>3, Zenon DEF UpdateEnd, updateFrame, fdVars
  <2>2. CASE snap' = snap
    BY <2>1, <2>2, InvisibleStep DEF SameTable
  <2>3. CASE snap'.gen = ctx.gen /\ snap'.cfg = ctx.cfg
    <3>1. UNCHANGED LiveAssociations
      BY <2>1, LiveTable
    <3>2. UNCHANGED <<pendingReload, rollbackPending, InTransaction>>
      BY <2>1 DEF txnVars, InTransaction
    <3>3. Transaction!PublishView
      BY <2>1, <2>3, <3>1, <3>2 DEF Transaction!PublishView
    <3>. QED  BY <3>3 DEF Transaction!TxnNext
  <2>. QED  BY <1>2, <2>1, <2>2, <2>3
<1>4. CASE Sample \/ Publish \/ SkipRefresh \/ RefreshDone \/ UpdateBegin \/ Wake
  <2>1. UNCHANGED <<pend, txnVars, fd, snap, rollbackFailed>>
    BY <1>4, Zenon DEF Sample, Publish, SkipRefresh, RefreshDone, UpdateBegin, Wake,
       refreshFrame, updateFrame, fdVars, viewVars
  <2>2. ctx' = ctx \/ \E rt : ctx' = [ctx EXCEPT !.rt = rt]
    <3>1. CASE Publish
      BY <3>1 DEF Publish
    <3>2. CASE ~Publish
      BY <1>4, <3>2, Zenon DEF Sample, SkipRefresh, RefreshDone, UpdateBegin, Wake, updateFrame
    <3>. QED  BY <3>1, <3>2
  <2>. QED  BY <1>2, <2>1, <2>2, InvisibleStep DEF SameTable
<1>5. CASE \E c \in Canons : Psm(c)
  <2>. PICK c \in Canons : Psm(c)
    BY <1>5
  <2>1. UNCHANGED <<pend, txnVars, snap, rollbackFailed>>
    BY Zenon DEF Psm, PsmOpen, PsmHandshake, PsmFail, PsmDisconnect, PsmTerminate, PeerHook,
       psmFrame, viewVars
  <2>2. ctx' = ctx \/ \E rt : ctx' = [ctx EXCEPT !.rt = rt]
    <3>1. CASE PeerHook(c)
      BY <3>1, Zenon DEF PeerHook
    <3>2. CASE ~PeerHook(c)
      BY <3>2, Zenon DEF Psm, PsmOpen, PsmHandshake, PsmFail, PsmDisconnect, PsmTerminate, psmFrame
    <3>. QED  BY <3>1, <3>2
  <2>. QED  BY <1>1, <1>2, <2>1, <2>2, PsmSteps, InvisibleStep
<1>6. CASE Operator \/ UNCHANGED vars
  <2>1. UNCHANGED <<ctx, pend, txnVars, fd, snap, rollbackFailed>>
    BY <1>6, Zenon DEF Operator, EditFile, Sighup, vars, fdVars, viewVars
  <2>. QED  BY <2>1, InvisibleStep DEF SameTable
<1>. QED  BY <1>3, <1>4, <1>5, <1>6

LEMMA NextSimulates ==
  ASSUME TransactionInv, ReconcileInv', [Next]_vars
  PROVE  [Transaction!TxnNext]_(Transaction!txn)
<1>1. Transaction!TxnNext \/ UNCHANGED Transaction!txn
  BY ReloadSimulates, ForwardSimulates, BackwardSimulates, QuietSimulates, Zenon DEF Next, Main
<1>. QED  BY <1>1

LEMMA InitSimulates ==
  ASSUME Init
  PROVE  Transaction!TxnInit
<1>1. /\ file \in Files /\ ValidConfig(file) /\ Preflight(file)
      /\ ctx = [gen |-> 1, cfg |-> file, rt |-> AllDown(file)] /\ snap = ctx
      /\ ~pendingReload /\ ~rollbackPending /\ ~InTransaction /\ rollbackFailed = FALSE
  BY DEF Init, Startable, InTransaction
<1>2. LiveAssociations = AssocOf(Enabled(file))
  <2>1. ReconcileInv /\ file \in Config
    BY InitReconcile, FilesAreConfigs, <1>1
  <2>2. IdleTable(fd, ctx.cfg)
    BY <1>1, <2>1 DEF ReconcileInv, TableInv
  <2>. QED  BY <1>1, <2>1, <2>2, LiveIdle, LiveTable
<1>. QED  BY <1>1, <1>2, SameVocabulary DEF Transaction!TxnInit

\* The reload protocol of the daemon, with its loops, its retries and its
\* failures, implements the abstract transaction: a candidate becomes the active
\* configuration only once the table holds exactly its associations, is undone
\* without a trace otherwise, never touches what both configurations want, and
\* is seen by the routing callback only after its commit.
THEOREM ReloadIsTransaction ==
  ASSUME StartableFiles
  PROVE  Spec => ImplementsTransaction
<1>1. Init => Filed(fd)
  BY InitFiled
<1>2. ReconcileInv /\ Filed(fd) /\ [Next]_vars => Filed(fd)'
  BY NextFiled DEF ReconcileInv, Filed
<1>3. Init => Transaction!TxnInit
  BY InitSimulates
<1>4. /\ ReconcileInv /\ Filed(fd) /\ ReconcileInv' /\ [Next]_vars
      => [Transaction!TxnNext]_(Transaction!txn)
  BY NextSimulates DEF TransactionInv
<1>. QED
  BY <1>1, <1>2, <1>3, <1>4, AlwaysReconciled, PTL
  DEF Spec, ImplementsTransaction, Transaction!TxnSpec

-----------------------------------------------------------------------------
(***************************************************************************)
(* What the routing callback reads.  A pass polls every peer, so a state   *)
(* that ends up in the snapshot was read from the table in the same pass,  *)
(* or written by a hook since; until the next pass nothing is removed from *)
(* the table.  A failed allocation skips the polling or the copy and lets  *)
(* older states through, which is why the theorem excludes it.             *)
(***************************************************************************)

\* The association of peer p that is in the table did open.
Opened(t, p) == t[Canon[p.id]].id = p.id /\ t[Canon[p.id]].up

\* States that are OPEN are those of associations that did open: of the first
\* peers of a list, and of all of them.
FirstReal(t, peers, rt, n) ==
  \A k \in DOMAIN rt : k < n /\ peers[k].enabled /\ rt[k] = "open" => Opened(t, peers[k])

AllReal(t, peers, rt) ==
  \A k \in DOMAIN rt : peers[k].enabled /\ rt[k] = "open" => Opened(t, peers[k])

\* An entry is marked once its association opens, and only an entry is.
OpenIsUp(t) ==
  \A c \in Canons : /\ t[c].st = "open" => t[c].up
                    /\ t[c].up => Occupied(t, c)

\* What is in the table for the peers of A is what A asks for, or on its way out.
OwnEndpoints(t, A) == \A p \in Enabled(A) : Occupied(t, Canon[p.id]) => t[Canon[p.id]].ep = p.ep

EndpointInv == pendingReload /\ pc # "add" /\ ~rollbackFailed => OwnEndpoints(fd, ctx.cfg)

ViewInv ==
  /\ pc = "refresh" => FirstReal(fd, ctx.cfg.peers, ctx.rt, idx)
  /\ pc = "publish" =>
       /\ idx <= Len(ctx.cfg.peers)
       /\ FirstReal(fd, ctx.cfg.peers, ctx.rt, idx)
       /\ sampled = "open" => Opened(fd, ctx.cfg.peers[idx])
  /\ pc = "update" => AllReal(fd, ctx.cfg.peers, ctx.rt)
  /\ pc = "copy" =>
       /\ DOMAIN seen = DOMAIN ctx.rt
       /\ \A k \in DOMAIN seen :
            ctx.cfg.peers[k].enabled /\ "open" \in seen[k] => Opened(fd, ctx.cfg.peers[k])
  /\ pc \in {"sleep", "top"} => snap.cfg = ctx.cfg /\ AllReal(fd, snap.cfg.peers, snap.rt)

PublishedInv ==
  /\ TransactionInv /\ OpenIsUp(fd)
  /\ EndpointInv /\ ViewInv

\* Calls into freeDiameter and state machines keep what was said of entries: an
\* open one is marked so, and an endpoint changes only with a new entry.
LEMMA RemoveKeepsEntries ==
  ASSUME TypeOK, NEW id \in Ids, NEW rc, FdRemove(id, rc)
  PROVE  /\ OpenIsUp(fd) => OpenIsUp(fd')
         /\ \A A \in Config : OwnEndpoints(fd, A) => OwnEndpoints(fd', A)
<1>1. Canon[id] \in Canons /\ fd \in [Canons -> Entry]
  BY DEF TypeOK, Canons
<1>2. \A c \in Canons : /\ Occupied(fd', c) => Occupied(fd, c) /\ fd'[c].ep = fd[c].ep
                        /\ fd'[c].st = "open" => fd[c].st = "open" /\ fd'[c].up = fd[c].up
                        /\ fd'[c].up => fd[c].up /\ (Occupied(fd, c) => Occupied(fd', c))
  <2>1. CASE fd' = fd
    BY <1>1, <2>1
  <2>2. CASE fd' = [fd EXCEPT ![Canon[id]] = Absent]
    BY <1>1, <2>2 DEF Occupied, Absent
  <2>3. CASE fd' = [fd EXCEPT ![Canon[id]].term = TRUE]
    BY <1>1, <2>3 DEF Occupied, Entry
  <2>. QED  BY <2>1, <2>2, <2>3, Zenon DEF FdRemove
<1>3. ASSUME NEW A \in Config, OwnEndpoints(fd, A) PROVE OwnEndpoints(fd', A)
  BY <1>2, <1>3, PlacesInTable DEF OwnEndpoints
<1>. QED  BY <1>2, <1>3 DEF OpenIsUp

LEMMA AddKeepsUp ==
  ASSUME TypeOK, NEW p \in Peer, NEW ok, FdAdd(p, ok), OpenIsUp(fd)
  PROVE  OpenIsUp(fd')
<1>1. Canon[p.id] \in Canons /\ fd \in [Canons -> Entry]
  BY DEF TypeOK, Canons, Peer
<1>2. fd' = fd \/ fd' = [fd EXCEPT ![Canon[p.id]] = NewEntry(p)]
  BY Zenon DEF FdAdd
<1>. QED  BY <1>1, <1>2 DEF OpenIsUp, Occupied, NewEntry

LEMMA PsmKeepsEntries ==
  ASSUME TypeOK, NEW c \in Canons, Psm(c)
  PROVE  /\ OpenIsUp(fd) => OpenIsUp(fd')
         /\ \A d \in Canons : fd[d].up => fd'[d].up
<1>1. fd \in [Canons -> Entry]
  BY DEF TypeOK
<1>2. CASE PsmOpen(c)
  BY <1>1, <1>2 DEF PsmOpen, OpenIsUp, Occupied, Entry
<1>3. CASE PsmHandshake(c) \/ PsmFail(c) \/ PeerHook(c)
  BY <1>3 DEF PsmHandshake, PsmFail, PeerHook
<1>4. CASE PsmDisconnect(c)
  BY <1>1, <1>4 DEF PsmDisconnect, OpenIsUp, Occupied, Entry
<1>5. CASE PsmTerminate(c)
  BY <1>1, <1>5 DEF PsmTerminate, OpenIsUp, Occupied, Entry
<1>. QED  BY <1>2, <1>3, <1>4, <1>5 DEF Psm

\* The main thread changes the table by these calls only.
LEMMA MainTable ==
  ASSUME TypeOK, PhaseMatchesPC, Main
  PROVE  \/ fd' = fd
         \/ \E id \in Ids, rc \in {"0", "ENOENT", "EAGAIN", "EINVAL"} : FdRemove(id, rc)
         \/ \E p \in Peer, ok \in BOOLEAN : FdAdd(p, ok)
<1>1. idx \in Nat \ {0} /\ Len(ctx.cfg.peers) \in Nat /\ Len(pend.cfg.peers) \in Nat
  BY ConfigsTyped
<1>2. ASSUME NEW p \in Peer PROVE p.id \in Ids
  BY DEF Peer
<1>3. CASE RemoveStale \/ RestoreCurrent
  <2>. DEFINE p == ctx.cfg.peers[idx]
  <2>1. p \in Peer
    BY <1>1, <1>3, IndexedPeers DEF RemoveStale, RestoreCurrent
  <2>2. \/ fd' = fd \/ (\E rc \in {"0", "ENOENT", "EAGAIN", "EINVAL"} : FdRemove(p.id, rc))
        \/ FdAdd(p, TRUE) \/ FdAdd(p, FALSE)
    BY <1>3, Zenon DEF RemoveStale, RestoreCurrent
  <2>. QED  BY <1>2, <2>1, <2>2
<1>4. CASE AddPending \/ RemoveCandidate
  <2>. DEFINE p == pend.cfg.peers[idx]
  <2>1. p \in Peer
    BY <1>1, <1>4, IndexedPeers DEF AddPending, RemoveCandidate
  <2>2. \/ fd' = fd \/ (\E rc \in {"0", "ENOENT", "EAGAIN", "EINVAL"} : FdRemove(p.id, rc))
        \/ FdAdd(p, TRUE) \/ FdAdd(p, FALSE)
    BY <1>4, Zenon DEF AddPending, RemoveCandidate
  <2>. QED  BY <1>2, <2>1, <2>2
<1>5. CASE ~(RemoveStale \/ RestoreCurrent \/ AddPending \/ RemoveCandidate)
  <2>1. fd' = fd
    BY <1>5, Zenon DEF Main, NoReload, DeferReload, RejectReload, StageReload, CommitReload,
       topFrame, RemovalsDone, CommitPending, CandidatesGone, RollbackComplete, Sample, Publish,
       SkipRefresh, RefreshDone, UpdateBegin, UpdateEnd, Wake, refreshFrame, updateFrame, fdVars
  <2>. QED  BY <2>1
<1>. QED  BY <1>3, <1>4, <1>5

LEMMA NextOpenIsUp ==
  ASSUME TypeOK, PhaseMatchesPC, OpenIsUp(fd), [Next]_vars
  PROVE  OpenIsUp(fd')
<1>1. CASE Main
  BY <1>1, MainTable, RemoveKeepsEntries, AddKeepsUp
<1>2. CASE \E c \in Canons : Psm(c)
  BY <1>2, PsmKeepsEntries
<1>3. CASE Operator \/ UNCHANGED vars
  <2>1. fd' = fd
    BY <1>3, Zenon DEF Operator, EditFile, Sighup, fdVars, vars
  <2>. QED  BY <2>1
<1>. QED  BY <1>1, <1>2, <1>3 DEF Next

LEMMA NextEndpoints ==
  ASSUME ReconcileInv, EndpointInv, [Next]_vars
  PROVE  EndpointInv'
<1>. SUFFICES ASSUME pendingReload', pc' # "add", ~rollbackFailed'
              PROVE  OwnEndpoints(fd', ctx'.cfg)
  BY DEF EndpointInv
<1>1. TypeOK /\ PhaseMatchesPC /\ TableInv /\ ctx.cfg \in Config
  BY ConfigsTyped, Zenon DEF ReconcileInv, SnapshotInv
<1>2. CASE StageReload
  <2>1. ctx' = ctx /\ fd' = fd /\ ~InTransaction /\ ~rollbackFailed
    BY <1>2, Zenon DEF StageReload, ReadFile, topFrame, fdVars
  <2>2. IdleTable(fd, ctx.cfg)
    BY <1>1, <2>1 DEF TableInv
  <2>. QED  BY <2>1, <2>2 DEF IdleTable, AllHold, Holds, OwnEndpoints
<1>3. CASE ~StageReload
  <2>1. CommitReload => ~pendingReload'
    BY Zenon DEF CommitReload, ReadFile, InTransaction, txnVars
  <2>2. ctx'.cfg = ctx.cfg /\ pendingReload
    BY <1>1, <1>3, <2>1, ContextSteps, Zenon DEF StartRollback, txnVars
  <2>3. ~(RemoveCandidate \/ CandidatesGone \/ RestoreCurrent \/ RollbackComplete)
    BY <1>1, <2>2 DEF RemoveCandidate, CandidatesGone, RestoreCurrent, RollbackComplete, PhaseMatchesPC
  <2>4. ~(AddPending \/ CommitPending)
    BY Zenon DEF AddPending, CommitPending, StartRollback, Next1
  <2>5. CASE RemoveStale
    <3>. DEFINE p == ctx.cfg.peers[idx]
    <3>1. OwnEndpoints(fd, ctx.cfg)
      BY <2>2, <2>5 DEF EndpointInv, RemoveStale
    <3>2. p.id \in Ids
      BY <1>1, <2>5, ConfigsTyped, IndexedPeers DEF RemoveStale, Peer
    <3>3. fd' = fd \/ \E rc \in {"0", "ENOENT", "EAGAIN", "EINVAL"} : FdRemove(p.id, rc)
      BY <2>5, Zenon DEF RemoveStale
    <3>. QED  BY <1>1, <2>2, <3>1, <3>2, <3>3, RemoveKeepsEntries
  <2>6. CASE ~RemoveStale
    <3>1. UNCHANGED rollbackFailed /\ pc # "add" /\ SameTable(fd, fd')
      <4>1. CASE \E c \in Canons : Psm(c)
        <5>. PICK c \in Canons : Psm(c)
          BY <4>1
        <5>1. UNCHANGED <<pc, rollbackFailed>>
          BY Zenon DEF Psm, PsmOpen, PsmHandshake, PsmFail, PsmDisconnect, PsmTerminate, PeerHook,
             psmFrame, loopVars
        <5>. QED  BY <1>1, <5>1, PsmSteps
      <4>2. CASE Operator \/ UNCHANGED vars
        <5>1. UNCHANGED <<fd, pc, rollbackFailed>>
          BY <4>2, Zenon DEF Operator, EditFile, Sighup, loopVars, fdVars, vars
        <5>. QED  BY <5>1 DEF SameTable
      <4>3. CASE \/ NoReload \/ DeferReload \/ RejectReload \/ CommitReload \/ RemovalsDone \/ Sample
                 \/ Publish \/ SkipRefresh \/ RefreshDone \/ UpdateBegin \/ UpdateEnd \/ Wake
        <5>1. UNCHANGED <<fd, rollbackFailed>>
          BY <4>3, Zenon DEF NoReload, DeferReload, RejectReload, CommitReload, ReadFile, topFrame,
             RemovalsDone, Sample, Publish, SkipRefresh, RefreshDone, UpdateBegin, UpdateEnd, Wake,
             refreshFrame, updateFrame, fdVars
        <5>2. pc # "add"
          BY <4>3 DEF NoReload, DeferReload, RejectReload, CommitReload, ReadFile, RemovalsDone,
             Sample, Publish, SkipRefresh, RefreshDone, UpdateBegin, UpdateEnd, Wake
        <5>. QED  BY <5>1, <5>2 DEF SameTable
      <4>. QED  BY <1>3, <2>3, <2>4, <2>6, <4>1, <4>2, <4>3, Zenon DEF Next, Main
    <3>2. OwnEndpoints(fd, ctx.cfg)
      BY <2>2, <3>1 DEF EndpointInv
    <3>. QED  BY <1>1, <2>2, <3>1, <3>2, PlacesInTable DEF OwnEndpoints, SameTable
  <2>. QED  BY <2>5, <2>6
<1>. QED  BY <1>2, <1>3

\* A context has a state for each of its peers, and a place in the table.
LEMMA ContextPeers ==
  ASSUME NEW x \in Context
  PROVE  /\ DOMAIN x.rt = 1..Len(x.cfg.peers) /\ Len(x.cfg.peers) \in Nat
         /\ \A k \in DOMAIN x.rt : x.cfg.peers[k] \in Peer /\ Canon[x.cfg.peers[k].id] \in Canons
<1>1. /\ x.cfg.peers \in Seq(Peer) /\ x.rt \in Seq(PeerStates)
      /\ Len(x.rt) = Len(x.cfg.peers)
  BY DEF Context, Config
<1>2. DOMAIN x.rt = 1..Len(x.cfg.peers) /\ Len(x.cfg.peers) \in Nat
  BY <1>1
<1>3. \A k \in DOMAIN x.rt : x.cfg.peers[k] \in Peer
  BY <1>1, <1>2
<1>4. \A p \in Peer : Canon[p.id] \in Canons
  BY DEF Peer, Canons
<1>. QED  BY <1>2, <1>3, <1>4

\* A state freeDiameter answers with OPEN is that of an association that did open.
LEMMA PolledIsReal ==
  ASSUME OpenIsUp(fd), NEW p \in Peer, PolledState(p) = "open"
  PROVE  Opened(fd, p)
<1>1. Canon[p.id] \in Canons
  BY DEF Peer, Canons
<1>. QED  BY <1>1 DEF PolledState, OpenIsUp, Opened

\* So is a state the hook writes.
LEMMA HookIsReal ==
  ASSUME OpenIsUp(fd), Filed(fd), NEW c \in Canons, HookState(c) = "open",
         NEW p, p.id = fd[c].id
  PROVE  Opened(fd, p)
<1>1. fd[c].st = "open"
  BY DEF HookState
<1>. QED  BY <1>1 DEF OpenIsUp, Filed, Occupied, Opened

\* The state machines do not undo that a peer did open.
LEMMA PsmView ==
  ASSUME TypeOK, OpenIsUp(fd), Filed(fd), ViewInv, NEW c \in Canons, Psm(c)
  PROVE  ViewInv'
<1>1. SameTable(fd, fd') /\ \A d \in Canons : fd[d].up => fd'[d].up
  BY PsmSteps, PsmKeepsEntries
<1>2. ASSUME NEW p, Canon[p.id] \in Canons, Opened(fd, p) PROVE Opened(fd', p)
  BY <1>1, <1>2 DEF Opened, SameTable
<1>3. UNCHANGED <<pc, idx, sampled, snap>>
  BY Zenon DEF Psm, PsmOpen, PsmHandshake, PsmFail, PsmDisconnect, PsmTerminate, PeerHook,
     psmFrame, loopVars, viewVars
<1>4. ctx \in Context /\ snap \in Context /\ idx \in Nat \ {0}
  BY Zenon DEF TypeOK
<1>5. AllReal(fd, snap.cfg.peers, snap.rt) => AllReal(fd', snap.cfg.peers, snap.rt)
  BY <1>2, <1>4, ContextPeers DEF AllReal
<1>6. CASE ~PeerHook(c)
  <2>1. UNCHANGED <<ctx, seen>>
    BY <1>6, Zenon DEF Psm, PsmOpen, PsmHandshake, PsmFail, PsmDisconnect, PsmTerminate,
       psmFrame, viewVars
  <2>2. /\ FirstReal(fd, ctx.cfg.peers, ctx.rt, idx) => FirstReal(fd', ctx.cfg.peers, ctx.rt, idx)
        /\ AllReal(fd, ctx.cfg.peers, ctx.rt) => AllReal(fd', ctx.cfg.peers, ctx.rt)
    BY <1>2, <1>4, ContextPeers DEF FirstReal, AllReal
  <2>3. \A k \in DOMAIN ctx.rt : Opened(fd, ctx.cfg.peers[k]) => Opened(fd', ctx.cfg.peers[k])
    BY <1>2, <1>4, ContextPeers
  <2>4. idx <= Len(ctx.cfg.peers) => idx \in DOMAIN ctx.rt
    BY <1>4, ContextPeers
  <2>. QED  BY <1>3, <1>5, <2>1, <2>2, <2>3, <2>4 DEF ViewInv
<1>7. CASE PeerHook(c)
  <2>. DEFINE mine == {k \in 1..Len(ctx.cfg.peers) : ctx.cfg.peers[k].id = fd[c].id}
              rt   == [k \in DOMAIN ctx.rt |-> IF k \in mine THEN HookState(c) ELSE ctx.rt[k]]
  <2>1. /\ fd' = fd /\ ctx' = [ctx EXCEPT !.rt = rt]
        /\ seen' = [k \in DOMAIN seen |->
                      IF k \in mine THEN seen[k] \union {HookState(c)} ELSE seen[k]]
    BY <1>7 DEF PeerHook
  <2>2. ctx'.cfg = ctx.cfg /\ ctx'.rt = rt
    BY <1>4, <2>1 DEF Context
  <2>3. \A k \in mine : HookState(c) = "open" => Opened(fd, ctx.cfg.peers[k])
    BY HookIsReal
  <2>4. FirstReal(fd, ctx.cfg.peers, ctx.rt, idx) => FirstReal(fd, ctx.cfg.peers, rt, idx)
    BY <2>3 DEF FirstReal
  <2>5. AllReal(fd, ctx.cfg.peers, ctx.rt) => AllReal(fd, ctx.cfg.peers, rt)
    BY <2>3 DEF AllReal
  <2>6. ASSUME NEW k \in DOMAIN seen, "open" \in seen'[k], ctx.cfg.peers[k].enabled,
               "open" \in seen[k] => Opened(fd, ctx.cfg.peers[k])
        PROVE  Opened(fd, ctx.cfg.peers[k])
    BY <2>1, <2>3, <2>6
  <2>7. DOMAIN rt = DOMAIN ctx.rt /\ DOMAIN seen' = DOMAIN seen
    BY <2>1
  <2>8. ViewInv => ViewInv'
    BY <1>3, <1>5, <2>1, <2>2, <2>4, <2>5, <2>6, <2>7 DEF ViewInv
  <2>. QED  BY <2>8
<1>. QED  BY <1>6, <1>7

\* Every loop starts at its first peer.
LEMMA LoopStarts ==
  ASSUME NoReload \/ DeferReload \/ RejectReload \/ StageReload \/ CommitReload
         \/ RemoveStale \/ RemovalsDone \/ AddPending \/ CommitPending
         \/ RemoveCandidate \/ CandidatesGone \/ RestoreCurrent \/ RollbackComplete
  PROVE  pc' \in Loops \union {"refresh"} /\ (pc' = "refresh" => idx' = 1)
<1>1. CASE NoReload \/ DeferReload \/ RejectReload \/ StageReload \/ CommitReload
  BY <1>1 DEF NoReload, DeferReload, RejectReload, StageReload, CommitReload, Proceed, GoTo, Loops
<1>2. CASE RemovalsDone \/ CandidatesGone \/ RollbackComplete \/ CommitPending
  BY <1>2 DEF RemovalsDone, CandidatesGone, RollbackComplete, CommitPending, StartRollback, GoTo, Loops
<1>3. CASE RemoveStale \/ AddPending \/ RemoveCandidate \/ RestoreCurrent
  <2>1. pc \in Loops
    BY <1>3 DEF RemoveStale, AddPending, RemoveCandidate, RestoreCurrent, Loops
  <2>2. \/ Next1
        \/ StartRollback
        \/ GiveUpRollback
    BY <1>3, Zenon DEF RemoveStale, AddPending, RemoveCandidate, RestoreCurrent
  <2>. QED  BY <2>1, <2>2 DEF Next1, StartRollback, GiveUpRollback, GoTo, Loops
<1>. QED  BY <1>1, <1>2, <1>3

\* Polling and publishing.
LEMMA MainView ==
  ASSUME TypeOK, OpenIsUp(fd), ViewInv, Main, "alloc" \notin FaultKinds
  PROVE  ViewInv'
<1>1. ctx \in Context /\ snap \in Context /\ idx \in Nat \ {0}
  BY Zenon DEF TypeOK
<1>2. /\ DOMAIN ctx.rt = 1..Len(ctx.cfg.peers) /\ Len(ctx.cfg.peers) \in Nat
      /\ \A k \in DOMAIN ctx.rt : ctx.cfg.peers[k] \in Peer
  BY <1>1, ContextPeers
<1>3. ~Fault("alloc")
  BY DEF Fault
<1>4. CASE Sample
  <2>1. /\ pc = "refresh" /\ idx <= Len(ctx.cfg.peers) /\ pc' = "publish"
        /\ sampled' = PolledState(ctx.cfg.peers[idx]) /\ UNCHANGED <<ctx, fd, idx>>
    BY <1>4 DEF Sample, refreshFrame, fdVars
  <2>2. ctx.cfg.peers[idx] \in Peer
    BY <1>1, <1>2, <2>1
  <2>3. sampled' = "open" => Opened(fd, ctx.cfg.peers[idx])
    BY <2>1, <2>2, PolledIsReal, Zenon
  <2>. QED  BY <2>1, <2>3 DEF ViewInv
<1>5. CASE Publish
  <2>1. /\ pc = "publish" /\ pc' = "refresh" /\ idx' = idx + 1 /\ fd' = fd
        /\ ctx' = [ctx EXCEPT !.rt = [ctx.rt EXCEPT ![idx] = sampled]]
    BY <1>5 DEF Publish, refreshFrame, fdVars
  <2>2. ctx'.cfg = ctx.cfg /\ ctx'.rt = [ctx.rt EXCEPT ![idx] = sampled]
    BY <1>1, <2>1 DEF Context
  <2>3. FirstReal(fd, ctx.cfg.peers, ctx.rt, idx)
        /\ (sampled = "open" => Opened(fd, ctx.cfg.peers[idx]))
    BY <2>1 DEF ViewInv
  <2>4. FirstReal(fd, ctx.cfg.peers, [ctx.rt EXCEPT ![idx] = sampled], idx + 1)
    BY <1>1, <1>2, <2>3 DEF FirstReal
  <2>. QED  BY <2>1, <2>2, <2>4 DEF ViewInv
<1>6. CASE RefreshDone
  <2>1. /\ pc = "refresh" /\ idx > Len(ctx.cfg.peers) /\ pc' = "update" /\ UNCHANGED <<ctx, fd>>
    BY <1>6 DEF RefreshDone, refreshFrame, fdVars, GoTo
  <2>2. AllReal(fd, ctx.cfg.peers, ctx.rt)
    BY <1>1, <1>2, <2>1 DEF ViewInv, FirstReal, AllReal
  <2>. QED  BY <2>1, <2>2 DEF ViewInv
<1>7. CASE UpdateBegin
  BY <1>7 DEF UpdateBegin, updateFrame, fdVars, GoTo, ViewInv, AllReal
<1>8. CASE UpdateEnd
  <2>1. pc = "copy" /\ pc' = "sleep" /\ UNCHANGED <<ctx, fd>>
    BY <1>8 DEF UpdateEnd, updateFrame, fdVars, GoTo
  <2>2. PICK rt \in [DOMAIN ctx.rt -> PeerStates] :
            (\A k \in DOMAIN ctx.rt : rt[k] \in seen[k]) /\ snap' = [ctx EXCEPT !.rt = rt]
    BY <1>3, <1>8, Zenon DEF UpdateEnd
  <2>3. snap'.cfg = ctx.cfg /\ snap'.rt = rt /\ DOMAIN rt = DOMAIN ctx.rt
    BY <1>1, <2>2 DEF Context
  <2>4. AllReal(fd, ctx.cfg.peers, rt)
    BY <2>1, <2>2, <2>3 DEF ViewInv, AllReal
  <2>. QED  BY <2>1, <2>3, <2>4 DEF ViewInv
<1>9. CASE Wake
  BY <1>9 DEF Wake, updateFrame, viewVars, fdVars, GoTo, ViewInv
<1>10. CASE ~(Sample \/ Publish \/ RefreshDone \/ UpdateBegin \/ UpdateEnd \/ Wake)
  <2>1. ~SkipRefresh
    BY <1>3 DEF SkipRefresh
  <2>2. pc' \in Loops \union {"refresh"} /\ (pc' = "refresh" => idx' = 1)
    BY <1>10, <2>1, LoopStarts, Zenon DEF Main
  <2>3. TypeOK'
    BY NextTyped DEF Next
  <2>4. DOMAIN ctx'.rt \subseteq Nat \ {0}
    <3>1. ctx' \in Context
      BY <2>3, Zenon DEF TypeOK
    <3>. QED  BY <3>1, ContextPeers
  <2>. QED  BY <2>2, <2>4 DEF ViewInv, FirstReal, Loops
<1>. QED  BY <1>4, <1>5, <1>6, <1>7, <1>8, <1>9, <1>10

LEMMA NextPublished ==
  ASSUME StartableFiles, "alloc" \notin FaultKinds, PublishedInv, [Next]_vars
  PROVE  PublishedInv'
<1>1. ReconcileInv /\ Filed(fd) /\ OpenIsUp(fd) /\ EndpointInv /\ ViewInv
  BY DEF PublishedInv, TransactionInv
<1>2. TypeOK /\ PhaseMatchesPC /\ SnapshotInv
  BY <1>1, Zenon DEF ReconcileInv, SnapshotInv
<1>3. ReconcileInv' /\ EndpointInv'
  BY <1>1, NextReconcile, NextEndpoints
<1>4. Filed(fd') /\ OpenIsUp(fd')
  BY <1>1, <1>2, NextFiled, NextOpenIsUp
<1>5. ViewInv'
  <2>1. CASE Main
    BY <1>1, <1>2, <2>1, MainView
  <2>2. CASE \E c \in Canons : Psm(c)
    BY <1>1, <1>2, <2>2, PsmView
  <2>3. CASE Operator \/ UNCHANGED vars
    <3>1. UNCHANGED <<fd, ctx, pc, idx, sampled, seen, snap>>
      BY <2>3, Zenon DEF Operator, EditFile, Sighup, loopVars, viewVars, fdVars, vars
    <3>. QED  BY <1>1, <3>1 DEF ViewInv
  <2>. QED  BY <2>1, <2>2, <2>3 DEF Next
<1>. QED  BY <1>3, <1>4, <1>5 DEF PublishedInv, TransactionInv

LEMMA InitPublished ==
  ASSUME Init
  PROVE  PublishedInv
<1>1. ReconcileInv /\ Filed(fd)
  BY InitReconcile, InitFiled
<1>2. OpenIsUp(fd)
  BY DEF Init, Installed, OpenIsUp, Occupied, NewEntry, Absent
<1>3. EndpointInv
  BY DEF Init, EndpointInv
<1>4. ViewInv
  BY DEF Init, ViewInv, AllReal, AllDown
<1>. QED  BY <1>1, <1>2, <1>3, <1>4 DEF PublishedInv, TransactionInv

\* Between passes the routing callback takes no peer to be OPEN whose association
\* did not open since it was added, under the identity and, unless a rollback is
\* undoing a replacement, with the endpoint of the snapshot's own configuration:
\* whatever the hooks write between polling, copying and the next pass, and
\* whatever states a candidate carried over when it was staged.  Passes that fail
\* to allocate keep older states and are excluded.
THEOREM SnapshotAlwaysReal ==
  ASSUME StartableFiles, "alloc" \notin FaultKinds
  PROVE  Spec => []SnapshotOpenIsReal
<1>1. Init => PublishedInv
  BY InitPublished
<1>2. PublishedInv /\ [Next]_vars => PublishedInv'
  BY NextPublished
<1>3. PublishedInv => SnapshotOpenIsReal
  <2>. SUFFICES ASSUME PublishedInv, pc \in {"sleep", "top"}, NEW k \in DOMAIN snap.rt,
                       snap.cfg.peers[k].enabled, snap.rt[k] = "open"
                PROVE  LET p == snap.cfg.peers[k]
                           e == fd[Canon[p.id]]
                       IN  e.id = p.id /\ e.up /\ (rollbackPending \/ rollbackFailed \/ e.ep = p.ep)
    BY DEF SnapshotOpenIsReal
  <2>. DEFINE p == snap.cfg.peers[k]
              e == fd[Canon[p.id]]
  <2>1. TypeOK /\ TableInv /\ EndpointInv /\ Filed(fd)
    BY Zenon DEF PublishedInv, TransactionInv, ReconcileInv, SnapshotInv
  <2>2. snap.cfg = ctx.cfg /\ Opened(fd, p)
    BY DEF PublishedInv, ViewInv, AllReal
  <2>3. snap \in Context
    BY <2>1, Zenon DEF TypeOK
  <2>4. p \in Enabled(ctx.cfg) /\ Canon[p.id] \in Canons
    BY <2>2, <2>3, ContextPeers DEF Enabled, PeersOf, Context, Config
  <2>5. Occupied(fd, Canon[p.id])
    BY <2>2, <2>4 DEF PublishedInv, OpenIsUp, Opened
  <2>6. ASSUME ~rollbackPending, ~rollbackFailed PROVE e.ep = p.ep
    <3>1. CASE pendingReload
      <4>1. OwnEndpoints(fd, ctx.cfg)
        BY <2>1, <2>6, <3>1 DEF EndpointInv
      <4>. QED  BY <2>4, <2>5, <4>1 DEF OwnEndpoints
    <3>2. CASE ~pendingReload
      <4>1. IdleTable(fd, ctx.cfg)
        BY <2>1, <2>6, <3>2 DEF TableInv, InTransaction
      <4>. QED  BY <2>4, <4>1 DEF IdleTable, AllHold, Holds
    <3>. QED  BY <3>1, <3>2
  <2>. QED  BY <2>2, <2>6 DEF Opened
<1>. QED  BY <1>1, <1>2, <1>3, PTL DEF Spec
=============================================================================
