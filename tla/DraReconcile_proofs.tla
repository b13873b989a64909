--------------------------- MODULE DraReconcile_proofs ---------------------------
(***************************************************************************)
(* Proofs about the reconciliation of freeDiameter's peer table, for every *)
(* set of configuration files the daemon could also be started with, and   *)
(* every bound on failures, events and edits.                              *)
(*                                                                         *)
(* The table is described by operators of a table value t, so that the     *)
(* lemmas about one call into freeDiameter speak of the table before it    *)
(* and the table after it as two values.                                   *)
(***************************************************************************)
EXTENDS DraDaemon_proofs

\* What the proofs assume of the files: one that a reload accepts is one the
\* daemon could be started with, that is, no two of its enabled peers have
\* identities that differ in case only.  Run case_twins shows what happens with
\* other files.
StartableFiles == \A f \in Files : ValidConfig(f) /\ Preflight(f) => Startable(f)

-----------------------------------------------------------------------------
(* What a table holds.                                                     *)

Occupied(t, c) == t[c].st # "absent"
Serves(t, c)   == t[c].st \in {"connecting", "open"} /\ ~t[c].term

\* The association of peer p is in place.
Holds(t, p) == /\ Serves(t, Canon[p.id])
               /\ t[Canon[p.id]].id = p.id /\ t[Canon[p.id]].ep = p.ep

AllHold(t, S) == \A p \in S : Holds(t, p)
NoneOf(t, S)  == \A p \in S : ~Occupied(t, Canon[p.id])
Only(t, S)    == \A c \in Canons : Occupied(t, c) => \E p \in S : Canon[p.id] = c

\* The associations of c that `other' leaves alone, and those a loop over the
\* peers of c has changed when it comes to position i.
Unchanged(c, other) == {p \in Enabled(c) : Kept(p, other)}
Visited(c, other, i) ==
  {p \in Enabled(c) : ~Kept(p, other) /\ \E j \in 1..Len(c.peers) : j < i /\ c.peers[j] = p}

\* The table in each phase of the move from configuration A to B.
IdleTable(t, A) == AllHold(t, Enabled(A)) /\ Only(t, Enabled(A))

RemovalTable(t, A, B, i, more) ==
  /\ Only(t, Enabled(A))
  /\ ~more => NoneOf(t, Visited(A, B, i))

AdditionTable(t, A, B, i) ==
  /\ Only(t, Unchanged(A, B) \union Visited(B, A, i))
  /\ AllHold(t, Visited(B, A, i))

UndoTable(t, A, B, i, more, spoilt) ==
  /\ Only(t, Enabled(A) \union Enabled(B))
  /\ ~spoilt => Only(t, Enabled(B))
  /\ ~more => NoneOf(t, Visited(B, A, i))

RestoreTable(t, A, B, i, spoilt) ==
  /\ Only(t, Enabled(A))
  /\ AllHold(t, Visited(A, B, i))
  /\ ~spoilt => Only(t, Unchanged(A, B) \union Visited(A, B, i))

\* A loop that the main thread is not in starts at its first peer.
Position(l) == IF pc = l THEN idx ELSE 1

TableInv ==
  ~rollbackFailed =>
    /\ ~InTransaction => IdleTable(fd, ctx.cfg)
    /\ InTransaction => AllHold(fd, Unchanged(ctx.cfg, pend.cfg))
    /\ pendingReload /\ pc # "add" =>
         RemovalTable(fd, ctx.cfg, pend.cfg, Position("remove"), again)
    /\ pc = "add" => AdditionTable(fd, ctx.cfg, pend.cfg, idx)
    /\ rollbackPending /\ pc # "restore" =>
         UndoTable(fd, ctx.cfg, pend.cfg, Position("unadd"), again, terminateFailed)
    /\ pc = "restore" => RestoreTable(fd, ctx.cfg, pend.cfg, idx, terminateFailed)
    /\ rollbackPending /\ ~terminateFailed => faults >= 1

ConfigsStartable ==
  /\ ctx.cfg \in Files /\ Startable(ctx.cfg)
  /\ InTransaction => pend.cfg \in Files /\ Startable(pend.cfg)

ReconcileInv ==
  /\ SnapshotInv /\ ConfigsStartable
  /\ TableInv /\ RollbackSurvivesOneFault

-----------------------------------------------------------------------------
(* Two configurations.                                                     *)

\* Kept is symmetric: the other configuration has the counterpart of a peer
\* whose association it leaves alone.
LEMMA Counterpart ==
  ASSUME NEW A, NEW B, NEW p \in Unchanged(A, B)
  PROVE  \E q \in Unchanged(B, A) : q.id = p.id /\ q.ep = p.ep /\ q.name = p.name
<1>1. PICK q \in PeersOf(B) : q.name = p.name /\ TransportEqual(p, q)
  BY DEF Unchanged, Kept
<1>2. p \in PeersOf(A) /\ p.enabled
  BY DEF Unchanged, Enabled
<1>3. q.id = p.id /\ q.ep = p.ep /\ q.enabled = p.enabled
  BY <1>1 DEF TransportEqual
<1>4. Kept(q, A)
  BY <1>1, <1>2, <1>3 DEF Kept, TransportEqual
<1>. QED  BY <1>1, <1>2, <1>3, <1>4 DEF Unchanged, Enabled

\* An association that changes is at another place of the table than all those
\* that do not, whichever configuration is asked.
LEMMA StaleApart ==
  ASSUME NEW A, NEW B, Startable(A), NEW p \in Enabled(A), ~Kept(p, B)
  PROVE  /\ \A q \in Unchanged(A, B) : Canon[q.id] # Canon[p.id]
         /\ \A q \in Unchanged(B, A) : Canon[q.id] # Canon[p.id]
<1>1. ASSUME NEW q \in Unchanged(A, B) PROVE Canon[q.id] # Canon[p.id]
  BY DEF Unchanged, Startable
<1>2. ASSUME NEW q \in Unchanged(B, A) PROVE Canon[q.id] # Canon[p.id]
  <2>1. PICK r \in Unchanged(A, B) : r.id = q.id
    BY Counterpart
  <2>. QED  BY <1>1, <2>1
<1>. QED  BY <1>1, <1>2

\* A loop starts with nothing visited, visits one peer more in each iteration,
\* and in the end has visited every association that changes.
LEMMA VisitedAtStart ==
  ASSUME NEW A, NEW B
  PROVE  Visited(A, B, 1) = {}
BY DEF Visited

LEMMA VisitedNext ==
  ASSUME NEW A \in Config, NEW B, Startable(A), NEW i \in 1..Len(A.peers)
  PROVE  LET p == A.peers[i] IN
         /\ ~p.enabled \/ Kept(p, B) => Visited(A, B, i + 1) = Visited(A, B, i)
         /\ p.enabled /\ ~Kept(p, B) =>
              /\ p \in Enabled(A)
              /\ Visited(A, B, i + 1) = Visited(A, B, i) \union {p}
              /\ \A q \in Visited(A, B, i) : Canon[q.id] # Canon[p.id]
<1>. DEFINE p == A.peers[i]
            Before(q, n) == \E j \in 1..Len(A.peers) : j < n /\ A.peers[j] = q
<1>1. Len(A.peers) \in Nat /\ DOMAIN A.peers = 1..Len(A.peers)
  BY DEF Config
<1>2. p \in PeersOf(A)
  BY <1>1 DEF PeersOf
<1>3. \A q : Before(q, i + 1) <=> Before(q, i) \/ q = p
  BY <1>1
<1>4. ~Before(p, i)
  BY <1>1 DEF Startable, ValidConfig
<1>5. ASSUME p.enabled, ~Kept(p, B), NEW q \in Visited(A, B, i)
      PROVE  Canon[q.id] # Canon[p.id]
  <2>1. q # p /\ q \in Enabled(A) /\ p \in Enabled(A)
    BY <1>2, <1>4, <1>5 DEF Visited, Enabled
  <2>. QED  BY <2>1 DEF Startable
<1>. QED  BY <1>2, <1>3, <1>5 DEF Visited, Enabled

LEMMA VisitedAtEnd ==
  ASSUME NEW A \in Config, NEW B, NEW i \in Nat, i > Len(A.peers)
  PROVE  Enabled(A) = Unchanged(A, B) \union Visited(A, B, i)
<1>1. Len(A.peers) \in Nat /\ DOMAIN A.peers = 1..Len(A.peers)
  BY DEF Config
<1>2. ASSUME NEW p \in Enabled(A), ~Kept(p, B) PROVE p \in Visited(A, B, i)
  <2>1. PICK j \in 1..Len(A.peers) : A.peers[j] = p
    BY <1>1 DEF Enabled, PeersOf
  <2>. QED  BY <1>1, <1>2, <2>1 DEF Visited
<1>. QED  BY <1>2 DEF Unchanged, Visited

\* A configuration with the same associations: what a commit of routing and
\* policy alone relies on.
LEMMA SameAssociations ==
  ASSUME NEW A, NEW F, ValidConfig(F), ~PeersChange(A, F)
  PROVE  Enabled(A) = Unchanged(A, F) /\ Enabled(F) = Unchanged(F, A)
<1>1. \A p \in PeersOf(A) : Kept(p, F)
  BY DEF PeersChange
<1>2. ASSUME NEW q \in Enabled(F) PROVE Kept(q, A)
  <2>1. q \in PeersOf(F)
    BY DEF Enabled
  <2>2. PICK p \in PeersOf(A) : q.name = p.name
    BY <2>1 DEF PeersChange
  <2>3. PICK r \in PeersOf(F) : r.name = p.name /\ TransportEqual(p, r)
    BY <1>1, <2>2 DEF Kept
  <2>4. r = q
    BY <2>1, <2>2, <2>3 DEF ValidConfig, PeersOf
  <2>. QED  BY <2>2, <2>3, <2>4 DEF Kept, TransportEqual
<1>. QED  BY <1>1, <1>2 DEF Unchanged, Enabled

-----------------------------------------------------------------------------
(* What one call into freeDiameter does to the table.                      *)

Elsewhere(t, u, c) == \A d \in Canons : d # c => u[d] = t[d]

\* A removal reaches one place and puts no other association there.
Removes(t, u, c) ==
  Elsewhere(t, u, c) /\ (Occupied(u, c) => Occupied(t, c) /\ u[c].id = t[c].id)

\* An addition finds its place empty.
Adds(t, u, p) ==
  /\ Elsewhere(t, u, Canon[p.id])
  /\ ~Occupied(t, Canon[p.id]) /\ Holds(u, p)

\* The peers of a configuration have a place in the table.
LEMMA PlacesInTable ==
  ASSUME NEW A \in Config, NEW p \in Enabled(A)
  PROVE  p \in Peer /\ p.id \in Ids /\ Canon[p.id] \in Canons
<1>1. p \in Peer
  BY PeersArePeers DEF Enabled
<1>. QED  BY <1>1 DEF Peer, Canons

LEMMA RemovalKeeps ==
  ASSUME NEW t, NEW u, NEW c \in Canons, Removes(t, u, c), NEW S,
         \A p \in S : Canon[p.id] \in Canons
  PROVE  /\ Only(t, S) => Only(u, S)
         /\ NoneOf(t, S) => NoneOf(u, S)
         /\ AllHold(t, S) /\ (\A p \in S : Canon[p.id] # c) => AllHold(u, S)
<1>1. Only(t, S) => Only(u, S)
  BY DEF Only, Removes, Elsewhere, Occupied
<1>2. NoneOf(t, S) => NoneOf(u, S)
  BY DEF NoneOf, Removes, Elsewhere, Occupied
<1>3. AllHold(t, S) /\ (\A p \in S : Canon[p.id] # c) => AllHold(u, S)
  BY DEF AllHold, Holds, Serves, Removes, Elsewhere
<1>. QED  BY <1>1, <1>2, <1>3

LEMMA AdditionKeeps ==
  ASSUME NEW t, NEW u, NEW p, Canon[p.id] \in Canons, Adds(t, u, p), NEW S,
         \A q \in S : Canon[q.id] \in Canons
  PROVE  /\ Only(t, S) => Only(u, S \union {p})
         /\ AllHold(t, S) => AllHold(u, S \union {p})
<1>1. Only(t, S) => Only(u, S \union {p})
  BY DEF Only, Adds, Elsewhere, Occupied
<1>2. ASSUME AllHold(t, S), NEW q \in S PROVE Holds(u, q)
  <2>1. Holds(t, q)
    BY <1>2 DEF AllHold
  <2>2. Occupied(t, Canon[q.id])
    BY <2>1 DEF Holds, Serves, Occupied
  <2>3. u[Canon[q.id]] = t[Canon[q.id]]
    BY <2>2 DEF Adds, Elsewhere
  <2>. QED  BY <2>1, <2>3 DEF Holds, Serves
<1>. QED  BY <1>1, <1>2 DEF AllHold, Adds

\* The steps of the peer state machines change no association.
SameTable(t, u) ==
  \A c \in Canons : /\ Occupied(u, c) <=> Occupied(t, c)
                    /\ Serves(u, c) <=> Serves(t, c)
                    /\ u[c].id = t[c].id /\ u[c].ep = t[c].ep

LEMMA SameTableKeeps ==
  ASSUME NEW t, NEW u, SameTable(t, u), NEW S, \A p \in S : Canon[p.id] \in Canons
  PROVE  /\ Only(u, S) <=> Only(t, S)
         /\ NoneOf(u, S) <=> NoneOf(t, S)
         /\ AllHold(u, S) <=> AllHold(t, S)
<1>1. Only(u, S) <=> Only(t, S)
  BY DEF Only, SameTable
<1>2. NoneOf(u, S) <=> NoneOf(t, S)
  BY DEF NoneOf, SameTable
<1>3. AllHold(u, S) <=> AllHold(t, S)
  BY DEF AllHold, Holds, SameTable
<1>. QED  BY <1>1, <1>2, <1>3

-----------------------------------------------------------------------------
(* The phases of a reload.                                                 *)

\* Places of the peers the phase predicates speak of.
LEMMA PhasePlaces ==
  ASSUME NEW A \in Config, NEW B \in Config, NEW i
  PROVE  \A S \in {Enabled(A), Enabled(B), Enabled(A) \union Enabled(B), Unchanged(A, B),
                   Visited(A, B, i), Visited(B, A, i), Unchanged(A, B) \union Visited(B, A, i),
                   Unchanged(A, B) \union Visited(A, B, i)} :
           \A p \in S : Canon[p.id] \in Canons
<1>1. \A p \in Enabled(A) \union Enabled(B) : Canon[p.id] \in Canons
  BY PlacesInTable
<1>2. Unchanged(A, B) \subseteq Enabled(A) /\ Visited(A, B, i) \subseteq Enabled(A)
      /\ Visited(B, A, i) \subseteq Enabled(B)
  BY DEF Unchanged, Visited
<1>. QED  BY <1>1, <1>2

\* Staging a candidate changes nothing yet.
LEMMA StagedTable ==
  ASSUME NEW t, NEW A, NEW B, NEW more, IdleTable(t, A)
  PROVE  AllHold(t, Unchanged(A, B)) /\ RemovalTable(t, A, B, 1, more)
BY VisitedAtStart DEF IdleTable, RemovalTable, AllHold, NoneOf, Unchanged

\* One iteration of the removal loop, on a peer that stays or one that goes.
LEMMA RemovalStep ==
  ASSUME NEW t, NEW u, NEW A \in Config, NEW B \in Config, Startable(A),
         NEW i \in 1..Len(A.peers), NEW more, NEW more2,
         RemovalTable(t, A, B, i, more), AllHold(t, Unchanged(A, B)),
         \/ /\ ~A.peers[i].enabled \/ Kept(A.peers[i], B)
            /\ u = t /\ more2 = more
         \/ /\ A.peers[i].enabled /\ ~Kept(A.peers[i], B)
            /\ Removes(t, u, Canon[A.peers[i].id])
            /\ more2 \/ (more2 = more /\ ~Occupied(u, Canon[A.peers[i].id]))
  PROVE  RemovalTable(u, A, B, i + 1, more2) /\ AllHold(u, Unchanged(A, B))
<1>. DEFINE p == A.peers[i]
<1>1. CASE (~p.enabled \/ Kept(p, B)) /\ u = t /\ more2 = more
  BY <1>1, VisitedNext DEF RemovalTable
<1>2. CASE /\ p.enabled /\ ~Kept(p, B)
           /\ Removes(t, u, Canon[p.id])
           /\ more2 \/ (more2 = more /\ ~Occupied(u, Canon[p.id]))
  <2>1. p \in Enabled(A) /\ Visited(A, B, i + 1) = Visited(A, B, i) \union {p}
    BY <1>2, VisitedNext
  <2>2. Canon[p.id] \in Canons
    BY <2>1, PlacesInTable
  <2>3. \A q \in Unchanged(A, B) : Canon[q.id] # Canon[p.id]
    BY <1>2, <2>1, StaleApart
  <2>4. AllHold(u, Unchanged(A, B)) /\ Only(u, Enabled(A))
    BY <1>2, <2>2, <2>3, RemovalKeeps, PhasePlaces DEF RemovalTable
  <2>5. ~more2 => NoneOf(u, Visited(A, B, i + 1))
    <3>. SUFFICES ASSUME ~more2 PROVE NoneOf(u, Visited(A, B, i + 1))
      OBVIOUS
    <3>1. NoneOf(u, Visited(A, B, i))
      BY <1>2, <2>2, RemovalKeeps, PhasePlaces DEF RemovalTable
    <3>. QED  BY <1>2, <2>1, <3>1 DEF NoneOf
  <2>. QED  BY <2>4, <2>5 DEF RemovalTable
<1>. QED  BY <1>1, <1>2

\* Once every stale association is gone, the candidate's are added.
LEMMA RemovedTable ==
  ASSUME NEW t, NEW A \in Config, NEW B, NEW i \in Nat, i > Len(A.peers),
         RemovalTable(t, A, B, i, FALSE)
  PROVE  AdditionTable(t, A, B, 1)
<1>1. Visited(B, A, 1) = {}
  BY VisitedAtStart
<1>2. Only(t, Unchanged(A, B))
  <2>1. Only(t, Enabled(A)) /\ NoneOf(t, Visited(A, B, i))
    BY DEF RemovalTable
  <2>2. Enabled(A) = Unchanged(A, B) \union Visited(A, B, i)
    BY VisitedAtEnd
  <2>. QED  BY <2>1, <2>2 DEF Only, NoneOf
<1>. QED  BY <1>1, <1>2 DEF AdditionTable, Only, AllHold

\* The place of the next peer to add is empty, so freeDiameter can refuse it
\* only for a reason of its own.
LEMMA RoomToAdd ==
  ASSUME NEW t, NEW A, NEW B \in Config, Startable(B), NEW i \in 1..Len(B.peers),
         Only(t, Unchanged(A, B) \union Visited(B, A, i)),
         B.peers[i].enabled, ~Kept(B.peers[i], A)
  PROVE  ~Occupied(t, Canon[B.peers[i].id])
<1>. DEFINE p == B.peers[i]
<1>1. p \in Enabled(B) /\ \A q \in Visited(B, A, i) : Canon[q.id] # Canon[p.id]
  BY VisitedNext
<1>2. \A q \in Unchanged(A, B) : Canon[q.id] # Canon[p.id]
  BY <1>1, StaleApart
<1>3. Canon[p.id] \in Canons
  BY <1>1, PlacesInTable
<1>. QED  BY <1>1, <1>2, <1>3 DEF Only

LEMMA AdditionStep ==
  ASSUME NEW t, NEW u, NEW A \in Config, NEW B \in Config, Startable(B),
         NEW i \in 1..Len(B.peers),
         AdditionTable(t, A, B, i), AllHold(t, Unchanged(A, B)),
         \/ /\ ~B.peers[i].enabled \/ Kept(B.peers[i], A)
            /\ u = t
         \/ /\ B.peers[i].enabled /\ ~Kept(B.peers[i], A)
            /\ Adds(t, u, B.peers[i])
  PROVE  AdditionTable(u, A, B, i + 1) /\ AllHold(u, Unchanged(A, B))
<1>. DEFINE p == B.peers[i]
<1>1. CASE (~p.enabled \/ Kept(p, A)) /\ u = t
  BY <1>1, VisitedNext DEF AdditionTable
<1>2. CASE p.enabled /\ ~Kept(p, A) /\ Adds(t, u, p)
  <2>1. p \in Enabled(B) /\ Visited(B, A, i + 1) = Visited(B, A, i) \union {p}
    BY <1>2, VisitedNext
  <2>2. Canon[p.id] \in Canons
    BY <2>1, PlacesInTable
  <2>3. Only(u, (Unchanged(A, B) \union Visited(B, A, i)) \union {p})
    BY <1>2, <2>2, AdditionKeeps, PhasePlaces DEF AdditionTable
  <2>4. AllHold(u, Visited(B, A, i) \union {p}) /\ AllHold(u, Unchanged(A, B) \union {p})
    BY <1>2, <2>2, AdditionKeeps, PhasePlaces DEF AdditionTable
  <2>. QED  BY <2>1, <2>3, <2>4 DEF AdditionTable, Only, AllHold
<1>. QED  BY <1>1, <1>2

\* With every peer added the table is the one the candidate asks for.
LEMMA CommittedTable ==
  ASSUME NEW t, NEW A, NEW B \in Config, NEW i \in Nat, i > Len(B.peers),
         AdditionTable(t, A, B, i), AllHold(t, Unchanged(A, B))
  PROVE  IdleTable(t, B)
<1>1. Enabled(B) = Unchanged(B, A) \union Visited(B, A, i)
  BY VisitedAtEnd
<1>2. ASSUME NEW q \in Unchanged(B, A) PROVE Holds(t, q)
  <2>1. PICK p \in Unchanged(A, B) : p.id = q.id /\ p.ep = q.ep
    BY Counterpart
  <2>2. Holds(t, p)
    BY DEF AllHold
  <2>. QED  BY <2>1, <2>2 DEF Holds
<1>3. ASSUME NEW c \in Canons, Occupied(t, c) PROVE \E q \in Enabled(B) : Canon[q.id] = c
  <2>1. PICK p \in Unchanged(A, B) \union Visited(B, A, i) : Canon[p.id] = c
    BY <1>3 DEF AdditionTable, Only
  <2>2. CASE p \in Visited(B, A, i)
    BY <1>1, <2>1, <2>2
  <2>3. CASE p \in Unchanged(A, B)
    BY <1>1, <2>1, <2>3, Counterpart
  <2>. QED  BY <2>1, <2>2, <2>3
<1>. QED  BY <1>1, <1>2, <1>3 DEF IdleTable, AllHold, Only, AdditionTable

\* A rollback may start in the middle of either loop.
LEMMA TurnedBackWhileAdding ==
  ASSUME NEW t, NEW A, NEW B, NEW i, NEW more, NEW spoilt, AdditionTable(t, A, B, i)
  PROVE  UndoTable(t, A, B, 1, more, spoilt)
<1>1. Visited(B, A, 1) = {}
  BY VisitedAtStart
<1>2. ASSUME NEW c \in Canons, Occupied(t, c) PROVE \E q \in Enabled(B) : Canon[q.id] = c
  <2>1. PICK p \in Unchanged(A, B) \union Visited(B, A, i) : Canon[p.id] = c
    BY <1>2 DEF AdditionTable, Only
  <2>2. CASE p \in Visited(B, A, i)
    BY <2>1, <2>2 DEF Visited
  <2>3. CASE p \in Unchanged(A, B)
    BY <2>1, <2>3, Counterpart DEF Unchanged
  <2>. QED  BY <2>1, <2>2, <2>3
<1>. QED  BY <1>1, <1>2 DEF UndoTable, Only, NoneOf

LEMMA TurnedBackWhileRemoving ==
  ASSUME NEW t, NEW A, NEW B, NEW i, NEW more, NEW more2, RemovalTable(t, A, B, i, more)
  PROVE  UndoTable(t, A, B, 1, more2, TRUE)
BY VisitedAtStart DEF RemovalTable, UndoTable, Only, NoneOf

\* One iteration of the loop that removes what the candidate added.
LEMMA UndoStep ==
  ASSUME NEW t, NEW u, NEW A \in Config, NEW B \in Config, Startable(B),
         NEW i \in 1..Len(B.peers), NEW more, NEW more2, NEW spoilt,
         UndoTable(t, A, B, i, more, spoilt), AllHold(t, Unchanged(A, B)),
         \/ /\ ~B.peers[i].enabled \/ Kept(B.peers[i], A)
            /\ u = t /\ more2 = more
         \/ /\ B.peers[i].enabled /\ ~Kept(B.peers[i], A)
            /\ Removes(t, u, Canon[B.peers[i].id])
            /\ more2 \/ (more2 = more /\ ~Occupied(u, Canon[B.peers[i].id]))
  PROVE  UndoTable(u, A, B, i + 1, more2, spoilt) /\ AllHold(u, Unchanged(A, B))
<1>. DEFINE p == B.peers[i]
<1>1. CASE (~p.enabled \/ Kept(p, A)) /\ u = t /\ more2 = more
  BY <1>1, VisitedNext DEF UndoTable
<1>2. CASE /\ p.enabled /\ ~Kept(p, A)
           /\ Removes(t, u, Canon[p.id])
           /\ more2 \/ (more2 = more /\ ~Occupied(u, Canon[p.id]))
  <2>1. p \in Enabled(B) /\ Visited(B, A, i + 1) = Visited(B, A, i) \union {p}
    BY <1>2, VisitedNext
  <2>2. Canon[p.id] \in Canons
    BY <2>1, PlacesInTable
  <2>3. \A q \in Unchanged(A, B) : Canon[q.id] # Canon[p.id]
    BY <1>2, <2>1, StaleApart
  <2>4. AllHold(u, Unchanged(A, B)) /\ Only(u, Enabled(A) \union Enabled(B))
    BY <1>2, <2>2, <2>3, RemovalKeeps, PhasePlaces DEF UndoTable
  <2>5. ~spoilt => Only(u, Enabled(B))
    BY <1>2, <2>2, RemovalKeeps, PhasePlaces DEF UndoTable
  <2>6. ~more2 => NoneOf(u, Visited(B, A, i + 1))
    <3>. SUFFICES ASSUME ~more2 PROVE NoneOf(u, Visited(B, A, i + 1))
      OBVIOUS
    <3>1. NoneOf(u, Visited(B, A, i))
      BY <1>2, <2>2, RemovalKeeps, PhasePlaces DEF UndoTable
    <3>. QED  BY <1>2, <2>1, <3>1 DEF NoneOf
  <2>. QED  BY <2>4, <2>5, <2>6 DEF UndoTable
<1>. QED  BY <1>1, <1>2

\* Once they are gone, what the forward reconciliation removed is restored.
LEMMA UndoneTable ==
  ASSUME NEW t, NEW A, NEW B \in Config, NEW i \in Nat, i > Len(B.peers), NEW spoilt,
         UndoTable(t, A, B, i, FALSE, spoilt)
  PROVE  RestoreTable(t, A, B, 1, spoilt)
<1>1. Visited(A, B, 1) = {}
  BY VisitedAtStart
<1>2. Enabled(B) = Unchanged(B, A) \union Visited(B, A, i)
  BY VisitedAtEnd
<1>3. NoneOf(t, Visited(B, A, i))
  BY DEF UndoTable
<1>4. ASSUME NEW c \in Canons, Occupied(t, c), NEW q \in Enabled(B), Canon[q.id] = c
      PROVE  \E p \in Unchanged(A, B) : Canon[p.id] = c
  <2>1. q \in Unchanged(B, A)
    BY <1>2, <1>3, <1>4 DEF NoneOf
  <2>. QED  BY <1>4, <2>1, Counterpart
<1>5. Only(t, Enabled(A))
  <2>1. Unchanged(A, B) \subseteq Enabled(A)
    BY DEF Unchanged
  <2>. QED  BY <1>4, <2>1 DEF UndoTable, Only
<1>6. ~spoilt => Only(t, Unchanged(A, B))
  BY <1>4 DEF UndoTable, Only
<1>. QED  BY <1>1, <1>5, <1>6 DEF RestoreTable, AllHold

LEMMA RestoreStep ==
  ASSUME NEW t, NEW u, NEW A \in Config, NEW B \in Config, Startable(A),
         NEW i \in 1..Len(A.peers), NEW spoilt,
         RestoreTable(t, A, B, i, spoilt), AllHold(t, Unchanged(A, B)),
         \/ /\ ~A.peers[i].enabled \/ Kept(A.peers[i], B)
            /\ u = t
         \/ /\ A.peers[i].enabled /\ ~Kept(A.peers[i], B)
            /\ Adds(t, u, A.peers[i])
  PROVE  RestoreTable(u, A, B, i + 1, spoilt) /\ AllHold(u, Unchanged(A, B))
<1>. DEFINE p == A.peers[i]
<1>1. CASE (~p.enabled \/ Kept(p, B)) /\ u = t
  BY <1>1, VisitedNext DEF RestoreTable
<1>2. CASE p.enabled /\ ~Kept(p, B) /\ Adds(t, u, p)
  <2>1. p \in Enabled(A) /\ Visited(A, B, i + 1) = Visited(A, B, i) \union {p}
    BY <1>2, VisitedNext
  <2>2. Canon[p.id] \in Canons
    BY <2>1, PlacesInTable
  <2>3. Only(u, Enabled(A))
    <3>1. Only(u, Enabled(A) \union {p})
      BY <1>2, <2>2, AdditionKeeps, PhasePlaces DEF RestoreTable
    <3>. QED  BY <2>1, <3>1 DEF Only
  <2>4. ~spoilt => Only(u, Unchanged(A, B) \union Visited(A, B, i + 1))
    <3>1. ~spoilt => Only(u, (Unchanged(A, B) \union Visited(A, B, i)) \union {p})
      BY <1>2, <2>2, AdditionKeeps, PhasePlaces DEF RestoreTable
    <3>. QED  BY <2>1, <3>1 DEF Only
  <2>5. AllHold(u, Visited(A, B, i) \union {p}) /\ AllHold(u, Unchanged(A, B) \union {p})
    BY <1>2, <2>2, AdditionKeeps, PhasePlaces DEF RestoreTable
  <2>. QED  BY <2>1, <2>3, <2>4, <2>5 DEF RestoreTable, AllHold
<1>. QED  BY <1>1, <1>2

\* With every peer restored the table is the one it was before the reload.
LEMMA RestoredTable ==
  ASSUME NEW t, NEW A \in Config, NEW B, NEW i \in Nat, i > Len(A.peers), NEW spoilt,
         RestoreTable(t, A, B, i, spoilt), AllHold(t, Unchanged(A, B))
  PROVE  IdleTable(t, A)
BY VisitedAtEnd DEF RestoreTable, IdleTable, AllHold

\* A reload of routing and policy finds the table it needs.
LEMMA PolicyTable ==
  ASSUME NEW t, NEW A, NEW F, ValidConfig(F), ~PeersChange(A, F), IdleTable(t, A)
  PROVE  IdleTable(t, F)
<1>1. Enabled(A) = Unchanged(A, F) /\ Enabled(F) = Unchanged(F, A)
  BY SameAssociations
<1>2. ASSUME NEW q \in Enabled(F) PROVE Holds(t, q)
  <2>1. PICK p \in Enabled(A) : p.id = q.id /\ p.ep = q.ep
    BY <1>1, Counterpart
  <2>. QED  BY <2>1 DEF IdleTable, AllHold, Holds
<1>3. ASSUME NEW c \in Canons, Occupied(t, c) PROVE \E q \in Enabled(F) : Canon[q.id] = c
  <2>1. PICK p \in Enabled(A) : Canon[p.id] = c
    BY <1>3 DEF IdleTable, Only
  <2>. QED  BY <1>1, <2>1, Counterpart
<1>. QED  BY <1>2, <1>3 DEF IdleTable, AllHold, Only

-----------------------------------------------------------------------------
(* The configurations of a transaction.                                    *)

\* What the steps do to the two contexts: only a reload brings a configuration
\* from the file, and only a commit makes the candidate the active one.
LEMMA ContextSteps ==
  ASSUME TypeOK, PhaseMatchesPC, [Next]_vars
  PROVE  \/ ctx'.cfg = ctx.cfg /\ UNCHANGED <<pend, txnVars>>
         \/ ctx'.cfg = ctx.cfg /\ UNCHANGED pend /\ StartRollback /\ pendingReload
         \/ ctx'.cfg = ctx.cfg /\ rollbackPending' = FALSE /\ ~pendingReload /\ ~pendingReload'
         \/ StageReload
         \/ CommitReload
         \/ ctx' = pend /\ pendingReload /\ ~pendingReload' /\ UNCHANGED rollbackPending
<1>1. CASE NoReload \/ DeferReload \/ RejectReload
  BY <1>1, Zenon DEF NoReload, DeferReload, RejectReload, viewVars
<1>2. CASE RemoveStale \/ AddPending
  <2>1. pendingReload
    BY <1>2 DEF PhaseMatchesPC, RemoveStale, AddPending
  <2>. QED  BY <1>2, <2>1, Zenon DEF RemoveStale, AddPending
<1>3. CASE RemovalsDone \/ CandidatesGone
  BY <1>3, Zenon DEF RemovalsDone, CandidatesGone
<1>4. CASE CommitPending
  <2>1. pendingReload
    BY <1>4 DEF PhaseMatchesPC, CommitPending
  <2>2. \/ ctx' = pend /\ pendingReload' = FALSE /\ UNCHANGED rollbackPending
        \/ StartRollback /\ UNCHANGED <<ctx, pend>>
    BY <1>4, Zenon DEF CommitPending
  <2>. QED  BY <2>1, <2>2, Zenon
<1>5. CASE RemoveCandidate \/ RestoreCurrent
  <2>1. ~pendingReload
    BY <1>5 DEF PhaseMatchesPC, RemoveCandidate, RestoreCurrent
  <2>2. UNCHANGED <<ctx, pend>> /\ (UNCHANGED txnVars \/ GiveUpRollback)
    BY <1>5, Zenon DEF RemoveCandidate, RestoreCurrent
  <2>. QED  BY <2>1, <2>2, Zenon DEF GiveUpRollback
<1>6. CASE RollbackComplete
  <2>1. ~pendingReload
    BY <1>6 DEF PhaseMatchesPC, RollbackComplete
  <2>. QED  BY <1>6, <2>1, Zenon DEF RollbackComplete
<1>7. CASE Sample \/ SkipRefresh \/ RefreshDone \/ UpdateBegin \/ UpdateEnd \/ Wake
  BY <1>7, Zenon DEF Sample, SkipRefresh, RefreshDone, UpdateBegin, UpdateEnd, Wake,
     refreshFrame, updateFrame
<1>8. CASE Publish
  BY <1>8 DEF Publish, refreshFrame, TypeOK, Context
<1>9. CASE \E c \in Canons : Psm(c)
  <2>. PICK c \in Canons : Psm(c)
    BY <1>9
  <2>1. CASE PeerHook(c)
    <3>1. PICK rt : ctx' = [ctx EXCEPT !.rt = rt] /\ UNCHANGED <<pend, txnVars>>
      BY <2>1, Zenon DEF PeerHook
    <3>. QED  BY <3>1 DEF TypeOK, Context
  <2>2. CASE ~PeerHook(c)
    BY <2>2, Zenon DEF Psm, PsmOpen, PsmHandshake, PsmFail, PsmDisconnect, PsmTerminate, psmFrame
  <2>. QED  BY <2>1, <2>2
<1>10. CASE Operator \/ UNCHANGED vars
  BY <1>10, Zenon DEF Operator, EditFile, Sighup, vars
<1>. QED
  BY <1>1, <1>2, <1>3, <1>4, <1>5, <1>6, <1>7, <1>8, <1>9, <1>10, Zenon DEF Next, Main

LEMMA NextStartable ==
  ASSUME StartableFiles, TypeOK, PhaseMatchesPC, ConfigsStartable, [Next]_vars
  PROVE  ConfigsStartable'
<1>. USE DEF ConfigsStartable, InTransaction
<1>1. file \in Files
  BY DEF TypeOK
<1>2. CASE ctx'.cfg = ctx.cfg /\ UNCHANGED <<pend, txnVars>>
  BY <1>2, Zenon DEF txnVars
<1>3. CASE ctx'.cfg = ctx.cfg /\ UNCHANGED pend /\ StartRollback /\ pendingReload
  BY <1>3, Zenon
<1>4. CASE ctx'.cfg = ctx.cfg /\ rollbackPending' = FALSE /\ ~pendingReload /\ ~pendingReload'
  BY <1>4, Zenon
<1>5. CASE StageReload
  <2>1. pend'.cfg = file /\ ctx' = ctx
    BY <1>5 DEF StageReload, Prepared
  <2>2. Startable(file)
    BY <1>1, <1>5 DEF StageReload, StartableFiles
  <2>. QED  BY <1>1, <2>1, <2>2, Zenon
<1>6. CASE CommitReload
  <2>1. ctx'.cfg = file /\ ~InTransaction /\ UNCHANGED txnVars
    BY <1>6 DEF CommitReload, ReadFile, Prepared
  <2>2. Startable(file)
    BY <1>1, <1>6 DEF CommitReload, StartableFiles
  <2>. QED  BY <1>1, <2>1, <2>2, Zenon DEF txnVars
<1>7. CASE ctx' = pend /\ pendingReload /\ ~pendingReload' /\ UNCHANGED rollbackPending
  <2>1. ~rollbackPending'
    BY <1>7, Zenon DEF PhaseMatchesPC
  <2>. QED  BY <1>7, <2>1, Zenon
<1>. QED  BY <1>2, <1>3, <1>4, <1>5, <1>6, <1>7, ContextSteps, Zenon

-----------------------------------------------------------------------------
(* The calls, as steps of the table.                                       *)

LEMMA RemoveCall ==
  ASSUME TypeOK, NEW id \in Ids, NEW rc, FdRemove(id, rc)
  PROVE  /\ Removes(fd, fd', Canon[id])
         /\ rc \in {"0", "ENOENT"} => ~Occupied(fd', Canon[id])
         /\ rc = "EINVAL" => fd' = fd /\ terminateFailed' = TRUE /\ faults' \in {faults, faults + 1}
         /\ rc # "EINVAL" => ~Serves(fd', Canon[id]) /\ UNCHANGED faultVars
<1>1. Canon[id] \in Canons /\ fd \in [Canons -> Entry]
  BY DEF TypeOK, Canons
<1>2. CASE fd' = fd /\ rc = "ENOENT" /\ ~Present(Canon[id]) /\ UNCHANGED faultVars
  BY <1>1, <1>2 DEF Removes, Elsewhere, Occupied, Serves, Present
<1>3. CASE fd' = [fd EXCEPT ![Canon[id]] = Absent] /\ rc = "0" /\ UNCHANGED faultVars
  BY <1>1, <1>3 DEF Removes, Elsewhere, Occupied, Serves, Absent
<1>4. CASE fd' = [fd EXCEPT ![Canon[id]].term = TRUE] /\ rc = "EAGAIN" /\ UNCHANGED faultVars
  BY <1>1, <1>4 DEF Removes, Elsewhere, Occupied, Serves, Entry
<1>5. CASE fd' = fd /\ rc = "EINVAL" /\ Fault("terminate") /\ terminateFailed' = TRUE
  BY <1>1, <1>5 DEF Removes, Elsewhere, Fault
<1>. QED  BY <1>2, <1>3, <1>4, <1>5, Zenon DEF FdRemove

LEMMA AddCall ==
  ASSUME TypeOK, NEW p \in Peer
  PROVE  /\ FdAdd(p, TRUE) => Adds(fd, fd', p) /\ UNCHANGED faultVars
         /\ FdAdd(p, FALSE) =>
              /\ fd' = fd /\ terminateFailed' = terminateFailed
              /\ faults' = faults + 1 \/ (faults' = faults /\ Occupied(fd, Canon[p.id]))
<1>1. Canon[p.id] \in Canons /\ fd \in [Canons -> Entry]
  BY DEF TypeOK, Canons, Peer
<1>2. FdAdd(p, TRUE) => Adds(fd, fd', p) /\ UNCHANGED faultVars
  BY <1>1 DEF FdAdd, Adds, Elsewhere, Holds, Serves, Occupied, Present, NewEntry
<1>3. ASSUME FdAdd(p, FALSE)
      PROVE  /\ fd' = fd /\ terminateFailed' = terminateFailed
             /\ faults' = faults + 1 \/ (faults' = faults /\ Occupied(fd, Canon[p.id]))
  BY <1>3 DEF FdAdd, Fault, Present, Occupied, faultVars
<1>. QED  BY <1>2, <1>3

\* A step of a PSM leaves every association as it is.
LEMMA PsmSteps ==
  ASSUME TypeOK, NEW c \in Canons, Psm(c)
  PROVE  SameTable(fd, fd')
<1>1. fd \in [Canons -> Entry]
  BY DEF TypeOK
<1>2. CASE PsmOpen(c)
  BY <1>1, <1>2 DEF PsmOpen, SameTable, Occupied, Serves, Entry
<1>3. CASE PsmHandshake(c) \/ PsmFail(c) \/ PeerHook(c)
  BY <1>3 DEF PsmHandshake, PsmFail, PeerHook, SameTable
<1>4. CASE PsmDisconnect(c)
  BY <1>1, <1>4 DEF PsmDisconnect, SameTable, Occupied, Serves, Entry
<1>5. CASE PsmTerminate(c)
  BY <1>1, <1>5 DEF PsmTerminate, PsmIdle, Active, SameTable, Occupied, Serves, Entry
<1>. QED  BY <1>2, <1>3, <1>4, <1>5 DEF Psm

-----------------------------------------------------------------------------
(* The table through a step.                                               *)

Loops == {"remove", "add", "unadd", "restore"}

\* The active configuration and the candidate are configurations.
LEMMA ConfigsTyped ==
  ASSUME TypeOK
  PROVE  /\ ctx.cfg \in Config /\ pend.cfg \in Config /\ fd \in [Canons -> Entry]
         /\ idx \in Nat \ {0} /\ faults \in Nat
         /\ Len(ctx.cfg.peers) \in Nat /\ Len(pend.cfg.peers) \in Nat
<1>1. ctx \in Context /\ pend \in Context /\ fd \in [Canons -> Entry] /\ idx \in Nat \ {0}
      /\ faults \in 0..MaxFaults
  BY Zenon DEF TypeOK
<1>. QED  BY <1>1, BoundsAreNat DEF Context, Config

\* The phase predicates see no more of a table than its associations.
LEMMA PhasesSameTable ==
  ASSUME NEW t, NEW u, SameTable(t, u), NEW A \in Config, NEW B \in Config,
         NEW i, NEW more, NEW spoilt
  PROVE  /\ IdleTable(t, A) => IdleTable(u, A)
         /\ AllHold(t, Unchanged(A, B)) => AllHold(u, Unchanged(A, B))
         /\ RemovalTable(t, A, B, i, more) => RemovalTable(u, A, B, i, more)
         /\ AdditionTable(t, A, B, i) => AdditionTable(u, A, B, i)
         /\ UndoTable(t, A, B, i, more, spoilt) => UndoTable(u, A, B, i, more, spoilt)
         /\ RestoreTable(t, A, B, i, spoilt) => RestoreTable(u, A, B, i, spoilt)
<1>. DEFINE Keeps(S) == /\ Only(u, S) <=> Only(t, S)
                        /\ NoneOf(u, S) <=> NoneOf(t, S)
                        /\ AllHold(u, S) <=> AllHold(t, S)
<1>1. /\ Keeps(Enabled(A)) /\ Keeps(Enabled(B)) /\ Keeps(Enabled(A) \union Enabled(B))
      /\ Keeps(Unchanged(A, B)) /\ Keeps(Visited(A, B, i)) /\ Keeps(Visited(B, A, i))
      /\ Keeps(Unchanged(A, B) \union Visited(B, A, i))
      /\ Keeps(Unchanged(A, B) \union Visited(A, B, i))
  BY SameTableKeeps, PhasePlaces
<1>. QED
  BY <1>1, Zenon DEF IdleTable, RemovalTable, AdditionTable, UndoTable, RestoreTable

\* Before a loop has started it does not matter what earlier passes met.
LEMMA FreshLoop ==
  ASSUME NEW t, NEW A, NEW B, NEW more, NEW more2, NEW spoilt
  PROVE  /\ RemovalTable(t, A, B, 1, more) => RemovalTable(t, A, B, 1, more2)
         /\ UndoTable(t, A, B, 1, more, spoilt) => UndoTable(t, A, B, 1, more2, spoilt)
BY VisitedAtStart DEF RemovalTable, UndoTable, NoneOf

\* Steps that stay at their place of the loop and change no association.
LEMMA TableStays ==
  ASSUME TypeOK, TableInv, SameTable(fd, fd'), ctx'.cfg = ctx.cfg,
         UNCHANGED <<pend, txnVars, pc, idx, again, faults, terminateFailed, rollbackFailed>>
  PROVE  TableInv'
<1>1. ctx.cfg \in Config /\ pend.cfg \in Config
  BY ConfigsTyped
<1>2. UNCHANGED <<pendingReload, rollbackPending, InTransaction>> /\ pend'.cfg = pend.cfg
      /\ UNCHANGED <<Position("remove"), Position("unadd")>>
  BY Zenon DEF txnVars, InTransaction, Position
<1>. QED  BY <1>1, <1>2, PhasesSameTable DEF TableInv

\* Steps outside the loops that leave the table alone; they may start a loop.
LEMMA TableBetweenLoops ==
  ASSUME TypeOK, TableInv, fd' = fd, ctx'.cfg = ctx.cfg,
         UNCHANGED <<pend, txnVars, terminateFailed, rollbackFailed>>,
         faults' \in {faults, faults + 1},
         pc \notin Loops, pc' \notin {"add", "restore"}, pc' \in {"remove", "unadd"} => idx' = 1
  PROVE  TableInv'
<1>1. faults \in Nat
  BY ConfigsTyped
<1>2. UNCHANGED <<pendingReload, rollbackPending, InTransaction>> /\ pend'.cfg = pend.cfg
  BY Zenon DEF txnVars, InTransaction
<1>3. /\ Position("remove") = 1 /\ Position("unadd") = 1
      /\ Position("remove")' = 1 /\ Position("unadd")' = 1
      /\ pc \notin {"add", "restore"}
  BY DEF Position, Loops
<1>. QED  BY <1>1, <1>2, <1>3, FreshLoop DEF TableInv

\* Forward reconciliation.
LEMMA ForwardTable ==
  ASSUME ReconcileInv, RemoveStale \/ RemovalsDone \/ AddPending \/ CommitPending
  PROVE  TableInv'
<1>. SUFFICES ASSUME ~rollbackFailed' PROVE TableInv'
  BY DEF TableInv
<1>. DEFINE A == ctx.cfg
            B == pend.cfg
<1>1. /\ TypeOK /\ PhaseMatchesPC /\ TableInv /\ pendingReload /\ ~rollbackPending
      /\ ~rollbackFailed /\ UNCHANGED rollbackFailed
  <2>1. TypeOK /\ PhaseMatchesPC /\ TableInv
    BY Zenon DEF ReconcileInv, SnapshotInv
  <2>2. pc \in {"remove", "add"} /\ UNCHANGED rollbackFailed
    BY DEF RemoveStale, RemovalsDone, AddPending, CommitPending
  <2>. QED  BY <2>1, <2>2 DEF PhaseMatchesPC
<1>2. /\ A \in Config /\ B \in Config /\ Startable(A) /\ Startable(B)
      /\ idx \in Nat \ {0} /\ faults \in Nat
      /\ Len(A.peers) \in Nat /\ Len(B.peers) \in Nat
  BY <1>1, ConfigsTyped DEF ReconcileInv, ConfigsStartable, InTransaction
<1>3. AllHold(fd, Unchanged(A, B))
  BY <1>1 DEF TableInv, InTransaction
<1>4. ASSUME StartRollback, UNCHANGED <<ctx, pend>>, fd' = fd,
             UndoTable(fd, A, B, 1, again', terminateFailed'),
             terminateFailed' \/ faults' >= 1
      PROVE  TableInv'
  <2>1. ~pendingReload' /\ rollbackPending' /\ pc' = "unadd" /\ idx' = 1
    BY <1>4 DEF StartRollback, GoTo
  <2>2. ctx'.cfg = A /\ pend'.cfg = B /\ Position("unadd")' = 1
    BY <1>4, <2>1 DEF Position
  <2>. QED  BY <1>3, <1>4, <2>1, <2>2 DEF TableInv, InTransaction
<1>5. CASE RemoveStale
  <2>. DEFINE p == A.peers[idx]
  <2>1. pc = "remove" /\ idx \in 1..Len(A.peers) /\ UNCHANGED <<ctx, pend>>
    BY <1>2, <1>5 DEF RemoveStale
  <2>2. RemovalTable(fd, A, B, idx, again)
    BY <1>1, <2>1 DEF TableInv, Position
  <2>3. p \in Peer /\ p.id \in Ids
    BY <1>1, <2>1, IndexedPeers DEF Peer
  <2>4. ASSUME Next1, UNCHANGED txnVars, RemovalTable(fd', A, B, idx + 1, again'),
               AllHold(fd', Unchanged(A, B))
        PROVE  TableInv'
    <3>1. pc' = "remove" /\ Position("remove")' = idx + 1 /\ pendingReload' /\ ~rollbackPending'
      BY <1>1, <2>1, <2>4 DEF Next1, Position, txnVars
    <3>2. ctx'.cfg = A /\ pend'.cfg = B
      BY <2>1
    <3>. QED  BY <2>4, <3>1, <3>2 DEF TableInv, InTransaction
  <2>5. CASE (~p.enabled \/ Kept(p, B)) /\ Next1 /\ UNCHANGED <<again, fd, txnVars>>
    <3>1. RemovalTable(fd', A, B, idx + 1, again') /\ AllHold(fd', Unchanged(A, B))
      BY <1>2, <1>3, <2>1, <2>2, <2>5, RemovalStep
    <3>. QED  BY <2>4, <2>5, <3>1
  <2>6. ASSUME NEW rc \in {"0", "ENOENT", "EAGAIN"}, p.enabled, ~Kept(p, B), FdRemove(p.id, rc),
               Next1, UNCHANGED txnVars,
               again' = TRUE \/ (rc # "EAGAIN" /\ again' = again)
        PROVE  TableInv'
    <3>1. /\ Removes(fd, fd', Canon[p.id])
          /\ again' \/ (again' = again /\ ~Occupied(fd', Canon[p.id]))
      BY <1>1, <2>3, <2>6, RemoveCall
    <3>2. RemovalTable(fd', A, B, idx + 1, again') /\ AllHold(fd', Unchanged(A, B))
      BY <1>2, <1>3, <2>1, <2>2, <2>6, <3>1, RemovalStep
    <3>. QED  BY <2>4, <2>6, <3>2
  <2>7. CASE FdRemove(p.id, "EINVAL") /\ StartRollback
    <3>1. fd' = fd /\ terminateFailed'
      BY <1>1, <2>3, <2>7, RemoveCall
    <3>2. UndoTable(fd, A, B, 1, again', TRUE)
      BY <2>2, TurnedBackWhileRemoving
    <3>3. UndoTable(fd, A, B, 1, again', terminateFailed')
      BY <3>1, <3>2 DEF UndoTable
    <3>. QED  BY <1>4, <2>1, <2>7, <3>1, <3>3
  <2>8. \/ (~p.enabled \/ Kept(p, B)) /\ Next1 /\ UNCHANGED <<again, fd, txnVars>>
        \/ /\ p.enabled /\ ~Kept(p, B)
           /\ \/ /\ \E rc \in {"0", "ENOENT"} : FdRemove(p.id, rc)
                 /\ Next1 /\ UNCHANGED <<again, txnVars>>
              \/ FdRemove(p.id, "EAGAIN") /\ Next1 /\ again' = TRUE /\ UNCHANGED txnVars
              \/ FdRemove(p.id, "EINVAL") /\ StartRollback
    BY <1>5, Zenon DEF RemoveStale
  <2>. QED  BY <2>5, <2>6, <2>7, <2>8
<1>6. CASE RemovalsDone
  <2>1. /\ pc = "remove" /\ idx > Len(A.peers) /\ UNCHANGED <<ctx, pend, txnVars, fd>>
        /\ pc' = (IF again THEN "refresh" ELSE "add") /\ idx' = 1
    BY <1>6 DEF RemovalsDone, GoTo
  <2>2. RemovalTable(fd, A, B, idx, again) /\ again \in BOOLEAN
    BY <1>1, <2>1 DEF TableInv, Position, TypeOK
  <2>3. ctx'.cfg = A /\ pend'.cfg = B /\ pendingReload' /\ ~rollbackPending' /\ fd' = fd
    BY <1>1, <2>1 DEF txnVars
  <2>4. CASE again
    <3>1. RemovalTable(fd, A, B, 1, again')
      BY <2>2, VisitedAtStart DEF RemovalTable, NoneOf
    <3>2. pc' = "refresh" /\ Position("remove")' = 1
      BY <2>1, <2>4 DEF Position
    <3>. QED  BY <1>3, <2>3, <3>1, <3>2 DEF TableInv, InTransaction
  <2>5. CASE ~again
    <3>1. AdditionTable(fd, A, B, 1)
      BY <1>2, <2>1, <2>2, <2>5, RemovedTable
    <3>2. pc' = "add" /\ idx' = 1
      BY <2>1, <2>5
    <3>. QED  BY <1>3, <2>3, <3>1, <3>2 DEF TableInv, InTransaction
  <2>. QED  BY <2>4, <2>5
<1>7. CASE AddPending
  <2>. DEFINE p == B.peers[idx]
  <2>1. pc = "add" /\ idx \in 1..Len(B.peers) /\ UNCHANGED <<ctx, pend>>
    BY <1>2, <1>7 DEF AddPending
  <2>2. AdditionTable(fd, A, B, idx)
    BY <1>1, <2>1 DEF TableInv
  <2>3. p \in Peer
    BY <1>1, <2>1, IndexedPeers
  <2>4. ASSUME Next1, UNCHANGED txnVars, AdditionTable(fd', A, B, idx + 1),
               AllHold(fd', Unchanged(A, B))
        PROVE  TableInv'
    <3>1. pc' = "add" /\ idx' = idx + 1 /\ pendingReload' /\ ~rollbackPending'
      BY <1>1, <2>1, <2>4 DEF Next1, txnVars
    <3>2. ctx'.cfg = A /\ pend'.cfg = B
      BY <2>1
    <3>. QED  BY <2>4, <3>1, <3>2 DEF TableInv, InTransaction
  <2>5. CASE (~p.enabled \/ Kept(p, A)) /\ Next1 /\ UNCHANGED <<fd, txnVars>>
    <3>1. AdditionTable(fd', A, B, idx + 1) /\ AllHold(fd', Unchanged(A, B))
      BY <1>2, <1>3, <2>1, <2>2, <2>5, AdditionStep
    <3>. QED  BY <2>4, <2>5, <3>1
  <2>6. CASE p.enabled /\ ~Kept(p, A) /\ FdAdd(p, TRUE) /\ Next1 /\ UNCHANGED txnVars
    <3>1. Adds(fd, fd', p)
      BY <1>1, <2>3, <2>6, AddCall
    <3>2. AdditionTable(fd', A, B, idx + 1) /\ AllHold(fd', Unchanged(A, B))
      BY <1>2, <1>3, <2>1, <2>2, <2>6, <3>1, AdditionStep
    <3>. QED  BY <2>4, <2>6, <3>2
  <2>7. CASE p.enabled /\ ~Kept(p, A) /\ FdAdd(p, FALSE) /\ StartRollback
    <3>1. ~Occupied(fd, Canon[p.id])
      BY <1>2, <2>1, <2>2, <2>7, RoomToAdd DEF AdditionTable
    <3>2. fd' = fd /\ faults' = faults + 1
      BY <1>1, <2>3, <2>7, <3>1, AddCall
    <3>3. UndoTable(fd, A, B, 1, again', terminateFailed')
      BY <2>2, TurnedBackWhileAdding
    <3>. QED  BY <1>2, <1>4, <2>1, <2>7, <3>2, <3>3
  <2>. QED  BY <1>7, <2>5, <2>6, <2>7, Zenon DEF AddPending
<1>8. CASE CommitPending
  <2>1. pc = "add" /\ idx > Len(B.peers) /\ fd' = fd
    BY <1>8 DEF CommitPending
  <2>2. AdditionTable(fd, A, B, idx)
    BY <1>1, <2>1 DEF TableInv
  <2>3. CASE ctx' = pend /\ pendingReload' = FALSE /\ GoTo("refresh") /\ UNCHANGED rollbackPending
    <3>1. IdleTable(fd, B)
      BY <1>2, <1>3, <2>1, <2>2, CommittedTable
    <3>2. pc' = "refresh" /\ ~InTransaction' /\ ~rollbackPending' /\ ~pendingReload' /\ ctx'.cfg = B
      BY <1>1, <2>3 DEF GoTo, InTransaction
    <3>. QED  BY <2>1, <3>1, <3>2 DEF TableInv
  <2>4. CASE Fault("alloc") /\ StartRollback /\ UNCHANGED <<ctx, pend>>
    <3>1. faults' = faults + 1
      BY <2>4 DEF Fault
    <3>2. UndoTable(fd, A, B, 1, again', terminateFailed')
      BY <2>2, TurnedBackWhileAdding
    <3>. QED  BY <1>2, <1>4, <2>1, <2>4, <3>1, <3>2
  <2>. QED  BY <1>8, <2>3, <2>4, Zenon DEF CommitPending
<1>. QED  BY <1>5, <1>6, <1>7, <1>8

\* Rollback.  While no termination has failed there is always room to restore
\* a peer, so only a second failure of freeDiameter's ends the attempt.
LEMMA BackwardTable ==
  ASSUME ReconcileInv, RemoveCandidate \/ CandidatesGone \/ RestoreCurrent \/ RollbackComplete
  PROVE  TableInv' /\ RollbackSurvivesOneFault'
<1>. DEFINE A == ctx.cfg
            B == pend.cfg
<1>1. /\ TypeOK /\ PhaseMatchesPC /\ TableInv /\ RollbackSurvivesOneFault
      /\ rollbackPending /\ ~pendingReload /\ UNCHANGED <<ctx, pendingReload>>
  <2>1. TypeOK /\ PhaseMatchesPC /\ TableInv /\ RollbackSurvivesOneFault
    BY Zenon DEF ReconcileInv, SnapshotInv
  <2>2. pc \in {"unadd", "restore"}
    BY DEF RemoveCandidate, CandidatesGone, RestoreCurrent, RollbackComplete
  <2>3. UNCHANGED <<ctx, pendingReload>>
    BY Zenon DEF RemoveCandidate, CandidatesGone, RestoreCurrent, RollbackComplete, txnVars,
       GiveUpRollback
  <2>. QED  BY <2>1, <2>2, <2>3 DEF PhaseMatchesPC
<1>2. /\ A \in Config /\ B \in Config /\ Startable(A) /\ Startable(B)
      /\ idx \in Nat \ {0} /\ faults \in Nat
      /\ Len(A.peers) \in Nat /\ Len(B.peers) \in Nat
  BY <1>1, ConfigsTyped DEF ReconcileInv, ConfigsStartable, InTransaction
<1>3. ~rollbackFailed => AllHold(fd, Unchanged(A, B))
  BY <1>1 DEF TableInv, InTransaction
<1>4. ASSUME UNCHANGED <<terminateFailed, rollbackFailed>>, faults' = faults
      PROVE  RollbackSurvivesOneFault'
  BY <1>1, <1>4 DEF RollbackSurvivesOneFault
<1>5. CASE RemoveCandidate
  <2>. DEFINE p == B.peers[idx]
  <2>1. pc = "unadd" /\ idx \in 1..Len(B.peers) /\ UNCHANGED pend
    BY <1>2, <1>5 DEF RemoveCandidate
  <2>2. ~rollbackFailed => UndoTable(fd, A, B, idx, again, terminateFailed)
    BY <1>1, <2>1 DEF TableInv, Position
  <2>3. p \in Peer /\ p.id \in Ids
    BY <1>1, <2>1, IndexedPeers DEF Peer
  <2>4. ASSUME Next1, UNCHANGED <<txnVars, rollbackFailed, faultVars>>,
               ~rollbackFailed => UndoTable(fd', A, B, idx + 1, again', terminateFailed)
                                  /\ AllHold(fd', Unchanged(A, B))
        PROVE  TableInv' /\ RollbackSurvivesOneFault'
    <3>1. pc' = "unadd" /\ Position("unadd")' = idx + 1 /\ ~pendingReload' /\ rollbackPending'
      BY <1>1, <2>1, <2>4 DEF Next1, Position, txnVars
    <3>2. ctx'.cfg = A /\ pend'.cfg = B /\ UNCHANGED <<faults, terminateFailed, rollbackFailed>>
      BY <1>1, <2>1, <2>4 DEF faultVars
    <3>3. TableInv'
      BY <1>1, <2>1, <2>4, <3>1, <3>2 DEF TableInv, InTransaction
    <3>. QED  BY <1>4, <3>2, <3>3
  <2>5. CASE (~p.enabled \/ Kept(p, A)) /\ Next1
             /\ UNCHANGED <<again, fd, txnVars, faultVars, rollbackFailed>>
    <3>1. ~rollbackFailed => /\ UndoTable(fd', A, B, idx + 1, again', terminateFailed)
                             /\ AllHold(fd', Unchanged(A, B))
      BY <1>2, <1>3, <2>1, <2>2, <2>5, UndoStep
    <3>. QED  BY <2>4, <2>5, <3>1
  <2>6. ASSUME NEW rc \in {"0", "ENOENT", "EAGAIN"}, p.enabled, ~Kept(p, A), FdRemove(p.id, rc),
               Next1, UNCHANGED <<txnVars, rollbackFailed>>,
               again' = TRUE \/ (rc # "EAGAIN" /\ again' = again)
        PROVE  TableInv' /\ RollbackSurvivesOneFault'
    <3>1. /\ Removes(fd, fd', Canon[p.id])
          /\ again' \/ (again' = again /\ ~Occupied(fd', Canon[p.id]))
          /\ UNCHANGED faultVars
      BY <1>1, <2>3, <2>6, RemoveCall
    <3>2. ~rollbackFailed => /\ UndoTable(fd', A, B, idx + 1, again', terminateFailed)
                             /\ AllHold(fd', Unchanged(A, B))
      BY <1>2, <1>3, <2>1, <2>2, <2>6, <3>1, UndoStep
    <3>. QED  BY <2>4, <2>6, <3>1, <3>2
  <2>7. CASE FdRemove(p.id, "EINVAL") /\ GiveUpRollback
    <3>1. terminateFailed'
      BY <1>1, <2>3, <2>7, RemoveCall
    <3>2. rollbackFailed'
      BY <2>7 DEF GiveUpRollback
    <3>. QED  BY <3>1, <3>2 DEF TableInv, RollbackSurvivesOneFault
  <2>8. \/ (~p.enabled \/ Kept(p, A)) /\ Next1
           /\ UNCHANGED <<again, fd, txnVars, faultVars, rollbackFailed>>
        \/ /\ p.enabled /\ ~Kept(p, A)
           /\ \/ /\ \E rc \in {"0", "ENOENT"} : FdRemove(p.id, rc)
                 /\ Next1 /\ UNCHANGED <<again, txnVars, rollbackFailed>>
              \/ /\ FdRemove(p.id, "EAGAIN") /\ Next1 /\ again' = TRUE
                 /\ UNCHANGED <<txnVars, rollbackFailed>>
              \/ FdRemove(p.id, "EINVAL") /\ GiveUpRollback
    BY <1>5, Zenon DEF RemoveCandidate
  <2>. QED  BY <2>5, <2>6, <2>7, <2>8
<1>6. CASE CandidatesGone
  <2>1. /\ pc = "unadd" /\ idx > Len(B.peers)
        /\ UNCHANGED <<pend, txnVars, fd, faultVars, rollbackFailed>>
        /\ pc' = (IF again THEN "refresh" ELSE "restore") /\ idx' = 1
    BY <1>6 DEF CandidatesGone, GoTo
  <2>2. /\ ctx'.cfg = A /\ pend'.cfg = B /\ ~pendingReload' /\ rollbackPending' /\ fd' = fd
        /\ UNCHANGED <<faults, terminateFailed, rollbackFailed>>
    BY <1>1, <2>1 DEF txnVars, faultVars
  <2>3. RollbackSurvivesOneFault'
    BY <1>4, <2>2
  <2>4. CASE rollbackFailed
    BY <2>2, <2>3, <2>4 DEF TableInv
  <2>5. CASE ~rollbackFailed
    <3>1. /\ UndoTable(fd, A, B, idx, again, terminateFailed) /\ again \in BOOLEAN
          /\ ~terminateFailed => faults >= 1
      BY <1>1, <2>1, <2>5 DEF TableInv, Position, TypeOK
    <3>2. CASE again
      <4>1. UndoTable(fd, A, B, 1, again', terminateFailed)
        BY <3>1, VisitedAtStart DEF UndoTable, NoneOf
      <4>2. pc' = "refresh" /\ Position("unadd")' = 1
        BY <2>1, <3>2 DEF Position
      <4>. QED  BY <1>3, <2>2, <2>3, <2>5, <3>1, <4>1, <4>2 DEF TableInv, InTransaction
    <3>3. CASE ~again
      <4>1. RestoreTable(fd, A, B, 1, terminateFailed)
        BY <1>2, <2>1, <3>1, <3>3, UndoneTable
      <4>2. pc' = "restore" /\ idx' = 1
        BY <2>1, <3>3
      <4>. QED  BY <1>3, <2>2, <2>3, <2>5, <3>1, <4>1, <4>2 DEF TableInv, InTransaction
    <3>. QED  BY <3>1, <3>2, <3>3
  <2>. QED  BY <2>4, <2>5
<1>7. CASE RestoreCurrent
  <2>. DEFINE p == A.peers[idx]
  <2>1. pc = "restore" /\ idx \in 1..Len(A.peers) /\ UNCHANGED pend
    BY <1>2, <1>7 DEF RestoreCurrent
  <2>2. ~rollbackFailed => /\ RestoreTable(fd, A, B, idx, terminateFailed)
                           /\ ~terminateFailed => faults >= 1
    BY <1>1, <2>1 DEF TableInv
  <2>3. p \in Peer
    BY <1>1, <2>1, IndexedPeers
  <2>4. ASSUME Next1, UNCHANGED <<txnVars, rollbackFailed, faultVars>>,
               ~rollbackFailed => RestoreTable(fd', A, B, idx + 1, terminateFailed)
                                  /\ AllHold(fd', Unchanged(A, B))
        PROVE  TableInv' /\ RollbackSurvivesOneFault'
    <3>1. pc' = "restore" /\ idx' = idx + 1 /\ ~pendingReload' /\ rollbackPending'
      BY <1>1, <2>1, <2>4 DEF Next1, txnVars
    <3>2. ctx'.cfg = A /\ pend'.cfg = B /\ UNCHANGED <<faults, terminateFailed, rollbackFailed>>
      BY <1>1, <2>1, <2>4 DEF faultVars
    <3>3. TableInv'
      BY <2>2, <2>4, <3>1, <3>2 DEF TableInv, InTransaction
    <3>. QED  BY <1>4, <3>2, <3>3
  <2>5. CASE (~p.enabled \/ Kept(p, B)) /\ Next1
             /\ UNCHANGED <<fd, txnVars, faultVars, rollbackFailed>>
    <3>1. ~rollbackFailed => /\ RestoreTable(fd', A, B, idx + 1, terminateFailed)
                             /\ AllHold(fd', Unchanged(A, B))
      BY <1>2, <1>3, <2>1, <2>2, <2>5, RestoreStep
    <3>. QED  BY <2>4, <2>5, <3>1
  <2>6. CASE p.enabled /\ ~Kept(p, B) /\ FdAdd(p, TRUE) /\ Next1
             /\ UNCHANGED <<txnVars, rollbackFailed>>
    <3>1. Adds(fd, fd', p) /\ UNCHANGED faultVars
      BY <1>1, <2>3, <2>6, AddCall
    <3>2. ~rollbackFailed => /\ RestoreTable(fd', A, B, idx + 1, terminateFailed)
                             /\ AllHold(fd', Unchanged(A, B))
      BY <1>2, <1>3, <2>1, <2>2, <2>6, <3>1, RestoreStep
    <3>. QED  BY <2>4, <2>6, <3>1, <3>2
  <2>7. CASE p.enabled /\ ~Kept(p, B) /\ FdAdd(p, FALSE) /\ GiveUpRollback
    <3>1. rollbackFailed'
      BY <2>7 DEF GiveUpRollback
    <3>2. /\ terminateFailed' = terminateFailed
          /\ faults' = faults + 1 \/ (faults' = faults /\ Occupied(fd, Canon[p.id]))
      BY <1>1, <2>3, <2>7, AddCall
    <3>3. ASSUME ~rollbackFailed, ~terminateFailed PROVE faults' >= 2
      <4>1. ~Occupied(fd, Canon[p.id])
        <5>1. Only(fd, Unchanged(A, B) \union Visited(A, B, idx))
          BY <2>2, <3>3 DEF RestoreTable
        <5>2. Only(fd, Unchanged(B, A) \union Visited(A, B, idx))
          BY <5>1, Counterpart DEF Only
        <5>. QED  BY <1>2, <2>1, <2>7, <5>2, RoomToAdd
      <4>. QED  BY <1>2, <2>2, <3>2, <3>3, <4>1
    <3>4. ASSUME rollbackFailed PROVE terminateFailed' \/ faults' >= 2
      BY <1>1, <1>2, <3>2, <3>4 DEF RollbackSurvivesOneFault
    <3>. QED  BY <3>1, <3>2, <3>3, <3>4 DEF TableInv, RollbackSurvivesOneFault
  <2>. QED  BY <1>7, <2>5, <2>6, <2>7, Zenon DEF RestoreCurrent
<1>8. CASE RollbackComplete
  <2>1. /\ pc = "restore" /\ idx > Len(A.peers) /\ rollbackPending' = FALSE
        /\ UNCHANGED <<fd, faultVars, rollbackFailed>> /\ pc' = "refresh"
    BY <1>8 DEF RollbackComplete, GoTo
  <2>2. /\ ctx'.cfg = A /\ ~pendingReload' /\ ~rollbackPending' /\ ~InTransaction'
        /\ UNCHANGED <<fd, faults, terminateFailed, rollbackFailed>>
    BY <1>1, <2>1 DEF faultVars, InTransaction
  <2>3. ~rollbackFailed => IdleTable(fd, A)
    <3>. SUFFICES ASSUME ~rollbackFailed PROVE IdleTable(fd, A)
      OBVIOUS
    <3>1. RestoreTable(fd, A, B, idx, terminateFailed)
      BY <1>1, <2>1 DEF TableInv
    <3>. QED  BY <1>2, <1>3, <2>1, <3>1, RestoredTable
  <2>4. TableInv'
    BY <2>1, <2>2, <2>3 DEF TableInv
  <2>. QED  BY <1>4, <2>2, <2>4
<1>. QED  BY <1>5, <1>6, <1>7, <1>8

\* The head of the loop.
LEMMA ReloadTable ==
  ASSUME ReconcileInv, NoReload \/ DeferReload \/ RejectReload \/ StageReload \/ CommitReload
  PROVE  TableInv'
<1>1. /\ TypeOK /\ PhaseMatchesPC /\ TableInv /\ pc = "top" /\ pc \notin Loops
      /\ UNCHANGED <<fd, rollbackFailed>>
      /\ idx' = 1 /\ pc' = (IF pendingReload' THEN "remove"
                            ELSE IF rollbackPending' THEN "unadd" ELSE "refresh")
  BY DEF ReconcileInv, SnapshotInv, NoReload, DeferReload, RejectReload, StageReload, CommitReload, ReadFile,
     Proceed, GoTo, topFrame, fdVars, Loops
<1>2. faults \in Nat
  BY <1>1, ConfigsTyped
<1>3. CASE NoReload \/ DeferReload \/ RejectReload
  <2>1. /\ ctx'.cfg = ctx.cfg /\ UNCHANGED <<pend, txnVars, terminateFailed>>
        /\ faults' \in {faults, faults + 1}
    BY <1>3 DEF NoReload, DeferReload, RejectReload, faultVars, Fault
  <2>2. pc' \notin {"add", "restore"} /\ (pc' \in {"remove", "unadd"} => idx' = 1)
    BY <1>1
  <2>. QED  BY <1>1, <2>1, <2>2, TableBetweenLoops
<1>4. CASE StageReload
  <2>1. /\ ~InTransaction /\ ctx' = ctx /\ pend'.cfg = file /\ pendingReload' = TRUE
        /\ rollbackPending' = rollbackPending
    BY <1>4 DEF StageReload, ReadFile, Prepared
  <2>2. ~rollbackPending' /\ pc' = "remove" /\ Position("remove")' = 1
    BY <1>1, <2>1 DEF InTransaction, Position
  <2>3. ~rollbackFailed => IdleTable(fd, ctx.cfg)
    BY <1>1, <2>1 DEF TableInv
  <2>4. ~rollbackFailed => /\ AllHold(fd, Unchanged(ctx.cfg, file))
                           /\ RemovalTable(fd, ctx.cfg, file, 1, again')
    BY <2>3, StagedTable
  <2>. QED  BY <1>1, <2>1, <2>2, <2>4 DEF TableInv, InTransaction
<1>5. CASE CommitReload
  <2>1. /\ ~InTransaction /\ ctx'.cfg = file /\ UNCHANGED txnVars
        /\ ValidConfig(file) /\ ~PeersChange(ctx.cfg, file)
    BY <1>5 DEF CommitReload, ReadFile, Prepared
  <2>2. ~pendingReload' /\ ~rollbackPending' /\ ~InTransaction' /\ pc' = "refresh"
    BY <1>1, <2>1 DEF InTransaction, txnVars
  <2>3. ~rollbackFailed => IdleTable(fd, file)
    BY <1>1, <2>1, PolicyTable DEF TableInv
  <2>. QED  BY <1>1, <2>1, <2>2, <2>3 DEF TableInv
<1>. QED  BY <1>3, <1>4, <1>5

\* Failures only accumulate outside a rollback.
LEMMA FailuresAccumulate ==
  ASSUME TypeOK, PhaseMatchesPC, RollbackSurvivesOneFault, [Next]_vars,
         ~(RemoveCandidate \/ RestoreCurrent)
  PROVE  RollbackSurvivesOneFault'
<1>1. faults \in Nat
  BY ConfigsTyped
<1>2. UNCHANGED rollbackFailed
  BY Zenon DEF Next, Main, NoReload, DeferReload, RejectReload, StageReload, CommitReload, topFrame,
     RemoveStale, RemovalsDone, AddPending, CommitPending, CandidatesGone, RollbackComplete,
     Sample, Publish, SkipRefresh, RefreshDone, UpdateBegin, UpdateEnd, Wake, refreshFrame, updateFrame,
     Psm, PsmOpen, PsmHandshake, PsmFail, PsmDisconnect, PsmTerminate, PeerHook, psmFrame,
     Operator, EditFile, Sighup, vars
<1>3. CASE UNCHANGED faultVars
  BY <1>2, <1>3 DEF RollbackSurvivesOneFault, faultVars
<1>4. CASE faults' = faults + 1 /\ UNCHANGED terminateFailed
  BY <1>1, <1>2, <1>4 DEF RollbackSurvivesOneFault
<1>5. CASE terminateFailed'
  BY <1>5 DEF RollbackSurvivesOneFault
<1>6. CASE RejectReload \/ CommitReload \/ CommitPending \/ SkipRefresh \/ UpdateEnd
  <2>1. UNCHANGED faultVars \/ (faults' = faults + 1 /\ UNCHANGED terminateFailed)
    BY <1>6, Zenon DEF RejectReload, CommitReload, CommitPending, SkipRefresh, UpdateEnd, Fault
  <2>. QED  BY <1>3, <1>4, <2>1
<1>7. CASE RemoveStale
  <2>1. UNCHANGED faultVars \/ terminateFailed' = TRUE
    BY <1>7, Zenon DEF RemoveStale, FdRemove
  <2>. QED  BY <1>3, <1>5, <2>1
<1>8. CASE AddPending
  <2>1. UNCHANGED faultVars \/ (faults' = faults + 1 /\ UNCHANGED terminateFailed)
    BY <1>8, Zenon DEF AddPending, FdAdd, Fault
  <2>. QED  BY <1>3, <1>4, <2>1
<1>9. CASE ~(\/ RejectReload \/ CommitReload \/ CommitPending \/ SkipRefresh \/ UpdateEnd
             \/ RemoveStale \/ AddPending)
  <2>1. UNCHANGED faultVars
    BY <1>9, Zenon DEF Next, Main, NoReload, DeferReload, StageReload, RemovalsDone, CandidatesGone,
       RollbackComplete, Sample, Publish, RefreshDone, UpdateBegin, Wake, Psm, PsmOpen,
       PsmHandshake, PsmFail, PsmDisconnect, PsmTerminate, PeerHook, psmFrame, Operator, EditFile,
       Sighup, vars
  <2>. QED  BY <1>3, <2>1
<1>. QED  BY <1>6, <1>7, <1>8, <1>9

\* Every other step keeps the table as it is.
LEMMA QuietTable ==
  ASSUME ReconcileInv,
         \/ Sample \/ Publish \/ SkipRefresh \/ RefreshDone \/ UpdateBegin \/ UpdateEnd \/ Wake
         \/ (\E c \in Canons : Psm(c)) \/ Operator \/ UNCHANGED vars
  PROVE  TableInv'
<1>1. TypeOK /\ TableInv
  BY Zenon DEF ReconcileInv, SnapshotInv
<1>2. CASE Sample \/ Publish \/ SkipRefresh \/ RefreshDone \/ UpdateBegin \/ UpdateEnd \/ Wake
  <2>1. UNCHANGED <<fd, pend, txnVars, rollbackFailed>>
    BY <1>2, Zenon DEF Sample, Publish, SkipRefresh, RefreshDone, UpdateBegin, UpdateEnd, Wake,
       refreshFrame, updateFrame, fdVars
  <2>2. pc \notin Loops /\ pc' \notin Loops
    BY <1>2 DEF Sample, Publish, SkipRefresh, RefreshDone, UpdateBegin, UpdateEnd, Wake, GoTo, Loops
  <2>3. faults' \in {faults, faults + 1} /\ UNCHANGED terminateFailed
    BY <1>2 DEF Sample, Publish, SkipRefresh, RefreshDone, UpdateBegin, UpdateEnd, Wake, Fault, faultVars
  <2>4. ctx'.cfg = ctx.cfg
    <3>1. CASE Publish
      BY <1>1, <3>1 DEF Publish, TypeOK, Context
    <3>2. CASE ~Publish
      BY <1>2, <3>2, Zenon DEF Sample, SkipRefresh, RefreshDone, UpdateBegin, UpdateEnd, Wake, updateFrame
    <3>. QED  BY <3>1, <3>2
  <2>5. pc' \notin {"add", "restore"} /\ (pc' \in {"remove", "unadd"} => idx' = 1)
    BY <2>2 DEF Loops
  <2>. QED  BY <1>1, <2>1, <2>2, <2>3, <2>4, <2>5, TableBetweenLoops
<1>3. CASE \E c \in Canons : Psm(c)
  <2>. PICK c \in Canons : Psm(c)
    BY <1>3
  <2>1. SameTable(fd, fd')
    BY <1>1, PsmSteps
  <2>2. UNCHANGED <<pend, txnVars, pc, idx, again, faults, terminateFailed, rollbackFailed>>
    BY Zenon DEF Psm, PsmOpen, PsmHandshake, PsmFail, PsmDisconnect, PsmTerminate, PeerHook,
       psmFrame, loopVars, faultVars
  <2>3. ctx'.cfg = ctx.cfg
    <3>1. CASE PeerHook(c)
      <4>1. PICK rt : ctx' = [ctx EXCEPT !.rt = rt]
        BY <3>1, Zenon DEF PeerHook
      <4>. QED  BY <1>1, <4>1 DEF TypeOK, Context
    <3>2. CASE ~PeerHook(c)
      BY <3>2, Zenon DEF Psm, PsmOpen, PsmHandshake, PsmFail, PsmDisconnect, PsmTerminate, psmFrame
    <3>. QED  BY <3>1, <3>2
  <2>. QED  BY <1>1, <2>1, <2>2, <2>3, TableStays
<1>4. CASE Operator \/ UNCHANGED vars
  <2>1. /\ UNCHANGED <<fd, ctx, pend, txnVars, pc, idx, again, faults, terminateFailed, rollbackFailed>>
    BY <1>4, Zenon DEF Operator, EditFile, Sighup, vars, fdVars, loopVars, faultVars
  <2>2. SameTable(fd, fd')
    BY <2>1 DEF SameTable
  <2>. QED  BY <1>1, <2>1, <2>2, TableStays
<1>. QED  BY <1>2, <1>3, <1>4

-----------------------------------------------------------------------------
(* The theorems.                                                           *)

LEMMA NextReconcile ==
  ASSUME StartableFiles, ReconcileInv, [Next]_vars
  PROVE  ReconcileInv'
<1>1. TypeOK /\ PhaseMatchesPC /\ ConfigsStartable /\ RollbackSurvivesOneFault
  BY Zenon DEF ReconcileInv, SnapshotInv
<1>2. TypeOK' /\ ConfigsStartable'
  BY <1>1, NextTyped, NextStartable
<1>3. SnapshotInv'
  BY <1>1, <1>2, NextSnapshot, Zenon DEF ReconcileInv, SnapshotInv
<1>4. TableInv'
  BY ReloadTable, ForwardTable, BackwardTable, QuietTable, Zenon DEF Next, Main
<1>5. RollbackSurvivesOneFault'
  BY <1>1, BackwardTable, FailuresAccumulate, Zenon
<1>. QED  BY <1>2, <1>3, <1>4, <1>5, Zenon DEF ReconcileInv

\* Start-up leaves the table that the configuration asks for.
LEMMA InitReconcile ==
  ASSUME Init
  PROVE  ReconcileInv
<1>1. SnapshotInv
  BY InitSnapshot
<1>2. file \in Files /\ Startable(file) /\ ctx.cfg = file /\ fd = Installed(file)
      /\ ~InTransaction /\ pc = "top" /\ ~rollbackFailed /\ ~pendingReload /\ ~rollbackPending
  BY DEF Init, InTransaction
<1>3. file \in Config
  BY <1>2, FilesAreConfigs
<1>4. ASSUME NEW p \in Enabled(file) PROVE Holds(fd, p)
  <2>1. Canon[p.id] \in Canons
    BY <1>3, PlacesInTable
  <2>2. \E q \in Enabled(file) : Canon[q.id] = Canon[p.id]
    BY <1>4
  <2>3. (CHOOSE q \in Enabled(file) : Canon[q.id] = Canon[p.id]) = p
    BY <1>2, <1>4 DEF Startable
  <2>4. fd[Canon[p.id]] = NewEntry(p)
    BY <1>2, <2>1, <2>2, <2>3 DEF Installed
  <2>. QED  BY <2>4 DEF Holds, Serves, NewEntry
<1>5. Only(fd, Enabled(file))
  BY <1>2 DEF Only, Installed, Occupied, Absent
<1>6. TableInv
  BY <1>2, <1>4, <1>5 DEF TableInv, IdleTable, AllHold
<1>. QED  BY <1>1, <1>2, <1>6 DEF ReconcileInv, ConfigsStartable, RollbackSurvivesOneFault

\* Under that assumption the table is, in every reachable state, the one the
\* phase of the reload calls for.
LEMMA AlwaysReconciled ==
  ASSUME StartableFiles
  PROVE  Spec => []ReconcileInv
<1>1. Init => ReconcileInv
  BY InitReconcile
<1>2. ReconcileInv /\ [Next]_vars => ReconcileInv'
  BY NextReconcile
<1>. QED  BY <1>1, <1>2, PTL DEF Spec

\* Between transactions freeDiameter's table holds a live association for
\* exactly the enabled peers of the active configuration, under its spelling and
\* with its endpoint, whatever reloads, failures and rollbacks came before,
\* unless a rollback was given up.
THEOREM TableFollowsConfig ==
  ASSUME StartableFiles
  PROVE  Spec => []TableMatchesConfig
<1>1. ReconcileInv => TableMatchesConfig
  <2>. SUFFICES ASSUME ReconcileInv, ~InTransaction, ~rollbackFailed, NEW c \in Canons
                PROVE  \/ \E p \in Enabled(ctx.cfg) :
                            Canon[p.id] = c /\ Live(c) /\ fd[c].id = p.id /\ fd[c].ep = p.ep
                       \/ ~Present(c) /\ \A p \in Enabled(ctx.cfg) : Canon[p.id] # c
    BY DEF TableMatchesConfig, Reflects
  <2>1. AllHold(fd, Enabled(ctx.cfg)) /\ Only(fd, Enabled(ctx.cfg))
    BY DEF ReconcileInv, TableInv, IdleTable
  <2>2. \A p \in Enabled(ctx.cfg) : Canon[p.id] = c =>
            Live(c) /\ fd[c].id = p.id /\ fd[c].ep = p.ep
    BY <2>1 DEF AllHold, Holds, Serves, Live, Active
  <2>3. Present(c) => \E p \in Enabled(ctx.cfg) : Canon[p.id] = c
    BY <2>1 DEF Only, Occupied, Present
  <2>. QED  BY <2>2, <2>3
<1>. QED  BY <1>1, AlwaysReconciled, PTL

\* A reload that fails is undone: giving the rollback up takes a second failure,
\* or a termination that failed, however the calls, the connection events and
\* further reloads interleave.
THEOREM RollbackSurvives ==
  ASSUME StartableFiles
  PROVE  Spec => []RollbackSurvivesOneFault
<1>1. ReconcileInv => RollbackSurvivesOneFault
  BY DEF ReconcileInv
<1>. QED  BY <1>1, AlwaysReconciled, PTL

\* Every step leaves the associations alone, or changes one that the two
\* configurations of a transaction disagree on.
TouchesOne(p) ==
  \/ Adds(fd, fd', p)
  \/ Removes(fd, fd', Canon[p.id]) /\ ~Serves(fd', Canon[p.id])

LEMMA TableSteps ==
  ASSUME SnapshotInv, [Next]_vars
  PROVE  \/ SameTable(fd, fd')
         \/ /\ InTransaction /\ UNCHANGED <<ctx, pend, txnVars, viewVars, rollbackFailed>>
            /\ \/ \E p \in Enabled(ctx.cfg) : ~Kept(p, pend.cfg) /\ TouchesOne(p)
               \/ \E p \in Enabled(pend.cfg) : ~Kept(p, ctx.cfg) /\ TouchesOne(p)
<1>1. TypeOK /\ PhaseMatchesPC
  BY Zenon DEF SnapshotInv
<1>2. SameTable(fd, fd)
  BY DEF SameTable
<1>3. idx \in Nat \ {0} /\ DOMAIN ctx.cfg.peers = 1..Len(ctx.cfg.peers)
      /\ DOMAIN pend.cfg.peers = 1..Len(pend.cfg.peers)
      /\ Len(ctx.cfg.peers) \in Nat /\ Len(pend.cfg.peers) \in Nat
  BY <1>1, ConfigsTyped DEF Config
<1>4. CASE RemoveStale \/ RestoreCurrent
  <2>. DEFINE p == ctx.cfg.peers[idx]
  <2>1. /\ idx <= Len(ctx.cfg.peers) /\ InTransaction
        /\ UNCHANGED <<ctx, pend, viewVars>>
    BY <1>1, <1>4 DEF RemoveStale, RestoreCurrent, txnFrame, PhaseMatchesPC, InTransaction
  <2>2. p \in Peer /\ p \in PeersOf(ctx.cfg) /\ p.id \in Ids
    BY <1>1, <1>3, <2>1, IndexedPeers DEF PeersOf, Peer
  <2>3. ASSUME ~(UNCHANGED fd) PROVE /\ p.enabled /\ ~Kept(p, pend.cfg)
                                     /\ UNCHANGED <<txnVars, rollbackFailed>>
                                     /\ \/ \E rc \in {"0", "ENOENT", "EAGAIN"} : FdRemove(p.id, rc)
                                        \/ FdAdd(p, TRUE)
    <3>1. ~FdRemove(p.id, "EINVAL") /\ ~FdAdd(p, FALSE)
      BY <1>1, <2>2, <2>3, RemoveCall, AddCall
    <3>. QED  BY <1>4, <2>3, <3>1, Zenon DEF RemoveStale, RestoreCurrent
  <2>4. ASSUME ~(UNCHANGED fd) PROVE TouchesOne(p)
    BY <1>1, <2>2, <2>3, <2>4, RemoveCall, AddCall DEF TouchesOne
  <2>. QED  BY <1>2, <2>1, <2>2, <2>3, <2>4 DEF Enabled
<1>5. CASE AddPending \/ RemoveCandidate
  <2>. DEFINE p == pend.cfg.peers[idx]
  <2>1. /\ idx <= Len(pend.cfg.peers) /\ InTransaction
        /\ UNCHANGED <<ctx, pend, viewVars>>
    BY <1>1, <1>5 DEF AddPending, RemoveCandidate, txnFrame, PhaseMatchesPC, InTransaction
  <2>2. p \in Peer /\ p \in PeersOf(pend.cfg) /\ p.id \in Ids
    BY <1>1, <1>3, <2>1, IndexedPeers DEF PeersOf, Peer
  <2>3. ASSUME ~(UNCHANGED fd) PROVE /\ p.enabled /\ ~Kept(p, ctx.cfg)
                                     /\ UNCHANGED <<txnVars, rollbackFailed>>
                                     /\ \/ \E rc \in {"0", "ENOENT", "EAGAIN"} : FdRemove(p.id, rc)
                                        \/ FdAdd(p, TRUE)
    <3>1. ~FdRemove(p.id, "EINVAL") /\ ~FdAdd(p, FALSE)
      BY <1>1, <2>2, <2>3, RemoveCall, AddCall
    <3>. QED  BY <1>5, <2>3, <3>1, Zenon DEF AddPending, RemoveCandidate
  <2>4. ASSUME ~(UNCHANGED fd) PROVE TouchesOne(p)
    BY <1>1, <2>2, <2>3, <2>4, RemoveCall, AddCall DEF TouchesOne
  <2>. QED  BY <1>2, <2>1, <2>2, <2>3, <2>4 DEF Enabled
<1>6. CASE \E c \in Canons : Psm(c)
  BY <1>1, <1>6, PsmSteps
<1>7. CASE /\ ~(RemoveStale \/ RestoreCurrent \/ AddPending \/ RemoveCandidate)
           /\ ~(\E c \in Canons : Psm(c))
  <2>1. UNCHANGED fd
    BY <1>7, Zenon DEF Next, Main, NoReload, DeferReload, RejectReload, StageReload, CommitReload,
       topFrame, RemovalsDone, CommitPending, CandidatesGone, RollbackComplete, Sample, Publish,
       SkipRefresh, RefreshDone, UpdateBegin, UpdateEnd, Wake, refreshFrame, updateFrame, Operator,
       EditFile, Sighup, fdVars, vars
  <2>. QED  BY <1>2, <2>1
<1>. QED  BY <1>4, <1>5, <1>6, <1>7

\* No step ends the association of an enabled peer that the active
\* configuration and the candidate agree on, and outside a transaction no step
\* ends any: neither a failed call, nor a rollback, nor what is left after a
\* rollback was given up.
THEOREM UnchangedPeersKept ==
  ASSUME StartableFiles
  PROVE  Spec => UnchangedPeersStay
<1>. DEFINE Stay == \A c \in Canons :
                      Live(c) /\ ~Live(c)' =>
                        /\ InTransaction
                        /\ \A p \in Enabled(ctx.cfg) : Canon[p.id] = c => ~Kept(p, pend.cfg)
<1>1. ReconcileInv /\ [Next]_vars => [Stay]_vars
  <2>. SUFFICES ASSUME ReconcileInv, [Next]_vars, NEW c \in Canons, Live(c), ~Live(c)'
                PROVE  /\ InTransaction
                       /\ \A p \in Enabled(ctx.cfg) : Canon[p.id] = c => ~Kept(p, pend.cfg)
    OBVIOUS
  <2>1. Serves(fd, c) /\ ~Serves(fd', c)
    BY DEF Live, Active, Serves
  <2>2. ~SameTable(fd, fd')
    BY <2>1 DEF SameTable
  <2>3. /\ InTransaction
        /\ \/ \E p \in Enabled(ctx.cfg) : ~Kept(p, pend.cfg) /\ TouchesOne(p)
           \/ \E p \in Enabled(pend.cfg) : ~Kept(p, ctx.cfg) /\ TouchesOne(p)
    BY <2>2, TableSteps DEF ReconcileInv
  <2>4. Startable(ctx.cfg) /\ Startable(pend.cfg)
    BY <2>3 DEF ReconcileInv, ConfigsStartable
  <2>5. ASSUME NEW p, TouchesOne(p) PROVE Canon[p.id] = c
    <3>1. CASE Adds(fd, fd', p)
      BY <2>1, <3>1 DEF Adds, Elsewhere, Occupied, Serves
    <3>2. CASE Removes(fd, fd', Canon[p.id])
      BY <2>1, <3>2 DEF Removes, Elsewhere, Serves
    <3>. QED  BY <2>5, <3>1, <3>2 DEF TouchesOne
  <2>6. ASSUME NEW q \in Unchanged(ctx.cfg, pend.cfg), Canon[q.id] = c PROVE FALSE
    <3>1. CASE \E p \in Enabled(ctx.cfg) : ~Kept(p, pend.cfg) /\ TouchesOne(p)
      BY <2>4, <2>5, <2>6, <3>1, StaleApart
    <3>2. CASE \E p \in Enabled(pend.cfg) : ~Kept(p, ctx.cfg) /\ TouchesOne(p)
      BY <2>4, <2>5, <2>6, <3>2, StaleApart
    <3>. QED  BY <2>3, <3>1, <3>2
  <2>. QED  BY <2>3, <2>6 DEF Unchanged
<1>2. UnchangedPeersStay <=> [][Stay]_vars
  BY PTL DEF UnchangedPeersStay
<1>. QED  BY <1>1, <1>2, AlwaysReconciled, PTL DEF Spec
=============================================================================
