-------------------------- MODULE ConfigTransaction --------------------------
(***************************************************************************)
(* What a reload of opncell-drad promises, without the peer table's        *)
(* protocol.  The daemon routes with one committed configuration at a      *)
(* time.  A candidate either becomes that configuration, once the          *)
(* associations are exactly those it wants, or is rolled back and leaves   *)
(* no trace.  An association both configurations want is never touched.    *)
(* A rollback may be given up (status "damaged"): then only the promises   *)
(* about the configuration remain.                                         *)
(*                                                                         *)
(* DraDaemon implements this specification (see Transaction there).        *)
(***************************************************************************)
EXTENDS DraConfig

CONSTANT Candidates   \* the configurations a reload may bring

NoCandidate == EmptyContext.cfg

VARIABLES
  active,    \* the committed configuration and its generation
  candidate, \* the configuration being moved to, or NoCandidate
  phase,     \* "idle", "forward" or "backward"
  installed, \* the associations of the peer table that are meant to stay
  damaged,   \* a rollback was given up
  view       \* configuration and generation of the routing snapshot

txn == <<active, candidate, phase, installed, damaged, view>>

\* The association of a peer, as the peer table knows it.
Assoc(p)  == [id |-> p.id, ep |-> p.ep]
Wanted(c) == {Assoc(p) : p \in {q \in PeersOf(c) : q.enabled}}

\* Associations no step of a move between the two configurations may touch.
Common(c, d) == {Assoc(p) : p \in {q \in PeersOf(c) : q.enabled /\ Kept(q, d)}}

Acceptable(c) == ValidConfig(c) /\ Preflight(c)

Committed(c) == [gen |-> active.gen + 1, cfg |-> c]

TxnInit ==
  /\ \E c \in Candidates : Acceptable(c) /\ active = [gen |-> 1, cfg |-> c]
  /\ candidate = NoCandidate /\ phase = "idle"
  /\ installed = Wanted(active.cfg)
  /\ damaged = FALSE
  /\ view = active

Stage ==
  /\ phase = "idle" /\ phase' = "forward"
  /\ candidate' \in {c \in Candidates : Acceptable(c) /\ PeersChange(active.cfg, c)}
  /\ UNCHANGED <<active, installed, damaged, view>>

\* Same associations: committed at once, usually published at once.
CommitPolicy ==
  /\ phase = "idle"
  /\ \E c \in Candidates :
       /\ Acceptable(c) /\ c # active.cfg /\ ~PeersChange(active.cfg, c)
       /\ active' = Committed(c)
  /\ view' \in {view, active'}
  /\ UNCHANGED <<candidate, phase, installed, damaged>>

\* One association is dropped or made, never one both sides want.
Move ==
  /\ phase # "idle"
  /\ \/ \E a \in installed : installed' = installed \ {a}
     \/ \E a \in Wanted(active.cfg) \union Wanted(candidate) :
          installed' = installed \union {a}
  /\ damaged \/ Common(active.cfg, candidate) \subseteq installed'
  /\ UNCHANGED <<active, candidate, phase, damaged, view>>

Commit ==
  /\ phase = "forward"
  /\ damaged \/ installed = Wanted(candidate)
  /\ active' = Committed(candidate)
  /\ candidate' = NoCandidate /\ phase' = "idle"
  /\ UNCHANGED <<installed, damaged, view>>

TurnBack ==
  /\ phase = "forward" /\ phase' = "backward"
  /\ UNCHANGED <<active, candidate, installed, damaged, view>>

RolledBack ==
  /\ phase = "backward" /\ phase' = "idle"
  /\ damaged \/ installed = Wanted(active.cfg)
  /\ candidate' = NoCandidate
  /\ UNCHANGED <<active, installed, damaged, view>>

GiveUp ==
  /\ phase = "backward" /\ phase' = "idle"
  /\ candidate' = NoCandidate
  /\ damaged' = TRUE
  /\ UNCHANGED <<active, installed, view>>

PublishView ==
  /\ view' = active
  /\ UNCHANGED <<active, candidate, phase, installed, damaged>>

TxnNext == \/ Stage \/ CommitPolicy \/ Move \/ Commit \/ TurnBack
           \/ RolledBack \/ GiveUp \/ PublishView

TxnSpec == TxnInit /\ [][TxnNext]_txn
=============================================================================
