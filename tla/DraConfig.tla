------------------------------ MODULE DraConfig ------------------------------
(***************************************************************************)
(* The configuration of the Diameter Routing Agent opncell-drad and the    *)
(* pure functions the daemon evaluates on it: dra-context.h declares the   *)
(* records, provisioning.c validates a candidate and carries the run-time  *)
(* peer states over to it, diameter.c compares two configurations.         *)
(*                                                                         *)
(* Abstractions.  A peer's realm, address, port and transport are always   *)
(* compared together and never otherwise looked at by the reconciliation,  *)
(* so they are one value, the peer's endpoint `ep'.  The local identity,   *)
(* realm and listener are one value `local'.  `parses' is FALSE for a file *)
(* that cannot be opened, is not YAML, has an unknown transport or action, *)
(* or lacks a required field: all of them make the load fail alike.        *)
(***************************************************************************)
EXTENDS Naturals, Sequences

CONSTANTS
  Names,         \* peer names, the stable keys of a configuration
  Ids,           \* Diameter identities as they are spelled in the file
  Canon,         \* Canon[i] is i with its letters folded to one case
  Endpoints,     \* realm + address + port + transport of a peer
  GoodEndpoints, \* literal IP address and a valid Diameter realm
  Groups, Realms, Apps, Locals

ASSUME CanonIsFunction   == Canon = [i \in Ids |-> Canon[i]]
ASSUME GoodAreEndpoints  == GoodEndpoints \subseteq Endpoints

Canons == {Canon[i] : i \in Ids}

\* dra_peer_state_t.  DRAINING is declared by the header and never assigned.
PeerStates == {"down", "connecting", "open"}

Actions == {"relay", "proxy", "redirect"}

Peer  == [name : Names, id : Ids, ep : Endpoints, enabled : BOOLEAN,
          group : Groups, priority : Nat]

Route == [realm : Realms, app : Apps, group : Groups, priority : Nat,
          action : Actions, enabled : BOOLEAN]

NoLocal == ""   \* the local part of a context that was reset

Config == [parses : BOOLEAN, local : Locals \union {NoLocal},
           peers : Seq(Peer), routes : Seq(Route)]

PeersOf(c)  == {c.peers[k]  : k \in DOMAIN c.peers}
RoutesOf(c) == {c.routes[k] : k \in DOMAIN c.routes}

-----------------------------------------------------------------------------
\* A dra_context_t: generation, configuration and one run-time state per peer.
\* peer_runtime[] is built in the order of peers[], one entry for each.
Context == {x \in [gen : Nat, cfg : Config, rt : Seq(PeerStates)] :
              Len(x.rt) = Len(x.cfg.peers)}

\* validate_config(): names and identities are compared as they are spelled.
ValidConfig(c) ==
  /\ c.parses
  /\ \A j, k \in DOMAIN c.peers :
       j # k => /\ c.peers[j].name # c.peers[k].name
                /\ c.peers[j].id # c.peers[k].id
  /\ \A r \in RoutesOf(c) : \E p \in PeersOf(c) : p.group = r.group

\* config_equal(): nothing is left out of the comparison, so a file that only
\* reorders its peers or routes is a change.
ConfigEqual(a, b) == a = b

\* Every enabled peer must have an endpoint freeDiameter accepts.
Preflight(c) == \A p \in PeersOf(c) : p.enabled => p.ep \in GoodEndpoints

\* Defect for the checks: an endpoint change goes unnoticed.
BugIgnoreEndpoint(p, q) == p.id = q.id /\ p.enabled = q.enabled

\* Group and priority are policy: they do not touch the association.
TransportEqual(p, q) ==
  /\ p.id = q.id
  /\ p.ep = q.ep
  /\ p.enabled = q.enabled

\* The association of peer p is the same in configuration `other'.
Kept(p, other) ==
  \E q \in PeersOf(other) : q.name = p.name /\ TransportEqual(p, q)

\* dra_diameter_reconcile_peers(): some association has to change.
PeersChange(current, next) ==
  \/ \E p \in PeersOf(current) : ~Kept(p, next)
  \/ \E p \in PeersOf(next) : \A q \in PeersOf(current) : q.name # p.name

\* Defect for the checks: the run-time store is cleared and not rebuilt.
BugRuntimeNotRebuilt(next, ctx) == << >>

\* reconcile_peer_runtime(): a peer whose association is unchanged keeps the
\* run-time state that ctx holds at this moment, every other one starts DOWN.
CarriedRuntime(next, ctx) ==
  [k \in 1..Len(next.peers) |->
     LET same == {j \in 1..Len(ctx.cfg.peers) :
                    /\ ctx.cfg.peers[j].name = next.peers[k].name
                    /\ TransportEqual(ctx.cfg.peers[j], next.peers[k])}
     IN  IF same = {} THEN "down" ELSE ctx.rt[CHOOSE j \in same : TRUE]]

\* Defect for the checks: the generation is not advanced.
BugSameGeneration(next, ctx) ==
  [gen |-> ctx.gen, cfg |-> next, rt |-> CarriedRuntime(next, ctx)]

\* dra_provisioning_prepare() on a valid file that differs from ctx.
Prepared(next, ctx) ==
  [gen |-> ctx.gen + 1, cfg |-> next, rt |-> CarriedRuntime(next, ctx)]

\* dra_context_reset(): no peers, no routes, generation 0.
EmptyContext ==
  [gen |-> 0,
   cfg |-> [parses |-> FALSE, local |-> NoLocal, peers |-> << >>, routes |-> << >>],
   rt  |-> << >>]
=============================================================================
