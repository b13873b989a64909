------------------------------ MODULE DraRouting ------------------------------
(***************************************************************************)
(* The routing callback of opncell-drad: which peers a request may go to   *)
(* and with which score, from the routing snapshot (diameter.c), and the   *)
(* selection function the daemon's diagnostics use (routing.c).            *)
(*                                                                         *)
(* freeDiameter hands the callback a list of candidate peers with scores   *)
(* of its own; it sends to the candidate with the highest score and never  *)
(* to a negative one.  Callback and snapshot updates exclude each other    *)
(* through routing_snapshot_lock, so each is one action.  A message that   *)
(* freeDiameter cannot parse is left to freeDiameter (the callback returns *)
(* EINVAL) and is not modelled.                                            *)
(*                                                                         *)
(* Scores are C ints and priorities uint32_t: IntMax is the largest int,   *)
(* 2 * IntMax + 1 the largest priority, ScoreBase the 1000000 of the code. *)
(***************************************************************************)
EXTENDS DraConfig, Integers

CONSTANTS
  RealmCanon,     \* RealmCanon[r] is the realm r with its letters folded
  IntMax,         \* largest value of a C int
  ScoreBase,      \* the score of priority 0
  Contexts,       \* contexts the snapshot may hold
  Offers          \* candidate lists: functions from identities to scores

ASSUME IntsAreWide  == IntMax \in Nat /\ ScoreBase \in 0..IntMax
ASSUME ContextsAreContexts == Contexts \subseteq Context
ASSUME OffersAreScores == \A o \in Offers : DOMAIN o \subseteq Ids /\ \A i \in DOMAIN o : o[i] \in Int

VARIABLES
  registered, \* freeDiameter calls the callback
  valid,      \* routing_snapshot_valid
  snapshot,   \* routing_snapshot
  last        \* the last request routed with this snapshot: scores before and after

routingVars == <<registered, valid, snapshot, last>>

NoRealm == ""   \* Destination-Realm absent or empty
NoHost  == ""   \* Destination-Host absent or empty
Requests == [realm : Realms \union {NoRealm}, app : Apps, host : Ids \union {NoHost}]

-----------------------------------------------------------------------------
\* (int)priority, and int arithmetic as the build computes it.
ToInt(u) == IF u <= IntMax THEN u ELSE u - 2 * (IntMax + 1)
Wrap(n)  == IF n > IntMax THEN n - 2 * (IntMax + 1) ELSE n

Score(priority) == Wrap(ScoreBase - ToInt(priority))

\* Defect for the checks: freeDiameter's own score is left in place.
BugLeaveScore(score) == score

\* force_candidate_no_delivery()
NoDelivery(score) == IF score >= 0 THEN -1 ELSE score

\* dra_route_find_len(): the enabled route of this realm and application with
\* the lowest priority, the first of those in the file.
MatchingRoutes(c, req) ==
  {k \in DOMAIN c.routes :
     /\ c.routes[k].enabled
     /\ c.routes[k].app = req.app
     /\ RealmCanon[c.routes[k].realm] = RealmCanon[req.realm]}

Precedes(s, j, k) == s[j].priority < s[k].priority \/ (s[j].priority = s[k].priority /\ j <= k)

IsRoute(c, req, k) ==
  /\ k \in MatchingRoutes(c, req)
  /\ \A j \in MatchingRoutes(c, req) : Precedes(c.routes, k, j)

\* Defect for the checks: identities are compared as spelled.
BugExactIdentity(c, id, k) == k \in DOMAIN c.peers /\ c.peers[k].id = id

\* The configured peer of a candidate: the first whose identity folds alike.
IsPeerOf(c, id, k) ==
  /\ k \in DOMAIN c.peers /\ Canon[c.peers[k].id] = Canon[id]
  /\ \A j \in DOMAIN c.peers : Canon[c.peers[j].id] = Canon[id] => k <= j

\* Peer k may serve a request on this route, as far as policy goes.
Serves(x, route, k) ==
  /\ x.cfg.peers[k].enabled
  /\ x.cfg.peers[k].group = route.group
  /\ x.rt[k] = "open"

\* Defect for the checks: Destination-Host is ignored.
BugIgnoreHost(req, id) == TRUE

\* Defect for the checks: a Destination-Host is compared as spelled.
BugExactHost(req, id) == req.host # NoHost => id = req.host

\* A Destination-Host, if given, excludes every other candidate.
Wants(req, id) == req.host # NoHost => Canon[id] = Canon[req.host]

\* dra_score_candidates() for one candidate: peer k of route r is eligible.
Eligible(x, req, id, r, k) ==
  /\ IsRoute(x.cfg, req, r) /\ x.cfg.routes[r].action = "relay"
  /\ IsPeerOf(x.cfg, id, k)
  /\ Serves(x, x.cfg.routes[r], k)
  /\ Wants(req, id)

\* Defect for the checks: the DRA's score is added to freeDiameter's.
BugAddsUp(x, req, id, score) ==
  IF \E r \in DOMAIN x.cfg.routes, k \in DOMAIN x.cfg.peers : Eligible(x, req, id, r, k)
  THEN score + Score(x.cfg.peers[CHOOSE k \in DOMAIN x.cfg.peers : IsPeerOf(x.cfg, id, k)].priority)
  ELSE NoDelivery(score)

\* The score of an eligible candidate replaces freeDiameter's.
Rescored(x, req, id, score) ==
  IF \E r \in DOMAIN x.cfg.routes, k \in DOMAIN x.cfg.peers : Eligible(x, req, id, r, k)
  THEN Score(x.cfg.peers[CHOOSE k \in DOMAIN x.cfg.peers : IsPeerOf(x.cfg, id, k)].priority)
  ELSE NoDelivery(score)

\* Defect for the checks: candidates freeDiameter excluded are dropped.
BugDropsCandidates(req, offer) ==
  [id \in {i \in DOMAIN offer : offer[i] >= 0} |-> NoDelivery(offer[id])]

\* dra_rt_out_cb(): without a realm or a valid snapshot nothing is delivered.
Routed(req, offer) ==
  [id \in DOMAIN offer |->
     IF req.realm = NoRealm \/ ~valid THEN NoDelivery(offer[id])
     ELSE Rescored(snapshot, req, id, offer[id])]

\* dra_peer_select(): the peer the daemon reports for a route.
IsSelected(x, route, k) ==
  LET serving == {j \in DOMAIN x.cfg.peers : Serves(x, route, j)}
  IN  k \in serving /\ \A j \in serving : Precedes(x.cfg.peers, k, j)

-----------------------------------------------------------------------------
Nothing == [req |-> [realm |-> NoRealm, app |-> NoRealm, host |-> NoHost],
            before |-> << >>, after |-> << >>]

Init ==
  /\ registered = FALSE /\ valid = FALSE
  /\ snapshot = EmptyContext
  /\ last = Nothing

\* The snapshot is filled before the callback is registered.
Register ==
  /\ ~registered /\ registered' = TRUE
  /\ snapshot' \in Contexts /\ valid' = TRUE
  /\ last' = Nothing

UpdateRouting ==
  /\ registered
  /\ snapshot' \in Contexts /\ valid' = TRUE
  /\ last' = Nothing
  /\ UNCHANGED registered

RtOut ==
  /\ registered
  /\ \E req \in Requests, offer \in Offers :
       last' = [req |-> req, before |-> offer, after |-> Routed(req, offer)]
  /\ UNCHANGED <<registered, valid, snapshot>>

Unregister ==
  /\ registered /\ registered' = FALSE
  /\ snapshot' = EmptyContext /\ valid' = FALSE
  /\ last' = Nothing

Next == Register \/ UpdateRouting \/ RtOut \/ Unregister

Spec == Init /\ [][Next]_routingVars

-----------------------------------------------------------------------------
Delivered == {id \in DOMAIN last.after : last.after[id] >= 0}

\* Type invariant.
TypeOK ==
  /\ registered \in BOOLEAN /\ valid \in BOOLEAN
  /\ snapshot \in Context
  /\ DOMAIN last.after = DOMAIN last.before

\* routing.c:68 and diameter.c:418 decide alike: without a Destination-Host the
\* peer dra_peer_select() names for the route is deliverable and scores at least
\* as high as any other candidate; where it names none, nothing is delivered.
AgreesWithSelect ==
  \A r \in DOMAIN snapshot.cfg.routes :
    last.req.realm # NoRealm /\ last.req.host = NoHost /\ IsRoute(snapshot.cfg, last.req, r) =>
      LET route == snapshot.cfg.routes[r]
          best  == {k \in DOMAIN snapshot.cfg.peers : IsSelected(snapshot, route, k)}
      IN  IF route.action # "relay" \/ best = {} THEN Delivered = {}
          ELSE \A k \in best, id \in DOMAIN last.after :
                 Canon[id] = Canon[snapshot.cfg.peers[k].id] =>
                   /\ id \in Delivered
                   /\ \A other \in Delivered : last.after[other] <= last.after[id]

\* diameter.c:509.  A Destination-Host is authoritative: nothing else is tried,
\* and it is tried only through the group its realm is routed to.
HostIsAuthoritative ==
  last.req.host # NoHost =>
    \A id \in Delivered :
      /\ Canon[id] = Canon[last.req.host]
      /\ \A r \in DOMAIN snapshot.cfg.routes, k \in DOMAIN snapshot.cfg.peers :
           IsRoute(snapshot.cfg, last.req, r) /\ IsPeerOf(snapshot.cfg, id, k) =>
             snapshot.cfg.peers[k].group = snapshot.cfg.routes[r].group

\* diameter.c:508-536.  A Destination-Host is reached if policy and state allow it,
\* however it is spelled and however low its priority, as long as its score does not
\* fall below zero: a request for one peer does not fail because others rank higher.
HostIsReached ==
  \A r \in DOMAIN snapshot.cfg.routes, k \in DOMAIN snapshot.cfg.peers :
    /\ last.req.host # NoHost /\ last.req.realm # NoRealm
    /\ IsRoute(snapshot.cfg, last.req, r) /\ snapshot.cfg.routes[r].action = "relay"
    /\ IsPeerOf(snapshot.cfg, last.req.host, k)
    /\ Serves(snapshot, snapshot.cfg.routes[r], k)
    /\ snapshot.cfg.peers[k].priority <= ScoreBase
    => \A id \in DOMAIN last.after : Canon[id] = Canon[last.req.host] => id \in Delivered

\* diameter.c:459 and :888.  Nothing is delivered where no relay route says so.
FailsClosed ==
  Delivered # {} =>
    \E k \in DOMAIN snapshot.cfg.routes :
      /\ snapshot.cfg.routes[k].enabled /\ snapshot.cfg.routes[k].action = "relay"
      /\ snapshot.cfg.routes[k].app = last.req.app
      /\ last.req.realm # NoRealm
      /\ RealmCanon[snapshot.cfg.routes[k].realm] = RealmCanon[last.req.realm]

\* diameter.c:546: "Lower configured peer priority produces the higher final
\* score", whatever scores freeDiameter had given before.
LowerPriorityWins ==
  \A i, j \in Delivered :
    \A m, n \in DOMAIN snapshot.cfg.peers :
      /\ IsPeerOf(snapshot.cfg, i, m) /\ IsPeerOf(snapshot.cfg, j, n)
      /\ snapshot.cfg.peers[m].priority < snapshot.cfg.peers[n].priority
      => last.after[i] > last.after[j]
=============================================================================
