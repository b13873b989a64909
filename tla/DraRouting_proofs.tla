-------------------------- MODULE DraRouting_proofs --------------------------
(***************************************************************************)
(* Proofs about the routing callback, for every snapshot, every candidate  *)
(* list freeDiameter may offer and every width of int.                     *)
(***************************************************************************)
EXTENDS DraRouting, WellFoundedInduction, TLAPS

-----------------------------------------------------------------------------
(* Operators of the callback.                                              *)

\* A candidate that is not to be used has a negative score.
LEMMA NoDeliveryNegative ==
  ASSUME NEW score \in Int
  PROVE  NoDelivery(score) \in Int /\ NoDelivery(score) < 0
BY DEF NoDelivery

\* As long as priorities fit an int, the score falls as the priority grows.
LEMMA ScoreFalls ==
  ASSUME NEW p \in 0..IntMax, NEW q \in 0..IntMax, p < q
  PROVE  Score(p) > Score(q)
BY IntsAreWide DEF Score, Wrap, ToInt

\* There is at most one route for a request and one peer for an identity.
LEMMA OneRoute ==
  ASSUME NEW c \in Config, NEW req, NEW j, NEW k, IsRoute(c, req, j), IsRoute(c, req, k)
  PROVE  j = k
<1>1. j \in DOMAIN c.routes /\ k \in DOMAIN c.routes
  BY DEF IsRoute, MatchingRoutes
<1>2. Precedes(c.routes, j, k) /\ Precedes(c.routes, k, j)
  BY DEF IsRoute
<1>3. c.routes[j] \in Route /\ c.routes[k] \in Route /\ j \in Nat /\ k \in Nat
  BY <1>1 DEF Config
<1>4. c.routes[j].priority \in Nat /\ c.routes[k].priority \in Nat
  BY <1>3 DEF Route
<1>. QED  BY <1>2, <1>3, <1>4 DEF Precedes

LEMMA OnePeer ==
  ASSUME NEW c \in Config, NEW id, NEW j, NEW k, IsPeerOf(c, id, j), IsPeerOf(c, id, k)
  PROVE  j = k
<1>1. j \in Nat /\ k \in Nat
  BY DEF IsPeerOf, Config
<1>2. j <= k /\ k <= j
  BY DEF IsPeerOf
<1>. QED  BY <1>1, <1>2

-----------------------------------------------------------------------------
(* What `last' holds was computed with the snapshot that is in place.      *)

LastRouted ==
  /\ snapshot \in Context
  /\ snapshot \in Contexts \union {EmptyContext}
  /\ \/ last = Nothing
     \/ \E req \in Requests, offer \in Offers :
          last = [req |-> req, before |-> offer, after |-> Routed(req, offer)]

LEMMA EmptyIsContext == EmptyContext \in Context
BY DEF EmptyContext, Context, Config

LEMMA LastRoutedInvariant == Spec => []LastRouted
<1>1. Init => LastRouted
  BY EmptyIsContext DEF Init, LastRouted
<1>2. LastRouted /\ [Next]_routingVars => LastRouted'
  <2>. SUFFICES ASSUME LastRouted, [Next]_routingVars PROVE LastRouted'
    OBVIOUS
  <2>1. CASE Register \/ UpdateRouting \/ Unregister
    <3>1. last' = Nothing /\ snapshot' \in Contexts \union {EmptyContext}
      BY <2>1 DEF Register, UpdateRouting, Unregister
    <3>. QED  BY <3>1, ContextsAreContexts, EmptyIsContext DEF LastRouted
  <2>2. CASE RtOut
    <3>1. PICK req \in Requests, offer \in Offers :
            last' = [req |-> req, before |-> offer, after |-> Routed(req, offer)]
      BY <2>2 DEF RtOut
    <3>2. UNCHANGED <<valid, snapshot>>
      BY <2>2 DEF RtOut
    <3>3. Routed(req, offer)' = Routed(req, offer)
      BY <3>2 DEF Routed
    <3>. QED  BY <3>1, <3>2, <3>3 DEF LastRouted
  <2>3. CASE UNCHANGED routingVars
    <3>1. UNCHANGED <<valid, snapshot, last>>
      BY <2>3 DEF routingVars
    <3>2. \A req, offer : Routed(req, offer)' = Routed(req, offer)
      BY <3>1 DEF Routed
    <3>. QED  BY <3>1, <3>2 DEF LastRouted
  <2>. QED  BY <2>1, <2>2, <2>3 DEF Next
<1>. QED  BY <1>1, <1>2, PTL DEF Spec

\* diameter.c:391-415 and 818-941.  The snapshot is always a whole context, and a
\* callback gives a score to every candidate it was offered and to no other.
THEOREM TypeAlwaysOK == Spec => []TypeOK
<1>. DEFINE Flags == registered \in BOOLEAN /\ valid \in BOOLEAN
<1>1. Init => Flags
  BY DEF Init
<1>2. Flags /\ [Next]_routingVars => Flags'
  BY DEF Next, Register, UpdateRouting, RtOut, Unregister, routingVars
<1>3. LastRouted => DOMAIN last.after = DOMAIN last.before
  BY DEF LastRouted, Routed, Nothing
<1>4. Flags /\ LastRouted => TypeOK
  BY <1>3 DEF LastRouted, TypeOK
<1>. QED  BY <1>1, <1>2, <1>4, LastRoutedInvariant, PTL DEF Spec

\* A candidate is delivered to only if it is eligible, with its peer's score.
LEMMA DeliveredIsEligible ==
  ASSUME LastRouted, NEW id \in Delivered
  PROVE  /\ last.req.realm # NoRealm
         /\ \E r \in DOMAIN snapshot.cfg.routes, k \in DOMAIN snapshot.cfg.peers :
              /\ Eligible(snapshot, last.req, id, r, k)
              /\ last.after[id] = Score(snapshot.cfg.peers[k].priority)
<1>1. last # Nothing
  BY DEF Delivered, Nothing
<1>2. PICK req \in Requests, offer \in Offers :
        last = [req |-> req, before |-> offer, after |-> Routed(req, offer)]
  BY <1>1 DEF LastRouted
<1>3. id \in DOMAIN offer /\ offer[id] \in Int
  BY <1>2, OffersAreScores DEF Delivered, Routed
<1>4. Routed(req, offer)[id] >= 0
  BY <1>2 DEF Delivered
<1>5. Routed(req, offer)[id] = IF req.realm = NoRealm \/ ~valid THEN NoDelivery(offer[id])
                               ELSE Rescored(snapshot, req, id, offer[id])
  BY <1>3 DEF Routed
<1>6. req.realm # NoRealm /\ Rescored(snapshot, req, id, offer[id]) >= 0
      /\ Routed(req, offer)[id] = Rescored(snapshot, req, id, offer[id])
  BY <1>3, <1>4, <1>5, NoDeliveryNegative
<1>7. PICK r \in DOMAIN snapshot.cfg.routes, k \in DOMAIN snapshot.cfg.peers :
        Eligible(snapshot, req, id, r, k)
  BY <1>3, <1>6, NoDeliveryNegative DEF Rescored
<1>8. (CHOOSE n \in DOMAIN snapshot.cfg.peers : IsPeerOf(snapshot.cfg, id, n)) = k
  <2>1. snapshot.cfg \in Config
    BY DEF LastRouted, Context
  <2>2. IsPeerOf(snapshot.cfg, id, k)
    BY <1>7 DEF Eligible
  <2>. QED  BY <2>1, <2>2, OnePeer
<1>9. Rescored(snapshot, req, id, offer[id]) = Score(snapshot.cfg.peers[k].priority)
  BY <1>7, <1>8 DEF Rescored
<1>. QED  BY <1>2, <1>6, <1>7, <1>9

-----------------------------------------------------------------------------
\* diameter.c:459 and :888.  Nothing is delivered unless an enabled relay route
\* for the request's realm and application says so.
THEOREM RoutingFailsClosed == Spec => []FailsClosed
<1>1. LastRouted => FailsClosed
  <2>. SUFFICES ASSUME LastRouted, NEW id \in Delivered
       PROVE \E k \in DOMAIN snapshot.cfg.routes :
          /\ snapshot.cfg.routes[k].enabled /\ snapshot.cfg.routes[k].action = "relay"
          /\ snapshot.cfg.routes[k].app = last.req.app
          /\ last.req.realm # NoRealm
          /\ RealmCanon[snapshot.cfg.routes[k].realm] = RealmCanon[last.req.realm]
    BY DEF FailsClosed
  <2>. QED  BY DeliveredIsEligible DEF Eligible, IsRoute, MatchingRoutes
<1>. QED  BY <1>1, LastRoutedInvariant, PTL

\* diameter.c:509.  With a Destination-Host no other peer is tried, and that one
\* only when it belongs to the group its realm is routed to.
THEOREM HostAlwaysAuthoritative == Spec => []HostIsAuthoritative
<1>1. LastRouted => HostIsAuthoritative
  <2>. SUFFICES ASSUME LastRouted, last.req.host # NoHost, NEW id \in Delivered
       PROVE /\ Canon[id] = Canon[last.req.host]
             /\ \A r \in DOMAIN snapshot.cfg.routes, k \in DOMAIN snapshot.cfg.peers :
                  IsRoute(snapshot.cfg, last.req, r) /\ IsPeerOf(snapshot.cfg, id, k) =>
                    snapshot.cfg.peers[k].group = snapshot.cfg.routes[r].group
    BY DEF HostIsAuthoritative
  <2>1. snapshot.cfg \in Config
    BY DEF LastRouted, Context
  <2>2. PICK r \in DOMAIN snapshot.cfg.routes, k \in DOMAIN snapshot.cfg.peers :
          Eligible(snapshot, last.req, id, r, k)
    BY DeliveredIsEligible
  <2>3. Canon[id] = Canon[last.req.host]
    BY <2>2 DEF Eligible, Wants
  <2>4. ASSUME NEW s \in DOMAIN snapshot.cfg.routes, NEW n \in DOMAIN snapshot.cfg.peers,
               IsRoute(snapshot.cfg, last.req, s), IsPeerOf(snapshot.cfg, id, n)
        PROVE  snapshot.cfg.peers[n].group = snapshot.cfg.routes[s].group
    <3>1. s = r /\ n = k
      BY <2>1, <2>2, <2>4, OneRoute, OnePeer DEF Eligible
    <3>. QED  BY <2>2, <3>1 DEF Eligible, Serves
  <2>. QED  BY <2>3, <2>4
<1>. QED  BY <1>1, LastRoutedInvariant, PTL

\* diameter.c:546.  Lower configured priority wins, whatever freeDiameter had
\* scored, provided every configured priority fits an int; DraPriority.cfg shows
\* that the proviso is needed.
THEOREM LowerPriorityAlwaysWins ==
  ASSUME \A x \in Contexts : \A p \in PeersOf(x.cfg) : p.priority <= IntMax
  PROVE  Spec => []LowerPriorityWins
<1>1. LastRouted => LowerPriorityWins
  <2>. SUFFICES ASSUME LastRouted, NEW i \in Delivered, NEW j \in Delivered,
                       NEW m \in DOMAIN snapshot.cfg.peers, NEW n \in DOMAIN snapshot.cfg.peers,
                       IsPeerOf(snapshot.cfg, i, m), IsPeerOf(snapshot.cfg, j, n),
                       snapshot.cfg.peers[m].priority < snapshot.cfg.peers[n].priority
       PROVE  last.after[i] > last.after[j]
    BY DEF LowerPriorityWins
  <2>1. snapshot.cfg \in Config /\ snapshot.cfg.peers \in Seq(Peer)
    BY DEF LastRouted, Context, Config
  <2>2. last.after[i] = Score(snapshot.cfg.peers[m].priority)
    BY <2>1, DeliveredIsEligible, OnePeer DEF Eligible
  <2>3. last.after[j] = Score(snapshot.cfg.peers[n].priority)
    BY <2>1, DeliveredIsEligible, OnePeer DEF Eligible
  <2>4. ASSUME NEW k \in DOMAIN snapshot.cfg.peers
        PROVE  snapshot.cfg.peers[k].priority \in 0..IntMax
    <3>1. snapshot.cfg.peers[k] \in PeersOf(snapshot.cfg)
      BY DEF PeersOf
    <3>2. snapshot # EmptyContext
      BY DEF EmptyContext
    <3>3. snapshot \in Contexts
      BY <3>2 DEF LastRouted
    <3>4. snapshot.cfg.peers[k].priority \in Nat
      <4>1. snapshot.cfg.peers[k] \in Peer
        BY <2>1
      <4>. QED  BY <4>1 DEF Peer
    <3>. QED  BY <3>1, <3>3, <3>4, IntsAreWide
  <2>. QED  BY <2>2, <2>3, <2>4, ScoreFalls
<1>. QED  BY <1>1, LastRoutedInvariant, PTL

-----------------------------------------------------------------------------
(* The other way round: what is eligible is delivered.                     *)

\* Up to ScoreBase a priority gives a score that is not negative, and the score
\* does not grow with the priority.
LEMMA ScoreServes ==
  ASSUME NEW p \in 0..ScoreBase, NEW q \in 0..ScoreBase, p <= q
  PROVE  Score(p) \in Nat /\ Score(q) \in Nat /\ Score(p) >= Score(q)
BY IntsAreWide DEF Score, Wrap, ToInt

LEMMA EligibleIsDelivered ==
  ASSUME LastRouted, valid \/ last = Nothing, NEW id \in DOMAIN last.after, last.req.realm # NoRealm,
         NEW r \in DOMAIN snapshot.cfg.routes, NEW k \in DOMAIN snapshot.cfg.peers,
         Eligible(snapshot, last.req, id, r, k), snapshot.cfg.peers[k].priority <= ScoreBase
  PROVE  id \in Delivered /\ last.after[id] = Score(snapshot.cfg.peers[k].priority)
<1>1. last # Nothing
  BY DEF Nothing
<1>2. PICK req \in Requests, offer \in Offers :
        last = [req |-> req, before |-> offer, after |-> Routed(req, offer)]
  BY <1>1 DEF LastRouted
<1>3. last.after[id] = Rescored(snapshot, req, id, offer[id])
  BY <1>1, <1>2 DEF Routed
<1>4. snapshot.cfg \in Config
  BY DEF LastRouted, Context
<1>5. (CHOOSE n \in DOMAIN snapshot.cfg.peers : IsPeerOf(snapshot.cfg, id, n)) = k
  <2>1. IsPeerOf(snapshot.cfg, id, k)
    BY DEF Eligible
  <2>. QED  BY <1>4, <2>1, OnePeer
<1>6. last.after[id] = Score(snapshot.cfg.peers[k].priority)
  BY <1>2, <1>3, <1>5 DEF Rescored
<1>7. snapshot.cfg.peers[k].priority \in 0..ScoreBase
  <2>1. snapshot.cfg.peers[k] \in Peer
    BY <1>4 DEF Config
  <2>. QED  BY <2>1, IntsAreWide DEF Peer
<1>. QED  BY <1>6, <1>7, ScoreServes DEF Delivered

\* A request is only ever routed with a valid snapshot.
LEMMA RoutedIsValid == Spec => [](registered => valid) /\ [](valid \/ last = Nothing)
<1>. DEFINE Inv == (registered => valid) /\ (valid \/ last = Nothing)
<1>1. Init => Inv
  BY DEF Init
<1>2. Inv /\ [Next]_routingVars => Inv'
  BY DEF Next, Register, UpdateRouting, RtOut, Unregister, routingVars
<1>. QED  BY <1>1, <1>2, PTL DEF Spec

\* diameter.c:508-536.  A Destination-Host that policy allows and that is open is
\* reached, for every snapshot and every list of candidates.
THEOREM HostAlwaysReached == Spec => []HostIsReached
<1>1. LastRouted /\ (valid \/ last = Nothing) => HostIsReached
  <2>. SUFFICES ASSUME LastRouted, valid \/ last = Nothing,
                       NEW r \in DOMAIN snapshot.cfg.routes, NEW k \in DOMAIN snapshot.cfg.peers,
                       last.req.host # NoHost, last.req.realm # NoRealm,
                       IsRoute(snapshot.cfg, last.req, r), snapshot.cfg.routes[r].action = "relay",
                       IsPeerOf(snapshot.cfg, last.req.host, k),
                       Serves(snapshot, snapshot.cfg.routes[r], k),
                       snapshot.cfg.peers[k].priority <= ScoreBase,
                       NEW id \in DOMAIN last.after, Canon[id] = Canon[last.req.host]
       PROVE  id \in Delivered
    BY DEF HostIsReached
  <2>1. IsPeerOf(snapshot.cfg, id, k)
    BY DEF IsPeerOf
  <2>2. Eligible(snapshot, last.req, id, r, k)
    BY <2>1 DEF Eligible, Wants
  <2>. QED  BY <2>2, EligibleIsDelivered
<1>. QED  BY <1>1, LastRoutedInvariant, RoutedIsValid, PTL

-----------------------------------------------------------------------------
(* The callback and dra_peer_select().                                     *)

LEMMA LeastNatural ==
  ASSUME NEW S \in SUBSET Nat, S # {}
  PROVE  \E n \in S : \A m \in S : n <= m
<1>1. PICK n \in S : \A m \in S : ~(<<m, n>> \in OpToRel(<, Nat))
  BY NatLessThanWellFounded, WFMin
<1>2. \A m \in S : ~(m < n)
  BY <1>1 DEF OpToRel
<1>. QED  BY <1>2

\* If peers serve a route, dra_peer_select() names one.
LEMMA SomePeerSelected ==
  ASSUME NEW x \in Context, NEW route, NEW k \in DOMAIN x.cfg.peers, Serves(x, route, k)
  PROVE  \E b \in DOMAIN x.cfg.peers : IsSelected(x, route, b)
<1>. DEFINE serving == {j \in DOMAIN x.cfg.peers : Serves(x, route, j)}
            prio(j) == x.cfg.peers[j].priority
<1>1. /\ DOMAIN x.cfg.peers \subseteq Nat
      /\ \A j \in DOMAIN x.cfg.peers : prio(j) \in Nat
  <2>1. x.cfg.peers \in Seq(Peer)
    BY DEF Context, Config
  <2>2. \A j \in DOMAIN x.cfg.peers : x.cfg.peers[j] \in Peer
    BY <2>1
  <2>. QED  BY <2>1, <2>2 DEF Peer
<1>2. PICK p \in {prio(j) : j \in serving} : \A q \in {prio(j) : j \in serving} : p <= q
  <2>1. {prio(j) : j \in serving} \in SUBSET Nat /\ {prio(j) : j \in serving} # {}
    BY <1>1
  <2>. QED  BY <2>1, LeastNatural
<1>3. PICK b \in {j \in serving : prio(j) = p} : \A m \in {j \in serving : prio(j) = p} : b <= m
  <2>1. /\ {j \in serving : prio(j) = p} \in SUBSET Nat
        /\ {j \in serving : prio(j) = p} # {}
    BY <1>1, <1>2
  <2>. QED  BY <2>1, LeastNatural
<1>4. ASSUME NEW j \in serving
      PROVE  Precedes(x.cfg.peers, b, j)
  <2>1. b \in serving /\ prio(b) = p
    BY <1>3
  <2>2. prio(b) \in Nat /\ prio(j) \in Nat /\ prio(b) <= prio(j)
    BY <1>1, <1>2, <2>1
  <2>3. CASE prio(j) = prio(b)
    <3>1. b <= j
      BY <1>3, <2>1, <2>3
    <3>. QED  BY <2>3, <3>1 DEF Precedes
  <2>4. CASE prio(j) # prio(b)
    <3>1. prio(b) < prio(j)
      BY <2>2, <2>4
    <3>. QED  BY <3>1 DEF Precedes
  <2>. QED  BY <2>3, <2>4
<1>. QED  BY <1>3, <1>4 DEF IsSelected

NoTwins(c) == \A j, k \in DOMAIN c.peers : j # k => Canon[c.peers[j].id] # Canon[c.peers[k].id]

\* routing.c:68 and diameter.c:418 decide alike, for every snapshot without case twins
\* whose priorities do not exceed ScoreBase.
THEOREM CallbackAgreesWithSelect ==
  ASSUME \A x \in Contexts : /\ NoTwins(x.cfg)
                             /\ \A k \in DOMAIN x.cfg.peers : x.cfg.peers[k].priority <= ScoreBase
  PROVE  Spec => []AgreesWithSelect
<1>1. LastRouted /\ (valid \/ last = Nothing) => AgreesWithSelect
  <2>. SUFFICES ASSUME LastRouted, valid \/ last = Nothing,
                       NEW r \in DOMAIN snapshot.cfg.routes,
                       last.req.realm # NoRealm, last.req.host = NoHost,
                       IsRoute(snapshot.cfg, last.req, r)
       PROVE LET route == snapshot.cfg.routes[r]
                 best  == {k \in DOMAIN snapshot.cfg.peers : IsSelected(snapshot, route, k)}
             IN  IF route.action # "relay" \/ best = {} THEN Delivered = {}
                 ELSE \A k \in best, id \in DOMAIN last.after :
                        Canon[id] = Canon[snapshot.cfg.peers[k].id] =>
                          /\ id \in Delivered
                          /\ \A other \in Delivered : last.after[other] <= last.after[id]
    BY DEF AgreesWithSelect
  <2>. DEFINE peers == snapshot.cfg.peers
              route == snapshot.cfg.routes[r]
              best  == {k \in DOMAIN peers : IsSelected(snapshot, route, k)}
  <2>1. snapshot \in Context /\ snapshot.cfg \in Config /\ peers \in Seq(Peer)
    BY DEF LastRouted, Context, Config
  <2>2. snapshot \in Contexts
    BY DEF LastRouted, EmptyContext
  <2>3. \A k \in DOMAIN peers : peers[k].priority \in 0..ScoreBase
    <3>1. \A k \in DOMAIN peers : peers[k] \in Peer
      BY <2>1
    <3>. QED  BY <2>2, <3>1, IntsAreWide DEF Peer
  <2>4. ASSUME NEW id \in Delivered
        PROVE  /\ route.action = "relay"
               /\ \E k \in DOMAIN peers : /\ Serves(snapshot, route, k)
                                          /\ last.after[id] = Score(peers[k].priority)
    <3>1. PICK s \in DOMAIN snapshot.cfg.routes, k \in DOMAIN peers :
            /\ Eligible(snapshot, last.req, id, s, k)
            /\ last.after[id] = Score(peers[k].priority)
      BY DeliveredIsEligible
    <3>2. s = r
      BY <2>1, <3>1, OneRoute DEF Eligible
    <3>. QED  BY <3>1, <3>2 DEF Eligible
  <2>5. CASE route.action # "relay" \/ best = {}
    <3>1. Delivered = {}
      BY <2>1, <2>4, <2>5, SomePeerSelected
    <3>. QED  BY <2>5, <3>1
  <2>6. CASE ~(route.action # "relay" \/ best = {})
    <3>1. ASSUME NEW k \in best, NEW id \in DOMAIN last.after, Canon[id] = Canon[peers[k].id]
          PROVE  /\ id \in Delivered
                 /\ \A other \in Delivered : last.after[other] <= last.after[id]
      <4>1. Serves(snapshot, route, k)
        BY DEF IsSelected
      <4>2. IsPeerOf(snapshot.cfg, id, k)
        <5>1. \A j \in DOMAIN peers : Canon[peers[j].id] = Canon[id] => j = k
          BY <2>2, <3>1 DEF NoTwins
        <5>2. k \in Nat
          BY <2>1
        <5>. QED  BY <3>1, <5>1, <5>2 DEF IsPeerOf
      <4>3. Eligible(snapshot, last.req, id, r, k)
        BY <2>6, <4>1, <4>2 DEF Eligible, Wants
      <4>4. id \in Delivered /\ last.after[id] = Score(peers[k].priority)
        BY <2>3, <4>3, EligibleIsDelivered
      <4>5. ASSUME NEW other \in Delivered
            PROVE  last.after[other] <= last.after[id]
        <5>1. PICK j \in DOMAIN peers : /\ Serves(snapshot, route, j)
                                        /\ last.after[other] = Score(peers[j].priority)
          BY <2>4
        <5>2. peers[k].priority <= peers[j].priority
          BY <2>3, <5>1 DEF IsSelected, Precedes
        <5>3. Score(peers[k].priority) >= Score(peers[j].priority)
              /\ Score(peers[k].priority) \in Nat /\ Score(peers[j].priority) \in Nat
          BY <2>3, <5>2, ScoreServes
        <5>. QED  BY <4>4, <5>1, <5>3
      <4>. QED  BY <4>4, <4>5
    <3>. QED  BY <2>6, <3>1
  <2>. QED  BY <2>5, <2>6
<1>. QED  BY <1>1, LastRoutedInvariant, RoutedIsValid, PTL
=============================================================================
