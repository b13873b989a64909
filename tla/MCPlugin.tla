------------------------------- MODULE MCPlugin -------------------------------
(***************************************************************************)
(* A plugin with two profiles, one subscriber and one key pair as          *)
(* installed; any MaxRequests of the requests below.  The daemons are one  *)
(* of 4G only, one of 5G SA only, one of every network, and the one that   *)
(* configd knows nothing of.                                               *)
(***************************************************************************)
EXTENDS Plugin, TLC

CONSTANTS c1, c2, s1, s2, k1, k2

MCClerks    == {c1, c2}
MCSwitchers == {s1, s2}
MCKeyMakers == {k1, k2}
MCRequests  == MCClerks \union MCSwitchers \union MCKeyMakers
Symmetry    == Permutations(MCClerks) \union Permutations(MCSwitchers) \union Permutations(MCKeyMakers)

P(apn, terms) == [apn |-> apn, terms |-> terms]

MCProfiles    == ("u1" :> P("internet", "slow")) @@ ("u2" :> P("ims", "slow")) @@ ("u3" :> None)
MCSubscribers == ("i1" :> [key |-> "x1", sessions |-> {P("internet", "slow")}]) @@ ("i2" :> None)
MCHnet        == <<[id |-> 2, scheme |-> 1]>>

SubscriberJobs ==
  {[op |-> "add", imsi |-> i, key |-> "x2", uuids |-> {u}] : i \in {"i1", "i2"}, u \in {"u2", "u3"}}
  \union {[op |-> "set", imsi |-> i, uuids |-> us] : i \in {"i1", "i2"}, us \in {{"u1", "u2"}, {"u3"}, {}}}
  \union {[op |-> "del", imsi |-> "i1"],
          [op |-> "bulk", uuids |-> {"u1"}, rows |-> <<[imsi |-> "i1", key |-> "x2"],
                                                       [imsi |-> "i2", key |-> "x1"]>>]}

ProfileJobs ==
  {[op |-> "setProfile", uuid |-> "u1", profile |-> p] : p \in {P("internet", "fast"), P("web", "slow")}}
  \union {[op |-> "addProfile", uuid |-> "u3", profile |-> P(apn, "slow")] : apn \in {"internet", "web"}}
  \union {[op |-> "deleteProfile", uuid |-> u] : u \in {"u1", "u2"}}
  \union {[op |-> "addBulk"]}

MCJobs == SubscriberJobs \union ProfileJobs

Switches == {[op |-> "switch", network |-> n] : n \in Networks}
MCOrders == Switches \union {[op |-> "start", daemon |-> "mmed"], [op |-> "stop", daemon |-> "amfd"],
                             [op |-> "restart", daemon |-> "upfd"]}

\* The tables agree for these daemons, and for all that there are.
AllDaemons == {FourG[i] : i \in DOMAIN FourG} \union {FiveG[i] : i \in DOMAIN FiveG}
Complete   == INSTANCE NetworkSwitch WITH Daemons <- AllDaemons

ASSUME MCTablesAgree == TablesAgree /\ Complete!TablesAgree

MCFlags   == {{}, {"enablefour"}}
MCDaemons == {"mmed", "amfd", "upfd", "sepp"}
===============================================================================
