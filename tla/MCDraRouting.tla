----------------------------- MODULE MCDraRouting -----------------------------
(***************************************************************************)
(* Ints of five bits for TLC: ints -16..15, priorities 0..31, 1000000      *)
(* scaled to 11.  Two peers, in one group or two, in any run-time state;   *)
(* two routes for the realm, of any action, enabled or not.                *)
(***************************************************************************)
EXTENDS DraRouting, TLC

MCNames      == {"a", "b"}
MCIds        == {"X", "x", "Y"}
MCCanon      == ("X" :> "x") @@ ("x" :> "x") @@ ("Y" :> "y")
MCRealms     == {"Net", "net", "other"}
MCRealmCanon == ("Net" :> "net") @@ ("net" :> "net") @@ ("other" :> "other")
MCEndpoints  == {"e1"}
MCGroups     == {"g", "h"}
MCApps       == {"s6a", "gx"}
MCLocals     == {"dra01"}

P(n, i, on, grp, prio) ==
  [name |-> n, id |-> i, ep |-> "e1", enabled |-> on, group |-> grp, priority |-> prio]

R(realm, grp, prio, act, on) ==
  [realm |-> realm, app |-> "s6a", group |-> grp, priority |-> prio,
   action |-> act, enabled |-> on]

Ctx(ps, rs, states) ==
  [gen |-> 1, rt |-> states,
   cfg |-> [parses |-> TRUE, local |-> "dra01", peers |-> ps, routes |-> rs]]

RouteLists ==
  {<<R("Net", "g", 1, "relay", TRUE), R("net", "h", 0, "relay", FALSE)>>,
   <<R("Net", "g", 1, "relay", TRUE), R("net", "h", 1, "relay", TRUE)>>,
   <<R("Net", "g", 1, "proxy", TRUE), R("net", "g", 2, "relay", TRUE)>>}

ContextsWith(priorities) ==
  {Ctx(<<P("a", "X", TRUE, "g", p), P("b", "Y", on, "g", q)>>, rs, <<s, t>>) :
     p \in priorities, q \in priorities, on \in BOOLEAN, rs \in RouteLists,
     s \in {"open", "connecting"}, t \in {"open", "down"}}
  \union
  {Ctx(<<P("a", "X", TRUE, "g", 1), P("b", "Y", TRUE, "h", 2)>>, rs, <<s, t>>) :
     rs \in RouteLists, s \in {"open", "connecting"}, t \in {"open", "down"}}

SmallPriorities == {0, 1, 11}
AnyPriority     == {1, 12, 31}

MCContexts    == ContextsWith(SmallPriorities)
MCAnyContexts == ContextsWith(AnyPriority)

\* freeDiameter's spelling of an identity may differ from the file's.
MCOffers == {("X" :> 3) @@ ("Y" :> 14), ("x" :> -2) @@ ("Y" :> 0)}
=============================================================================
