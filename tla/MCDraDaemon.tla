----------------------------- MODULE MCDraDaemon -----------------------------
(***************************************************************************)
(* Small configurations for TLC.  Two peers are enough for every kind of   *)
(* change: replaced, renamed, swapped, respelled, disabled, re-enabled,    *)
(* removed, added, kept, and re-prioritised.                               *)
(***************************************************************************)
EXTENDS DraDaemon, TLC

MCNames     == {"a", "b"}
MCIds       == {"X", "x", "Y"}
MCCanon     == ("X" :> "x") @@ ("x" :> "x") @@ ("Y" :> "y")
MCEndpoints == {"e1", "e2", "bad"}
MCGood      == {"e1", "e2"}
MCGroups    == {"g"}
MCRealms    == {"r"}
MCApps      == {"s6a"}
MCLocals    == {"dra01"}

P(n, i, e, on, prio) ==
  [name |-> n, id |-> i, ep |-> e, enabled |-> on, group |-> "g", priority |-> prio]

TheRoute == [realm |-> "r", app |-> "s6a", group |-> "g", priority |-> 1,
             action |-> "relay", enabled |-> TRUE]

C(ps) == [parses |-> TRUE, local |-> "dra01", peers |-> ps, routes |-> <<TheRoute>>]

Base      == C(<<P("a", "X", "e1", TRUE, 1), P("b", "Y", "e1", TRUE, 2)>>)
Replaced  == C(<<P("a", "X", "e2", TRUE, 1), P("b", "Y", "e1", TRUE, 2)>>)
Swapped   == C(<<P("b", "X", "e1", TRUE, 1), P("a", "Y", "e1", TRUE, 2)>>)
Respelled == C(<<P("a", "x", "e1", TRUE, 1), P("b", "Y", "e1", FALSE, 2)>>)
Policy    == C(<<P("a", "X", "e1", TRUE, 2), P("b", "Y", "e1", TRUE, 1)>>)
BadPeer   == C(<<P("a", "X", "bad", TRUE, 1)>>)
Removed   == C(<<P("b", "Y", "e1", TRUE, 2)>>)
CaseTwins == C(<<P("a", "X", "e1", TRUE, 1), P("b", "x", "e2", TRUE, 2)>>)
OnlyA     == C(<<P("a", "X", "e1", TRUE, 1)>>)
Moved     == C(<<P("a", "X", "e2", TRUE, 1)>>)
Shifted   == C(<<P("b", "Y", "e1", TRUE, 1), P("a", "X", "e1", TRUE, 2)>>)

ReconcileFiles == {Base, Replaced, Swapped, Respelled, Policy, BadPeer}
RuntimeFiles == {OnlyA, Moved, Shifted}
CaseFiles == {OnlyA, CaseTwins}
DamageFiles == {Base, OnlyA, Removed, Swapped}
LivenessFiles == {OnlyA, Replaced}
=============================================================================
