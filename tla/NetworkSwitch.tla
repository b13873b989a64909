---------------------------- MODULE NetworkSwitch -----------------------------
(***************************************************************************)
(* Switching the network and starting and stopping its daemons             *)
(* (ServiceController.php, GeneralController.php, reconfigure.py, the      *)
(* rc.conf template and the rc.d scripts).                                 *)
(*                                                                         *)
(* Switching takes two requests of the browser: setAction() saves the      *)
(* form and kills the daemons whose configuration it rewrites;             *)
(* reconfigureActAction() saves the choice, generates rc.conf from         *)
(* config.xml, and stops and starts the daemons one by one, ignoring what  *)
(* becomes of each.  Nothing keeps two switches apart.                     *)
(*                                                                         *)
(* Of rc.subr: start does nothing unless rc.conf enables the daemon; stop  *)
(* ends a running daemon in any case.  The contents of the daemons'        *)
(* configuration files and MongoDB, which is only ever started, are left   *)
(* out.                                                                    *)
(***************************************************************************)
EXTENDS OpncellConfig, Sequences

CONSTANTS Switchers,   \* the requests of this module
          Daemons,     \* the daemons considered
          Orders       \* what a switcher may ask for

ASSUME SwitchersAssumption == Switchers \subseteq Requests /\ Daemons # {}
ASSUME OrdersAssumption ==
  \A order \in Orders : \/ order.op = "switch" /\ order.network \in Networks
                        \/ order.op \in {"start", "stop", "restart"} /\ order.daemon \in Daemons

VARIABLES running,   \* daemons that run
          rcconf,    \* daemons that rc.conf enables
          nreq       \* the switchers' requests

switchVars == <<running, rcconf, nreq>>

IdleSwitcher == [order |-> None, at |-> "idle", copy |-> None, left |-> <<>>]

SwitchBusy == {s \in Switchers : nreq[s].at \notin {"idle", "done"}}
SwitchUsed == {s \in Switchers : nreq[s].at # "idle"}

-----------------------------------------------------------------------------
FourG == <<"hssd", "mmed", "pcrfd", "sgwud", "sgwcd", "smfd", "upfd", "scpd", "nrfd">>
FiveG == <<"nrfd", "scpd", "amfd", "smfd", "upfd", "ausfd", "udmd", "udrd", "pcfd",
           "nssfd", "bsfd", "sepp">>

\* All daemons in the order the service mapping first names them.
AllServices == SelectSeq(FourG \o <<"amfd", "ausfd", "udmd", "udrd", "pcfd", "nssfd", "bsfd", "sepp">>,
                         LAMBDA d : d \in Daemons)

ServiceMapping(network) ==
  SelectSeq(CASE network = "enablefiveSA" -> FiveG
              [] network = "enableupf"    -> <<"upfd">>
              [] OTHER                    -> FourG,
            LAMBDA d : d \in Daemons)

Services(network) == {ServiceMapping(network)[i] : i \in DOMAIN ServiceMapping(network)}

\* Daemons configd has actions for; a command for another one does nothing.
Startable == Daemons \ {"sepp"}

\* Daemons whose configuration reconfigure.py rewrites.
Configurable(network) ==
  CASE network = "enablefiveSA" -> {"amfd", "upfd", "nrfd"}
    [] network = "enableupf"    -> {"upfd", "amfd"}
    [] OTHER                    -> {"mmed", "sgwud"}

\* The rc.conf template.
EnabledBy(flags) ==
  {d \in Startable :
     CASE d \in {"hssd", "mmed", "pcrfd", "sgwcd", "sgwud"} ->
            flags \cap {"enablefour", "enablefiveNSA"} # {}
       [] d \in {"amfd", "ausfd", "nssfd", "pcfd", "udmd", "udrd"} ->
            flags \cap {"enablefiveSA", "enableupf"} # {}
       [] d \in {"nrfd", "scpd"} -> flags \cap {"enablefour", "enablefiveNSA", "enablefiveSA"} # {}
       [] d = "bsfd"             -> "enablefiveSA" \in flags
       [] OTHER                  -> flags # {}}

\* No network was chosen yet, or one is in service.
SwitchInit ==
  /\ rcconf = EnabledBy(config.flags)
  /\ running = (UNION {Services(n) : n \in config.flags}) \cap Startable
  /\ nreq = [s \in Switchers |-> IdleSwitcher]

Commands == [do : {"stop", "start"}, daemon : Daemons]
Command(do, d) == [do |-> do, daemon |-> d]

\* The daemons of other networks only.
Others(network) == SelectSeq(AllServices, LAMBDA d : d \notin Services(network))

\* manageNetworkServices(): stop all daemons of other networks, then stop and start
\* each of this one.
ManageNetworkServices(network) ==
  LET services == ServiceMapping(network)
      others   == Others(network)
  IN [i \in 1..Len(others) |-> Command("stop", others[i])] \o
     [i \in 1..2 * Len(services) |->
        Command(IF i % 2 = 1 THEN "stop" ELSE "start", services[(i + 1) \div 2])]

\* What the tables have to agree on: a network names its daemons once, every daemon is
\* of this network or among the others, and rc.conf enables what the networks in
\* service need.
TablesAgree ==
  /\ \A network \in Networks :
       /\ {ServiceMapping(network), Others(network)} \subseteq Seq(Daemons)
       /\ \A i, j \in DOMAIN ServiceMapping(network) :
            ServiceMapping(network)[i] = ServiceMapping(network)[j] => i = j
       /\ {Others(network)[i] : i \in DOMAIN Others(network)} = Daemons \ Services(network)
  /\ \A flags \in SUBSET Networks : (UNION {Services(n) : n \in flags}) \cap Startable \subseteq EnabledBy(flags)

\* restartAction() and editServerConfigAction() stop and start one daemon.
SingleCommands(order) ==
  IF order.op = "restart" THEN <<Command("stop", order.daemon), Command("start", order.daemon)>>
  ELSE <<Command(order.op, order.daemon)>>

-----------------------------------------------------------------------------
Request(s) ==
  /\ nreq[s].at = "idle"
  /\ \E order \in Orders :
       nreq' = [nreq EXCEPT ![s] =
         [order |-> order, copy |-> config,
          at    |-> IF order.op = "switch" THEN "set" ELSE "commands",
          left  |-> IF order.op = "switch" THEN <<>> ELSE SingleCommands(order)]]
  /\ UNCHANGED <<configVars, running, rcconf>>

Advance(s, at) == nreq' = [nreq EXCEPT ![s].at = at]

\* setAction(): the network is added to those enabled.
SetNetworkFlag(s) ==
  /\ nreq[s].at = "set"
  /\ Save(s, [nreq[s].copy EXCEPT !.flags = @ \union {nreq[s].order.network}])
  /\ Advance(s, "configure")
  /\ UNCHANGED <<faulty, running, rcconf>>

\* reconfigure.py kills what it rewrites, unless it fails.
LoadConfiguration(s) ==
  /\ nreq[s].at = "configure"
  /\ \/ running' = running \ Configurable(nreq[s].order.network) /\ UNCHANGED faulty
     \/ UNCHANGED running /\ MayFail(s)
  /\ Advance(s, "answered")
  /\ UNCHANGED <<config, lock, rcconf>>

\* The browser sends the second request when it has the first one's answer, if it is
\* still there.
SendReconfigure(s) ==
  /\ nreq[s].at = "answered"
  /\ \/ nreq' = [nreq EXCEPT ![s].at = "network", ![s].copy = config] /\ UNCHANGED faulty
     \/ Advance(s, "done") /\ MayFail(s)
  /\ UNCHANGED <<config, lock, running, rcconf>>

\* Defect for the checks: the network is added to those enabled.
BugKeepsFlags(s) ==
  /\ nreq[s].at = "network"
  /\ Save(s, [nreq[s].copy EXCEPT !.flags = @ \union {nreq[s].order.network}])
  /\ Advance(s, "template")
  /\ UNCHANGED <<faulty, running, rcconf>>

\* setNetwork(): the network is the only one enabled.
SetNetwork(s) ==
  /\ nreq[s].at = "network"
  /\ Save(s, [nreq[s].copy EXCEPT !.flags = {nreq[s].order.network}])
  /\ Advance(s, "template")
  /\ UNCHANGED <<faulty, running, rcconf>>

\* "template reload": rc.conf is generated from the file as it is now.
ReloadTemplate(s) ==
  /\ nreq[s].at = "template"
  /\ \/ rcconf' = EnabledBy(config.flags) /\ UNCHANGED faulty
     \/ UNCHANGED rcconf /\ MayFail(s)
  /\ nreq' = [nreq EXCEPT ![s].at = "commands",
                          ![s].left = ManageNetworkServices(nreq[s].order.network)]
  /\ UNCHANGED <<config, lock, running>>

\* Defect for the checks: stopping does nothing either unless rc.conf enables the daemon.
BugStopsEnabledOnly(command) ==
  IF command.do = "stop" THEN running \ ({command.daemon} \cap rcconf)
  ELSE running \union ({command.daemon} \cap Startable \cap rcconf)

\* What the next command makes of the daemons that run.
Effect(command) ==
  IF command.do = "stop" THEN running \ {command.daemon}
  ELSE running \union ({command.daemon} \cap Startable \cap rcconf)

\* manageService(): one configd call; whether it worked is not looked at.
ManageService(s) ==
  /\ nreq[s].at = "commands"
  /\ \/ running' = Effect(Head(nreq[s].left)) /\ UNCHANGED faulty
     \/ UNCHANGED running /\ MayFail(s)
  /\ nreq' = [nreq EXCEPT ![s].left = Tail(@),
                          ![s].at = IF Tail(nreq[s].left) = <<>> THEN "done" ELSE @]
  /\ UNCHANGED <<config, lock, rcconf>>

SwitcherStep(s) ==
  \/ Request(s) \/ SetNetworkFlag(s) \/ LoadConfiguration(s) \/ SendReconfigure(s)
  \/ SetNetwork(s) \/ ReloadTemplate(s) \/ ManageService(s)

SwitchNext == \E s \in Switchers : SwitcherStep(s)
===============================================================================
