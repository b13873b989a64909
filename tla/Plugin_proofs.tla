----------------------------- MODULE Plugin_proofs -----------------------------
(***************************************************************************)
(* Proofs about the plugin's requests, for any number of requests of each  *)
(* kind, whatever they ask for and however their calls interleave.         *)
(***************************************************************************)
EXTENDS Plugin, SequenceTheorems, TLAPS

-----------------------------------------------------------------------------
(* What the requests work on is a file that could have been saved: of the  *)
(* right shape, with each APN once.                                        *)

Good(file) ==
  /\ file \in ConfigFile
  /\ \A u \in Uuids : file.profiles[u] # None => Unique(file.profiles, u, file.profiles[u])

ClerksGood ==
  /\ DOMAIN sreq = Clerks
  /\ \A c \in Clerks :
       /\ DOMAIN sreq[c] = {"job", "at", "copy", "found", "left", "imsis", "answer"}
       /\ sreq[c].at # "idle" => sreq[c].job \in Jobs /\ Good(sreq[c].copy)
       /\ sreq[c].at \in {"list", "cascade", "save"} =>
            sreq[c].job.op \in {"addProfile", "setProfile", "addBulk"}

SwitchersGood ==
  /\ DOMAIN nreq = Switchers
  /\ \A s \in Switchers :
       /\ DOMAIN nreq[s] = {"order", "at", "copy", "left"}
       /\ nreq[s].at # "idle" => nreq[s].order \in Orders /\ Good(nreq[s].copy)
       /\ nreq[s].at \in {"set", "configure", "answered", "network", "template"} =>
            nreq[s].order.op = "switch"

KeyMakersGood ==
  /\ DOMAIN kreq = KeyMakers
  /\ \A k \in KeyMakers :
       /\ DOMAIN kreq[k] = {"at", "copy", "id", "read", "pem", "hex", "told"}
       /\ kreq[k].at # "idle" => Good(kreq[k].copy)

FilesGood == Good(config) /\ ClerksGood /\ SwitchersGood /\ KeyMakersGood

\* A profile whose APN no other one has may take any place.
LEMMA ChangedProfileGood ==
  ASSUME NEW file, Good(file), NEW u, NEW p \in Profile, Unique(file.profiles, u, p)
  PROVE  Good([file EXCEPT !.profiles[u] = p])
<1>. DEFINE after == [file EXCEPT !.profiles[u] = p]
<1>1. file \in ConfigFile /\ file.profiles \in [Uuids -> Profile \union {None}]
  BY DEF Good, ConfigFile
<1>2. after \in ConfigFile
  BY <1>1 DEF ConfigFile
<1>3. \A v \in Uuids : after.profiles[v] = IF v = u THEN p ELSE file.profiles[v]
  BY <1>1 DEF ConfigFile
<1>4. ASSUME NEW v \in Uuids, after.profiles[v] # None
      PROVE  Unique(after.profiles, v, after.profiles[v])
  <2>1. CASE v = u
    BY <1>3, <2>1 DEF Unique
  <2>2. CASE v # u
    BY <1>3, <1>4, <2>2 DEF Good, Unique
  <2>. QED  BY <2>1, <2>2
<1>. QED  BY <1>2, <1>4 DEF Good

\* Nor does a deletion disturb the others.
LEMMA DeletedProfileGood ==
  ASSUME NEW file, Good(file), NEW u
  PROVE  Good([file EXCEPT !.profiles[u] = None])
<1>. DEFINE after == [file EXCEPT !.profiles[u] = None]
<1>1. file \in ConfigFile /\ file.profiles \in [Uuids -> Profile \union {None}]
  BY DEF Good, ConfigFile
<1>2. after \in ConfigFile
  BY <1>1 DEF ConfigFile
<1>3. \A v \in Uuids : after.profiles[v] = IF v = u THEN None ELSE file.profiles[v]
  BY <1>1 DEF ConfigFile
<1>. QED  BY <1>2, <1>3 DEF Good, Unique

\* Flags and scheme have nothing to do with profiles.
LEMMA ChangedFlagsGood ==
  ASSUME NEW file, Good(file), NEW flags \in SUBSET Networks
  PROVE  Good([file EXCEPT !.flags = flags])
BY DEF Good, ConfigFile

LEMMA ChangedSchemeGood ==
  ASSUME NEW file, Good(file), NEW s \in Schemes
  PROVE  Good([file EXCEPT !.scheme = s])
BY DEF Good, ConfigFile

-----------------------------------------------------------------------------
LEMMA InitGood == Init => FilesGood
<1>. SUFFICES ASSUME Init PROVE FilesGood
  OBVIOUS
<1>1. PICK flags \in InitialFlags :
        config = [flags |-> flags, profiles |-> InitialProfiles, scheme |-> 2]
  BY DEF Init
<1>2. Good(config)
  BY <1>1, InitialAssumption DEF Good, ConfigFile, Schemes
<1>3. ClerksGood
  BY DEF Init, StoreInit, IdleClerk, ClerksGood
<1>4. SwitchersGood
  BY DEF Init, SwitchInit, IdleSwitcher, SwitchersGood
<1>5. KeyMakersGood
  BY DEF Init, KeysInit, IdleKeyMaker, KeyMakersGood
<1>. QED  BY <1>2, <1>3, <1>4, <1>5 DEF FilesGood

LEMMA ClerkKeepsGood ==
  ASSUME FilesGood, NEW c \in Clerks, ClerkStep(c)
  PROVE  Good(config)' /\ ClerksGood'
<1>. USE DEF FilesGood, ClerksGood, Go, Reply, configVars
<1>1. CASE Ask(c)
  <2>1. PICK job \in Jobs :
          sreq' = [sreq EXCEPT ![c].job = job, ![c].at = FirstStep(job.op), ![c].copy = config,
                               ![c].left = IF job.op = "bulk" THEN job.rows ELSE <<>>]
    BY <1>1 DEF Ask
  <2>2. FirstStep(job.op) \in {"list", "cascade", "save"} =>
          job.op \in {"addProfile", "setProfile", "addBulk"}
    BY JobsAssumption DEF FirstStep
  <2>3. Good(config)'
    BY <1>1 DEF Ask
  <2>. QED  BY <2>1, <2>2, <2>3
<1>2. CASE SaveUser(c)
  <2>1. \E result : Saved(c, result)
    BY <1>2 DEF SaveUser
  <2>2. /\ DOMAIN sreq' = Clerks
        /\ \A d \in Clerks : /\ DOMAIN sreq'[d] = DOMAIN sreq[d]
                             /\ sreq'[d].job = sreq[d].job /\ sreq'[d].copy = sreq[d].copy
                             /\ sreq'[d].at = sreq[d].at \/ (d = c /\ sreq'[d].at = "done")
    <3>1. CASE sreq[c].job.op = "bulk"
      BY <2>1, <3>1 DEF Saved
    <3>2. CASE sreq[c].job.op # "bulk"
      BY <2>1, <3>2 DEF Saved
    <3>. QED  BY <3>1, <3>2
  <2>3. sreq[c].at = "insert" /\ Good(config)'
    BY <1>2 DEF SaveUser
  <2>. QED  BY <2>2, <2>3
<1>3. CASE FetchUser(c)
  BY <1>3 DEF FetchUser
<1>4. CASE DeleteUser(c)
  BY <1>4 DEF DeleteUser
<1>5. CASE LockConfig(c)
  BY <1>5 DEF LockConfig
<1>6. CASE ListUsers(c)
  BY <1>6 DEF ListUsers
<1>7. CASE UpdateUsers(c)
  BY <1>7 DEF UpdateUsers
<1>8. CASE SaveProfile(c)
  <2>1. Good(sreq[c].copy) /\ sreq[c].job \in Jobs
    BY <1>8 DEF SaveProfile
  <2>2. ClerksGood'
    BY <1>8, <2>1 DEF SaveProfile
  <2>3. CASE UNCHANGED config
    BY <2>2, <2>3
  <2>4. CASE Valid(c) /\ config' = sreq[c].copy
    BY <2>1, <2>2, <2>4
  <2>5. CASE /\ Valid(c) /\ sreq[c].job.op # "addBulk"
             /\ config' = [sreq[c].copy EXCEPT !.profiles[sreq[c].job.uuid] = sreq[c].job.profile]
    <3>1. sreq[c].job.profile \in Profile
      BY <1>8, <2>1, <2>5, JobsAssumption DEF SaveProfile
    <3>2. Unique(sreq[c].copy.profiles, sreq[c].job.uuid, sreq[c].job.profile)
      BY <2>5 DEF Valid
    <3>3. Good([sreq[c].copy EXCEPT !.profiles[sreq[c].job.uuid] = sreq[c].job.profile])
      BY <2>1, <3>1, <3>2, ChangedProfileGood
    <3>. QED  BY <2>2, <2>5, <3>3
  <2>. QED  BY <1>8, <2>3, <2>4, <2>5 DEF SaveProfile, Save
<1>9. CASE DeleteProfile(c)
  BY <1>9, DeletedProfileGood DEF DeleteProfile, Save
<1>. QED  BY <1>1, <1>2, <1>3, <1>4, <1>5, <1>6, <1>7, <1>8, <1>9 DEF ClerkStep

LEMMA SwitcherKeepsGood ==
  ASSUME FilesGood, NEW s \in Switchers, SwitcherStep(s)
  PROVE  Good(config)' /\ SwitchersGood'
<1>. USE DEF FilesGood, SwitchersGood, Advance, configVars
<1>1. CASE Request(s)
  BY <1>1 DEF Request
<1>2. CASE SetNetworkFlag(s)
  <2>1. Good(nreq[s].copy) /\ nreq[s].order \in Orders /\ nreq[s].order.network \in Networks
    BY <1>2, OrdersAssumption DEF SetNetworkFlag
  <2>2. nreq[s].copy.flags \union {nreq[s].order.network} \in SUBSET Networks
    BY <2>1 DEF Good, ConfigFile
  <2>3. Good([nreq[s].copy EXCEPT !.flags = @ \union {nreq[s].order.network}])
    BY <2>1, <2>2, ChangedFlagsGood
  <2>. QED  BY <1>2, <2>3 DEF SetNetworkFlag, Save
<1>3. CASE LoadConfiguration(s)
  BY <1>3 DEF LoadConfiguration
<1>4. CASE SendReconfigure(s)
  BY <1>4 DEF SendReconfigure
<1>5. CASE SetNetwork(s)
  <2>1. Good(nreq[s].copy) /\ nreq[s].order \in Orders /\ nreq[s].order.network \in Networks
    BY <1>5, OrdersAssumption DEF SetNetwork
  <2>2. Good([nreq[s].copy EXCEPT !.flags = {nreq[s].order.network}])
    BY <2>1, ChangedFlagsGood
  <2>. QED  BY <1>5, <2>2 DEF SetNetwork, Save
<1>6. CASE ReloadTemplate(s)
  BY <1>6 DEF ReloadTemplate
<1>7. CASE ManageService(s)
  BY <1>7 DEF ManageService
<1>. QED  BY <1>1, <1>2, <1>3, <1>4, <1>5, <1>6, <1>7 DEF SwitcherStep

LEMMA KeyMakerKeepsGood ==
  ASSUME FilesGood, NEW k \in KeyMakers, KeyMakerStep(k)
  PROVE  Good(config)' /\ KeyMakersGood'
<1>. USE DEF FilesGood, KeyMakersGood, configVars
<1>1. CASE Call(k)
  BY <1>1, ChangedSchemeGood DEF Call
<1>2. CASE ChooseScheme(k)
  BY <1>2 DEF ChooseScheme, Save
<1>3. CASE Allocate(k)
  BY <1>3 DEF Allocate
<1>4. CASE MakePrivate(k)
  BY <1>4 DEF MakePrivate
<1>5. CASE MakePublic(k)
  BY <1>5 DEF MakePublic
<1>6. CASE MakeHex(k)
  BY <1>6 DEF MakeHex
<1>7. CASE ReadUdm(k)
  BY <1>7 DEF ReadUdm
<1>8. CASE TruncateUdm(k)
  BY <1>8 DEF TruncateUdm
<1>9. CASE DumpUdm(k)
  BY <1>9 DEF DumpUdm
<1>10. CASE Fail(k)
  BY <1>10 DEF Fail
<1>11. CASE NoKey(k)
  BY <1>11 DEF NoKey
<1>. QED  BY <1>1, <1>2, <1>3, <1>4, <1>5, <1>6, <1>7, <1>8, <1>9, <1>10, <1>11 DEF KeyMakerStep

LEMMA FilesAlwaysGood == Spec => []FilesGood
<1>1. FilesGood /\ [Next]_vars => FilesGood'
  <2>. SUFFICES ASSUME FilesGood, [Next]_vars PROVE FilesGood'
    OBVIOUS
  <2>1. CASE StoreNext /\ UNCHANGED <<switchVars, keyVars>>
    <3>1. SwitchersGood' /\ KeyMakersGood'
      BY <2>1 DEF FilesGood, SwitchersGood, KeyMakersGood, switchVars, keyVars
    <3>2. CASE LateScript
      BY <3>1, <3>2 DEF LateScript, FilesGood, ClerksGood, configVars
    <3>3. CASE \E c \in Clerks : ClerkStep(c)
      BY <3>1, <3>3, ClerkKeepsGood DEF FilesGood
    <3>. QED  BY <2>1, <3>2, <3>3 DEF StoreNext
  <2>2. CASE SwitchNext /\ UNCHANGED <<storeVars, keyVars>>
    <3>1. ClerksGood' /\ KeyMakersGood'
      BY <2>2 DEF FilesGood, ClerksGood, KeyMakersGood, storeVars, keyVars
    <3>. QED  BY <2>2, <3>1, SwitcherKeepsGood DEF FilesGood, SwitchNext
  <2>3. CASE KeysNext /\ UNCHANGED <<storeVars, switchVars>>
    <3>1. ClerksGood' /\ SwitchersGood'
      BY <2>3 DEF FilesGood, ClerksGood, SwitchersGood, storeVars, switchVars
    <3>. QED  BY <2>3, <3>1, KeyMakerKeepsGood DEF FilesGood, KeysNext
  <2>4. CASE UNCHANGED vars
    BY <2>4 DEF vars, FilesGood, ClerksGood, SwitchersGood, KeyMakersGood
  <2>. QED  BY <2>1, <2>2, <2>3, <2>4 DEF Next, Act
<1>. QED  BY <1>1, InitGood, PTL DEF Spec

\* Profile.xml: "A profile with this apn name already exists."  However requests
\* overlap, and whatever they overwrite, no two profiles get the same APN.
THEOREM ApnsAlwaysUnique == Spec => []ApnsUnique
<1>1. FilesGood => ApnsUnique
  BY DEF FilesGood, Good, ApnsUnique
<1>. QED  BY <1>1, FilesAlwaysGood, PTL

-----------------------------------------------------------------------------
(* Which daemons run.  A daemon that rc.conf does not enable and that      *)
(* still runs has a stop ahead of it in a switch under way.                *)

Doomed(s, d) ==
  /\ nreq[s].at = "commands"
  /\ \E n \in DOMAIN nreq[s].left : nreq[s].left[n] = Command("stop", d)

CommandsTyped ==
  /\ running \subseteq Daemons
  /\ \A s \in Switchers : /\ nreq[s].left \in Seq(Commands)
                          /\ nreq[s].at = "commands" => nreq[s].left # <<>>

StrayDaemonsDoomed ==
  faulty = {} => \A d \in running : d \in rcconf \/ \E s \in Switchers : Doomed(s, d)

LEMMA FailuresStay ==
  ASSUME Act
  PROVE  faulty \subseteq faulty'
<1>1. CASE \E c \in Clerks : ClerkStep(c)
  BY <1>1
  DEF ClerkStep, Ask, SaveUser, TimeOut, FetchUser, DeleteUser, LockConfig, ListUsers, UpdateUsers,
      SaveProfile, DeleteProfile, MayFail, configVars
<1>2. CASE LateScript
  BY <1>2 DEF LateScript, configVars
<1>3. CASE \E s \in Switchers : SwitcherStep(s)
  BY <1>3
  DEF SwitcherStep, Request, SetNetworkFlag, LoadConfiguration, SendReconfigure, SetNetwork,
      ReloadTemplate, ManageService, MayFail, configVars
<1>4. CASE \E k \in KeyMakers : KeyMakerStep(k)
  BY <1>4
  DEF KeyMakerStep, Call, ChooseScheme, Allocate, MakePrivate, MakePublic, MakeHex, NoKey, ReadUdm,
      TruncateUdm, DumpUdm, Fail, MayFail, configVars
<1>. QED  BY <1>1, <1>2, <1>3, <1>4 DEF Act, StoreNext, SwitchNext, KeysNext

\* A stop of d among commands; a start of d with no stop behind it.
StopIn(commands, d) == \E n \in DOMAIN commands : commands[n] = Command("stop", d)
EndsInStart(commands, d) ==
  \E n \in DOMAIN commands :
    /\ commands[n] = Command("start", d)
    /\ \A m \in DOMAIN commands : m > n => commands[m] # Command("stop", d)

LEMMA Concatenated ==
  ASSUME NEW S, NEW a \in Seq(S), NEW b \in Seq(S)
  PROVE  /\ a \o b \in Seq(S) /\ Len(a \o b) = Len(a) + Len(b)
         /\ \A i \in 1..Len(a) : (a \o b)[i] = a[i]
         /\ \A i \in 1..Len(b) : (a \o b)[Len(a) + i] = b[i]
OBVIOUS

\* The commands of a switch stop every daemon, leave those of its network started,
\* and start no other.
LEMMA CommandsOfSwitch ==
  ASSUME TablesAgree, NEW network \in Networks
  PROVE  /\ ManageNetworkServices(network) \in Seq(Commands)
         /\ \A d \in Daemons : StopIn(ManageNetworkServices(network), d)
         /\ \A d \in Services(network) : EndsInStart(ManageNetworkServices(network), d)
         /\ \A d \in Daemons \ Services(network) : \A n \in DOMAIN ManageNetworkServices(network) :
              ManageNetworkServices(network)[n] # Command("start", d)
<1>. DEFINE services == ServiceMapping(network)
            others   == Others(network)
            L == Len(others)
            M == Len(services)
            first  == [i \in 1..L |-> Command("stop", others[i])]
            second == [i \in 1..2 * M |->
                         Command(IF i % 2 = 1 THEN "stop" ELSE "start", services[(i + 1) \div 2])]
            commands == ManageNetworkServices(network)
<1>1. /\ services \in Seq(Daemons) /\ others \in Seq(Daemons)
      /\ \A i, j \in DOMAIN services : services[i] = services[j] => i = j
      /\ {others[i] : i \in DOMAIN others} = Daemons \ Services(network)
      /\ Services(network) = {services[i] : i \in DOMAIN services}
  BY DEF TablesAgree, Services
<1>2. commands = first \o second
  BY DEF ManageNetworkServices
<1>. HIDE DEF services, others, commands
<1>3. /\ L \in Nat /\ M \in Nat /\ DOMAIN others = 1..L /\ DOMAIN services = 1..M
      /\ \A i \in 1..L : others[i] \in Daemons
      /\ \A j \in 1..M : services[j] \in Daemons
  BY <1>1
<1>4. \A i \in 1..2 * M : (i + 1) \div 2 \in 1..M
  BY <1>3
<1>5. /\ first \in Seq(Commands) /\ Len(first) = L
      /\ second \in Seq(Commands) /\ Len(second) = 2 * M
  <2>1. \A d \in Daemons : Command("stop", d) \in Commands /\ Command("start", d) \in Commands
    BY DEF Command, Commands
  <2>2. first \in [1..L -> Commands]
    BY <1>3, <2>1
  <2>3. second \in [1..2 * M -> Commands]
    BY <1>3, <1>4, <2>1
  <2>. QED  BY <1>3, <2>2, <2>3
<1>6. /\ commands \in Seq(Commands) /\ DOMAIN commands = 1..(L + 2 * M)
      /\ \A i \in 1..L : commands[i] = Command("stop", others[i])
      /\ \A i \in 1..2 * M : commands[L + i] = second[i]
  <2>. HIDE DEF first, second
  <2>1. /\ \A i \in 1..L : commands[i] = first[i]
        /\ \A i \in 1..2 * M : commands[L + i] = second[i]
        /\ commands \in Seq(Commands) /\ Len(commands) = L + 2 * M
    <3>1. /\ first \o second \in Seq(Commands) /\ Len(first \o second) = Len(first) + Len(second)
          /\ \A i \in 1..Len(first) : (first \o second)[i] = first[i]
          /\ \A i \in 1..Len(second) : (first \o second)[Len(first) + i] = second[i]
      <4>1. first \in Seq(Commands)
        BY <1>5
      <4>2. second \in Seq(Commands)
        BY <1>5
      <4>. QED  BY <4>1, <4>2, Concatenated
    <3>2. Len(first) = L /\ Len(second) = 2 * M
      BY <1>5
    <3>. QED  BY <1>2, <3>1, <3>2, Zenon
  <2>2. DOMAIN commands = 1..(L + 2 * M)
    BY <1>3, <2>1
  <2>3. \A i \in 1..L : first[i] = Command("stop", others[i])
    BY DEF first
  <2>. QED  BY <2>1, <2>2, <2>3
<1>7. \A j \in 1..M : /\ 2 * j - 1 \in 1..2 * M /\ 2 * j \in 1..2 * M
                      /\ second[2 * j - 1] = Command("stop", services[j])
                      /\ second[2 * j] = Command("start", services[j])
  <2>. SUFFICES ASSUME NEW j \in 1..M
       PROVE  /\ 2 * j - 1 \in 1..2 * M /\ 2 * j \in 1..2 * M
              /\ second[2 * j - 1] = Command("stop", services[j])
              /\ second[2 * j] = Command("start", services[j])
    OBVIOUS
  <2>1. /\ 2 * j - 1 \in 1..2 * M /\ 2 * j \in 1..2 * M
        /\ (2 * j - 1) % 2 = 1 /\ (2 * j) % 2 = 0
        /\ (2 * j - 1 + 1) \div 2 = j /\ (2 * j + 1) \div 2 = j
    BY <1>3
  <2>. QED  BY <2>1
<1>. HIDE DEF first, second
<1>11. \A i, j \in Daemons : Command("stop", i) # Command("start", j)
  BY DEF Command
<1>8. ASSUME NEW d \in Daemons PROVE StopIn(commands, d)
  <2>1. CASE d \in Services(network)
    <3>1. PICK j \in 1..M : services[j] = d
      BY <1>1, <1>3, <2>1
    <3>2. PICK i \in 1..2 * M : second[i] = Command("stop", d)
      BY <1>7, <3>1
    <3>3. L + i \in DOMAIN commands /\ commands[L + i] = Command("stop", d)
      BY <1>3, <1>6, <3>2
    <3>. QED  BY <3>3 DEF StopIn
  <2>2. CASE d \notin Services(network)
    <3>1. PICK i \in 1..L : others[i] = d
      BY <1>1, <1>3, <2>2
    <3>2. i \in DOMAIN commands /\ commands[i] = Command("stop", d)
      BY <1>3, <1>6, <3>1
    <3>. QED  BY <3>2 DEF StopIn
  <2>. QED  BY <2>1, <2>2
<1>9. ASSUME NEW d \in Services(network) PROVE EndsInStart(commands, d)
  <2>1. PICK j \in 1..M : services[j] = d
    BY <1>1, <1>3
  <2>. DEFINE e == 2 * j
  <2>4. e \in 1..2 * M /\ second[e] = Command("start", d)
    BY <1>7, <2>1
  <2>2. L + e \in DOMAIN commands /\ commands[L + e] = Command("start", d)
    BY <1>3, <1>6, <2>4
  <2>3. ASSUME NEW m \in DOMAIN commands, m > L + e PROVE commands[m] # Command("stop", d)
    <3>. DEFINE i == m - L
    <3>1. i \in 1..2 * M /\ i > 2 * j /\ m = L + i
      BY <1>3, <1>6, <2>3
    <3>2. (i + 1) \div 2 \in 1..M /\ (i + 1) \div 2 # j
      BY <1>3, <1>4, <3>1
    <3>3. services[(i + 1) \div 2] # d
      BY <1>1, <1>3, <2>1, <3>2
    <3>4. commands[m] = Command(IF i % 2 = 1 THEN "stop" ELSE "start", services[(i + 1) \div 2])
      BY <1>6, <3>1 DEF second
    <3>. QED  BY <3>3, <3>4 DEF Command
  <2>. HIDE DEF e
  <2>. QED  BY <2>2, <2>3 DEF EndsInStart
<1>10. ASSUME NEW d \in Daemons \ Services(network), NEW n \in DOMAIN commands
       PROVE  commands[n] # Command("start", d)
  <2>1. CASE n \in 1..L
    BY <1>3, <1>6, <1>11, <2>1
  <2>2. CASE n \notin 1..L
    <3>. DEFINE i == n - L
    <3>1. i \in 1..2 * M /\ n = L + i
      BY <1>3, <1>6, <2>2
    <3>2. commands[n] = Command(IF i % 2 = 1 THEN "stop" ELSE "start", services[(i + 1) \div 2])
      BY <1>6, <3>1 DEF second
    <3>3. services[(i + 1) \div 2] \in Services(network)
      BY <1>1, <1>3, <1>4, <3>1
    <3>. QED  BY <3>2, <3>3 DEF Command
  <2>. QED  BY <2>1, <2>2
<1>. QED  BY <1>6, <1>8, <1>9, <1>10 DEF commands

\* What the next command of s does to the daemons that run, and what is left to do.
LEMMA CommandKeepsDoomed ==
  ASSUME FilesGood, CommandsTyped, StrayDaemonsDoomed, NEW s \in Switchers, ManageService(s)
  PROVE  CommandsTyped' /\ StrayDaemonsDoomed'
<1>1. nreq[s].left \in Seq(Commands) /\ nreq[s].left # <<>> /\ nreq[s].at = "commands"
  BY DEF CommandsTyped, ManageService
<1>. DEFINE left == nreq[s].left
            head == Head(left)
<1>2. head \in Commands /\ Tail(left) \in Seq(Commands)
  BY <1>1
<1>3. /\ DOMAIN nreq' = Switchers
      /\ \A t \in Switchers \ {s} : nreq'[t] = nreq[t]
      /\ nreq'[s].left = Tail(left)
      /\ nreq'[s].at = IF Tail(left) = <<>> THEN "done" ELSE "commands"
  BY <1>1 DEF ManageService, FilesGood, SwitchersGood
<1>4. CommandsTyped'
  <2>1. running' \subseteq Daemons
    BY <1>2 DEF ManageService, Effect, Startable, CommandsTyped, Commands
  <2>. QED  BY <1>2, <1>3, <2>1 DEF CommandsTyped
<1>5. StrayDaemonsDoomed'
  <2>. SUFFICES ASSUME faulty' = {}, NEW d \in running', d \notin rcconf'
       PROVE  \E t \in Switchers : Doomed(t, d)'
    BY DEF StrayDaemonsDoomed
  <2>1. running' = Effect(head) /\ faulty = {} /\ rcconf' = rcconf
    BY DEF ManageService, MayFail
  <2>2. d \in running /\ head # Command("stop", d)
    BY <2>1 DEF Effect, Command
  <2>3. PICK t \in Switchers : Doomed(t, d)
    BY <2>1, <2>2 DEF StrayDaemonsDoomed
  <2>4. CASE t # s
    BY <1>3, <2>3, <2>4 DEF Doomed
  <2>5. CASE t = s
    <3>1. PICK n \in DOMAIN left : left[n] = Command("stop", d)
      BY <2>3, <2>5 DEF Doomed
    <3>2. n \in 2..Len(left)
      BY <1>1, <2>2, <3>1
    <3>3. n - 1 \in DOMAIN Tail(left) /\ Tail(left)[n - 1] = left[n]
      BY <1>1, <3>2
    <3>4. Tail(left) # <<>>
      BY <3>3
    <3>. QED  BY <1>3, <3>1, <3>3, <3>4 DEF Doomed
  <2>. QED  BY <2>4, <2>5
<1>. QED  BY <1>4, <1>5

LEMMA SwitchKeepsDoomed ==
  ASSUME TablesAgree, FilesGood, CommandsTyped, StrayDaemonsDoomed,
         NEW s \in Switchers, SwitcherStep(s)
  PROVE  CommandsTyped' /\ StrayDaemonsDoomed'
<1>1. CASE Request(s)
  <2>1. PICK order \in Orders :
          nreq' = [nreq EXCEPT ![s] =
            [order |-> order, copy |-> config,
             at    |-> IF order.op = "switch" THEN "set" ELSE "commands",
             left  |-> IF order.op = "switch" THEN <<>> ELSE SingleCommands(order)]]
    BY <1>1 DEF Request
  <2>2. order.op # "switch" =>
          SingleCommands(order) \in Seq(Commands) /\ SingleCommands(order) # <<>>
    <3>. SUFFICES ASSUME order.op # "switch"
         PROVE  SingleCommands(order) \in Seq(Commands) /\ SingleCommands(order) # <<>>
      OBVIOUS
    <3>1. /\ order.daemon \in Daemons
          /\ order.op \in {"stop", "start"} \/ order.op = "restart"
      BY OrdersAssumption
    <3>2. CASE order.op = "restart"
      <4>1. Command("stop", order.daemon) \in Commands /\ Command("start", order.daemon) \in Commands
        BY <3>1 DEF Commands, Command
      <4>. QED  BY <3>2, <4>1 DEF SingleCommands
    <3>3. CASE order.op \in {"stop", "start"}
      <4>1. Command(order.op, order.daemon) \in Commands
        BY <3>1, <3>3 DEF Commands, Command
      <4>. QED  BY <3>3, <4>1 DEF SingleCommands
    <3>. QED  BY <3>1, <3>2, <3>3
  <2>3. nreq[s].at = "idle" /\ UNCHANGED <<running, rcconf, faulty>>
    BY <1>1 DEF Request, configVars
  <2>4. CommandsTyped'
    BY <2>1, <2>2, <2>3 DEF CommandsTyped, FilesGood, SwitchersGood
  <2>5. \A t \in Switchers, d \in running : Doomed(t, d) => Doomed(t, d)'
    BY <2>1, <2>3 DEF Doomed, FilesGood, SwitchersGood
  <2>. QED  BY <2>3, <2>4, <2>5 DEF StrayDaemonsDoomed
<1>2. CASE SetNetworkFlag(s) \/ LoadConfiguration(s) \/ SendReconfigure(s) \/ SetNetwork(s)
  <2>1. /\ nreq[s].at # "commands" /\ nreq'[s].at # "commands" /\ nreq'[s].left = nreq[s].left
        /\ \A t \in Switchers \ {s} : nreq'[t] = nreq[t]
    BY <1>2 DEF SetNetworkFlag, LoadConfiguration, SendReconfigure, SetNetwork, Advance,
                FilesGood, SwitchersGood
  <2>2. running' \subseteq running /\ rcconf' = rcconf /\ (faulty' = {} => faulty = {})
    BY <1>2 DEF SetNetworkFlag, LoadConfiguration, SendReconfigure, SetNetwork, MayFail
  <2>3. CommandsTyped'
    BY <2>1, <2>2 DEF CommandsTyped
  <2>4. \A t \in Switchers, d \in running : Doomed(t, d) => Doomed(t, d)'
    BY <2>1 DEF Doomed
  <2>. QED  BY <2>2, <2>3, <2>4 DEF StrayDaemonsDoomed
<1>3. CASE ReloadTemplate(s)
  <2>. DEFINE commands == ManageNetworkServices(nreq[s].order.network)
  <2>1. nreq[s].order.network \in Networks
    BY <1>3, OrdersAssumption DEF ReloadTemplate, FilesGood, SwitchersGood
  <2>2. /\ commands \in Seq(Commands)
        /\ \A d \in Daemons : \E n \in DOMAIN commands : commands[n] = Command("stop", d)
    BY <2>1, CommandsOfSwitch DEF StopIn
  <2>3. commands # <<>>
    BY <2>2, SwitchersAssumption
  <2>4. /\ nreq'[s].left = commands /\ nreq'[s].at = "commands"
        /\ \A t \in Switchers \ {s} : nreq'[t] = nreq[t]
        /\ running' = running
    BY <1>3 DEF ReloadTemplate, FilesGood, SwitchersGood
  <2>5. CommandsTyped'
    BY <2>2, <2>3, <2>4 DEF CommandsTyped
  <2>6. \A d \in running' : Doomed(s, d)'
    BY <2>2, <2>4 DEF Doomed, CommandsTyped
  <2>. QED  BY <2>5, <2>6 DEF StrayDaemonsDoomed
<1>4. CASE ManageService(s)
  BY <1>4, CommandKeepsDoomed
<1>. QED  BY <1>1, <1>2, <1>3, <1>4 DEF SwitcherStep

LEMMA DoomedInvariant ==
  ASSUME TablesAgree
  PROVE  Spec => [](CommandsTyped /\ StrayDaemonsDoomed)
<1>1. Init => CommandsTyped /\ StrayDaemonsDoomed
  <2>. SUFFICES ASSUME Init PROVE CommandsTyped /\ StrayDaemonsDoomed
    OBVIOUS
  <2>1. config.flags \in SUBSET Networks
    BY InitialAssumption DEF Init
  <2>2. running \subseteq rcconf /\ running \subseteq Daemons
    BY <2>1 DEF Init, SwitchInit, TablesAgree, Startable
  <2>3. \A s \in Switchers : nreq[s].left = <<>> /\ nreq[s].at = "idle"
    BY DEF Init, SwitchInit, IdleSwitcher
  <2>4. <<>> \in Seq(Commands)
    OBVIOUS
  <2>5. CommandsTyped
    BY <2>2, <2>3, <2>4 DEF CommandsTyped
  <2>6. StrayDaemonsDoomed
    BY <2>2 DEF StrayDaemonsDoomed
  <2>. QED  BY <2>5, <2>6
<1>2. FilesGood /\ CommandsTyped /\ StrayDaemonsDoomed /\ [Next]_vars =>
        (CommandsTyped /\ StrayDaemonsDoomed)'
  <2>. SUFFICES ASSUME FilesGood, CommandsTyped, StrayDaemonsDoomed, [Next]_vars
       PROVE  (CommandsTyped /\ StrayDaemonsDoomed)'
    OBVIOUS
  <2>1. CASE SwitchNext
    BY <2>1, SwitchKeepsDoomed DEF SwitchNext
  <2>2. CASE Act /\ UNCHANGED switchVars
    BY <2>2, FailuresStay DEF switchVars, CommandsTyped, StrayDaemonsDoomed, Doomed
  <2>3. CASE UNCHANGED vars
    BY <2>3 DEF vars, CommandsTyped, StrayDaemonsDoomed, Doomed
  <2>. QED  BY <2>1, <2>2, <2>3 DEF Next, Act
<1>. QED  BY <1>1, <1>2, FilesAlwaysGood, PTL DEF Spec

\* ServiceController.php:127-138.  However many switches, starts, stops and restarts
\* interleave, once all have ended without failure no daemon runs that rc.conf does not
\* enable, provided the service mapping and the rc.conf template agree.
THEOREM QuietDaemonsAlwaysEnabled ==
  ASSUME TablesAgree
  PROVE  Spec => []QuietDaemonsEnabled
<1>1. StrayDaemonsDoomed => QuietDaemonsEnabled
  BY DEF StrayDaemonsDoomed, QuietDaemonsEnabled, Doomed, Busy, SwitchBusy
<1>. QED  BY <1>1, DoomedInvariant, PTL
================================================================================
