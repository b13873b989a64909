# OPNcell: specifications, model checking and proofs

OPNcell is a plugin that turns an OPNsense firewall into the core of a private
mobile network (Open5GS), together with `opncell-drad`, a Diameter Routing Agent
(DRA) that connects the core to roaming partners. This directory holds TLA+
modules for the part of it with state worth worrying about, the TLC runs that
check them on small instances, and theorems that TLAPS checks for every instance.

## 1. The system

| Component | Where | State it keeps | Operations |
|---|---|---|---|
| DRA main loop | `dra/src/main.c` | `ctx`, `pending_ctx`, `pending_reload`, `rollback_pending`, signal flags | SIGHUP, stage, reconcile, commit, roll back, refresh, publish |
| DRA configuration | `dra/src/provisioning.c`, `dra-context.c` | a `dra_context_t`: generation, peers, routes, one run-time state per peer | parse, validate, compare, prepare, commit, reset |
| Reconciliation | `dra/src/diameter.c` | none of its own; changes freeDiameter's table | preflight, remove stale, add pending, remove candidate, restore current |
| Peer hook | `main.c:206` | run-time states in `ctx` | called by freeDiameter's threads |
| Routing callback | `diameter.c:818`, `routing.c` | `routing_snapshot`, its valid flag | update, register, route, unregister |
| freeDiameter | library; one patch in `dra/subprojects/packagefiles` | peer table, one state-machine thread (PSM) per peer | add, remove (added by the patch), poll, connect, disconnect |
| DRA start-up and shutdown | `main.c:275`, `:807` | the peer hook, the routing callback, the core, a generated file | initialise, register, load, add peers, start, and the way back on every failure |
| Network switching | `ServiceController.php`, `GeneralController.php`, rc.conf templates | flags in config.xml, rc.conf, the running daemons | switch, start, stop, restart |
| Subscribers and profiles | `UserController.php`, `ProfileController.php`, `saveUsers.py`, `updateUser.py`, `deleteUser.py` | MongoDB subscribers, config.xml profiles | add, change, delete, cascade a profile |
| Home-network keys | `HnetController.php`, `generate_hnet.py` | `udm.yaml`, key files | allocate, generate, append, list |
| config.xml and configd | `app/library/OPNsense/Core/Config.php`, `Backend.php`, `Base/ApiMutableModelControllerBase.php` | the file and its lock | load, lock, save; run a command |
| Daemon configuration | `reconfigure.py`, `editSingleService.py` | the daemons' YAML files | kill, rewrite, copy |
| Bulk upload | `BulkController.php`, `FileUploadService.php` | uploaded rows | a loop over additions |
| Start scripts, models, views, log formats | rest of `opncell/` | processes | |
| Prototype plugin | `app/controllers/OPNsense/HelloWorld`, `app/epc.inc` | none | start and stop one daemon; superseded by `opncell/` |
| Framework and tools | rest of `app/`, `src/`, `templates/`, `resources/`, ... | | OPNsense MVC and Phalcon developer tools, third-party |

### How the parts of the DRA interact

* The *main thread* runs one pass of the loop per second: take a pending SIGHUP,
  read and validate `dra.yaml`, and either commit it at once (policy only) or
  retain it as `pending_ctx`. A retained candidate is worked on in every pass:
  remove what it does not want, wait until freeDiameter has let go (removal is
  asynchronous: `EAGAIN`, ask again in the next pass), add what is new, commit.
  A failure turns the transaction round: remove what the candidate added, wait,
  restore what it removed. A failure of *that* gives the rollback up. The pass
  ends by polling every peer and copying `ctx` into the routing snapshot.
* The *PSM threads* of freeDiameter move peers between connecting, open and zombie
  and call `peer_hook_cb`, which writes run-time states under `context_lock`.
* The *routing threads* of freeDiameter call `dra_rt_out_cb`, which reads the
  snapshot under `routing_snapshot_lock`.
* The two locks are different: the periodic copy of `ctx` into the snapshot takes
  only the second, so it may read run-time states the hook is writing.

### How the parts of the plugin interact

Every web request is a PHP process of its own. It loads the whole of config.xml when
it starts, works on that copy and saves all of it; a deletion takes the file's lock
and loads anew. Everything outside config.xml (MongoDB, rc.conf, the daemons, keys)
is changed by scripts run through configd, one call at a time, each of which may fail
or answer too late and still run. Nothing spans two calls, and nothing keeps two
requests apart. Switching the network even takes two requests of the browser.

### What is hard, and what makes each part correct

The full list, with lines, is under `hazards` in `PROJECT.json`. The centre of it:

* a reload is a transaction over a table that changes asynchronously, can refuse
  any call, and is keyed by identity, while the configuration is keyed by name;
* three views of a peer (freeDiameter's, `ctx`'s, the snapshot's) are updated at
  different times by different threads, one update without the other's lock;
* reloads can arrive at any moment, also while one is in progress;
* the same routing decision is computed twice, by two pieces of code;
* start-up and shutdown hand freeDiameter pointers and callbacks it uses from other
  threads, and every step of them can fail;
* the plugin changes two stores, a configuration file and processes in sequence,
  without transactions, from requests that overlap.

Correct means: the table is what the active configuration says whenever no
transaction is open; associations both sides want survive; a failed reload leaves
no trace; the callback uses committed configurations and real states only; it
fails closed; every transaction ends.
Outside the loop: no hook meets a context that is not there, no request is routed
without the policy once the daemon is ready, no core is left running.

For the plugin correct means less, because overlapping requests may overwrite each
other by design: nobody loses a subscriber unreported; what is validated stays valid;
what an undisturbed request answers is true; a daemon that runs is one that boots
again; `udm.yaml` names keys that exist.

## 2. Modules

| Module | Models | State and actions |
|---|---|---|
| `DraConfig` | records and pure functions of the configuration | no state. `ValidConfig`, `ConfigEqual`, `Preflight`, `TransportEqual`, `PeersChange`, `CarriedRuntime`, `Prepared` are the functions of the same purpose in `provisioning.c` and `diameter.c` |
| `DraDaemon` | the loop, the hook and freeDiameter's table | `ctx`, `pend`, the two transaction flags, the SIGHUP flag, the snapshot and the table are variables; `pc` and `idx` are the position of the main thread. One action per call or critical section |
| `ConfigTransaction` | what a reload promises | active configuration, candidate, phase, associations, snapshot |
| `DraRouting` | the callback and `dra_peer_select` | snapshot, validity, registration, the last request with its scores before and after |
| `DraLifecycle` | `main()` without its loop | position of the main thread, core, context, hook, callback, handlers; one action per call. freeDiameter's threads enter and leave the hook and route requests beside it |
| `OpncellConfig` | what requests share | config.xml, its lock, the requests that met a failure; `Save`, `Leave`, `MayFail`, `Unique` |
| `SubscriberStore` | subscribers and profiles | MongoDB, scripts that may still run, one record per request; one action per call |
| `NetworkSwitch` | switching and single daemons | running daemons, rc.conf, one record per request; one action per call |
| `HnetKeys` | key generation | `udm.yaml`, key files, one record per request; one action per step of `generate_hnet.py` |
| `Plugin` | the three together on one config.xml | interleaves them; `shared` records which requests overlapped another |
| `DraDaemon_proofs` → `DraReconcile_proofs` → `DraTransaction_proofs` | theorems about `DraDaemon`: types and commits; the table in each phase; refinement and published states | each extends the one before |
| `DraRouting_proofs`, `DraLifecycle_proofs` | theorems about these modules | |
| `Plugin_proofs` → `PluginKeys_proofs` → `PluginStore_proofs` | theorems about `Plugin`: profiles and daemons; keys; subscribers, types and lone requests | each extends the one before |
| `MCDraDaemon`, `MCDraRouting`, `MCPlugin` | instances for TLC | |

`DraDaemon` and `DraRouting` extend `DraConfig`. `DraDaemon` instantiates
`ConfigTransaction` with a refinement mapping and is checked to implement it.
`DraRouting` abstracts the daemon to "the snapshot may become any context": what
is true of every snapshot is true of those the daemon publishes, and what those
are is the subject of `SnapshotIsCommitted` and `SnapshotOpenIsReal`.

`DraLifecycle` abstracts the loop to one action (a pass publishes or does not), as
`DraDaemon` starts where `DraLifecycle` is ready.

### Correspondence and granularity

A critical section of `context_lock` is one action; each call into freeDiameter is
one action, because the code never makes one under that lock. So a pass that
removes three peers is three `RemoveStale` steps, and PSMs may move between them.
The exceptions are stated in the modules: the copy into the snapshot is two actions
(`UpdateBegin`, `UpdateEnd`) and each state it copies may be any value the state had
in between; polling (`Sample`) and publishing (`Publish`) a state are two.
A pass in which a forward step fails enters the rollback block in the same pass, as
the code does (`StartRollback` goes to the head of `remove_candidate_peers`).

Abstractions of data: a peer's realm, address, port and transport are one
*endpoint*, because reconciliation only compares them together; the daemon's own
identity and listener are one value; a file that cannot be parsed has
`parses = FALSE`. Names of routes are left out (they are printed). Identities keep
their spelling: `Canon` folds it, freeDiameter's add and remove compare folded, its
poll and the daemon's validation compare as spelled.

In `DraLifecycle` a call that can fail has a branch for it, and `failed` records it
where a property has to except it. From freeDiameter it takes that registering and
unregistering a hook excludes its being called, and that a core asked to stop stops.

In the plugin a call to configd is one action, a step of `generate_hnet.py` as well
(reading, truncating and writing `udm.yaml` are three). A request is a record: what
was asked (`job`, `order`), where it is (`at`), the config.xml it loaded (`copy`),
what is left to do and what it answered. A script that timed out goes into `late` and
may run at any later moment, or never. Of a profile the model keeps the APN and one
value for all its other fields, of a subscriber its key and its copies of profiles,
of a key the request that made it, and of the hex form which key it is of and whether it
is all of it (`HexOf`). An added profile gets an identifier nobody used.

## 3. Runs

Two peers suffice for every kind of change a reload distinguishes (replace, rename,
swap, respell, disable, add, remove, re-prioritise, keep) and for a failure
before, between and after calls. `MaxEdits`, `MaxEvents` and `MaxFaults` bound the
changes of `dra.yaml`, the connection events and the failures of a behaviour; SIGHUPs
are not bounded. Deadlock is checked in every run.

| Run | Instance | Checks |
|---|---|---|
| `reconcile` | six files, one edit, up to two failures of any kind, no connection events | `TypeOK`, `TableMatchesConfig`, `UnchangedPeersStay`, `RollbackSurvivesOneFault`, `SnapshotIsCommitted`, `ImplementsTransaction` |
| `runtime` | three files (one or two peers, the common one at either position), one edit, one failed addition or termination, three events | `SnapshotOpenIsReal` |
| `liveness` | two files, one edit, one failure of any kind, one event, fairness | `TransactionEnds`, `IdleRequestHonoured`, `SnapshotConverges` |
| `routing` | all requests and snapshots of two peers and two routes, ints of five bits | `TypeOK`, `AgreesWithSelect`, `HostIsAuthoritative`, `HostIsReached`, `FailsClosed`, `LowerPriorityWins` |
| `lifecycle` | two peers, any call failing, a termination request at any moment, fairness | `TypeOK`, `HookMeetsContext`, `CoreStartsComplete`, `NeverRefusedUnfilled`, `NoAbandonedCore`, `NativeOnlyAtTheEdges`, `TerminationEnds` |
| `plugin` | any two requests of the plugin, each of which may fail, interleaved call by call | `TypeOK`, `LossIsReported`, `ApnsUnique`, `ProfileSavesLast`, `QuietDaemonsEnabled`, `EntriesHaveKeys`, `SerialKeysKept`, `ToldKeysAreNew`, `LoneAnswersHold`, `LoneSwitchConverges` |
| `lost_reload`, `case_twins`, `damaged`, `priority`, `profile_cascade`, `two_switches` | see section 5 | one property each, violated |

Why the bounds are enough. A transaction compares two configurations, so one edit
gives every ordered pair; two failures are what it takes to break a rollback after a
forward failure (`RollbackSurvivesOneFault` counts them); three events are what it
takes to open a connection, replace its peer and open the new one. Connection states
do not influence the reconciliation except through the hook and the states copied, so
`reconcile` has no events and `runtime` has few failures. `IntMax = 15` and
`ScoreBase = 11` keep the proportions that matter in the score: priorities below the
base, between base and `INT_MAX`, and above.

`SnapshotOpenIsReal` excepts snapshots published while a rollback is undoing a
replacement (and after one was given up): there the active configuration's endpoint
and the association in the table differ until the candidate's peer is gone, and
requests for the old endpoint go to the new one. This is visible in the model and is
stated in the property rather than hidden. The run has no failing allocation, and
cannot have one: a pass that fails to allocate skips the polling (main.c:146) or the
copy, so the snapshot keeps, or takes from a staged candidate, states read before
freeDiameter replaced the peer; TLC shows the property broken then.

What the properties of `lifecycle` show. `HookMeetsContext`: peers cannot connect
before the core starts, hence not before `ctx` is loaded; and all paths take the core
down and the hook away before `ctx` is finalised, except that after a core that could
not be stopped *and* a hook that could not be removed nothing helps.
`NativeOnlyAtTheEdges`: freeDiameter routes without the policy only between its start
and the registration, and between the removal and its end. `NeverRefusedUnfilled`: in
the time between, the snapshot is always there. `NoAbandonedCore` excepts a core whose
start failed: main.c:395-403 ends the process without asking it to stop. Two peers
suffice for "some, but not all, added"; the theorems are for any number.

What the properties of `plugin` show. `LossIsReported` covers the window in which a
change has deleted the subscriber it is about to save, with scripts that run late.
`ApnsUnique` and `ProfileSavesLast` are about whole-file saves of stale copies: they may
undo each other's changes (that is the code's behaviour and no property denies it), but
not mix them, and what a request made of a profile nobody else asks for is undone only
by a request that overlapped it and saves a copy of its own; deletions, which load the
file anew under its lock, and later requests never undo it. `QuietDaemonsEnabled` holds
because every switch stops every daemon after the template that disables it.

`EntriesHaveKeys`, `SerialKeysKept` and `ToldKeysAreNew` state what is left of the key
store without a lock. Generations may share a number: then the last writer's key is in the
file, and what an administrator was told is of one of them (`Beside`), never of a key an
earlier generation left in the file or that was installed, although a failure that empties
`udm.yaml` has numbers given out again from 1. Generations that do not overlap keep every
entry and every key told, failures included, until one fails between emptying `udm.yaml`
and writing it; nothing in the code restores the file after that.

`LoneAnswersHold` and
`LoneSwitchConverges` are about requests that overlapped no other, but started from any
state earlier requests left: a switch also from what failed ones left, if it met no
failure itself; for answers nothing may have failed, because a script that timed out
earlier may still run and delete what the request has stored.

Bounds of `plugin`. Each request runs once, so `MaxRequests = 2` is two requests in any
overlap, or one after the other; the hazards are pairs. Two subscribers, one of them
there at the start, and three profile identifiers, one of them free, make "exists" and
"does not exist" possible for each operation; APNs can clash with a profile that is
there and with one being added. The four daemons are one of each kind the tables tell
apart: of 4G only, of 5G SA only, of every network, and `sepp`, which configd has no
action for. `MaxId` is what two generations reach. `MCPlugin` has TLC evaluate
`TablesAgree` for these daemons and for all that the tables name (`Complete`). The
requests are interchangeable and are a symmetry set; no property of the run is a
liveness property. That nobody waits for ever, on the lock of config.xml in particular,
is the deadlock check: only `Quiet` may stutter.

### Fairness

`WF(Main)`: the loop has no blocking wait but `sleep(1)` and short critical sections.
`WF(PeerHook(c))`: a PSM that reports an event waits for such a section only.
`WF(PsmTerminate(c))`: a PSM takes the events of its queue in order, so a termination
request is reached. Nothing is assumed about connections, the operator or SIGHUPs.
`SnapshotConverges` is of the form "eventually always" and is about behaviours in
which edits, events and failures stop, which the bounds make all of them.

`DraLifecycle`: `WF(Main)` for the main thread as above; `WF(HookLeave)`, because a hook
holds a lock for a moment. Removing the hook waits until no hook runs, and the core's
end for its state machines, both of which hooks that come and go can interrupt but not
prevent: `SF(Shutdown \/ Abort)` and `SF(CoreStops)`. The first is the fairness of the
lock on which `fd_hook_unregister` waits, the second says that a state machine told to
end does so after the hook it is in. Errors of the wait are not assumed to happen.

## 4. Theorems

Checked by `tlapm` for every value of the constants, under the named assumptions of the
modules: `Canon` is a function, files are configurations, bounds are naturals, `0 <=
ScoreBase <= IntMax`, offered scores are integers; requests are finitely many and each
of one kind (`KindsDiffer`), a failed lookup (`None`) is not a value, jobs name
subscribers and profiles of the instance, a bulk upload at least one of each, and the
identifiers up to `MaxId`, which stands for "no bound", are enough for the key
generations considered (`IdentifiersSuffice`).

| Theorem | Says |
|---|---|
| `TypeCorrect` of `DraDaemon_proofs` | `Spec => []TypeOK` of `DraDaemon` |
| `SnapshotAlwaysCommitted` | `Spec => []SnapshotIsCommitted` |
| `TableFollowsConfig`, `RollbackSurvives`, `UnchangedPeersKept` | `TableMatchesConfig`, `RollbackSurvivesOneFault`, `UnchangedPeersStay`, if `StartableFiles` |
| `ReloadIsTransaction` | `Spec => ImplementsTransaction`, if `StartableFiles`: `DraDaemon` refines `ConfigTransaction` |
| `SnapshotAlwaysReal` | `SnapshotOpenIsReal`, if `StartableFiles` and allocations succeed |
| `TypeAlwaysOK` | `TypeOK` of `DraRouting` |
| `RoutingFailsClosed`, `HostAlwaysAuthoritative`, `HostAlwaysReached` | `FailsClosed`, `HostIsAuthoritative`, `HostIsReached` |
| `LowerPriorityAlwaysWins` | `LowerPriorityWins`, if every priority is at most `IntMax` |
| `CallbackAgreesWithSelect` | `AgreesWithSelect`, if no context has case twins and every priority is at most `ScoreBase` |
| `TypeCorrect`, `HookAlwaysMeetsContext`, `CoreAlwaysStartsComplete`, `NeverRefused`, `NoCoreAbandoned`, `PolicyBetweenTheEdges` of `DraLifecycle_proofs` | `TypeOK`, `HookMeetsContext`, `CoreStartsComplete`, `NeverRefusedUnfilled`, `NoAbandonedCore`, `NativeOnlyAtTheEdges`, for every number of peers |
| `ApnsAlwaysUnique`, `ProfileSavesAlwaysLast` | `ApnsUnique`, `ProfileSavesLast`, for every number of requests of all kinds |
| `QuietDaemonsAlwaysEnabled` | `QuietDaemonsEnabled`, for every number of switches, if `TablesAgree` |
| `LoneSwitchAlwaysConverges` | `LoneSwitchConverges`, whatever earlier requests left or failed to do, if `TablesAgree` |
| `LoneAnswersAlwaysHold` | `LoneAnswersHold`, for every job and any number of earlier requests |
| `EntriesAlwaysHaveKeys`, `SerialKeysAlwaysKept`, `ToldKeysAlwaysNew` | `EntriesHaveKeys`, `SerialKeysKept`, `ToldKeysAreNew`, for every number of key generations beside any other requests |
| `LossAlwaysReported` | `LossIsReported`, for every number of requests |
| `PluginTypeAlwaysOK` | `TypeOK` of `Plugin`, if `TablesAgree` |

### Two assumptions of theorems

`StartableFiles` says that a file a reload accepts is one the daemon could be started
with: no two of its enabled peers have identities that differ in case only. The code
does not check this at a reload, and run `case_twins` shows what then happens, so without
it the theorems are false. (Start-up adds the peers one by one and ends when freeDiameter
refuses one, which is why the daemon never starts with such a file.)

`TablesAgree` says of the tables of networks, daemons and rc.conf that a network names
its daemons once, that every daemon is one of the network or among the others, and that
rc.conf enables what the networks in service need. The tables filter sequences with a
recursive operator of the library, which is out of the prover's reach; TLC evaluates
`TablesAgree` on the instance and on all the daemons of the code. What the commands of a
switch come to is proved from it (`CommandsOfSwitch`): each daemon is stopped, those of
the network are started after that, and no other is started.

### The arguments

*Type correctness.* `TypeOK` is inductive. It is split into seven parts
(`OutsideTyped`, ..., `PsmsTyped`); lemmas say what each call into freeDiameter and
each kind of jump in the loop does to its part, and one lemma per phase of the loop
puts them together. The interesting parts are that a context always has exactly one
run-time state per peer (`PreparedIsContext`, `ContextWithStates`) and that loop
indices stay on their lists (`IndexedPeers`).

*Committed snapshots.* `SnapshotIsCommitted` alone is not inductive: a commit takes
over the candidate, whose generation must be new. `PhaseMatchesPC` adds that a
candidate that may still be committed is one generation ahead of `ctx`, that the two
transaction flags exclude each other, and that the forward and backward loops run
only under theirs, so that a completed rollback never resets a candidate that is
still wanted.

*The table.* `ReconcileInv` adds to that what the table holds in each phase (`TableInv`)
on the way from configuration A to B. Throughout, the associations both want are in
place. In the removal loop the table holds nothing but A's peers, and once a pass has
gone through without `EAGAIN` (`~again`) none of those it came past; in the addition loop
it holds what both want and the additions so far; on the way back the same with A and B
exchanged, except that peers whose termination failed may be left over
(`terminateFailed`). Each loop's end is the next phase's beginning, and the end of either
way is `IdleTable`: exactly the active configuration. Two lemmas about configurations
carry this: `Counterpart` (being unchanged is symmetric) and `StaleApart` (a peer that
changes sits at another place of the table than every peer that does not), and the
second is where `StartableFiles` is needed. A call into freeDiameter touches one place
(`TableSteps`). `RollbackSurvives` needs in addition that a transaction on its way back
has met a fault already.

*The refinement.* `SameVocabulary` identifies the operators of `ConfigTransaction` with
those of `DraDaemon`. Steps are then sorted into those that keep active configuration,
candidate, flags and live associations, which stutter, and the ones that stage, take out
or put in one association, commit, turn round, end a rollback, give it up and publish,
each of which is one action of `ConfigTransaction`. That a commit is one, which there
requires the candidate's associations in place, is `TableInv` at the end of the addition
loop; that a removal never hits a common association is `StaleApart`. `Filed` adds that an
entry of the table is kept under its own folded identity.

*Published states.* `PublishedInv` follows a state from the table to the snapshot. Every
pass polls all peers, so behind the loop's index each state that says open belongs to an
association that opened (`ViewInv`); a hook writes such a state only of one that did; the
unlocked copy takes any value the state had meanwhile, all of which are real; and from
the copy to the next pass the main thread removes nothing. The endpoint is A's until the
first addition of B (`EndpointInv`), which is why the property excepts the way back.

*Routing.* `LastRouted` says that the recorded scores were computed with the snapshot
in place. `DeliveredIsEligible` derives from it that a candidate with a non-negative
score is eligible on some route; the three theorems follow with the uniqueness of the
route and of the peer (`OneRoute`, `OnePeer`) and the monotonicity of the score
(`ScoreFalls`). `ScoreFalls` needs priorities that fit an `int`, and the run
`priority` shows that this is a real condition.

*The callback against `dra_peer_select`.* `EligibleIsDelivered` is the converse of
`DeliveredIsEligible`: an eligible candidate whose priority does not exceed the base
has a non-negative score. With `ScoreServes` the best score and the selected peer are
the same; the least matching route exists because `<` on indices is well-founded.

*Start-up and shutdown.* `IInv` adds to `TypeOK` what holds at which position
(`PeersComplete`, `CorePhases`, `ContextPhases`, `HookPhases`, `CallbackPhases`). The
properties need all of it: that a hook meets a context at `unhook` depends on the core
being down there, that on the wait having returned, and where it returned with an
error, on `failed`. TLC checks the same `IInv` on two peers.

*Profiles and daemons.* `ApnsUnique` is not inductive: a request saves the copy it loaded
earlier. `FilesGood` says that config.xml *and every copy a request holds* is
well-formed with unique APNs; each save then keeps it. `QuietDaemonsEnabled` rests on
`StrayDaemonsDoomed`: as long as nothing failed, a running daemon that rc.conf does
not enable has a `stop` ahead of it in a switch under way. A template makes strays and
appends a stop for every daemon (`CommandsOfSwitch`); a start adds only enabled ones.

*Keys.* `Sharing` makes "kept apart" usable: of two requests under way both are in
`shared`, so one that is not is alone (`OnlyMaker`). `KeysInv` then says that a lone
generation's identifier is above all in use (`NumberIsNew`), that each entry of `udm.yaml`
*and of each copy a request read of it* has its key (`KeysKept`), and how far a lone
generation has come (`SerialKept`). While `udm.yaml` is truncated, what counts is the copy
the request is about to write (`Table`): `SerialKept` says that it is whole and has lost
nothing, unless a generation failed that had emptied the file. For `ToldKeysAreNew`,
`MadeBeside` follows the key from the file into what is told: whoever writes the file of a
generation under way overlaps it and has its number, and that two generations ran beside
each other with one number stays true (`BesideGrows`). A file of an earlier generation is
overwritten first, because openssl replaces it. That identifiers stay within `MaxId` is a count:
each entry leaves room for the generations that have no identifier yet (`Room`).

*Saved profiles.* `SavesCarried` says of a request that has answered and is alone with its
profile that config.xml *and every copy of it that will still be saved* has the profile
as it left it. When it answers, nobody holds such a copy: the holder would be under way
at the same time, so both would be in `shared` (`AnswersCarry`). Afterwards a new copy is
taken from config.xml, and a save writes such a copy with another profile changed, other
flags or another scheme (`ClerkSaves`, `SwitcherSaves`, `KeyMakerSaves`). What the
property supposes can only become false as more requests come in, so whoever satisfies it
now did so before (`UndisturbedBefore`).

*Lost subscribers.* Of several overlapping changes of a subscriber each may delete what
another has restored, so no single request is to blame. `LossCounted` counts instead: a
change takes its subscriber away at most once and answers "success" only when it put one
back where there was none. So, as long as nobody asks for a deletion, the changes
answered with "success", plus one if the subscriber is missing, are at most those past
their deletion. If it is missing, some change is past its deletion and was not answered
with "success".

*Lone requests.* `Sharing` excludes two requests under way of which one is not in
`shared`, so while a request overlaps no other only it moves, and scripts that run late
(`LoneActsAlone`). The rest is an invariant about how far it has come. For a switch,
`LoneSwitch`: config.xml and, after the template, rc.conf hold its network alone, and
the commands left, with the daemons that run, lead to it (`LeadsTo`): each of its daemons
has a last start ahead, or runs and has no stop ahead; every other has no start ahead,
and a stop if it runs. Each command keeps that (`NextCommandLeads`), and with no command
left it is the property. For a request on subscribers, `LoneClerk`: the copy it works on
is config.xml as it is, its deletion has happened, no script is late where nothing
failed, and of a bulk upload the rows it has dealt with are stored or noted as
duplicates (`RowsDone`). A later row with the same IMSI finds the subscriber there, so it
is noted and never overwrites the earlier one (`NextRowDone`).

### Only model-checked

Liveness (`TransactionEnds`, `IdleRequestHonoured`,
`SnapshotConverges`, `TerminationEnds`): the prover does not reason about fairness and
`ENABLED`. The properties of the six runs that expect a violation are false of the code.

## 5. Disagreements found

* `lost_reload`: a SIGHUP during a reconciliation is logged as "deferred" and dropped.
* `case_twins`: identities that differ in case pass validation; freeDiameter refuses
  the second, and the rollback removes the unchanged first and does not restore it.
* `damaged`: once a rollback was given up the table differs from `ctx`, and later
  reloads commit although the table is not what the candidate asks for.
* `priority`: priorities of 2^31 and more wrap to the highest scores.
* `profile_cascade`: the statement that should carry a changed profile to its
  subscribers lacks a comma, is rejected by mongosh, and the error is swallowed.
* `two_switches`: two overlapping switches leave a network enabled whose daemons are
  down, because a start does nothing for a daemon the other switch disabled.

The other passing runs assume what these refute: their files have no case twins
(`Startable` and the sets of `MCDraDaemon`), `TableMatchesConfig` is about tables no
rollback has damaged, and `routing` stays below the wrap.

Seen while modelling, in the model, and not contradicted by any text: a deletion that
is known to have happened answers "failed", because config.xml holds no subscriber to
delete (`LockConfig`); `sepp` is in the table of services but has no configd action and never
starts (`Startable`); a process that ends after a failed `fd_core_start()` does not stop
the core; after a failure on the way up the generated configuration stays in `/tmp`; a
failed write of `udm.yaml` leaves it empty. Outside the model: the routing diagnostic
`dra_diameter_test_routing()` names peers of its own and fails on any configuration that
lacks them (`Diagnose` may go either way); the ARP flags of subscribers always come out
as "2".

The hex form of a key. The comment at generate_hnet.py:165 calls it "HEX public key". For
curve25519 the last 32 bytes of the DER form are the key. For secp256r1, the default, the
script keeps the last 33 bytes, which would be the compressed key, but lines 177-182 do not
ask openssl for the compressed form, as lines 148-153 do for the PEM: what is told and
written to the `.pub.hex` file is the last byte of X followed by Y. `HexOf` says so
(`whole`), and the properties claim of the hex only which key it was derived from.

MongoDB's shell. The model has a script answer what its text says it answers, and has
failure branches for every other outcome. With the output of current mongosh more of them
are taken than the scripts intend: `remove` of opncell_db.sh (lines 601-611) looks for a
quoted `"deletedCount"`, which mongosh does not print, so that a deletion that happened
answers null; and what `showone` (982-986) prints is not JSON, so that getUser.py (42-66)
finds nobody and a change ends with "User not found". These are the branches of
`DeleteUser` and `FetchUser` in which a call fails; the safety properties hold in them,
and `LoneAnswersHold` says little of a request that takes one.

## 6. Not modelled, and the plan

Done, the most important behaviour first: `DraConfig`, `DraDaemon` with
`ConfigTransaction`, `DraRouting`, `DraLifecycle`, `SubscriberStore`, `NetworkSwitch`,
`HnetKeys`, `Plugin`, their runs, the theorems above. Every invariant and action property
of the passing runs is a theorem. What is left is out of the prover's reach: the liveness
properties, and `TablesAgree`, which would need induction over the tables.

Left out, with the reason:

* of the DRA: YAML parsing (one predicate), log formats, freeDiameter beyond the calls
  the DRA makes;
* of the plugin: what is written into the daemons' YAML files, the parsing of uploads
  and forms (a form that fails validation changes nothing), searching and listing, an
  addition without any profile, MongoDB's start, the deletion of subscribers listed in
  config.xml, where no request puts any;
* the rest of config.xml's handling (backups, revisions, import), sessions, views;
* shell scripts that install, start and kill processes: behaviour of external programs;
* everything else in the repository is third-party or superseded: the OPNsense
  framework, the Phalcon developer tools, the HelloWorld prototype. In particular all
  of its JavaScript (jQuery, AdminLTE, CodeMirror, Bootstrap, fixtures of
  PHP_CodeSniffer) is vendored; the system itself is the C of `dra/` and the PHP,
  Python and shell of `opncell/`, and these are what the modules translate.
