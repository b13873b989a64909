-------------------------------- MODULE Plugin --------------------------------
(***************************************************************************)
(* The OPNcell plugin: the requests of SubscriberStore, NetworkSwitch and  *)
(* HnetKeys side by side, on one config.xml, with their calls interleaved. *)
(* Each request runs once; at most MaxRequests of them are made.           *)
(***************************************************************************)
EXTENDS SubscriberStore, NetworkSwitch, HnetKeys

CONSTANTS InitialFlags, InitialProfiles, InitialSubscribers, InitialHnet,
          MaxRequests

ASSUME InitialAssumption ==
  /\ InitialFlags \subseteq SUBSET Networks
  /\ InitialProfiles \in [Uuids -> Profile \union {None}]
  /\ \A u \in Uuids : InitialProfiles[u] # None => Unique(InitialProfiles, u, InitialProfiles[u])
  /\ InitialSubscribers \in [Imsis -> Subscriber \union {None}]
  /\ InitialHnet \in Seq([id : 1..MaxId, scheme : Schemes])
  /\ \A i, j \in DOMAIN InitialHnet : InitialHnet[i].id = InitialHnet[j].id => i = j

\* Each request is one of a kind, and MaxId leaves every key maker an identifier.
ASSUME KindsDiffer ==
  Clerks \cap Switchers = {} /\ Clerks \cap KeyMakers = {} /\ Switchers \cap KeyMakers = {}
ASSUME IdentifiersSuffice ==
  /\ MaxId \in Nat /\ Cardinality(KeyMakers) <= MaxId
  /\ \A i \in DOMAIN InitialHnet : InitialHnet[i].id + Cardinality(KeyMakers) <= MaxId

VARIABLE shared   \* requests that ran at the same time as another one

vars == <<config, lock, faulty, db, late, sreq, running, rcconf, nreq,
          udm, private, public, kreq, shared>>

Busy == StoreBusy \union SwitchBusy \union KeysBusy
Used == StoreUsed \union SwitchUsed \union KeysUsed

\* The plugin as an administrator left it.
Init ==
  /\ \E flags \in InitialFlags :
       config = [flags |-> flags, profiles |-> InitialProfiles, scheme |-> 2]
  /\ lock = None /\ faulty = {}
  /\ StoreInit(InitialSubscribers)
  /\ SwitchInit
  /\ KeysInit(InitialHnet)
  /\ shared = {}

Act == \/ StoreNext  /\ UNCHANGED <<switchVars, keyVars>>
       \/ SwitchNext /\ UNCHANGED <<storeVars, keyVars>>
       \/ KeysNext   /\ UNCHANGED <<storeVars, switchVars>>

\* Everything asked for has been answered.
Quiet == Busy = {} /\ Cardinality(Used) = MaxRequests /\ late = {}

Next == \/ /\ Act
           /\ Cardinality(Used') <= MaxRequests
           /\ shared' = IF Cardinality(Busy') > 1 THEN shared \union Busy' ELSE shared
        \/ Quiet /\ UNCHANGED vars

Spec == Init /\ [][Next]_vars

-----------------------------------------------------------------------------
\* Type invariant.
TypeOK ==
  /\ config \in ConfigFile /\ lock \in Clerks \union {None}
  /\ faulty \subseteq Requests /\ Cardinality(faulty) <= MaxFaulty
  /\ db \in [Imsis -> Subscriber \union {None}] /\ late \subseteq Script
  /\ \A c \in Clerks :
       /\ sreq[c].job \in Jobs \union {None} /\ sreq[c].copy \in ConfigFile \union {None}
       /\ sreq[c].at \in {"idle", "fetch", "delete", "lock", "insert", "list", "cascade", "save",
                          "remove", "done"}
       /\ sreq[c].found \in Subscriber \union {None} /\ sreq[c].imsis \subseteq Imsis
  /\ running \subseteq Daemons /\ rcconf \subseteq Daemons
  /\ \A s \in Switchers :
       /\ nreq[s].order \in Orders \union {None} /\ nreq[s].copy \in ConfigFile \union {None}
       /\ nreq[s].at \in {"idle", "set", "configure", "answered", "network", "template",
                          "commands", "done"}
       /\ \A i \in DOMAIN nreq[s].left : nreq[s].left[i].daemon \in Daemons
  /\ udm.whole \in BOOLEAN
  /\ \A i \in DOMAIN udm.hnet : udm.hnet[i] \in [id : 1..MaxId, scheme : Schemes]
  /\ DOMAIN private = Schemes \X (1..MaxId) /\ DOMAIN public = 1..MaxId
  /\ \A k \in KeyMakers :
       /\ kreq[k].id \in 0..MaxId /\ kreq[k].copy \in ConfigFile \union {None}
       /\ kreq[k].pem \in KeyMakers \union {None, Shipped}
       /\ kreq[k].hex \in [key : KeyMakers \union {Shipped}, whole : BOOLEAN] \union {None}
  /\ shared \subseteq Used

\* UserController.php:401-411: a subscriber is deleted before it is saved again, and
\* the outcome of the deletion is ignored.  A subscriber that was there is gone only if
\* its deletion was asked for, or a change of it is under way or was answered with
\* something else than success: nobody loses a subscriber without being told, whatever
\* requests overlap and whatever scripts run late.
LossIsReported ==
  \A i \in Imsis : InitialSubscribers[i] # None /\ db[i] = None =>
    \E c \in StoreUsed :
      \/ sreq[c].job.op = "del" /\ sreq[c].job.imsi = i
      \/ sreq[c].job.op = "set" /\ sreq[c].job.imsi = i /\ sreq[c].answer # "success"

\* UserController.php:361-376, 403-411 and BulkController.php:109-136.  What a request
\* that ran alone, before anything failed, answers is true: after "Success" and "success" the
\* subscriber has the sessions of the profiles as they are in config.xml, and a change
\* kept its keys; a deleted subscriber is gone; every row of a bulk upload is stored
\* with its own keys or was reported.
Answered(c) ==
  LET job == sreq'[c].job
      stored == {config'.profiles[u] : u \in job.uuids}
  IN /\ job.op = "add" /\ sreq'[c].answer = "Success" =>
          db'[job.imsi] = [key |-> job.key, sessions |-> stored]
     /\ job.op = "set" /\ sreq'[c].answer = "success" =>
          db'[job.imsi] = [key |-> sreq'[c].found.key, sessions |-> stored]
     /\ job.op = "del" => db'[job.imsi] = None
     /\ job.op = "bulk" /\ (\A u \in job.uuids : config'.profiles[u] # None) =>
          \A n \in DOMAIN job.rows :
            \/ job.rows[n].imsi \in sreq'[c].imsis
            \/ db'[job.rows[n].imsi] = [key |-> job.rows[n].key, sessions |-> stored]

LoneAnswersHold ==
  [][\A c \in Clerks : sreq[c].at # "done" /\ sreq'[c].at = "done"
                       /\ c \notin shared' /\ faulty' = {} => Answered(c)]_vars

\* Profile.xml: "A profile with this apn name already exists."  Requests validate the
\* copy they loaded and save that copy whole, so that no overlap of additions, changes
\* and deletions leaves two profiles with one APN.
ApnsUnique ==
  \A u \in Uuids : config.profiles[u] # None => Unique(config.profiles, u, config.profiles[u])

\* Requests that save a copy of config.xml loaded earlier: all that save, except
\* deletions.
Rewriters ==
  {c \in StoreUsed : sreq[c].job.op \in {"addProfile", "setProfile", "addBulk"}}
  \union {s \in SwitchUsed : nreq[s].order.op = "switch"}
  \union {k \in KeysUsed : kreq[k].at = "choose" \/ kreq[k].told = "saved"}

\* Requests that nobody but c made about profile u.
OnlyOneAbout(u, c) ==
  \A d \in StoreUsed \ {c} : sreq[d].job.op \in ProfileOps => sreq[d].job.uuid # u

\* Config.php:735, ApiMutableModelControllerBase.php:497-509.  What a request has made of
\* a profile lasts as long as no other request asks for that profile.  Only a request
\* that overlaps it and saves an older copy of config.xml may undo it: not a deletion,
\* which loads the file anew under its lock, and nobody who came later.
ProfileSavesLast ==
  \A c \in StoreUsed :
    LET job == sreq[c].job IN
    /\ job.op \in ProfileOps /\ sreq[c].answer \in {"saved", "deleted", "not found"}
    /\ OnlyOneAbout(job.uuid, c)
    /\ c \in shared => Rewriters \cap shared \subseteq {c}
    => config.profiles[job.uuid] = IF job.op = "deleteProfile" THEN None ELSE job.profile

\* ServiceController.php:127-138.  Once all switches have ended without failure, no
\* daemon runs that rc.conf does not enable, in whatever order their commands were
\* carried out: one that does would be gone after the next boot.
QuietDaemonsEnabled == Busy = {} /\ faulty = {} => running \subseteq rcconf

\* GeneralController.php:88-92 and ServiceController.php:127-138.  After a switch that
\* ran alone and met no failure, its network is the only one enabled, and the daemons
\* that run are the ones of this network that can be started.
LoneSwitchConverges ==
  [][\A s \in Switchers :
       /\ nreq[s].at # "done" /\ nreq'[s].at = "done" /\ nreq'[s].order.op = "switch"
       /\ s \notin shared' \union faulty'
       => /\ config'.flags = {nreq'[s].order.network}
          /\ running' = Services(nreq'[s].order.network) \ {"sepp"}]_vars

\* generate_hnet.py:124-195.  udm.yaml names no key that is not there, unless a key
\* generation failed while another request was running.
EntriesHaveKeys ==
  faulty \cap shared = {} =>
    \A i \in DOMAIN udm.hnet : private[<<udm.hnet[i].scheme, udm.hnet[i].id>>] # None

\* generate_hnet.py:31-64.  As long as key generations do not overlap, wherever they
\* fail, and until one fails that has emptied udm.yaml, there is one entry per
\* identifier, the entries and the keys that were installed stay, and each key that an
\* administrator was told of keeps its entry and its files.
SerialKeysKept ==
  KeyMakers \cap shared = {} =>
    /\ KeyMakers \cap faulty = {} /\ KeysBusy = {} => udm.whole
    /\ udm.whole =>
         /\ \A i, j \in DOMAIN udm.hnet : udm.hnet[i].id = udm.hnet[j].id => i = j
         /\ \A i \in DOMAIN InitialHnet :
              /\ i \in DOMAIN udm.hnet /\ udm.hnet[i] = InitialHnet[i]
              /\ private[<<InitialHnet[i].scheme, InitialHnet[i].id>>] = Shipped
         /\ \A k \in KeyMakers : kreq[k].told = "ok" =>
              /\ private[File(k)] = k /\ public[kreq[k].id] = k
              /\ \E i \in DOMAIN udm.hnet : <<udm.hnet[i].scheme, udm.hnet[i].id>> = File(k)

\* The generations that wrote, or may have written, k's files: k and those that ran
\* beside it with the same number and scheme.
Beside(k) == {k} \union {m \in KeyMakers : {k, m} \subseteq shared /\ File(m) = File(k)}

\* generate_hnet.py:121-187.  Wherever generations fail and however they overlap, what an
\* administrator is told, as PEM and in hex, is of a key made meanwhile: by this
\* generation or by one beside it that was given the same number, never of one that
\* an earlier generation left behind or that was installed.
ToldKeysAreNew ==
  \A k \in KeyMakers : kreq[k].told = "ok" => {kreq[k].pem, kreq[k].hex.key} \subseteq Beside(k)

\* ProfileController.php:210: "cascade the changes of the profile, to the attached
\* users."  A changed profile that was saved, by a request that ran alone and met no
\* failure, is what its subscribers have.
ProfileCascades ==
  \A c \in StoreUsed :
    /\ Quiet /\ Used = {c} /\ faulty = {}
    /\ sreq[c].job.op = "setProfile" /\ sreq[c].answer = "saved"
    => \A i \in Imsis : db[i] # None =>
         \A p \in db[i].sessions : p.apn = sreq[c].job.profile.apn => p = sreq[c].job.profile

\* ServiceController.php:134: "Start the services that belong to the current network".
\* After switches that met no failure, the daemons of the enabled network run.
CurrentNetworkRuns ==
  Quiet /\ faulty = {} => \A network \in config.flags : Services(network) \ {"sepp"} \subseteq running
===============================================================================
