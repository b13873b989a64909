---------------------------- MODULE OpncellConfig -----------------------------
(***************************************************************************)
(* What the web requests of the OPNcell plugin share (Config.php of the    *)
(* OPNsense framework, and configd behind Backend.php).                    *)
(*                                                                         *)
(* Every request runs in a PHP process of its own.  It loads all of        *)
(* config.xml once, works on that copy, and saves all of the copy: what    *)
(* another request saved in between is overwritten, unless the request     *)
(* took the lock, which loads the file anew.                               *)
(*                                                                         *)
(* config.xml is cut down to what the plugin keeps in it: which networks   *)
(* are enabled, the profiles, and the scheme of the next home-network key. *)
(***************************************************************************)
EXTENDS Naturals, FiniteSets

CONSTANTS Requests,    \* the requests, each of which runs once
          Uuids,       \* identifiers of profiles
          Apns, Terms, \* a profile's APN, and all its other fields
          MaxFaulty,   \* number of requests that may meet failing calls
          None

ASSUME ConfigAssumption ==
  /\ MaxFaulty \in Nat /\ IsFiniteSet(Requests)
  /\ None \notin [apn : Apns, terms : Terms] /\ None \notin Requests
  /\ None \notin {"ok", "success", "saved", "deleted", "not found"}

VARIABLES config,   \* the file
          lock,     \* the request that holds its lock beyond a save, or None
          faulty    \* the requests some call of which failed

configVars == <<config, lock, faulty>>

Networks == {"enablefour", "enablefiveNSA", "enablefiveSA", "enableupf"}
Schemes  == {1, 2}
Profile  == [apn : Apns, terms : Terms]

ConfigFile == [flags : SUBSET Networks, profiles : [Uuids -> Profile \union {None}],
               scheme : Schemes]

\* A call of r fails: a script ends with an error, configd does not answer in time.
MayFail(r) == faulty' = faulty \union {r} /\ Cardinality(faulty') <= MaxFaulty

\* Config::save() writes the whole copy; its LOCK_UN also ends a lock taken by lock().
Free(r) == lock \in {None, r}
Save(r, copy) == Free(r) /\ config' = copy /\ lock' = None

\* A request that ends closes the file, which ends its lock.
Leave(r) == lock' = IF lock = r THEN None ELSE lock

\* UniqueConstraint on the APN, judged in the copy at hand.
Unique(profiles, u, p) ==
  \A v \in Uuids \ {u} : profiles[v] # None => profiles[v].apn # p.apn
===============================================================================
