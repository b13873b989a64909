--------------------------- MODULE SubscriberStore ----------------------------
(***************************************************************************)
(* Subscribers and profiles (UserController.php, UserRepository.php,       *)
(* ProfileController.php, BulkController.php; saveUsers.py, deleteUser.py, *)
(* getUser.py, updateUser.py).                                             *)
(*                                                                         *)
(* Subscribers live in MongoDB, profiles in config.xml.  A subscriber is   *)
(* stored with a copy of the profiles it was given; changing it is         *)
(* deleting it and saving it again.  The two stores are changed one call   *)
(* at a time, each call a script run by configd.  A script may answer too  *)
(* late or not at all and still run: it is then in late.                   *)
(*                                                                         *)
(* That a script's answer is understood depends on what mongosh prints; an *)
(* answer that is not is a failure here: the deletion has happened and was *)
(* not confirmed, the subscriber was not found.                            *)
(*                                                                         *)
(* Of a subscriber, its keys and its sessions are kept, of a profile its   *)
(* APN and the rest.  A choice of no profile at all in an addition and     *)
(* the ARP flags are left out.                                             *)
(***************************************************************************)
EXTENDS OpncellConfig, Sequences

CONSTANTS Clerks,    \* the requests of this module
          Imsis, Keys,
          Jobs       \* what a clerk may ask for

ASSUME ClerksAssumption == Clerks \subseteq Requests /\ None \notin [key : Keys, sessions : SUBSET Profile]

\* What the forms let through: a bulk upload names a profile (Bulk.xml) and has a row.
ASSUME JobsAssumption ==
  \A job \in Jobs :
    /\ job.op \in {"add", "set", "del", "bulk", "addBulk", "addProfile", "setProfile", "deleteProfile"}
    /\ job.op \in {"add", "set", "del"} => job.imsi \in Imsis
    /\ job.op \in {"add", "set", "bulk"} => job.uuids \subseteq Uuids
    /\ job.op = "add" => job.key \in Keys
    /\ job.op = "bulk" => job.rows \in Seq([imsi : Imsis, key : Keys]) /\ job.rows # <<>>
                         /\ job.uuids # {}
    /\ job.op \in {"addProfile", "setProfile", "deleteProfile"} => job.uuid \in Uuids
    /\ job.op \in {"addProfile", "setProfile"} => job.profile \in Profile

VARIABLES db,     \* subscriber, or None, of each IMSI
          late,   \* timed-out scripts that may still run
          sreq    \* the clerks' requests

storeVars == <<db, late, sreq>>

Subscriber == [key : Keys, sessions : SUBSET Profile]
Script     == [by : Clerks, do : {"insert", "remove"}, imsi : Imsis,
               doc : Subscriber \union {None}]

IdleClerk == [job |-> None, at |-> "idle", copy |-> None, found |-> None,
              left |-> <<>>, imsis |-> {}, answer |-> None]

StoreInit(initial) ==
  /\ db = initial /\ late = {}
  /\ sreq = [c \in Clerks |-> IdleClerk]

StoreBusy == {c \in Clerks : sreq[c].at \notin {"idle", "done"}}
StoreUsed == {c \in Clerks : sreq[c].at # "idle"}

Go(c, at) == sreq' = [sreq EXCEPT ![c].at = at]
Reply(c, answer) == sreq' = [sreq EXCEPT ![c].at = "done", ![c].answer = answer]

-----------------------------------------------------------------------------
ProfileOps == {"addProfile", "setProfile", "deleteProfile"}

FirstStep(op) ==
  CASE op \in {"add", "bulk"} -> "insert"
    [] op = "set" -> "fetch"
    [] op = "del" -> "delete"
    [] op \in {"addProfile", "addBulk"} -> "save"
    [] op = "setProfile" -> "list"
    [] op = "deleteProfile" -> "remove"

\* A profile is added under an identifier nobody ever used.
Fresh(u) == /\ config.profiles[u] = None
            /\ \A d \in StoreUsed : sreq[d].job.op \in ProfileOps => sreq[d].job.uuid # u

\* A request comes in and loads config.xml.
Ask(c) ==
  /\ sreq[c].at = "idle"
  /\ \E job \in Jobs :
       /\ job.op = "addProfile" => Fresh(job.uuid)
       /\ sreq' = [sreq EXCEPT ![c].job = job, ![c].at = FirstStep(job.op), ![c].copy = config,
                               ![c].left = IF job.op = "bulk" THEN job.rows ELSE <<>>]
  /\ UNCHANGED <<configVars, db, late>>

\* Defect for the checks: the keys of a bulk upload's first row serve for all.
BugFirstRow(c) == CASE sreq[c].job.op = "bulk" -> Head(sreq[c].job.rows).key
                    [] sreq[c].job.op = "set"  -> sreq[c].found.key
                    [] OTHER                   -> sreq[c].job.key

\* The subscriber a request is about to save: of a bulk upload, the next row.
Imsi(c) == IF sreq[c].job.op = "bulk" THEN Head(sreq[c].left).imsi ELSE sreq[c].job.imsi
Key(c) == CASE sreq[c].job.op = "bulk" -> Head(sreq[c].left).key
            [] sreq[c].job.op = "set"  -> sreq[c].found.key
            [] OTHER                   -> sreq[c].job.key

\* A bulk upload uses the chosen profiles that still exist.
Chosen(c) == IF sreq[c].job.op = "bulk"
             THEN {u \in sreq[c].job.uuids : sreq[c].copy.profiles[u] # None}
             ELSE sreq[c].job.uuids

\* Defect for the checks: a profile that is no longer there is stored with empty fields.
BugAnyProfile(c) == Chosen(c) # {}

\* saveUsers.py fails on a profile that does not exist, and without one.
Buildable(c) == /\ Chosen(c) # {}
                /\ \A u \in Chosen(c) : sreq[c].copy.profiles[u] # None
Built(c) == [key |-> Key(c), sessions |-> {sreq[c].copy.profiles[u] : u \in Chosen(c)}]

\* Defect for the checks: a change answers "success" whatever became of the save.
BugIgnoreSave(op, result) == IF op = "set" THEN "success" ELSE result

\* What a request says of a save: a change that failed gives the subscriber back.
Outcome(op, result) ==
  IF op # "set" THEN result ELSE IF result = "Success" THEN "success" ELSE "the subscriber"

\* A bulk upload goes on to the next row and notes duplicates only.
Saved(c, result) ==
  IF sreq[c].job.op = "bulk"
  THEN sreq' = [sreq EXCEPT ![c].left = Tail(@),
                            ![c].imsis = IF result = "Duplicate" THEN @ \union {Imsi(c)} ELSE @,
                            ![c].at   = IF Tail(sreq[c].left) = <<>> THEN "done" ELSE @]
  ELSE Reply(c, Outcome(sreq[c].job.op, result))

\* configd gives up on a script, which may yet run.
TimeOut(c, do, imsi, doc) ==
  /\ MayFail(c)
  /\ late' \in {late, late \union {[by |-> c, do |-> do, imsi |-> imsi, doc |-> doc]}}

\* saveUsers.py: MongoDB refuses a second subscriber with the same IMSI.
SaveUser(c) ==
  /\ sreq[c].at = "insert"
  /\ \/ /\ Buildable(c)
        /\ db[Imsi(c)] = None /\ db' = [db EXCEPT ![Imsi(c)] = Built(c)]
        /\ Saved(c, "Success") /\ UNCHANGED <<late, faulty>>
     \/ /\ Buildable(c)
        /\ db[Imsi(c)] # None /\ UNCHANGED db
        /\ Saved(c, "Duplicate") /\ UNCHANGED <<late, faulty>>
     \/ /\ ~Buildable(c)
        /\ Saved(c, "Error") /\ UNCHANGED <<db, late, faulty>>
     \/ /\ Buildable(c)
        /\ Saved(c, "null") /\ TimeOut(c, "insert", Imsi(c), Built(c)) /\ UNCHANGED db
  /\ Leave(c) /\ UNCHANGED config

\* setSubAction(): the subscriber's keys are read back; without an answer it counts as
\* unknown.
FetchUser(c) ==
  /\ sreq[c].at = "fetch"
  /\ \/ /\ db[sreq[c].job.imsi] # None /\ sreq[c].job.uuids # {}
        /\ sreq' = [sreq EXCEPT ![c].at = "delete", ![c].found = db[sreq[c].job.imsi]]
        /\ UNCHANGED faulty
     \/ /\ db[sreq[c].job.imsi] = None \/ sreq[c].job.uuids = {}
        /\ Reply(c, "Failed") /\ UNCHANGED faulty
     \/ Reply(c, "Failed") /\ MayFail(c)
  /\ UNCHANGED <<config, lock, db, late>>

\* deleteSubFromDBAction(): only a deletion that is known to have happened goes on to
\* config.xml; a change goes on to its save in any case.
DeleteUser(c) ==
  /\ sreq[c].at = "delete"
  /\ LET imsi == sreq[c].job.imsi
         After(result) == IF sreq[c].job.op = "set" THEN Go(c, "insert") ELSE Reply(c, result)
     IN \/ /\ db[imsi] # None /\ db' = [db EXCEPT ![imsi] = None]
           /\ Go(c, "lock") /\ UNCHANGED <<late, faulty>>
        \/ /\ db[imsi] = None /\ After("Failed") /\ UNCHANGED <<db, late, faulty>>
        \/ /\ After("null") /\ TimeOut(c, "remove", imsi, None) /\ UNCHANGED db
  /\ UNCHANGED <<config, lock>>

\* delAction(''): config.xml is locked and loaded anew, but holds no subscriber to
\* delete, so that a deletion answers "failed".  A change keeps the lock to its end.
LockConfig(c) ==
  /\ sreq[c].at = "lock" /\ Free(c)
  /\ IF sreq[c].job.op = "set"
     THEN sreq' = [sreq EXCEPT ![c].at = "insert", ![c].copy = config] /\ lock' = c
     ELSE Reply(c, "failed") /\ lock' = None
  /\ UNCHANGED <<config, faulty, db, late>>

-----------------------------------------------------------------------------
\* setProfileAction(): the subscribers that have a profile of the posted APN; none if
\* the script fails.
ListUsers(c) ==
  /\ sreq[c].at = "list"
  /\ \/ /\ sreq' = [sreq EXCEPT ![c].at = "cascade",
                                ![c].imsis = {i \in Imsis : db[i] # None /\
                                  \E p \in db[i].sessions : p.apn = sreq[c].job.profile.apn}]
        /\ UNCHANGED faulty
     \/ Go(c, "save") /\ MayFail(c)
  /\ UNCHANGED <<config, lock, db, late>>

\* What updateUser.py makes of a subscriber: mongosh rejects the statement of set_apn,
\* which lacks a comma, and the script swallows the error.
Updated(doc, profile) == doc

UpdateUsers(c) ==
  /\ sreq[c].at = "cascade" /\ Go(c, "save")
  /\ db' = [i \in Imsis |-> IF i \in sreq[c].imsis THEN Updated(db[i], sreq[c].job.profile)
                            ELSE db[i]]
  /\ UNCHANGED <<config, lock, faulty, late>>

\* Defect for the checks: only an addition is validated.
BugTrustsEdit(c) == sreq[c].job.op = "addProfile" => Unique(sreq[c].copy.profiles, sreq[c].job.uuid,
                                                            sreq[c].job.profile)

\* performValidation(): the copy as it will be saved has each APN once.
Valid(c) == sreq[c].job.op # "addBulk" =>
              Unique(sreq[c].copy.profiles, sreq[c].job.uuid, sreq[c].job.profile)

\* addBase() and setBase(), which adds a profile that is no longer there.  The record
\* of a bulk upload is saved alike, in a part of config.xml that is not modelled.
SaveProfile(c) ==
  /\ sreq[c].at = "save"
  /\ \/ /\ Valid(c)
        /\ Save(c, IF sreq[c].job.op = "addBulk" THEN sreq[c].copy
                   ELSE [sreq[c].copy EXCEPT !.profiles[sreq[c].job.uuid] = sreq[c].job.profile])
        /\ Reply(c, "saved")
     \/ /\ ~Valid(c) /\ Reply(c, "failed") /\ UNCHANGED <<config, lock>>
  /\ UNCHANGED <<faulty, db, late>>

\* Defect for the checks: the profile is deleted from the copy loaded at the start.
BugDeletesFromCopy(c) ==
  /\ sreq[c].at = "remove"
  /\ Save(c, [sreq[c].copy EXCEPT !.profiles[sreq[c].job.uuid] = None])
  /\ Reply(c, "deleted")
  /\ UNCHANGED <<faulty, db, late>>

\* delBase(): under the lock, from a file loaded anew.
DeleteProfile(c) ==
  /\ sreq[c].at = "remove"
  /\ Save(c, [config EXCEPT !.profiles[sreq[c].job.uuid] = None])
  /\ Reply(c, IF config.profiles[sreq[c].job.uuid] = None THEN "not found" ELSE "deleted")
  /\ UNCHANGED <<faulty, db, late>>

-----------------------------------------------------------------------------
\* A script configd gave up on runs after all, or never will.
LateScript ==
  /\ \E s \in late :
       /\ late' = late \ {s}
       /\ db' \in {db, IF s.do = "remove" \/ db[s.imsi] = None THEN [db EXCEPT ![s.imsi] = s.doc]
                       ELSE db}
  /\ UNCHANGED <<configVars, sreq>>

ClerkStep(c) ==
  \/ Ask(c)
  \/ SaveUser(c) \/ FetchUser(c) \/ DeleteUser(c) \/ LockConfig(c)
  \/ ListUsers(c) \/ UpdateUsers(c) \/ SaveProfile(c) \/ DeleteProfile(c)

StoreNext == LateScript \/ \E c \in Clerks : ClerkStep(c)
===============================================================================
