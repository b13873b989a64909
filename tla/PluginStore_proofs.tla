--------------------------- MODULE PluginStore_proofs --------------------------
(***************************************************************************)
(* Proofs about subscribers and about what requests answer, for any number *)
(* of requests, and about the types of all of the plugin's state.          *)
(***************************************************************************)
EXTENDS PluginKeys_proofs

Row == [imsi : Imsis, key : Keys]

ClerkTyped(c) ==
  /\ sreq[c].at \in {"idle", "fetch", "delete", "lock", "insert", "list", "cascade", "save",
                     "remove", "done"}
  /\ sreq[c].job \in Jobs \union {None} /\ sreq[c].copy \in ConfigFile \union {None}
  /\ sreq[c].found \in Subscriber \union {None} /\ sreq[c].imsis \subseteq Imsis
  /\ sreq[c].at = "fetch" => sreq[c].job.op = "set"
  /\ sreq[c].at \in {"delete", "lock"} => sreq[c].job.op \in {"set", "del"}
  /\ sreq[c].at = "insert" => sreq[c].job.op \in {"add", "set", "bulk"}
  /\ sreq[c].at \in {"delete", "lock", "insert"} /\ sreq[c].job.op = "set" => sreq[c].found \in Subscriber
  /\ sreq[c].at = "insert" /\ sreq[c].job.op = "bulk" => sreq[c].left \in Seq(Row) /\ sreq[c].left # <<>>
  /\ sreq[c].answer = "success" => sreq[c].at = "done"

\* A late script is one its request has given up, and a late removal is one the
\* request was made for.
ScriptTyped(s) ==
  /\ s \in Script
  /\ sreq[s.by].at \notin {"idle", "fetch", "delete"}
  /\ s.do = "insert" => s.doc \in Subscriber
  /\ s.do = "remove" => /\ s.doc = None /\ s.imsi = sreq[s.by].job.imsi
                        /\ sreq[s.by].job.op \in {"set", "del"}

StoreTyped ==
  /\ db \in [Imsis -> Subscriber \union {None}]
  /\ \A s \in late : ScriptTyped(s)
  /\ \A c \in Clerks : ClerkTyped(c)

-----------------------------------------------------------------------------
(* A change takes its subscriber away at most once, and answers "success"  *)
(* only when it has put one back where there was none.  So while nobody    *)
(* deletes the subscriber, the changes that may have taken it away are     *)
(* more than those that were answered with "success" when it is missing.   *)

\* Changes of i that are past their deletion, which is not pending either.
Removing(i) ==
  {c \in Clerks : /\ sreq[c].at \notin {"idle", "fetch", "delete"}
                  /\ sreq[c].job.op = "set" /\ sreq[c].job.imsi = i
                  /\ \A s \in late : s.by = c => s.do = "insert"}

Restored(i) ==
  {c \in Clerks : /\ sreq[c].at # "idle" /\ sreq[c].answer = "success"
                  /\ sreq[c].job.op = "set" /\ sreq[c].job.imsi = i}

Deleted(i) == \E c \in StoreUsed : sreq[c].job.op = "del" /\ sreq[c].job.imsi = i

Missing(s) == IF s = None THEN 1 ELSE 0

LossCounted ==
  \A i \in Imsis : InitialSubscribers[i] # None /\ ~Deleted(i) =>
    Cardinality(Restored(i)) + Missing(db[i]) <= Cardinality(Removing(i))

-----------------------------------------------------------------------------
(* Types of the clerks' requests.                                          *)

\* What a clerk may save is a subscriber.
LEMMA BuiltIsSubscriber ==
  ASSUME FilesGood, StoreTyped, NEW c \in Clerks, sreq[c].at = "insert", Buildable(c)
  PROVE  Built(c) \in Subscriber /\ Built(c) # None /\ Imsi(c) \in Imsis
<1>1. /\ sreq[c].job \in Jobs /\ sreq[c].copy.profiles \in [Uuids -> Profile \union {None}]
      /\ ClerkTyped(c) /\ sreq[c].job.op \in {"add", "set", "bulk"}
  BY DEF FilesGood, ClerksGood, Good, ConfigFile, StoreTyped, ClerkTyped
<1>2. sreq[c].job.uuids \subseteq Uuids /\ Chosen(c) \subseteq Uuids
  BY <1>1, JobsAssumption DEF Chosen
<1>3. {sreq[c].copy.profiles[u] : u \in Chosen(c)} \subseteq Profile
  BY <1>1, <1>2 DEF Buildable
<1>4. Key(c) \in Keys /\ Imsi(c) \in Imsis
  <2>1. CASE sreq[c].job.op = "bulk"
    <3>1. sreq[c].left \in Seq(Row) /\ sreq[c].left # <<>>
      BY <1>1, <2>1 DEF ClerkTyped
    <3>2. Head(sreq[c].left) \in Row
      BY <3>1
    <3>. QED  BY <2>1, <3>2 DEF Key, Imsi, Row
  <2>2. CASE sreq[c].job.op = "set"
    <3>1. sreq[c].found \in Subscriber
      BY <1>1, <2>2 DEF ClerkTyped
    <3>. QED  BY <1>1, <2>2, <3>1, JobsAssumption DEF Key, Imsi, Subscriber
  <2>3. CASE sreq[c].job.op = "add"
    BY <1>1, <2>3, JobsAssumption DEF Key, Imsi
  <2>. QED  BY <1>1, <2>1, <2>2, <2>3
<1>5. Built(c) \in Subscriber
  BY <1>3, <1>4 DEF Built, Subscriber
<1>. QED  BY <1>4, <1>5, ClerksAssumption DEF Subscriber

\* Past its deletion, a request does not come back to it.
LEMMA ClerksAdvance ==
  ASSUME FilesGood, StoreTyped, NEW c \in Clerks, ClerkStep(c),
         sreq[c].at \notin {"idle", "fetch", "delete"}
  PROVE  sreq'[c].at \notin {"idle", "fetch", "delete"}
<1>. USE DEF FilesGood, ClerksGood, Go, Reply
<1>1. CASE SaveUser(c)
  <2>1. sreq[c].at = "insert" /\ \E result : Saved(c, result)
    BY <1>1 DEF SaveUser
  <2>2. CASE sreq[c].job.op = "bulk"
    BY <2>1, <2>2 DEF Saved
  <2>3. CASE sreq[c].job.op # "bulk"
    BY <2>1, <2>3 DEF Saved
  <2>. QED  BY <2>2, <2>3
<1>2. CASE LockConfig(c)
  BY <1>2 DEF LockConfig
<1>3. CASE ListUsers(c) \/ UpdateUsers(c)
  BY <1>3 DEF ListUsers, UpdateUsers
<1>4. CASE SaveProfile(c) \/ DeleteProfile(c)
  <2>1. \E answer : sreq' = [sreq EXCEPT ![c].at = "done", ![c].answer = answer]
    BY <1>4 DEF SaveProfile, DeleteProfile
  <2>. QED  BY <2>1
<1>. QED  BY <1>1, <1>2, <1>3, <1>4 DEF ClerkStep, Ask, FetchUser, DeleteUser

\* A step of c is to be looked at for c, for the database, and for a new late script.
LEMMA OtherClerksTyped ==
  ASSUME FilesGood, StoreTyped, NEW c \in Clerks, ClerkStep(c), ClerkTyped(c)',
         db' \in [Imsis -> Subscriber \union {None}],
         \A s \in late' \ late : ScriptTyped(s)'
  PROVE  StoreTyped'
<1>1. \A d \in Clerks \ {c} : sreq'[d] = sreq[d]
  BY ClerkMoves DEF FilesGood
<1>2. \A d \in Clerks : ClerkTyped(d)'
  BY <1>1 DEF StoreTyped, ClerkTyped
<1>3. ASSUME NEW s \in late, sreq[c].at \notin {"idle", "fetch", "delete"} \/ s.by # c
      PROVE  ScriptTyped(s)'
  <2>1. ScriptTyped(s) /\ s.by \in Clerks
    BY DEF StoreTyped, ScriptTyped, Script
  <2>2. CASE s.by # c
    BY <1>1, <2>1, <2>2 DEF ScriptTyped
  <2>3. CASE s.by = c
    <3>1. sreq'[c].at \notin {"idle", "fetch", "delete"} /\ sreq'[c].job = sreq[c].job
      BY <1>3, <2>3, ClerksAdvance, ClerkMoves DEF FilesGood
    <3>. QED  BY <2>1, <2>3, <3>1 DEF ScriptTyped
  <2>. QED  BY <2>2, <2>3
<1>4. \A s \in late : sreq[c].at \notin {"idle", "fetch", "delete"} \/ s.by # c
  BY DEF StoreTyped, ScriptTyped
<1>. QED  BY <1>2, <1>3, <1>4 DEF StoreTyped

\* Whatever a save says, the clerk that saves stays well-typed.
LEMMA SavedTyped ==
  ASSUME FilesGood, StoreTyped, NEW c \in Clerks, sreq[c].at = "insert",
         Imsi(c) \in Imsis, NEW result, Saved(c, result)
  PROVE  ClerkTyped(c)'
<1>1. /\ DOMAIN sreq = Clerks /\ ClerkTyped(c)
      /\ DOMAIN sreq[c] = {"job", "at", "copy", "found", "left", "imsis", "answer"}
  BY DEF FilesGood, ClerksGood, StoreTyped
<1>2. CASE sreq[c].job.op = "bulk"
  <2>. DEFINE left == sreq[c].left
  <2>1. left \in Seq(Row) /\ left # <<>>
    BY <1>1, <1>2 DEF ClerkTyped
  <2>2. Tail(left) \in Seq(Row)
    BY <2>1
  <2>3. /\ sreq'[c].job = sreq[c].job /\ sreq'[c].copy = sreq[c].copy
        /\ sreq'[c].found = sreq[c].found /\ sreq'[c].answer = sreq[c].answer
        /\ sreq'[c].left = Tail(left)
        /\ sreq'[c].imsis = IF result = "Duplicate" THEN sreq[c].imsis \union {Imsi(c)} ELSE sreq[c].imsis
        /\ sreq'[c].at = IF Tail(left) = <<>> THEN "done" ELSE "insert"
    <3>1. sreq' = [sreq EXCEPT ![c].left = Tail(@),
                               ![c].imsis = IF result = "Duplicate" THEN @ \union {Imsi(c)} ELSE @,
                               ![c].at   = IF Tail(sreq[c].left) = <<>> THEN "done" ELSE @]
      BY <1>2 DEF Saved
    <3>2. CASE result = "Duplicate"
      BY <1>1, <3>1, <3>2
    <3>3. CASE result # "Duplicate"
      BY <1>1, <3>1, <3>3
    <3>. QED  BY <3>2, <3>3
  <2>4. sreq'[c].imsis \subseteq Imsis
    BY <1>1, <2>3 DEF ClerkTyped
  <2>. QED  BY <1>1, <1>2, <2>2, <2>3, <2>4 DEF ClerkTyped
<1>3. CASE sreq[c].job.op # "bulk"
  <2>1. /\ sreq'[c].job = sreq[c].job /\ sreq'[c].copy = sreq[c].copy
        /\ sreq'[c].found = sreq[c].found /\ sreq'[c].imsis = sreq[c].imsis
        /\ sreq'[c].at = "done"
    BY <1>1, <1>3 DEF Saved, Reply
  <2>. QED  BY <1>1, <2>1 DEF ClerkTyped
<1>. QED  BY <1>2, <1>3

LEMMA ClerkKeepsTypes ==
  ASSUME FilesGood, StoreTyped, NEW c \in Clerks, ClerkStep(c)
  PROVE  StoreTyped'
<1>1. /\ DOMAIN sreq = Clerks /\ ClerkTyped(c)
      /\ DOMAIN sreq[c] = {"job", "at", "copy", "found", "left", "imsis", "answer"}
      /\ db \in [Imsis -> Subscriber \union {None}]
  BY DEF FilesGood, ClerksGood, StoreTyped
<1>2. sreq[c].at # "idle" => sreq[c].job \in Jobs
  BY DEF FilesGood, ClerksGood
<1>3. config \in ConfigFile
  BY DEF FilesGood, Good
<1>4. CASE Ask(c)
  <2>1. PICK job \in Jobs :
          sreq' = [sreq EXCEPT ![c].job = job, ![c].at = FirstStep(job.op), ![c].copy = config,
                               ![c].left = IF job.op = "bulk" THEN job.rows ELSE <<>>]
    BY <1>4 DEF Ask
  <2>2. /\ sreq'[c].job = job /\ sreq'[c].at = FirstStep(job.op) /\ sreq'[c].copy = config
        /\ sreq'[c].left = IF job.op = "bulk" THEN job.rows ELSE <<>>
        /\ sreq'[c].found = sreq[c].found /\ sreq'[c].imsis = sreq[c].imsis
        /\ sreq'[c].answer = sreq[c].answer /\ sreq[c].at = "idle"
        /\ db' = db /\ late' = late
    BY <1>1, <1>4, <2>1 DEF Ask
  <2>3. /\ FirstStep(job.op) \in {"insert", "fetch", "delete", "save", "list", "remove"}
        /\ FirstStep(job.op) = "insert" => job.op \in {"add", "bulk"}
        /\ FirstStep(job.op) = "fetch" => job.op = "set"
        /\ FirstStep(job.op) = "delete" => job.op = "del"
    BY JobsAssumption DEF FirstStep
  <2>4. job.op = "bulk" => job.rows \in Seq(Row) /\ job.rows # <<>>
    BY JobsAssumption DEF Row
  <2>5. ClerkTyped(c)'
    BY <1>1, <1>3, <2>2, <2>3, <2>4 DEF ClerkTyped
  <2>. QED  BY <1>1, <2>2, <2>5, OtherClerksTyped
<1>5. CASE SaveUser(c)
  <2>1. sreq[c].at = "insert" /\ \E result : Saved(c, result)
    BY <1>5 DEF SaveUser
  <2>2. Imsi(c) \in Imsis
    <3>1. CASE sreq[c].job.op = "bulk"
      <4>1. sreq[c].left \in Seq(Row) /\ sreq[c].left # <<>>
        BY <1>1, <2>1, <3>1 DEF ClerkTyped
      <4>2. Head(sreq[c].left) \in Row
        BY <4>1
      <4>. QED  BY <3>1, <4>2 DEF Imsi, Row
    <3>2. CASE sreq[c].job.op # "bulk"
      BY <1>1, <1>2, <2>1, <3>2, JobsAssumption DEF ClerkTyped, Imsi
    <3>. QED  BY <3>1, <3>2
  <2>3. ClerkTyped(c)'
    BY <2>1, <2>2, SavedTyped
  <2>4. CASE UNCHANGED late
    <3>1. db' = db \/ (db' = [db EXCEPT ![Imsi(c)] = Built(c)] /\ Built(c) \in Subscriber)
      BY <1>5, <2>1, BuiltIsSubscriber DEF SaveUser
    <3>2. db' \in [Imsis -> Subscriber \union {None}]
      BY <1>1, <3>1
    <3>. QED  BY <2>3, <2>4, <3>2, OtherClerksTyped
  <2>5. CASE Buildable(c) /\ TimeOut(c, "insert", Imsi(c), Built(c)) /\ UNCHANGED db
    <3>. DEFINE new == [by |-> c, do |-> "insert", imsi |-> Imsi(c), doc |-> Built(c)]
    <3>1. late' \ late \subseteq {new}
      BY <2>5 DEF TimeOut
    <3>2. Built(c) \in Subscriber
      BY <2>1, <2>5, BuiltIsSubscriber
    <3>3. sreq'[c].at \notin {"idle", "fetch", "delete"}
      BY <2>1, ClerksAdvance
    <3>4. ASSUME NEW s, s = new PROVE ScriptTyped(s)'
      BY <2>2, <3>2, <3>3, <3>4 DEF ScriptTyped, Script
    <3>5. \A s \in late' \ late : s = new
      BY <3>1
    <3>6. \A s \in late' \ late : ScriptTyped(s)'
      BY <3>4, <3>5
    <3>. QED  BY <1>1, <2>3, <2>5, <3>6, OtherClerksTyped
  <2>. QED  BY <1>5, <2>4, <2>5 DEF SaveUser
<1>6. CASE FetchUser(c)
  <2>1. /\ sreq'[c].at \in {"delete", "done"} /\ sreq'[c].job = sreq[c].job
        /\ sreq'[c].copy = sreq[c].copy /\ sreq'[c].imsis = sreq[c].imsis
        /\ sreq'[c].at = "delete" => /\ db[sreq[c].job.imsi] # None
                                     /\ sreq'[c].found = db[sreq[c].job.imsi]
                                     /\ sreq'[c].answer = sreq[c].answer
        /\ sreq'[c].at = "done" => sreq'[c].found = sreq[c].found
        /\ sreq[c].at = "fetch" /\ db' = db /\ late' = late
    BY <1>1, <1>6 DEF FetchUser, Reply
  <2>2. sreq[c].job.op = "set" /\ sreq[c].job.imsi \in Imsis
    BY <1>1, <1>2, <2>1, JobsAssumption DEF ClerkTyped
  <2>3. ClerkTyped(c)'
    BY <1>1, <2>1, <2>2 DEF ClerkTyped
  <2>. QED  BY <1>1, <2>1, <2>3, OtherClerksTyped
<1>7. CASE DeleteUser(c)
  <2>. DEFINE imsi == sreq[c].job.imsi
  <2>1. /\ sreq[c].at = "delete" /\ sreq[c].job.op \in {"set", "del"} /\ imsi \in Imsis
        /\ sreq[c].answer # "success"
    BY <1>1, <1>2, <1>7, JobsAssumption DEF DeleteUser, ClerkTyped
  <2>2. \/ sreq' = [sreq EXCEPT ![c].at = "lock"]
        \/ sreq[c].job.op = "set" /\ sreq' = [sreq EXCEPT ![c].at = "insert"]
        \/ \E answer : sreq' = [sreq EXCEPT ![c].at = "done", ![c].answer = answer]
    BY <1>7 DEF DeleteUser, Go, Reply
  <2>3. /\ sreq'[c].at \in {"lock", "insert", "done"} /\ sreq'[c].job = sreq[c].job
        /\ sreq'[c].copy = sreq[c].copy /\ sreq'[c].imsis = sreq[c].imsis
        /\ sreq'[c].found = sreq[c].found
        /\ sreq'[c].at = "insert" => sreq[c].job.op = "set"
        /\ sreq'[c].answer = "success" => sreq'[c].at = "done"
    BY <1>1, <2>1, <2>2
  <2>4. ClerkTyped(c)'
    BY <1>1, <2>1, <2>3 DEF ClerkTyped
  <2>5. CASE UNCHANGED late
    <3>1. db' = db \/ db' = [db EXCEPT ![imsi] = None]
      BY <1>7 DEF DeleteUser
    <3>2. db' \in [Imsis -> Subscriber \union {None}]
      BY <1>1, <3>1
    <3>. QED  BY <2>4, <2>5, <3>2, OtherClerksTyped
  <2>6. CASE TimeOut(c, "remove", imsi, None) /\ UNCHANGED db
    <3>. DEFINE new == [by |-> c, do |-> "remove", imsi |-> imsi, doc |-> None]
    <3>1. late' \ late \subseteq {new}
      BY <2>6 DEF TimeOut
    <3>2. ASSUME NEW s, s = new PROVE ScriptTyped(s)'
      BY <2>1, <2>3, <3>2 DEF ScriptTyped, Script
    <3>3. \A s \in late' \ late : s = new
      BY <3>1
    <3>4. \A s \in late' \ late : ScriptTyped(s)'
      BY <3>2, <3>3
    <3>. QED  BY <1>1, <2>4, <2>6, <3>4, OtherClerksTyped
  <2>. QED  BY <1>7, <2>5, <2>6 DEF DeleteUser
<1>8. CASE LockConfig(c)
  <2>1. /\ sreq'[c].at \in {"insert", "done"} /\ sreq'[c].job = sreq[c].job
        /\ sreq'[c].copy \in {sreq[c].copy, config} /\ sreq'[c].imsis = sreq[c].imsis
        /\ sreq'[c].found = sreq[c].found
        /\ sreq'[c].at = "insert" => sreq[c].job.op = "set" /\ sreq'[c].answer = sreq[c].answer
        /\ sreq[c].at = "lock" /\ db' = db /\ late' = late
    <3>1. CASE sreq[c].job.op = "set"
      BY <1>1, <1>8, <3>1 DEF LockConfig
    <3>2. CASE sreq[c].job.op # "set"
      BY <1>1, <1>8, <3>2 DEF LockConfig, Reply
    <3>. QED  BY <3>1, <3>2
  <2>2. ClerkTyped(c)'
    BY <1>1, <1>3, <2>1 DEF ClerkTyped
  <2>. QED  BY <1>1, <2>1, <2>2, OtherClerksTyped
<1>9. CASE ListUsers(c) \/ UpdateUsers(c)
  <2>1. /\ sreq[c].at \in {"list", "cascade"} /\ sreq'[c].at \in {"cascade", "save"}
        /\ sreq'[c].job = sreq[c].job /\ sreq'[c].copy = sreq[c].copy
        /\ sreq'[c].found = sreq[c].found /\ sreq'[c].imsis \subseteq Imsis
        /\ sreq'[c].answer = sreq[c].answer /\ late' = late
    BY <1>1, <1>9 DEF ListUsers, UpdateUsers, Go, ClerkTyped
  <2>2. ClerkTyped(c)'
    BY <1>1, <2>1 DEF ClerkTyped
  <2>3. db' = db
    BY <1>1, <1>9 DEF ListUsers, UpdateUsers, Updated
  <2>. QED  BY <1>1, <2>1, <2>2, <2>3, OtherClerksTyped
<1>10. CASE SaveProfile(c) \/ DeleteProfile(c)
  <2>1. /\ db' = db /\ late' = late
        /\ \E answer : sreq' = [sreq EXCEPT ![c].at = "done", ![c].answer = answer]
    BY <1>10 DEF SaveProfile, DeleteProfile, Reply
  <2>2. ClerkTyped(c)'
    BY <1>1, <2>1 DEF ClerkTyped
  <2>. QED  BY <1>1, <2>1, <2>2, OtherClerksTyped
<1>. QED  BY <1>4, <1>5, <1>6, <1>7, <1>8, <1>9, <1>10 DEF ClerkStep

LEMMA LateKeepsTypes ==
  ASSUME StoreTyped, LateScript
  PROVE  StoreTyped'
<1>1. PICK s \in late :
        /\ late' = late \ {s}
        /\ db' \in {db, IF s.do = "remove" \/ db[s.imsi] = None THEN [db EXCEPT ![s.imsi] = s.doc] ELSE db}
  BY DEF LateScript
<1>2. sreq' = sreq
  BY DEF LateScript
<1>3. s.imsi \in Imsis /\ s.doc \in Subscriber \union {None}
  BY DEF StoreTyped, ScriptTyped, Script
<1>4. db' \in [Imsis -> Subscriber \union {None}]
  BY <1>1, <1>3 DEF StoreTyped
<1>. QED  BY <1>1, <1>2, <1>4 DEF StoreTyped, ScriptTyped, ClerkTyped

LEMMA StoreTypes == Spec => []StoreTyped
<1>1. Init => StoreTyped
  <2>. SUFFICES ASSUME Init PROVE StoreTyped
    OBVIOUS
  <2>1. db = InitialSubscribers /\ late = {} /\ \A c \in Clerks : sreq[c] = IdleClerk
    BY DEF Init, StoreInit
  <2>2. None # "success"
    BY ConfigAssumption
  <2>3. \A c \in Clerks : ClerkTyped(c)
    BY <2>1, <2>2 DEF ClerkTyped, IdleClerk
  <2>. QED  BY <2>1, <2>3, InitialAssumption DEF StoreTyped
<1>2. FilesGood /\ StoreTyped /\ [Next]_vars => StoreTyped'
  <2>. SUFFICES ASSUME FilesGood, StoreTyped, [Next]_vars PROVE StoreTyped'
    OBVIOUS
  <2>1. CASE StoreNext
    BY <2>1, ClerkKeepsTypes, LateKeepsTypes DEF StoreNext
  <2>2. CASE UNCHANGED storeVars
    BY <2>2 DEF storeVars, StoreTyped, ScriptTyped, ClerkTyped
  <2>. QED  BY <2>1, <2>2 DEF Next, Act, vars, storeVars
<1>. QED  BY <1>1, <1>2, FilesAlwaysGood, PTL DEF Spec

-----------------------------------------------------------------------------
(* Nobody loses a subscriber without being told.                           *)

\* The three ways in which a step may move the count of one subscriber.
LEMMA CountStays ==
  ASSUME NEW R \in SUBSET Clerks, NEW S \in SUBSET Clerks, NEW n \in 0..1,
         NEW RR \in SUBSET Clerks, NEW SS \in SUBSET Clerks, NEW nn \in 0..1,
         Cardinality(S) + n <= Cardinality(R),
         \/ R \subseteq RR /\ SS \subseteq S /\ nn <= n
         \/ \E c \in RR : c \notin R /\ R \subseteq RR /\ SS \subseteq S
         \/ \E c \in Clerks : n = 1 /\ nn = 0 /\ R \subseteq RR /\ SS \subseteq S \union {c}
  PROVE  Cardinality(SS) + nn <= Cardinality(RR)
<1>1. \A T \in SUBSET Clerks : IsFiniteSet(T) /\ Cardinality(T) \in Nat
  BY ClerksAssumption, ConfigAssumption, FS_Subset, FS_CardinalityType
<1>2. \A T \in SUBSET Clerks : \A U \in SUBSET T : Cardinality(U) <= Cardinality(T)
  BY <1>1, FS_Subset
<1>3. \A T \in SUBSET Clerks : \A c \in Clerks :
        c \notin T => Cardinality(T \union {c}) = Cardinality(T) + 1
  BY <1>1, FS_AddElement
<1>4. CASE R \subseteq RR /\ SS \subseteq S /\ nn <= n
  BY <1>1, <1>2, <1>4
<1>5. CASE \E c \in RR : c \notin R /\ R \subseteq RR /\ SS \subseteq S
  <2>1. PICK c \in RR : c \notin R /\ R \subseteq RR /\ SS \subseteq S
    BY <1>5
  <2>2. Cardinality(R \union {c}) = Cardinality(R) + 1 /\ R \union {c} \subseteq RR
    BY <1>3, <2>1
  <2>. QED  BY <1>1, <1>2, <2>1, <2>2
<1>6. CASE \E c \in Clerks : n = 1 /\ nn = 0 /\ R \subseteq RR /\ SS \subseteq S \union {c}
  <2>1. PICK c \in Clerks : n = 1 /\ nn = 0 /\ R \subseteq RR /\ SS \subseteq S \union {c}
    BY <1>6
  <2>2. Cardinality(S \union {c}) <= Cardinality(S) + 1
    <3>1. CASE c \in S
      <4>1. S \union {c} = S
        BY <3>1
      <4>. QED  BY <1>1, <4>1
    <3>2. CASE c \notin S
      BY <1>1, <1>3, <3>2
    <3>. QED  BY <3>1, <3>2
  <2>3. Cardinality(SS) <= Cardinality(S \union {c}) /\ Cardinality(S \union {c}) \in Nat
    BY <1>1, <1>2, <2>1
  <2>. QED  BY <1>1, <1>2, <2>1, <2>2, <2>3
<1>. QED  BY <1>4, <1>5, <1>6

\* Only a request that is at its deletion leaves a late removal behind.
LEMMA NewScripts ==
  ASSUME NEW c \in Clerks, ClerkStep(c), NEW s \in late' \ late
  PROVE  s.by = c /\ (s.do = "insert" \/ sreq[c].at = "delete")
<1>1. CASE SaveUser(c)
  BY <1>1 DEF SaveUser, TimeOut
<1>2. CASE DeleteUser(c)
  BY <1>2 DEF DeleteUser, TimeOut
<1>. QED  BY <1>1, <1>2 DEF ClerkStep, Ask, FetchUser, LockConfig, ListUsers, UpdateUsers, SaveProfile,
                           DeleteProfile

LEMMA RemovingGrows ==
  ASSUME FilesGood, StoreTyped, NEW c \in Clerks, ClerkStep(c), NEW i
  PROVE  Removing(i) \subseteq Removing(i)'
<1>. SUFFICES ASSUME NEW d \in Removing(i) PROVE d \in Removing(i)'
  OBVIOUS
<1>1. CASE d # c
  <2>1. sreq'[d] = sreq[d]
    BY <1>1, ClerkMoves DEF FilesGood, Removing
  <2>. QED  BY <1>1, <2>1, NewScripts DEF Removing
<1>2. CASE d = c
  <2>1. sreq[c].at \notin {"idle", "fetch", "delete"}
    BY <1>2 DEF Removing
  <2>2. sreq'[c].at \notin {"idle", "fetch", "delete"} /\ sreq'[c].job = sreq[c].job
    BY <2>1, ClerksAdvance, ClerkMoves DEF FilesGood
  <2>. QED  BY <1>2, <2>1, <2>2, NewScripts DEF Removing
<1>. QED  BY <1>1, <1>2

\* A change is answered with "success" only when its save put the subscriber back.
LEMMA SuccessRestores ==
  ASSUME FilesGood, StoreTyped, NEW c \in Clerks, ClerkStep(c),
         sreq'[c].answer = "success", sreq'[c].job.op = "set"
  PROVE  /\ sreq[c].at = "insert" /\ Buildable(c)
         /\ Imsi(c) = sreq[c].job.imsi /\ sreq'[c].job = sreq[c].job
         /\ db[Imsi(c)] = None /\ db' = [db EXCEPT ![Imsi(c)] = Built(c)]
<1>1. /\ DOMAIN sreq = Clerks /\ ClerkTyped(c)
      /\ DOMAIN sreq[c] = {"job", "at", "copy", "found", "left", "imsis", "answer"}
  BY DEF FilesGood, ClerksGood, StoreTyped
<1>2. sreq[c].answer # "success"
  BY <1>1, ClerkMoves DEF FilesGood, ClerkTyped
<1>3. CASE SaveUser(c)
  <2>1. sreq[c].at = "insert" /\ sreq'[c].job = sreq[c].job
    BY <1>3, ClerkMoves DEF SaveUser, FilesGood
  <2>2. \A result : Saved(c, result) => sreq'[c].answer = Outcome("set", result)
    BY <1>1, <2>1 DEF Saved, Reply
  <2>3. ~Saved(c, "Duplicate") /\ ~Saved(c, "Error") /\ ~Saved(c, "null")
    BY <2>2 DEF Outcome
  <2>. QED  BY <1>3, <2>1, <2>3 DEF SaveUser, Imsi
<1>4. CASE ~SaveUser(c)
  <2>1. sreq'[c].answer \in {sreq[c].answer, "Failed", "null", "failed", "saved", "deleted", "not found"}
    <3>1. CASE Ask(c)
      BY <1>1, <3>1 DEF Ask
    <3>2. CASE FetchUser(c)
      BY <1>1, <3>2 DEF FetchUser, Reply
    <3>3. CASE DeleteUser(c)
      BY <1>1, <3>3 DEF DeleteUser, Go, Reply
    <3>4. CASE LockConfig(c)
      BY <1>1, <3>4 DEF LockConfig, Reply
    <3>5. CASE ListUsers(c) \/ UpdateUsers(c)
      BY <1>1, <3>5 DEF ListUsers, UpdateUsers, Go
    <3>6. CASE SaveProfile(c)
      BY <1>1, <3>6 DEF SaveProfile, Reply
    <3>7. CASE DeleteProfile(c)
      BY <1>1, <3>7 DEF DeleteProfile, Reply
    <3>. QED  BY <1>4, <3>1, <3>2, <3>3, <3>4, <3>5, <3>6, <3>7 DEF ClerkStep
  <2>. QED  BY <1>2, <2>1
<1>. QED  BY <1>3, <1>4

LEMMA RestoredStays ==
  ASSUME FilesGood, StoreTyped, NEW c \in Clerks, ClerkStep(c), NEW i
  PROVE  /\ Restored(i)' \subseteq Restored(i) \union {c}
         /\ ~(sreq'[c].answer = "success" /\ sreq'[c].job.op = "set" /\ sreq'[c].job.imsi = i) =>
              Restored(i)' \subseteq Restored(i)
<1>1. \A d \in Clerks \ {c} : sreq'[d] = sreq[d]
  BY ClerkMoves DEF FilesGood
<1>. QED  BY <1>1 DEF Restored

LEMMA ClerkKeepsCount ==
  ASSUME FilesGood, StoreTyped, NEW c \in Clerks, ClerkStep(c), NEW i \in Imsis, ~Deleted(i)'
  PROVE  \/ /\ Removing(i) \subseteq Removing(i)' /\ Restored(i)' \subseteq Restored(i)
            /\ Missing(db'[i]) <= Missing(db[i])
         \/ \E d \in Removing(i)' : /\ d \notin Removing(i) /\ Removing(i) \subseteq Removing(i)'
                                    /\ Restored(i)' \subseteq Restored(i)
         \/ \E d \in Clerks : /\ Missing(db[i]) = 1 /\ Missing(db'[i]) = 0
                              /\ Removing(i) \subseteq Removing(i)'
                              /\ Restored(i)' \subseteq Restored(i) \union {d}
<1>1. Removing(i) \subseteq Removing(i)'
  BY RemovingGrows
<1>2. db \in [Imsis -> Subscriber \union {None}]
  BY DEF StoreTyped
<1>3. CASE sreq'[c].answer = "success" /\ sreq'[c].job.op = "set" /\ sreq'[c].job.imsi = i
  <2>1. /\ sreq[c].at = "insert" /\ Buildable(c) /\ Imsi(c) = i
        /\ db[Imsi(c)] = None /\ db' = [db EXCEPT ![Imsi(c)] = Built(c)]
    BY <1>3, SuccessRestores
  <2>2. Built(c) # None
    BY <2>1, BuiltIsSubscriber
  <2>3. Missing(db[i]) = 1 /\ Missing(db'[i]) = 0
    BY <1>2, <2>1, <2>2 DEF Missing
  <2>. QED  BY <1>1, <2>3, RestoredStays
<1>4. CASE ~(sreq'[c].answer = "success" /\ sreq'[c].job.op = "set" /\ sreq'[c].job.imsi = i)
  <2>1. Restored(i)' \subseteq Restored(i)
    BY <1>4, RestoredStays
  <2>2. CASE db'[i] # None \/ db[i] = None
    <3>1. Missing(db'[i]) <= Missing(db[i])
      BY <2>2 DEF Missing
    <3>. QED  BY <1>1, <2>1, <3>1
  <2>3. CASE db'[i] = None /\ db[i] # None
    <3>1. DeleteUser(c)
      <4>1. CASE SaveUser(c)
        <5>1. sreq[c].at = "insert"
          BY <4>1 DEF SaveUser
        <5>2. db' = db \/ (db' = [db EXCEPT ![Imsi(c)] = Built(c)] /\ Built(c) # None)
          BY <4>1, <5>1, BuiltIsSubscriber DEF SaveUser
        <5>. QED  BY <1>2, <2>3, <5>2
      <4>2. CASE UpdateUsers(c)
        BY <2>3, <4>2 DEF UpdateUsers, Updated
      <4>. QED  BY <2>3, <4>1, <4>2 DEF ClerkStep, Ask, FetchUser, LockConfig, ListUsers, SaveProfile,
                                        DeleteProfile
    <3>2. /\ sreq[c].at = "delete" /\ sreq[c].job.imsi = i /\ UNCHANGED late
          /\ sreq' = [sreq EXCEPT ![c].at = "lock"]
      BY <1>2, <2>3, <3>1 DEF DeleteUser, Go
    <3>3. /\ sreq'[c].at = "lock" /\ sreq'[c].job = sreq[c].job
          /\ ClerkTyped(c)
      BY <3>2 DEF FilesGood, ClerksGood, StoreTyped
    <3>4. sreq[c].job.op = "set"
      BY <3>2, <3>3 DEF ClerkTyped, Deleted, StoreUsed
    <3>5. c \notin Removing(i)
      BY <3>2 DEF Removing
    <3>6. \A s \in late : s.by # c
      BY <3>2 DEF StoreTyped, ScriptTyped
    <3>7. c \in Removing(i)'
      BY <3>2, <3>3, <3>4, <3>6 DEF Removing
    <3>. QED  BY <1>1, <2>1, <3>5, <3>7
  <2>. QED  BY <2>2, <2>3
<1>. QED  BY <1>3, <1>4

LEMMA LateKeepsCount ==
  ASSUME FilesGood, StoreTyped, LateScript, NEW i \in Imsis, ~Deleted(i)'
  PROVE  \/ /\ Removing(i) \subseteq Removing(i)' /\ Restored(i)' \subseteq Restored(i)
            /\ Missing(db'[i]) <= Missing(db[i])
         \/ \E d \in Removing(i)' : /\ d \notin Removing(i) /\ Removing(i) \subseteq Removing(i)'
                                    /\ Restored(i)' \subseteq Restored(i)
<1>1. PICK s \in late :
        /\ late' = late \ {s}
        /\ db' \in {db, IF s.do = "remove" \/ db[s.imsi] = None THEN [db EXCEPT ![s.imsi] = s.doc] ELSE db}
  BY DEF LateScript
<1>2. sreq' = sreq
  BY DEF LateScript
<1>3. ScriptTyped(s) /\ s \in Script /\ db \in [Imsis -> Subscriber \union {None}]
  BY DEF StoreTyped, ScriptTyped
<1>4. Removing(i) \subseteq Removing(i)' /\ Restored(i)' \subseteq Restored(i)
  BY <1>1, <1>2 DEF Removing, Restored
<1>5. CASE db'[i] # None \/ db[i] = None
  <2>1. Missing(db'[i]) <= Missing(db[i])
    BY <1>5 DEF Missing
  <2>. QED  BY <1>4, <2>1
<1>6. CASE db'[i] = None /\ db[i] # None
  <2>1. s.imsi = i /\ s.doc = None
    BY <1>1, <1>3, <1>6
  <2>2. s.do = "remove" /\ s.by \in Clerks
    BY <1>3, <2>1, ClerksAssumption DEF ScriptTyped, Script, Subscriber
  <2>3. sreq[s.by].at \notin {"idle", "fetch", "delete"} /\ sreq[s.by].job.imsi = i
        /\ sreq[s.by].job.op = "set"
    BY <1>2, <1>3, <2>1, <2>2 DEF ScriptTyped, Deleted, StoreUsed
  <2>4. ASSUME NEW t \in late, t.by = s.by, t.do # "insert"
        PROVE  t = s
    <3>1. t \in Script /\ t.do = "remove" /\ t.doc = None /\ t.imsi = i
      BY <2>3, <2>4 DEF StoreTyped, ScriptTyped, Script
    <3>. QED  BY <1>3, <2>1, <2>2, <2>4, <3>1 DEF Script
  <2>5. s.by \in Removing(i)'
    BY <1>1, <1>2, <2>2, <2>3, <2>4 DEF Removing
  <2>6. s.by \notin Removing(i)
    BY <1>1, <2>2 DEF Removing
  <2>. QED  BY <1>4, <2>5, <2>6
<1>. QED  BY <1>5, <1>6

LEMMA DeletedStays ==
  ASSUME FilesGood, StoreNext, NEW i, Deleted(i)
  PROVE  Deleted(i)'
<1>1. CASE LateScript
  BY <1>1 DEF LateScript, Deleted, StoreUsed
<1>2. CASE \E c \in Clerks : ClerkStep(c)
  <2>1. PICK c \in Clerks : ClerkStep(c)
    BY <1>2
  <2>2. PICK d \in StoreUsed : sreq[d].job.op = "del" /\ sreq[d].job.imsi = i
    BY DEF Deleted
  <2>3. sreq'[d].job = sreq[d].job /\ sreq'[d].at # "idle"
    BY <2>1, <2>2, ClerkMoves DEF FilesGood, StoreUsed
  <2>. QED  BY <2>2, <2>3 DEF Deleted, StoreUsed
<1>. QED  BY <1>1, <1>2 DEF StoreNext

LEMMA LossCountedInvariant == Spec => []LossCounted
<1>1. Init => LossCounted
  <2>. SUFFICES ASSUME Init, NEW i \in Imsis, InitialSubscribers[i] # None
       PROVE  Cardinality(Restored(i)) + Missing(db[i]) <= Cardinality(Removing(i))
    BY DEF LossCounted
  <2>1. db = InitialSubscribers /\ \A c \in Clerks : sreq[c].at = "idle"
    BY DEF Init, StoreInit, IdleClerk
  <2>2. Restored(i) = {} /\ Removing(i) = {} /\ Missing(db[i]) = 0
    BY <2>1 DEF Restored, Removing, Missing
  <2>3. Cardinality({}) = 0
    BY FS_EmptySet
  <2>. QED  BY <2>2, <2>3
<1>2. FilesGood /\ StoreTyped /\ LossCounted /\ [Next]_vars => LossCounted'
  <2>. SUFFICES ASSUME FilesGood, StoreTyped, LossCounted, [Next]_vars PROVE LossCounted'
    OBVIOUS
  <2>1. CASE StoreNext
    <3>. SUFFICES ASSUME NEW i \in Imsis, InitialSubscribers[i] # None, ~Deleted(i)'
         PROVE  Cardinality(Restored(i)') + Missing(db'[i]) <= Cardinality(Removing(i)')
      BY DEF LossCounted
    <3>1. Cardinality(Restored(i)) + Missing(db[i]) <= Cardinality(Removing(i))
      BY <2>1, DeletedStays DEF LossCounted
    <3>2. /\ Removing(i) \subseteq Clerks /\ Removing(i)' \subseteq Clerks
          /\ Restored(i) \subseteq Clerks /\ Restored(i)' \subseteq Clerks
          /\ Missing(db[i]) \in 0..1 /\ Missing(db'[i]) \in 0..1
      BY DEF Removing, Restored, Missing
    <3>3. \/ /\ Removing(i) \subseteq Removing(i)' /\ Restored(i)' \subseteq Restored(i)
             /\ Missing(db'[i]) <= Missing(db[i])
          \/ \E d \in Removing(i)' : /\ d \notin Removing(i) /\ Removing(i) \subseteq Removing(i)'
                                     /\ Restored(i)' \subseteq Restored(i)
          \/ \E d \in Clerks : /\ Missing(db[i]) = 1 /\ Missing(db'[i]) = 0
                               /\ Removing(i) \subseteq Removing(i)'
                               /\ Restored(i)' \subseteq Restored(i) \union {d}
      BY <2>1, ClerkKeepsCount, LateKeepsCount DEF StoreNext
    <3>. QED  BY <3>1, <3>2, <3>3, CountStays
  <2>2. CASE UNCHANGED storeVars
    BY <2>2 DEF storeVars, LossCounted, Removing, Restored, Deleted, StoreUsed
  <2>. QED  BY <2>1, <2>2 DEF Next, Act, vars, storeVars
<1>. QED  BY <1>1, <1>2, FilesAlwaysGood, StoreTypes, PTL DEF Spec

\* UserController.php:401-411.  A change deletes its subscriber and saves it again, and
\* either may fail or come late: still, however many requests overlap and whatever
\* scripts run late, a subscriber that is gone was deleted on request, or a change of it
\* is under way or was answered with something else than success.
THEOREM LossAlwaysReported == Spec => []LossIsReported
<1>1. LossCounted => LossIsReported
  <2>. SUFFICES ASSUME LossCounted, NEW i \in Imsis, InitialSubscribers[i] # None, db[i] = None,
                       \A c \in StoreUsed :
                         /\ ~(sreq[c].job.op = "del" /\ sreq[c].job.imsi = i)
                         /\ ~(sreq[c].job.op = "set" /\ sreq[c].job.imsi = i /\ sreq[c].answer # "success")
       PROVE  FALSE
    BY DEF LossIsReported
  <2>1. ~Deleted(i)
    BY DEF Deleted
  <2>2. Cardinality(Restored(i)) + 1 <= Cardinality(Removing(i))
    BY <2>1 DEF LossCounted, Missing
  <2>3. Removing(i) \subseteq Restored(i) /\ Restored(i) \subseteq Clerks
    BY DEF Removing, Restored, StoreUsed
  <2>4. IsFiniteSet(Restored(i)) /\ Cardinality(Restored(i)) \in Nat
    BY <2>3, ClerksAssumption, ConfigAssumption, FS_Subset, FS_CardinalityType
  <2>5. Cardinality(Removing(i)) <= Cardinality(Restored(i)) /\ Cardinality(Removing(i)) \in Nat
    BY <2>3, <2>4, FS_Subset, FS_CardinalityType
  <2>. QED  BY <2>2, <2>4, <2>5
<1>. QED  BY <1>1, LossCountedInvariant, PTL

-----------------------------------------------------------------------------
(* The type invariant of the whole plugin.                                 *)

RestTyped ==
  /\ lock \in Clerks \union {None}
  /\ faulty \subseteq Requests /\ Cardinality(faulty) <= MaxFaulty
  /\ rcconf \subseteq Daemons
  /\ \A s \in Switchers :
       /\ nreq[s].at \in {"idle", "set", "configure", "answered", "network", "template",
                          "commands", "done"}
       /\ nreq[s].order \in Orders \union {None} /\ nreq[s].copy \in ConfigFile \union {None}
  /\ \A k \in KeyMakers : kreq[k].copy \in ConfigFile \union {None}

LEMMA FailuresTyped ==
  ASSUME RestTyped, NEW r \in Requests, UNCHANGED faulty \/ MayFail(r)
  PROVE  faulty' \subseteq Requests /\ Cardinality(faulty') <= MaxFaulty
BY DEF RestTyped, MayFail

LEMMA ClerkKeepsRest ==
  ASSUME RestTyped, NEW c \in Clerks, ClerkStep(c), UNCHANGED <<nreq, rcconf, kreq>>
  PROVE  RestTyped'
<1>1. UNCHANGED faulty \/ MayFail(c)
  BY DEF ClerkStep, Ask, SaveUser, FetchUser, DeleteUser, LockConfig, ListUsers, UpdateUsers,
         SaveProfile, DeleteProfile, TimeOut, configVars
<1>2. lock' \in {lock, None, c}
  BY DEF ClerkStep, Ask, SaveUser, FetchUser, DeleteUser, LockConfig, ListUsers, UpdateUsers,
         SaveProfile, DeleteProfile, Leave, Save, configVars
<1>3. c \in Requests
  BY ClerksAssumption
<1>. QED  BY <1>1, <1>2, <1>3, FailuresTyped DEF RestTyped

LEMMA SwitcherKeepsRest ==
  ASSUME FilesGood, RestTyped, NEW s \in Switchers, SwitcherStep(s), UNCHANGED kreq
  PROVE  RestTyped'
<1>1. UNCHANGED faulty \/ MayFail(s)
  BY DEF SwitcherStep, Request, SetNetworkFlag, LoadConfiguration, SendReconfigure, SetNetwork,
         ReloadTemplate, ManageService, configVars
<1>2. lock' \in {lock, None}
  BY DEF SwitcherStep, Request, SetNetworkFlag, LoadConfiguration, SendReconfigure, SetNetwork,
         ReloadTemplate, ManageService, Save, configVars
<1>3. rcconf' \subseteq Daemons
  BY DEF SwitcherStep, Request, SetNetworkFlag, LoadConfiguration, SendReconfigure, SetNetwork,
         ReloadTemplate, ManageService, EnabledBy, Startable, RestTyped
<1>4. /\ nreq'[s].at \in {"idle", "set", "configure", "answered", "network", "template",
                          "commands", "done"}
      /\ nreq'[s].order \in Orders \union {None} /\ nreq'[s].copy \in ConfigFile \union {None}
  BY DEF SwitcherStep, Request, SetNetworkFlag, LoadConfiguration, SendReconfigure, SetNetwork,
         ReloadTemplate, ManageService, Advance, RestTyped, FilesGood, SwitchersGood, Good
<1>5. \A t \in Switchers \ {s} : nreq'[t] = nreq[t]
  BY SwitcherMoves DEF FilesGood
<1>6. s \in Requests
  BY SwitchersAssumption
<1>. QED  BY <1>1, <1>2, <1>3, <1>4, <1>5, <1>6, FailuresTyped DEF RestTyped

LEMMA KeyMakerKeepsRest ==
  ASSUME FilesGood, RestTyped, NEW k \in KeyMakers, KeyMakerStep(k), UNCHANGED <<nreq, rcconf>>
  PROVE  RestTyped'
<1>1. (UNCHANGED faulty \/ MayFail(k)) /\ lock' \in {lock, None}
  BY DEF KeyMakerStep, Call, ChooseScheme, Allocate, MakePrivate, MakePublic, MakeHex, NoKey, ReadUdm,
         TruncateUdm, DumpUdm, Fail, Save, configVars
<1>2. k \in Requests
  BY KeyMakersAssumption
<1>3. \A m \in KeyMakers : kreq'[m].copy \in ConfigFile \union {None}
  <2>1. kreq'[k].copy \in ConfigFile
    <3>1. CASE kreq[k].at = "idle"
      <4>1. Call(k)
        BY <3>1 DEF KeyMakerStep, ChooseScheme, Allocate, MakePrivate, MakePublic, MakeHex, NoKey,
                    ReadUdm, TruncateUdm, DumpUdm, Fail
      <4>2. \A s \in Schemes : [config EXCEPT !.scheme = s] \in ConfigFile
        BY ChangedSchemeGood DEF FilesGood, Good
      <4>. QED  BY <4>1, <4>2 DEF Call, FilesGood, KeyMakersGood, Good
    <3>2. CASE kreq[k].at # "idle"
      BY <3>2, KeyMakerMoves DEF FilesGood, KeyMakersGood, Good
    <3>. QED  BY <3>1, <3>2
  <2>. QED  BY <2>1, KeyMakerMoves DEF FilesGood, RestTyped
<1>. QED  BY <1>1, <1>2, <1>3, FailuresTyped DEF RestTyped

LEMMA RestTypes == Spec => []RestTyped
<1>1. Init => RestTyped
  <2>. SUFFICES ASSUME Init PROVE RestTyped
    OBVIOUS
  <2>1. lock = None /\ faulty = {} /\ rcconf \subseteq Daemons
    BY DEF Init, SwitchInit, EnabledBy, Startable
  <2>2. Cardinality(faulty) <= MaxFaulty
    <3>1. Cardinality(faulty) = 0
      BY <2>1, FS_EmptySet
    <3>2. MaxFaulty \in Nat
      BY ConfigAssumption
    <3>. QED  BY <3>1, <3>2
  <2>. QED  BY <2>1, <2>2 DEF Init, SwitchInit, IdleSwitcher, KeysInit, IdleKeyMaker, RestTyped
<1>2. FilesGood /\ RestTyped /\ [Next]_vars => RestTyped'
  <2>. SUFFICES ASSUME FilesGood, RestTyped, [Next]_vars PROVE RestTyped'
    OBVIOUS
  <2>1. CASE StoreNext /\ UNCHANGED <<switchVars, keyVars>>
    <3>1. CASE LateScript
      BY <2>1, <3>1 DEF LateScript, RestTyped, switchVars, keyVars, configVars
    <3>. QED  BY <2>1, <3>1, ClerkKeepsRest DEF StoreNext, switchVars, keyVars
  <2>2. CASE SwitchNext /\ UNCHANGED <<storeVars, keyVars>>
    BY <2>2, SwitcherKeepsRest DEF SwitchNext, keyVars
  <2>3. CASE KeysNext /\ UNCHANGED <<storeVars, switchVars>>
    BY <2>3, KeyMakerKeepsRest DEF KeysNext, switchVars
  <2>4. CASE UNCHANGED vars
    BY <2>4 DEF vars, RestTyped
  <2>. QED  BY <2>1, <2>2, <2>3, <2>4 DEF Next, Act
<1>. QED  BY <1>1, <1>2, FilesAlwaysGood, PTL DEF Spec

\* Every store and every request has the type its module gives it, provided the service
\* mapping names only the daemons considered.
THEOREM PluginTypeAlwaysOK ==
  ASSUME TablesAgree
  PROVE  Spec => []TypeOK
<1>1. FilesGood /\ CommandsTyped /\ Sharing /\ KeysTyped /\ StoreTyped /\ RestTyped => TypeOK
  <2>. SUFFICES ASSUME FilesGood, CommandsTyped, Sharing, KeysTyped, StoreTyped, RestTyped
       PROVE  TypeOK
    OBVIOUS
  <2>1. config \in ConfigFile
    BY DEF FilesGood, Good
  <2>2. late \subseteq Script
    BY DEF StoreTyped, ScriptTyped
  <2>3. \A c \in Clerks :
          /\ sreq[c].job \in Jobs \union {None} /\ sreq[c].copy \in ConfigFile \union {None}
          /\ sreq[c].at \in {"idle", "fetch", "delete", "lock", "insert", "list", "cascade", "save",
                             "remove", "done"}
          /\ sreq[c].found \in Subscriber \union {None} /\ sreq[c].imsis \subseteq Imsis
    BY DEF StoreTyped, ClerkTyped
  <2>4. \A s \in Switchers : \A i \in DOMAIN nreq[s].left : nreq[s].left[i].daemon \in Daemons
    <3>. SUFFICES ASSUME NEW s \in Switchers, NEW i \in DOMAIN nreq[s].left
         PROVE  nreq[s].left[i].daemon \in Daemons
      OBVIOUS
    <3>1. nreq[s].left \in Seq(Commands)
      BY DEF CommandsTyped
    <3>2. nreq[s].left[i] \in Commands
      BY <3>1
    <3>. QED  BY <3>2 DEF Commands
  <2>5. \A s \in Switchers :
          /\ nreq[s].order \in Orders \union {None} /\ nreq[s].copy \in ConfigFile \union {None}
          /\ nreq[s].at \in {"idle", "set", "configure", "answered", "network", "template",
                             "commands", "done"}
    BY DEF RestTyped
  <2>6. /\ udm.whole \in BOOLEAN
        /\ \A i \in DOMAIN udm.hnet : udm.hnet[i] \in [id : 1..MaxId, scheme : Schemes]
        /\ DOMAIN private = Schemes \X (1..MaxId) /\ DOMAIN public = 1..MaxId
    <3>1. \A i \in DOMAIN udm.hnet : udm.hnet[i] \in KeyEntry
      BY DEF KeysTyped, UdmFile
    <3>2. \A i \in DOMAIN udm.hnet : udm.hnet[i] \in [id : 1..MaxId, scheme : Schemes]
      BY <3>1 DEF KeyEntry
    <3>3. udm.whole \in BOOLEAN /\ DOMAIN private = Schemes \X (1..MaxId) /\ DOMAIN public = 1..MaxId
      BY DEF KeysTyped, UdmFile, KeyFiles
    <3>. QED  BY <3>2, <3>3
  <2>7. \A k \in KeyMakers :
          /\ kreq[k].id \in 0..MaxId
          /\ kreq[k].pem \in KeyMakers \union {None, Shipped}
          /\ kreq[k].hex \in [key : KeyMakers \union {Shipped}, whole : BOOLEAN] \union {None}
    BY DEF KeysTyped, KeyMakerTyped
  <2>8. \A k \in KeyMakers : kreq[k].copy \in ConfigFile \union {None}
    BY DEF RestTyped
  <2>. QED  BY <2>1, <2>2, <2>3, <2>4, <2>5, <2>6, <2>7, <2>8
            DEF TypeOK, RestTyped, StoreTyped, CommandsTyped, Sharing
<1>2. KeysInv => KeysTyped
  BY DEF KeysInv
<1>. QED  BY <1>1, <1>2, FilesAlwaysGood, DoomedInvariant, SharingInvariant, KeysInvariant, StoreTypes,
             RestTypes, PTL

-----------------------------------------------------------------------------
(***************************************************************************)
(* What a switch achieves that overlaps no other request.                  *)
(***************************************************************************)

\* While a request is under way that overlaps no other, only it moves, and scripts
\* that run late.
LEMMA LoneActsAlone ==
  ASSUME FilesGood, Sharing, Sharing', shared \subseteq shared', Act, NEW r \in Busy, r \notin shared'
  PROVE  \/ LateScript /\ UNCHANGED <<switchVars, keyVars>>
         \/ r \in Clerks /\ ClerkStep(r) /\ UNCHANGED <<switchVars, keyVars>>
         \/ r \in Switchers /\ SwitcherStep(r) /\ UNCHANGED <<storeVars, keyVars>>
         \/ r \in KeyMakers /\ KeyMakerStep(r) /\ UNCHANGED <<storeVars, switchVars>>
<1>1. ASSUME NEW q, q \in Busy \/ q \in Busy', r \in Busy' PROVE q = r
  BY <1>1 DEF Sharing
<1>2. CASE StoreNext /\ UNCHANGED <<switchVars, keyVars>>
  <2>1. ASSUME NEW c \in Clerks, ClerkStep(c) PROVE c = r
    <3>1. c \in Busy \/ c \in Busy'
      BY <2>1, ClerkMoves DEF FilesGood, Busy, StoreBusy
    <3>2. c # r => r \in Busy'
      BY <1>2, <2>1, ClerkMoves
      DEF FilesGood, Busy, StoreBusy, SwitchBusy, KeysBusy, switchVars, keyVars
    <3>. QED  BY <1>1, <3>1, <3>2
  <2>. QED  BY <1>2, <2>1 DEF StoreNext
<1>3. CASE SwitchNext /\ UNCHANGED <<storeVars, keyVars>>
  <2>1. ASSUME NEW s \in Switchers, SwitcherStep(s) PROVE s = r
    <3>1. s \in Busy \/ s \in Busy'
      BY <2>1, SwitcherMoves DEF FilesGood, Busy, SwitchBusy
    <3>2. s # r => r \in Busy'
      BY <1>3, <2>1, SwitcherMoves
      DEF FilesGood, Busy, StoreBusy, SwitchBusy, KeysBusy, storeVars, keyVars
    <3>. QED  BY <1>1, <3>1, <3>2
  <2>. QED  BY <1>3, <2>1 DEF SwitchNext
<1>4. CASE KeysNext /\ UNCHANGED <<storeVars, switchVars>>
  <2>1. ASSUME NEW k \in KeyMakers, KeyMakerStep(k) PROVE k = r
    <3>1. k \in Busy \/ k \in Busy'
      BY <2>1, KeyMakerMoves DEF FilesGood, Busy, KeysBusy
    <3>2. k # r => r \in Busy'
      BY <1>4, <2>1, KeyMakerMoves
      DEF FilesGood, Busy, StoreBusy, SwitchBusy, KeysBusy, storeVars, switchVars
    <3>. QED  BY <1>1, <3>1, <3>2
  <2>. QED  BY <1>4, <2>1 DEF KeysNext
<1>. QED  BY <1>2, <1>3, <1>4 DEF Act

\* The commands still to come, with the daemons that run, lead to the network: each of
\* its daemons gets a last start or runs and meets no stop, and every other daemon gets
\* no start and, if it runs, a stop.
LeadsTo(commands, on, network) ==
  \A d \in Startable :
    IF d \in Services(network)
    THEN EndsInStart(commands, d) \/ (d \in on /\ ~StopIn(commands, d))
    ELSE /\ \A n \in DOMAIN commands : commands[n] # Command("start", d)
         /\ d \in on => StopIn(commands, d)

\* Effect(command) if `on' run and `enabled' is rc.conf.
After(command, on, enabled) ==
  IF command.do = "stop" THEN on \ {command.daemon}
  ELSE on \union ({command.daemon} \cap Startable \cap enabled)

LEMMA NextCommandLeads ==
  ASSUME NEW network, NEW commands \in Seq(Commands), commands # <<>>, NEW on, NEW enabled,
         LeadsTo(commands, on, network), Services(network) \cap Startable \subseteq enabled
  PROVE  LeadsTo(Tail(commands), After(Head(commands), on, enabled), network)
<1>. DEFINE head == Head(commands)
            rest == Tail(commands)
            next == After(head, on, enabled)
<1>1. /\ head \in Commands /\ head = commands[1] /\ 1 \in DOMAIN commands
      /\ \A n \in DOMAIN commands : n # 1 => n - 1 \in DOMAIN rest /\ rest[n - 1] = commands[n]
      /\ \A n \in DOMAIN rest : n \in Nat \ {0} /\ n + 1 \in DOMAIN commands /\ commands[n + 1] = rest[n]
      /\ DOMAIN commands \subseteq Nat \ {0}
  OBVIOUS
<1>. HIDE DEF rest, head
<1>2. ASSUME NEW d \in Startable, d \in Services(network)
      PROVE  EndsInStart(rest, d) \/ (d \in next /\ ~StopIn(rest, d))
  <2>1. CASE EndsInStart(commands, d)
    <3>1. PICK n \in DOMAIN commands :
            /\ commands[n] = Command("start", d)
            /\ \A m \in DOMAIN commands : m > n => commands[m] # Command("stop", d)
      BY <2>1 DEF EndsInStart
    <3>2. CASE n = 1
      <4>1. d \in next
        <5>1. head.do = "start" /\ head.daemon = d
          BY <1>1, <3>1, <3>2 DEF Command
        <5>. QED  BY <1>2, <5>1 DEF After
      <4>2. ~StopIn(rest, d)
        BY <1>1, <3>1, <3>2 DEF StopIn
      <4>. QED  BY <4>1, <4>2
    <3>3. CASE n # 1
      <4>1. n - 1 \in DOMAIN rest /\ rest[n - 1] = Command("start", d)
        BY <1>1, <3>1, <3>3
      <4>2. ASSUME NEW m \in DOMAIN rest, m > n - 1 PROVE rest[m] # Command("stop", d)
        BY <1>1, <3>1, <4>2
      <4>. QED  BY <4>1, <4>2 DEF EndsInStart
    <3>. QED  BY <3>2, <3>3
  <2>2. CASE d \in on /\ ~StopIn(commands, d)
    <3>1. head # Command("stop", d) /\ ~StopIn(rest, d)
      BY <1>1, <2>2 DEF StopIn
    <3>2. d \in next
      BY <1>1, <2>2, <3>1 DEF After, Command, Commands
    <3>. QED  BY <3>1, <3>2
  <2>. QED  BY <1>2, <2>1, <2>2 DEF LeadsTo
<1>3. ASSUME NEW d \in Startable, d \notin Services(network)
      PROVE  /\ \A n \in DOMAIN rest : rest[n] # Command("start", d)
             /\ d \in next => StopIn(rest, d)
  <2>1. /\ \A n \in DOMAIN commands : commands[n] # Command("start", d)
        /\ d \in on => StopIn(commands, d)
    BY <1>3 DEF LeadsTo
  <2>2. ASSUME d \in next PROVE StopIn(rest, d)
    <3>1. d \in on /\ head # Command("stop", d)
      BY <1>1, <2>1, <2>2 DEF After, Command, Commands
    <3>2. PICK n \in DOMAIN commands : commands[n] = Command("stop", d)
      BY <2>1, <3>1 DEF StopIn
    <3>. QED  BY <1>1, <3>1, <3>2 DEF StopIn
  <2>. QED  BY <1>1, <2>1, <2>2
<1>. QED  BY <1>2, <1>3 DEF LeadsTo, rest, head

\* How far a switch that overlaps no other request has come.
LoneSwitch ==
  \A s \in Switchers \ (shared \union faulty) :
    nreq[s].at \in {"template", "commands"} /\ nreq[s].order.op = "switch" =>
      /\ config.flags = {nreq[s].order.network}
      /\ nreq[s].at = "commands" =>
           /\ rcconf = EnabledBy({nreq[s].order.network})
           /\ LeadsTo(nreq[s].left, running, nreq[s].order.network)

OnlyStartableRun == running \subseteq Startable

LEMMA SwitchRunsStartable ==
  ASSUME OnlyStartableRun, NEW s \in Switchers, SwitcherStep(s)
  PROVE  OnlyStartableRun'
BY DEF OnlyStartableRun, SwitcherStep, Request, SetNetworkFlag, LoadConfiguration, SendReconfigure,
       SetNetwork, ReloadTemplate, ManageService, Effect

\* The steps of a lone switch.
LEMMA LoneSwitchAdvances ==
  ASSUME TablesAgree, FilesGood, CommandsTyped, OnlyStartableRun, LoneSwitch,
         NEW s \in Switchers, SwitcherStep(s), s \notin shared, s \notin faulty, s \notin faulty',
         nreq'[s].order.op = "switch"
  PROVE  LET network == nreq'[s].order.network IN
         /\ nreq'[s].at \in {"template", "commands", "done"} => config'.flags = {network}
         /\ nreq'[s].at = "commands" =>
              rcconf' = EnabledBy({network}) /\ LeadsTo(nreq'[s].left, running', network)
         /\ nreq'[s].at = "done" => running' = Services(network) \ {"sepp"}
<1>. DEFINE network == nreq'[s].order.network
            left == nreq[s].left
<1>1. /\ DOMAIN nreq = Switchers /\ DOMAIN nreq[s] = {"order", "at", "copy", "left"}
      /\ config \in ConfigFile
      /\ nreq[s].at # "idle" => /\ nreq'[s].order = nreq[s].order /\ nreq[s].order \in Orders
                                /\ nreq[s].copy \in ConfigFile
      /\ left \in Seq(Commands) /\ (nreq[s].at = "commands" => left # <<>>)
  BY SwitcherMoves DEF FilesGood, SwitchersGood, Good, CommandsTyped
<1>2. CASE Request(s) \/ SetNetworkFlag(s) \/ LoadConfiguration(s)
  <2>1. nreq'[s].at \notin {"template", "commands", "done"}
    BY <1>1, <1>2 DEF Request, SetNetworkFlag, LoadConfiguration, Advance
  <2>. QED  BY <2>1
<1>3. CASE SendReconfigure(s)
  <2>1. ~MayFail(s)
    BY DEF MayFail
  <2>2. nreq'[s].at \notin {"template", "commands", "done"}
    BY <1>1, <1>3, <2>1 DEF SendReconfigure
  <2>. QED  BY <2>2
<1>4. CASE SetNetwork(s)
  <2>1. nreq'[s].at = "template" /\ nreq'[s].order = nreq[s].order
    BY <1>1, <1>4 DEF SetNetwork, Advance
  <2>2. config' = [nreq[s].copy EXCEPT !.flags = {nreq[s].order.network}] /\ nreq[s].at # "idle"
    BY <1>4 DEF SetNetwork, Save
  <2>3. config'.flags = {network}
    BY <1>1, <2>1, <2>2 DEF ConfigFile
  <2>. QED  BY <2>1, <2>3
<1>5. CASE ReloadTemplate(s)
  <2>. DEFINE commands == ManageNetworkServices(nreq[s].order.network)
  <2>1. /\ nreq[s].at = "template" /\ nreq'[s].at = "commands" /\ nreq'[s].left = commands
        /\ nreq'[s].order = nreq[s].order /\ config' = config /\ running' = running
    BY <1>1, <1>5 DEF ReloadTemplate
  <2>2. network \in Networks /\ network = nreq[s].order.network
    BY <1>1, <2>1, OrdersAssumption
  <2>3. config'.flags = {network}
    BY <2>1, <2>2 DEF LoneSwitch
  <2>4. rcconf' = EnabledBy({network})
    BY <1>5, <2>1, <2>3 DEF ReloadTemplate, MayFail
  <2>. HIDE DEF network
  <2>5. /\ \A d \in Daemons : StopIn(commands, d)
        /\ \A d \in Services(network) : EndsInStart(commands, d)
        /\ \A d \in Daemons \ Services(network) :
             \A n \in DOMAIN commands : commands[n] # Command("start", d)
    BY <2>2, CommandsOfSwitch
  <2>. HIDE DEF commands
  <2>6. LeadsTo(commands, running', network)
    BY <2>5 DEF LeadsTo, Startable
  <2>. QED  BY <2>1, <2>3, <2>4, <2>6 DEF network
<1>6. CASE ManageService(s)
  <2>1. /\ nreq[s].at = "commands" /\ nreq'[s].left = Tail(left) /\ nreq'[s].order = nreq[s].order
        /\ nreq'[s].at = IF Tail(left) = <<>> THEN "done" ELSE "commands"
        /\ config' = config /\ rcconf' = rcconf
    BY <1>1, <1>6 DEF ManageService
  <2>2. running' = After(Head(left), running, rcconf)
    BY <1>6 DEF ManageService, MayFail, Effect, After
  <2>3. network \in Networks /\ network = nreq[s].order.network
    BY <1>1, <2>1, OrdersAssumption
  <2>4. /\ config.flags = {network} /\ rcconf = EnabledBy({network})
        /\ LeadsTo(left, running, network)
    BY <2>1, <2>3 DEF LoneSwitch
  <2>. HIDE DEF network
  <2>5. Services(network) \cap Startable \subseteq rcconf
    BY <2>3, <2>4 DEF TablesAgree
  <2>. HIDE DEF left
  <2>6. LeadsTo(Tail(left), running', network)
    BY <1>1, <2>1, <2>2, <2>4, <2>5, NextCommandLeads
  <2>7. ASSUME Tail(left) = <<>> PROVE running' = Services(network) \ {"sepp"}
    <3>1. running' \subseteq Startable
      BY SwitchRunsStartable DEF OnlyStartableRun
    <3>2. Services(network) \subseteq Daemons
      <4>1. ServiceMapping(network) \in Seq(Daemons)
        BY <2>3 DEF TablesAgree
      <4>. QED  BY <4>1 DEF Services
    <3>3. \A d \in Startable : d \in running' <=> d \in Services(network)
      BY <2>6, <2>7 DEF LeadsTo, EndsInStart, StopIn
    <3>. QED  BY <3>1, <3>2, <3>3 DEF Startable
  <2>. QED  BY <2>1, <2>4, <2>6, <2>7 DEF network
<1>. QED  BY <1>2, <1>3, <1>4, <1>5, <1>6 DEF SwitcherStep

\* What the steps of the plugin keep, and where they lead a lone switch.
LoneSwitchDone ==
  \A s \in Switchers :
    /\ nreq[s].at # "done" /\ nreq'[s].at = "done" /\ nreq'[s].order.op = "switch"
    /\ s \notin shared' \union faulty'
    => /\ config'.flags = {nreq'[s].order.network}
       /\ running' = Services(nreq'[s].order.network) \ {"sepp"}

LEMMA LoneSwitchSteps ==
  ASSUME TablesAgree, FilesGood, Sharing, Sharing', CommandsTyped, OnlyStartableRun, LoneSwitch,
         Act, shared \subseteq shared'
  PROVE  OnlyStartableRun' /\ LoneSwitch' /\ LoneSwitchDone
<1>1. OnlyStartableRun'
  BY SwitchRunsStartable DEF Act, SwitchNext, switchVars, OnlyStartableRun
<1>2. ASSUME NEW s \in Switchers, s \notin shared', s \notin faulty', nreq'[s].order.op = "switch",
             nreq'[s].at \in {"template", "commands", "done"}, nreq[s].at # "done"
      PROVE  /\ config'.flags = {nreq'[s].order.network}
             /\ nreq'[s].at = "commands" =>
                  /\ rcconf' = EnabledBy({nreq'[s].order.network})
                  /\ LeadsTo(nreq'[s].left, running', nreq'[s].order.network)
             /\ nreq'[s].at = "done" => running' = Services(nreq'[s].order.network) \ {"sepp"}
  <2>1. s \notin faulty /\ s \notin shared
    BY <1>2, FailuresStay
  <2>2. CASE SwitcherStep(s)
    BY <1>2, <2>1, <2>2, LoneSwitchAdvances
  <2>3. CASE ~SwitcherStep(s)
    <3>1. nreq'[s] = nreq[s]
      BY <2>3, SwitcherMoves DEF FilesGood, Act, SwitchNext, switchVars
    <3>2. s \in Busy
      BY <1>2, <3>1 DEF Busy, SwitchBusy
    <3>3. LateScript /\ UNCHANGED <<switchVars, keyVars>>
      BY <1>2, <2>3, <3>2, LoneActsAlone, KindsDiffer
    <3>4. UNCHANGED <<config, running, rcconf, nreq>>
      BY <3>3 DEF LateScript, configVars, switchVars
    <3>5. nreq[s].at \in {"template", "commands"}
      BY <1>2, <3>1
    <3>. QED  BY <1>2, <2>1, <3>1, <3>4, <3>5 DEF LoneSwitch
  <2>. QED  BY <2>2, <2>3
<1>3. LoneSwitch'
  <2>1. ASSUME NEW s \in Switchers, nreq[s].at = "done" PROVE nreq'[s].at = "done"
    BY <2>1, SwitcherMoves DEF FilesGood, Act, SwitchNext, switchVars
  <2>2. ASSUME NEW s \in Switchers, nreq'[s].at \in {"template", "commands"} PROVE nreq[s].at # "done"
    BY <2>1, <2>2
  <2>. QED  BY <1>2, <2>2 DEF LoneSwitch
<1>4. LoneSwitchDone
  BY <1>2 DEF LoneSwitchDone
<1>. QED  BY <1>1, <1>3, <1>4

\* GeneralController.php:88-92 and ServiceController.php:127-138.  A switch that
\* overlaps no other request and meets no failure leaves its network the only one
\* enabled and exactly the daemons of this network running that can be started,
\* whatever earlier requests left behind and whatever scripts run late.
THEOREM LoneSwitchAlwaysConverges ==
  ASSUME TablesAgree
  PROVE  Spec => LoneSwitchConverges
<1>1. Init => OnlyStartableRun /\ LoneSwitch
  BY DEF Init, SwitchInit, IdleSwitcher, OnlyStartableRun, LoneSwitch
<1>2. /\ FilesGood /\ Sharing /\ Sharing' /\ CommandsTyped /\ OnlyStartableRun /\ LoneSwitch
      /\ [Next]_vars
      => OnlyStartableRun' /\ LoneSwitch' /\ [LoneSwitchDone]_vars
  <2>. SUFFICES ASSUME FilesGood, Sharing, Sharing', CommandsTyped, OnlyStartableRun, LoneSwitch,
                       [Next]_vars
       PROVE  OnlyStartableRun' /\ LoneSwitch' /\ [LoneSwitchDone]_vars
    OBVIOUS
  <2>1. CASE UNCHANGED vars
    BY <2>1 DEF vars, OnlyStartableRun, LoneSwitch
  <2>2. CASE Act /\ shared \subseteq shared'
    BY <2>2, LoneSwitchSteps
  <2>. QED  BY <2>1, <2>2 DEF Next
<1>3. [LoneSwitchDone]_vars =>
        [\A s \in Switchers :
           /\ nreq[s].at # "done" /\ nreq'[s].at = "done" /\ nreq'[s].order.op = "switch"
           /\ s \notin shared' \union faulty'
           => /\ config'.flags = {nreq'[s].order.network}
              /\ running' = Services(nreq'[s].order.network) \ {"sepp"}]_vars
  BY DEF LoneSwitchDone
<1>. QED
  BY <1>1, <1>2, <1>3, FilesAlwaysGood, SharingInvariant, DoomedInvariant, PTL
  DEF Spec, LoneSwitchConverges

-----------------------------------------------------------------------------
(***************************************************************************)
(* What a request answers that overlaps no other.  It works on config.xml  *)
(* as it is, and its own calls have done what it knows of them.            *)
(***************************************************************************)

\* A row of a bulk upload is stored with its own keys, or was noted as a duplicate.
RowDone(row, imsis, store, sessions) ==
  row.imsi \in imsis \/ store[row.imsi] = [key |-> row.key, sessions |-> sessions]

\* All rows but those that are left are done, if the chosen profiles exist.
RowsDone(job, left, imsis, store, profiles) ==
  (\A u \in job.uuids : profiles[u] # None) =>
    \E k \in 0..Len(job.rows) :
      /\ Len(left) = Len(job.rows) - k
      /\ \A i \in 1..Len(left) : left[i] = job.rows[k + i]
      /\ \A n \in 1..k : RowDone(job.rows[n], imsis, store, {profiles[u] : u \in job.uuids})

RemovalsTyped == \A c \in Clerks : sreq[c].at = "remove" => sreq[c].job.op = "deleteProfile"

LoneClerk ==
  faulty = {} =>
    /\ late = {}
    /\ \A c \in Clerks \ shared :
         /\ sreq[c].at \in {"fetch", "delete", "insert"} => sreq[c].copy = config
         /\ sreq[c].at = "lock" => db[sreq[c].job.imsi] = None
         /\ sreq[c].at = "insert" /\ sreq[c].job.op = "bulk" =>
              RowsDone(sreq[c].job, sreq[c].left, sreq[c].imsis, db, config.profiles)

\* One more row is stored or noted; those before it stay done.
LEMMA NextRowDone ==
  ASSUME NEW job, job.rows \in Seq(Row), job.uuids \subseteq Uuids,
         NEW left \in Seq(Row), left # <<>>, NEW imsis, NEW after,
         NEW store \in [Imsis -> Subscriber \union {None}], NEW stored,
         NEW profiles \in [Uuids -> Profile \union {None}],
         RowsDone(job, left, imsis, store, profiles),
         LET head == Head(left) IN
           \/ /\ store[head.imsi] = None /\ after = imsis
              /\ stored = [store EXCEPT ![head.imsi] =
                             [key |-> head.key, sessions |-> {profiles[u] : u \in job.uuids}]]
           \/ stored = store /\ after = imsis \union {head.imsi}
  PROVE  RowsDone(job, Tail(left), after, stored, profiles)
<1>. DEFINE head == Head(left)
            sessions == {profiles[u] : u \in job.uuids}
<1>. SUFFICES ASSUME \A u \in job.uuids : profiles[u] # None
     PROVE  \E k \in 0..Len(job.rows) :
              /\ Len(Tail(left)) = Len(job.rows) - k
              /\ \A i \in 1..Len(Tail(left)) : Tail(left)[i] = job.rows[k + i]
              /\ \A n \in 1..k : RowDone(job.rows[n], after, stored, sessions)
  BY DEF RowsDone
<1>1. PICK k \in 0..Len(job.rows) :
        /\ Len(left) = Len(job.rows) - k
        /\ \A i \in 1..Len(left) : left[i] = job.rows[k + i]
        /\ \A n \in 1..k : RowDone(job.rows[n], imsis, store, sessions)
  BY DEF RowsDone
<1>2. sessions \subseteq Profile
  OBVIOUS
<1>. HIDE DEF sessions
<1>3. /\ head = job.rows[k + 1] /\ head \in Row /\ k + 1 \in 0..Len(job.rows)
      /\ Len(Tail(left)) = Len(job.rows) - (k + 1)
      /\ \A i \in 1..Len(Tail(left)) : Tail(left)[i] = job.rows[(k + 1) + i]
  <2>1. Len(left) \in Nat \ {0} /\ head = left[1] /\ head \in Row /\ Len(Tail(left)) = Len(left) - 1
    OBVIOUS
  <2>2. ASSUME NEW i \in 1..Len(Tail(left)) PROVE Tail(left)[i] = job.rows[(k + 1) + i]
    <3>1. Tail(left)[i] = left[i + 1] /\ i + 1 \in 1..Len(left)
      BY <2>1
    <3>2. k + (i + 1) = (k + 1) + i
      BY <2>1
    <3>. QED  BY <1>1, <3>1, <3>2
  <2>. QED  BY <1>1, <2>1, <2>2
<1>4. head.imsi \in Imsis /\ RowDone(head, after, stored, sessions)
  BY <1>3 DEF RowDone, Row, sessions
<1>5. ASSUME NEW n \in 1..k PROVE RowDone(job.rows[n], after, stored, sessions)
  <2>1. job.rows[n] \in Row
    BY <1>5
  <2>. DEFINE row == job.rows[n]
  <2>2. RowDone(row, imsis, store, sessions)
    BY <1>1
  <2>. HIDE DEF row
  <2>3. [key |-> row.key, sessions |-> sessions] # None
    BY <1>2, <2>1, ClerksAssumption DEF Row, row
  <2>4. CASE /\ store[head.imsi] = None /\ after = imsis
             /\ stored = [store EXCEPT ![head.imsi] = [key |-> head.key, sessions |-> sessions]]
    <3>1. CASE row.imsi \in imsis
      BY <2>4, <3>1 DEF RowDone, row
    <3>2. CASE store[row.imsi] = [key |-> row.key, sessions |-> sessions]
      <4>1. row.imsi # head.imsi
        BY <2>3, <2>4, <3>2
      <4>2. stored[row.imsi] = store[row.imsi]
        BY <2>1, <2>4, <4>1 DEF Row, row
      <4>. QED  BY <3>2, <4>2 DEF RowDone, row
    <3>. QED  BY <2>2, <3>1, <3>2 DEF RowDone, row
  <2>5. CASE stored = store /\ after = imsis \union {head.imsi}
    BY <2>2, <2>5 DEF RowDone, row
  <2>. QED  BY <2>4, <2>5 DEF sessions
<1>6. \A n \in 1..(k + 1) : RowDone(job.rows[n], after, stored, sessions)
  BY <1>3, <1>4, <1>5
<1>. QED  BY <1>3, <1>6

\* The steps of a lone clerk.
LEMMA LoneSaveAdvances ==
  ASSUME FilesGood, StoreTyped, LoneClerk,
         NEW c \in Clerks, SaveUser(c), c \notin shared, faulty = {}, faulty' = {}
  PROVE  /\ late' = {} /\ sreq'[c].at \in {"insert", "done"} /\ sreq'[c].job = sreq[c].job
         /\ sreq'[c].at = "insert" =>
              /\ sreq'[c].copy = config' /\ sreq'[c].job.op = "bulk"
              /\ RowsDone(sreq'[c].job, sreq'[c].left, sreq'[c].imsis, db', config'.profiles)
         /\ sreq'[c].at = "done" => Answered(c)
<1>. DEFINE job == sreq[c].job
            stored == {config.profiles[u] : u \in job.uuids}
<1>1. /\ DOMAIN sreq = Clerks
      /\ DOMAIN sreq[c] = {"job", "at", "copy", "found", "left", "imsis", "answer"}
      /\ sreq[c].at = "insert" /\ job \in Jobs /\ ClerkTyped(c) /\ job.op \in {"add", "set", "bulk"}
      /\ sreq[c].copy = config /\ late = {} /\ config' = config /\ config \in ConfigFile
      /\ db \in [Imsis -> Subscriber \union {None}]
  BY DEF FilesGood, ClerksGood, StoreTyped, ClerkTyped, SaveUser, LoneClerk, Good
<1>2. \E result : Saved(c, result) /\ late' = {}
      /\ \/ /\ result = "Success" /\ Buildable(c)
            /\ db[Imsi(c)] = None /\ db' = [db EXCEPT ![Imsi(c)] = Built(c)]
         \/ result = "Duplicate" /\ Buildable(c) /\ db[Imsi(c)] # None /\ db' = db
         \/ result = "Error" /\ ~Buildable(c) /\ db' = db
  <2>1. \A do, imsi, doc : ~TimeOut(c, do, imsi, doc)
    BY DEF TimeOut, MayFail
  <2>. QED  BY <1>1, <2>1 DEF SaveUser
<1>3. PICK result :
        /\ Saved(c, result) /\ late' = {}
        /\ \/ /\ result = "Success" /\ Buildable(c)
              /\ db[Imsi(c)] = None /\ db' = [db EXCEPT ![Imsi(c)] = Built(c)]
           \/ result = "Duplicate" /\ Buildable(c) /\ db[Imsi(c)] # None /\ db' = db
           \/ result = "Error" /\ ~Buildable(c) /\ db' = db
  BY <1>2
<1>4. CASE job.op \in {"add", "set"}
  <2>1. /\ sreq'[c].at = "done" /\ sreq'[c].answer = Outcome(job.op, result)
        /\ sreq'[c].job = job /\ sreq'[c].found = sreq[c].found
    BY <1>1, <1>3, <1>4 DEF Saved, Reply
  <2>2. /\ Imsi(c) = job.imsi /\ job.imsi \in Imsis
        /\ Built(c) = [key |-> IF job.op = "set" THEN sreq[c].found.key ELSE job.key, sessions |-> stored]
    BY <1>1, <1>4, JobsAssumption DEF Imsi, Built, Key, Chosen
  <2>3. result = "Success" => db'[job.imsi] = Built(c)
    BY <1>1, <1>3, <2>2
  <2>4. Answered(c)
    <3>1. job.op = "add" /\ sreq'[c].answer = "Success" => result = "Success"
      BY <2>1 DEF Outcome
    <3>2. job.op = "set" /\ sreq'[c].answer = "success" => result = "Success"
      BY <2>1 DEF Outcome
    <3>3. /\ sreq'[c].job = job /\ config'.profiles = config.profiles
          /\ sreq'[c].found = sreq[c].found
      BY <1>1, <2>1
    <3>. HIDE DEF job
    <3>4. CASE job.op = "add"
      <4>1. result = "Success" => db'[job.imsi] = [key |-> job.key, sessions |-> stored]
        BY <2>2, <2>3, <3>4
      <4>. QED  BY <3>1, <3>3, <3>4, <4>1 DEF Answered
    <3>5. CASE job.op = "set"
      <4>1. result = "Success" => db'[job.imsi] = [key |-> sreq[c].found.key, sessions |-> stored]
        BY <2>2, <2>3, <3>5
      <4>. QED  BY <3>2, <3>3, <3>5, <4>1 DEF Answered
    <3>. QED  BY <1>4, <3>4, <3>5
  <2>. QED  BY <1>3, <2>1, <2>4
<1>5. CASE job.op = "bulk"
  <2>. DEFINE left == sreq[c].left
              after == sreq'[c].imsis
  <2>1. /\ left \in Seq(Row) /\ left # <<>> /\ job.rows \in Seq(Row)
        /\ job.uuids \subseteq Uuids /\ job.uuids # {}
        /\ config.profiles \in [Uuids -> Profile \union {None}]
    BY <1>1, <1>5, JobsAssumption DEF ClerkTyped, Row, ConfigFile
  <2>2. /\ sreq'[c].left = Tail(left) /\ sreq'[c].job = job /\ sreq'[c].copy = config
        /\ sreq'[c].at = IF Tail(left) = <<>> THEN "done" ELSE "insert"
        /\ after = IF result = "Duplicate" THEN sreq[c].imsis \union {Imsi(c)} ELSE sreq[c].imsis
    <3>1. sreq' = [sreq EXCEPT ![c].left = Tail(@),
                             ![c].imsis = IF result = "Duplicate" THEN @ \union {Imsi(c)} ELSE @,
                             ![c].at   = IF Tail(left) = <<>> THEN "done" ELSE @]
      BY <1>3, <1>5 DEF Saved
    <3>. QED  BY <1>1, <3>1
  <2>3. RowsDone(job, Tail(left), after, db', config.profiles)
    <3>1. CASE \E u \in job.uuids : config.profiles[u] = None
      BY <3>1 DEF RowsDone
    <3>2. CASE \A u \in job.uuids : config.profiles[u] # None
      <4>1. Chosen(c) = job.uuids /\ Buildable(c) /\ Imsi(c) = Head(left).imsi
            /\ Built(c) = [key |-> Head(left).key, sessions |-> stored]
        BY <1>1, <1>5, <2>1, <3>2 DEF Chosen, Buildable, Imsi, Built, Key
      <4>2. RowsDone(job, left, sreq[c].imsis, db, config.profiles)
        BY <1>1, <1>5 DEF LoneClerk
      <4>3. \/ /\ db[Head(left).imsi] = None /\ after = sreq[c].imsis
               /\ db' = [db EXCEPT ![Head(left).imsi] = [key |-> Head(left).key, sessions |-> stored]]
            \/ db' = db /\ after = sreq[c].imsis \union {Head(left).imsi}
        BY <1>3, <2>2, <4>1
      <4>. HIDE DEF left, after, job
      <4>4. stored = {config.profiles[u] : u \in job.uuids}
        BY DEF job
      <4>. HIDE DEF stored
      <4>. QED  BY <1>1, <2>1, <4>2, <4>3, <4>4, NextRowDone
    <3>. QED  BY <3>1, <3>2
  <2>4. ASSUME Tail(left) = <<>> PROVE Answered(c)
    <3>. SUFFICES ASSUME \A u \in job.uuids : config.profiles[u] # None, NEW n \in DOMAIN job.rows
         PROVE  job.rows[n].imsi \in after
                \/ db'[job.rows[n].imsi] = [key |-> job.rows[n].key, sessions |-> stored]
      BY <1>1, <1>5, <2>2 DEF Answered
    <3>1. PICK k \in 0..Len(job.rows) :
            /\ Len(Tail(left)) = Len(job.rows) - k
            /\ \A m \in 1..k : RowDone(job.rows[m], after, db', stored)
      BY <2>3 DEF RowsDone
    <3>2. Len(job.rows) \in Nat /\ DOMAIN job.rows = 1..Len(job.rows)
      <4>1. \A rows \in Seq(Row) : Len(rows) \in Nat /\ DOMAIN rows = 1..Len(rows)
        OBVIOUS
      <4>. QED  BY <2>1, <4>1
    <3>3. Len(job.rows) - k = 0
      BY <2>4, <3>1
    <3>4. k = Len(job.rows) /\ n \in 1..k
      <4>. DEFINE size == Len(job.rows)
      <4>1. size \in Nat /\ n \in 1..size /\ k \in 0..size /\ size - k = 0
        BY <3>1, <3>2, <3>3
      <4>. HIDE DEF size
      <4>2. k = size /\ n \in 1..k
        BY <4>1
      <4>. QED  BY <4>2 DEF size
    <3>. QED  BY <3>1, <3>4 DEF RowDone
  <2>. QED  BY <1>1, <1>3, <1>5, <2>2, <2>3, <2>4
<1>. QED  BY <1>1, <1>4, <1>5

LEMMA LoneClerkAdvances ==
  ASSUME FilesGood, StoreTyped, RemovalsTyped, LoneClerk,
         NEW c \in Clerks, ClerkStep(c), c \notin shared, faulty = {}, faulty' = {}
  PROVE  /\ late' = {}
         /\ sreq'[c].at \in {"fetch", "delete", "insert"} => sreq'[c].copy = config'
         /\ sreq'[c].at = "lock" => db'[sreq'[c].job.imsi] = None
         /\ sreq'[c].at = "insert" /\ sreq'[c].job.op = "bulk" =>
              RowsDone(sreq'[c].job, sreq'[c].left, sreq'[c].imsis, db', config'.profiles)
         /\ sreq'[c].at = "done" => Answered(c)
<1>. DEFINE job == sreq[c].job
<1>1. /\ DOMAIN sreq = Clerks
      /\ DOMAIN sreq[c] = {"job", "at", "copy", "found", "left", "imsis", "answer"}
      /\ ClerkTyped(c) /\ late = {} /\ db \in [Imsis -> Subscriber \union {None}]
      /\ sreq[c].at # "idle" => sreq'[c].job = job /\ job \in Jobs
  BY ClerkMoves DEF FilesGood, ClerksGood, StoreTyped, LoneClerk
<1>2. (\A do, imsi, doc : ~TimeOut(c, do, imsi, doc)) /\ ~MayFail(c)
  BY DEF TimeOut, MayFail
<1>3. CASE Ask(c)
  <2>1. PICK asked \in Jobs :
          sreq' = [sreq EXCEPT ![c].job = asked, ![c].at = FirstStep(asked.op), ![c].copy = config,
                               ![c].left = IF asked.op = "bulk" THEN asked.rows ELSE <<>>]
    BY <1>3 DEF Ask
  <2>2. /\ sreq'[c].job = asked /\ sreq'[c].copy = config /\ sreq'[c].at = FirstStep(asked.op)
        /\ asked.op = "bulk" => sreq'[c].left = asked.rows
        /\ config' = config /\ late' = {}
    BY <1>1, <1>3, <2>1 DEF Ask, configVars
  <2>3. FirstStep(asked.op) \notin {"lock", "done"}
    BY JobsAssumption DEF FirstStep
  <2>4. asked.op = "bulk" => RowsDone(asked, asked.rows, sreq'[c].imsis, db', config'.profiles)
    <3>. SUFFICES ASSUME asked.op = "bulk"
         PROVE  \E k \in 0..Len(asked.rows) :
                  /\ Len(asked.rows) = Len(asked.rows) - k
                  /\ \A i \in 1..Len(asked.rows) : asked.rows[i] = asked.rows[k + i]
                  /\ \A n \in 1..k : RowDone(asked.rows[n], sreq'[c].imsis, db',
                                             {config'.profiles[u] : u \in asked.uuids})
      BY DEF RowsDone
    <3>1. asked.rows \in Seq(Row)
      BY JobsAssumption DEF Row
    <3>2. 0 \in 0..Len(asked.rows)
      BY <3>1
    <3>3. Len(asked.rows) = Len(asked.rows) - 0
      BY <3>1
    <3>4. \A i \in 1..Len(asked.rows) : asked.rows[i] = asked.rows[0 + i]
      BY <3>1
    <3>5. 1..0 = {}
      OBVIOUS
    <3>. QED  BY <3>2, <3>3, <3>4, <3>5
  <2>. QED  BY <2>2, <2>3, <2>4
<1>4. CASE SaveUser(c)
  BY <1>4, LoneSaveAdvances
<1>5. CASE FetchUser(c)
  <2>1. sreq[c].at = "fetch" /\ job.op = "set" /\ config' = config /\ db' = db /\ late' = {}
        /\ sreq[c].copy = config
    BY <1>1, <1>5 DEF FetchUser, ClerkTyped, LoneClerk
  <2>2. \/ sreq'[c].at = "delete" /\ sreq'[c].copy = config
        \/ sreq'[c].at = "done" /\ sreq'[c].answer = "Failed"
    BY <1>1, <1>5, <2>1 DEF FetchUser, Reply
  <2>3. Answered(c) \/ sreq'[c].at # "done"
    BY <1>1, <2>1, <2>2 DEF Answered
  <2>. QED  BY <2>1, <2>2, <2>3
<1>6. CASE DeleteUser(c)
  <2>1. /\ sreq[c].at = "delete" /\ job.op \in {"set", "del"} /\ job.imsi \in Imsis /\ config' = config
        /\ sreq[c].copy = config
    BY <1>1, <1>6, JobsAssumption DEF DeleteUser, ClerkTyped, LoneClerk
  <2>2. CASE db[job.imsi] # None /\ db' = [db EXCEPT ![job.imsi] = None] /\ Go(c, "lock") /\ late' = late
    <3>1. sreq'[c].at = "lock" /\ db'[job.imsi] = None
      BY <1>1, <2>1, <2>2 DEF Go
    <3>. QED  BY <1>1, <2>1, <2>2, <3>1
  <2>3. CASE /\ db[job.imsi] = None /\ db' = db /\ late' = late
             /\ IF job.op = "set" THEN Go(c, "insert") ELSE Reply(c, "Failed")
    <3>1. CASE job.op = "set"
      BY <1>1, <2>1, <2>3, <3>1 DEF Go
    <3>2. CASE job.op = "del"
      <4>1. sreq'[c].at = "done" /\ db'[job.imsi] = None
        BY <1>1, <2>3, <3>2 DEF Reply
      <4>2. Answered(c)
        BY <1>1, <2>1, <3>2, <4>1 DEF Answered
      <4>. QED  BY <1>1, <2>3, <4>1, <4>2
    <3>. QED  BY <2>1, <3>1, <3>2
  <2>. QED  BY <1>2, <1>6, <2>2, <2>3 DEF DeleteUser
<1>7. CASE LockConfig(c)
  <2>1. /\ sreq[c].at = "lock" /\ job.op \in {"set", "del"} /\ config' = config /\ db' = db
        /\ db[job.imsi] = None /\ late' = {}
    BY <1>1, <1>7 DEF LockConfig, ClerkTyped, LoneClerk
  <2>2. CASE job.op = "set"
    <3>1. sreq'[c].at = "insert" /\ sreq'[c].copy = config
      BY <1>1, <1>7, <2>2 DEF LockConfig
    <3>. QED  BY <1>1, <2>1, <2>2, <3>1
  <2>3. CASE job.op = "del"
    <3>1. sreq'[c].at = "done"
      BY <1>1, <1>7, <2>3 DEF LockConfig, Reply
    <3>2. Answered(c)
      BY <1>1, <2>1, <2>3 DEF Answered
    <3>. QED  BY <2>1, <3>1, <3>2
  <2>. QED  BY <2>1, <2>2, <2>3
<1>8. CASE ListUsers(c) \/ UpdateUsers(c) \/ SaveProfile(c) \/ DeleteProfile(c)
  <2>1. sreq[c].at \in {"list", "cascade", "save", "remove"} /\ late' = {}
    BY <1>1, <1>8 DEF ListUsers, UpdateUsers, SaveProfile, DeleteProfile
  <2>2. job.op \in {"addProfile", "setProfile", "addBulk", "deleteProfile"}
    BY <2>1 DEF RemovalsTyped, FilesGood, ClerksGood
  <2>3. sreq'[c].at \in {"cascade", "save", "done"}
    <3>1. \/ \E at \in {"cascade", "save"} : sreq'[c].at = at
          \/ \E answer : Reply(c, answer)
      <4>1. CASE ListUsers(c)
        BY <1>1, <4>1 DEF ListUsers, Go
      <4>2. CASE UpdateUsers(c)
        BY <1>1, <4>2 DEF UpdateUsers, Go
      <4>3. CASE SaveProfile(c)
        BY <4>3 DEF SaveProfile
      <4>4. CASE DeleteProfile(c)
        BY <4>4 DEF DeleteProfile
      <4>. QED  BY <1>8, <4>1, <4>2, <4>3, <4>4
    <3>. QED  BY <1>1, <3>1 DEF Reply
  <2>4. Answered(c)
    BY <1>1, <2>1, <2>2 DEF Answered
  <2>. QED  BY <2>1, <2>3, <2>4
<1>. QED  BY <1>3, <1>4, <1>5, <1>6, <1>7, <1>8 DEF ClerkStep

LEMMA NothingLate ==
  ASSUME FilesGood, LoneClerk, Act, faulty' = {}
  PROVE  late' = {} /\ ~LateScript
<1>1. faulty = {} /\ late = {} /\ \A r : ~MayFail(r)
  BY FailuresStay DEF LoneClerk, MayFail
<1>2. ~LateScript
  BY <1>1 DEF LateScript
<1>3. ASSUME NEW c \in Clerks, ClerkStep(c) PROVE late' = late
  BY <1>1, <1>3
  DEF ClerkStep, Ask, SaveUser, TimeOut, FetchUser, DeleteUser, LockConfig, ListUsers, UpdateUsers,
      SaveProfile, DeleteProfile
<1>. QED  BY <1>1, <1>2, <1>3 DEF Act, StoreNext, storeVars

LoneAnswersTrue ==
  \A c \in Clerks : sreq[c].at # "done" /\ sreq'[c].at = "done"
                    /\ c \notin shared' /\ faulty' = {} => Answered(c)

LEMMA LoneClerkSteps ==
  ASSUME FilesGood, Sharing, Sharing', StoreTyped, RemovalsTyped, LoneClerk, Act, shared \subseteq shared'
  PROVE  RemovalsTyped' /\ LoneClerk' /\ LoneAnswersTrue
<1>1. RemovalsTyped'
  <2>. SUFFICES ASSUME NEW c \in Clerks, sreq'[c].at = "remove" PROVE sreq'[c].job.op = "deleteProfile"
    BY DEF RemovalsTyped
  <2>1. CASE ClerkStep(c)
    <3>1. /\ DOMAIN sreq = Clerks
          /\ DOMAIN sreq[c] = {"job", "at", "copy", "found", "left", "imsis", "answer"}
      BY DEF FilesGood, ClerksGood
    <3>2. CASE Ask(c)
      <4>1. PICK asked \in Jobs :
              sreq' = [sreq EXCEPT ![c].job = asked, ![c].at = FirstStep(asked.op), ![c].copy = config,
                                   ![c].left = IF asked.op = "bulk" THEN asked.rows ELSE <<>>]
        BY <3>2 DEF Ask
      <4>2. sreq'[c].job = asked /\ FirstStep(asked.op) = "remove"
        BY <3>1, <4>1
      <4>. QED  BY <4>2, JobsAssumption DEF FirstStep
    <3>3. CASE SaveUser(c)
      <4>1. sreq[c].at = "insert" /\ \E result : Saved(c, result)
        BY <3>3 DEF SaveUser
      <4>2. sreq'[c].at \in {"insert", "done"}
        BY <3>1, <4>1 DEF Saved, Reply
      <4>. QED  BY <4>2
    <3>4. CASE FetchUser(c) \/ DeleteUser(c) \/ LockConfig(c) \/ ListUsers(c) \/ UpdateUsers(c)
      BY <3>1, <3>4 DEF FetchUser, DeleteUser, LockConfig, ListUsers, UpdateUsers, Go, Reply
    <3>5. CASE SaveProfile(c) \/ DeleteProfile(c)
      <4>1. \E answer : Reply(c, answer)
        BY <3>5 DEF SaveProfile, DeleteProfile
      <4>. QED  BY <3>1, <4>1 DEF Reply
    <3>. QED  BY <2>1, <3>2, <3>3, <3>4, <3>5 DEF ClerkStep
  <2>2. CASE ~ClerkStep(c)
    <3>1. sreq'[c] = sreq[c]
      BY <2>2, ClerkMoves DEF FilesGood, Act, StoreNext, LateScript, storeVars
    <3>. QED  BY <3>1 DEF RemovalsTyped
  <2>. QED  BY <2>1, <2>2
<1>2. ASSUME NEW c \in Clerks, c \notin shared', faulty' = {},
             sreq'[c].at \notin {"idle", "done"} \/ (sreq'[c].at = "done" /\ sreq[c].at # "done")
      PROVE  /\ sreq'[c].at \in {"fetch", "delete", "insert"} => sreq'[c].copy = config'
             /\ sreq'[c].at = "lock" => db'[sreq'[c].job.imsi] = None
             /\ sreq'[c].at = "insert" /\ sreq'[c].job.op = "bulk" =>
                  RowsDone(sreq'[c].job, sreq'[c].left, sreq'[c].imsis, db', config'.profiles)
             /\ sreq'[c].at = "done" => Answered(c)
  <2>1. faulty = {} /\ c \notin shared /\ ~LateScript
    BY <1>2, FailuresStay, NothingLate
  <2>2. CASE ~ClerkStep(c)
    <3>1. sreq'[c] = sreq[c]
      BY <2>2, ClerkMoves DEF FilesGood, Act, StoreNext, LateScript, storeVars
    <3>2. c \in Busy
      BY <1>2, <3>1 DEF Busy, StoreBusy
    <3>. QED  BY <1>2, <2>1, <2>2, <3>2, LoneActsAlone, KindsDiffer
  <2>. QED  BY <1>2, <2>1, <2>2, LoneClerkAdvances
<1>3. LoneClerk'
  BY <1>2, NothingLate DEF LoneClerk
<1>4. LoneAnswersTrue
  BY <1>2 DEF LoneAnswersTrue
<1>. QED  BY <1>1, <1>3, <1>4

\* UserController.php:361-376, 403-411 and BulkController.php:109-136.  What a request
\* answers that overlaps no other, when no call has failed, is true: an added subscriber
\* has the sessions of the profiles as they are and its keys, a changed one its old
\* keys, a deleted one is gone, and every row of an upload, however many there are and
\* however often it names a subscriber, is stored with its own keys or was reported.
THEOREM LoneAnswersAlwaysHold == Spec => LoneAnswersHold
<1>1. Init => RemovalsTyped /\ LoneClerk
  BY DEF Init, StoreInit, IdleClerk, RemovalsTyped, LoneClerk
<1>2. /\ FilesGood /\ Sharing /\ Sharing' /\ StoreTyped /\ RemovalsTyped /\ LoneClerk
      /\ [Next]_vars
      => RemovalsTyped' /\ LoneClerk' /\ [LoneAnswersTrue]_vars
  <2>. SUFFICES ASSUME FilesGood, Sharing, Sharing', StoreTyped, RemovalsTyped, LoneClerk, [Next]_vars
       PROVE  RemovalsTyped' /\ LoneClerk' /\ [LoneAnswersTrue]_vars
    OBVIOUS
  <2>1. CASE UNCHANGED vars
    BY <2>1 DEF vars, RemovalsTyped, LoneClerk
  <2>2. CASE Act /\ shared \subseteq shared'
    BY <2>2, LoneClerkSteps
  <2>. QED  BY <2>1, <2>2 DEF Next
<1>3. [LoneAnswersTrue]_vars =>
        [\A c \in Clerks : sreq[c].at # "done" /\ sreq'[c].at = "done"
                           /\ c \notin shared' /\ faulty' = {} => Answered(c)]_vars
  BY DEF LoneAnswersTrue
<1>. QED
  BY <1>1, <1>2, <1>3, FilesAlwaysGood, SharingInvariant, StoreTypes, PTL
  DEF Spec, LoneAnswersHold

-----------------------------------------------------------------------------
(***************************************************************************)
(* What becomes of a profile that one request alone asked for.  Whoever    *)
(* loads config.xml after that request has its profile in the copy; whoever*)
(* loaded it before and saves it overlaps the request, and so do all who   *)
(* copied the file between the two.                                        *)
(***************************************************************************)

LastingAnswers == {"saved", "deleted", "not found"}

\* Steps before which a request holds a copy that it will save.
ClerksSteps == {"list", "cascade", "save"}
SwitchSteps == {"set", "network"}

AnswersTyped ==
  /\ \A c \in Clerks : /\ sreq[c].at = "remove" => sreq[c].job.op = "deleteProfile"
                       /\ sreq[c].answer \in LastingAnswers => sreq[c].at = "done"
  /\ \A k \in KeyMakers : kreq[k].told = "saved" => kreq[k].at = "done"

Undisturbed(c) ==
  /\ sreq[c].job.op \in ProfileOps /\ sreq[c].answer \in LastingAnswers
  /\ OnlyOneAbout(sreq[c].job.uuid, c)
  /\ c \in shared => Rewriters \cap shared \subseteq {c}

\* The file, or a copy of it, has the profile as c left it.
Has(file, c) ==
  file.profiles[sreq[c].job.uuid] =
    IF sreq[c].job.op = "deleteProfile" THEN None ELSE sreq[c].job.profile

Carried(c) ==
  /\ Has(config, c)
  /\ \A d \in Clerks : sreq[d].at \in ClerksSteps => Has(sreq[d].copy, c)
  /\ \A s \in Switchers : nreq[s].at \in SwitchSteps => Has(nreq[s].copy, c)
  /\ \A k \in KeyMakers : kreq[k].at = "choose" => Has(kreq[k].copy, c)

SavesCarried == \A c \in StoreUsed : Undisturbed(c) => Carried(c)

\* How a clerk changes config.xml.
Stores(d) ==
  /\ sreq[d].at = "save"
  /\ config' = IF sreq[d].job.op = "addBulk" THEN sreq[d].copy
               ELSE [sreq[d].copy EXCEPT !.profiles[sreq[d].job.uuid] = sreq[d].job.profile]
Deletes(d) ==
  /\ sreq[d].at = "remove"
  /\ config' = [config EXCEPT !.profiles[sreq[d].job.uuid] = None]

LEMMA ClerkSaves ==
  ASSUME FilesGood, AnswersTyped, NEW d \in Clerks, ClerkStep(d)
  PROVE  /\ sreq'[d].at \in ClerksSteps =>
              sreq'[d].copy = config \/ (sreq[d].at \in ClerksSteps /\ sreq'[d].copy = sreq[d].copy)
         /\ config' = config \/ Stores(d) \/ Deletes(d)
         /\ sreq'[d].answer \in LastingAnswers => sreq'[d].at = "done" /\ (Stores(d) \/ Deletes(d))
         /\ sreq'[d].at = "remove" => sreq'[d].job.op = "deleteProfile"
<1>. USE DEF FilesGood, ClerksGood, Go, Reply, configVars, ClerksSteps
<1>1. sreq[d].answer \notin LastingAnswers
  <2>1. sreq[d].at # "done"
    BY ClerkMoves
  <2>. QED  BY <2>1 DEF AnswersTyped
<1>2. CASE Ask(d)
  <2>1. PICK job \in Jobs :
          sreq' = [sreq EXCEPT ![d].job = job, ![d].at = FirstStep(job.op), ![d].copy = config,
                               ![d].left = IF job.op = "bulk" THEN job.rows ELSE <<>>]
    BY <1>2 DEF Ask
  <2>2. sreq'[d].copy = config /\ sreq'[d].answer = sreq[d].answer /\ sreq'[d].job = job
        /\ sreq'[d].at = FirstStep(job.op)
    BY <2>1
  <2>3. FirstStep(job.op) = "remove" => job.op = "deleteProfile"
    BY JobsAssumption DEF FirstStep
  <2>4. config' = config
    BY <1>2 DEF Ask
  <2>. QED  BY <1>1, <2>2, <2>3, <2>4
<1>3. CASE SaveUser(d)
  <2>1. sreq[d].at = "insert" /\ config' = config
        /\ \E result \in {"Success", "Duplicate", "Error", "null"} : Saved(d, result)
    BY <1>3 DEF SaveUser
  <2>2. CASE sreq[d].job.op = "bulk"
    <3>1. sreq'[d].at \in {"insert", "done"} /\ sreq'[d].answer = sreq[d].answer
      BY <2>1, <2>2 DEF Saved
    <3>. QED  BY <1>1, <2>1, <3>1
  <2>3. CASE sreq[d].job.op # "bulk"
    <3>1. sreq'[d].at = "done"
          /\ sreq'[d].answer \in {"Success", "Duplicate", "Error", "null", "success", "the subscriber"}
      <4>1. PICK result \in {"Success", "Duplicate", "Error", "null"} :
              sreq' = [sreq EXCEPT ![d].at = "done", ![d].answer = Outcome(sreq[d].job.op, result)]
        BY <2>1, <2>3 DEF Saved
      <4>2. Outcome(sreq[d].job.op, result) \in
              {"Success", "Duplicate", "Error", "null", "success", "the subscriber"}
        BY DEF Outcome
      <4>. QED  BY <4>1, <4>2
    <3>. QED  BY <2>1, <3>1 DEF LastingAnswers
  <2>. QED  BY <2>2, <2>3
<1>4. CASE FetchUser(d)
  <2>1. /\ config' = config /\ sreq'[d].at \in {"delete", "done"}
        /\ sreq'[d].answer \in {sreq[d].answer, "Failed"}
    BY <1>4 DEF FetchUser
  <2>. QED  BY <1>1, <2>1 DEF LastingAnswers
<1>5. CASE DeleteUser(d)
  <2>1. /\ config' = config /\ sreq'[d].at \in {"lock", "insert", "done"}
        /\ sreq'[d].answer \in {sreq[d].answer, "Failed", "null"}
    BY <1>5 DEF DeleteUser
  <2>. QED  BY <1>1, <2>1 DEF LastingAnswers
<1>6. CASE LockConfig(d)
  <2>1. /\ config' = config /\ sreq'[d].at \in {"insert", "done"}
        /\ sreq'[d].answer \in {sreq[d].answer, "failed"}
    BY <1>6 DEF LockConfig
  <2>. QED  BY <1>1, <2>1 DEF LastingAnswers
<1>7. CASE ListUsers(d) \/ UpdateUsers(d)
  <2>1. /\ config' = config /\ sreq[d].at \in {"list", "cascade"} /\ sreq'[d].at \in {"cascade", "save"}
        /\ sreq'[d].answer = sreq[d].answer /\ sreq'[d].copy = sreq[d].copy
    BY <1>7 DEF ListUsers, UpdateUsers
  <2>. QED  BY <1>1, <2>1
<1>8. CASE SaveProfile(d)
  <2>1. /\ sreq'[d].at = "done"
        /\ Stores(d) \/ (config' = config /\ sreq'[d].answer = "failed")
    BY <1>8 DEF SaveProfile, Save, Stores
  <2>. QED  BY <2>1 DEF LastingAnswers
<1>9. CASE DeleteProfile(d)
  <2>1. sreq[d].at = "remove" /\ \E answer : sreq' = [sreq EXCEPT ![d].at = "done", ![d].answer = answer]
    BY <1>9 DEF DeleteProfile
  <2>2. sreq'[d].at = "done" /\ Deletes(d)
    BY <1>9, <2>1 DEF DeleteProfile, Save, Deletes
  <2>. QED  BY <2>2
<1>. QED  BY <1>2, <1>3, <1>4, <1>5, <1>6, <1>7, <1>8, <1>9 DEF ClerkStep

LEMMA SwitcherSaves ==
  ASSUME FilesGood, NEW s \in Switchers, SwitcherStep(s)
  PROVE  /\ nreq'[s].at \in SwitchSteps => nreq'[s].copy = config
         /\ \/ config' = config
            \/ nreq[s].at \in SwitchSteps /\ config'.profiles = nreq[s].copy.profiles
<1>. USE DEF FilesGood, SwitchersGood, SwitchSteps, Advance
<1>1. CASE Request(s) \/ LoadConfiguration(s) \/ SendReconfigure(s) \/ ReloadTemplate(s) \/ ManageService(s)
  BY <1>1 DEF Request, LoadConfiguration, SendReconfigure, ReloadTemplate, ManageService, configVars
<1>2. CASE SetNetworkFlag(s) \/ SetNetwork(s)
  <2>1. nreq[s].copy \in ConfigFile
    BY <1>2 DEF SetNetworkFlag, SetNetwork, Good
  <2>2. /\ nreq[s].at \in SwitchSteps /\ nreq'[s].at \notin SwitchSteps
        /\ \E flags : config' = [nreq[s].copy EXCEPT !.flags = flags]
    BY <1>2 DEF SetNetworkFlag, SetNetwork, Save
  <2>. QED  BY <2>1, <2>2 DEF ConfigFile
<1>. QED  BY <1>1, <1>2 DEF SwitcherStep

LEMMA KeyMakerSaves ==
  ASSUME FilesGood, AnswersTyped, NEW k \in KeyMakers, KeyMakerStep(k)
  PROVE  /\ kreq'[k].at = "choose" => kreq'[k].copy.profiles = config.profiles
         /\ config' = config \/ (kreq[k].at = "choose" /\ config' = kreq[k].copy)
         /\ kreq'[k].told = "saved" => kreq'[k].at = "done"
         /\ kreq[k].at = "choose" => kreq'[k].told = "saved"
<1>. USE DEF FilesGood, KeyMakersGood, configVars
<1>1. kreq[k].told # "saved"
  <2>1. kreq[k].at # "done"
    BY KeyMakerMoves
  <2>. QED  BY <2>1 DEF AnswersTyped
<1>2. CASE Call(k)
  <2>1. config' = config /\ kreq[k].at = "idle" /\ kreq'[k].told = kreq[k].told
    BY <1>2 DEF Call
  <2>2. kreq'[k].at = "choose" => \E s \in Schemes : kreq'[k].copy = [config EXCEPT !.scheme = s]
    BY <1>2 DEF Call
  <2>. QED  BY <1>1, <2>1, <2>2 DEF Good, ConfigFile
<1>3. CASE ChooseScheme(k)
  BY <1>3 DEF ChooseScheme, Save
<1>4. CASE ~Call(k) /\ ~ChooseScheme(k)
  BY <1>1, <1>4
  DEF KeyMakerStep, Allocate, MakePrivate, MakePublic, MakeHex, NoKey, ReadUdm, TruncateUdm, DumpUdm, Fail
<1>. QED  BY <1>2, <1>3, <1>4

\* Who saves copies of config.xml does so for good.
LEMMA RewritersStay ==
  ASSUME FilesGood, AnswersTyped, Act
  PROVE  Rewriters \subseteq Rewriters'
<1>. USE DEF Rewriters, StoreUsed, SwitchUsed, KeysUsed
<1>1. CASE StoreNext /\ UNCHANGED <<switchVars, keyVars>>
  <2>1. CASE LateScript
    BY <1>1, <2>1 DEF LateScript, switchVars, keyVars
  <2>2. CASE \E c \in Clerks : ClerkStep(c)
    BY <1>1, <2>2, ClerkMoves DEF FilesGood, switchVars, keyVars
  <2>. QED  BY <1>1, <2>1, <2>2 DEF StoreNext
<1>2. CASE SwitchNext /\ UNCHANGED <<storeVars, keyVars>>
  BY <1>2, SwitcherMoves DEF FilesGood, SwitchNext, storeVars, keyVars
<1>3. CASE KeysNext /\ UNCHANGED <<storeVars, switchVars>>
  <2>1. PICK k \in KeyMakers : KeyMakerStep(k)
    BY <1>3 DEF KeysNext
  <2>2. \A m \in KeyMakers \ {k} : kreq'[m] = kreq[m]
    BY <2>1, KeyMakerMoves DEF FilesGood
  <2>3. kreq'[k].at # "idle" /\ (kreq[k].at = "choose" => kreq'[k].told = "saved")
        /\ kreq[k].told # "saved"
    BY <2>1, KeyMakerMoves, KeyMakerSaves DEF FilesGood, AnswersTyped
  <2>4. UNCHANGED <<sreq, nreq>>
    BY <1>3 DEF storeVars, switchVars
  <2>. QED  BY <2>2, <2>3, <2>4
<1>. QED  BY <1>1, <1>2, <1>3 DEF Act

-----------------------------------------------------------------------------
(* One step.  Of requests that have answered, nothing changes, and what is *)
(* known of them and of the others now was known before.                   *)

LEMMA UndisturbedBefore ==
  ASSUME FilesGood, Act, shared \subseteq shared', Rewriters \subseteq Rewriters',
         NEW c \in Clerks, sreq[c].at = "done", Undisturbed(c)'
  PROVE  /\ sreq'[c] = sreq[c] /\ Undisturbed(c)
         /\ \A d \in Clerks : d # c /\ sreq'[d].at # "idle" /\ sreq'[d].job.op \in ProfileOps =>
              sreq'[d].job.uuid # sreq[c].job.uuid
<1>1. /\ sreq'[c] = sreq[c]
      /\ \A d \in Clerks : sreq[d].at # "idle" => sreq'[d].at # "idle" /\ sreq'[d].job = sreq[d].job
  <2>1. CASE UNCHANGED sreq
    BY <2>1
  <2>2. CASE \E d \in Clerks : ClerkStep(d)
    BY <2>2, ClerkMoves DEF FilesGood
  <2>. QED  BY <2>1, <2>2 DEF Act, StoreNext, LateScript, storeVars
<1>2. OnlyOneAbout(sreq[c].job.uuid, c)' /\ (c \in shared' => Rewriters' \cap shared' \subseteq {c})
      /\ sreq[c].job.op \in ProfileOps /\ sreq[c].answer \in LastingAnswers
  BY <1>1 DEF Undisturbed
<1>3. \A d \in StoreUsed' \ {c} : sreq'[d].job.op \in ProfileOps => sreq'[d].job.uuid # sreq[c].job.uuid
  BY <1>1, <1>2 DEF OnlyOneAbout
<1>4. OnlyOneAbout(sreq[c].job.uuid, c)
  BY <1>1, <1>3 DEF OnlyOneAbout, StoreUsed
<1>. QED  BY <1>1, <1>2, <1>3, <1>4 DEF Undisturbed, StoreUsed

\* What a clerk saves leaves the profile as it was in the clerk's copy.
LEMMA OthersSaveIt ==
  ASSUME FilesGood, AnswersTyped, NEW c \in Clerks, sreq[c].at # "idle", sreq[c].job.op \in ProfileOps,
         Carried(c), NEW d \in Clerks, ClerkStep(d), sreq'[c] = sreq[c],
         sreq[d].job.op \in ProfileOps => sreq[d].job.uuid # sreq[c].job.uuid
  PROVE  Has(config, c)'
<1>1. sreq[c].job.uuid \in Uuids
  BY JobsAssumption DEF FilesGood, ClerksGood, ProfileOps
<1>2. CASE config' = config
  BY <1>2 DEF Carried, Has
<1>3. CASE Stores(d)
  <2>1. /\ sreq[d].copy.profiles \in [Uuids -> Profile \union {None}]
        /\ DOMAIN sreq[d].copy = {"flags", "profiles", "scheme"}
        /\ sreq[d].job.op \in {"addProfile", "setProfile", "addBulk"}
    BY <1>3 DEF FilesGood, ClerksGood, Good, ConfigFile, Stores
  <2>2. Has(sreq[d].copy, c)
    BY <1>3 DEF Carried, Stores, ClerksSteps
  <2>3. config'.profiles[sreq[c].job.uuid] = sreq[d].copy.profiles[sreq[c].job.uuid]
    <3>1. CASE sreq[d].job.op = "addBulk"
      BY <1>3, <3>1 DEF Stores
    <3>2. CASE sreq[d].job.op # "addBulk"
      BY <1>1, <1>3, <2>1, <3>2 DEF Stores, ProfileOps
    <3>. QED  BY <3>1, <3>2
  <2>. QED  BY <2>2, <2>3 DEF Has
<1>4. CASE Deletes(d)
  <2>1. /\ config.profiles \in [Uuids -> Profile \union {None}]
        /\ DOMAIN config = {"flags", "profiles", "scheme"}
    BY DEF FilesGood, Good, ConfigFile
  <2>2. sreq[d].job.uuid # sreq[c].job.uuid
    BY <1>4 DEF Deletes, AnswersTyped, ProfileOps
  <2>3. config'.profiles[sreq[c].job.uuid] = config.profiles[sreq[c].job.uuid]
    BY <1>1, <1>4, <2>1, <2>2 DEF Deletes
  <2>. QED  BY <2>3 DEF Carried, Has
<1>. QED  BY <1>2, <1>3, <1>4, ClerkSaves

\* A request that answers has saved what it was asked for, and nobody holds a copy
\* without it, or the two overlap.
LEMMA AnswersCarry ==
  ASSUME FilesGood, AnswersTyped, Sharing, shared \subseteq shared', Rewriters \subseteq Rewriters',
         NEW c \in Clerks, ClerkStep(c), UNCHANGED <<switchVars, keyVars>>, Undisturbed(c)'
  PROVE  Carried(c)'
<1>1. /\ \A d \in Clerks \ {c} : sreq'[d] = sreq[d]
      /\ sreq'[c].at = "done" /\ (Stores(c) \/ Deletes(c))
  BY ClerkMoves, ClerkSaves DEF FilesGood, Undisturbed
<1>2. /\ sreq'[c].job = sreq[c].job /\ c \in StoreBusy /\ sreq[c].job.op \in ProfileOps
      /\ sreq[c].job \in Jobs
  <2>1. sreq[c].at \in {"save", "remove"}
    BY <1>1 DEF Stores, Deletes
  <2>2. sreq'[c].job = sreq[c].job
    BY <2>1, ClerkMoves DEF FilesGood
  <2>. QED  BY <2>1, <2>2 DEF Undisturbed, StoreBusy, FilesGood, ClerksGood
<1>3. Has(config, c)'
  <2>1. sreq[c].job.uuid \in Uuids
    BY <1>2, JobsAssumption DEF ProfileOps
  <2>2. CASE Stores(c)
    <3>1. /\ sreq[c].copy.profiles \in [Uuids -> Profile \union {None}]
          /\ DOMAIN sreq[c].copy = {"flags", "profiles", "scheme"}
          /\ sreq[c].job.op \in {"addProfile", "setProfile"}
      BY <1>2, <2>2 DEF FilesGood, ClerksGood, Good, ConfigFile, Stores, ProfileOps
    <3>2. config'.profiles[sreq[c].job.uuid] = sreq[c].job.profile
      BY <2>1, <2>2, <3>1 DEF Stores
    <3>. QED  BY <1>2, <3>1, <3>2 DEF Has
  <2>3. CASE Deletes(c)
    <3>1. /\ config.profiles \in [Uuids -> Profile \union {None}]
          /\ DOMAIN config = {"flags", "profiles", "scheme"}
          /\ sreq[c].job.op = "deleteProfile"
      BY <2>3 DEF FilesGood, Good, ConfigFile, Deletes, AnswersTyped
    <3>2. config'.profiles[sreq[c].job.uuid] = None
      BY <2>1, <2>3, <3>1 DEF Deletes
    <3>. QED  BY <1>2, <3>1, <3>2 DEF Has
  <2>. QED  BY <1>1, <2>2, <2>3
<1>4. ASSUME NEW r \in Busy, r # c PROVE r \notin Rewriters
  <2>1. {c, r} \subseteq shared'
    BY <1>2, <1>4 DEF Sharing, Busy
  <2>2. Rewriters' \cap shared' \subseteq {c}
    BY <2>1 DEF Undisturbed
  <2>. QED  BY <1>4, <2>1, <2>2
<1>5. ASSUME NEW d \in Clerks PROVE sreq'[d].at \notin ClerksSteps
  <2>1. CASE d = c
    BY <1>1, <2>1 DEF ClerksSteps
  <2>2. CASE d # c
    <3>1. sreq[d].at \in ClerksSteps => d \in Busy /\ d \in Rewriters
      BY DEF ClerksSteps, Busy, StoreBusy, StoreUsed, Rewriters, FilesGood, ClerksGood
    <3>. QED  BY <1>1, <1>4, <2>2, <3>1
  <2>. QED  BY <2>1, <2>2
<1>6. ASSUME NEW s \in Switchers PROVE nreq'[s].at \notin SwitchSteps
  <2>1. nreq[s].at \in SwitchSteps => s \in Busy /\ s \in Rewriters /\ s # c
    BY KindsDiffer DEF SwitchSteps, Busy, SwitchBusy, SwitchUsed, Rewriters, FilesGood, SwitchersGood
  <2>. QED  BY <1>4, <2>1 DEF switchVars
<1>7. ASSUME NEW k \in KeyMakers PROVE kreq'[k].at # "choose"
  <2>1. kreq[k].at = "choose" => k \in Busy /\ k \in Rewriters /\ k # c
    BY KindsDiffer DEF Busy, KeysBusy, KeysUsed, Rewriters
  <2>. QED  BY <1>4, <2>1 DEF keyVars
<1>. QED  BY <1>3, <1>5, <1>6, <1>7 DEF Carried

LEMMA ClerkKeepsSaves ==
  ASSUME FilesGood, AnswersTyped, Sharing, Act, shared \subseteq shared', Rewriters \subseteq Rewriters',
         SavesCarried, NEW d \in Clerks, ClerkStep(d), UNCHANGED <<switchVars, keyVars>>
  PROVE  AnswersTyped' /\ SavesCarried'
<1>1. \A c \in Clerks \ {d} : sreq'[c] = sreq[c]
  BY ClerkMoves DEF FilesGood
<1>2. AnswersTyped'
  BY <1>1, ClerkSaves DEF AnswersTyped, keyVars
<1>3. ASSUME NEW c \in StoreUsed', Undisturbed(c)' PROVE Carried(c)'
  <2>1. c \in Clerks /\ sreq'[c].at = "done"
    BY <1>2, <1>3 DEF StoreUsed, AnswersTyped, Undisturbed
  <2>2. CASE c = d
    BY <1>3, <2>2, AnswersCarry
  <2>3. CASE c # d
    <3>1. sreq[c].at = "done"
      BY <1>1, <2>1, <2>3
    <3>2. /\ sreq'[c] = sreq[c] /\ Undisturbed(c)
          /\ sreq'[d].at # "idle" /\ sreq'[d].job.op \in ProfileOps =>
               sreq'[d].job.uuid # sreq[c].job.uuid
      BY <1>3, <2>1, <2>3, <3>1, UndisturbedBefore
    <3>3. Carried(c) /\ sreq[c].job.op \in ProfileOps
      BY <2>1, <3>1, <3>2 DEF SavesCarried, StoreUsed, Undisturbed
    <3>4. Has(config, c)'
      <4>1. CASE sreq[d].at = "idle"
        <5>1. config' = config
          BY <4>1, ClerkSaves DEF Stores, Deletes
        <5>. QED  BY <3>2, <3>3, <5>1 DEF Has, Carried
      <4>2. CASE sreq[d].at # "idle"
        <5>1. sreq'[d].at # "idle" /\ sreq'[d].job = sreq[d].job
          BY <4>2, ClerkMoves DEF FilesGood
        <5>. QED  BY <2>1, <3>1, <3>2, <3>3, <5>1, OthersSaveIt
      <4>. QED  BY <4>1, <4>2
    <3>5. ASSUME NEW e \in Clerks, sreq'[e].at \in ClerksSteps PROVE Has(sreq[e].copy, c)'
      <4>1. CASE e = d
        <5>1. \/ sreq'[d].copy = config
              \/ sreq[d].at \in ClerksSteps /\ sreq'[d].copy = sreq[d].copy
          BY <3>5, <4>1, ClerkSaves
        <5>. QED  BY <3>2, <3>3, <4>1, <5>1 DEF Carried, Has
      <4>2. CASE e # d
        BY <1>1, <3>2, <3>3, <3>5, <4>2 DEF Carried, Has
      <4>. QED  BY <4>1, <4>2
    <3>6. /\ \A s \in Switchers : nreq'[s].at \in SwitchSteps => Has(nreq[s].copy, c)'
          /\ \A k \in KeyMakers : kreq'[k].at = "choose" => Has(kreq[k].copy, c)'
      BY <3>2, <3>3 DEF Carried, Has, switchVars, keyVars
    <3>. QED  BY <3>4, <3>5, <3>6 DEF Carried
  <2>. QED  BY <2>2, <2>3
<1>. QED  BY <1>2, <1>3 DEF SavesCarried

LEMMA OthersKeepSaves ==
  ASSUME FilesGood, AnswersTyped, Act, shared \subseteq shared', Rewriters \subseteq Rewriters',
         SavesCarried, UNCHANGED sreq,
         \/ UNCHANGED <<config, switchVars, keyVars>>
         \/ SwitchNext /\ UNCHANGED keyVars
         \/ KeysNext /\ UNCHANGED switchVars
  PROVE  AnswersTyped' /\ SavesCarried'
<1>1. AnswersTyped'
  <2>1. CASE UNCHANGED keyVars
    BY <2>1 DEF AnswersTyped, keyVars
  <2>2. CASE KeysNext
    <3>1. PICK k \in KeyMakers : KeyMakerStep(k)
      BY <2>2 DEF KeysNext
    <3>. QED  BY <3>1, KeyMakerMoves, KeyMakerSaves DEF AnswersTyped, FilesGood
  <2>. QED  BY <2>1, <2>2
<1>2. ASSUME NEW c \in StoreUsed', Undisturbed(c)' PROVE Carried(c)'
  <2>1. c \in Clerks /\ sreq[c].at = "done" /\ sreq'[c] = sreq[c] /\ c \in StoreUsed
    BY <1>2 DEF StoreUsed, AnswersTyped, Undisturbed
  <2>2. Carried(c)
    BY <1>2, <2>1, UndisturbedBefore DEF SavesCarried
  <2>3. \A d \in Clerks : sreq'[d].at \in ClerksSteps => Has(sreq[d].copy, c)'
    BY <2>1, <2>2 DEF Carried, Has
  <2>4. CASE UNCHANGED <<config, switchVars, keyVars>>
    BY <2>1, <2>2, <2>3, <2>4 DEF Carried, Has, switchVars, keyVars
  <2>5. CASE SwitchNext /\ UNCHANGED keyVars
    <3>1. PICK s \in Switchers : SwitcherStep(s)
      BY <2>5 DEF SwitchNext
    <3>2. \A t \in Switchers \ {s} : nreq'[t] = nreq[t]
      BY <3>1, SwitcherMoves DEF FilesGood
    <3>3. /\ nreq'[s].at \in SwitchSteps => nreq'[s].copy = config
          /\ config' = config \/ (nreq[s].at \in SwitchSteps /\ config'.profiles = nreq[s].copy.profiles)
      BY <3>1, SwitcherSaves
    <3>4. Has(config, c)'
      BY <2>1, <2>2, <3>3 DEF Carried, Has
    <3>5. ASSUME NEW t \in Switchers, nreq'[t].at \in SwitchSteps PROVE Has(nreq[t].copy, c)'
      BY <2>1, <2>2, <3>2, <3>3, <3>5 DEF Carried, Has
    <3>6. \A k \in KeyMakers : kreq'[k].at = "choose" => Has(kreq[k].copy, c)'
      BY <2>1, <2>2, <2>5 DEF Carried, Has, keyVars
    <3>. QED  BY <2>3, <3>4, <3>5, <3>6 DEF Carried
  <2>6. CASE KeysNext /\ UNCHANGED switchVars
    <3>1. PICK k \in KeyMakers : KeyMakerStep(k)
      BY <2>6 DEF KeysNext
    <3>2. \A m \in KeyMakers \ {k} : kreq'[m] = kreq[m]
      BY <3>1, KeyMakerMoves DEF FilesGood
    <3>3. /\ kreq'[k].at = "choose" => kreq'[k].copy.profiles = config.profiles
          /\ config' = config \/ (kreq[k].at = "choose" /\ config' = kreq[k].copy)
      BY <3>1, KeyMakerSaves
    <3>4. Has(config, c)'
      BY <2>1, <2>2, <3>3 DEF Carried, Has
    <3>5. ASSUME NEW m \in KeyMakers, kreq'[m].at = "choose" PROVE Has(kreq[m].copy, c)'
      BY <2>1, <2>2, <3>2, <3>3, <3>5 DEF Carried, Has
    <3>6. \A s \in Switchers : nreq'[s].at \in SwitchSteps => Has(nreq[s].copy, c)'
      BY <2>1, <2>2, <2>6 DEF Carried, Has, switchVars
    <3>. QED  BY <2>3, <3>4, <3>5, <3>6 DEF Carried
  <2>. QED  BY <2>4, <2>5, <2>6
<1>. QED  BY <1>1, <1>2 DEF SavesCarried

LEMMA SavesInvariant == Spec => [](AnswersTyped /\ SavesCarried)
<1>1. Init => AnswersTyped /\ SavesCarried
  <2>. SUFFICES ASSUME Init PROVE AnswersTyped /\ SavesCarried
    OBVIOUS
  <2>1. /\ \A c \in Clerks : sreq[c].at = "idle" /\ sreq[c].answer = None
        /\ \A k \in KeyMakers : kreq[k].told = None
    BY DEF Init, StoreInit, IdleClerk, KeysInit, IdleKeyMaker
  <2>. QED  BY <2>1, ConfigAssumption DEF AnswersTyped, SavesCarried, StoreUsed, LastingAnswers
<1>2. FilesGood /\ Sharing /\ AnswersTyped /\ SavesCarried /\ [Next]_vars =>
        (AnswersTyped /\ SavesCarried)'
  <2>. SUFFICES ASSUME FilesGood, Sharing, AnswersTyped, SavesCarried, [Next]_vars
       PROVE  (AnswersTyped /\ SavesCarried)'
    OBVIOUS
  <2>1. CASE UNCHANGED vars
    BY <2>1 DEF vars, AnswersTyped, SavesCarried, Undisturbed, OnlyOneAbout, Carried, Has, Rewriters,
                StoreUsed, SwitchUsed, KeysUsed
  <2>2. CASE Act /\ shared \subseteq shared'
    <3>1. Rewriters \subseteq Rewriters'
      BY <2>2, RewritersStay
    <3>2. CASE StoreNext /\ UNCHANGED <<switchVars, keyVars>>
      <4>1. CASE LateScript
        <5>1. UNCHANGED <<config, sreq>>
          BY <4>1 DEF LateScript, configVars
        <5>. QED  BY <2>2, <3>1, <3>2, <5>1, OthersKeepSaves
      <4>. QED  BY <2>2, <3>1, <3>2, <4>1, ClerkKeepsSaves DEF StoreNext
    <3>3. CASE SwitchNext /\ UNCHANGED <<storeVars, keyVars>>
      <4>1. UNCHANGED sreq
        BY <3>3 DEF storeVars
      <4>. QED  BY <2>2, <3>1, <3>3, <4>1, OthersKeepSaves
    <3>4. CASE KeysNext /\ UNCHANGED <<storeVars, switchVars>>
      <4>1. UNCHANGED sreq
        BY <3>4 DEF storeVars
      <4>. QED  BY <2>2, <3>1, <3>4, <4>1, OthersKeepSaves
    <3>. QED  BY <2>2, <3>2, <3>3, <3>4 DEF Act
  <2>. QED  BY <2>1, <2>2 DEF Next
<1>. QED  BY <1>1, <1>2, FilesAlwaysGood, SharingInvariant, PTL DEF Spec

\* Config.php:735.  A profile that one request alone asked for is as that request left
\* it, unless a request that overlapped it saved an older copy of config.xml: whatever
\* other requests are made and however their loads and saves interleave.
THEOREM ProfileSavesAlwaysLast == Spec => []ProfileSavesLast
<1>1. SavesCarried => ProfileSavesLast
  BY DEF SavesCarried, Carried, Has, Undisturbed, LastingAnswers, ProfileSavesLast
<1>. QED  BY <1>1, SavesInvariant, PTL
=============================================================================
