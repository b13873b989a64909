--------------------------- MODULE PluginKeys_proofs ---------------------------
(***************************************************************************)
(* Proofs about the home-network keys, for any number of key generations   *)
(* among any other requests: no entry of udm.yaml is without its key, and  *)
(* generations that kept apart lose nothing.                               *)
(***************************************************************************)
EXTENDS Plugin_proofs, FiniteSetTheorems, WellFoundedInduction

KeyEntry == [id : 1..MaxId, scheme : Schemes]
UdmFile  == [whole : BOOLEAN, hnet : Seq(KeyEntry)]
KeyFiles == Schemes \X (1..MaxId)

\* Key makers that have been given an identifier and are not done.
Making == {"private", "public", "hex", "append", "truncate", "dump"}

\* Every key maker that has no identifier yet can still be given one.
Unnumbered == {k \in KeyMakers : kreq[k].id = 0}
Room(free, n)     == n + Cardinality(free) <= MaxId
FileFits(free, u) == \A i \in DOMAIN u.hnet : Room(free, u.hnet[i].id)

KeyMakerTyped(k) ==
  /\ kreq[k].at \in {"idle", "choose", "allocate", "done"} \union Making
  /\ kreq[k].id \in 0..MaxId /\ Room(Unnumbered, kreq[k].id)
  /\ kreq[k].at \in Making => kreq[k].id # 0
  /\ kreq[k].at \in {"idle", "choose", "allocate"} => kreq[k].id = 0
  /\ kreq[k].pem \in KeyMakers \union {None, Shipped}
  /\ kreq[k].hex \in [key : KeyMakers \union {Shipped}, whole : BOOLEAN] \union {None}
  /\ kreq[k].at \in {"truncate", "dump"} => kreq[k].read \in UdmFile /\ FileFits(Unnumbered, kreq[k].read)
  /\ kreq[k].told = "ok" => kreq[k].at = "done" /\ kreq[k].id # 0

KeysTyped ==
  /\ udm \in UdmFile /\ FileFits(Unnumbered, udm)
  /\ private \in [KeyFiles -> KeyMakers \union {None, Shipped}]
  /\ DOMAIN public = 1..MaxId
  /\ \A k \in KeyMakers : KeyMakerTyped(k)

-----------------------------------------------------------------------------
(* Two requests that are under way at the same time are both in `shared'.  *)

Sharing ==
  /\ shared \subseteq Used
  /\ \A r, q \in Busy : r # q => r \in shared

\* udm.yaml as it is, or as it was before k emptied it.
Table(k) == IF kreq[k].at = "dump" THEN kreq[k].read ELSE udm

\* A key maker that nobody disturbs makes a key whose identifier is not in use.
NumberIsNew ==
  \A k \in KeyMakers : kreq[k].at \in Making /\ k \notin shared =>
    /\ \A i \in DOMAIN Table(k).hnet : Table(k).hnet[i].id < kreq[k].id
    /\ kreq[k].at = "truncate" => kreq[k].read = udm

HasKeys(files, u) == \A i \in DOMAIN u.hnet : files[<<u.hnet[i].scheme, u.hnet[i].id>>] # None

KeysKept ==
  faulty \cap shared = {} =>
    /\ HasKeys(private, udm)
    /\ \A k \in KeyMakers :
         /\ kreq[k].at \in {"truncate", "dump"} => HasKeys(private, kreq[k].read)
         /\ kreq[k].at \in Making \ {"private"} => private[File(k)] # None

\* What key generations that kept apart leave behind, if u is udm.yaml.
Kept(u) ==
  /\ \A i, j \in DOMAIN u.hnet : u.hnet[i].id = u.hnet[j].id => i = j
  /\ \A i \in DOMAIN InitialHnet :
       /\ i \in DOMAIN u.hnet /\ u.hnet[i] = InitialHnet[i]
       /\ private[<<InitialHnet[i].scheme, InitialHnet[i].id>>] = Shipped
  /\ \A k \in KeyMakers : kreq[k].told = "ok" =>
       /\ private[File(k)] = k /\ public[kreq[k].id] = k
       /\ \E i \in DOMAIN u.hnet : <<u.hnet[i].scheme, u.hnet[i].id>> = File(k)

\* How far k has come with a key of its own.
Progress(k) ==
  /\ kreq[k].at \in Making \ {"private"} => private[File(k)] = k
  /\ kreq[k].at \in Making \ {"private", "public"} => public[kreq[k].id] = k
  /\ kreq[k].at = "dump" => ~udm.whole

\* Until a generation fails that has emptied udm.yaml, nothing is lost of it.
SerialKept ==
  KeyMakers \cap shared = {} =>
    /\ KeysBusy = {} /\ udm.whole => Kept(udm)
    /\ KeysBusy = {} /\ KeyMakers \cap faulty = {} => udm.whole
    /\ \A k \in KeysBusy :
         /\ Progress(k)
         /\ Table(k).whole => Kept(Table(k))
         /\ KeyMakers \cap faulty = {} => Table(k).whole

KeysInv == KeysTyped /\ Sharing /\ NumberIsNew /\ KeysKept /\ SerialKept

-----------------------------------------------------------------------------
(* Who moves: a step of a request leaves the others of its kind alone.     *)

LEMMA ClerkMoves ==
  ASSUME ClerksGood, NEW c \in Clerks, ClerkStep(c)
  PROVE  /\ \A d \in Clerks \ {c} : sreq'[d] = sreq[d]
         /\ sreq[c].at # "done" /\ sreq'[c].at # "idle"
         /\ sreq[c].at = "idle" => sreq'[c].at # "done"
         /\ sreq[c].at # "idle" => sreq'[c].job = sreq[c].job
<1>. USE DEF ClerksGood, Go, Reply
<1>1. CASE Ask(c)
  <2>1. PICK job \in Jobs :
          sreq' = [sreq EXCEPT ![c].job = job, ![c].at = FirstStep(job.op), ![c].copy = config,
                               ![c].left = IF job.op = "bulk" THEN job.rows ELSE <<>>]
    BY <1>1 DEF Ask
  <2>2. FirstStep(job.op) # "idle" /\ FirstStep(job.op) # "done"
    BY JobsAssumption DEF FirstStep
  <2>3. sreq[c].at = "idle"
    BY <1>1 DEF Ask
  <2>4. sreq'[c].at = FirstStep(job.op) /\ \A d \in Clerks \ {c} : sreq'[d] = sreq[d]
    BY <2>1
  <2>. QED  BY <2>2, <2>3, <2>4
<1>2. CASE SaveUser(c)
  <2>1. \E result : Saved(c, result)
    BY <1>2 DEF SaveUser
  <2>2. CASE sreq[c].job.op = "bulk"
    BY <1>2, <2>1, <2>2 DEF SaveUser, Saved
  <2>3. CASE sreq[c].job.op # "bulk"
    BY <1>2, <2>1, <2>3 DEF SaveUser, Saved
  <2>. QED  BY <2>2, <2>3
<1>3. CASE FetchUser(c)
  BY <1>3 DEF FetchUser
<1>4. CASE DeleteUser(c)
  BY <1>4 DEF DeleteUser
<1>5. CASE LockConfig(c)
  <2>1. \/ sreq' = [sreq EXCEPT ![c].at = "insert", ![c].copy = config]
        \/ sreq' = [sreq EXCEPT ![c].at = "done", ![c].answer = "failed"]
    BY <1>5 DEF LockConfig
  <2>2. sreq[c].at = "lock"
    BY <1>5 DEF LockConfig
  <2>. QED  BY <2>1, <2>2
<1>6. CASE ListUsers(c)
  BY <1>6 DEF ListUsers
<1>7. CASE UpdateUsers(c)
  BY <1>7 DEF UpdateUsers
<1>8. CASE SaveProfile(c)
  <2>1. sreq[c].at = "save" /\ \E answer : sreq' = [sreq EXCEPT ![c].at = "done", ![c].answer = answer]
    BY <1>8 DEF SaveProfile
  <2>. QED  BY <2>1
<1>9. CASE DeleteProfile(c)
  <2>1. sreq[c].at = "remove" /\ \E answer : sreq' = [sreq EXCEPT ![c].at = "done", ![c].answer = answer]
    BY <1>9 DEF DeleteProfile
  <2>. QED  BY <2>1
<1>. QED  BY <1>1, <1>2, <1>3, <1>4, <1>5, <1>6, <1>7, <1>8, <1>9 DEF ClerkStep

LEMMA SwitcherMoves ==
  ASSUME SwitchersGood, NEW s \in Switchers, SwitcherStep(s)
  PROVE  /\ \A t \in Switchers \ {s} : nreq'[t] = nreq[t]
         /\ nreq[s].at # "done" /\ nreq'[s].at # "idle"
         /\ nreq[s].at = "idle" => nreq'[s].at # "done"
         /\ nreq[s].at # "idle" => nreq'[s].order = nreq[s].order
BY DEF SwitchersGood, SwitcherStep, Request, SetNetworkFlag, LoadConfiguration, SendReconfigure,
       SetNetwork, ReloadTemplate, ManageService, Advance

LEMMA KeyMakerMoves ==
  ASSUME KeyMakersGood, NEW k \in KeyMakers, KeyMakerStep(k)
  PROVE  /\ \A m \in KeyMakers \ {k} : kreq'[m] = kreq[m]
         /\ kreq[k].at # "done" /\ kreq'[k].at # "idle"
         /\ kreq[k].at = "idle" => kreq'[k].at # "done"
         /\ kreq[k].at # "idle" => kreq'[k].copy = kreq[k].copy
BY DEF KeyMakersGood, KeyMakerStep, Call, ChooseScheme, Allocate, MakePrivate, MakePublic, MakeHex,
       NoKey, ReadUdm, TruncateUdm, DumpUdm, Fail

\* A request that was made stays made, and one that begins is under way at once.
LEMMA RequestsStay ==
  ASSUME FilesGood, Act
  PROVE  Used \subseteq Used' /\ \A r \in Used' \ Used : r \in Busy'
<1>. USE DEF Used, Busy, StoreUsed, StoreBusy, SwitchUsed, SwitchBusy, KeysUsed, KeysBusy
<1>1. CASE StoreNext /\ UNCHANGED <<switchVars, keyVars>>
  <2>1. CASE LateScript
    BY <1>1, <2>1 DEF LateScript, switchVars, keyVars
  <2>2. CASE \E c \in Clerks : ClerkStep(c)
    BY <1>1, <2>2, ClerkMoves DEF FilesGood, switchVars, keyVars
  <2>. QED  BY <1>1, <2>1, <2>2 DEF StoreNext
<1>2. CASE SwitchNext /\ UNCHANGED <<storeVars, keyVars>>
  BY <1>2, SwitcherMoves DEF FilesGood, SwitchNext, storeVars, keyVars
<1>3. CASE KeysNext /\ UNCHANGED <<storeVars, switchVars>>
  BY <1>3, KeyMakerMoves DEF FilesGood, KeysNext, storeVars, switchVars
<1>. QED  BY <1>1, <1>2, <1>3 DEF Act

LEMMA SharingInvariant == Spec => []Sharing
<1>1. Init => Sharing
  <2>. SUFFICES ASSUME Init PROVE Sharing
    OBVIOUS
  <2>1. Busy = {} /\ shared = {}
    BY DEF Init, StoreInit, SwitchInit, KeysInit, IdleClerk, IdleSwitcher, IdleKeyMaker,
           Busy, StoreBusy, SwitchBusy, KeysBusy
  <2>. QED  BY <2>1 DEF Sharing
<1>2. FilesGood /\ Sharing /\ [Next]_vars => Sharing'
  <2>. SUFFICES ASSUME FilesGood, Sharing, [Next]_vars PROVE Sharing'
    OBVIOUS
  <2>1. CASE UNCHANGED vars
    BY <2>1 DEF vars, Sharing, Busy, StoreBusy, SwitchBusy, KeysBusy,
                Used, StoreUsed, SwitchUsed, KeysUsed
  <2>2. CASE /\ Act
             /\ shared' = IF Cardinality(Busy') > 1 THEN shared \union Busy' ELSE shared
    <3>1. Busy' \subseteq Used' /\ Busy' \subseteq Requests
      BY ClerksAssumption, SwitchersAssumption, KeyMakersAssumption
      DEF Busy, StoreBusy, SwitchBusy, KeysBusy, Used, StoreUsed, SwitchUsed, KeysUsed
    <3>2. ASSUME NEW r \in Busy', NEW q \in Busy', r # q
          PROVE  r \in shared'
      <4>1. IsFiniteSet(Busy') /\ Cardinality(Busy') \in Nat
        BY <3>1, ConfigAssumption, FS_Subset, FS_CardinalityType
      <4>2. {r, q} \subseteq Busy'
        BY <3>2
      <4>3. Cardinality({r, q}) = 2
        <5>1. IsFiniteSet({r}) /\ Cardinality({r}) = 1
          BY FS_Singleton
        <5>2. Cardinality({r} \union {q}) = 2
          BY <3>2, <5>1, FS_AddElement
        <5>3. {r} \union {q} = {r, q}
          OBVIOUS
        <5>. QED  BY <5>2, <5>3
      <4>4. Cardinality(Busy') > 1
        BY <4>1, <4>2, <4>3, FS_Subset
      <4>. QED  BY <2>2, <3>2, <4>4
    <3>3. Used \subseteq Used'
      BY <2>2, RequestsStay
    <3>. QED  BY <2>2, <3>1, <3>2, <3>3 DEF Sharing
  <2>. QED  BY <2>1, <2>2 DEF Next
<1>. QED  BY <1>1, <1>2, FilesAlwaysGood, PTL DEF Spec

-----------------------------------------------------------------------------
(* The identifier of a new key, and what becomes of udm.yaml.              *)

LEMMA LargestId ==
  ASSUME NEW S \in SUBSET (1..MaxId), S # {}
  PROVE  \E i \in S : \A n \in S : n <= i
<1>. DEFINE T == {MaxId - i : i \in S}
<1>1. T \in SUBSET Nat /\ T # {}
  <2>1. \A i \in S : MaxId - i \in Nat
    BY IdentifiersSuffice
  <2>. QED  BY <2>1, Zenon
<1>2. PICK n \in T : \A m \in T : ~(<<m, n>> \in OpToRel(<, Nat))
  <2>. HIDE DEF T
  <2>. QED  BY <1>1, NatLessThanWellFounded, WFMin
<1>3. \A m \in T : ~(m < n)
  BY <1>1, <1>2 DEF OpToRel
<1>4. PICK i \in S : n = MaxId - i
  OBVIOUS
<1>5. ASSUME NEW j \in S PROVE j <= i
  <2>1. MaxId - j \in T
    OBVIOUS
  <2>2. ~(MaxId - j < MaxId - i)
    BY <1>3, <1>4, <2>1
  <2>. QED  BY <2>2, IdentifiersSuffice
<1>. QED  BY <1>5

\* allocate_hnet_id() gives an identifier that no entry has.
LEMMA NextIdIsNew ==
  ASSUME NEW hnet \in Seq(KeyEntry)
  PROVE  /\ NextId(hnet) \in Nat \ {0}
         /\ \A i \in DOMAIN hnet : hnet[i].id < NextId(hnet)
         /\ hnet = <<>> \/ \E i \in DOMAIN hnet : NextId(hnet) = hnet[i].id + 1
<1>1. CASE hnet = <<>>
  BY <1>1 DEF NextId
<1>2. CASE hnet # <<>>
  <2>. DEFINE S == {hnet[n].id : n \in DOMAIN hnet}
              largest == CHOOSE i \in S : \A n \in DOMAIN hnet : hnet[n].id <= i
  <2>1. \A n \in DOMAIN hnet : hnet[n] \in KeyEntry
    OBVIOUS
  <2>2. S \in SUBSET (1..MaxId)
    BY <2>1 DEF KeyEntry
  <2>3. 1 \in DOMAIN hnet
    BY <1>2
  <2>4. \E i \in S : \A n \in DOMAIN hnet : hnet[n].id <= i
    <3>1. \A n \in DOMAIN hnet : hnet[n].id \in S
      OBVIOUS
    <3>. HIDE DEF S
    <3>. QED  BY <2>2, <2>3, <3>1, LargestId
  <2>5. largest \in S /\ \A n \in DOMAIN hnet : hnet[n].id <= largest
    BY <2>4
  <2>6. NextId(hnet) = largest + 1
    BY <1>2 DEF NextId
  <2>7. largest \in 1..MaxId
    BY <2>2, <2>5
  <2>8. \A n \in DOMAIN hnet : hnet[n].id \in 1..MaxId
    BY <2>2
  <2>9. \E i \in DOMAIN hnet : largest = hnet[i].id
    <3>1. \A v \in S : \E i \in DOMAIN hnet : v = hnet[i].id
      OBVIOUS
    <3>. HIDE DEF largest, S
    <3>. QED  BY <2>5, <3>1
  <2>. HIDE DEF largest, S
  <2>. QED  BY <2>5, <2>6, <2>7, <2>8, <2>9, IdentifiersSuffice
<1>. QED  BY <1>1, <1>2

LEMMA EntryAdded ==
  ASSUME NEW u \in UdmFile, NEW e \in KeyEntry
  PROVE  LET after == [u EXCEPT !.hnet = Append(@, e)]
         IN  /\ after \in UdmFile /\ after.whole = u.whole
             /\ DOMAIN after.hnet = 1..(Len(u.hnet) + 1) /\ Len(u.hnet) \in Nat
             /\ after.hnet[Len(u.hnet) + 1] = e
             /\ \A i \in 1..Len(u.hnet) : i \in DOMAIN u.hnet /\ after.hnet[i] = u.hnet[i]
BY DEF UdmFile

\* The key makers without an identifier can be counted.
LEMMA UnnumberedFinite ==
  ASSUME NEW free \in SUBSET KeyMakers
  PROVE  /\ IsFiniteSet(free) /\ Cardinality(free) \in Nat
         /\ Cardinality(free) <= MaxId
<1>1. IsFiniteSet(KeyMakers)
  BY ConfigAssumption, KeyMakersAssumption, FS_Subset
<1>2. IsFiniteSet(free) /\ Cardinality(free) <= Cardinality(KeyMakers)
  BY <1>1, FS_Subset
<1>. QED  BY <1>1, <1>2, FS_CardinalityType, IdentifiersSuffice

\* An identifier leaves the same room, or more, as identifiers are handed out ...
LEMMA RoomStays ==
  ASSUME NEW free \in SUBSET KeyMakers, NEW fewer \in SUBSET free, NEW n \in Nat, Room(free, n)
  PROVE  Room(fewer, n)
<1>1. Cardinality(fewer) <= Cardinality(free)
  BY UnnumberedFinite, FS_Subset
<1>2. Cardinality(fewer) \in Nat /\ Cardinality(free) \in Nat
  BY UnnumberedFinite
<1>. QED  BY <1>1, <1>2, IdentifiersSuffice DEF Room

LEMMA FileFitsStays ==
  ASSUME NEW free \in SUBSET KeyMakers, NEW fewer \in SUBSET free, NEW u \in UdmFile,
         FileFits(free, u)
  PROVE  FileFits(fewer, u)
<1>1. \A i \in DOMAIN u.hnet : u.hnet[i] \in KeyEntry
  BY DEF UdmFile
<1>2. \A i \in DOMAIN u.hnet : u.hnet[i].id \in Nat
  BY <1>1, IdentifiersSuffice DEF KeyEntry
<1>. QED  BY <1>2, RoomStays DEF FileFits

\* ... and the next one fits once the key maker that gets it is counted out.
LEMMA RoomNext ==
  ASSUME NEW free \in SUBSET KeyMakers, NEW k \in free, NEW u \in UdmFile, FileFits(free, u)
  PROVE  /\ NextId(u.hnet) \in 1..MaxId
         /\ Room(free \ {k}, NextId(u.hnet))
<1>1. /\ Cardinality(free) \in Nat /\ Cardinality(free) <= MaxId
      /\ Cardinality(free \ {k}) \in Nat
      /\ Cardinality(free \ {k}) = Cardinality(free) - 1
  <2>1. free \ {k} \in SUBSET KeyMakers
    OBVIOUS
  <2>2. /\ IsFiniteSet(free) /\ Cardinality(free) \in Nat /\ Cardinality(free) <= MaxId
        /\ Cardinality(free \ {k}) \in Nat
    BY <2>1, UnnumberedFinite
  <2>3. Cardinality(free \ {k}) = Cardinality(free) - 1
    BY <2>2, FS_RemoveElement
  <2>. QED  BY <2>2, <2>3
<1>2. u.hnet \in Seq(KeyEntry)
  BY DEF UdmFile
<1>3. NextId(u.hnet) \in Nat \ {0}
  BY <1>2, NextIdIsNew
<1>4. CASE u.hnet = <<>>
  <2>1. NextId(u.hnet) = 1
    BY <1>4 DEF NextId
  <2>. QED  BY <1>1, <2>1, IdentifiersSuffice DEF Room
<1>5. CASE u.hnet # <<>>
  <2>1. PICK i \in DOMAIN u.hnet : NextId(u.hnet) = u.hnet[i].id + 1
    BY <1>2, <1>5, NextIdIsNew
  <2>2. u.hnet[i].id + Cardinality(free) <= MaxId
    BY <2>1 DEF FileFits, Room
  <2>3. u.hnet[i].id \in Nat
    <3>1. u.hnet[i] \in KeyEntry
      BY <1>2, <2>1
    <3>. QED  BY <3>1, IdentifiersSuffice DEF KeyEntry
  <2>. QED  BY <1>1, <1>3, <2>1, <2>2, <2>3, IdentifiersSuffice DEF Room
<1>. QED  BY <1>4, <1>5

-----------------------------------------------------------------------------
(* Types of the key makers.                                                *)

LEMMA OthersStayTyped ==
  ASSUME KeysTyped, Unnumbered' \subseteq Unnumbered,
         NEW m \in KeyMakers, kreq'[m] = kreq[m]
  PROVE  KeyMakerTyped(m)'
<1>1. Unnumbered \subseteq KeyMakers
  BY DEF Unnumbered
<1>2. KeyMakerTyped(m) /\ kreq[m].id \in Nat
  BY IdentifiersSuffice DEF KeysTyped, KeyMakerTyped
<1>3. Room(Unnumbered', kreq[m].id)
  BY <1>1, <1>2, RoomStays DEF KeyMakerTyped
<1>4. kreq[m].at \in {"truncate", "dump"} => FileFits(Unnumbered', kreq[m].read)
  BY <1>1, <1>2, FileFitsStays DEF KeyMakerTyped
<1>. QED  BY <1>2, <1>3, <1>4 DEF KeyMakerTyped

LEMMA KeyMakerKeepsTypes ==
  ASSUME FilesGood, KeysTyped, NEW k \in KeyMakers, KeyMakerStep(k)
  PROVE  KeysTyped'
<1>. DEFINE free == Unnumbered
<1>1. /\ DOMAIN kreq = KeyMakers
      /\ DOMAIN kreq[k] = {"at", "copy", "id", "read", "pem", "hex", "told"}
      /\ kreq[k].at # "idle" => kreq[k].copy.scheme \in Schemes
      /\ KeyMakerTyped(k)
  BY DEF FilesGood, KeyMakersGood, KeysTyped, Good, ConfigFile
<1>2. \A m \in KeyMakers \ {k} : kreq'[m] = kreq[m]
  BY KeyMakerMoves DEF FilesGood
<1>3. ASSUME kreq'[k].id = kreq[k].id \/ (kreq[k].id = 0 /\ kreq'[k].id # 0),
             udm' \in UdmFile, FileFits(Unnumbered', udm'),
             private' \in [KeyFiles -> KeyMakers \union {None, Shipped}],
             DOMAIN public' = 1..MaxId,
             KeyMakerTyped(k)'
      PROVE  KeysTyped'
  <2>1. Unnumbered' \subseteq Unnumbered
    BY <1>2, <1>3 DEF Unnumbered
  <2>2. \A m \in KeyMakers : KeyMakerTyped(m)'
    BY <1>2, <1>3, <2>1, OthersStayTyped
  <2>. QED  BY <1>3, <2>2 DEF KeysTyped
<1>4. ASSUME kreq'[k].id = kreq[k].id PROVE Unnumbered' = Unnumbered
  BY <1>2, <1>4 DEF Unnumbered
<1>5. /\ udm \in UdmFile /\ FileFits(Unnumbered, udm) /\ DOMAIN public = 1..MaxId
      /\ private \in [KeyFiles -> KeyMakers \union {None, Shipped}]
  BY DEF KeysTyped
<1>6. kreq[k].at \in Making => File(k) \in KeyFiles /\ private[File(k)] \in KeyMakers \union {None, Shipped}
  BY <1>1, <1>5, IdentifiersSuffice DEF KeyMakerTyped, File, KeyFiles, Making
<1>7. CASE Call(k) \/ ChooseScheme(k) \/ NoKey(k)
  <2>1. kreq'[k].id = kreq[k].id /\ UNCHANGED <<udm, private, public>>
    BY <1>1, <1>7 DEF Call, ChooseScheme, NoKey
  <2>2. KeyMakerTyped(k)'
    BY <1>1, <1>4, <1>7, <2>1 DEF Call, ChooseScheme, NoKey, KeyMakerTyped, Making
  <2>. QED  BY <1>3, <1>4, <1>5, <2>1, <2>2
<1>8. CASE Allocate(k)
  <2>1. kreq' = [kreq EXCEPT ![k].id = NextId(udm.hnet), ![k].at = "private"]
        /\ kreq[k].id = 0 /\ k \in Unnumbered /\ UNCHANGED <<udm, private, public>>
    BY <1>1, <1>8 DEF Allocate, KeyMakerTyped, Unnumbered
  <2>2. Unnumbered \subseteq KeyMakers
    BY DEF Unnumbered
  <2>3. NextId(udm.hnet) \in 1..MaxId /\ Room(Unnumbered \ {k}, NextId(udm.hnet))
    BY <1>5, <2>1, <2>2, RoomNext
  <2>4. kreq'[k].id = NextId(udm.hnet) /\ kreq'[k].id # 0
    BY <1>1, <2>1, <2>3
  <2>5. Unnumbered' = Unnumbered \ {k}
    BY <1>2, <2>4 DEF Unnumbered
  <2>6. FileFits(Unnumbered', udm')
    BY <1>5, <2>1, <2>2, <2>5, FileFitsStays
  <2>7. KeyMakerTyped(k)'
    BY <1>1, <1>8, <2>1, <2>3, <2>4, <2>5, IdentifiersSuffice DEF KeyMakerTyped, Making, Allocate
  <2>. QED  BY <1>3, <1>5, <2>1, <2>4, <2>6, <2>7
<1>9. CASE MakePrivate(k) \/ MakePublic(k) \/ MakeHex(k)
  <2>1. kreq'[k].id = kreq[k].id /\ kreq[k].at \in Making /\ udm' = udm
    BY <1>1, <1>9 DEF MakePrivate, MakePublic, MakeHex, Making
  <2>2. KeyMakerTyped(k)'
    BY <1>1, <1>4, <1>6, <1>9, <2>1
    DEF MakePrivate, MakePublic, MakeHex, HexOf, KeyMakerTyped, Making
  <2>3. /\ private' \in [KeyFiles -> KeyMakers \union {None, Shipped}]
        /\ DOMAIN public' = 1..MaxId
    BY <1>5, <1>9 DEF MakePrivate, MakePublic, MakeHex
  <2>. QED  BY <1>3, <1>4, <1>5, <2>1, <2>2, <2>3
<1>10. CASE ReadUdm(k)
  <2>1. /\ kreq' = [kreq EXCEPT ![k].at = "truncate", ![k].read = udm]
        /\ kreq[k].at = "append" /\ UNCHANGED <<udm, private, public>>
    BY <1>10 DEF ReadUdm
  <2>2. kreq'[k].id = kreq[k].id
    BY <1>1, <2>1
  <2>3. KeyMakerTyped(k)'
    BY <1>1, <1>4, <1>5, <2>1, <2>2 DEF KeyMakerTyped, Making
  <2>. QED  BY <1>3, <1>4, <1>5, <2>1, <2>2, <2>3
<1>11. CASE TruncateUdm(k)
  <2>1. kreq'[k].id = kreq[k].id /\ udm' = Truncated /\ UNCHANGED <<private, public>>
    BY <1>1, <1>11 DEF TruncateUdm
  <2>2. Truncated \in UdmFile /\ FileFits(Unnumbered', Truncated)
    BY DEF Truncated, UdmFile, FileFits
  <2>3. KeyMakerTyped(k)'
    BY <1>1, <1>4, <1>11, <2>1 DEF TruncateUdm, KeyMakerTyped, Making
  <2>. QED  BY <1>3, <1>5, <2>1, <2>2, <2>3
<1>12. CASE DumpUdm(k)
  <2>. DEFINE entry == [id |-> kreq[k].id, scheme |-> kreq[k].copy.scheme]
              table == kreq[k].read
  <2>1. /\ udm' = [table EXCEPT !.hnet = Append(@, entry)]
        /\ kreq[k].at = "dump" /\ kreq'[k].id = kreq[k].id /\ UNCHANGED <<private, public>>
    BY <1>1, <1>12 DEF DumpUdm
  <2>2. /\ entry \in KeyEntry /\ Room(Unnumbered, kreq[k].id)
        /\ table \in UdmFile /\ FileFits(Unnumbered, table)
    BY <1>1, <2>1, IdentifiersSuffice DEF KeyMakerTyped, Making, KeyEntry
  <2>3. udm' \in UdmFile /\ FileFits(Unnumbered, udm')
    <3>. HIDE DEF table, entry
    <3>. DEFINE after == [table EXCEPT !.hnet = Append(@, entry)]
    <3>1. entry.id = kreq[k].id
      BY DEF entry
    <3>2. after \in UdmFile /\ FileFits(Unnumbered, after)
      BY <2>2, <3>1, EntryAdded DEF FileFits
    <3>. QED  BY <2>1, <3>2
  <2>4. KeyMakerTyped(k)'
    BY <1>1, <1>4, <1>12, <2>1 DEF DumpUdm, KeyMakerTyped, Making
  <2>. QED  BY <1>3, <1>4, <1>5, <2>1, <2>3, <2>4
<1>13. CASE Fail(k)
  <2>1. kreq'[k].id = kreq[k].id /\ UNCHANGED <<udm, public>>
    BY <1>1, <1>13 DEF Fail
  <2>2. KeyMakerTyped(k)'
    BY <1>1, <1>4, <1>13, <2>1 DEF Fail, KeyMakerTyped, Making
  <2>3. private' \in [KeyFiles -> KeyMakers \union {None, Shipped}]
    BY <1>5, <1>13 DEF Fail
  <2>. QED  BY <1>3, <1>4, <1>5, <2>1, <2>2, <2>3
<1>. QED  BY <1>7, <1>8, <1>9, <1>10, <1>11, <1>12, <1>13 DEF KeyMakerStep

-----------------------------------------------------------------------------
(* A key maker that is not in `shared' is the only one under way.          *)

LEMMA OnlyMaker ==
  ASSUME FilesGood, Sharing, Sharing', shared \subseteq shared',
         NEW m \in KeyMakers, KeyMakerStep(m),
         NEW k \in KeyMakers, k # m, k \in KeysBusy
  PROVE  k \in shared' /\ (m \in KeysBusy => m \in shared)
<1>1. kreq'[k] = kreq[k] /\ kreq[m].at # "done" /\ kreq'[m].at # "idle"
      /\ (kreq[m].at = "idle" => kreq'[m].at # "done")
  BY KeyMakerMoves DEF FilesGood
<1>2. CASE kreq[m].at = "idle"
  <2>1. m \in KeysBusy' /\ k \in KeysBusy'
    BY <1>1, <1>2 DEF KeysBusy
  <2>. QED  BY <1>2, <2>1 DEF Sharing, Busy, KeysBusy
<1>3. CASE kreq[m].at # "idle"
  <2>1. m \in KeysBusy
    BY <1>1, <1>3 DEF KeysBusy
  <2>. QED  BY <2>1 DEF Sharing, Busy
<1>. QED  BY <1>2, <1>3

LEMMA KeyMakerKeepsNumbers ==
  ASSUME FilesGood, KeysTyped, Sharing, Sharing', shared \subseteq shared', NumberIsNew,
         NEW m \in KeyMakers, KeyMakerStep(m)
  PROVE  NumberIsNew'
<1>. SUFFICES ASSUME NEW k \in KeyMakers, kreq'[k].at \in Making, k \notin shared'
     PROVE  /\ \A i \in DOMAIN Table(k)'.hnet : Table(k)'.hnet[i].id < kreq'[k].id
            /\ kreq'[k].at = "truncate" => kreq'[k].read = udm'
  BY DEF NumberIsNew
<1>1. k = m
  <2>1. ASSUME k # m PROVE FALSE
    <3>1. kreq'[k] = kreq[k]
      BY <2>1, KeyMakerMoves DEF FilesGood
    <3>2. k \in KeysBusy
      BY <3>1 DEF KeysBusy, Making
    <3>. QED  BY <2>1, <3>2, OnlyMaker
  <2>. QED  BY <2>1
<1>2. /\ DOMAIN kreq = KeyMakers
      /\ DOMAIN kreq[k] = {"at", "copy", "id", "read", "pem", "hex", "told"}
      /\ k \notin shared
      /\ udm.hnet \in Seq(KeyEntry)
  BY DEF FilesGood, KeyMakersGood, KeysTyped, UdmFile
<1>3. CASE Allocate(k)
  <2>1. kreq'[k].id = NextId(udm.hnet) /\ kreq'[k].at = "private" /\ udm' = udm
    BY <1>2, <1>3 DEF Allocate
  <2>. QED  BY <1>2, <2>1, NextIdIsNew DEF Table
<1>4. CASE MakePrivate(k) \/ MakePublic(k) \/ MakeHex(k)
  <2>1. /\ kreq[k].at \in {"private", "public", "hex"} /\ kreq'[k].at \in {"public", "hex", "append"}
        /\ kreq'[k].id = kreq[k].id /\ udm' = udm
    BY <1>2, <1>4 DEF MakePrivate, MakePublic, MakeHex
  <2>. QED  BY <1>2, <2>1 DEF NumberIsNew, Table, Making
<1>5. CASE ReadUdm(k)
  <2>1. /\ kreq[k].at = "append" /\ kreq'[k].at = "truncate" /\ kreq'[k].read = udm
        /\ kreq'[k].id = kreq[k].id /\ udm' = udm
    BY <1>2, <1>5 DEF ReadUdm
  <2>. QED  BY <1>2, <2>1 DEF NumberIsNew, Table, Making
<1>6. CASE TruncateUdm(k)
  <2>1. /\ kreq[k].at = "truncate" /\ kreq'[k].at = "dump" /\ kreq'[k].read = kreq[k].read
        /\ kreq'[k].id = kreq[k].id
    BY <1>2, <1>6 DEF TruncateUdm
  <2>. QED  BY <1>2, <2>1 DEF NumberIsNew, Table, Making
<1>7. CASE Call(k) \/ ChooseScheme(k) \/ NoKey(k) \/ DumpUdm(k) \/ Fail(k)
  <2>1. kreq'[k].at \notin Making
    BY <1>2, <1>7 DEF Call, ChooseScheme, NoKey, DumpUdm, Fail, Making
  <2>. QED  BY <2>1
<1>. QED  BY <1>1, <1>3, <1>4, <1>5, <1>6, <1>7 DEF KeyMakerStep

LEMMA KeyMakerKeepsKeys ==
  ASSUME FilesGood, KeysTyped, Sharing, Sharing', shared \subseteq shared',
         faulty \subseteq faulty', NumberIsNew, KeysKept,
         NEW m \in KeyMakers, KeyMakerStep(m)
  PROVE  KeysKept'
<1>. SUFFICES ASSUME faulty' \cap shared' = {}
     PROVE  /\ HasKeys(private, udm)'
            /\ \A k \in KeyMakers :
                 /\ kreq'[k].at \in {"truncate", "dump"} => HasKeys(private', kreq'[k].read)
                 /\ kreq'[k].at \in Making \ {"private"} => private'[File(k)'] # None
  BY DEF KeysKept
<1>1. /\ HasKeys(private, udm)
      /\ \A k \in KeyMakers :
           /\ kreq[k].at \in {"truncate", "dump"} => HasKeys(private, kreq[k].read)
           /\ kreq[k].at \in Making \ {"private"} => private[File(k)] # None
  BY DEF KeysKept
<1>2. /\ DOMAIN kreq = KeyMakers
      /\ DOMAIN kreq[m] = {"at", "copy", "id", "read", "pem", "hex", "told"}
      /\ \A k \in KeyMakers \ {m} : kreq'[k] = kreq[k] /\ File(k)' = File(k)
  BY KeyMakerMoves DEF FilesGood, KeyMakersGood, File
<1>3. /\ m # None /\ udm \in UdmFile
      /\ private \in [KeyFiles -> KeyMakers \union {None, Shipped}]
  BY ConfigAssumption, KeyMakersAssumption DEF KeysTyped
<1>4. CASE Call(m) \/ ChooseScheme(m) \/ Allocate(m) \/ NoKey(m)
  <2>1. kreq'[m].at \notin Making \ {"private"} /\ UNCHANGED <<udm, private>>
    BY <1>2, <1>4 DEF Call, ChooseScheme, Allocate, NoKey, Making
  <2>. QED  BY <1>1, <1>2, <2>1 DEF Making
<1>5. CASE MakePrivate(m)
  <2>1. /\ private' = [private EXCEPT ![File(m)] = m] /\ udm' = udm
        /\ kreq'[m].at = "public" /\ File(m)' = File(m) /\ kreq[m].at = "private"
    BY <1>2, <1>5 DEF MakePrivate, File
  <2>2. File(m) \in KeyFiles
    BY <2>1, IdentifiersSuffice
    DEF FilesGood, KeyMakersGood, Good, ConfigFile, KeysTyped, KeyMakerTyped, File, KeyFiles, Making
  <2>3. private'[File(m)] = m /\ \A f : private[f] # None => private'[f] # None
    BY <1>3, <2>1, <2>2
  <2>4. \A u : HasKeys(private, u) => HasKeys(private', u)
    BY <2>3 DEF HasKeys
  <2>. QED  BY <1>1, <1>2, <1>3, <2>1, <2>3, <2>4
<1>6. CASE MakePublic(m) \/ MakeHex(m)
  <2>1. /\ UNCHANGED <<udm, private>> /\ kreq[m].at \in {"public", "hex"}
        /\ kreq'[m].at \in {"hex", "append"} /\ File(m)' = File(m)
    BY <1>2, <1>6 DEF MakePublic, MakeHex, File
  <2>. QED  BY <1>1, <1>2, <2>1 DEF Making
<1>7. CASE ReadUdm(m)
  <2>1. /\ UNCHANGED <<udm, private>> /\ kreq[m].at = "append" /\ kreq'[m].at = "truncate"
        /\ kreq'[m].read = udm /\ File(m)' = File(m)
    BY <1>2, <1>7 DEF ReadUdm, File
  <2>. QED  BY <1>1, <1>2, <2>1 DEF Making
<1>8. CASE TruncateUdm(m)
  <2>1. /\ udm' = Truncated /\ private' = private /\ kreq[m].at = "truncate"
        /\ kreq'[m].at = "dump" /\ kreq'[m].read = kreq[m].read /\ File(m)' = File(m)
    BY <1>2, <1>8 DEF TruncateUdm, File
  <2>2. HasKeys(private', Truncated)
    BY DEF HasKeys, Truncated
  <2>. QED  BY <1>1, <1>2, <2>1, <2>2 DEF Making
<1>9. CASE DumpUdm(m)
  <2>. DEFINE entry == [id |-> kreq[m].id, scheme |-> kreq[m].copy.scheme]
              table == kreq[m].read
              after == [table EXCEPT !.hnet = Append(@, entry)]
  <2>1. udm' = after /\ private' = private /\ kreq[m].at = "dump" /\ kreq'[m].at = "done"
    BY <1>2, <1>9 DEF DumpUdm
  <2>2. private[<<entry.scheme, entry.id>>] # None /\ HasKeys(private, table)
    BY <1>1, <2>1 DEF File, Making
  <2>3. table \in UdmFile /\ entry \in KeyEntry
    BY <2>1, IdentifiersSuffice
    DEF FilesGood, KeyMakersGood, Good, ConfigFile, KeysTyped, KeyMakerTyped, KeyEntry, Making
  <2>4. HasKeys(private, after)
    <3>. HIDE DEF table, entry
    <3>. QED  BY <2>2, <2>3, EntryAdded DEF HasKeys
  <2>. QED  BY <1>1, <1>2, <2>1, <2>4 DEF Making
<1>10. CASE Fail(m)
  <2>1. m \in faulty' /\ m \notin shared' /\ m \notin shared /\ udm' = udm
        /\ kreq'[m].at = "done" /\ kreq[m].at \notin {"idle", "done"}
    BY <1>2, <1>10 DEF Fail, MayFail
  <2>2. CASE private' = private
    BY <1>1, <1>2, <2>1, <2>2 DEF Making
  <2>3. CASE kreq[m].at = "private" /\ private' = [private EXCEPT ![File(m)] = None]
    <3>1. \A k \in KeyMakers : k # m => k \notin KeysBusy
      BY <2>1, OnlyMaker DEF KeysBusy
    <3>2. \A k \in KeyMakers : kreq'[k].at \notin Making
      BY <1>2, <2>1, <3>1 DEF KeysBusy, Making
    <3>3. \A i \in DOMAIN udm.hnet : udm.hnet[i].id # kreq[m].id
      <4>1. \A i \in DOMAIN udm.hnet : udm.hnet[i] \in KeyEntry
        BY <1>3 DEF UdmFile
      <4>2. \A i \in DOMAIN udm.hnet : udm.hnet[i].id \in Int
        BY <4>1, IdentifiersSuffice DEF KeyEntry
      <4>3. \A i \in DOMAIN udm.hnet : udm.hnet[i].id < kreq[m].id
        BY <2>1, <2>3 DEF NumberIsNew, Table, Making
      <4>. QED  BY <4>2, <4>3
    <3>4. HasKeys(private', udm)
      BY <1>1, <2>3, <3>3 DEF HasKeys, File
    <3>. QED  BY <2>1, <3>2, <3>4 DEF Making
  <2>. QED  BY <1>10, <2>2, <2>3 DEF Fail
<1>. QED  BY <1>4, <1>5, <1>6, <1>7, <1>8, <1>9, <1>10 DEF KeyMakerStep

LEMMA KeyMakerKeepsSerial ==
  ASSUME FilesGood, KeysTyped, Sharing, Sharing', shared \subseteq shared',
         faulty \subseteq faulty', NumberIsNew, SerialKept,
         NEW m \in KeyMakers, KeyMakerStep(m)
  PROVE  SerialKept'
<1>. SUFFICES ASSUME KeyMakers \cap shared' = {}
     PROVE  /\ KeysBusy' = {} /\ udm'.whole => Kept(udm)'
            /\ KeysBusy' = {} /\ KeyMakers \cap faulty' = {} => udm'.whole
            /\ \A k \in KeysBusy' :
                 /\ Progress(k)'
                 /\ Table(k)'.whole => Kept(Table(k))'
                 /\ KeyMakers \cap faulty' = {} => Table(k)'.whole
  BY DEF SerialKept
<1>1. /\ m \notin shared /\ m \notin shared'
      /\ KeysBusy = {} /\ udm.whole => Kept(udm)
      /\ KeysBusy = {} /\ KeyMakers \cap faulty = {} => udm.whole
      /\ \A k \in KeysBusy : /\ Progress(k)
                             /\ Table(k).whole => Kept(Table(k))
                             /\ KeyMakers \cap faulty = {} => Table(k).whole
      /\ KeyMakers \cap faulty' = {} => KeyMakers \cap faulty = {}
  BY DEF SerialKept
<1>2. /\ DOMAIN kreq = KeyMakers
      /\ DOMAIN kreq[m] = {"at", "copy", "id", "read", "pem", "hex", "told"}
      /\ kreq[m].at # "done" /\ kreq'[m].at # "idle"
      /\ \A k \in KeyMakers \ {m} : kreq'[k] = kreq[k] /\ File(k)' = File(k)
  BY KeyMakerMoves DEF FilesGood, KeyMakersGood, File
<1>3. KeysBusy \subseteq {m} /\ KeysBusy' \subseteq {m}
  <2>1. \A k \in KeyMakers : k # m => k \notin KeysBusy
    BY OnlyMaker
  <2>. QED  BY <1>2, <2>1 DEF KeysBusy
<1>4. /\ Table(m).whole => Kept(Table(m))
      /\ KeyMakers \cap faulty = {} => Table(m).whole
      /\ kreq[m].at # "idle" => Progress(m)
  BY <1>1, <1>2, <1>3 DEF KeysBusy, Table
<1>5. ASSUME Table(m)'.whole => Kept(Table(m))', kreq'[m].at # "done" => Progress(m)',
             KeyMakers \cap faulty' = {} => Table(m)'.whole
      PROVE  /\ KeysBusy' = {} /\ udm'.whole => Kept(udm)'
             /\ KeysBusy' = {} /\ KeyMakers \cap faulty' = {} => udm'.whole
             /\ \A k \in KeysBusy' :
                  /\ Progress(k)'
                  /\ Table(k)'.whole => Kept(Table(k))'
                  /\ KeyMakers \cap faulty' = {} => Table(k)'.whole
  <2>1. KeysBusy' = {} => Table(m)' = udm'
    BY <1>2 DEF KeysBusy, Table
  <2>2. /\ KeysBusy' = {} /\ udm'.whole => Kept(udm)'
        /\ KeysBusy' = {} /\ KeyMakers \cap faulty' = {} => udm'.whole
    BY <1>5, <2>1
  <2>. QED  BY <1>3, <1>5, <2>2 DEF KeysBusy
<1>6. kreq[m].told # "ok"
  BY <1>2 DEF KeysTyped, KeyMakerTyped
<1>7. ASSUME kreq'[m].told # "ok", UNCHANGED <<private, public>>, Table(m)' = Table(m)
      PROVE  /\ Table(m)'.whole => Kept(Table(m))'
             /\ KeyMakers \cap faulty' = {} => Table(m)'.whole
  BY <1>1, <1>2, <1>4, <1>7 DEF Kept
<1>8. CASE Call(m) \/ ChooseScheme(m) \/ Allocate(m) \/ NoKey(m)
  <2>1. /\ kreq'[m].at \in {"allocate", "choose", "done", "private"} /\ kreq[m].at # "dump"
        /\ UNCHANGED <<udm, private, public>> /\ kreq'[m].told # "ok"
    BY <1>2, <1>6, <1>8 DEF Call, ChooseScheme, Allocate, NoKey
  <2>. QED  BY <1>5, <1>7, <2>1 DEF Table, Progress, Making
\* Nobody else's files have m's number.
<1>9. ASSUME kreq[m].at \in {"private", "public"}
      PROVE  /\ Table(m) = udm
             /\ File(m) \in KeyFiles /\ kreq[m].id \in 1..MaxId
             /\ udm.whole =>
                  /\ \A i \in DOMAIN InitialHnet : InitialHnet[i].id # kreq[m].id
                  /\ \A k \in KeyMakers : k # m /\ kreq[k].told = "ok" =>
                       kreq[k].id # kreq[m].id /\ File(k) # File(m)
  <2>1. Table(m) = udm
    BY <1>9 DEF Table
  <2>2. File(m) \in KeyFiles /\ kreq[m].id \in 1..MaxId
    BY <1>9, IdentifiersSuffice
    DEF FilesGood, KeyMakersGood, Good, ConfigFile, KeysTyped, KeyMakerTyped, File, KeyFiles, Making
  <2>3. ASSUME NEW i \in DOMAIN udm.hnet PROVE udm.hnet[i].id # kreq[m].id
    <3>1. udm.hnet[i].id < kreq[m].id
      BY <1>1, <1>9, <2>1 DEF NumberIsNew, Making
    <3>2. udm.hnet[i] \in KeyEntry
      BY DEF KeysTyped, UdmFile
    <3>3. udm.hnet[i].id \in Int
      BY <3>2, IdentifiersSuffice DEF KeyEntry
    <3>. QED  BY <2>2, <3>1, <3>3
  <2>4. ASSUME NEW k \in KeyMakers, k # m, kreq[k].told = "ok", udm.whole
        PROVE  kreq[k].id # kreq[m].id
    <3>1. PICK i \in DOMAIN udm.hnet : <<udm.hnet[i].scheme, udm.hnet[i].id>> = File(k)
      BY <1>4, <2>1, <2>4 DEF Kept
    <3>. QED  BY <2>3, <3>1 DEF File
  <2>5. ASSUME udm.whole, NEW i \in DOMAIN InitialHnet PROVE InitialHnet[i].id # kreq[m].id
    BY <1>4, <2>1, <2>3, <2>5 DEF Kept
  <2>. QED  BY <2>1, <2>2, <2>4, <2>5 DEF File
<1>10. CASE MakePrivate(m)
  <2>1. /\ private' = [private EXCEPT ![File(m)] = m] /\ UNCHANGED <<udm, public>>
        /\ kreq'[m].at = "public" /\ File(m)' = File(m) /\ kreq[m].at = "private"
        /\ kreq'[m].told # "ok"
    BY <1>2, <1>6, <1>10 DEF MakePrivate, File
  <2>2. Progress(m)'
    BY <1>9, <2>1 DEF Progress, Making, KeysTyped
  <2>3. Table(m) = udm /\ Table(m)' = udm
    BY <2>1 DEF Table
  <2>4. Table(m)'.whole => Kept(Table(m))'
    BY <1>2, <1>4, <1>9, <2>1, <2>3 DEF Kept, File
  <2>. QED  BY <1>1, <1>4, <1>5, <2>2, <2>3, <2>4
<1>11. CASE MakePublic(m)
  <2>1. /\ public' = [public EXCEPT ![kreq[m].id] = private[File(m)]] /\ UNCHANGED <<udm, private>>
        /\ kreq'[m].at = "hex" /\ File(m)' = File(m) /\ kreq[m].at = "public"
        /\ kreq'[m].told # "ok" /\ kreq'[m].id = kreq[m].id
    BY <1>2, <1>6, <1>11 DEF MakePublic, File
  <2>2. Progress(m)'
    BY <1>4, <1>9, <2>1 DEF Progress, Making, KeysTyped
  <2>3. Table(m) = udm /\ Table(m)' = udm
    BY <2>1 DEF Table
  <2>4. Table(m)'.whole => Kept(Table(m))'
    BY <1>2, <1>4, <1>9, <2>1, <2>3 DEF Kept
  <2>. QED  BY <1>1, <1>4, <1>5, <2>2, <2>3, <2>4
<1>12. CASE MakeHex(m)
  <2>1. /\ UNCHANGED <<udm, private, public>> /\ File(m)' = File(m) /\ kreq'[m].told # "ok"
        /\ kreq[m].at = "hex" /\ kreq'[m].at = "append" /\ kreq'[m].id = kreq[m].id
    BY <1>2, <1>6, <1>12 DEF MakeHex, File
  <2>2. Progress(m)'
    BY <1>4, <2>1 DEF Progress, Making
  <2>. QED  BY <1>5, <1>7, <2>1, <2>2 DEF Table
<1>13. CASE ReadUdm(m) \/ TruncateUdm(m)
  <2>1. /\ UNCHANGED <<private, public>> /\ File(m)' = File(m) /\ kreq'[m].told # "ok"
        /\ kreq'[m].id = kreq[m].id /\ (kreq'[m].at = "dump" => ~udm'.whole)
        /\ kreq[m].at \in {"append", "truncate"} /\ kreq'[m].at \in {"truncate", "dump"}
    BY <1>2, <1>6, <1>13 DEF ReadUdm, TruncateUdm, Truncated, File
  <2>2. Progress(m)'
    BY <1>4, <2>1 DEF Progress, Making
  <2>3. Table(m)' = Table(m)
    BY <1>1, <1>2, <1>13, <2>1 DEF ReadUdm, TruncateUdm, Table, NumberIsNew, Making
  <2>. QED  BY <1>5, <1>7, <2>1, <2>2, <2>3
<1>14. CASE DumpUdm(m)
  <2>. DEFINE entry == [id |-> kreq[m].id, scheme |-> kreq[m].copy.scheme]
              table == kreq[m].read
              after == [table EXCEPT !.hnet = Append(@, entry)]
  <2>1. /\ udm' = after /\ UNCHANGED <<private, public>>
        /\ kreq[m].at = "dump" /\ kreq'[m].at = "done"
        /\ File(m)' = File(m) /\ kreq'[m].id = kreq[m].id
    BY <1>2, <1>14 DEF DumpUdm, File
  <2>2. /\ table \in UdmFile /\ entry \in KeyEntry /\ <<entry.scheme, entry.id>> = File(m)
        /\ \A i \in DOMAIN table.hnet : table.hnet[i].id < entry.id
    BY <1>1, <2>1, IdentifiersSuffice
    DEF FilesGood, KeyMakersGood, Good, ConfigFile, KeysTyped, KeyMakerTyped, KeyEntry, Making,
        NumberIsNew, Table, File
  <2>3. table.whole => Kept(table)
    BY <1>4, <2>1 DEF Table
  <2>4. private[File(m)] = m /\ public[kreq[m].id] = m
    BY <1>4, <2>1 DEF Progress, Making
  <2>5. Table(m)' = udm' /\ Table(m) = table
    BY <2>1 DEF Table
  <2>6. /\ after.whole = table.whole
        /\ DOMAIN after.hnet = 1..(Len(table.hnet) + 1) /\ Len(table.hnet) \in Nat
        /\ after.hnet[Len(table.hnet) + 1] = entry
        /\ \A i \in 1..Len(table.hnet) : i \in DOMAIN table.hnet /\ after.hnet[i] = table.hnet[i]
    <3>. HIDE DEF table, entry
    <3>. QED  BY <2>2, EntryAdded
  <2>7. \A i \in DOMAIN table.hnet : /\ i \in DOMAIN after.hnet /\ i \in 1..Len(table.hnet)
                                     /\ table.hnet[i].id \in Int
    <3>. HIDE DEF table, after
    <3>1. table.hnet \in Seq(KeyEntry)
      BY <2>2 DEF UdmFile
    <3>2. \A i \in DOMAIN table.hnet : table.hnet[i] \in KeyEntry /\ i \in 1..Len(table.hnet)
      BY <3>1
    <3>. QED  BY <2>6, <3>2, IdentifiersSuffice DEF KeyEntry
  <2>8. after.whole => Kept(udm)'
    <3>. HIDE DEF table, entry, after
    <3>. SUFFICES ASSUME after.whole PROVE Kept(udm)'
      OBVIOUS
    <3>1. Kept(table)
      BY <2>3, <2>6
    <3>2. ASSUME NEW i \in DOMAIN after.hnet, NEW j \in DOMAIN after.hnet,
                 after.hnet[i].id = after.hnet[j].id
          PROVE  i = j
      <4>1. \A n \in 1..Len(table.hnet) : after.hnet[n].id \in Int /\ after.hnet[n].id < entry.id
        BY <2>2, <2>6, <2>7
      <4>2. \A n \in DOMAIN after.hnet : n \in 1..Len(table.hnet) \/ n = Len(table.hnet) + 1
        BY <2>6
      <4>3. CASE i \in 1..Len(table.hnet) /\ j \in 1..Len(table.hnet)
        BY <2>6, <3>1, <3>2, <4>3 DEF Kept
      <4>4. CASE ~(i \in 1..Len(table.hnet) /\ j \in 1..Len(table.hnet))
        BY <2>6, <3>2, <4>1, <4>2, <4>4
      <4>. QED  BY <4>3, <4>4
    <3>3. ASSUME NEW k \in KeyMakers, kreq'[k].told = "ok"
          PROVE  /\ private'[File(k)'] = k /\ public'[kreq'[k].id] = k
                 /\ \E i \in DOMAIN after.hnet : <<after.hnet[i].scheme, after.hnet[i].id>> = File(k)'
      <4>1. CASE k = m
        BY <2>1, <2>2, <2>4, <2>6, <4>1
      <4>2. CASE k # m
        BY <1>2, <2>1, <2>6, <2>7, <3>1, <3>3, <4>2 DEF Kept
      <4>. QED  BY <4>1, <4>2
    <3>4. ASSUME NEW i \in DOMAIN InitialHnet
          PROVE  /\ i \in DOMAIN after.hnet /\ after.hnet[i] = InitialHnet[i]
                 /\ private'[<<InitialHnet[i].scheme, InitialHnet[i].id>>] = Shipped
      BY <2>1, <2>6, <2>7, <3>1 DEF Kept
    <3>. QED  BY <2>1, <3>2, <3>3, <3>4 DEF Kept
  <2>9. Table(m)'.whole => Kept(Table(m))'
    <3>1. udm'.whole = after.whole
      BY <2>1
    <3>. QED  BY <2>5, <2>8, <3>1 DEF Kept
  <2>. QED  BY <1>1, <1>4, <1>5, <2>1, <2>5, <2>6, <2>9
<1>15. CASE Fail(m)
  <2>1. /\ m \in faulty' /\ udm' = udm /\ public' = public
        /\ kreq'[m].at = "done" /\ kreq'[m].told # "ok" /\ kreq[m].at # "idle"
    BY <1>2, <1>15 DEF Fail, MayFail
  <2>2. Table(m)' = udm
    BY <2>1 DEF Table
  <2>3. udm.whole => Kept(udm)
    BY <1>4, <2>1 DEF Table, Progress
  <2>4. CASE private' = private
    BY <1>2, <1>5, <2>1, <2>2, <2>3, <2>4 DEF Kept
  <2>5. CASE kreq[m].at = "private" /\ private' = [private EXCEPT ![File(m)] = None]
    <3>1. udm.whole => Kept(udm)'
      BY <1>2, <1>9, <2>1, <2>3, <2>5 DEF Kept, File
    <3>. QED  BY <1>5, <2>1, <2>2, <3>1
  <2>. QED  BY <1>15, <2>4, <2>5 DEF Fail
<1>. QED  BY <1>8, <1>10, <1>11, <1>12, <1>13, <1>14, <1>15 DEF KeyMakerStep

-----------------------------------------------------------------------------
(* The invariant of every behaviour.                                       *)

\* A key maker that has not begun has told nothing.
LEMMA NothingTold == IdleKeyMaker.told # "ok"
BY ConfigAssumption DEF IdleKeyMaker

LEMMA InitKeys == Init => KeysTyped /\ NumberIsNew /\ KeysKept /\ SerialKept
<1>. SUFFICES ASSUME Init PROVE KeysTyped /\ NumberIsNew /\ KeysKept /\ SerialKept
  OBVIOUS
<1>1. /\ udm = [whole |-> TRUE, hnet |-> InitialHnet]
      /\ private = [f \in KeyFiles |->
           IF \E i \in DOMAIN InitialHnet : <<InitialHnet[i].scheme, InitialHnet[i].id>> = f
           THEN Shipped ELSE None]
      /\ public = [i \in 1..MaxId |-> None]
      /\ \A k \in KeyMakers : kreq[k] = IdleKeyMaker
  BY DEF Init, KeysInit, KeyFiles
<1>2. InitialHnet \in Seq(KeyEntry)
  BY InitialAssumption DEF KeyEntry
<1>3. \A i \in DOMAIN InitialHnet : <<InitialHnet[i].scheme, InitialHnet[i].id>> \in KeyFiles
  <2>1. \A i \in DOMAIN InitialHnet : InitialHnet[i] \in KeyEntry
    BY <1>2
  <2>. QED  BY <2>1 DEF KeyEntry, KeyFiles
<1>4. Unnumbered = KeyMakers
  BY <1>1 DEF Unnumbered, IdleKeyMaker
<1>5. KeysTyped
  <2>1. FileFits(Unnumbered, udm)
    BY <1>1, <1>4, IdentifiersSuffice DEF FileFits, Room
  <2>2. Room(KeyMakers, 0)
    <3>1. Cardinality(KeyMakers) \in Nat
      BY UnnumberedFinite
    <3>. QED  BY <3>1, IdentifiersSuffice DEF Room
  <2>3. \A k \in KeyMakers : KeyMakerTyped(k)
    <3>. SUFFICES ASSUME NEW k \in KeyMakers PROVE KeyMakerTyped(k)
      OBVIOUS
    <3>1. kreq[k] = IdleKeyMaker /\ kreq[k].told # "ok"
      BY <1>1, NothingTold
    <3>2. Room(Unnumbered, kreq[k].id)
      BY <1>4, <2>2, <3>1 DEF IdleKeyMaker
    <3>. QED  BY <3>1, <3>2, IdentifiersSuffice DEF KeyMakerTyped, IdleKeyMaker, Making
  <2>4. private \in [KeyFiles -> KeyMakers \union {None, Shipped}]
    BY <1>1
  <2>. QED  BY <1>1, <1>2, <2>1, <2>3, <2>4 DEF KeysTyped, UdmFile
<1>6. NumberIsNew
  BY <1>1 DEF NumberIsNew, IdleKeyMaker, Making
<1>7. HasKeys(private, udm)
  BY <1>1, <1>3, KeyMakersAssumption DEF HasKeys
<1>8. KeysKept
  BY <1>1, <1>7 DEF KeysKept, IdleKeyMaker, Making
<1>9. KeysBusy = {} /\ udm.whole /\ Kept(udm)
  BY <1>1, <1>3, InitialAssumption, NothingTold DEF KeysBusy, Kept, IdleKeyMaker
<1>. QED  BY <1>5, <1>6, <1>8, <1>9 DEF SerialKept

LEMMA KeysStay ==
  ASSUME UNCHANGED keyVars, shared \subseteq shared', faulty \subseteq faulty'
  PROVE  /\ KeysTyped => KeysTyped'
         /\ NumberIsNew => NumberIsNew'
         /\ KeysKept => KeysKept'
         /\ SerialKept => SerialKept'
<1>1. UNCHANGED <<udm, private, public, kreq>>
  BY DEF keyVars
<1>2. KeysTyped => KeysTyped'
  BY <1>1 DEF KeysTyped, KeyMakerTyped, Unnumbered
<1>3. NumberIsNew => NumberIsNew'
  BY <1>1 DEF NumberIsNew, Table
<1>4. KeysKept => KeysKept'
  BY <1>1 DEF KeysKept, File
<1>5. UNCHANGED KeysBusy /\ \A k \in KeyMakers : UNCHANGED <<Table(k), File(k)>>
  BY <1>1 DEF KeysBusy, Table, File
<1>6. SerialKept => SerialKept'
  <2>1. Kept(udm)' <=> Kept(udm)
    BY <1>1, <1>5 DEF Kept
  <2>2. \A k \in KeyMakers : (Kept(Table(k))' <=> Kept(Table(k))) /\ (Progress(k)' <=> Progress(k))
    BY <1>1, <1>5 DEF Kept, Progress
  <2>3. KeysBusy' = KeysBusy /\ udm' = udm /\ \A k \in KeyMakers : Table(k)' = Table(k)
    BY <1>1, <1>5
  <2>4. KeysBusy \subseteq KeyMakers
    BY DEF KeysBusy
  <2>5. /\ KeyMakers \cap shared' = {} => KeyMakers \cap shared = {}
        /\ KeyMakers \cap faulty' = {} => KeyMakers \cap faulty = {}
    OBVIOUS
  <2>. SUFFICES ASSUME SerialKept, KeyMakers \cap shared' = {} PROVE SerialKept'
    BY DEF SerialKept
  <2>6. KeysBusy' = {} /\ udm'.whole => Kept(udm)'
    BY <2>1, <2>3, <2>5 DEF SerialKept
  <2>7. KeysBusy' = {} /\ KeyMakers \cap faulty' = {} => udm'.whole
    BY <2>3, <2>5 DEF SerialKept
  <2>8. ASSUME NEW k \in KeysBusy'
        PROVE  /\ Progress(k)'
               /\ Table(k)'.whole => Kept(Table(k))'
               /\ KeyMakers \cap faulty' = {} => Table(k)'.whole
    <3>1. k \in KeysBusy /\ k \in KeyMakers
      BY <2>3, <2>4
    <3>. QED  BY <2>2, <2>3, <2>5, <3>1 DEF SerialKept
  <2>. QED  BY <2>6, <2>7, <2>8 DEF SerialKept
<1>. QED  BY <1>2, <1>3, <1>4, <1>6

LEMMA KeysInvariant == Spec => []KeysInv
<1>1. Init => KeysTyped /\ NumberIsNew /\ KeysKept /\ SerialKept
  BY InitKeys
<1>2. FilesGood /\ Sharing /\ Sharing' /\ KeysInv /\ [Next]_vars =>
        (KeysTyped /\ NumberIsNew /\ KeysKept /\ SerialKept)'
  <2>. SUFFICES ASSUME FilesGood, Sharing, Sharing', KeysInv, [Next]_vars
       PROVE  (KeysTyped /\ NumberIsNew /\ KeysKept /\ SerialKept)'
    OBVIOUS
  <2>1. shared \subseteq shared' /\ faulty \subseteq faulty'
    BY FailuresStay DEF Next, vars
  <2>2. CASE UNCHANGED keyVars
    BY <2>1, <2>2, KeysStay DEF KeysInv
  <2>3. CASE KeysNext
    BY <2>1, <2>3, KeyMakerKeepsTypes, KeyMakerKeepsNumbers, KeyMakerKeepsKeys, KeyMakerKeepsSerial
    DEF KeysInv, KeysNext
  <2>. QED  BY <2>2, <2>3 DEF Next, Act, vars, keyVars
<1>. QED  BY <1>1, <1>2, FilesAlwaysGood, SharingInvariant, PTL DEF Spec, KeysInv

\* generate_hnet.py:124-195.  However key generations overlap and wherever they fail,
\* udm.yaml names no key that is not there, unless one failed while another request ran.
THEOREM EntriesAlwaysHaveKeys == Spec => []EntriesHaveKeys
<1>1. KeysInv => EntriesHaveKeys
  BY DEF KeysInv, KeysKept, HasKeys, EntriesHaveKeys
<1>. QED  BY <1>1, KeysInvariant, PTL

\* generate_hnet.py:31-64.  Key generations that do not overlap lose no entry and no key
\* and mix up none, wherever they fail, until one fails that has emptied udm.yaml.
THEOREM SerialKeysAlwaysKept == Spec => []SerialKeysKept
<1>1. KeysInv => SerialKeysKept
  <2>. SUFFICES ASSUME KeysInv, KeyMakers \cap shared = {}
       PROVE  /\ KeyMakers \cap faulty = {} /\ KeysBusy = {} => udm.whole
              /\ udm.whole => Kept(udm)
    BY DEF Kept, SerialKeysKept
  <2>1. KeysBusy = {} => (udm.whole => Kept(udm)) /\ (KeyMakers \cap faulty = {} => udm.whole)
    BY DEF KeysInv, SerialKept
  <2>2. ASSUME NEW k \in KeysBusy, udm.whole PROVE Kept(udm)
    <3>1. Progress(k) /\ (Table(k).whole => Kept(Table(k)))
      BY DEF KeysInv, SerialKept
    <3>. QED  BY <2>2, <3>1 DEF Progress, Table
  <2>. QED  BY <2>1, <2>2
<1>. QED  BY <1>1, KeysInvariant, PTL

-----------------------------------------------------------------------------
(* What administrators are told is of keys made meanwhile.                 *)

MadeBeside ==
  \A k \in KeyMakers :
    /\ kreq[k].at \in Making \ {"private"} => private[File(k)] \in Beside(k) \union {None}
    /\ kreq[k].at \in Making \ {"private", "public"} => kreq[k].pem \in Beside(k)
    /\ kreq[k].at \in Making \ {"private", "public", "hex"} => kreq[k].hex.key \in Beside(k)
    /\ kreq[k].told = "ok" => {kreq[k].pem, kreq[k].hex.key} \subseteq Beside(k)

\* A key maker keeps its number and its scheme, ...
LEMMA FileStays ==
  ASSUME FilesGood, KeysTyped, NEW m \in KeyMakers, KeyMakerStep(m),
         NEW k \in KeyMakers, kreq[k].id # 0
  PROVE  File(k)' = File(k)
<1>1. CASE k # m
  <2>1. kreq'[k] = kreq[k]
    BY <1>1, KeyMakerMoves DEF FilesGood
  <2>. QED  BY <2>1 DEF File
<1>2. CASE k = m
  <2>1. kreq[m].at \notin {"idle", "choose", "allocate"}
    BY <1>2 DEF KeysTyped, KeyMakerTyped
  <2>2. kreq'[m].copy = kreq[m].copy
    BY <2>1, KeyMakerMoves DEF FilesGood
  <2>3. kreq'[m].id = kreq[m].id
    BY <2>1 DEF FilesGood, KeyMakersGood, KeyMakerStep, Call, ChooseScheme, Allocate, MakePrivate,
                MakePublic, MakeHex, NoKey, ReadUdm, TruncateUdm, DumpUdm, Fail
  <2>. QED  BY <1>2, <2>2, <2>3 DEF File
<1>. QED  BY <1>1, <1>2

\* ... so that who ran beside it with the same number and scheme did so for good.
LEMMA BesideGrows ==
  ASSUME FilesGood, KeysTyped, shared \subseteq shared', NEW m \in KeyMakers, KeyMakerStep(m),
         NEW k \in KeyMakers, kreq[k].id # 0
  PROVE  Beside(k) \subseteq Beside(k)'
<1>1. ASSUME NEW n \in KeyMakers, File(n) = File(k) PROVE File(n)' = File(k)'
  <2>1. kreq[n].id # 0
    BY <1>1 DEF File
  <2>. QED  BY <1>1, <2>1, FileStays
<1>. QED  BY <1>1 DEF Beside

LEMMA KeyMakerKeepsBeside ==
  ASSUME FilesGood, KeysTyped, Sharing, Sharing', shared \subseteq shared', MadeBeside,
         NEW m \in KeyMakers, KeyMakerStep(m)
  PROVE  MadeBeside'
<1>. SUFFICES ASSUME NEW k \in KeyMakers
     PROVE  /\ kreq'[k].at \in Making \ {"private"} => private'[File(k)'] \in Beside(k)' \union {None}
            /\ kreq'[k].at \in Making \ {"private", "public"} => kreq'[k].pem \in Beside(k)'
            /\ kreq'[k].at \in Making \ {"private", "public", "hex"} => kreq'[k].hex.key \in Beside(k)'
            /\ kreq'[k].told = "ok" => {kreq'[k].pem, kreq'[k].hex.key} \subseteq Beside(k)'
  BY DEF MadeBeside
<1>1. kreq[k].at \in Making \/ kreq[k].told = "ok" =>
        kreq[k].id # 0 /\ File(k)' = File(k) /\ Beside(k) \subseteq Beside(k)'
  <2>1. kreq[k].at \in Making \/ kreq[k].told = "ok" => kreq[k].id # 0
    BY DEF KeysTyped, KeyMakerTyped
  <2>. QED  BY <2>1, FileStays, BesideGrows
<1>2. k \in Beside(k)'
  BY DEF Beside
<1>3. /\ kreq[k].at \in Making \ {"private"} => private[File(k)] \in Beside(k) \union {None}
      /\ kreq[k].at \in Making \ {"private", "public"} => kreq[k].pem \in Beside(k)
      /\ kreq[k].at \in Making \ {"private", "public", "hex"} => kreq[k].hex.key \in Beside(k)
      /\ kreq[k].told = "ok" => {kreq[k].pem, kreq[k].hex.key} \subseteq Beside(k)
  BY DEF MadeBeside
<1>4. DOMAIN private = KeyFiles
  BY DEF KeysTyped
<1>5. /\ DOMAIN kreq = KeyMakers
      /\ DOMAIN kreq[m] = {"at", "copy", "id", "read", "pem", "hex", "told"}
      /\ kreq[m].at # "idle" => kreq[m].copy.scheme \in Schemes
      /\ KeyMakerTyped(m)
  BY DEF FilesGood, KeyMakersGood, KeysTyped, Good, ConfigFile
\* Only those beside k touch its file while it is at work.
<1>6. CASE k # m
  <2>1. kreq'[k] = kreq[k]
    BY <1>6, KeyMakerMoves DEF FilesGood
  <2>2. ASSUME kreq[k].at \in Making \ {"private"}
        PROVE  private'[File(k)'] \in Beside(k)' \union {None}
    <3>. File(k) \in KeyFiles
      BY <2>2, IdentifiersSuffice
      DEF FilesGood, KeyMakersGood, KeysTyped, Good, ConfigFile, KeyMakerTyped, File, KeyFiles, Making
    <3>1. CASE private' = private
      BY <1>1, <1>3, <2>2, <3>1
    <3>2. CASE /\ kreq[m].at = "private" /\ kreq'[m].id = kreq[m].id /\ kreq'[m].copy = kreq[m].copy
               /\ \/ private' = [private EXCEPT ![File(m)] = m]
                  \/ private' = [private EXCEPT ![File(m)] = None]
      <4>1. CASE File(m) # File(k)
        <5>1. private'[File(k)] = private[File(k)]
          BY <1>4, <3>2, <4>1
        <5>. QED  BY <1>1, <1>3, <2>2, <5>1
      <4>2. CASE File(m) = File(k)
        <5>1. k \in KeysBusy /\ m \in KeysBusy
          BY <2>2, <3>2 DEF KeysBusy, Making
        <5>2. {k, m} \subseteq shared'
          BY <1>6, <5>1, OnlyMaker
        <5>3. File(m)' = File(k)'
          BY <1>1, <2>2, <3>2, <4>2 DEF File
        <5>4. m \in Beside(k)'
          BY <5>2, <5>3 DEF Beside
        <5>5. private'[File(k)] \in {m, None, private[File(k)]}
          BY <1>4, <3>2, <4>2
        <5>. QED  BY <1>1, <1>3, <2>2, <5>4, <5>5
      <4>. QED  BY <4>1, <4>2
    <3>3. private' = private \/ MakePrivate(m) \/ Fail(m)
      BY DEF KeyMakerStep, Call, ChooseScheme, Allocate, MakePublic, MakeHex, NoKey, ReadUdm,
             TruncateUdm, DumpUdm
    <3>. QED  BY <1>5, <3>1, <3>2, <3>3 DEF MakePrivate, Fail
  <2>. QED  BY <1>1, <1>3, <2>1, <2>2
<1>7. CASE k = m
  <2>1. CASE Call(m) \/ ChooseScheme(m) \/ Allocate(m) \/ NoKey(m) \/ Fail(m)
    <3>1. kreq'[m].at \in {"allocate", "choose", "private", "done"} /\ kreq'[m].told # "ok"
      BY <1>5, <2>1 DEF Call, ChooseScheme, Allocate, NoKey, Fail, KeyMakerTyped
    <3>. QED  BY <1>7, <3>1 DEF Making
  <2>2. CASE MakePrivate(m)
    <3>1. /\ private' = [private EXCEPT ![File(m)] = m] /\ kreq[m].at = "private"
          /\ kreq'[m].at = "public" /\ kreq'[m].told # "ok" /\ File(m)' = File(m)
      BY <1>5, <2>2 DEF MakePrivate, KeyMakerTyped, File, Making
    <3>2. File(m) \in KeyFiles
      BY <1>5, <3>1, IdentifiersSuffice DEF KeyMakerTyped, File, KeyFiles, Making
    <3>. QED  BY <1>2, <1>4, <1>7, <3>1, <3>2
  <2>3. CASE MakePublic(m)
    <3>1. /\ UNCHANGED private /\ kreq[m].at = "public" /\ private[File(m)] # None
          /\ kreq'[m].at = "hex" /\ kreq'[m].told # "ok" /\ kreq'[m].pem = private[File(m)]
      BY <1>5, <2>3 DEF MakePublic, KeyMakerTyped, Making
    <3>. QED  BY <1>1, <1>3, <1>7, <3>1 DEF Making
  <2>4. CASE MakeHex(m)
    <3>1. /\ UNCHANGED private /\ kreq[m].at = "hex" /\ private[File(m)] # None
          /\ kreq'[m].at = "append" /\ kreq'[m].told # "ok" /\ kreq'[m].pem = kreq[m].pem
          /\ kreq'[m].hex.key = private[File(m)]
      BY <1>5, <2>4 DEF MakeHex, HexOf, KeyMakerTyped, Making
    <3>. QED  BY <1>1, <1>3, <1>7, <3>1 DEF Making
  <2>5. CASE ReadUdm(m) \/ TruncateUdm(m)
    <3>1. /\ UNCHANGED private /\ kreq[m].at \in {"append", "truncate"}
          /\ kreq'[m].at \in {"truncate", "dump"} /\ kreq'[m].told # "ok"
          /\ kreq'[m].pem = kreq[m].pem /\ kreq'[m].hex = kreq[m].hex
      BY <1>5, <2>5 DEF ReadUdm, TruncateUdm, KeyMakerTyped, Making
    <3>. QED  BY <1>1, <1>3, <1>7, <3>1 DEF Making
  <2>6. CASE DumpUdm(m)
    <3>1. /\ kreq[m].at = "dump" /\ kreq'[m].at = "done"
          /\ kreq'[m].pem = kreq[m].pem /\ kreq'[m].hex = kreq[m].hex
      BY <1>5, <2>6 DEF DumpUdm
    <3>. QED  BY <1>1, <1>3, <1>7, <3>1 DEF Making
  <2>. QED  BY <2>1, <2>2, <2>3, <2>4, <2>5, <2>6 DEF KeyMakerStep
<1>. QED  BY <1>6, <1>7

LEMMA BesideInvariant == Spec => []MadeBeside
<1>1. Init => MadeBeside
  <2>1. ASSUME Init, NEW k \in KeyMakers PROVE kreq[k].at = "idle" /\ kreq[k].told # "ok"
    <3>1. kreq[k] = IdleKeyMaker
      BY <2>1 DEF Init, KeysInit
    <3>. QED  BY <3>1, NothingTold DEF IdleKeyMaker
  <2>. QED  BY <2>1 DEF MadeBeside, Making
<1>2. FilesGood /\ KeysInv /\ Sharing' /\ MadeBeside /\ [Next]_vars => MadeBeside'
  <2>. SUFFICES ASSUME FilesGood, KeysInv, Sharing', MadeBeside, [Next]_vars PROVE MadeBeside'
    OBVIOUS
  <2>1. shared \subseteq shared'
    BY FailuresStay DEF Next, vars
  <2>2. CASE UNCHANGED keyVars
    <3>1. UNCHANGED <<private, kreq>> /\ \A k \in KeyMakers : File(k)' = File(k)
      BY <2>2 DEF keyVars, File
    <3>2. \A k \in KeyMakers : Beside(k) \subseteq Beside(k)'
      BY <2>1, <3>1 DEF Beside
    <3>. QED  BY <3>1, <3>2 DEF MadeBeside
  <2>3. CASE KeysNext
    BY <2>1, <2>3, KeyMakerKeepsBeside DEF KeysInv, KeysNext
  <2>. QED  BY <2>2, <2>3 DEF Next, Act, vars, keyVars
<1>. QED  BY <1>1, <1>2, FilesAlwaysGood, SharingInvariant, KeysInvariant, PTL DEF Spec

\* generate_hnet.py:121-187.  What an administrator is told, as PEM and in hex, is of a
\* key made by this generation or by one that ran beside it with the same number and
\* scheme, however many generations overlap and wherever they fail.
THEOREM ToldKeysAlwaysNew == Spec => []ToldKeysAreNew
<1>1. MadeBeside => ToldKeysAreNew
  BY DEF MadeBeside, ToldKeysAreNew
<1>. QED  BY <1>1, BesideInvariant, PTL
=============================================================================
