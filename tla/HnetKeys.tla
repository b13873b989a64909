------------------------------- MODULE HnetKeys -------------------------------
(***************************************************************************)
(* Home-network keys (HnetController.php, generate_hnet.py).               *)
(*                                                                         *)
(* Generating a key pair is a script of several steps without a lock: it   *)
(* allocates the next identifier from udm.yaml, has openssl write the      *)
(* private key, derives the public one twice, and then reads udm.yaml      *)
(* again, truncates it and writes it with the new entry.  Any step may     *)
(* fail, and what earlier steps did stays.                                 *)
(*                                                                         *)
(* A file's contents are named by the request that wrote them.             *)
(***************************************************************************)
EXTENDS OpncellConfig, Sequences

CONSTANTS KeyMakers,   \* the requests of this module
          Shipped,     \* who wrote the keys the installation came with
          MaxId        \* bound of the identifiers: no instance allocates a higher one

ASSUME KeyMakersAssumption == KeyMakers \subseteq Requests /\ Shipped \notin KeyMakers \union {None}

VARIABLES udm,       \* udm.yaml: entries under hnet, and whether the rest is there
          private,   \* private key files, by scheme and identifier
          public,    \* public key files, by identifier
          kreq       \* the key makers' requests

keyVars == <<udm, private, public, kreq>>

IdleKeyMaker == [at |-> "idle", copy |-> None, id |-> 0, read |-> None,
                 pem |-> None, hex |-> None, told |-> None]

Truncated == [whole |-> FALSE, hnet |-> <<>>]

KeysInit(hnet) ==
  /\ udm = [whole |-> TRUE, hnet |-> hnet]
  /\ private = [f \in Schemes \X (1..MaxId) |->
                  IF \E i \in DOMAIN hnet : <<hnet[i].scheme, hnet[i].id>> = f THEN Shipped ELSE None]
  /\ public = [i \in 1..MaxId |-> None]
  /\ kreq = [k \in KeyMakers |-> IdleKeyMaker]

KeysBusy == {k \in KeyMakers : kreq[k].at \notin {"idle", "done"}}
KeysUsed == {k \in KeyMakers : kreq[k].at # "idle"}

-----------------------------------------------------------------------------
\* addAction() chooses the scheme of the keys to come, generateAction() makes one with
\* the scheme found in config.xml.
Call(k) ==
  /\ kreq[k].at = "idle"
  /\ \/ kreq' = [kreq EXCEPT ![k].at = "allocate", ![k].copy = config]
     \/ \E s \in Schemes :
          kreq' = [kreq EXCEPT ![k].at = "choose", ![k].copy = [config EXCEPT !.scheme = s]]
  /\ UNCHANGED <<configVars, udm, private, public>>

ChooseScheme(k) ==
  /\ kreq[k].at = "choose"
  /\ Save(k, kreq[k].copy)
  /\ kreq' = [kreq EXCEPT ![k].at = "done", ![k].told = "saved"]
  /\ UNCHANGED <<faulty, udm, private, public>>

File(k) == <<kreq[k].copy.scheme, kreq[k].id>>

\* Defect for the checks: the identifier is the number of entries, plus one.
BugCounts(hnet) == Len(hnet) + 1

\* allocate_hnet_id(): one more than the highest identifier; an empty file has none.
NextId(hnet) ==
  IF hnet = <<>> THEN 1
  ELSE (CHOOSE i \in {hnet[n].id : n \in DOMAIN hnet} : \A n \in DOMAIN hnet : hnet[n].id <= i) + 1

Allocate(k) ==
  /\ kreq[k].at = "allocate"
  /\ kreq' = [kreq EXCEPT ![k].id = NextId(udm.hnet), ![k].at = "private"]
  /\ UNCHANGED <<configVars, udm, private, public>>

\* Defect for the checks: the key is entered before it is made, and openssl may fail.
BugEntersFirst(k) ==
  /\ kreq[k].at = "private"
  /\ udm' = [udm EXCEPT !.hnet = Append(@, [id |-> kreq[k].id, scheme |-> kreq[k].copy.scheme])]
  /\ kreq' = [kreq EXCEPT ![k].at = "public"]
  /\ UNCHANGED <<configVars, private, public>>

\* Defect for the checks: a key that a generation left behind which failed later is used
\* again.
BugKeepsFile(k) ==
  /\ kreq[k].at = "private"
  /\ private' = [private EXCEPT ![File(k)] = IF @ = None THEN k ELSE @]
  /\ kreq' = [kreq EXCEPT ![k].at = "public"]
  /\ UNCHANGED <<configVars, udm, public>>

\* openssl replaces a file that is there.
MakePrivate(k) ==
  /\ kreq[k].at = "private"
  /\ private' = [private EXCEPT ![File(k)] = k]
  /\ kreq' = [kreq EXCEPT ![k].at = "public"]
  /\ UNCHANGED <<configVars, udm, public>>

MakePublic(k) ==
  /\ kreq[k].at = "public" /\ private[File(k)] # None
  /\ public' = [public EXCEPT ![kreq[k].id] = private[File(k)]]
  /\ kreq' = [kreq EXCEPT ![k].at = "hex", ![k].pem = private[File(k)]]
  /\ UNCHANGED <<configVars, udm, private>>

\* The hex is the last bytes of the DER form: the whole of a curve25519 key, but of a
\* secp256r1 key, which is not compressed there, the last byte of X and Y.
HexOf(scheme, key) == [key |-> key, whole |-> scheme = 1]

MakeHex(k) ==
  /\ kreq[k].at = "hex" /\ private[File(k)] # None
  /\ kreq' = [kreq EXCEPT ![k].at = "append",
                          ![k].hex = HexOf(kreq[k].copy.scheme, private[File(k)])]
  /\ UNCHANGED <<configVars, udm, private, public>>

\* openssl finds no key in a file that another generation's failure has emptied.
NoKey(k) ==
  /\ kreq[k].at \in {"public", "hex"} /\ private[File(k)] = None
  /\ kreq' = [kreq EXCEPT ![k].at = "done", ![k].told = "failed"]
  /\ UNCHANGED <<configVars, udm, private, public>>

\* append_hnet_entry(): udm.yaml is read, opened for writing, which empties it, ...
ReadUdm(k) ==
  /\ kreq[k].at = "append"
  /\ kreq' = [kreq EXCEPT ![k].at = "truncate", ![k].read = udm]
  /\ UNCHANGED <<configVars, udm, private, public>>

TruncateUdm(k) ==
  /\ kreq[k].at = "truncate"
  /\ udm' = Truncated
  /\ kreq' = [kreq EXCEPT ![k].at = "dump"]
  /\ UNCHANGED <<configVars, private, public>>

\* ... and written.
DumpUdm(k) ==
  /\ kreq[k].at = "dump"
  /\ udm' = [kreq[k].read EXCEPT !.hnet = Append(@, [id |-> kreq[k].id, scheme |-> kreq[k].copy.scheme])]
  /\ kreq' = [kreq EXCEPT ![k].at = "done", ![k].told = "ok"]
  /\ UNCHANGED <<configVars, private, public>>

\* Whatever step fails, the script ends there; openssl may leave an empty file.
Fail(k) ==
  /\ kreq[k].at \in {"allocate", "private", "public", "hex", "append", "truncate", "dump"}
  /\ MayFail(k)
  /\ kreq' = [kreq EXCEPT ![k].at = "done", ![k].told = "failed"]
  /\ \/ UNCHANGED private
     \/ kreq[k].at = "private" /\ private' = [private EXCEPT ![File(k)] = None]
  /\ UNCHANGED <<config, lock, udm, public>>

KeyMakerStep(k) ==
  \/ Call(k) \/ ChooseScheme(k) \/ Allocate(k) \/ MakePrivate(k) \/ MakePublic(k) \/ MakeHex(k)
  \/ NoKey(k) \/ ReadUdm(k) \/ TruncateUdm(k) \/ DumpUdm(k) \/ Fail(k)

KeysNext == \E k \in KeyMakers : KeyMakerStep(k)
===============================================================================
