------------------------------ MODULE Keyring ------------------------------
(***************************************************************************)
(* The root keys: EncryptionKeyringStore and EncryptionService.            *)
(*                                                                         *)
(* Instances share a keyring file and may bring keys in their environment. *)
(* An instance that starts loads or creates the keyring under an advisory  *)
(* lock and keeps it in memory from then on; what it encrypts stays in the *)
(* database.                                                               *)
(***************************************************************************)
EXTENDS Naturals

CONSTANTS
    Instances,
    Rows,      \* the rows that can hold an encrypted payload
    MaxId,     \* bound: key ids
    Generated, \* the content of the key that randomBytes makes
    Given,     \* the contents that an operator puts into environments
    None

VARIABLES
    file,     \* keyring.json, or None
    env,      \* ENCRYPTION_KEY_V* and ENCRYPTION_KEY_CURRENT of an instance
    boot,     \* what a starting instance is about to do
    mem,      \* keys and currentKeyId of a running instance, or None
    holder,   \* the instance that holds the advisory lock
    payload,  \* row -> [id, key] it was encrypted with, or None
    trusted   \* history: the file was lost and written anew from an environment

vars == <<file, env, boot, mem, holder, payload, trusted>>

Ids == 1..MaxId
Contents == Given \cup {Generated}
Keys == [Ids -> Contents \cup {None}]
Ring == [keys : Keys, current : Ids]
Environment == [keys : [Ids -> Given \cup {None}], current : Ids \cup {None}]
NoKeys == [k \in Ids |-> None]
Bare == [keys |-> NoKeys, current |-> None]
Payload == [id : Ids, key : Contents]

Encrypted == {r \in Rows : payload[r] # None}
Readable(ring, r) == ring.keys[payload[r].id] = payload[r].key

Init ==
    /\ file = None /\ holder = None /\ trusted = FALSE
    /\ env = [i \in Instances |-> Bare]
    /\ boot = [i \in Instances |-> "off"]
    /\ mem = [i \in Instances |-> None]
    /\ payload = [r \in Rows |-> None]

-----------------------------------------------------------------------------
(* Outside. *)

Configure(i) ==
    /\ boot[i] = "off"
    /\ env' \in {[env EXCEPT ![i] = e] : e \in Environment \ {env[i]}}
    /\ UNCHANGED <<file, boot, mem, holder, payload, trusted>>

\* A deployment without the volume of the secrets.
LoseFile ==
    /\ file # None /\ \A i \in Instances : boot[i] = "off"
    /\ file' = None
    /\ UNCHANGED <<env, boot, mem, holder, payload, trusted>>

Stop(i) ==
    /\ boot[i] # "off"
    /\ boot' = [boot EXCEPT ![i] = "off"]
    /\ mem' = [mem EXCEPT ![i] = None]
    /\ holder' = IF holder = i THEN None ELSE holder
    /\ UNCHANGED <<file, env, payload, trusted>>

-----------------------------------------------------------------------------
(* loadOrCreate. *)

Lock(i) ==
    /\ boot[i] = "off" /\ holder = None
    /\ holder' = i
    /\ boot' = [boot EXCEPT ![i] = "load"]
    /\ UNCHANGED <<file, env, mem, payload, trusted>>

Goes(i, step) == boot' = [boot EXCEPT ![i] = step]
Refuse(i) == Goes(i, "off") /\ holder' = None

MergeOverrides(ring, e) == TRUE \* mutant: a key of the environment replaces the file's
\* One key id, one content.
Agrees(ring, e) == \A k \in Ids : ring.keys[k] = None \/ e.keys[k] \in {None, ring.keys[k]}
Merged(ring, e) ==
    [keys |-> [k \in Ids |-> IF e.keys[k] # None THEN e.keys[k] ELSE ring.keys[k]],
     current |-> IF e.current # None THEN e.current ELSE ring.current]
\* validateKeyring.
Valid(ring) == ring.keys[ring.current] # None

LoadFile(i) ==
    LET ring == Merged(file, env[i]) IN
    /\ boot[i] = "load" /\ file # None
    /\ \/ /\ Agrees(file, env[i]) /\ Valid(ring)
          /\ file' = ring
          /\ Goes(i, "check") /\ UNCHANGED holder
       \/ /\ ~(Agrees(file, env[i]) /\ Valid(ring))
          /\ Refuse(i) /\ UNCHANGED file
    /\ UNCHANGED <<env, mem, payload, trusted>>

Import(i) ==
    LET ring == Merged([keys |-> NoKeys, current |-> 1], env[i]) IN
    /\ boot[i] = "load" /\ file = None /\ env[i].keys # NoKeys
    /\ \/ /\ Valid(ring)
          /\ file' = ring
          /\ trusted' = (trusted \/ Encrypted # {})
          /\ Goes(i, "check") /\ UNCHANGED holder
       \/ /\ ~Valid(ring)
          /\ Refuse(i) /\ UNCHANGED <<file, trusted>>
    /\ UNCHANGED <<env, mem, payload>>

GenerateAlways == TRUE             \* mutant: payloads do not matter
\* hasEncryptedPayloads.
MayGenerate == Encrypted = {}

Generate(i) ==
    /\ boot[i] = "load" /\ file = None /\ env[i].keys = NoKeys
    /\ \/ /\ MayGenerate /\ env[i].current \in {None, 1}
          /\ file' = [keys |-> [NoKeys EXCEPT ![1] = Generated], current |-> 1]
          /\ Goes(i, "check") /\ UNCHANGED holder
       \/ /\ ~(MayGenerate /\ env[i].current \in {None, 1})
          /\ Refuse(i) /\ UNCHANGED file
    /\ UNCHANGED <<env, mem, payload, trusted>>

\* assertReferencedKeysExist looks at the ids of the payloads.
Check(i) ==
    /\ boot[i] = "check"
    /\ holder' = None
    /\ \/ /\ \A r \in Encrypted : file.keys[payload[r].id] # None
          /\ mem' = [mem EXCEPT ![i] = file]
          /\ Goes(i, "running")
       \/ /\ \E r \in Encrypted : file.keys[payload[r].id] = None
          /\ Goes(i, "off") /\ UNCHANGED mem
    /\ UNCHANGED <<file, env, payload, trusted>>

-----------------------------------------------------------------------------
\* encrypt, with the current key of the instance, and the row saved.
Encrypt(i, r) ==
    /\ boot[i] = "running"
    /\ payload' = [payload EXCEPT ![r] = [id |-> mem[i].current, key |-> mem[i].keys[mem[i].current]]]
    /\ UNCHANGED <<file, env, boot, mem, holder, trusted>>

Next ==
    \/ LoseFile
    \/ \E i \in Instances :
          \/ Configure(i) \/ Stop(i) \/ Lock(i)
          \/ LoadFile(i) \/ Import(i) \/ Generate(i) \/ Check(i)
          \/ \E r \in Rows : Encrypt(i, r)

Spec == Init /\ [][Next]_vars

-----------------------------------------------------------------------------
\* The variables have their types.
TypeOK ==
    /\ file \in Ring \cup {None}
    /\ env \in [Instances -> Environment]
    /\ boot \in [Instances -> {"off", "load", "check", "running"}]
    /\ mem \in [Instances -> Ring \cup {None}]
    /\ holder \in Instances \cup {None}
    /\ payload \in [Rows -> Payload \cup {None}]
    /\ trusted \in BOOLEAN

\* An instance that comes up can decrypt every payload there is: through changed
\* environments, rotations, a lost file and restarts it either has the keys or
\* refuses to start.  Excepted is a lost file that is written anew from an
\* environment, whose keys are compared with the payloads by their ids only.
StartReadsAll ==
    [][\A i \in Instances : boot[i] = "check" /\ boot'[i] = "running" =>
          trusted \/ \A r \in Encrypted : Readable(mem'[i], r)]_vars
=============================================================================
