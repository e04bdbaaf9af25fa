------------------------------- MODULE KeyRing -------------------------------
(***************************************************************************)
(* The per-workspace key ring: core/security.py and the worker that        *)
(* rotates it, workers/keyring_rotation_worker.py.                         *)
(*                                                                         *)
(* Secrets (cloud credentials, TOTP secrets, webhook addresses) are        *)
(* encrypted with the newest active key of their workspace and carry its   *)
(* version.  A rotation is append only: the keys that came of age are      *)
(* deactivated, new versions are added.  Every runner process rotates on   *)
(* its own, and nothing but the unique constraint on (org_id, key_version) *)
(* orders two rotations.                                                   *)
(*                                                                         *)
(* A transaction reads committed rows (READ COMMITTED) and its writes are  *)
(* applied by its commit; an INSERT that meets the unique constraint rolls *)
(* the whole transaction back.                                             *)
(***************************************************************************)
EXTENDS Integers, FiniteSets

CONSTANTS
  Org,          \* workspaces
  Rotator,      \* runner processes that run the rotation worker
  Encryptor,       \* requests that store a secret
  Batch,        \* workspace_key_rotation_batch_size
  MaxVersion,   \* bound on the versions of a ring
  MaxCrashes    \* bound on the rotations that die before their commit

ASSUME KeyRingAssumption ==
  /\ Batch \in Nat \ {0}
  /\ MaxVersion \in Nat \ {0}
  /\ MaxCrashes \in Nat

VARIABLES
  ring,       \* ring[o]: the versions of o's committed keys
  active,     \* active[o]: those with is_active
  aged,       \* aged[o]: those rotated longer than max_age_days ago
  stored,     \* stored[o]: the versions named by o's stored ciphertexts
  rotation,   \* rotation[r]: the transaction of rotator r
  writing,    \* writing[w]: the transaction of request w
  doubled,    \* doubled[o]: keys of o that were rotated once more (history)
  crashes     \* rotations that died (bound)

ringVars == <<ring, active, aged, stored, rotation, writing, doubled, crashes>>

Version == 1 .. MaxVersion
Key == Org \X Version

\* A rotation: the due keys still to handle, those deactivated so far and the
\* keys added so far, none of it committed.
Rotation == [todo : SUBSET Key, retired : SUBSET Key, made : SUBSET Key]
NoRotation == [todo |-> {}, retired |-> {}, made |-> {}]

\* A request that encrypts for `org` under `version`, after it created version 1
\* when `creates`.
NoWrite == [org |-> "none"]
Encryption == [org : Org, version : Version, creates : BOOLEAN]

Of(keys, o) == {v \in Version : <<o, v>> \in keys}
NewestVersion(versions) == CHOOSE v \in versions : \A w \in versions : w <= v

\* coalesce(max(key_version), 0): the transaction's own inserts are flushed
\* before the query, so it sees them.
MaxSeen(r, o) ==
  LET seen == ring[o] \cup Of(rotation[r].made, o)
  IN  IF seen = {} THEN 0 ELSE NewestVersion(seen)

KeyRingInit ==
  /\ ring = [o \in Org |-> {}]
  /\ active = [o \in Org |-> {}]
  /\ aged = [o \in Org |-> {}]
  /\ stored = [o \in Org |-> {}]
  /\ rotation = [r \in Rotator |-> NoRotation]
  /\ writing = [w \in Encryptor |-> NoWrite]
  /\ doubled = [o \in Org |-> 0]
  /\ crashes = 0

----------------------------------------------------------------------------
(***************************************************************************)
(* Storing a secret: ensure_workspace_keyring and encrypt_secret_for_org.  *)
(***************************************************************************)

\* The newest active key is read, or version 1 is about to be created.
EncryptBegin(w, o) ==
  /\ writing[w] = NoWrite
  /\ writing' = [writing EXCEPT ![w] =
       [org |-> o,
        version |-> IF active[o] = {} THEN 1 ELSE NewestVersion(active[o]),
        creates |-> active[o] = {}]]
  /\ UNCHANGED <<ring, active, aged, stored, rotation, doubled, crashes>>

EncryptCommit(w) ==
  LET t == writing[w] IN
  /\ t # NoWrite
  /\ t.creates => 1 \notin ring[t.org]
  /\ IF t.creates
     THEN /\ ring' = [ring EXCEPT ![t.org] = @ \cup {1}]
          /\ active' = [active EXCEPT ![t.org] = @ \cup {1}]
     ELSE UNCHANGED <<ring, active>>
  /\ stored' = [stored EXCEPT ![t.org] = @ \cup {t.version}]
  /\ writing' = [writing EXCEPT ![w] = NoWrite]
  /\ UNCHANGED <<aged, rotation, doubled, crashes>>

\* Another request created version 1 meanwhile: this one fails as a whole.
EncryptConflict(w) ==
  /\ writing[w] # NoWrite
  /\ writing[w].creates
  /\ 1 \in ring[writing[w].org]
  /\ writing' = [writing EXCEPT ![w] = NoWrite]
  /\ UNCHANGED <<ring, active, aged, stored, rotation, doubled, crashes>>

----------------------------------------------------------------------------
(***************************************************************************)
(* Rotation: rotate_expired_workspace_keyrings, once per worker tick.      *)
(***************************************************************************)

\* A key reaches max_age_days.
ComeOfAge(o, v) ==
  /\ v \in active[o] \ aged[o]
  /\ aged' = [aged EXCEPT ![o] = @ \cup {v}]
  /\ UNCHANGED <<ring, active, stored, rotation, writing, doubled, crashes>>

Due == {k \in Key : k[2] \in active[k[1]] /\ k[2] \in aged[k[1]]}

\* The due keys of every workspace, at most Batch of them.
RotateSelect(r) ==
  /\ rotation[r] = NoRotation
  /\ \E due \in SUBSET Due :
       /\ due # {}
       /\ Cardinality(due) <= Batch
       /\ due = Due \/ Cardinality(due) = Batch
       /\ rotation' = [rotation EXCEPT ![r].todo = due]
  /\ UNCHANGED <<ring, active, aged, stored, writing, doubled, crashes>>

\* One turn of the loop: the key is deactivated and its successor added.
RotateKey(r, k) ==
  LET version == MaxSeen(r, k[1]) + 1 IN
  /\ k \in rotation[r].todo
  /\ version <= MaxVersion
  /\ rotation' = [rotation EXCEPT ![r] =
       [todo    |-> @.todo \ {k},
        retired |-> @.retired \cup {k},
        made    |-> @.made \cup {<<k[1], version>>}]]
  /\ UNCHANGED <<ring, active, aged, stored, writing, doubled, crashes>>

Rotated(r) == rotation[r] # NoRotation /\ rotation[r].todo = {}
Clash(r) == \E k \in rotation[r].made : k[2] \in ring[k[1]]

\* Fault: the replaced keys stay active.
StillActiveAll(r, o) == active[o]

\* The keys of o that stay active once r has committed.
StillActive(r, o) == active[o] \ Of(rotation[r].retired, o)

\* Fault: the replaced keys are deleted.
RotateCommitDropping(r) ==
  /\ Rotated(r)
  /\ ~Clash(r)
  /\ ring' = [o \in Org |->
       (ring[o] \ Of(rotation[r].retired, o)) \cup Of(rotation[r].made, o)]
  /\ active' = [o \in Org |-> StillActive(r, o) \cup Of(rotation[r].made, o)]
  /\ doubled' = [o \in Org |->
       doubled[o] + Cardinality(Of(rotation[r].retired, o) \ active[o])]
  /\ rotation' = [rotation EXCEPT ![r] = NoRotation]
  /\ UNCHANGED <<aged, stored, writing, crashes>>

\* Fault: the new keys are added inactive.
RotateCommitInactive(r) ==
  /\ Rotated(r)
  /\ ~Clash(r)
  /\ ring' = [o \in Org |-> ring[o] \cup Of(rotation[r].made, o)]
  /\ active' = [o \in Org |-> StillActive(r, o)]
  /\ doubled' = [o \in Org |->
       doubled[o] + Cardinality(Of(rotation[r].retired, o) \ active[o])]
  /\ rotation' = [rotation EXCEPT ![r] = NoRotation]
  /\ UNCHANGED <<aged, stored, writing, crashes>>

RotateCommit(r) ==
  /\ Rotated(r)
  /\ ~Clash(r)
  /\ ring' = [o \in Org |-> ring[o] \cup Of(rotation[r].made, o)]
  /\ active' = [o \in Org |-> StillActive(r, o) \cup Of(rotation[r].made, o)]
  /\ doubled' = [o \in Org |->
       doubled[o] + Cardinality(Of(rotation[r].retired, o) \ active[o])]
  /\ rotation' = [rotation EXCEPT ![r] = NoRotation]
  /\ UNCHANGED <<aged, stored, writing, crashes>>

\* A version it adds exists by now: the whole batch is rolled back, for every
\* workspace in it, and the next tick starts over.
RotateConflict(r) ==
  /\ rotation[r] # NoRotation
  /\ Clash(r)
  /\ rotation' = [rotation EXCEPT ![r] = NoRotation]
  /\ UNCHANGED <<ring, active, aged, stored, writing, doubled, crashes>>

\* The runner dies, or its session is lost, before the commit.
RotateCrash(r) ==
  /\ rotation[r] # NoRotation
  /\ crashes < MaxCrashes
  /\ rotation' = [rotation EXCEPT ![r] = NoRotation]
  /\ crashes' = crashes + 1
  /\ UNCHANGED <<ring, active, aged, stored, writing, doubled>>

----------------------------------------------------------------------------
KeyRingNext ==
  \/ \E w \in Encryptor, o \in Org : EncryptBegin(w, o)
  \/ \E w \in Encryptor : EncryptCommit(w)
  \/ \E w \in Encryptor : EncryptConflict(w)
  \/ \E o \in Org, v \in Version : ComeOfAge(o, v)
  \/ \E r \in Rotator : RotateSelect(r)
  \/ \E r \in Rotator, k \in Key : RotateKey(r, k)
  \/ \E r \in Rotator : RotateCommit(r)
  \/ \E r \in Rotator : RotateConflict(r)
  \/ \E r \in Rotator : RotateCrash(r)

KeyRingSpec == KeyRingInit /\ [][KeyRingNext]_ringVars

----------------------------------------------------------------------------
(***************************************************************************)
(* Properties.                                                             *)
(***************************************************************************)

\* Every variable has its type.
KeyRingTypeOK ==
  /\ ring \in [Org -> SUBSET Version]
  /\ active \in [Org -> SUBSET Version]
  /\ aged \in [Org -> SUBSET Version]
  /\ stored \in [Org -> SUBSET Version]
  /\ rotation \in [Rotator -> Rotation]
  /\ writing \in [Encryptor -> Encryption \cup {NoWrite}]
  /\ doubled \in [Org -> Nat]
  /\ crashes \in 0 .. MaxCrashes

\* Every stored secret can be decrypted: the version it names is a key of its
\* workspace's ring, whatever rotations and requests ran between the read of
\* the newest key and the commit of the ciphertext
\* (decrypt_secret_for_org, "Workspace keyring not found").
SecretsReadable == \A o \in Org : stored[o] \subseteq ring[o]

\* New secrets use the newest key: once a workspace has keys, the newest of
\* them is active, so ensure_workspace_keyring never falls back to an older
\* version and never creates version 1 a second time.
NewestIsActive == \A o \in Org : ring[o] # {} => NewestVersion(ring[o]) \in active[o]

\* The ring serves its two readers, decrypt_secret_for_org and
\* ensure_workspace_keyring, at every moment.
RingSound == SecretsReadable /\ NewestIsActive

\* A workspace has one active key, and one more for every key that two
\* rotations both replaced: a rotation never leaves fewer or more behind by
\* itself, and what a double rotation added is never taken back.
ActiveKeysCounted ==
  \A o \in Org : ring[o] # {} => Cardinality(active[o]) = 1 + doubled[o]

=============================================================================
