---------------------------- MODULE Tenancy_proofs ----------------------------
(***************************************************************************)
(* Theorems about a tenant, for any number of workspaces, processes,       *)
(* requests, accounts and invites: the key ring serves its readers at      *)
(* every moment, the quota of a workspace is exceeded by overlapping       *)
(* requests only, and what is final stays final unless they overlap.       *)
(***************************************************************************)
EXTENDS Tenancy, AuditChain_proofs, FiniteSetTheorems, TLAPS

-----------------------------------------------------------------------------
(***************************************************************************)
(* The key ring.  Versions are given without gaps, those a rotation has    *)
(* added and not committed included; so a rotation that does not clash has *)
(* added the newest versions, and they are active.                         *)
(***************************************************************************)

\* The newest of some versions up to n is n, if n is among them.
LEMMA NewestIn ==
  ASSUME NEW n \in Nat \ {0}, NEW S, S \subseteq 1 .. n, n \in S
  PROVE  NewestVersion(S) = n
<1>1. \A w \in S : w <= n
  OBVIOUS
<1>2. \A v \in S : (\A w \in S : w <= v) => v = n
  <2> SUFFICES ASSUME NEW v \in S, \A w \in S : w <= v PROVE v = n
    OBVIOUS
  <2>1. v <= n /\ n <= v /\ v \in Int
    BY <1>1
  <2> QED
    BY <2>1
<1>3. NewestVersion(S) \in S /\ \A w \in S : w <= NewestVersion(S)
  BY <1>1 DEF NewestVersion
<1> QED
  BY <1>2, <1>3

\* The versions of o without gaps: the first n.
Gapless(versions) == \E n \in 0 .. MaxVersion : versions = 1 .. n

\* The types that the other parts need.
RingTyped ==
  /\ ring \in [Org -> SUBSET Version]
  /\ active \in [Org -> SUBSET Version]
  /\ stored \in [Org -> SUBSET Version]
  /\ rotation \in [Rotator -> Rotation]
  /\ writing \in [Encryptor -> Encryption \cup {NoWrite}]

RingOK(o) ==
  /\ Gapless(ring[o])
  /\ active[o] \subseteq ring[o] /\ stored[o] \subseteq ring[o]
  /\ ring[o] # {} => NewestVersion(ring[o]) \in active[o]

\* A rotation adds the versions that follow, and adds one for each it retires.
RotationOK(r, o) ==
  /\ Gapless(ring[o] \cup Of(rotation[r].made, o))
  /\ Of(rotation[r].retired, o) # {} => Of(rotation[r].made, o) # {}

\* A request holds a version of the ring, or creates the first.
WriteOK(w) ==
  writing[w] # NoWrite =>
    IF writing[w].creates THEN writing[w].version = 1
    ELSE writing[w].version \in ring[writing[w].org]

RingInv ==
  /\ RingTyped
  /\ \A o \in Org : RingOK(o)
  /\ \A r \in Rotator, o \in Org : RotationOK(r, o)
  /\ \A w \in Encryptor : WriteOK(w)

LEMMA RingInvSound == RingInv => RingSound
BY DEF RingInv, RingOK, RingSound, SecretsReadable, NewestIsActive

LEMMA RingInvInit == KeyRingInit => RingInv
<1> SUFFICES ASSUME KeyRingInit PROVE RingInv
  OBVIOUS
<1>1. NoRotation \in Rotation /\ \A o \in Org : Of(NoRotation.made, o) = {}
                              /\ Of(NoRotation.retired, o) = {}
  BY DEF NoRotation, Rotation, Of
<1>2. Gapless({})
  <2>1. 0 \in 0 .. MaxVersion /\ {} = 1 .. 0
    BY KeyRingAssumption
  <2> QED
    BY <2>1 DEF Gapless
<1> QED
  BY <1>1, <1>2 DEF KeyRingInit, RingInv, RingTyped, RingOK, RotationOK, WriteOK

\* A ring that grows without a gap leaves the others without gaps.
LEMMA GrownGapless ==
  ASSUME NEW S, NEW T, NEW M, Gapless(S), Gapless(T), Gapless(S \cup M), S \subseteq T
  PROVE  Gapless(T \cup M)
<1>1. PICK n \in 0 .. MaxVersion : T = 1 .. n
  BY DEF Gapless
<1>2. PICK m \in 0 .. MaxVersion : S \cup M = 1 .. m
  BY DEF Gapless
<1>3. T \cup M = T \cup (S \cup M)
  OBVIOUS
<1>4. CASE m <= n
  <2>1. T \cup M = 1 .. n
    BY <1>1, <1>2, <1>3, <1>4
  <2> QED
    BY <2>1 DEF Gapless
<1>5. CASE n < m
  <2>1. T \cup M = 1 .. m
    BY <1>1, <1>2, <1>3, <1>5, KeyRingAssumption
  <2> QED
    BY <2>1 DEF Gapless
<1> QED
  BY <1>1, <1>2, <1>4, <1>5, KeyRingAssumption

\* A rotation is typed while its parts are.
LEMMA RotationTyped ==
  ASSUME RingTyped, NEW r \in Rotator
  PROVE  /\ rotation[r].todo \in SUBSET Key /\ rotation[r].retired \in SUBSET Key
         /\ rotation[r].made \in SUBSET Key
BY DEF RingTyped, Rotation

\* An empty rotation adds and retires nothing.
LEMMA NoRotationOK ==
  ASSUME RingTyped, NEW r \in Rotator, rotation' = [rotation EXCEPT ![r] = NoRotation],
         ring' = ring, \A q \in Rotator, o \in Org : RotationOK(q, o),
         \A o \in Org : Gapless(ring[o])
  PROVE  /\ rotation' \in [Rotator -> Rotation]
         /\ \A q \in Rotator, o \in Org : RotationOK(q, o)'
<1>1. NoRotation \in Rotation /\ \A o \in Org : Of(NoRotation.made, o) = {}
                              /\ Of(NoRotation.retired, o) = {}
  BY DEF NoRotation, Rotation, Of
<1>2. rotation'[r] = NoRotation /\ \A q \in Rotator : q # r => rotation'[q] = rotation[q]
  BY DEF RingTyped
<1>3. ASSUME NEW q \in Rotator, NEW o \in Org PROVE RotationOK(q, o)'
  <2>1. CASE q = r
    BY <2>1, <1>1, <1>2 DEF RotationOK
  <2>2. CASE q # r
    BY <2>2, <1>2 DEF RotationOK
  <2> QED
    BY <2>1, <2>2
<1> QED
  BY <1>1, <1>3 DEF RingTyped

\* A secret is stored under the newest active key, or under a first one.
LEMMA EncryptCommitOK ==
  ASSUME RingInv, NEW w \in Encryptor, EncryptCommit(w)
  PROVE  RingInv'
<1> PICK t : t = writing[w]
  OBVIOUS
<1>1. /\ t # NoWrite /\ t \in Encryption /\ t.org \in Org /\ t.version \in Version
      /\ t.creates \in BOOLEAN /\ WriteOK(w)
  BY DEF EncryptCommit, RingInv, RingTyped, Encryption
<1> PICK p \in Org : p = t.org
  BY <1>1
<1>2. /\ t.creates => 1 \notin ring[p]
      /\ IF t.creates
         THEN /\ ring' = [ring EXCEPT ![p] = @ \cup {1}]
              /\ active' = [active EXCEPT ![p] = @ \cup {1}]
         ELSE UNCHANGED <<ring, active>>
      /\ stored' = [stored EXCEPT ![p] = @ \cup {t.version}]
      /\ writing' = [writing EXCEPT ![w] = NoWrite]
      /\ rotation' = rotation
  BY DEF EncryptCommit
<1>3. 1 \in Version /\ 1 \in 0 .. MaxVersion
  BY KeyRingAssumption DEF Version
<1>4. RingTyped'
  BY <1>1, <1>2, <1>3 DEF RingInv, RingTyped
<1>5. \A o \in Org : ring[o] \subseteq ring'[o]
  BY <1>2 DEF RingInv, RingTyped
<1>6. t.creates => ring[p] = {} /\ ring'[p] = 1 .. 1 /\ active'[p] = active[p] \cup {1}
  <2> SUFFICES ASSUME t.creates
               PROVE  ring[p] = {} /\ ring'[p] = 1 .. 1 /\ active'[p] = active[p] \cup {1}
    OBVIOUS
  <2>1. PICK n \in 0 .. MaxVersion : ring[p] = 1 .. n
    BY DEF RingInv, RingOK, Gapless
  <2>2. ring[p] = {}
    BY <1>2, <2>1, KeyRingAssumption
  <2> QED
    BY <1>2, <2>2 DEF RingInv, RingTyped
<1>7. ASSUME NEW o \in Org PROVE RingOK(o)'
  <2>1. RingOK(o)
    BY DEF RingInv
  <2>2. CASE t.creates /\ o = p
    <3>1. Gapless(ring'[o]) /\ ring'[o] = {1}
      <4>1. ring'[o] = 1 .. 1
        BY <1>6, <2>2
      <4>2. Gapless(1 .. 1) /\ 1 .. 1 = {1}
        BY <1>3 DEF Gapless
      <4> QED
        BY <4>1, <4>2
    <3>2. active'[o] = {1}
      BY <1>6, <2>1, <2>2 DEF RingOK
    <3>3. stored'[o] \subseteq ring'[o]
      BY <1>1, <1>2, <2>1, <2>2, <3>1, <1>6 DEF RingOK, WriteOK, RingInv, RingTyped
    <3>4. NewestVersion({1}) = 1
      BY NewestIn
    <3> QED
      BY <3>1, <3>2, <3>3, <3>4 DEF RingOK
  <2>3. CASE ~t.creates \/ o # p
    <3>1. ring'[o] = ring[o] /\ active'[o] = active[o]
      BY <1>2, <2>3 DEF RingInv, RingTyped
    <3>2. stored'[o] \subseteq ring'[o]
      BY <1>1, <1>2, <2>1, <2>3, <3>1 DEF RingOK, WriteOK, RingInv, RingTyped
    <3> QED
      BY <2>1, <3>1, <3>2 DEF RingOK
  <2> QED
    BY <2>2, <2>3
<1>8. ASSUME NEW r \in Rotator, NEW o \in Org PROVE RotationOK(r, o)'
  <2>1. RotationOK(r, o) /\ Gapless(ring[o]) /\ Gapless(ring'[o])
    BY <1>7 DEF RingInv, RingOK
  <2> PICK M : M = Of(rotation[r].made, o)
    OBVIOUS
  <2>2. Gapless(ring'[o] \cup M)
    BY <1>5, <2>1, GrownGapless DEF RotationOK
  <2> QED
    BY <1>2, <2>1, <2>2 DEF RotationOK
<1>9. ASSUME NEW v \in Encryptor PROVE WriteOK(v)'
  <2>1. writing'[v] # NoWrite => writing'[v] = writing[v] /\ writing[v].org \in Org
    BY <1>2 DEF RingInv, RingTyped, Encryption
  <2> QED
    BY <1>5, <2>1 DEF RingInv, WriteOK
<1> QED
  BY <1>4, <1>7, <1>8, <1>9 DEF RingInv

\* A rotation takes the next version for each key.
LEMMA RotateKeyOK ==
  ASSUME RingInv, NEW r \in Rotator, NEW k \in Key, RotateKey(r, k)
  PROVE  RingInv'
<1> PICK p \in Org : p = k[1]
  BY DEF Key
<1>1. PICK m \in 0 .. MaxVersion : ring[p] \cup Of(rotation[r].made, p) = 1 .. m
  BY DEF RingInv, RotationOK, Gapless
<1>2. MaxSeen(r, p) = m
  <2>1. CASE m = 0
    BY <1>1, <2>1 DEF MaxSeen
  <2>2. CASE m # 0
    <3>1. m \in Nat \ {0} /\ m \in 1 .. m
      BY <2>2, KeyRingAssumption
    <3>2. NewestVersion(1 .. m) = m
      BY <3>1, NewestIn
    <3> QED
      BY <1>1, <3>1, <3>2 DEF MaxSeen
  <2> QED
    BY <2>1, <2>2
<1>3. /\ m + 1 <= MaxVersion
      /\ rotation' = [rotation EXCEPT ![r] = [todo    |-> @.todo \ {k},
                                              retired |-> @.retired \cup {k},
                                              made    |-> @.made \cup {<<p, m + 1>>}]]
      /\ UNCHANGED <<ring, active, stored, writing>>
  BY <1>2 DEF RotateKey
<1>4. m + 1 \in Version /\ m + 1 \in 0 .. MaxVersion
  BY <1>3, KeyRingAssumption DEF Version
<1>5. <<p, m + 1>> \in Key
  BY <1>4 DEF Key
<1>6. /\ rotation'[r].todo = rotation[r].todo \ {k}
      /\ rotation'[r].retired = rotation[r].retired \cup {k}
      /\ rotation'[r].made = rotation[r].made \cup {<<p, m + 1>>}
      /\ \A q \in Rotator : q # r => rotation'[q] = rotation[q]
      /\ DOMAIN rotation' = Rotator /\ rotation' = [q \in Rotator |-> rotation'[q]]
      /\ rotation'[r] = [todo |-> rotation'[r].todo, retired |-> rotation'[r].retired,
                         made |-> rotation'[r].made]
  BY <1>3 DEF RingInv, RingTyped
<1>7. rotation' \in [Rotator -> Rotation]
  <2>1. rotation'[r] \in Rotation
    BY <1>5, <1>6, RotationTyped DEF RingInv, Rotation
  <2> QED
    BY <1>6, <2>1 DEF RingInv, RingTyped
<1>8. ASSUME NEW q \in Rotator, NEW o \in Org PROVE RotationOK(q, o)'
  <2>1. RotationOK(q, o)
    BY DEF RingInv
  <2>2. CASE q = r /\ o = p
    <3>1. Of(rotation'[r].made, p) = Of(rotation[r].made, p) \cup {m + 1}
      BY <1>4, <1>6 DEF Of
    <3>2. ring'[p] \cup Of(rotation'[r].made, p) = 1 .. (m + 1)
      BY <1>1, <1>3, <3>1
    <3> QED
      BY <1>4, <2>2, <3>1, <3>2 DEF RotationOK, Gapless
  <2>3. CASE q = r /\ o # p
    <3>1. Of(rotation'[r].made, o) = Of(rotation[r].made, o)
          /\ Of(rotation'[r].retired, o) = Of(rotation[r].retired, o)
      BY <1>6, <2>3 DEF Of
    <3> QED
      BY <1>3, <2>1, <2>3, <3>1 DEF RotationOK
  <2>4. CASE q # r
    BY <1>3, <1>6, <2>1, <2>4 DEF RotationOK
  <2> QED
    BY <2>2, <2>3, <2>4
<1> QED
  BY <1>3, <1>7, <1>8 DEF RingInv, RingTyped, RingOK, WriteOK

\* A rotation that does not clash has added the newest versions.
LEMMA RotateCommitOK ==
  ASSUME RingInv, NEW r \in Rotator, RotateCommit(r)
  PROVE  RingInv'
<1>1. /\ ~Clash(r)
      /\ ring' = [o \in Org |-> ring[o] \cup Of(rotation[r].made, o)]
      /\ active' = [o \in Org |-> StillActive(r, o) \cup Of(rotation[r].made, o)]
      /\ rotation' = [rotation EXCEPT ![r] = NoRotation]
      /\ UNCHANGED <<stored, writing>>
  BY DEF RotateCommit
<1>2. \A o \in Org : ring[o] \subseteq ring'[o] /\ Of(rotation[r].made, o) \subseteq Version
  BY <1>1 DEF Of
<1>3. ASSUME NEW o \in Org PROVE RingOK(o)' /\ Gapless(ring'[o])
  <2> PICK M : M = Of(rotation[r].made, o)
    OBVIOUS
  <2>1. /\ RingOK(o) /\ RotationOK(r, o) /\ ring'[o] = ring[o] \cup M
        /\ active'[o] = (active[o] \ Of(rotation[r].retired, o)) \cup M
    BY <1>1 DEF RingInv, StillActive
  <2>2. Gapless(ring'[o])
    BY <2>1 DEF RotationOK
  <2>3. active'[o] \subseteq ring'[o] /\ stored'[o] \subseteq ring'[o]
    BY <1>1, <2>1 DEF RingOK
  <2>4. CASE M = {}
    <3>1. active'[o] = active[o] /\ ring'[o] = ring[o]
      BY <2>1, <2>4 DEF RotationOK
    <3> QED
      BY <2>1, <2>2, <2>3, <3>1 DEF RingOK
  <2>5. CASE M # {}
    <3>1. PICK n \in 0 .. MaxVersion : ring[o] = 1 .. n
      BY <2>1 DEF RingOK, Gapless
    <3>2. PICK m \in 0 .. MaxVersion : ring'[o] = 1 .. m
      BY <2>2 DEF Gapless
    <3>3. M \cap ring[o] = {}
      BY <1>1 DEF Clash, Of
    <3>4. m \in M /\ m \in Nat \ {0} /\ m \in 1 .. m
      <4>1. n \in Nat /\ m \in Nat
        BY KeyRingAssumption
      <4>2. PICK v \in M : v \in 1 .. m /\ v \notin 1 .. n
        BY <2>1, <2>5, <3>1, <3>2, <3>3
      <4>3. n < m
        BY <4>1, <4>2
      <4>4. m \in 1 .. m /\ m \notin 1 .. n
        BY <4>1, <4>3
      <4> QED
        BY <2>1, <3>1, <3>2, <4>1, <4>3, <4>4
    <3>5. NewestVersion(ring'[o]) = m
      BY <3>2, <3>4, NewestIn
    <3> QED
      BY <2>1, <2>2, <2>3, <3>4, <3>5 DEF RingOK
  <2> QED
    BY <2>2, <2>4, <2>5
<1>5. /\ NoRotation \in Rotation /\ rotation' \in [Rotator -> Rotation]
      /\ rotation'[r] = NoRotation /\ \A q \in Rotator : q # r => rotation'[q] = rotation[q]
  BY <1>1 DEF NoRotation, Rotation, RingInv, RingTyped
<1>6. RingTyped'
  BY <1>1, <1>2, <1>5 DEF RingInv, RingTyped, StillActive
<1>7. ASSUME NEW q \in Rotator, NEW o \in Org PROVE RotationOK(q, o)'
  <2>1. CASE q = r
    <3>1. Of(NoRotation.made, o) = {} /\ Of(NoRotation.retired, o) = {}
      BY DEF NoRotation, Of
    <3> QED
      BY <1>3, <1>5, <2>1, <3>1 DEF RotationOK
  <2>2. CASE q # r
    <3> PICK M : M = Of(rotation[q].made, o)
      OBVIOUS
    <3>1. RotationOK(q, o) /\ Gapless(ring[o]) /\ Gapless(ring'[o])
      BY <1>3 DEF RingInv, RingOK
    <3>2. Gapless(ring'[o] \cup M)
      BY <1>2, <3>1, GrownGapless DEF RotationOK
    <3> QED
      BY <1>5, <2>2, <3>1, <3>2 DEF RotationOK
  <2> QED
    BY <2>1, <2>2
<1>8. ASSUME NEW w \in Encryptor PROVE WriteOK(w)'
  <2>1. writing[w] # NoWrite => writing[w].org \in Org
    BY DEF RingInv, RingTyped, Encryption
  <2> QED
    BY <1>1, <1>2, <2>1 DEF RingInv, WriteOK
<1> QED
  BY <1>3, <1>6, <1>7, <1>8 DEF RingInv

\* A request reads the newest active key.
LEMMA EncryptBeginOK ==
  ASSUME RingInv, NEW w \in Encryptor, NEW o \in Org, EncryptBegin(w, o)
  PROVE  RingInv'
<1> PICK t : t = [org |-> o, version |-> IF active[o] = {} THEN 1 ELSE NewestVersion(active[o]),
                  creates |-> active[o] = {}]
  OBVIOUS
<1>1. writing' = [writing EXCEPT ![w] = t] /\ UNCHANGED <<ring, active, stored, rotation>>
  BY DEF EncryptBegin
<1>2. 1 \in Version
  BY KeyRingAssumption DEF Version
<1>3. active[o] # {} => NewestVersion(active[o]) \in ring[o]
  <2> SUFFICES ASSUME active[o] # {} PROVE NewestVersion(active[o]) \in ring[o]
    OBVIOUS
  <2>1. PICK n \in 0 .. MaxVersion : ring[o] = 1 .. n
    BY DEF RingInv, RingOK, Gapless
  <2>2. active[o] \subseteq 1 .. n /\ ring[o] # {}
    BY <2>1 DEF RingInv, RingOK
  <2>3. n \in Nat \ {0} /\ n \in 1 .. n
    BY <2>1, <2>2, KeyRingAssumption
  <2>4. NewestVersion(ring[o]) = n
    BY <2>1, <2>3, NewestIn
  <2>5. n \in active[o]
    BY <2>2, <2>4 DEF RingInv, RingOK
  <2>6. NewestVersion(active[o]) = n
    BY <2>2, <2>3, <2>5, NewestIn
  <2> QED
    BY <2>1, <2>3, <2>6
<1>4. t \in Encryption /\ t.org = o /\ (IF t.creates THEN t.version = 1 ELSE t.version \in ring[o])
  BY <1>2, <1>3 DEF Encryption, RingInv, RingTyped
<1>5. writing'[w] = t /\ \A v \in Encryptor : v # w => writing'[v] = writing[v]
  BY <1>1 DEF RingInv, RingTyped
<1>6. ASSUME NEW v \in Encryptor PROVE WriteOK(v)'
  BY <1>1, <1>4, <1>5 DEF RingInv, WriteOK
<1> QED
  BY <1>1, <1>4, <1>6 DEF RingInv, RingTyped, RingOK, RotationOK

\* Every step of the key ring keeps its invariant.
LEMMA RingInvStep ==
  ASSUME RingInv, [KeyRingNext]_ringVars
  PROVE  RingInv'
<1>1. ASSUME NEW w \in Encryptor, NEW o \in Org, EncryptBegin(w, o) PROVE RingInv'
  BY <1>1, EncryptBeginOK
<1>2. ASSUME NEW w \in Encryptor, EncryptCommit(w) PROVE RingInv'
  BY <1>2, EncryptCommitOK
<1>3. ASSUME NEW w \in Encryptor, EncryptConflict(w) PROVE RingInv'
  <2>1. /\ writing' = [writing EXCEPT ![w] = NoWrite]
        /\ UNCHANGED <<ring, active, stored, rotation>>
    BY <1>3 DEF EncryptConflict
  <2>2. writing'[w] = NoWrite /\ \A v \in Encryptor : v # w => writing'[v] = writing[v]
    BY <2>1 DEF RingInv, RingTyped
  <2>3. \A v \in Encryptor : WriteOK(v)'
    BY <2>1, <2>2 DEF RingInv, WriteOK
  <2> QED
    BY <2>1, <2>3 DEF RingInv, RingTyped, RingOK, RotationOK
<1>4. ASSUME NEW o \in Org, NEW v \in Version, ComeOfAge(o, v) PROVE RingInv'
  BY <1>4 DEF ComeOfAge, RingInv, RingTyped, RingOK, RotationOK, WriteOK
<1>5. ASSUME NEW r \in Rotator, RotateSelect(r) PROVE RingInv'
  <2>1. PICK due \in SUBSET Due : rotation' = [rotation EXCEPT ![r].todo = due]
    BY <1>5 DEF RotateSelect
  <2>2. UNCHANGED <<ring, active, stored, writing>> /\ due \in SUBSET Key
    BY <1>5 DEF RotateSelect, Due
  <2>3. /\ rotation' \in [Rotator -> Rotation]
        /\ \A q \in Rotator : /\ rotation'[q].made = rotation[q].made
                              /\ rotation'[q].retired = rotation[q].retired
    BY <2>1, <2>2 DEF RingInv, RingTyped, Rotation
  <2> QED
    BY <2>2, <2>3 DEF RingInv, RingTyped, RingOK, RotationOK, WriteOK
<1>6. ASSUME NEW r \in Rotator, NEW k \in Key, RotateKey(r, k) PROVE RingInv'
  BY <1>6, RotateKeyOK
<1>7. ASSUME NEW r \in Rotator, RotateCommit(r) PROVE RingInv'
  BY <1>7, RotateCommitOK
<1>8. ASSUME NEW r \in Rotator, RotateConflict(r) \/ RotateCrash(r) PROVE RingInv'
  <2>1. /\ rotation' = [rotation EXCEPT ![r] = NoRotation]
        /\ UNCHANGED <<ring, active, stored, writing>>
    BY <1>8 DEF RotateConflict, RotateCrash
  <2>2. /\ rotation' \in [Rotator -> Rotation]
        /\ \A q \in Rotator, o \in Org : RotationOK(q, o)'
    BY <2>1, NoRotationOK DEF RingInv, RingOK
  <2> QED
    BY <2>1, <2>2 DEF RingInv, RingTyped, RingOK, WriteOK
<1>9. CASE UNCHANGED ringVars
  BY <1>9 DEF ringVars, RingInv, RingTyped, RingOK, RotationOK, WriteOK
<1> QED
  BY <1>1, <1>2, <1>3, <1>4, <1>5, <1>6, <1>7, <1>8, <1>9 DEF KeyRingNext

\* RingSound: every stored secret names a version of its workspace's ring, and the
\* newest version is active, whatever rotations and requests overlap.
THEOREM RingStaysSound == KeyRingSpec => []RingSound
<1>1. RingInv /\ [KeyRingNext]_ringVars => RingInv'
  BY RingInvStep
<1> QED
  BY <1>1, RingInvInit, RingInvSound, PTL DEF KeyRingSpec

-----------------------------------------------------------------------------
(***************************************************************************)
(* How many keys are active.  A rotation adds as many versions as it       *)
(* retires keys, all of them keys of the ring; those that are still active *)
(* when it commits are replaced one for one, and each of the others was    *)
(* rotated once more.                                                      *)
(***************************************************************************)

\* Every key is handled once, and for every key retired there is one added.
Paired(r, o) ==
  /\ Of(rotation[r].todo, o) \subseteq ring[o] /\ Of(rotation[r].retired, o) \subseteq ring[o]
  /\ rotation[r].todo \cap rotation[r].retired = {}
  /\ Cardinality(Of(rotation[r].made, o)) = Cardinality(Of(rotation[r].retired, o))

Counted(o) ==
  /\ doubled[o] \in Nat
  /\ IF ring[o] = {} THEN doubled[o] = 0 ELSE Cardinality(active[o]) = 1 + doubled[o]

CountInv ==
  /\ RingInv
  /\ aged \in [Org -> SUBSET Version] /\ doubled \in [Org -> Nat] /\ crashes \in 0 .. MaxCrashes
  /\ \A r \in Rotator, o \in Org : Paired(r, o)
  /\ \A o \in Org : Counted(o)

\* The versions that a set of keys holds of one workspace can be counted.
LEMMA OfCounted ==
  ASSUME NEW keys, NEW o
  PROVE  /\ Of(keys, o) \subseteq Version /\ IsFiniteSet(Of(keys, o))
         /\ Cardinality(Of(keys, o)) \in Nat
<1>1. IsFiniteSet(Version)
  BY FS_Interval, KeyRingAssumption DEF Version
<1>2. Of(keys, o) \in SUBSET Version
  BY DEF Of
<1> QED
  BY <1>1, <1>2, FS_Subset, FS_CardinalityType

\* What is replaced one for one leaves the number as it was: of the keys that are
\* replaced, those no longer active count on top.
LEMMA Replaced ==
  ASSUME NEW A, NEW R, NEW M, IsFiniteSet(A), IsFiniteSet(R), IsFiniteSet(M),
         M \cap A = {}, Cardinality(M) = Cardinality(R)
  PROVE  /\ Cardinality(R \ A) \in Nat
         /\ Cardinality((A \ R) \cup M) = Cardinality(A) + Cardinality(R \ A)
<1>1. /\ IsFiniteSet(A \ R) /\ Cardinality(A \ R) = Cardinality(A) - Cardinality(A \cap R)
      /\ IsFiniteSet(R \ A) /\ Cardinality(R \ A) = Cardinality(R) - Cardinality(R \cap A)
  BY FS_Difference
<1>2. Cardinality(A \cap R) = Cardinality(R \cap A) /\ (A \ R) \cap M = {}
  <2>1. A \cap R = R \cap A
    OBVIOUS
  <2> QED
    BY <2>1
<1>3. Cardinality((A \ R) \cup M)
        = Cardinality(A \ R) + Cardinality(M) - Cardinality((A \ R) \cap M)
  BY <1>1, FS_Union
<1>4. Cardinality((A \ R) \cap M) = 0
  BY <1>2, FS_EmptySet
<1>5. /\ Cardinality(A) \in Nat /\ Cardinality(R) \in Nat /\ Cardinality(R \ A) \in Nat
      /\ IsFiniteSet(A \cap R) /\ Cardinality(A \cap R) \in Nat
  BY <1>1, FS_Intersection, FS_CardinalityType
<1> QED
  BY <1>1, <1>2, <1>3, <1>4, <1>5

LEMMA CountInvInit == KeyRingInit => CountInv
<1> SUFFICES ASSUME KeyRingInit PROVE CountInv
  OBVIOUS
<1>1. \A o \in Org : Of({}, o) = {}
  BY DEF Of
<1>2. 0 \in 0 .. MaxCrashes
  BY KeyRingAssumption
<1> QED
  BY <1>1, <1>2, RingInvInit DEF KeyRingInit, CountInv, Paired, Counted, NoRotation

\* An abandoned rotation retires and adds nothing.
LEMMA NoRotationPaired ==
  ASSUME CountInv, NEW r \in Rotator, rotation' = [rotation EXCEPT ![r] = NoRotation],
         \A o \in Org : ring[o] \subseteq ring'[o]
  PROVE  \A q \in Rotator, o \in Org : Paired(q, o)'
<1>1. \A o \in Org : Of({}, o) = {}
  BY DEF Of
<1>2. rotation'[r] = NoRotation /\ \A q \in Rotator : q # r => rotation'[q] = rotation[q]
  BY DEF CountInv, RingInv, RingTyped
<1> SUFFICES ASSUME NEW q \in Rotator, NEW o \in Org PROVE Paired(q, o)'
  OBVIOUS
<1>3. CASE q = r
  BY <1>1, <1>2, <1>3 DEF Paired, NoRotation
<1>4. CASE q # r
  BY <1>2, <1>4 DEF CountInv, Paired
<1> QED
  BY <1>3, <1>4

\* A turn of the loop retires a key that was not retired yet, and adds a version that
\* the rotation had not added yet.
LEMMA RotateKeyCounted ==
  ASSUME CountInv, NEW r \in Rotator, NEW k \in Key, RotateKey(r, k)
  PROVE  \A q \in Rotator, o \in Org : Paired(q, o)'
<1> PICK p \in Org : p = k[1]
  BY DEF Key
<1> PICK v \in Version : v = k[2] /\ k = <<p, v>>
  BY DEF Key
<1> PICK n : n = MaxSeen(r, p) + 1
  OBVIOUS
<1>1. n \notin Of(rotation[r].made, p)
  <2>1. PICK m \in 0 .. MaxVersion : ring[p] \cup Of(rotation[r].made, p) = 1 .. m
    BY DEF CountInv, RingInv, RotationOK, Gapless
  <2>2. MaxSeen(r, p) = m
    <3>1. CASE m = 0
      BY <2>1, <3>1 DEF MaxSeen
    <3>2. CASE m # 0
      <4>1. m \in Nat \ {0} /\ m \in 1 .. m
        BY <3>2, KeyRingAssumption
      <4>2. NewestVersion(1 .. m) = m
        BY <4>1, NewestIn
      <4> QED
        BY <2>1, <4>1, <4>2 DEF MaxSeen
    <3> QED
      BY <3>1, <3>2
  <2> QED
    BY <2>1, <2>2, KeyRingAssumption
<1>2. /\ k \in rotation[r].todo /\ ring' = ring
      /\ rotation' = [rotation EXCEPT ![r] = [todo    |-> @.todo \ {k},
                                              retired |-> @.retired \cup {k},
                                              made    |-> @.made \cup {<<p, n>>}]]
  BY DEF RotateKey
<1>3. n \in Version
  <2>1. RingInv'
    BY RotateKeyOK DEF CountInv
  <2>2. <<p, n>> \in rotation'[r].made
    BY <1>2 DEF CountInv, RingInv, RingTyped
  <2>3. rotation'[r].made \in SUBSET Key
    BY <2>1 DEF RingInv, RingTyped, Rotation
  <2> QED
    BY <2>2, <2>3 DEF Key
<1>4. /\ rotation'[r].todo = rotation[r].todo \ {k}
      /\ rotation'[r].retired = rotation[r].retired \cup {k}
      /\ rotation'[r].made = rotation[r].made \cup {<<p, n>>}
      /\ \A q \in Rotator : q # r => rotation'[q] = rotation[q]
  BY <1>2 DEF CountInv, RingInv, RingTyped
<1> SUFFICES ASSUME NEW q \in Rotator, NEW o \in Org PROVE Paired(q, o)'
  OBVIOUS
<1>5. Paired(q, o)
  BY DEF CountInv
<1>6. CASE q # r
  BY <1>2, <1>4, <1>5, <1>6 DEF Paired
<1>7. CASE q = r /\ o # p
  <2>1. /\ Of(rotation'[r].todo, o) = Of(rotation[r].todo, o)
        /\ Of(rotation'[r].retired, o) = Of(rotation[r].retired, o)
        /\ Of(rotation'[r].made, o) = Of(rotation[r].made, o)
    BY <1>4, <1>7 DEF Of
  <2> QED
    BY <1>2, <1>4, <1>5, <1>7, <2>1 DEF Paired
<1>8. CASE q = r /\ o = p
  <2>1. /\ Of(rotation'[r].todo, p) \subseteq Of(rotation[r].todo, p)
        /\ Of(rotation'[r].retired, p) = Of(rotation[r].retired, p) \cup {v}
        /\ Of(rotation'[r].made, p) = Of(rotation[r].made, p) \cup {n}
    BY <1>3, <1>4 DEF Of
  <2>2. v \in Of(rotation[r].todo, p) /\ v \notin Of(rotation[r].retired, p)
    BY <1>2, <1>5, <1>8 DEF Of, Paired
  <2>3. /\ Cardinality(Of(rotation'[r].retired, p)) = Cardinality(Of(rotation[r].retired, p)) + 1
        /\ Cardinality(Of(rotation'[r].made, p)) = Cardinality(Of(rotation[r].made, p)) + 1
    BY <1>1, <2>1, <2>2, OfCounted, FS_AddElement
  <2>4. rotation'[r].todo \cap rotation'[r].retired = {}
    BY <1>4, <1>5, <1>8 DEF Paired
  <2>5. /\ Of(rotation'[r].todo, p) \subseteq ring[p]
        /\ Of(rotation'[r].retired, p) \subseteq ring[p]
    BY <1>5, <1>8, <2>1, <2>2 DEF Paired
  <2>6. Cardinality(Of(rotation'[r].made, p)) = Cardinality(Of(rotation'[r].retired, p))
    BY <1>5, <1>8, <2>3 DEF Paired
  <2> QED
    BY <1>2, <1>8, <2>4, <2>5, <2>6 DEF Paired
<1> QED
  BY <1>6, <1>7, <1>8

\* The commit of a rotation replaces the active keys one for one.
LEMMA RotateCommitCounted ==
  ASSUME CountInv, NEW r \in Rotator, RotateCommit(r), NEW o \in Org
  PROVE  Counted(o)'
<1> PICK R : R = Of(rotation[r].retired, o)
  OBVIOUS
<1> PICK M : M = Of(rotation[r].made, o)
  OBVIOUS
<1>1. /\ ring'[o] = ring[o] \cup M /\ active'[o] = (active[o] \ R) \cup M
      /\ doubled'[o] = doubled[o] + Cardinality(R \ active[o])
  BY DEF RotateCommit, StillActive
<1>2. M \cap ring[o] = {}
  BY DEF RotateCommit, Clash, Of
<1>3. active[o] \subseteq ring[o] /\ active[o] \in SUBSET Version /\ R \subseteq ring[o]
      /\ Cardinality(M) = Cardinality(R)
  BY DEF CountInv, RingInv, RingTyped, RingOK, Paired
<1>4. IsFiniteSet(active[o]) /\ IsFiniteSet(R) /\ IsFiniteSet(M) /\ Cardinality(active[o]) \in Nat
  <2>1. IsFiniteSet(Version)
    BY FS_Interval, KeyRingAssumption DEF Version
  <2> QED
    BY <1>3, <2>1, OfCounted, FS_Subset, FS_CardinalityType
<1>5. Counted(o)
  BY DEF CountInv
<1>6. CASE ring[o] = {}
  <2>1. R = {} /\ active[o] = {} /\ R \ active[o] = {}
    BY <1>3, <1>6
  <2>2. Cardinality(M) = 0 /\ Cardinality(R \ active[o]) = 0
    BY <1>3, <2>1, FS_EmptySet
  <2>3. M = {}
    BY <1>4, <2>2, FS_EmptySet
  <2> QED
    BY <1>1, <1>5, <1>6, <2>2, <2>3 DEF Counted
<1>7. CASE ring[o] # {}
  <2>1. M \cap active[o] = {}
    BY <1>2, <1>3
  <2> PICK A : A = active[o]
    OBVIOUS
  <2>2. /\ Cardinality(R \ A) \in Nat
        /\ Cardinality((A \ R) \cup M) = Cardinality(A) + Cardinality(R \ A)
    BY <1>3, <1>4, <2>1, Replaced
  <2>3. doubled[o] \in Nat /\ Cardinality(active[o]) = 1 + doubled[o] /\ ring'[o] # {}
    BY <1>1, <1>5, <1>7 DEF Counted
  <2> QED
    BY <1>1, <2>2, <2>3 DEF Counted
<1> QED
  BY <1>6, <1>7

\* A secret stored under the first key leaves one active key.
LEMMA EncryptCommitCounted ==
  ASSUME CountInv, NEW w \in Encryptor, EncryptCommit(w), NEW o \in Org
  PROVE  Counted(o)' /\ ring[o] \subseteq ring'[o]
<1> PICK t : t = writing[w]
  OBVIOUS
<1>1. /\ t.org \in Org /\ t.creates \in BOOLEAN /\ (t.creates => 1 \notin ring[t.org])
      /\ IF t.creates
         THEN /\ ring' = [ring EXCEPT ![t.org] = @ \cup {1}]
              /\ active' = [active EXCEPT ![t.org] = @ \cup {1}]
         ELSE UNCHANGED <<ring, active>>
      /\ doubled' = doubled
  BY DEF EncryptCommit, CountInv, RingInv, RingTyped, Encryption
<1>2. Counted(o) /\ active[o] \subseteq ring[o]
  BY DEF CountInv, RingInv, RingOK
<1>3. CASE t.creates /\ o = t.org
  <2>1. PICK n \in 0 .. MaxVersion : ring[o] = 1 .. n
    BY DEF CountInv, RingInv, RingOK, Gapless
  <2>2. ring[o] = {} /\ active[o] = {}
    BY <1>1, <1>2, <1>3, <2>1, KeyRingAssumption
  <2>3. ring'[o] = {1} /\ active'[o] = {1}
    BY <1>1, <1>3, <2>2 DEF CountInv, RingInv, RingTyped
  <2>4. Cardinality({1}) = 1
    BY FS_Singleton
  <2> QED
    BY <1>1, <1>2, <2>2, <2>3, <2>4 DEF Counted
<1>4. CASE ~t.creates \/ o # t.org
  <2>1. ring'[o] = ring[o] /\ active'[o] = active[o]
    BY <1>1, <1>4 DEF CountInv, RingInv, RingTyped
  <2> QED
    BY <1>1, <1>2, <2>1 DEF Counted
<1> QED
  BY <1>3, <1>4

\* Every step of the key ring keeps the count.
LEMMA CountInvStep ==
  ASSUME CountInv, [KeyRingNext]_ringVars
  PROVE  CountInv'
<1>0. RingInv'
  BY RingInvStep DEF CountInv
<1>1. ASSUME UNCHANGED <<ring, active, aged, rotation, doubled, crashes>> PROVE CountInv'
  BY <1>0, <1>1 DEF CountInv, Paired, Counted
<1>2. ASSUME NEW w \in Encryptor, (\E o \in Org : EncryptBegin(w, o)) \/ EncryptConflict(w)
      PROVE  CountInv'
  <2>1. UNCHANGED <<ring, active, aged, rotation, doubled, crashes>>
    BY <1>2 DEF EncryptBegin, EncryptConflict
  <2> QED
    BY <1>1, <2>1
<1>3. ASSUME NEW w \in Encryptor, EncryptCommit(w) PROVE CountInv'
  <2>1. UNCHANGED <<aged, rotation, doubled, crashes>>
    BY <1>3 DEF EncryptCommit
  <2>2. \A o \in Org : Counted(o)' /\ ring[o] \subseteq ring'[o]
    BY <1>3, EncryptCommitCounted
  <2>3. \A r \in Rotator, o \in Org : Paired(r, o)'
    BY <2>1, <2>2 DEF CountInv, Paired
  <2> QED
    BY <1>0, <2>1, <2>2, <2>3 DEF CountInv
<1>4. ASSUME NEW o \in Org, NEW v \in Version, ComeOfAge(o, v) PROVE CountInv'
  <2>1. /\ aged' = [aged EXCEPT ![o] = @ \cup {v}]
        /\ UNCHANGED <<ring, active, rotation, doubled, crashes>>
    BY <1>4 DEF ComeOfAge
  <2>2. aged' \in [Org -> SUBSET Version]
    BY <2>1 DEF CountInv
  <2> QED
    BY <1>0, <2>1, <2>2 DEF CountInv, Paired, Counted
<1>5. ASSUME NEW r \in Rotator, RotateSelect(r) PROVE CountInv'
  <2>1. PICK due \in SUBSET Due : rotation' = [rotation EXCEPT ![r].todo = due]
    BY <1>5 DEF RotateSelect
  <2>2. /\ rotation[r] = NoRotation /\ due \in SUBSET Due
        /\ UNCHANGED <<ring, active, aged, doubled, crashes>>
    BY <1>5 DEF RotateSelect
  <2>3. /\ rotation'[r] = [NoRotation EXCEPT !.todo = due]
        /\ \A q \in Rotator : q # r => rotation'[q] = rotation[q]
    BY <2>1, <2>2 DEF CountInv, RingInv, RingTyped
  <2>4. ASSUME NEW q \in Rotator, NEW o \in Org PROVE Paired(q, o)'
    <3>1. Paired(q, o)
      BY DEF CountInv
    <3>2. CASE q = r
      <4>1. /\ rotation'[r].todo = due /\ rotation'[r].retired = rotation[r].retired
            /\ rotation'[r].made = rotation[r].made /\ rotation[r].retired = {}
        BY <2>2, <2>3 DEF NoRotation
      <4>2. Of(due, o) \subseteq ring[o]
        BY DEF Due, Of, CountInv, RingInv, RingOK
      <4> QED
        BY <2>2, <3>1, <3>2, <4>1, <4>2 DEF Paired
    <3>3. CASE q # r
      BY <2>2, <2>3, <3>1, <3>3 DEF Paired
    <3> QED
      BY <3>2, <3>3
  <2> QED
    BY <1>0, <2>2, <2>4 DEF CountInv, Counted
<1>6. ASSUME NEW r \in Rotator, NEW k \in Key, RotateKey(r, k) PROVE CountInv'
  <2>1. UNCHANGED <<ring, active, aged, doubled, crashes>>
    BY <1>6 DEF RotateKey
  <2>2. \A q \in Rotator, o \in Org : Paired(q, o)'
    BY <1>6, RotateKeyCounted
  <2> QED
    BY <1>0, <2>1, <2>2 DEF CountInv, Counted
<1>7. ASSUME NEW r \in Rotator, RotateCommit(r) PROVE CountInv'
  <2>1. /\ rotation' = [rotation EXCEPT ![r] = NoRotation] /\ UNCHANGED <<aged, crashes>>
        /\ \A o \in Org : ring[o] \subseteq ring'[o]
    BY <1>7 DEF RotateCommit
  <2>2. \A q \in Rotator, o \in Org : Paired(q, o)'
    BY <2>1, NoRotationPaired
  <2>3. \A o \in Org : Counted(o)'
    BY <1>7, RotateCommitCounted
  <2>4. doubled' \in [Org -> Nat]
    <3>1. doubled' = [o \in Org |-> doubled'[o]]
      BY <1>7 DEF RotateCommit
    <3> QED
      BY <2>3, <3>1 DEF Counted
  <2> QED
    BY <1>0, <2>1, <2>2, <2>3, <2>4 DEF CountInv
<1>8. ASSUME NEW r \in Rotator, RotateConflict(r) \/ RotateCrash(r) PROVE CountInv'
  <2>1. /\ rotation' = [rotation EXCEPT ![r] = NoRotation]
        /\ UNCHANGED <<ring, active, aged, doubled>> /\ crashes' \in 0 .. MaxCrashes
    BY <1>8, KeyRingAssumption DEF RotateConflict, RotateCrash, CountInv
  <2>2. \A q \in Rotator, o \in Org : Paired(q, o)'
    BY <2>1, NoRotationPaired
  <2> QED
    BY <1>0, <2>1, <2>2 DEF CountInv, Counted
<1>9. CASE UNCHANGED ringVars
  BY <1>1, <1>9 DEF ringVars
<1> QED
  BY <1>2, <1>3, <1>4, <1>5, <1>6, <1>7, <1>8, <1>9 DEF KeyRingNext

LEMMA CountInvHolds == CountInv => KeyRingTypeOK /\ ActiveKeysCounted
BY DEF CountInv, Counted, RingInv, RingTyped, KeyRingTypeOK, ActiveKeysCounted

\* KeyRingTypeOK: every variable of the key ring has its type.
THEOREM RingTypeCorrect == KeyRingSpec => []KeyRingTypeOK
<1>1. CountInv /\ [KeyRingNext]_ringVars => CountInv'
  BY CountInvStep
<1> QED
  BY <1>1, CountInvInit, CountInvHolds, PTL DEF KeyRingSpec

\* ActiveKeysCounted: a workspace with keys has one active key, and one more for every
\* key that two rotations both replaced.
THEOREM ActiveKeysAreCounted == KeyRingSpec => []ActiveKeysCounted
<1>1. CountInv /\ [KeyRingNext]_ringVars => CountInv'
  BY CountInvStep
<1> QED
  BY <1>1, CountInvInit, CountInvHolds, PTL DEF KeyRingSpec

-----------------------------------------------------------------------------
(***************************************************************************)
(* The workspace.  Each request in flight that adds an account was let in  *)
(* below the quota, and there are no more of them than requests.           *)
(***************************************************************************)

\* The requests that are about to add an account.
Adding == {r \in Request : request[r].op \in {"accept", "create"}}

\* The types that the other parts need.
WorkTyped ==
  /\ request \in [Request -> Work \cup {NoRequest}]
  /\ isActive \subseteq Member
  /\ invite \in [Invite -> [status : Status, to : Email \cup {Nobody}]]
  /\ late \subseteq Pending

QuotaOK ==
  /\ IsFiniteSet(isActive)
  /\ Cardinality(isActive) + Cardinality(Adding) < Quota + Cardinality(Request)

\* What a request that nobody overtook has read is still so.
RequestOK(r) ==
  /\ Doing(r, "suspend") \/ Doing(r, "restore") \/ Doing(r, "archive") => request[r].rows = {"org"}
  /\ Doing(r, "accept") \/ Doing(r, "expire") \/ Doing(r, "revoke") => request[r].rows \subseteq Invite
  /\ r \notin overlapped =>
       /\ Doing(r, "suspend") \/ Doing(r, "restore") => lifecycle # "archived"
       /\ Doing(r, "accept") \/ Doing(r, "expire") \/ Doing(r, "revoke") =>
            request[r].rows \subseteq Pending

WorkInv == WorkTyped /\ QuotaOK /\ \A r \in Request : RequestOK(r)

\* The cardinality of the requests that add an account.
LEMMA AddingCounted ==
  /\ IsFiniteSet(Adding) /\ Cardinality(Adding) \in Nat /\ Cardinality(Request) \in Nat
  /\ Cardinality(Adding) <= Cardinality(Request)
<1>1. IsFiniteSet(Request) /\ Adding \in SUBSET Request
  BY WorkspaceAssumption DEF Adding
<1> QED
  BY <1>1, FS_Subset, FS_CardinalityType

LEMMA QuotaInvHolds == WorkInv => WithinQuota
<1> SUFFICES ASSUME WorkInv PROVE WithinQuota
  OBVIOUS
<1>1. Cardinality(isActive) \in Nat
  BY FS_CardinalityType DEF WorkInv, QuotaOK
<1> QED
  BY <1>1, AddingCounted, WorkspaceAssumption DEF WorkInv, QuotaOK, WithinQuota

\* A request that begins: what it has read is so, and it was let in below the quota
\* if it adds an account.
LEMMA BeginKeeps ==
  ASSUME WorkInv, NEW r \in Request, NEW op \in Op, NEW rows \in SUBSET Row,
         NEW to \in Email \cup {Nobody}, Begin(r, op, rows, to),
         op \in {"accept", "create"} => HasRoom,
         op \in {"suspend", "restore", "archive"} => rows = {"org"},
         op \in {"suspend", "restore"} => lifecycle # "archived",
         op \in {"accept", "expire", "revoke"} => rows \subseteq Pending
  PROVE  WorkInv'
<1> PICK t : t = [op |-> op, rows |-> rows, to |-> to]
  OBVIOUS
<1>1. /\ request[r] = NoRequest /\ request' = [request EXCEPT ![r] = t]
      /\ UNCHANGED <<lifecycle, isActive, invite, late, overlapped>>
  BY DEF Begin
<1>2. t \in Work /\ t.op = op /\ t.rows = rows
  BY DEF Work
<1>3. request'[r] = t /\ \A q \in Request : q # r => request'[q] = request[q]
  BY <1>1 DEF WorkInv, WorkTyped
<1>4. WorkTyped'
  BY <1>1, <1>2 DEF WorkInv, WorkTyped, Pending
<1>5. ASSUME NEW q \in Request PROVE RequestOK(q)'
  <2>1. CASE q = r
    BY <1>1, <1>2, <1>3, <2>1 DEF RequestOK, Doing, Pending, Op
  <2>2. CASE q # r
    BY <1>1, <1>3, <2>2 DEF WorkInv, RequestOK, Doing, Pending
  <2> QED
    BY <2>1, <2>2
<1>6. Cardinality(isActive) \in Nat /\ Quota \in Nat
  BY FS_CardinalityType, WorkspaceAssumption DEF WorkInv, QuotaOK
<1>7. /\ Cardinality(Adding)' \in Nat /\ Cardinality(Request) \in Nat
      /\ Cardinality(Adding)' <= Cardinality(Request)
  <2>1. IsFiniteSet(Request) /\ Adding' \in SUBSET Request
    BY WorkspaceAssumption DEF Adding
  <2> QED
    BY <2>1, FS_Subset, FS_CardinalityType
<1>8. CASE op \in {"accept", "create"}
  <2>1. Cardinality(isActive) < Quota
    BY <1>8 DEF HasRoom
  <2>2. QuotaOK'
    BY <1>1, <1>6, <1>7, <2>1 DEF WorkInv, QuotaOK
  <2> QED
    BY <1>4, <1>5, <2>2 DEF WorkInv
<1>9. CASE op \notin {"accept", "create"}
  <2>1. Adding' = Adding
    BY <1>1, <1>2, <1>3, <1>9 DEF Adding, NoRequest
  <2> QED
    BY <1>1, <1>4, <1>5, <2>1 DEF WorkInv, QuotaOK
<1> QED
  BY <1>8, <1>9

\* A request that ends leaves the others as right as they were, or overtaken.
LEMMA EndKeepsRequests ==
  ASSUME WorkInv, NEW r \in Request, NEW written, End(r, written),
         lifecycle' = lifecycle \/ "org" \in written,
         Pending \ written \subseteq Pending'
  PROVE  /\ request' \in [Request -> Work \cup {NoRequest}]
         /\ Adding' = Adding \ {r}
         /\ \A q \in Request : RequestOK(q)'
<1>1. /\ request' = [request EXCEPT ![r] = NoRequest]
      /\ overlapped' = (overlapped \ {r}) \cup
           {q \in Request \ {r} : request[q].rows \cap written # {}}
  BY DEF End
<1>2. request'[r] = NoRequest /\ \A q \in Request : q # r => request'[q] = request[q]
  BY <1>1 DEF WorkInv, WorkTyped
<1>3. Adding' = Adding \ {r}
  BY <1>2 DEF Adding, NoRequest
<1>4. ASSUME NEW q \in Request PROVE RequestOK(q)'
  <2>1. CASE q = r
    BY <1>2, <2>1 DEF RequestOK, Doing, NoRequest
  <2>2. CASE q # r
    <3>1. q \notin overlapped' => q \notin overlapped /\ request[q].rows \cap written = {}
      BY <1>1, <2>2
    <3>2. RequestOK(q) /\ request'[q] = request[q]
      BY <1>2, <2>2 DEF WorkInv
    <3>3. ASSUME q \notin overlapped', Doing(q, "suspend") \/ Doing(q, "restore")
          PROVE  lifecycle' # "archived"
      BY <3>1, <3>2, <3>3 DEF RequestOK
    <3>4. ASSUME q \notin overlapped', Doing(q, "accept") \/ Doing(q, "expire") \/ Doing(q, "revoke")
          PROVE  request[q].rows \subseteq Pending'
      BY <3>1, <3>2, <3>4 DEF RequestOK
    <3> QED
      BY <3>2, <3>3, <3>4 DEF RequestOK, Doing
  <2> QED
    BY <2>1, <2>2
<1> QED
  BY <1>1, <1>3, <1>4 DEF WorkInv, WorkTyped

\* It keeps the quota if it adds no account, or is one of those that do.
LEMMA EndKeepsQuota ==
  ASSUME WorkInv, NEW r \in Request, Adding' = Adding \ {r},
         \/ isActive' \subseteq isActive
         \/ r \in Adding /\ \E m : isActive' = isActive \cup {m}
  PROVE  QuotaOK'
<1>1. /\ IsFiniteSet(isActive) /\ Cardinality(isActive) \in Nat /\ Quota \in Nat
      /\ Cardinality(isActive) + Cardinality(Adding) < Quota + Cardinality(Request)
  BY FS_CardinalityType, WorkspaceAssumption DEF WorkInv, QuotaOK
<1> PICK A : A = Adding
  OBVIOUS
<1>2. IsFiniteSet(A) /\ Cardinality(A) \in Nat /\ Cardinality(Request) \in Nat
  BY AddingCounted
<1>3. /\ Cardinality(A \ {r}) = IF r \in A THEN Cardinality(A) - 1 ELSE Cardinality(A)
      /\ Cardinality(A \ {r}) \in Nat
  BY <1>2, FS_RemoveElement, FS_CardinalityType
<1>4. CASE isActive' \subseteq isActive
  <2>1. IsFiniteSet(isActive') /\ Cardinality(isActive') <= Cardinality(isActive)
        /\ Cardinality(isActive') \in Nat
    BY <1>1, <1>4, FS_Subset, FS_CardinalityType
  <2> QED
    BY <1>1, <1>2, <1>3, <2>1 DEF QuotaOK
<1>5. ASSUME r \in Adding, NEW m, isActive' = isActive \cup {m} PROVE QuotaOK'
  <2>1. /\ IsFiniteSet(isActive \cup {m}) /\ Cardinality(isActive \cup {m}) \in Nat
        /\ Cardinality(isActive \cup {m})
             = IF m \in isActive THEN Cardinality(isActive) ELSE Cardinality(isActive) + 1
    BY <1>1, FS_AddElement, FS_CardinalityType
  <2> QED
    BY <1>1, <1>2, <1>3, <1>5, <2>1 DEF QuotaOK
<1> QED
  BY <1>4, <1>5

\* The invites of `rows` are settled: the others stay pending.
LEMMA SettledTyped ==
  ASSUME WorkInv, NEW rows \in SUBSET Row, NEW status \in Status, SetStatus(rows, status)
  PROVE  /\ invite' \in [Invite -> [status : Status, to : Email \cup {Nobody}]]
         /\ Pending \ rows \subseteq Pending' /\ late' \subseteq Pending'
         /\ \A i \in Invite : i \notin rows => invite'[i] = invite[i]
<1>1. /\ invite' = [i \in Invite |->
           IF i \in rows THEN [invite[i] EXCEPT !.status = status] ELSE invite[i]]
      /\ late' = late \ rows
  BY DEF SetStatus
<1> QED
  BY <1>1 DEF WorkInv, WorkTyped, Pending

\* What the request about to end works on.
LEMMA RequestTyped ==
  ASSUME WorkInv, NEW r \in Request, request[r].op # "none"
  PROVE  /\ request[r] \in Work /\ request[r].rows \in SUBSET Row
         /\ request[r].to \in Email \cup {Nobody}
BY DEF WorkInv, WorkTyped, Work, NoRequest

\* The commit of a request that writes no invite.
LEMMA CommitKeeps ==
  ASSUME WorkInv, NEW r \in Request, NEW written, End(r, written), UNCHANGED <<invite, late>>,
         lifecycle' = lifecycle \/ "org" \in written, isActive' \subseteq isActive
  PROVE  WorkInv'
<1>1. /\ request' \in [Request -> Work \cup {NoRequest}] /\ Adding' = Adding \ {r}
      /\ \A q \in Request : RequestOK(q)'
  BY EndKeepsRequests DEF Pending
<1>2. QuotaOK'
  BY <1>1, EndKeepsQuota
<1> QED
  BY <1>1, <1>2 DEF WorkInv, WorkTyped, Pending

\* The commit of a request that settles the invites it works on.
LEMMA SettleKeeps ==
  ASSUME WorkInv, NEW r \in Request, request[r].op \in {"accept", "expire", "revoke"},
         NEW status \in Status \ {"pending"},
         SetStatus(request[r].rows, status), End(r, request[r].rows), lifecycle' = lifecycle,
         \/ isActive' = isActive
         \/ r \in Adding /\ \E m \in Member : isActive' = isActive \cup {m}
  PROVE  WorkInv'
<1>1. request[r].rows \in SUBSET Row
  BY RequestTyped
<1> PICK rows \in SUBSET Row : rows = request[r].rows
  BY <1>1
<1>2. /\ invite' \in [Invite -> [status : Status, to : Email \cup {Nobody}]]
      /\ Pending \ rows \subseteq Pending' /\ late' \subseteq Pending'
  BY SettledTyped
<1>3. /\ request' \in [Request -> Work \cup {NoRequest}] /\ Adding' = Adding \ {r}
      /\ \A q \in Request : RequestOK(q)'
  BY <1>2, EndKeepsRequests
<1>4. QuotaOK'
  BY <1>3, EndKeepsQuota
<1> QED
  BY <1>2, <1>3, <1>4 DEF WorkInv, WorkTyped

\* Every step of the workspace keeps its invariant.
LEMMA WorkInvStep ==
  ASSUME WorkInv, [WorkspaceNext]_workspaceVars
  PROVE  WorkInv'
<1> USE DEF Op
<1>0. {"org"} \in SUBSET Row /\ {} \in SUBSET Row /\ Nobody \in Email \cup {Nobody}
      /\ \A i \in Invite : {i} \in SUBSET Row /\ invite[i].to \in Email \cup {Nobody}
      /\ \A m \in Member : {m} \in SUBSET Row
  BY DEF Row, WorkInv, WorkTyped
<1>1. ASSUME NEW r \in Request, SuspendBegin(r) \/ RestoreBegin(r) \/ ArchiveBegin(r)
      PROVE WorkInv'
  BY <1>0, <1>1, BeginKeeps DEF SuspendBegin, RestoreBegin, ArchiveBegin
<1>2. ASSUME NEW r \in Request, LifecycleCommit(r) PROVE WorkInv'
  <2>1. End(r, {"org"}) /\ UNCHANGED <<isActive, invite, late>>
    BY <1>2 DEF LifecycleCommit
  <2> QED
    BY <2>1, CommitKeeps
<1>3. ASSUME NEW r \in Request, NEW e \in Email, InviteBegin(r, e) PROVE WorkInv'
  BY <1>0, <1>3, BeginKeeps DEF InviteBegin
<1>4. ASSUME NEW r \in Request, InviteCommit(r) PROVE WorkInv'
  <2>1. PICK i \in Invite :
          /\ invite[i].status = "none"
          /\ invite' = [invite EXCEPT ![i] = [status |-> "pending", to |-> request[r].to]]
    BY <1>4 DEF InviteCommit
  <2>2. /\ Doing(r, "invite") /\ End(r, {}) /\ UNCHANGED <<lifecycle, isActive, late>>
        /\ request[r].to \in Email \cup {Nobody}
    BY <1>4, RequestTyped DEF InviteCommit, Doing
  <2>3. invite' \in [Invite -> [status : Status, to : Email \cup {Nobody}]]
    BY <2>1, <2>2 DEF WorkInv, WorkTyped, Status
  <2>4. Pending \subseteq Pending'
    BY <2>1 DEF Pending, WorkInv, WorkTyped
  <2>5. /\ request' \in [Request -> Work \cup {NoRequest}] /\ Adding' = Adding \ {r}
        /\ \A q \in Request : RequestOK(q)'
    BY <2>2, <2>4, EndKeepsRequests
  <2>6. QuotaOK'
    BY <2>2, <2>5, EndKeepsQuota
  <2> QED
    BY <2>2, <2>3, <2>4, <2>5, <2>6 DEF WorkInv, WorkTyped
<1>5. ASSUME NEW i \in Invite, Expire(i) PROVE WorkInv'
  BY <1>5 DEF Expire, WorkInv, WorkTyped, QuotaOK, Adding, RequestOK, Doing, Pending
<1>6. ASSUME NEW r \in Request, NEW i \in Invite, AcceptBegin(r, i) PROVE WorkInv'
  BY <1>0, <1>6, BeginKeeps DEF AcceptBegin
<1>7. ASSUME NEW r \in Request, AcceptCommit(r) PROVE WorkInv'
  <2>1. /\ request[r].op = "accept" /\ lifecycle' = lifecycle
        /\ SetStatus(request[r].rows, "accepted") /\ End(r, request[r].rows)
        /\ \E m \in Member : isActive' = isActive \cup {m}
    BY <1>7 DEF AcceptCommit, Doing, AddAccount
  <2>2. r \in Adding /\ "accepted" \in Status \ {"pending"}
    BY <2>1 DEF Adding, Status
  <2> QED
    BY <2>1, <2>2, SettleKeeps
<1>8. ASSUME NEW r \in Request, ExpiryBegin(r) PROVE WorkInv'
  <2>1. PICK rows \in SUBSET late : Begin(r, "expire", rows, Nobody)
    BY <1>8 DEF ExpiryBegin
  <2>2. rows \subseteq Pending /\ rows \in SUBSET Row
    BY <2>1 DEF WorkInv, WorkTyped, Pending, Row
  <2> QED
    BY <1>0, <2>1, <2>2, BeginKeeps
<1>9. ASSUME NEW r \in Request, ExpiryCommit(r) \/ RevokeCommit(r) PROVE WorkInv'
  <2>1. "expired" \in Status \ {"pending"} /\ "revoked" \in Status \ {"pending"}
    BY DEF Status
  <2> QED
    BY <1>9, <2>1, SettleKeeps DEF ExpiryCommit, RevokeCommit, Doing
<1>10. ASSUME NEW r \in Request, NEW i \in Invite, RevokeBegin(r, i) PROVE WorkInv'
  BY <1>0, <1>10, BeginKeeps DEF RevokeBegin
<1>11. ASSUME NEW r \in Request, NEW e \in Email, CreateUserBegin(r, e) PROVE WorkInv'
  BY <1>0, <1>11, BeginKeeps DEF CreateUserBegin
<1>12. ASSUME NEW r \in Request, CreateUserCommit(r) PROVE WorkInv'
  <2>1. /\ request[r].op = "create" /\ End(r, {}) /\ UNCHANGED <<lifecycle, invite, late>>
        /\ \E m \in Member : isActive' = isActive \cup {m}
    BY <1>12 DEF CreateUserCommit, Doing, AddAccount
  <2>2. r \in Adding
    BY <2>1 DEF Adding
  <2>3. /\ request' \in [Request -> Work \cup {NoRequest}] /\ Adding' = Adding \ {r}
        /\ \A q \in Request : RequestOK(q)'
    BY <2>1, EndKeepsRequests DEF Pending
  <2>4. QuotaOK'
    BY <2>1, <2>2, <2>3, EndKeepsQuota
  <2> QED
    BY <2>1, <2>3, <2>4 DEF WorkInv, WorkTyped, Pending
<1>13. ASSUME NEW r \in Request, AddressTaken(r) PROVE WorkInv'
  BY <1>13, CommitKeeps DEF AddressTaken, Fail
<1>14. ASSUME NEW r \in Request, NEW m \in Member, DeactivateBegin(r, m) \/ EraseBegin(r, m)
       PROVE WorkInv'
  <2>1. {m} \in SUBSET Row
    BY DEF Row
  <2>2. Begin(r, "deactivate", {m}, Nobody) \/ Begin(r, "erase", {m}, Nobody)
    BY <1>14 DEF DeactivateBegin, EraseBegin
  <2>3. CASE Begin(r, "deactivate", {m}, Nobody)
    BY <1>0, <2>1, <2>3, BeginKeeps
  <2>4. CASE Begin(r, "erase", {m}, Nobody)
    BY <1>0, <2>1, <2>4, BeginKeeps
  <2> QED
    BY <2>2, <2>3, <2>4
<1>15. ASSUME NEW r \in Request, DeactivateCommit(r) \/ EraseCommit(r) PROVE WorkInv'
  <2>1. /\ End(r, request[r].rows) /\ UNCHANGED <<lifecycle, invite, late>>
        /\ isActive' \subseteq isActive
    BY <1>15 DEF DeactivateCommit, EraseCommit
  <2> QED
    BY <2>1, CommitKeeps
<1>16. CASE UNCHANGED workspaceVars
  BY <1>16 DEF workspaceVars, WorkInv, WorkTyped, QuotaOK, Adding, RequestOK, Doing, Pending
<1> QED
  BY <1>1, <1>2, <1>3, <1>4, <1>5, <1>6, <1>7, <1>8, <1>9, <1>10, <1>11, <1>12, <1>13,
     <1>14, <1>15, <1>16 DEF WorkspaceNext

\* The invariant holds initially.
LEMMA WorkInvInit == WorkspaceInit => WorkInv
<1> SUFFICES ASSUME WorkspaceInit PROVE WorkInv
  OBVIOUS
<1>1. Adding = {} /\ Pending = {}
  BY DEF WorkspaceInit, Adding, Pending, NoRequest
<1>2. IsFiniteSet({}) /\ Cardinality({}) = 0 /\ IsFiniteSet({Owner}) /\ Cardinality({Owner}) = 1
  BY FS_EmptySet, FS_Singleton
<1>3. Cardinality(Request) \in Nat /\ Quota \in Nat \ {0}
  BY AddingCounted, WorkspaceAssumption
<1>4. Cardinality(Request) # 0
  BY FS_EmptySet, WorkspaceAssumption
<1>5. QuotaOK
  BY <1>1, <1>2, <1>3, <1>4 DEF WorkspaceInit, QuotaOK
<1>6. WorkTyped
  BY <1>1, WorkspaceAssumption DEF WorkspaceInit, WorkTyped, Status
<1> QED
  BY <1>1, <1>5, <1>6 DEF WorkspaceInit, WorkInv, RequestOK, Doing, NoRequest

\* A request that ends without having been overtaken leaves what is final.
LEMMA FinalKept ==
  ASSUME WorkInv, WorkspaceNext, NEW r \in Request,
         request[r] # NoRequest, request'[r] = NoRequest, r \notin overlapped
  PROVE  /\ lifecycle = "archived" => lifecycle' = "archived"
         /\ \A i \in Invite : invite[i].status \notin {"none", "pending"} => invite'[i] = invite[i]
<1> DEFINE Goal == /\ lifecycle = "archived" => lifecycle' = "archived"
                   /\ \A i \in Invite :
                        invite[i].status \notin {"none", "pending"} => invite'[i] = invite[i]
<1>2. ASSUME NEW q \in Request, NEW written, End(q, written) PROVE q = r
  BY <1>2 DEF End, WorkInv, WorkTyped
<1>3. RequestOK(r)
  BY DEF WorkInv
<1>4. ASSUME NEW q \in Request, LifecycleCommit(q) PROVE Goal
  <2>1. /\ q = r /\ request[r].op \in {"suspend", "restore", "archive"}
        /\ lifecycle' = Target[request[r].op] /\ invite' = invite
    BY <1>2, <1>4 DEF LifecycleCommit, Target
  <2>2. Target["archive"] = "archived"
    BY DEF Target
  <2> QED
    BY <1>3, <2>1, <2>2 DEF RequestOK, Doing
<1>5. ASSUME NEW q \in Request, InviteCommit(q) PROVE Goal
  BY <1>5 DEF InviteCommit, WorkInv, WorkTyped
<1>6. ASSUME NEW q \in Request, AcceptCommit(q) \/ ExpiryCommit(q) \/ RevokeCommit(q) PROVE Goal
  <2>1. /\ q = r /\ lifecycle' = lifecycle
        /\ Doing(r, "accept") \/ Doing(r, "expire") \/ Doing(r, "revoke")
        /\ \E status : SetStatus(request[r].rows, status)
    BY <1>2, <1>6 DEF AcceptCommit, ExpiryCommit, RevokeCommit
  <2>2. request[r].rows \subseteq Pending
    BY <1>3, <2>1 DEF RequestOK
  <2> QED
    BY <2>1, <2>2 DEF SetStatus, Pending
<1>7. ASSUME NEW q \in Request,
             \/ CreateUserCommit(q) \/ AddressTaken(q) \/ DeactivateCommit(q) \/ EraseCommit(q)
      PROVE Goal
  BY <1>7 DEF CreateUserCommit, AddressTaken, Fail, DeactivateCommit, EraseCommit
<1>8. ASSUME NEW i \in Invite, Expire(i) PROVE Goal
  BY <1>8 DEF Expire
<1>9. ASSUME NEW q \in Request,
             \/ SuspendBegin(q) \/ RestoreBegin(q) \/ ArchiveBegin(q) \/ ExpiryBegin(q)
             \/ \E e \in Email : InviteBegin(q, e) \/ CreateUserBegin(q, e)
             \/ \E i \in Invite : AcceptBegin(q, i) \/ RevokeBegin(q, i)
             \/ \E m \in Member : DeactivateBegin(q, m) \/ EraseBegin(q, m)
      PROVE Goal
  <2>1. UNCHANGED <<lifecycle, invite>>
    BY <1>9 DEF Begin, SuspendBegin, RestoreBegin, ArchiveBegin, ExpiryBegin, InviteBegin,
                CreateUserBegin, AcceptBegin, RevokeBegin, DeactivateBegin, EraseBegin
  <2> QED
    BY <2>1
<1> HIDE DEF Goal
<1>10. Goal
  BY <1>4, <1>5, <1>6, <1>7, <1>8, <1>9 DEF WorkspaceNext
<1> QED
  BY <1>10 DEF Goal

\* WithinQuota: the active accounts of a workspace exceed its quota by less than the
\* number of requests that overlap.
THEOREM QuotaNearlyKept == WorkspaceSpec => []WithinQuota
<1>1. WorkInv /\ [WorkspaceNext]_workspaceVars => WorkInv'
  BY WorkInvStep
<1> QED
  BY <1>1, WorkInvInit, QuotaInvHolds, PTL DEF WorkspaceSpec

\* FinalOnlyLostByOverlap: an archived workspace and a settled invite are changed
\* only by a request that had read the row before another one wrote it.
THEOREM FinalStaysFinal == WorkspaceSpec => FinalOnlyLostByOverlap
<1>1. WorkInv /\ [WorkspaceNext]_workspaceVars => WorkInv'
  BY WorkInvStep
<1>2. WorkInv /\ [WorkspaceNext]_workspaceVars =>
        [ \A r \in Request :
            (request[r] # NoRequest /\ request'[r] = NoRequest /\ r \notin overlapped) =>
              /\ lifecycle = "archived" => lifecycle' = "archived"
              /\ \A i \in Invite : invite[i].status \notin {"none", "pending"}
                   => invite'[i] = invite[i] ]_workspaceVars
  BY FinalKept
<1> QED
  BY <1>1, <1>2, WorkInvInit, PTL DEF WorkspaceSpec, FinalOnlyLostByOverlap

-----------------------------------------------------------------------------
(***************************************************************************)
(* The accounts.  An account is added for an address that nobody has, at   *)
(* the commit; the address comes from the invite or from the request, and  *)
(* both have one.                                                          *)
(***************************************************************************)

Accounts ==
  /\ lifecycle \in Lifecycle /\ overlapped \subseteq Request
  /\ email \in [Member -> Email \cup {Nobody}]
  /\ \A m, n \in Member : email[m] = email[n] /\ email[m] # Nobody => m = n
  /\ \A m \in isActive : email[m] # Nobody

\* Whoever is invited, accepts or is given an account has an address.
Addressed ==
  /\ \A i \in Pending : invite[i].to \in Email
  /\ \A r \in Request : request[r].op \in {"invite", "accept", "create"} => request[r].to \in Email

MemberInv == WorkInv /\ Accounts /\ Addressed

\* An account is added for a free address.
LEMMA AddKeepsAccounts ==
  ASSUME MemberInv, NEW e \in Email, ~HasAccount(e), AddAccount(e),
         lifecycle' = lifecycle, overlapped' \subseteq Request
  PROVE  Accounts'
<1>1. PICK m \in Member : /\ email' = [email EXCEPT ![m] = e]
                          /\ isActive' = isActive \cup {m}
  BY DEF AddAccount
<1>2. /\ email'[m] = e /\ e # Nobody
      /\ \A n \in Member : n # m => email'[n] = email[n] /\ email[n] # e
  BY <1>1, WorkspaceAssumption DEF MemberInv, Accounts, HasAccount
<1>3. email' \in [Member -> Email \cup {Nobody}]
  BY <1>1 DEF MemberInv, Accounts
<1>4. \A a, b \in Member : email'[a] = email'[b] /\ email'[a] # Nobody => a = b
  BY <1>2 DEF MemberInv, Accounts
<1>5. \A a \in isActive' : email'[a] # Nobody
  BY <1>1, <1>2 DEF MemberInv, Accounts, WorkInv, WorkTyped
<1> QED
  BY <1>3, <1>4, <1>5 DEF MemberInv, Accounts

\* A request that ends leaves the addresses of the others.
LEMMA EndKeepsAddresses ==
  ASSUME MemberInv, NEW r \in Request, NEW written, End(r, written),
         \A i \in Pending' : invite'[i].to \in Email
  PROVE  Addressed' /\ overlapped' \subseteq Request
<1>1. /\ request' = [request EXCEPT ![r] = NoRequest]
      /\ overlapped' \subseteq overlapped \cup Request
  BY DEF End
<1>2. request'[r] = NoRequest /\ \A q \in Request : q # r => request'[q] = request[q]
  BY <1>1 DEF MemberInv, WorkInv, WorkTyped
<1> QED
  BY <1>1, <1>2 DEF MemberInv, Accounts, Addressed, NoRequest

\* A request begins.
LEMMA BeginKeepsAccounts ==
  ASSUME MemberInv, NEW r \in Request, NEW op, NEW rows, NEW to, Begin(r, op, rows, to),
         op \in {"invite", "accept", "create"} => to \in Email
  PROVE  Accounts' /\ Addressed'
<1> PICK t : t = [op |-> op, rows |-> rows, to |-> to]
  OBVIOUS
<1>1. /\ request' = [request EXCEPT ![r] = t] /\ t.op = op /\ t.to = to
      /\ UNCHANGED <<lifecycle, email, isActive, invite, late, overlapped>>
  BY DEF Begin
<1>2. request'[r] = t /\ \A q \in Request : q # r => request'[q] = request[q]
  BY <1>1 DEF MemberInv, WorkInv, WorkTyped
<1> QED
  BY <1>1, <1>2 DEF MemberInv, Accounts, Addressed, Pending

\* Invites that are settled are pending no more.
LEMMA SettledAddressed ==
  ASSUME MemberInv, NEW rows, NEW status \in Status \ {"pending"}, SetStatus(rows, status)
  PROVE  \A i \in Pending' : invite'[i].to \in Email
<1>1. invite' = [i \in Invite |->
           IF i \in rows THEN [invite[i] EXCEPT !.status = status] ELSE invite[i]]
  BY DEF SetStatus
<1>2. \A i \in Invite : i \in rows => invite'[i].status = status
  BY <1>1 DEF MemberInv, WorkInv, WorkTyped
<1>3. \A i \in Pending' : i \in Pending /\ invite'[i] = invite[i]
  BY <1>1, <1>2 DEF Pending
<1> QED
  BY <1>3 DEF MemberInv, Addressed

\* Every step of the workspace keeps its accounts.
LEMMA MemberInvStep ==
  ASSUME MemberInv, [WorkspaceNext]_workspaceVars
  PROVE  MemberInv'
<1>0. WorkInv'
  BY WorkInvStep DEF MemberInv
<1>1. ASSUME NEW r \in Request,
             \/ SuspendBegin(r) \/ RestoreBegin(r) \/ ArchiveBegin(r) \/ ExpiryBegin(r)
             \/ \E e \in Email : InviteBegin(r, e) \/ CreateUserBegin(r, e)
             \/ \E i \in Invite : AcceptBegin(r, i) \/ RevokeBegin(r, i)
             \/ \E m \in Member : DeactivateBegin(r, m) \/ EraseBegin(r, m)
      PROVE Accounts' /\ Addressed'
  <2>1. \/ \E op \in Op \ {"invite", "accept", "create"} : \E rows : Begin(r, op, rows, Nobody)
        \/ \E op, rows : \E to \in Email : Begin(r, op, rows, to)
    <3>1. CASE SuspendBegin(r) \/ RestoreBegin(r) \/ ArchiveBegin(r) \/ ExpiryBegin(r)
      BY <3>1 DEF SuspendBegin, RestoreBegin, ArchiveBegin, ExpiryBegin, Op
    <3>2. ASSUME NEW i \in Invite, RevokeBegin(r, i)
          PROVE  \E op \in Op \ {"invite", "accept", "create"} : \E rows : Begin(r, op, rows, Nobody)
      BY <3>2 DEF RevokeBegin, Op
    <3>3. ASSUME NEW m \in Member, DeactivateBegin(r, m) \/ EraseBegin(r, m)
          PROVE  \E op \in Op \ {"invite", "accept", "create"} : \E rows : Begin(r, op, rows, Nobody)
      BY <3>3 DEF DeactivateBegin, EraseBegin, Op
    <3>4. ASSUME NEW e \in Email, InviteBegin(r, e) \/ CreateUserBegin(r, e)
          PROVE  \E op, rows : \E to \in Email : Begin(r, op, rows, to)
      BY <3>4 DEF InviteBegin, CreateUserBegin
    <3>5. ASSUME NEW i \in Invite, AcceptBegin(r, i)
          PROVE  \E op, rows : \E to \in Email : Begin(r, op, rows, to)
      BY <3>5 DEF AcceptBegin, MemberInv, Addressed
    <3> QED
      BY <1>1, <3>1, <3>2, <3>3, <3>4, <3>5
  <2> QED
    BY <2>1, BeginKeepsAccounts
<1>2. ASSUME NEW r \in Request, LifecycleCommit(r) PROVE Accounts' /\ Addressed'
  <2>1. /\ lifecycle' = Target[request[r].op] /\ request[r].op \in DOMAIN Target
        /\ End(r, {"org"}) /\ UNCHANGED <<email, isActive, invite>>
    BY <1>2 DEF LifecycleCommit
  <2>2. lifecycle' \in Lifecycle
    BY <2>1 DEF Target, Lifecycle
  <2>3. Addressed' /\ overlapped' \subseteq Request
    BY <2>1, EndKeepsAddresses DEF MemberInv, Addressed, Pending
  <2> QED
    BY <2>1, <2>2, <2>3 DEF MemberInv, Accounts
<1>3. ASSUME NEW r \in Request, InviteCommit(r) PROVE Accounts' /\ Addressed'
  <2>1. /\ Doing(r, "invite") /\ End(r, {}) /\ UNCHANGED <<lifecycle, email, isActive>>
        /\ \E i \in Invite :
             invite' = [invite EXCEPT ![i] = [status |-> "pending", to |-> request[r].to]]
    BY <1>3 DEF InviteCommit
  <2>2. request[r].to \in Email
    BY <2>1 DEF MemberInv, Addressed, Doing
  <2>3. \A i \in Pending' : invite'[i].to \in Email
    BY <2>1, <2>2 DEF MemberInv, Addressed, Pending, WorkInv, WorkTyped
  <2>4. Addressed' /\ overlapped' \subseteq Request
    BY <2>1, <2>3, EndKeepsAddresses
  <2> QED
    BY <2>1, <2>4 DEF MemberInv, Accounts
<1>4. ASSUME NEW i \in Invite, Expire(i) PROVE Accounts' /\ Addressed'
  BY <1>4 DEF Expire, MemberInv, Accounts, Addressed, Pending
<1>5. ASSUME NEW r \in Request, AcceptCommit(r) PROVE Accounts' /\ Addressed'
  <2>1. /\ Doing(r, "accept") /\ ~HasAccount(request[r].to) /\ AddAccount(request[r].to)
        /\ SetStatus(request[r].rows, "accepted") /\ End(r, request[r].rows)
        /\ lifecycle' = lifecycle /\ "accepted" \in Status \ {"pending"}
    BY <1>5 DEF AcceptCommit, Status
  <2>2. request[r].to \in Email
    BY <2>1 DEF MemberInv, Addressed, Doing
  <2>3. Addressed' /\ overlapped' \subseteq Request
    BY <2>1, SettledAddressed, EndKeepsAddresses
  <2> QED
    BY <2>1, <2>2, <2>3, AddKeepsAccounts
<1>6. ASSUME NEW r \in Request, ExpiryCommit(r) \/ RevokeCommit(r) PROVE Accounts' /\ Addressed'
  <2>1. /\ \E status \in Status \ {"pending"} : SetStatus(request[r].rows, status)
        /\ End(r, request[r].rows) /\ UNCHANGED <<lifecycle, email, isActive>>
    BY <1>6 DEF ExpiryCommit, RevokeCommit, Status
  <2>2. Addressed' /\ overlapped' \subseteq Request
    BY <2>1, SettledAddressed, EndKeepsAddresses
  <2> QED
    BY <2>1, <2>2 DEF MemberInv, Accounts
<1>7. ASSUME NEW r \in Request, CreateUserCommit(r) PROVE Accounts' /\ Addressed'
  <2>1. /\ Doing(r, "create") /\ ~HasAccount(request[r].to) /\ AddAccount(request[r].to)
        /\ End(r, {}) /\ UNCHANGED <<lifecycle, invite>>
    BY <1>7 DEF CreateUserCommit
  <2>2. request[r].to \in Email
    BY <2>1 DEF MemberInv, Addressed, Doing
  <2>3. Addressed' /\ overlapped' \subseteq Request
    BY <2>1, EndKeepsAddresses DEF MemberInv, Addressed, Pending
  <2> QED
    BY <2>1, <2>2, <2>3, AddKeepsAccounts
<1>8. ASSUME NEW r \in Request, AddressTaken(r) PROVE Accounts' /\ Addressed'
  <2>1. End(r, {}) /\ UNCHANGED <<lifecycle, email, isActive, invite>>
    BY <1>8 DEF AddressTaken, Fail
  <2>2. Addressed' /\ overlapped' \subseteq Request
    BY <2>1, EndKeepsAddresses DEF MemberInv, Addressed, Pending
  <2> QED
    BY <2>1, <2>2 DEF MemberInv, Accounts
<1>9. ASSUME NEW r \in Request, DeactivateCommit(r) \/ EraseCommit(r) PROVE Accounts' /\ Addressed'
  <2>1. /\ End(r, request[r].rows) /\ UNCHANGED <<lifecycle, invite>>
        /\ isActive' = isActive \ request[r].rows
        /\ \/ email' = email
           \/ email' = [m \in Member |-> IF m \in request[r].rows THEN Nobody ELSE email[m]]
    BY <1>9 DEF DeactivateCommit, EraseCommit
  <2>2. Addressed' /\ overlapped' \subseteq Request
    BY <2>1, EndKeepsAddresses DEF MemberInv, Addressed, Pending
  <2>3. Accounts'
    BY <2>1, <2>2 DEF MemberInv, Accounts, WorkInv, WorkTyped
  <2> QED
    BY <2>2, <2>3
<1>10. ASSUME UNCHANGED workspaceVars PROVE Accounts' /\ Addressed'
  BY <1>10 DEF workspaceVars, MemberInv, Accounts, Addressed, Pending
<1>11. Accounts' /\ Addressed'
  BY <1>1, <1>2, <1>3, <1>4, <1>5, <1>6, <1>7, <1>8, <1>9, <1>10 DEF WorkspaceNext
<1> QED
  BY <1>0, <1>11 DEF MemberInv

LEMMA MemberInvInit == WorkspaceInit => MemberInv
<1> SUFFICES ASSUME WorkspaceInit PROVE MemberInv
  OBVIOUS
<1>1. Pending = {} /\ "active" \in Lifecycle
  BY DEF WorkspaceInit, Pending, Lifecycle
<1>2. Accounts
  BY <1>1, WorkspaceAssumption DEF WorkspaceInit, Accounts
<1> QED
  BY <1>1, <1>2, WorkInvInit DEF WorkspaceInit, MemberInv, Addressed, NoRequest

LEMMA MemberInvHolds == MemberInv => WorkspaceTypeOK
BY DEF MemberInv, Accounts, WorkInv, WorkTyped, WorkspaceTypeOK

\* WorkspaceTypeOK: every variable of the workspace has its type, no two accounts share
\* an address, and every active account has one.
THEOREM MembersTypeCorrect == WorkspaceSpec => []WorkspaceTypeOK
<1>1. MemberInv /\ [WorkspaceNext]_workspaceVars => MemberInv'
  BY MemberInvStep
<1> QED
  BY <1>1, MemberInvInit, MemberInvHolds, PTL DEF WorkspaceSpec

-----------------------------------------------------------------------------
\* The specification the three are checked under behaves as each of them does.
THEOREM TenantIsAll == TenancySpec => WorkspaceSpec /\ KeyRingSpec /\ Spec
<1>1. TenancyInit => WorkspaceInit /\ KeyRingInit /\ Init
  BY DEF TenancyInit
<1>2. [TenancyNext]_tenancyVars =>
        [WorkspaceNext]_workspaceVars /\ [KeyRingNext]_ringVars /\ [Next]_vars
  BY DEF TenancyNext, WorkspaceStep, KeyRingStep, TrailStep, tenancyVars
<1> QED
  BY <1>1, <1>2, PTL DEF TenancySpec, WorkspaceSpec, KeyRingSpec, Spec

\* TenancyTypeOK: every part keeps its types when one of them runs next to the others.
THEOREM TenancyTypeCorrect == TenancySpec => []TenancyTypeOK
<1>1. TenancyTypeOK <=> WorkspaceTypeOK /\ KeyRingTypeOK /\ TypeOK
  BY DEF TenancyTypeOK
<1> QED
  BY <1>1, TenantIsAll, MembersTypeCorrect, RingTypeCorrect, TypeCorrect, PTL
=============================================================================
