------------------------- MODULE AuditChain_proofs -------------------------
(***************************************************************************)
(* Theorems about AuditChain, for any number of writers, checkpoint runs   *)
(* and events.                                                             *)
(***************************************************************************)
EXTENDS AuditChain, WellFoundedInduction, FiniteSetTheorems, TLAPS

\* Every nonempty set of naturals has a least element: arguments by the least
\* counterexample take the place of inductions.
LEMMA LeastNat ==
    ASSUME NEW T, T \subseteq Nat, T # {}
    PROVE  \E m \in T : \A n \in T : m <= n
<1>1. IsWellFoundedOn(OpToRel(<, Nat), Nat)
  BY NatLessThanWellFounded
<1>2. PICK m \in T : \A n \in T : ~(<<n, m>> \in OpToRel(<, Nat))
  BY <1>1, WFMin
<1>3. \A n \in T : n < m => <<n, m>> \in OpToRel(<, Nat)
  BY DEF OpToRel
<1>4. \A n \in T : ~(n < m)
  BY <1>2, <1>3
<1> QED
  BY <1>4

\* A nonempty set of timestamps has a greatest element.
LEMMA GreatestStamp ==
    ASSUME NEW T, T \subseteq Stamp, T # {}
    PROVE  \E m \in T : \A n \in T : n <= m
<1> DEFINE U == {MaxNow - s : s \in T}
<1>0. MaxNow \in Nat
  BY AuditChainAssumption
<1>a. \A s \in T : MaxNow - s \in Nat
  BY <1>0 DEF Stamp
<1>1. U \subseteq Nat /\ U # {}
  BY <1>a, Zenon
<1>2. PICK u \in U : \A v \in U : u <= v
  BY <1>1, LeastNat
<1>3. PICK m \in T : u = MaxNow - m
  BY <1>2
<1>4. ASSUME NEW n \in T PROVE MaxNow - n \in U
  BY Zenon
<1> HIDE DEF U
<1>5. \A n \in T : n <= m
  BY <1>0, <1>2, <1>3, <1>4 DEF Stamp
<1> QED
  BY <1>5

\* The newest event of a set of events is one of them and the last one.
LEMMA NewestProperty ==
    ASSUME NEW S, S \subseteq Event
    PROVE  /\ S = {} => Newest(S) = Genesis
           /\ S # {} => Newest(S) \in Stamps(S)
           /\ \A e \in S : e.at <= Newest(S)
           /\ Newest(S) \in {Genesis} \cup Stamp
<1>1. Stamps(S) \subseteq Stamp
  BY DEF Stamps, Event
<1>2. CASE S = {}
  BY <1>2 DEF Newest, Stamps
<1>3. CASE S # {}
  <2>1. Stamps(S) # {}
    BY <1>3 DEF Stamps
  <2>2. \E s \in Stamps(S) : \A r \in Stamps(S) : r <= s
    BY <1>1, <2>1, GreatestStamp
  <2>3. Newest(S) \in Stamps(S) /\ \A r \in Stamps(S) : r <= Newest(S)
    BY <1>3, <2>2 DEF Newest
  <2> QED
    BY <1>1, <1>3, <2>3 DEF Stamps
<1> QED
  BY <1>2, <1>3

-----------------------------------------------------------------------------
LEMMA InitTypeOK == Init => TypeOK
BY AuditChainAssumption DEF Init, TypeOK, Genesis

\* The counts need the committed trail to be finite.
TypeInv == TypeOK /\ IsFiniteSet(committed) /\ \A t \in Writer : IsFiniteSet(buffer[t])

LEMMA InitTypeInv == Init => TypeInv
BY InitTypeOK, FS_EmptySet DEF Init, TypeInv

LEMMA VisibleType == ASSUME TypeOK, NEW t \in Writer PROVE Visible(t) \subseteq Event
BY DEF TypeOK, Visible

LEMMA NextTypeInv == TypeInv /\ [Next]_vars => TypeInv'
<1> SUFFICES ASSUME TypeInv, [Next]_vars PROVE TypeInv'
  OBVIOUS
<1> USE DEF chainVars, runVars, TypeInv
<1>0. MaxNow \in Nat
  BY AuditChainAssumption
<1>1. ASSUME NEW t \in Writer, Write(t) PROVE TypeInv'
  <2>1. CASE ReadLatest(t)
    <3>1. Newest(Visible(t)) \in {Genesis} \cup Stamp
      BY VisibleType, NewestProperty
    <3> QED
      BY <2>1, <3>1 DEF ReadLatest, TypeOK
  <2>2. CASE InsertEvent(t)
    <3>1. now \in Stamp /\ now' \in 1..(MaxNow + 1)
      BY <1>0, <2>2 DEF InsertEvent, TypeOK, Stamp
    <3>2. [at |-> now, prev |-> latest[t]] \in Event
      BY <3>1 DEF TypeOK, Event
    <3>3. \A u \in Writer : IsFiniteSet(buffer'[u])
      BY <2>2, FS_AddElement DEF InsertEvent, TypeOK
    <3>4. buffer' \in [Writer -> SUBSET Event]
      BY <2>2, <3>2 DEF InsertEvent, TypeOK
    <3> QED
      BY <2>2, <3>1, <3>3, <3>4 DEF InsertEvent, TypeOK
  <2>3. CASE CommitWriter(t)
    BY <2>3, FS_Union, FS_EmptySet DEF CommitWriter, TypeOK
  <2>4. CASE RollbackWriter(t)
    BY <2>4, FS_EmptySet DEF RollbackWriter, TypeOK
  <2> QED
    BY <1>1, <2>1, <2>2, <2>3, <2>4 DEF Write
<1>2. ASSUME NEW c \in Checkpointer, Run(c) PROVE TypeInv'
  <2>1. CASE VerifyChain(c)
    <3>1. Stamps(committed) \subseteq Stamp
      BY DEF TypeOK, Stamps, Event
    <3> QED
      BY <2>1, <3>1 DEF VerifyChain, TypeOK
  <2>2. CASE ReadHead(c)
    <3>1. Newest(committed) \in {Genesis} \cup Stamp
      BY NewestProperty DEF TypeOK
    <3> QED
      BY <2>2, <3>1 DEF ReadHead, TypeOK
  <2>3. CASE CreateCheckpoint(c)
    <3>1. now \in Stamp /\ now' \in 1..(MaxNow + 1)
      BY <1>0, <2>3 DEF CreateCheckpoint, TypeOK, Stamp
    <3>2. Cardinality(committed) \in Nat
      BY FS_CardinalityType
    <3>3. [at |-> now, latest |-> head[c], count |-> Cardinality(committed),
           covers |-> verified[c]] \in Checkpoint
      BY <3>1, <3>2 DEF TypeOK, Checkpoint
    <3>4. draft' \in [Checkpointer -> SUBSET Checkpoint]
      BY <2>3, <3>3 DEF CreateCheckpoint, TypeOK
    <3> QED
      BY <2>3, <3>1, <3>4 DEF CreateCheckpoint, TypeOK
  <2>4. CASE CleanupCheckpoints(c)
    <3>1. \A S, K : S \subseteq Checkpoint => S \ K \subseteq Checkpoint
      OBVIOUS
    <3>2. checkpoints \cup draft[c] \subseteq Checkpoint
      BY DEF TypeOK
    <3> QED
      BY <2>4, <3>1, <3>2 DEF CleanupCheckpoints, TypeOK
  <2>5. CASE CommitRun(c)
    BY <2>5 DEF CommitRun, EndRun, TypeOK
  <2>6. CASE AbandonRun(c)
    BY <2>6 DEF AbandonRun, EndRun, TypeOK
  <2> QED
    BY <1>2, <2>1, <2>2, <2>3, <2>4, <2>5, <2>6 DEF Run
<1>3. CASE UNCHANGED vars
  BY <1>3 DEF vars, TypeOK
<1> QED
  BY <1>1, <1>2, <1>3 DEF Next

\* The audit trail keeps its types.
THEOREM TypeCorrect == Spec => []TypeOK
<1>1. TypeInv => TypeOK
  BY DEF TypeInv
<1> QED
  BY <1>1, InitTypeInv, NextTypeInv, PTL DEF Spec

-----------------------------------------------------------------------------
(***************************************************************************)
(* The trail is a tree.  A transaction only sees committed events and its  *)
(* own, so what it hashes is committed before it or together with it; and  *)
(* created_at is taken after the read, so a predecessor is older.          *)
(***************************************************************************)

RootedIn(S, e) == e.prev \in {Genesis} \cup Stamps(S) /\ e.prev < e.at

TreeInv ==
    /\ \A e \in committed : RootedIn(committed, e) /\ e.at < now
    /\ \A t \in Writer :
           /\ \A e \in buffer[t] : /\ RootedIn(Visible(t), e)
                                   /\ e.at < now
                                   /\ e.at \notin Stamps(committed)
           /\ \A u \in Writer \ {t} : Stamps(buffer[t]) \cap Stamps(buffer[u]) = {}
           /\ t \in reading => latest[t] \in {Genesis} \cup Stamps(Visible(t))

LEMMA RootedGrows ==
    ASSUME NEW S, NEW T, S \subseteq T, NEW e, RootedIn(S, e)
    PROVE  RootedIn(T, e)
BY DEF RootedIn, Stamps

LEMMA StampsUnion ==
    ASSUME NEW S, NEW T
    PROVE  Stamps(S \cup T) = Stamps(S) \cup Stamps(T)
BY DEF Stamps

LEMMA NextTreeInv == TypeInv /\ TreeInv /\ [Next]_vars => TreeInv'
<1> SUFFICES ASSUME TypeInv, TreeInv, [Next]_vars PROVE TreeInv'
  OBVIOUS
<1>0. TypeOK
  BY DEF TypeInv
<1>1. ASSUME NEW t \in Writer, Write(t) PROVE TreeInv'
  <2>1. CASE ReadLatest(t)
    <3>1. Newest(Visible(t)) \in {Genesis} \cup Stamps(Visible(t))
      BY <1>0, VisibleType, NewestProperty
    <3>2. latest'[t] = Newest(Visible(t)) /\ \A u \in Writer \ {t} : latest'[u] = latest[u]
      BY <1>0, <2>1 DEF ReadLatest, TypeOK
    <3>3. \A u \in Writer : Visible(u)' = Visible(u)
      BY <2>1 DEF ReadLatest, Visible
    <3>4. UNCHANGED <<now, committed, buffer>> /\ reading' = reading \cup {t}
      BY <2>1 DEF ReadLatest
    <3> QED
      BY <3>1, <3>2, <3>3, <3>4 DEF TreeInv, RootedIn, Stamps
  <2>2. CASE InsertEvent(t)
    <3> DEFINE new == [at |-> now, prev |-> latest[t]]
    <3>1. /\ buffer'[t] = buffer[t] \cup {new}
          /\ \A u \in Writer \ {t} : buffer'[u] = buffer[u]
          /\ UNCHANGED <<committed, latest>>
          /\ now' = now + 1 /\ now \in Nat /\ t \in reading /\ reading' = reading \ {t}
      BY <1>0, <2>2 DEF InsertEvent, TypeOK
    <3>2. RootedIn(Visible(t), new)
      <4>1. latest[t] \in {Genesis} \cup Stamps(Visible(t))
        BY <3>1 DEF TreeInv
      <4>2. latest[t] < now
        <5>1. \A e \in Visible(t) : e.at < now
          BY DEF Visible, TreeInv
        <5>2. Genesis < now
          BY <1>0 DEF TypeOK, Genesis
        <5> QED
          BY <4>1, <5>1, <5>2 DEF Stamps
      <4> QED
        BY <4>1, <4>2 DEF RootedIn
    <3>3. now \notin Stamps(committed) /\ \A u \in Writer : now \notin Stamps(buffer[u])
      BY <3>1 DEF TreeInv, Stamps
    <3>4. \A u \in Writer : Visible(u) \subseteq Visible(u)'
      BY <3>1 DEF Visible
    <3>5. \A e \in committed : RootedIn(committed', e) /\ e.at < now'
      BY <1>0, <3>1 DEF TreeInv, TypeOK, Event, Stamp
    <3>6. ASSUME NEW u \in Writer, NEW e \in buffer'[u]
          PROVE  RootedIn(Visible(u)', e) /\ e.at < now' /\ e.at \notin Stamps(committed)
      <4>1. CASE e \in buffer[u]
        <5>1. RootedIn(Visible(u), e) /\ e.at < now /\ e.at \notin Stamps(committed)
          BY <4>1 DEF TreeInv
        <5>2. e.at \in Nat
          BY <1>0, <4>1 DEF TypeOK, Event, Stamp
        <5>3. RootedIn(Visible(u)', e)
          BY <3>4, <5>1, RootedGrows
        <5> QED
          BY <3>1, <5>1, <5>2, <5>3
      <4>2. CASE e \notin buffer[u]
        <5>1. u = t /\ e = new
          BY <3>1, <4>2
        <5>2. RootedIn(Visible(u)', e)
          BY <3>2, <3>4, <5>1, RootedGrows
        <5>3. e.at < now' /\ e.at \notin Stamps(committed)
          BY <3>1, <3>3, <5>1
        <5> QED
          BY <5>2, <5>3
      <4> QED
        BY <4>1, <4>2
    <3>7. ASSUME NEW u \in Writer, NEW x \in Writer \ {u}
          PROVE  Stamps(buffer'[u]) \cap Stamps(buffer'[x]) = {}
      <4>0. Stamps({new}) = {now}
        BY DEF Stamps
      <4>1. Stamps(buffer'[t]) = Stamps(buffer[t]) \cup {now}
        <5> HIDE DEF new
        <5> QED
          BY <3>1, <4>0, StampsUnion
      <4>2. \A y \in Writer \ {t} : Stamps(buffer'[y]) = Stamps(buffer[y])
        BY <3>1
      <4>3. Stamps(buffer[u]) \cap Stamps(buffer[x]) = {}
        BY DEF TreeInv
      <4> QED
        BY <3>3, <4>1, <4>2, <4>3
    <3>8. \A u \in Writer : u \in reading' =>
             latest'[u] \in {Genesis} \cup Stamps(Visible(u)')
      BY <3>1, <3>4 DEF TreeInv, Stamps
    <3> QED
      BY <3>1, <3>5, <3>6, <3>7, <3>8 DEF TreeInv
  <2>3. CASE CommitWriter(t)
    <3>1. /\ committed' = committed \cup buffer[t]
          /\ buffer'[t] = {}
          /\ \A u \in Writer \ {t} : buffer'[u] = buffer[u]
          /\ UNCHANGED <<now, latest, reading>> /\ t \notin reading
      BY <1>0, <2>3 DEF CommitWriter, TypeOK
    <3>2. committed' = Visible(t)
      BY <3>1 DEF Visible
    <3>3. \A e \in committed' : RootedIn(committed', e) /\ e.at < now'
      <4>1. \A e \in committed : RootedIn(committed', e)
        BY <3>1, RootedGrows DEF TreeInv
      <4>2. \A e \in buffer[t] : RootedIn(committed', e)
        BY <3>2 DEF TreeInv
      <4> QED
        BY <3>1, <4>1, <4>2 DEF TreeInv
    <3>4. \A u \in Writer \ {t} : Visible(u) \subseteq Visible(u)'
      BY <3>1 DEF Visible
    <3>5. Stamps(committed') = Stamps(committed) \cup Stamps(buffer[t])
      BY <3>1, StampsUnion
    <3>6. ASSUME NEW u \in Writer \ {t}, NEW e \in buffer[u]
          PROVE  RootedIn(Visible(u)', e) /\ e.at < now /\ e.at \notin Stamps(committed')
      <4>1. RootedIn(Visible(u), e) /\ e.at < now /\ e.at \notin Stamps(committed)
        BY DEF TreeInv
      <4>2. e.at \in Stamps(buffer[u]) /\ Stamps(buffer[u]) \cap Stamps(buffer[t]) = {}
        BY DEF TreeInv, Stamps
      <4> QED
        BY <3>4, <3>5, <4>1, <4>2, RootedGrows
    <3>7. \A u \in Writer : \A x \in Writer \ {u} :
             Stamps(buffer'[u]) \cap Stamps(buffer'[x]) = {}
      BY <3>1 DEF TreeInv, Stamps
    <3>8. \A u \in Writer : u \in reading' =>
             latest'[u] \in {Genesis} \cup Stamps(Visible(u)')
      BY <3>1, <3>4 DEF TreeInv, Stamps
    <3> QED
      BY <3>1, <3>3, <3>6, <3>7, <3>8 DEF TreeInv
  <2>4. CASE RollbackWriter(t)
    <3>1. /\ buffer'[t] = {}
          /\ \A u \in Writer \ {t} : buffer'[u] = buffer[u]
          /\ UNCHANGED <<now, committed, latest>> /\ reading' = reading \ {t}
      BY <1>0, <2>4 DEF RollbackWriter, TypeOK
    <3>2. \A u \in Writer \ {t} : Visible(u)' = Visible(u)
      BY <3>1 DEF Visible
    <3>3. \A u \in Writer : \A x \in Writer \ {u} :
             Stamps(buffer'[u]) \cap Stamps(buffer'[x]) = {}
      BY <3>1 DEF TreeInv, Stamps
    <3> QED
      BY <3>1, <3>2, <3>3 DEF TreeInv
  <2> QED
    BY <1>1, <2>1, <2>2, <2>3, <2>4 DEF Write
<1>2. ASSUME NEW c \in Checkpointer, Run(c) PROVE TreeInv'
  <2>1. UNCHANGED chainVars /\ now' \in {now, now + 1}
    BY <1>2 DEF Run, VerifyChain, ReadHead, CreateCheckpoint, CleanupCheckpoints,
                CommitRun, AbandonRun, EndRun
  <2>2. \A e : e \in committed \/ (\E t \in Writer : e \in buffer[t]) => e.at \in Nat
    BY <1>0 DEF TypeOK, Event, Stamp
  <2>3. now \in Nat
    BY <1>0 DEF TypeOK
  <2>4. \A u \in Writer : Visible(u)' = Visible(u)
    BY <2>1 DEF chainVars, Visible
  <2> QED
    BY <2>1, <2>2, <2>3, <2>4 DEF TreeInv, chainVars
<1>3. CASE UNCHANGED vars
  BY <1>3 DEF vars, TreeInv, Visible
<1> QED
  BY <1>1, <1>2, <1>3 DEF Next

LEMMA InitTreeInv == Init => TreeInv
BY DEF Init, TreeInv, Stamps

\* Each step of the audit trail is a step of the abstract tree or a stutter.
LEMMA StepGrowsTree ==
    ASSUME TypeInv, TreeInv, TreeInv', [Next]_vars
    PROVE  [Tree!Grow]_committed
<1>1. ASSUME NEW t \in Writer, CommitWriter(t) PROVE Tree!Grow
  <2>1. committed' = committed \cup buffer[t]
    BY <1>1 DEF CommitWriter
  <2>2. \A e \in committed' : RootedIn(committed', e)
    BY DEF TreeInv
  <2>3. \A e \in committed' \ committed : e.at \notin Stamps(committed)
    BY <2>1 DEF TreeInv
  <2> QED
    BY <2>1, <2>2, <2>3 DEF Tree!Grow, Tree!Rooted, Tree!Stamps, Tree!Genesis,
                            RootedIn, Stamps, Genesis
<1>2. CASE ~ \E t \in Writer : CommitWriter(t)
  BY <1>2 DEF Next, vars, Write, ReadLatest, InsertEvent, RollbackWriter, Run,
              VerifyChain, ReadHead, CreateCheckpoint, CleanupCheckpoints,
              CommitRun, AbandonRun, EndRun, chainVars
<1> QED
  BY <1>1, <1>2

\* For any number of concurrent writers, rollbacks and checkpoint runs the
\* audit trail implements the append-only tree.
THEOREM ImplementsTree == Spec => TrailIsTree
<1>1. Init => Tree!Init
  BY DEF Init, Tree!Init
<1>2. TypeInv /\ TreeInv /\ TreeInv' /\ [Next]_vars => [Tree!Grow]_committed
  BY StepGrowsTree
<1> QED
  BY <1>1, <1>2, InitTypeInv, NextTypeInv, InitTreeInv, NextTreeInv, PTL
     DEF Spec, TrailIsTree, Tree!Spec

-----------------------------------------------------------------------------
(***************************************************************************)
(* What a failed verification means.  Both facts use that predecessors are *)
(* in the trail and older.                                                 *)
(***************************************************************************)

LEMMA BrokenStays ==
    ASSUME TypeInv, TreeInv, [Next]_vars, ~ChainValid(committed)
    PROVE  ~ChainValid(committed')
<1>1. committed \subseteq committed'
  BY DEF Next, vars, Write, ReadLatest, InsertEvent, CommitWriter, RollbackWriter,
         Run, VerifyChain, ReadHead, CreateCheckpoint, CleanupCheckpoints,
         CommitRun, AbandonRun, EndRun, chainVars
<1>2. PICK e \in committed : ~Linked(committed, e)
  BY DEF ChainValid
<1>3. PICK f \in committed : f.at < e.at /\ ~(f.at <= e.prev)
  BY <1>2 DEF Linked, TreeInv, RootedIn
<1>4. ~Linked(committed', e)
  BY <1>1, <1>3 DEF Linked
<1> QED
  BY <1>1, <1>4 DEF ChainValid

\* A failed verification is permanent: no later event or late commit cures it.
THEOREM BrokenForever == Spec => BrokenStaysBroken
<1>1. TypeInv /\ TreeInv /\ [Next]_vars
        => [~ChainValid(committed) => ~ChainValid(committed')]_committed
  BY BrokenStays
<1> QED
  BY <1>1, InitTypeInv, NextTypeInv, InitTreeInv, NextTreeInv, PTL
     DEF Spec, BrokenStaysBroken

\* Events of the trail are told apart by their created_at.
UniqueStamps == \A e, f \in committed : e.at = f.at => e = f

LEMMA NextUniqueStamps ==
    ASSUME TypeInv, TreeInv, UniqueStamps, [Next]_vars,
           \A t \in Writer : \A e, f \in buffer[t] : e.at = f.at => e = f
    PROVE  /\ UniqueStamps'
           /\ \A t \in Writer : \A e, f \in buffer'[t] : e.at = f.at => e = f
<1>1. ASSUME NEW t \in Writer, CommitWriter(t)
      PROVE  /\ UniqueStamps'
             /\ \A u \in Writer : \A e, f \in buffer'[u] : e.at = f.at => e = f
  <2>1. committed' = committed \cup buffer[t]
    BY <1>1 DEF CommitWriter
  <2>2. \A e \in buffer[t], f \in committed : e.at # f.at
    BY DEF TreeInv, Stamps
  <2>3. \A u \in Writer : buffer'[u] \in {{}, buffer[u]}
    BY <1>1 DEF CommitWriter, TypeInv, TypeOK
  <2> QED
    BY <2>1, <2>2, <2>3 DEF UniqueStamps
<1>2. ASSUME NEW t \in Writer, InsertEvent(t)
      PROVE  /\ UniqueStamps'
             /\ \A u \in Writer : \A e, f \in buffer'[u] : e.at = f.at => e = f
  <2> DEFINE new == [at |-> now, prev |-> latest[t]]
  <2>1. \A u \in Writer : buffer'[u] \subseteq buffer[u] \cup {new}
    BY <1>2 DEF InsertEvent, TypeInv, TypeOK
  <2>2. \A u \in Writer : \A e \in buffer[u] : e.at # now
    BY DEF TreeInv, TypeInv, TypeOK
  <2>3. UniqueStamps'
    BY <1>2 DEF InsertEvent, UniqueStamps
  <2> QED
    BY <2>1, <2>2, <2>3
<1>3. CASE ~ \E t \in Writer : CommitWriter(t) \/ InsertEvent(t)
  <2>1. UNCHANGED committed /\ \A u \in Writer : buffer'[u] \in {{}, buffer[u]}
    BY <1>3 DEF Next, vars, Write, ReadLatest, RollbackWriter, Run, VerifyChain,
                ReadHead, CreateCheckpoint, CleanupCheckpoints, CommitRun,
                AbandonRun, EndRun, chainVars, TypeInv, TypeOK
  <2> QED
    BY <2>1 DEF UniqueStamps
<1> QED
  BY <1>1, <1>2, <1>3

\* A rooted trail without a fork is a chain.  Otherwise take the oldest event
\* that skips one, and the oldest event it skips: that one's predecessor is
\* not the skipping event's, so it skips that predecessor and is older.
LEMMA NoForkIsChain ==
    ASSUME TypeOK, TreeInv, \A e, f \in committed : e.prev = f.prev => e = f
    PROVE  ChainValid(committed)
<1> DEFINE Skips(e, f) == e \in committed /\ f \in committed
                          /\ e.prev < f.at /\ f.at < e.at
           Bad == {a \in Stamp : \E e, f \in committed : e.at = a /\ Skips(e, f)}
<1>0. \A e \in committed : e.at \in Nat /\ e.at \in Stamp /\ e.prev \in Nat /\ e.at > 0
  BY DEF TypeOK, Event, Stamp, Genesis
<1>1. Bad = {}
  <2> SUFFICES ASSUME Bad # {} PROVE FALSE
    OBVIOUS
  <2>1. Bad \subseteq Nat
    BY DEF Stamp
  <2>2. PICK a \in Bad : \A b \in Bad : a <= b
    BY <2>1, LeastNat
  <2>3. PICK e \in committed : e.at = a /\ \E f \in committed : Skips(e, f)
    BY <2>2
  <2> DEFINE Skipped == {b \in Stamp : \E f \in committed : f.at = b /\ Skips(e, f)}
  <2>4. Skipped \subseteq Nat /\ Skipped # {}
    BY <1>0, <2>3 DEF Stamp
  <2>5. PICK b \in Skipped : \A d \in Skipped : b <= d
    BY <2>4, LeastNat
  <2>6. PICK f \in committed : f.at = b /\ Skips(e, f)
    BY <2>5
  <2>7. f.prev < f.at /\ f.prev \in {Genesis} \cup Stamps(committed)
    BY DEF TreeInv, RootedIn
  <2>8. f.prev # e.prev
    BY <1>0, <2>6
  <2>9. f.prev < e.prev
    <3> SUFFICES ASSUME f.prev > e.prev PROVE FALSE
      BY <1>0, <2>8
    <3>1. f.prev # Genesis
      BY <1>0 DEF Genesis
    <3>2. PICK g \in committed : g.at = f.prev
      BY <2>7, <3>1 DEF Stamps
    <3>3. Skips(e, g) /\ g.at \in Stamp
      BY <1>0, <2>6, <2>7, <3>2
    <3>4. b <= g.at
      BY <2>5, <3>3
    <3> QED
      BY <1>0, <2>6, <2>7, <3>2, <3>4
  <2>10. PICK g \in committed : g.at = e.prev
    <3>1. e.prev # Genesis
      BY <1>0, <2>9 DEF Genesis
    <3> QED
      BY <3>1 DEF TreeInv, RootedIn, Stamps
  <2>11. Skips(f, g)
    BY <2>6, <2>9, <2>10
  <2>12. f.at \in Bad
    BY <1>0, <2>11
  <2>13. a <= f.at
    BY <2>2, <2>12
  <2> QED
    BY <1>0, <2>3, <2>6, <2>13
<1>2. \A e, f \in committed : f.at < e.at => f.at <= e.prev
  BY <1>0, <1>1
<1> QED
  BY <1>2 DEF ChainValid, Linked, TreeInv, RootedIn

LEMMA ChainHasNoFork ==
    ASSUME TypeOK, UniqueStamps, ChainValid(committed)
    PROVE  \A e, f \in committed : e.prev = f.prev => e = f
<1> SUFFICES ASSUME NEW e \in committed, NEW f \in committed, e.prev = f.prev
             PROVE  e.at = f.at
  BY DEF UniqueStamps
<1>1. e.at \in Nat /\ f.at \in Nat /\ e.prev \in Nat
  BY DEF TypeOK, Event, Stamp, Genesis
<1>2. ~(e.at < f.at) /\ ~(f.at < e.at)
  BY <1>1 DEF ChainValid, Linked
<1> QED
  BY <1>1, <1>2

\* The only way a verification of the committed trail can fail is a fork.
THEOREM OnlyForksBreak == Spec => []InvalidMeansFork
<1> DEFINE Unique == /\ UniqueStamps
                     /\ \A t \in Writer : \A e, f \in buffer[t] : e.at = f.at => e = f
<1>1. Init => Unique
  BY DEF Init, UniqueStamps
<1>2. TypeInv /\ TreeInv /\ Unique /\ [Next]_vars => Unique'
  BY NextUniqueStamps
<1>3. TypeInv /\ TreeInv /\ Unique => InvalidMeansFork
  BY NoForkIsChain, ChainHasNoFork DEF InvalidMeansFork, TypeInv
<1> QED
  BY <1>1, <1>2, <1>3, InitTypeInv, NextTypeInv, InitTreeInv, NextTreeInv, PTL
     DEF Spec

-----------------------------------------------------------------------------
(***************************************************************************)
(* One transaction at a time: the trail is a chain.                        *)
(***************************************************************************)

OneWriter == \A t, u \in Writer : t = u

SerialInv ==
    /\ ChainValid(committed)
    /\ \A t \in Writer :
           /\ \A e \in Visible(t), f \in Visible(t) : f.at < e.at => f.at <= e.prev
           /\ t \in reading => \A e \in Visible(t) : e.at <= latest[t]

LEMMA NextSerialInv ==
    ASSUME OneWriter, TypeInv, TreeInv, TreeInv', SerialInv, [Next]_vars
    PROVE  SerialInv'
<1>0. TypeOK
  BY DEF TypeInv
<1>1. ASSUME NEW t \in Writer, Write(t) PROVE SerialInv'
  <2>0. Writer = {t}
    BY DEF OneWriter
  <2>1. CASE ReadLatest(t)
    <3>1. \A e \in Visible(t) : e.at <= latest'[t]
      <4>1. latest'[t] = Newest(Visible(t))
        BY <1>0, <2>1 DEF ReadLatest, TypeOK
      <4> QED
        BY <1>0, <4>1, VisibleType, NewestProperty
    <3> QED
      BY <2>0, <2>1, <3>1 DEF ReadLatest, SerialInv, Visible
  <2>2. CASE InsertEvent(t)
    <3> DEFINE new == [at |-> now, prev |-> latest[t]]
    <3>1. /\ UNCHANGED <<committed, latest>> /\ reading' = {} /\ t \in reading
          /\ Visible(t)' = Visible(t) \cup {new}
      BY <1>0, <2>0, <2>2 DEF InsertEvent, TypeOK, Visible
    <3>2. \A e \in Visible(t) : e.at <= latest[t] /\ e.at < now /\ e.at \in Nat
      <4>1. \A e \in Visible(t) : e.at <= latest[t]
        BY <3>1 DEF SerialInv
      <4>2. \A e \in Visible(t) : e.at < now
        BY DEF TreeInv, Visible
      <4>3. \A e \in Visible(t) : e.at \in Nat
        BY <1>0, VisibleType DEF Event, Stamp
      <4> QED
        BY <4>1, <4>2, <4>3
    <3>3. now \in Nat
      BY <1>0 DEF TypeOK
    <3>4. ASSUME NEW e \in Visible(t)', NEW f \in Visible(t)', f.at < e.at
          PROVE  f.at <= e.prev
      <4>1. CASE f = new
        BY <3>1, <3>2, <3>3, <3>4, <4>1
      <4>2. CASE f \in Visible(t)
        BY <3>1, <3>2, <3>4, <4>2 DEF SerialInv
      <4> QED
        BY <3>1, <4>1, <4>2
    <3>5. ChainValid(committed')
      BY <3>1 DEF SerialInv
    <3> QED
      BY <2>0, <3>1, <3>4, <3>5 DEF SerialInv
  <2>3. CASE CommitWriter(t)
    <3>1. /\ committed' = Visible(t) /\ buffer'[t] = {} /\ t \notin reading'
      BY <1>0, <2>3 DEF CommitWriter, TypeOK, Visible
    <3>2. Visible(t)' = Visible(t)
      BY <3>1 DEF Visible
    <3>3. ChainValid(committed')
      BY <3>1 DEF SerialInv, TreeInv, RootedIn, ChainValid, Linked
    <3> QED
      BY <2>0, <3>1, <3>2, <3>3 DEF SerialInv
  <2>4. CASE RollbackWriter(t)
    <3>1. /\ UNCHANGED committed /\ t \notin reading' /\ Visible(t)' \subseteq Visible(t)
      BY <1>0, <2>4 DEF RollbackWriter, TypeOK, Visible
    <3> QED
      BY <2>0, <3>1 DEF SerialInv
  <2> QED
    BY <1>1, <2>1, <2>2, <2>3, <2>4 DEF Write
<1>2. CASE ~ \E t \in Writer : Write(t)
  <2>1. UNCHANGED chainVars
    BY <1>2 DEF Next, vars, Run, VerifyChain, ReadHead, CreateCheckpoint,
                CleanupCheckpoints, CommitRun, AbandonRun, EndRun, chainVars
  <2> QED
    BY <2>1 DEF chainVars, SerialInv, Visible
<1> QED
  BY <1>1, <1>2

\* If the requests of an organization append one after the other, through
\* any rollbacks, the committed trail verifies at every moment.
THEOREM SerialTrailIsChain ==
    ASSUME OneWriter
    PROVE  Spec => []CommittedChainValid
<1>1. Init => SerialInv
  BY DEF Init, SerialInv, ChainValid, Visible
<1>2. TypeInv /\ TreeInv /\ TreeInv' /\ SerialInv /\ [Next]_vars => SerialInv'
  BY NextSerialInv
<1>3. SerialInv => CommittedChainValid
  BY DEF SerialInv, CommittedChainValid
<1> QED
  BY <1>1, <1>2, <1>3, InitTypeInv, NextTypeInv, InitTreeInv, NextTreeInv, PTL
     DEF Spec

-----------------------------------------------------------------------------
(***************************************************************************)
(* A checkpoint is not behind its verification: the trail only grows from  *)
(* the verification to the read of the newest event and to the count.      *)
(***************************************************************************)

Covers(k) ==
    /\ k.covers \subseteq Stamps(committed)
    /\ \A s \in k.covers : s <= k.latest
    /\ Cardinality(k.covers) <= k.count

CheckpointInv ==
    /\ CheckpointCoversVerified
    /\ \A c \in Checkpointer :
           /\ verified[c] \subseteq Stamps(committed)
           /\ pc[c] = "headRead" => \A s \in verified[c] : s <= head[c]
           /\ \A k \in draft[c] : Covers(k)

\* There are no more timestamps than events.
LEMMA StampCount ==
    ASSUME TypeInv, NEW T, T \subseteq Stamps(committed)
    PROVE  Cardinality(T) <= Cardinality(committed)
<1> DEFINE at == [e \in committed |-> e.at]
<1>1. IsFiniteSet(committed)
  BY DEF TypeInv
<1>2. at \in Surjection(committed, Stamps(committed))
  BY DEF Surjection, Stamps
<1>3. IsFiniteSet(Stamps(committed)) /\ Cardinality(Stamps(committed)) <= Cardinality(committed)
  BY <1>1, <1>2, FS_Surjection
<1>4. IsFiniteSet(T) /\ Cardinality(T) <= Cardinality(Stamps(committed))
  BY <1>3, FS_Subset
<1> QED
  BY <1>1, <1>3, <1>4, FS_CardinalityType

LEMMA NextCheckpointInv == TypeInv /\ CheckpointInv /\ [Next]_vars => CheckpointInv'
<1> SUFFICES ASSUME TypeInv, CheckpointInv, [Next]_vars PROVE CheckpointInv'
  OBVIOUS
<1>0. TypeOK
  BY DEF TypeInv
<1> USE DEF CheckpointCoversVerified, Covers
<1>1. ASSUME NEW t \in Writer, Write(t) PROVE CheckpointInv'
  <2>1. UNCHANGED runVars /\ committed \subseteq committed'
    BY <1>1 DEF Write, ReadLatest, InsertEvent, CommitWriter, RollbackWriter
  <2>2. Stamps(committed) \subseteq Stamps(committed')
    BY <2>1 DEF Stamps
  <2> QED
    BY <2>1, <2>2 DEF runVars, CheckpointInv
<1>2. ASSUME NEW c \in Checkpointer, Run(c) PROVE CheckpointInv'
  <2>0. UNCHANGED committed
    BY <1>2 DEF Run, VerifyChain, ReadHead, CreateCheckpoint, CleanupCheckpoints,
                CommitRun, AbandonRun, EndRun, chainVars
  <2>1. CASE VerifyChain(c)
    BY <1>0, <2>0, <2>1 DEF VerifyChain, CheckpointInv, TypeOK
  <2>2. CASE ReadHead(c)
    <3>1. \A s \in verified[c] : s <= Newest(committed)
      BY <1>0, NewestProperty DEF CheckpointInv, Stamps, TypeOK
    <3> QED
      BY <1>0, <2>0, <2>2, <3>1 DEF ReadHead, CheckpointInv, TypeOK
  <2>3. CASE CreateCheckpoint(c)
    <3>1. Cardinality(verified[c]) <= Cardinality(committed)
      BY StampCount DEF CheckpointInv
    <3>2. \A k \in draft'[c] : Covers(k)
      BY <1>0, <2>3, <3>1 DEF CreateCheckpoint, CheckpointInv, TypeOK
    <3>3. \A d \in Checkpointer \ {c} : draft'[d] = draft[d]
      BY <1>0, <2>3 DEF CreateCheckpoint, TypeOK
    <3> QED
      BY <1>0, <2>0, <2>3, <3>2, <3>3 DEF CreateCheckpoint, CheckpointInv, TypeOK
  <2>4. CASE CleanupCheckpoints(c)
    BY <1>0, <2>0, <2>4 DEF CleanupCheckpoints, CheckpointInv, TypeOK
  <2>5. CASE CommitRun(c)
    BY <1>0, <2>0, <2>5 DEF CommitRun, EndRun, CheckpointInv, TypeOK
  <2>6. CASE AbandonRun(c)
    BY <1>0, <2>0, <2>6 DEF AbandonRun, EndRun, CheckpointInv, TypeOK
  <2> QED
    BY <1>2, <2>1, <2>2, <2>3, <2>4, <2>5, <2>6 DEF Run
<1>3. CASE UNCHANGED vars
  BY <1>3 DEF vars, CheckpointInv
<1> QED
  BY <1>1, <1>2, <1>3 DEF Next

\* Whatever commits between its three statements, a signed checkpoint counts
\* at least the events that were verified and names none older than them.
THEOREM CheckpointsCover == Spec => []CheckpointCoversVerified
<1>1. Init => CheckpointInv
  BY DEF Init, CheckpointInv, CheckpointCoversVerified, Covers
<1>2. CheckpointInv => CheckpointCoversVerified
  BY DEF CheckpointInv
<1> QED
  BY <1>1, <1>2, InitTypeInv, NextTypeInv, NextCheckpointInv, PTL DEF Spec

-----------------------------------------------------------------------------
(***************************************************************************)
(* The newest checkpoint.  A clean-up dooms what it has listed but the     *)
(* newest of it; if another run has deleted that one since, it did so for  *)
(* a newer one still.                                                      *)
(***************************************************************************)

\* Whatever c is about to delete, something newer is there, or comes with c's commit.
Outlived(c) ==
    /\ pc[c] # "cleaned" => doomed[c] = {}
    /\ doomed[c] # {} =>
           \E j \in checkpoints \cup draft[c] : \A d \in doomed[c] : d.at < j.at

KeptInv == \A c \in Checkpointer : Outlived(c)

\* What a clean-up does not keep is older than the newest of what it lists.
LEMMA NewestIsKept ==
    ASSUME NEW S, S \subseteq Checkpoint, NEW n \in Nat \ {0}, S \ Keep(S, n) # {}
    PROVE  \E j \in S : \A d \in S \ Keep(S, n) : d.at < j.at
<1> DEFINE T == {k.at : k \in S}
<1>1. T \subseteq Stamp /\ T # {} /\ \A k \in S : k.at \in T
  BY DEF Checkpoint
<1> HIDE DEF T
<1>2. PICK m \in T : \A s \in T : s <= m
  BY <1>1, GreatestStamp
<1>3. PICK j \in S : j.at = m
  BY <1>2 DEF T
<1>4. ASSUME NEW d \in S \ Keep(S, n) PROVE d.at < j.at
  <2>1. ~(Cardinality({k \in S : k.at > d.at}) < n)
    BY DEF Keep
  <2>2. {k \in S : k.at > d.at} # {}
    BY <2>1, FS_EmptySet
  <2>3. PICK k \in S : k.at > d.at
    BY <2>2
  <2>4. k.at <= j.at /\ k.at \in Nat /\ d.at \in Nat /\ j.at \in Nat
    BY <1>1, <1>2, <1>3 DEF Checkpoint, Stamp
  <2> QED
    BY <2>3, <2>4
<1> QED
  BY <1>3, <1>4

\* A commit deletes no checkpoint without leaving a newer one.
LEMMA CommitLeavesNewer ==
    ASSUME TypeOK, KeptInv, NEW c \in Checkpointer, CommitRun(c), NEW k \in checkpoints
    PROVE  \E j \in checkpoints' : j.at >= k.at
<1>1. checkpoints' = (checkpoints \cup draft[c]) \ doomed[c]
  BY DEF CommitRun
<1>2. \A j \in checkpoints \cup draft[c] : j.at \in Nat
  BY DEF TypeOK, Checkpoint, Stamp
<1>3. CASE k \notin doomed[c]
  BY <1>1, <1>2, <1>3
<1>4. CASE k \in doomed[c]
  <2>1. PICK j \in checkpoints \cup draft[c] : \A d \in doomed[c] : d.at < j.at
    BY <1>4 DEF KeptInv, Outlived
  <2>2. j \notin doomed[c]
    BY <1>2, <2>1
  <2> QED
    BY <1>1, <1>2, <1>4, <2>1, <2>2
<1> QED
  BY <1>3, <1>4

LEMMA NextKeptInv == TypeOK /\ KeptInv /\ [Next]_vars => KeptInv'
<1> SUFFICES ASSUME TypeOK, KeptInv, [Next]_vars PROVE KeptInv'
  OBVIOUS
<1>1. ASSUME NEW t \in Writer, Write(t) PROVE KeptInv'
  BY <1>1 DEF Write, ReadLatest, InsertEvent, CommitWriter, RollbackWriter, runVars,
              KeptInv, Outlived
<1>2. ASSUME NEW c \in Checkpointer, Run(c) PROVE KeptInv'
  <2>1. CASE VerifyChain(c)
    BY <2>1 DEF VerifyChain, TypeOK, KeptInv, Outlived
  <2>2. CASE ReadHead(c)
    BY <2>2 DEF ReadHead, TypeOK, KeptInv, Outlived
  <2>3. CASE CreateCheckpoint(c)
    <3>1. /\ pc[c] = "headRead" /\ pc' = [pc EXCEPT ![c] = "created"]
          /\ UNCHANGED <<checkpoints, doomed>>
          /\ \A d \in Checkpointer \ {c} : draft'[d] = draft[d]
      BY <2>3 DEF CreateCheckpoint, TypeOK
    <3>2. doomed[c] = {}
      BY <3>1 DEF KeptInv, Outlived
    <3> QED
      BY <3>1, <3>2 DEF TypeOK, KeptInv, Outlived
  <2>4. CASE CleanupCheckpoints(c)
    <3>1. PICK n \in Nat \ {0} :
             doomed' = [doomed EXCEPT ![c] =
                          (checkpoints \cup draft[c]) \ Keep(checkpoints \cup draft[c], n)]
      <4>1. PICK keepLast \in KeepLast :
               doomed' = [doomed EXCEPT ![c] =
                            (checkpoints \cup draft[c])
                              \ Keep(checkpoints \cup draft[c],
                                     IF keepLast < 1 THEN 1 ELSE keepLast)]
        BY <2>4 DEF CleanupCheckpoints
      <4>2. keepLast \in Nat
        BY AuditChainAssumption
      <4>3. (IF keepLast < 1 THEN 1 ELSE keepLast) \in Nat \ {0}
        BY <4>2
      <4> QED
        BY <4>1, <4>3
    <3>2. /\ pc' = [pc EXCEPT ![c] = "cleaned"] /\ UNCHANGED <<checkpoints, draft>>
          /\ \A d \in Checkpointer \ {c} : doomed'[d] = doomed[d] /\ pc'[d] = pc[d]
      BY <2>4, <3>1 DEF CleanupCheckpoints, TypeOK
    <3>3. checkpoints \cup draft[c] \subseteq Checkpoint
      BY DEF TypeOK
    <3>4. Outlived(c)'
      <4> PICK S : S = checkpoints \cup draft[c]
        OBVIOUS
      <4>1. doomed'[c] = S \ Keep(S, n)
        BY <3>1 DEF TypeOK
      <4>2. doomed'[c] # {} => \E j \in S : \A d \in doomed'[c] : d.at < j.at
        BY <3>3, <4>1, NewestIsKept
      <4> QED
        BY <3>2, <4>2 DEF Outlived, TypeOK
    <3>5. \A d \in Checkpointer \ {c} : Outlived(d)'
      BY <3>2 DEF KeptInv, Outlived
    <3> QED
      BY <3>4, <3>5 DEF KeptInv
  <2>5. CASE CommitRun(c)
    <3>1. /\ checkpoints' = (checkpoints \cup draft[c]) \ doomed[c] /\ doomed'[c] = {}
          /\ \A d \in Checkpointer \ {c} :
                 pc'[d] = pc[d] /\ doomed'[d] = doomed[d] /\ draft'[d] = draft[d]
      BY <2>5 DEF CommitRun, EndRun, TypeOK
    <3>2. ASSUME NEW d \in Checkpointer \ {c} PROVE Outlived(d)'
      <4>1. Outlived(d)
        BY DEF KeptInv
      <4>2. ASSUME doomed[d] # {}
            PROVE  \E j \in checkpoints' \cup draft[d] : \A x \in doomed[d] : x.at < j.at
        <5>1. PICK j \in checkpoints \cup draft[d] : \A x \in doomed[d] : x.at < j.at
          BY <4>1, <4>2 DEF Outlived
        <5>2. CASE j \in draft[d]
          BY <5>1, <5>2
        <5>3. CASE j \in checkpoints
          <6>1. PICK i \in checkpoints' : i.at >= j.at
            BY <2>5, <5>3, CommitLeavesNewer
          <6>2. i.at \in Nat /\ j.at \in Nat /\ \A x \in doomed[d] : x.at \in Nat
            BY <3>1, <5>3 DEF TypeOK, Checkpoint, Stamp
          <6> QED
            BY <5>1, <6>1, <6>2
        <5> QED
          BY <5>1, <5>2, <5>3
      <4> QED
        BY <3>1, <4>1, <4>2 DEF Outlived
    <3>3. Outlived(c)'
      BY <3>1 DEF Outlived
    <3> QED
      BY <3>2, <3>3 DEF KeptInv
  <2>6. CASE AbandonRun(c)
    <3>1. /\ UNCHANGED checkpoints /\ doomed'[c] = {}
          /\ \A d \in Checkpointer \ {c} :
                 pc'[d] = pc[d] /\ doomed'[d] = doomed[d] /\ draft'[d] = draft[d]
      BY <2>6 DEF AbandonRun, EndRun, TypeOK
    <3> QED
      BY <3>1 DEF KeptInv, Outlived
  <2> QED
    BY <1>2, <2>1, <2>2, <2>3, <2>4, <2>5, <2>6 DEF Run
<1>3. CASE UNCHANGED vars
  BY <1>3 DEF vars, KeptInv, Outlived
<1> QED
  BY <1>1, <1>2, <1>3 DEF Next

\* However creations and clean-ups overlap, a checkpoint is deleted only when a
\* checkpoint that is not older stays or comes: NewestCheckpointKept.
THEOREM NewestKept == Spec => NewestCheckpointKept
<1>1. Init => KeptInv
  BY DEF Init, KeptInv, Outlived
<1>2. TypeOK /\ KeptInv /\ [Next]_vars
        => [\A k \in checkpoints : \E j \in checkpoints' : j.at >= k.at]_checkpoints
  <2> SUFFICES ASSUME TypeOK, KeptInv, [Next]_vars, checkpoints' # checkpoints,
                      NEW k \in checkpoints
               PROVE  \E j \in checkpoints' : j.at >= k.at
    OBVIOUS
  <2>1. PICK c \in Checkpointer : CommitRun(c)
    BY DEF Next, vars, Write, ReadLatest, InsertEvent, CommitWriter, RollbackWriter, Run,
           VerifyChain, ReadHead, CreateCheckpoint, CleanupCheckpoints, AbandonRun, runVars
  <2> QED
    BY <2>1, CommitLeavesNewer
<1>3. TypeInv => TypeOK
  BY DEF TypeInv
<1> QED
  BY <1>1, <1>2, <1>3, InitTypeInv, NextTypeInv, NextKeptInv, PTL
     DEF Spec, NewestCheckpointKept

=============================================================================
