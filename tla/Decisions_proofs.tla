--------------------------- MODULE Decisions_proofs ---------------------------
(***************************************************************************)
(* Theorems about the way from a recommendation to a change, for any       *)
(* number of rows, people and overlapping requests.                        *)
(*                                                                         *)
(* Experiments: the dual approval of a risky experiment reaches the run.   *)
(* Idempotency keys: a key creates one row, and one more at most for each  *)
(* time Redis failed or forgot it, and its stored answer is true.          *)
(* Execution plans: a plan that nobody overwrote is consistent, a plan     *)
(* that is blocked is never handed off, and a result is recorded once per  *)
(* change of the experiment's derived state.                               *)
(* The composition implements each part, Opportunities included, whose     *)
(* theorems are in Opportunities_proofs.                                   *)
(***************************************************************************)
EXTENDS Decisions, Opportunities_proofs

-----------------------------------------------------------------------------
(***************************************************************************)
(* EXPERIMENTS.                                                            *)
(***************************************************************************)

\* A request in flight is an approval or a transition, and says which.
LEMMA ClientTyped ==
  ASSUME LabTypeOK, NEW c \in Client
  PROVE  /\ client[c].op = "approve" =>
              client[c] \in Approval /\ client[c].exp \in Experiment /\ client[c].by \in User
         /\ client[c].op = "transition" =>
              /\ client[c] \in Transition /\ client[c].exp \in Experiment
              /\ client[c].to \in DOMAIN Allowed
         /\ client[c] \in Transition => client[c].op = "transition"
BY DEF LabTypeOK, Approval, Transition, NoCall

\* Enough people approved e to let it run.
Approved(e) == Cardinality(approvals[e]) >= 2

\* Approvals are those of finitely many people, never of the owner.
ApprovalsOK ==
  /\ \A e \in Experiment : IsFiniteSet(approvals[e]) /\ owner[e] \notin approvals[e]
  /\ \A c \in Client : client[c].op = "approve" => client[c].by # owner[client[c].exp]

\* The approvals cover what runs and what was let through and will run.
RunsOK ==
  /\ \A e \in Experiment : Starting(e) => status[e] # "absent"
  /\ \A e \in risky : status[e] = "running" \/ Starting(e) => Approved(e) \/ e \in raised

LabInv == LabTypeOK /\ ApprovalsOK /\ RunsOK

\* LabInv contains the property.
LEMMA LabInvRuns == LabInv => RunningWasApproved
<1> SUFFICES ASSUME LabInv, NEW e \in risky, status[e] = "running", e \notin raised
             PROVE  Cardinality(approvals[e] \ {owner[e]}) >= 2
  BY DEF RunningWasApproved
<1>1. Approved(e)
  BY DEF LabInv, RunsOK
<1>2. approvals[e] \ {owner[e]} = approvals[e]
  BY DEF LabInv, LabTypeOK, ApprovalsOK
<1> QED
  BY <1>1, <1>2 DEF Approved

\* An approval never takes one away.
LEMMA MoreApprovals ==
  ASSUME NEW S, IsFiniteSet(S), NEW u
  PROVE  IsFiniteSet(S \cup {u}) /\ (Cardinality(S) >= 2 => Cardinality(S \cup {u}) >= 2)
<1>1. Cardinality(S) \in Nat
  BY FS_CardinalityType
<1> QED
  BY <1>1, FS_AddElement

\* The invariant holds initially.
LEMMA LabInvInit == LabInit => LabInv
<1>1. IsFiniteSet({})
  BY FS_EmptySet
<1> QED
  BY <1>1 DEF LabInit, LabInv, LabTypeOK, ApprovalsOK, RunsOK, NoCall, Starting, Transition

\* Who has just begun a transition, and who had before.
LEMMA StartingAfter ==
  ASSUME LabTypeOK, NEW c \in Client, NEW call, Serve(c, call), NEW e \in Experiment
  PROVE  Starting(e)' => Starting(e) \/ (call.exp = e /\ call.to = "running" /\ call \in Transition)
<1>1. client'[c] = call /\ \A d \in Client : d # c => client'[d] = client[d]
  BY DEF Serve, LabTypeOK
<1> QED
  BY <1>1 DEF Starting

\* Who is done is not starting any more.
LEMMA StartingLess ==
  ASSUME LabTypeOK, NEW c \in Client, Finish(c), NEW e \in Experiment
  PROVE  /\ Starting(e)' => Starting(e)
         /\ \A d \in Client : client'[d].op = "approve" => client'[d] = client[d]
         /\ client' \in [Client -> Approval \cup Transition \cup {NoCall}]
<1>1. client'[c] = NoCall /\ \A d \in Client : d # c => client'[d] = client[d]
  BY DEF Finish, LabTypeOK
<1>2. NoCall \notin Transition /\ NoCall.op # "approve"
  BY DEF NoCall, Transition
<1> QED
  BY <1>1, <1>2 DEF Starting, Finish, LabTypeOK

\* Every step keeps the invariant.
LEMMA LabInvStep ==
  ASSUME LabInv, [LabNext]_labVars
  PROVE  LabInv'
<1>1. ASSUME NEW e \in Experiment, CreateExperiment(e) PROVE LabInv'
  <2>1. /\ status[e] = "absent" /\ status' = [status EXCEPT ![e] = "draft"]
        /\ risky' \in {risky, risky \cup {e}}
        /\ UNCHANGED <<owner, approvals, client, raised>>
    BY <1>1 DEF CreateExperiment
  <2>2. LabTypeOK'
    BY <2>1 DEF LabInv, LabTypeOK, Allowed
  <2>3. ApprovalsOK'
    BY <2>1 DEF LabInv, ApprovalsOK
  <2>4. ~Starting(e)
    BY <2>1 DEF LabInv, RunsOK
  <2>5. \A f \in Experiment : Starting(f)' = Starting(f)
    BY <2>1 DEF Starting
  <2>6. /\ status'[e] = "draft" /\ \A f \in Experiment : f # e => status'[f] = status[f]
        /\ \A f \in risky' : f \in Experiment /\ (f # e => f \in risky)
    BY <2>1 DEF LabInv, LabTypeOK
  <2>7. RunsOK'
    BY <2>1, <2>4, <2>5, <2>6 DEF LabInv, RunsOK, Approved
  <2> QED
    BY <2>2, <2>3, <2>7 DEF LabInv
<1>2. ASSUME NEW e \in Experiment, UpdateExperiment(e) PROVE LabInv'
  <2>1. /\ status[e] # "absent" /\ UNCHANGED <<status, owner, approvals, client>>
        /\ \/ risky' = risky \ {e} /\ raised' = raised
           \/ /\ risky' = risky \cup {e}
              /\ raised' = IF status[e] = "running" \/ Starting(e) THEN raised \cup {e} ELSE raised
    BY <1>2 DEF UpdateExperiment
  <2>2. LabTypeOK' /\ ApprovalsOK'
    BY <2>1 DEF LabInv, LabTypeOK, ApprovalsOK
  <2>3. \A f \in Experiment : Starting(f)' = Starting(f) /\ Approved(f)' = Approved(f)
    BY <2>1 DEF Starting, Approved
  <2>4. risky' \subseteq risky \cup {e} /\ raised \subseteq raised'
    BY <2>1
  <2>5. RunsOK'
    BY <2>1, <2>3, <2>4 DEF LabInv, LabTypeOK, RunsOK
  <2> QED
    BY <2>2, <2>5 DEF LabInv
<1>3. ASSUME NEW c \in Client, NEW e \in Experiment, NEW u \in User, ApproveBegin(c, e, u)
      PROVE LabInv'
  <2> PICK call : call = [op |-> "approve", exp |-> e, by |-> u]
    OBVIOUS
  <2>1. /\ u # owner[e] /\ Serve(c, call)
        /\ UNCHANGED <<status, risky, owner, approvals, raised>>
    BY <1>3 DEF ApproveBegin
  <2>2. call \in Approval /\ call \notin Transition
    BY DEF Approval, Transition
  <2>3. client'[c] = call /\ \A d \in Client : d # c => client'[d] = client[d]
    BY <2>1 DEF Serve, LabInv, LabTypeOK
  <2>4. LabTypeOK'
    BY <2>1, <2>2 DEF LabInv, LabTypeOK, Serve
  <2>5. ApprovalsOK'
    BY <2>1, <2>3 DEF LabInv, ApprovalsOK
  <2>6. \A f \in Experiment : Starting(f)' => Starting(f)
    BY <2>1, <2>2, StartingAfter DEF LabInv
  <2>7. RunsOK'
    BY <2>1, <2>6 DEF LabInv, LabTypeOK, RunsOK, Approved
  <2> QED
    BY <2>4, <2>5, <2>7 DEF LabInv
<1>4. ASSUME NEW c \in Client, ApproveCommit(c) PROVE LabInv'
  <2>1. client[c].exp \in Experiment /\ client[c].by \in User /\ client[c].by # owner[client[c].exp]
    BY <1>4, ClientTyped DEF ApproveCommit, LabInv, ApprovalsOK
  <2> PICK e \in Experiment : e = client[c].exp
    BY <2>1
  <2> PICK u \in User : u = client[c].by
    BY <2>1
  <2>2. /\ approvals' = [approvals EXCEPT ![e] = @ \cup {u}] /\ Finish(c)
        /\ UNCHANGED <<status, risky, owner, raised>>
    BY <1>4 DEF ApproveCommit
  <2>3. /\ approvals'[e] = approvals[e] \cup {u}
        /\ \A f \in Experiment : f # e => approvals'[f] = approvals[f]
    BY <2>2 DEF LabInv, LabTypeOK
  <2>4. IsFiniteSet(approvals'[e]) /\ (Approved(e) => Approved(e)')
    <3> PICK S : S = approvals[e]
      OBVIOUS
    <3>1. IsFiniteSet(S)
      BY DEF LabInv, ApprovalsOK
    <3>2. IsFiniteSet(S \cup {u}) /\ (Cardinality(S) >= 2 => Cardinality(S \cup {u}) >= 2)
      BY <3>1, MoreApprovals
    <3> QED
      BY <2>3, <3>2 DEF Approved
  <2>5. LabTypeOK'
    BY <2>2, StartingLess DEF LabInv, LabTypeOK
  <2>6. ApprovalsOK'
    BY <2>1, <2>2, <2>3, <2>4, StartingLess DEF LabInv, ApprovalsOK
  <2>7. \A f \in Experiment : Approved(f) => Approved(f)'
    BY <2>3, <2>4 DEF Approved
  <2>8. RunsOK'
    BY <2>2, <2>7, StartingLess DEF LabInv, LabTypeOK, RunsOK
  <2> QED
    BY <2>5, <2>6, <2>8 DEF LabInv
<1>5. ASSUME NEW c \in Client, NEW e \in Experiment, NEW to \in DOMAIN Allowed,
             TransitionBegin(c, e, to)
      PROVE LabInv'
  <2> PICK call : call = [op |-> "transition", exp |-> e, to |-> to]
    OBVIOUS
  <2>1. /\ status[e] # "absent" /\ Authorized(e, to) /\ Serve(c, call)
        /\ raised' = IF to = "running" THEN raised \ {e} ELSE raised
        /\ UNCHANGED <<status, risky, owner, approvals>>
    BY <1>5 DEF TransitionBegin
  <2>2. call \in Transition /\ call.op # "approve" /\ call.exp = e /\ call.to = to
    BY DEF Transition
  <2>3. client'[c] = call /\ \A d \in Client : d # c => client'[d] = client[d]
    BY <2>1 DEF Serve, LabInv, LabTypeOK
  <2>4. LabTypeOK'
    BY <2>1, <2>2 DEF LabInv, LabTypeOK, Serve
  <2>5. ApprovalsOK'
    BY <2>1, <2>2, <2>3 DEF LabInv, ApprovalsOK
  <2>6. \A f \in Experiment : Starting(f)' => Starting(f) \/ (f = e /\ to = "running")
    BY <2>1, <2>2, StartingAfter DEF LabInv
  <2>7. to = "running" /\ e \in risky => Approved(e)
    BY <2>1 DEF Authorized, Approved
  <2>8. RunsOK'
    BY <2>1, <2>6, <2>7 DEF LabInv, LabTypeOK, RunsOK, Approved
  <2> QED
    BY <2>4, <2>5, <2>8 DEF LabInv
<1>6. ASSUME NEW c \in Client, TransitionCommit(c) PROVE LabInv'
  <2>1. /\ client[c] \in Transition /\ client[c].exp \in Experiment
        /\ client[c].to \in DOMAIN Allowed
    BY <1>6, ClientTyped DEF TransitionCommit, LabInv
  <2> PICK e \in Experiment : e = client[c].exp
    BY <2>1
  <2> PICK to \in DOMAIN Allowed : to = client[c].to
    BY <2>1
  <2>2. /\ status' = [status EXCEPT ![e] = to] /\ Finish(c)
        /\ UNCHANGED <<risky, owner, approvals, raised>>
    BY <1>6 DEF TransitionCommit
  <2>3. /\ status'[e] = to /\ to # "absent"
        /\ \A f \in Experiment : f # e => status'[f] = status[f]
    BY <2>2 DEF LabInv, LabTypeOK, Allowed
  <2>4. to = "running" => Starting(e)
    BY <2>1 DEF Starting
  <2>5. LabTypeOK'
    BY <2>2, StartingLess DEF LabInv, LabTypeOK
  <2>6. ApprovalsOK'
    BY <2>2, StartingLess DEF LabInv, ApprovalsOK
  <2>7. RunsOK'
    BY <2>2, <2>3, <2>4, StartingLess DEF LabInv, LabTypeOK, RunsOK, Approved
  <2> QED
    BY <2>5, <2>6, <2>7 DEF LabInv
<1>7. CASE UNCHANGED labVars
  BY <1>7 DEF labVars, LabInv, LabTypeOK, ApprovalsOK, RunsOK, Approved, Starting
<1> QED
  BY <1>1, <1>2, <1>3, <1>4, <1>5, <1>6, <1>7 DEF LabNext

\* LabTypeOK: the experiments and the requests that change them keep their types: a
\* request that was let through can be carried out whatever the others did since.
THEOREM LabTypeCorrect == LabSpec => []LabTypeOK
<1>1. LabInv => LabTypeOK
  BY DEF LabInv
<1>2. LabInv /\ [LabNext]_labVars => LabInv'
  BY LabInvStep
<1> QED
  BY <1>1, <1>2, LabInvInit, PTL DEF LabSpec

\* RunningWasApproved: a risky experiment that is running was approved by two people
\* other than its owner, unless its guardrails were loosened after the check that
\* let it run.
THEOREM DualApproval == LabSpec => []RunningWasApproved
<1>1. LabInv /\ [LabNext]_labVars => LabInv'
  BY LabInvStep
<1> QED
  BY <1>1, LabInvInit, LabInvRuns, PTL DEF LabSpec

-----------------------------------------------------------------------------
(***************************************************************************)
(* IDEMPOTENCY KEYS.                                                       *)
(***************************************************************************)

-----------------------------------------------------------------------------
(***************************************************************************)
(* Type correctness.                                                       *)
(***************************************************************************)

\* Who is busy has a row.
Busy == \A s \in Sender : sending[s] # NoSend => sending[s].row \in Row

KeysTyped == KeysTypeOK /\ Busy

LEMMA SendersTyped ==
  ASSUME KeysTypeOK, NEW s \in Sender
  PROVE  /\ sending[s].at \in {"idle", "inserting", "answered"}
         /\ sending[s].key \in Key \cup {NoKey} /\ sending[s].row \in Row \cup {NoRow}
BY DEF KeysTypeOK

\* A failed call or an expiry is counted.
LEMMA OutageTyped ==
  ASSUME KeysTypeOK, NEW k \in Key, Outage(k)
  PROVE  /\ outages' \in [Key -> 0 .. MaxOutages] /\ outages'[k] = outages[k] + 1
         /\ \A l \in Key : l # k => outages'[l] = outages[l]
<1>1. /\ outages \in [Key -> 0 .. MaxOutages] /\ outages[k] < MaxOutages
      /\ outages' = [outages EXCEPT ![k] = @ + 1] /\ MaxOutages \in Nat
  BY KeysAssumption DEF Outage, KeysTypeOK
<1>2. outages[k] + 1 \in 0 .. MaxOutages
  BY <1>1
<1> QED
  BY <1>1, <1>2

\* The request that starts inserts r under k, and nothing else changes hands.
LEMMA Started ==
  ASSUME KeysTyped, NEW s \in Sender, NEW k \in Key \cup {NoKey}, NEW r \in Row,
         StartInsert(s, k, r)
  PROVE  /\ sending' \in [Sender -> [at : {"idle", "inserting", "answered"},
                                     key : Key \cup {NoKey}, row : Row \cup {NoRow}]]
         /\ Busy' /\ sending[s] = NoSend
         /\ sending'[s] = [at |-> "inserting", key |-> k, row |-> r]
         /\ \A t \in Sender : t # s => sending'[t] = sending[t]
         /\ row' = row /\ answer' = answer /\ born' = born /\ phantom' = phantom
<1>1. /\ sending' = [sending EXCEPT ![s] = [at |-> "inserting", key |-> k, row |-> r]]
      /\ UNCHANGED <<row, answer, born, phantom>> /\ sending[s] = NoSend
  BY DEF StartInsert
<1>2. [at |-> "inserting", key |-> k, row |-> r]
        \in [at : {"idle", "inserting", "answered"}, key : Key \cup {NoKey}, row : Row \cup {NoRow}]
  OBVIOUS
<1> QED
  BY <1>1, <1>2 DEF KeysTyped, KeysTypeOK, Busy

\* The request that ends leaves its place.
LEMMA Ended ==
  ASSUME KeysTyped, NEW s \in Sender, sending' = [sending EXCEPT ![s] = NoSend]
  PROVE  /\ sending' \in [Sender -> [at : {"idle", "inserting", "answered"},
                                     key : Key \cup {NoKey}, row : Row \cup {NoRow}]]
         /\ Busy' /\ sending'[s] = NoSend
         /\ \A t \in Sender : t # s => sending'[t] = sending[t]
<1>1. NoSend \in [at : {"idle", "inserting", "answered"},
                  key : Key \cup {NoKey}, row : Row \cup {NoRow}] /\ NoSend.at = "idle"
  BY DEF NoSend
<1> QED
  BY <1>1 DEF KeysTyped, KeysTypeOK, Busy

\* What storing an answer does to the request, and to the answers.
LEMMA Answered ==
  ASSUME KeysTyped, NEW s \in Sender, StoreResponse(s)
  PROVE  /\ sending' = [sending EXCEPT ![s].at = "answered"]
         /\ sending[s].row \in Row
         /\ UNCHANGED <<row, claimed, born, phantom>>
         /\ \/ UNCHANGED <<answer, outages>>
            \/ \E k \in Key : answer' = [answer EXCEPT ![k] = sending[s].row] /\ UNCHANGED outages
            \/ \E k \in Key : Outage(k) /\ UNCHANGED answer
<1>1. sending[s].key \in Key \cup {NoKey} /\ sending[s].at = "inserting"
  BY SendersTyped DEF KeysTyped, StoreResponse
<1> QED
  BY <1>1 DEF StoreResponse, KeysTyped, Busy, NoSend

\* The type invariant is inductive.
LEMMA KeysTypeStep ==
  ASSUME KeysTyped, [KeysNext]_keyVars
  PROVE  KeysTyped'
<1>1. ASSUME NEW s \in Sender, NEW k \in Key, NEW r \in Row, PrepareRequest(s, k, r)
      PROVE KeysTyped'
  BY <1>1, Started, OutageTyped DEF PrepareRequest, KeysTyped, KeysTypeOK
<1>2. ASSUME NEW s \in Sender, NEW r \in Row, PrepareWithoutKey(s, r) PROVE KeysTyped'
  BY <1>2, Started DEF PrepareWithoutKey, KeysTyped, KeysTypeOK
<1>3. ASSUME NEW s \in Sender, StoreResponse(s) PROVE KeysTyped'
  <2>1. outages' \in [Key -> 0 .. MaxOutages] /\ answer' \in [Key -> Row \cup {NoRow}]
    <3>1. CASE UNCHANGED <<answer, outages>>
      BY <3>1 DEF KeysTyped, KeysTypeOK
    <3>2. ASSUME NEW k \in Key, answer' = [answer EXCEPT ![k] = sending[s].row], UNCHANGED outages
          PROVE  outages' \in [Key -> 0 .. MaxOutages] /\ answer' \in [Key -> Row \cup {NoRow}]
      BY <1>3, <3>2, Answered DEF KeysTyped, KeysTypeOK
    <3>3. ASSUME NEW k \in Key, Outage(k), UNCHANGED answer
          PROVE  outages' \in [Key -> 0 .. MaxOutages] /\ answer' \in [Key -> Row \cup {NoRow}]
      BY <3>3, OutageTyped DEF KeysTyped, KeysTypeOK
    <3> QED
      BY <1>3, <3>1, <3>2, <3>3, Answered
  <2> QED
    BY <1>3, <2>1, Answered DEF KeysTyped, KeysTypeOK, Busy
<1>4. ASSUME NEW s \in Sender, CommitRow(s) PROVE KeysTyped'
  <2>1. sending[s].row \in Row
    BY <1>4 DEF CommitRow, KeysTyped, Busy, NoSend
  <2> QED
    BY <1>4, <2>1, Ended DEF CommitRow, KeysTyped, KeysTypeOK
<1>5. ASSUME NEW s \in Sender, RollBackRow(s) PROVE KeysTyped'
  <2>1. \/ phantom' = phantom
        \/ \E k \in Key : answer[k] = sending[s].row /\ phantom' = phantom \cup {sending[s].row}
    BY <1>5 DEF RollBackRow
  <2>2. sending[s].row \in Row
    BY <1>5 DEF RollBackRow, KeysTyped, Busy
  <2> QED
    BY <1>5, <2>1, <2>2, Ended DEF RollBackRow, KeysTyped, KeysTypeOK
<1>6. ASSUME NEW k \in Key, KeyExpires(k) PROVE KeysTyped'
  BY <1>6, OutageTyped DEF KeyExpires, KeysTyped, KeysTypeOK, Busy
<1>7. CASE UNCHANGED keyVars
  BY <1>7 DEF keyVars, KeysTyped, KeysTypeOK, Busy
<1> QED
  BY <1>1, <1>2, <1>3, <1>4, <1>5, <1>6, <1>7 DEF KeysNext

\* KeysTypeOK: every variable of the idempotency keys keeps its type.
THEOREM KeysTypeCorrect == KeysSpec => []KeysTypeOK
<1>1. KeysInit => KeysTyped
  BY KeysAssumption DEF KeysInit, KeysTyped, KeysTypeOK, Busy, NoSend
<1>2. KeysTyped /\ [KeysNext]_keyVars => KeysTyped'
  BY KeysTypeStep
<1>3. KeysTyped => KeysTypeOK
  BY DEF KeysTyped
<1> QED
  BY <1>1, <1>2, <1>3, PTL DEF KeysSpec

-----------------------------------------------------------------------------
(***************************************************************************)
(* What a key creates.  The rows created under a key and those that        *)
(* requests are inserting under it are no more than the failures of Redis, *)
(* and one if the key is claimed.                                          *)
(***************************************************************************)

Inserting(k) == {sending[s].row : s \in {t \in Sender : sending[t].key = k}}

Under(k) == born[k] \cup Inserting(k)

KeyCountOK(k) ==
  /\ IsFiniteSet(Under(k))
  /\ Cardinality(Under(k)) <= outages[k] + (IF k \in claimed THEN 1 ELSE 0)

AnswerOK(k) ==
  \/ answer[k] \in row \cup phantom \cup {NoRow}
  \/ \E s \in Sender : sending[s].at = "answered" /\ sending[s].row = answer[k]

KeysInv == KeysTyped /\ \A k \in Key : KeyCountOK(k) /\ AnswerOK(k)

\* KeysInv contains the property.
LEMMA InvCreatesOnce == KeysInv => KeysCreateOnce
<1> SUFFICES ASSUME KeysInv, NEW k \in Key
             PROVE  Cardinality(born[k]) <= 1 + outages[k] /\ AnswerOK(k)
  BY DEF KeysCreateOnce, AnswerOK
<1>1. IsFiniteSet(Under(k)) /\ born[k] \in SUBSET Under(k)
  BY DEF KeysInv, KeyCountOK, Under
<1>2. Cardinality(born[k]) <= Cardinality(Under(k)) /\ Cardinality(born[k]) \in Nat
      /\ Cardinality(Under(k)) \in Nat
  BY <1>1, FS_Subset, FS_CardinalityType
<1>3. outages[k] \in Nat
  BY KeysAssumption DEF KeysInv, KeysTyped, KeysTypeOK
<1> QED
  BY <1>2, <1>3 DEF KeysInv, KeyCountOK

\* Nothing new under a key that is no worse off.
LEMMA CountKept ==
  ASSUME KeysInv, NEW k \in Key, Under(k)' \subseteq Under(k), outages[k] \in Nat,
         \/ outages'[k] = outages[k] /\ (k \in claimed => k \in claimed')
         \/ outages'[k] = outages[k] + 1
  PROVE  KeyCountOK(k)'
<1> PICK S : S = Under(k)
  OBVIOUS
<1> PICK T : T = Under(k)'
  OBVIOUS
<1>1. IsFiniteSet(S) /\ Cardinality(S) <= outages[k] + (IF k \in claimed THEN 1 ELSE 0)
  BY DEF KeysInv, KeyCountOK
<1>2. IsFiniteSet(T) /\ Cardinality(T) <= Cardinality(S)
      /\ Cardinality(T) \in Nat /\ Cardinality(S) \in Nat
  BY <1>1, FS_Subset, FS_CardinalityType
<1> QED
  BY <1>1, <1>2 DEF KeyCountOK

\* One row more for a key that is claimed, or that Redis failed.
LEMMA CountOneMore ==
  ASSUME KeysInv, NEW k \in Key, NEW r, Under(k)' \subseteq Under(k) \cup {r}, outages[k] \in Nat,
         \/ k \notin claimed /\ k \in claimed' /\ outages'[k] = outages[k]
         \/ claimed' = claimed /\ outages'[k] = outages[k] + 1
  PROVE  KeyCountOK(k)'
<1> PICK S : S = Under(k)
  OBVIOUS
<1> PICK T : T = Under(k)'
  OBVIOUS
<1>1. IsFiniteSet(S) /\ Cardinality(S) <= outages[k] + (IF k \in claimed THEN 1 ELSE 0)
  BY DEF KeysInv, KeyCountOK
<1>2. /\ IsFiniteSet(S \cup {r}) /\ Cardinality(S \cup {r}) <= Cardinality(S) + 1
      /\ Cardinality(S) \in Nat /\ Cardinality(S \cup {r}) \in Nat
  <2>1. IsFiniteSet(S \cup {r}) /\ Cardinality(S) \in Nat
        /\ Cardinality(S \cup {r}) = IF r \in S THEN Cardinality(S) ELSE Cardinality(S) + 1
    BY <1>1, FS_AddElement, FS_CardinalityType
  <2> QED
    BY <2>1
<1>3. IsFiniteSet(T) /\ Cardinality(T) <= Cardinality(S \cup {r}) /\ Cardinality(T) \in Nat
  BY <1>2, FS_Subset, FS_CardinalityType
<1> QED
  BY <1>1, <1>2, <1>3 DEF KeyCountOK

\* Every step keeps the counts and the answers.
LEMMA KeysInvStep ==
  ASSUME KeysInv, [KeysNext]_keyVars
  PROVE  KeysInv'
<1>1. KeysTyped /\ KeysTypeOK /\ KeysTyped' /\ \A k \in Key : outages[k] \in Nat
  BY KeysTypeStep, KeysAssumption DEF KeysInv, KeysTyped, KeysTypeOK
<1> SUFFICES ASSUME NEW k \in Key PROVE KeyCountOK(k)' /\ AnswerOK(k)'
  BY <1>1 DEF KeysInv
<1>2. AnswerOK(k)
  BY DEF KeysInv
<1>3. ASSUME NEW s \in Sender, NEW l \in Key \cup {NoKey}, NEW r \in Row, StartInsert(s, l, r)
      PROVE  /\ AnswerOK(k)'
             /\ Under(k)' \subseteq Under(k) \cup {r} /\ (l # k => Under(k)' \subseteq Under(k))
  <2>1. /\ sending[s] = NoSend
        /\ sending'[s] = [at |-> "inserting", key |-> l, row |-> r]
        /\ \A t \in Sender : t # s => sending'[t] = sending[t]
        /\ row' = row /\ answer' = answer /\ born' = born /\ phantom' = phantom
    BY <1>1, <1>3, Started
  <2>2. AnswerOK(k)'
    BY <1>2, <2>1 DEF AnswerOK, NoSend
  <2> QED
    BY <2>1, <2>2 DEF Under, Inserting
<1>4. ASSUME NEW s \in Sender, NEW l \in Key, NEW r \in Row, PrepareRequest(s, l, r)
      PROVE  KeyCountOK(k)' /\ AnswerOK(k)'
  <2>1. /\ StartInsert(s, l, r)
        /\ \/ l \notin claimed /\ claimed' = claimed \cup {l} /\ UNCHANGED outages
           \/ Outage(l) /\ UNCHANGED claimed
    BY <1>4 DEF PrepareRequest
  <2>2. CASE l = k
    <3>1. \/ k \notin claimed /\ k \in claimed' /\ outages'[k] = outages[k]
          \/ claimed' = claimed /\ outages'[k] = outages[k] + 1
      BY <1>1, <2>1, <2>2, OutageTyped
    <3>2. Under(k)' \subseteq Under(k) \cup {r} /\ AnswerOK(k)'
      BY <1>3, <2>1
    <3> QED
      BY <1>1, <3>1, <3>2, CountOneMore
  <2>3. CASE l # k
    <3>1. outages'[k] = outages[k] /\ (k \in claimed => k \in claimed')
      BY <1>1, <2>1, <2>3, OutageTyped
    <3>2. Under(k)' \subseteq Under(k) /\ AnswerOK(k)'
      BY <1>3, <2>1, <2>3
    <3> QED
      BY <1>1, <3>1, <3>2, CountKept
  <2> QED
    BY <2>2, <2>3
<1>5. ASSUME NEW s \in Sender, NEW r \in Row, PrepareWithoutKey(s, r)
      PROVE  KeyCountOK(k)' /\ AnswerOK(k)'
  <2>1. StartInsert(s, NoKey, r) /\ UNCHANGED <<claimed, outages>> /\ NoKey # k
    BY <1>5, KeysAssumption DEF PrepareWithoutKey
  <2>2. Under(k)' \subseteq Under(k) /\ AnswerOK(k)'
    BY <1>3, <2>1
  <2> QED
    BY <1>1, <2>1, <2>2, CountKept
<1>6. ASSUME NEW s \in Sender, StoreResponse(s) PROVE KeyCountOK(k)' /\ AnswerOK(k)'
  <2>1. /\ sending' = [sending EXCEPT ![s].at = "answered"]
        /\ UNCHANGED <<row, claimed, born, phantom>>
        /\ \/ UNCHANGED <<answer, outages>>
           \/ \E l \in Key : answer' = [answer EXCEPT ![l] = sending[s].row] /\ UNCHANGED outages
           \/ \E l \in Key : Outage(l) /\ UNCHANGED answer
    BY <1>1, <1>6, Answered
  <2>2. \A t \in Sender : /\ sending'[t].key = sending[t].key /\ sending'[t].row = sending[t].row
                          /\ sending[t].at = "answered" => sending'[t].at = "answered"
    BY <1>1, <2>1 DEF KeysTypeOK
  <2>3. Under(k)' \subseteq Under(k)
    BY <2>1, <2>2 DEF Under, Inserting
  <2>4. outages'[k] = outages[k] \/ outages'[k] = outages[k] + 1
    BY <1>1, <2>1, OutageTyped
  <2>5. sending'[s].at = "answered"
    BY <1>1, <2>1 DEF KeysTypeOK
  <2>6. answer'[k] = answer[k] \/ answer'[k] = sending'[s].row
    BY <1>1, <2>1, <2>2 DEF KeysTypeOK
  <2>7. AnswerOK(k)'
    BY <1>2, <2>1, <2>2, <2>5, <2>6 DEF AnswerOK
  <2> QED
    BY <1>1, <2>1, <2>3, <2>4, <2>7, CountKept
<1>7. ASSUME NEW s \in Sender, CommitRow(s) PROVE KeyCountOK(k)' /\ AnswerOK(k)'
  <2>1. /\ row' = row \cup {sending[s].row}
        /\ born'[k] = IF k = sending[s].key THEN born[k] \cup {sending[s].row} ELSE born[k]
        /\ sending' = [sending EXCEPT ![s] = NoSend]
        /\ UNCHANGED <<claimed, answer, phantom, outages>>
    BY <1>7 DEF CommitRow
  <2>2. /\ sending'[s] = NoSend /\ NoSend.key # k
        /\ \A t \in Sender : t # s => sending'[t] = sending[t]
    BY <1>1, <2>1, Ended, KeysAssumption DEF NoSend
  <2>3. Under(k)' \subseteq Under(k)
    BY <2>1, <2>2 DEF Under, Inserting
  <2>4. AnswerOK(k)'
    BY <1>2, <2>1, <2>2 DEF AnswerOK
  <2> QED
    BY <1>1, <2>1, <2>3, <2>4, CountKept
<1>8. ASSUME NEW s \in Sender, RollBackRow(s) PROVE KeyCountOK(k)' /\ AnswerOK(k)'
  <2>1. /\ phantom' = phantom \cup (IF \E l \in Key : answer[l] = sending[s].row
                                    THEN {sending[s].row} ELSE {})
        /\ sending' = [sending EXCEPT ![s] = NoSend]
        /\ UNCHANGED <<row, claimed, answer, born, outages>>
    BY <1>8 DEF RollBackRow
  <2>2. /\ sending'[s] = NoSend /\ NoSend.key # k
        /\ \A t \in Sender : t # s => sending'[t] = sending[t]
    BY <1>1, <2>1, Ended, KeysAssumption DEF NoSend
  <2>3. Under(k)' \subseteq Under(k)
    BY <2>1, <2>2 DEF Under, Inserting
  <2>4. AnswerOK(k)'
    BY <1>2, <2>1, <2>2 DEF AnswerOK
  <2> QED
    BY <1>1, <2>1, <2>3, <2>4, CountKept
<1>9. ASSUME NEW l \in Key, KeyExpires(l) PROVE KeyCountOK(k)' /\ AnswerOK(k)'
  <2>1. /\ Outage(l) /\ claimed' = claimed \ {l}
        /\ answer' = answer \/ answer' = [answer EXCEPT ![l] = NoRow]
        /\ UNCHANGED <<row, sending, born, phantom>>
    BY <1>9 DEF KeyExpires
  <2>2. \/ outages'[k] = outages[k] /\ (k \in claimed => k \in claimed')
        \/ outages'[k] = outages[k] + 1
    BY <1>1, <2>1, OutageTyped
  <2>3. Under(k)' \subseteq Under(k)
    BY <2>1 DEF Under, Inserting
  <2>4. answer'[k] \in {answer[k], NoRow}
    BY <1>1, <2>1 DEF KeysTypeOK
  <2>5. AnswerOK(k)'
    BY <1>2, <2>1, <2>4 DEF AnswerOK
  <2> QED
    BY <1>1, <2>2, <2>3, <2>5, CountKept
<1>10. CASE UNCHANGED keyVars
  <2>1. Under(k)' \subseteq Under(k) /\ AnswerOK(k)'
    BY <1>2, <1>10 DEF keyVars, Under, Inserting, AnswerOK
  <2> QED
    BY <1>1, <1>10, <2>1, CountKept DEF keyVars
<1> QED
  BY <1>4, <1>5, <1>6, <1>7, <1>8, <1>9, <1>10 DEF KeysNext

\* KeysCreateOnce: a key creates one row, and one more at most for each time Redis
\* failed or forgot it, and its stored answer is that of a row that exists, is about
\* to be committed, or belonged to a request that failed after it.
THEOREM CreateOnce == KeysSpec => []KeysCreateOnce
<1>1. KeysInit => KeysInv
  <2> SUFFICES ASSUME KeysInit PROVE KeysInv
    OBVIOUS
  <2>1. KeysTyped
    BY KeysAssumption DEF KeysInit, KeysTyped, KeysTypeOK, Busy, NoSend
  <2>2. ASSUME NEW k \in Key PROVE Under(k) = {} /\ outages[k] = 0 /\ AnswerOK(k)
    BY KeysAssumption DEF KeysInit, Under, Inserting, NoSend, AnswerOK
  <2>3. IsFiniteSet({}) /\ Cardinality({}) = 0
    BY FS_EmptySet
  <2> QED
    BY <2>1, <2>2, <2>3 DEF KeysInv, KeyCountOK
<1>2. KeysInv /\ [KeysNext]_keyVars => KeysInv'
  BY KeysInvStep
<1> QED
  BY <1>1, <1>2, InvCreatesOnce, PTL DEF KeysSpec

-----------------------------------------------------------------------------
(***************************************************************************)
(* EXECUTION PLANS.                                                        *)
(***************************************************************************)

-----------------------------------------------------------------------------
(***************************************************************************)
(* Type correctness.                                                       *)
(***************************************************************************)

\* A request in flight has a plan, a row it read, and an argument its operation
\* understands.
LEMMA CallTyped ==
  ASSUME PlansTypeOK, NEW c \in Caller, caller[c] # None
  PROVE  /\ caller[c] \in PlanCall
         /\ caller[c].plan \in Plan /\ caller[c].read \in PlanRow
         /\ caller[c].alone \in BOOLEAN
         /\ caller[c].op \in {"restate", "handoff", "sync"}
         /\ caller[c].op = "restate" => caller[c].arg \in PlanStatus
         /\ caller[c].op = "handoff" => caller[c].arg \in Trial
         /\ caller[c].op = "sync" => caller[c].arg \in Tracked
<1>1. caller[c] \in PlanCall
  BY DEF PlansTypeOK
<1> QED
  BY <1>1 DEF PlanCall

\* A request that is overtaken is a request still.
LEMMA OvertakenTyped ==
  ASSUME PlansTypeOK, NEW c \in Caller, caller[c] # None
  PROVE  [caller[c] EXCEPT !.alone = FALSE] \in PlanCall
<1>1. caller[c] \in PlanCall
  BY DEF PlansTypeOK
<1> QED
  BY <1>1 DEF PlanCall

\* What the derived state of an experiment can be.
LEMMA DeriveTyped ==
  ASSUME NEW t \in TrialRow
  PROVE  Derive(t) \in Tracked
BY DEF Derive, TrialRow, Tracked

\* A request that begins keeps the types.
LEMMA BeginTyped ==
  ASSUME PlansTypeOK, NEW c \in Caller, NEW p \in Plan, NEW op, NEW arg,
         plan[p] # None, Call(c, p, op, arg),
         \/ op = "restate" /\ arg \in PlanStatus
         \/ op = "handoff" /\ arg \in Trial
         \/ op = "sync" /\ arg \in Tracked
  PROVE  PlansTypeOK'
<1>1. plan[p] \in PlanRow
  BY DEF PlansTypeOK
<1>2. [op |-> op, plan |-> p, read |-> plan[p], arg |-> arg, alone |-> TRUE] \in PlanCall
  BY <1>1 DEF PlanCall
<1>3. caller' \in [Caller -> PlanCall \cup {None}]
  BY <1>2 DEF Call, PlansTypeOK
<1> QED
  BY <1>3 DEF Call, PlansTypeOK

\* A request that writes keeps the types of what Write assigns.
LEMMA WriteTyped ==
  ASSUME PlansTypeOK, NEW c \in Caller, caller[c] # None, NEW new \in PlanRow, Write(c, new)
  PROVE  /\ plan' \in [Plan -> PlanRow \cup {None}]
         /\ contested' \subseteq Plan
         /\ caller' \in [Caller -> PlanCall \cup {None}]
<1>1. caller[c].plan \in Plan
  BY CallTyped
<1>2. ASSUME NEW d \in Caller PROVE caller'[d] \in PlanCall \cup {None}
  <2>1. caller[d] \in PlanCall \cup {None}
    BY DEF PlansTypeOK
  <2>2. caller'[d] \in {None, caller[d], [caller[d] EXCEPT !.alone = FALSE]}
        /\ (caller[d] = None => caller'[d] \in {None, caller[d]})
    BY DEF Write
  <2> QED
    BY <2>1, <2>2, OvertakenTyped
<1>3. caller' = [d \in Caller |-> caller'[d]]
  BY DEF Write
<1> QED
  BY <1>1, <1>2, <1>3 DEF Write, PlansTypeOK

\* So do the changes of an experiment.
LEMMA TurnTyped ==
  ASSUME PlansTypeOK, NEW x \in Trial, trial[x] # None, NEW t \in TrialRow, Turn(x, t)
  PROVE  PlansTypeOK'
<1>1. trial' \in [Trial -> TrialRow \cup {None}]
  BY DEF Turn, PlansTypeOK
<1>2. turns' \in [Trial -> 0 .. MaxTurns]
  <2>1. MaxTurns \in Nat /\ turns[x] \in 0 .. MaxTurns /\ turns \in [Trial -> 0 .. MaxTurns]
    BY PlansAssumption DEF PlansTypeOK
  <2>2. CASE Derive(t) = Derive(trial[x])
    BY <2>2, <2>1 DEF Turn
  <2>3. CASE Derive(t) # Derive(trial[x])
    <3>1. turns' = [turns EXCEPT ![x] = @ + 1] /\ turns'[x] <= MaxTurns
      BY <2>3 DEF Turn
    <3>2. turns[x] + 1 \in 0 .. MaxTurns
      BY <3>1, <2>1
    <3> QED
      BY <3>1, <3>2, <2>1
  <2> QED
    BY <2>2, <2>3
<1> QED
  BY <1>1, <1>2 DEF Turn, PlansTypeOK

\* Recorded results stay numbers.
LEMMA RecordedTyped ==
  ASSUME PlansTypeOK, NEW p \in Plan,
         recorded' \in {recorded, [recorded EXCEPT ![p] = @ + 1]}
  PROVE  recorded' \in [Plan -> Nat]
BY DEF PlansTypeOK


\* A request works on a plan that is stored.
Known == \A c \in Caller : caller[c] # None => plan[caller[c].plan] # None

PlansTyped == PlansTypeOK /\ Known

\* A request that begins knows its plan.
LEMMA BeginKnown ==
  ASSUME PlansTyped, NEW c \in Caller, NEW p \in Plan, NEW op, NEW arg,
         plan[p] # None, Call(c, p, op, arg)
  PROVE  Known'
BY DEF PlansTyped, Known, Call, PlansTypeOK

\* No plan is lost by a write.
LEMMA WriteKnown ==
  ASSUME PlansTyped, NEW c \in Caller, caller[c] # None, NEW new \in PlanRow, Write(c, new)
  PROVE  Known'
<1>1. new # None
  BY PlansAssumption
<1>2. ASSUME NEW d \in Caller, caller'[d] # None
      PROVE  caller[d] # None /\ caller'[d].plan = caller[d].plan
  <2>1. caller[d] \in PlanCall \cup {None}
    BY DEF PlansTyped, PlansTypeOK
  <2>2. caller'[d] \in {None, caller[d], [caller[d] EXCEPT !.alone = FALSE]}
        /\ (caller[d] = None => caller'[d] \in {None, caller[d]})
    BY DEF Write
  <2> QED
    BY <1>2, <2>1, <2>2 DEF PlanCall
<1> QED
  BY <1>1, <1>2, CallTyped DEF PlansTyped, Known, Write, PlansTypeOK

\* Every step keeps the types.
LEMMA PlansTypeStep ==
  ASSUME PlansTyped, [PlansNext]_planVars
  PROVE  PlansTyped'
<1>1. ASSUME NEW p \in Plan, NEW gated \in BOOLEAN, PreparePlan(p, gated) PROVE PlansTyped'
  <2> DEFINE s == IF gated THEN "blocked" ELSE "review_required"
  <2>1. [gated |-> gated, status |-> s, shown |-> s, lab |-> None, tracked |-> None] \in PlanRow
    BY DEF PlanRow, PlanStatus
  <2> DEFINE fresh == [gated |-> gated, status |-> s, shown |-> s, lab |-> None, tracked |-> None]
  <2> HIDE DEF s
  <2>2. plan' = [plan EXCEPT ![p] = fresh]
    BY <1>1 DEF PreparePlan, s
  <2>3. fresh \in PlanRow /\ fresh # None
    BY <2>1, PlansAssumption
  <2> HIDE DEF fresh
  <2>4. PlansTypeOK'
    BY <1>1, <2>2, <2>3 DEF PreparePlan, PlansTyped, PlansTypeOK
  <2>5. Known'
    BY <1>1, <2>2, <2>3, CallTyped DEF PreparePlan, PlansTyped, Known, PlansTypeOK
  <2> QED
    BY <2>4, <2>5 DEF PlansTyped
<1>2. ASSUME NEW c \in Caller, NEW p \in Plan, NEW to \in PlanStatus, ReviewBegin(c, p, to)
      PROVE PlansTyped'
  BY <1>2, BeginTyped, BeginKnown DEF ReviewBegin, PlansTyped
<1>3. ASSUME NEW c \in Caller, NEW p \in Plan, ScheduleBegin(c, p) PROVE PlansTyped'
  <2>1. "scheduled" \in PlanStatus
    BY DEF PlanStatus
  <2> QED
    BY <1>3, <2>1, BeginTyped, BeginKnown DEF ScheduleBegin, PlansTyped
<1>4. ASSUME NEW c \in Caller, NEW p \in Plan, SyncBegin(c, p) PROVE PlansTyped'
  <2>1. Derive(trial[plan[p].lab]) \in Tracked
    BY DEF Derive, Tracked
  <2> QED
    BY <1>4, <2>1, BeginTyped, BeginKnown DEF SyncBegin, PlansTyped
<1>5. ASSUME NEW c \in Caller, NEW p \in Plan, NEW x \in Trial, HandOffBegin(c, p, x)
      PROVE PlansTyped'
  BY <1>5, BeginTyped, BeginKnown DEF HandOffBegin, PlansTyped
<1>6. ASSUME NEW c \in Caller, RestateCommit(c) PROVE PlansTyped'
  <2>1. caller[c] # None /\ caller[c].read \in PlanRow /\ caller[c].arg \in PlanStatus
    BY <1>6, CallTyped DEF RestateCommit, Calling, PlansTyped
  <2>2. [caller[c].read EXCEPT !.status = caller[c].arg, !.shown = caller[c].arg] \in PlanRow
    BY <2>1 DEF PlanRow
  <2>3. PlansTypeOK'
    BY <1>6, <2>1, <2>2, WriteTyped DEF RestateCommit, PlansTypeOK, PlansTyped
  <2> QED
    BY <1>6, <2>1, <2>2, <2>3, WriteKnown DEF RestateCommit, PlansTyped
<1>7. ASSUME NEW c \in Caller, HandOffCommit(c) PROVE PlansTyped'
  <2> DEFINE p == caller[c].plan
             x == caller[c].arg
             new == [caller[c].read EXCEPT !.lab = x, !.status = plan[p].status]
  <2>1. caller[c] # None /\ caller[c].read \in PlanRow /\ x \in Trial /\ p \in Plan
    BY <1>7, CallTyped DEF HandOffCommit, Calling, PlansTyped
  <2>2. /\ Write(c, new) /\ recorded' = recorded /\ turns' = turns
        /\ trial' = [trial EXCEPT ![x] = [plan |-> p, status |-> "running", good |-> FALSE]]
    BY <1>7 DEF HandOffCommit
  <2>3. trial' \in [Trial -> TrialRow \cup {None}]
    BY <2>1, <2>2 DEF PlansTyped, PlansTypeOK, TrialRow
  <2>4. plan[p].status \in PlanStatus
    BY <2>1 DEF PlansTyped, Known, PlansTypeOK, PlanRow
  <2>5. new \in PlanRow
    BY <2>1, <2>4 DEF PlanRow
  <2> HIDE DEF new
  <2>6. PlansTypeOK'
    BY <2>1, <2>2, <2>3, <2>5, WriteTyped DEF PlansTypeOK, PlansTyped
  <2> QED
    BY <2>1, <2>2, <2>5, <2>6, WriteKnown DEF PlansTyped
<1>8. ASSUME NEW c \in Caller, SyncCommit(c) PROVE PlansTyped'
  <2> DEFINE p == caller[c].plan
             seen == caller[c].arg
             new == [caller[c].read EXCEPT !.tracked = seen, !.status = plan[p].status]
  <2>1. caller[c] # None /\ caller[c].read \in PlanRow /\ seen \in Tracked /\ p \in Plan
    BY <1>8, CallTyped DEF SyncCommit, Calling, PlansTyped
  <2>2. /\ Write(c, new) /\ trial' = trial /\ turns' = turns
        /\ recorded' \in {recorded, [recorded EXCEPT ![p] = @ + 1]}
    BY <1>8 DEF SyncCommit
  <2>3. plan[p].status \in PlanStatus
    BY <2>1 DEF PlansTyped, Known, PlansTypeOK, PlanRow
  <2>4. new \in PlanRow
    BY <2>1, <2>3 DEF PlanRow
  <2> HIDE DEF new
  <2>5. recorded' \in [Plan -> Nat]
    BY <2>1, <2>2, RecordedTyped DEF PlansTyped
  <2>6. PlansTypeOK'
    BY <2>1, <2>2, <2>4, <2>5, WriteTyped DEF PlansTypeOK, PlansTyped
  <2> QED
    BY <2>1, <2>2, <2>4, <2>6, WriteKnown DEF PlansTyped
<1>9. ASSUME NEW c \in Caller, CallFails(c) PROVE PlansTyped'
  BY <1>9, CallTyped DEF CallFails, PlansTyped, PlansTypeOK, Known
<1>10. ASSUME NEW x \in Trial, NEW to \in {"concluded", "cancelled"}, TrialEnds(x, to)
       PROVE PlansTyped'
  <2>1. [trial[x] EXCEPT !.status = to] \in TrialRow
    BY <1>10 DEF TrialEnds, PlansTyped, PlansTypeOK, TrialRow
  <2>2. PlansTypeOK'
    BY <1>10, <2>1, TurnTyped DEF TrialEnds, PlansTyped
  <2> QED
    BY <1>10, <2>2 DEF TrialEnds, Turn, PlansTyped, Known
<1>11. ASSUME NEW x \in Trial, TrialJudged(x) PROVE PlansTyped'
  <2>1. [trial[x] EXCEPT !.good = ~@] \in TrialRow
    BY <1>11 DEF TrialJudged, PlansTyped, PlansTypeOK, TrialRow
  <2>2. PlansTypeOK'
    BY <1>11, <2>1, TurnTyped DEF TrialJudged, PlansTyped
  <2> QED
    BY <1>11, <2>2 DEF TrialJudged, Turn, PlansTyped, Known
<1>12. CASE UNCHANGED planVars
  BY <1>12 DEF planVars, PlansTyped, PlansTypeOK, Known
<1> QED
  BY <1>1, <1>2, <1>3, <1>4, <1>5, <1>6, <1>7, <1>8, <1>9, <1>10, <1>11, <1>12 DEF PlansNext

\* PlansTypeOK: every variable of the execution plans keeps its type.
THEOREM PlansTypeCorrect == PlansSpec => []PlansTypeOK
<1>1. PlansInit => PlansTyped
  BY PlansAssumption DEF PlansInit, PlansTyped, PlansTypeOK, Known
<1>2. PlansTyped /\ [PlansNext]_planVars => PlansTyped'
  BY PlansTypeStep
<1>3. PlansTyped => PlansTypeOK
  BY DEF PlansTyped
<1> QED
  BY <1>1, <1>2, <1>3, PTL DEF PlansSpec

-----------------------------------------------------------------------------
(***************************************************************************)
(* Consistency.  The invariant says of each request in flight what its     *)
(* Begin checked, and that the row it read is the stored one while nobody  *)
(* else changed it; and that of two hand-offs in flight each creates an    *)
(* experiment of its own.                                                  *)
(***************************************************************************)

\* What a request in flight knows.
CallOK(c) ==
  /\ caller[c].alone => caller[c].read = plan[caller[c].plan]
  /\ caller[c].read.gated = plan[caller[c].plan].gated
  /\ caller[c].read.gated => caller[c].read.status \in {"blocked", "rejected"}
  /\ caller[c].op = "restate" =>
       /\ caller[c].read.status = "blocked" => caller[c].arg = "rejected"
       /\ caller[c].read.status = "approved" => caller[c].arg = "scheduled"
       /\ caller[c].read.status \notin {"rejected", "scheduled"}
  /\ caller[c].op = "handoff" =>
       /\ caller[c].read.status \in {"approved", "scheduled"}
       /\ caller[c].read.lab = None
       /\ trial[caller[c].arg] = None
       /\ \A d \in Caller : d # c /\ Calling(d, "handoff") => caller[d].arg # caller[c].arg

CallsOK == \A c \in Caller : caller[c] # None => CallOK(c)

\* A plan that the gates blocked.
GatedOK(p) ==
  plan[p].gated => plan[p].status \in {"blocked", "rejected"} /\ HandedOff(p) = {}

\* A plan no overtaken request has written.
OneStory(p) ==
  /\ plan[p].shown = plan[p].status
  /\ HandedOff(p) = {plan[p].lab} \ {None}
  /\ plan[p].lab # None => plan[p].status \in {"approved", "scheduled"}

PlansOK ==
  /\ \A p \in Plan : plan[p] # None => GatedOK(p) /\ (p \notin contested => OneStory(p))
  /\ \A x \in Trial : trial[x] # None => plan[trial[x].plan] # None

PlansInv == PlansTyped /\ CallsOK /\ PlansOK

\* PlansInv contains the property.
LEMMA InvConsistent == PlansInv => PlanIsConsistent
BY DEF PlansInv, PlansOK, GatedOK, OneStory, PlanIsConsistent

\* A request that begins on a stored row knows what its Begin checked.
LEMMA BeginOK ==
  ASSUME PlansInv, NEW c \in Caller, NEW p \in Plan, NEW op, NEW arg,
         plan[p] # None, Call(c, p, op, arg),
         op = "restate" =>
           /\ plan[p].status = "blocked" => arg = "rejected"
           /\ plan[p].status = "approved" => arg = "scheduled"
           /\ plan[p].status \notin {"rejected", "scheduled"},
         op = "handoff" =>
           /\ plan[p].status \in {"approved", "scheduled"} /\ plan[p].lab = None
           /\ trial[arg] = None
           /\ \A d \in Caller : Calling(d, "handoff") => caller[d].arg # arg
  PROVE  CallsOK' /\ PlansOK'
<1>1. /\ caller' = [caller EXCEPT ![c] = [op |-> op, plan |-> p, read |-> plan[p], arg |-> arg,
                                         alone |-> TRUE]]
      /\ plan' = plan /\ trial' = trial /\ contested' = contested
  BY DEF Call
<1>2. PlansOK'
  BY <1>1 DEF PlansInv, PlansOK, GatedOK, OneStory, HandedOff
<1>3. caller \in [Caller -> PlanCall \cup {None}]
  BY DEF PlansInv, PlansTyped, PlansTypeOK
<1>4. /\ caller'[c].op = op /\ caller'[c].plan = p /\ caller'[c].read = plan[p]
      /\ caller'[c].arg = arg
  BY <1>1, <1>3
<1>5. CallOK(c)'
  <2>1. \A d \in Caller : d # c => caller'[d] = caller[d]
    BY <1>1, <1>3
  <2>2. GatedOK(p)
    BY DEF PlansInv, PlansOK
  <2> QED
    BY <1>1, <1>4, <2>1, <2>2 DEF CallOK, GatedOK, Calling
<1>6. ASSUME NEW d \in Caller, d # c, caller'[d] # None PROVE CallOK(d)'
  <2>1. caller'[d] = caller[d] /\ CallOK(d)
    BY <1>1, <1>3, <1>6 DEF PlansInv, CallsOK
  <2>2. \A e \in Caller : e # c => caller'[e] = caller[e]
    BY <1>1, <1>3
  <2>3. caller[d].op = "handoff" =>
          \A e \in Caller : e # d /\ Calling(e, "handoff")' => caller'[e].arg # caller[d].arg
    BY <2>1, <2>2, <1>4, <1>6 DEF CallOK, Calling
  <2> QED
    BY <1>1, <2>1, <2>3 DEF CallOK
<1> QED
  BY <1>2, <1>5, <1>6 DEF CallsOK

\* What Write does to the other requests.
LEMMA WriteOthers ==
  ASSUME PlansTyped, NEW c \in Caller, caller[c] # None, NEW new, Write(c, new),
         NEW d \in Caller, caller'[d] # None
  PROVE  /\ d # c /\ caller[d] # None
         /\ caller'[d].op = caller[d].op /\ caller'[d].plan = caller[d].plan
         /\ caller'[d].read = caller[d].read /\ caller'[d].arg = caller[d].arg
         /\ caller'[d].alone =>
              /\ caller[d].alone
              /\ caller[d].plan = caller[c].plan => new = plan[caller[c].plan]
<1> DEFINE p == caller[c].plan
<1>1. caller'[d] = CASE d = c -> None
         [] d # c /\ caller[d] # None /\ caller[d].plan = p /\ new # plan[p] ->
              [caller[d] EXCEPT !.alone = FALSE]
         [] OTHER -> caller[d]
  BY DEF Write
<1>2. d # c /\ caller[d] # None
  BY <1>1
<1>3. caller[d] \in PlanCall
  BY <1>2 DEF PlansTyped, PlansTypeOK
<1>4. CASE caller[d].plan = p /\ new # plan[p]
  <2>1. caller'[d] = [caller[d] EXCEPT !.alone = FALSE]
    BY <1>1, <1>2, <1>4
  <2> QED
    BY <2>1, <1>2, <1>3 DEF PlanCall
<1>5. CASE ~(caller[d].plan = p /\ new # plan[p])
  <2>1. caller'[d] = caller[d]
    BY <1>1, <1>2, <1>5
  <2> QED
    BY <2>1, <1>2, <1>5
<1> QED
  BY <1>4, <1>5

\* A write leaves the other requests what they know.
LEMMA WriteCalls ==
  ASSUME PlansInv, NEW c \in Caller, caller[c] # None, NEW new \in PlanRow, Write(c, new),
         new.gated = plan[caller[c].plan].gated,
         \/ trial' = trial
         \/ Calling(c, "handoff") /\ \E t : trial' = [trial EXCEPT ![caller[c].arg] = t]
  PROVE  CallsOK'
<1>1. ASSUME NEW d \in Caller, caller'[d] # None PROVE CallOK(d)'
  <2>1. /\ d # c /\ caller[d] # None /\ CallOK(d)
        /\ caller'[d].op = caller[d].op /\ caller'[d].plan = caller[d].plan
        /\ caller'[d].read = caller[d].read /\ caller'[d].arg = caller[d].arg
        /\ caller'[d].alone =>
             /\ caller[d].alone
             /\ caller[d].plan = caller[c].plan => new = plan[caller[c].plan]
    BY <1>1, WriteOthers DEF PlansInv, CallsOK
  <2>2. plan' = [plan EXCEPT ![caller[c].plan] = new] /\ caller[c].plan \in Plan
        /\ caller[d].plan \in Plan
    BY <2>1, CallTyped DEF Write, PlansInv, PlansTyped
  <2>3. /\ plan'[caller[d].plan].gated = plan[caller[d].plan].gated
        /\ caller'[d].alone => plan'[caller[d].plan] = plan[caller[d].plan]
    BY <2>1, <2>2 DEF PlansInv, PlansTyped, PlansTypeOK
  <2>4. ASSUME caller[d].op = "handoff" PROVE trial'[caller[d].arg] = trial[caller[d].arg]
    <3>1. CASE trial' = trial
      BY <3>1
    <3>2. CASE Calling(c, "handoff") /\ \E t : trial' = [trial EXCEPT ![caller[c].arg] = t]
      <4>1. caller[c].arg # caller[d].arg
        BY <2>1, <2>4, <3>2 DEF CallOK
      <4>2. caller[d].arg \in Trial
        BY <2>1, <2>4, CallTyped DEF PlansInv, PlansTyped
      <4> QED
        BY <4>1, <4>2, <3>2 DEF PlansInv, PlansTyped, PlansTypeOK
    <3> QED
      BY <3>1, <3>2
  <2>5. ASSUME caller[d].op = "handoff", NEW e \in Caller, e # d, Calling(e, "handoff")'
        PROVE  caller'[e].arg # caller[d].arg
    <3>1. caller'[e] # None /\ caller'[e].op = "handoff"
      BY <2>5 DEF Calling
    <3>2. caller[e] # None /\ caller'[e].op = caller[e].op /\ caller'[e].arg = caller[e].arg
      BY <3>1, WriteOthers DEF PlansInv
    <3> QED
      BY <2>1, <2>5, <3>1, <3>2 DEF CallOK, Calling
  <2> QED
    BY <2>1, <2>3, <2>4, <2>5 DEF CallOK
<1> QED
  BY <1>1 DEF CallsOK

\* A write that leaves the experiments alone, keeps a blocked plan blocked, and
\* tells one story if nobody overtook the request.
LEMMA WritePlans ==
  ASSUME PlansInv, NEW c \in Caller, caller[c] # None, NEW new \in PlanRow, Write(c, new),
         trial' = trial,
         new.gated = plan[caller[c].plan].gated,
         new.gated => new.status \in {"blocked", "rejected"},
         caller[c].alone /\ caller[c].plan \notin contested =>
           /\ new.lab = plan[caller[c].plan].lab
           /\ \/ new.shown = new.status
              \/ /\ new.shown = plan[caller[c].plan].shown
                 /\ new.status = plan[caller[c].plan].status
           /\ new.lab # None => \/ new.status \in {"approved", "scheduled"}
                                \/ new.status = plan[caller[c].plan].status
  PROVE  PlansOK'
<1> PICK p \in Plan : p = caller[c].plan
  BY CallTyped DEF PlansInv, PlansTyped
<1>1. /\ plan' = [plan EXCEPT ![p] = new] /\ p \in Plan
      /\ contested' = IF caller[c].alone THEN contested ELSE contested \cup {p}
  BY DEF Write
<1>2. plan[p] # None /\ new # None
  BY PlansAssumption DEF PlansInv, PlansTyped, Known
<1>3. \A q \in Plan : HandedOff(q)' = HandedOff(q)
  BY DEF HandedOff
<1>4. /\ plan'[p] = new /\ \A q \in Plan : q # p => plan'[q] = plan[q]
  BY <1>1 DEF PlansInv, PlansTyped, PlansTypeOK
<1>5. GatedOK(p)' /\ (p \notin contested' => OneStory(p)')
  <2>1. GatedOK(p) /\ (p \notin contested => OneStory(p))
    BY <1>1, <1>2 DEF PlansInv, PlansOK
  <2> QED
    BY <2>1, <1>1, <1>3, <1>4 DEF GatedOK, OneStory
<1>6. ASSUME NEW q \in Plan, q # p, plan'[q] # None
      PROVE  GatedOK(q)' /\ (q \notin contested' => OneStory(q)')
  <2>1. GatedOK(q) /\ (q \notin contested => OneStory(q))
    BY <1>4, <1>6 DEF PlansInv, PlansOK
  <2> QED
    BY <2>1, <1>1, <1>3, <1>4, <1>6 DEF GatedOK, OneStory
<1>7. \A x \in Trial : trial'[x] # None => plan'[trial'[x].plan] # None
  BY <1>1, <1>2, <1>4 DEF PlansInv, PlansOK, PlansTyped, PlansTypeOK, TrialRow
<1>8. plan'[p] = new /\ \A q \in Plan : plan'[q] # None =>
        GatedOK(q)' /\ (q \notin contested' => OneStory(q)')
  BY <1>4, <1>5, <1>6
<1> QED
  BY <1>7, <1>8 DEF PlansOK

\* An experiment that changes keeps its plan.
LEMMA TurnOK ==
  ASSUME PlansInv, NEW x \in Trial, trial[x] # None, NEW t \in TrialRow, Turn(x, t),
         t.plan = trial[x].plan
  PROVE  CallsOK' /\ PlansOK'
<1>1. /\ trial' = [trial EXCEPT ![x] = t] /\ plan' = plan /\ caller' = caller
      /\ contested' = contested /\ trial \in [Trial -> TrialRow \cup {None}] /\ t # None
  BY PlansAssumption DEF Turn, PlansInv, PlansTyped, PlansTypeOK
<1>2. /\ \A y \in Trial : trial'[y] = None <=> trial[y] = None
      /\ \A y \in Trial : trial[y] # None => trial'[y].plan = trial[y].plan
  BY <1>1
<1>3. \A q \in Plan : HandedOff(q)' = HandedOff(q)
  BY <1>2 DEF HandedOff
<1>4. PlansOK'
  BY <1>1, <1>2, <1>3 DEF PlansInv, PlansOK, GatedOK, OneStory
<1>5. \A c \in Caller : caller[c] # None /\ caller[c].op = "handoff" => caller[c].arg \in Trial
  BY CallTyped DEF PlansInv, PlansTyped
<1>6. CallsOK'
  BY <1>1, <1>2, <1>5 DEF PlansInv, CallsOK, CallOK, Calling
<1> QED
  BY <1>4, <1>6

\* A hand-off that nobody overtook gives the plan the experiment it created, and
\* nobody else's experiment to any other plan.
LEMMA HandOffPlans ==
  ASSUME PlansInv, NEW c \in Caller, HandOffCommit(c)
  PROVE  CallsOK' /\ PlansOK'
<1>1. caller[c] # None /\ Calling(c, "handoff") /\ caller[c].op = "handoff" /\ CallOK(c)
  BY DEF HandOffCommit, Calling, PlansInv, CallsOK
<1> PICK p \in Plan : p = caller[c].plan
  BY <1>1, CallTyped DEF PlansInv, PlansTyped
<1> PICK x \in Trial : x = caller[c].arg
  BY <1>1, CallTyped DEF PlansInv, PlansTyped
<1> PICK new : new = [caller[c].read EXCEPT !.lab = x, !.status = plan[p].status]
  OBVIOUS
<1> PICK t : t = [plan |-> p, status |-> "running", good |-> FALSE]
  OBVIOUS
<1>2. Write(c, new) /\ trial' = [trial EXCEPT ![x] = t]
  BY DEF HandOffCommit
<1>3. plan[p] # None /\ plan[p] \in PlanRow /\ caller[c].read \in PlanRow
  BY <1>1, CallTyped DEF PlansInv, PlansTyped, Known, PlansTypeOK
<1>4. /\ new \in PlanRow /\ new.gated = plan[p].gated /\ new.lab = x
      /\ new.status = plan[p].status /\ new.shown = caller[c].read.shown /\ new # None
  BY <1>1, <1>3, PlansAssumption DEF PlanRow, CallOK
<1>5. t # None /\ t.plan = p /\ trial[x] = None /\ x # None
  <2>1. t \in TrialRow
    BY DEF TrialRow
  <2> QED
    BY <2>1, <1>1, PlansAssumption DEF CallOK
<1>6. CallsOK'
  BY <1>1, <1>2, <1>4, WriteCalls
<1>7. /\ plan'[p] = new /\ \A q \in Plan : q # p => plan'[q] = plan[q]
      /\ contested' = IF caller[c].alone THEN contested ELSE contested \cup {p}
  BY <1>2 DEF Write, PlansInv, PlansTyped, PlansTypeOK
<1>8. /\ trial'[x] = t /\ \A y \in Trial : y # x => trial'[y] = trial[y]
  BY <1>2 DEF PlansInv, PlansTyped, PlansTypeOK
<1>9. /\ HandedOff(p)' = HandedOff(p) \cup {x}
      /\ \A q \in Plan : q # p => HandedOff(q)' = HandedOff(q)
  BY <1>5, <1>8 DEF HandedOff
<1>10. ~plan[p].gated
  BY <1>1 DEF CallOK
<1>11. p \notin contested' => OneStory(p)'
  <2>1. ASSUME p \notin contested' PROVE OneStory(p)'
    <3>1. caller[c].alone /\ p \notin contested
      BY <2>1, <1>7
    <3>2. caller[c].read = plan[p] /\ plan[p].lab = None /\ OneStory(p)
          /\ plan[p].status \in {"approved", "scheduled"}
      BY <3>1, <1>1, <1>3 DEF CallOK, PlansInv, PlansOK
    <3>3. HandedOff(p)' = {x}
      BY <3>2, <1>9 DEF OneStory
    <3> QED
      BY <3>2, <3>3, <1>4, <1>5, <1>7 DEF OneStory
  <2> QED
    BY <2>1
<1>12. GatedOK(p)'
  BY <1>4, <1>7, <1>10 DEF GatedOK
<1>13. ASSUME NEW q \in Plan, q # p, plan'[q] # None
       PROVE  GatedOK(q)' /\ (q \notin contested' => OneStory(q)')
  <2>1. GatedOK(q) /\ (q \notin contested => OneStory(q))
    BY <1>7, <1>13 DEF PlansInv, PlansOK
  <2> QED
    BY <2>1, <1>7, <1>9, <1>13 DEF GatedOK, OneStory
<1>14. \A y \in Trial : trial'[y] # None => plan'[trial'[y].plan] # None
  <2>1. \A y \in Trial : trial[y] # None => trial[y].plan \in Plan /\ plan[trial[y].plan] # None
    BY DEF PlansInv, PlansOK, PlansTyped, PlansTypeOK, TrialRow
  <2> QED
    BY <2>1, <1>4, <1>5, <1>7, <1>8
<1> QED
  BY <1>6, <1>11, <1>12, <1>13, <1>14 DEF PlansOK

\* A new plan.
LEMMA PrepareOK ==
  ASSUME PlansInv, NEW p \in Plan, NEW gated \in BOOLEAN, PreparePlan(p, gated)
  PROVE  CallsOK' /\ PlansOK'
<1> PICK s : s = IF gated THEN "blocked" ELSE "review_required"
  OBVIOUS
<1> PICK fresh : fresh = [gated |-> gated, status |-> s, shown |-> s, lab |-> None, tracked |-> None]
  OBVIOUS
<1>1. /\ plan[p] = None /\ plan' = [plan EXCEPT ![p] = fresh]
      /\ trial' = trial /\ caller' = caller /\ contested' = contested
  BY DEF PreparePlan
<1>2. fresh \in PlanRow /\ fresh # None
  <2>1. fresh \in PlanRow
    BY DEF PlanRow, PlanStatus
  <2> QED
    BY <2>1, PlansAssumption
<1>3. plan'[p] = fresh /\ \A q \in Plan : q # p => plan'[q] = plan[q]
  BY <1>1 DEF PlansInv, PlansTyped, PlansTypeOK
<1>4. \A q \in Plan : HandedOff(q)' = HandedOff(q)
  BY <1>1 DEF HandedOff
<1>5. HandedOff(p) = {}
  BY <1>1 DEF HandedOff, PlansInv, PlansOK
<1>6. GatedOK(p)' /\ OneStory(p)'
  BY <1>3, <1>4, <1>5 DEF GatedOK, OneStory
<1>7. ASSUME NEW q \in Plan, q # p, plan'[q] # None
      PROVE  GatedOK(q)' /\ (q \notin contested' => OneStory(q)')
  <2>1. GatedOK(q) /\ (q \notin contested => OneStory(q))
    BY <1>3, <1>7 DEF PlansInv, PlansOK
  <2> QED
    BY <2>1, <1>1, <1>3, <1>4, <1>7 DEF GatedOK, OneStory
<1>8. \A y \in Trial : trial'[y] # None => plan'[trial'[y].plan] # None
  BY <1>1, <1>2, <1>3 DEF PlansInv, PlansOK, PlansTyped, PlansTypeOK, TrialRow
<1>9. CallsOK'
  <2>1. ASSUME NEW c \in Caller, caller[c] # None
        PROVE  caller[c].plan \in Plan \ {p} /\ plan'[caller[c].plan] = plan[caller[c].plan]
    BY <2>1, <1>1, <1>3, CallTyped DEF PlansInv, PlansTyped, Known
  <2> QED
    BY <2>1, <1>1 DEF PlansInv, CallsOK, CallOK, Calling
<1> QED
  BY <1>6, <1>7, <1>8, <1>9 DEF PlansOK

\* Every step keeps the invariant.
LEMMA InvStep ==
  ASSUME PlansInv, [PlansNext]_planVars
  PROVE  PlansInv'
<1>1. PlansTyped'
  BY PlansTypeStep DEF PlansInv
<1> SUFFICES CallsOK' /\ PlansOK'
  BY <1>1 DEF PlansInv
<1>2. ASSUME NEW p \in Plan, NEW gated \in BOOLEAN, PreparePlan(p, gated)
      PROVE CallsOK' /\ PlansOK'
  BY <1>2, PrepareOK
<1>3. ASSUME NEW c \in Caller, NEW p \in Plan, NEW to \in PlanStatus, ReviewBegin(c, p, to)
      PROVE CallsOK' /\ PlansOK'
  <2>1. /\ plan[p] # None /\ to \in AllowedReview[plan[p].status]
        /\ Call(c, p, "restate", to) /\ plan[p].status \in PlanStatus
    BY <1>3 DEF ReviewBegin, PlansInv, PlansTyped, PlansTypeOK, PlanRow
  <2>2. /\ plan[p].status = "blocked" => to = "rejected"
        /\ plan[p].status \notin {"approved", "rejected", "scheduled"}
    BY <2>1 DEF AllowedReview, PlanStatus
  <2> QED
    BY <2>1, <2>2, BeginOK
<1>4. ASSUME NEW c \in Caller, NEW p \in Plan, ScheduleBegin(c, p)
      PROVE CallsOK' /\ PlansOK'
  BY <1>4, BeginOK DEF ScheduleBegin
<1>5. ASSUME NEW c \in Caller, NEW p \in Plan, SyncBegin(c, p)
      PROVE CallsOK' /\ PlansOK'
  BY <1>5, BeginOK DEF SyncBegin
<1>6. ASSUME NEW c \in Caller, NEW p \in Plan, NEW x \in Trial, HandOffBegin(c, p, x)
      PROVE CallsOK' /\ PlansOK'
  BY <1>6, BeginOK DEF HandOffBegin
<1>7. ASSUME NEW c \in Caller, RestateCommit(c) PROVE CallsOK' /\ PlansOK'
  <2> PICK p \in Plan : p = caller[c].plan
    BY <1>7, CallTyped DEF RestateCommit, Calling, PlansInv, PlansTyped
  <2> PICK new : new = [caller[c].read EXCEPT !.status = caller[c].arg, !.shown = caller[c].arg]
    OBVIOUS
  <2>1. /\ caller[c] # None /\ caller[c].op = "restate" /\ Write(c, new) /\ trial' = trial
        /\ CallOK(c) /\ caller[c].read \in PlanRow /\ caller[c].arg \in PlanStatus
        /\ GatedOK(p) /\ (p \notin contested => OneStory(p))
    BY <1>7, CallTyped DEF RestateCommit, Calling, PlansInv, CallsOK, PlansOK, PlansTyped, Known
  <2>2. /\ new \in PlanRow /\ new.gated = caller[c].read.gated /\ new.lab = caller[c].read.lab
        /\ new.status = caller[c].arg /\ new.shown = caller[c].arg
    BY <2>1 DEF PlanRow
  <2>3. new.gated = plan[p].gated /\ (new.gated => new.status \in {"blocked", "rejected"})
    BY <2>1, <2>2 DEF CallOK
  <2>4. caller[c].alone /\ p \notin contested =>
          /\ new.lab = plan[p].lab /\ new.shown = new.status
          /\ new.lab # None => new.status \in {"approved", "scheduled"}
    BY <2>1, <2>2 DEF CallOK, OneStory
  <2>5. CallsOK'
    BY <2>1, <2>2, <2>3, WriteCalls
  <2>6. PlansOK'
    <3>1. new.gated = plan[caller[c].plan].gated
      BY <2>3
    <3> QED
      BY <2>1, <2>2, <2>3, <2>4, <3>1, WritePlans
  <2> QED
    BY <2>5, <2>6
<1>8. ASSUME NEW c \in Caller, HandOffCommit(c) PROVE CallsOK' /\ PlansOK'
  BY <1>8, HandOffPlans
<1>9. ASSUME NEW c \in Caller, SyncCommit(c) PROVE CallsOK' /\ PlansOK'
  <2> PICK p \in Plan : p = caller[c].plan
    BY <1>9, CallTyped DEF SyncCommit, Calling, PlansInv, PlansTyped
  <2> PICK new : new = [caller[c].read EXCEPT !.tracked = caller[c].arg, !.status = plan[p].status]
    OBVIOUS
  <2>1. /\ caller[c] # None /\ caller[c].op = "sync" /\ Write(c, new) /\ trial' = trial
        /\ CallOK(c) /\ caller[c].read \in PlanRow /\ caller[c].arg \in Tracked
        /\ plan[p] \in PlanRow /\ GatedOK(p)
    BY <1>9, CallTyped DEF SyncCommit, Calling, PlansInv, CallsOK, PlansOK, PlansTyped, Known, PlansTypeOK
  <2>2. /\ new \in PlanRow /\ new.gated = caller[c].read.gated /\ new.lab = caller[c].read.lab
        /\ new.status = plan[p].status /\ new.shown = caller[c].read.shown
    BY <2>1 DEF PlanRow
  <2>3. new.gated = plan[p].gated /\ (new.gated => new.status \in {"blocked", "rejected"})
    BY <2>1, <2>2 DEF CallOK, GatedOK
  <2>4. caller[c].alone => new.lab = plan[p].lab /\ new.shown = plan[p].shown
    BY <2>1, <2>2 DEF CallOK
  <2>5. CallsOK'
    BY <2>1, <2>2, <2>3, WriteCalls
  <2>6. PlansOK'
    BY <2>1, <2>2, <2>3, <2>4, WritePlans
  <2> QED
    BY <2>5, <2>6
<1>10. ASSUME NEW c \in Caller, CallFails(c) PROVE CallsOK' /\ PlansOK'
  <2>1. /\ caller' = [caller EXCEPT ![c] = None] /\ plan' = plan /\ trial' = trial
        /\ contested' = contested
    BY <1>10 DEF CallFails
  <2>2. \A d \in Caller : caller'[d] # None => d # c /\ caller'[d] = caller[d]
    BY <2>1 DEF PlansInv, PlansTyped, PlansTypeOK
  <2>3. CallsOK'
    BY <2>1, <2>2 DEF PlansInv, CallsOK, CallOK, Calling
  <2> QED
    BY <2>1, <2>3 DEF PlansInv, PlansOK, GatedOK, OneStory, HandedOff
<1>11. ASSUME NEW x \in Trial, NEW to \in {"concluded", "cancelled"}, TrialEnds(x, to)
       PROVE CallsOK' /\ PlansOK'
  <2>1. trial[x] \in TrialRow /\ trial[x] # None
    BY <1>11 DEF TrialEnds, PlansInv, PlansTyped, PlansTypeOK
  <2>2. /\ [trial[x] EXCEPT !.status = to] \in TrialRow
        /\ [trial[x] EXCEPT !.status = to].plan = trial[x].plan
    BY <2>1 DEF TrialRow
  <2> QED
    BY <1>11, <2>1, <2>2, TurnOK DEF TrialEnds
<1>12. ASSUME NEW x \in Trial, TrialJudged(x) PROVE CallsOK' /\ PlansOK'
  <2>1. trial[x] \in TrialRow /\ trial[x] # None
    BY <1>12 DEF TrialJudged, PlansInv, PlansTyped, PlansTypeOK
  <2>2. /\ [trial[x] EXCEPT !.good = ~@] \in TrialRow
        /\ [trial[x] EXCEPT !.good = ~@].plan = trial[x].plan
    BY <2>1 DEF TrialRow
  <2> QED
    BY <1>12, <2>1, <2>2, TurnOK DEF TrialJudged
<1>13. CASE UNCHANGED planVars
  BY <1>13 DEF planVars, PlansInv, CallsOK, CallOK, Calling, PlansOK, GatedOK, OneStory, HandedOff
<1> QED
  BY <1>2, <1>3, <1>4, <1>5, <1>6, <1>7, <1>8, <1>9, <1>10, <1>11, <1>12, <1>13 DEF PlansNext

\* The invariant holds initially.
LEMMA InvInit == PlansInit => PlansInv
BY PlansAssumption DEF PlansInit, PlansInv, PlansTyped, PlansTypeOK, Known, CallsOK, PlansOK

\* PlanIsConsistent: the status column and the payload of a plan agree, and it was
\* handed off once at most, approved, to the experiment it names, unless a request
\* overwrote another's change; a blocked plan is never handed off at all.
THEOREM PlansConsistent == PlansSpec => []PlanIsConsistent
<1>1. PlansInv /\ [PlansNext]_planVars => PlansInv'
  BY InvStep
<1> QED
  BY <1>1, InvInit, InvConsistent, PTL DEF PlansSpec

-----------------------------------------------------------------------------
(***************************************************************************)
(* Results are recorded once per change.  A result that is still to be     *)
(* recorded, because the experiment is past the tracked state or a         *)
(* synchronisation in flight is about to record it, is a change that has   *)
(* not been counted yet.                                                   *)
(***************************************************************************)

Final == {"completed", "failed"}

\* The count of a plan and its experiment.
PlanCountOK(p) ==
  /\ plan[p].lab = None => plan[p].tracked = None /\ recorded[p] = 0
  /\ plan[p].lab # None =>
       /\ recorded[p] <= turns[plan[p].lab]
       /\ plan[p].tracked \in Final => trial[plan[p].lab].status # "running"
       /\ Derive(trial[plan[p].lab]) \in Final /\ Derive(trial[plan[p].lab]) # plan[p].tracked
            => recorded[p] < turns[plan[p].lab]

\* What a synchronisation in flight, of plan p with experiment x, is about to record.
PendingOK(p, x, seen) ==
  /\ seen = "running" => plan[p].tracked \notin Final
  /\ seen \in Final => trial[x].status # "running"
  /\ seen \in Final /\ seen # plan[p].tracked =>
       /\ recorded[p] < turns[x]
       /\ Derive(trial[x]) # seen => recorded[p] + 1 < turns[x]

SyncOK(c) ==
  /\ caller[c].read.lab # None
  /\ caller[c].alone /\ caller[c].plan \notin contested =>
       PendingOK(caller[c].plan, caller[c].read.lab, caller[c].arg)

CountsOK ==
  /\ \A p \in Plan : plan[p] = None => recorded[p] = 0
  /\ \A p \in Plan : plan[p] # None /\ p \notin contested => PlanCountOK(p)
  /\ \A c \in Caller : caller[c] # None /\ caller[c].op = "sync" => SyncOK(c)

PlanCountInv == PlansInv /\ CountsOK

\* The experiment of a plan that nobody overwrote exists.
LEMMA LabExists ==
  ASSUME PlansInv, NEW p \in Plan, plan[p] # None, p \notin contested, plan[p].lab # None
  PROVE  plan[p].lab \in Trial /\ trial[plan[p].lab] \in TrialRow /\ trial[plan[p].lab] # None
<1>1. OneStory(p)
  BY DEF PlansInv, PlansOK
<1> QED
  BY <1>1 DEF OneStory, HandedOff, PlansInv, PlansTyped, PlansTypeOK

\* A derived state is final when the experiment does not run.
LEMMA FinalState ==
  ASSUME NEW t \in TrialRow
  PROVE  Derive(t) \in Final <=> t.status # "running"
BY DEF Derive, Final, TrialRow

\* A change of an experiment is one more turn for whoever has not recorded it.
LEMMA TurnCounts ==
  ASSUME PlanCountInv, NEW x \in Trial, trial[x] # None, NEW t \in TrialRow, Turn(x, t),
         trial[x].status # "running" => t.status # "running"
  PROVE  CountsOK'
<1>1. /\ trial' = [trial EXCEPT ![x] = t] /\ plan' = plan /\ caller' = caller
      /\ contested' = contested /\ recorded' = recorded
      /\ trial \in [Trial -> TrialRow \cup {None}] /\ turns \in [Trial -> 0 .. MaxTurns]
      /\ turns' = IF Derive(t) = Derive(trial[x]) THEN turns ELSE [turns EXCEPT ![x] = @ + 1]
  BY DEF Turn, PlanCountInv, PlansInv, PlansTyped, PlansTypeOK
<1>2. /\ trial'[x] = t /\ \A y \in Trial : y # x => trial'[y] = trial[y] /\ turns'[y] = turns[y]
      /\ turns'[x] = IF Derive(t) = Derive(trial[x]) THEN turns[x] ELSE turns[x] + 1
      /\ turns[x] \in Nat
  BY <1>1, PlansAssumption
<1>3. recorded \in [Plan -> Nat]
  BY DEF PlanCountInv, PlansInv, PlansTyped, PlansTypeOK
<1>4. ASSUME NEW p \in Plan, plan[p] # None, p \notin contested PROVE PlanCountOK(p)'
  <2>1. PlanCountOK(p)
    BY <1>4 DEF PlanCountInv, CountsOK
  <2>2. CASE plan[p].lab = None
    BY <2>1, <2>2, <1>1 DEF PlanCountOK
  <2>3. CASE plan[p].lab # None
    <3>1. plan[p].lab \in Trial
      BY <1>4, <2>3, LabExists DEF PlanCountInv
    <3>2. CASE plan[p].lab = x
      <4>1. trial'[plan[p].lab] = t /\ turns'[plan[p].lab] = turns'[x]
        BY <3>2, <1>2
      <4>2. /\ recorded[p] <= turns[x]
            /\ plan[p].tracked \in Final => trial[x].status # "running"
            /\ Derive(trial[x]) \in Final /\ Derive(trial[x]) # plan[p].tracked
                 => recorded[p] < turns[x]
        BY <2>1, <2>3, <3>2 DEF PlanCountOK
      <4>3. recorded[p] \in Nat
        BY <1>3
      <4>4. recorded[p] <= turns'[x]
        BY <4>2, <4>3, <1>2
      <4>5. Derive(t) \in Final /\ Derive(t) # plan[p].tracked => recorded[p] < turns'[x]
        BY <4>2, <4>3, <1>2
      <4> QED
        BY <4>1, <4>2, <4>4, <4>5, <1>1, <2>3 DEF PlanCountOK
    <3>3. CASE plan[p].lab # x
      BY <3>1, <3>3, <2>1, <2>3, <1>1, <1>2 DEF PlanCountOK
    <3> QED
      BY <3>2, <3>3
  <2> QED
    BY <2>2, <2>3
<1>5. ASSUME NEW c \in Caller, caller[c] # None, caller[c].op = "sync" PROVE SyncOK(c)'
  <2>1. SyncOK(c)
    BY <1>5 DEF PlanCountInv, CountsOK
  <2> PICK p \in Plan : p = caller[c].plan
    BY <1>5, CallTyped DEF PlanCountInv, PlansInv, PlansTyped
  <2> PICK y \in Trial : y = caller[c].read.lab
    BY <1>5, <2>1, CallTyped DEF PlanCountInv, PlansInv, PlansTyped, PlanRow, SyncOK
  <2> PICK seen : seen = caller[c].arg
    OBVIOUS
  <2>2. ASSUME caller[c].alone, p \notin contested PROVE PendingOK(p, y, seen)'
    <3>1. PendingOK(p, y, seen) /\ recorded[p] \in Nat
      BY <2>1, <2>2, <1>3 DEF SyncOK
    <3>2. CASE y = x
      BY <3>1, <3>2, <1>1, <1>2 DEF PendingOK
    <3>3. CASE y # x
      BY <3>1, <3>3, <1>1, <1>2 DEF PendingOK
    <3> QED
      BY <3>2, <3>3
  <2> QED
    BY <2>1, <2>2, <1>1 DEF SyncOK
<1>6. \A p \in Plan : plan[p] = None => recorded[p] = 0
  BY DEF PlanCountInv, CountsOK
<1> QED
  BY <1>1, <1>4, <1>5, <1>6 DEF CountsOK

\* A request that begins counts nothing, and a synchronisation that begins is
\* about to record what is not recorded yet.
LEMMA BeginCounts ==
  ASSUME PlanCountInv, NEW c \in Caller, NEW p \in Plan, NEW op, NEW arg,
         plan[p] # None, Call(c, p, op, arg),
         op = "sync" => plan[p].lab # None /\ arg = Derive(trial[plan[p].lab])
  PROVE  CountsOK'
<1>1. /\ caller' = [caller EXCEPT ![c] = [op |-> op, plan |-> p, read |-> plan[p], arg |-> arg,
                                         alone |-> TRUE]]
      /\ plan' = plan /\ trial' = trial /\ contested' = contested
      /\ recorded' = recorded /\ turns' = turns
      /\ caller \in [Caller -> PlanCall \cup {None}]
  BY DEF Call, PlanCountInv, PlansInv, PlansTyped, PlansTypeOK
<1>2. /\ caller'[c].op = op /\ caller'[c].plan = p /\ caller'[c].read = plan[p]
      /\ caller'[c].arg = arg /\ \A d \in Caller : d # c => caller'[d] = caller[d]
  BY <1>1
<1>3. /\ \A q \in Plan : plan'[q] = None => recorded'[q] = 0
      /\ \A q \in Plan : plan'[q] # None /\ q \notin contested' => PlanCountOK(q)'
  BY <1>1 DEF PlanCountInv, CountsOK, PlanCountOK
<1>4. ASSUME op = "sync" PROVE SyncOK(c)'
  <2> PICK x : x = plan[p].lab
    OBVIOUS
  <2>1. ASSUME p \notin contested PROVE PendingOK(p, x, arg)'
    <3>1. /\ x \in Trial /\ trial[x] \in TrialRow /\ PlanCountOK(p)
          /\ x # None /\ arg = Derive(trial[x])
      BY <1>4, <2>1, LabExists DEF PlanCountInv, CountsOK
    <3>2. arg \in Final <=> trial[x].status # "running"
      BY <3>1, FinalState
    <3>3. arg \in Tracked
      BY <3>1, DeriveTyped
    <3> QED
      BY <1>1, <3>1, <3>2, <3>3 DEF PendingOK, PlanCountOK, Final, Tracked
  <2> QED
    BY <1>1, <1>2, <1>4, <2>1 DEF SyncOK
<1>5. ASSUME NEW d \in Caller, d # c, caller'[d] # None, caller'[d].op = "sync"
      PROVE  SyncOK(d)'
  <2>1. caller'[d] = caller[d] /\ SyncOK(d)
    BY <1>2, <1>5 DEF PlanCountInv, CountsOK
  <2> QED
    BY <1>1, <2>1 DEF SyncOK, PendingOK
<1> QED
  BY <1>2, <1>3, <1>4, <1>5 DEF CountsOK

\* A write keeps the counts, if that of its plan is right after it.
LEMMA WriteCounts ==
  ASSUME PlanCountInv, NEW c \in Caller, caller[c] # None, NEW p \in Plan, p = caller[c].plan,
         NEW new \in PlanRow, Write(c, new), turns' = turns,
         \A y \in Trial : trial[y] # None => trial'[y] = trial[y],
         recorded' \in {recorded, [recorded EXCEPT ![p] = @ + 1]},
         caller[c].alone /\ p \notin contested =>
           PlanCountOK(p)' /\ (new = plan[p] => recorded' = recorded)
  PROVE  CountsOK'
<1>1. /\ plan' = [plan EXCEPT ![p] = new] /\ new # None /\ plan[p] # None
      /\ contested' = IF caller[c].alone THEN contested ELSE contested \cup {p}
      /\ recorded \in [Plan -> Nat]
  BY PlansAssumption DEF Write, PlanCountInv, PlansInv, PlansTyped, PlansTypeOK, Known
<1>2. /\ plan'[p] = new
      /\ \A q \in Plan : q # p => plan'[q] = plan[q] /\ recorded'[q] = recorded[q]
  BY <1>1 DEF PlanCountInv, PlansInv, PlansTyped, PlansTypeOK
<1>3. ASSUME NEW q \in Plan, q # p, plan'[q] # None, q \notin contested' PROVE PlanCountOK(q)'
  <2>1. plan[q] # None /\ q \notin contested /\ PlanCountOK(q)
    BY <1>1, <1>2, <1>3 DEF PlanCountInv, CountsOK
  <2>2. plan[q].lab # None => trial'[plan[q].lab] = trial[plan[q].lab]
    BY <2>1, LabExists DEF PlanCountInv
  <2> QED
    BY <1>2, <1>3, <2>1, <2>2 DEF PlanCountOK
<1>4. ASSUME NEW d \in Caller, caller'[d] # None, caller'[d].op = "sync" PROVE SyncOK(d)'
  <2> PICK q \in Plan : q = caller[d].plan
    BY <1>4, WriteOthers, CallTyped DEF PlanCountInv, PlansInv, PlansTyped
  <2>1. /\ d # c /\ caller[d] # None /\ SyncOK(d) /\ CallOK(d)
        /\ caller'[d].plan = q /\ caller'[d].read = caller[d].read /\ caller'[d].arg = caller[d].arg
        /\ caller'[d].alone => caller[d].alone /\ (q = p => new = plan[p])
    BY <1>4, WriteOthers DEF PlanCountInv, CountsOK, PlansInv, CallsOK
  <2> PICK x : x = caller[d].read.lab
    OBVIOUS
  <2> PICK seen : seen = caller[d].arg
    OBVIOUS
  <2>2. ASSUME caller'[d].alone, q \notin contested' PROVE PendingOK(q, x, seen)'
    <3>1. q \notin contested
      BY <1>1, <2>2
    <3>2. PendingOK(q, x, seen) /\ x # None /\ plan[q].lab = x /\ plan[q] # None
      BY <2>1, <2>2, <3>1 DEF SyncOK, CallOK, PlanCountInv, PlansInv, PlansTyped, Known
    <3>3. trial'[x] = trial[x]
      BY <3>1, <3>2, LabExists DEF PlanCountInv
    <3>4. plan'[q] = plan[q] /\ recorded'[q] = recorded[q]
      <4>1. CASE q = p
        BY <4>1, <1>1, <1>2, <2>1, <2>2
      <4>2. CASE q # p
        BY <4>2, <1>2
      <4> QED
        BY <4>1, <4>2
    <3> QED
      BY <3>2, <3>3, <3>4 DEF PendingOK
  <2> QED
    BY <2>1, <2>2 DEF SyncOK
<1>5. \A q \in Plan : plan'[q] = None => recorded'[q] = 0
  BY <1>1, <1>2 DEF PlanCountInv, CountsOK
<1>6. plan'[p] # None /\ p \notin contested' => PlanCountOK(p)'
  BY <1>1
<1> QED
  BY <1>3, <1>4, <1>5, <1>6 DEF CountsOK

\* Every step keeps the counts.
LEMMA CountStep ==
  ASSUME PlanCountInv, [PlansNext]_planVars
  PROVE  PlanCountInv'
<1>1. PlansInv'
  BY InvStep DEF PlanCountInv
<1> SUFFICES CountsOK'
  BY <1>1 DEF PlanCountInv
<1>2. PlansInv /\ PlansTyped /\ PlansTypeOK
  BY DEF PlanCountInv, PlansInv, PlansTyped
<1>3. ASSUME NEW p \in Plan, NEW gated \in BOOLEAN, PreparePlan(p, gated) PROVE CountsOK'
  <2> PICK s : s = IF gated THEN "blocked" ELSE "review_required"
    OBVIOUS
  <2> PICK fresh : fresh = [gated |-> gated, status |-> s, shown |-> s, lab |-> None, tracked |-> None]
    OBVIOUS
  <2>1. /\ plan[p] = None /\ plan' = [plan EXCEPT ![p] = fresh] /\ trial' = trial
        /\ caller' = caller /\ contested' = contested /\ recorded' = recorded /\ turns' = turns
    BY <1>3 DEF PreparePlan
  <2>2. /\ plan'[p] = fresh /\ \A q \in Plan : q # p => plan'[q] = plan[q]
        /\ fresh.lab = None /\ fresh.tracked = None /\ recorded[p] = 0
    BY <1>2, <2>1 DEF PlansTypeOK, PlanCountInv, CountsOK
  <2>3. ASSUME NEW q \in Plan, plan'[q] # None, q \notin contested' PROVE PlanCountOK(q)'
    <3>1. CASE q = p
      BY <3>1, <2>1, <2>2 DEF PlanCountOK
    <3>2. CASE q # p
      BY <3>2, <2>1, <2>2, <2>3 DEF PlanCountOK, PlanCountInv, CountsOK
    <3> QED
      BY <3>1, <3>2
  <2>4. ASSUME NEW c \in Caller, caller[c] # None, caller[c].op = "sync" PROVE SyncOK(c)'
    <3>1. caller[c].plan \in Plan /\ caller[c].plan # p /\ SyncOK(c)
      BY <1>2, <2>1, <2>4, CallTyped DEF PlanCountInv, CountsOK, PlansTyped, Known
    <3> QED
      BY <3>1, <2>1, <2>2 DEF SyncOK, PendingOK
  <2> QED
    BY <2>1, <2>2, <2>3, <2>4 DEF PlanCountInv, CountsOK
<1>4. ASSUME NEW c \in Caller, NEW p \in Plan, NEW to \in PlanStatus, ReviewBegin(c, p, to)
      PROVE CountsOK'
  BY <1>4, BeginCounts DEF ReviewBegin
<1>5. ASSUME NEW c \in Caller, NEW p \in Plan, ScheduleBegin(c, p) PROVE CountsOK'
  BY <1>5, BeginCounts DEF ScheduleBegin
<1>6. ASSUME NEW c \in Caller, NEW p \in Plan, SyncBegin(c, p) PROVE CountsOK'
  BY <1>6, BeginCounts DEF SyncBegin
<1>7. ASSUME NEW c \in Caller, NEW p \in Plan, NEW x \in Trial, HandOffBegin(c, p, x)
      PROVE CountsOK'
  BY <1>7, BeginCounts DEF HandOffBegin
<1>8. ASSUME NEW c \in Caller, RestateCommit(c) PROVE CountsOK'
  <2>1. /\ caller[c] # None /\ CallOK(c) /\ caller[c].plan \in Plan /\ plan[caller[c].plan] # None
        /\ caller[c].read \in PlanRow /\ caller[c].arg \in PlanStatus
    BY <1>2, <1>8, CallTyped DEF RestateCommit, Calling, PlansInv, CallsOK, PlansTyped, Known
  <2> PICK p \in Plan : p = caller[c].plan
    BY <2>1
  <2> PICK new : new = [caller[c].read EXCEPT !.status = caller[c].arg, !.shown = caller[c].arg]
    OBVIOUS
  <2>2. /\ Write(c, new) /\ trial' = trial /\ recorded' = recorded /\ turns' = turns
    BY <1>8 DEF RestateCommit
  <2>3. /\ new \in PlanRow /\ new.lab = caller[c].read.lab /\ new.tracked = caller[c].read.tracked
    BY <2>1 DEF PlanRow
  <2>4. plan'[p] = new
    BY <1>2, <2>2 DEF Write, PlansTypeOK
  <2>5. ASSUME caller[c].alone, p \notin contested PROVE PlanCountOK(p)'
    <3>1. PlanCountOK(p) /\ new.lab = plan[p].lab /\ new.tracked = plan[p].tracked
      BY <2>1, <2>3, <2>5 DEF CallOK, PlanCountInv, CountsOK
    <3> QED
      BY <3>1, <2>2, <2>4 DEF PlanCountOK
  <2> QED
    BY <2>1, <2>2, <2>3, <2>5, WriteCounts
<1>9. ASSUME NEW c \in Caller, HandOffCommit(c) PROVE CountsOK'
  <2>1. /\ caller[c] # None /\ caller[c].op = "handoff" /\ CallOK(c)
        /\ caller[c].plan \in Plan /\ plan[caller[c].plan] # None
        /\ caller[c].read \in PlanRow /\ caller[c].arg \in Trial
    BY <1>2, <1>9, CallTyped DEF HandOffCommit, Calling, PlansInv, CallsOK, PlansTyped, Known
  <2> PICK p \in Plan : p = caller[c].plan
    BY <2>1
  <2> PICK x \in Trial : x = caller[c].arg
    BY <2>1
  <2> PICK new : new = [caller[c].read EXCEPT !.lab = x, !.status = plan[p].status]
    OBVIOUS
  <2> PICK t : t = [plan |-> p, status |-> "running", good |-> FALSE]
    OBVIOUS
  <2>2. /\ Write(c, new) /\ trial' = [trial EXCEPT ![x] = t]
        /\ recorded' = recorded /\ turns' = turns
    BY <1>9 DEF HandOffCommit
  <2>3. plan[p].status \in PlanStatus /\ x # None /\ trial[x] = None
    BY <1>2, <2>1, PlansAssumption DEF PlansTypeOK, PlanRow, CallOK
  <2>4. /\ new \in PlanRow /\ new.lab = x /\ new.tracked = caller[c].read.tracked
    BY <2>1, <2>3 DEF PlanRow
  <2>5. /\ plan'[p] = new /\ trial'[x] = t /\ Derive(t) = "running"
        /\ \A y \in Trial : y # x => trial'[y] = trial[y]
    BY <1>2, <2>2 DEF Write, PlansTypeOK, Derive
  <2>6. ASSUME caller[c].alone, p \notin contested PROVE PlanCountOK(p)'
    <3>1. caller[c].read = plan[p] /\ plan[p].lab = None /\ PlanCountOK(p)
      BY <2>1, <2>6 DEF CallOK, PlanCountInv, CountsOK
    <3>2. recorded[p] = 0 /\ new.tracked = None /\ turns[x] \in Nat
      BY <1>2, <3>1, <2>4, PlansAssumption DEF PlanCountOK, PlansTypeOK
    <3>3. None \notin Final /\ "running" \notin Final
      BY PlansAssumption DEF Final, Tracked
    <3> QED
      BY <3>2, <3>3, <2>2, <2>3, <2>4, <2>5 DEF PlanCountOK
  <2>7. \A y \in Trial : trial[y] # None => trial'[y] = trial[y]
    BY <2>3, <2>5
  <2> QED
    BY <2>1, <2>2, <2>4, <2>6, <2>7, WriteCounts
<1>10. ASSUME NEW c \in Caller, SyncCommit(c) PROVE CountsOK'
  <2>1. /\ caller[c] # None /\ caller[c].op = "sync" /\ CallOK(c) /\ SyncOK(c)
        /\ caller[c].plan \in Plan /\ plan[caller[c].plan] # None
        /\ caller[c].read \in PlanRow /\ caller[c].arg \in Tracked
    BY <1>2, <1>10, CallTyped
       DEF SyncCommit, Calling, PlanCountInv, CountsOK, PlansInv, CallsOK, PlansTyped, Known
  <2> PICK p \in Plan : p = caller[c].plan
    BY <2>1
  <2> PICK seen \in Tracked : seen = caller[c].arg
    BY <2>1
  <2> PICK new : new = [caller[c].read EXCEPT !.tracked = seen, !.status = plan[p].status]
    OBVIOUS
  <2>2. /\ Write(c, new) /\ trial' = trial /\ turns' = turns
        /\ recorded' = IF seen # caller[c].read.tracked /\ seen \in Final
                       THEN [recorded EXCEPT ![p] = @ + 1] ELSE recorded
    BY <1>10 DEF SyncCommit, Final
  <2>3. plan[p].status \in PlanStatus
    BY <1>2, <2>1 DEF PlansTypeOK, PlanRow
  <2>4. /\ new \in PlanRow /\ new.lab = caller[c].read.lab /\ new.tracked = seen
    BY <2>1, <2>3 DEF PlanRow
  <2>5. plan'[p] = new /\ recorded[p] \in Nat /\ recorded \in [Plan -> Nat]
    BY <1>2, <2>2 DEF Write, PlansTypeOK
  <2>6. ASSUME caller[c].alone, p \notin contested
        PROVE  PlanCountOK(p)' /\ (new = plan[p] => recorded' = recorded)
    <3>1. caller[c].read = plan[p] /\ PlanCountOK(p) /\ plan[p].lab # None
      BY <2>1, <2>6 DEF CallOK, SyncOK, PlanCountInv, CountsOK
    <3> PICK x \in Trial : x = plan[p].lab
      BY <2>1, <2>6, <3>1, LabExists DEF PlanCountInv
    <3>2. PendingOK(p, x, seen) /\ turns[x] \in Nat
      BY <1>2, <2>1, <2>6, <3>1, PlansAssumption DEF SyncOK, PlansTypeOK
    <3>3. /\ recorded[p] <= turns[x]
          /\ Derive(trial[x]) \in Final /\ Derive(trial[x]) # plan[p].tracked
               => recorded[p] < turns[x]
      BY <3>1 DEF PlanCountOK
    <3>4. CASE seen = plan[p].tracked
      <4>1. recorded' = recorded
        BY <2>2, <3>1, <3>4
      <4> QED
        BY <3>1, <3>2, <3>3, <3>4, <4>1, <2>2, <2>4, <2>5 DEF PlanCountOK, PendingOK
    <3>5. CASE seen # plan[p].tracked /\ seen \notin Final
      <4>1. recorded' = recorded /\ seen = "running"
        BY <2>2, <3>1, <3>5 DEF Final, Tracked
      <4>2. plan[p].tracked \notin Final
        BY <3>2, <4>1 DEF PendingOK
      <4> QED
        BY <3>1, <3>3, <3>5, <4>1, <4>2, <2>2, <2>4, <2>5 DEF PlanCountOK
    <3>6. CASE seen # plan[p].tracked /\ seen \in Final
      <4>1. recorded'[p] = recorded[p] + 1
        BY <2>2, <2>5, <3>1, <3>6
      <4>2. /\ trial[x].status # "running" /\ recorded[p] < turns[x]
            /\ Derive(trial[x]) # seen => recorded[p] + 1 < turns[x]
        BY <3>2, <3>6 DEF PendingOK
      <4>3. new # plan[p]
        BY <2>4, <3>6
      <4> QED
        BY <3>1, <3>2, <4>1, <4>2, <4>3, <2>2, <2>4, <2>5 DEF PlanCountOK
    <3> QED
      BY <3>4, <3>5, <3>6
  <2> QED
    BY <2>1, <2>2, <2>4, <2>6, WriteCounts
<1>11. ASSUME NEW c \in Caller, CallFails(c) PROVE CountsOK'
  <2>1. /\ caller' = [caller EXCEPT ![c] = None] /\ plan' = plan /\ trial' = trial
        /\ contested' = contested /\ recorded' = recorded /\ turns' = turns
    BY <1>11 DEF CallFails
  <2>2. \A d \in Caller : caller'[d] # None => d # c /\ caller'[d] = caller[d]
    BY <1>2, <2>1 DEF PlansTypeOK
  <2> QED
    BY <2>1, <2>2 DEF PlanCountInv, CountsOK, PlanCountOK, SyncOK, PendingOK
<1>12. ASSUME NEW x \in Trial, NEW to \in {"concluded", "cancelled"}, TrialEnds(x, to)
       PROVE CountsOK'
  <2>1. trial[x] \in TrialRow /\ trial[x] # None
    BY <1>2, <1>12 DEF TrialEnds, PlansTypeOK
  <2>2. /\ [trial[x] EXCEPT !.status = to] \in TrialRow
        /\ [trial[x] EXCEPT !.status = to].status # "running"
    BY <2>1 DEF TrialRow
  <2> QED
    BY <1>12, <2>1, <2>2, TurnCounts DEF TrialEnds
<1>13. ASSUME NEW x \in Trial, TrialJudged(x) PROVE CountsOK'
  <2>1. trial[x] \in TrialRow /\ trial[x] # None
    BY <1>2, <1>13 DEF TrialJudged, PlansTypeOK
  <2>2. /\ [trial[x] EXCEPT !.good = ~@] \in TrialRow
        /\ [trial[x] EXCEPT !.good = ~@].status = trial[x].status
    BY <2>1 DEF TrialRow
  <2> QED
    BY <1>13, <2>1, <2>2, TurnCounts DEF TrialJudged
<1>14. CASE UNCHANGED planVars
  BY <1>14 DEF planVars, PlanCountInv, CountsOK, PlanCountOK, SyncOK, PendingOK
<1> QED
  BY <1>3, <1>4, <1>5, <1>6, <1>7, <1>8, <1>9, <1>10, <1>11, <1>12, <1>13, <1>14 DEF PlansNext

\* CountedOncePerChange: a plan records at most one result for each change of its
\* experiment's derived state, unless two requests overlapped.
THEOREM CountedOnce == PlansSpec => []CountedOncePerChange
<1>1. PlansInit => PlanCountInv
  BY InvInit DEF PlansInit, PlanCountInv, CountsOK
<1>2. PlanCountInv /\ [PlansNext]_planVars => PlanCountInv'
  BY CountStep
<1>3. PlanCountInv => CountedOncePerChange
  BY DEF PlanCountInv, CountsOK, PlanCountOK, CountedOncePerChange
<1> QED
  BY <1>1, <1>2, <1>3, PTL DEF PlansSpec


-----------------------------------------------------------------------------
(***************************************************************************)
(* THE COMPOSITION.                                                        *)
(***************************************************************************)

\* The specification the four parts are checked under behaves as each of them does:
\* what a theorem above says of a part, it says of the run.
THEOREM ComposesAll == DecisionsSpec => LabSpec /\ KeysSpec /\ PlansSpec /\ OppsSpec
<1>1. DecisionsInit => LabInit /\ KeysInit /\ PlansInit /\ OppsInit
  BY DEF DecisionsInit
<1>2. LabStep => LabNext /\ UNCHANGED keyVars /\ UNCHANGED planVars /\ UNCHANGED oppVars
  BY DEF LabStep
<1>3. KeysStep => KeysNext /\ UNCHANGED labVars /\ UNCHANGED planVars /\ UNCHANGED oppVars
  BY DEF KeysStep
<1>4. PlansStep => PlansNext /\ UNCHANGED labVars /\ UNCHANGED keyVars /\ UNCHANGED oppVars
  BY DEF PlansStep
<1>5. OppsStep => OppsNext /\ UNCHANGED labVars /\ UNCHANGED keyVars /\ UNCHANGED planVars
  BY DEF OppsStep
<1>6. UNCHANGED decisionVars =>
        UNCHANGED labVars /\ UNCHANGED keyVars /\ UNCHANGED planVars /\ UNCHANGED oppVars
  BY DEF decisionVars
<1>7. [LabStep \/ KeysStep \/ PlansStep \/ OppsStep]_decisionVars =>
        /\ [LabNext]_labVars /\ [KeysNext]_keyVars
        /\ [PlansNext]_planVars /\ [OppsNext]_oppVars
  BY <1>2, <1>3, <1>4, <1>5, <1>6
<1> QED
  BY <1>1, <1>7, PTL DEF DecisionsSpec, LabSpec, KeysSpec, PlansSpec, OppsSpec

\* DecisionsTypeOK: every part keeps its types, whichever parts take turns.
THEOREM DecisionsTypeCorrect == DecisionsSpec => []DecisionsTypeOK
<1>1. LabTypeOK /\ KeysTypeOK /\ PlansTypeOK /\ Typed => DecisionsTypeOK
  BY DEF DecisionsTypeOK, Typed
<1> QED
  BY <1>1, ComposesAll, LabTypeCorrect, KeysTypeCorrect, PlansTypeCorrect,
     OppsTypeCorrect, PTL
=============================================================================
