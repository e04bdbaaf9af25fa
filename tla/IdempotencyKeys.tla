--------------------------- MODULE IdempotencyKeys ---------------------------
(***************************************************************************)
(* Idempotency-Key (core/idempotency.py) around a handler that inserts a   *)
(* row, as POST /experiments and POST /experiments/{id}/approvals do.      *)
(*                                                                         *)
(* The key is claimed in Redis, the handler inserts and flushes, the       *)
(* answer is put into Redis, and only then the transaction is committed,   *)
(* behind the handler.  Both Redis steps are best effort.                  *)
(***************************************************************************)
EXTENDS Integers, FiniteSets

CONSTANTS
  Row,          \* rows the handlers insert (bound)
  Sender,       \* requests served at the same time
  Key,          \* idempotency keys, one for each thing a user wants created
  NoKey,        \* no Idempotency-Key header
  NoRow,        \* no stored response, no row being inserted
  MaxOutages    \* bound on the Redis calls that fail and the expiries, for each key

ASSUME KeysAssumption ==
  /\ NoKey \notin Key
  /\ NoRow \notin Row
  /\ MaxOutages \in Nat

VARIABLES
  row,          \* the committed rows
  claimed,      \* the keys whose :req entry is in Redis
  answer,       \* answer[k]: the row of k's :resp entry
  sending,      \* sending[s]: how far the request s serves is, its key and row
  born,         \* born[k]: the rows created under k (history)
  phantom,      \* answers whose request failed after they were stored (history)
  outages       \* outages[k]: failed calls and expiries of k's entries (bound)

keyVars == <<row, claimed, answer, sending, born, phantom, outages>>

NoSend == [at |-> "idle", key |-> NoKey, row |-> NoRow]

KeysInit ==
  /\ row = {}
  /\ claimed = {}
  /\ answer = [k \in Key |-> NoRow]
  /\ sending = [s \in Sender |-> NoSend]
  /\ born = [k \in Key |-> {}]
  /\ phantom = {}
  /\ outages = [k \in Key |-> 0]

\* Redis raises: the request goes on as if the call had not been made.
Outage(k) ==
  /\ outages[k] < MaxOutages
  /\ outages' = [outages EXCEPT ![k] = @ + 1]

\* An id no request has used.
FreshRow(r) == r \notin row \cup phantom /\ \A s \in Sender : sending[s].row # r

\* The handler adds its row to the session and flushes it.
StartInsert(s, k, r) ==
  /\ sending[s] = NoSend
  /\ FreshRow(r)
  /\ sending' = [sending EXCEPT ![s] = [at |-> "inserting", key |-> k, row |-> r]]
  /\ UNCHANGED <<row, answer, born, phantom>>

\* Fault: a retry that finds the key in progress goes on as well.
PrepareRequestInProgress(s, k, r) ==
  /\ StartInsert(s, k, r)
  /\ claimed' = claimed \cup {k}
  /\ UNCHANGED outages

\* prepare_request finds the key free and claims it with SET NX, or Redis fails;
\* every other answer (replay, in progress, conflict) ends the request there.
PrepareRequest(s, k, r) ==
  /\ StartInsert(s, k, r)
  /\ \/ k \notin claimed /\ claimed' = claimed \cup {k} /\ UNCHANGED outages
     \/ Outage(k) /\ UNCHANGED claimed

\* A request without the header asks nobody.
PrepareWithoutKey(s, r) ==
  /\ StartInsert(s, NoKey, r)
  /\ UNCHANGED <<claimed, outages>>

\* The handler has flushed its row and stores the answer.
StoreResponse(s) ==
  /\ sending[s].at = "inserting"
  /\ LET k == sending[s].key IN
       \/ k = NoKey /\ UNCHANGED <<answer, outages>>
       \/ k # NoKey /\ answer' = [answer EXCEPT ![k] = sending[s].row] /\ UNCHANGED outages
       \/ k # NoKey /\ Outage(k) /\ UNCHANGED answer
  /\ sending' = [sending EXCEPT ![s].at = "answered"]
  /\ UNCHANGED <<row, claimed, born, phantom>>

\* get_db commits when the handler has returned.
CommitRow(s) ==
  /\ sending[s].at = "answered"
  /\ row' = row \cup {sending[s].row}
  /\ born' = [k \in Key |-> IF k = sending[s].key THEN born[k] \cup {sending[s].row}
                            ELSE born[k]]
  /\ sending' = [sending EXCEPT ![s] = NoSend]
  /\ UNCHANGED <<claimed, answer, phantom, outages>>

\* The handler raises, the process dies or the commit fails: the row is rolled
\* back, what is in Redis stays.
RollBackRow(s) ==
  /\ sending[s] # NoSend
  /\ phantom' = phantom \cup (IF \E k \in Key : answer[k] = sending[s].row
                              THEN {sending[s].row} ELSE {})
  /\ sending' = [sending EXCEPT ![s] = NoSend]
  /\ UNCHANGED <<row, claimed, answer, born, outages>>

\* The :req entry reaches its time to live, before the :resp entry that was
\* stored later, or Redis loses both.
KeyExpires(k) ==
  /\ k \in claimed
  /\ Outage(k)
  /\ claimed' = claimed \ {k}
  /\ UNCHANGED answer \/ answer' = [answer EXCEPT ![k] = NoRow]
  /\ UNCHANGED <<row, sending, born, phantom>>

KeysNext ==
  \/ \E s \in Sender, k \in Key, r \in Row : PrepareRequest(s, k, r)
  \/ \E s \in Sender, r \in Row : PrepareWithoutKey(s, r)
  \/ \E s \in Sender : StoreResponse(s) \/ CommitRow(s) \/ RollBackRow(s)
  \/ \E k \in Key : KeyExpires(k)

KeysSpec == KeysInit /\ [][KeysNext]_keyVars

----------------------------------------------------------------------------
\* Every variable has its type.
KeysTypeOK ==
  /\ row \subseteq Row
  /\ claimed \subseteq Key
  /\ answer \in [Key -> Row \cup {NoRow}]
  /\ sending \in [Sender -> [at : {"idle", "inserting", "answered"},
                             key : Key \cup {NoKey}, row : Row \cup {NoRow}]]
  /\ born \in [Key -> SUBSET Row]
  /\ phantom \subseteq Row
  /\ outages \in [Key -> 0 .. MaxOutages]

\* An Idempotency-Key creates one row, and one more at most for each time Redis
\* failed or forgot it, however its requests are repeated, overlap or fail; and a
\* stored answer is true: its row exists, or is about to be committed, or its
\* request failed after the answer was stored.
KeysCreateOnce ==
  \A k \in Key :
    /\ Cardinality(born[k]) <= 1 + outages[k]
    /\ \/ answer[k] \in row \cup phantom \cup {NoRow}
       \/ \E s \in Sender : sending[s].at = "answered" /\ sending[s].row = answer[k]

=============================================================================
