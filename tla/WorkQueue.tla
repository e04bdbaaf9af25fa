------------------------------ MODULE WorkQueue ------------------------------
(***************************************************************************)
(* What the job pipeline promises of the ingestion jobs, however many      *)
(* loops serve the queue and whatever fails: jobs are handed out in the    *)
(* order of the line; a job in hands goes back to the end of the line only *)
(* after a failed attempt, or it ends; and one that has ended is neither   *)
(* in the line nor in hands again.                                         *)
(*                                                                         *)
(* Jobs are numbered in the order in which they were queued.               *)
(***************************************************************************)
EXTENDS Naturals, Sequences

VARIABLES
    queued,   \* jobs queued so far
    line,     \* those that wait, the next one first
    hands,    \* those a worker has taken
    failed,   \* those that failed an attempt
    settled,  \* those that were completed
    skipped,  \* those that were dropped as duplicates
    buried,   \* those in the dead letter queue
    lost      \* those nobody will hear of again

ended == <<settled, skipped, buried, lost>>
vars  == <<queued, line, hands, failed, ended>>

Init ==
    /\ queued = 0 /\ line = <<>> /\ hands = {} /\ failed = {}
    /\ settled = {} /\ skipped = {} /\ buried = {} /\ lost = {}

Add ==
    /\ queued' = queued + 1
    /\ line' = Append(line, queued + 1)
    /\ UNCHANGED <<hands, failed, ended>>

Take ==
    /\ line # <<>>
    /\ line' = Tail(line)
    /\ hands' = hands \cup {Head(line)}
    /\ UNCHANGED <<queued, failed, ended>>

Fail(i) ==
    /\ i \in hands
    /\ failed' = failed \cup {i}
    /\ UNCHANGED <<queued, line, hands, ended>>

GiveBack(i) ==
    /\ i \in hands \cap failed
    /\ hands' = hands \ {i}
    /\ line' = Append(line, i)
    /\ UNCHANGED <<queued, failed, ended>>

End(i) ==
    /\ i \in hands
    /\ hands' = hands \ {i}
    /\ \/ settled' = settled \cup {i} /\ UNCHANGED <<skipped, buried, lost>>
       \/ skipped' = skipped \cup {i} /\ UNCHANGED <<settled, buried, lost>>
       \/ i \in failed /\ buried' = buried \cup {i} /\ UNCHANGED <<settled, skipped, lost>>
       \/ lost' = lost \cup {i} /\ UNCHANGED <<settled, skipped, buried>>
    /\ UNCHANGED <<queued, line, failed>>

Next == Add \/ Take \/ \E i \in 1..queued : Fail(i) \/ GiveBack(i) \/ End(i)

Spec == Init /\ [][Next]_vars
=============================================================================
