------------------------- MODULE Opportunities_proofs -------------------------
(***************************************************************************)
(* Theorems about opportunities and initiatives, for any number of         *)
(* opportunities, targets, overlapping scoring runs, initiatives and       *)
(* requests: the opportunity of a finished initiative is closed, and a     *)
(* target has one active opportunity, each with the exceptions its         *)
(* property names.                                                         *)
(***************************************************************************)
EXTENDS Opportunities, FiniteSetTheorems, TLAPS

-----------------------------------------------------------------------------
(***************************************************************************)
(* What a step does to a stored opportunity.                               *)
(***************************************************************************)

\* Runs, initiatives and requests refer to stored opportunities.
RefsStored ==
  /\ \A s \in Scorer : scorer[s] # Absent => scorer[s].kept \cup scorer[s].extra \subseteq Stored
  /\ \A i \in Initiative : initiative[i] # Absent => initiative[i].opp \in Stored
  /\ \A d \in Desk : desk[d] # Absent => desk[d].from \in Stored

Typed == OppsTypeOK /\ RefsStored

\* A stored opportunity stays, with its target, and is made active only by a step
\* that the history remembers.
Evolves ==
  /\ \A o \in Stored :
       /\ o \in Stored' /\ opp'[o].target = opp[o].target
       /\ o \in Active' => o \in Active \/ (o \in reopened' /\ opp[o].target \in muddled')
  /\ reopened \subseteq reopened' /\ muddled \subseteq muddled'

\* A stored opportunity is a row.
LEMMA StoredIsRow ==
  ASSUME OppsTypeOK, NEW o \in Stored
  PROVE  /\ o \in Opp /\ opp[o] \in OppRow /\ opp[o] # Absent
         /\ opp[o].target \in Target /\ opp[o].status \in OppStatus
BY OpportunitiesAssumption DEF OppsTypeOK, Stored, OppRow

\* A change of one status changes that row only, which stays stored.
LEMMA StatusChange ==
  ASSUME OppsTypeOK, NEW o \in Stored, NEW to \in OppStatus,
         opp' = [opp EXCEPT ![o].status = to]
  PROVE  /\ opp' \in [Opp -> OppRow \cup {Absent}] /\ Stored' = Stored
         /\ opp'[o].target = opp[o].target /\ opp'[o].status = to
         /\ \A p \in Opp : p # o => opp'[p] = opp[p]
<1>1. o \in Opp /\ opp[o] \in OppRow /\ opp \in [Opp -> OppRow \cup {Absent}]
  BY StoredIsRow DEF OppsTypeOK
<1>2. [opp[o] EXCEPT !.status = to] \in OppRow
  BY <1>1 DEF OppRow
<1>3. /\ opp' = [opp EXCEPT ![o] = [opp[o] EXCEPT !.status = to]]
      /\ opp'[o] = [opp[o] EXCEPT !.status = to]
  BY <1>1
<1>4. opp'[o].target = opp[o].target /\ opp'[o].status = to
  BY <1>1, <1>3 DEF OppRow
<1>5. \A p \in Opp : p # o => opp'[p] = opp[p]
  BY <1>1, <1>3
<1>6. opp'[o] # Absent /\ opp[o] # Absent
  BY <1>1, <1>2, <1>3, OpportunitiesAssumption
<1>7. Stored' = Stored
  BY <1>5, <1>6 DEF Stored
<1> QED
  BY <1>1, <1>2, <1>3, <1>4, <1>5, <1>7

\* A change of one status to one that is not active, to one that the history
\* remembers, or of a row that is active already is an evolution.
LEMMA StatusEvolves ==
  ASSUME OppsTypeOK, NEW o \in Stored, NEW to \in OppStatus,
         opp' = [opp EXCEPT ![o].status = to],
         reopened \subseteq reopened', muddled \subseteq muddled',
         \/ to \in {"resolved", "dismissed"}
         \/ o \in Active
         \/ o \in reopened' /\ opp[o].target \in muddled'
  PROVE  Evolves
<1>1. /\ Stored' = Stored /\ opp'[o].target = opp[o].target /\ opp'[o].status = to
      /\ \A p \in Opp : p # o => opp'[p] = opp[p]
  BY StatusChange
<1>2. \A p \in Stored : p \in Opp
  BY StoredIsRow
<1>3. ASSUME NEW p \in Stored
      PROVE  /\ p \in Stored' /\ opp'[p].target = opp[p].target
             /\ p \in Active' => p \in Active \/ (p \in reopened' /\ opp[p].target \in muddled')
  <2>1. CASE p = o
    BY <1>1, <2>1 DEF Active
  <2>2. CASE p # o
    BY <1>1, <1>2, <2>2 DEF Active
  <2> QED
    BY <2>1, <2>2
<1> QED
  BY <1>3 DEF Evolves

\* What a run writes: the new rows are open, the duplicates it dismisses and the
\* others keep their target, and nothing else becomes active.
LEMMA RowsEvolve ==
  ASSUME Typed, NEW s \in Scorer, scorer[s] # Absent,
         NEW new \in SUBSET (Opp \ Stored), NEW for \in [Opp \ Stored -> Target],
         opp' = Rows(scorer[s], new, for)
  PROVE  /\ opp' \in [Opp -> OppRow \cup {Absent}]
         /\ Stored' = Stored \cup new
         /\ \A o \in new : opp'[o].target = for[o] /\ opp'[o].status = "open"
         /\ \A o \in Stored : opp'[o].target = opp[o].target /\ (o \in Active' => o \in Active)
<1>1. /\ scorer[s] \in ScoreRun /\ scorer[s].stamp \in 1 .. MaxRuns
      /\ scorer[s].extra \subseteq Stored
  BY OpportunitiesAssumption DEF Typed, OppsTypeOK, RefsStored, ScoreRun
<1>2. /\ opp' = [o \in Opp |-> opp'[o]]
      /\ \A o \in new : o \in Opp /\ opp'[o] = OpenRow(for[o], scorer[s])
      /\ \A o \in scorer[s].extra : o \in Opp /\ o \notin new
                                    /\ opp'[o] = [opp[o] EXCEPT !.status = "dismissed"]
      /\ \A o \in Opp \ (new \cup scorer[s].extra) : opp'[o] = opp[o]
  BY <1>1 DEF Rows, Stored
<1>3. \A o \in new : /\ opp'[o] \in OppRow /\ opp'[o].target = for[o]
                     /\ opp'[o].status = "open" /\ opp'[o] # Absent
  <2>1. ASSUME NEW o \in new
        PROVE  opp'[o] \in OppRow /\ opp'[o].target = for[o] /\ opp'[o].status = "open"
    <3>1. for[o] \in Target /\ "open" \in OppStatus
      BY DEF OppStatus
    <3>2. opp'[o] = [target |-> for[o], status |-> "open", stamp |-> scorer[s].stamp]
      BY <1>2 DEF OpenRow
    <3> QED
      BY <1>1, <3>1, <3>2 DEF OppRow
  <2> QED
    BY <2>1, OpportunitiesAssumption
<1>4. ASSUME NEW o \in scorer[s].extra
      PROVE  /\ opp'[o] \in OppRow /\ opp'[o].target = opp[o].target
             /\ opp'[o].status = "dismissed" /\ opp'[o] # Absent
  <2>1. opp[o] \in OppRow
    BY <1>1, StoredIsRow DEF Typed
  <2>2. /\ opp'[o] \in OppRow /\ opp'[o].target = opp[o].target
        /\ opp'[o].status = "dismissed"
    BY <1>2, <2>1 DEF OppRow, OppStatus
  <2> QED
    BY <2>2, OpportunitiesAssumption
<1>5. \A o \in Opp : opp'[o] \in OppRow \cup {Absent}
  BY <1>2, <1>3, <1>4 DEF Typed, OppsTypeOK
<1>6. Stored' = Stored \cup new
  BY <1>1, <1>2, <1>3, <1>4 DEF Stored
<1>7. \A o \in Stored : opp'[o].target = opp[o].target /\ (o \in Active' => o \in Active)
  <2>1. SUFFICES ASSUME NEW o \in Stored
                 PROVE  opp'[o].target = opp[o].target /\ (o \in Active' => o \in Active)
    OBVIOUS
  <2>2. CASE o \in scorer[s].extra
    BY <2>2, <1>4 DEF Active
  <2>3. CASE o \notin scorer[s].extra
    BY <2>3, <1>2 DEF Active, Stored
  <2> QED
    BY <2>2, <2>3
<1>8. opp' \in [Opp -> OppRow \cup {Absent}]
  BY <1>2, <1>5
<1> QED
  BY <1>3, <1>6, <1>7, <1>8

\* A request on an initiative is a desk call with a stored opportunity.
LEMMA DeskTyped ==
  ASSUME Typed, NEW d \in Desk, desk[d] # Absent
  PROVE  /\ desk[d] \in DeskCall /\ desk[d].item \in Initiative
         /\ desk[d].to \in DOMAIN NextStatus /\ desk[d].from \in Stored
BY OpportunitiesAssumption DEF Typed, OppsTypeOK, RefsStored, DeskCall

\* An initiative is a row with a stored opportunity.
LEMMA InitiativeTyped ==
  ASSUME Typed, NEW i \in Initiative, initiative[i] # Absent
  PROVE  /\ initiative[i] \in InitiativeRow /\ initiative[i].status \in DOMAIN NextStatus
         /\ initiative[i].opp \in Stored
BY OpportunitiesAssumption DEF Typed, OppsTypeOK, RefsStored, InitiativeRow

\* The statuses of an initiative are those of NextStatus, all of them reachable.
LEMMA StatusDomain ==
  /\ "backlog" \in DOMAIN NextStatus /\ "done" \in DOMAIN NextStatus
BY DEF NextStatus

\* Every step evolves the opportunities.
LEMMA EvolveStep ==
  ASSUME Typed, [OppsNext]_oppVars
  PROVE  /\ opp' \in [Opp -> OppRow \cup {Absent}] /\ Evolves
         /\ Stored' = Stored \/ \E s \in Scorer : ScoreCommit(s)
<1>0. OppsTypeOK
  BY DEF Typed
<1>1. ASSUME UNCHANGED <<opp, reopened, muddled>>
      PROVE  opp' \in [Opp -> OppRow \cup {Absent}] /\ Evolves /\ Stored' = Stored
  BY <1>0, <1>1 DEF OppsTypeOK, Evolves, Stored, Active
<1>2. ASSUME NEW s \in Scorer, ScoreCommit(s)
      PROVE  opp' \in [Opp -> OppRow \cup {Absent}] /\ Evolves
  <2>1. PICK new \in SUBSET (Opp \ Stored), for \in [Opp \ Stored -> Target] :
          opp' = Rows(scorer[s], new, for)
    BY <1>2 DEF ScoreCommit
  <2>2. scorer[s] # Absent /\ reopened' = reopened /\ muddled \subseteq muddled'
    BY <1>2 DEF ScoreCommit
  <2> QED
    BY <2>1, <2>2, RowsEvolve DEF Evolves
<1>3. ASSUME NEW o \in Opp, NEW to \in OppStatus, UpdateStatus(o, to)
      PROVE  opp' \in [Opp -> OppRow \cup {Absent}] /\ Evolves /\ Stored' = Stored
  <2>1. o \in Stored /\ opp' = [opp EXCEPT ![o].status = to]
    BY <1>3 DEF UpdateStatus
  <2>2. /\ reopened \subseteq reopened' /\ muddled \subseteq muddled'
        /\ to \in {"resolved", "dismissed"} \/ (o \in reopened' /\ opp[o].target \in muddled')
    BY <1>3 DEF UpdateStatus, OppStatus
  <2> QED
    BY <1>0, <2>1, <2>2, StatusChange, StatusEvolves
<1>4. ASSUME NEW d \in Desk, InitiativeCommit(d)
      PROVE  opp' \in [Opp -> OppRow \cup {Absent}] /\ Evolves /\ Stored' = Stored
  <2>1. desk[d] # Absent /\ desk[d].from \in Stored
    BY <1>4, DeskTyped DEF InitiativeCommit
  <2>2. CASE desk[d].write
    <3>1. opp' = [opp EXCEPT ![desk[d].from].status = "in_progress"]
      BY <1>4, <2>2 DEF InitiativeCommit
    <3>2. /\ reopened \subseteq reopened' /\ muddled \subseteq muddled'
          /\ \/ opp[desk[d].from].status = "open"
             \/ desk[d].from \in reopened' /\ opp[desk[d].from].target \in muddled'
      BY <1>4, <2>2 DEF InitiativeCommit
    <3>3. "in_progress" \in OppStatus
      BY DEF OppStatus
    <3>4. desk[d].from \in Active \/ (desk[d].from \in reopened' /\ opp[desk[d].from].target \in muddled')
      BY <2>1, <3>2 DEF Active
    <3> QED
      BY <1>0, <2>1, <3>1, <3>2, <3>3, <3>4, StatusChange, StatusEvolves
  <2>3. CASE ~desk[d].write
    BY <1>1, <1>4, <2>3 DEF InitiativeCommit
  <2> QED
    BY <2>2, <2>3
<1>5. ASSUME NEW d \in Desk, MoveCommit(d)
      PROVE  opp' \in [Opp -> OppRow \cup {Absent}] /\ Evolves /\ Stored' = Stored
  <2>1. desk[d] # Absent /\ desk[d].from \in Stored /\ UNCHANGED <<muddled, reopened>>
    BY <1>5, DeskTyped DEF MoveCommit
  <2>2. CASE desk[d].write
    <3>1. opp' = [opp EXCEPT ![desk[d].from].status = "resolved"]
      BY <1>5, <2>2 DEF MoveCommit
    <3>2. "resolved" \in OppStatus
      BY DEF OppStatus
    <3> QED
      BY <1>0, <2>1, <3>1, <3>2, StatusChange, StatusEvolves
  <2>3. CASE ~desk[d].write
    BY <1>1, <1>5, <2>1, <2>3 DEF MoveCommit
  <2> QED
    BY <2>2, <2>3
<1>6. CASE \/ \E s \in Scorer, listed \in SUBSET Target : ScoreBegin(s, listed)
           \/ \E s \in Scorer : ScoreFails(s)
           \/ \E d \in Desk, i \in Initiative, o \in Opp : InitiativeBegin(d, i, o)
           \/ \E d \in Desk, i \in Initiative, to \in DOMAIN NextStatus : MoveBegin(d, i, to)
           \/ UNCHANGED oppVars
  <2>1. UNCHANGED <<opp, reopened, muddled>>
    BY <1>6 DEF ScoreBegin, ScoreFails, InitiativeBegin, MoveBegin, Sit, oppVars
  <2> QED
    BY <2>1, <1>1
<1> QED
  BY <1>2, <1>3, <1>4, <1>5, <1>6 DEF OppsNext

-----------------------------------------------------------------------------
(***************************************************************************)
(* Type correctness.                                                       *)
(***************************************************************************)

\* Runs keep their type, and refer to stored opportunities.
LEMMA ScorerStep ==
  ASSUME Typed, [OppsNext]_oppVars, Stored \subseteq Stored'
  PROVE  /\ scorer' \in [Scorer -> ScoreRun \cup {Absent}] /\ runs' \in 0 .. MaxRuns
         /\ \A s \in Scorer :
              scorer'[s] # Absent => scorer'[s].kept \cup scorer'[s].extra \subseteq Stored'
<1>0. /\ scorer \in [Scorer -> ScoreRun \cup {Absent}] /\ runs \in 0 .. MaxRuns
      /\ \A s \in Scorer :
           scorer[s] # Absent => scorer[s].kept \cup scorer[s].extra \subseteq Stored
  BY DEF Typed, OppsTypeOK, RefsStored
<1>1. CASE UNCHANGED <<scorer, runs>>
  BY <1>0, <1>1
<1>2. ASSUME NEW s \in Scorer, NEW listed \in SUBSET Target, ScoreBegin(s, listed)
      PROVE  /\ scorer' \in [Scorer -> ScoreRun \cup {Absent}] /\ runs' \in 0 .. MaxRuns
             /\ \A x \in Scorer :
                  scorer'[x] # Absent => scorer'[x].kept \cup scorer'[x].extra \subseteq Stored'
  <2>1. PICK kept \in SUBSET Stored, extra \in SUBSET Stored :
          scorer' = [scorer EXCEPT ![s] = [listed |-> listed, kept |-> kept,
                       stamp |-> runs + 1, alone |-> TRUE, extra |-> extra]]
    <3>1. PICK kept \in SUBSET {o \in Stored : opp[o].status \in ActiveStatus} :
            scorer' = [scorer EXCEPT ![s] = [listed |-> listed, kept |-> kept,
              stamp |-> runs + 1, alone |-> TRUE,
              extra |-> {o \in {p \in Stored : opp[p].status \in ActiveStatus} \ kept :
                           opp[o].status = "open"}]]
      BY <1>2 DEF ScoreBegin
    <3> QED
      BY <3>1
  <2>2. runs' = runs + 1 /\ runs + 1 \in 1 .. MaxRuns /\ runs' \in 0 .. MaxRuns
    BY <1>0, <1>2, OpportunitiesAssumption DEF ScoreBegin
  <2>3. Stored \subseteq Opp
    BY DEF Stored
  <2>4. [listed |-> listed, kept |-> kept, stamp |-> runs + 1, alone |-> TRUE,
         extra |-> extra] \in ScoreRun
    BY <2>1, <2>2, <2>3 DEF ScoreRun
  <2>5. \A x \in Scorer :
          scorer'[x] # Absent => scorer'[x].kept \cup scorer'[x].extra \subseteq Stored'
    BY <1>0, <2>1
  <2> QED
    BY <1>0, <2>1, <2>2, <2>4, <2>5
<1>3. ASSUME NEW s \in Scorer, ScoreCommit(s) \/ ScoreFails(s)
      PROVE  /\ scorer' \in [Scorer -> ScoreRun \cup {Absent}] /\ runs' \in 0 .. MaxRuns
             /\ \A x \in Scorer :
                  scorer'[x] # Absent => scorer'[x].kept \cup scorer'[x].extra \subseteq Stored'
  <2>1. scorer' = [x \in Scorer |-> scorer'[x]]
    BY <1>0, <1>3 DEF ScoreCommit, ScoreFails
  <2>2. ASSUME NEW x \in Scorer
        PROVE  \/ scorer'[x] = Absent \/ scorer'[x] = scorer[x]
               \/ scorer[x] # Absent /\ scorer'[x] = [scorer[x] EXCEPT !.alone = FALSE]
    BY <1>0, <1>3 DEF ScoreCommit, ScoreFails
  <2>3. ASSUME NEW x \in Scorer, scorer[x] # Absent
        PROVE  /\ [scorer[x] EXCEPT !.alone = FALSE] \in ScoreRun
               /\ [scorer[x] EXCEPT !.alone = FALSE].kept = scorer[x].kept
               /\ [scorer[x] EXCEPT !.alone = FALSE].extra = scorer[x].extra
    <3>1. scorer[x] \in ScoreRun
      BY <1>0, <2>3
    <3> QED
      BY <3>1 DEF ScoreRun
  <2>4. \A x \in Scorer : scorer'[x] \in ScoreRun \cup {Absent}
    BY <1>0, <2>2, <2>3
  <2>5. \A x \in Scorer :
          scorer'[x] # Absent => scorer'[x].kept \cup scorer'[x].extra \subseteq Stored'
    BY <1>0, <2>2, <2>3
  <2>6. runs' = runs
    BY <1>3 DEF ScoreCommit, ScoreFails
  <2> QED
    BY <1>0, <2>1, <2>4, <2>5, <2>6
<1>4. CASE \/ \E o \in Opp, to \in OppStatus : UpdateStatus(o, to)
           \/ \E d \in Desk, i \in Initiative, o \in Opp : InitiativeBegin(d, i, o)
           \/ \E d \in Desk, i \in Initiative, to \in DOMAIN NextStatus : MoveBegin(d, i, to)
           \/ \E d \in Desk : InitiativeCommit(d) \/ MoveCommit(d)
           \/ UNCHANGED oppVars
  BY <1>1, <1>4 DEF UpdateStatus, InitiativeBegin, MoveBegin, Sit, InitiativeCommit, MoveCommit,
    Leave, oppVars
<1> QED
  BY <1>2, <1>3, <1>4 DEF OppsNext

\* Initiatives and requests keep their type, and refer to stored opportunities.
LEMMA DeskStep ==
  ASSUME Typed, [OppsNext]_oppVars, Stored \subseteq Stored'
  PROVE  /\ initiative' \in [Initiative -> InitiativeRow \cup {Absent}]
         /\ desk' \in [Desk -> DeskCall \cup {Absent}]
         /\ \A i \in Initiative : initiative'[i] # Absent => initiative'[i].opp \in Stored'
         /\ \A d \in Desk : desk'[d] # Absent => desk'[d].from \in Stored'
<1>0. /\ initiative \in [Initiative -> InitiativeRow \cup {Absent}]
      /\ desk \in [Desk -> DeskCall \cup {Absent}]
      /\ \A i \in Initiative : initiative[i] # Absent => initiative[i].opp \in Stored
      /\ \A d \in Desk : desk[d] # Absent => desk[d].from \in Stored
      /\ Stored \subseteq Opp
  BY DEF Typed, OppsTypeOK, RefsStored, Stored
<1>1. CASE UNCHANGED <<initiative, desk>>
  BY <1>0, <1>1
<1>2. ASSUME NEW d \in Desk, NEW call \in DeskCall, Sit(d, call), call.from \in Stored
      PROVE  /\ initiative' \in [Initiative -> InitiativeRow \cup {Absent}]
             /\ desk' \in [Desk -> DeskCall \cup {Absent}]
             /\ \A i \in Initiative : initiative'[i] # Absent => initiative'[i].opp \in Stored'
             /\ \A c \in Desk : desk'[c] # Absent => desk'[c].from \in Stored'
  BY <1>0, <1>2 DEF Sit
<1>3. ASSUME NEW d \in Desk, NEW i \in Initiative, NEW o \in Opp, InitiativeBegin(d, i, o)
      PROVE  \E call \in DeskCall : Sit(d, call) /\ call.from \in Stored
  <2>1. [item |-> i, to |-> "backlog", from |-> o, write |-> opp[o].status = "open"] \in DeskCall
    BY StatusDomain DEF DeskCall
  <2> QED
    BY <1>3, <2>1 DEF InitiativeBegin
<1>4. ASSUME NEW d \in Desk, NEW i \in Initiative, NEW to \in DOMAIN NextStatus,
             MoveBegin(d, i, to)
      PROVE  \E call \in DeskCall : Sit(d, call) /\ call.from \in Stored
  <2>1. initiative[i] # Absent /\ initiative[i].opp \in Stored
    BY <1>0, <1>4 DEF MoveBegin
  <2>2. [item |-> i, to |-> to, from |-> initiative[i].opp,
         write |-> to = "done" /\ opp[initiative[i].opp].status # "resolved"] \in DeskCall
    BY <1>0, <2>1 DEF DeskCall
  <2> QED
    BY <1>4, <2>1, <2>2 DEF MoveBegin
<1>5. ASSUME NEW d \in Desk, InitiativeCommit(d) \/ MoveCommit(d)
      PROVE  /\ initiative' \in [Initiative -> InitiativeRow \cup {Absent}]
             /\ desk' \in [Desk -> DeskCall \cup {Absent}]
             /\ \A i \in Initiative : initiative'[i] # Absent => initiative'[i].opp \in Stored'
             /\ \A c \in Desk : desk'[c] # Absent => desk'[c].from \in Stored'
  <2>1. desk[d] # Absent /\ desk' = [desk EXCEPT ![d] = Absent]
    BY <1>5 DEF InitiativeCommit, MoveCommit, Leave
  <2>2. /\ desk[d].item \in Initiative /\ desk[d].to \in DOMAIN NextStatus
        /\ desk[d].from \in Stored
    BY <2>1, DeskTyped
  <2>3. PICK row \in InitiativeRow :
          /\ initiative' = [initiative EXCEPT ![desk[d].item] = row]
          /\ row.opp \in Stored
    <3>1. CASE InitiativeCommit(d)
      <4>1. [opp |-> desk[d].from, status |-> "backlog"] \in InitiativeRow
        BY <1>0, <2>2, StatusDomain DEF InitiativeRow
      <4> QED
        BY <2>2, <3>1, <4>1 DEF InitiativeCommit
    <3>2. CASE MoveCommit(d)
      <4>1. /\ initiative[desk[d].item] \in InitiativeRow
            /\ initiative[desk[d].item].opp \in Stored
            /\ initiative' = [initiative EXCEPT ![desk[d].item] =
                                [initiative[desk[d].item] EXCEPT !.status = desk[d].to]]
        BY <1>0, <2>2, <3>2, InitiativeTyped DEF MoveCommit
      <4>2. /\ [initiative[desk[d].item] EXCEPT !.status = desk[d].to] \in InitiativeRow
            /\ [initiative[desk[d].item] EXCEPT !.status = desk[d].to].opp \in Stored
        BY <2>2, <4>1 DEF InitiativeRow
      <4> QED
        BY <4>1, <4>2
    <3> QED
      BY <1>5, <3>1, <3>2
  <2>4. \A i \in Initiative : initiative'[i] # Absent => initiative'[i].opp \in Stored'
    BY <1>0, <2>2, <2>3
  <2>5. \A c \in Desk : desk'[c] # Absent => desk'[c].from \in Stored'
    BY <1>0, <2>1
  <2> QED
    BY <1>0, <2>1, <2>2, <2>3, <2>4, <2>5
<1>6. CASE \/ \E s \in Scorer, listed \in SUBSET Target : ScoreBegin(s, listed)
           \/ \E s \in Scorer : ScoreCommit(s) \/ ScoreFails(s)
           \/ \E o \in Opp, to \in OppStatus : UpdateStatus(o, to)
           \/ UNCHANGED oppVars
  BY <1>1, <1>6 DEF ScoreBegin, ScoreCommit, ScoreFails, UpdateStatus, oppVars
<1> QED
  BY <1>2, <1>3, <1>4, <1>5, <1>6 DEF OppsNext

\* The remaining variables keep their type.
LEMMA MarksStep ==
  ASSUME Typed, [OppsNext]_oppVars
  PROVE  /\ alike' = alike /\ patches' \in 0 .. MaxPatches
         /\ muddled' \subseteq Target /\ reopened' \subseteq Opp
<1>0. /\ patches \in 0 .. MaxPatches /\ muddled \subseteq Target /\ reopened \subseteq Opp
      /\ MaxPatches \in Nat
  BY OpportunitiesAssumption DEF Typed, OppsTypeOK
<1>1. CASE UNCHANGED <<alike, patches, muddled, reopened>>
  BY <1>0, <1>1
<1>2. ASSUME NEW s \in Scorer, ScoreCommit(s)
      PROVE  /\ alike' = alike /\ patches' \in 0 .. MaxPatches
             /\ muddled' \subseteq Target /\ reopened' \subseteq Opp
  <2>1. scorer[s] \in ScoreRun /\ scorer[s].listed \subseteq Target
    BY <1>2 DEF ScoreCommit, Typed, OppsTypeOK, ScoreRun
  <2>2. /\ UNCHANGED <<alike, patches, reopened>>
        /\ muddled' = muddled \/ muddled' = muddled \cup
             {t \in scorer[s].listed : \A k \in scorer[s].kept : opp[k].target # t}
    BY <1>2 DEF ScoreCommit
  <2> QED
    BY <1>0, <2>1, <2>2
<1>3. ASSUME NEW o \in Opp, NEW to \in OppStatus, UpdateStatus(o, to)
      PROVE  /\ alike' = alike /\ patches' \in 0 .. MaxPatches
             /\ muddled' \subseteq Target /\ reopened' \subseteq Opp
  <2>1. opp[o].target \in Target
    BY <1>3, StoredIsRow DEF UpdateStatus, Typed
  <2>2. alike' = alike /\ patches < MaxPatches /\ patches' = patches + 1
    BY <1>3 DEF UpdateStatus
  <2>3. patches' \in 0 .. MaxPatches
    BY <1>0, <2>2
  <2>4. muddled' \subseteq Target /\ reopened' \subseteq Opp
    BY <1>0, <1>3, <2>1 DEF UpdateStatus
  <2> QED
    BY <2>2, <2>3, <2>4
<1>4. ASSUME NEW d \in Desk, InitiativeCommit(d)
      PROVE  /\ alike' = alike /\ patches' \in 0 .. MaxPatches
             /\ muddled' \subseteq Target /\ reopened' \subseteq Opp
  <2>1. desk[d].from \in Opp /\ opp[desk[d].from].target \in Target
    BY <1>4, DeskTyped, StoredIsRow DEF InitiativeCommit, Typed
  <2>2. UNCHANGED <<alike, patches>>
    BY <1>4 DEF InitiativeCommit, Leave
  <2>3. muddled' \subseteq Target /\ reopened' \subseteq Opp
    BY <1>0, <1>4, <2>1 DEF InitiativeCommit
  <2> QED
    BY <1>0, <2>2, <2>3
<1>5. CASE \/ \E s \in Scorer, listed \in SUBSET Target : ScoreBegin(s, listed)
           \/ \E s \in Scorer : ScoreFails(s)
           \/ \E d \in Desk, i \in Initiative, o \in Opp : InitiativeBegin(d, i, o)
           \/ \E d \in Desk, i \in Initiative, to \in DOMAIN NextStatus : MoveBegin(d, i, to)
           \/ \E d \in Desk : MoveCommit(d)
           \/ UNCHANGED oppVars
  BY <1>1, <1>5 DEF ScoreBegin, ScoreFails, InitiativeBegin, MoveBegin, Sit, MoveCommit, Leave,
    oppVars
<1> QED
  BY <1>2, <1>3, <1>4, <1>5 DEF OppsNext

\* Every step keeps the types and the references.
LEMMA TypedStep ==
  ASSUME Typed, [OppsNext]_oppVars
  PROVE  Typed' /\ Evolves /\ alike' = alike
<1>1. /\ opp' \in [Opp -> OppRow \cup {Absent}] /\ Evolves /\ Stored \subseteq Stored'
  BY EvolveStep DEF Evolves
<1>2. alike' \in BOOLEAN
  BY MarksStep DEF Typed, OppsTypeOK
<1>3. OppsTypeOK'
  BY <1>1, <1>2, ScorerStep, DeskStep, MarksStep DEF OppsTypeOK
<1>4. RefsStored'
  BY <1>1, ScorerStep, DeskStep DEF RefsStored
<1> QED
  BY <1>1, <1>3, <1>4, MarksStep DEF Typed

LEMMA TypedInit == OppsInit => Typed
BY OpportunitiesAssumption DEF OppsInit, Typed, OppsTypeOK, RefsStored, Stored

\* Opportunities, runs, initiatives and requests keep their types, and whatever a
\* run or a request has read still exists when it writes.
THEOREM OppsTypeCorrect == OppsSpec => []Typed
<1>1. OppsInit => Typed
  BY TypedInit
<1>2. Typed /\ [OppsNext]_oppVars => Typed'
  BY TypedStep
<1> QED
  BY <1>1, <1>2, PTL DEF OppsSpec

-----------------------------------------------------------------------------
(***************************************************************************)
(* A finished initiative has closed its opportunity.                       *)
(***************************************************************************)

\* Closed, or made active again by a step that the history remembers.
Shut(o) == o \notin Active \/ o \in reopened

\* The same of the next state, for an opportunity that is named there.
ShutNext(o) == o \notin Active' \/ o \in reopened'

\* Only one request creates an initiative.
OneCreator ==
  \A c, d \in Desk :
    desk[c] # Absent /\ desk[d] # Absent /\ desk[c].item = desk[d].item
    /\ initiative[desk[c].item] = Absent => c = d

\* A request works on the opportunity of its initiative.
SameOpp ==
  \A d \in Desk :
    desk[d] # Absent /\ initiative[desk[d].item] # Absent
      => initiative[desk[d].item].opp = desk[d].from

\* A request that will finish an initiative without a write has read that its
\* opportunity is resolved.
NothingToClose ==
  \A d \in Desk :
    desk[d] # Absent /\ desk[d].to = "done" /\ ~desk[d].write => Shut(desk[d].from)

DoneInv == OneCreator /\ SameOpp /\ NothingToClose /\ DoneMeansClosed

\* What is shut stays shut.
LEMMA ShutStays ==
  ASSUME Evolves, NEW o \in Stored, Shut(o)
  PROVE  ShutNext(o)
BY DEF Evolves, Shut, ShutNext

LEMMA DoneStep ==
  ASSUME Typed, DoneInv, [OppsNext]_oppVars
  PROVE  DoneInv'
<1>0. /\ Evolves
      /\ \A i \in Initiative : initiative[i] # Absent => initiative[i].opp \in Stored
      /\ \A d \in Desk : desk[d] # Absent => desk[d].from \in Stored /\ desk[d].item \in Initiative
      /\ desk \in [Desk -> DeskCall \cup {Absent}]
      /\ initiative \in [Initiative -> InitiativeRow \cup {Absent}]
  BY TypedStep, DeskTyped DEF Typed, RefsStored, OppsTypeOK
<1>1. ASSUME UNCHANGED initiative
      PROVE  DoneMeansClosed'
  BY <1>0, <1>1, ShutStays DEF DoneInv, DoneMeansClosed, Shut, ShutNext
<1>2. CASE UNCHANGED <<initiative, desk>>
  <2>1. NothingToClose'
    BY <1>0, <1>2, ShutStays DEF DoneInv, NothingToClose, Shut, ShutNext
  <2> QED
    BY <1>1, <1>2, <2>1 DEF DoneInv, OneCreator, SameOpp
<1>3. ASSUME NEW d \in Desk, NEW call \in DeskCall, Sit(d, call),
             \/ /\ initiative[call.item] = Absent /\ call.to # "done"
                /\ \A c \in Desk : desk[c] # Absent => desk[c].item # call.item
             \/ /\ initiative[call.item] # Absent /\ call.from = initiative[call.item].opp
                /\ call.to = "done" /\ ~call.write => Shut(call.from)
      PROVE  DoneInv'
  <2>1. /\ desk' = [desk EXCEPT ![d] = call] /\ desk[d] = Absent
        /\ UNCHANGED <<opp, initiative, reopened>>
    BY <1>3 DEF Sit
  <2>2. OneCreator'
    BY <1>0, <1>3, <2>1 DEF DoneInv, OneCreator
  <2>3. SameOpp'
    BY <1>0, <1>3, <2>1 DEF DoneInv, SameOpp
  <2>5. NothingToClose'
    <3>1. SUFFICES ASSUME NEW c \in Desk, desk'[c] # Absent, desk'[c].to = "done",
                          ~desk'[c].write
                   PROVE  ShutNext(desk'[c].from)
      BY DEF NothingToClose, Shut, ShutNext
    <3>2. CASE c = d
      <4>1. desk'[c] = call
        BY <1>0, <2>1, <3>2
      <4>2. initiative[call.item] # Absent /\ call.from = initiative[call.item].opp
            /\ Shut(call.from)
        BY <1>3, <3>1, <4>1
      <4>3. call.from \in Stored
        BY <1>0, <4>2 DEF DeskCall
      <4>4. PICK o \in Stored : o = call.from
        BY <4>3
      <4>5. ShutNext(o)
        BY <1>0, <4>2, <4>4, ShutStays
      <4> QED
        BY <4>1, <4>4, <4>5 DEF Shut, ShutNext
    <3>3. CASE c # d
      <4>1. desk'[c] = desk[c]
        BY <1>0, <2>1, <3>3
      <4>2. PICK o \in Stored : o = desk[c].from
        BY <1>0, <3>1, <4>1
      <4>3. ShutNext(o)
        BY <1>0, <3>1, <4>1, <4>2, ShutStays DEF DoneInv, NothingToClose
      <4> QED
        BY <4>1, <4>2, <4>3 DEF Shut, ShutNext
    <3> QED
      BY <3>2, <3>3
  <2> QED
    BY <1>1, <2>1, <2>2, <2>3, <2>5 DEF DoneInv
<1>4. ASSUME NEW d \in Desk, NEW i \in Initiative, NEW o \in Opp, InitiativeBegin(d, i, o)
      PROVE  DoneInv'
  <2>1. PICK call \in DeskCall : /\ Sit(d, call) /\ call.item = i /\ call.to = "backlog"
    <3>1. [item |-> i, to |-> "backlog", from |-> o, write |-> opp[o].status = "open"] \in DeskCall
      BY StatusDomain DEF DeskCall
    <3> QED
      BY <1>4, <3>1 DEF InitiativeBegin
  <2> QED
    BY <1>3, <1>4, <2>1 DEF InitiativeBegin
<1>5. ASSUME NEW d \in Desk, NEW i \in Initiative, NEW to \in DOMAIN NextStatus,
             MoveBegin(d, i, to)
      PROVE  DoneInv'
  <2>1. initiative[i] # Absent /\ initiative[i].opp \in Stored
    BY <1>0, <1>5 DEF MoveBegin
  <2>2. PICK call \in DeskCall :
          /\ Sit(d, call) /\ call.item = i /\ call.from = initiative[i].opp
          /\ call.to = "done" /\ ~call.write => opp[call.from].status = "resolved"
    <3>1. [item |-> i, to |-> to, from |-> initiative[i].opp,
           write |-> to = "done" /\ opp[initiative[i].opp].status # "resolved"] \in DeskCall
      BY <2>1 DEF DeskCall, Stored
    <3> QED
      BY <1>5, <3>1 DEF MoveBegin
  <2>3. call.to = "done" /\ ~call.write => Shut(call.from)
    BY <2>2 DEF Shut, ShutNext, Active
  <2> QED
    BY <1>3, <2>1, <2>2, <2>3
<1>6. ASSUME NEW d \in Desk, InitiativeCommit(d) \/ MoveCommit(d)
      PROVE  DoneInv'
  <2>1. desk[d] # Absent /\ desk' = [desk EXCEPT ![d] = Absent] /\ desk[d].item \in Initiative
        /\ desk[d].from \in Stored /\ desk[d].to \in DOMAIN NextStatus
    BY <1>6, DeskTyped DEF InitiativeCommit, MoveCommit, Leave
  <2>2. PICK row \in InitiativeRow :
          /\ initiative' = [initiative EXCEPT ![desk[d].item] = row]
          /\ row.opp = desk[d].from
          /\ row.status = "done" => MoveCommit(d) /\ desk[d].to = "done"
    <3>1. CASE InitiativeCommit(d)
      <4>1. [opp |-> desk[d].from, status |-> "backlog"] \in InitiativeRow
        BY <2>1, StatusDomain DEF InitiativeRow, Stored
      <4> QED
        BY <3>1, <4>1 DEF InitiativeCommit
    <3>2. CASE MoveCommit(d)
      <4>1. /\ initiative[desk[d].item] \in InitiativeRow
            /\ initiative[desk[d].item].opp = desk[d].from
            /\ initiative' = [initiative EXCEPT ![desk[d].item] =
                                [initiative[desk[d].item] EXCEPT !.status = desk[d].to]]
        BY <1>0, <2>1, <3>2, InitiativeTyped DEF MoveCommit, DoneInv, SameOpp
      <4>2. /\ [initiative[desk[d].item] EXCEPT !.status = desk[d].to] \in InitiativeRow
            /\ [initiative[desk[d].item] EXCEPT !.status = desk[d].to].opp = desk[d].from
            /\ [initiative[desk[d].item] EXCEPT !.status = desk[d].to].status = desk[d].to
        BY <2>1, <4>1 DEF InitiativeRow
      <4> QED
        BY <3>2, <4>1, <4>2
    <3> QED
      BY <1>6, <3>1, <3>2
  <2>3. row # Absent /\ initiative'[desk[d].item] = row
        /\ \A i \in Initiative : i # desk[d].item => initiative'[i] = initiative[i]
    BY <1>0, <2>1, <2>2, OpportunitiesAssumption
  <2>4. /\ desk'[d] = Absent
        /\ \A c \in Desk : desk'[c] # Absent => c # d /\ desk'[c] = desk[c]
    BY <1>0, <2>1
  <2>5. OneCreator'
    BY <1>0, <2>3, <2>4 DEF DoneInv, OneCreator
  <2>6. SameOpp'
    <3>1. SUFFICES ASSUME NEW c \in Desk, desk'[c] # Absent, initiative'[desk'[c].item] # Absent
                   PROVE  initiative'[desk'[c].item].opp = desk'[c].from
      BY DEF SameOpp
    <3>2. desk'[c] = desk[c] /\ c # d /\ desk[c] # Absent /\ desk[c].item \in Initiative
      BY <1>0, <2>4, <3>1
    <3>3. CASE desk[c].item # desk[d].item
      BY <2>3, <3>1, <3>2, <3>3 DEF DoneInv, SameOpp
    <3>4. CASE desk[c].item = desk[d].item
      <4>1. initiative[desk[d].item] # Absent
        BY <2>1, <3>2, <3>4 DEF DoneInv, OneCreator
      <4>2. desk[c].from = desk[d].from
        BY <2>1, <3>2, <3>4, <4>1 DEF DoneInv, SameOpp
      <4> QED
        BY <2>2, <2>3, <3>2, <3>4, <4>2
    <3> QED
      BY <3>3, <3>4
  <2>7. NothingToClose'
    <3>1. SUFFICES ASSUME NEW c \in Desk, desk'[c] # Absent, desk'[c].to = "done",
                          ~desk'[c].write
                   PROVE  ShutNext(desk'[c].from)
      BY DEF NothingToClose, Shut, ShutNext
    <3>2. desk'[c] = desk[c] /\ desk[c] # Absent
      BY <2>4, <3>1
    <3>3. PICK o \in Stored : o = desk[c].from
      BY <1>0, <3>2
    <3>4. ShutNext(o)
      BY <1>0, <3>1, <3>2, <3>3, ShutStays DEF DoneInv, NothingToClose
    <3> QED
      BY <3>2, <3>3, <3>4 DEF Shut, ShutNext
  <2>8. row.status = "done" => ShutNext(desk[d].from)
    <3>1. SUFFICES ASSUME MoveCommit(d), desk[d].to = "done"
                   PROVE  ShutNext(desk[d].from)
      BY <2>2
    <3>2. PICK o \in Stored : o = desk[d].from
      BY <2>1
    <3>3. CASE desk[d].write
      <4>1. opp' = [opp EXCEPT ![o].status = "resolved"] /\ "resolved" \in OppStatus
        BY <3>1, <3>2, <3>3 DEF MoveCommit, OppStatus
      <4>2. opp'[o].status = "resolved"
        BY <4>1, StatusChange DEF Typed
      <4> QED
        BY <3>2, <4>2 DEF Shut, ShutNext, Active, MoveCommit, Leave
    <3>4. CASE ~desk[d].write
      <4>1. ShutNext(o)
        BY <1>0, <2>1, <3>1, <3>2, <3>4, ShutStays DEF DoneInv, NothingToClose
      <4> QED
        BY <3>2, <4>1 DEF MoveCommit, Leave, Shut, ShutNext
    <3> QED
      BY <3>3, <3>4
  <2>9. DoneMeansClosed'
    <3>1. SUFFICES ASSUME NEW i \in Initiative, initiative'[i] # Absent,
                          initiative'[i].status = "done"
                   PROVE  ShutNext(initiative'[i].opp)
      BY DEF DoneMeansClosed, Shut, ShutNext
    <3>2. CASE i = desk[d].item
      BY <2>2, <2>3, <2>8, <3>1, <3>2 DEF Shut, ShutNext
    <3>3. CASE i # desk[d].item
      <4>1. initiative'[i] = initiative[i]
        BY <2>3, <3>3
      <4>2. PICK o \in Stored : o = initiative[i].opp
        BY <1>0, <3>1, <4>1
      <4>3. ShutNext(o)
        BY <1>0, <3>1, <4>1, <4>2, ShutStays DEF DoneInv, DoneMeansClosed, Shut, ShutNext
      <4> QED
        BY <4>1, <4>2, <4>3 DEF Shut, ShutNext
    <3> QED
      BY <3>2, <3>3
  <2> QED
    BY <2>5, <2>6, <2>7, <2>9 DEF DoneInv
<1>7. CASE \/ \E s \in Scorer, listed \in SUBSET Target : ScoreBegin(s, listed)
           \/ \E s \in Scorer : ScoreCommit(s) \/ ScoreFails(s)
           \/ \E o \in Opp, to \in OppStatus : UpdateStatus(o, to)
           \/ UNCHANGED oppVars
  BY <1>2, <1>7 DEF ScoreBegin, ScoreCommit, ScoreFails, UpdateStatus, oppVars
<1> QED
  BY <1>4, <1>5, <1>6, <1>7 DEF OppsNext

\* However initiatives and scoring runs overlap, the opportunity of an initiative
\* that is done is closed, unless it was made active again.
THEOREM DoneStaysClosed == OppsSpec => []DoneMeansClosed
<1>1. OppsInit => DoneInv
  BY DEF OppsInit, DoneInv, OneCreator, SameOpp, NothingToClose, DoneMeansClosed
<1>2. Typed /\ DoneInv /\ [OppsNext]_oppVars => DoneInv'
  BY DoneStep
<1>3. DoneInv => DoneMeansClosed
  BY DEF DoneInv
<1> QED
  BY <1>1, <1>2, <1>3, OppsTypeCorrect, PTL DEF OppsSpec

-----------------------------------------------------------------------------
(***************************************************************************)
(* A target has one active opportunity.                                    *)
(***************************************************************************)

\* As long as no other run has committed, what a run has read covers the target of
\* every active opportunity, save those of muddled targets.
ReadCovers ==
  \A s \in Scorer : scorer[s] # Absent /\ scorer[s].alone =>
    \A o \in Active :
      opp[o].target \in muddled \/ \E k \in scorer[s].kept : opp[k].target = opp[o].target

ActiveInv == alike \/ (OneActivePerTarget /\ ReadCovers)

\* Two sets with as many elements: a map from one onto the other tells its
\* elements apart.
LEMMA OneRowEach ==
  ASSUME NEW new \in SUBSET Opp, NEW missing, NEW for,
         Cardinality(new) = Cardinality(missing), {for[o] : o \in new} = missing
  PROVE  \A o, p \in new : for[o] = for[p] => o = p
<1> DEFINE f == [o \in new |-> for[o]]
<1>1. IsFiniteSet(new)
  BY OpportunitiesAssumption, FS_Subset
<1>2. f \in Surjection(new, missing)
  BY DEF Surjection
<1>3. f \in Injection(new, missing)
  BY <1>1, <1>2, FS_SurjSameCardinalityImpliesInj
<1> QED
  BY <1>3 DEF Injection, IsInjective

\* Steps that insert no opportunity.
LEMMA ActiveKept ==
  ASSUME Typed, Evolves, OneActivePerTarget, ~alike, ~alike', Stored' = Stored
  PROVE  OneActivePerTarget'
<1>1. SUFFICES ASSUME NEW o \in Active', NEW p \in Active', opp'[o].target = opp'[p].target, o # p
               PROVE  opp'[o].target \in muddled'
  BY DEF OneActivePerTarget
<1>2. o \in Stored /\ p \in Stored
  BY <1>1 DEF Active
<1>3. /\ opp'[o].target = opp[o].target /\ opp'[p].target = opp[p].target
      /\ o \in Active \/ opp[o].target \in muddled'
      /\ p \in Active \/ opp[p].target \in muddled'
      /\ muddled \subseteq muddled'
  BY <1>1, <1>2 DEF Evolves
<1>4. CASE o \in Active /\ p \in Active
  BY <1>1, <1>3, <1>4 DEF OneActivePerTarget
<1> QED
  BY <1>1, <1>3, <1>4

LEMMA ActiveStep ==
  ASSUME Typed, ActiveInv, [OppsNext]_oppVars
  PROVE  ActiveInv'
<1>0. /\ Evolves /\ alike' = alike /\ scorer \in [Scorer -> ScoreRun \cup {Absent}]
      /\ \A s \in Scorer : scorer[s] # Absent => scorer[s].kept \subseteq Stored
  BY TypedStep DEF Typed, OppsTypeOK, RefsStored
<1>1. SUFFICES ASSUME ~alike, OneActivePerTarget, ReadCovers
               PROVE  OneActivePerTarget' /\ ReadCovers'
  BY <1>0 DEF ActiveInv, OneActivePerTarget
<1>2. ASSUME NEW s \in Scorer, ScoreCommit(s)
      PROVE  OneActivePerTarget' /\ ReadCovers'
  <2> DEFINE missing == {t \in scorer[s].listed : \A k \in scorer[s].kept : opp[k].target # t}
  <2>1. PICK new \in SUBSET (Opp \ Stored), for \in [Opp \ Stored -> Target] :
          /\ Cardinality(new) = Cardinality(missing) /\ {for[o] : o \in new} = missing
          /\ opp' = Rows(scorer[s], new, for)
          /\ muddled' = IF scorer[s].alone THEN muddled ELSE muddled \cup missing
    BY <1>2 DEF ScoreCommit
  <2> HIDE DEF missing
  <2>2. scorer[s] # Absent
    BY <1>2 DEF ScoreCommit
  <2>3. /\ Stored' = Stored \cup new
        /\ \A o \in new : opp'[o].target = for[o]
        /\ \A o \in Stored : opp'[o].target = opp[o].target /\ (o \in Active' => o \in Active)
    BY <2>1, <2>2, RowsEvolve
  <2>4. \A o, p \in new : for[o] = for[p] => o = p
    BY <2>1, OneRowEach
  <2>5. muddled \subseteq muddled'
    BY <2>1
  \* a new row beside an active one with the same target
  <2>6. ASSUME NEW o \in Active, NEW p \in new, opp[o].target = for[p]
        PROVE  for[p] \in muddled'
    <3>1. for[p] \in missing
      BY <2>1
    <3>2. CASE scorer[s].alone
      <4>1. opp[o].target \in muddled \/ \E k \in scorer[s].kept : opp[k].target = opp[o].target
        BY <1>1, <2>2, <3>2 DEF ReadCovers
      <4> QED
        BY <2>5, <2>6, <3>1, <4>1 DEF missing
    <3>3. CASE ~scorer[s].alone
      BY <2>1, <3>1, <3>3
    <3> QED
      BY <3>2, <3>3
  <2>7. OneActivePerTarget'
    <3>1. SUFFICES ASSUME NEW o \in Active', NEW p \in Active',
                          opp'[o].target = opp'[p].target, o # p
                   PROVE  opp'[o].target \in muddled'
      BY DEF OneActivePerTarget
    <3>2. o \in Stored \cup new /\ p \in Stored \cup new
      BY <2>3, <3>1 DEF Active
    <3>3. CASE o \in new /\ p \in new
      BY <2>3, <2>4, <3>1, <3>3
    <3>4. CASE o \in new /\ p \in Stored
      BY <2>3, <2>6, <3>1, <3>4
    <3>5. CASE o \in Stored /\ p \in new
      BY <2>3, <2>6, <3>1, <3>5
    <3>6. CASE o \in Stored /\ p \in Stored
      BY <1>1, <2>3, <2>5, <3>1, <3>6 DEF OneActivePerTarget
    <3> QED
      BY <3>2, <3>3, <3>4, <3>5, <3>6
  <2>8. ReadCovers'
    <3>1. ASSUME NEW x \in Scorer
          PROVE  scorer'[x] = Absent \/ scorer'[x].alone = FALSE
      <4>1. scorer'[x] = IF x = s \/ scorer[x] = Absent THEN Absent
                         ELSE [scorer[x] EXCEPT !.alone = FALSE]
        BY <1>2 DEF ScoreCommit
      <4>2. CASE x # s /\ scorer[x] # Absent
        <5>1. scorer[x] \in ScoreRun
          BY <1>0, <4>2
        <5> QED
          BY <4>1, <4>2, <5>1 DEF ScoreRun
      <4> QED
        BY <4>1, <4>2
    <3> QED
      BY <3>1 DEF ReadCovers
  <2> QED
    BY <2>7, <2>8
<1>3. CASE ~\E s \in Scorer : ScoreCommit(s)
  <2>1. Stored' = Stored
    BY <1>3, EvolveStep
  <2>2. OneActivePerTarget'
    BY <1>0, <1>1, <2>1, ActiveKept
  <2>3. ASSUME NEW x \in Scorer, scorer'[x] # Absent, scorer'[x].alone, scorer'[x] = scorer[x],
               NEW o \in Active'
        PROVE  opp'[o].target \in muddled'
               \/ \E k \in scorer'[x].kept : opp'[k].target = opp'[o].target
    <3>1. o \in Stored
      BY <2>1, <2>3 DEF Active
    <3>2. /\ opp'[o].target = opp[o].target /\ muddled \subseteq muddled'
          /\ o \in Active \/ opp[o].target \in muddled'
          /\ \A k \in scorer[x].kept : opp'[k].target = opp[k].target
      BY <1>0, <2>3, <3>1 DEF Evolves
    <3> QED
      BY <1>1, <2>3, <3>2 DEF ReadCovers
  <2>4. ASSUME NEW s \in Scorer, NEW listed \in SUBSET Target, ScoreBegin(s, listed)
        PROVE  ReadCovers'
    <3>1. PICK kept \in SUBSET Active :
            /\ NewestOfEach(kept, Active)
            /\ scorer'[s].kept = kept
            /\ \A x \in Scorer : x # s => scorer'[x] = scorer[x]
            /\ UNCHANGED <<opp, muddled>>
      <4>1. {o \in Stored : opp[o].status \in ActiveStatus} = Active
        BY DEF Active, ActiveStatus
      <4>2. PICK kept \in SUBSET Active, extra \in SUBSET Opp :
              /\ NewestOfEach(kept, Active)
              /\ scorer' = [scorer EXCEPT ![s] = [listed |-> listed, kept |-> kept,
                               stamp |-> runs + 1, alone |-> TRUE, extra |-> extra]]
        <5>1. PICK kept \in SUBSET Active :
                /\ NewestOfEach(kept, Active)
                /\ scorer' = [scorer EXCEPT ![s] = [listed |-> listed, kept |-> kept,
                      stamp |-> runs + 1, alone |-> TRUE,
                      extra |-> {o \in Active \ kept : opp[o].status = "open"}]]
          BY <2>4, <4>1 DEF ScoreBegin
        <5>2. {o \in Active \ kept : opp[o].status = "open"} \in SUBSET Opp
          BY DEF Active, Stored
        <5> QED
          BY <5>1, <5>2
      <4> QED
        BY <1>0, <2>4, <4>2 DEF ScoreBegin
    <3>2. Active' = Active
      BY <3>1 DEF Active, Stored
    <3>3. \A o \in Active : \E k \in kept : opp[k].target = opp[o].target
      BY <1>1, <3>1 DEF NewestOfEach, SameKey
    <3> QED
      BY <2>3, <3>1, <3>2, <3>3 DEF ReadCovers
  <2>5. CASE \/ \E s \in Scorer : ScoreFails(s)
             \/ \E o \in Opp, to \in OppStatus : UpdateStatus(o, to)
             \/ \E d \in Desk, i \in Initiative, o \in Opp : InitiativeBegin(d, i, o)
             \/ \E d \in Desk, i \in Initiative, to \in DOMAIN NextStatus : MoveBegin(d, i, to)
             \/ \E d \in Desk : InitiativeCommit(d) \/ MoveCommit(d)
             \/ UNCHANGED oppVars
    <3>1. \A x \in Scorer : scorer'[x] = Absent \/ scorer'[x] = scorer[x]
      BY <1>0, <2>5 DEF ScoreFails, UpdateStatus, InitiativeBegin, MoveBegin, Sit,
        InitiativeCommit, MoveCommit, Leave, oppVars
    <3>2. SUFFICES ASSUME NEW x \in Scorer, scorer'[x] # Absent, scorer'[x].alone,
                          NEW o \in Active'
                   PROVE  opp'[o].target \in muddled'
                          \/ \E k \in scorer'[x].kept : opp'[k].target = opp'[o].target
      BY <2>2 DEF ReadCovers
    <3>3. scorer'[x] = scorer[x]
      BY <3>1, <3>2
    <3> QED
      BY <2>3, <3>2, <3>3
  <2> QED
    BY <1>3, <2>2, <2>4, <2>5 DEF OppsNext
<1> QED
  BY <1>2, <1>3

\* However often an account is scored, however many runs overlap and whatever people
\* do in between, a target has one active opportunity, with the named exceptions.
THEOREM OneActiveRow == OppsSpec => []OneActivePerTarget
<1>1. OppsInit => ActiveInv
  BY DEF OppsInit, ActiveInv, OneActivePerTarget, ReadCovers, Active, Stored
<1>2. Typed /\ ActiveInv /\ [OppsNext]_oppVars => ActiveInv'
  BY ActiveStep
<1>3. ActiveInv => OneActivePerTarget
  BY DEF ActiveInv, OneActivePerTarget
<1> QED
  BY <1>1, <1>2, <1>3, OppsTypeCorrect, PTL DEF OppsSpec

=============================================================================
