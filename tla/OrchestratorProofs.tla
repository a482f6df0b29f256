--------------------------- MODULE OrchestratorProofs ---------------------------
(***************************************************************************)
(* What the background work of the orchestrator keeps to, whatever it is   *)
(* crossed by: the learning jobs miss no row without a cause and log none  *)
(* again and again, the cleanup orphans no object, and the Gemini keys are *)
(* handed out in turn.                                                     *)
(***************************************************************************)
EXTENDS LearningJobs, AttachmentCleanup, GeminiPool, FiniteSetTheorems, WellFoundedInduction,
        TLAPS

-----------------------------------------------------------------------------
(* Learning jobs: the invariant *)

Says == {"nothing", "positive", "neutral", "negative", "changed", "same", "up", "down"}

Row == [row : Items, at : Nat, says : Says, unlogged : BOOLEAN]
Write == [row : Items, at : Nat, says : Says, crossed : SUBSET Instances]

LearningTypeOK ==
    /\ now \in Nat
    /\ writes \subseteq Write
    /\ item \in [Items -> [at : Nat, says : Says, crossed : SUBSET Instances]]
    /\ due \in [Instances -> Nat] /\ last \in [Instances -> Nat]
    /\ batch \in [Instances -> [Jobs -> SUBSET Row]]
    /\ lines \in [Ratings -> Nat]

\* The rows of a run are those of its table, and each is there once.
RowsKnown == \A p \in Instances, j \in Jobs : \A r \in batch[p][j] : r.row \in j
RowsOnce == \A p \in Instances, j \in Jobs : \A r, s \in batch[p][j] :
    r.row = s.row => r = s
BatchesTrue == RowsKnown /\ RowsOnce

Unbroken == Instances \ (restarted \cup hurt)

\* A run has started or was skipped by the end of its grace, and the next of a process
\* that skipped none is due within an interval of the last.
OnTime ==
    /\ \A p \in Instances : now <= due[p] + Grace
    /\ \A p \in Unbroken : due[p] <= last[p] + Period

\* The latest start of the next run of p is within the lookback for a row stamped then.
InReach(p, at) == due[p] + Grace <= at + Period

\* A run of p has fetched row i as it is now.
Fetched(p, i) == \E j \in Jobs : \E r \in batch[p][j] :
    r.row = i /\ r.at = item[i].at /\ r.says = item[i].says

\* What can be seen, was not crossed by p and no run has gone through yet is left to the
\* next run of p, or is in this one.
LeftTo(p, i) ==
    item[i].says = "nothing" \/ p \in item[i].crossed \/ InReach(p, item[i].at) \/ Fetched(p, i)

NoneLeftOut == \A p \in Unbroken : \A i \in Items \ settled : LeftTo(p, i)

\* What cannot be seen yet is left to the next run of p, or is crossed.
PendingInReach == \A p \in Unbroken : \A w \in writes : p \in w.crossed \/ InReach(p, w.at)

\* p is about to append a line about rating i.
AboutToLog(p, i) == \E r \in batch[p][Ratings] : r.row = i /\ r.unlogged = TRUE

\* Each line about a rating has its process, which will not append another.
LinesHaveOwners == \A i \in Ratings : \E W \in SUBSET Instances :
    /\ lines[i] = Cardinality(W)
    /\ \A p \in W : ~AboutToLog(p, i)

RowsAccounted == NoneLeftOut /\ PendingInReach

LearningInv == LearningTypeOK /\ BatchesTrue /\ OnTime /\ RowsAccounted /\ LinesHaveOwners

-----------------------------------------------------------------------------
(* Learning jobs: the steps *)

\* The rows of a job are rows of one of the three tables, and what a row can say is text.
LEMMA TablesOf ==
    /\ Ratings \in Jobs /\ Edits \in Jobs /\ Overrides \in Jobs
    /\ \A j \in Jobs : j \subseteq Items
    /\ \A i \in Items : (\E j \in Jobs : i \in j) /\ Content(i) \subseteq Says
<1>1. ASSUME NEW i \in Items PROVE Content(i) \subseteq Says
  BY DEF Items, Content, Says
<1> QED
  BY <1>1 DEF Jobs, Items

\* A row that is stamped and not crossed is in reach of the next run.
LEMMA StampStep ==
    ASSUME LearningInv, NEW k \in Items, Stamp(k)
    PROVE  LearningInv'
<1> USE DEF LearningInv
<1> DEFINE Late == {p \in Instances : last[p] > now - Grace}
<1>1. PICK c \in Says :
          writes' = writes \cup {[row |-> k, at |-> now, says |-> c, crossed |-> Late]}
  BY TablesOf DEF Stamp
<1>2. UNCHANGED <<now, item, due, last, batch, lines, settled, restarted, hurt>>
  BY DEF Stamp
<1>3. LearningTypeOK'
  <2>1. [row |-> k, at |-> now, says |-> c, crossed |-> Late] \in Write
    BY DEF Write, LearningTypeOK
  <2> QED
    BY <1>1, <1>2, <2>1 DEF LearningTypeOK
<1>4. BatchesTrue' /\ OnTime' /\ LinesHaveOwners'
  BY <1>2 DEF BatchesTrue, RowsKnown, RowsOnce, OnTime, Unbroken, LinesHaveOwners, AboutToLog
<1>5. NoneLeftOut'
  BY <1>2 DEF RowsAccounted, NoneLeftOut, Unbroken, LeftTo, InReach, Fetched
<1>6. PendingInReach'
  <2> SUFFICES ASSUME NEW p \in Unbroken, NEW w \in writes'
               PROVE  p \in w.crossed \/ InReach(p, w.at)
    BY <1>2 DEF PendingInReach, Unbroken, InReach
  <2>1. CASE w \in writes
    BY <2>1 DEF RowsAccounted, PendingInReach
  <2>2. CASE w.at = now /\ w.crossed = Late
    <3>1. p \in Instances /\ due[p] \in Nat /\ last[p] \in Nat /\ now \in Nat
      BY DEF Unbroken, LearningTypeOK
    <3>2. due[p] <= last[p] + Period
      BY DEF OnTime
    <3>3. CASE last[p] > now - Grace
      BY <2>2, <3>1, <3>3
    <3>4. CASE ~(last[p] > now - Grace)
      BY <2>2, <3>1, <3>2, <3>4, LearningAssumption DEF InReach
    <3> QED
      BY <3>3, <3>4
  <2> QED
    BY <1>1, <2>1, <2>2
<1> QED
  BY <1>3, <1>4, <1>5, <1>6 DEF RowsAccounted

\* A write that can be seen is left to the runs it was left to before.
LEMMA CommitStep ==
    ASSUME LearningInv, NEW w \in writes, Commit(w)
    PROVE  LearningInv'
<1> USE DEF LearningInv
<1>1. w \in Write
  BY DEF LearningTypeOK
<1>2. /\ item' = [item EXCEPT ![w.row] = [at |-> w.at, says |-> w.says, crossed |-> w.crossed]]
      /\ writes' = writes \ {w} /\ settled' = settled \ {w.row}
      /\ UNCHANGED <<now, due, last, batch, lines, restarted, hurt>>
  BY DEF Commit
<1>3. LearningTypeOK'
  BY <1>1, <1>2 DEF LearningTypeOK, Write
<1>4. BatchesTrue' /\ OnTime' /\ LinesHaveOwners'
  BY <1>2 DEF BatchesTrue, RowsKnown, RowsOnce, OnTime, Unbroken, LinesHaveOwners, AboutToLog
<1>5. NoneLeftOut'
  <2> SUFFICES ASSUME NEW p \in Unbroken, NEW i \in Items \ settled' PROVE LeftTo(p, i)'
    BY <1>2 DEF NoneLeftOut, Unbroken
  <2>1. CASE i = w.row
    <3>1. item'[i].at = w.at /\ item'[i].crossed = w.crossed
      BY <1>1, <1>2, <2>1 DEF LearningTypeOK
    <3>2. p \in w.crossed \/ InReach(p, w.at)
      BY DEF RowsAccounted, PendingInReach
    <3> QED
      BY <1>2, <3>1, <3>2 DEF LeftTo, InReach
  <2>2. CASE i # w.row
    <3>1. i \in Items \ settled /\ item'[i] = item[i]
      BY <1>2, <2>2 DEF LearningTypeOK
    <3>2. LeftTo(p, i)
      BY <3>1 DEF RowsAccounted, NoneLeftOut
    <3> QED
      BY <1>2, <3>1, <3>2 DEF LeftTo, InReach, Fetched
  <2> QED
    BY <2>1, <2>2
<1>6. PendingInReach'
  BY <1>2 DEF RowsAccounted, PendingInReach, Unbroken, InReach
<1> QED
  BY <1>3, <1>4, <1>5, <1>6 DEF RowsAccounted

\* Time does not pass the grace of a run.
LEMMA TimeStep ==
    ASSUME LearningInv, TimePasses
    PROVE  LearningInv'
<1> USE DEF LearningInv
<1>1. /\ now' = now + 1 /\ \A p \in Instances : now < due[p] + Grace
      /\ UNCHANGED <<writes, item, due, last, batch, lines, settled, restarted, hurt>>
  BY DEF TimePasses
<1>2. LearningTypeOK' /\ OnTime'
  BY <1>1, LearningAssumption DEF LearningTypeOK, OnTime, Unbroken
<1>3. BatchesTrue' /\ LinesHaveOwners'
  BY <1>1 DEF BatchesTrue, RowsKnown, RowsOnce, LinesHaveOwners, AboutToLog
<1>4. RowsAccounted'
  BY <1>1 DEF RowsAccounted, NoneLeftOut, PendingInReach, Unbroken, LeftTo, InReach, Fetched
<1> QED
  BY <1>2, <1>3, <1>4

\* The runs of a process start with the rows of the last interval: those that were left to
\* them are among them, unless one fails to fetch its rows.
LEMMA StartStep ==
    ASSUME LearningInv, NEW p \in Instances, NEW failing \in SUBSET Jobs, Start(p, failing),
           hurt \subseteq hurt', failing = {} \/ p \in hurt'
    PROVE  LearningInv'
<1> USE DEF LearningInv
<1> DEFINE New(j) == IF j \in failing THEN {} ELSE {RowOf(i) : i \in {k \in j : InLookback(k)}}
<1>1. /\ due[p] <= now /\ ~Busy(p)
      /\ due' = [due EXCEPT ![p] = due[p] + Period] /\ last' = [last EXCEPT ![p] = now]
      /\ batch' = [batch EXCEPT ![p] = [j \in Jobs |-> New(j)]]
      /\ writes' = {[w EXCEPT !.crossed = @ \cup {p}] : w \in writes}
      /\ UNCHANGED <<now, item, lines, settled, restarted>>
  BY DEF Start, LearningTypeOK
<1>2. ASSUME NEW j \in Jobs, NEW r \in New(j)
      PROVE  \E i \in j : InLookback(i) /\ r = RowOf(i)
  OBVIOUS
<1> HIDE DEF New
<1>3. ASSUME NEW i \in Items, InLookback(i)
      PROVE  RowOf(i) \in Row /\ RowOf(i).row = i /\ RowOf(i).unlogged # TRUE
  BY <1>3 DEF RowOf, InLookback, Row, LearningTypeOK
<1>4. \A j \in Jobs : \A r \in New(j) : r \in Row /\ r.row \in j
  BY <1>2, <1>3, TablesOf
<1>5. \A j \in Jobs : \A r \in New(j) : r.unlogged # TRUE
  BY <1>2, <1>3, TablesOf
<1>6. ASSUME NEW j \in Jobs, NEW r \in New(j), NEW s \in New(j), r.row = s.row
      PROVE  r = s
  <2>1. PICK i \in Items : InLookback(i) /\ r = RowOf(i)
    BY <1>2, TablesOf
  <2>2. PICK k \in Items : InLookback(k) /\ s = RowOf(k)
    BY <1>2, TablesOf
  <2>3. i = k
    BY <1>3, <1>6, <2>1, <2>2
  <2> QED
    BY <2>1, <2>2, <2>3
<1>7. /\ \A q \in Instances \ {p} :
            batch'[q] = batch[q] /\ due'[q] = due[q] /\ last'[q] = last[q]
      /\ \A j \in Jobs : batch'[p][j] = New(j)
      /\ due'[p] = due[p] + Period /\ last'[p] = now
  BY <1>1 DEF LearningTypeOK
<1>8. ASSUME NEW v \in writes'
      PROVE  \E w \in writes : v \in Write /\ v.at = w.at /\ v.crossed = w.crossed \cup {p}
  <2>1. PICK w \in writes : v = [w EXCEPT !.crossed = @ \cup {p}]
    BY <1>1
  <2>2. w \in Write
    BY DEF LearningTypeOK
  <2> QED
    BY <2>1, <2>2 DEF Write
<1>9. LearningTypeOK'
  <2>1. [j \in Jobs |-> New(j)] \in [Jobs -> SUBSET Row]
    BY <1>4
  <2>2. writes' \subseteq Write
    BY <1>8
  <2>3. due' \in [Instances -> Nat] /\ last' \in [Instances -> Nat]
    BY <1>1, LearningAssumption DEF LearningTypeOK
  <2> QED
    BY <1>1, <2>1, <2>2, <2>3 DEF LearningTypeOK
<1>10. BatchesTrue'
  <2>1. RowsKnown'
    BY <1>7, <1>4 DEF BatchesTrue, RowsKnown
  <2>2. RowsOnce'
    BY <1>7, <1>6 DEF BatchesTrue, RowsOnce
  <2> QED
    BY <2>1, <2>2 DEF BatchesTrue
<1>11. OnTime'
  <2>1. /\ now \in Nat /\ Period \in Nat /\ Grace \in Nat
        /\ \A q \in Instances : due[q] \in Nat /\ last[q] \in Nat
    BY LearningAssumption DEF LearningTypeOK
  <2>2. \A q \in Instances : now <= due'[q] + Grace
    BY <1>7, <2>1 DEF OnTime
  <2>3. \A q \in Unbroken' : due'[q] <= last'[q] + Period
    BY <1>1, <1>7, <2>1 DEF OnTime, Unbroken
  <2> QED
    BY <1>1, <2>2, <2>3 DEF OnTime
<1>12. NoneLeftOut'
  <2> SUFFICES ASSUME NEW q \in Unbroken', NEW i \in Items \ settled PROVE LeftTo(q, i)'
    BY <1>1 DEF NoneLeftOut
  <2>1. q \in Unbroken /\ LeftTo(q, i)
    BY <1>1 DEF RowsAccounted, NoneLeftOut, Unbroken
  <2>2. CASE q # p
    <3>1. due'[q] = due[q] /\ batch'[q] = batch[q]
      BY <1>7, <2>1, <2>2 DEF Unbroken
    <3> QED
      BY <1>1, <2>1, <3>1 DEF LeftTo, InReach, Fetched
  <2>3. CASE q = p
    <3> SUFFICES ASSUME item[i].says # "nothing", p \notin item[i].crossed PROVE Fetched(p, i)'
      BY <1>1, <2>3 DEF LeftTo
    <3>1. failing = {}
      BY <2>3 DEF Unbroken
    <3>2. ~Fetched(p, i)
      BY <1>1 DEF Fetched, Busy
    <3>3. due[p] + Grace <= item[i].at + Period
      BY <2>1, <2>3, <3>2 DEF LeftTo, InReach
    <3>4. item[i].at >= now - Period
      BY <3>3, LearningAssumption DEF OnTime, LearningTypeOK
    <3>5. PICK j \in Jobs : i \in j
      BY TablesOf
    <3>6. RowOf(i) \in batch'[p][j]
      BY <1>7, <3>1, <3>4, <3>5 DEF InLookback, New
    <3> QED
      BY <1>1, <3>5, <3>6 DEF Fetched, RowOf
  <2> QED
    BY <2>2, <2>3
<1>13. PendingInReach'
  <2> SUFFICES ASSUME NEW q \in Unbroken', NEW v \in writes'
               PROVE  q \in v.crossed \/ InReach(q, v.at)'
    BY DEF PendingInReach, InReach
  <2>1. PICK w \in writes : v.at = w.at /\ v.crossed = w.crossed \cup {p}
    BY <1>8
  <2>2. q \in Unbroken /\ (q \in w.crossed \/ InReach(q, w.at))
    BY <1>1 DEF RowsAccounted, PendingInReach, Unbroken
  <2> QED
    BY <1>7, <2>1, <2>2 DEF InReach, Unbroken
<1>14. LinesHaveOwners'
  <2>1. ASSUME NEW q \in Instances, NEW i \in Ratings, AboutToLog(q, i)'
        PROVE  AboutToLog(q, i)
    <3>1. PICK r \in batch'[q][Ratings] : r.row = i /\ r.unlogged = TRUE
      BY <2>1 DEF AboutToLog
    <3>2. q # p
      <4> SUFFICES ASSUME q = p PROVE FALSE
        OBVIOUS
      <4>1. r \in New(Ratings)
        BY <1>7, <3>1, TablesOf
      <4> QED
        BY <1>5, <3>1, <4>1, TablesOf
    <3> QED
      BY <1>7, <3>1, <3>2, TablesOf DEF AboutToLog
  <2> QED
    BY <1>1, <2>1 DEF LinesHaveOwners
<1> QED
  BY <1>9, <1>10, <1>11, <1>12, <1>13, <1>14 DEF RowsAccounted

\* A process whose run is cut short, skipped, or skips a row, no longer counts as unbroken,
\* and has no more rows to go through than before.
LEMMA BrokenStep ==
    ASSUME LearningInv, NEW p \in Instances,
           Restart(p) \/ Skip(p) \/ \E j \in Jobs : RowFails(p, j)
    PROVE  LearningInv'
<1> USE DEF LearningInv
<1>1. /\ p \in restarted' \cup hurt' /\ restarted \subseteq restarted' /\ hurt \subseteq hurt'
      /\ UNCHANGED <<now, writes, item, lines, settled>>
      /\ \A q \in Instances \ {p} :
            batch'[q] = batch[q] /\ due'[q] = due[q] /\ last'[q] = last[q]
      /\ \A q \in Instances, j \in Jobs : batch'[q][j] \subseteq batch[q][j]
      /\ due'[p] \in {due[p], now + Period, due[p] + Period}
      /\ due' \in [Instances -> Nat] /\ last' \in [Instances -> Nat]
  <2>1. CASE Restart(p)
    BY <2>1, LearningAssumption DEF Restart, LearningTypeOK
  <2>2. CASE \E j \in Jobs : RowFails(p, j)
    BY <2>2 DEF RowFails, LearningTypeOK
  <2>3. CASE Skip(p)
    BY <2>3, LearningAssumption DEF Skip, LearningTypeOK
  <2> QED
    BY <2>1, <2>2, <2>3
<1>2. LearningTypeOK'
  <2>1. CASE Restart(p)
    BY <1>1, <2>1 DEF Restart, LearningTypeOK
  <2>2. ASSUME NEW j \in Jobs, RowFails(p, j) PROVE LearningTypeOK'
    <3>1. PICK r \in batch[p][j] : batch' = [batch EXCEPT ![p][j] = batch[p][j] \ {r}]
      BY <2>2 DEF RowFails, LearningTypeOK
    <3> QED
      BY <1>1, <3>1 DEF LearningTypeOK
  <2>3. CASE Skip(p)
    BY <1>1, <2>3 DEF Skip, LearningTypeOK
  <2> QED
    BY <2>1, <2>2, <2>3
<1>3. BatchesTrue'
  BY <1>1 DEF BatchesTrue, RowsKnown, RowsOnce
<1>4. OnTime'
  <2>1. now \in Nat /\ \A q \in Instances : due[q] \in Nat /\ due'[q] \in Nat
    BY <1>1 DEF LearningTypeOK
  <2>2. \A q \in Instances : now <= due'[q] + Grace
    BY <1>1, <2>1, LearningAssumption DEF OnTime
  <2>3. \A q \in Unbroken' : q \in Unbroken /\ q # p
    BY <1>1 DEF Unbroken
  <2>4. \A q \in Unbroken' : due'[q] = due[q] /\ last'[q] = last[q]
    BY <1>1, <2>3 DEF Unbroken
  <2> QED
    BY <1>1, <2>2, <2>3, <2>4 DEF OnTime
<1>5. RowsAccounted'
  <2>1. \A q \in Unbroken' : q \in Unbroken /\ due'[q] = due[q] /\ batch'[q] = batch[q]
    BY <1>1 DEF Unbroken
  <2> QED
    BY <1>1, <2>1 DEF RowsAccounted, NoneLeftOut, PendingInReach, LeftTo, InReach, Fetched
<1>6. LinesHaveOwners'
  <2>1. \A q \in Instances, i \in Ratings : AboutToLog(q, i)' => AboutToLog(q, i)
    BY <1>1, TablesOf DEF AboutToLog
  <2> QED
    BY <1>1, <2>1 DEF LinesHaveOwners
<1> QED
  BY <1>2, <1>3, <1>4, <1>5, <1>6

\* A row that a run is done with is settled, or has been written since it was fetched.
LEMMA SettleStep ==
    ASSUME LearningInv, NEW p \in Instances, NEW j \in Jobs, NEW r \in batch[p][j],
           Settle(p, j, r)
    PROVE  /\ BatchesTrue' /\ OnTime' /\ RowsAccounted'
           /\ UNCHANGED <<now, writes, item, due, last>>
           /\ batch' \in [Instances -> [Jobs -> SUBSET Row]]
           /\ batch'[p][j] = batch[p][j] \ {r}
           /\ \A q \in Instances, k \in Jobs : q # p \/ k # j => batch'[q][k] = batch[q][k]
<1> USE DEF LearningInv
<1>1. /\ batch' = [batch EXCEPT ![p][j] = batch[p][j] \ {r}]
      /\ settled' = IF item[r.row].at = r.at /\ item[r.row].says = r.says
                    THEN settled \cup {r.row} ELSE settled
      /\ UNCHANGED <<now, writes, item, due, last, restarted, hurt>>
  BY DEF Settle, LearningTypeOK
<1>2. /\ batch'[p][j] = batch[p][j] \ {r}
      /\ \A q \in Instances, k \in Jobs : q # p \/ k # j => batch'[q][k] = batch[q][k]
      /\ batch' \in [Instances -> [Jobs -> SUBSET Row]]
  BY <1>1 DEF LearningTypeOK
<1>3. \A q \in Instances, k \in Jobs : batch'[q][k] \subseteq batch[q][k]
  BY <1>2
<1>4. BatchesTrue' /\ OnTime' /\ PendingInReach'
  BY <1>1, <1>3
     DEF BatchesTrue, RowsKnown, RowsOnce, OnTime, RowsAccounted, PendingInReach, Unbroken, InReach
<1>5. NoneLeftOut'
  <2> SUFFICES ASSUME NEW q \in Unbroken, NEW i \in Items \ settled', Fetched(q, i)
               PROVE  Fetched(q, i)'
    BY <1>1 DEF RowsAccounted, NoneLeftOut, Unbroken, LeftTo, InReach
  <2>1. PICK k \in Jobs : \E s \in batch[q][k] :
            s.row = i /\ s.at = item[i].at /\ s.says = item[i].says
    BY DEF Fetched
  <2>2. PICK s \in batch[q][k] : s.row = i /\ s.at = item[i].at /\ s.says = item[i].says
    BY <2>1
  <2>3. s # r
    BY <1>1, <2>2
  <2>4. s \in batch'[q][k]
    BY <1>2, <2>3 DEF Unbroken
  <2> QED
    BY <1>1, <2>2, <2>4 DEF Fetched
<1> QED
  BY <1>1, <1>2, <1>4, <1>5 DEF RowsAccounted

\* The owners of the lines stay who they are in a step that appends none and at most
\* decides to log a rating that the file does not have.
LEMMA OwnersStay ==
    ASSUME LearningInv, UNCHANGED lines,
           \A q \in Instances, i \in Ratings :
               AboutToLog(q, i)' => AboutToLog(q, i) \/ lines[i] = 0
    PROVE  LinesHaveOwners'
<1> SUFFICES ASSUME NEW i \in Ratings
             PROVE  \E W \in SUBSET Instances : lines[i] = Cardinality(W)
                                                /\ \A p \in W : ~AboutToLog(p, i)'
  BY DEF LinesHaveOwners
<1>1. PICK W \in SUBSET Instances : lines[i] = Cardinality(W) /\ \A p \in W : ~AboutToLog(p, i)
  BY DEF LearningInv, LinesHaveOwners
<1>2. CASE lines[i] = 0
  <2>1. W = {}
    BY <1>1, <1>2, FS_EmptySet, FS_Subset, LearningAssumption
  <2> QED
    BY <1>1, <2>1
<1>3. CASE lines[i] # 0
  BY <1>1, <1>3
<1> QED
  BY <1>2, <1>3

\* A run of the edits' or the overrides' job goes through a row.
LEMMA LearnStep ==
    ASSUME LearningInv, NEW p \in Instances,
           \/ \E r \in batch[p][Edits] : SyncEdit(p, r)
           \/ \E r \in batch[p][Overrides] : SyncOverride(p, r)
    PROVE  LearningInv'
<1>1. PICK j \in Jobs : \E r \in batch[p][j] : Settle(p, j, r) /\ UNCHANGED lines
  BY TablesOf DEF SyncEdit, SyncOverride
<1>2. PICK r \in batch[p][j] : Settle(p, j, r) /\ UNCHANGED lines
  BY <1>1
<1>3. /\ BatchesTrue' /\ OnTime' /\ RowsAccounted' /\ LearningTypeOK'
      /\ \A q \in Instances, k \in Jobs : batch'[q][k] \subseteq batch[q][k]
  BY <1>2, SettleStep DEF LearningInv, LearningTypeOK
<1>4. LinesHaveOwners'
  <2>1. \A q \in Instances, i \in Ratings : AboutToLog(q, i)' => AboutToLog(q, i)
    BY <1>3, TablesOf DEF AboutToLog
  <2> QED
    BY <1>2, <2>1, OwnersStay
<1> QED
  BY <1>3, <1>4 DEF LearningInv

\* A run of the ratings' job goes through a rating, or finds it missing in the file.
LEMMA FeedbackStep ==
    ASSUME LearningInv, NEW p \in Instances, NEW r \in batch[p][Ratings], SyncFeedback(p, r)
    PROVE  LearningInv'
<1> USE TablesOf DEF LearningInv
<1>1. CASE Settle(p, Ratings, r) /\ UNCHANGED lines
  <2>0. /\ BatchesTrue' /\ OnTime' /\ RowsAccounted'
        /\ UNCHANGED <<now, writes, item, due, last>>
        /\ batch' \in [Instances -> [Jobs -> SUBSET Row]]
        /\ batch'[p][Ratings] = batch[p][Ratings] \ {r}
        /\ \A q \in Instances, k \in Jobs : q # p \/ k # Ratings => batch'[q][k] = batch[q][k]
    BY <1>1, SettleStep
  <2>1. LearningTypeOK' /\ \A q \in Instances, k \in Jobs : batch'[q][k] \subseteq batch[q][k]
    BY <1>1, <2>0 DEF LearningTypeOK
  <2>2. \A q \in Instances, i \in Ratings : AboutToLog(q, i)' => AboutToLog(q, i)
    BY <2>1 DEF AboutToLog
  <2> QED
    BY <1>1, <2>0, <2>1, <2>2, OwnersStay
<1>2. CASE /\ lines[r.row] = 0
           /\ batch' = [batch EXCEPT ![p][Ratings] = (@ \ {r}) \cup {[r EXCEPT !.unlogged = TRUE]}]
           /\ UNCHANGED <<now, writes, item, due, last, pool, lines, settled, touches,
                          disturbances, restarted, hurt>>
  <2>1. PICK u \in Row : /\ u = [r EXCEPT !.unlogged = TRUE]
                         /\ u.row = r.row /\ u.at = r.at /\ u.says = r.says
    <3>1. r \in Row
      BY DEF LearningTypeOK
    <3>2. [r EXCEPT !.unlogged = TRUE] \in Row
      BY <3>1 DEF Row
    <3> QED
      BY <3>1, <3>2 DEF Row
  <2>2. /\ batch'[p][Ratings] = (batch[p][Ratings] \ {r}) \cup {u}
        /\ \A q \in Instances, k \in Jobs : q # p \/ k # Ratings => batch'[q][k] = batch[q][k]
        /\ batch' \in [Instances -> [Jobs -> SUBSET Row]]
    BY <1>2, <2>1 DEF LearningTypeOK
  <2>3. LearningTypeOK' /\ OnTime'
    BY <1>2, <2>2 DEF LearningTypeOK, OnTime, Unbroken
  <2>4. BatchesTrue'
    <3>1. RowsKnown'
      <4>1. \A q \in Instances, k \in Jobs : \A s \in batch'[q][k] :
                \E o \in batch[q][k] : o.row = s.row
        BY <2>1, <2>2
      <4> QED
        BY <1>2, <4>1 DEF BatchesTrue, RowsKnown
    <3>2. RowsOnce'
      <4> SUFFICES ASSUME NEW q \in Instances, NEW k \in Jobs, NEW s \in batch'[q][k],
                          NEW o \in batch'[q][k], s.row = o.row
                   PROVE  s = o
        BY DEF RowsOnce
      <4>1. \A d \in batch[q][k], e \in batch[q][k] : d.row = e.row => d = e
        BY DEF BatchesTrue, RowsOnce
      <4>2. CASE q = p /\ k = Ratings
        <5>1. \A d \in batch[q][k] : d.row = u.row => d = r
          BY <2>1, <4>1, <4>2
        <5>2. /\ s = u \/ (s \in batch[q][k] /\ s # r)
              /\ o = u \/ (o \in batch[q][k] /\ o # r)
          BY <2>2, <4>2
        <5> QED
          BY <4>1, <5>1, <5>2
      <4>3. CASE q # p \/ k # Ratings
        BY <2>2, <4>1, <4>3
      <4> QED
        BY <4>2, <4>3
    <3> QED
      BY <3>1, <3>2 DEF BatchesTrue, RowsKnown, RowsOnce
  <2>5. RowsAccounted'
    <3> SUFFICES ASSUME NEW q \in Instances, NEW i \in Items, Fetched(q, i)
                 PROVE  Fetched(q, i)'
      BY <1>2 DEF RowsAccounted, NoneLeftOut, PendingInReach, Unbroken, LeftTo, InReach
    <3>1. PICK k \in Jobs : \E s \in batch[q][k] :
              s.row = i /\ s.at = item[i].at /\ s.says = item[i].says
      BY DEF Fetched
    <3>2. PICK s \in batch[q][k] : s.row = i /\ s.at = item[i].at /\ s.says = item[i].says
      BY <3>1
    <3>3. s \in batch'[q][k] \/ (s = r /\ u \in batch'[q][k])
      BY <2>2
    <3> QED
      BY <1>2, <2>1, <3>2, <3>3 DEF Fetched
  <2>6. \A q \in Instances, i \in Ratings :
            AboutToLog(q, i)' => AboutToLog(q, i) \/ lines[i] = 0
    BY <1>2, <2>1, <2>2 DEF AboutToLog
  <2> QED
    BY <1>2, <2>3, <2>4, <2>5, <2>6, OwnersStay
<1>3. CASE /\ r.unlogged
           /\ lines' = [lines EXCEPT ![r.row] = @ + 1]
           /\ Settle(p, Ratings, r)
  <2>1. /\ BatchesTrue' /\ OnTime' /\ RowsAccounted'
        /\ UNCHANGED <<now, writes, item, due, last>>
        /\ batch' \in [Instances -> [Jobs -> SUBSET Row]]
        /\ batch'[p][Ratings] = batch[p][Ratings] \ {r}
        /\ \A q \in Instances, k \in Jobs : q # p \/ k # Ratings => batch'[q][k] = batch[q][k]
    BY <1>3, SettleStep
  <2>2. r.row \in Ratings
    BY DEF BatchesTrue, RowsKnown, RowsOnce
  <2>3. LearningTypeOK'
    BY <1>3, <2>1, <2>2 DEF LearningTypeOK
  <2>4. AboutToLog(p, r.row) /\ ~AboutToLog(p, r.row)'
    <3>1. r \in Row /\ r.unlogged = TRUE
      BY <1>3 DEF LearningTypeOK, Row
    <3> QED
      BY <2>1, <3>1 DEF AboutToLog, BatchesTrue, RowsKnown, RowsOnce
  <2>5. \A q \in Instances, i \in Ratings : AboutToLog(q, i)' => AboutToLog(q, i)
    BY <2>1 DEF AboutToLog
  <2>6. LinesHaveOwners'
    <3> SUFFICES ASSUME NEW i \in Ratings
                 PROVE  \E W \in SUBSET Instances : lines'[i] = Cardinality(W)
                                                    /\ \A q \in W : ~AboutToLog(q, i)'
      BY DEF LinesHaveOwners
    <3>1. PICK W \in SUBSET Instances :
              lines[i] = Cardinality(W) /\ \A q \in W : ~AboutToLog(q, i)
      BY DEF LinesHaveOwners
    <3>2. CASE i # r.row
      BY <1>3, <2>5, <3>1, <3>2 DEF LearningTypeOK
    <3>3. CASE i = r.row
      <4>1. p \notin W /\ IsFiniteSet(W)
        BY <2>4, <3>1, <3>3, FS_Subset, LearningAssumption
      <4>2. Cardinality(W \cup {p}) = Cardinality(W) + 1
        BY <4>1, FS_AddElement
      <4>3. lines'[i] = lines[i] + 1
        BY <1>3, <2>2, <3>3 DEF LearningTypeOK
      <4>4. \A q \in W \cup {p} : ~AboutToLog(q, i)'
        BY <2>4, <2>5, <3>1, <3>3
      <4> QED
        BY <3>1, <4>2, <4>3, <4>4
    <3> QED
      BY <3>2, <3>3
  <2> QED
    BY <2>1, <2>3, <2>6
<1> QED
  BY <1>1, <1>2, <1>3 DEF SyncFeedback

-----------------------------------------------------------------------------
(* Learning jobs: the theorem *)

\* The invariant of the learning jobs: what no run has gone through yet was crossed or is
\* left to a run of every process that was never broken off, and every line has its process.
THEOREM LearningInvariance == LearningSpec => []LearningInv
<1>1. LearningInit => LearningInv
  <2> SUFFICES ASSUME LearningInit PROVE LearningInv
    OBVIOUS
  <2>1. LearningTypeOK
    BY LearningAssumption DEF LearningInit, LearningTypeOK, Says
  <2>2. BatchesTrue /\ RowsAccounted
    BY DEF LearningInit, BatchesTrue, RowsKnown, RowsOnce, RowsAccounted, NoneLeftOut,
           PendingInReach, LeftTo
  <2>3. OnTime
    BY LearningAssumption DEF LearningInit, OnTime, Unbroken
  <2>4. LinesHaveOwners
    BY FS_EmptySet DEF LearningInit, LinesHaveOwners
  <2> QED
    BY <2>1, <2>2, <2>3, <2>4 DEF LearningInv
<1>2. LearningInv /\ [LearningNext]_learningVars => LearningInv'
  <2> SUFFICES ASSUME LearningInv, [LearningNext]_learningVars PROVE LearningInv'
    OBVIOUS
  <2>1. CASE TimePasses \/ (\E i \in Items : Stamp(i)) \/ \E w \in writes : Commit(w)
    BY <2>1, TimeStep, StampStep, CommitStep
  <2>2. ASSUME NEW p \in Instances, Run(p) \/ \E j \in Jobs : FetchFails(p, j)
        PROVE  LearningInv'
    <3>1. PICK failing \in SUBSET Jobs :
              Start(p, failing) /\ hurt \subseteq hurt' /\ (failing = {} \/ p \in hurt')
      BY <2>2 DEF Run, FetchFails
    <3> QED
      BY <3>1, StartStep
  <2>3. ASSUME NEW p \in Instances, Restart(p) \/ Skip(p) \/ \E j \in Jobs : RowFails(p, j)
        PROVE  LearningInv'
    BY <2>3, BrokenStep
  <2>4. ASSUME NEW p \in Instances,
               \/ \E r \in batch[p][Edits] : SyncEdit(p, r)
               \/ \E r \in batch[p][Overrides] : SyncOverride(p, r)
        PROVE  LearningInv'
    BY <2>4, LearnStep
  <2>5. ASSUME NEW p \in Instances, NEW r \in batch[p][Ratings], SyncFeedback(p, r)
        PROVE  LearningInv'
    BY <2>5, FeedbackStep
  <2>6. CASE UNCHANGED learningVars
    BY <2>6 DEF learningVars, LearningInv, LearningTypeOK, BatchesTrue, RowsKnown, RowsOnce,
                OnTime, RowsAccounted, NoneLeftOut, PendingInReach, Unbroken, LeftTo, InReach,
                Fetched, LinesHaveOwners, AboutToLog
  <2> QED
    BY <2>1, <2>2, <2>3, <2>4, <2>5, <2>6 DEF LearningNext
<1> QED
  BY <1>1, <1>2, PTL DEF LearningSpec

\* The three sync jobs, for any tables, any finite number of processes, any interval and any
\* grace: a process that is never broken off has every row it did not cross gone through, or
\* in a run, an interval after its stamp, and no process logs a rating twice.
THEOREM LearningIsAccounted == LearningSpec => []LearningAccounted
<1>1. LearningInv => LearningAccounted
  <2> SUFFICES ASSUME LearningInv PROVE LearningAccounted
    OBVIOUS
  <2>1. MissesHaveCauses
    <3> SUFFICES ASSUME NEW i \in Items \ settled, NEW p \in Unbroken,
                        item[i].says # "nothing", p \notin item[i].crossed,
                        now > item[i].at + Period
                 PROVE  Busy(p)
      BY DEF MissesHaveCauses, Unbroken
    <3>1. InReach(p, item[i].at) \/ Fetched(p, i)
      BY DEF LearningInv, RowsAccounted, NoneLeftOut, LeftTo
    <3>2. /\ now \in Nat /\ item[i].at \in Nat /\ due[p] \in Nat /\ now <= due[p] + Grace
      BY DEF LearningInv, LearningTypeOK, OnTime, Unbroken
    <3>3. ~InReach(p, item[i].at)
      BY <3>2, LearningAssumption DEF InReach
    <3> QED
      BY <3>1, <3>3 DEF Fetched, Busy
  <2>2. LoggedOncePerProcess
    BY FS_Subset, LearningAssumption DEF LearningInv, LinesHaveOwners, LoggedOncePerProcess
  <2> QED
    BY <2>1, <2>2 DEF LearningAccounted
<1> QED
  BY <1>1, LearningInvariance, PTL

-----------------------------------------------------------------------------
(* Attachment cleanup *)

CleanupSpec == CleanupInit /\ [][CleanupNext]_cleanupVars

CleanupTypeOK ==
    /\ {kept, object, path, exposed} \subseteq SUBSET Attachments
    /\ {uploaded, toDelete, removed} \subseteq [Schedulers -> SUBSET Attachments]
    /\ deletion \in [Attachments -> {"none", "remove", "row"}]

\* An object whose row is gone, is about to be deleted or is about to lose its path got
\* there in one of the ways named: from there on no step needs to look at the object.
CrossedExposed == \A a \in object : Crossed(a) => a \in exposed

CleanupInv == CleanupTypeOK /\ OrphansHaveCauses /\ CrossedExposed

\* The invariant of the pictures: an object is named, about to be named, or exposed.
THEOREM CleanupInvariance == CleanupSpec => []CleanupInv
<1>1. CleanupInit => CleanupInv
  BY DEF CleanupInit, CleanupInv, CleanupTypeOK, OrphansHaveCauses, CrossedExposed
<1>2. CleanupInv /\ [CleanupNext]_cleanupVars => CleanupInv'
  <2> SUFFICES ASSUME CleanupInv, [CleanupNext]_cleanupVars PROVE CleanupInv'
    OBVIOUS
  <2> USE DEF CleanupInv, CleanupTypeOK, OrphansHaveCauses, CrossedExposed, Crossed, Naming
  <2>1. CASE Ages \/ UNCHANGED cleanupVars
    BY <2>1 DEF Ages, cleanupVars
  <2>2. ASSUME NEW s \in Schedulers, Upload(s) PROVE CleanupInv'
    <3>1. PICK a \in Attachments :
              /\ object' = object \cup {a} /\ uploaded' = [uploaded EXCEPT ![s] = {a}]
              /\ exposed' = IF Crossed(a) THEN exposed \cup {a} ELSE exposed
      BY <2>2 DEF Upload
    <3>2. uploaded[s] = {} /\ UNCHANGED <<kept, path, deletion, toDelete, removed>>
      BY <2>2 DEF Upload
    <3>3. CleanupTypeOK'
      BY <3>1, <3>2
    <3>4. Naming(a)' /\ \A b \in Attachments : Naming(b) => Naming(b)'
      BY <3>1, <3>2
    <3>5. OrphansHaveCauses'
      BY <3>1, <3>2, <3>4
    <3>6. CrossedExposed'
      BY <3>1, <3>2
    <3> QED
      BY <3>3, <3>5, <3>6
  <2>3. ASSUME NEW s \in Schedulers, SetPath(s) PROVE CleanupInv'
    <3>1. /\ path' = path \cup (uploaded[s] \cap kept) /\ uploaded' = [uploaded EXCEPT ![s] = {}]
          /\ UNCHANGED <<kept, object, deletion, toDelete, removed, exposed>>
      BY <2>3 DEF SetPath
    <3>2. CleanupTypeOK' /\ CrossedExposed'
      BY <3>1
    <3>3. \A a \in object : Naming(a) => a \in uploaded[s] \/ Naming(a)'
      BY <3>1
    <3>4. \A a \in object : a \in uploaded[s] => a \in path' \/ a \in exposed
      BY <3>1
    <3>5. OrphansHaveCauses'
      BY <3>1, <3>3, <3>4
    <3> QED
      BY <3>2, <3>5
  <2>4. ASSUME NEW s \in Schedulers, SetPathFails(s) \/ Restarts(s) PROVE CleanupInv'
    <3>1. /\ uploaded' = [uploaded EXCEPT ![s] = {}] /\ exposed' = exposed \cup uploaded[s]
          /\ toDelete' \in {toDelete, [toDelete EXCEPT ![s] = {}]}
          /\ removed' \in {removed, [removed EXCEPT ![s] = {}]}
          /\ UNCHANGED <<kept, object, path, deletion>>
      BY <2>4 DEF SetPathFails, Restarts
    <3>2. CleanupTypeOK'
      BY <3>1
    <3>3. \A a \in object : Naming(a) => a \in uploaded[s] \/ Naming(a)'
      BY <3>1
    <3>4. \A t \in Schedulers : removed'[t] \subseteq removed[t]
      BY <3>1
    <3>5. CrossedExposed'
      BY <3>1, <3>4
    <3>6. OrphansHaveCauses'
      BY <3>1, <3>3
    <3> QED
      BY <3>2, <3>5, <3>6
  <2>5. ASSUME NEW s \in Schedulers, Fetch(s) PROVE CleanupInv'
    BY <2>5 DEF Fetch
  <2>6. ASSUME NEW s \in Schedulers, RemoveObject(s) PROVE CleanupInv'
    BY <2>6 DEF RemoveObject
  <2>7. ASSUME NEW s \in Schedulers, ClearPath(s) PROVE CleanupInv'
    <3>1. /\ path' = path \ removed[s] /\ toDelete' = [toDelete EXCEPT ![s] = @ \ removed[s]]
          /\ removed' = [removed EXCEPT ![s] = {}]
          /\ UNCHANGED <<kept, object, uploaded, deletion, exposed>>
      BY <2>7 DEF ClearPath
    <3>2. CleanupTypeOK' /\ CrossedExposed'
      BY <3>1
    <3>3. OrphansHaveCauses'
      BY <3>1
    <3> QED
      BY <3>2, <3>3
  <2>8. ASSUME NEW s \in Schedulers, RequestFails(s) PROVE CleanupInv'
    <3>1. PICK a \in toDelete[s] :
              /\ \/ removed[s] = {} /\ object' \in {object, object \ {a}} /\ UNCHANGED path
                 \/ a \in removed[s] /\ path' \in {path, path \ {a}} /\ UNCHANGED object
              /\ toDelete' = [toDelete EXCEPT ![s] = @ \ {a}]
              /\ removed' = [removed EXCEPT ![s] = {}]
              /\ UNCHANGED <<kept, uploaded, deletion, exposed>>
      BY <2>8 DEF RequestFails
    <3>2. CleanupTypeOK' /\ CrossedExposed'
      BY <3>1
    <3>3. OrphansHaveCauses'
      BY <3>1
    <3> QED
      BY <3>2, <3>3
  <2>9. ASSUME NEW a \in Attachments, ForceDelete(a) PROVE CleanupInv'
    BY <2>9 DEF ForceDelete
  <2>10. ASSUME NEW a \in Attachments, ForceRemove(a) PROVE CleanupInv'
    BY <2>10 DEF ForceRemove
  <2>11. ASSUME NEW a \in Attachments, ForceDeleteRow(a) \/ ConsoleDelete(a) PROVE CleanupInv'
    BY <2>11 DEF ForceDeleteRow, ConsoleDelete
  <2>12. ASSUME NEW a \in Attachments, ForceFails(a) PROVE CleanupInv'
    BY <2>12 DEF ForceFails
  <2> QED
    BY <2>1, <2>2, <2>3, <2>4, <2>5, <2>6, <2>7, <2>8, <2>9, <2>10, <2>11, <2>12
       DEF CleanupNext
<1> QED
  BY <1>1, <1>2, PTL DEF CleanupSpec

\* For any pictures, any number of processes, uploads and faults: an object that no ticket
\* points to, and that no run is about to name, was orphaned by a deletion or by a run that
\* was broken off or came too late, and never by delete_old_attachments.
THEOREM OrphansOnlyExposed == CleanupSpec => []OrphansHaveCauses
<1>1. CleanupInv => OrphansHaveCauses
  BY DEF CleanupInv
<1> QED
  BY <1>1, CleanupInvariance, PTL

-----------------------------------------------------------------------------
(* Key pool: the invariant *)

USE PoolAssumption DEF Keys

PoolSpec == PoolInit /\ [][PoolNext]_poolVars

PoolTypeOK ==
    /\ cycle \in Keys /\ dead \subseteq Keys
    /\ phase \in [Calls -> {"ready", "calling", "rejected", "done", "failed"}]
    /\ client \in [Calls -> Keys \cup {NoKey}]
    /\ \A c \in Calls : phase[c] \in {"calling", "rejected"} => client[c] \in Keys
    /\ handed \in [Keys -> Nat]

\* The keys before the cycle's index have been handed out once more than the others.
InTurn(round) ==
    \A k \in Keys \ dead : handed[k] = IF k < cycle THEN round + 1 ELSE round

PoolInv == PoolTypeOK /\ \E round \in Nat : InTurn(round)

-----------------------------------------------------------------------------
(* Key pool: the cycle *)

\* A set of numbers has a least one.
LEMMA LeastOf ==
    ASSUME NEW T \in SUBSET Nat, T # {}
    PROVE  \E n \in T : \A m \in T : n <= m
<1>1. PICK n \in T : \A m \in T : <<m, n>> \notin OpToRel(<, Nat)
  BY NatLessThanWellFounded, WFMin
<1>2. ASSUME NEW m \in T PROVE n <= m
  <2>1. ~(m < n)
    BY <1>1 DEF OpToRel
  <2> QED
    BY <2>1
<1> QED
  BY <1>2

\* The cycle goes on to the last key and from there to the first.
LEMMA AfterIs ==
    ASSUME cycle \in Keys, NEW n \in 0..KeyCount
    PROVE  /\ After(n) = IF cycle + n < KeyCount THEN cycle + n ELSE cycle + n - KeyCount
           /\ After(n) \in Keys
BY DEF After

\* _gemini_client passes over the dead keys up to the first that is not, or over all but
\* the last one it comes to.
LEMMA SkippedIs ==
    ASSUME cycle \in Keys
    PROVE  /\ Skipped \in 0..KeyCount - 1
           /\ After(Skipped) \notin dead \/ Skipped = KeyCount - 1
           /\ \A m \in 0..Skipped - 1 : After(m) \in dead
<1> DEFINE T == {n \in 0..KeyCount - 1 : After(n) \notin dead \/ n = KeyCount - 1}
<1>1. PICK n \in T : \A m \in T : n <= m
  <2>1. KeyCount - 1 \in T /\ T \in SUBSET Nat
    OBVIOUS
  <2> HIDE DEF T
  <2> QED
    BY <2>1, LeastOf
<1>2. \A m \in 0..n - 1 : After(m) \in dead
  BY <1>1
<1> QED
  BY <1>1, <1>2 DEF Skipped

\* The key that is handed out, and the index that the cycle then returns.
LEMMA ChosenKey ==
    ASSUME cycle \in Keys
    PROVE  /\ After(Skipped) = IF cycle + Skipped < KeyCount THEN cycle + Skipped
                              ELSE cycle + Skipped - KeyCount
           /\ After(Skipped + 1) = IF After(Skipped) + 1 < KeyCount THEN After(Skipped) + 1 ELSE 0
           /\ After(Skipped) \in Keys /\ After(Skipped + 1) \in Keys
<1>1. PICK n \in 0..KeyCount - 1 : n = Skipped
  BY SkippedIs
<1>2. n \in 0..KeyCount /\ n + 1 \in 0..KeyCount
  BY <1>1
<1>3. /\ After(n) = IF cycle + n < KeyCount THEN cycle + n ELSE cycle + n - KeyCount
      /\ After(n) \in Keys
  BY <1>2, AfterIs
<1>4. /\ After(n + 1) = IF cycle + (n + 1) < KeyCount THEN cycle + (n + 1)
                        ELSE cycle + (n + 1) - KeyCount
      /\ After(n + 1) \in Keys
  BY <1>2, AfterIs
<1>5. After(n + 1) = IF After(n) + 1 < KeyCount THEN After(n) + 1 ELSE 0
  BY <1>3, <1>4
<1> QED
  BY <1>1, <1>3, <1>4, <1>5

\* A dead key is handed out only if all of them are dead.
LEMMA LiveKeyChosen ==
    ASSUME cycle \in Keys, dead \subseteq Keys, dead # Keys
    PROVE  After(Skipped) \in Keys \ dead
<1>1. PICK k \in Keys : k \notin dead
  OBVIOUS
<1>2. PICK m \in 0..KeyCount - 1 : After(m) = k
  <2>1. CASE k >= cycle
    <3>1. k - cycle \in 0..KeyCount - 1 /\ After(k - cycle) = k
      BY <2>1, AfterIs
    <3> QED
      BY <3>1
  <2>2. CASE k < cycle
    <3>1. k - cycle + KeyCount \in 0..KeyCount - 1 /\ After(k - cycle + KeyCount) = k
      BY <2>2, AfterIs
    <3> QED
      BY <3>1
  <2> QED
    BY <2>1, <2>2
<1>3. After(Skipped) \notin dead
  BY <1>1, <1>2, SkippedIs
<1> QED
  BY <1>3, ChosenKey

-----------------------------------------------------------------------------
(* Key pool: the steps *)

\* Every step keeps the pool within its types.
LEMMA PoolTypeStep ==
    ASSUME PoolTypeOK, [PoolNext]_poolVars
    PROVE  PoolTypeOK'
<1>1. ASSUME NEW c \in Calls, GeminiClient(c) PROVE PoolTypeOK'
  <2>1. After(Skipped) \in Keys /\ After(Skipped + 1) \in Keys
    BY ChosenKey DEF PoolTypeOK
  <2> QED
    BY <1>1, <2>1 DEF GeminiClient, PoolTypeOK
<1>2. ASSUME NEW c \in Calls, Generated(c) \/ Rejected(c) PROVE PoolTypeOK'
  BY <1>2 DEF Generated, Rejected, PoolTypeOK
<1>3. ASSUME NEW c \in Calls, Fails(c) \/ MarkDead(c) PROVE PoolTypeOK'
  BY <1>3 DEF Fails, MarkDead, AttemptFails, PoolTypeOK
<1>4. ASSUME UNCHANGED poolVars PROVE PoolTypeOK'
  BY <1>4 DEF poolVars, PoolTypeOK
<1> QED
  BY <1>1, <1>2, <1>3, <1>4 DEF PoolNext

\* Handing out a key keeps the turns: behind the cycle's new index every key that is
\* not dead has been handed out once more than those ahead of it.
LEMMA TurnTaken ==
    ASSUME PoolTypeOK, NEW round \in Nat, InTurn(round), NEW c \in Calls, GeminiClient(c)
    PROVE  InTurn(round)' \/ InTurn(round + 1)'
<1> DEFINE j == After(Skipped)
<1>1. CASE dead = Keys
  BY <1>1 DEF GeminiClient, InTurn
<1>2. CASE dead # Keys
  <2>1. /\ j \in Keys \ dead
        /\ Skipped \in 0..KeyCount - 1
        /\ \A m \in 0..Skipped - 1 : After(m) \in dead
        /\ j = IF cycle + Skipped < KeyCount THEN cycle + Skipped ELSE cycle + Skipped - KeyCount
    BY <1>2, LiveKeyChosen, SkippedIs, ChosenKey DEF PoolTypeOK
  <2>2. cycle' = IF j + 1 < KeyCount THEN j + 1 ELSE 0
    BY ChosenKey DEF GeminiClient, PoolTypeOK
  <2>3. \A k \in Keys : handed'[k] = IF k = j THEN handed[k] + 1 ELSE handed[k]
    BY DEF GeminiClient, PoolTypeOK
  <2>4. UNCHANGED dead
    BY DEF GeminiClient
  <2>5. cycle \in Keys /\ handed \in [Keys -> Nat]
    BY DEF PoolTypeOK
  <2> HIDE DEF j
  <2>6. CASE cycle + Skipped < KeyCount
    <3>1. \A k \in Keys \ dead : k < cycle \/ k >= j
      <4> SUFFICES ASSUME NEW k \in Keys \ dead, cycle <= k, k < j PROVE FALSE
        BY <2>1, <2>5
      <4>1. k - cycle \in 0..Skipped - 1 /\ After(k - cycle) = k
        BY <2>1, <2>5, <2>6, AfterIs
      <4> QED
        BY <2>1, <4>1
    <3>2. CASE j + 1 < KeyCount
      BY <2>1, <2>2, <2>3, <2>4, <2>5, <2>6, <3>1, <3>2 DEF InTurn
    <3>3. CASE j + 1 >= KeyCount
      BY <2>1, <2>2, <2>3, <2>4, <2>5, <2>6, <3>1, <3>3 DEF InTurn
    <3> QED
      BY <2>1, <3>2, <3>3
  <2>7. CASE cycle + Skipped >= KeyCount
    <3>1. j < cycle
      BY <2>1, <2>5, <2>7
    <3>2. \A k \in Keys \ dead : k < cycle /\ k >= j
      <4> SUFFICES ASSUME NEW k \in Keys \ dead, k >= cycle \/ k < j PROVE FALSE
        BY <2>1, <2>5
      <4>1. CASE k >= cycle
        <5>1. k - cycle \in 0..Skipped - 1 /\ After(k - cycle) = k
          BY <2>1, <2>5, <2>7, <4>1, AfterIs
        <5> QED
          BY <2>1, <5>1
      <4>2. CASE k < j
        <5>1. k - cycle + KeyCount \in 0..Skipped - 1 /\ After(k - cycle + KeyCount) = k
          BY <2>1, <2>5, <2>7, <3>1, <4>2, AfterIs
        <5> QED
          BY <2>1, <5>1
      <4> QED
        BY <4>1, <4>2
    <3> QED
      BY <2>1, <2>2, <2>3, <2>4, <2>5, <2>7, <3>1, <3>2 DEF InTurn
  <2> QED
    BY <2>1, <2>5, <2>6, <2>7
<1> QED
  BY <1>1, <1>2

-----------------------------------------------------------------------------
(* Key pool: the theorems *)

\* The invariant of the pool: its cycle and its dead keys are keys, and the keys that
\* are not dead have been handed out in turn up to the cycle's index.
THEOREM PoolInvariance == PoolSpec => []PoolInv
<1>1. PoolInit => PoolInv
  <2> SUFFICES ASSUME PoolInit PROVE PoolInv
    OBVIOUS
  <2>1. PoolTypeOK
    BY DEF PoolInit, PoolTypeOK, NoKey
  <2>2. InTurn(0)
    BY DEF PoolInit, InTurn
  <2> QED
    BY <2>1, <2>2 DEF PoolInv
<1>2. PoolInv /\ [PoolNext]_poolVars => PoolInv'
  <2> SUFFICES ASSUME PoolInv, [PoolNext]_poolVars PROVE PoolInv'
    OBVIOUS
  <2>1. PoolTypeOK'
    BY PoolTypeStep DEF PoolInv
  <2>2. PICK round \in Nat : InTurn(round)
    BY DEF PoolInv
  <2>3. ASSUME NEW c \in Calls, GeminiClient(c) PROVE InTurn(round)' \/ InTurn(round + 1)'
    BY <2>2, <2>3, TurnTaken DEF PoolInv
  <2>4. ASSUME NEW c \in Calls, Generated(c) \/ Fails(c) \/ Rejected(c) \/ MarkDead(c)
        PROVE  InTurn(round)'
    BY <2>2, <2>4 DEF Generated, Fails, Rejected, MarkDead, InTurn
  <2>5. ASSUME UNCHANGED poolVars PROVE InTurn(round)'
    BY <2>2, <2>5 DEF poolVars, InTurn
  <2>6. InTurn(round)' \/ InTurn(round + 1)'
    BY <2>3, <2>4, <2>5 DEF PoolNext
  <2> QED
    BY <2>1, <2>2, <2>6 DEF PoolInv
<1> QED
  BY <1>1, <1>2, PTL DEF PoolSpec

\* gemini_pool.py for any number of keys, calls and attempts: whatever overlaps, keys
\* that are not dead are used in turn, none twice more than another, and a dead key is
\* handed out only if all are.
THEOREM PoolKeysShared == PoolSpec => KeysShared
<1> DEFINE Even == \A j, k \in Keys \ dead : handed[j] <= handed[k] + 1
           Alive == \A k \in Keys : handed'[k] # handed[k] => k \notin dead \/ dead = Keys
<1>1. PoolInv => Even
  <2> SUFFICES ASSUME PoolInv, NEW j \in Keys \ dead, NEW k \in Keys \ dead
               PROVE  handed[j] <= handed[k] + 1
    OBVIOUS
  <2>1. PICK round \in Nat : InTurn(round)
    BY DEF PoolInv
  <2> QED
    BY <2>1 DEF InTurn, PoolInv, PoolTypeOK
<1>2. PoolInv /\ [PoolNext]_poolVars => [Alive]_poolVars
  <2> SUFFICES ASSUME PoolInv, PoolNext PROVE Alive
    BY DEF poolVars
  <2>1. ASSUME NEW c \in Calls, GeminiClient(c) PROVE Alive
    <3>1. \A k \in Keys : handed'[k] # handed[k] => k = After(Skipped)
      BY <2>1 DEF GeminiClient, PoolInv, PoolTypeOK
    <3> QED
      BY <3>1, LiveKeyChosen DEF PoolInv, PoolTypeOK
  <2>2. ASSUME NEW c \in Calls, Generated(c) \/ Fails(c) \/ Rejected(c) \/ MarkDead(c)
        PROVE  Alive
    BY <2>2 DEF Generated, Fails, Rejected, MarkDead
  <2> QED
    BY <2>1, <2>2 DEF PoolNext
<1> QED
  BY <1>1, <1>2, PoolInvariance, PTL DEF PoolSpec, KeysShared
=============================================================================
