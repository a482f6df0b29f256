------------------------------ MODULE ViewProofs ------------------------------
(***************************************************************************)
(* Proofs about the two views that follow something live.  TicketThread,   *)
(* for every set of panels and messages: a live, reloaded panel has every  *)
(* saved message, and what its bubbles say is true.  TraceRelay, for every *)
(* set of events, rows and viewers: a viewer is sent each event once and   *)
(* misses none of its row.                                                 *)
(***************************************************************************)
EXTENDS TicketThread, TraceRelay, FiniteSetTheorems, SequenceTheorems, TLAPS

-----------------------------------------------------------------------------
(* TicketThread *)

ThreadSpec == ThreadInit /\ [][ThreadNext]_threadVars

ThreadTypeOK ==
    /\ rows \subseteq Messages /\ stray \subseteq Messages
    /\ bubble \in [Panels -> [Messages -> {"none", "sending", "failed", "sent"}]]
    /\ channel \in [Panels -> {"closed", "joining", "live"}]
    /\ echoes \in [Panels -> SUBSET Messages]
    /\ asked \in [Panels -> SUBSET {"early", "live"}]
    /\ answers \in [Panels -> SUBSET [ask : {"early", "live"}, rows : SUBSET Messages]]
    /\ missed \in [Panels -> BOOLEAN]
    /\ post \in [Messages -> {"none", "out", "saved"}]

\* Nothing in a panel or on its way there is ahead of the table.
Saved ==
    /\ \A m \in Messages : post[m] = "saved" => m \in rows
    /\ \A p \in Panels : echoes[p] \subseteq rows /\ \A a \in answers[p] : a.rows \subseteq rows
    /\ \A p \in Panels, m \in Messages : bubble[p][m] = "sent" => m \in rows

\* A pending bubble is its author's, and its request is under way.
Pending ==
    /\ \A m \in Messages : post[m] # "none" => m \in DOMAIN Author
    /\ \A p \in Panels, m \in Messages :
          bubble[p][m] = "sending" => m \in Mine(p) /\ post[m] # "none"

\* A row that a live panel does not show yet is in an echo, in the answer to the
\* reload of the live channel, or the route has not read for that reload.
OnTheWay(p, m) ==
    \/ bubble[p][m] = "sent"
    \/ m \in echoes[p]
    \/ "live" \in asked[p]
    \/ \E a \in answers[p] : a.ask = "live" /\ m \in a.rows
Covered == \A p \in Panels : channel[p] = "live" /\ ~missed[p] => \A m \in rows : OnTheWay(p, m)

ThreadInv == ThreadTypeOK /\ Saved /\ Pending /\ Covered

-----------------------------------------------------------------------------
(* The constants and the actions *)

\* A typed message is a message, and the panel it is typed in is a panel.
LEMMA TypedMessages ==
    /\ DOMAIN Author \subseteq Messages
    /\ \A m \in DOMAIN Author : Author[m] \in Panels
<1>1. PICK typed \in SUBSET Messages : Author \in [typed -> Panels]
  BY ThreadAssumption
<1> QED
  BY <1>1

\* Every step is a step of one panel, of one message's request, or a stutter.
LEMMA StepCases ==
    ASSUME [ThreadNext]_threadVars
    PROVE  \/ \E p \in Panels : \/ Open(p) \/ Close(p) \/ Subscribed(p) \/ ChannelLost(p)
                                \/ Echo(p) \/ ReadRows(p) \/ Reload(p) \/ Send(p)
           \/ \E m \in Messages : Upsert(m) \/ Answered(m) \/ PostFails(m)
           \/ UNCHANGED threadVars
BY DEF ThreadNext

\* A message that is merged in is shown as sent, and no other bubble changes.
LEMMA MergeBubbles ==
    ASSUME ThreadTypeOK, NEW p \in Panels, NEW incoming \in SUBSET Messages, Merge(p, incoming)
    PROVE  /\ bubble' \in [Panels -> [Messages -> {"none", "sending", "failed", "sent"}]]
           /\ \A q \in Panels, m \in Messages :
                 bubble'[q][m] = IF q = p /\ m \in incoming THEN "sent" ELSE bubble[q][m]
BY DEF ThreadTypeOK, Merge

\* A downgrade changes one bubble, and only a pending one.
LEMMA DowngradeBubbles ==
    ASSUME ThreadTypeOK, NEW p \in Panels, NEW m \in Messages, Downgrade(p, m)
    PROVE  /\ bubble' \in [Panels -> [Messages -> {"none", "sending", "failed", "sent"}]]
           /\ \A q \in Panels, n \in Messages :
                 bubble'[q][n] = IF q = p /\ n = m /\ bubble[q][n] = "sending"
                                 THEN "failed" ELSE bubble[q][n]
BY DEF ThreadTypeOK, Downgrade

\* A send makes one bubble pending, one that was not sent.
LEMMA SendBubbles ==
    ASSUME ThreadTypeOK, NEW p \in Panels, Send(p)
    PROVE  \E m \in Mine(p) :
              /\ m \in Messages /\ bubble[p][m] # "sent"
              /\ bubble' \in [Panels -> [Messages -> {"none", "sending", "failed", "sent"}]]
              /\ bubble' = [bubble EXCEPT ![p][m] = "sending"]
              /\ \A q \in Panels, n \in Messages :
                    bubble'[q][n] = IF q = p /\ n = m THEN "sending" ELSE bubble[q][n]
              /\ post' = [post EXCEPT ![m] = "out"]
              /\ UNCHANGED <<rows, channel, echoes, asked, answers, missed, stray>>
<1>1. PICK m \in Mine(p) :
         /\ bubble[p][m] = "none" \/ bubble[p][m] = "failed"
         /\ bubble' = [bubble EXCEPT ![p][m] = "sending"]
         /\ post' = [post EXCEPT ![m] = "out"]
         /\ UNCHANGED <<rows, channel, echoes, asked, answers, missed, stray>>
  BY DEF Send
<1>2. m \in Messages
  BY TypedMessages DEF Mine
<1>3. /\ bubble' \in [Panels -> [Messages -> {"none", "sending", "failed", "sent"}]]
      /\ \A q \in Panels, n \in Messages :
            bubble'[q][n] = IF q = p /\ n = m THEN "sending" ELSE bubble[q][n]
  BY <1>1, <1>2 DEF ThreadTypeOK
<1> QED
  BY <1>1, <1>2, <1>3

\* A channel that is lost takes its echoes along, and its reloads come too early for the
\* next one.
LEMMA LostChannel ==
    ASSUME ThreadTypeOK, NEW p \in Panels, ChannelLost(p)
    PROVE  /\ channel' = [channel EXCEPT ![p] = "joining"]
           /\ echoes' = [echoes EXCEPT ![p] = {}]
           /\ asked' \in [Panels -> SUBSET {"early", "live"}]
           /\ answers' \in [Panels -> SUBSET [ask : {"early", "live"}, rows : SUBSET Messages]]
           /\ \A q \in Panels \ {p} : asked'[q] = asked[q] /\ answers'[q] = answers[q]
           /\ \A a \in answers'[p] : \E b \in answers[p] : a.rows = b.rows
           /\ UNCHANGED <<rows, bubble, missed, post, stray>>
<1> DEFINE early == {[ask |-> "early", rows |-> a.rows] : a \in answers[p]}
<1>1. /\ channel' = [channel EXCEPT ![p] = "joining"]
      /\ echoes' = [echoes EXCEPT ![p] = {}]
      /\ asked' = [asked EXCEPT ![p] = {"early" : ask \in asked[p]}]
      /\ answers' = [answers EXCEPT ![p] = early]
      /\ UNCHANGED <<rows, bubble, missed, post, stray>>
  BY DEF ChannelLost, ThreadTypeOK
<1>2. {"early" : ask \in asked[p]} \in SUBSET {"early", "live"}
  OBVIOUS
<1>3. /\ early \in SUBSET [ask : {"early", "live"}, rows : SUBSET Messages]
      /\ \A a \in early : \E b \in answers[p] : a.rows = b.rows
  BY DEF ThreadTypeOK
<1> HIDE DEF early
<1> QED
  BY <1>1, <1>2, <1>3 DEF ThreadTypeOK

\* An upsert saves one row, and the live channels hear of it when it is new.
LEMMA UpsertRows ==
    ASSUME ThreadTypeOK, NEW m \in Messages, Upsert(m)
    PROVE  /\ rows' = rows \cup {m}
           /\ echoes' \in [Panels -> SUBSET Messages]
           /\ \A p \in Panels :
                 /\ echoes[p] \subseteq echoes'[p] /\ echoes'[p] \subseteq echoes[p] \cup {m}
                 /\ channel[p] = "live" /\ m \notin rows => m \in echoes'[p]
           /\ stray' \subseteq stray
           /\ post' \in [Messages -> {"none", "out", "saved"}]
           /\ \A n \in Messages :
                 /\ post'[n] # post[n] => n = m /\ post[n] = "out" /\ post'[n] = "saved"
           /\ UNCHANGED <<bubble, channel, asked, answers, missed>>
BY DEF ThreadTypeOK, Upsert, Insert

-----------------------------------------------------------------------------
(* Type correctness *)

\* Every step keeps the thread within its types.
LEMMA TypeStep ==
    ASSUME ThreadTypeOK, Pending, [ThreadNext]_threadVars
    PROVE  ThreadTypeOK'
<1>1. ASSUME NEW p \in Panels, Open(p) PROVE ThreadTypeOK'
  BY <1>1 DEF Open, ThreadTypeOK
<1>2. ASSUME NEW p \in Panels, Close(p) PROVE ThreadTypeOK'
  <2>1. stray' \subseteq Messages
    BY <1>2, TypedMessages DEF Close, ThreadTypeOK, Mine
  <2> QED
    BY <1>2, <2>1 DEF Close, ThreadTypeOK
<1>3. ASSUME NEW p \in Panels, Subscribed(p) PROVE ThreadTypeOK'
  BY <1>3 DEF Subscribed, ThreadTypeOK
<1>4. ASSUME NEW p \in Panels, ChannelLost(p) PROVE ThreadTypeOK'
  BY <1>4, LostChannel DEF ThreadTypeOK
<1>5. ASSUME NEW p \in Panels, Echo(p) PROVE ThreadTypeOK'
  <2>1. PICK m \in echoes[p] :
           /\ echoes' = [echoes EXCEPT ![p] = @ \ {m}]
           /\ Merge(p, {m})
           /\ UNCHANGED <<rows, channel, asked, answers, missed, post, stray>>
    BY <1>5 DEF Echo
  <2>2. bubble' \in [Panels -> [Messages -> {"none", "sending", "failed", "sent"}]]
    BY <2>1, MergeBubbles DEF ThreadTypeOK
  <2> QED
    BY <2>1, <2>2 DEF ThreadTypeOK
<1>6. ASSUME NEW p \in Panels, ReadRows(p) PROVE ThreadTypeOK'
  BY <1>6 DEF ReadRows, ThreadTypeOK
<1>7. ASSUME NEW p \in Panels, Reload(p) PROVE ThreadTypeOK'
  <2>1. PICK a \in answers[p] :
           /\ answers' = [answers EXCEPT ![p] = @ \ {a}]
           /\ \/ Merge(p, a.rows) /\ UNCHANGED missed
              \/ missed' = [missed EXCEPT ![p] = @ \/ a.ask = "live"] /\ UNCHANGED bubble
           /\ UNCHANGED <<rows, channel, echoes, asked, post, stray>>
    BY <1>7 DEF Reload
  <2>2. a.rows \in SUBSET Messages
    BY DEF ThreadTypeOK
  <2>3. bubble' \in [Panels -> [Messages -> {"none", "sending", "failed", "sent"}]]
    BY <2>1, <2>2, MergeBubbles DEF ThreadTypeOK
  <2>4. missed' \in [Panels -> BOOLEAN]
    BY <2>1 DEF ThreadTypeOK
  <2> QED
    BY <2>1, <2>3, <2>4 DEF ThreadTypeOK
<1>8. ASSUME NEW p \in Panels, Send(p) PROVE ThreadTypeOK'
  BY <1>8, SendBubbles DEF ThreadTypeOK
<1>9. ASSUME NEW m \in Messages, Upsert(m) PROVE ThreadTypeOK'
  BY <1>9, UpsertRows DEF ThreadTypeOK
<1>10. ASSUME NEW m \in Messages, Answered(m) PROVE ThreadTypeOK'
  <2>1. Author[m] \in Panels
    BY <1>10, TypedMessages DEF Answered, Pending
  <2>2. bubble' \in [Panels -> [Messages -> {"none", "sending", "failed", "sent"}]]
    BY <1>10, <2>1, MergeBubbles DEF Answered
  <2> QED
    BY <1>10, <2>2 DEF Answered, ThreadTypeOK
<1>11. ASSUME NEW m \in Messages, PostFails(m) PROVE ThreadTypeOK'
  <2>1. Author[m] \in Panels
    BY <1>11, TypedMessages DEF PostFails, Pending
  <2>2. bubble' \in [Panels -> [Messages -> {"none", "sending", "failed", "sent"}]]
    BY <1>11, <2>1, DowngradeBubbles DEF PostFails
  <2> QED
    BY <1>11, <2>2 DEF PostFails, ThreadTypeOK
<1>12. ASSUME UNCHANGED threadVars PROVE ThreadTypeOK'
  BY <1>12 DEF threadVars, panels, ThreadTypeOK
<1> QED
  BY <1>1, <1>2, <1>3, <1>4, <1>5, <1>6, <1>7, <1>8, <1>9, <1>10, <1>11, <1>12, StepCases

-----------------------------------------------------------------------------
(* The strengthenings *)

\* Every step keeps what the panels hold within the table.
LEMMA SavedStep ==
    ASSUME ThreadTypeOK, Saved, Pending, [ThreadNext]_threadVars
    PROVE  Saved'
<1>1. ASSUME NEW p \in Panels, Open(p) PROVE Saved'
  BY <1>1 DEF Open, Saved
<1>2. ASSUME NEW p \in Panels, Close(p) PROVE Saved'
  BY <1>2 DEF Close, Saved, ThreadTypeOK
<1>3. ASSUME NEW p \in Panels, Subscribed(p) \/ ChannelLost(p) PROVE Saved'
  <2>1. CASE Subscribed(p)
    BY <2>1 DEF Subscribed, Saved, ThreadTypeOK
  <2>2. CASE ChannelLost(p)
    BY <2>2, LostChannel DEF Saved, ThreadTypeOK
  <2> QED
    BY <1>3, <2>1, <2>2
<1>4. ASSUME NEW p \in Panels, Echo(p) PROVE Saved'
  <2>1. PICK m \in echoes[p] :
           /\ echoes' = [echoes EXCEPT ![p] = @ \ {m}]
           /\ Merge(p, {m})
           /\ UNCHANGED <<rows, channel, asked, answers, missed, post, stray>>
    BY <1>4 DEF Echo
  <2>2. m \in rows /\ m \in Messages
    BY DEF Saved, ThreadTypeOK
  <2>3. \A q \in Panels, n \in Messages : bubble'[q][n] = "sent" => n \in rows
    BY <2>1, <2>2, MergeBubbles DEF Saved
  <2> QED
    BY <2>1, <2>3 DEF Saved, ThreadTypeOK
<1>5. ASSUME NEW p \in Panels, ReadRows(p) PROVE Saved'
  BY <1>5 DEF ReadRows, Saved, ThreadTypeOK
<1>6. ASSUME NEW p \in Panels, Reload(p) PROVE Saved'
  <2>1. PICK a \in answers[p] :
           /\ answers' = [answers EXCEPT ![p] = @ \ {a}]
           /\ Merge(p, a.rows) \/ UNCHANGED bubble
           /\ UNCHANGED <<rows, channel, echoes, asked, post, stray>>
    BY <1>6 DEF Reload
  <2>2. a.rows \subseteq rows /\ a.rows \in SUBSET Messages
    BY DEF Saved, ThreadTypeOK
  <2>3. \A q \in Panels, n \in Messages : bubble'[q][n] = "sent" => n \in rows
    BY <2>1, <2>2, MergeBubbles DEF Saved
  <2> QED
    BY <2>1, <2>3 DEF Saved, ThreadTypeOK
<1>7. ASSUME NEW p \in Panels, Send(p) PROVE Saved'
  BY <1>7, SendBubbles DEF Saved, ThreadTypeOK
<1>8. ASSUME NEW m \in Messages, Upsert(m) PROVE Saved'
  <2>1. \A n \in Messages : post'[n] = "saved" => n \in rows'
    BY <1>8, UpsertRows DEF Saved
  <2>2. \A p \in Panels : echoes'[p] \subseteq rows'
    BY <1>8, UpsertRows DEF Saved
  <2> QED
    BY <1>8, <2>1, <2>2, UpsertRows DEF Saved
<1>9. ASSUME NEW m \in Messages, Answered(m) PROVE Saved'
  <2>1. Author[m] \in Panels /\ m \in rows
    BY <1>9, TypedMessages DEF Answered, Pending, Saved
  <2>2. \A q \in Panels, n \in Messages : bubble'[q][n] = "sent" => n \in rows
    BY <1>9, <2>1, MergeBubbles DEF Answered, Saved
  <2> QED
    BY <1>9, <2>2 DEF Answered, Saved, ThreadTypeOK
<1>10. ASSUME NEW m \in Messages, PostFails(m) PROVE Saved'
  <2>1. Author[m] \in Panels
    BY <1>10, TypedMessages DEF PostFails, Pending
  <2>2. \A q \in Panels, n \in Messages : bubble'[q][n] = "sent" => n \in rows
    BY <1>10, <2>1, DowngradeBubbles DEF PostFails, Saved
  <2> QED
    BY <1>10, <2>2 DEF PostFails, Saved, ThreadTypeOK
<1>11. ASSUME UNCHANGED threadVars PROVE Saved'
  BY <1>11 DEF threadVars, panels, Saved
<1> QED
  BY <1>1, <1>2, <1>3, <1>4, <1>5, <1>6, <1>7, <1>8, <1>9, <1>10, <1>11, StepCases

\* Every step keeps a request under way behind every pending bubble.
LEMMA PendingStep ==
    ASSUME ThreadTypeOK, Pending, [ThreadNext]_threadVars
    PROVE  Pending'
<1>1. ASSUME NEW p \in Panels, Open(p) \/ Subscribed(p) \/ ChannelLost(p) \/ ReadRows(p)
      PROVE  Pending'
  BY <1>1 DEF Open, Subscribed, ChannelLost, ReadRows, Pending
<1>2. ASSUME NEW p \in Panels, Close(p) PROVE Pending'
  <2>1. \A q \in Panels, m \in Messages :
           bubble'[q][m] = "sending" => q # p /\ bubble[q][m] = "sending"
    BY <1>2 DEF Close, ThreadTypeOK
  <2>2. \A m \in Messages : m \notin Mine(p) => post'[m] = post[m]
    BY <1>2 DEF Close
  <2>3. \A m \in Messages : post'[m] # "none" => post[m] # "none"
    BY <1>2 DEF Close
  <2>4. \A q \in Panels, m \in Messages : q # p /\ m \in Mine(q) => m \notin Mine(p)
    BY DEF Mine
  <2> QED
    BY <2>1, <2>2, <2>3, <2>4 DEF Pending, Mine
<1>3. ASSUME NEW p \in Panels, Echo(p) PROVE Pending'
  <2>1. PICK m \in echoes[p] : Merge(p, {m}) /\ UNCHANGED post
    BY <1>3 DEF Echo
  <2> QED
    BY <2>1, MergeBubbles DEF Pending, ThreadTypeOK, Mine
<1>4. ASSUME NEW p \in Panels, Reload(p) PROVE Pending'
  <2>1. PICK a \in answers[p] : (Merge(p, a.rows) \/ UNCHANGED bubble) /\ UNCHANGED post
    BY <1>4 DEF Reload
  <2>2. a.rows \in SUBSET Messages
    BY DEF ThreadTypeOK
  <2> QED
    BY <2>1, <2>2, MergeBubbles DEF Pending, Mine
<1>5. ASSUME NEW p \in Panels, Send(p) PROVE Pending'
  <2>1. PICK m \in Mine(p) :
           /\ m \in Messages
           /\ \A q \in Panels, n \in Messages :
                 bubble'[q][n] = IF q = p /\ n = m THEN "sending" ELSE bubble[q][n]
           /\ post' = [post EXCEPT ![m] = "out"]
    BY <1>5, SendBubbles
  <2> QED
    BY <2>1 DEF Pending, Mine, ThreadTypeOK
<1>6. ASSUME NEW m \in Messages, Upsert(m) PROVE Pending'
  BY <1>6, UpsertRows DEF Pending, Mine
<1>7. ASSUME NEW m \in Messages, Answered(m) PROVE Pending'
  <2>1. Author[m] \in Panels /\ post' = [post EXCEPT ![m] = "none"] /\ Merge(Author[m], {m})
    BY <1>7, TypedMessages DEF Answered, Pending
  <2>2. \A q \in Panels : m \in Mine(q) => q = Author[m]
    BY DEF Mine
  <2> QED
    BY <2>1, <2>2, MergeBubbles DEF Pending, Mine, ThreadTypeOK
<1>8. ASSUME NEW m \in Messages, PostFails(m) PROVE Pending'
  <2>1. Author[m] \in Panels /\ post' = [post EXCEPT ![m] = "none"] /\ Downgrade(Author[m], m)
    BY <1>8, TypedMessages DEF PostFails, Pending
  <2>2. \A q \in Panels : m \in Mine(q) => q = Author[m]
    BY DEF Mine
  <2> QED
    BY <2>1, <2>2, DowngradeBubbles DEF Pending, Mine, ThreadTypeOK
<1>9. ASSUME UNCHANGED threadVars PROVE Pending'
  BY <1>9 DEF threadVars, panels, Pending
<1> QED
  BY <1>1, <1>2, <1>3, <1>4, <1>5, <1>6, <1>7, <1>8, <1>9, StepCases

\* Every step keeps every row that a live panel lacks on its way to it.
LEMMA CoveredStep ==
    ASSUME ThreadTypeOK, Pending, Covered, [ThreadNext]_threadVars
    PROVE  Covered'
<1>1. ASSUME NEW p \in Panels, Open(p) PROVE Covered'
  BY <1>1 DEF Open, Covered, OnTheWay, ThreadTypeOK
<1>2. ASSUME NEW p \in Panels, Close(p) PROVE Covered'
  BY <1>2 DEF Close, Covered, OnTheWay, ThreadTypeOK
<1>3. ASSUME NEW p \in Panels, Subscribed(p) PROVE Covered'
  BY <1>3 DEF Subscribed, Covered, OnTheWay, ThreadTypeOK
<1>4. ASSUME NEW p \in Panels, ChannelLost(p) PROVE Covered'
  BY <1>4, LostChannel DEF Covered, OnTheWay, ThreadTypeOK
<1>5. ASSUME NEW p \in Panels, Echo(p) PROVE Covered'
  <2>1. PICK m \in echoes[p] :
           /\ echoes' = [echoes EXCEPT ![p] = @ \ {m}]
           /\ Merge(p, {m})
           /\ UNCHANGED <<rows, channel, asked, answers, missed, post, stray>>
    BY <1>5 DEF Echo
  <2>2. m \in Messages
    BY DEF ThreadTypeOK
  <2>3. \A q \in Panels, n \in Messages :
           /\ bubble[q][n] = "sent" => bubble'[q][n] = "sent"
           /\ n \in echoes[q] => n \in echoes'[q] \/ bubble'[q][n] = "sent"
    BY <2>1, <2>2, MergeBubbles DEF ThreadTypeOK
  <2> QED
    BY <2>1, <2>3 DEF Covered, OnTheWay, ThreadTypeOK
<1>6. ASSUME NEW p \in Panels, ReadRows(p) PROVE Covered'
  <2>1. PICK ask \in asked[p] :
           /\ asked' = [asked EXCEPT ![p] = @ \ {ask}]
           /\ answers' = [answers EXCEPT ![p] = @ \cup {[ask |-> ask, rows |-> rows]}]
           /\ UNCHANGED <<rows, bubble, channel, echoes, missed, post, stray>>
    BY <1>6 DEF ReadRows
  <2>2. ASSUME NEW q \in Panels, NEW m \in rows, OnTheWay(q, m) PROVE OnTheWay(q, m)'
    <3>1. answers[q] \subseteq answers'[q]
      BY <2>1 DEF ThreadTypeOK
    <3>2. CASE q = p /\ ask = "live"
      <4>1. [ask |-> ask, rows |-> rows] \in answers'[p]
        BY <2>1 DEF ThreadTypeOK
      <4> QED
        BY <3>2, <4>1, <2>1 DEF OnTheWay
    <3>3. CASE ~(q = p /\ ask = "live")
      <4>1. "live" \in asked[q] => "live" \in asked'[q]
        BY <2>1, <3>3 DEF ThreadTypeOK
      <4> QED
        BY <2>1, <2>2, <3>1, <4>1 DEF OnTheWay
    <3> QED
      BY <3>2, <3>3
  <2> QED
    BY <2>1, <2>2 DEF Covered
<1>7. ASSUME NEW p \in Panels, Reload(p) PROVE Covered'
  <2>1. PICK a \in answers[p] :
           /\ answers' = [answers EXCEPT ![p] = @ \ {a}]
           /\ \/ Merge(p, a.rows) /\ UNCHANGED missed
              \/ missed' = [missed EXCEPT ![p] = @ \/ a.ask = "live"] /\ UNCHANGED bubble
           /\ UNCHANGED <<rows, channel, echoes, asked, post, stray>>
    BY <1>7 DEF Reload
  <2>2. a.rows \in SUBSET Messages
    BY DEF ThreadTypeOK
  <2>3. \A q \in Panels, n \in Messages : bubble[q][n] = "sent" => bubble'[q][n] = "sent"
    BY <2>1, <2>2, MergeBubbles
  <2>4. ASSUME NEW q \in Panels, NEW m \in rows,
               channel'[q] = "live", ~missed'[q], channel[q] = "live" /\ ~missed[q] => OnTheWay(q, m)
        PROVE  OnTheWay(q, m)'
    <3>1. ~missed[q] /\ OnTheWay(q, m) /\ m \in Messages
      BY <2>1, <2>4 DEF ThreadTypeOK
    <3>2. CASE q = p /\ a.ask = "live" /\ m \in a.rows
      <4>1. Merge(p, a.rows)
        BY <2>1, <2>4, <3>2 DEF ThreadTypeOK
      <4> QED
        BY <2>2, <3>1, <3>2, <4>1, MergeBubbles DEF OnTheWay
    <3>3. CASE ~(q = p /\ a.ask = "live" /\ m \in a.rows)
      <4>1. \A b \in answers[q] : b.ask = "live" /\ m \in b.rows => b \in answers'[q]
        BY <2>1, <3>3 DEF ThreadTypeOK
      <4> QED
        BY <2>1, <2>3, <3>1, <4>1 DEF OnTheWay
    <3> QED
      BY <3>2, <3>3
  <2> QED
    BY <2>1, <2>4 DEF Covered
<1>8. ASSUME NEW p \in Panels, Send(p) PROVE Covered'
  <2>1. \A q \in Panels, n \in Messages : bubble[q][n] = "sent" => bubble'[q][n] = "sent"
    BY <1>8, SendBubbles
  <2> QED
    BY <1>8, <2>1, SendBubbles DEF Covered, OnTheWay, ThreadTypeOK
<1>9. ASSUME NEW m \in Messages, Upsert(m) PROVE Covered'
  <2>1. ASSUME NEW q \in Panels, channel[q] = "live", NEW n \in rows', n \in rows => OnTheWay(q, n)
        PROVE  OnTheWay(q, n)'
    <3>1. CASE n \in rows
      BY <1>9, <2>1, <3>1, UpsertRows DEF OnTheWay
    <3>2. CASE n \notin rows
      BY <1>9, <2>1, <3>2, UpsertRows DEF OnTheWay
    <3> QED
      BY <3>1, <3>2
  <2> QED
    BY <1>9, <2>1, UpsertRows DEF Covered
<1>10. ASSUME NEW m \in Messages, Answered(m) PROVE Covered'
  <2>1. Author[m] \in Panels /\ Merge(Author[m], {m})
    BY <1>10, TypedMessages DEF Answered, Pending
  <2>2. \A q \in Panels, n \in Messages : bubble[q][n] = "sent" => bubble'[q][n] = "sent"
    BY <2>1, MergeBubbles
  <2> QED
    BY <1>10, <2>2 DEF Answered, Covered, OnTheWay, ThreadTypeOK
<1>11. ASSUME NEW m \in Messages, PostFails(m) PROVE Covered'
  <2>1. Author[m] \in Panels /\ Downgrade(Author[m], m)
    BY <1>11, TypedMessages DEF PostFails, Pending
  <2>2. \A q \in Panels, n \in Messages : bubble[q][n] = "sent" => bubble'[q][n] = "sent"
    BY <2>1, DowngradeBubbles
  <2> QED
    BY <1>11, <2>2 DEF PostFails, Covered, OnTheWay, ThreadTypeOK
<1>12. ASSUME UNCHANGED threadVars PROVE Covered'
  BY <1>12 DEF threadVars, panels, Covered, OnTheWay
<1> QED
  BY <1>1, <1>2, <1>3, <1>4, <1>5, <1>6, <1>7, <1>8, <1>9, <1>10, <1>11, <1>12, StepCases

-----------------------------------------------------------------------------
(* Theorems *)

\* The invariant of the thread: what the panels hold is of the table, what they
\* show as pending is under way, and what they lack is on its way.
THEOREM ThreadInvariance == ThreadSpec => []ThreadInv
<1>1. ThreadInit => ThreadInv
  BY DEF ThreadInit, ThreadInv, ThreadTypeOK, Saved, Pending, Covered, OnTheWay
<1>2. ThreadInv /\ [ThreadNext]_threadVars => ThreadInv'
  BY TypeStep, SavedStep, PendingStep, CoveredStep DEF ThreadInv
<1> QED
  BY <1>1, <1>2, PTL DEF ThreadSpec

\* useTicketThread's reload on SUBSCRIBED closes the gap between the first load and
\* the channel, for any number of panels, messages, losses of the channel and
\* overtaking answers: a live and reloaded panel has every saved message.
THEOREM ThreadNoneMissed == ThreadSpec => []NoneMissed
<1>1. ThreadInv => NoneMissed
  BY DEF ThreadInv, Covered, OnTheWay, NoneMissed
<1> QED
  BY <1>1, ThreadInvariance, PTL

\* What useTicketThread shows of a message is true for any number of panels and
\* messages: a sent bubble is a saved row and stays sent while its panel is open,
\* and a pending one has its POST under way.
THEOREM ThreadBubblesTrue == ThreadSpec => BubblesTrue
<1> DEFINE Truth == \A p \in Panels, m \in Messages :
                       /\ bubble[p][m] = "sent" => m \in rows
                       /\ bubble[p][m] = "sending" => post[m] # "none"
           Stays == \A p \in Panels, m \in Messages :
                       bubble[p][m] = "sent" /\ channel'[p] # "closed" => bubble'[p][m] = "sent"
<1>1. ThreadInv => Truth
  BY DEF ThreadInv, Saved, Pending
<1>2. ThreadInv /\ [ThreadNext]_threadVars => [Stays]_threadVars
  <2> SUFFICES ASSUME ThreadInv, [ThreadNext]_threadVars PROVE Stays
    OBVIOUS
  <2> USE DEF ThreadInv
  <2>1. ASSUME NEW p \in Panels,
               Open(p) \/ Close(p) \/ Subscribed(p) \/ ChannelLost(p) \/ ReadRows(p)
        PROVE  Stays
    BY <2>1 DEF Open, Close, Subscribed, ChannelLost, ReadRows, ThreadTypeOK
  <2>2. ASSUME NEW p \in Panels, Echo(p) PROVE Stays
    <3>1. PICK m \in echoes[p] : Merge(p, {m})
      BY <2>2 DEF Echo
    <3>2. {m} \in SUBSET Messages
      BY DEF ThreadTypeOK
    <3> QED
      BY <3>1, <3>2, MergeBubbles
  <2>3. ASSUME NEW p \in Panels, Reload(p) PROVE Stays
    <3>1. PICK a \in answers[p] : Merge(p, a.rows) \/ UNCHANGED bubble
      BY <2>3 DEF Reload
    <3>2. a.rows \in SUBSET Messages
      BY DEF ThreadTypeOK
    <3> QED
      BY <3>1, <3>2, MergeBubbles
  <2>4. ASSUME NEW p \in Panels, Send(p) PROVE Stays
    BY <2>4, SendBubbles
  <2>5. ASSUME NEW m \in Messages, Upsert(m) PROVE Stays
    BY <2>5, UpsertRows
  <2>6. ASSUME NEW m \in Messages, Answered(m) PROVE Stays
    <3>1. Author[m] \in Panels /\ Merge(Author[m], {m})
      BY <2>6, TypedMessages DEF Answered, Pending
    <3> QED
      BY <3>1, MergeBubbles
  <2>7. ASSUME NEW m \in Messages, PostFails(m) PROVE Stays
    <3>1. Author[m] \in Panels /\ Downgrade(Author[m], m)
      BY <2>7, TypedMessages DEF PostFails, Pending
    <3> QED
      BY <3>1, DowngradeBubbles
  <2>8. ASSUME UNCHANGED threadVars PROVE Stays
    BY <2>8 DEF threadVars, panels
  <2> QED
    BY <2>1, <2>2, <2>3, <2>4, <2>5, <2>6, <2>7, <2>8, StepCases
<1> QED
  BY <1>1, <1>2, ThreadInvariance, PTL DEF ThreadSpec, BubblesTrue

-----------------------------------------------------------------------------
(* TraceRelay: lists *)

\* A list by its indices and its elements.
LEMMA ListElements ==
    ASSUME NEW S, NEW s \in Seq(S)
    PROVE  /\ Len(s) \in Nat /\ DOMAIN s = 1..Len(s) /\ ToSet(s) \subseteq S
           /\ \A i \in 1..Len(s) : s[i] \in S /\ s[i] \in ToSet(s)
           /\ s = <<>> <=> Len(s) = 0
           /\ s # <<>> => s[1] = Head(s) /\ Head(s) \in ToSet(s)
BY ElementOfSeq DEF ToSet

\* Append adds its element, after the others.
LEMMA AppendElements ==
    ASSUME NEW S, NEW s \in Seq(S), NEW e \in S
    PROVE  /\ Append(s, e) \in Seq(S) /\ Len(Append(s, e)) = Len(s) + 1
           /\ ToSet(Append(s, e)) = ToSet(s) \cup {e}
           /\ IsInjective(s) /\ e \notin ToSet(s) => IsInjective(Append(s, e))
<1> DEFINE c == Append(s, e)
<1>1. /\ c \in Seq(S) /\ Len(c) = Len(s) + 1 /\ Len(s) \in Nat
      /\ DOMAIN c = 1..(Len(s) + 1) /\ DOMAIN s = 1..Len(s)
      /\ c[Len(s) + 1] = e /\ \A i \in 1..Len(s) : c[i] = s[i]
  OBVIOUS
<1> HIDE DEF c
<1>2. 1..(Len(s) + 1) = 1..Len(s) \cup {Len(s) + 1}
  BY <1>1
<1>3. ToSet(c) = ToSet(s) \cup {e}
  BY <1>1, <1>2 DEF ToSet
<1>4. ASSUME IsInjective(s), e \notin ToSet(s) PROVE IsInjective(c)
  BY <1>1, <1>2, <1>4 DEF IsInjective, ToSet
<1> QED
  BY <1>1, <1>3, <1>4 DEF c

\* Concatenation joins the elements; where none is in both lists, none occurs twice.
LEMMA ConcatElements ==
    ASSUME NEW S, NEW s \in Seq(S), NEW t \in Seq(S)
    PROVE  /\ s \o t \in Seq(S) /\ Len(s \o t) = Len(s) + Len(t)
           /\ ToSet(s \o t) = ToSet(s) \cup ToSet(t)
           /\ IsInjective(s) /\ IsInjective(t) /\ ToSet(s) \cap ToSet(t) = {} => IsInjective(s \o t)
<1> DEFINE c == s \o t
<1>1. /\ c \in Seq(S) /\ Len(s) \in Nat /\ Len(t) \in Nat
      /\ Len(c) = Len(s) + Len(t)
      /\ DOMAIN c = 1..(Len(s) + Len(t)) /\ DOMAIN s = 1..Len(s) /\ DOMAIN t = 1..Len(t)
      /\ \A i \in 1..Len(s) : c[i] = s[i]
      /\ \A i \in 1..Len(t) : c[i + Len(s)] = t[i]
  OBVIOUS
<1> HIDE DEF c
<1>2. \A i \in DOMAIN c : \/ i \in DOMAIN s /\ c[i] = s[i]
                          \/ i - Len(s) \in DOMAIN t /\ c[i] = t[i - Len(s)]
  <2> TAKE i \in DOMAIN c
  <2>1. CASE i <= Len(s)
    BY <1>1, <2>1
  <2>2. CASE i > Len(s)
    <3>1. i - Len(s) \in 1..Len(t) /\ (i - Len(s)) + Len(s) = i
      BY <1>1, <2>2
    <3> QED
      BY <1>1, <3>1
  <2> QED
    BY <1>1, <2>1, <2>2
<1>3. ToSet(c) = ToSet(s) \cup ToSet(t)
  <2>1. ToSet(c) \subseteq ToSet(s) \cup ToSet(t)
    BY <1>2 DEF ToSet
  <2>2. ToSet(s) \subseteq ToSet(c)
    <3>1. \A i \in DOMAIN s : i \in DOMAIN c /\ c[i] = s[i]
      BY <1>1
    <3> QED
      BY <3>1 DEF ToSet
  <2>3. ToSet(t) \subseteq ToSet(c)
    <3>1. \A i \in DOMAIN t : i + Len(s) \in DOMAIN c /\ c[i + Len(s)] = t[i]
      BY <1>1
    <3> QED
      BY <3>1 DEF ToSet
  <2> QED
    BY <2>1, <2>2, <2>3
<1>4. ASSUME IsInjective(s), IsInjective(t), ToSet(s) \cap ToSet(t) = {} PROVE IsInjective(c)
  <2> SUFFICES ASSUME NEW i \in DOMAIN c, NEW j \in DOMAIN c, c[i] = c[j] PROVE i = j
    BY DEF IsInjective
  <2>1. CASE i \in DOMAIN s /\ c[i] = s[i] /\ j \in DOMAIN s /\ c[j] = s[j]
    BY <1>4, <2>1 DEF IsInjective
  <2>2. CASE /\ i - Len(s) \in DOMAIN t /\ c[i] = t[i - Len(s)]
             /\ j - Len(s) \in DOMAIN t /\ c[j] = t[j - Len(s)]
    <3>1. i - Len(s) = j - Len(s)
      BY <1>4, <2>2 DEF IsInjective
    <3> QED
      BY <1>1, <3>1
  <2>3. CASE i \in DOMAIN s /\ c[i] = s[i] /\ j - Len(s) \in DOMAIN t /\ c[j] = t[j - Len(s)]
    BY <1>4, <2>3 DEF ToSet
  <2>4. CASE j \in DOMAIN s /\ c[j] = s[j] /\ i - Len(s) \in DOMAIN t /\ c[i] = t[i - Len(s)]
    BY <1>4, <2>4 DEF ToSet
  <2> QED
    BY <1>2, <2>1, <2>2, <2>3, <2>4
<1> QED
  BY <1>1, <1>3, <1>4 DEF c

\* The tail has every element but the first.
LEMMA TailElements ==
    ASSUME NEW S, NEW s \in Seq(S), s # <<>>
    PROVE  /\ Tail(s) \in Seq(S) /\ Len(Tail(s)) = Len(s) - 1 /\ s[1] \in S
           /\ ToSet(s) = {s[1]} \cup ToSet(Tail(s))
           /\ IsInjective(s) => IsInjective(Tail(s)) /\ s[1] \notin ToSet(Tail(s))
<1> DEFINE f == Tail(s)
           n == Len(s)
<1>1. n \in Nat \ {0} /\ DOMAIN s = 1..n /\ s[1] \in S
  BY ElementOfSeq
<1>2. f \in Seq(S) /\ Len(f) = n - 1 /\ \A i \in 1..(n - 1) : f[i] = s[i + 1]
  BY <1>1, HeadTailProperties
<1>3. DOMAIN f = 1..(n - 1)
  BY <1>1, <1>2
<1> HIDE DEF f, n
<1>4. ToSet(s) = {s[1]} \cup ToSet(f)
  <2>1. ToSet(f) \subseteq ToSet(s)
    <3>1. \A i \in DOMAIN f : i + 1 \in DOMAIN s /\ f[i] = s[i + 1]
      BY <1>1, <1>2, <1>3
    <3> QED
      BY <3>1 DEF ToSet
  <2>2. \A i \in DOMAIN s : i = 1 \/ (i - 1 \in DOMAIN f /\ f[i - 1] = s[i])
    BY <1>1, <1>2, <1>3
  <2>3. 1 \in DOMAIN s
    BY <1>1
  <2> QED
    BY <2>1, <2>2, <2>3 DEF ToSet
<1>5. ASSUME IsInjective(s) PROVE IsInjective(f) /\ s[1] \notin ToSet(f)
  <2>1. \A i \in DOMAIN f : /\ i \in Nat \ {0} /\ i + 1 \in DOMAIN s
                             /\ f[i] = s[i + 1] /\ 1 \in DOMAIN s
    BY <1>1, <1>2, <1>3
  <2> QED
    BY <1>5, <2>1 DEF ToSet, IsInjective
<1> QED
  BY <1>1, <1>2, <1>4, <1>5 DEF f, n

\* A row that is taken out of a list leaves the others there.
LEMMA WithoutRow ==
    ASSUME NEW S, NEW list \in Seq(S), NEW r
    PROVE  /\ Without(list, r) \in Seq(S)
           /\ Len(Without(list, r)) = IF Listed(list, r) THEN Len(list) - 1 ELSE Len(list)
           /\ \A q : Listed(list, q) /\ q # r => Listed(Without(list, r), q)
<1>1. CASE ~Listed(list, r)
  BY <1>1 DEF Without
<1>2. CASE Listed(list, r)
  <2> DEFINE n == Len(list)
             k == CHOOSE i \in DOMAIN list : list[i] = r
             w == Without(list, r)
  <2>1. n \in Nat /\ DOMAIN list = 1..n /\ \A i \in 1..n : list[i] \in S
    BY ElementOfSeq
  <2>2. k \in 1..n /\ list[k] = r
    BY <1>2, <2>1 DEF Listed, ToSet
  <2>3. w = SubSeq(list, 1, k - 1) \o SubSeq(list, k + 1, n)
    BY <1>2 DEF Without, RemoveAt
  <2> HIDE DEF k, w, n
  <2> DEFINE a == SubSeq(list, 1, k - 1)
             b == SubSeq(list, k + 1, n)
  <2>4. a \in Seq(S) /\ Len(a) = k - 1 /\ \A i \in 1..(k - 1) : a[i] = list[i]
    <3>1. \A i \in 1..(k - 1) : list[i] \in S
      BY <2>1, <2>2
    <3> QED
      BY <2>1, <2>2, <3>1, SubSeqProperties
  <2>5. b \in Seq(S) /\ Len(b) = n - k /\ \A i \in 1..(n - k) : b[i] = list[k + i]
    <3>1. \A i \in (k + 1)..n : list[i] \in S
      BY <2>1, <2>2
    <3> QED
      BY <2>1, <2>2, <3>1, SubSeqProperties
  <2>6. w \in Seq(S) /\ ToSet(w) = ToSet(a) \cup ToSet(b) /\ Len(w) = n - 1
    <3>1. w = a \o b
      BY <2>3
    <3> HIDE DEF a, b
    <3>2. w \in Seq(S) /\ ToSet(w) = ToSet(a) \cup ToSet(b) /\ Len(w) = Len(a) + Len(b)
      BY <2>4, <2>5, <3>1, ConcatElements
    <3> QED
      BY <2>1, <2>2, <2>4, <2>5, <3>2
  <2> HIDE DEF a, b
  <2>7. ASSUME NEW q, Listed(list, q), q # r PROVE Listed(w, q)
    <3>1. PICK i \in 1..n : list[i] = q
      BY <2>1, <2>7 DEF Listed, ToSet
    <3>2. CASE i < k
      <4>1. i \in DOMAIN a /\ a[i] = q
        BY <2>1, <2>2, <2>4, <3>1, <3>2
      <4> QED
        BY <2>6, <4>1 DEF Listed, ToSet
    <3>3. CASE i > k
      <4>1. i - k \in DOMAIN b /\ b[i - k] = q
        BY <2>1, <2>2, <2>5, <3>1, <3>3
      <4> QED
        BY <2>6, <4>1 DEF Listed, ToSet
    <3> QED
      BY <2>1, <2>2, <2>7, <3>1, <3>2, <3>3
  <2> QED
    BY <1>2, <2>6, <2>7 DEF w, n
<1> QED
  BY <1>1, <1>2

\* move_to_end loses no other row, and the list grows only by a row that is new.
LEMMA MovedRow ==
    ASSUME NEW S, NEW list \in Seq(S), NEW r \in S
    PROVE  /\ MovedToEnd(list, r) \in Seq(S)
           /\ Len(MovedToEnd(list, r)) = IF Listed(list, r) THEN Len(list) ELSE Len(list) + 1
           /\ Len(list) \in Nat /\ MovedToEnd(list, r) # <<>>
           /\ \A q : q = r \/ Listed(list, q) => Listed(MovedToEnd(list, r), q)
<1>1. Without(list, r) \in Seq(S)
  BY WithoutRow
<1>2. /\ MovedToEnd(list, r) \in Seq(S)
      /\ Len(MovedToEnd(list, r)) = Len(Without(list, r)) + 1
      /\ ToSet(MovedToEnd(list, r)) = ToSet(Without(list, r)) \cup {r}
  BY <1>1, AppendElements DEF MovedToEnd
<1>3. Len(list) \in Nat /\ Len(Without(list, r)) \in Nat
  BY <1>1
<1>4. \A q : q = r \/ Listed(list, q) => Listed(MovedToEnd(list, r), q)
  BY <1>2, WithoutRow DEF Listed
<1>5. Len(MovedToEnd(list, r)) = IF Listed(list, r) THEN Len(list) ELSE Len(list) + 1
  BY <1>2, <1>3, WithoutRow
<1> QED
  BY <1>2, <1>3, <1>4, <1>5

\* What _prune keeps was there, and is not multiplied.
LEMMA PrunedEvents ==
    ASSUME NEW S, NEW s \in Seq(S), NEW kept \in Pruned(s)
    PROVE  /\ kept \in Seq(S) /\ ToSet(kept) \subseteq ToSet(s)
           /\ IsInjective(s) => IsInjective(kept)
<1> DEFINE fresh == {i \in DOMAIN s : s[i] \notin stale}
           c == Cardinality(fresh)
<1>1. Len(s) \in Nat /\ DOMAIN s = 1..Len(s) /\ \A i \in 1..Len(s) : s[i] \in S
  BY ElementOfSeq
<1>2. c \in Nat
  <2>1. IsFiniteSet(1..Len(s))
    BY <1>1, FS_Interval
  <2>2. IsFiniteSet(fresh)
    BY <1>1, <2>1, FS_Subset
  <2> QED
    BY <2>2, FS_CardinalityType
<1>3. PICK at \in [1..c -> fresh] : /\ \A m, n \in DOMAIN at : m < n => at[m] < at[n]
                                    /\ kept = [n \in DOMAIN at |-> s[at[n]]]
  BY DEF Pruned
<1> HIDE DEF c
<1>4. \A n \in 1..c : at[n] \in DOMAIN s /\ at[n] \in Nat
  BY <1>1, <1>3
<1>5. DOMAIN kept = 1..c /\ \A n \in 1..c : kept[n] = s[at[n]]
  BY <1>3
<1>6. kept \in Seq(S)
  <2>1. kept = [n \in 1..c |-> s[at[n]]] /\ \A n \in 1..c : s[at[n]] \in S
    BY <1>1, <1>3, <1>4
  <2> QED
    BY <1>2, <2>1, IsASeq
<1>7. ToSet(kept) \subseteq ToSet(s)
  BY <1>4, <1>5 DEF ToSet
<1>8. ASSUME IsInjective(s) PROVE IsInjective(kept)
  <2> SUFFICES ASSUME NEW m \in 1..c, NEW n \in 1..c, kept[m] = kept[n] PROVE m = n
    BY <1>5 DEF IsInjective
  <2>1. at[m] = at[n]
    BY <1>4, <1>5, <1>8 DEF IsInjective
  <2>2. ~(m < n) /\ ~(n < m)
    BY <1>2, <1>3, <1>4, <2>1
  <2> QED
    BY <1>2, <2>2
<1> QED
  BY <1>6, <1>7, <1>8

-----------------------------------------------------------------------------
(* TraceRelay: the store *)

\* Rows that are folded into others: the correlation ids.
Folded(r) == \E e \in DOMAIN Correlation : Correlation[e] = r /\ Key[e] # r

\* A list of rows and their events, of the events in known: an event is filed once and in
\* one row, which is listed, and in a row that may be folded only by its own id.
StoreSound(list, files, known) ==
    /\ list \in Seq(Rows) /\ Len(list) <= MaxTickets
    /\ files \in [Rows -> Seq(Events)]
    /\ \A r \in Rows : IsInjective(files[r]) /\ ToSet(files[r]) \subseteq known
    /\ \A r, q \in Rows : r # q => ToSet(files[r]) \cap ToSet(files[q]) = {}
    /\ \A r \in Rows : files[r] # <<>> => Listed(list, r)
    /\ \A r \in Rows : Folded(r) => \A e \in ToSet(files[r]) : Key[e] = r

\* A merge keeps the store sound, and brings a row no event that was posted under its id.
LEMMA MergedStore ==
    ASSUME NEW known, StoreSound(order, filed, known), NEW e \in Events, Merges(e),
           NEW list, list = MovedToEnd(Without(order, Correlation[e]), Key[e]),
           NEW files, files = Merged(Correlation[e], Key[e])
    PROVE  /\ StoreSound(list, files, known)
           /\ \A r \in Rows : \A x \in ToSet(files[r]) : Key[x] = r => x \in ToSet(filed[r])
<1> DEFINE c == Correlation[e]
           k == Key[e]
           without == Without(order, c)
<1>1. c \in Rows /\ k \in Rows /\ c # k /\ Listed(order, c) /\ e \in DOMAIN Correlation
  BY RelayAssumption DEF Merges
<1>2. Folded(c) /\ ~Folded(k)
  BY <1>1, IdsAssumption DEF Folded
<1>3. order \in Seq(Rows) /\ Len(order) <= MaxTickets /\ filed \in [Rows -> Seq(Events)]
  BY DEF StoreSound
<1>4. /\ files \in [Rows -> Seq(Events)] /\ files[c] = <<>> /\ files[k] = filed[c] \o filed[k]
      /\ \A r \in Rows \ {c, k} : files[r] = filed[r]
  <2>1. filed[c] \o filed[k] \in Seq(Events) /\ <<>> \in Seq(Events)
    BY <1>1, <1>3, ConcatElements
  <2> QED
    BY <1>1, <1>3, <2>1 DEF Merged
<1>5. IsInjective(files[k]) /\ ToSet(files[k]) = ToSet(filed[c]) \cup ToSet(filed[k])
  BY <1>1, <1>3, <1>4, ConcatElements DEF StoreSound
<1>6. IsInjective(files[c]) /\ ToSet(files[c]) = {}
  BY <1>4 DEF IsInjective, ToSet
<1>7. list \in Seq(Rows) /\ Len(list) <= MaxTickets
  <2>1. without \in Seq(Rows) /\ Len(without) = Len(order) - 1 /\ Len(order) \in Nat
    BY <1>1, <1>3, WithoutRow
  <2>2. list \in Seq(Rows) /\ Len(list) <= Len(without) + 1 /\ Len(without) \in Nat
    <3>1. list = MovedToEnd(without, k)
      OBVIOUS
    <3> HIDE DEF without, k
    <3>2. without \in Seq(Rows) /\ k \in Rows
      BY <1>1, <2>1
    <3>3. /\ MovedToEnd(without, k) \in Seq(Rows) /\ Len(without) \in Nat
          /\ Len(MovedToEnd(without, k)) = IF Listed(without, k) THEN Len(without)
                                           ELSE Len(without) + 1
      BY <3>2, MovedRow
    <3> QED
      BY <3>1, <3>3
  <2> QED
    BY <1>3, <2>1, <2>2, RelayAssumption
<1>8. ASSUME NEW r \in Rows, files[r] # <<>> PROVE Listed(list, r)
  <2>1. CASE r = k
    <3>1. without \in Seq(Rows) /\ list = MovedToEnd(without, k)
      BY <1>3, WithoutRow
    <3> HIDE DEF without, k
    <3> QED
      BY <1>1, <2>1, <3>1, MovedRow
  <2>2. CASE r # k
    <3>1. r # c /\ Listed(order, r)
      BY <1>4, <1>8, <2>2 DEF StoreSound
    <3>2. without \in Seq(Rows) /\ Listed(without, r)
      BY <1>3, <3>1, WithoutRow
    <3> QED
      BY <1>1, <3>2, MovedRow
  <2> QED
    BY <2>1, <2>2
<1> HIDE DEF c, k, without
<1>9. \A r \in Rows : IsInjective(files[r]) /\ ToSet(files[r]) \subseteq known
  BY <1>1, <1>4, <1>5, <1>6 DEF StoreSound
<1>10. \A r, q \in Rows : r # q => ToSet(files[r]) \cap ToSet(files[q]) = {}
  <2> SUFFICES ASSUME NEW r \in Rows, NEW q \in Rows, r # q
               PROVE  ToSet(files[r]) \cap ToSet(files[q]) = {}
    OBVIOUS
  <2>1. CASE r = c \/ q = c
    BY <1>6, <2>1
  <2>2. CASE r = k /\ q \notin {c, k}
    BY <1>1, <1>4, <1>5, <2>2 DEF StoreSound
  <2>3. CASE q = k /\ r \notin {c, k}
    BY <1>1, <1>4, <1>5, <2>3 DEF StoreSound
  <2>4. CASE r \notin {c, k} /\ q \notin {c, k}
    BY <1>4, <2>4 DEF StoreSound
  <2> QED
    BY <2>1, <2>2, <2>3, <2>4
<1>11. \A r \in Rows : Folded(r) => \A x \in ToSet(files[r]) : Key[x] = r
  BY <1>2, <1>4, <1>6 DEF StoreSound
<1>12. ASSUME NEW r \in Rows, NEW x \in ToSet(files[r]), Key[x] = r PROVE x \in ToSet(filed[r])
  <2>1. CASE r = k
    BY <1>1, <1>2, <1>5, <1>12, <2>1 DEF StoreSound
  <2>2. CASE r # k
    BY <1>4, <1>6, <1>12, <2>2
  <2> QED
    BY <2>1, <2>2
<1> QED
  BY <1>4, <1>7, <1>8, <1>9, <1>10, <1>11, <1>12 DEF StoreSound

\* So does adding a new event; it is the only one that its row gains.
LEMMA AddedStore ==
    ASSUME NEW known, NEW list, NEW files, StoreSound(list, files, known),
           NEW e \in Events \ known, Add(list, files, Key[e], e)
    PROVE  /\ StoreSound(order', filed', known \cup {e})
           /\ \A r \in Rows : \A x \in ToSet(filed'[r]) :
                  (x = e /\ r = Key[e]) \/ x \in ToSet(files[r])
<1> DEFINE k == Key[e]
           moved == MovedToEnd(list, k)
           full == Len(moved) > MaxTickets
<1>1. k \in Rows /\ MaxTickets \in Nat \ {0}
  BY RelayAssumption
<1>2. list \in Seq(Rows) /\ Len(list) <= MaxTickets /\ files \in [Rows -> Seq(Events)]
  BY DEF StoreSound
<1>3. PICK kept \in Pruned(Append(files[k], e)) :
          filed' = [q \in Rows |-> IF q = k THEN kept
                                   ELSE IF full /\ q = Head(moved) THEN <<>> ELSE files[q]]
  BY DEF Add
<1>4. order' = IF full THEN Tail(moved) ELSE moved
  BY DEF Add
<1>5. /\ moved \in Seq(Rows) /\ moved # <<>> /\ Len(moved) \in Nat /\ Len(list) \in Nat
      /\ Len(moved) = IF Listed(list, k) THEN Len(list) ELSE Len(list) + 1
      /\ \A q : q = k \/ Listed(list, q) => Listed(moved, q)
  BY <1>1, <1>2, MovedRow
<1>6. /\ kept \in Seq(Events) /\ IsInjective(kept) /\ ToSet(kept) \subseteq ToSet(files[k]) \cup {e}
  <2>1. e \notin ToSet(files[k]) /\ IsInjective(files[k]) /\ files[k] \in Seq(Events)
    BY <1>1, <1>2 DEF StoreSound
  <2>2. /\ Append(files[k], e) \in Seq(Events) /\ IsInjective(Append(files[k], e))
        /\ ToSet(Append(files[k], e)) = ToSet(files[k]) \cup {e}
    BY <2>1, AppendElements
  <2> QED
    BY <1>3, <2>2, PrunedEvents
<1> DEFINE o == order'
           f == filed'
<1>7. /\ f[k] = kept
      /\ \A q \in Rows \ {k} : f[q] = IF full /\ q = Head(moved) THEN <<>> ELSE files[q]
  BY <1>1, <1>3
<1>8. f \in [Rows -> Seq(Events)]
  BY <1>1, <1>2, <1>3, <1>6
<1>9. o \in Seq(Rows) /\ Len(o) <= MaxTickets
  <2>1. CASE full
    <3>1. Tail(moved) \in Seq(Rows) /\ Len(Tail(moved)) = Len(moved) - 1
      BY <1>5, TailElements
    <3> QED
      BY <1>1, <1>2, <1>4, <1>5, <2>1, <3>1
  <2>2. CASE ~full
    BY <1>1, <1>4, <1>5, <2>2
  <2> QED
    BY <2>1, <2>2
<1>11. \A q \in Rows : ToSet(f[q]) \subseteq ToSet(files[q]) \cup (IF q = k THEN {e} ELSE {})
  <2> TAKE q \in Rows
  <2>1. CASE q = k
    BY <1>6, <1>7, <2>1
  <2>2. CASE q # k
    <3>1. ToSet(<<>>) = {}
      BY DEF ToSet
    <3> QED
      BY <1>7, <2>2, <3>1
  <2> QED
    BY <2>1, <2>2
<1>12. \A q \in Rows : IsInjective(f[q])
  <2>1. IsInjective(<<>>)
    BY DEF IsInjective
  <2> QED
    BY <1>6, <1>7, <2>1 DEF StoreSound
<1>13. ASSUME NEW q \in Rows, f[q] # <<>> PROVE Listed(o, q)
  <2>1. Listed(moved, q)
    BY <1>5, <1>7, <1>13 DEF StoreSound
  <2>2. CASE ~full
    BY <1>4, <2>1, <2>2
  <2>3. CASE full
    <3>1. moved[1] = Head(moved) /\ ToSet(moved) = {moved[1]} \cup ToSet(Tail(moved))
      BY <1>5, TailElements, ListElements
    <3>2. CASE q # Head(moved)
      BY <1>4, <2>1, <2>3, <3>1, <3>2 DEF Listed
    <3>3. CASE q = Head(moved)
      <4>1. q = k
        BY <1>7, <1>13, <2>3, <3>3
      <4>2. Len(moved) >= 2
        BY <1>1, <1>5, <2>3
      <4>3. Tail(moved)[Len(moved) - 1] = k
        <5> DEFINE w == Without(list, k)
        <5>1. w \in Seq(Rows) /\ moved = Append(w, k)
          BY <1>2, WithoutRow DEF MovedToEnd
        <5> HIDE DEF w
        <5>2. Len(w) \in Nat /\ Len(moved) = Len(w) + 1 /\ moved[Len(moved)] = k
          <6> HIDE DEF moved
          <6> QED
            BY <1>1, <5>1
        <5> HIDE DEF moved
        <5> QED
          BY <1>5, <4>2, <5>2, HeadTailProperties
      <4>4. Len(moved) - 1 \in DOMAIN Tail(moved)
        <5> HIDE DEF moved
        <5> QED
          BY <1>5, <4>2, TailElements, ListElements
      <4> QED
        BY <1>4, <2>3, <4>1, <4>3, <4>4 DEF Listed, ToSet
    <3> QED
      BY <3>2, <3>3
  <2> QED
    BY <2>2, <2>3
<1> HIDE DEF o, f, k
<1>14. \A r \in Rows : ToSet(f[r]) \subseteq known \cup {e}
  BY <1>11 DEF StoreSound
<1>15. \A r, q \in Rows : r # q => ToSet(f[r]) \cap ToSet(f[q]) = {}
  <2> SUFFICES ASSUME NEW r \in Rows, NEW q \in Rows, r # q,
                      NEW x \in ToSet(f[r]), x \in ToSet(f[q])
               PROVE  FALSE
    OBVIOUS
  <2>1. \A p \in Rows : e \notin ToSet(files[p])
    BY DEF StoreSound
  <2>2. CASE x = e
    <3>1. r = k /\ q = k
      BY <1>11, <2>1, <2>2
    <3> QED
      BY <3>1
  <2>3. CASE x # e
    <3>1. x \in ToSet(files[r]) /\ x \in ToSet(files[q])
      BY <1>11, <2>3
    <3> QED
      BY <3>1 DEF StoreSound
  <2> QED
    BY <2>2, <2>3
<1>16. \A r \in Rows : Folded(r) => \A x \in ToSet(f[r]) : Key[x] = r
  BY <1>11 DEF StoreSound, k
<1>17. StoreSound(o, f, known \cup {e})
  BY <1>8, <1>9, <1>12, <1>13, <1>14, <1>15, <1>16 DEF StoreSound
<1>18. \A r \in Rows : \A x \in ToSet(f[r]) : (x = e /\ r = k) \/ x \in ToSet(files[r])
  BY <1>11
<1> QED
  BY <1>17, <1>18 DEF o, f, k

-----------------------------------------------------------------------------
(* TraceRelay: the viewers *)

\* What a viewer has been sent and will be, each event once; nothing before it is
\* subscribed, and then every event of its row that was posted under the row's id.
SentOnce(v) ==
    /\ shown[v] \in Seq(Events) /\ snapshot[v] \in Seq(Events) /\ live[v] \in Seq(Events)
    /\ ToSet(shown[v]) \cup ToSet(snapshot[v]) \cup ToSet(live[v]) \subseteq posted
    /\ IsInjective(shown[v]) /\ IsInjective(snapshot[v]) /\ IsInjective(live[v])
    /\ ToSet(shown[v]) \cap ToSet(snapshot[v]) = {}
    /\ ToSet(shown[v]) \cap ToSet(live[v]) = {}
    /\ ToSet(snapshot[v]) \cap ToSet(live[v]) = {}

RowSeen(v) ==
    /\ ~accepted[v] => shown[v] = <<>> /\ snapshot[v] = <<>> /\ live[v] = <<>>
    /\ watching[v] \subseteq Rows /\ \A r, q \in watching[v] : r = q
    /\ accepted[v] => \A r \in watching[v] : \A e \in ToSet(filed[r]) :
           Key[e] = r => e \in ToSet(shown[v]) \cup ToSet(snapshot[v]) \cup ToSet(live[v])

RelayTypeOK ==
    /\ posted \subseteq Events
    /\ accepted \in [Viewers -> BOOLEAN]
    /\ DOMAIN watching = Viewers /\ DOMAIN shown = Viewers
    /\ DOMAIN snapshot = Viewers /\ DOMAIN live = Viewers

RelayInv ==
    /\ RelayTypeOK /\ StoreSound(order, filed, posted)
    /\ \A v \in Viewers : SentOnce(v) /\ RowSeen(v)

\* A step that touches one viewer and neither the store nor what was posted.
LEMMA OneViewer ==
    ASSUME RelayInv, NEW v \in Viewers, UNCHANGED <<posted, relayStore>>,
           \A w \in Viewers \ {v} : /\ shown'[w] = shown[w] /\ snapshot'[w] = snapshot[w]
                                    /\ live'[w] = live[w] /\ accepted'[w] = accepted[w]
                                    /\ watching'[w] = watching[w],
           RelayTypeOK', SentOnce(v)', RowSeen(v)'
    PROVE  RelayInv'
<1>1. ASSUME NEW w \in Viewers \ {v} PROVE SentOnce(w)' /\ RowSeen(w)'
  <2>1. SentOnce(w) /\ RowSeen(w)
    BY DEF RelayInv
  <2>2. /\ shown'[w] = shown[w] /\ snapshot'[w] = snapshot[w] /\ live'[w] = live[w]
        /\ accepted'[w] = accepted[w] /\ watching'[w] = watching[w]
        /\ posted' = posted /\ filed' = filed
    BY DEF relayStore
  <2>3. SentOnce(w)'
    BY <2>1, <2>2 DEF SentOnce
  <2>4. RowSeen(w)'
    BY <2>1, <2>2 DEF RowSeen
  <2> QED
    BY <2>3, <2>4
<1> QED
  BY <1>1 DEF RelayInv, relayStore

\* An event that arrives: merged, filed, perhaps a row evicted, and queued for its viewers.
LEMMA PostStep ==
    ASSUME RelayInv, NEW e \in Events, PostTraceEvent(e)
    PROVE  RelayInv'
<1>1. e \notin posted /\ posted' = posted \cup {e} /\ Key[e] \in Rows
  BY RelayAssumption DEF PostTraceEvent
<1>2. /\ StoreSound(order', filed', posted')
      /\ \A r \in Rows : \A x \in ToSet(filed'[r]) :
             Key[x] = r => (x = e /\ r = Key[e]) \/ x \in ToSet(filed[r])
  <2>1. CASE Merges(e)
    <3> DEFINE list == MovedToEnd(Without(order, Correlation[e]), Key[e])
               files == Merged(Correlation[e], Key[e])
    <3>1. Add(list, files, Key[e], e)
      BY <2>1 DEF PostTraceEvent
    <3>2. /\ StoreSound(list, files, posted)
          /\ \A r \in Rows : \A x \in ToSet(files[r]) : Key[x] = r => x \in ToSet(filed[r])
      BY <2>1, MergedStore DEF RelayInv
    <3> HIDE DEF list, files
    <3>3. /\ StoreSound(order', filed', posted \cup {e})
          /\ \A r \in Rows : \A x \in ToSet(filed'[r]) :
                 (x = e /\ r = Key[e]) \/ x \in ToSet(files[r])
      BY <1>1, <3>1, <3>2, AddedStore
    <3> QED
      BY <1>1, <3>2, <3>3
  <2>2. CASE ~Merges(e)
    <3>1. Add(order, filed, Key[e], e)
      BY <2>2 DEF PostTraceEvent
    <3>2. /\ StoreSound(order', filed', posted \cup {e})
          /\ \A r \in Rows : \A x \in ToSet(filed'[r]) :
                 (x = e /\ r = Key[e]) \/ x \in ToSet(filed[r])
      BY <1>1, <3>1, AddedStore DEF RelayInv
    <3> QED
      BY <1>1, <3>2
  <2> QED
    BY <2>1, <2>2
<1>3. RelayTypeOK'
  BY <1>1 DEF PostTraceEvent, RelayInv, RelayTypeOK
<1>4. ASSUME NEW v \in Viewers PROVE SentOnce(v)' /\ RowSeen(v)'
  <2>1. /\ shown' = shown /\ snapshot' = snapshot /\ watching' = watching /\ accepted' = accepted
        /\ live'[v] = IF v \in Subscribers(Key[e]) THEN Append(live[v], e) ELSE live[v]
    BY DEF PostTraceEvent
  <2>2. /\ SentOnce(v) /\ RowSeen(v)
        /\ e \notin ToSet(shown[v]) \cup ToSet(snapshot[v]) \cup ToSet(live[v])
    BY <1>1 DEF RelayInv, SentOnce
  <2>3. CASE v \in Subscribers(Key[e])
    <3>1. /\ live'[v] \in Seq(Events) /\ ToSet(live'[v]) = ToSet(live[v]) \cup {e}
          /\ IsInjective(live'[v])
      BY <2>1, <2>2, <2>3, AppendElements DEF SentOnce
    <3>2. SentOnce(v)'
      BY <1>1, <2>1, <2>2, <3>1 DEF SentOnce
    <3>3. accepted[v]
      BY <2>3 DEF Subscribers
    <3>4. RowSeen(v)'
      BY <1>2, <2>1, <2>2, <3>1, <3>3 DEF RowSeen
    <3> QED
      BY <3>2, <3>4
  <2>4. CASE v \notin Subscribers(Key[e])
    <3>1. live'[v] = live[v] /\ (accepted[v] => Key[e] \notin watching[v])
      BY <2>1, <2>4 DEF Subscribers
    <3>2. SentOnce(v)'
      BY <1>1, <2>1, <2>2, <3>1 DEF SentOnce
    <3>3. RowSeen(v)'
      BY <1>2, <2>1, <2>2, <3>1 DEF RowSeen
    <3> QED
      BY <3>2, <3>3
  <2> QED
    BY <2>3, <2>4
<1> QED
  BY <1>2, <1>3, <1>4 DEF RelayInv

\* A socket is subscribed and its snapshot taken at once: no event falls in between.
LEMMA AcceptStep ==
    ASSUME RelayInv, NEW v \in Viewers, Accept(v)
    PROVE  RelayInv'
<1>1. PICK r \in watching[v] : snapshot' = [snapshot EXCEPT ![v] = filed[r]]
  BY DEF Accept
<1>2. /\ ~accepted[v] /\ accepted' = [accepted EXCEPT ![v] = TRUE]
      /\ UNCHANGED <<posted, relayStore, watching, shown, live>>
  BY DEF Accept
<1>3. RelayTypeOK'
  BY <1>1, <1>2 DEF RelayInv, RelayTypeOK
<1>4. shown'[v] = <<>> /\ live'[v] = <<>> /\ snapshot'[v] = filed[r] /\ accepted'[v] /\ r \in Rows
  BY <1>1, <1>2 DEF RelayInv, RelayTypeOK, RowSeen
<1>5. ToSet(<<>>) = {} /\ IsInjective(<<>>) /\ <<>> \in Seq(Events)
  BY DEF ToSet, IsInjective
<1>6. SentOnce(v)'
  BY <1>2, <1>4, <1>5 DEF RelayInv, StoreSound, SentOnce
<1>7. RowSeen(v)'
  BY <1>1, <1>2, <1>4 DEF RelayInv, RowSeen, relayStore
<1>8. \A w \in Viewers \ {v} : /\ shown'[w] = shown[w] /\ snapshot'[w] = snapshot[w]
                               /\ live'[w] = live[w] /\ accepted'[w] = accepted[w]
                               /\ watching'[w] = watching[w]
  BY <1>1, <1>2 DEF RelayInv, RelayTypeOK
<1> QED
  BY <1>2, <1>3, <1>6, <1>7, <1>8, OneViewer

\* A send moves an event to what the viewer shows.
LEMMA SendStep ==
    ASSUME RelayInv, NEW v \in Viewers, SendSnapshot(v) \/ SafeSend(v)
    PROVE  RelayInv'
<1>1. /\ UNCHANGED <<posted, relayStore, watching, accepted>>
      /\ \A w \in Viewers \ {v} : /\ shown'[w] = shown[w] /\ snapshot'[w] = snapshot[w]
                                  /\ live'[w] = live[w]
      /\ RelayTypeOK'
  BY DEF SendSnapshot, SafeSend, RelayInv, RelayTypeOK
<1>2. SentOnce(v) /\ RowSeen(v)
  BY DEF RelayInv
<1>3. /\ SentOnce(v)' /\ accepted[v]
      /\ ToSet(shown'[v]) \cup ToSet(snapshot'[v]) \cup ToSet(live'[v])
         = ToSet(shown[v]) \cup ToSet(snapshot[v]) \cup ToSet(live[v])
  <2>1. CASE SendSnapshot(v)
    <3> DEFINE e == snapshot[v][1]
    <3>1. /\ snapshot[v] # <<>> /\ live'[v] = live[v]
          /\ shown'[v] = Append(shown[v], e) /\ snapshot'[v] = Tail(snapshot[v])
      BY <2>1 DEF SendSnapshot, RelayInv, RelayTypeOK
    <3>2. /\ Tail(snapshot[v]) \in Seq(Events) /\ e \in Events
          /\ ToSet(snapshot[v]) = {e} \cup ToSet(Tail(snapshot[v]))
          /\ IsInjective(Tail(snapshot[v])) /\ e \notin ToSet(Tail(snapshot[v]))
      BY <1>2, <3>1, TailElements DEF SentOnce
    <3> HIDE DEF e
    <3>3. /\ Append(shown[v], e) \in Seq(Events) /\ IsInjective(Append(shown[v], e))
          /\ ToSet(Append(shown[v], e)) = ToSet(shown[v]) \cup {e}
      BY <1>2, <3>2, AppendElements DEF SentOnce
    <3> QED
      BY <1>1, <1>2, <3>1, <3>2, <3>3 DEF SentOnce, RowSeen
  <2>2. CASE SafeSend(v)
    <3> DEFINE e == live[v][1]
    <3>1. /\ live[v] # <<>> /\ snapshot'[v] = snapshot[v]
          /\ shown'[v] = Append(shown[v], e) /\ live'[v] = Tail(live[v])
      BY <2>2 DEF SafeSend, RelayInv, RelayTypeOK
    <3>2. /\ Tail(live[v]) \in Seq(Events) /\ e \in Events
          /\ ToSet(live[v]) = {e} \cup ToSet(Tail(live[v]))
          /\ IsInjective(Tail(live[v])) /\ e \notin ToSet(Tail(live[v]))
      BY <1>2, <3>1, TailElements DEF SentOnce
    <3> HIDE DEF e
    <3>3. /\ Append(shown[v], e) \in Seq(Events) /\ IsInjective(Append(shown[v], e))
          /\ ToSet(Append(shown[v], e)) = ToSet(shown[v]) \cup {e}
      BY <1>2, <3>2, AppendElements DEF SentOnce
    <3> QED
      BY <1>1, <1>2, <3>1, <3>2, <3>3 DEF SentOnce, RowSeen
  <2> QED
    BY <2>1, <2>2
<1>4. RowSeen(v)'
  BY <1>1, <1>2, <1>3 DEF RowSeen, relayStore
<1> QED
  BY <1>1, <1>3, <1>4, OneViewer

\* A click drops what the old socket had still to send.
LEMMA SelectStep ==
    ASSUME RelayInv, NEW v \in Viewers, NEW r \in Rows, SelectTicket(v, r)
    PROVE  RelayInv'
<1>1. UNCHANGED <<posted, relayStore>>
  BY DEF SelectTicket
<1>2. RelayTypeOK'
  BY DEF SelectTicket, RelayInv, RelayTypeOK
<1>3. /\ shown'[v] = <<>> /\ snapshot'[v] = <<>> /\ live'[v] = <<>>
      /\ ~accepted'[v] /\ watching'[v] = {r}
  BY DEF SelectTicket, RelayInv, RelayTypeOK
<1>4. ToSet(<<>>) = {} /\ IsInjective(<<>>) /\ <<>> \in Seq(Events)
  BY DEF ToSet, IsInjective
<1>5. SentOnce(v)' /\ RowSeen(v)'
  BY <1>3, <1>4 DEF SentOnce, RowSeen
<1>6. \A w \in Viewers \ {v} : /\ shown'[w] = shown[w] /\ snapshot'[w] = snapshot[w]
                               /\ live'[w] = live[w] /\ accepted'[w] = accepted[w]
                               /\ watching'[w] = watching[w]
  BY DEF SelectTicket
<1> QED
  BY <1>1, <1>2, <1>5, <1>6, OneViewer

RelaySpec == RelayInit /\ [][RelayNext]_relayVars

\* The store stays sound and every viewer is sent what it must see.
THEOREM RelayInvariance == RelaySpec => []RelayInv
<1>1. RelayInit => RelayInv
  <2> SUFFICES ASSUME RelayInit PROVE RelayInv
    OBVIOUS
  <2>1. ToSet(<<>>) = {} /\ IsInjective(<<>>) /\ <<>> \in Seq(Events) /\ <<>> \in Seq(Rows)
    BY DEF ToSet, IsInjective
  <2>2. StoreSound(order, filed, posted)
    BY <2>1, RelayAssumption DEF RelayInit, StoreSound
  <2>3. RelayTypeOK /\ \A v \in Viewers : SentOnce(v) /\ RowSeen(v)
    BY <2>1 DEF RelayInit, RelayTypeOK, SentOnce, RowSeen
  <2> QED
    BY <2>2, <2>3 DEF RelayInv
<1>2. ASSUME RelayInv, [RelayNext]_relayVars PROVE RelayInv'
  <2>1. ASSUME NEW e \in Events, PostTraceEvent(e) PROVE RelayInv'
    BY <1>2, <2>1, PostStep
  <2>2. ASSUME HourPasses \/ UNCHANGED relayVars PROVE RelayInv'
    <3>1. UNCHANGED <<posted, relayStore, sockets>>
      BY <2>2 DEF HourPasses, relayVars
    <3> QED
      BY <1>2, <3>1 DEF relayStore, sockets, RelayInv, RelayTypeOK, SentOnce, RowSeen
  <2>3. ASSUME NEW v \in Viewers, Accept(v) PROVE RelayInv'
    BY <1>2, <2>3, AcceptStep
  <2>4. ASSUME NEW v \in Viewers, SendSnapshot(v) \/ SafeSend(v) PROVE RelayInv'
    BY <1>2, <2>4, SendStep
  <2>5. ASSUME NEW v \in Viewers, NEW r \in Rows, SelectTicket(v, r) PROVE RelayInv'
    BY <1>2, <2>5, SelectStep
  <2> QED
    BY <1>2, <2>1, <2>2, <2>3, <2>4, <2>5 DEF RelayNext
<1> QED
  BY <1>1, <1>2, PTL DEF RelaySpec

\* A viewer is sent each event once and misses none of its row; the store files an event
\* once and keeps to its cap.
THEOREM TimelinesWhole == RelaySpec => []TimelineWhole
<1>1. ASSUME RelayInv PROVE TimelineWhole
  <2>1. ASSUME NEW v \in Viewers, accepted[v]
        PROVE  /\ IsInjective(shown[v] \o snapshot[v] \o live[v])
               /\ \A r \in watching[v] : \A e \in ToSet(filed[r]) :
                      Key[e] = r => e \in ToSet(shown[v] \o snapshot[v] \o live[v])
    <3> DEFINE first == shown[v] \o snapshot[v]
    <3>1. SentOnce(v) /\ RowSeen(v)
      BY <1>1 DEF RelayInv
    <3>2. /\ first \in Seq(Events) /\ IsInjective(first)
          /\ ToSet(first) = ToSet(shown[v]) \cup ToSet(snapshot[v])
      BY <3>1, ConcatElements DEF SentOnce
    <3> HIDE DEF first
    <3>3. /\ IsInjective(first \o live[v])
          /\ ToSet(first \o live[v]) = ToSet(first) \cup ToSet(live[v])
      BY <3>1, <3>2, ConcatElements DEF SentOnce
    <3>4. \A r \in watching[v] : \A e \in ToSet(filed[r]) :
              Key[e] = r => e \in ToSet(first \o live[v])
      BY <2>1, <3>1, <3>2, <3>3 DEF RowSeen
    <3> QED
      BY <3>3, <3>4 DEF first
  <2>2. ASSUME NEW r \in Rows, NEW q \in Rows, NEW i \in DOMAIN filed[r], NEW j \in DOMAIN filed[q],
               filed[r][i] = filed[q][j]
        PROVE  r = q /\ i = j
    <3>1. IsInjective(filed[r])
      BY <1>1 DEF RelayInv, StoreSound
    <3>2. r # q => ToSet(filed[r]) \cap ToSet(filed[q]) = {}
      BY <1>1 DEF RelayInv, StoreSound
    <3>3. r = q
      BY <2>2, <3>2 DEF ToSet
    <3> QED
      BY <2>2, <3>1, <3>3 DEF IsInjective
  <2> QED
    BY <1>1, <2>1, <2>2 DEF TimelineWhole, RelayInv, StoreSound
<1> QED
  BY <1>1, RelayInvariance, PTL
=============================================================================
