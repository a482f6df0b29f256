------------------------------ MODULE TicketThread ------------------------------
(***************************************************************************)
(* The conversation about one ticket: the messages route over its table,   *)
(* and useTicketThread in every panel that shows the ticket, with its      *)
(* reloads, its Realtime channel and its optimistic sends.  A message is   *)
(* its client_msg_id, the identity that the table and the panels share.    *)
(***************************************************************************)
EXTENDS Naturals

CONSTANTS
    Panels, Messages,
    Author              \* the panel a message is typed in, for the others that are written elsewhere

ASSUME ThreadAssumption ==
    \E typed \in SUBSET Messages : Author \in [typed -> Panels]

VARIABLES
    rows,               \* public.ticket_messages
    bubble,             \* per panel, how a message is shown: "none", "sending", "failed", "sent"
    channel,            \* "closed", "joining", "live"
    echoes,             \* INSERT events under way on a panel's channel
    asked,              \* reloads the route has not read: "live", asked since the channel
                        \* is live, or "early"
    answers,            \* what reloads have read, not yet merged
    missed,             \* the reload of the live channel has failed
    post,               \* per message, its POST: "none", "out" (not yet saved), "saved"
    stray               \* messages whose POST nobody here waits for and that may yet be saved

panels == <<bubble, channel, echoes, asked, answers, missed>>
threadVars == <<rows, panels, post, stray>>

Mine(p) == {m \in DOMAIN Author : Author[m] = p}

ThreadInit ==
    /\ rows = {} /\ stray = Messages \ DOMAIN Author
    /\ bubble = [p \in Panels |-> [m \in Messages |-> "none"]]
    /\ channel = [p \in Panels |-> "closed"]
    /\ echoes = [p \in Panels |-> {}]
    /\ asked = [p \in Panels |-> {}] /\ answers = [p \in Panels |-> {}]
    /\ missed = [p \in Panels |-> FALSE]
    /\ post = [m \in Messages |-> "none"]

-----------------------------------------------------------------------------
(* The panel *)

\* Mutant of Merge: the thread is what the last answer says.
MergeReplaces(p, incoming) ==
    bubble' = [bubble EXCEPT ![p] = [m \in Messages |-> IF m \in incoming THEN "sent" ELSE "none"]]
\* mergeMessages: confirmed rows replace what is shown under their client_msg_id.
Merge(p, incoming) ==
    bubble' = [bubble EXCEPT ![p] = [m \in Messages |-> IF m \in incoming THEN "sent" ELSE @[m]]]

Open(p) ==
    /\ channel[p] = "closed"
    /\ channel' = [channel EXCEPT ![p] = "joining"]
    /\ asked' = [asked EXCEPT ![p] = {"early"}]
    /\ UNCHANGED <<rows, bubble, echoes, answers, missed, post, stray>>

\* The panel goes: its bubbles are forgotten, its requests run on without it.
Close(p) ==
    /\ channel[p] # "closed"
    /\ channel' = [channel EXCEPT ![p] = "closed"]
    /\ bubble' = [bubble EXCEPT ![p] = [m \in Messages |-> "none"]]
    /\ echoes' = [echoes EXCEPT ![p] = {}]
    /\ asked' = [asked EXCEPT ![p] = {}] /\ answers' = [answers EXCEPT ![p] = {}]
    /\ missed' = [missed EXCEPT ![p] = FALSE]
    /\ stray' = stray \cup {m \in Mine(p) : post[m] = "out"}
    /\ post' = [m \in Messages |-> IF m \in Mine(p) THEN "none" ELSE post[m]]
    /\ UNCHANGED rows

\* SUBSCRIBED, the first time or after the channel was lost: reload.
Subscribed(p) ==
    /\ channel[p] = "joining"
    /\ channel' = [channel EXCEPT ![p] = "live"]
    /\ asked' = [asked EXCEPT ![p] = @ \cup {"live"}]
    /\ missed' = [missed EXCEPT ![p] = FALSE]
    /\ UNCHANGED <<rows, bubble, echoes, answers, post, stray>>

\* Also while reloads are under way, which will have been asked before the channel is
\* live again.
ChannelLost(p) ==
    /\ channel[p] = "live"
    /\ channel' = [channel EXCEPT ![p] = "joining"]
    /\ echoes' = [echoes EXCEPT ![p] = {}]
    /\ asked' = [asked EXCEPT ![p] = {"early" : ask \in @}]
    /\ answers' = [answers EXCEPT ![p] = {[ask |-> "early", rows |-> a.rows] : a \in @}]
    /\ UNCHANGED <<rows, bubble, missed, post, stray>>

Echo(p) ==
    \E m \in echoes[p] :
        /\ echoes' = [echoes EXCEPT ![p] = @ \ {m}]
        /\ Merge(p, {m})
        /\ UNCHANGED <<rows, channel, asked, answers, missed, post, stray>>

\* GET, and its answer; answers may overtake one another.
ReadRows(p) ==
    \E ask \in asked[p] :
        /\ asked' = [asked EXCEPT ![p] = @ \ {ask}]
        /\ answers' = [answers EXCEPT ![p] = @ \cup {[ask |-> ask, rows |-> rows]}]
        /\ UNCHANGED <<rows, bubble, channel, echoes, missed, post, stray>>

Reload(p) ==
    \E a \in answers[p] :
        /\ answers' = [answers EXCEPT ![p] = @ \ {a}]
        /\ \/ Merge(p, a.rows) /\ UNCHANGED missed
           \/ missed' = [missed EXCEPT ![p] = @ \/ a.ask = "live"] /\ UNCHANGED bubble
        /\ UNCHANGED <<rows, channel, echoes, asked, post, stray>>

\* send, and retry of a failed bubble under the same client_msg_id.
Send(p) ==
    \E m \in Mine(p) :
        /\ channel[p] # "closed"
        /\ \/ bubble[p][m] = "none" /\ m \notin rows \cup stray
           \/ bubble[p][m] = "failed"
        /\ bubble' = [bubble EXCEPT ![p][m] = "sending"]
        /\ post' = [post EXCEPT ![m] = "out"]
        /\ UNCHANGED <<rows, channel, echoes, asked, answers, missed, stray>>

\* Mutant of Downgrade: whatever the bubble shows, it becomes a failed one.
DowngradeAny(p, m) == bubble' = [bubble EXCEPT ![p][m] = "failed"]
\* Only a pending bubble is downgraded: the echo may have confirmed it.
Downgrade(p, m) ==
    bubble' = [bubble EXCEPT ![p][m] = IF @ = "sending" THEN "failed" ELSE @]

-----------------------------------------------------------------------------
(* The route *)

\* The upsert ignores a duplicate; only an insert is echoed.
Insert(m) ==
    /\ rows' = rows \cup {m}
    /\ echoes' = [p \in Panels |->
                    IF channel[p] = "live" /\ m \notin rows THEN echoes[p] \cup {m} ELSE echoes[p]]

Upsert(m) ==
    /\ \/ post[m] = "out" /\ post' = [post EXCEPT ![m] = "saved"] /\ UNCHANGED stray
       \/ m \in stray /\ stray' = stray \ {m} /\ UNCHANGED post
    /\ Insert(m)
    /\ UNCHANGED <<bubble, channel, asked, answers, missed>>

Answered(m) ==
    /\ post[m] = "saved"
    /\ post' = [post EXCEPT ![m] = "none"]
    /\ Merge(Author[m], {m})
    /\ UNCHANGED <<rows, channel, echoes, asked, answers, missed, stray>>

\* A handler that refuses or fails, before or after the insert, or an answer or a
\* request that is lost: the request may yet arrive.
PostFails(m) ==
    /\ post[m] \in {"out", "saved"}
    /\ post' = [post EXCEPT ![m] = "none"]
    /\ stray' \in {stray, IF post[m] = "out" THEN stray \cup {m} ELSE stray}
    /\ Downgrade(Author[m], m)
    /\ UNCHANGED <<rows, channel, echoes, asked, answers, missed>>

ThreadNext ==
    \/ \E p \in Panels : \/ Open(p) \/ Close(p) \/ Subscribed(p) \/ ChannelLost(p)
                         \/ Echo(p) \/ ReadRows(p) \/ Reload(p) \/ Send(p)
    \/ \E m \in Messages : Upsert(m) \/ Answered(m) \/ PostFails(m)

-----------------------------------------------------------------------------
(* Properties *)

\* A panel whose channel is live and whose reload has come back has every saved
\* message, or its echo is on the way: none falls between the first load and the
\* channel (useTicketThread.ts: "Anything inserted between the first load and the
\* channel going live would otherwise be missed").
NoneMissed ==
    \A p \in Panels :
        /\ channel[p] = "live" /\ "live" \notin asked[p] /\ ~missed[p]
        /\ \A a \in answers[p] : a.ask # "live"
        => \A m \in rows \ echoes[p] : bubble[p][m] = "sent"

\* What a bubble says of a message is true: a sent one is saved and stays sent while
\* its panel is open, a pending one has a request under way.
BubblesTrue ==
    /\ [](\A p \in Panels, m \in Messages :
             /\ bubble[p][m] = "sent" => m \in rows
             /\ bubble[p][m] = "sending" => post[m] # "none")
    /\ [][\A p \in Panels, m \in Messages :
             bubble[p][m] = "sent" /\ channel'[p] # "closed" => bubble'[p][m] = "sent"]_threadVars
=============================================================================
