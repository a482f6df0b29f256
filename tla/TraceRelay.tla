------------------------------ MODULE TraceRelay ------------------------------
(***************************************************************************)
(* The relay of the ticket pipeline tracer.  Every producer posts an event *)
(* in the background and ignores what becomes of it (emit, the two         *)
(* TraceEventPublishers, the dashboard): events arrive in any order or     *)
(* never.  The relay files them under a row of a capped store, folds the   *)
(* row of a correlation id into its ticket's, and passes them on to the    *)
(* viewers of the row.  A handler runs on one event loop up to its next    *)
(* await.                                                                  *)
(***************************************************************************)
EXTENDS Sequences, SequencesExt, FiniteSets, Naturals

CONSTANTS
    Events, Rows,
    Key,                \* the ticket_id an event is posted with
    Correlation,        \* its correlation_id, for the events that have one
    MaxTickets, Viewers,
    MaxSelections       \* bound: the rows that are clicked

ASSUME RelayAssumption ==
    /\ Key \in [Events -> Rows] /\ MaxTickets \in Nat \ {0} /\ MaxSelections \in Nat
    /\ DOMAIN Correlation \subseteq Events
    /\ \A e \in DOMAIN Correlation : Correlation[e] \in Rows

\* A correlation id is a uuid of the browser or of a service's filter, a ticket id one of
\* the database: a row is never folded into another one and another one into it.
ASSUME IdsAssumption ==
    \A e, f \in DOMAIN Correlation :
        Correlation[e] # Key[e] /\ Correlation[f] # Key[f] => Key[e] # Correlation[f]

VARIABLES
    posted,             \* events the relay has received
    order,              \* the rows of the store, the least recently updated first
    filed,              \* their events (<<>> for a row that is not in the store)
    stale,              \* events an hour old
    watching,           \* per viewer, the rows its socket was opened for ({} or one) ...
    accepted,           \* ... whether the relay has subscribed it
    snapshot, live,     \* what the socket's handler and the broadcast tasks have to send
    shown,              \* the steps the viewer shows
    selections

sockets == <<watching, accepted, snapshot, live, shown>>
relayStore == <<order, filed>>
relayVars == <<posted, relayStore, stale, sockets, selections>>

RelayInit ==
    /\ posted = {} /\ order = <<>> /\ filed = [r \in Rows |-> <<>>]
    /\ stale = {} /\ selections = 0
    /\ watching = [v \in Viewers |-> {}] /\ accepted = [v \in Viewers |-> FALSE]
    /\ snapshot = [v \in Viewers |-> <<>>] /\ live = [v \in Viewers |-> <<>>]
    /\ shown = [v \in Viewers |-> <<>>]

-----------------------------------------------------------------------------
(* TraceStore *)

Listed(list, r) == r \in ToSet(list)
Without(list, r) ==
    IF Listed(list, r) THEN RemoveAt(list, CHOOSE i \in DOMAIN list : list[i] = r) ELSE list
\* move_to_end, of a row that is there or new.
MovedToEnd(list, r) == Append(Without(list, r), r)

\* merge_correlation: the events of row c come before those of row r.
Merged(c, r) == [filed EXCEPT ![c] = <<>>, ![r] = filed[c] \o @]

\* _prune: what is an hour old goes, the rest keeps its order.
Pruned(events) ==
    LET fresh == {i \in DOMAIN events : events[i] \notin stale}
    IN  {[n \in DOMAIN at |-> events[at[n]]] :
            at \in {at \in [1..Cardinality(fresh) -> fresh] :
                       \A m, n \in DOMAIN at : m < n => at[m] < at[n]}}

\* add: a new row past the cap evicts the first one.
Add(list, rows, r, e) ==
    LET moved == MovedToEnd(list, r)
        full == Len(moved) > MaxTickets
    IN  /\ order' = IF full THEN Tail(moved) ELSE moved
        /\ \E kept \in Pruned(Append(rows[r], e)) :
               filed' = [q \in Rows |-> IF q = r THEN kept
                                        ELSE IF full /\ q = Head(moved) THEN <<>>
                                        ELSE rows[q]]

-----------------------------------------------------------------------------
(* The relay's handlers *)

\* Mutant of Subscribers: a socket is subscribed once its snapshot is sent.
SubscribersLate(r) == {v \in Viewers : r \in watching[v] /\ accepted[v] /\ snapshot[v] = <<>>}
\* _subscribers
Subscribers(r) == {v \in Viewers : r \in watching[v] /\ accepted[v]}

\* The conditions of post_trace_event and merge_correlation.
Merges(e) ==
    /\ e \in DOMAIN Correlation
    /\ Correlation[e] # Key[e] /\ Listed(order, Correlation[e])

PostTraceEvent(e) ==
    /\ e \notin posted
    /\ posted' = posted \cup {e}
    /\ \/ /\ Merges(e)
          /\ Add(MovedToEnd(Without(order, Correlation[e]), Key[e]),
                 Merged(Correlation[e], Key[e]), Key[e], e)
       \/ ~Merges(e) /\ Add(order, filed, Key[e], e)
    /\ live' = [v \in Viewers |-> IF v \in Subscribers(Key[e]) THEN Append(live[v], e) ELSE live[v]]
    /\ UNCHANGED <<stale, watching, accepted, snapshot, shown, selections>>

HourPasses ==
    /\ posted # stale
    /\ stale' = posted
    /\ UNCHANGED <<posted, relayStore, sockets, selections>>

\* trace_ws: subscribed and the events copied without an await between.
Accept(v) ==
    /\ watching[v] # {} /\ ~accepted[v]
    /\ accepted' = [accepted EXCEPT ![v] = TRUE]
    /\ \E r \in watching[v] : snapshot' = [snapshot EXCEPT ![v] = filed[r]]
    /\ UNCHANGED <<posted, relayStore, stale, watching, live, shown, selections>>

\* One send of the handler or of a broadcast task; each awaits the socket.
SendSnapshot(v) ==
    /\ snapshot[v] # <<>>
    /\ shown' = [shown EXCEPT ![v] = Append(@, snapshot[v][1])]
    /\ snapshot' = [snapshot EXCEPT ![v] = Tail(@)]
    /\ UNCHANGED <<posted, relayStore, stale, watching, accepted, live, selections>>

SafeSend(v) ==
    /\ live[v] # <<>>
    /\ shown' = [shown EXCEPT ![v] = Append(@, live[v][1])]
    /\ live' = [live EXCEPT ![v] = Tail(@)]
    /\ UNCHANGED <<posted, relayStore, stale, watching, accepted, snapshot, selections>>

\* selectTicket, of a listed row: the steps are cleared, the old socket is closed and
\* what is still sent to it is lost.
SelectTicket(v, r) ==
    /\ selections < MaxSelections /\ filed[r] # <<>>
    /\ selections' = selections + 1
    /\ watching' = [watching EXCEPT ![v] = {r}] /\ accepted' = [accepted EXCEPT ![v] = FALSE]
    /\ snapshot' = [snapshot EXCEPT ![v] = <<>>] /\ live' = [live EXCEPT ![v] = <<>>]
    /\ shown' = [shown EXCEPT ![v] = <<>>]
    /\ UNCHANGED <<posted, relayStore, stale>>

RelayNext ==
    \/ \E e \in Events : PostTraceEvent(e)
    \/ HourPasses
    \/ \E v \in Viewers : \/ Accept(v) \/ SendSnapshot(v) \/ SafeSend(v)
                          \/ \E r \in Rows : SelectTicket(v, r)

-----------------------------------------------------------------------------
(* Properties *)

\* However sends, posts, merges and evictions interleave: a subscribed viewer is sent
\* no event twice and every event posted under its row that the store holds; the store
\* files an event once, under one row, and has no more rows than its cap.
TimelineWhole ==
    /\ \A v \in Viewers : accepted[v] =>
           LET all == shown[v] \o snapshot[v] \o live[v]
           IN  /\ IsInjective(all)
               /\ \A r \in watching[v] : \A e \in ToSet(filed[r]) :
                      Key[e] = r => e \in ToSet(all)
    /\ \A r, q \in Rows : \A i \in DOMAIN filed[r], j \in DOMAIN filed[q] :
           filed[r][i] = filed[q][j] => r = q /\ i = j
    /\ \A r \in Rows : filed[r] # <<>> => Listed(order, r)
    /\ Len(order) <= MaxTickets
=============================================================================
