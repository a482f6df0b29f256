------------------------- MODULE TicketDeliveryProofs -------------------------
(***************************************************************************)
(* Proofs about TicketDelivery for any tickets, workers, pool and faults:  *)
(* the types, DrainComplete, OneMessage, and that dispatcher and queue     *)
(* implement TicketHandover.                                               *)
(* HandOffEnds and Served are liveness properties and stay with TLC.       *)
(***************************************************************************)
EXTENDS TicketDelivery, SequenceTheorems, WellFoundedInduction, TLAPS

\* No message occurs twice.
Distinct(list) == \A i, j \in DOMAIN list : list[i] = list[j] => i = j

-----------------------------------------------------------------------------
(* What the commands do to a list *)

\* LPUSH: the new message is first, the others follow.
LEMMA ConsList ==
    ASSUME NEW S, NEW s \in Seq(S), NEW e \in S
    PROVE  /\ Cons(e, s) \in Seq(S)
           /\ \A t : Occurs(t, Cons(e, s)) <=> t = e \/ Occurs(t, s)
           /\ Distinct(s) /\ ~Occurs(e, s) => Distinct(Cons(e, s))
<1> DEFINE c == Cons(e, s)
<1>1. /\ c \in Seq(S) /\ Len(c) = Len(s) + 1 /\ Len(s) \in Nat
      /\ DOMAIN c = 1..Len(c) /\ DOMAIN s = 1..Len(s)
      /\ c[1] = e /\ \A i \in 1..Len(s) : c[i + 1] = s[i]
  BY DEF Cons
<1> HIDE DEF c
<1>2. \A i \in 2..Len(c) : i - 1 \in 1..Len(s) /\ c[i] = s[i - 1]
  BY <1>1
<1>3. \A t : Occurs(t, c) <=> t = e \/ Occurs(t, s)
  <2> TAKE t
  <2>1. ASSUME Occurs(t, c) PROVE t = e \/ Occurs(t, s)
    <3>1. PICK i \in DOMAIN c : c[i] = t
      BY <2>1 DEF Occurs
    <3>2. CASE i = 1
      BY <1>1, <3>1, <3>2
    <3>3. CASE i \in 2..Len(c)
      BY <1>1, <1>2, <3>1, <3>3 DEF Occurs
    <3> QED
      BY <1>1, <3>2, <3>3
  <2>2. ASSUME t = e PROVE Occurs(t, c)
    <3>1. 1 \in DOMAIN c
      BY <1>1
    <3> QED
      BY <1>1, <2>2, <3>1 DEF Occurs
  <2>3. ASSUME Occurs(t, s) PROVE Occurs(t, c)
    <3>1. PICK i \in DOMAIN s : s[i] = t
      BY <2>3 DEF Occurs
    <3>2. i + 1 \in DOMAIN c /\ c[i + 1] = t
      BY <1>1, <3>1
    <3> QED
      BY <3>2 DEF Occurs
  <2> QED
    BY <2>1, <2>2, <2>3
<1>4. ASSUME Distinct(s), ~Occurs(e, s) PROVE Distinct(c)
  <2> SUFFICES ASSUME NEW i \in DOMAIN c, NEW j \in DOMAIN c, c[i] = c[j]
               PROVE  i = j
    BY DEF Distinct
  <2>1. \A k \in 2..Len(c) : c[k] # e
    BY <1>1, <1>2, <1>4 DEF Occurs
  <2>2. CASE i = 1 \/ j = 1
    BY <1>1, <2>1, <2>2
  <2>3. CASE i \in 2..Len(c) /\ j \in 2..Len(c)
    <3>1. i - 1 \in DOMAIN s /\ j - 1 \in DOMAIN s /\ s[i - 1] = s[j - 1]
      BY <1>1, <1>2, <2>3
    <3>2. i - 1 = j - 1
      BY <1>4, <3>1 DEF Distinct
    <3> QED
      BY <1>1, <2>3, <3>2
  <2> QED
    BY <1>1, <2>2, <2>3
<1> QED
  BY <1>1, <1>3, <1>4 DEF c

\* BLMOVE and RPOPLPUSH: the last message goes, the others stay.
LEMMA FrontList ==
    ASSUME NEW S, NEW s \in Seq(S), s # <<>>
    PROVE  /\ Front(s) \in Seq(S) /\ Last(s) \in S
           /\ \A t : Occurs(t, s) <=> t = Last(s) \/ Occurs(t, Front(s))
           /\ Distinct(s) => Distinct(Front(s)) /\ ~Occurs(Last(s), Front(s))
<1> DEFINE f == Front(s)
           n == Len(s)
<1>1. n \in Nat \ {0} /\ DOMAIN s = 1..n /\ Last(s) = s[n] /\ Last(s) \in S
  BY ElementOfSeq DEF Last
<1>2. f \in Seq(S) /\ Len(f) = n - 1 /\ \A i \in 1..(n - 1) : f[i] = s[i]
  <2>1. \A i \in 1..(n - 1) : s[i] \in S
    BY <1>1, ElementOfSeq
  <2> QED
    BY <1>1, <2>1, SubSeqProperties DEF Front
<1>3. DOMAIN f = 1..(n - 1)
  BY <1>1, <1>2
<1> HIDE DEF f, n
<1>4. \A t : Occurs(t, s) <=> t = Last(s) \/ Occurs(t, f)
  <2> TAKE t
  <2>1. ASSUME Occurs(t, s) PROVE t = Last(s) \/ Occurs(t, f)
    <3>1. PICK i \in 1..n : s[i] = t
      BY <1>1, <2>1 DEF Occurs
    <3>2. CASE i = n
      BY <1>1, <3>1, <3>2
    <3>3. CASE i \in 1..(n - 1)
      BY <1>2, <1>3, <3>1, <3>3 DEF Occurs
    <3> QED
      BY <1>1, <3>2, <3>3
  <2>2. n \in DOMAIN s /\ s[n] = Last(s)
    BY <1>1
  <2>3. ASSUME Occurs(t, f) PROVE Occurs(t, s)
    <3>1. PICK i \in 1..(n - 1) : f[i] = t
      BY <1>3, <2>3 DEF Occurs
    <3>2. i \in DOMAIN s /\ s[i] = t
      BY <1>1, <1>2, <3>1
    <3> QED
      BY <3>2 DEF Occurs
  <2> QED
    BY <2>1, <2>2, <2>3 DEF Occurs
<1>5. ASSUME Distinct(s) PROVE Distinct(f) /\ ~Occurs(Last(s), f)
  <2>1. \A i \in 1..(n - 1) : i \in DOMAIN s /\ i # n /\ n \in DOMAIN s
    BY <1>1
  <2> QED
    BY <1>1, <1>2, <1>3, <1>5, <2>1 DEF Occurs, Distinct
<1> QED
  BY <1>1, <1>2, <1>4, <1>5 DEF f

\* A thread takes the oldest task: the first goes, the others stay.
LEMMA TailList ==
    ASSUME NEW S, NEW s \in Seq(S), s # <<>>
    PROVE  /\ Tail(s) \in Seq(S) /\ Head(s) \in S /\ Len(Tail(s)) = Len(s) - 1
           /\ \A t : Occurs(t, s) <=> t = Head(s) \/ Occurs(t, Tail(s))
           /\ Distinct(s) => Distinct(Tail(s)) /\ ~Occurs(Head(s), Tail(s))
<1> DEFINE f == Tail(s)
           n == Len(s)
<1>1. n \in Nat \ {0} /\ DOMAIN s = 1..n /\ Head(s) = s[1] /\ Head(s) \in S
  BY ElementOfSeq
<1>2. f \in Seq(S) /\ Len(f) = n - 1 /\ \A i \in 1..(n - 1) : f[i] = s[i + 1]
  BY <1>1, HeadTailProperties
<1>3. DOMAIN f = 1..(n - 1)
  BY <1>1, <1>2
<1> HIDE DEF f, n
<1>4. \A t : Occurs(t, s) <=> t = Head(s) \/ Occurs(t, f)
  <2> TAKE t
  <2>1. ASSUME Occurs(t, s) PROVE t = Head(s) \/ Occurs(t, f)
    <3>1. PICK i \in 1..n : s[i] = t
      BY <1>1, <2>1 DEF Occurs
    <3>2. CASE i = 1
      BY <1>1, <3>1, <3>2
    <3>3. CASE i # 1
      <4>1. i - 1 \in DOMAIN f /\ f[i - 1] = t
        BY <1>1, <1>2, <1>3, <3>1, <3>3
      <4> QED
        BY <4>1 DEF Occurs
    <3> QED
      BY <3>2, <3>3
  <2>2. 1 \in DOMAIN s /\ s[1] = Head(s)
    BY <1>1
  <2>3. ASSUME Occurs(t, f) PROVE Occurs(t, s)
    <3>1. PICK i \in 1..(n - 1) : f[i] = t
      BY <1>3, <2>3 DEF Occurs
    <3>2. i + 1 \in DOMAIN s /\ s[i + 1] = t
      BY <1>1, <1>2, <3>1
    <3> QED
      BY <3>2 DEF Occurs
  <2> QED
    BY <2>1, <2>2, <2>3 DEF Occurs
<1>5. ASSUME Distinct(s) PROVE Distinct(f) /\ ~Occurs(Head(s), f)
  <2>1. \A i \in DOMAIN f : i + 1 \in DOMAIN s /\ i + 1 # 1 /\ 1 \in DOMAIN s /\ f[i] = s[i + 1]
    BY <1>1, <1>2, <1>3
  <2>2. ~Occurs(Head(s), f)
    BY <1>1, <1>5, <2>1 DEF Occurs, Distinct
  <2>3. \A i, j \in DOMAIN f : f[i] = f[j] => i + 1 = j + 1
    BY <1>5, <2>1 DEF Distinct
  <2>4. Distinct(f)
    BY <1>1, <1>3, <2>3 DEF Distinct
  <2> QED
    BY <2>2, <2>4
<1> QED
  BY <1>1, <1>2, <1>4, <1>5 DEF f, n

\* The executor queues a task behind the others.
LEMMA AppendList ==
    ASSUME NEW S, NEW s \in Seq(S), NEW e \in S
    PROVE  /\ Append(s, e) \in Seq(S) /\ Len(Append(s, e)) = Len(s) + 1
           /\ \A t : Occurs(t, Append(s, e)) <=> t = e \/ Occurs(t, s)
           /\ Distinct(s) /\ ~Occurs(e, s) => Distinct(Append(s, e))
<1> DEFINE c == Append(s, e)
           n == Len(s)
<1>1. /\ c \in Seq(S) /\ Len(c) = n + 1 /\ n \in Nat
      /\ DOMAIN c = 1..(n + 1) /\ DOMAIN s = 1..n
      /\ c[n + 1] = e /\ \A i \in 1..n : c[i] = s[i]
  BY AppendProperties
<1> HIDE DEF c, n
<1>2. \A t : Occurs(t, c) <=> t = e \/ Occurs(t, s)
  <2> TAKE t
  <2>1. ASSUME Occurs(t, c) PROVE t = e \/ Occurs(t, s)
    <3>1. PICK i \in DOMAIN c : c[i] = t
      BY <2>1 DEF Occurs
    <3> QED
      BY <1>1, <3>1 DEF Occurs
  <2>2. n + 1 \in DOMAIN c /\ \A i \in DOMAIN s : i \in DOMAIN c /\ c[i] = s[i]
    BY <1>1
  <2> QED
    BY <1>1, <2>1, <2>2 DEF Occurs
<1>3. ASSUME Distinct(s), ~Occurs(e, s) PROVE Distinct(c)
  <2>1. \A i \in DOMAIN s : c[i] = s[i] /\ c[i] # e
    BY <1>1, <1>3 DEF Occurs
  <2> QED
    BY <1>1, <1>3, <2>1 DEF Distinct
<1> QED
  BY <1>1, <1>2, <1>3 DEF c, n

\* LREM, and the executor taking a task back: one occurrence goes, in a list of
\* distinct tickets the only one.
LEMMA RemoveList ==
    ASSUME NEW S, NEW s \in Seq(S), NEW e
    PROVE  /\ RemoveFirst(s, e) \in Seq(S) /\ Len(RemoveFirst(s, e)) <= Len(s)
           /\ \A t : Occurs(t, RemoveFirst(s, e)) => Occurs(t, s)
           /\ \A t : t # e /\ Occurs(t, s) => Occurs(t, RemoveFirst(s, e))
           /\ Distinct(s) => Distinct(RemoveFirst(s, e)) /\ ~Occurs(e, RemoveFirst(s, e))
<1> DEFINE r == RemoveFirst(s, e)
           n == Len(s)
           I == {i \in 1..n : s[i] = e}
<1>1. n \in Nat /\ DOMAIN s = 1..n /\ \A i \in 1..n : s[i] \in S
  BY ElementOfSeq
<1>2. CASE I = {}
  <2>1. r = s /\ ~Occurs(e, s)
    BY <1>1, <1>2 DEF RemoveFirst, Occurs
  <2> QED
    BY <1>1, <2>1
<1>3. CASE I # {}
  <2> DEFINE k == Min(I)
  <2>1. k \in 1..n /\ s[k] = e
    <3>1. I \subseteq Nat
      OBVIOUS
    <3>2. PICK m \in I : \A i \in I : ~(<<i, m>> \in OpToRel(<, Nat))
      BY <1>3, <3>1, NatLessThanWellFounded, WFMin
    <3>3. \A i \in I : m <= i
      <4> SUFFICES ASSUME NEW i \in I, i < m PROVE FALSE
        BY <1>1
      <4>1. <<i, m>> \in Nat \X Nat
        BY <3>1
      <4>2. <<i, m>> \in OpToRel(<, Nat)
        BY <4>1 DEF OpToRel
      <4> QED
        BY <3>2, <4>2
    <3>4. k \in I
      BY <3>3 DEF Min
    <3> QED
      BY <3>4
  <2>2. r = SubSeq(s, 1, k - 1) \o SubSeq(s, k + 1, n)
    BY <1>1, <1>3 DEF RemoveFirst, RemoveAt, SelectInSeq
  <2> HIDE DEF k, r, n
  <2>3. /\ r \in Seq(S) /\ Len(r) = n - 1 /\ DOMAIN r = 1..(n - 1)
        /\ \A i \in 1..(n - 1) : r[i] = IF i < k THEN s[i] ELSE s[i + 1]
    <3> DEFINE a == SubSeq(s, 1, k - 1)
               b == SubSeq(s, k + 1, n)
    <3>1. a \in Seq(S) /\ Len(a) = k - 1 /\ \A i \in 1..(k - 1) : a[i] = s[i]
      <4>1. \A i \in 1..(k - 1) : s[i] \in S
        BY <1>1, <2>1
      <4> QED
        BY <1>1, <2>1, <4>1, SubSeqProperties
    <3>2. b \in Seq(S) /\ Len(b) = n - k /\ \A i \in 1..(n - k) : b[i] = s[k + i]
      <4>1. \A i \in (k + 1)..n : s[i] \in S
        BY <1>1, <2>1
      <4>2. k + 1 \in Int /\ n \in Int
        BY <1>1, <2>1
      <4>3. /\ b \in Seq(S) /\ Len(b) = IF k + 1 <= n THEN n - (k + 1) + 1 ELSE 0
            /\ \A i \in 1..(n - (k + 1) + 1) : b[i] = s[(k + 1) + i - 1]
        BY <4>1, <4>2, SubSeqProperties
      <4> QED
        BY <1>1, <2>1, <4>3
    <3>3. r \in Seq(S) /\ Len(r) = n - 1 /\ DOMAIN r = 1..(n - 1)
      BY <1>1, <2>1, <2>2, <3>1, <3>2, ConcatProperties
    <3>4. \A i \in 1..(n - 1) : r[i] = IF i <= k - 1 THEN a[i] ELSE b[i - (k - 1)]
      <4>1. Len(a) + Len(b) = n - 1
        BY <1>1, <2>1, <3>1, <3>2
      <4>2. \A i \in 1..(Len(a) + Len(b)) :
                (a \o b)[i] = IF i <= Len(a) THEN a[i] ELSE b[i - Len(a)]
        BY <3>1, <3>2, ConcatProperties
      <4> HIDE DEF a, b
      <4> QED
        BY <2>2, <3>1, <4>1, <4>2 DEF a, b
    <3> HIDE DEF a, b
    <3>5. \A i \in 1..(n - 1) : r[i] = IF i < k THEN s[i] ELSE s[i + 1]
      <4> TAKE i \in 1..(n - 1)
      <4>1. CASE i <= k - 1
        BY <1>1, <2>1, <3>1, <3>4, <4>1
      <4>2. CASE i >= k
        <5>1. i - (k - 1) \in 1..(n - k) /\ k + (i - (k - 1)) = i + 1
          BY <1>1, <2>1, <4>2
        <5> QED
          BY <1>1, <2>1, <3>2, <3>4, <4>2, <5>1
      <4> QED
        BY <1>1, <2>1, <4>1, <4>2
    <3> QED
      BY <3>3, <3>5
  <2>4. \A t : Occurs(t, r) => Occurs(t, s)
    <3> SUFFICES ASSUME NEW t, NEW i \in 1..(n - 1), r[i] = t PROVE Occurs(t, s)
      BY <2>3 DEF Occurs
    <3>1. i \in DOMAIN s /\ i + 1 \in DOMAIN s
      BY <1>1
    <3> QED
      BY <1>1, <2>1, <2>3, <3>1 DEF Occurs
  <2>5. \A t : t # e /\ Occurs(t, s) => Occurs(t, r)
    <3> SUFFICES ASSUME NEW t, t # e, NEW i \in 1..n, s[i] = t PROVE Occurs(t, r)
      BY <1>1 DEF Occurs
    <3>1. CASE i < k
      <4>1. i \in 1..(n - 1)
        BY <1>1, <2>1, <3>1
      <4> QED
        BY <2>3, <3>1, <4>1 DEF Occurs
    <3>2. CASE i > k
      <4>1. i - 1 \in 1..(n - 1) /\ ~(i - 1 < k) /\ (i - 1) + 1 = i
        BY <1>1, <2>1, <3>2
      <4> QED
        BY <2>3, <4>1 DEF Occurs
    <3> QED
      BY <1>1, <2>1, <3>1, <3>2
  <2>6. ASSUME Distinct(s) PROVE Distinct(r) /\ ~Occurs(e, r)
    <3>1. \A i \in 1..(n - 1) : r[i] # e
      <4> TAKE i \in 1..(n - 1)
      <4>1. i \in DOMAIN s /\ i + 1 \in DOMAIN s /\ k \in DOMAIN s
        BY <1>1, <2>1
      <4>2. CASE i < k
        BY <2>1, <2>3, <2>6, <4>1, <4>2 DEF Distinct
      <4>3. CASE i >= k
        <5>1. i + 1 # k
          BY <2>1, <4>3
        <5> QED
          BY <2>1, <2>3, <2>6, <4>1, <4>3, <5>1 DEF Distinct
      <4> QED
        BY <2>1, <4>2, <4>3
    <3>2. \A i, j \in 1..(n - 1) : r[i] = r[j] => i = j
      <4> TAKE i, j \in 1..(n - 1)
      <4> DEFINE at(l) == IF l < k THEN l ELSE l + 1
      <4>1. at(i) \in DOMAIN s /\ at(j) \in DOMAIN s
        BY <1>1, <2>1
      <4>2. r[i] = s[at(i)] /\ r[j] = s[at(j)]
        BY <2>3
      <4>3. r[i] = r[j] => at(i) = at(j)
        BY <2>6, <4>1, <4>2 DEF Distinct
      <4>4. at(i) = at(j) => i = j
        BY <2>1
      <4> QED
        BY <4>3, <4>4
    <3> QED
      BY <2>3, <3>1, <3>2 DEF Distinct, Occurs
  <2> QED
    BY <1>1, <2>3, <2>4, <2>5, <2>6 DEF r, n
<1> QED
  BY <1>2, <1>3

-----------------------------------------------------------------------------
(* The inductive invariant *)

\* The executor's queue holds exactly the tickets that wait in it, each once.
PendingInv ==
    /\ Distinct(workQueue)
    /\ \A t \in Tickets : place[t] \in {"offered", "queued"} <=> Occurs(t, workQueue)

\* No ticket is twice in Redis.
ListInv ==
    /\ Distinct(ticketQueue) /\ Distinct(processing)
    /\ \A t \in Tickets : ~(Occurs(t, ticketQueue) /\ Occurs(t, processing))

\* Before its hand-off has been tried, a ticket is unknown to Redis and the workers.
PlaceInv ==
    \A t \in Tickets : place[t] \notin {"done", "failed"} =>
        /\ ~InRedis(t) /\ t \notin handled \cup rejected
        /\ \A p \in Processes : message[p] # t

\* A message a worker handles is still in Redis or was reacted to by another
\* worker; one it removes was reacted to.
HeldInv ==
    \A p \in Processes :
        /\ phase[p] = "handling" => InRedis(message[p]) \/ message[p] \in handled \cup rejected
        /\ phase[p] = "removing" => message[p] \in handled \cup rejected

Inv == TypeOK /\ PendingInv /\ DrainComplete /\ ListInv /\ PlaceInv /\ HeldInv

-----------------------------------------------------------------------------
(* The actions *)

\* Every step is one of the dispatcher or of a worker.
LEMMA StepCases ==
    ASSUME [Next]_vars
    PROVE  \/ /\ \/ \E t \in Tickets : \/ Save(t) \/ CheckRunning(t) \/ Execute(t)
                                       \/ Recheck(t) \/ CallerRuns(t)
                                       \/ Push(t) \/ PushFails(t)
                 \/ Poll \/ SetStopping \/ Shutdown \/ Drained \/ DrainTimeout
                 \/ CloseRedis \/ Kill
              /\ UNCHANGED workerVars
           \/ /\ \E p \in Processes : \/ StartWorker(p) \/ Recover(p) \/ Take(p) \/ ReplyLost(p)
                                      \/ Handle(p) \/ LRem(p) \/ LRemFails(p) \/ Crash(p)
              /\ UNCHANGED dispatcherVars
           \/ UNCHANGED vars
BY DEF Next, DispatcherNext, RequestStep, StopStep, QueueNext, Work

\* BLMOVE and RPOPLPUSH: what was in one of the lists still is, and nothing else.
LEMMA MoveList ==
    ASSUME NEW S, NEW from \in Seq(S), NEW to \in Seq(S), from # <<>>
    PROVE  /\ Front(from) \in Seq(S) /\ Cons(Last(from), to) \in Seq(S) /\ Last(from) \in S
           /\ \A t : Occurs(t, Front(from)) \/ Occurs(t, Cons(Last(from), to))
                        <=> Occurs(t, from) \/ Occurs(t, to)
           /\ Distinct(from) /\ Distinct(to) /\ (\A t \in S : ~(Occurs(t, from) /\ Occurs(t, to)))
                 => /\ Distinct(Front(from)) /\ Distinct(Cons(Last(from), to))
                    /\ \A t \in S : ~(Occurs(t, Front(from)) /\ Occurs(t, Cons(Last(from), to)))
<1>1. /\ Front(from) \in Seq(S) /\ Last(from) \in S
      /\ \A t : Occurs(t, from) <=> t = Last(from) \/ Occurs(t, Front(from))
      /\ Distinct(from) => Distinct(Front(from)) /\ ~Occurs(Last(from), Front(from))
  BY FrontList
<1>2. /\ Cons(Last(from), to) \in Seq(S)
      /\ \A t : Occurs(t, Cons(Last(from), to)) <=> t = Last(from) \/ Occurs(t, to)
      /\ Distinct(to) /\ ~Occurs(Last(from), to) => Distinct(Cons(Last(from), to))
  BY <1>1, ConsList
<1> QED
  BY <1>1, <1>2

-----------------------------------------------------------------------------
(* Type correctness *)

\* Nothing is in Redis, under way or handled at first.
LEMMA InitInv == Init => Inv
<1> SUFFICES ASSUME Init PROVE Inv
  OBVIOUS
<1> USE DEF Init, DispatcherInit, QueueInit
<1>1. <<>> \in Seq(Tickets) /\ Len(<<>>) = 0 /\ DOMAIN <<>> = {}
  OBVIOUS
<1>2. TypeOK
  <2>1. 0 \in 0..MaxFaults /\ 0 <= Capacity
    BY QueueAssumption, DispatcherAssumption
  <2> QED
    BY <1>1, <2>1, QueueAssumption DEF TypeOK, Places, Phases
<1>3. PendingInv /\ ListInv /\ \A t \in Tickets : ~InRedis(t)
  BY <1>1 DEF PendingInv, ListInv, InRedis, Occurs, Distinct
<1>4. DrainComplete /\ PlaceInv /\ HeldInv
  BY <1>3, QueueAssumption DEF DrainComplete, PlaceInv, HeldInv
<1> QED
  BY <1>2, <1>3, <1>4 DEF Inv

\* The bound on faults is kept.
LEMMA FaultType ==
    ASSUME faults \in 0..MaxFaults, Fault
    PROVE  faults' \in 0..MaxFaults
BY QueueAssumption DEF Fault

\* No step takes a variable out of its type, or leaves a worker without the
\* message it handles.
LEMMA TypeStep ==
    ASSUME TypeOK, [Next]_vars
    PROVE  TypeOK'
<1>1. ASSUME NEW t \in Tickets, Save(t), UNCHANGED workerVars
      PROVE  TypeOK'
  BY <1>1 DEF Save, Put, TypeOK, Places, lists, workerVars
<1>2. ASSUME NEW t \in Tickets, CheckRunning(t), UNCHANGED workerVars
      PROVE  TypeOK'
  BY <1>2 DEF CheckRunning, Put, TypeOK, Places, lists, workerVars
<1>3. ASSUME NEW t \in Tickets, Execute(t), UNCHANGED workerVars
      PROVE  TypeOK'
  <2>1. workQueue' \in Seq(Tickets) /\ Len(workQueue') <= Capacity
    <3>1. Append(workQueue, t) \in Seq(Tickets) /\ Len(Append(workQueue, t)) = Len(workQueue) + 1
      BY AppendList DEF TypeOK
    <3>2. workQueue \in Seq(Tickets) /\ Len(workQueue) \in Nat /\ Len(workQueue) <= Capacity
      BY DEF TypeOK
    <3>3. \/ workQueue' = workQueue
          \/ workQueue' = Append(workQueue, t) /\ Len(workQueue) < Capacity
      BY <1>3 DEF Execute
    <3>4. Capacity \in Nat
      BY DispatcherAssumption
    <3> QED
      BY <3>1, <3>2, <3>3, <3>4
  <2>2. place' \in [Tickets -> Places]
    BY <1>3 DEF Execute, Put, TypeOK, Places
  <2> QED
    BY <1>3, <2>1, <2>2 DEF Execute, TypeOK, lists, workerVars
<1>4. ASSUME NEW t \in Tickets, Recheck(t), UNCHANGED workerVars
      PROVE  TypeOK'
  <2>1. workQueue' \in Seq(Tickets) /\ Len(workQueue') <= Capacity
    <3>1. /\ RemoveFirst(workQueue, t) \in Seq(Tickets)
          /\ Len(RemoveFirst(workQueue, t)) <= Len(workQueue)
      BY RemoveList DEF TypeOK
    <3>2. Len(workQueue) \in Nat /\ Len(RemoveFirst(workQueue, t)) \in Nat
      BY <3>1
    <3> QED
      BY <1>4, <3>1, <3>2, DispatcherAssumption DEF Recheck, TypeOK
  <2>2. place' \in [Tickets -> Places]
    BY <1>4 DEF Recheck, Put, TypeOK, Places
  <2> QED
    BY <1>4, <2>1, <2>2 DEF Recheck, TypeOK, lists, workerVars
<1>5. ASSUME NEW t \in Tickets, CallerRuns(t), UNCHANGED workerVars
      PROVE  TypeOK'
  BY <1>5 DEF CallerRuns, Put, TypeOK, Places, lists, workerVars
<1>6. ASSUME NEW t \in Tickets, Push(t), UNCHANGED workerVars
      PROVE  TypeOK'
  <2>1. ticketQueue' \in Seq(Tickets)
    BY <1>6, ConsList DEF Push, LPush, TypeOK
  <2> QED
    BY <1>6, <2>1 DEF Push, Put, TypeOK, Places, workerVars
<1>7. ASSUME NEW t \in Tickets, PushFails(t), UNCHANGED workerVars
      PROVE  TypeOK'
  <2>1. ticketQueue' \in Seq(Tickets)
    BY <1>7, ConsList DEF PushFails, LPush, TypeOK
  <2> QED
    BY <1>7, <2>1 DEF PushFails, Put, TypeOK, Places, workerVars
<1>8. ASSUME Poll, UNCHANGED workerVars PROVE TypeOK'
  <2>1. /\ Tail(workQueue) \in Seq(Tickets) /\ Len(Tail(workQueue)) = Len(workQueue) - 1
        /\ Len(workQueue) \in Nat
    BY <1>8, TailList DEF Poll, TypeOK
  <2>2. workQueue' \in Seq(Tickets) /\ Len(workQueue') <= Capacity
    BY <1>8, <2>1, DispatcherAssumption DEF Poll, TypeOK
  <2>3. place' \in [Tickets -> Places]
    BY <1>8 DEF Poll, TypeOK, Places
  <2> QED
    BY <1>8, <2>2, <2>3 DEF Poll, TypeOK, lists, workerVars
<1>9. ASSUME SetStopping, UNCHANGED workerVars PROVE TypeOK'
  BY <1>9 DEF SetStopping, TypeOK, lists, workerVars
<1>10. ASSUME Shutdown, UNCHANGED workerVars PROVE TypeOK'
  BY <1>10 DEF Shutdown, TypeOK, lists, workerVars
<1>11. ASSUME Drained, UNCHANGED workerVars PROVE TypeOK'
  BY <1>11 DEF Drained, TypeOK, lists, workerVars
<1>12. ASSUME DrainTimeout, UNCHANGED workerVars PROVE TypeOK'
  BY <1>12, DispatcherAssumption DEF DrainTimeout, TypeOK, Places, lists, workerVars
<1>13. ASSUME CloseRedis, UNCHANGED workerVars PROVE TypeOK'
  BY <1>13 DEF CloseRedis, TypeOK, lists, workerVars
<1>14. ASSUME Kill, UNCHANGED workerVars PROVE TypeOK'
  BY <1>14 DEF Kill, TypeOK, lists, workerVars
<1>15. ASSUME NEW p \in Processes, StartWorker(p), UNCHANGED dispatcherVars
      PROVE  TypeOK'
  BY <1>15 DEF StartWorker, Become, TypeOK, Phases, lists, dispatcherVars
<1>16. ASSUME NEW p \in Processes, Recover(p), UNCHANGED dispatcherVars
      PROVE  TypeOK'
  <2>1. ticketQueue' \in Seq(Tickets) /\ processing' \in Seq(Tickets)
    <3>1. ticketQueue \in Seq(Tickets) /\ processing \in Seq(Tickets)
      BY DEF TypeOK
    <3>2. CASE processing = <<>>
      BY <1>16, <3>1, <3>2 DEF Recover, lists
    <3>3. CASE processing # <<>>
      <4>1. processing' = Front(processing) /\ ticketQueue' = Cons(Last(processing), ticketQueue)
        BY <1>16, <3>3 DEF Recover, RecoverMove, Move
      <4> QED
        BY <3>1, <3>3, <4>1, MoveList
    <3> QED
      BY <3>2, <3>3
  <2> QED
    BY <1>16, <2>1 DEF Recover, Become, TypeOK, Phases, dispatcherVars
<1>17. ASSUME NEW p \in Processes, Take(p), UNCHANGED dispatcherVars
      PROVE  TypeOK'
  <2>1. ticketQueue # <<>> /\ ticketQueue' \in Seq(Tickets) /\ processing' \in Seq(Tickets)
        /\ Last(ticketQueue) \in Tickets
    BY <1>17, MoveList DEF Take, TakeMove, Move, TypeOK
  <2> QED
    BY <1>17, <2>1 DEF Take, Become, TypeOK, Phases, dispatcherVars
<1>18. ASSUME NEW p \in Processes, ReplyLost(p), UNCHANGED dispatcherVars
      PROVE  TypeOK'
  <2>1. ticketQueue # <<>> /\ ticketQueue' \in Seq(Tickets) /\ processing' \in Seq(Tickets)
        /\ Last(ticketQueue) \in Tickets
    BY <1>18, MoveList DEF ReplyLost, TakeMove, Move, TypeOK
  <2> QED
    BY <1>18, <2>1, FaultType DEF ReplyLost, TypeOK, dispatcherVars
<1>19. ASSUME NEW p \in Processes, Handle(p), UNCHANGED dispatcherVars
      PROVE  TypeOK'
  BY <1>19 DEF Handle, Become, TypeOK, Phases, lists, dispatcherVars
<1>20. ASSUME NEW p \in Processes, LRem(p), UNCHANGED dispatcherVars
      PROVE  TypeOK'
  <2>1. processing' \in Seq(Tickets)
    BY <1>20, RemoveList DEF LRem, TypeOK
  <2> QED
    BY <1>20, <2>1, QueueAssumption DEF LRem, Become, TypeOK, Phases, dispatcherVars
<1>21. ASSUME NEW p \in Processes, LRemFails(p), UNCHANGED dispatcherVars
      PROVE  TypeOK'
  <2>1. processing' \in Seq(Tickets)
    BY <1>21, RemoveList DEF LRemFails, TypeOK
  <2> QED
    BY <1>21, <2>1, FaultType, QueueAssumption
    DEF LRemFails, Become, TypeOK, Phases, dispatcherVars
<1>22. ASSUME NEW p \in Processes, Crash(p), UNCHANGED dispatcherVars
      PROVE  TypeOK'
  BY <1>22, QueueAssumption DEF Crash, Fault, TypeOK, Phases, lists, dispatcherVars
<1>23. ASSUME UNCHANGED vars PROVE TypeOK'
  BY <1>23 DEF vars, lists, TypeOK, dispatcherVars, workerVars
<1> QED
  BY <1>1, <1>2, <1>3, <1>4, <1>5, <1>6, <1>7, <1>8, <1>9, <1>10, <1>11, <1>12, <1>13,
     <1>14, <1>15, <1>16, <1>17, <1>18, <1>19, <1>20, <1>21, <1>22, <1>23, StepCases

-----------------------------------------------------------------------------
(* The executor's queue *)

\* A ticket enters and leaves the executor's queue with its place.
LEMMA PendingStep ==
    ASSUME TypeOK, PendingInv, [Next]_vars
    PROVE  PendingInv'
<1> workQueue \in Seq(Tickets) /\ place \in [Tickets -> Places]
  BY DEF TypeOK
<1>1. ASSUME NEW t \in Tickets, Save(t), UNCHANGED workerVars
      PROVE  PendingInv'
  BY <1>1 DEF Save, Put, PendingInv
<1>2. ASSUME NEW t \in Tickets, CheckRunning(t), UNCHANGED workerVars
      PROVE  PendingInv'
  BY <1>2 DEF CheckRunning, Put, PendingInv
<1>3. ASSUME NEW t \in Tickets, Execute(t), UNCHANGED workerVars
      PROVE  PendingInv'
  <2>1. /\ ~Occurs(t, workQueue)
        /\ \A u : Occurs(u, Append(workQueue, t)) <=> u = t \/ Occurs(u, workQueue)
        /\ Distinct(Append(workQueue, t))
    BY <1>3, AppendList DEF Execute, Put, PendingInv
  <2> QED
    BY <1>3, <2>1 DEF Execute, Put, PendingInv
<1>4. ASSUME NEW t \in Tickets, Recheck(t), UNCHANGED workerVars
      PROVE  PendingInv'
  <2>1. /\ \A u : u # t => (Occurs(u, RemoveFirst(workQueue, t)) <=> Occurs(u, workQueue))
        /\ Distinct(RemoveFirst(workQueue, t)) /\ ~Occurs(t, RemoveFirst(workQueue, t))
    BY RemoveList DEF PendingInv
  <2> QED
    BY <1>4, <2>1 DEF Recheck, Put, PendingInv
<1>5. ASSUME NEW t \in Tickets, CallerRuns(t), UNCHANGED workerVars
      PROVE  PendingInv'
  BY <1>5 DEF CallerRuns, Put, PendingInv
<1>6. ASSUME NEW t \in Tickets, Push(t), UNCHANGED workerVars
      PROVE  PendingInv'
  BY <1>6 DEF Push, Put, Runs, PendingInv
<1>7. ASSUME NEW t \in Tickets, PushFails(t), UNCHANGED workerVars
      PROVE  PendingInv'
  BY <1>7 DEF PushFails, Put, Runs, PendingInv
<1>8. ASSUME Poll, UNCHANGED workerVars PROVE PendingInv'
  <2>1. /\ Head(workQueue) \in Tickets
        /\ \A u : Occurs(u, workQueue) <=> u = Head(workQueue) \/ Occurs(u, Tail(workQueue))
        /\ Distinct(Tail(workQueue)) /\ ~Occurs(Head(workQueue), Tail(workQueue))
    BY <1>8, TailList DEF Poll, PendingInv
  <2> QED
    BY <1>8, <2>1 DEF Poll, PendingInv
<1>9. ASSUME SetStopping, UNCHANGED workerVars PROVE PendingInv'
  BY <1>9 DEF SetStopping, PendingInv
<1>10. ASSUME Shutdown, UNCHANGED workerVars PROVE PendingInv'
  BY <1>10 DEF Shutdown, PendingInv
<1>11. ASSUME Drained, UNCHANGED workerVars PROVE PendingInv'
  BY <1>11 DEF Drained, PendingInv
<1>12. ASSUME DrainTimeout, UNCHANGED workerVars PROVE PendingInv'
  <2>1. \A u : ~Occurs(u, <<>>)
    BY DEF Occurs
  <2>2. Distinct(<<>>)
    BY DEF Distinct
  <2> QED
    BY <1>12, <2>1, <2>2 DEF DrainTimeout, PendingInv
<1>13. ASSUME CloseRedis, UNCHANGED workerVars PROVE PendingInv'
  BY <1>13 DEF CloseRedis, PendingInv
<1>14. ASSUME Kill, UNCHANGED workerVars PROVE PendingInv'
  BY <1>14 DEF Kill, PendingInv
<1>15. ASSUME NEW p \in Processes, StartWorker(p), UNCHANGED dispatcherVars
      PROVE  PendingInv'
  BY <1>15 DEF StartWorker, PendingInv, dispatcherVars
<1>16. ASSUME NEW p \in Processes, Recover(p), UNCHANGED dispatcherVars
      PROVE  PendingInv'
  BY <1>16 DEF Recover, RecoverMove, PendingInv, dispatcherVars
<1>17. ASSUME NEW p \in Processes, Take(p), UNCHANGED dispatcherVars
      PROVE  PendingInv'
  BY <1>17 DEF Take, PendingInv, dispatcherVars
<1>18. ASSUME NEW p \in Processes, ReplyLost(p), UNCHANGED dispatcherVars
      PROVE  PendingInv'
  BY <1>18 DEF ReplyLost, Fault, PendingInv, dispatcherVars
<1>19. ASSUME NEW p \in Processes, Handle(p), UNCHANGED dispatcherVars
      PROVE  PendingInv'
  BY <1>19 DEF Handle, PendingInv, dispatcherVars
<1>20. ASSUME NEW p \in Processes, LRem(p), UNCHANGED dispatcherVars
      PROVE  PendingInv'
  BY <1>20 DEF LRem, PendingInv, dispatcherVars
<1>21. ASSUME NEW p \in Processes, LRemFails(p), UNCHANGED dispatcherVars
      PROVE  PendingInv'
  BY <1>21 DEF LRemFails, Fault, PendingInv, dispatcherVars
<1>22. ASSUME NEW p \in Processes, Crash(p), UNCHANGED dispatcherVars
      PROVE  PendingInv'
  BY <1>22 DEF Crash, Fault, PendingInv, dispatcherVars
<1>23. ASSUME UNCHANGED vars PROVE PendingInv'
  BY <1>23 DEF vars, PendingInv, dispatcherVars
<1> QED
  BY <1>1, <1>2, <1>3, <1>4, <1>5, <1>6, <1>7, <1>8, <1>9, <1>10, <1>11, <1>12, <1>13,
     <1>14, <1>15, <1>16, <1>17, <1>18, <1>19, <1>20, <1>21, <1>22, <1>23, StepCases

\* Once the drain has ended nothing enters the pool: the executor accepts nothing.
LEMMA DrainStep ==
    ASSUME TypeOK, PendingInv, DrainComplete, [Next]_vars
    PROVE  DrainComplete'
<1> place \in [Tickets -> Places]
  BY DEF TypeOK
<1>1. ASSUME NEW t \in Tickets, Save(t), UNCHANGED workerVars
      PROVE  DrainComplete'
  BY <1>1 DEF Save, Put, DrainComplete, In
<1>2. ASSUME NEW t \in Tickets, CheckRunning(t), UNCHANGED workerVars
      PROVE  DrainComplete'
  BY <1>2 DEF CheckRunning, Put, DrainComplete, In
<1>3. ASSUME NEW t \in Tickets, Execute(t), UNCHANGED workerVars
      PROVE  DrainComplete'
  BY <1>3 DEF Execute, Put, Accepts, DrainComplete, In
<1>4. ASSUME NEW t \in Tickets, Recheck(t), UNCHANGED workerVars
      PROVE  DrainComplete'
  <2>1. Occurs(t, workQueue)
    BY <1>4 DEF Recheck, Put, PendingInv
  <2>2. workQueue # <<>>
    BY <2>1 DEF Occurs
  <2> QED
    BY <1>4, <2>2 DEF Recheck, DrainComplete
<1>5. ASSUME NEW t \in Tickets, CallerRuns(t), UNCHANGED workerVars
      PROVE  DrainComplete'
  BY <1>5 DEF CallerRuns, Put, DrainComplete, In
<1>6. ASSUME NEW t \in Tickets, Push(t), UNCHANGED workerVars
      PROVE  DrainComplete'
  BY <1>6 DEF Push, Put, DrainComplete, In
<1>7. ASSUME NEW t \in Tickets, PushFails(t), UNCHANGED workerVars
      PROVE  DrainComplete'
  BY <1>7 DEF PushFails, Put, DrainComplete, In
<1>8. ASSUME Poll, UNCHANGED workerVars PROVE DrainComplete'
  <2>1. Head(workQueue) \in Tickets
    BY <1>8, TailList DEF Poll, TypeOK
  <2> QED
    BY <1>8, <2>1 DEF Poll, DrainComplete
<1>9. ASSUME SetStopping, UNCHANGED workerVars PROVE DrainComplete'
  BY <1>9 DEF SetStopping, DrainComplete
<1>10. ASSUME Shutdown, UNCHANGED workerVars PROVE DrainComplete'
  BY <1>10 DEF Shutdown, DrainComplete
<1>11. ASSUME Drained, UNCHANGED workerVars PROVE DrainComplete'
  <2>1. In("queued") = {}
    BY <1>11 DEF Drained, PendingInv, In, Occurs
  <2> QED
    BY <1>11, <2>1 DEF Drained, DrainComplete, In
<1>12. ASSUME DrainTimeout, UNCHANGED workerVars PROVE DrainComplete'
  BY <1>12 DEF DrainTimeout, DrainComplete
<1>13. ASSUME CloseRedis, UNCHANGED workerVars PROVE DrainComplete'
  BY <1>13 DEF CloseRedis, DrainComplete, In
<1>14. ASSUME Kill, UNCHANGED workerVars PROVE DrainComplete'
  BY <1>14 DEF Kill, DrainComplete
<1>15. ASSUME NEW p \in Processes, StartWorker(p), UNCHANGED dispatcherVars
      PROVE  DrainComplete'
  BY <1>15 DEF StartWorker, DrainComplete, In, dispatcherVars
<1>16. ASSUME NEW p \in Processes, Recover(p), UNCHANGED dispatcherVars
      PROVE  DrainComplete'
  BY <1>16 DEF Recover, RecoverMove, DrainComplete, In, dispatcherVars
<1>17. ASSUME NEW p \in Processes, Take(p), UNCHANGED dispatcherVars
      PROVE  DrainComplete'
  BY <1>17 DEF Take, DrainComplete, In, dispatcherVars
<1>18. ASSUME NEW p \in Processes, ReplyLost(p), UNCHANGED dispatcherVars
      PROVE  DrainComplete'
  BY <1>18 DEF ReplyLost, Fault, DrainComplete, In, dispatcherVars
<1>19. ASSUME NEW p \in Processes, Handle(p), UNCHANGED dispatcherVars
      PROVE  DrainComplete'
  BY <1>19 DEF Handle, DrainComplete, In, dispatcherVars
<1>20. ASSUME NEW p \in Processes, LRem(p), UNCHANGED dispatcherVars
      PROVE  DrainComplete'
  BY <1>20 DEF LRem, DrainComplete, In, dispatcherVars
<1>21. ASSUME NEW p \in Processes, LRemFails(p), UNCHANGED dispatcherVars
      PROVE  DrainComplete'
  BY <1>21 DEF LRemFails, Fault, DrainComplete, In, dispatcherVars
<1>22. ASSUME NEW p \in Processes, Crash(p), UNCHANGED dispatcherVars
      PROVE  DrainComplete'
  BY <1>22 DEF Crash, Fault, DrainComplete, In, dispatcherVars
<1>23. ASSUME UNCHANGED vars PROVE DrainComplete'
  BY <1>23 DEF vars, DrainComplete, In, dispatcherVars
<1> QED
  BY <1>1, <1>2, <1>3, <1>4, <1>5, <1>6, <1>7, <1>8, <1>9, <1>10, <1>11, <1>12, <1>13,
     <1>14, <1>15, <1>16, <1>17, <1>18, <1>19, <1>20, <1>21, <1>22, <1>23, StepCases

-----------------------------------------------------------------------------
(* The lists in Redis *)

\* BLMOVE, RPOPLPUSH and LREM in terms of the two lists.
LEMMA MoveRedis ==
    ASSUME TypeOK, ListInv,
           \/ ticketQueue # <<>> /\ Move(ticketQueue, processing)
           \/ processing # <<>> /\ Move(processing, ticketQueue)
    PROVE  ListInv' /\ \A t \in Tickets : InRedis(t)' <=> InRedis(t)
<1>1. CASE ticketQueue # <<>> /\ Move(ticketQueue, processing)
  BY <1>1, MoveList DEF TypeOK, ListInv, InRedis, Move
<1>2. CASE processing # <<>> /\ Move(processing, ticketQueue)
  BY <1>2, MoveList DEF TypeOK, ListInv, InRedis, Move
<1> QED
  BY <1>1, <1>2

\* LPUSH of a ticket that is not in Redis.
LEMMA PushRedis ==
    ASSUME TypeOK, ListInv, NEW t \in Tickets, ~InRedis(t), LPush(t), UNCHANGED processing
    PROVE  ListInv' /\ \A u \in Tickets : InRedis(u)' <=> u = t \/ InRedis(u)
BY ConsList DEF TypeOK, ListInv, InRedis, LPush

\* LREM of a ticket.
LEMMA RemoveRedis ==
    ASSUME TypeOK, ListInv, NEW t \in Tickets,
           processing' = RemoveFirst(processing, t), UNCHANGED ticketQueue
    PROVE  /\ ListInv'
           /\ \A u \in Tickets : InRedis(u)' => InRedis(u)
           /\ \A u \in Tickets : u # t => (InRedis(u)' <=> InRedis(u))
BY RemoveList DEF TypeOK, ListInv, InRedis

\* The lists are changed by LPUSH of a new ticket, by moves and by LREM of a
\* ticket a worker has reacted to.
LEMMA ListStep ==
    ASSUME TypeOK, ListInv, PlaceInv, HeldInv, [Next]_vars
    PROVE  /\ ListInv'
           /\ \/ \A u \in Tickets : InRedis(u)' <=> InRedis(u)
              \/ \E t \in Tickets :
                    /\ Runs(t) /\ ~InRedis(t) /\ place'[t] \in {"done", "failed"}
                    /\ \A u \in Tickets : InRedis(u)' <=> u = t \/ InRedis(u)
                    /\ UNCHANGED workerVars
              \/ \E t \in handled \cup rejected :
                    /\ \A u \in Tickets : InRedis(u)' => InRedis(u)
                    /\ \A u \in Tickets : u # t => (InRedis(u)' <=> InRedis(u))
                    /\ UNCHANGED <<place, handled, rejected>>
<1>1. ASSUME UNCHANGED lists PROVE ListInv' /\ \A u \in Tickets : InRedis(u)' <=> InRedis(u)
  BY <1>1 DEF lists, ListInv, InRedis
<1>2. ASSUME NEW t \in Tickets, Push(t) \/ PushFails(t), ~UNCHANGED lists, UNCHANGED workerVars
      PROVE  /\ ListInv' /\ Runs(t) /\ ~InRedis(t) /\ place'[t] \in {"done", "failed"}
             /\ \A u \in Tickets : InRedis(u)' <=> u = t \/ InRedis(u)
  <2>1. Runs(t) /\ LPush(t) /\ UNCHANGED processing /\ place'[t] \in {"done", "failed"}
    BY <1>2 DEF Push, PushFails, Put, lists, TypeOK
  <2>2. ~InRedis(t)
    BY <2>1 DEF PlaceInv, Runs
  <2> QED
    BY <2>1, <2>2, PushRedis
<1>3. ASSUME NEW p \in Processes, Recover(p) \/ Take(p) \/ ReplyLost(p), ~UNCHANGED lists
      PROVE  ListInv' /\ \A u \in Tickets : InRedis(u)' <=> InRedis(u)
  BY <1>3, MoveRedis DEF Recover, RecoverMove, Take, ReplyLost, TakeMove
<1>4. ASSUME NEW p \in Processes, LRem(p) \/ LRemFails(p), ~UNCHANGED lists,
             UNCHANGED dispatcherVars
      PROVE  /\ ListInv'
             /\ \E t \in handled \cup rejected :
                  /\ \A u \in Tickets : InRedis(u)' => InRedis(u)
                  /\ \A u \in Tickets : u # t => (InRedis(u)' <=> InRedis(u))
                  /\ UNCHANGED <<place, handled, rejected>>
  <2>1. /\ processing' = RemoveFirst(processing, message[p])
        /\ UNCHANGED <<ticketQueue, place, handled, rejected>>
    BY <1>4 DEF LRem, LRemFails, lists, dispatcherVars
  <2>2. message[p] \in handled \cup rejected /\ message[p] \in Tickets
    BY <1>4 DEF LRem, LRemFails, Become, HeldInv, TypeOK
  <2>3. /\ ListInv'
        /\ \A u \in Tickets : InRedis(u)' => InRedis(u)
        /\ \A u \in Tickets : u # message[p] => (InRedis(u)' <=> InRedis(u))
    BY <2>1, <2>2, RemoveRedis
  <2> QED
    BY <2>1, <2>2, <2>3
<1>5. CASE \E t \in Tickets : (Push(t) \/ PushFails(t)) /\ UNCHANGED workerVars
  BY <1>1, <1>2, <1>5
<1>6. CASE \E p \in Processes : Recover(p) \/ Take(p) \/ ReplyLost(p)
  BY <1>1, <1>3, <1>6
<1>7. CASE \E p \in Processes : (LRem(p) \/ LRemFails(p)) /\ UNCHANGED dispatcherVars
  BY <1>1, <1>4, <1>7
<1>8. CASE \/ \E t \in Tickets : Save(t) \/ CheckRunning(t) \/ Execute(t) \/ Recheck(t)
                                 \/ CallerRuns(t)
           \/ Poll \/ SetStopping \/ Shutdown \/ Drained \/ DrainTimeout \/ CloseRedis \/ Kill
           \/ \E p \in Processes : StartWorker(p) \/ Handle(p) \/ Crash(p)
           \/ UNCHANGED vars
  <2>1. UNCHANGED lists
    BY <1>8
    DEF Save, CheckRunning, Execute, Recheck, CallerRuns, Poll, SetStopping, Shutdown,
        Drained, DrainTimeout, CloseRedis, Kill, StartWorker, Handle, Crash, vars
  <2> QED
    BY <1>1, <2>1
<1> QED
  BY <1>5, <1>6, <1>7, <1>8, StepCases

-----------------------------------------------------------------------------
(* Tickets, Redis and the workers *)

\* Redis and the workers know a ticket only once its hand-off has been tried.
LEMMA PlaceStep ==
    ASSUME TypeOK, PendingInv, ListInv, PlaceInv, HeldInv, [Next]_vars
    PROVE  PlaceInv'
<1>1. \A t \in Tickets : InRedis(t)' => InRedis(t) \/ place'[t] \in {"done", "failed"}
  BY ListStep
<1>2. \A t \in Tickets : place'[t] \notin {"done", "failed"} => place[t] \notin {"done", "failed"}
  <2> place \in [Tickets -> Places]
    BY DEF TypeOK
  <2>1. ASSUME NEW t \in Tickets,
               \/ Save(t) \/ CheckRunning(t) \/ Execute(t) \/ Recheck(t) \/ CallerRuns(t)
               \/ Push(t) \/ PushFails(t)
        PROVE  \A u \in Tickets : place'[u] \notin {"done", "failed"} =>
                                   place[u] \notin {"done", "failed"}
    BY <2>1 DEF Save, CheckRunning, Execute, Recheck, CallerRuns, Push, PushFails, Put
  <2>2. ASSUME Poll
        PROVE  \A u \in Tickets : place'[u] \notin {"done", "failed"} =>
                                   place[u] \notin {"done", "failed"}
    <3>1. Head(workQueue) \in Tickets /\ Occurs(Head(workQueue), workQueue)
      BY <2>2, TailList DEF Poll, TypeOK
    <3>2. place[Head(workQueue)] \in {"offered", "queued"}
      BY <3>1 DEF PendingInv
    <3> QED
      BY <2>2, <3>1, <3>2 DEF Poll
  <2>3. CASE \/ SetStopping \/ Shutdown \/ Drained \/ DrainTimeout \/ CloseRedis \/ Kill
             \/ UNCHANGED dispatcherVars
    BY <2>3
    DEF SetStopping, Shutdown, Drained, DrainTimeout, CloseRedis, Kill, dispatcherVars
  <2> QED
    BY <2>1, <2>2, <2>3, StepCases DEF vars
<1>3. \A t \in Tickets :
        /\ t \in handled' \cup rejected' =>
              t \in handled \cup rejected \/ \E p \in Processes : message[p] = t
        /\ \A p \in Processes : message'[p] = t => message[p] = t \/ InRedis(t)
  <2>1. CASE UNCHANGED workerVars
    BY <2>1 DEF workerVars
  <2>2. ASSUME NEW p \in Processes,
               \/ StartWorker(p) \/ Recover(p) \/ LRem(p) \/ LRemFails(p) \/ Crash(p) \/ ReplyLost(p)
        PROVE  /\ UNCHANGED <<handled, rejected>>
               /\ \A q \in Processes : message'[q] \in {message[q], NoMessage}
    BY <2>2 DEF StartWorker, Recover, LRem, LRemFails, Crash, ReplyLost, TypeOK
  <2>3. ASSUME NEW p \in Processes, Handle(p)
        PROVE  /\ handled' \cup rejected' = handled \cup rejected \cup {message[p]}
               /\ UNCHANGED message
    BY <2>3 DEF Handle
  <2>4. ASSUME NEW p \in Processes, Take(p)
        PROVE  /\ UNCHANGED <<handled, rejected>>
               /\ \A q \in Processes : message'[q] \in {message[q], Last(ticketQueue)}
               /\ Occurs(Last(ticketQueue), ticketQueue)
    BY <2>4, FrontList DEF Take, TypeOK
  <2> QED
    BY <2>1, <2>2, <2>3, <2>4, StepCases, QueueAssumption DEF InRedis, vars
<1> QED
  BY <1>1, <1>2, <1>3 DEF PlaceInv

\* A worker's message leaves Redis only when a worker has reacted to it.
LEMMA HeldStep ==
    ASSUME TypeOK, ListInv, PlaceInv, HeldInv, [Next]_vars
    PROVE  HeldInv'
<1>1. \A t \in Tickets : InRedis(t) => InRedis(t)' \/ t \in handled' \cup rejected'
  BY ListStep
<1>2. handled \cup rejected \subseteq handled' \cup rejected'
  BY StepCases
  DEF StartWorker, Recover, Take, ReplyLost, Handle, LRem, LRemFails, Crash, workerVars, vars
<1>3. \A q \in Processes :
        \/ message'[q] = message[q] /\ phase'[q] = phase[q]
        \/ phase'[q] = "handling" /\ message'[q] \in Tickets /\ InRedis(message'[q])
        \/ phase'[q] = "removing" /\ message'[q] \in handled' \cup rejected'
        \/ phase'[q] \notin {"handling", "removing"}
  <2>1. CASE UNCHANGED workerVars
    BY <2>1 DEF workerVars
  <2>2. ASSUME NEW p \in Processes,
               StartWorker(p) \/ Recover(p) \/ LRem(p) \/ LRemFails(p) \/ Crash(p) \/ ReplyLost(p)
        PROVE  \A q \in Processes : \/ message'[q] = message[q] /\ phase'[q] = phase[q]
                                    \/ phase'[q] \notin {"handling", "removing"}
    BY <2>2 DEF StartWorker, Recover, LRem, LRemFails, Crash, ReplyLost, Become, TypeOK
  <2>3. ASSUME NEW p \in Processes, Handle(p)
        PROVE  \A q \in Processes : \/ message'[q] = message[q] /\ phase'[q] = phase[q]
                                    \/ phase'[q] = "removing" /\ message'[q] \in handled' \cup rejected'
    BY <2>3 DEF Handle, Become
  <2>4. ASSUME NEW p \in Processes, Take(p)
        PROVE  \A q \in Processes :
                 \/ message'[q] = message[q] /\ phase'[q] = phase[q]
                 \/ phase'[q] = "handling" /\ message'[q] \in Tickets /\ InRedis(message'[q])
    <3>1. Last(ticketQueue) \in Tickets /\ InRedis(Last(ticketQueue))
      BY <2>4, FrontList DEF Take, TypeOK, InRedis
    <3> QED
      BY <2>4, <3>1 DEF Take, Become, TypeOK
  <2> QED
    BY <2>1, <2>2, <2>3, <2>4, StepCases DEF vars
<1>4. \A q \in Processes : phase[q] \in {"handling", "removing"} => message[q] \in Tickets
  BY DEF TypeOK
<1> SUFFICES ASSUME NEW q \in Processes
             PROVE  /\ phase'[q] = "handling" =>
                          InRedis(message[q])' \/ message'[q] \in handled' \cup rejected'
                    /\ phase'[q] = "removing" => message'[q] \in handled' \cup rejected'
  BY DEF HeldInv
<1>5. CASE message'[q] = message[q] /\ phase'[q] = phase[q]
  <2>1. CASE phase[q] = "handling"
    <3>1. InRedis(message[q])' <=> Occurs(message'[q], ticketQueue') \/ Occurs(message'[q], processing')
      BY DEF InRedis
    <3>2. \A t : InRedis(t)' <=> Occurs(t, ticketQueue') \/ Occurs(t, processing')
      BY DEF InRedis
    <3> QED
      BY <1>1, <1>2, <1>4, <1>5, <2>1, <3>1, <3>2 DEF HeldInv
  <2>2. CASE phase[q] # "handling"
    BY <1>2, <1>5, <2>2 DEF HeldInv
  <2> QED
    BY <2>1, <2>2
<1>6. CASE phase'[q] = "handling" /\ message'[q] \in Tickets /\ InRedis(message'[q])
  <2>1. \A t : InRedis(t)' <=> Occurs(t, ticketQueue') \/ Occurs(t, processing')
    BY DEF InRedis
  <2>2. InRedis(message[q])' <=> Occurs(message'[q], ticketQueue') \/ Occurs(message'[q], processing')
    BY DEF InRedis
  <2> QED
    BY <1>1, <1>6, <2>1, <2>2
<1> QED
  BY <1>3, <1>5, <1>6

-----------------------------------------------------------------------------
(* The theorems *)

\* Every state of an execution, crashes and lost replies included, satisfies the
\* inductive invariant.
THEOREM Invariance == Spec => []Inv
<1>1. Init => Inv
  BY InitInv
<1>2. Inv /\ [Next]_vars => Inv'
  BY TypeStep, PendingStep, DrainStep, ListStep, PlaceStep, HeldStep DEF Inv
<1> QED
  BY <1>1, <1>2, PTL DEF Spec

\* The variables of dispatcher and workers keep their types, and a worker has a
\* message exactly while it handles or removes one.
THEOREM TypeCorrect == Spec => []TypeOK
<1>1. Inv => TypeOK
  BY DEF Inv
<1> QED
  BY <1>1, Invariance, PTL

\* stop(): after a drain that did not time out, no hand-off is queued or run by
\* the pool, for any size of the pool and of its queue.
THEOREM DrainsComplete == Spec => []DrainComplete
<1>1. Inv => DrainComplete
  BY DEF Inv
<1> QED
  BY <1>1, Invariance, PTL

\* In two lists of distinct messages that share none, no message occurs twice.
LEMMA OneInLists == ASSUME TypeOK, ListInv PROVE OneMessage
<1> DEFINE all == ticketQueue \o processing
           m == Len(ticketQueue)
           n == Len(processing)
<1>1. /\ m \in Nat /\ n \in Nat /\ DOMAIN ticketQueue = 1..m /\ DOMAIN processing = 1..n
      /\ \A i \in 1..m : ticketQueue[i] \in Tickets
  BY ElementOfSeq DEF TypeOK
<1>2. /\ DOMAIN all = 1..(m + n)
      /\ \A i \in 1..(m + n) : all[i] = IF i <= m THEN ticketQueue[i] ELSE processing[i - m]
  BY ConcatProperties, <1>1
<1> HIDE DEF m, n, all
<1> SUFFICES ASSUME NEW i \in 1..(m + n), NEW j \in 1..(m + n), all[i] = all[j] PROVE i = j
  BY <1>2 DEF OneMessage, all
<1>3. CASE i <= m /\ j <= m
  BY <1>1, <1>2, <1>3 DEF ListInv, Distinct
<1>4. CASE i > m /\ j > m
  <2>1. i - m \in 1..n /\ j - m \in 1..n
    BY <1>1, <1>4
  <2>2. processing[i - m] = processing[j - m]
    BY <1>1, <1>2, <1>4
  <2>3. i - m = j - m
    BY <1>1, <2>1, <2>2 DEF ListInv, Distinct
  <2> QED
    BY <1>1, <2>3
<1>5. ASSUME NEW k \in 1..m, NEW l \in 1..(m + n), l > m PROVE all[k] # all[l]
  <2>1. l - m \in 1..n
    BY <1>1, <1>5
  <2>2. all[k] = ticketQueue[k] /\ all[l] = processing[l - m]
    BY <1>1, <1>2, <1>5
  <2>3. ticketQueue[k] # processing[l - m]
    BY <1>1, <2>1 DEF ListInv, Occurs
  <2> QED
    BY <2>2, <2>3
<1> QED
  BY <1>1, <1>3, <1>4, <1>5

\* Moves, recoveries by a second worker and late removals never multiply a ticket.
THEOREM TicketsOnce == Spec => []OneMessage
<1>1. Inv => OneMessage
  BY OneInLists DEF Inv
<1> QED
  BY <1>1, Invariance, PTL

\* Every step is one of the abstract queue or leaves its state alone.
LEMMA HandoverStep ==
    ASSUME Inv, [Next]_vars
    PROVE  [Handover!Next]_<<{t \in Tickets : InRedis(t)}, handled \cup rejected>>
<1> DEFINE waiting == {t \in Tickets : InRedis(t)}
           reacted == handled \cup rejected
<1> USE DEF Inv
<1>1. waiting' = {t \in Tickets : InRedis(t)'} /\ reacted' = handled' \cup rejected'
  OBVIOUS
<1> SUFFICES \/ UNCHANGED <<waiting, reacted>>
             \/ \E t \in Tickets : t \notin reacted /\ waiting' = waiting \cup {t} /\ reacted' = reacted
             \/ \E t \in Tickets : t \in waiting /\ reacted' = reacted \cup {t} /\ waiting' = waiting
             \/ \E t \in Tickets : t \in reacted /\ waiting' = waiting \ {t} /\ reacted' = reacted
  BY DEF Handover!Next, Handover!Enqueue, Handover!React, Handover!Forget
<1>2. CASE \E t \in Tickets :
             /\ Runs(t) /\ ~InRedis(t) /\ place'[t] \in {"done", "failed"}
             /\ \A u \in Tickets : InRedis(u)' <=> u = t \/ InRedis(u)
             /\ UNCHANGED workerVars
  <2>1. PICK t \in Tickets : /\ Runs(t) /\ \A u \in Tickets : InRedis(u)' <=> u = t \/ InRedis(u)
                             /\ UNCHANGED workerVars
    BY <1>2
  <2>2. t \notin reacted
    BY <2>1 DEF PlaceInv, Runs
  <2>3. waiting' = waiting \cup {t} /\ reacted' = reacted
    BY <1>1, <2>1 DEF workerVars
  <2> QED
    BY <2>2, <2>3
<1>3. CASE \E t \in handled \cup rejected :
             /\ \A u \in Tickets : InRedis(u)' => InRedis(u)
             /\ \A u \in Tickets : u # t => (InRedis(u)' <=> InRedis(u))
             /\ UNCHANGED <<place, handled, rejected>>
  <2>1. PICK t \in reacted : /\ \A u \in Tickets : InRedis(u)' => InRedis(u)
                             /\ \A u \in Tickets : u # t => (InRedis(u)' <=> InRedis(u))
                             /\ UNCHANGED <<handled, rejected>>
    BY <1>3
  <2>2. t \in Tickets /\ reacted' = reacted
    BY <2>1 DEF TypeOK
  <2>3. waiting' = waiting \/ waiting' = waiting \ {t}
    <3>1. CASE InRedis(t)'
      BY <1>1, <2>1, <3>1
    <3>2. CASE ~InRedis(t)'
      BY <1>1, <2>1, <3>2
    <3> QED
      BY <3>1, <3>2
  <2> QED
    BY <2>1, <2>2, <2>3
<1>4. CASE \A u \in Tickets : InRedis(u)' <=> InRedis(u)
  <2>1. waiting' = waiting
    BY <1>1, <1>4
  <2>2. \/ reacted' = reacted
        \/ \E p \in Processes : Handle(p)
    BY StepCases
    DEF StartWorker, Recover, Take, ReplyLost, LRem, LRemFails, Crash, workerVars, vars
  <2>3. ASSUME NEW p \in Processes, Handle(p)
        PROVE  \/ reacted' = reacted
               \/ \E t \in Tickets : t \in waiting /\ reacted' = reacted \cup {t}
    <3>1. reacted' = reacted \cup {message[p]} /\ phase[p] = "handling"
      BY <2>3 DEF Handle, Become
    <3>2. message[p] \in Tickets
      BY <3>1 DEF TypeOK
    <3>3. InRedis(message[p]) \/ message[p] \in reacted
      BY <3>1 DEF HeldInv
    <3> QED
      BY <3>1, <3>2, <3>3
  <2> QED
    BY <2>1, <2>2, <2>3
<1> QED
  BY <1>2, <1>3, <1>4, ListStep

\* Dispatcher, Redis and any number of workers implement TicketHandover: no crash,
\* restart or failed reply makes a ticket vanish before a worker reacted to it.
THEOREM DeliversAtLeastOnce == Spec => AtLeastOnce
<1>1. Init => Handover!Init
  <2>1. \A t \in Tickets : Init => ~InRedis(t)
    BY DEF Init, QueueInit, InRedis, Occurs
  <2> QED
    BY <2>1 DEF Init, QueueInit, Handover!Init
<1>2. Inv /\ [Next]_vars => [Handover!Next]_<<{t \in Tickets : InRedis(t)}, handled \cup rejected>>
  BY HandoverStep
<1> QED
  BY <1>1, <1>2, Invariance, PTL DEF Spec, AtLeastOnce, Handover!Spec
===============================================================================
