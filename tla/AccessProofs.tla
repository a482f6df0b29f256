------------------------------ MODULE AccessProofs ------------------------------
(***************************************************************************)
(* Who may do what: for every set of accounts, changes of accounts that do *)
(* not meet are whole; a page that may decide knows who is signed in; and  *)
(* the failed authentications of every source raise the alerts that are    *)
(* due.                                                                    *)
(***************************************************************************)
EXTENDS AccountChanges, AuthSession, FailedAuthTracker, FiniteSetTheorems, SequenceTheorems,
        WellFoundedInduction, TLAPS

-----------------------------------------------------------------------------
(* Account changes: the invariant *)

AccountSpec == AccountInit /\ [][AccountNext]_accountVars

Changing == [stage : {"updating", "banning", "auditing", "restoring", "unbanning"},
             target : Accounts, before : Values, after : Values]

AccountTypeOK ==
    /\ account \in [Accounts -> Values] /\ audited \in [Accounts -> Values]
    /\ banned \subseteq Accounts
    /\ request \in [Accounts -> {Idle, [stage |-> "authorized"]} \cup Changing]
    /\ overlapped \in BOOLEAN /\ doubted \in BOOLEAN
    /\ changes \in Nat /\ accountFaults \in Nat

Whole(t) == (t \in banned <=> ~Active(account[t])) /\ account[t] = audited[t]

Involved(a) == {a} \cup Target(a)
Apart == \A a, b \in Accounts :
            a # b /\ ~At1(a, "idle") /\ ~At1(b, "idle") => Involved(a) \cap Involved(b) = {}

\* Where a change under way has come to: the row, the log and the ban of its target.
Progress(a) ==
    LET r == request[a]
        t == r.target
    IN  /\ t # a
        /\ r.stage \in {"banning", "unbanning"} => StatusTouched(r)
        /\ account[t] = IF r.stage \in {"updating", "unbanning"} THEN r.before ELSE r.after
        /\ audited[t] = r.before
        /\ r.stage \in {"updating", "banning"} => (t \in banned <=> ~Active(r.before))
        /\ r.stage = "auditing" => (t \in banned <=> ~Active(r.after))
        /\ r.stage = "restoring" /\ ~StatusTouched(r) => (t \in banned <=> ~Active(r.before))

Administrator(a) == account[a].role = "admin" /\ Active(account[a])

Orderly ==
    /\ Apart
    /\ \A a \in Accounts : request[a] \in Changing => Progress(a)
    /\ \A t \in Accounts : (\A a \in Accounts : t \notin Target(a)) => Whole(t)
    /\ \A a \in Accounts : ~At1(a, "idle") => Administrator(a)
    /\ \E a \in Accounts : Administrator(a)

AccountInv == AccountTypeOK /\ (~overlapped /\ ~doubted => Orderly)

-----------------------------------------------------------------------------
(* Account changes: requests and values *)

\* A request is idle, authorized or a change, which its stage tells.
LEMMA RequestStages ==
    ASSUME AccountTypeOK, NEW a \in Accounts
    PROVE  /\ At1(a, "idle") <=> request[a] = Idle
           /\ At1(a, "authorized") <=> request[a] = [stage |-> "authorized"]
           /\ request[a].stage \in {"updating", "banning", "auditing", "restoring", "unbanning"}
                <=> request[a] \in Changing
           /\ Target(a) = IF request[a] \in Changing THEN {request[a].target} ELSE {}
           /\ request[a] = Idle \/ request[a] = [stage |-> "authorized"] \/ request[a] \in Changing
<1>1. request[a] \in {Idle, [stage |-> "authorized"]} \cup Changing
  BY DEF AccountTypeOK
<1>2. Idle.stage = "idle" /\ [stage |-> "authorized"].stage = "authorized"
  BY DEF Idle
<1>3. \A r \in Changing :
         r.stage \in {"updating", "banning", "auditing", "restoring", "unbanning"}
  BY DEF Changing
<1>4. CASE request[a] = Idle
  BY <1>2, <1>3, <1>4 DEF At1, Target
<1>5. CASE request[a] = [stage |-> "authorized"]
  BY <1>2, <1>3, <1>5 DEF At1, Target
<1>6. CASE request[a] \in Changing
  BY <1>2, <1>3, <1>6 DEF At1, Target
<1> QED
  BY <1>1, <1>4, <1>5, <1>6

\* A change that goes on keeps what it is about.
LEMMA ChangeGoesOn ==
    ASSUME AccountTypeOK, NEW a \in Accounts, request[a] \in Changing,
           NEW stage \in {"updating", "banning", "auditing", "restoring", "unbanning"},
           Goes(a, stage)
    PROVE  /\ request'[a] \in Changing /\ request'[a].stage = stage
           /\ request'[a].target = request[a].target
           /\ request'[a].before = request[a].before /\ request'[a].after = request[a].after
           /\ \A b \in Accounts \ {a} : request'[b] = request[b]
           /\ request' \in [Accounts -> {Idle, [stage |-> "authorized"]} \cup Changing]
<1>1. request' = [request EXCEPT ![a] = [@ EXCEPT !.stage = stage]]
  BY DEF Goes
<1>2. request'[a] = [request[a] EXCEPT !.stage = stage]
  BY <1>1 DEF AccountTypeOK
<1>3. /\ request'[a] \in Changing /\ request'[a].stage = stage
      /\ request'[a].target = request[a].target
      /\ request'[a].before = request[a].before /\ request'[a].after = request[a].after
  BY <1>2 DEF Changing
<1> QED
  BY <1>1, <1>3 DEF AccountTypeOK

\* A request that ends is idle, and no other request changes.
LEMMA RequestEnds ==
    ASSUME AccountTypeOK, NEW a \in Accounts, Goes(a, "idle")
    PROVE  /\ request'[a] = Idle
           /\ \A b \in Accounts \ {a} : request'[b] = request[b]
           /\ request' \in [Accounts -> {Idle, [stage |-> "authorized"]} \cup Changing]
BY DEF AccountTypeOK, Goes

\* What a change writes is a row, and over the row it read it is the row it is after.
LEMMA WrittenRow ==
    ASSUME NEW r \in Changing, NEW v \in Values
    PROVE  /\ Written(v, r) \in Values
           /\ v = r.before => Written(v, r) = r.after
<1>1. r.before \in Values /\ r.after \in Values
  BY DEF Changing
<1>2. Written(v, r) \in Values
  BY <1>1 DEF Written, Values
<1>3. ASSUME v = r.before PROVE Written(v, r) = r.after
  <2>1. \A f \in {"role", "status"} : Written(v, r)[f] = r.after[f]
    BY <1>3 DEF Written
  <2> QED
    BY <1>1, <1>2, <2>1 DEF Values
<1> QED
  BY <1>2, <1>3

-----------------------------------------------------------------------------
(* Account changes: what a change does elsewhere *)

\* A step of one change touches its own target alone; the accounts that other
\* requests involve are others.
LEMMA ElsewhereWhole ==
    ASSUME AccountTypeOK, AccountTypeOK', Orderly,
           NEW a \in Accounts, request[a] \in Changing, NEW t \in Accounts, t = request[a].target,
           \A s \in Accounts \ {t} : /\ account'[s] = account[s] /\ audited'[s] = audited[s]
                                     /\ s \in banned' <=> s \in banned,
           \A b \in Accounts \ {a} : request'[b] = request[b],
           \/ request'[a] = Idle /\ Whole(t)'
           \/ request'[a] \in Changing /\ request'[a].target = t /\ Progress(a)'
    PROVE  Orderly'
<1>1. ~At1(a, "idle") /\ Target(a) = {t} /\ Progress(a) /\ t # a /\ Administrator(a)
  <2>1. ~At1(a, "idle") /\ Target(a) = {t}
    BY RequestStages DEF Changing, Idle
  <2> QED
    BY <2>1 DEF Orderly, Progress
<1>2. \A b \in Accounts \ {a} : ~At1(b, "idle") => b # t /\ t \notin Target(b) /\ a \notin Target(b)
  BY <1>1 DEF Orderly, Apart, Involved
<1>3. \A b \in Accounts \ {a} : At1(b, "idle")' = At1(b, "idle") /\ Target(b)' = Target(b)
  BY DEF At1, Target
<1>4. Target(a)' \in {{}, {t}} /\ (At1(a, "idle")' \/ Target(a)' = {t})
  BY DEF At1, Target, Idle, Changing
<1>5. Apart'
  <2> SUFFICES ASSUME NEW b \in Accounts, NEW c \in Accounts, b # c,
                      ~At1(b, "idle")', ~At1(c, "idle")'
               PROVE  Involved(b)' \cap Involved(c)' = {}
    BY DEF Apart
  <2>1. Involved(b)' \subseteq Involved(b) /\ Involved(c)' \subseteq Involved(c)
    BY <1>1, <1>3, <1>4 DEF Involved
  <2>2. ~At1(b, "idle") /\ ~At1(c, "idle")
    BY <1>1, <1>3
  <2> QED
    BY <2>1, <2>2 DEF Orderly, Apart
<1>6. ASSUME NEW b \in Accounts, request'[b] \in Changing PROVE Progress(b)'
  <2>1. CASE b = a
    BY <1>6, <2>1, RequestStages DEF Idle, Changing
  <2>2. CASE b # a
    <3>1. request[b] \in Changing /\ request'[b] = request[b] /\ Progress(b)
      BY <1>6, <2>2 DEF Orderly
    <3>2. request[b].target \in Accounts \ {t}
      BY <1>2, <2>2, <3>1, RequestStages DEF Changing, Idle
    <3> QED
      BY <3>1, <3>2 DEF Progress, StatusTouched
  <2> QED
    BY <2>1, <2>2
<1>7. ASSUME NEW s \in Accounts, \A b \in Accounts : s \notin Target(b)' PROVE Whole(s)'
  <2>1. CASE s = t
    <3>1. request'[a] = Idle
      BY <1>7, <2>1, <1>4 DEF Target, Changing
    <3> QED
      BY <2>1, <3>1 DEF Idle, Changing
  <2>2. CASE s # t
    <3>1. \A b \in Accounts : s \notin Target(b)
      BY <1>1, <1>3, <1>7, <2>2
    <3>2. Whole(s)
      BY <3>1 DEF Orderly
    <3> QED
      BY <2>2, <3>2 DEF Whole
  <2> QED
    BY <2>1, <2>2
<1>8. \A b \in Accounts : ~At1(b, "idle")' => Administrator(b)'
  <2> SUFFICES ASSUME NEW b \in Accounts, ~At1(b, "idle")' PROVE Administrator(b)'
    OBVIOUS
  <2>1. ~At1(b, "idle") /\ b # t
    BY <1>1, <1>2, <1>3
  <2> QED
    BY <2>1 DEF Orderly, Administrator
<1>9. Administrator(a)'
  BY <1>1 DEF Administrator
<1> QED
  BY <1>5, <1>6, <1>7, <1>8, <1>9 DEF Orderly

-----------------------------------------------------------------------------
(* Account changes: type correctness *)

\* A ban that is set for a row touches its account alone.
LEMMA BanOfOne ==
    ASSUME NEW t \in Accounts, NEW v \in Values, SetBan(t, v), banned \subseteq Accounts
    PROVE  /\ banned' \subseteq Accounts
           /\ t \in banned' <=> ~Active(v)
           /\ \A s \in Accounts \ {t} : s \in banned' <=> s \in banned
BY DEF SetBan

\* What a failed write leaves of the rows, the log and the bans.
LEMMA FailedWrite ==
    ASSUME AccountTypeOK, NEW a \in Accounts, WriteFails(a)
    PROVE  /\ request[a] \in Changing
           /\ Goes(a, CASE request[a].stage \in {"banning", "auditing"} -> "restoring"
                        [] request[a].stage = "restoring" -> AfterRestore(request[a])
                        [] OTHER -> "idle")
BY RequestStages DEF WriteFails, At1

\* These five are the steps of a change under way.
LEMMA ChangeSteps ==
    ASSUME AccountTypeOK, NEW a \in Accounts,
           Update(a) \/ Ban(a) \/ Audit(a) \/ RestoreRow(a) \/ RestoreBan(a)
    PROVE  request[a] \in Changing
BY RequestStages DEF Update, Ban, Audit, RestoreRow, RestoreBan, At1

\* Where a request goes from a failed write is a stage of a change, or its end.
LEMMA AfterFailure ==
    ASSUME AccountTypeOK, NEW a \in Accounts, WriteFails(a)
    PROVE  \E stage \in {"restoring", "unbanning", "idle"} : Goes(a, stage)
BY FailedWrite DEF AfterRestore

\* Every step keeps the accounts and the requests within their types.
LEMMA AccountTypeStep ==
    ASSUME AccountTypeOK, [AccountNext]_accountVars
    PROVE  AccountTypeOK'
<1> USE DEF AccountTypeOK
<1>1. ASSUME NEW a \in Accounts, Authorize(a) PROVE AccountTypeOK'
  BY <1>1 DEF Authorize
<1>2. ASSUME NEW a \in Accounts, Look(a) PROVE AccountTypeOK'
  <2>1. request' \in [Accounts -> {Idle, [stage |-> "authorized"]} \cup Changing]
    BY <1>2 DEF Look, Changing
  <2>2. overlapped' \in BOOLEAN
    BY <1>2 DEF Look
  <2> QED
    BY <1>2, <2>1, <2>2 DEF Look
<1>3. ASSUME NEW a \in Accounts, request[a] \in Changing,
             Update(a) \/ Ban(a) \/ Audit(a) \/ RestoreRow(a) \/ RestoreBan(a)
      PROVE  AccountTypeOK'
  <2>1. request[a].target \in Accounts /\ request[a].before \in Values /\ request[a].after \in Values
    BY <1>3 DEF Changing
  <2>2. \E stage \in {"banning", "auditing", "unbanning", "idle"} : Goes(a, stage)
    BY <1>3 DEF Update, Ban, Audit, RestoreRow, RestoreBan, AfterRestore
  <2>3. request' \in [Accounts -> {Idle, [stage |-> "authorized"]} \cup Changing]
    BY <1>3, <2>2, ChangeGoesOn, RequestEnds
  <2>4. banned' \subseteq Accounts
    BY <1>3, <2>1, BanOfOne DEF Update, Ban, Audit, RestoreRow, RestoreBan
  <2>5. account' \in [Accounts -> Values] /\ audited' \in [Accounts -> Values]
    BY <1>3, <2>1, WrittenRow DEF Update, Ban, Audit, RestoreRow, RestoreBan
  <2> QED
    BY <1>3, <2>3, <2>4, <2>5 DEF Update, Ban, Audit, RestoreRow, RestoreBan
<1>4. ASSUME NEW a \in Accounts, WriteFails(a) PROVE AccountTypeOK'
  <2>1. request[a] \in Changing
    BY <1>4, FailedWrite
  <2>2. request[a].target \in Accounts /\ request[a].before \in Values /\ request[a].after \in Values
    BY <2>1 DEF Changing
  <2>3. request' \in [Accounts -> {Idle, [stage |-> "authorized"]} \cup Changing]
    BY <1>4, <2>1, AfterFailure, ChangeGoesOn, RequestEnds
  <2>4. banned' \subseteq Accounts
    BY <1>4, <2>2, BanOfOne DEF WriteFails
  <2>5. account' \in [Accounts -> Values] /\ audited' \in [Accounts -> Values]
    BY <1>4, <2>1, <2>2, WrittenRow DEF WriteFails
  <2>6. doubted' \in BOOLEAN
    BY <1>4 DEF WriteFails
  <2> QED
    BY <1>4, <2>3, <2>4, <2>5, <2>6 DEF WriteFails, Fault
<1>5. ASSUME NEW a \in Accounts, ServerDies(a) PROVE AccountTypeOK'
  BY <1>5, RequestEnds DEF ServerDies, Fault
<1>6. ASSUME UNCHANGED accountVars PROVE AccountTypeOK'
  BY <1>6 DEF accountVars
<1> QED
  BY <1>1, <1>2, <1>3, <1>4, <1>5, <1>6, ChangeSteps DEF AccountNext

-----------------------------------------------------------------------------
(* Account changes: the steps of a change *)

\* A change that proceeds leaves the accounts in order.
LEMMA ChangeProceeds ==
    ASSUME AccountTypeOK, AccountTypeOK', Orderly, NEW a \in Accounts, request[a] \in Changing,
           Update(a) \/ Ban(a) \/ Audit(a) \/ RestoreRow(a) \/ RestoreBan(a)
    PROVE  Orderly'
<1>1. PICK r \in Changing, t \in Accounts :
         /\ r = request[a] /\ t = r.target /\ t = request[a].target
         /\ r.before \in Values /\ r.after \in Values
         /\ Progress(a)
  BY DEF Changing, Orderly
<1>2. \A s \in Accounts \ {t} : /\ account'[s] = account[s] /\ audited'[s] = audited[s]
                                /\ s \in banned' <=> s \in banned
  <2>1. \A s \in Accounts \ {t} : account'[s] = account[s] /\ audited'[s] = audited[s]
    BY <1>1 DEF Update, Ban, Audit, RestoreRow, RestoreBan, AccountTypeOK
  <2>2. \A s \in Accounts \ {t} : s \in banned' <=> s \in banned
    BY <1>1, BanOfOne DEF Update, Ban, Audit, RestoreRow, RestoreBan, AccountTypeOK
  <2> QED
    BY <2>1, <2>2
<1>3. \A b \in Accounts \ {a} : request'[b] = request[b]
  BY DEF Update, Ban, Audit, RestoreRow, RestoreBan, Goes, AccountTypeOK
<1>4. ~StatusTouched(r) => (Active(r.before) <=> Active(r.after))
  BY DEF StatusTouched, Active
<1>5. \/ request'[a] = Idle /\ Whole(t)'
      \/ request'[a] \in Changing /\ request'[a].target = t /\ Progress(a)'
  <2>1. CASE Update(a)
    <3>1. account'[t] = r.after /\ UNCHANGED <<banned, audited>> /\ r.stage = "updating"
      BY <1>1, <2>1, WrittenRow DEF Update, Progress, AccountTypeOK, At1
    <3>2. CASE StatusTouched(r)
      <4>1. Goes(a, "banning")
        BY <1>1, <2>1, <3>2 DEF Update
      <4>2. /\ request'[a] \in Changing /\ request'[a].stage = "banning"
            /\ request'[a].target = t /\ request'[a].before = r.before /\ request'[a].after = r.after
        BY <1>1, <4>1, ChangeGoesOn
      <4> QED
        BY <1>1, <3>1, <3>2, <4>2 DEF Progress, StatusTouched
    <3>3. CASE ~StatusTouched(r)
      <4>1. Goes(a, "auditing")
        BY <1>1, <2>1, <3>3 DEF Update
      <4>2. /\ request'[a] \in Changing /\ request'[a].stage = "auditing"
            /\ request'[a].target = t /\ request'[a].before = r.before /\ request'[a].after = r.after
        BY <1>1, <4>1, ChangeGoesOn
      <4> QED
        BY <1>1, <1>4, <3>1, <3>3, <4>2 DEF Progress, StatusTouched
    <3> QED
      BY <3>2, <3>3
  <2>2. CASE Ban(a)
    <3>1. /\ t \in banned' <=> ~Active(r.after)
          /\ UNCHANGED <<account, audited>> /\ r.stage = "banning" /\ Goes(a, "auditing")
      BY <1>1, <2>2, BanOfOne DEF Ban, AccountTypeOK, At1
    <3>2. /\ request'[a] \in Changing /\ request'[a].stage = "auditing"
          /\ request'[a].target = t /\ request'[a].before = r.before /\ request'[a].after = r.after
      BY <1>1, <3>1, ChangeGoesOn
    <3> QED
      BY <1>1, <3>1, <3>2 DEF Progress, StatusTouched
  <2>3. CASE Audit(a)
    <3>1. /\ audited'[t] = r.after
          /\ UNCHANGED <<account, banned>> /\ r.stage = "auditing" /\ Goes(a, "idle")
      BY <1>1, <2>3, WrittenRow DEF Audit, Progress, AccountTypeOK, At1
    <3> QED
      BY <1>1, <3>1, RequestEnds DEF Progress, Whole
  <2>4. CASE RestoreRow(a)
    <3>1. /\ account'[t] = r.before
          /\ UNCHANGED <<audited, banned>> /\ r.stage = "restoring" /\ Goes(a, AfterRestore(r))
      BY <1>1, <2>4 DEF RestoreRow, AccountTypeOK, At1
    <3>2. CASE StatusTouched(r)
      <4>1. Goes(a, "unbanning")
        BY <3>1, <3>2 DEF AfterRestore
      <4>2. /\ request'[a] \in Changing /\ request'[a].stage = "unbanning"
            /\ request'[a].target = t /\ request'[a].before = r.before /\ request'[a].after = r.after
        BY <1>1, <4>1, ChangeGoesOn
      <4> QED
        BY <1>1, <3>1, <3>2, <4>2 DEF Progress, StatusTouched
    <3>3. CASE ~StatusTouched(r)
      <4>1. Goes(a, "idle")
        BY <3>1, <3>3 DEF AfterRestore
      <4> QED
        BY <1>1, <3>1, <3>3, <4>1, RequestEnds DEF Progress, Whole
    <3> QED
      BY <3>2, <3>3
  <2>5. CASE RestoreBan(a)
    <3>1. /\ t \in banned' <=> ~Active(r.before)
          /\ UNCHANGED <<account, audited>> /\ r.stage = "unbanning" /\ Goes(a, "idle")
      BY <1>1, <2>5, BanOfOne DEF RestoreBan, AccountTypeOK, At1
    <3> QED
      BY <1>1, <3>1, RequestEnds DEF Progress, Whole
  <2> QED
    BY <2>1, <2>2, <2>3, <2>4, <2>5
<1> QED
  BY <1>1, <1>2, <1>3, <1>5, ElsewhereWhole

\* A write that fails, and leaves no doubt, leaves the accounts in order.
LEMMA ChangeFails ==
    ASSUME AccountTypeOK, AccountTypeOK', Orderly, NEW a \in Accounts, WriteFails(a), ~doubted'
    PROVE  Orderly'
<1>1. request[a] \in Changing
  BY FailedWrite
<1>2. PICK r \in Changing, t \in Accounts :
         /\ r = request[a] /\ t = r.target /\ t = request[a].target
         /\ r.before \in Values /\ r.after \in Values
         /\ Progress(a)
  BY <1>1 DEF Changing, Orderly
<1>3. /\ UNCHANGED <<account, audited>>
      /\ \A s \in Accounts \ {t} : s \in banned' <=> s \in banned
  <2>1. UNCHANGED <<account, audited>>
    BY DEF WriteFails
  <2>2. \A s \in Accounts \ {t} : s \in banned' <=> s \in banned
    BY <1>2, BanOfOne DEF WriteFails, AccountTypeOK
  <2> QED
    BY <2>1, <2>2
<1>4. \A b \in Accounts \ {a} : request'[b] = request[b]
  BY DEF WriteFails, Goes, AccountTypeOK
<1>5. \/ request'[a] = Idle /\ Whole(t)'
      \/ request'[a] \in Changing /\ request'[a].target = t /\ Progress(a)'
  <2>1. CASE r.stage = "updating"
    <3>1. UNCHANGED banned /\ Goes(a, "idle")
      BY <1>2, <2>1 DEF WriteFails, At1
    <3> QED
      BY <1>2, <1>3, <2>1, <3>1, RequestEnds DEF Progress, Whole
  <2>2. CASE r.stage \in {"banning", "auditing"}
    <3>1. Goes(a, "restoring")
      BY <1>2, <2>2 DEF WriteFails, At1
    <3>2. /\ request'[a] \in Changing /\ request'[a].stage = "restoring"
          /\ request'[a].target = t /\ request'[a].before = r.before /\ request'[a].after = r.after
      BY <1>1, <1>2, <3>1, ChangeGoesOn
    <3>3. ~StatusTouched(r) => (Active(r.before) <=> Active(r.after))
      BY DEF StatusTouched, Active
    <3>4. r.stage = "auditing" => UNCHANGED banned
      BY <1>2 DEF WriteFails, At1
    <3> QED
      BY <1>2, <1>3, <2>2, <3>2, <3>3, <3>4 DEF Progress, StatusTouched
  <2>3. r.stage \in {"updating", "banning", "auditing"}
    BY <1>2 DEF WriteFails, At1
  <2> QED
    BY <2>1, <2>2, <2>3
<1> QED
  BY <1>1, <1>2, <1>3, <1>4, <1>5, ElsewhereWhole

-----------------------------------------------------------------------------
(* Account changes: the beginning and the end of a request *)

\* A request that begins, looks up its target, or ends before it has one leaves the
\* accounts in order, if it meets no other.
LEMMA RequestApart ==
    ASSUME AccountTypeOK, AccountTypeOK', Orderly, NEW a \in Accounts, request[a] \notin Changing,
           UNCHANGED <<account, banned, audited>>,
           \A b \in Accounts \ {a} : request'[b] = request[b],
           \/ request'[a] = Idle
           \/ /\ Administrator(a)
              /\ \A b \in Accounts \ {a} :
                    ~At1(b, "idle") => Involved(b) \cap Involved(a)' = {}
              /\ request'[a] \in Changing => Progress(a)'
    PROVE  Orderly'
<1>1. \A b \in Accounts \ {a} : At1(b, "idle")' = At1(b, "idle") /\ Involved(b)' = Involved(b)
                                /\ Target(b)' = Target(b)
  BY DEF At1, Involved, Target
<1>2. Target(a) = {} /\ (request'[a] = Idle => At1(a, "idle")')
  BY RequestStages DEF At1, Idle
<1>3. Apart'
  BY <1>1, <1>2 DEF Orderly, Apart
<1>4. ASSUME NEW b \in Accounts, request'[b] \in Changing PROVE Progress(b)'
  <2>1. CASE b = a
    BY <1>4, <2>1 DEF Idle, Changing
  <2>2. CASE b # a
    BY <1>4, <2>2 DEF Orderly, Progress, StatusTouched
  <2> QED
    BY <2>1, <2>2
<1>5. ASSUME NEW s \in Accounts, \A b \in Accounts : s \notin Target(b)' PROVE Whole(s)'
  <2>1. \A b \in Accounts : s \notin Target(b)
    BY <1>1, <1>2, <1>5
  <2> QED
    BY <2>1 DEF Orderly, Whole
<1>6. \A b \in Accounts : ~At1(b, "idle")' => Administrator(b)'
  BY <1>1, <1>2 DEF Orderly, Administrator
<1>7. \E b \in Accounts : Administrator(b)'
  BY DEF Orderly, Administrator
<1> QED
  BY <1>3, <1>4, <1>5, <1>6, <1>7 DEF Orderly

\* Every step that neither meets another request nor leaves a doubt keeps the order.
LEMMA OrderlyStep ==
    ASSUME AccountTypeOK, AccountTypeOK', Orderly, [AccountNext]_accountVars,
           ~overlapped', ~doubted'
    PROVE  Orderly'
<1>1. ASSUME NEW a \in Accounts, Authorize(a) PROVE Orderly'
  <2>1. /\ request[a] \notin Changing /\ request'[a] = [stage |-> "authorized"]
        /\ \A b \in Accounts \ {a} : request'[b] = request[b]
        /\ UNCHANGED <<account, banned, audited>>
    BY <1>1, RequestStages DEF Authorize, AccountTypeOK, At1, Idle, Changing
  <2>2. Administrator(a) /\ ~Meets(a, {a})
    BY <1>1 DEF Authorize, Administrator
  <2>3. Involved(a)' = {a}
    BY <2>1 DEF Involved, Target
  <2>4. request'[a] \notin Changing
    BY <2>1 DEF Changing
  <2> QED
    BY <2>1, <2>2, <2>3, <2>4, RequestApart DEF Meets, Involved
<1>2. ASSUME NEW a \in Accounts, Look(a) PROVE Orderly'
  <2>1. PICK t \in Accounts \ {a}, v \in Values :
           /\ request' = [request EXCEPT ![a] =
                 [stage |-> "updating", target |-> t, before |-> account[t], after |-> v]]
           /\ ~Meets(a, {a, t})
    BY <1>2 DEF Look
  <2>2. /\ request[a] \notin Changing
        /\ request'[a] = [stage |-> "updating", target |-> t, before |-> account[t], after |-> v]
        /\ \A b \in Accounts \ {a} : request'[b] = request[b]
        /\ UNCHANGED <<account, banned, audited>>
    BY <1>2, <2>1, RequestStages DEF Look, AccountTypeOK, At1, Changing
  <2>3. Administrator(a)
    BY <1>2 DEF Look, Orderly, At1
  <2>4. Involved(a)' = {a, t}
    BY <2>2 DEF Involved, Target
  <2>5. \A b \in Accounts \ {a} : ~At1(b, "idle") => Involved(b) \cap {a, t} = {}
    BY <2>1 DEF Meets, Involved
  <2>6. Progress(a)'
    <3>1. \A b \in Accounts : t \notin Target(b)
      BY <2>2, <2>5, RequestStages DEF Involved, At1, Target
    <3>2. Whole(t)
      BY <3>1 DEF Orderly
    <3> QED
      BY <2>2, <3>2 DEF Progress, Whole
  <2> QED
    BY <2>2, <2>3, <2>4, <2>5, <2>6, RequestApart
<1>3. ASSUME NEW a \in Accounts, Update(a) \/ Ban(a) \/ Audit(a) \/ RestoreRow(a) \/ RestoreBan(a)
      PROVE  Orderly'
  BY <1>3, ChangeSteps, ChangeProceeds
<1>4. ASSUME NEW a \in Accounts, WriteFails(a) PROVE Orderly'
  BY <1>4, ChangeFails
<1>5. ASSUME NEW a \in Accounts, ServerDies(a) PROVE Orderly'
  <2>1. /\ request'[a] = Idle /\ \A b \in Accounts \ {a} : request'[b] = request[b]
        /\ UNCHANGED <<account, banned, audited>>
        /\ request[a].stage \in {"authorized", "updating"}
    BY <1>5, RequestEnds DEF ServerDies
  <2>2. CASE request[a].stage = "authorized"
    BY <2>1, <2>2, RequestStages, RequestApart DEF Changing
  <2>3. CASE request[a].stage = "updating"
    <3>1. request[a] \in Changing /\ Progress(a)
      BY <2>3, RequestStages DEF Orderly
    <3>2. PICK t \in Accounts : t = request[a].target
      BY <3>1 DEF Changing
    <3>3. Whole(t)'
      BY <2>1, <2>3, <3>1, <3>2 DEF Progress, Whole
    <3> QED
      BY <2>1, <3>1, <3>2, <3>3, ElsewhereWhole
  <2> QED
    BY <2>1, <2>2, <2>3
<1>6. ASSUME UNCHANGED accountVars PROVE Orderly'
  BY <1>6 DEF accountVars, Orderly, Apart, Involved, Target, At1, Progress, StatusTouched, Whole,
              Administrator
<1> QED
  BY <1>1, <1>2, <1>3, <1>4, <1>5, <1>6 DEF AccountNext

-----------------------------------------------------------------------------
(* Account changes: the theorems *)

\* The invariant of the account changes: until two requests meet or one leaves a doubt,
\* every change is at a known point and every requester is an administrator.
THEOREM AccountInvariance == AccountSpec => []AccountInv
<1>1. AccountInit => AccountInv
  <2> SUFFICES ASSUME AccountInit PROVE AccountInv
    OBVIOUS
  <2>1. \A t \in Accounts : account[t] \in Values /\ account[t].status = "active"
    BY DEF AccountInit, Values
  <2>2. AccountTypeOK
    BY <2>1 DEF AccountInit, AccountTypeOK
  <2>3. \A a \in Accounts : At1(a, "idle") /\ request[a] \notin Changing
    BY DEF AccountInit, At1, Idle, Changing
  <2>4. \A t \in Accounts : Whole(t)
    BY <2>1 DEF AccountInit, Whole, Active
  <2>5. \E a \in Accounts : Administrator(a)
    BY AccountAssumption DEF AccountInit, Administrator, Active
  <2> QED
    BY <2>2, <2>3, <2>4, <2>5 DEF AccountInv, Orderly, Apart
<1>2. AccountInv /\ [AccountNext]_accountVars => AccountInv'
  <2> SUFFICES ASSUME AccountInv, [AccountNext]_accountVars PROVE AccountInv'
    OBVIOUS
  <2>1. AccountTypeOK'
    BY AccountTypeStep DEF AccountInv
  <2>2. ~overlapped' /\ ~doubted' => ~overlapped /\ ~doubted
    BY DEF AccountNext, accountVars, Authorize, Look, Update, Ban, Audit, RestoreRow, RestoreBan,
           WriteFails, ServerDies
  <2> QED
    BY <2>1, <2>2, OrderlyStep DEF AccountInv
<1> QED
  BY <1>1, <1>2, PTL DEF AccountSpec

\* PATCH /api/admin/users for any number of accounts, administrators, requests and
\* failed writes: without a transaction, a change that met no other and left no doubt
\* has its row, its ban and its audit entry, or none of them, and an active
\* administrator is left.
THEOREM AccountChangesWhole == AccountSpec => []ChangesWhole
<1>1. AccountInv => ChangesWhole
  BY DEF AccountInv, Orderly, Whole, Administrator, ChangesWhole
<1> QED
  BY <1>1, AccountInvariance, PTL

-----------------------------------------------------------------------------
(* Sign-in state: the invariant *)

SessionSpec == SessionInit /\ [][SessionNext]_sessionVars

Holders == Users \cup {Nobody}

SessionTypeOK ==
    /\ session \in Holders /\ asking \subseteq Holders /\ events \in Seq(Holders)
    /\ lookups \in [Holders -> Nat]
    /\ roleFaults \in Nat /\ crossed \in BOOLEAN

\* What the provider has asked and has yet to hear is about the session that is held.
AsksForSession ==
    /\ asking \subseteq {session}
    /\ \A i \in 1..Len(events) : events[i] = session
    /\ \A w \in Holders : lookups[w] > 0 => w = session /\ w # Nobody

\* What it shows once it has heard of it.
ShowsSession == loading = FALSE /\ events = <<>> =>
    /\ user = session
    /\ roleLoading = FALSE => role = IF user = Nobody THEN "none" ELSE RoleOf[user]

SessionInv ==
    /\ SessionTypeOK
    /\ crossed = FALSE /\ roleFaults = 0 => AsksForSession /\ ShowsSession

\* Whatever is announced of a session that is held, is shown and asked for.
LEMMA ShowsHeld ==
    ASSUME SessionTypeOK, NEW u \in Holders, Shows(u), UNCHANGED session
    PROVE  /\ lookups' \in [Holders -> Nat]
           /\ AsksForSession /\ u = session =>
                /\ \A w \in Holders : lookups'[w] > 0 => w = session /\ w # Nobody
                /\ user' = session
                /\ roleLoading' = FALSE => role' = IF user' = Nobody THEN "none" ELSE RoleOf[user']
<1> USE DEF SessionTypeOK
<1>1. CASE u = Nobody
  BY <1>1 DEF Shows, AsksForSession
<1>2. CASE u # Nobody
  <2>1. lookups' = [lookups EXCEPT ![session] = @ + 1] /\ user' = u /\ roleLoading' = TRUE
    BY <1>2 DEF Shows
  <2>2. roleLoading' # FALSE
    BY <2>1, Zenon
  <2>3. lookups' \in [Holders -> Nat]
    BY <2>1
  <2>4. \A w \in Holders : w # session => lookups'[w] = lookups[w]
    BY <2>1
  <2> QED
    BY <1>2, <2>1, <2>2, <2>3, <2>4 DEF AsksForSession
<1> QED
  BY <1>1, <1>2

\* A session that changes while nothing is awaited is announced before it is shown.
LEMMA ChangesStep ==
    ASSUME SessionInv, NEW u \in Holders, SessionChanges(u)
    PROVE  SessionInv'
<1> USE DEF SessionInv, SessionTypeOK
<1>1. /\ session' = u /\ events' = Append(events, u)
      /\ UNCHANGED <<asking, shownVars, lookups, roleFaults>>
      /\ crossed' = (crossed \/ asking # {} \/ events # <<>>
                      \/ \E w \in DOMAIN lookups : lookups[w] > 0)
  BY DEF SessionChanges
<1>2. SessionTypeOK'
  BY <1>1
<1>3. ASSUME crossed' = FALSE, roleFaults' = 0 PROVE AsksForSession' /\ ShowsSession'
  <2>1. crossed = FALSE /\ asking = {} /\ events = <<>> /\ \A w \in Holders : ~(lookups[w] > 0)
    <3>1. crossed \in BOOLEAN /\ DOMAIN lookups = Holders
      OBVIOUS
    <3>2. ~(crossed \/ asking # {} \/ events # <<>> \/ \E w \in Holders : lookups[w] > 0)
      BY <1>1, <1>3, <3>1, Zenon
    <3> QED
      BY <3>1, <3>2, Zenon
  <2>2. events' = <<u>>
    BY <1>1, <2>1
  <2> QED
    BY <1>1, <2>1, <2>2 DEF AsksForSession, ShowsSession
<1> QED
  BY <1>2, <1>3

\* A role that is answered is that of the session, unless the request failed.
LEMMA AnswerStep ==
    ASSUME SessionInv, NEW w \in Holders, RoleAnswered(w)
    PROVE  SessionInv'
<1> USE DEF SessionInv, SessionTypeOK
<1>1. /\ lookups[w] > 0 /\ lookups' = [lookups EXCEPT ![w] = @ - 1]
      /\ UNCHANGED <<session, asking, events, user, loading, crossed>>
      /\ \/ role' = RoleIn(w) /\ UNCHANGED roleFaults
         \/ roleFaults' = roleFaults + 1
  BY DEF RoleAnswered
<1>2. SessionTypeOK'
  BY <1>1
<1>3. ASSUME crossed' = FALSE, roleFaults' = 0 PROVE AsksForSession' /\ ShowsSession'
  <2>1. roleFaults = 0 /\ role' = RoleIn(w)
    BY <1>1, <1>3
  <2>2. AsksForSession /\ ShowsSession
    BY <1>1, <1>3, <2>1
  <2>3. w = session /\ w # Nobody
    BY <1>1, <2>2 DEF AsksForSession
  <2>4. AsksForSession'
    BY <1>1, <2>2 DEF AsksForSession
  <2>5. ShowsSession'
    BY <1>1, <2>1, <2>2, <2>3 DEF ShowsSession, RoleIn
  <2> QED
    BY <2>4, <2>5
<1> QED
  BY <1>2, <1>3

\* The invariant of the provider: as long as no request fails and no answer is crossed
\* by a change, all that it awaits is about the session held, and it shows that session.
THEOREM SessionInvariance == SessionSpec => []SessionInv
<1>1. SessionInit => SessionInv
  <2> SUFFICES ASSUME SessionInit PROVE SessionInv
    OBVIOUS
  <2>1. SessionTypeOK
    <3>1. roleFaults = 0 /\ crossed \in BOOLEAN
      BY Zenon DEF SessionInit
    <3> QED
      BY <3>1 DEF SessionInit, SessionTypeOK, Holders
  <2>2. AsksForSession
    BY DEF SessionInit, AsksForSession, Holders
  <2>3. ShowsSession
    BY Zenon DEF SessionInit, ShowsSession
  <2> QED
    BY <2>1, <2>2, <2>3 DEF SessionInv
<1>2. SessionInv /\ [SessionNext]_sessionVars => SessionInv'
  <2> SUFFICES ASSUME SessionInv, [SessionNext]_sessionVars PROVE SessionInv'
    OBVIOUS
  <2> USE DEF SessionInv, SessionTypeOK
  <2>1. ASSUME Mount PROVE SessionInv'
    BY <2>1 DEF Mount, shownVars, AsksForSession, ShowsSession
  <2>2. ASSUME GotSession PROVE SessionInv'
    <3>1. PICK u \in asking : Shows(u)
      BY <2>2 DEF GotSession
    <3>2. asking' = {} /\ UNCHANGED <<session, events, roleFaults, crossed>>
      BY <2>2 DEF GotSession
    <3>3. SessionTypeOK'
      BY <3>1, <3>2, ShowsHeld
    <3>4. AsksForSession => u = session /\ AsksForSession' /\ ShowsSession'
      BY <3>1, <3>2, ShowsHeld DEF AsksForSession, ShowsSession
    <3> QED
      BY <3>2, <3>3, <3>4
  <2>3. ASSUME NoSession PROVE SessionInv'
    <3>1. roleFaults' = roleFaults + 1 /\ asking' = {}
          /\ UNCHANGED <<session, events, lookups, crossed>>
      BY <2>3 DEF NoSession
    <3> QED
      BY <3>1
  <2>4. ASSUME AuthStateChange PROVE SessionInv'
    <3>1. events # <<>> /\ Shows(Head(events)) /\ events' = Tail(events)
          /\ UNCHANGED <<session, asking, roleFaults, crossed>>
      BY <2>4 DEF AuthStateChange
    <3>2. events \in Seq(Holders) /\ events # <<>>
      BY <3>1, Zenon
    <3>3. PICK u \in Holders : u = Head(events)
      BY <3>2, HeadTailProperties
    <3>4. events' \in Seq(Holders) /\ Len(events') = Len(events) - 1
          /\ \A i \in 1..Len(events') : events'[i] = events[i + 1]
      <4>1. events' = Tail(events)
        BY <3>1, Zenon
      <4> QED
        BY <3>2, <4>1, HeadTailProperties
    <3>5. SessionTypeOK'
      <4>1. lookups' \in [Holders -> Nat]
        BY <3>1, <3>3, ShowsHeld
      <4> QED
        BY <3>4, <3>1, <4>1
    <3>6. /\ u = events[1] /\ 1 \in 1..Len(events)
          /\ \A i \in 1..Len(events') : i + 1 \in 1..Len(events)
      BY <3>2, <3>3, <3>4
    <3>7. AsksForSession => u = session /\ AsksForSession' /\ ShowsSession'
      <4> SUFFICES ASSUME AsksForSession PROVE u = session /\ AsksForSession' /\ ShowsSession'
        OBVIOUS
      <4>1. u = session
        BY <3>1, <3>6 DEF AsksForSession
      <4>2. /\ \A w \in Holders : lookups'[w] > 0 => w = session /\ w # Nobody
            /\ user' = session
            /\ roleLoading' = FALSE => role' = IF user' = Nobody THEN "none" ELSE RoleOf[user']
        BY <3>1, <3>3, <4>1, ShowsHeld
      <4>3. \A i \in 1..Len(events') : events'[i] = session
        BY <3>6, <3>4 DEF AsksForSession
      <4>4. AsksForSession'
        BY <3>1, <4>2, <4>3 DEF AsksForSession
      <4>5. ShowsSession'
        BY <3>1, <4>2 DEF ShowsSession
      <4> QED
        BY <4>1, <4>4, <4>5
    <3> QED
      BY <3>1, <3>5, <3>7
  <2>5. ASSUME NEW u \in Holders, SessionChanges(u) PROVE SessionInv'
    BY <2>5, ChangesStep
  <2>6. ASSUME NEW w \in Holders, RoleAnswered(w) PROVE SessionInv'
    BY <2>6, AnswerStep
  <2>7. CASE UNCHANGED sessionVars
    BY <2>7 DEF sessionVars, shownVars, AsksForSession, ShowsSession
  <2> QED
    BY <2>1, <2>2, <2>3, <2>4, <2>5, <2>6, <2>7 DEF SessionNext, Holders
<1> QED
  BY <1>1, <1>2, PTL DEF SessionSpec

\* AuthContext.tsx for any users and roles: a page that may decide knows who is signed
\* in and with which role, however the two questions of a mount interleave.
THEOREM PageKnowsWho == SessionSpec => []KnowsWho
<1>1. SessionInv => KnowsWho
  BY DEF SessionInv, ShowsSession, KnowsWho
<1> QED
  BY <1>1, SessionInvariance, PTL

-----------------------------------------------------------------------------
(* Failed-authentication alerts: the invariant *)

TrackerSpec == TrackerInit /\ [][TrackerNext]_trackerVars

SourceWindow == [failures : Seq(Nat), lastAlertAt : SUBSET Nat]

TrackerTypeOK ==
    /\ clock \in Nat
    /\ DOMAIN sources \subseteq Sources /\ sources \in [DOMAIN sources -> SourceWindow]
    /\ counted \in [Sources -> Seq(Nat)]
    /\ alerts \in [Sources -> SUBSET Nat]

\* The failures of a source were counted in order, and its alerts raised at some of them.
InOrder(s) ==
    /\ \A i, j \in DOMAIN counted[s] : i <= j => counted[s][i] <= counted[s][j]
    /\ \A i \in DOMAIN counted[s] : counted[s][i] <= clock
    /\ \A t \in alerts[s] : \E i \in DOMAIN counted[s] : t = counted[s][i]

\* The deque holds what was counted but for the first d failures, and all of those have
\* left the window.
HoldsAllBut(failures, s, d) ==
    /\ d + Len(failures) = Len(counted[s])
    /\ \A i \in 1..Len(failures) : failures[i] = counted[s][d + i]
    /\ \A i \in 1..d : Elapsed(counted[s][i])

LastAlert(at, s) == at \subseteq alerts[s] /\ \A t \in alerts[s] \ at : Elapsed(t)

\* A tracked source has all of its failures and alerts that are still in the window.
Tracks(s) ==
    /\ sources[s].failures # <<>>
    /\ \E d \in Nat : HoldsAllBut(sources[s].failures, s, d)
    /\ LastAlert(sources[s].lastAlertAt, s)

\* A source that is not tracked has none.
Forgotten(s) == Recent(s) = {} /\ \A t \in alerts[s] : Elapsed(t)

TrackerInv ==
    /\ TrackerTypeOK /\ UncountedOnlyIfFull
    /\ \A s \in Sources : InOrder(s)
    /\ \A s \in DOMAIN sources : Tracks(s)
    /\ \A s \in Sources \ DOMAIN sources : Forgotten(s)

\* What has left the window has left it before what came later.
LEMMA OlderElapsed ==
    ASSUME clock \in Nat, NEW t \in Nat, NEW u \in Nat, t <= u, Elapsed(u)
    PROVE  Elapsed(t)
BY TrackerAssumption DEF Elapsed

\* A set of numbers has a least one.
LEMMA LeastTime ==
    ASSUME NEW T \in SUBSET Nat, T # {}
    PROVE  \E n \in T : \A m \in T : n <= m
<1>1. PICK n \in T : \A m \in T : <<m, n>> \notin OpToRel(<, Nat)
  BY NatLessThanWellFounded, WFMin
<1>2. ASSUME NEW m \in T PROVE n <= m
  <2>1. ~(m < n)
    BY <1>1 DEF OpToRel
  <2> QED
    BY <2>1
<1> QED
  BY <1>2

\* The head of the deque is dropped up to the first failure that is in the window.
LEMMA ExpiredIs ==
    ASSUME NEW f \in Seq(Nat)
    PROVE  /\ Expired(f) \in 0..Len(f)
           /\ \A i \in 1..Expired(f) : Elapsed(f[i])
           /\ Expired(f) < Len(f) => ~Elapsed(f[Expired(f) + 1])
<1> DEFINE T == {n \in 0..Len(f) : n < Len(f) => ~Elapsed(f[n + 1])}
<1>1. Len(f) \in T /\ T \in SUBSET Nat
  OBVIOUS
<1>2. PICK n \in T : \A m \in T : n <= m
  <2> HIDE DEF T
  <2> QED
    BY <1>1, LeastTime
<1>3. ASSUME NEW i \in 1..n PROVE Elapsed(f[i])
  <2>1. i - 1 \in 0..Len(f) /\ i - 1 < Len(f) /\ (i - 1) + 1 = i /\ ~(n <= i - 1)
    BY <1>2
  <2> QED
    BY <1>2, <2>1
<1> QED
  BY <1>2, <1>3 DEF Expired

Counts(s) == counted' = [counted EXCEPT ![s] = Append(@, clock)] /\ UNCHANGED clock

\* A failure that is recorded finds at the head of its deque what it drops: the deque
\* then holds the failures of the window, all of them and no other.
LEMMA RecordedIs ==
    ASSUME TrackerTypeOK, NEW s \in Sources, InOrder(s), Counts(s),
           NEW f \in Seq(Nat), NEW d \in Nat, HoldsAllBut(f, s, d), NEW F, F = Recorded(f)
    PROVE  /\ F \in Seq(Nat) /\ F # <<>>
           /\ \E e \in Nat : HoldsAllBut(F, s, e)'
           /\ Cardinality(Recent(s)') = Len(F)
<1>1. PICK K \in Nat, n \in Nat : K = Len(f) /\ n = Expired(f) /\ n <= K
  BY ExpiredIs
<1>2. PICK c \in Seq(Nat) : c = counted[s]
  BY DEF TrackerTypeOK
<1>3. PICK L \in Nat, m \in Nat : L = Len(c) /\ L = d + K /\ m = d + n
  BY <1>1, <1>2 DEF HoldsAllBut
<1>4. Len(c) \in Nat /\ DOMAIN c = 1..Len(c) /\ \A j \in 1..Len(c) : c[j] \in Nat
  OBVIOUS
<1>5. DOMAIN c = 1..L /\ \A j \in 1..L : c[j] \in Nat
  BY <1>3, <1>4
<1>6. n \in Nat /\ n <= K /\ L = d + K /\ m = d + n
  BY <1>1, <1>3
<1>7. /\ \A i \in 1..n : Elapsed(f[i])
      /\ n < K => ~Elapsed(f[n + 1])
  BY <1>1, ExpiredIs
<1>8. \A i \in 1..K : f[i] = c[d + i]
  BY <1>1, <1>2 DEF HoldsAllBut
<1>9. /\ F \in Seq(Nat) /\ F # <<>> /\ Len(F) = K - n + 1 /\ F[K - n + 1] = clock
      /\ \A i \in 1..K - n : F[i] = c[m + i]
  <2>1. \A i \in n + 1..K : f[i] \in Nat
    BY <1>1, <1>6
  <2>2. PICK g : g = SubSeq(f, n + 1, K)
    OBVIOUS
  <2>3. /\ g \in Seq(Nat) /\ Len(g) = K - n
        /\ \A i \in 1..K - (n + 1) + 1 : g[i] = f[n + 1 + i - 1]
    BY <1>6, <2>1, <2>2, SubSeqProperties
  <2>4. \A i \in 1..K - n : g[i] = c[m + i]
    <3> SUFFICES ASSUME NEW i \in 1..K - n PROVE g[i] = c[m + i]
      OBVIOUS
    <3>1. i \in 1..K - (n + 1) + 1 /\ n + 1 + i - 1 = n + i /\ n + i \in 1..K /\ d + (n + i) = m + i
      BY <1>6
    <3> QED
      BY <1>8, <2>3, <3>1
  <2>5. F = Append(g, clock)
    BY <1>1, <2>2 DEF Recorded
  <2>6. clock \in Nat
    BY DEF TrackerTypeOK
  <2> QED
    <3>1. g \in Seq(Nat)
      BY <2>3
    <3>2. /\ F \in Seq(Nat) /\ F # <<>> /\ Len(F) = Len(g) + 1 /\ F[Len(g) + 1] = clock
          /\ \A i \in 1..Len(g) : F[i] = g[i]
      BY <2>5, <2>6, <3>1, AppendProperties
    <3> QED
      BY <2>3, <2>4, <3>2
<1>10. PICK b : b = counted'[s]
  OBVIOUS
<1>11. /\ b \in Seq(Nat) /\ Len(b) = L + 1 /\ b[L + 1] = clock
      /\ \A i \in 1..L : b[i] = c[i]
  <2>1. b = Append(c, clock)
    BY <1>2, <1>10 DEF TrackerTypeOK, Counts
  <2>2. clock \in Nat
    BY DEF TrackerTypeOK
  <2> QED
    <3>1. /\ b \in Seq(Nat) /\ b # <<>> /\ Len(b) = Len(c) + 1 /\ b[Len(c) + 1] = clock
          /\ \A i \in 1..Len(c) : b[i] = c[i]
      BY <2>1, <2>2, AppendProperties
    <3> QED
      BY <1>3, <3>1
<1>12. \A i \in 1..m : Elapsed(b[i])
  <2> SUFFICES ASSUME NEW i \in 1..m PROVE Elapsed(c[i])
    <3>1. m <= L
      BY <1>6
    <3> QED
      BY <1>11, <3>1
  <2>1. CASE i <= d
    BY <1>2, <2>1 DEF HoldsAllBut
  <2>2. CASE i > d
    <3>1. i - d \in 1..n /\ i - d \in 1..K /\ d + (i - d) = i
      BY <1>6, <2>2
    <3> QED
      BY <1>7, <1>8, <3>1
  <2> QED
    BY <2>1, <2>2
<1>13. \A i \in m + 1..L + 1 : ~Elapsed(b[i])
  <2> SUFFICES ASSUME NEW i \in m + 1..L + 1, Elapsed(b[i]) PROVE FALSE
    OBVIOUS
  <2>1. CASE i = L + 1
    BY <1>11, <2>1, TrackerAssumption DEF Elapsed, TrackerTypeOK
  <2>2. CASE i # L + 1
    <3>1. n + 1 \in 1..K /\ d + (n + 1) = m + 1 /\ m + 1 \in 1..L /\ m + 1 <= i /\ i \in 1..L
      BY <1>6, <2>2
    <3>2. c[m + 1] <= c[i] /\ c[m + 1] \in Nat /\ c[i] \in Nat
      <4>1. \A j, k \in 1..L : j <= k => c[j] <= c[k]
        BY <1>2, <1>5 DEF InOrder
      <4> QED
        BY <1>5, <3>1, <4>1
    <3>3. Elapsed(c[m + 1])
      BY <1>11, <3>1, <3>2, OlderElapsed DEF TrackerTypeOK
    <3> QED
      BY <1>6, <1>7, <1>8, <3>1, <3>3
  <2> QED
    BY <2>1, <2>2
<1>14. \A t : Elapsed(t)' <=> Elapsed(t)
  BY DEF Elapsed, Counts
<1>15. HoldsAllBut(F, s, m)'
  <2>1. m + Len(F) = Len(b)
    BY <1>6, <1>9, <1>11
  <2>2. \A i \in 1..Len(F) : F[i] = b[m + i]
    <3> SUFFICES ASSUME NEW i \in 1..K - n + 1 PROVE F[i] = b[m + i]
      BY <1>9
    <3>1. CASE i = K - n + 1
      <4>1. m + i = L + 1
        BY <1>6, <3>1
      <4> QED
        BY <1>9, <1>11, <3>1, <4>1
    <3>2. CASE i # K - n + 1
      <4>1. i \in 1..K - n /\ m + i \in 1..L
        BY <1>6, <3>2
      <4> QED
        BY <1>9, <1>11, <4>1
    <3> QED
      BY <3>1, <3>2
  <2> QED
    BY <1>10, <1>12, <1>14, <2>1, <2>2 DEF HoldsAllBut
<1>16. Recent(s)' = m + 1..L + 1
  <2>1. Recent(s)' = {i \in 1..L + 1 : ~Elapsed(b[i])}
    BY <1>10, <1>11, <1>14 DEF Recent
  <2>2. \A i \in 1..L + 1 : ~Elapsed(b[i]) <=> i \in m + 1..L + 1
    <3> SUFFICES ASSUME NEW i \in 1..L + 1 PROVE ~Elapsed(b[i]) <=> i \in m + 1..L + 1
      OBVIOUS
    <3>1. i \in 1..m \/ i \in m + 1..L + 1
      OBVIOUS
    <3> QED
      BY <1>12, <1>13, <3>1
  <2>3. \A i \in m + 1..L + 1 : i \in 1..L + 1
    OBVIOUS
  <2> QED
    BY <2>1, <2>2, <2>3
<1>17. Cardinality(Recent(s)') = Len(F)
  <2>1. m + 1 \in Int /\ L + 1 \in Int /\ m + 1 <= L + 1 /\ L + 1 - (m + 1) + 1 = K - n + 1
    BY <1>6
  <2>2. Cardinality(m + 1..L + 1) = K - n + 1
    <3>1. PICK p \in Int, q \in Int : p = m + 1 /\ q = L + 1
      BY <2>1
    <3>2. Cardinality(p..q) = IF p > q THEN 0 ELSE q - p + 1
      BY FS_Interval
    <3> QED
      BY <2>1, <3>1, <3>2
  <2> QED
    BY <1>9, <1>16, <2>2
<1> QED
  BY <1>6, <1>9, <1>15, <1>17

\* Purging forgets only sources of which nothing is left in the window, so that every
\* source is tracked or has nothing to be tracked.
LEMMA KeptIs ==
    ASSUME TrackerInv, NEW s \in Sources, NEW kept, kept = Kept(s)
    PROVE  /\ DOMAIN kept \subseteq DOMAIN sources /\ kept \in [DOMAIN kept -> SourceWindow]
           /\ \A x \in DOMAIN kept : kept[x] = sources[x]
           /\ \A x \in Sources \ DOMAIN kept : Forgotten(x)
<1> DEFINE fresh == {x \in DOMAIN sources : ~Stale(sources[x])}
<1>1. \A x \in DOMAIN sources : sources[x] \in SourceWindow
  BY DEF TrackerInv, TrackerTypeOK
<1>2. ASSUME NEW x \in DOMAIN sources, Stale(sources[x]) PROVE Forgotten(x)
  <2>1. x \in Sources
    BY DEF TrackerInv, TrackerTypeOK
  <2>2. PICK f : f = sources[x].failures
    OBVIOUS
  <2>3. f \in Seq(Nat) /\ f # <<>> /\ Elapsed(f[Len(f)])
    BY <1>1, <1>2, <2>2 DEF Stale, SourceWindow, TrackerInv, Tracks
  <2>4. PICK d \in Nat : HoldsAllBut(f, x, d)
    BY <2>2 DEF TrackerInv, Tracks
  <2>5. PICK c \in Seq(Nat) : c = counted[x]
    BY <2>1 DEF TrackerInv, TrackerTypeOK
  <2>6. /\ Len(c) \in 1..Len(c) /\ DOMAIN c = 1..Len(c)
        /\ \A i \in 1..Len(c) : c[i] \in Nat
        /\ c[Len(c)] = f[Len(f)]
    <3>1. /\ d + Len(f) = Len(c) /\ Len(f) \in Nat \ {0}
          /\ \A i \in 1..Len(f) : f[i] = c[d + i]
      BY <2>3, <2>4, <2>5, EmptySeq DEF HoldsAllBut
    <3>2. Len(f) \in 1..Len(f)
      BY <3>1
    <3>3. f[Len(f)] = c[Len(c)]
      BY <3>1, <3>2
    <3>4. Len(c) \in Nat /\ DOMAIN c = 1..Len(c) /\ \A i \in 1..Len(c) : c[i] \in Nat
      OBVIOUS
    <3> QED
      BY <3>1, <3>3, <3>4
  <2>7. \A i \in 1..Len(c) : c[i] <= c[Len(c)]
    BY <2>1, <2>5, <2>6 DEF TrackerInv, InOrder
  <2>8. clock \in Nat
    BY DEF TrackerInv, TrackerTypeOK
  <2>9. \A i \in DOMAIN counted[x] : Elapsed(counted[x][i])
    BY <2>3, <2>5, <2>6, <2>7, <2>8, OlderElapsed
  <2>10. Recent(x) = {}
    BY <2>9 DEF Recent
  <2>11. \A t \in alerts[x] : Elapsed(t)
    BY <2>1, <2>9 DEF TrackerInv, InOrder
  <2> QED
    BY <2>10, <2>11 DEF Forgotten
<1>3. CASE kept = sources
  BY <1>3 DEF TrackerInv, TrackerTypeOK
<1>4. CASE kept # sources
  <2>1. kept = [x \in fresh |-> sources[x]]
    BY <1>4 DEF Kept, Purged
  <2>2. DOMAIN kept = fresh /\ \A x \in fresh : kept[x] = sources[x]
    BY <2>1
  <2>3. \A x \in Sources \ fresh : Forgotten(x)
    BY <1>2 DEF TrackerInv
  <2> QED
    BY <1>1, <2>1, <2>2, <2>3
<1> QED
  BY <1>3, <1>4

\* The window that recordFailure finds for a source, or opens, has all that counts.
LEMMA WindowFound ==
    ASSUME TrackerInv, NEW s \in Sources, NEW kept, kept = Kept(s),
           NEW w, w = IF s \in DOMAIN kept THEN kept[s] ELSE NewWindow
    PROVE  /\ w \in SourceWindow /\ LastAlert(w.lastAlertAt, s)
           /\ \E d \in Nat : HoldsAllBut(w.failures, s, d)
<1>1. CASE s \in DOMAIN kept
  <2>1. s \in DOMAIN sources /\ w = sources[s] /\ w \in SourceWindow
    BY <1>1, KeptIs
  <2> QED
    BY <2>1 DEF TrackerInv, Tracks
<1>2. CASE s \notin DOMAIN kept
  <2>1. w = [failures |-> <<>>, lastAlertAt |-> {}]
    BY <1>2 DEF NewWindow
  <2>2. w \in SourceWindow /\ w.failures = <<>> /\ w.lastAlertAt = {}
    <3>1. PICK e \in Seq(Nat) : e = <<>>
      BY EmptySeq
    <3>2. w = [failures |-> e, lastAlertAt |-> {}]
      BY <2>1, <3>1
    <3>3. w.failures = <<>> /\ w.lastAlertAt = {}
      BY <3>1, <3>2
    <3>4. w \in SourceWindow
      BY <3>2 DEF SourceWindow
    <3> QED
      BY <3>3, <3>4
  <2>3. Forgotten(s)
    BY <1>2, KeptIs
  <2>4. LastAlert({}, s)
    BY <2>3 DEF Forgotten, LastAlert
  <2>5. PICK c \in Seq(Nat) : c = counted[s]
    BY DEF TrackerInv, TrackerTypeOK
  <2>6. \A i \in DOMAIN counted[s] : Elapsed(counted[s][i])
    BY <2>3 DEF Forgotten, Recent
  <2>7. Len(c) \in Nat /\ DOMAIN c = 1..Len(c)
    OBVIOUS
  <2>8. HoldsAllBut(<<>>, s, Len(c))
    BY <2>5, <2>6, <2>7 DEF HoldsAllBut
  <2> QED
    BY <2>2, <2>4, <2>7, <2>8
<1> QED
  BY <1>1, <1>2

\* A failure that is counted keeps the invariant, and raises an alert exactly if one is due.
LEMMA RecordStep ==
    ASSUME TrackerInv, NEW s \in Sources, RecordFailure(s)
    PROVE  /\ TrackerInv'
           /\ \A x \in Sources :
                counted'[x] # counted[x] => (outcome' = "alerted" <=> AlertDue(x))
<1>1. PICK kept : kept = Kept(s)
  OBVIOUS
<1>2. PICK w : w = IF s \in DOMAIN kept THEN kept[s] ELSE NewWindow
  OBVIOUS
<1>3. PICK F : F = Recorded(w.failures)
  OBVIOUS
<1>4. PICK due \in BOOLEAN : due = (Len(F) >= Threshold /\ \A t \in w.lastAlertAt : Elapsed(t))
  OBVIOUS
<1>5. PICK at : at = IF due THEN {clock} ELSE w.lastAlertAt
  OBVIOUS
<1>6. /\ sources' = [x \in DOMAIN kept \cup {s} |->
                        IF x = s THEN [failures |-> F, lastAlertAt |-> at] ELSE kept[x]]
      /\ outcome' = IF due THEN "alerted" ELSE "counted"
      /\ Counts(s)
      /\ alerts' = IF due THEN [alerts EXCEPT ![s] = @ \cup {clock}] ELSE alerts
  BY <1>1, <1>2, <1>3, <1>4, <1>5 DEF RecordFailure, Counts
<1>7. /\ w \in SourceWindow /\ LastAlert(w.lastAlertAt, s)
      /\ \E d \in Nat : HoldsAllBut(w.failures, s, d)
  BY <1>1, <1>2, WindowFound
<1>8. /\ F \in Seq(Nat) /\ F # <<>>
      /\ \E e \in Nat : HoldsAllBut(F, s, e)'
      /\ Cardinality(Recent(s)') = Len(F)
  <2>1. w.failures \in Seq(Nat)
    BY <1>7 DEF SourceWindow
  <2>2. PICK d \in Nat : HoldsAllBut(w.failures, s, d)
    BY <1>7
  <2>3. TrackerTypeOK /\ InOrder(s)
    BY DEF TrackerInv
  <2> QED
    BY <1>3, <1>6, <2>1, <2>2, <2>3, RecordedIs
<1>9. /\ clock \in Nat /\ alerts \in [Sources -> SUBSET Nat] /\ counted \in [Sources -> Seq(Nat)]
      /\ DOMAIN sources \subseteq Sources
  BY DEF TrackerInv, TrackerTypeOK
<1>10. /\ DOMAIN kept \subseteq DOMAIN sources /\ kept \in [DOMAIN kept -> SourceWindow]
       /\ \A x \in DOMAIN kept : kept[x] = sources[x]
       /\ \A x \in Sources \ DOMAIN kept : Forgotten(x)
  BY <1>1, KeptIs
<1>11. \A t : Elapsed(t)' <=> Elapsed(t)
  BY <1>6 DEF Elapsed, Counts
<1>12. at \in SUBSET Nat /\ w.lastAlertAt \in SUBSET Nat
  <2>1. w.lastAlertAt \in SUBSET Nat
    BY <1>7 DEF SourceWindow
  <2> QED
    BY <1>5, <1>9, <2>1
<1>13. \A x \in Sources \ {s} : counted'[x] = counted[x] /\ alerts'[x] = alerts[x]
  BY <1>6, <1>9 DEF Counts
<1>14. alerts'[s] = IF due THEN alerts[s] \cup {clock} ELSE alerts[s]
  BY <1>6, <1>9
<1>15. TrackerTypeOK'
  <2>1. [failures |-> F, lastAlertAt |-> at] \in SourceWindow
    BY <1>8, <1>12 DEF SourceWindow
  <2>2. /\ DOMAIN sources' = DOMAIN kept \cup {s}
        /\ sources' \in [DOMAIN kept \cup {s} -> SourceWindow]
    BY <1>6, <1>10, <2>1
  <2>3. alerts' \in [Sources -> SUBSET Nat]
    BY <1>6, <1>9
  <2>4. clock' \in Nat /\ counted' \in [Sources -> Seq(Nat)]
    BY <1>6, <1>9 DEF Counts
  <2> QED
    BY <1>9, <1>10, <2>2, <2>3, <2>4 DEF TrackerTypeOK
<1>16. UncountedOnlyIfFull'
  <2>1. outcome' # "untracked"
    BY <1>6
  <2> QED
    BY <2>1 DEF UncountedOnlyIfFull
<1>17. \A x \in Sources : InOrder(x)'
  <2> SUFFICES ASSUME NEW x \in Sources PROVE InOrder(x)'
    OBVIOUS
  <2>1. clock' = clock /\ InOrder(x)
    BY <1>6 DEF Counts, TrackerInv
  <2>2. CASE x # s
    BY <1>13, <2>1, <2>2 DEF InOrder
  <2>3. CASE x = s
    <3>1. PICK c \in Seq(Nat) : c = counted[s]
      BY <1>9
    <3>2. /\ Len(c) \in Nat /\ DOMAIN c = 1..Len(c)
          /\ \A i \in 1..Len(c) : c[i] \in Nat /\ c[i] <= clock
          /\ \A i, j \in 1..Len(c) : i <= j => c[i] <= c[j]
      BY <2>1, <2>3, <3>1 DEF InOrder
    <3>3. PICK b : b = counted'[s]
      OBVIOUS
    <3>4. /\ b = Append(c, clock) /\ DOMAIN b = 1..Len(c) + 1 /\ b[Len(c) + 1] = clock
          /\ \A i \in 1..Len(c) : b[i] = c[i]
      <4>1. b = Append(c, clock)
        BY <1>6, <1>9, <3>1, <3>3 DEF Counts
      <4> QED
        BY <1>9, <4>1, AppendProperties
    <3>5. \A i \in DOMAIN b : i \in 1..Len(c) \/ i = Len(c) + 1
      BY <3>2, <3>4
    <3>6. \A i, j \in DOMAIN b : i <= j => b[i] <= b[j]
      <4> SUFFICES ASSUME NEW i \in 1..Len(c) + 1, NEW j \in 1..Len(c) + 1, i <= j
                   PROVE  b[i] <= b[j]
        BY <3>4
      <4>1. CASE j = Len(c) + 1
        BY <1>9, <3>2, <3>4, <3>5, <4>1
      <4>2. CASE j # Len(c) + 1
        <5>1. i \in 1..Len(c) /\ j \in 1..Len(c)
          BY <3>2, <4>2
        <5> QED
          BY <3>2, <3>4, <5>1
      <4> QED
        BY <4>1, <4>2
    <3>7. \A i \in DOMAIN b : b[i] <= clock
      BY <1>9, <3>2, <3>4, <3>5
    <3>8. \A t \in alerts'[s] : \E i \in DOMAIN b : t = b[i]
      <4> SUFFICES ASSUME NEW t \in alerts'[s] PROVE \E i \in DOMAIN b : t = b[i]
        OBVIOUS
      <4>1. CASE t = clock
        <5>1. Len(c) + 1 \in DOMAIN b
          BY <3>2, <3>4
        <5> QED
          BY <3>4, <4>1, <5>1
      <4>2. CASE t # clock
        <5>1. PICK i \in DOMAIN counted[s] : t = counted[s][i]
          BY <1>14, <2>1, <2>3, <4>2 DEF InOrder
        <5>2. i \in 1..Len(c) /\ i \in DOMAIN b /\ b[i] = t
          BY <3>1, <3>2, <3>4, <5>1
        <5> QED
          BY <5>2
      <4> QED
        BY <4>1, <4>2
    <3> QED
      BY <2>1, <2>3, <3>3, <3>6, <3>7, <3>8 DEF InOrder
  <2> QED
    BY <2>2, <2>3
<1>18. (\A t \in alerts[s] : Elapsed(t)) <=> \A t \in w.lastAlertAt : Elapsed(t)
  BY <1>7 DEF LastAlert
<1>19. LastAlert(at, s)'
  <2>1. CASE due = TRUE
    <3>1. at = {clock} /\ alerts'[s] = alerts[s] \cup {clock} /\ \A t \in alerts[s] : Elapsed(t)
      BY <1>4, <1>5, <1>14, <1>18, <2>1
    <3> QED
      BY <1>11, <3>1 DEF LastAlert
  <2>2. CASE due = FALSE
    <3>1. at = w.lastAlertAt /\ alerts'[s] = alerts[s]
      BY <1>5, <1>14, <2>2
    <3> QED
      BY <1>7, <1>11, <3>1 DEF LastAlert
  <2> QED
    BY <2>1, <2>2
<1>20. DOMAIN sources' = DOMAIN kept \cup {s}
  BY <1>6
<1>21. \A x \in DOMAIN sources' : Tracks(x)'
  <2> SUFFICES ASSUME NEW x \in DOMAIN kept \cup {s} PROVE Tracks(x)'
    BY <1>20
  <2>1. CASE x = s
    <3>1. sources'[s] = [failures |-> F, lastAlertAt |-> at]
      BY <1>6
    <3>2. sources'[s].failures = F /\ sources'[s].lastAlertAt = at
      BY <3>1
    <3> QED
      BY <1>8, <1>19, <2>1, <3>2 DEF Tracks
  <2>2. CASE x # s
    <3>1. x \in DOMAIN sources /\ x \in Sources /\ sources'[x] = sources[x]
      BY <1>6, <1>9, <1>10, <2>2
    <3>2. counted'[x] = counted[x] /\ alerts'[x] = alerts[x] /\ Tracks(x)
      BY <1>13, <2>2, <3>1 DEF TrackerInv
    <3> QED
      BY <1>11, <3>1, <3>2 DEF Tracks, HoldsAllBut, LastAlert
  <2> QED
    BY <2>1, <2>2
<1>22. \A x \in Sources \ DOMAIN sources' : Forgotten(x)'
  <2> SUFFICES ASSUME NEW x \in Sources \ (DOMAIN kept \cup {s}) PROVE Forgotten(x)'
    BY <1>20
  <2>1. Forgotten(x) /\ counted'[x] = counted[x] /\ alerts'[x] = alerts[x]
    BY <1>10, <1>13
  <2> QED
    BY <1>11, <2>1 DEF Forgotten, Recent
<1>23. TrackerInv'
  BY <1>15, <1>16, <1>17, <1>21, <1>22 DEF TrackerInv
<1>24. outcome' = "alerted" <=> AlertDue(s)
  <2>1. AlertDue(s) <=> Len(F) >= Threshold /\ \A t \in w.lastAlertAt : Elapsed(t)
    BY <1>8, <1>18 DEF AlertDue
  <2> QED
    BY <1>4, <1>6, <2>1
<1> QED
  BY <1>13, <1>23, <1>24

\* A failure goes uncounted when what is tracked has all failed within the window.
LEMMA NotTrackedStep ==
    ASSUME TrackerInv, NEW s \in Sources, NotTracked(s)
    PROVE  TrackerInv' /\ counted' = counted
<1>1. PICK kept : kept = Kept(s)
  OBVIOUS
<1>2. /\ s \notin DOMAIN kept /\ Cardinality(DOMAIN kept) >= MaxTracked
      /\ sources' = kept /\ UNCHANGED <<clock, counted, alerts>>
  BY <1>1 DEF NotTracked
<1>3. /\ DOMAIN kept \subseteq DOMAIN sources /\ kept \in [DOMAIN kept -> SourceWindow]
      /\ \A x \in DOMAIN kept : kept[x] = sources[x]
      /\ \A x \in Sources \ DOMAIN kept : Forgotten(x)
  BY <1>1, KeptIs
<1>4. TrackerTypeOK'
  BY <1>2, <1>3 DEF TrackerInv, TrackerTypeOK
<1>5. \A x \in DOMAIN kept : x \in Sources /\ ~Stale(sources[x])
  <2>1. CASE kept = Purged
    <3>1. DOMAIN kept = {x \in DOMAIN sources : ~Stale(sources[x])}
      BY <2>1 DEF Purged
    <3> QED
      BY <3>1 DEF TrackerInv, TrackerTypeOK
  <2>2. CASE kept # Purged
    <3>1. kept = sources /\ ~(s \notin DOMAIN sources /\ Cardinality(DOMAIN sources) >= MaxTracked)
      BY <1>1, <2>2 DEF Kept
    <3> QED
      BY <1>2, <3>1
  <2> QED
    BY <2>1, <2>2
<1>6. ASSUME NEW x \in DOMAIN kept PROVE Recent(x) # {}
  <2>1. x \in Sources /\ x \in DOMAIN sources /\ ~Stale(sources[x])
    BY <1>3, <1>5
  <2>2. PICK f : f = sources[x].failures
    OBVIOUS
  <2>3. f \in Seq(Nat) /\ f # <<>> /\ ~Elapsed(f[Len(f)])
    BY <2>1, <2>2 DEF Stale, SourceWindow, TrackerInv, TrackerTypeOK, Tracks
  <2>4. PICK d \in Nat : HoldsAllBut(f, x, d)
    BY <2>1, <2>2 DEF TrackerInv, Tracks
  <2>5. PICK c \in Seq(Nat) : c = counted[x]
    BY <2>1 DEF TrackerInv, TrackerTypeOK
  <2>6. Len(c) \in DOMAIN c /\ ~Elapsed(c[Len(c)])
    BY <2>3, <2>4, <2>5 DEF HoldsAllBut
  <2> QED
    BY <2>5, <2>6 DEF Recent
<1>7. Cardinality({x \in Sources : Recent(x) # {}}) >= MaxTracked
  <2>1. PICK failed : failed = {x \in Sources : Recent(x) # {}}
    OBVIOUS
  <2>2. IsFiniteSet(failed)
    BY <2>1, FS_Subset, TrackerAssumption
  <2>3. DOMAIN kept \subseteq failed
    BY <1>5, <1>6, <2>1
  <2>4. /\ Cardinality(DOMAIN kept) <= Cardinality(failed)
        /\ IsFiniteSet(DOMAIN kept)
    BY <2>2, <2>3, FS_Subset
  <2>5. Cardinality(DOMAIN kept) \in Nat /\ Cardinality(failed) \in Nat
    BY <2>2, <2>4, FS_CardinalityType
  <2> QED
    BY <1>2, <2>1, <2>4, <2>5, TrackerAssumption
<1>8. UncountedOnlyIfFull'
  BY <1>2, <1>7 DEF UncountedOnlyIfFull, Recent, Elapsed
<1>9. \A x \in Sources : InOrder(x)'
  BY <1>2 DEF TrackerInv, InOrder
<1>10. \A x \in DOMAIN sources' : Tracks(x)'
  <2> SUFFICES ASSUME NEW x \in DOMAIN kept PROVE Tracks(x)'
    BY <1>2
  <2>1. sources'[x] = sources[x] /\ Tracks(x)
    BY <1>2, <1>3 DEF TrackerInv
  <2> QED
    BY <1>2, <2>1 DEF Tracks, HoldsAllBut, LastAlert, Elapsed
<1>11. \A x \in Sources \ DOMAIN sources' : Forgotten(x)'
  BY <1>2, <1>3 DEF Forgotten, Recent, Elapsed
<1> QED
  BY <1>2, <1>4, <1>8, <1>9, <1>10, <1>11 DEF TrackerInv

\* What has left the window does not come back into it.
LEMMA ClockStep ==
    ASSUME TrackerInv, ClockAdvances
    PROVE  TrackerInv' /\ counted' = counted
<1>1. /\ clock' = clock + 1 /\ outcome' = "none" /\ UNCHANGED <<sources, counted, alerts>>
      /\ clock \in Nat
  BY DEF ClockAdvances, TrackerInv, TrackerTypeOK
<1>2. TrackerTypeOK' /\ UncountedOnlyIfFull'
  BY <1>1 DEF TrackerInv, TrackerTypeOK, UncountedOnlyIfFull
<1>3. \A t \in Nat : Elapsed(t) => Elapsed(t)'
  BY <1>1, TrackerAssumption DEF Elapsed
<1>4. ASSUME NEW x \in Sources
      PROVE  /\ alerts[x] \subseteq Nat
             /\ \A i \in DOMAIN counted[x] : counted[x][i] \in Nat
  BY DEF TrackerInv, TrackerTypeOK
<1>5. \A x \in Sources : InOrder(x)'
  BY <1>1, <1>4 DEF TrackerInv, InOrder
<1>6. \A x \in DOMAIN sources' : Tracks(x)'
  <2> SUFFICES ASSUME NEW x \in DOMAIN sources PROVE Tracks(x)'
    BY <1>1
  <2>1. x \in Sources /\ Tracks(x)
    BY DEF TrackerInv, TrackerTypeOK
  <2>2. PICK d \in Nat : HoldsAllBut(sources[x].failures, x, d)
    BY <2>1 DEF Tracks
  <2>3. LastAlert(sources[x].lastAlertAt, x)'
    BY <1>1, <1>3, <1>4, <2>1 DEF Tracks, LastAlert
  <2>4. \A i \in 1..d : i \in DOMAIN counted[x]
    <3>1. sources[x].failures \in Seq(Nat)
      BY DEF TrackerInv, TrackerTypeOK, SourceWindow
    <3>2. counted[x] \in Seq(Nat)
      BY <2>1 DEF TrackerInv, TrackerTypeOK
    <3>3. Len(sources[x].failures) \in Nat /\ DOMAIN counted[x] = 1..Len(counted[x])
      BY <3>1, <3>2
    <3> QED
      BY <2>2, <3>3 DEF HoldsAllBut
  <2>5. HoldsAllBut(sources[x].failures, x, d)'
    BY <1>1, <1>3, <1>4, <2>1, <2>2, <2>4 DEF HoldsAllBut
  <2> QED
    BY <1>1, <2>1, <2>3, <2>5 DEF Tracks
<1>7. \A x \in Sources \ DOMAIN sources' : Forgotten(x)'
  BY <1>1, <1>3, <1>4 DEF TrackerInv, Forgotten, Recent
<1> QED
  BY <1>1, <1>2, <1>5, <1>6, <1>7 DEF TrackerInv

\* The invariant of the tracker: what it forgets of a source has left the window.
THEOREM TrackerInvariance == TrackerSpec => []TrackerInv
<1>1. TrackerInit => TrackerInv
  <2> SUFFICES ASSUME TrackerInit PROVE TrackerInv
    OBVIOUS
  <2>1. DOMAIN sources = {} /\ outcome # "untracked"
    BY DEF TrackerInit
  <2>2. TrackerTypeOK
    BY <2>1 DEF TrackerInit, TrackerTypeOK
  <2>3. \A x \in Sources : InOrder(x) /\ Forgotten(x)
    BY DEF TrackerInit, InOrder, Forgotten, Recent
  <2> QED
    BY <2>1, <2>2, <2>3 DEF TrackerInv, UncountedOnlyIfFull
<1>2. TrackerInv /\ [TrackerNext]_trackerVars => TrackerInv'
  <2> SUFFICES ASSUME TrackerInv, [TrackerNext]_trackerVars PROVE TrackerInv'
    OBVIOUS
  <2>1. CASE UNCHANGED trackerVars
    BY <2>1 DEF trackerVars, TrackerInv, TrackerTypeOK, UncountedOnlyIfFull, InOrder, Tracks,
                HoldsAllBut, LastAlert, Forgotten, Recent, Elapsed
  <2> QED
    BY <2>1, RecordStep, NotTrackedStep, ClockStep DEF TrackerNext
<1> QED
  BY <1>1, <1>2, PTL DEF TrackerSpec

\* FailedAuthTracker.java for any finite set of sources, any threshold, window and room:
\* a counted failure raises an alert exactly if its source has Threshold failures in the
\* window and had no alert in it, and a failure goes uncounted only while as many sources
\* as fit have failed within the window.
THEOREM AlertsAreExact == TrackerSpec => AlertsExact
<1> DEFINE Exact == \A s \in Sources :
        counted'[s] # counted[s] => (outcome' = "alerted" <=> AlertDue(s))
<1>1. TrackerInv => UncountedOnlyIfFull
  BY DEF TrackerInv
<1>2. TrackerInv /\ [TrackerNext]_trackerVars => [Exact]_trackerVars
  <2> SUFFICES ASSUME TrackerInv, TrackerNext PROVE Exact
    BY DEF trackerVars
  <2> QED
    BY RecordStep, NotTrackedStep, ClockStep DEF TrackerNext
<1> QED
  BY <1>1, <1>2, TrackerInvariance, PTL DEF TrackerSpec, AlertsExact
=============================================================================
