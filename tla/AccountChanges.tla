---------------------------- MODULE AccountChanges ----------------------------
(***************************************************************************)
(* PATCH /api/admin/users: an administrator changes the role or the status *)
(* of another account.  The row, the ban in Supabase Auth and the audit    *)
(* log are written one after the other without a transaction; when the     *)
(* second or third write fails, the first two are put back as they were    *)
(* read.  A role is an administrator's or another one.                     *)
(***************************************************************************)
EXTENDS Naturals

CONSTANTS
    Accounts,
    Admins,             \* the administrators to begin with
    MaxChanges, MaxAccountFaults    \* bounds: requests; writes that fail and crashes

ASSUME AccountAssumption ==
    Admins \subseteq Accounts /\ Admins # {} /\ {MaxChanges, MaxAccountFaults} \subseteq Nat

Values == [role: {"admin", "agent"}, status: {"active", "suspended", "deactivated"}]

VARIABLES
    account,            \* public.users
    banned,             \* the accounts banned in Supabase Auth
    audited,            \* what admin_audit_log says of each account
    request,            \* per administrator, the request under way
    changes, accountFaults,
    overlapped,         \* two requests under way at once had an account in common
    doubted             \* a failed write took effect, an undo failed, or the server died

accountVars == <<account, banned, audited, request, changes, accountFaults, overlapped, doubted>>

Idle == [stage |-> "idle"]
Active(v) == v.status = "active"

AccountInit ==
    /\ account = [a \in Accounts |-> [role |-> IF a \in Admins THEN "admin" ELSE "agent",
                                    status |-> "active"]]
    /\ banned = {} /\ audited = account
    /\ request = [a \in Accounts |-> Idle]
    /\ changes = 0 /\ accountFaults = 0 /\ overlapped = FALSE /\ doubted = FALSE

-----------------------------------------------------------------------------
\* What the request changes of a row that now says v: role and status apart.
Written(v, r) == [f \in {"role", "status"} |-> IF r.after[f] # r.before[f] THEN r.after[f] ELSE v[f]]
StatusTouched(r) == r.after.status # r.before.status

At1(a, stage) == request[a].stage = stage
Goes(a, stage) == request' = [request EXCEPT ![a] = IF stage = "idle" THEN Idle
                                                    ELSE [@ EXCEPT !.stage = stage]]
SetBan(t, v) == banned' = IF Active(v) THEN banned \ {t} ELSE banned \cup {t}

Target(b) == IF request[b].stage \in {"idle", "authorized"} THEN {} ELSE {request[b].target}
Meets(a, involved) == \E b \in Accounts \ {a} :
    ~At1(b, "idle") /\ ({b} \cup Target(b)) \cap involved # {}

\* authorize: the role and the status are read once, when the request begins.
Authorize(a) ==
    /\ At1(a, "idle") /\ changes < MaxChanges
    /\ account[a].role = "admin" /\ Active(account[a])
    /\ request' = [request EXCEPT ![a] = [stage |-> "authorized"]]
    /\ changes' = changes + 1
    /\ overlapped' = (overlapped \/ Meets(a, {a}))
    /\ UNCHANGED <<account, banned, audited, accountFaults, doubted>>

\* The target is looked up and the change validated: not oneself, and something new.
Look(a) ==
    /\ At1(a, "authorized")
    /\ \E t \in Accounts \ {a} : \E v \in Values \ {account[t]} :
          /\ request' = [request EXCEPT ![a] =
                [stage |-> "updating", target |-> t, before |-> account[t], after |-> v]]
          /\ overlapped' = (overlapped \/ Meets(a, {a, t}))
    /\ UNCHANGED <<account, banned, audited, changes, accountFaults, doubted>>

Update(a) ==
    LET r == request[a] IN
    /\ At1(a, "updating")
    /\ account' = [account EXCEPT ![r.target] = Written(@, r)]
    /\ Goes(a, IF StatusTouched(r) THEN "banning" ELSE "auditing")
    /\ UNCHANGED <<banned, audited, changes, accountFaults, overlapped, doubted>>

Ban(a) ==
    /\ At1(a, "banning")
    /\ SetBan(request[a].target, request[a].after)
    /\ Goes(a, "auditing")
    /\ UNCHANGED <<account, audited, changes, accountFaults, overlapped, doubted>>

Audit(a) ==
    LET r == request[a] IN
    /\ At1(a, "auditing")
    /\ audited' = [audited EXCEPT ![r.target] = Written(@, r)]
    /\ Goes(a, "idle")
    /\ UNCHANGED <<account, banned, changes, accountFaults, overlapped, doubted>>

-----------------------------------------------------------------------------
(* Failures *)

\* Mutant of AfterRestore: the row is put back, the ban stays.
AfterRestoreRowOnly(r) == "idle"
AfterRestore(r) == IF StatusTouched(r) THEN "unbanning" ELSE "idle"

RestoreRow(a) ==
    LET r == request[a] IN
    /\ At1(a, "restoring")
    /\ account' = [account EXCEPT ![r.target] = r.before]
    /\ Goes(a, AfterRestore(r))
    /\ UNCHANGED <<banned, audited, changes, accountFaults, overlapped, doubted>>

RestoreBan(a) ==
    /\ At1(a, "unbanning")
    /\ SetBan(request[a].target, request[a].before)
    /\ Goes(a, "idle")
    /\ UNCHANGED <<account, audited, changes, accountFaults, overlapped, doubted>>

Fault == accountFaults < MaxAccountFaults /\ accountFaults' = accountFaults + 1

\* A write that reports an error, having taken effect or not.  A failed update ends
\* the request as it is; the results of the undo's own writes are not looked at.
WriteFails(a) ==
    LET r == request[a] IN
    /\ Fault
    /\ \/ /\ At1(a, "updating")
          /\ account' \in {account, [account EXCEPT ![r.target] = Written(@, r)]}
          /\ doubted' = (doubted \/ account' # account)
          /\ Goes(a, "idle") /\ UNCHANGED <<banned, audited>>
       \/ /\ At1(a, "banning")
          /\ SetBan(r.target, r.after) \/ UNCHANGED banned
          /\ Goes(a, "restoring") /\ UNCHANGED <<account, audited, doubted>>
       \/ /\ At1(a, "auditing")
          /\ audited' \in {audited, [audited EXCEPT ![r.target] = Written(@, r)]}
          /\ doubted' = (doubted \/ audited' # audited)
          /\ Goes(a, "restoring") /\ UNCHANGED <<account, banned>>
       \/ /\ At1(a, "restoring") /\ doubted' = TRUE
          /\ Goes(a, AfterRestore(r)) /\ UNCHANGED <<account, banned, audited>>
       \/ /\ At1(a, "unbanning") /\ doubted' = TRUE
          /\ Goes(a, "idle") /\ UNCHANGED <<account, banned, audited>>
    /\ UNCHANGED <<changes, overlapped>>

ServerDies(a) ==
    /\ Fault /\ ~At1(a, "idle")
    /\ Goes(a, "idle")
    /\ doubted' = (doubted \/ request[a].stage \notin {"authorized", "updating"})
    /\ UNCHANGED <<account, banned, audited, changes, overlapped>>

AccountNext == \E a \in Accounts :
    \/ Authorize(a) \/ Look(a) \/ Update(a) \/ Ban(a) \/ Audit(a)
    \/ RestoreRow(a) \/ RestoreBan(a) \/ WriteFails(a) \/ ServerDies(a)

-----------------------------------------------------------------------------
(* Properties *)

\* Unless two overlapping requests had an account in common or one was left in doubt,
\* whatever else ran at once and whichever write failed: an account nobody is
\* changing is banned exactly if it is not active, and is what the audit log says ("If
\* the audit row cannot be written the change is undone"); and an active administrator
\* is left, "able to undo it".
ChangesWhole ==
    ~overlapped /\ ~doubted =>
        /\ \A t \in Accounts :
              (\A a \in Accounts : t \notin Target(a)) =>
                  /\ t \in banned <=> ~Active(account[t])
                  /\ account[t] = audited[t]
        /\ \E a \in Accounts : account[a].role = "admin" /\ Active(account[a])
=============================================================================
