------------------------------ MODULE AuthSession ------------------------------
(***************************************************************************)
(* AuthProvider, which every page asks who is signed in and with which     *)
(* role: it reads the session once when it is mounted, listens for every   *)
(* later change of the session, and after each of these asks the database  *)
(* for the role, without waiting for the answer to an earlier question.    *)
(* The session itself is kept by the Supabase client.                      *)
(***************************************************************************)
EXTENDS Naturals, Sequences

CONSTANTS
    RoleOf,                     \* the users and their roles
    MaxSignIns, MaxRoleFaults   \* bounds: sign-ins and sign-outs; failed requests

ASSUME SessionAssumption ==
    RoleOf \in [DOMAIN RoleOf -> {"user", "agent", "admin"}] /\ {MaxSignIns, MaxRoleFaults} \subseteq Nat

Nobody == "nobody"
Users == DOMAIN RoleOf

VARIABLES
    session,            \* whose session the client holds
    mounted,
    asking,             \* the getSession of the mount: whose session it read ({} or one)
    events,             \* sessions that onAuthStateChange has yet to announce
    user, role, loading, roleLoading,
    lookups,            \* get_my_role calls under way, per session they were sent under
    signIns, roleFaults,
    crossed             \* the session changed while an answer or an event was awaited

shownVars == <<user, role, loading, roleLoading>>
sessionVars == <<session, mounted, asking, events, shownVars, lookups, signIns, roleFaults, crossed>>

SessionInit ==
    /\ session \in Users \cup {Nobody} /\ mounted = FALSE
    /\ asking = {} /\ events = <<>>
    /\ user = Nobody /\ role = "none" /\ loading = TRUE /\ roleLoading = TRUE
    /\ lookups = [w \in Users \cup {Nobody} |-> 0]
    /\ signIns = 0 /\ roleFaults = 0 /\ crossed = FALSE

-----------------------------------------------------------------------------
\* The subscription announces the initial session too.
Mount ==
    /\ ~mounted /\ mounted' = TRUE
    /\ asking' = {session} /\ events' = <<session>>
    /\ UNCHANGED <<session, shownVars, lookups, signIns, roleFaults, crossed>>

\* Signing in, out, or a token that is refreshed.
SessionChanges(u) ==
    /\ mounted /\ signIns < MaxSignIns
    /\ session' = u /\ events' = Append(events, u)
    /\ signIns' = signIns + 1
    /\ crossed' = (crossed \/ asking # {} \/ events # <<>> \/ \E w \in DOMAIN lookups : lookups[w] > 0)
    /\ UNCHANGED <<mounted, asking, shownVars, lookups, roleFaults>>

\* Mutant of Shows: a session that ends keeps the role.
ShowsRole(u) ==
    /\ user' = u /\ loading' = FALSE /\ UNCHANGED role
    /\ IF u # Nobody
       THEN /\ roleLoading' = TRUE
            /\ lookups' = [lookups EXCEPT ![session] = @ + 1]
       ELSE roleLoading' = FALSE /\ UNCHANGED lookups
\* What the answer of getSession and the listener do alike.
Shows(u) ==
    /\ user' = u /\ loading' = FALSE
    /\ IF u # Nobody
       THEN /\ roleLoading' = TRUE /\ UNCHANGED role
            /\ lookups' = [lookups EXCEPT ![session] = @ + 1]
       ELSE role' = "none" /\ roleLoading' = FALSE /\ UNCHANGED lookups

GotSession ==
    /\ \E u \in asking : Shows(u)
    /\ asking' = {}
    /\ UNCHANGED <<session, mounted, events, signIns, roleFaults, crossed>>

\* "must not leave the app stuck loading: behave as signed out"
NoSession ==
    /\ asking # {} /\ roleFaults < MaxRoleFaults
    /\ asking' = {} /\ roleFaults' = roleFaults + 1
    /\ user' = Nobody /\ role' = "none" /\ loading' = FALSE /\ roleLoading' = FALSE
    /\ UNCHANGED <<session, mounted, events, lookups, signIns, crossed>>

AuthStateChange ==
    /\ events # <<>> /\ Shows(Head(events))
    /\ events' = Tail(events)
    /\ UNCHANGED <<session, mounted, asking, signIns, roleFaults, crossed>>

\* get_my_role: nobody has no row.
RoleIn(w) == IF w = Nobody THEN "user" ELSE RoleOf[w]

\* Mutant of RoleAnswered: when the request raises, the role stays awaited.
RoleRaises(w) ==
    /\ lookups[w] > 0 /\ lookups' = [lookups EXCEPT ![w] = @ - 1]
    /\ \/ role' = RoleIn(w) /\ roleLoading' = FALSE /\ UNCHANGED roleFaults
       \/ roleFaults < MaxRoleFaults /\ roleFaults' = roleFaults + 1 /\ UNCHANGED <<role, roleLoading>>
    /\ UNCHANGED <<session, mounted, asking, events, user, loading, signIns, crossed>>
\* fetchUserRole answers; an error makes it "user", an exception leaves the role.
RoleAnswered(w) ==
    /\ lookups[w] > 0 /\ lookups' = [lookups EXCEPT ![w] = @ - 1]
    /\ roleLoading' = FALSE
    /\ \/ role' = RoleIn(w) /\ UNCHANGED roleFaults
       \/ role' \in {"user", role} /\ roleFaults < MaxRoleFaults /\ roleFaults' = roleFaults + 1
    /\ UNCHANGED <<session, mounted, asking, events, user, loading, signIns, crossed>>

SessionNext ==
    \/ Mount \/ GotSession \/ NoSession \/ AuthStateChange
    \/ \E u \in Users \cup {Nobody} : SessionChanges(u) \/ RoleAnswered(u)

\* Requests return or fail, and the browser runs what is due.
SessionFairness ==
    /\ WF_sessionVars(GotSession \/ NoSession) /\ WF_sessionVars(AuthStateChange)
    /\ \A w \in Users \cup {Nobody} : WF_sessionVars(RoleAnswered(w))

-----------------------------------------------------------------------------
(* Properties *)

\* A page that may decide (neither flag is set) knows who is signed in and as what: no
\* agent is sent to /login on a reload ("The role arrives after the session"), however
\* the two questions of a mount interleave; unless a request failed, or the session
\* changed while an answer was awaited.
KnowsWho ==
    ~loading /\ ~roleLoading /\ events = <<>> /\ ~crossed /\ roleFaults = 0 =>
        /\ user = session
        /\ role = IF user = Nobody THEN "none" ELSE RoleOf[user]

\* No page is left loading, whatever request fails and whoever signs in or out.
SessionSettles == mounted ~> ~loading /\ ~roleLoading
=============================================================================
