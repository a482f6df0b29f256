---------------------------- MODULE TicketPipeline ----------------------------
(***************************************************************************)
(* The LangGraph graph that ai-orchestrator-service runs for one ticket    *)
(* (graph_builder.build_graph): one action per node, the conditional edges *)
(* as operators, and the shared TicketState as variables.                  *)
(*                                                                         *)
(* A draft is abstracted to what the later nodes tell apart: whether it    *)
(* passes the free policy checks and what the heuristic judge would say of *)
(* it.  Both are functions of the draft, its context and the ticket text,  *)
(* so validating an unchanged draft again gives the same answers.  What    *)
(* the language models write, what retrieval finds and which scores the    *)
(* LLM judge gives are choices.                                            *)
(*                                                                         *)
(* Not modelled: the wording of drafts, critiques and prompts, LLM call    *)
(* counts, PII masking (resolve_node only restores names), tracing.        *)
(***************************************************************************)
EXTENDS Routing, FiniteSets

CONSTANTS
    Texts,                 \* keyword scores of the tickets that may arrive
    Classifications,       \* what classification_node may answer
    Drafts,                \* what specialists may write, at most Draft
    MaxReflectionAttempts  \* MAX_REFLECTION_ATTEMPTS, 2 by default

Domains == Specialties \cup {"hr"}

Draft   == [rules: {"passed", "failed"}, judge: {"good", "unfit", "off_topic"}]
Missing == [rules |-> "draft_generation_failed", judge |-> "none"]  \* draft is None
Absent  == [rules |-> "absent", judge |-> "none"]                   \* no such key

ASSUME PipelineAssumption ==
    /\ Texts \subseteq Scores
    /\ Classifications \subseteq Classification
    /\ Drafts \subseteq Draft
    /\ MaxReflectionAttempts \in Nat

Nodes == {"cache_check", "surrogate", "classification", "routing", "supervisor",
          "specialists", "validation", "reflection", "response_judge",
          "aggregator", "escalation", "resolve"}
Terminal == {"end", "raised", "invalid"}

VARIABLES
    text, cls,          \* the ticket and its classification
    node,               \* the node about to run, or how the run ended
    steps,              \* nodes executed so far (LangGraph supersteps)
    routing, rule,      \* routing_decision and the rule behind it
    cacheHit,
    drafts, low,        \* agent_drafts and low_relevance_flags, per domain
    first,              \* first key of the agent_drafts dict
    failureType, needsReroute, rerouteAttempted,
    reflectionCount, preDrafts, judgeNeedsRevision,
    aggregated,         \* how aggregator_node built aggregated_response
    reasons, reply      \* escalation_reasons; domains final_response is made of

routeVars  == <<routing, rule>>
draftVars  == <<drafts, low, first>>
failVars   == <<failureType, needsReroute, rerouteAttempted>>
reviseVars == <<reflectionCount, preDrafts, judgeNeedsRevision>>
endVars    == <<aggregated, reasons, reply>>
vars == <<text, cls, node, steps, cacheHit, routeVars, draftVars, failVars,
          reviseVars, endVars>>

Escalated == reasons # {}
Drafted   == {d \in Domains : drafts[d] # Absent}
Written   == {d \in Drafted : drafts[d] # Missing}     \* truthy drafts

\* The specialist domains a routing decision sends the ticket to.
Specialists(decision) ==
    CASE decision = "both"       -> Specialties
      [] decision = "escalation" -> {}
      [] OTHER                   -> {decision}

-----------------------------------------------------------------------------
(* Conditional edges *)

AfterCache == IF cacheHit' THEN "response_judge" ELSE "surrogate"

SpecialistTarget(decision) == IF decision = "escalation" THEN "escalation" ELSE "specialists"

\* Mutants of AfterValidation: an off-by-one at the cap; judge failures not redrafted.
AfterValidationOffByOne ==
    CASE failureType' = "misroute" /\ needsReroute' -> "routing"
      [] /\ failureType' \in {"quality", "policy"}
         /\ reflectionCount <= MaxReflectionAttempts -> "reflection"
      [] OTHER                                       -> "response_judge"
AfterValidationRulesOnly ==
    CASE failureType' = "misroute" /\ needsReroute' -> "routing"
      [] /\ failureType' = "policy"
         /\ reflectionCount < MaxReflectionAttempts  -> "reflection"
      [] OTHER                                       -> "response_judge"
AfterValidation ==
    CASE failureType' = "misroute" /\ needsReroute' -> "routing"
      [] /\ failureType' \in {"quality", "policy"}
         /\ reflectionCount < MaxReflectionAttempts -> "reflection"
      [] OTHER                                      -> "response_judge"

AfterJudge ==
    IF /\ judgeNeedsRevision'
       /\ ~cacheHit
       /\ failureType \notin {"misroute", "dependency_failure"}
       /\ reflectionCount < MaxReflectionAttempts
    THEN "reflection" ELSE "aggregator"

-----------------------------------------------------------------------------
(* Nodes *)

At(n, k) == node = n /\ steps' = steps + k

Init ==
    /\ text \in Texts
    /\ cls = [points |-> {}, confidence |-> 0, critical |-> FALSE]
    /\ node = "cache_check" /\ steps = 0
    /\ routing = "none" /\ rule = "none"
    /\ cacheHit = FALSE
    /\ drafts = [d \in Domains |-> Absent]
    /\ low = [d \in Domains |-> FALSE]
    /\ first = "none"
    /\ failureType = "none" /\ needsReroute = FALSE /\ rerouteAttempted = FALSE
    /\ reflectionCount = 0
    /\ preDrafts = [d \in Domains |-> Absent]
    /\ judgeNeedsRevision = FALSE
    /\ aggregated = "none"
    /\ reasons = {} /\ reply = {}

\* A precedent close enough answers the ticket, unless the canonicalized ticket
\* carries an HR hard trigger.  A denied or failed query is a miss.
CacheCheck ==
    /\ At("cache_check", 1)
    /\ \/ /\ ~HasHrHardTrigger(Canonicalized(text))
          /\ cacheHit' = TRUE
          /\ routing' = "technical"
          /\ \E draft \in Drafts : drafts' = [drafts EXCEPT !["technical"] = draft]
          /\ first' = "technical"
       \/ cacheHit' = FALSE /\ UNCHANGED <<routing, drafts, first>>
    /\ node' = AfterCache
    /\ UNCHANGED <<text, cls, rule, low, failVars, reviseVars, endVars>>

\* surrogate_node and analyzer_node, two nodes in a row that write text only.
Redact ==
    /\ At("surrogate", 2)
    /\ node' = "classification"
    /\ UNCHANGED <<text, cls, cacheHit, routeVars, draftVars, failVars,
                   reviseVars, endVars>>

Classify ==
    /\ At("classification", 1)
    /\ cls' \in Classifications
    /\ node' = "routing"
    /\ UNCHANGED <<text, cacheHit, routeVars, draftVars, failVars, reviseVars,
                   endVars>>

FlippedDomain == IF routing = "technical" THEN "billing" ELSE "technical"

\* Mutant of Flip: the attempt is not recorded.
FlipForgotten == routing' = FlippedDomain /\ UNCHANGED <<rule, rerouteAttempted>>
Flip == routing' = FlippedDomain /\ rerouteAttempted' = TRUE /\ UNCHANGED rule

\* Decide once; flip once after a misroute; raise in any other state.
Route ==
    /\ At("routing", 1)
    /\ CASE needsReroute /\ ~rerouteAttempted /\ routing \in Specialties ->
              /\ Flip
              /\ node' = "supervisor"
         [] ~needsReroute /\ ~rerouteAttempted ->
              /\ routing' = DecideRouting(cls, text)
              /\ rule' = RoutingRule(cls, text)
              /\ node' = "supervisor"
              /\ UNCHANGED rerouteAttempted
         [] OTHER ->
              /\ node' = "invalid"
              /\ UNCHANGED <<routeVars, rerouteAttempted>>
    /\ UNCHANGED <<text, cls, cacheHit, draftVars, failureType, needsReroute,
                   reviseVars, endVars>>

SupervisorAsked == ~rerouteAttempted /\ ~cacheHit /\ rule \in UncertainRules

\* parse_supervisor_answer: only an allowed domain is an answer.
SupervisorAnswers == Decisions

\* An unusable answer keeps the decision of the rules.
Supervise ==
    /\ At("supervisor", 1)
    /\ \/ SupervisorAsked /\ routing' \in SupervisorAnswers
       \/ UNCHANGED routing
    /\ node' = SpecialistTarget(routing')
    /\ UNCHANGED <<text, cls, cacheHit, rule, draftVars, failVars, reviseVars,
                   endVars>>

\* The routed specialists replace their own drafts.  A breaker that is open or a
\* draft that could not be generated gives Missing.  In the dict a key keeps its
\* place, and "both" inserts technical before billing.
Specialize ==
    /\ At("specialists", 1)
    /\ \E written \in [Specialists(routing) -> Drafts \cup {Missing}],
          weak \in SUBSET Specialists(routing) :
          /\ drafts' = [d \in Domains |->
                          IF d \in Specialists(routing) THEN written[d] ELSE drafts[d]]
          /\ low' = [d \in Domains |->
                       IF d \in Specialists(routing)
                       THEN d \in weak \/ written[d] = Missing ELSE low[d]]
          /\ failureType' = IF \E d \in Specialists(routing) : written[d] = Missing
                            THEN "dependency_failure" ELSE failureType
    /\ first' = CASE first # "none"    -> first
                  [] routing = "both"  -> "technical"
                  [] OTHER             -> routing
    /\ node' = "validation"
    /\ UNCHANGED <<text, cls, cacheHit, routeVars, needsReroute, rerouteAttempted,
                   reviseVars, endVars>>

\* Verdicts on the drafts, given the domains the heuristic judge ran for.
Passed(d, judged) == drafts[d].rules = "passed" /\ (d \in judged => drafts[d].judge = "good")
SomeFailed(judged) == \E d \in Drafted : ~Passed(d, judged)

\* Mutant of DependencyFailed: every specialist must have failed.
AllDraftsFailed == Drafted # {} /\ \A d \in Drafted : drafts[d] = Missing
DependencyFailed == \E d \in Drafted : drafts[d] = Missing
DualLow(judged) == routing = "both" /\ SomeFailed(judged) /\ \A d \in Drafted : low[d]
\* Mutant of Misrouted: the draft of the domain the ticket is routed to now.
MisroutedNow(judged) ==
    /\ routing \in Specialties
    /\ SomeFailed(judged)
    /\ routing \in judged /\ drafts[routing].judge = "off_topic" /\ low[routing]
\* validation_node looks at domains[0], the first key of agent_drafts.
Misrouted(judged) ==
    /\ routing \in Specialties
    /\ SomeFailed(judged)
    /\ first \in judged /\ drafts[first].judge = "off_topic" /\ low[first]
\* The judge ran for the draft (single domain) or for any draft ("both", "hr").
JudgedFailure(judged) == IF routing \in Specialties THEN first \in judged ELSE judged # {}

FailureType(judged) ==
    IF DependencyFailed                            THEN "dependency_failure"
    ELSE IF DualLow(judged) \/ Misrouted(judged)   THEN "misroute"
    ELSE IF ~SomeFailed(judged)                    THEN "none"
    ELSE IF JudgedFailure(judged)                  THEN "quality"
    ELSE "policy"

\* The judge must run where retrieval was weak and is sampled elsewhere.  A
\* draft that meets the relevance bar only through an agent edit may also be
\* judged; that is one of the sampled cases here.
Validate ==
    /\ At("validation", 1)
    /\ \E judged \in SUBSET Written :
          /\ {d \in Written : low[d]} \subseteq judged
          /\ failureType' = FailureType(judged)
          /\ LET dual == ~DependencyFailed /\ DualLow(judged)
             IN  /\ needsReroute' = (failureType' = "misroute" /\ ~dual /\ ~rerouteAttempted)
                 /\ rerouteAttempted' = (rerouteAttempted \/ dual)
    /\ node' = AfterValidation
    /\ UNCHANGED <<text, cls, cacheHit, routeVars, draftVars, reviseVars, endVars>>

ReflectionAllowed ==
    /\ judgeNeedsRevision \/ failureType \in {"quality", "policy"}
    /\ reflectionCount < MaxReflectionAttempts

\* Keep each domain's first draft, then have the same specialists draft again.
Reflect ==
    /\ At("reflection", 1)
    /\ IF ReflectionAllowed
       THEN /\ reflectionCount' = reflectionCount + 1
            /\ preDrafts' = [d \in Domains |->
                               IF d \in Written /\ preDrafts[d] = Absent
                               THEN drafts[d] ELSE preDrafts[d]]
            /\ judgeNeedsRevision' = FALSE
            /\ node' = SpecialistTarget(routing)
       ELSE /\ node' = "invalid"
            /\ UNCHANGED reviseVars
    /\ UNCHANGED <<text, cls, cacheHit, routeVars, draftVars, failVars, endVars>>

\* Score every written draft; a reflected domain's first draft comes back when it
\* scores higher.  The scores are the LLM's: any set of domains may be swapped,
\* and any of the written drafts may be left below the revision bar.
Judge ==
    /\ At("response_judge", 1)
    /\ \E swapped \in SUBSET {d \in Written : reflectionCount > 0 /\ preDrafts[d] # Absent},
          weak \in BOOLEAN :
          /\ drafts' = [d \in Domains |-> IF d \in swapped THEN preDrafts[d] ELSE drafts[d]]
          /\ judgeNeedsRevision' = IF Drafted = {} THEN judgeNeedsRevision
                                   ELSE weak /\ Written # {}
    /\ node' = AfterJudge
    /\ UNCHANGED <<text, cls, cacheHit, routeVars, low, first, failVars,
                   reflectionCount, preDrafts, endVars>>

\* Merge the two drafts of a "both" ticket; join them when the merge fails or
\* breaks a policy rule.
Aggregate ==
    /\ At("aggregator", 1)
    /\ IF routing = "both" /\ ~cacheHit /\ Specialties \subseteq Written
       THEN aggregated' \in {"merged", "joined"}
       ELSE UNCHANGED aggregated
    /\ node' = "escalation"
    /\ UNCHANGED <<text, cls, cacheHit, routeVars, draftVars, failVars, reviseVars,
                   reasons, reply>>

Reasons == {"critical_priority", "no_usable_routing_signal", "hr_process_required",
            "low_confidence_dual_domain", "dependency_failure", "misroute"}

\* Mutant of Applies: a ticket without a usable signal is nobody's to review.
AppliesIfRouted(r) ==
    CASE r = "critical_priority"          -> cls.critical
      [] r = "no_usable_routing_signal"   -> FALSE
      [] r = "hr_process_required"        -> routing = "hr"
      [] r = "low_confidence_dual_domain" -> routing = "both" /\ cls.confidence < 60
      [] r = "dependency_failure"         -> failureType = "dependency_failure"
      [] r = "misroute"                   -> /\ failureType = "misroute"
                                             /\ rerouteAttempted /\ ~needsReroute
Applies(r) ==
    CASE r = "critical_priority"          -> cls.critical
      [] r = "no_usable_routing_signal"   -> routing = "escalation"
      [] r = "hr_process_required"        -> routing = "hr"
      [] r = "low_confidence_dual_domain" -> routing = "both" /\ cls.confidence < 60
      [] r = "dependency_failure"         -> failureType = "dependency_failure"
      [] r = "misroute"                   -> /\ failureType = "misroute"
                                             /\ rerouteAttempted /\ ~needsReroute
EscalationReasons == {r \in Reasons : Applies(r)}

\* final_response is None when a reason applies or no routed draft was written.
Escalate ==
    /\ At("escalation", 1)
    /\ reasons' = EscalationReasons
    /\ reply' = IF EscalationReasons # {} THEN {} ELSE
                IF routing = "both" THEN Written ELSE {routing} \cap Written
    /\ node' = "resolve"
    /\ UNCHANGED <<text, cls, cacheHit, routeVars, draftVars, failVars, reviseVars,
                   aggregated>>

\* resolve_node and handoff_node.
Resolve ==
    /\ At("resolve", 2)
    /\ node' = "end"
    /\ UNCHANGED <<text, cls, cacheHit, routeVars, draftVars, failVars, reviseVars,
                   endVars>>

\* ainvoke ends the run at the first exception a node lets through, and at the
\* next await when DELETE /customer_tickets cancels the task.
Raise ==
    /\ node \in Nodes
    /\ node' = "raised"
    /\ UNCHANGED <<text, cls, steps, cacheHit, routeVars, draftVars, failVars,
                   reviseVars, endVars>>

Finished == node \in Terminal /\ UNCHANGED vars

Next == \/ CacheCheck \/ Redact \/ Classify \/ Route \/ Supervise \/ Specialize
        \/ Validate \/ Reflect \/ Judge \/ Aggregate \/ Escalate \/ Resolve
        \/ Raise \/ Finished

Spec == Init /\ [][Next]_vars

-----------------------------------------------------------------------------
(* Properties *)

\* The state components range over the values TicketState documents.
TypeOK ==
    /\ text \in Texts
    /\ cls \in Classification
    /\ node \in Nodes \cup Terminal /\ steps \in Nat
    /\ routing \in Decisions \cup {"none"} /\ rule \in Rules \cup {"none"}
    /\ cacheHit \in BOOLEAN
    /\ drafts \in [Domains -> Draft \cup {Missing, Absent}]
    /\ low \in [Domains -> BOOLEAN]
    /\ first \in Domains \cup {"none"}
    /\ failureType \in {"none", "misroute", "quality", "policy", "dependency_failure"}
    /\ needsReroute \in BOOLEAN /\ rerouteAttempted \in BOOLEAN
    /\ reflectionCount \in 0..MaxReflectionAttempts
    /\ preDrafts \in [Domains -> Draft \cup {Absent}]
    /\ judgeNeedsRevision \in BOOLEAN
    /\ aggregated \in {"none", "merged", "joined"}
    /\ reasons \subseteq Reasons
    /\ reply \subseteq Domains

\* The edges never lead into routing_node or reflection_node in a state for
\* which those nodes raise ValueError: the conditions tested on the edges and
\* inside the nodes agree, whichever way the reroute and the two reflection
\* loops interleave.
NoInvalidState == node # "invalid"

\* "reroute and reflection are each structurally bounded" (build_graph): a run
\* executes at most 17 nodes, and 4 more per allowed redraft, however reroute,
\* rule-driven and judge-driven redrafts follow each other.
PathBound == 17 + 4 * MaxReflectionAttempts
BoundedPath == steps <= PathBound

\* A ticket that is not escalated has a reply, made of a written draft of every
\* specialist it was routed to: main.py marks it "resolved" on that basis.
ResolvedHasReply ==
    node = "end" /\ ~Escalated =>
        /\ reply # {}
        /\ reply = Specialists(routing)
        /\ \A d \in reply : drafts[d] \in Draft

\* A ticket one of whose specialists could not draft is reviewed by a human.
DependencyFailureReviewed ==
    node = "end" /\ (\E d \in Domains : drafts[d] = Missing) => Escalated

\* A reply whose last validation failed goes out only after every allowed redraft.
FailedOnlyAtCap ==
    node = "end" /\ ~Escalated /\ ~cacheHit =>
        \/ failureType = "none"
        \/ failureType \in {"quality", "policy"} /\ reflectionCount = MaxReflectionAttempts

\* A ticket whose HR wording is not outweighed by technical wording is reviewed
\* by a human, past the supervisor, the reroute and the judge; it gets past the
\* review by a precedent only, when none of its HR phrases is left without
\* punctuation.
HrReviewed ==
    node = "end" /\ HasHrHardTrigger(text) /\ text.hr >= text.technical =>
        Escalated \/ (cacheHit /\ ~HasHrHardTrigger(Canonicalized(text)))

\* What the comment in cache_check_node says: a ticket that routing gives to HR
\* always reaches the mandatory review, also when there is a precedent for it.
HrAlwaysReviewed == node = "end" /\ HrOutweighs(text) => Escalated

\* Once the reroute has been spent, the ticket ends with a human, whatever the
\* second specialist writes: validation keeps looking at the first draft.
RerouteReviewed == node = "end" /\ rerouteAttempted => Escalated
=============================================================================
