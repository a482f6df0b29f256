------------------------- MODULE TicketPipelineProofs -------------------------
(***************************************************************************)
(* What TicketPipeline promises for every set of tickets, classifications  *)
(* and drafts and every MAX_REFLECTION_ATTEMPTS.  Inv is the inductive     *)
(* invariant: a part per concern, each saying what is true of the shared   *)
(* TicketState when a given node is about to run.                          *)
(***************************************************************************)
EXTENDS TicketPipeline, TLAPS

BeforeRouting == {"cache_check", "surrogate", "classification"}
Reviewing     == {"response_judge", "aggregator", "escalation"}
Finishing     == {"resolve", "end"}
Unfixable     == {"misroute", "dependency_failure"}

\* Nodes run on the way to a node when nothing is repeated.
Base == [n \in Nodes \cup {"end", "raised"} |->
           CASE n = "cache_check"    -> 0
             [] n = "surrogate"      -> 1
             [] n = "classification" -> 3
             [] n = "routing"        -> 4
             [] n = "supervisor"     -> 5
             [] n = "specialists"    -> 6
             [] n = "validation"     -> 7
             [] n = "response_judge" -> 8
             [] n = "reflection"     -> 9
             [] n = "aggregator"     -> 9
             [] n = "escalation"     -> 10
             [] n = "resolve"        -> 11
             [] OTHER                -> 13]

\* A reroute repeats four nodes, a redraft at most four.
Repeats == reflectionCount + (IF needsReroute \/ rerouteAttempted THEN 1 ELSE 0)
PathInv == node # "invalid" /\ steps <= Base[node] + 4 * Repeats

\* Only a ticket with a specialist is drafted, validated and redrafted.
Routed == Domains \cup {"both"}
RouteInv ==
    /\ node \in {"supervisor", "aggregator", "escalation"} => routing \in Decisions
    /\ node \in {"specialists", "validation", "reflection", "response_judge"} =>
          routing \in Routed

\* The flags the reroute edge and routing_node test agree.
FlagInv ==
    /\ node \in BeforeRouting => ~needsReroute /\ ~rerouteAttempted
    /\ node = "routing" => ~rerouteAttempted /\ (needsReroute => routing \in Specialties)
    /\ node \in Nodes \ {"routing"} => (needsReroute => rerouteAttempted)
    /\ node = "reflection" => /\ ReflectionAllowed
                              /\ failureType \notin Unfixable

\* After a flip the abandoned draft is still the first one validation looks at.
Stale(d) == d \in Specialties /\ first = d /\ drafts[d].judge = "off_topic" /\ low[d]
FirstInv ==
    /\ node \in BeforeRouting => first = "none"
    /\ node = "routing" => IF needsReroute THEN Stale(routing) ELSE first = "none"
    /\ node = "supervisor" => IF rerouteAttempted
                              THEN routing \in Specialties /\ Stale(FlippedDomain)
                              ELSE first = "none"
    /\ node \in {"specialists", "validation"} =>
          IF rerouteAttempted
          THEN routing \in Specialties /\ Stale(FlippedDomain)
          ELSE routing \in Specialties =>
                 first \in {routing} \cup (IF node = "specialists" THEN {"none"} ELSE {})
    /\ node = "reflection" => /\ ~rerouteAttempted
                              /\ routing \in Specialties => first = routing
    /\ node = "response_judge" /\ ~rerouteAttempted /\ routing \in Specialties => first = routing
    /\ node \in Reviewing /\ rerouteAttempted => failureType \in Unfixable /\ ~needsReroute
    /\ node \in Finishing /\ rerouteAttempted => reasons # {}

\* Every draft that could not be written has been seen by validation.
SomeMissing == \E d \in Domains : drafts[d] = Missing
MissingInv ==
    /\ node \in BeforeRouting => ~SomeMissing
    /\ node = "routing" /\ ~needsReroute => ~SomeMissing
    /\ node = "supervisor" /\ ~rerouteAttempted => ~SomeMissing
    /\ node \in Reviewing \cup {"reflection"} =>
          (SomeMissing => failureType = "dependency_failure")
    /\ node \in Finishing => (SomeMissing => reasons # {})

\* An HR ticket stays with HR once it is routed.  A precedent answers a ticket only when the
\* canonicalized text does not rule it out.
HrText == HasHrHardTrigger(text) /\ text.hr >= text.technical
HrInv ==
    /\ cacheHit => ~HasHrHardTrigger(Canonicalized(text))
    /\ HrText /\ ~cacheHit =>
          /\ node = "routing" => ~needsReroute
          /\ node \in Nodes \ (BeforeRouting \cup {"routing"}) => routing = "hr"
          /\ node = "supervisor" => rule = "hr_trigger"
          /\ node \in Finishing => reasons # {}

\* Validation's last word: what is left unrepaired had every allowed redraft.
Undrafted == node \in BeforeRouting \/ (node = "routing" /\ ~needsReroute)
                                    \/ (node = "supervisor" /\ ~rerouteAttempted)
CapInv ==
    /\ Undrafted => failureType = "none"
    /\ node \in Reviewing =>
          /\ failureType = "misroute" => rerouteAttempted /\ ~needsReroute
          /\ failureType \in {"quality", "policy"} => reflectionCount = MaxReflectionAttempts
    /\ node \in Finishing /\ reasons = {} =>
          /\ failureType \notin Unfixable
          /\ failureType \in {"quality", "policy"} => reflectionCount = MaxReflectionAttempts

\* The drafts are those of the routed specialists, and of a misrouted one.
ReplyInv ==
    /\ Undrafted => Drafted = {}
    /\ node \in Nodes /\ routing \in Specialties \cup {"both"} => drafts["hr"] = Absent
    /\ node \in Reviewing \cup {"validation", "reflection"} => Specialists(routing) \subseteq Drafted
    /\ node \in Finishing /\ reasons = {} => /\ reply # {} /\ reply = Specialists(routing)
                                            /\ \A d \in reply : drafts[d] \in Draft

Inv == TypeOK /\ RouteInv /\ PathInv /\ FlagInv /\ FirstInv /\ MissingInv /\ HrInv
       /\ CapInv /\ ReplyInv

-----------------------------------------------------------------------------
(* Facts about the operators *)

\* The three kinds of draft are different.
LEMMA DraftKinds == Missing \notin Draft /\ Absent \notin Draft /\ Missing # Absent
  BY DEF Missing, Absent, Draft

\* explain_routing always decides, by one of its rules.
LEMMA RoutingDecides ==
    ASSUME NEW c \in Classification, NEW s \in Scores
    PROVE  RoutingRule(c, s) \in Rules /\ DecideRouting(c, s) \in Decisions
  BY DEF Classification, Scores, RoutingRule, DecideRouting, RuleDecision, RouteByCategory,
         Stronger, Trusted, HrOutweighs, Rules, UncertainRules, Decisions, Specialties

\* A decision has a target: the specialists, unless there are none.
LEMMA Targets ==
    ASSUME NEW d \in Decisions
    PROVE  /\ SpecialistTarget(d) \in {"escalation", "specialists"}
           /\ SpecialistTarget(d) = "specialists" <=> d \in Routed
           /\ Specialists(d) \subseteq Domains
  BY DEF Decisions, SpecialistTarget, Routed, Domains, Specialties, Specialists

-----------------------------------------------------------------------------
(* Type correctness *)

\* The initial TicketState is well typed and routed nowhere.
LEMMA InitType == Init => TypeOK /\ RouteInv
<1> SUFFICES ASSUME Init PROVE TypeOK /\ RouteInv
  OBVIOUS
<1>1. cls \in Classification
  BY DEF Init, Classification
<1>2. reflectionCount \in 0..MaxReflectionAttempts
  BY PipelineAssumption DEF Init
<1>3. drafts \in [Domains -> Draft \cup {Missing, Absent}]
  BY DEF Init
<1>4. preDrafts \in [Domains -> Draft \cup {Absent}]
  BY DEF Init
<1>5. low \in [Domains -> BOOLEAN]
  BY DEF Init
<1>6. node \in Nodes /\ steps \in Nat
  BY DEF Init, Nodes
<1> QED
  BY <1>1, <1>2, <1>3, <1>4, <1>5, <1>6 DEF Init, TypeOK, RouteInv

\* Every node writes values TicketState documents.
LEMMA TypeStep == TypeOK /\ RouteInv /\ [Next]_vars => TypeOK'
<1> SUFFICES ASSUME TypeOK, RouteInv, [Next]_vars PROVE TypeOK'
  OBVIOUS
<1> USE PipelineAssumption DEF TypeOK, At, routeVars, draftVars, failVars, reviseVars, endVars
<1>1. CASE CacheCheck
  <2>1. drafts' \in [Domains -> Draft \cup {Missing, Absent}]
    BY <1>1 DEF CacheCheck
  <2>2. routing' \in Decisions \cup {"none"} /\ first' \in Domains \cup {"none"}
    BY <1>1 DEF CacheCheck, Decisions, Domains, Specialties
  <2>3. node' \in Nodes
    BY <1>1 DEF CacheCheck, AfterCache, Nodes
  <2>4. cacheHit' \in BOOLEAN
    BY <1>1 DEF CacheCheck
  <2> QED
    BY <1>1, <2>1, <2>2, <2>3, <2>4 DEF CacheCheck
<1>2. CASE Redact
  BY <1>2 DEF Redact, Nodes
<1>3. CASE Classify
  BY <1>3 DEF Classify, Nodes
<1>4. CASE Route
  <2>1. RoutingRule(cls, text) \in Rules /\ DecideRouting(cls, text) \in Decisions
    BY RoutingDecides
  <2>2. FlippedDomain \in Decisions
    BY DEF FlippedDomain, Decisions
  <2>3. node' \in Nodes \cup Terminal
    BY <1>4 DEF Route, Nodes, Terminal
  <2>4. /\ routing' \in Decisions \cup {"none"}
        /\ rule' \in Rules \cup {"none"}
        /\ rerouteAttempted' \in BOOLEAN
    BY <1>4, <2>1, <2>2 DEF Route, Flip
  <2> QED
    BY <1>4, <2>3, <2>4 DEF Route
<1>5. CASE Supervise
  BY <1>5 DEF Supervise, SupervisorAnswers, SpecialistTarget, Nodes
<1>6. CASE Specialize
  <2>1. routing \in Routed
    BY <1>6 DEF Specialize, RouteInv
  <2>2. drafts' \in [Domains -> Draft \cup {Missing, Absent}]
    BY <1>6 DEF Specialize
  <2>3. low' \in [Domains -> BOOLEAN]
    BY <1>6 DEF Specialize
  <2>4. failureType' \in {"none", "misroute", "quality", "policy", "dependency_failure"}
    BY <1>6 DEF Specialize
  <2>5. first' \in Domains \cup {"none"}
    BY <1>6, <2>1 DEF Specialize, Routed, Domains, Specialties
  <2> QED
    BY <1>6, <2>2, <2>3, <2>4, <2>5 DEF Specialize, Nodes
<1>7. CASE Validate
  <2>1. failureType' \in {"none", "misroute", "quality", "policy", "dependency_failure"}
    BY <1>7 DEF Validate, FailureType
  <2>2. node' \in Nodes
    BY <1>7 DEF Validate, AfterValidation, Nodes
  <2> QED
    BY <1>7, <2>1, <2>2 DEF Validate, DualLow
<1>8. CASE Reflect
  <2>1. node' \in Nodes \cup Terminal
    BY <1>8 DEF Reflect, SpecialistTarget, Nodes, Terminal
  <2>2. reflectionCount' \in 0..MaxReflectionAttempts
    BY <1>8 DEF Reflect, ReflectionAllowed
  <2>3. \A d \in Written : drafts[d] \in Draft
    BY DEF Written, Drafted
  <2>4. preDrafts' \in [Domains -> Draft \cup {Absent}]
    BY <1>8, <2>3 DEF Reflect
  <2>5. judgeNeedsRevision' \in BOOLEAN
    BY <1>8 DEF Reflect
  <2> QED
    BY <1>8, <2>1, <2>2, <2>4, <2>5 DEF Reflect
<1>9. CASE Judge
  <2>1. drafts' \in [Domains -> Draft \cup {Missing, Absent}]
    BY <1>9 DEF Judge
  <2>2. judgeNeedsRevision' \in BOOLEAN
    BY <1>9 DEF Judge
  <2>3. node' \in Nodes
    BY <1>9 DEF Judge, AfterJudge, Nodes
  <2> QED
    BY <1>9, <2>1, <2>2, <2>3 DEF Judge
<1>10. CASE Aggregate
  BY <1>10 DEF Aggregate, Nodes
<1>11. CASE Escalate
  BY <1>11 DEF Escalate, EscalationReasons, Nodes, Written, Drafted
<1>12. CASE Resolve
  BY <1>12 DEF Resolve, Terminal
<1>13. CASE Raise
  BY <1>13 DEF Raise, Terminal
<1>14. CASE Finished \/ UNCHANGED vars
  BY <1>14 DEF Finished, vars
<1> QED
  BY <1>1, <1>2, <1>3, <1>4, <1>5, <1>6, <1>7, <1>8, <1>9, <1>10, <1>11, <1>12, <1>13, <1>14
  DEF Next

\* Specialists, validation and reflection run only after routing_node chose a
\* specialist: the edges out of supervisor_node and reflection_node see to it.
LEMMA RouteStep == TypeOK /\ RouteInv /\ FlagInv /\ [Next]_vars => RouteInv'
<1> SUFFICES ASSUME TypeOK, RouteInv, FlagInv, [Next]_vars PROVE RouteInv'
  OBVIOUS
<1> USE PipelineAssumption DEF TypeOK, RouteInv, At, routeVars, draftVars, failVars, reviseVars, endVars
<1>1. CASE CacheCheck
  <2>1. \/ node' = "surrogate"
        \/ node' = "response_judge" /\ routing' = "technical"
    BY <1>1 DEF CacheCheck, AfterCache
  <2> QED
    BY <2>1 DEF Routed, Domains, Specialties
<1>2. CASE Route
  <2>1. DecideRouting(cls, text) \in Decisions
    BY RoutingDecides
  <2>2. FlippedDomain \in Decisions
    BY DEF FlippedDomain, Decisions
  <2> QED
    BY <1>2, <2>1, <2>2 DEF Route, Flip
<1>3. CASE Supervise
  BY <1>3, Targets DEF Supervise, SupervisorAnswers
<1>4. CASE Validate
  BY <1>4 DEF Validate, AfterValidation
<1>5. CASE Reflect
  BY <1>5 DEF Reflect, SpecialistTarget
<1>6. CASE Judge
  BY <1>6 DEF Judge, AfterJudge, Routed, Domains, Decisions, Specialties
<1>7. CASE Redact \/ Classify \/ Specialize \/ Aggregate \/ Escalate \/ Resolve \/ Raise
  BY <1>7 DEF Redact, Classify, Specialize, Aggregate, Escalate, Resolve, Raise
<1>8. CASE Finished \/ UNCHANGED vars
  BY <1>8 DEF Finished, vars
<1> QED
  BY <1>1, <1>2, <1>3, <1>4, <1>5, <1>6, <1>7, <1>8 DEF Next

-----------------------------------------------------------------------------
(* Bounded paths and the agreement of edges and nodes *)

\* The positions of the nodes on a path without repeats.
LEMMA BaseValues ==
    /\ Base["cache_check"] = 0 /\ Base["surrogate"] = 1 /\ Base["classification"] = 3
    /\ Base["routing"] = 4 /\ Base["supervisor"] = 5 /\ Base["specialists"] = 6
    /\ Base["validation"] = 7 /\ Base["response_judge"] = 8 /\ Base["reflection"] = 9
    /\ Base["aggregator"] = 9 /\ Base["escalation"] = 10 /\ Base["resolve"] = 11
    /\ Base["end"] = 13 /\ Base["raised"] = 13
    /\ \A n \in Nodes \cup {"end", "raised"} : Base[n] \in 0..13
  BY DEF Base, Nodes

\* The reroute flags stay as the edge after validation_node and routing_node expect.
LEMMA FlagStep == TypeOK /\ RouteInv /\ FlagInv /\ [Next]_vars => FlagInv'
<1> SUFFICES ASSUME TypeOK, RouteInv, FlagInv, [Next]_vars PROVE FlagInv'
  OBVIOUS
<1> USE PipelineAssumption
    DEF TypeOK, FlagInv, At, routeVars, draftVars, failVars, reviseVars, endVars,
        BeforeRouting, Nodes, Unfixable
<1>1. CASE CacheCheck
  BY <1>1 DEF CacheCheck, AfterCache
<1>2. CASE Redact \/ Classify
  BY <1>2 DEF Redact, Classify
<1>3. CASE Route
  BY <1>3 DEF Route, Flip
<1>4. CASE Supervise
  BY <1>4 DEF Supervise, SpecialistTarget
<1>5. CASE Specialize
  BY <1>5 DEF Specialize
<1>6. CASE Validate
  <2>1. PICK judged : /\ failureType' = FailureType(judged)
                      /\ LET dual == ~DependencyFailed /\ DualLow(judged)
                         IN  /\ needsReroute' = (/\ failureType' = "misroute"
                                                 /\ ~dual /\ ~rerouteAttempted)
                             /\ rerouteAttempted' = (rerouteAttempted \/ dual)
    BY <1>6 DEF Validate
  <2>2. needsReroute' => failureType' = "misroute" /\ node' = "routing"
    BY <1>6, <2>1 DEF Validate, AfterValidation
  <2>3. needsReroute' => routing \in Specialties /\ ~rerouteAttempted'
    BY <2>1 DEF FailureType, DualLow, Misrouted
  <2>4. node' = "routing" => needsReroute'
    BY <1>6 DEF Validate, AfterValidation
  <2>5. node' = "reflection" => ReflectionAllowed' /\ failureType' \notin Unfixable
    BY <1>6 DEF Validate, AfterValidation, ReflectionAllowed
  <2>6. node' \in {"routing", "reflection", "response_judge"}
    BY <1>6 DEF Validate, AfterValidation
  <2> QED
    BY <1>6, <2>2, <2>3, <2>4, <2>5, <2>6 DEF Validate
<1>7. CASE Reflect
  BY <1>7 DEF Reflect, SpecialistTarget
<1>8. CASE Judge
  BY <1>8 DEF Judge, AfterJudge, ReflectionAllowed
<1>9. CASE Aggregate \/ Escalate \/ Resolve \/ Raise
  BY <1>9 DEF Aggregate, Escalate, Resolve, Raise
<1>10. CASE Finished \/ UNCHANGED vars
  BY <1>10 DEF Finished, vars, ReflectionAllowed
<1> QED
  BY <1>1, <1>2, <1>3, <1>4, <1>5, <1>6, <1>7, <1>8, <1>9, <1>10 DEF Next

\* A reroute and a redraft each pay for the nodes they repeat.
LEMMA PathStep == TypeOK /\ FlagInv /\ PathInv /\ [Next]_vars => PathInv'
<1> SUFFICES ASSUME TypeOK, FlagInv, PathInv, [Next]_vars PROVE PathInv'
  OBVIOUS
<1> USE PipelineAssumption, BaseValues
    DEF TypeOK, PathInv, Repeats, At, routeVars, draftVars, failVars, reviseVars, endVars
<1>1. CASE CacheCheck
  BY <1>1 DEF CacheCheck, AfterCache
<1>2. CASE Redact \/ Classify
  BY <1>2 DEF Redact, Classify
<1>3. CASE Route
  BY <1>3 DEF Route, Flip, FlagInv
<1>4. CASE Supervise
  BY <1>4 DEF Supervise, SpecialistTarget
<1>5. CASE Specialize
  BY <1>5 DEF Specialize
<1>6. CASE Validate
  <2>1. node' \in {"routing", "reflection", "response_judge"}
    BY <1>6 DEF Validate, AfterValidation
  <2>2. node' = "routing" => needsReroute' /\ ~rerouteAttempted /\ ~needsReroute
    BY <1>6 DEF Validate, AfterValidation, FlagInv, Nodes
  <2>3. needsReroute \/ rerouteAttempted => rerouteAttempted'
    BY <1>6 DEF Validate, FlagInv, Nodes
  <2>4. /\ steps' = steps + 1 /\ steps <= 7 + 4 * Repeats
        /\ reflectionCount' = reflectionCount
    BY <1>6 DEF Validate
  <2> QED
    BY <2>1, <2>2, <2>3, <2>4
<1>7. CASE Reflect
  BY <1>7 DEF Reflect, SpecialistTarget, FlagInv
<1>8. CASE Judge
  BY <1>8 DEF Judge, AfterJudge
<1>9. CASE Aggregate \/ Escalate \/ Resolve
  BY <1>9 DEF Aggregate, Escalate, Resolve
<1>10. CASE Raise
  BY <1>10 DEF Raise
<1>11. CASE Finished \/ UNCHANGED vars
  BY <1>11 DEF Finished, vars
<1> QED
  BY <1>1, <1>2, <1>3, <1>4, <1>5, <1>6, <1>7, <1>8, <1>9, <1>10, <1>11 DEF Next

-----------------------------------------------------------------------------
(* The stale draft, missing drafts and HR tickets *)

\* The draft validation_node looks at is the routed specialist's, or the abandoned
\* one after a reroute.
LEMMA FirstStep == TypeOK /\ RouteInv /\ FlagInv /\ FirstInv /\ [Next]_vars => FirstInv'
<1> SUFFICES ASSUME TypeOK, RouteInv, FlagInv, FirstInv, [Next]_vars PROVE FirstInv'
  OBVIOUS
<1> USE PipelineAssumption
    DEF FirstInv, Stale, FlippedDomain, At, routeVars, draftVars, failVars, reviseVars, endVars,
        BeforeRouting, Reviewing, Finishing
<1>1. CASE CacheCheck
  BY <1>1 DEF CacheCheck, AfterCache, FlagInv, Nodes, Specialties
<1>2. CASE Redact \/ Classify
  BY <1>2 DEF Redact, Classify, FlagInv
<1>3. CASE Route
  BY <1>3 DEF Route, Flip, FlagInv, Specialties
<1>4. CASE Supervise
  BY <1>4 DEF Supervise, SpecialistTarget, SupervisorAsked, FlagInv, Nodes, Specialties
<1>5. CASE Specialize
  <2>1. CASE rerouteAttempted
    <3>1. drafts'[FlippedDomain] = drafts[FlippedDomain] /\ low'[FlippedDomain] = low[FlippedDomain]
      BY <1>5, <2>1 DEF Specialize, Specialists, Specialties, Domains
    <3>2. first' = first
      BY <1>5, <2>1 DEF Specialize, Specialties
    <3> QED
      BY <1>5, <2>1, <3>1, <3>2 DEF Specialize
  <2>2. CASE ~rerouteAttempted
    BY <1>5, <2>2 DEF Specialize, Specialties
  <2> QED
    BY <2>1, <2>2
<1>6. CASE Validate
  <2>1. PICK judged \in SUBSET Written :
            /\ {d \in Written : low[d]} \subseteq judged
            /\ failureType' = FailureType(judged)
            /\ LET dual == ~DependencyFailed /\ DualLow(judged)
               IN  /\ needsReroute' = (/\ failureType' = "misroute"
                                       /\ ~dual /\ ~rerouteAttempted)
                   /\ rerouteAttempted' = (rerouteAttempted \/ dual)
    BY <1>6 DEF Validate
  <2>2. node' \in {"routing", "reflection", "response_judge"}
    BY <1>6 DEF Validate, AfterValidation
  <2>3. CASE rerouteAttempted
    <3>1. first \in Written /\ first \in judged
      BY <1>6, <2>1, <2>3 DEF Validate, Written, Drafted, Missing, Absent, Domains
    <3>2. Misrouted(judged)
      BY <1>6, <2>3, <3>1 DEF Validate, Misrouted, SomeFailed, Passed, Written
    <3>3. failureType' \in Unfixable
      BY <2>1, <3>2 DEF FailureType, Unfixable
    <3> QED
      BY <1>6, <2>1, <2>2, <2>3, <3>3 DEF Validate, AfterValidation, Unfixable
  <2>4. CASE ~rerouteAttempted
    <3>1. needsReroute' => Misrouted(judged)
      BY <2>1 DEF FailureType
    <3>2. node' = "routing" => needsReroute'
      BY <1>6 DEF Validate, AfterValidation
    <3>3. node' = "routing" => Stale(routing)'
      BY <1>6, <2>4, <3>1, <3>2 DEF Validate, Misrouted
    <3>4. rerouteAttempted' => failureType' = "misroute" /\ ~needsReroute'
      BY <2>1, <2>4 DEF FailureType
    <3>5. rerouteAttempted' => node' = "response_judge"
      BY <1>6, <3>4 DEF Validate, AfterValidation
    <3> QED
      BY <1>6, <2>2, <2>4, <3>2, <3>3, <3>4, <3>5 DEF Validate, Unfixable
  <2> QED
    BY <2>3, <2>4
<1>7. CASE Reflect
  BY <1>7 DEF Reflect, SpecialistTarget, FlagInv, Nodes
<1>8. CASE Judge
  BY <1>8 DEF Judge, AfterJudge, Unfixable
<1>9. CASE Aggregate
  BY <1>9 DEF Aggregate
<1>10. CASE Escalate
  BY <1>10 DEF Escalate, EscalationReasons, Applies, Reasons, Unfixable, FlagInv, Nodes
<1>11. CASE Resolve \/ Raise
  BY <1>11 DEF Resolve, Raise
<1>12. CASE Finished \/ UNCHANGED vars
  BY <1>12 DEF Finished, vars
<1> QED
  BY <1>1, <1>2, <1>3, <1>4, <1>5, <1>6, <1>7, <1>8, <1>9, <1>10, <1>11, <1>12 DEF Next

\* A draft that could not be generated stays known as a dependency failure.
LEMMA MissingStep == TypeOK /\ RouteInv /\ FlagInv /\ FirstInv /\ MissingInv /\ [Next]_vars => MissingInv'
<1> SUFFICES ASSUME TypeOK, RouteInv, FlagInv, FirstInv, MissingInv, [Next]_vars PROVE MissingInv'
  OBVIOUS
<1> USE PipelineAssumption, DraftKinds
    DEF MissingInv, SomeMissing, At, routeVars, draftVars, failVars, reviseVars, endVars,
        BeforeRouting, Reviewing, Finishing
<1>1. CASE CacheCheck
  BY <1>1 DEF CacheCheck, AfterCache, TypeOK
<1>2. CASE Redact \/ Classify
  BY <1>2 DEF Redact, Classify, FlagInv
<1>3. CASE Route
  BY <1>3 DEF Route, Flip, FlagInv
<1>4. CASE Supervise
  BY <1>4 DEF Supervise, SpecialistTarget, SupervisorAsked, FirstInv, Specialties
<1>5. CASE Specialize
  BY <1>5 DEF Specialize
<1>6. CASE Validate
  <2>1. SomeMissing => DependencyFailed
    BY DEF DependencyFailed, Drafted
  <2>2. DependencyFailed => failureType' = "dependency_failure" /\ node' = "response_judge"
    BY <1>6 DEF Validate, FailureType, AfterValidation
  <2>3. node' \in {"routing", "reflection", "response_judge"}
    BY <1>6 DEF Validate, AfterValidation
  <2> QED
    BY <1>6, <2>1, <2>2, <2>3 DEF Validate
<1>7. CASE Reflect
  BY <1>7 DEF Reflect, SpecialistTarget, FlagInv, FirstInv, Unfixable
<1>8. CASE Judge
  <2>1. SomeMissing' => SomeMissing
    BY <1>8 DEF Judge, TypeOK
  <2> QED
    BY <1>8, <2>1 DEF Judge, AfterJudge
<1>9. CASE Aggregate
  BY <1>9 DEF Aggregate
<1>10. CASE Escalate
  BY <1>10 DEF Escalate, EscalationReasons, Applies, Reasons
<1>11. CASE Resolve \/ Raise
  BY <1>11 DEF Resolve, Raise
<1>12. CASE Finished \/ UNCHANGED vars
  BY <1>12 DEF Finished, vars
<1> QED
  BY <1>1, <1>2, <1>3, <1>4, <1>5, <1>6, <1>7, <1>8, <1>9, <1>10, <1>11, <1>12 DEF Next

\* No node takes a ticket away from HR.
LEMMA HrStep == TypeOK /\ RouteInv /\ FlagInv /\ HrInv /\ [Next]_vars => HrInv'
<1> SUFFICES ASSUME TypeOK, RouteInv, FlagInv, HrInv, [Next]_vars PROVE HrInv'
  OBVIOUS
<1> USE PipelineAssumption
    DEF HrInv, HrText, At, routeVars, draftVars, failVars, reviseVars, endVars,
        BeforeRouting, Finishing, Nodes
<1>0. text' = text
  BY DEF Next, CacheCheck, Redact, Classify, Route, Supervise, Specialize, Validate, Reflect,
         Judge, Aggregate, Escalate, Resolve, Raise, Finished, vars
<1>1. CASE CacheCheck
  BY <1>0, <1>1 DEF CacheCheck, AfterCache
<1>2. CASE Redact \/ Classify
  BY <1>0, <1>2 DEF Redact, Classify, FlagInv
<1>3. CASE Route
  BY <1>0, <1>3 DEF Route, Flip, FlagInv, DecideRouting, RuleDecision, RoutingRule, HrOutweighs,
                    HasHrHardTrigger
<1>4. CASE Supervise
  BY <1>0, <1>4 DEF Supervise, SpecialistTarget, SupervisorAsked, UncertainRules
<1>5. CASE Specialize
  BY <1>0, <1>5 DEF Specialize
<1>6. CASE Validate
  <2>1. routing = "hr" => failureType' # "misroute"
    BY <1>6 DEF Validate, FailureType, DualLow, Misrouted, Specialties
  <2> QED
    BY <1>0, <1>6, <2>1 DEF Validate, AfterValidation
<1>7. CASE Reflect
  BY <1>0, <1>7 DEF Reflect, SpecialistTarget
<1>8. CASE Judge
  BY <1>0, <1>8 DEF Judge, AfterJudge
<1>9. CASE Aggregate
  BY <1>0, <1>9 DEF Aggregate
<1>10. CASE Escalate
  BY <1>0, <1>10 DEF Escalate, EscalationReasons, Applies, Reasons
<1>11. CASE Resolve \/ Raise
  BY <1>0, <1>11 DEF Resolve, Raise
<1>12. CASE Finished \/ UNCHANGED vars
  BY <1>0, <1>12 DEF Finished, vars
<1> QED
  BY <1>1, <1>2, <1>3, <1>4, <1>5, <1>6, <1>7, <1>8, <1>9, <1>10, <1>11, <1>12 DEF Next

-----------------------------------------------------------------------------
(* The redraft cap and the reply *)

\* What validation rejects is redrafted until MAX_REFLECTION_ATTEMPTS.
LEMMA CapStep == TypeOK /\ RouteInv /\ FlagInv /\ FirstInv /\ CapInv /\ [Next]_vars => CapInv'
<1> SUFFICES ASSUME TypeOK, RouteInv, FlagInv, FirstInv, CapInv, [Next]_vars PROVE CapInv'
  OBVIOUS
<1> USE PipelineAssumption
    DEF CapInv, Undrafted, At, routeVars, draftVars, failVars, reviseVars, endVars,
        BeforeRouting, Reviewing, Finishing, Unfixable
<1>1. CASE CacheCheck
  BY <1>1 DEF CacheCheck, AfterCache
<1>2. CASE Redact \/ Classify
  BY <1>2 DEF Redact, Classify, FlagInv
<1>3. CASE Route
  BY <1>3 DEF Route, Flip, FlagInv
<1>4. CASE Supervise
  BY <1>4 DEF Supervise, SpecialistTarget, SupervisorAsked, FlagInv, FirstInv, Specialties
<1>5. CASE Specialize
  BY <1>5 DEF Specialize
<1>6. CASE Validate
  <2>1. node' \in {"routing", "reflection", "response_judge"}
    BY <1>6 DEF Validate, AfterValidation
  <2>2. node' = "routing" => needsReroute'
    BY <1>6 DEF Validate, AfterValidation
  <2>3. node' = "response_judge" /\ failureType' = "misroute" => rerouteAttempted' /\ ~needsReroute'
    BY <1>6 DEF Validate, AfterValidation, TypeOK
  <2>4. node' = "response_judge" /\ failureType' \in {"quality", "policy"}
           => reflectionCount' = MaxReflectionAttempts
    BY <1>6 DEF Validate, AfterValidation, TypeOK
  <2> QED
    BY <2>1, <2>2, <2>3, <2>4
<1>7. CASE Reflect
  BY <1>7 DEF Reflect, SpecialistTarget, RouteInv, Routed, Domains, Specialties
<1>8. CASE Judge
  BY <1>8 DEF Judge, AfterJudge
<1>9. CASE Aggregate
  BY <1>9 DEF Aggregate
<1>10. CASE Escalate
  BY <1>10 DEF Escalate, EscalationReasons, Applies, Reasons
<1>11. CASE Resolve \/ Raise
  BY <1>11 DEF Resolve, Raise
<1>12. CASE Finished \/ UNCHANGED vars
  BY <1>12 DEF Finished, vars
<1> QED
  BY <1>1, <1>2, <1>3, <1>4, <1>5, <1>6, <1>7, <1>8, <1>9, <1>10, <1>11, <1>12 DEF Next

\* A node that leaves the drafts and the decision alone leaves these alone.
LEMMA SameDrafts ==
    ASSUME drafts' = drafts
    PROVE  Drafted' = Drafted /\ Written' = Written
  BY DEF Drafted, Written

\* The drafts a reply is made of are those of the routed specialists.
LEMMA ReplyStep ==
    TypeOK /\ RouteInv /\ FlagInv /\ FirstInv /\ MissingInv /\ CapInv /\ ReplyInv /\ [Next]_vars => ReplyInv'
<1> SUFFICES ASSUME TypeOK, RouteInv, FlagInv, FirstInv, MissingInv, CapInv, ReplyInv, [Next]_vars
             PROVE  ReplyInv'
  OBVIOUS
<1> USE PipelineAssumption, DraftKinds, SameDrafts
    DEF ReplyInv, Undrafted, At, routeVars, draftVars, failVars, reviseVars, endVars,
        BeforeRouting, Reviewing, Finishing
<1>1. CASE CacheCheck
  BY <1>1 DEF CacheCheck, AfterCache, Drafted, Specialists, Specialties, Domains, TypeOK
<1>2. CASE Redact \/ Classify
  BY <1>2 DEF Redact, Classify, FlagInv, Drafted, Domains, Nodes
<1>3. CASE Route
  BY <1>3 DEF Route, Flip, FlagInv, Drafted, Domains, Nodes
<1>4. CASE Supervise
  BY <1>4 DEF Supervise, SpecialistTarget, SupervisorAsked, FirstInv, Drafted, Domains, Nodes,
              Specialists, Specialties
<1>5. CASE Specialize
  BY <1>5 DEF Specialize, Drafted, Specialists, Specialties, Domains, Nodes, RouteInv, Routed
<1>6. CASE Validate
  BY <1>6 DEF Validate, AfterValidation, Nodes
<1>7. CASE Reflect
  BY <1>7 DEF Reflect, SpecialistTarget, FlagInv, FirstInv, RouteInv, Routed, Domains, Specialties, Nodes
<1>8. CASE Judge
  <2>1. \A d \in Domains : drafts'[d] = Absent <=> drafts[d] = Absent
    BY <1>8 DEF Judge, TypeOK, Written, Drafted
  <2>2. Drafted' = Drafted
    BY <2>1 DEF Drafted
  <2> QED
    BY <1>8, <2>1, <2>2 DEF Judge, AfterJudge, Nodes, Domains
<1>9. CASE Aggregate
  BY <1>9 DEF Aggregate, Nodes
<1>10. CASE Escalate
  <2> SUFFICES ASSUME reasons' = {}
               PROVE  /\ reply' # {} /\ reply' = Specialists(routing)
                      /\ \A d \in reply' : drafts[d] \in Draft
    BY <1>10 DEF Escalate, Nodes
  <2>1. \A r \in Reasons : ~Applies(r)
    BY <1>10 DEF Escalate, EscalationReasons
  <2>2. routing # "escalation" /\ routing # "hr" /\ failureType # "dependency_failure"
    BY <2>1 DEF Applies, Reasons
  <2>3. routing \in Specialties \cup {"both"}
    BY <1>10, <2>2 DEF Escalate, RouteInv, Decisions, Specialties
  <2>4. ~SomeMissing
    BY <1>10, <2>2 DEF Escalate, MissingInv
  <2>5. Written = Drafted
    BY <2>4 DEF Written, SomeMissing, Drafted
  <2>6. Specialists(routing) \subseteq Drafted /\ drafts["hr"] = Absent
    BY <1>10, <2>3 DEF Escalate, Nodes
  <2>7. reply' = IF routing = "both" THEN Written ELSE {routing} \cap Written
    BY <1>10 DEF Escalate
  <2>8. reply' = Specialists(routing) /\ reply' # {}
    BY <2>3, <2>5, <2>6, <2>7 DEF Specialists, Specialties, Drafted, Domains
  <2>9. \A d \in Drafted : drafts[d] \in Draft
    BY <2>4 DEF Drafted, SomeMissing, TypeOK
  <2> QED
    BY <2>6, <2>8, <2>9
<1>11. CASE Resolve \/ Raise
  BY <1>11 DEF Resolve, Raise, Nodes
<1>12. CASE Finished \/ UNCHANGED vars
  BY <1>12 DEF Finished, vars
<1> QED
  BY <1>1, <1>2, <1>3, <1>4, <1>5, <1>6, <1>7, <1>8, <1>9, <1>10, <1>11, <1>12 DEF Next

-----------------------------------------------------------------------------
(* Theorems *)

\* A run starts in the invariant.
LEMMA InitInv == Init => Inv
<1> SUFFICES ASSUME Init PROVE Inv
  OBVIOUS
<1>1. TypeOK /\ RouteInv
  BY InitType
<1>2. PathInv
  BY PipelineAssumption, BaseValues DEF Init, PathInv, Repeats
<1>3. FlagInv /\ FirstInv /\ MissingInv /\ HrInv
  BY DraftKinds DEF Init, FlagInv, FirstInv, MissingInv, SomeMissing, HrInv, BeforeRouting,
                    Reviewing, Finishing, Nodes
<1>4. CapInv /\ ReplyInv
  BY DEF Init, CapInv, ReplyInv, Undrafted, Drafted, BeforeRouting, Reviewing, Finishing, Specialties,
         Domains
<1> QED
  BY <1>1, <1>2, <1>3, <1>4 DEF Inv

\* Every step of a run keeps the invariant.
LEMMA InvStep == Inv /\ [Next]_vars => Inv'
  BY TypeStep, RouteStep, FlagStep, PathStep, FirstStep, MissingStep, HrStep, CapStep, ReplyStep
  DEF Inv

\* The invariant holds throughout every run of the ticket graph.
THEOREM Invariance == Spec => []Inv
<1>1. Init => Inv
  BY InitInv
<1>2. Inv /\ [Next]_vars => Inv'
  BY InvStep
<1> QED
  BY <1>1, <1>2, PTL DEF Spec

\* Every node leaves the fields of TicketState within their documented values.
THEOREM TypeCorrect == Spec => []TypeOK
<1>1. Inv => TypeOK
  BY DEF Inv
<1> QED
  BY <1>1, Invariance, PTL

\* No run reaches a state for which routing_node or reflection_node raises.
THEOREM NeverInvalid == Spec => []NoInvalidState
<1>1. Inv => NoInvalidState
  BY DEF Inv, PathInv, NoInvalidState
<1> QED
  BY <1>1, Invariance, PTL

\* A run executes at most PathBound nodes, whatever MAX_REFLECTION_ATTEMPTS is.
THEOREM PathsBounded == Spec => []BoundedPath
<1>1. Inv => BoundedPath
  <2> SUFFICES ASSUME Inv PROVE BoundedPath
    OBVIOUS
  <2>1. node \in Nodes \cup {"end", "raised"}
    BY DEF Inv, PathInv, TypeOK, Terminal
  <2>2. Base[node] \in 0..13
    BY <2>1, BaseValues
  <2>3. Repeats \in 0..(MaxReflectionAttempts + 1)
    BY PipelineAssumption DEF Inv, TypeOK, Repeats
  <2> QED
    BY <2>2, <2>3, PipelineAssumption DEF Inv, TypeOK, PathInv, BoundedPath, PathBound
<1> QED
  BY <1>1, Invariance, PTL

\* A ticket whose reroute is spent ends with a human.
THEOREM ReroutesReviewed == Spec => []RerouteReviewed
<1>1. Inv => RerouteReviewed
  BY DEF Inv, FirstInv, Finishing, RerouteReviewed, Escalated
<1> QED
  BY <1>1, Invariance, PTL

\* A ticket with a draft that could not be written ends with a human.
THEOREM DependencyFailuresReviewed == Spec => []DependencyFailureReviewed
<1>1. Inv => DependencyFailureReviewed
  BY DEF Inv, MissingInv, SomeMissing, Finishing, DependencyFailureReviewed, Escalated
<1> QED
  BY <1>1, Invariance, PTL

\* A ticket that must be handled by HR ends with a human, or had a precedent that no HR
\* phrase of the canonicalized text ruled out.
THEOREM HrTicketsReviewed == Spec => []HrReviewed
<1>1. Inv => HrReviewed
  BY DEF Inv, HrInv, HrText, Finishing, HrReviewed, Escalated
<1> QED
  BY <1>1, Invariance, PTL
\* A ticket that is not escalated has a reply from every specialist it was sent to.
THEOREM ResolvedTicketsHaveReplies == Spec => []ResolvedHasReply
<1>1. Inv => ResolvedHasReply
  BY DEF Inv, ReplyInv, Finishing, ResolvedHasReply, Escalated
<1> QED
  BY <1>1, Invariance, PTL

\* A reply that failed its last validation had every allowed redraft.
THEOREM FailedRepliesAtCap == Spec => []FailedOnlyAtCap
<1>1. Inv => FailedOnlyAtCap
  BY DEF Inv, TypeOK, CapInv, Finishing, Unfixable, FailedOnlyAtCap, Escalated
<1> QED
  BY <1>1, Invariance, PTL
=============================================================================
