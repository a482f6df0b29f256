------------------------------- MODULE Routing -------------------------------
(***************************************************************************)
(* The first-pass routing decision of the ticket graph: explain_routing()  *)
(* of routing_node.py, as a function of what the classifier said and of    *)
(* the keyword scores of the ticket text.                                  *)
(*                                                                         *)
(* A classification is a record                                            *)
(*   points      the specialist domains its category labels name           *)
(*               (Feature Request and Content & Media name none; a failed  *)
(*               classification is stored as "General", which names none   *)
(*               either, with confidence 0)                                *)
(*   confidence  certainty about the category labels, in percent           *)
(*   critical    the priority label is "Critical"                          *)
(* A text is the record of its four keyword scores, and of the score its   *)
(* hard HR phrases have once it is canonicalized: lower case, punctuation  *)
(* blanked, white space squeezed.  That hides the phrases written with an  *)
(* apostrophe ("can't be matched", "isn't for me") and can make others     *)
(* ("bank-slip").                                                          *)
(***************************************************************************)
EXTENDS Naturals

Specialties == {"technical", "billing"}      \* domains a reroute flips between
Decisions   == {"technical", "billing", "both", "hr", "escalation"}

LowCategoryConfidence == 50                  \* percent

Classification == [points: SUBSET Specialties, confidence: 0..100, critical: BOOLEAN]
Scores         == [technical: Nat, billing: Nat, hr: Nat, hrWeak: Nat, hrCanonical: Nat]

\* canonicalize_ticket_text, as far as the hard HR phrases tell.
Canonicalized(s) == [s EXCEPT !.hr = s.hrCanonical]

\* has_hr_hard_trigger: cache_check asks it of the canonicalized text.
HasHrHardTrigger(s) == s.hr > 0

Trusted(c) == c.confidence >= LowCategoryConfidence

\* The domain whose wording scores higher; "tie" when neither does.
Stronger(s) ==
    CASE s.billing > s.technical -> "billing"
      [] s.technical > s.billing -> "technical"
      [] OTHER                   -> "tie"

\* _route_by_category for labels of the taxonomy; "none" is Python's None.
RouteByCategory(points, s) ==
    CASE points = {}          -> "none"
      [] points = {"technical"} -> "technical"
      [] points = {"billing"}   -> "billing"
      [] OTHER -> IF Stronger(s) = "tie" THEN "both" ELSE Stronger(s)

\* An HR phrase that technical wording does not outweigh.
HrOutweighsStrictly(s) == s.hr > 0 /\ s.hr > s.technical        \* mutant: > for >=
HrOutweighs(s) == s.hr > 0 /\ s.hr >= s.technical

\* The rule that decides, in the order of the code's early returns. The rule
\* no_category is left out: classification_node always writes a category
\* string, so `not category` is false in every run of the graph. text_tie needs
\* two equal positive scores, which text_both_domains has already taken.
RoutingRule(c, s) ==
    IF HrOutweighs(s)                                        THEN "hr_trigger"
    ELSE IF s.hrWeak > s.technical /\ s.hrWeak > s.billing   THEN "hr_weak_signal"
    ELSE IF s.technical > 0 /\ s.billing > 0                 THEN "text_both_domains"
    ELSE IF Trusted(c) /\ c.points # {}                      THEN "category"
    ELSE IF Stronger(s) # "tie"                              THEN "text_keywords"
    ELSE IF Trusted(c)                                       THEN "no_signal"
    ELSE "low_confidence_no_signal"

RuleDecision(r, c, s) ==
    CASE r \in {"hr_trigger", "hr_weak_signal"}                    -> "hr"
      [] r \in {"text_both_domains", "low_confidence_no_signal"}   -> "both"
      [] r = "category"                                            -> RouteByCategory(c.points, s)
      [] r = "text_keywords"                                       -> Stronger(s)
      [] r = "no_signal"                                           -> "escalation"

DecideRouting(c, s) == RuleDecision(RoutingRule(c, s), c, s)

\* supervisor_node asks the LLM only after one of these rules.
UncertainRules == {"low_confidence_no_signal", "no_signal"}

Rules == {"hr_trigger", "hr_weak_signal", "text_both_domains", "category",
          "text_keywords"} \cup UncertainRules
=============================================================================
