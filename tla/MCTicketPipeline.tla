--------------------------- MODULE MCTicketPipeline ---------------------------
(***************************************************************************)
(* Small sets of tickets and classifications for TLC: between them they    *)
(* reach every routing rule.                                               *)
(***************************************************************************)
EXTENDS TicketPipeline

Scored(t, b, h, w, c) ==
    [technical |-> t, billing |-> b, hr |-> h, hrWeak |-> w, hrCanonical |-> c]
Labels(p, conf, crit) == [points |-> p, confidence |-> conf, critical |-> crit]

MCTexts ==
    {Scored(0, 0, 0, 0, 0),    \* no routing keyword
     Scored(2, 1, 0, 0, 0),    \* wording for both domains
     Scored(0, 1, 0, 0, 0),    \* billing wording
     Scored(0, 0, 0, 1, 0),    \* a weak HR signal
     Scored(1, 3, 1, 0, 1),    \* an HR phrase, as strong as the technical wording
     Scored(0, 1, 1, 0, 0),    \* an HR phrase with an apostrophe
     Scored(2, 0, 1, 0, 1)}    \* an HR phrase that technical wording outweighs

MCClassifications ==
    {Labels({}, 0, FALSE),            \* classification failed
     Labels({}, 75, FALSE),           \* a label without a domain
     Labels({"technical"}, 90, FALSE),
     Labels(Specialties, 55, TRUE)}   \* labels of both domains, critical

\* Every verdict of the judge, and a draft that breaks a policy rule.
MCDrafts == {[rules |-> "passed", judge |-> j] : j \in {"good", "unfit", "off_topic"}}
            \cup {[rules |-> "failed", judge |-> "good"]}
=============================================================================
