------------------------------ MODULE MCServer ------------------------------
(* Three webhooks, one of them a deploy command for an app of apps.         *)
EXTENDS Server, Naturals

CONSTANTS e1, e2, e3

MCWebhooks == {e1, e2, e3}

\* Configurations of one rule and at most two groups: each rule that is let
\* through can be applied.
Config == INSTANCE ConfigRules
UpToTwo(S) == UNION {[1 .. n -> S] : n \in 0 .. 2}
UpToOne(S) == UNION {[1 .. n -> S] : n \in 0 .. 1}
Groups == [name : {"g", "h"}, users : UpToOne({"u", "v"})]
Rules == [repository : {"r"}, filePatterns : UpToOne({"f"}),
          actions : UpToOne({"lock", "unlock", "delete"}),
          groups : UpToTwo({"g", "h"}), users : UpToOne({"u"})]
ASSUME
  \A c \in [groups : UpToTwo(Groups), rules : UpToOne(Rules)] :
    Config!validate(c) =>
      \A i \in DOMAIN Config!seRules(c) : Config!Applicable(Config!seRules(c)[i])
=============================================================================
