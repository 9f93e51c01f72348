---------------------------- MODULE ConfigRules ----------------------------
(***************************************************************************)
(* The configuration file's security rules (internal/config/file.go): what *)
(* validate lets through, and the rules that seRules makes of it for the   *)
(* event service.  Load does not call them at this commit: the service     *)
(* gets no rules.                                                          *)
(*                                                                         *)
(* A configuration is a record of sequences of records, as in the file.    *)
(* The errors are texts; here it is told apart whether there is one.       *)
(***************************************************************************)
EXTENDS Naturals, Sequences, Functions

hasEmptyGroup(c) == \E g \in Range(c.groups) : g.users = <<>>

hasRuleGroupThatExists(c) ==
  \A rule \in Range(c.rules) : \A group \in Range(rule.groups) :
    \E g \in Range(c.groups) : g.name = group

hasRuleCorrectActions(c) ==
  \A rule \in Range(c.rules) : Range(rule.actions) \subseteq {"lock", "unlock"}

hasRuleFieldEmpty(c) ==
  \E rule \in Range(c.rules) :
    \/ rule.actions = <<>>
    \/ rule.filePatterns = <<>>
    \/ rule.users = <<>> /\ rule.groups = <<>>

validate(c) ==
  /\ ~hasEmptyGroup(c)
  /\ hasRuleGroupThatExists(c)
  /\ hasRuleCorrectActions(c)
  /\ ~hasRuleFieldEmpty(c)

(* A rule with its groups replaced by their users.  A user may be listed   *)
(* several times, which is the same as once to whoever looks for a user.   *)
Users(c, rule) ==
  Range(rule.users) \union
  UNION {Range(g.users) :
           g \in {h \in Range(c.groups) : h.name \in Range(rule.groups)}}

seRules(c) ==
  [i \in 1 .. Len(c.rules) |->
     [repository |-> c.rules[i].repository,
      filePatterns |-> c.rules[i].filePatterns,
      actions |-> c.rules[i].actions,
      users |-> Users(c, c.rules[i])]]

-----------------------------------------------------------------------------
(* A rule that can be applied: it names files, somebody, and something the *)
(* service does.                                                           *)
Applicable(rule) ==
  /\ rule.filePatterns # <<>>
  /\ rule.users # {}
  /\ Range(rule.actions) # {}
  /\ Range(rule.actions) \subseteq {"lock", "unlock"}
=============================================================================
