------------------------- MODULE ConfigRulesProofs -------------------------
(***************************************************************************)
(* A configuration that validate lets through makes rules that can be      *)
(* applied, however many groups, rules and users it has.                   *)
(***************************************************************************)
EXTENDS ConfigRules, TLAPS

(* A configuration as the YAML decoder leaves it: the parts of the file    *)
(* that are missing are empty sequences.                                   *)
Group == [name : STRING, users : Seq(STRING)]
Rule == [repository : STRING, filePatterns : Seq(STRING),
         actions : Seq(STRING), users : Seq(STRING), groups : Seq(STRING)]
IsConfig(c) == c.groups \in Seq(Group) /\ c.rules \in Seq(Rule)

LEMMA ElementExists ==
  ASSUME NEW S, NEW s \in Seq(S)
  PROVE  /\ \A i \in 1 .. Len(s) : s[i] \in Range(s) /\ s[i] \in S
         /\ Range(s) \subseteq S
         /\ s # <<>> => \E e \in S : e \in Range(s)
<1>1. s # <<>> => 1 \in 1 .. Len(s)
  OBVIOUS
<1>2. \A i \in 1 .. Len(s) : s[i] \in Range(s) /\ s[i] \in S
  BY DEF Range
<1> QED
  BY <1>1, <1>2 DEF Range

LEMMA PartsExist ==
  ASSUME NEW c, IsConfig(c)
  PROVE  /\ \A i \in 1 .. Len(c.rules) :
              /\ c.rules[i] \in Range(c.rules)
              /\ c.rules[i].actions \in Seq(STRING)
              /\ c.rules[i].users \in Seq(STRING)
              /\ c.rules[i].groups \in Seq(STRING)
         /\ \A g \in Range(c.groups) : g.users \in Seq(STRING)
<1>1. c.rules \in Seq(Rule) /\ c.groups \in Seq(Group)
  BY DEF IsConfig
<1>2. \A i \in 1 .. Len(c.rules) : c.rules[i] \in Range(c.rules) /\ c.rules[i] \in Rule
  BY <1>1, ElementExists
<1>3. \A g \in Range(c.groups) : g \in Group
  BY <1>1, ElementExists
<1> QED
  BY <1>2, <1>3 DEF Rule, Group

(* Every rule of a valid configuration names somebody: a user, or the      *)
(* users of a group that exists and is not empty.                          *)
LEMMA SomebodyNamed ==
  ASSUME NEW c, IsConfig(c), validate(c), NEW i \in 1 .. Len(c.rules)
  PROVE  Users(c, c.rules[i]) # {}
<1> DEFINE rule == c.rules[i]
<1>1. /\ rule \in Range(c.rules)
      /\ rule.users \in Seq(STRING) /\ rule.groups \in Seq(STRING)
  BY PartsExist
<1>2. rule.users # <<>> \/ rule.groups # <<>>
  BY <1>1 DEF validate, hasRuleFieldEmpty
<1> HIDE DEF rule
<1>3. CASE rule.users # <<>>
  BY <1>1, <1>3, ElementExists DEF Users, rule
<1>4. CASE rule.groups # <<>>
  <2>1. PICK name \in STRING : name \in Range(rule.groups)
    BY <1>1, <1>4, ElementExists
  <2>2. PICK g \in Range(c.groups) : g.name = name
    BY <1>1, <2>1 DEF validate, hasRuleGroupThatExists
  <2>3. g.users # <<>> /\ g.users \in Seq(STRING)
    BY <2>2, PartsExist DEF validate, hasEmptyGroup
  <2>4. PICK user \in STRING : user \in Range(g.users)
    BY <2>3, ElementExists
  <2>5. user \in Users(c, rule)
    BY <2>1, <2>2, <2>4 DEF Users
  <2> QED
    BY <2>5 DEF rule
<1> QED
  BY <1>2, <1>3, <1>4

(* The rules made of a valid configuration can all be applied.             *)
THEOREM ValidRulesApply ==
  ASSUME NEW c, IsConfig(c), validate(c), NEW i \in 1 .. Len(c.rules)
  PROVE  Applicable(seRules(c)[i])
<1>1. /\ c.rules[i] \in Range(c.rules)
      /\ c.rules[i].actions \in Seq(STRING)
  BY PartsExist
<1>2. /\ c.rules[i].filePatterns # <<>>
      /\ c.rules[i].actions # <<>>
      /\ Range(c.rules[i].actions) \subseteq {"lock", "unlock"}
  BY <1>1 DEF validate, hasRuleFieldEmpty, hasRuleCorrectActions
<1>3. Range(c.rules[i].actions) # {}
  BY <1>1, <1>2, ElementExists
<1>4. /\ seRules(c)[i].filePatterns = c.rules[i].filePatterns
      /\ seRules(c)[i].actions = c.rules[i].actions
      /\ seRules(c)[i].users = Users(c, c.rules[i])
  BY DEF seRules
<1> QED
  BY <1>2, <1>3, <1>4, SomebodyNamed DEF Applicable
=============================================================================
