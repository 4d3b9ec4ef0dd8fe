------------------------------- MODULE Policy -------------------------------
(* PolicyEvaluator: the decision about a skill, a tool, an MCP server, a     *)
(* model or a side effect, from the allow and deny lists of the policy and   *)
(* from its declarative rules (src/micro_agent/security/policy.py).          *)
(*                                                                           *)
(* A resource is a pair of a kind and a name; a rule's pattern is the set of *)
(* resources that fnmatchcase() accepts, a condition is a record of the      *)
(* context key, an operator and a set of values, and a context maps every    *)
(* key to a value or to Missing.                                             *)
EXTENDS Integers, Sequences, FiniteSets, Selection

CONSTANTS
    Policies,       \* policies: lists, models, side, approval, rules (a sequence)
    Questions,      \* what is asked: kind, name, also (the model id), provider, context
    Missing         \* the context has no such key

Rules(p) == {p.rules[i] : i \in DOMAIN p.rules}

ASSUME PolicyAssumption ==
    \A p \in Policies : /\ {"lists", "models", "providers", "side", "approval", "rules"} \subseteq DOMAIN p
                        /\ p.rules \in Seq(Rules(p))

VARIABLES
    policy,         \* the platform policy of the evaluator
    question,       \* the request for a decision
    decision        \* the answer, or "none" before it

plvars == <<policy, question, decision>>

Kinded == {"skill", "tool", "mcp"}

PolInit ==
    /\ policy = <<>>
    /\ question = <<>>
    /\ decision = "none"

(* An entry of the deny list wins; an allow list that is empty allows all.   *)
Listed(l, name) == name \notin l.deny /\ (l.allow # {} => name \in l.allow)

(* Only "exists" can be satisfied by a missing key.                          *)
OperatorMatches(op, actual, operand) ==
    CASE op = "exists" -> (actual # Missing) = (operand # {})
      [] op = "in" -> actual # Missing /\ actual \in operand
      [] op = "not_in" -> actual # Missing /\ actual \notin operand

ConditionsMatch(conditions, context) ==
    \A c \in conditions : OperatorMatches(c.op, context[c.key], c.values)

(* An empty list of actions matches every action.                            *)
Matching(rule, q, action) ==
    /\ <<q.kind, q.name>> \in rule.resources
    /\ rule.actions = {} \/ {action, "*"} \cap rule.actions # {}
    /\ ConditionsMatch(rule.conditions, q.context)

(* Mutant of RuleDecision: the first matching rule decides.                  *)
RuleDecisionFirst(p, q, action) ==
    LET hits == SelectSeq(p.rules, LAMBDA r : Matching(r, q, action))
    IN IF hits = <<>> THEN "none" ELSE Head(hits).effect

(* The first matching deny, else the first matching allow.                   *)
RuleDecision(p, q, action) ==
    LET hits == {i \in 1..Len(p.rules) : Matching(p.rules[i], q, action)}
        effects == {p.rules[i].effect : i \in hits}
    IN IF "deny" \in effects THEN "deny"
       ELSE IF "allow" \in effects THEN "allow" ELSE "none"

ByRules(p, q, action) == IF RuleDecision(p, q, action) = "deny" THEN "denied" ELSE "allowed"

(* evaluate_skill, evaluate_tool and evaluate_mcp.                           *)
EvaluateListed(p, q, action) ==
    IF Listed(p.lists[q.kind], q.name) THEN ByRules(p, q, action) ELSE "denied"

(* The reference and the id are candidates for the model lists; the provider *)
(* lists apply to a model that names its provider.                           *)
EvaluateModel(p, q) ==
    LET candidates == {q.name, q.also} \ {"none"}
        lists == p.models
    IN IF \/ candidates \cap lists.deny # {}
          \/ lists.allow # {} /\ candidates \cap lists.allow = {}
          \/ q.provider # "none" /\ ~Listed(p.providers, q.provider)
       THEN "denied" ELSE ByRules(p, q, "invoke")

(* The approval requirement is decided before any rule is looked at.         *)
EvaluateSideEffect(p, q) ==
    IF p.side = "deny" THEN "denied"
    ELSE IF p.approval THEN "approval" ELSE ByRules(p, q, "execute")

Evaluated(p, q) ==
    CASE q.kind \in {"skill", "tool"} -> EvaluateListed(p, q, "invoke")
      [] q.kind = "mcp" -> EvaluateListed(p, q, "connect")
      [] q.kind = "model" -> EvaluateModel(p, q)
      [] q.kind = "side_effect" -> EvaluateSideEffect(p, q)

Evaluate(p, q) ==
    /\ policy' = p
    /\ question' = q
    /\ decision' = Evaluated(p, q)

PolNext == decision = "none" /\ \E p \in Policies, q \in Questions : Evaluate(p, q)

PolSpec == PolInit /\ [][PolNext]_plvars

-----------------------------------------------------------------------------
(* PolicyEvaluator promises that a matching deny always wins and that rules  *)
(* only add to the lists: whatever the order of the rules, a decision that   *)
(* is not a refusal means that no deny list names the subject and that no    *)
(* matching rule denies it, and dropping the allow rules changes nothing.    *)
DenyWins ==
    decision # "none" =>
        LET p == policy
            q == question
            Reversed == [p EXCEPT !.rules = [i \in 1..Len(p.rules) |-> p.rules[Len(p.rules) + 1 - i]]]
            Denying == {r \in Rules(p) : r.effect = "deny"}
            Denials == [p EXCEPT !.rules = Filtered(p.rules, Denying)]
        IN /\ decision = Evaluated(Reversed, q)
           /\ decision = Evaluated(Denials, q)
=============================================================================
