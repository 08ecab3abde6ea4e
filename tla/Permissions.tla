----------------------------- MODULE Permissions -----------------------------
(***************************************************************************)
(* What the rules say of a tool call: the person's rules                   *)
(* (packages/orchestrator/src/rbac.ts), the agent's ordered rules          *)
(* (permissions.ts) and the risk review that stands in for them            *)
(* (gatekeeper.ts).                                                        *)
(*                                                                         *)
(* A call is a tool and its parts: the commands a shell line is made of, or *)
(* the one path or skill another tool is called with.  A pattern is the    *)
(* set of what it matches; how paths and globs are spelled is left out.    *)
(***************************************************************************)
EXTENDS Integers, Sequences, FiniteSets

CONSTANTS Tool,
          Core,       \* tools that bypass every check
          Patterned,  \* tools whose rules may have a pattern: files, shells, skills
          RuleName,   \* the tool names rules are written with
          Covers,     \* Covers[n]: the tools that n stands for besides one called so:
                      \* all for "*", those a prefix fits, an alias's tool, a group's
          Part,
          Every,      \* in place of a pattern: any use of the tool
          NoRules     \* in place of an agent's rules: none are set

ASSUME CoreAssumption == Core \subseteq Tool /\ Patterned \subseteq Tool
ASSUME CoversAssumption == Covers \in [RuleName -> SUBSET Tool]

Action == {"allow", "deny", "ask"}

\* An agent's rule; "on" is a set of parts or Every.
Rule == [action : Action, name : RuleName, on : {Every} \cup SUBSET Part]

\* The tools of a rule: its own, those a prefix fits, an alias's, a group's.
NamesTool(rule, tool) == rule.name = tool \/ tool \in Covers[rule.name]

\* matchGlob(): a pattern is the set of the paths or texts it matches.
OnPart(rule, part) == part \in rule.on

\* resolveUser(): the person who sent the message, with the denies and the
\* exceptions of all of the person's roles, or somebody the configuration does
\* not know.
IsPerson(person) ==
  /\ person.known \in BOOLEAN
  /\ \A rule \in person.deny \cup person.allow :
       rule.name \in RuleName /\ (rule.on = Every \/ rule.on \subseteq Seq(Part))

\* ruleMatches().  A pattern on a tool that takes none never matches.
RuleMatches(rule, tool, part) ==
  /\ NamesTool(rule, tool)
  /\ rule.on = Every \/ (tool \in Patterned /\ OnPart(rule, part))

\* _evaluateRules(): the first rule that matches decides, and with none a person does.
FirstMatch(rules, tool, part) ==
  LET hits == {i \in DOMAIN rules : RuleMatches(rules[i], tool, part)}
  IN  IF hits = {} THEN "ask"
      ELSE rules[CHOOSE i \in hits : \A j \in hits : i <= j].action

\* Mutant: the last command of the line decides.
LastPart(rules, tool, parts) ==
  IF rules = NoRules THEN "allow" ELSE FirstMatch(rules, tool, parts[Len(parts)])

\* evaluateAgentPermissions(): the most restrictive of the parts.
Evaluate(rules, tool, parts) ==
  LET says == {FirstMatch(rules, tool, parts[i]) : i \in DOMAIN parts}
  IN  CASE rules = NoRules -> "allow"
        [] rules # NoRules /\ "deny" \in says -> "deny"
        [] rules # NoRules /\ "deny" \notin says /\ "ask" \in says -> "ask"
        [] OTHER -> "allow"

\* resolveEffectivePermissions(): with the review on, an agent without rules asks.
AskAll == <<[action |-> "ask", name |-> "*", on |-> Every]>>

ASSUME NoRulesAssumption == NoRules # AskAll

Effective(rules, gate) == IF rules = NoRules /\ gate THEN AskAll ELSE rules

\* matchesToolRule(): a person's rule; "on" is a set of whole lines or Every.
UserRuleMatches(rule, tool, parts) ==
  \/ rule.name = "*"
  \/ rule.name = tool /\ (rule.on = Every \/ parts \in rule.on)

\* A person's deny holds unless one of the person's allows excepts the call.
UserDenies(person, tool, parts) ==
  /\ \E rule \in person.deny : UserRuleMatches(rule, tool, parts)
  /\ ~\E rule \in person.allow : UserRuleMatches(rule, tool, parts)

\* buildPreToolUseHook(): "defer" when the agent's own mode decides what nothing is
\* held against.
Hook(person, rules, tool, parts, defers) ==
  CASE ~person.known -> "deny"
    [] person.known /\ tool \in Core -> "allow"
    [] person.known /\ tool \notin Core /\ UserDenies(person, tool, parts) -> "deny"
    [] OTHER -> LET says == Evaluate(rules, tool, parts)
                IN  IF says = "allow" /\ defers THEN "defer" ELSE says

\* shouldAutoApprove(): risks are compared by their order.
Risk == 0..3  \* low, medium, high, critical

Medium == 1   \* what a review that failed counts as

AutoApproved(risk, threshold) == risk <= threshold
==============================================================================
