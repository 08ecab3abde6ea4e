---------------------------- MODULE MCToolCalls ----------------------------
(* A shell, the host's shell, a core tool and a question; two commands. *)
EXTENDS ToolCalls

CONSTANTS c1, c2

MCCovers == [n \in {"*", "Bash", "host"} |->
               CASE n = "*" -> {"core", "Bash", "host", "ask"} [] OTHER -> {}]

MCLine(tool, parts) == [tool |-> tool, parts |-> parts]

MCInvocation == {MCLine("Bash", <<"ls">>), MCLine("Bash", <<"rm", "ls">>),
                 MCLine("host", <<"ls">>), MCLine("core", <<"ls">>), MCLine("ask", <<"ls">>)}

MCRule(action, name, on) == [action |-> action, name |-> name, on |-> on]

MCAnyone == [known |-> TRUE, deny |-> {}, allow |-> {}]
MCGuest == [known |-> TRUE, deny |-> {[name |-> "*", on |-> Every]},
            allow |-> {[name |-> "Bash", on |-> {<<"ls">>}]}]

MCPolicy(person, rules, gate, defers, place) ==
  [person |-> person, rules |-> rules, gate |-> gate, threshold |-> 1, defers |-> defers, place |-> place]

MCHostRules == <<MCRule("deny", "Bash", {"rm"}), MCRule("allow", "Bash", Every), MCRule("ask", "host", Every)>>

MCPolicies ==
  { MCPolicy([MCAnyone EXCEPT !.known = FALSE], NoRules, FALSE, FALSE, "app"),
    MCPolicy(MCGuest, NoRules, FALSE, FALSE, "none"),
    MCPolicy(MCAnyone, NoRules, TRUE, FALSE, "app"),
    MCPolicy(MCAnyone, MCHostRules, FALSE, FALSE, "discord"),
    MCPolicy(MCAnyone, <<MCRule("deny", "*", {"rm"})>>, FALSE, FALSE, "none"),
    MCPolicy(MCAnyone, NoRules, FALSE, TRUE, "discord") }
============================================================================
