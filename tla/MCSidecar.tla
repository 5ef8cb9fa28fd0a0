----------------------------- MODULE MCSidecar -----------------------------
(* Small instances of Sidecar.                                             *)
EXTENDS Sidecar

MCOneCR == {"c1"}
MCPods == {"p1", "p2"}
MCOnePod == {"p1"}
MCProfiles == {"default", "area"}

Pod(inject, name, profile, account) ==
    [inject |-> inject, cr |-> name, profile |-> profile, sa |-> account]

\* With and without the name of a CR; one does not ask for an agent.
MCTemplates ==
    {Pod(TRUE, "", "area", "s1"), Pod(TRUE, "c1", "area", "s2"),
     Pod(FALSE, "c1", "", "default")}
MCNoProfile == {Pod(TRUE, "c1", "", "s1")}

MCAuths == {{"ssh", "knownHosts"}, {"app"}}
MCTwoAuths == {{"ssh", "app"}}

\* Another role; the agent's role for users; a Role of the same name.
MCForeign ==
    {[role |-> "edit", cluster |-> TRUE, subjects |-> {"s1"},
      accounts |-> TRUE],
     [role |-> "stoker-agent", cluster |-> TRUE, subjects |-> {"default"},
      accounts |-> FALSE],
     [role |-> "stoker-agent", cluster |-> FALSE, subjects |-> {"s1"},
      accounts |-> TRUE]}
MCOtherRole == {b \in MCForeign : b.role # AgentRole}
MCNoForeign == {}
=============================================================================
