---------------------------- MODULE MCAgentLoop ------------------------------
EXTENDS AgentLoop

MCTools == {"reads"}
MCBudget == [reads |-> 2]
=============================================================================
