----------------------------- MODULE MCAgentRun -----------------------------
EXTENDS AgentRun
TwoAtOnce == {<<>>, <<"read", "read">>, <<"malformed", "ask">>, <<"action">>, <<"action", "action">>}
OneAction == {<<>>, <<"action">>}
=============================================================================
