----------------------------- MODULE MCAgentLoop -----------------------------
(* Small instances of AgentLoop: a turn resumes nothing, an answered       *)
(* prompt, or an earlier turn with a tool call.                            *)
EXTENDS AgentLoop, TLC

Earlier(id) == <<User, Asks(<<id>>), Tool(id, "output"), Reply>>

ShortHistory == {<<User, Reply>>}
AnyHistory   == {<<>>} \cup {Earlier(id) : id \in CallIds}

Symmetry == Permutations(CallIds)
=============================================================================
