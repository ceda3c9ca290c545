---------------------------- MODULE MCAgentRuns ----------------------------
(***************************************************************************)
(* Instance of AgentRuns: two callers that share one service, and three     *)
(* tasks, the first and the last of them on the same provider.              *)
(***************************************************************************)
EXTENDS AgentRuns, TLC

CONSTANTS c1, c2, s1, p, q

MCCallers == {c1, c2}
MCServiceOf == (c1 :> s1) @@ (c2 :> s1)
MCProviderOf == <<p, q, p>>

\* A fan-out, a join, and three graphs no plan may have.
Graph(a, b, c) == <<a, b, c>>
FanOut == Graph({2}, {}, {2})
Join == Graph({}, {}, {1, 2})
MCGraphs == {FanOut, Join, Graph({1}, {}, {}), Graph({}, {3}, {2}), Graph({3}, {1}, {2})}

\* The join has batches of two processes: two of them are enough to meet one another.
MCCommandBound == [d \in MCGraphs |-> IF d = Join THEN 2 ELSE 3]
=============================================================================
