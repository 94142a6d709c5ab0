---------------------- MODULE MCOrchestrationRun ----------------------
\* Two callers that start runs, sharing a key in some behaviours, and three
\* that resolve sources: two first attempts, one of them bounded or limited to
\* one agent's output, and a retry of what failed.
EXTENDS OrchestrationRun

CONSTANTS r1, r2, p1, p2, p3, a1, a2, a3, k1, k2, q1, q2, q3

OnePrompt == [a \in {a1, a2, a3} |-> IF a = a3 THEN "other" ELSE "main"]
Words == [a \in {a1, a2, a3} |-> 2]
Citations == [a \in {a1, a2, a3} |-> IF a = a1 THEN <<"web", "document">> ELSE <<"web">>]

Run(kind, key, agents, broken, budget) ==
  [kind |-> kind, key |-> key, prompt |-> "main", agents |-> agents,
   broken |-> broken, budget |-> budget]
Limit(n, policy, a) == [limit |-> n, policy |-> policy, agent |-> a, prompt |-> "main"]
Pass(key, bound, eligible, scope) ==
  [kind |-> "pass", run |-> k1, key |-> key, bound |-> bound,
   eligible |-> eligible, scope |-> scope]

Requests == [c \in {r1, r2, p1, p2, p3} |->
  CASE c = r1 -> {Run("multi", k1, <<a1, a2>>, {}, NoBudget),
                  Run("multi", k1, <<a1, a2>>, {a2}, Limit(3, "warn", "any")),
                  Run("single", k1, <<a2>>, {}, Limit(1, "warn", "any"))}
    [] c = r2 -> {Run("single", k1, <<a1>>, {}, NoBudget),
                  Run("single", k2, <<a2>>, {a2}, Limit(9, "hard_stop", a2)),
                  Run("multi", k1, <<a2, a1>>, {}, Limit(3, "hard_stop", "any")),
                  Run("multi", k2, <<a1, a3>>, {}, NoBudget),
                  Run("multi", k2, <<a1>>, {a2}, NoBudget)}
    [] c = p1 -> {Pass(q1, 2, {"proposed"}, "run")}
    [] c = p2 -> {Pass(q1, 1, {"proposed"}, "run"), Pass(q2, 2, {"proposed"}, a1)}
    [] OTHER -> {Pass(q3, 1, {"proposed", "resolution_failed"}, "run"),
                 Pass(q2, 0, {"proposed"}, "run")}]
=============================================================================
