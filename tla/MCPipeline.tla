----------------------------- MODULE MCPipeline -----------------------------
\* The pipeline with its constants given here and by the configuration.
EXTENDS Pipeline, TLC

MCTraffic ==
  {[route |-> route, size |-> 0, declared |-> TRUE] : route \in {"probe", "unmatched", "preflight"}}
    \cup {[route |-> "open", size |-> 3, declared |-> FALSE],
          [route |-> "api", size |-> 2, declared |-> TRUE]}

Symmetry == Permutations(Requests)
=============================================================================
