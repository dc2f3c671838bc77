----------------------------- MODULE MCPipeline -----------------------------
(* Small instances of Pipeline. *)
EXTENDS Pipeline

\* A run at the default config, one at a high corrupt_rate, and one whose
\* feed delivered a fraction of the requests.
Healthy   == [readings |-> Readings, requests |-> Requests]
Corrupted == [readings |-> {1}, requests |-> {"a"}]
FewRequests == [readings |-> Readings, requests |-> {"a"}]

MCConfs   == {Healthy, Corrupted, FewRequests}
OnlyHealthy == {Healthy}

=============================================================================
