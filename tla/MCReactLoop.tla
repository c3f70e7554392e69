---------------------------- MODULE MCReactLoop ----------------------------
(* The three reference agents with shorter budgets, and the sources that the *)
(* tools of the code cite: every feed of the fixtures names one oracle.      *)
EXTENDS ReactLoop

Agent(thresholdBps, maxSteps, conservative) ==
    [thresholdBps |-> thresholdBps, maxSteps |-> maxSteps,
     requiresTwoSources |-> conservative, abstainOnStale |-> conservative]

MCTemperaments == {Agent(8500, 3, TRUE), Agent(6500, 3, FALSE), Agent(7000, 2, FALSE)}

MCSourcesOf ==
    [t \in ToolName |->
        CASE t \in Feeds                -> {"chainlink"}
          [] t = "query_chain_state"    -> {"mock-chain"}
          [] t = "compute_expected"     -> {"compute"}
          [] t = "cross_check_history"  -> {"attestation-history"}
          [] t = "read_document"        -> {"document-v1", "document-v2"}]

=============================================================================
