---------------------------- MODULE MCSimulator -----------------------------
(* The earlier simulator on two or three pods and the pages of SmallTrie.  *)
EXTENDS Summary, SmallTrie

MCMode ==
    {[routing |-> x[1], action |-> x[2], noEvict |-> x[3], strategy |-> x[4]] :
        x \in {<<"R_AFF", "MOVE_SAFE", FALSE, "RECENCY">>, <<"R_LEAST", "COPY", TRUE, "COST_AWARE">>,
               <<"R_REQ_KV_SIMPLE", "NONE", FALSE, "PERSIST">>, <<"R_REQ_KV", "COPY", FALSE, "PERSIST">>,
               <<"R_REQ_KV_TASK", "MOVE_SAFE", FALSE, "PERSIST">>,
               <<"R_REACTIVE_ECT_V1", "COPY", FALSE, "PERSIST">>}}

\* Long paths weigh more, an arrival half as much after every two ticks.
MCTaskWeight == <<2, 3>>
MCDecay == [t \in 0 .. 16 |-> 2 ^ (8 - t \div 2)]
=============================================================================
