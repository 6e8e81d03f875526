---------------------------- MODULE MCSdkEngine ----------------------------
(* Small instances of the SDK engine: two tasks, under each way to return  *)
(* and to group, with a retry, a second round or a second call each.       *)
EXTENDS SdkEngine, TLC

MCBatch == <<"A", "B">>
MCBounds == {[retry_limit |-> 2, rounds |-> 1, calls |-> 1],
             [retry_limit |-> 1, rounds |-> 2, calls |-> 1],
             [retry_limit |-> 1, rounds |-> 1, calls |-> 2]}
MCReturns == {[views |-> FALSE, grouped |-> FALSE],
              [views |-> FALSE, grouped |-> TRUE],
              [views |-> TRUE, grouped |-> FALSE]}
MCModes == {a @@ b : a \in MCBounds, b \in MCReturns}

=============================================================================
