----------------------------- MODULE MCRpcClient -----------------------------
EXTENDS RpcClient

\* A call with a timeout of two stages (a short timeout is its second stage), one
\* whose required feature the server lacks, and one that waits for ever.
MCTimeout ==
  [c \in Calls |-> IF c = "c1" THEN "long" ELSE "none"]
MCUnsupported == {"c2"}

\* The call with the timeout is the unsupported one: the timer outlives it.
MCUnsupportedTimed == {"c1"}
=============================================================================
