----------------------------- MODULE MCSandbox -----------------------------
(* Both kinds of sandbox in one instance: transport says which one runs.   *)
EXTENDS WorkerSandbox, InlineSandbox

CONSTANT InlineOnly   \* bound: operations that are not used with a worker

VARIABLE transport

MCInit == Init /\ transport \in {"inline", "worker"}

MCNext ==
    /\ \/ transport = "inline" /\ InlineNext /\ UNCHANGED workerVars
       \/ transport = "worker" /\ Next /\ \A o \in InlineOnly : outcome'[o] = "new"
    /\ UNCHANGED transport

(* Without a worker nothing is ever received, and the rest of Fairness is  *)
(* that of InlineSandbox.                                                  *)
MCSpec == MCInit /\ [][MCNext]_<<vars, transport>> /\ Fairness
-----------------------------------------------------------------------------
(* Between the two ends of a worker's channels no request is lost, and no  *)
(* answer is sent twice (connectWorker, serveWorker).                      *)
WorkerRequestsTravelOnce == transport = "worker" => RequestsTravelOnce
=============================================================================
