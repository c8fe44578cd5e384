------------------------------- MODULE MCServing -------------------------------
(***************************************************************************)
(* The proxy ("proxy") and the writer of its answers ("writer"), side by   *)
(* side for TLC.  They share no state: Init chooses the one a behaviour is *)
(* about, and the other stands still.                                      *)
(***************************************************************************)
EXTENDS MCProxyHandler, MCWriteBehind

VARIABLE side

\* Where the writer is chosen, one state of Ollama is enough.
ServingInit ==
    /\ side \in {"proxy", "writer"}
    /\ Init /\ WriterInit
    /\ side = "writer" => ollama = "up"

ServingNext ==
    /\ \/ side = "proxy" /\ MCNext /\ UNCHANGED writerVars
       \/ side = "writer" /\ MCWriterNext /\ UNCHANGED vars
    /\ UNCHANGED side

\* WriteBehind's fairness, within the bounds.  What is fair of the proxy is not
\* enabled in its initial state.
WritingFairness ==
    /\ WF_writerVars(side = "writer" /\ MCWorkerStep)
    /\ WF_writerVars(side = "writer" /\ WriterTick)
    /\ \A t \in SetTasks : WF_writerVars(side = "writer" /\ PutResumes(t))

ServingSpec ==
    /\ ServingInit /\ [][ServingNext]_<<side, vars, writerVars>>
    /\ Fairness /\ WritingFairness
=============================================================================
