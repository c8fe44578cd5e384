----------------------------- MODULE MCWriteBehind -----------------------------
(***************************************************************************)
(* A small write-behind worker for TLC: a bounded number of writes, and of *)
(* stores that fail in a row.                                              *)
(***************************************************************************)
EXTENDS WriteBehind

CONSTANTS MaxAccepted,       \* no more writes are begun once this many are
          MaxFailedStores,   \* stores that fail in a row
          SomeKey, SomeResponse

\* Two responses for one key, one for every other: enough to tell orders apart.
MCWrites == {w \in Writes : w.key = SomeKey \/ w.response = SomeResponse}

MCPut(t, w) == Len(accepted) < MaxAccepted /\ Put(t, w)

MCStoreFails == failures < MaxFailedStores /\ StoreFails

MCWorkerStep == Get \/ GetTimesOut \/ StoreSucceeds \/ MCStoreFails \/ SleepEnds

MCWriterNext ==
    \/ \E t \in SetTasks : PutResumes(t) \/ \E w \in MCWrites : MCPut(t, w)
    \/ MCWorkerStep
    \/ Close \/ CloseSwallowed
    \/ WriterTick

MCWriterSpec == WriterInit /\ [][MCWriterNext]_writerVars
=============================================================================
