----------------------------- MODULE MCJobQueue -----------------------------
(* Small instances of JobQueue for TLC. *)
EXTENDS JobQueue, TLC

FirstWorker == CHOOSE w \in Workers : TRUE

\* one plain GPU job
GpuOnly     == [j \in Jobs |-> {"gpu"}]
NoModels    == [j \in Jobs |-> {}]
AllPlain    == [j \in Jobs |-> "plain"]
AllEach     == [j \in Jobs |-> "each"]
AllGpu      == [w \in Workers |-> {"gpu"}]

\* the first job needs a model only, so that it is created "queued"
ModelFirst  == [j \in Jobs |-> IF j = 1 THEN {"flux"} ELSE {}]
GpuAfter    == [j \in Jobs |-> IF j = 1 THEN {} ELSE {"gpu"}]

Mixed       == [w \in Workers |-> IF w = FirstWorker THEN {"gpu", "flux"} ELSE {"gpu"}]
OnceFirst    == [j \in Jobs |-> IF j = 1 THEN "once" ELSE "plain"]
OnceThenEach == [j \in Jobs |-> IF j = 1 THEN "once" ELSE "each"]

\* two jobs, keys and cancellations for one lease id, or for two one job without them
Cancels(h) == call[h].new[1].status = "cancelled"
Narrow ==
  \/ \E t \in Tokens : Unused(t)
  \/ /\ job[JobCount].status = "absent"
     /\ \A j \in Jobs : job[j].key = None /\ job[j].status # "cancelled"
     /\ \A h \in Handlers : call[h].phase # "insert" /\ ~Cancels(h)

TokenSymmetry == Permutations(Tokens)
Symmetry == Permutations(Workers) \cup Permutations(Tokens) \cup Permutations(Handlers)
=============================================================================
