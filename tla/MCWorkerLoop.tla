---------------------------- MODULE MCWorkerLoop ----------------------------
(* Small instances of WorkerLoop for TLC: one kind of GPU job. *)
EXTENDS WorkerLoop, TLC

GpuOnly  == [j \in Jobs |-> {"gpu"}]
NoModels == [j \in Jobs |-> {}]
AllPlain == [j \in Jobs |-> "plain"]
AllGpu   == [w \in Workers |-> {"gpu"}]

TokenSymmetry == Permutations(Tokens)
Symmetry == Permutations(Tokens) \cup Permutations(Workers) \cup Permutations(Handlers)
=============================================================================
