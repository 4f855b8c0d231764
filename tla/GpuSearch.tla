------------------------------ MODULE GpuSearch ------------------------------
(***************************************************************************)
(* What findHashGPU relies on mineKernel for: a search that runs until it  *)
(* has found a nonce, was called off, or has nothing left to try.  The     *)
(* host sees the kernel end, the found flag, and owns the abort flag.      *)
(* CudaNode uses these steps; MineKernel, the threads, implements them.    *)
(***************************************************************************)
VARIABLE gpu  \* the kernel on the stream, and the two mapped flags

GpuIdle == [state |-> "idle", found |-> FALSE, abort |-> FALSE]
GpuRun  == [state |-> "running", found |-> FALSE, abort |-> FALSE]

GpuEnd(found) ==
    /\ gpu.state = "running"
    /\ gpu' = [state |-> "done", found |-> found, abort |-> gpu.abort]

\* A thread has a golden nonce and wins the atomicCAS.
GpuFind == GpuEnd(TRUE)

\* The threads see the abort flag at the next multiple of 64 rounds.
GpuAbort == gpu.abort /\ GpuEnd(FALSE)

\* Every thread has come to the end of its 32-bit nonces.
GpuExhausted == GpuEnd(FALSE)

\* h_flags_mapped[1] = 1, once the interrupt has been seen.
GpuCallOff ==
    /\ gpu.state \in {"running", "done"}
    /\ gpu' = [state |-> gpu.state, found |-> gpu.found, abort |-> TRUE]

-----------------------------------------------------------------------------
\* One search by itself.  A kernel that was told to stop does; nothing is said
\* of how soon a search that goes on finds its nonce.
SearchNext == GpuFind \/ GpuAbort \/ GpuExhausted \/ GpuCallOff

SearchSafe == gpu = GpuRun /\ [][SearchNext]_gpu
SearchSpec == SearchSafe /\ WF_gpu(GpuAbort)

=============================================================================
