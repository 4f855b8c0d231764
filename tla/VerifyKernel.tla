----------------------------- MODULE VerifyKernel -----------------------------
(***************************************************************************)
(* verifyChainKernel (gpu_verification.cu) as its threads run it: thread t *)
(* tests records t and t + 1 of the copied chain, unless it sees that some *)
(* other thread has already cleared the flag they all share.               *)
(***************************************************************************)
EXTENDS Integers

CONSTANTS MaxSize,          \* bound: the length of the chains verified
          ThreadsPerBlock   \* 256 in the code

VARIABLES
    size,    \* records copied to the device: blocks of the chain, at least 2
    valid,   \* whether record p + 1 is a valid successor of record p
    result,  \* *d_result
    place    \* where each thread is

verifyVars == <<size, valid, result, place>>

ASSUME VerifyAssumption == MaxSize \in Nat /\ ThreadsPerBlock \in Nat \ {0}

PairsOf(n) == 0 .. n - 2

\* Mutant: a last block that is not full is not launched.
BlocksFull(n) == n \div ThreadsPerBlock

\* Enough blocks of the grid for one thread per record.
Blocks(n) == (n + ThreadsPerBlock - 1) \div ThreadsPerBlock

Threads(n) == 0 .. Blocks(n) * ThreadsPerBlock - 1

\* The copy of a chain that verifyChainGPU hands over, and the launch.
VerifyInit ==
    /\ size \in 2 .. MaxSize
    /\ valid \in [PairsOf(size) -> BOOLEAN]
    /\ result = 1
    /\ place = [t \in Threads(size) |-> "start"]

Goto(t, to) == place' = [place EXCEPT ![t] = to]

\* A thread past the last pair, or too late to add anything: nothing to do.
Leave(t) ==
    /\ place[t] = "start"
    /\ t >= size - 1 \/ result = 0
    /\ Goto(t, "done")
    /\ UNCHANGED <<size, valid, result>>

\* atomicAdd(result, 0) still reads 1.
Enter(t) ==
    /\ place[t] = "start"
    /\ t < size - 1 /\ result # 0
    /\ Goto(t, "test")
    /\ UNCHANGED <<size, valid, result>>

\* The hash of the header, and the three comparisons.
Test(t) ==
    /\ place[t] = "test"
    /\ Goto(t, IF valid[t] THEN "done" ELSE "fail")
    /\ UNCHANGED <<size, valid, result>>

\* Mutant: the thread toggles the flag.
ClearToggle(t) ==
    /\ place[t] = "fail"
    /\ result' = 1 - result
    /\ Goto(t, "done")
    /\ UNCHANGED <<size, valid>>

\* atomicExch(result, 0)
Clear(t) ==
    /\ place[t] = "fail"
    /\ result' = 0
    /\ Goto(t, "done")
    /\ UNCHANGED <<size, valid>>

Thread(t) == Leave(t) \/ Enter(t) \/ Test(t) \/ Clear(t)

VerifyNext == \E t \in Threads(size) : Thread(t)

\* runVerifyKernel waits for the device: every thread has run.
Ended == \A t \in Threads(size) : place[t] = "done"

VerifySpec == VerifyInit /\ [][VerifyNext]_verifyVars

-----------------------------------------------------------------------------
\* Every variable has the values of its C++ type, for a chain of at least two blocks.
VerifyTypeOK ==
    /\ size \in Nat /\ size >= 2
    /\ valid \in [PairsOf(size) -> BOOLEAN]
    /\ result \in {0, 1}
    /\ place \in [Threads(size) -> {"start", "test", "fail", "done"}]

\* The verdict runVerifyKernel reads after cudaDeviceSynchronize is that of all
\* pairs, although threads that come late test nothing and others clear the
\* flag several times.
VerdictExact ==
    Ended => (result = 1 <=> \A p \in PairsOf(size) : valid[p])

\* "it uses atomicExch to instantly signal a global failure flag": the flag only
\* ever goes down, and only for a pair that is not valid.
NoFalseAlarm ==
    [][result' # result => result' = 0 /\ \E p \in PairsOf(size) : ~valid[p]]_verifyVars

=============================================================================
