------------------------------ MODULE MineKernel ------------------------------
(***************************************************************************)
(* mineKernel (gpu_mining.cu) as its threads run it, each at its own pace: *)
(* thread t tries the nonces t, t + stride, t + 2*stride, ... and looks at *)
(* the two flags in mapped memory every CheckEvery rounds.  The first to   *)
(* find a golden nonce swaps the found flag and writes the nonce down.     *)
(***************************************************************************)
EXTENDS Integers, FiniteSets

CONSTANTS Stride,     \* threads of the grid: 8192 * 256 in the code
          MaxNonce,   \* UINT32_MAX
          CheckEvery  \* rounds between two looks at the flags: 64 in the code

VARIABLES
    golden,  \* the nonces that solve the header of this search
    found,   \* *found
    abort,   \* *abortFlag
    result,  \* *resultNonce, 0 when the kernel starts
    pc,      \* where each thread is
    nonce,   \* og_nonce of each thread
    iter,    \* iter % CheckEvery of each thread
    late     \* history: the nonces each has tried in vain since the search was called off

vars == <<golden, found, abort, result, pc, nonce, iter, late>>

ASSUME MineAssumption ==
    /\ Stride \in Nat \ {0} /\ MaxNonce \in Nat /\ CheckEvery \in Nat \ {0}
    /\ 2 * Stride <= MaxNonce

Threads == 0 .. Stride - 1
Words   == 0 .. MaxNonce

Init ==
    /\ golden \in SUBSET Words
    /\ found = FALSE /\ abort = FALSE /\ result = 0
    /\ pc = [t \in Threads |-> "start"]
    /\ nonce = [t \in Threads |-> t]
    /\ iter = [t \in Threads |-> 0]
    /\ late = [t \in Threads |-> 0]

Goto(t, place) == pc' = [pc EXCEPT ![t] = place]

\* The start of a round: the flags are looked at in one of CheckEvery.
NextRound(i) == IF i = 0 THEN "found" ELSE "try"

\* The first look at the found flag; a thread that starts late has no work.
Start(t) ==
    /\ pc[t] = "start"
    /\ Goto(t, IF found THEN "done" ELSE "found")
    /\ UNCHANGED <<golden, found, abort, result, nonce, iter, late>>

\* if (*found == 1 || ...
LookFound(t) ==
    /\ pc[t] = "found"
    /\ Goto(t, IF found THEN "done" ELSE "abort")
    /\ UNCHANGED <<golden, found, abort, result, nonce, iter, late>>

\* Mutant: the abort flag is not looked at.
LookAbortNot(t) ==
    /\ pc[t] = "abort"
    /\ Goto(t, "try")
    /\ UNCHANGED <<golden, found, abort, result, nonce, iter, late>>

\* Mutant: continue, not break.
LookAbortSpin(t) ==
    /\ pc[t] = "abort"
    /\ Goto(t, IF abort THEN "found" ELSE "try")
    /\ UNCHANGED <<golden, found, abort, result, nonce, iter, late>>

\* ... || *abortFlag == 1) break;
LookAbort(t) ==
    /\ pc[t] = "abort"
    /\ Goto(t, IF abort THEN "done" ELSE "try")
    /\ UNCHANGED <<golden, found, abort, result, nonce, iter, late>>

\* Mutant: the end is only noticed when the nonce is past it.
MissWrap(t) ==
    /\ pc[t] = "try" /\ nonce[t] \notin golden
    /\ nonce' = [nonce EXCEPT ![t] = (@ + Stride) % (MaxNonce + 1)]
    /\ iter' = [iter EXCEPT ![t] = (@ + 1) % CheckEvery]
    /\ late' = IF abort THEN [late EXCEPT ![t] = @ + 1] ELSE late
    /\ Goto(t, IF nonce'[t] > MaxNonce THEN "done" ELSE NextRound(iter'[t]))
    /\ UNCHANGED <<golden, found, abort, result>>

\* Mutant: the last round is dropped as well.
MissEarly(t) ==
    /\ pc[t] = "try" /\ nonce[t] \notin golden
    /\ nonce' = [nonce EXCEPT ![t] = @ + Stride]
    /\ iter' = [iter EXCEPT ![t] = (@ + 1) % CheckEvery]
    /\ late' = IF abort THEN [late EXCEPT ![t] = @ + 1] ELSE late
    /\ Goto(t, IF nonce'[t] > MaxNonce - 2 * Stride THEN "done" ELSE NextRound(iter'[t]))
    /\ UNCHANGED <<golden, found, abort, result>>

\* No luck: on to the next nonce of this thread.  The addition is that of
\* 32-bit words.
Miss(t) ==
    /\ pc[t] = "try" /\ nonce[t] \notin golden
    /\ nonce' = [nonce EXCEPT ![t] = (@ + Stride) % (MaxNonce + 1)]
    /\ iter' = [iter EXCEPT ![t] = (@ + 1) % CheckEvery]
    /\ late' = IF abort THEN [late EXCEPT ![t] = @ + 1] ELSE late
    /\ Goto(t, IF nonce'[t] > MaxNonce - Stride THEN "done" ELSE NextRound(iter'[t]))
    /\ UNCHANGED <<golden, found, abort, result>>

\* Mutant: the flag is raised without regard to who raised it before.
HitRaise(t) ==
    /\ pc[t] = "try" /\ nonce[t] \in golden
    /\ found' = TRUE
    /\ Goto(t, "write")
    /\ UNCHANGED <<golden, abort, result, nonce, iter, late>>

\* atomicCAS(found, 0, 1): the one that sees 0 writes its nonce down.
Hit(t) ==
    /\ pc[t] = "try" /\ nonce[t] \in golden
    /\ found' = TRUE
    /\ Goto(t, IF found THEN "done" ELSE "write")
    /\ UNCHANGED <<golden, abort, result, nonce, iter, late>>

\* Mutant: the thread has moved on before it writes.
WriteMoved(t) ==
    /\ pc[t] = "write"
    /\ result' = nonce[t] + Stride
    /\ Goto(t, "done")
    /\ UNCHANGED <<golden, found, abort, nonce, iter, late>>

\* *resultNonce = og_nonce
Write(t) ==
    /\ pc[t] = "write"
    /\ result' = nonce[t]
    /\ Goto(t, "done")
    /\ UNCHANGED <<golden, found, abort, nonce, iter, late>>

Ended == \A t \in Threads : pc[t] = "done"

\* The host, at any time while the stream is busy.
CallOff ==
    /\ ~abort
    /\ abort' = TRUE
    /\ UNCHANGED <<golden, found, result, pc, nonce, iter, late>>

Thread(t) ==
    \/ Start(t) \/ LookFound(t) \/ LookAbort(t)
    \/ Miss(t) \/ Hit(t) \/ Write(t)

Next == CallOff \/ \E t \in Threads : Thread(t)

\* The device runs every block of the grid to its end.
Fairness == \A t \in Threads : WF_vars(Thread(t))

Spec     == Init /\ [][Next]_vars
FairSpec == Spec /\ Fairness

-----------------------------------------------------------------------------
Places == {"start", "found", "abort", "try", "write", "done"}

\* Every variable has the values of its C++ type.
TypeOK ==
    /\ golden \subseteq Words
    /\ found \in BOOLEAN /\ abort \in BOOLEAN
    /\ result \in Words
    /\ pc \in [Threads -> Places]
    /\ nonce \in [Threads -> Words]
    /\ iter \in [Threads -> 0 .. CheckEvery - 1]
    /\ late \in [Threads -> Nat]

\* The host copies the nonce when the stream is idle and the flag is up.  That
\* nonce solves the header: no thread that raised the flag has yet to write,
\* and none wrote after another (finalInputStr in findHashGPU is hashed without
\* a look at the result).
ResultSolves == Ended /\ found => result \in golden

\* "only the first thread to find a valid hash writes the result": when the flag
\* is up and its winner has written, the nonce stays and nobody comes to write,
\* though some may have found theirs before they could see the flag.
FirstKeeps ==
    [][found /\ (\A t \in Threads : pc[t] # "write") =>
        /\ result' = result
        /\ \A t \in Threads : pc'[t] # "write"]_vars

\* "each thread testing a unique nonce": a thread only goes up, through numbers
\* no other thread ever comes to, and the 32-bit addition never wraps: no nonce
\* is hashed twice, by two threads or by one.
EachItsOwn ==
    [][\A t \in Threads : nonce'[t] # nonce[t] =>
        nonce'[t] > nonce[t] /\ nonce'[t] % Stride = t]_vars

\* A kernel that gives up, and was not called off, has left no golden nonce
\* among all but the last stride of the 32-bit words.
GaveUpLate ==
    Ended /\ ~found /\ ~abort => \A n \in golden : n > MaxNonce - Stride

\* A search that was called off is over soon, however many nonces are left: no
\* thread tries more than CheckEvery of them.
SoonOver == \A t \in Threads : late[t] <= CheckEvery

\* The kernel as findHashGPU sees it.
HostView == [state |-> IF Ended THEN "done" ELSE "running",
             found |-> Ended /\ found,
             abort |-> abort]

Search == INSTANCE GpuSearch WITH gpu <- HostView

\* The threads are the search CudaNode has on its stream: in particular they
\* come to an end once they are called off, whatever they find or do not find.
Searches == Search!SearchSpec

\* The same without the promise to end.
SearchesSafely == Search!SearchSafe

=============================================================================
