----------------------------- MODULE CudaRoots -----------------------------
(***************************************************************************)
(* A CUDA node whose getMerkleRootGPU may fail where main makes a header,  *)
(* where addBlock makes it again, and where verifyChainGPU makes one for   *)
(* each block.  It returns an empty string then, which nobody tests: the   *)
(* header goes without its data.                                           *)
(***************************************************************************)
EXTENDS CudaNode

CONSTANT MaxFailures \* bound: calls of getMerkleRootGPU that fail on the main thread

VARIABLES
    failures, \* history: those that failed in this process
    raced     \* history: whether its command line has appended to a chain that a
              \* handler was writing

rootsVars == <<vars, failures, raced>>

ASSUME RootsAssumption == MaxFailures \in Nat

Fails == failures < MaxFailures /\ failures' = failures + 1

\* The header of b without its data.
Bare(b)     == Sha256(b.index, b.previousHash, NoRoot, b.nonce)
Rootless(b) == b.hash = Bare(b)

\* The header was made without a root, and a nonce was found for it.
FoundRootless ==
    /\ Fails
    /\ cli.pc = "sync" /\ gpu.state = "done" /\ gpu.found
    /\ \E n \in Golden : CliMined(Sha256(cli.num, cli.prev, NoRoot, n), n)
    /\ gpu' = GpuIdle
    /\ UNCHANGED <<interrupt, snap, thrown>>

\* Mutant: a header without a root passes for any.
CheckAnything ==
    /\ Fails
    /\ cli.pc = "args" /\ cli.todo = {}
    /\ MeetsTarget(cli.hash) /\ cli.num = Len(chain)
    /\ cli' = [cli EXCEPT !.pc = "push"]
    /\ UNCHANGED <<chain, nodes, srv, seen, cudaVars>>

\* addBlock's own header has no root either, and the hashes agree.  A header that
\* lacks its root when the hash does not is refused: CliCheckError, and CliCheck
\* the other way round.
CheckRootless ==
    /\ Fails
    /\ cli.pc = "args" /\ cli.todo = {}
    /\ Rootless(Mined) /\ MeetsTarget(cli.hash) /\ cli.num = Len(chain)
    /\ cli' = [cli EXCEPT !.pc = "push"]
    /\ UNCHANGED <<chain, nodes, srv, seen, cudaVars>>

\* verifyChainGPU copies the block with a header that lacks its root.
CopyRootless ==
    /\ Fails
    /\ cli.pc = "copy" /\ cli.i < Len(chain)
    /\ \E k \in First(cli.i) : snap' = Append(snap, [chain[k] EXCEPT !.data = NoRoot])
    /\ cli' = [cli EXCEPT !.i = @ + 1]
    /\ UNCHANGED <<chain, nodes, srv, seen, interrupt, gpu, thrown>>

RootsWork ==
    /\ \/ Work /\ UNCHANGED failures
       \/ FoundRootless \/ CheckRootless \/ CopyRootless
    /\ raced' = (raced \/ seen'.broken)

RootsNext ==
    \/ RootsWork
    \/ Restart /\ failures' = 0 /\ raced' = FALSE

RootsInit == Init /\ failures = 0 /\ raced = FALSE

RootsSpec == RootsInit /\ [][RootsNext]_rootsVars /\ Fairness

-----------------------------------------------------------------------------
Among(blocks) == {k \in 2 .. Len(blocks) : blocks[k] # Null /\ Rootless(blocks[k])}

\* A block gets into the chain without being mined only by one failure when its
\* header is made and a second when addBlock makes it again.  Every other block is
\* mined.  It is not sent without a third in verifyChainGPU, as long as getBlock
\* finds every block: after a race two blocks can have one index, of which
\* verifyChainGPU copies the first and toJSON the last.
RootlessIsRare ==
    /\ \A k \in 2 .. Len(chain) : Acceptable(chain[k]) \/ Rootless(chain[k])
    /\ 2 * Cardinality(Among(chain)) <= failures
    /\ cli.pc = "send" /\ Among(cli.json.data) # {} => failures >= 3 \/ raced

=============================================================================
