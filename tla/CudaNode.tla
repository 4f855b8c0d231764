------------------------------ MODULE CudaNode ------------------------------
(***************************************************************************)
(* A node of the CUDA implementation (src/cuda-implementation): the        *)
(* threads of Node, with the search for a nonce run by a kernel that the   *)
(* main thread polls, the interrupt flag by which the server thread calls  *)
(* a stale search off, and verifyChainGPU before the chain is sent.        *)
(***************************************************************************)
EXTENDS Node, GpuSearch

CONSTANT CudaErrors \* whether a CUDA call of findHashGPU, addBlock or
                    \* runVerifyKernel may fail

VARIABLES
    interrupt,  \* networkInterrupt
    snap,       \* h_blockChain: the copy verifyChainGPU makes of the chain
    thrown      \* history: a replacement left through its exception since the
                \* flag was last lowered

cudaVars == <<interrupt, gpu, snap, thrown>>
vars     == <<nodeVars, cudaVars>>

ASSUME CudaAssumption == CudaErrors \in BOOLEAN

\* A step of Node that leaves what CUDA adds alone.
Common(A) == A /\ UNCHANGED cudaVars

-----------------------------------------------------------------------------
(* findHashGPU, as the main thread runs it. *)

\* networkInterrupt.store(false), before the header is read.
CliReset ==
    /\ cli.pc = "reset"
    /\ cli' = [cli EXCEPT !.pc = "header"]
    /\ interrupt' = FALSE
    /\ thrown' = FALSE
    /\ UNCHANGED <<chain, nodes, srv, seen, gpu, snap>>

\* Mutant: the flag is lowered again when the kernel is launched.
CliLaunchReset ==
    /\ cli.pc = "header" /\ cli.todo = {}
    /\ cli' = [cli EXCEPT !.pc = "query"]
    /\ gpu' = GpuRun
    /\ interrupt' = FALSE
    /\ UNCHANGED <<chain, nodes, srv, seen, snap, thrown>>

CliLaunch ==
    /\ cli.pc = "header" /\ cli.todo = {}
    /\ cli' = [cli EXCEPT !.pc = "query"]
    /\ gpu' = GpuRun
    /\ UNCHANGED <<chain, nodes, srv, seen, interrupt, snap, thrown>>

\* cudaStreamQuery, and ten milliseconds of sleep while it says not ready.
CliQuery ==
    /\ cli.pc = "query"
    /\ cli' = [cli EXCEPT !.pc = IF gpu.state = "running" THEN "poll" ELSE "sync"]
    /\ UNCHANGED <<chain, nodes, srv, seen, interrupt, gpu, snap, thrown>>

\* Mutant: the loop is left without a word to the kernel.
CliPollSilent ==
    /\ cli.pc = "poll"
    /\ cli' = [cli EXCEPT !.pc = IF interrupt THEN "sync" ELSE "query"]
    /\ UNCHANGED <<chain, nodes, srv, seen, cudaVars>>

\* cancelFlag->load(): "Network provided a newer chain"
CliPoll ==
    /\ cli.pc = "poll"
    /\ cli' = [cli EXCEPT !.pc = IF interrupt THEN "sync" ELSE "query"]
    /\ IF interrupt THEN GpuCallOff ELSE UNCHANGED gpu
    /\ UNCHANGED <<chain, nodes, srv, seen, interrupt, snap, thrown>>

\* cudaStreamSynchronize: the kernel has ended.  A nonce it found counts, even
\* if the search was called off in the meantime.
CliFound ==
    /\ cli.pc = "sync" /\ gpu.state = "done" /\ gpu.found
    /\ \E n \in Golden : CliMined(Sha256(cli.num, cli.prev, cli.data, n), n)
    /\ gpu' = GpuIdle
    /\ UNCHANGED <<interrupt, snap, thrown>>

\* ("fail", "fail"): the command does nothing more.
CliFail ==
    /\ cli.pc = "sync" /\ gpu.state = "done" /\ ~gpu.found
    /\ CliMenu
    /\ gpu' = GpuIdle
    /\ UNCHANGED <<interrupt, snap, thrown>>

\* A CUDA call fails: findHashGPU returns two empty strings, which are not
\* "fail", and the command goes on with them.
CliSearchError ==
    /\ CudaErrors
    /\ \/ cli.pc = "header" /\ cli.todo = {}
       \/ cli.pc = "sync" /\ gpu.state = "done"
    /\ CliMined(NoHash, NoNonce)
    /\ gpu' = GpuIdle
    /\ UNCHANGED <<interrupt, snap, thrown>>

\* getMerkleRootGPU fails in addBlock: the header does not match the hash.
CliCheckError ==
    /\ CudaErrors
    /\ cli.pc = "args" /\ cli.todo = {}
    /\ cli' = [Fresh EXCEPT !.pc = "verify"]
    /\ seen' = [Calm EXCEPT !.broken = seen.broken]
    /\ UNCHANGED <<chain, nodes, srv, cudaVars>>

SrvOfferError ==
    /\ CudaErrors
    /\ srv.pc = "add" /\ srv.i < srv.content.length
    /\ Entry(srv.content, srv.i) # Null
    /\ srv' = [srv EXCEPT !.i = @ + 1]
    /\ UNCHANGED <<chain, nodes, cli, seen, cudaVars>>

-----------------------------------------------------------------------------
(* mineKernel: the steps of GpuSearch, which its threads implement (MineKernel). *)

Kernel(A) == A /\ UNCHANGED <<nodeVars, interrupt, snap, thrown>>

-----------------------------------------------------------------------------
(* verifyChainGPU *)

\* A block as it is copied: the merkle root stands for its data.
Copied ==
    [index : Nat, previousHash : Hash, hash : Hash, nonce : Nonces, data : Payload \cup {NoRoot}]

CliVerifyShort ==
    /\ cli.pc = "verify" /\ Len(chain) < 2
    /\ cli' = [cli EXCEPT !.pc = "length"]
    /\ UNCHANGED <<chain, nodes, srv, seen, cudaVars>>

CliVerifyLong ==
    /\ cli.pc = "verify" /\ Len(chain) >= 2
    /\ cli' = [cli EXCEPT !.pc = "copy", !.i = 0]
    /\ UNCHANGED <<chain, nodes, srv, seen, cudaVars>>

\* The places at which getBlock(index) finds a block; it returns the first.
Holding(index) == {k \in 1 .. Len(chain) : chain[k].index = index}
First(index)   == {k \in Holding(index) : \A l \in Holding(index) : k <= l}

CliCopy ==
    /\ cli.pc = "copy" /\ cli.i < Len(chain)
    /\ \E k \in First(cli.i) : snap' = Append(snap, chain[k])
    /\ cli' = [cli EXCEPT !.i = @ + 1]
    /\ UNCHANGED <<chain, nodes, srv, seen, interrupt, gpu, thrown>>

\* getBlock throws, the command ends
CliCopyThrow ==
    /\ cli.pc = "copy" /\ cli.i < Len(chain)
    /\ Holding(cli.i) = {}
    /\ CliMenu
    /\ snap' = <<>>
    /\ UNCHANGED <<interrupt, gpu, thrown>>

\* verifyChainKernel: what the thread of a pair of neighbours tests ...
PairValid(previous, current) ==
    /\ current.index = previous.index + 1
    /\ current.previousHash = previous.hash
    /\ HeaderMatches(current)

\* ... and what is left in the flag they share.
SnapValid == \A k \in 1 .. Len(snap) - 1 : PairValid(snap[k], snap[k + 1])

CliValid ==
    /\ cli.pc = "copy" /\ cli.i >= Len(chain)
    /\ SnapValid
    /\ cli' = [cli EXCEPT !.pc = "length", !.i = 0]
    /\ snap' = <<>>
    /\ UNCHANGED <<chain, nodes, srv, seen, interrupt, gpu, thrown>>

\* "InValid Blockchain Not Sent"; a CUDA error gives the same answer.
CliInvalid ==
    /\ cli.pc = "copy" /\ cli.i >= Len(chain)
    /\ ~SnapValid \/ CudaErrors
    /\ CliMenu
    /\ snap' = <<>>
    /\ UNCHANGED <<interrupt, gpu, thrown>>

-----------------------------------------------------------------------------
\* replaceChain has returned: any search going on is stale.
SrvInterrupt ==
    /\ SrvReplaced
    /\ interrupt' = TRUE
    /\ UNCHANGED <<gpu, snap, thrown>>

\* The handler's other steps.  SrvThrow is the only one that ends a replacement:
\* it leaves past the store above.
SrvHandle ==
    /\ SrvShared
    /\ thrown' = (thrown \/ (srv.pc = "add" /\ srv'.pc = "idle"))
    /\ UNCHANGED <<interrupt, gpu, snap>>

CliSearch == CliReset \/ CliLaunch \/ CliQuery \/ CliPoll \/ CliFound \/ CliFail

CliNext ==
    \/ Common(CliShared \/ CliCheck("verify") \/ CliPush("verify"))
    \/ CliSearch \/ CliSearchError \/ CliCheckError
    \/ CliVerifyShort \/ CliVerifyLong \/ CliCopy \/ CliCopyThrow
    \/ CliValid \/ CliInvalid

SrvNext == SrvHandle \/ SrvOfferError \/ SrvInterrupt

\* No CUDA call fails while the process starts.
Init == NodeInit /\ interrupt = FALSE /\ gpu = GpuIdle /\ snap = <<>> /\ thrown = FALSE

Restart ==
    NodeRestart /\ interrupt' = FALSE /\ gpu' = GpuIdle /\ snap' = <<>> /\ thrown' = FALSE

\* The life of a process.
Work ==
    \/ \E d \in Data : Common(CliBegin(d, "reset"))
    \/ CliNext
    \/ Common(SrvRequest)
    \/ SrvNext
    \/ Common(Collide("verify"))
    \/ Kernel(GpuFind) \/ Kernel(GpuAbort) \/ Kernel(GpuExhausted)

Next == Work \/ Restart

\* Both threads run, and a kernel that was told to stop does (MineKernel!Searches).
\* Nothing is said of how soon a search that goes on finds its nonce.
Fairness == WF_vars(CliNext) /\ WF_vars(SrvNext) /\ WF_vars(Kernel(GpuAbort))

Spec     == Init /\ [][Next]_vars
FairSpec == Spec /\ Fairness

-----------------------------------------------------------------------------
CudaPcs == CliPcs \cup {"reset", "query", "poll", "sync", "copy"}

TypeOK ==
    /\ NodeTypeOK(CudaPcs)
    /\ interrupt \in BOOLEAN
    /\ gpu \in [state : {"idle", "running", "done"}, found : BOOLEAN, abort : BOOLEAN]
    /\ snap \in Seq(Copied)
    /\ thrown \in BOOLEAN

Searching == cli.pc \in {"query", "poll", "sync"}

\* The header the kernel works on is that of the block that comes next.
HeaderCurrent == cli.num = Len(chain) /\ cli.prev = chain[Len(chain)].hash

\* Once the handler has answered, a search whose header it made stale is
\* flagged: the flag is lowered before the header is read, and raised after the
\* chain is written.  The one way past is the exception of a torn document.
StaleIsFlagged ==
    Searching /\ srv.pc = "idle" => HeaderCurrent \/ interrupt \/ thrown

\* A search that the network interrupts ends, found or not, though the kernel
\* might never find a nonce.
InterruptEndsSearch == (Searching /\ interrupt) ~> ~Searching

\* What the README says of the node: no chain corruption.
ChainLinked == Linked(chain)

=============================================================================
