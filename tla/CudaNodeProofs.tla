--------------------------- MODULE CudaNodeProofs ---------------------------
(***************************************************************************)
(* Safety of the CUDA node, for any messages, documents, ports and bounds, *)
(* with CUDA calls that fail or not, those for the merkle roots included.  *)
(***************************************************************************)
EXTENDS CudaRoots, NodeProofs, FiniteSetTheorems

GpuType == [state : {"idle", "running", "done"}, found : BOOLEAN, abort : BOOLEAN]

\* What CUDA adds to the memory of a node.
OwnInv ==
    /\ interrupt \in BOOLEAN
    /\ gpu \in GpuType
    /\ snap \in Seq(Copied)
    /\ thrown \in BOOLEAN

Inv == NodeInv(CudaPcs) /\ OwnInv

Replacing == srv.pc \in {"pop", "add", "push", "replaced"}

\* StaleIsFlagged is not inductive: a header is read in two steps before the search
\* begins, and the chain is written in many before the flag is raised.
HeaderInv ==
    /\ cli.pc = "reset" => cli.todo = Reads
    /\ Searching => cli.todo = {}
    /\ Searching \/ cli.pc = "header" => Replacing \/ interrupt \/ thrown \/ ReadsCurrent

\* The steps of the search and of verifyChainGPU that only move the command on.
CliMoves == CliReset \/ CliLaunch \/ CliQuery \/ CliPoll \/ CliVerifyShort \/ CliVerifyLong
            \/ CliCopy \/ CliValid \/ CopyRootless

\* Those that end the search with a hash, found or not.
CliEnds == CliFound \/ CliSearchError \/ FoundRootless

\* What both specifications may do to a node: CudaNode, and CudaRoots on top of it.
Step == Next \/ FoundRootless \/ CheckRootless \/ CopyRootless

\* The hash was made of a header without its data.
Bareheaded(hash) == hash # NoHash /\ hash[Len(hash)][2] = NoRoot

-----------------------------------------------------------------------------
\* The places of the CUDA command line, by what they promise.
LEMMA CudaPlaces ==
    /\ CliPcs \subseteq CudaPcs
    /\ {"reset", "header", "query", "poll", "sync"} \subseteq Before(CudaPcs)
    /\ {"length", "copy", "verify", "menu"} \subseteq NoBlock \cap CudaPcs
BY DEF CudaPcs, CliPcs, Before, NoBlock

\* The hash of a header without its data is a hash, and not one of a header with.
LEMMA BareFacts ==
    ASSUME NEW i \in Nat, NEW h \in Hash, NEW n \in Nonces
    PROVE  /\ Sha256(i, h, NoRoot, n) \in Hash
           /\ Bareheaded(Sha256(i, h, NoRoot, n))
           /\ \A d \in Payload : ~Bareheaded(Sha256(i, h, d, n))
<1>1. h \in Seq(Nat \X (Payload \cup {NoRoot}) \X Nonces)
    BY DEF Hash
<1>2. ASSUME NEW d \in Payload \cup {NoRoot}
      PROVE  /\ Sha256(i, h, d, n) \in Hash
             /\ Sha256(i, h, d, n) # NoHash
             /\ Sha256(i, h, d, n)[Len(Sha256(i, h, d, n))][2] = d
    <2> DEFINE e == <<i, d, n>>
    <2>1. e \in Nat \X (Payload \cup {NoRoot}) \X Nonces /\ e[2] = d
        OBVIOUS
    <2>2. /\ Append(h, e) \in Seq(Nat \X (Payload \cup {NoRoot}) \X Nonces)
          /\ Append(h, e) # <<>> /\ Append(h, e)[Len(Append(h, e))] = e
        BY <1>1, <2>1, AppendProperties
    <2> QED
        BY <2>1, <2>2 DEF Sha256, Hash, NoHash
<1> QED
    BY <1>2, ChainAssumption DEF Bareheaded

\* A step of the CUDA node is a shared step, one of its own, or no step of a node.
LEMMA CudaNext ==
    ASSUME Next
    PROVE  \/ SharedNext(CudaPcs)
           \/ CliReset \/ CliLaunch \/ CliQuery \/ CliPoll
           \/ CliVerifyShort \/ CliVerifyLong \/ CliCopy \/ CliValid
           \/ CliFound \/ CliSearchError
           \/ CliCheckError \/ SrvOfferError \/ UNCHANGED nodeVars
<1>1. CASE CliNext
    BY <1>1 DEF CliNext, CliSearch, CliFail, CliCopyThrow, CliInvalid, Common, SharedNext
<1>2. CASE SrvNext \/ Common(SrvRequest) \/ Common(Collide("verify"))
    BY <1>2 DEF SrvNext, SrvHandle, SrvInterrupt, Common, SharedNext
<1>3. CASE \E d \in Data : Common(CliBegin(d, "reset"))
    BY <1>3, CudaPlaces DEF Common, SharedNext
<1>4. CASE Kernel(GpuFind) \/ Kernel(GpuAbort) \/ Kernel(GpuExhausted)
    BY <1>4 DEF Kernel
<1>5. CASE Restart
    BY <1>5 DEF Restart, SharedNext
<1> QED
    BY <1>1, <1>2, <1>3, <1>4, <1>5 DEF Next, Work

\* With roots that may be missing, addBlock has one more way to accept.
LEMMA StepCases ==
    ASSUME Step
    PROVE  \/ SharedNext(CudaPcs) \/ CliMoves \/ CliEnds
           \/ CliCheckError \/ CheckRootless \/ SrvOfferError \/ UNCHANGED nodeVars
BY CudaNext DEF Step, CliMoves, CliEnds

\* The steps that move the command on.
LEMMA MovesInv ==
    ASSUME NodeInv(CudaPcs), CliMoves
    PROVE  NodeInv(CudaPcs)'
<1>1. cli \in CliLocals(CudaPcs) /\ cli.i \in Nat
    BY DEF NodeInv, CliInv, CliLocals
<1>2. /\ cli' \in CliLocals(CudaPcs) /\ cli'.data = cli.data
      /\ cli'.pc \notin {"args", "push"}
      /\ cli.pc \in NoBlock => cli'.pc \in NoBlock
    <2>1. CASE CliReset
        <3>1. cli.pc = "reset" /\ cli' = [cli EXCEPT !.pc = "header"]
            BY <2>1, Zenon DEF CliReset
        <3> QED
            BY <1>1, <3>1, CudaPlaces DEF CliLocals, Before, NoBlock
    <2>7. CASE CliLaunch
        BY <1>1, <2>7 DEF CliLaunch, CliLocals, CudaPcs, NoBlock
    <2>2. CASE CliQuery
        BY <1>1, <2>2 DEF CliQuery, CliLocals, CudaPcs, NoBlock
    <2>3. CASE CliPoll
        BY <1>1, <2>3 DEF CliPoll, CliLocals, CudaPcs, NoBlock
    <2>4. CASE CliVerifyShort
        BY <1>1, <2>4, CudaPlaces DEF CliVerifyShort, CliLocals, NoBlock
    <2>8. CASE CliVerifyLong
        BY <1>1, <2>8, CudaPlaces DEF CliVerifyLong, CliLocals, NoBlock
    <2>5. CASE CliCopy \/ CopyRootless
        BY <1>1, <2>5 DEF CliCopy, CopyRootless, CliLocals, NoBlock
    <2>6. CASE CliValid
        BY <1>1, <2>6 DEF CliValid, CliLocals, CudaPcs, CliPcs, NoBlock
    <2> QED
        BY <2>1, <2>2, <2>3, <2>4, <2>5, <2>6, <2>7, <2>8 DEF CliMoves
<1>3. CliInv(CudaPcs)'
    <2>1. cli'.pc \notin NoBlock => cli'.data \in Data
        BY <1>2 DEF NodeInv, CliInv
    <2> QED
        BY <1>1, <1>2, <2>1 DEF CliInv
<1>4. UNCHANGED <<chain, nodes, srv, seen>>
    BY DEF CliMoves, CliReset, CliLaunch, CliQuery, CliPoll, CliVerifyShort, CliVerifyLong,
           CliCopy, CliValid, CopyRootless
<1> QED
    BY <1>3, <1>4, OtherThread DEF NodeInv

\* A search ends with a hash and a nonce, if only empty ones.
LEMMA EndsFacts ==
    ASSUME NodeInv(CudaPcs), CliEnds
    PROVE  cli.pc \notin NoBlock /\ \E h \in Hash, n \in Nonces : CliMined(h, n)
<1>1. /\ cli.num \in Nat /\ cli.prev \in Hash /\ cli.data \in Payload /\ cli.pc \notin NoBlock
    BY DEF NodeInv, CliInv, CliLocals, NoBlock, Payload, CliEnds, CliFound, CliSearchError,
           FoundRootless
<1>2. CASE CliFound
    <2>1. PICK n \in Golden : CliMined(Sha256(cli.num, cli.prev, cli.data, n), n)
        BY <1>2 DEF CliFound
    <2>2. n \in Nonces
        BY DEF Nonces
    <2> QED
        BY <1>1, <2>1, <2>2, Sha256Facts
<1>3. CASE CliSearchError
    <2>1. NoHash \in Hash /\ NoNonce \in Nonces
        BY EmptySeq DEF NoHash, Hash, Nonces
    <2> QED
        BY <1>1, <1>3, <2>1 DEF CliSearchError
<1>4. CASE FoundRootless
    <2>1. PICK n \in Golden : CliMined(Sha256(cli.num, cli.prev, NoRoot, n), n)
        BY <1>4 DEF FoundRootless
    <2>2. n \in Nonces
        BY DEF Nonces
    <2> QED
        BY <1>1, <2>1, <2>2, BareFacts
<1> QED
    BY <1>2, <1>3, <1>4 DEF CliEnds

\* The arguments of addBlock come next.
LEMMA EndsInv ==
    ASSUME NodeInv(CudaPcs), CliEnds
    PROVE  NodeInv(CudaPcs)'
BY EndsFacts, SearchInv, CudaPlaces

\* addBlock without a merkle root refuses, on either thread, unless the hash was
\* made without one.
LEMMA ErrorsInv ==
    ASSUME NodeInv(CudaPcs), CliCheckError \/ CheckRootless \/ SrvOfferError
    PROVE  NodeInv(CudaPcs)'
<1>1. CASE CliCheckError
    <2>1. CliInv(CudaPcs)'
        BY <1>1, FreshLocals, CudaPlaces DEF CliCheckError
    <2>2. seen' \in [quiet : BOOLEAN, stable : BOOLEAN, broken : BOOLEAN]
        BY <1>1 DEF CliCheckError, Calm, NodeInv
    <2> QED
        BY <1>1, <2>1, <2>2, OtherThread DEF CliCheckError, NodeInv
<1>2. CASE SrvOfferError
    <2>1. srv \in SrvLocals /\ srv.i + 1 \in Nat /\ srv.i >= 1 /\ srv.pc = "add"
        BY <1>2 DEF SrvOfferError, NodeInv, SrvInv, SrvLocals, Refilling
    <2>2. /\ srv' \in SrvLocals /\ srv'.pc = "add" /\ srv'.i = srv.i + 1
          /\ srv'.content = srv.content
        BY <1>2, <2>1 DEF SrvOfferError, SrvLocals
    <2>3. srv'.i >= 1
        BY <2>1, <2>2 DEF SrvLocals
    <2>4. SrvInv'
        BY <2>1, <2>2, <2>3 DEF SrvInv, Refilling, NodeInv
    <2> QED
        BY <1>2, <2>4, OtherThread DEF SrvOfferError, NodeInv
<1>3. CASE CheckRootless
    <2>1. CliInv(CudaPcs)'
        BY <1>3 DEF CheckRootless, NodeInv, CliInv, CliLocals, CudaPcs, CliPcs, NoBlock
    <2> QED
        BY <1>3, <2>1, OtherThread DEF CheckRootless, NodeInv
<1> QED
    BY <1>1, <1>2, <1>3

\* What CUDA adds keeps its type.
LEMMA OwnStep ==
    ASSUME Inv, Step
    PROVE  OwnInv'
<1>1. CASE UNCHANGED cudaVars
    BY <1>1 DEF cudaVars, Inv, OwnInv
<1>2. CASE CliReset \/ SrvInterrupt
    BY <1>2, Zenon DEF CliReset, SrvInterrupt, Inv, OwnInv
<1>3. CASE SrvHandle
    <2>1. thrown' \in BOOLEAN
        BY <1>3, Zenon DEF SrvHandle
    <2> QED
        BY <1>3, <2>1, Zenon DEF SrvHandle, Inv, OwnInv
<1>4. CASE CliLaunch \/ CliQuery \/ CliFound \/ CliFail \/ CliSearchError \/ FoundRootless
           \/ Restart
    <2>1. GpuRun \in GpuType /\ GpuIdle \in GpuType
        BY DEF GpuRun, GpuIdle, GpuType
    <2>2. gpu' \in GpuType
        BY <1>4, <2>1, Zenon DEF CliLaunch, CliQuery, CliFound, CliFail, CliSearchError,
                                 FoundRootless, Restart, Inv, OwnInv
    <2>3. CASE Restart
        <3>1. <<>> \in Seq(Copied)
            BY EmptySeq
        <3> QED
            BY <2>2, <2>3, <3>1, Zenon DEF Restart, OwnInv
    <2> QED
        BY <1>4, <2>2, <2>3, Zenon DEF CliLaunch, CliQuery, CliFound, CliFail, CliSearchError,
                                       FoundRootless, Inv, OwnInv
<1>5. CASE CliPoll
    <2>1. gpu.state \in {"idle", "running", "done"} /\ gpu.found \in BOOLEAN
        BY DEF Inv, OwnInv, GpuType
    <2>2. [state |-> gpu.state, found |-> gpu.found, abort |-> TRUE] \in GpuType
        BY <2>1, Zenon DEF GpuType
    <2>3. gpu' \in GpuType
        BY <1>5, <2>2, Zenon DEF CliPoll, GpuCallOff, Inv, OwnInv
    <2> QED
        BY <1>5, <2>3, Zenon DEF CliPoll, Inv, OwnInv
<1>6. CASE Kernel(GpuFind) \/ Kernel(GpuAbort) \/ Kernel(GpuExhausted)
    <2>1. gpu.abort \in BOOLEAN
        BY DEF Inv, OwnInv, GpuType
    <2>2. \A f \in BOOLEAN : [state |-> "done", found |-> f, abort |-> gpu.abort] \in GpuType
        BY <2>1, Zenon DEF GpuType
    <2>3. gpu' \in GpuType
        BY <1>6, <2>2, Zenon DEF Kernel, GpuFind, GpuAbort, GpuExhausted, GpuEnd
    <2> QED
        BY <1>6, <2>3, Zenon DEF Kernel, Inv, OwnInv
<1>7. CASE CliCopy
    <2>1. PICK k \in First(cli.i) : snap' = Append(snap, chain[k])
        BY <1>7 DEF CliCopy
    <2>2. chain[k] \in Block
        BY ChainFacts DEF Inv, NodeInv, First, Holding
    <2>3. chain[k] \in Copied
        BY <2>2 DEF Block, Copied
    <2>4. snap' \in Seq(Copied)
        BY <2>1, <2>3, AppendProperties DEF Inv, OwnInv
    <2> QED
        BY <1>7, <2>4, Zenon DEF CliCopy, Inv, OwnInv
<1>9. CASE CopyRootless
    <2>1. PICK k \in First(cli.i) : snap' = Append(snap, [chain[k] EXCEPT !.data = NoRoot])
        BY <1>9 DEF CopyRootless
    <2>2. chain[k] \in Block
        BY ChainFacts DEF Inv, NodeInv, First, Holding
    <2>3. [chain[k] EXCEPT !.data = NoRoot] \in Copied
        BY <2>2 DEF Block, Copied
    <2>4. snap' \in Seq(Copied)
        BY <2>1, <2>3, AppendProperties DEF Inv, OwnInv
    <2> QED
        BY <1>9, <2>4, Zenon DEF CopyRootless, Inv, OwnInv
<1>8. CASE CliCopyThrow \/ CliValid \/ CliInvalid
    <2>1. <<>> \in Seq(Copied)
        BY EmptySeq
    <2> QED
        BY <1>8, <2>1, Zenon DEF CliCopyThrow, CliValid, CliInvalid, Inv, OwnInv
<1> QED
    BY <1>1, <1>2, <1>3, <1>4, <1>5, <1>6, <1>7, <1>8, <1>9
       DEF Step, Next, Work, CliNext, CliSearch, SrvNext, Common, CliCheckError, SrvOfferError,
           CliVerifyShort, CliVerifyLong, CheckRootless

\* Every step keeps the invariant.
LEMMA InvStep ==
    ASSUME Inv, [Step]_vars
    PROVE  Inv'
<1>1. CASE Step
    <2>1. UNCHANGED nodeVars => NodeInv(CudaPcs)'
        BY OtherThread DEF nodeVars, Inv, NodeInv
    <2>2. NodeInv(CudaPcs)'
        BY <1>1, <2>1, StepCases, CudaPlaces, SharedInv, MovesInv, EndsInv, ErrorsInv DEF Inv
    <2> QED
        BY <1>1, <2>2, OwnStep DEF Inv
<1>2. CASE UNCHANGED vars
    BY <1>2, OtherThread DEF vars, nodeVars, cudaVars, Inv, NodeInv, OwnInv
<1> QED
    BY <1>1, <1>2

-----------------------------------------------------------------------------
(* The search and the handler that makes its header stale. *)

\* The steps of the command line that leave the chain and the flags alone.
LEMMA HeaderCli ==
    ASSUME Inv, HeaderInv, CliNext \/ \E d \in Data : Common(CliBegin(d, "reset"))
    PROVE  HeaderInv'
<1>1. cli \in CliLocals(CudaPcs) /\ cli.todo \in SUBSET Reads
    BY DEF Inv, NodeInv, CliInv, CliLocals
<1>2. CASE \E d \in Data : Common(CliBegin(d, "reset"))
    <2>1. cli'.pc = "reset" /\ cli'.todo = Reads
        BY <1>1, <1>2 DEF Common, CliBegin, CliLocals
    <2> QED
        BY <2>1 DEF HeaderInv, Searching
<1>3. CASE CliReset
    <2>1. cli.pc = "reset" /\ cli' = [cli EXCEPT !.pc = "header"]
        BY <1>3, Zenon DEF CliReset
    <2>2. cli'.pc = "header" /\ cli'.todo = Reads
        BY <1>1, <2>1 DEF CliLocals, HeaderInv
    <2> QED
        BY <2>2 DEF HeaderInv, Searching, ReadsCurrent, Reads
<1>4. CASE Common(CliReadNum \/ CliReadPrev)
    <2>1. /\ cli.pc \in {"header", "args"} /\ cli'.pc = cli.pc
          /\ UNCHANGED <<chain, srv>>
          /\ ReadsCurrent => ReadsCurrent'
        <3>1. CASE CliReadNum
            BY <1>1, <3>1 DEF CliReadNum, CliLocals, ReadsCurrent
        <3>2. CASE CliReadPrev
            BY <1>1, <3>2 DEF CliReadPrev, CliLocals, ReadsCurrent
        <3> QED
            BY <1>4, <3>1, <3>2 DEF Common
    <2>2. UNCHANGED <<interrupt, thrown>>
        BY <1>4 DEF Common, cudaVars
    <2> QED
        BY <2>1, <2>2, Zenon DEF HeaderInv, Searching, Replacing
<1>5. CASE CliLaunch \/ CliQuery \/ CliPoll
    <2>1. /\ cli' \in CliLocals(CudaPcs)
          /\ Searching' /\ (Searching \/ cli.pc = "header") /\ cli'.todo = {} /\ cli.todo = {}
          /\ cli'.num = cli.num /\ cli'.prev = cli.prev /\ UNCHANGED <<chain, srv>>
        <3>1. CASE CliLaunch
            BY <1>1, <3>1 DEF CliLaunch, CliLocals, Searching, CudaPcs
        <3>2. CASE CliQuery
            BY <1>1, <3>2 DEF CliQuery, CliLocals, Searching, CudaPcs, HeaderInv
        <3>3. CASE CliPoll
            BY <1>1, <3>3 DEF CliPoll, CliLocals, Searching, CudaPcs, HeaderInv
        <3> QED
            BY <1>5, <3>1, <3>2, <3>3
    <2>2. UNCHANGED <<interrupt, thrown>>
        BY <1>5, Zenon DEF CliLaunch, CliQuery, CliPoll, cudaVars
    <2>3. ReadsCurrent => ReadsCurrent'
        BY <2>1 DEF ReadsCurrent
    <2>4. cli'.pc # "reset"
        BY <2>1 DEF Searching
    <2> QED
        BY <2>1, <2>2, <2>3, <2>4, Zenon DEF HeaderInv, Replacing
<1>6. CASE cli'.pc \notin {"reset", "header", "query", "poll", "sync"}
    BY <1>6 DEF HeaderInv, Searching
<1>7. ASSUME CliNext
      PROVE  \/ CliReset \/ CliLaunch \/ CliQuery \/ CliPoll \/ Common(CliReadNum \/ CliReadPrev)
             \/ cli'.pc \notin {"reset", "header", "query", "poll", "sync"}
    <2>1. CASE Common(CliShared \/ CliCheck("verify") \/ CliPush("verify"))
        <3>1. CASE CliReadNum \/ CliReadPrev
            BY <2>1, <3>1 DEF Common
        <3>2. CASE CliLength \/ CliDump
            BY <1>1, <3>2 DEF CliLength, CliDump, CliLocals
        <3>3. CASE CliEntry \/ CliPost
            BY <1>1, <3>3 DEF CliEntry, CliPost, CliLocals
        <3>4. CASE CliSent
            BY <3>4 DEF CliSent, CliMenu, Fresh, CliIdle
        <3>5. CASE CliCheck("verify") \/ CliPush("verify")
            BY <1>1, <3>5 DEF CliCheck, CliPush, Fresh, CliIdle, CliLocals
        <3> QED
            BY <2>1, <3>1, <3>2, <3>3, <3>4, <3>5 DEF Common, CliShared
    <2>2. CASE CliFound \/ CliSearchError
        <3>1. PICK h, n : CliMined(h, n)
            BY <2>2, Zenon DEF CliFound, CliSearchError
        <3> QED
            BY <3>1 DEF CliMined, Fresh, CliIdle
    <2>3. CASE CliFail \/ CliCopyThrow \/ CliInvalid
        BY <2>3 DEF CliFail, CliCopyThrow, CliInvalid, CliMenu, Fresh, CliIdle
    <2>4. CASE CliCheckError
        BY <2>4 DEF CliCheckError, Fresh, CliIdle
    <2>5. CASE CliVerifyShort \/ CliVerifyLong \/ CliCopy \/ CliValid
        BY <1>1, <2>5 DEF CliVerifyShort, CliVerifyLong, CliCopy, CliValid, CliLocals
    <2>6. CASE CliReset \/ CliLaunch \/ CliQuery \/ CliPoll
        BY <2>6
    <2> QED
        BY <1>7, <2>1, <2>2, <2>3, <2>4, <2>5, <2>6, Zenon DEF CliNext, CliSearch
<1> QED
    BY <1>2, <1>3, <1>4, <1>5, <1>6, <1>7

\* The steps of the handler: it is at work, or it leaves the chain alone, or it
\* ends with the flag up or an exception.
LEMMA HeaderSrv ==
    ASSUME Inv, HeaderInv, SrvNext \/ Common(SrvRequest)
    PROVE  HeaderInv'
<1>1. srv \in SrvLocals
    BY DEF Inv, NodeInv, SrvInv
<1>2. UNCHANGED cli
    BY DEF SrvNext, SrvHandle, SrvShared, SrvEntry, SrvDump, SrvReply, SrvPop, SrvPopped, SrvOffer,
           SrvThrow, SrvPush, SrvFilled, SrvOfferError, SrvInterrupt, SrvReplaced, Common,
           SrvRequest, SrvAddNode, SrvNewChain, SrvLatest
<1>3. CASE Replacing'
    BY <1>2, <1>3, Zenon DEF HeaderInv, Searching
<1>4. CASE UNCHANGED chain /\ ~Replacing /\ UNCHANGED interrupt /\ (thrown => thrown')
    <2>1. ReadsCurrent => ReadsCurrent'
        BY <1>2, <1>4 DEF ReadsCurrent
    <2> QED
        BY <1>2, <1>4, <2>1, Zenon DEF HeaderInv, Searching
<1>5. CASE interrupt' \/ thrown'
    BY <1>2, <1>5, Zenon DEF HeaderInv, Searching
<1>6. CASE SrvOfferError \/ SrvPop \/ SrvPopped \/ SrvOffer \/ SrvPush \/ SrvFilled \/ SrvNewChain
    <2>1. CASE SrvOfferError \/ SrvPop \/ SrvPopped
        BY <1>1, <1>3, <2>1 DEF SrvOfferError, SrvPop, SrvPopped, Replacing, SrvLocals
    <2>2. CASE SrvOffer
        BY <1>1, <1>3, <2>2 DEF SrvOffer, Replacing, SrvLocals
    <2>3. CASE SrvPush \/ SrvFilled
        BY <1>1, <1>3, <2>3 DEF SrvPush, SrvFilled, Replacing, SrvLocals
    <2>4. CASE SrvNewChain
        BY <1>1, <1>3, <2>4 DEF SrvNewChain, Replacing, SrvLocals
    <2> QED
        BY <1>6, <2>1, <2>2, <2>3, <2>4
<1>7. CASE SrvInterrupt
    BY <1>5, <1>7, Zenon DEF SrvInterrupt
<1>8. CASE SrvHandle /\ SrvThrow
    <2>1. srv.pc = "add" /\ srv'.pc = "idle"
        BY <1>8 DEF SrvThrow, SrvIdle
    <2> QED
        BY <1>5, <1>8, <2>1, Zenon DEF SrvHandle
<1>9. CASE SrvHandle /\ (SrvEntry \/ SrvDump \/ SrvReply)
    <2>1. UNCHANGED chain /\ ~Replacing
        BY <1>9 DEF SrvEntry, SrvDump, SrvReply, Replacing
    <2> QED
        BY <1>4, <1>9, <2>1, Zenon DEF SrvHandle
<1>10. CASE Common(SrvRequest)
    <2>1. CASE SrvNewChain
        BY <1>6, <2>1
    <2>2. CASE (\E p \in Ports : SrvAddNode(p)) \/ SrvLatest
        <3>1. UNCHANGED chain /\ ~Replacing
            BY <2>2 DEF SrvAddNode, SrvLatest, Replacing
        <3> QED
            BY <1>4, <1>10, <3>1, Zenon DEF Common, cudaVars
    <2> QED
        BY <1>10, <2>1, <2>2, Zenon DEF Common, SrvRequest
<1> QED
    BY <1>6, <1>7, <1>8, <1>9, <1>10, Zenon DEF SrvNext, SrvHandle, SrvShared

\* Every step keeps a header current or the search flagged.
LEMMA HeaderStep ==
    ASSUME Inv, HeaderInv, [Step]_vars
    PROVE  HeaderInv'
<1>1. CASE Common(Collide("verify"))
    BY <1>1 DEF Common, Collide, Fresh, CliIdle, HeaderInv, Searching
<1>2. CASE Restart
    <2>1. cli' = CliIdle
        BY <1>2, Zenon DEF Restart, NodeRestart
    <2> QED
        BY <2>1 DEF CliIdle, HeaderInv, Searching
<1>3. CASE UNCHANGED <<nodeVars, interrupt, thrown>>
    <2>1. ReadsCurrent => ReadsCurrent'
        BY <1>3 DEF nodeVars, ReadsCurrent
    <2> QED
        BY <1>3, <2>1, Zenon DEF nodeVars, HeaderInv, Searching, Replacing
<1>4. Kernel(GpuFind) \/ Kernel(GpuAbort) \/ Kernel(GpuExhausted) \/ UNCHANGED vars =>
          UNCHANGED <<nodeVars, interrupt, thrown>>
    BY Zenon DEF Kernel, vars, cudaVars
<1>5. CASE FoundRootless \/ CheckRootless \/ CopyRootless
    <2>1. CASE FoundRootless
        <3>1. PICK h, n : CliMined(h, n)
            BY <2>1, Zenon DEF FoundRootless
        <3> QED
            BY <3>1 DEF CliMined, Fresh, CliIdle, HeaderInv, Searching
    <2>2. CASE CheckRootless \/ CopyRootless
        <3>1. cli'.pc \in {"push", "copy"}
            BY <2>2 DEF CheckRootless, CopyRootless, Inv, NodeInv, CliInv, CliLocals
        <3> QED
            BY <3>1 DEF HeaderInv, Searching
    <2> QED
        BY <1>5, <2>1, <2>2
<1> QED
    BY <1>1, <1>2, <1>3, <1>4, <1>5, HeaderCli, HeaderSrv, Zenon DEF Step, Next, Work

-----------------------------------------------------------------------------
(* What two threads that write one chain make of it. *)

\* The steps that the CUDA node adds write no block.
LEMMA OwnSteps ==
    ASSUME Inv, CliMoves \/ CliEnds \/ CliCheckError \/ CheckRootless \/ SrvOfferError
                \/ UNCHANGED nodeVars
    PROVE  /\ UNCHANGED chain /\ seen'.broken = seen.broken
           /\ UNCHANGED srv \/ SrvOfferError
BY EndsFacts
   DEF CliMoves, CliReset, CliLaunch, CliQuery, CliPoll, CliVerifyShort, CliVerifyLong, CliCopy,
       CliValid, CopyRootless, CliCheckError, CheckRootless, SrvOfferError, CliMined, Calm,
       nodeVars, Inv, NodeInv

\* The reads made for addBlock stay current, or are noted as stale.
LEMMA LinkStep ==
    ASSUME Inv, LinkInv, [Step]_vars
    PROVE  LinkInv'
<1>1. cli \in CliLocals(CudaPcs) /\ srv \in SrvLocals /\ srv.i \in Nat
      /\ Len(chain) \in Nat /\ NodeInv(CudaPcs)
    BY ChainFacts DEF Inv, NodeInv, CliInv, SrvInv, SrvLocals
<1>2. CASE SharedNext(CudaPcs)
    BY <1>1, <1>2, CudaPlaces, SharedLink
<1>3. CASE CliEnds
    BY <1>1, <1>3, CudaPlaces, EndsFacts, LinkCli
<1>4. CASE CliMoves \/ CliCheckError \/ CheckRootless \/ UNCHANGED nodeVars
    <2>1. StableInv'
        <3>1. CASE CliMoves \/ CliCheckError
            <4>1. cli'.pc \notin {"args", "push"}
                <5>1. CASE CliReset
                    BY <1>1, <5>1 DEF CliReset, CliLocals
                <5>2. CASE CliLaunch \/ CliQuery \/ CliPoll
                    BY <1>1, <5>2 DEF CliLaunch, CliQuery, CliPoll, CliLocals
                <5>3. CASE CliVerifyShort \/ CliVerifyLong \/ CliValid
                    BY <1>1, <5>3 DEF CliVerifyShort, CliVerifyLong, CliValid, CliLocals
                <5>4. CASE CliCopy \/ CopyRootless
                    BY <1>1, <5>4 DEF CliCopy, CopyRootless, CliLocals
                <5>5. CASE CliCheckError
                    BY <5>5 DEF CliCheckError, Fresh, CliIdle
                <5> QED
                    BY <3>1, <5>1, <5>2, <5>3, <5>4, <5>5 DEF CliMoves
            <4> QED
                BY <4>1 DEF StableInv
        <3>2. CASE CheckRootless
            BY <1>1, <3>2 DEF CheckRootless, StableInv, ReadsCurrent, LinkInv, CliLocals
        <3>3. CASE UNCHANGED nodeVars
            BY <3>3 DEF nodeVars, StableInv, ReadsCurrent, LinkInv
        <3> QED
            BY <1>4, <3>1, <3>2, <3>3
    <2>2. UNCHANGED chain /\ seen'.broken = seen.broken /\ UNCHANGED srv
        BY <1>4 DEF CliMoves, CliReset, CliLaunch, CliQuery, CliPoll, CliVerifyShort,
                    CliVerifyLong, CliCopy, CliValid, CopyRootless, CliCheckError, CheckRootless,
                    Calm, nodeVars, Inv, NodeInv
    <2> QED
        BY <1>1, <2>1, <2>2, LinkUnmoved
<1>5. CASE SrvOfferError
    <2>1. /\ UNCHANGED <<chain, cli, seen>> /\ srv.pc = "add"
          /\ srv'.pc = "add" /\ srv'.i = srv.i + 1 /\ srv'.content = srv.content
        BY <1>1, <1>5 DEF SrvOfferError, SrvLocals
    <2>2. PrefixInv'
        BY <1>1, <2>1 DEF LinkInv, PrefixInv, Refilling
    <2> QED
        BY <2>1, <2>2 DEF LinkInv, StableInv, ReadsCurrent, LinkedDocs, Linked
<1>6. Step \/ UNCHANGED nodeVars
    BY DEF vars
<1> QED
    BY <1>2, <1>3, <1>4, <1>5, <1>6, StepCases

\* The handler that serves the chain finds a block for each slot.
LEMMA LatestStep ==
    ASSUME Inv, LinkInv, LatestInv, [Step]_vars
    PROVE  LatestInv'
<1>1. CASE SharedNext(CudaPcs)
    BY <1>1, CudaPlaces, SharedIndex, SharedServe DEF Inv, LatestInv
<1>2. CASE \/ CliMoves \/ CliEnds \/ CliCheckError \/ CheckRootless \/ SrvOfferError
           \/ UNCHANGED nodeVars
    <2>1. UNCHANGED chain /\ seen'.broken = seen.broken
        BY <1>2, OwnSteps
    <2>2. UNCHANGED srv \/ srv'.pc = "add"
        BY <1>2, OwnSteps DEF SrvOfferError, Inv, NodeInv, SrvInv, SrvLocals
    <2> QED
        BY <2>1, <2>2 DEF LatestInv, IndexInv, ServeInv, LatestComplete
<1>3. Step \/ UNCHANGED nodeVars
    BY DEF vars
<1> QED
    BY <1>1, <1>2, <1>3, StepCases

\* While no merkle root is missing twice, every block is mined.
LEMMA MinedStep ==
    ASSUME Inv, MinedInv, [Next]_vars
    PROVE  MinedInv'
<1>1. CASE SharedNext(CudaPcs)
    BY <1>1, CudaPlaces, SharedMined DEF Inv
<1>2. CASE CliEnds
    <2>1. PICK h \in Hash, n \in Nonces : CliMined(h, n)
        BY <1>2, EndsFacts DEF Inv
    <2>2. UNCHANGED <<chain, srv>> /\ cli'.pc = "args" /\ cli'.json = EmptyJson
        BY <2>1 DEF CliMined, Fresh, CliIdle
    <2>3. WellFormed(EmptyJson)
        BY EmptyDocument
    <2> QED
        BY <2>2, <2>3, MinedUnmoved DEF MinedInv, EmitsWellFormed
<1>3. CASE CliMoves
    <2>1. UNCHANGED <<chain, srv>> /\ cli'.json = cli.json /\ cli'.pc # "push"
        <3>1. CASE CliReset
            BY <3>1 DEF CliReset, Inv, NodeInv, CliInv, CliLocals
        <3>2. CASE CliLaunch \/ CliQuery \/ CliPoll
            BY <3>2 DEF CliLaunch, CliQuery, CliPoll, Inv, NodeInv, CliInv, CliLocals
        <3>3. CASE CliVerifyShort \/ CliVerifyLong \/ CliValid
            BY <3>3 DEF CliVerifyShort, CliVerifyLong, CliValid, Inv, NodeInv, CliInv, CliLocals
        <3>4. CASE CliCopy \/ CopyRootless
            BY <3>4 DEF CliCopy, CopyRootless, Inv, NodeInv, CliInv, CliLocals
        <3> QED
            BY <1>3, <3>1, <3>2, <3>3, <3>4 DEF CliMoves
    <2> QED
        BY <2>1, MinedUnmoved DEF MinedInv, EmitsWellFormed
<1>4. CASE CliCheckError
    <2>1. UNCHANGED <<chain, srv>> /\ cli'.json = EmptyJson /\ cli'.pc # "push"
        BY <1>4 DEF CliCheckError, Fresh, CliIdle
    <2> QED
        BY <2>1, EmptyDocument, MinedUnmoved DEF MinedInv, EmitsWellFormed
<1>5. CASE SrvOfferError \/ UNCHANGED nodeVars
    <2>1. UNCHANGED <<chain, cli>> /\ srv'.json = srv.json
        BY <1>5 DEF SrvOfferError, nodeVars, Inv, NodeInv, SrvInv, SrvLocals
    <2> QED
        BY <2>1, MinedUnmoved DEF MinedInv, EmitsWellFormed
<1>6. Next \/ UNCHANGED nodeVars
    BY DEF vars
<1> QED
    BY <1>1, <1>2, <1>3, <1>4, <1>5, <1>6, CudaNext DEF CliMoves, CliEnds

\* A command that no handler disturbs knows the chain, the search on the GPU included.
LEMMA QuietStep ==
    ASSUME Inv, HeaderInv, QuietInv(CudaPcs), [Next]_vars
    PROVE  QuietInv(CudaPcs)'
<1>1. cli \in CliLocals(CudaPcs) /\ NodeInv(CudaPcs) /\ (seen.quiet => seen.stable)
    BY DEF Inv, NodeInv, CliInv, QuietInv
<1>2. CASE SharedNext(CudaPcs)
    BY <1>1, <1>2, CudaPlaces, SharedQuiet
<1>3. CASE CliReset \/ CliLaunch \/ CliQuery \/ CliPoll
    <2>1. /\ cli.pc \in Before(CudaPcs) /\ cli'.pc \in {"header", "query", "poll", "sync"}
          /\ cli'.todo = cli.todo /\ cli'.num = cli.num /\ cli'.prev = cli.prev
          /\ UNCHANGED <<chain, seen>>
        <3>1. CASE CliReset
            BY <1>1, <3>1, CudaPlaces DEF CliReset, CliLocals
        <3>2. CASE CliLaunch
            BY <1>1, <3>2, CudaPlaces DEF CliLaunch, CliLocals
        <3>3. CASE CliQuery
            BY <1>1, <3>3, CudaPlaces DEF CliQuery, CliLocals
        <3>4. CASE CliPoll
            BY <1>1, <3>4, CudaPlaces DEF CliPoll, CliLocals
        <3> QED
            BY <1>3, <3>1, <3>2, <3>3, <3>4
    <2> QED
        BY <1>1, <2>1, Zenon DEF QuietInv, ReadsCurrent
<1>4. CASE CliVerifyShort \/ CliVerifyLong \/ CliCopy \/ CliValid
    <2>1. cli'.pc \in NoBlock /\ UNCHANGED seen
        BY <1>1, <1>4, CudaPlaces
           DEF CliVerifyShort, CliVerifyLong, CliCopy, CliValid, CliLocals, NoBlock
    <2> QED
        BY <1>1, <2>1, QuietOver
<1>5. CASE CliCheckError
    <2>1. cli'.pc = "verify" /\ seen'.stable
        BY <1>5 DEF CliCheckError, Fresh, CliIdle, Calm
    <2> QED
        BY <2>1, QuietOver DEF NoBlock
<1>6. CASE CliFound \/ CliSearchError
    <2>1. CASE CliSearchError
        <3>1. cli'.pc = "args" /\ cli'.hash = NoHash /\ seen' = [seen EXCEPT !.stable = TRUE]
            BY <2>1 DEF CliSearchError, CliMined, Fresh, CliIdle
        <3> QED
            BY <1>1, <3>1 DEF QuietInv, Before, NodeInv
    <2>2. CASE CliFound
        <3>1. PICK n \in Golden : CliMined(Sha256(cli.num, cli.prev, cli.data, n), n)
            BY <2>2 DEF CliFound
        <3>2. /\ cli'.pc = "args" /\ cli'.nonce = n /\ cli'.data = cli.data
              /\ cli'.hash = Sha256(cli.num, cli.prev, cli.data, n)
              /\ UNCHANGED chain /\ seen' = [seen EXCEPT !.stable = TRUE]
            BY <3>1 DEF CliMined, Fresh, CliIdle
        <3>3. cli.pc = "sync" /\ cli.todo = {}
            BY <2>2 DEF CliFound, HeaderInv, Searching
        <3>4. seen.quiet => cli.num = Len(chain) /\ cli.prev = chain[Len(chain)].hash
            BY <3>3, CudaPlaces DEF QuietInv, ReadsCurrent
        <3>5. seen'.quiet = seen.quiet /\ seen'.stable = TRUE
            BY <1>1, <3>2 DEF NodeInv
        <3> QED
            BY <3>2, <3>4, <3>5 DEF QuietInv, Before
    <2> QED
        BY <1>6, <2>1, <2>2
<1>7. CASE SrvOfferError \/ UNCHANGED nodeVars
    <2>1. UNCHANGED <<chain, cli, seen>>
        BY <1>7 DEF SrvOfferError, nodeVars
    <2> QED
        BY <1>1, <2>1, QuietUnmoved
<1>8. Next \/ UNCHANGED nodeVars
    BY DEF vars
<1> QED
    BY <1>2, <1>3, <1>4, <1>5, <1>6, <1>7, <1>8, CudaNext

-----------------------------------------------------------------------------
(* Blocks that got into the chain without a merkle root, and what they cost. *)

\* The failures that the block in the making has used up.
Owed ==
    IF cli.pc = "push" /\ Rootless(Mined) THEN 2
    ELSE IF cli.pc = "args" /\ Bareheaded(cli.hash) THEN 1 ELSE 0

\* Each failure counts for one block, which needs two.
DebtInv ==
    /\ failures \in Nat /\ raced \in BOOLEAN
    /\ seen.broken => raced
    /\ \A k \in 2 .. Len(chain) : Acceptable(chain[k]) \/ Rootless(chain[k])
    /\ cli.pc = "push" => Acceptable(Mined) \/ Rootless(Mined)
    /\ 2 * Cardinality(Among(chain)) + Owed <= failures

\* Without a third failure verifyChainGPU finds them, each in its place in the
\* copy, and nothing is sent.
SentInv ==
    /\ cli.pc # "copy" => snap = <<>>
    /\ ~raced /\ failures < 3 =>
          /\ cli.pc = "copy" =>
                /\ Len(snap) = cli.i
                /\ \A k \in Among(chain) : k <= cli.i => snap[k] = chain[k]
          /\ cli.pc \in {"length", "entries"} => Among(chain) = {}
          /\ cli.pc \in {"entries", "send"} => Among(cli.json.data) = {}

\* A block that addBlock accepts with its merkle root was not made without.
LEMMA RootedFacts ==
    ASSUME NEW b \in Block, HeaderMatches(b)
    PROVE  ~Rootless(b)
<1>1. /\ b.index \in Nat /\ b.previousHash \in Hash /\ b.nonce \in Nonces /\ b.data \in Payload
      /\ b.hash = Sha256(b.index, b.previousHash, b.data, b.nonce)
    BY DEF Block, HeaderMatches
<1> QED
    BY <1>1, BareFacts DEF Rootless, Bare

\* A block with the hash of a header without a root shows it.
LEMMA RootlessFacts ==
    ASSUME NEW b \in Block, Rootless(b)
    PROVE  Bareheaded(b.hash)
<1>1. b.index \in Nat /\ b.previousHash \in Hash /\ b.nonce \in Nonces
    BY DEF Block
<1> QED
    BY <1>1, BareFacts DEF Rootless, Bare

\* The places of the blocks without a root are few.
LEMMA AmongFinite ==
    ASSUME NEW S, NEW s \in Seq(S)
    PROVE  /\ IsFiniteSet(Among(s)) /\ Cardinality(Among(s)) \in Nat
           /\ Among(s) \subseteq 2 .. Len(s)
<1>1. Len(s) \in Nat /\ Among(s) \subseteq 2 .. Len(s)
    BY LenProperties DEF Among
<1>2. IsFiniteSet(2 .. Len(s))
    BY <1>1, FS_Interval
<1> QED
    BY <1>1, <1>2, FS_Subset, FS_CardinalityType

\* The next chain has no block without a root that this one has not.
Fewer == Among(chain') \subseteq Among(chain) /\ \A k \in Among(chain') : chain'[k] = chain[k]

\* So it is after a pop_back, and after a push_back of a block that has its root.
LEMMA FewerFacts ==
    ASSUME ChainInv,
           \/ UNCHANGED chain
           \/ Len(chain) > 1 /\ chain' = SubSeq(chain, 1, Len(chain) - 1)
           \/ \E b \in Block : ~Rootless(b) /\ chain' = Append(chain, b)
    PROVE  Fewer
<1>1. Len(chain) \in Nat
    BY ChainFacts
<1>2. CASE UNCHANGED chain
    BY <1>2 DEF Fewer
<1>3. CASE Len(chain) > 1 /\ chain' = SubSeq(chain, 1, Len(chain) - 1)
    <2>1. Len(chain') = Len(chain) - 1 /\ \A k \in 1 .. Len(chain') : chain'[k] = chain[k]
        BY <1>3, ChainPop
    <2>2. \A k \in 2 .. Len(chain') : k \in 2 .. Len(chain) /\ chain'[k] = chain[k]
        BY <1>1, <2>1
    <2> QED
        BY <2>2 DEF Fewer, Among
<1>4. ASSUME NEW b \in Block, ~Rootless(b), chain' = Append(chain, b)
      PROVE  Fewer
    <2>1. /\ Len(chain') = Len(chain) + 1 /\ chain'[Len(chain) + 1] = b
          /\ \A k \in 1 .. Len(chain) : chain'[k] = chain[k]
        BY <1>4, ChainPush
    <2>2. \A k \in 2 .. Len(chain') :
          k = Len(chain) + 1 \/ (k \in 2 .. Len(chain) /\ chain'[k] = chain[k])
        BY <1>1, <2>1
    <2> QED
        BY <1>4, <2>1, <2>2 DEF Fewer, Among
<1> QED
    BY <1>2, <1>3, <1>4

\* A block without a root that is pushed is one more.
LEMMA OneMore ==
    ASSUME ChainInv, NEW b \in Block, Rootless(b), chain' = Append(chain, b)
    PROVE  Cardinality(Among(chain')) <= Cardinality(Among(chain)) + 1
<1>1. /\ Len(chain) \in Nat /\ Len(chain') = Len(chain) + 1 /\ chain'[Len(chain) + 1] = b
      /\ \A k \in 1 .. Len(chain) : chain'[k] = chain[k]
    BY ChainPush, ChainFacts
<1>2. \A k \in 2 .. Len(chain') :
          k = Len(chain) + 1 \/ (k \in 2 .. Len(chain) /\ chain'[k] = chain[k])
    BY <1>1
<1>3. Among(chain') \subseteq Among(chain) \cup {Len(chain) + 1}
    BY <1>2 DEF Among
<1>4. IsFiniteSet(Among(chain)) /\ Cardinality(Among(chain)) \in Nat
    BY AmongFinite DEF ChainInv
<1>5. /\ IsFiniteSet(Among(chain) \cup {Len(chain) + 1})
      /\ Cardinality(Among(chain) \cup {Len(chain) + 1}) <= Cardinality(Among(chain)) + 1
    <2>1. /\ IsFiniteSet(Among(chain) \cup {Len(chain) + 1})
          /\ Cardinality(Among(chain) \cup {Len(chain) + 1}) \in
                {Cardinality(Among(chain)), Cardinality(Among(chain)) + 1}
        BY <1>4, FS_AddElement, Zenon
    <2> QED
        BY <1>4, <2>1
<1>6. /\ IsFiniteSet(Among(chain'))
      /\ Cardinality(Among(chain')) <= Cardinality(Among(chain) \cup {Len(chain) + 1})
    BY <1>3, <1>5, FS_Subset
<1>7. Cardinality(Among(chain')) \in Nat /\ Cardinality(Among(chain) \cup {Len(chain) + 1}) \in Nat
    BY <1>5, <1>6, FS_CardinalityType
<1> QED
    BY <1>4, <1>5, <1>6, <1>7

\* A chain that only lost blocks without a root owes no more.
LEMMA FewerCount ==
    ASSUME ChainInv, ChainInv', Fewer
    PROVE  /\ Cardinality(Among(chain)) \in Nat /\ Cardinality(Among(chain')) \in Nat
           /\ Cardinality(Among(chain')) <= Cardinality(Among(chain))
<1>1. /\ IsFiniteSet(Among(chain)) /\ Cardinality(Among(chain)) \in Nat
      /\ Cardinality(Among(chain')) \in Nat
    BY AmongFinite DEF ChainInv
<1> QED
    BY <1>1, FS_Subset DEF Fewer

\* In a new process every block was mined.
LEMMA StartRooted ==
    ASSUME NEW c \in StartChains
    PROVE  /\ \A k \in 2 .. Len(c) : Acceptable(c[k])
           /\ Among(c) = {} /\ Cardinality(Among(c)) = 0
<1>1. c \in Seq(Block) /\ Len(c) \in Nat /\ \A k \in 2 .. Len(c) : Acceptable(c[k])
    BY StartFacts, LenProperties
<1>2. \A k \in 2 .. Len(c) : c[k] \in Block /\ ~Rootless(c[k])
    BY <1>1, ElementOfSeq, RootedFacts DEF Acceptable
<1>3. Among(c) = {}
    BY <1>2 DEF Among
<1> QED
    BY <1>1, <1>3, FS_EmptySet

\* What the main thread is about to check or push is a block.
LEMMA MadeFacts ==
    ASSUME Inv, cli.pc \in {"args", "push"}
    PROVE  Mined \in Block /\ Mined.hash = cli.hash
BY DEF Inv, NodeInv, CliInv, CliLocals, Mined, NewBlock, Block, Payload, NoBlock

\* A step either adds no block without a root, or the command line pushes its own.
LEMMA Writes ==
    ASSUME Inv, DebtInv, Step
    PROVE  \/ Fewer /\ \A k \in 2 .. Len(chain') : Acceptable(chain'[k]) \/ Rootless(chain'[k])
           \/ /\ cli.pc = "push" /\ Rootless(Mined) /\ cli'.pc = "verify"
              /\ chain' = Append(chain, Mined)
<1> DEFINE Fine == Fewer /\ \A k \in 2 .. Len(chain') : Acceptable(chain'[k]) \/ Rootless(chain'[k])
           Own  == /\ cli.pc = "push" /\ Rootless(Mined) /\ cli'.pc = "verify"
                   /\ chain' = Append(chain, Mined)
<1>1. ChainInv /\ Len(chain) \in Nat /\ NodeInv(CudaPcs)
    BY ChainFacts DEF Inv, NodeInv
<1>2. ASSUME UNCHANGED chain PROVE Fine
    BY <1>1, <1>2, FewerFacts DEF DebtInv
<1>3. ASSUME Len(chain) > 1, chain' = SubSeq(chain, 1, Len(chain) - 1) PROVE Fine
    <2>1. Len(chain') = Len(chain) - 1 /\ \A k \in 1 .. Len(chain') : chain'[k] = chain[k]
        BY <1>1, <1>3, ChainPop
    <2>2. \A k \in 2 .. Len(chain') : k \in 2 .. Len(chain) /\ chain'[k] = chain[k]
        BY <1>1, <2>1
    <2> QED
        BY <1>1, <1>3, <2>2, FewerFacts DEF DebtInv
<1>4. ASSUME NEW b \in Block, Acceptable(b), chain' = Append(chain, b) PROVE Fine
    <2>1. /\ Len(chain') = Len(chain) + 1 /\ chain'[Len(chain) + 1] = b
          /\ \A k \in 1 .. Len(chain) : chain'[k] = chain[k]
        BY <1>1, <1>4, ChainPush
    <2>2. \A k \in 2 .. Len(chain') :
              k = Len(chain) + 1 \/ (k \in 2 .. Len(chain) /\ chain'[k] = chain[k])
        BY <1>1, <2>1
    <2>3. ~Rootless(b)
        BY <1>4, RootedFacts DEF Acceptable
    <2>4. Fewer
        BY <1>1, <1>4, <2>3, FewerFacts
    <2> QED
        BY <1>4, <2>1, <2>2, <2>4 DEF DebtInv
<1>5. ASSUME cli.pc = "push", cli' = [Fresh EXCEPT !.pc = "verify"], chain' = Append(chain, Mined)
      PROVE  Fine \/ Own
    <2>1. cli'.pc = "verify" /\ Mined \in Block
        BY <1>1, <1>5, MinedFacts DEF Fresh, CliIdle
    <2>2. Acceptable(Mined) \/ Rootless(Mined)
        BY <1>5 DEF DebtInv
    <2> QED
        BY <1>4, <1>5, <2>1, <2>2
<1>6. srv.pc = "push" => /\ Entry(srv.content, srv.i) \in Block
                        /\ Acceptable(Entry(srv.content, srv.i))
    BY <1>1, OfferFacts DEF Refilling, NodeInv, SrvInv
<1>7. CASE SharedNext(CudaPcs)
    <2>1. CASE \/ \E d \in Data, next \in Before(CudaPcs) : CliBegin(d, next)
               \/ CliShared \/ CliCheck("verify") \/ CliMenu \/ SrvRequest \/ SrvReplaced
        <3>1. UNCHANGED chain
            BY <2>1 DEF CliBegin, CliShared, CliReadNum, CliReadPrev, CliLength, CliEntry,
                        CliDump, CliPost, CliSent, CliCheck, CliMenu, SrvRequest, SrvAddNode,
                        SrvNewChain, SrvLatest, SrvReplaced
        <3> QED
            BY <1>2, <3>1
    <2>2. CASE SrvShared
        <3>1. CASE SrvPop
            BY <1>3, <3>1 DEF SrvPop
        <3>2. CASE SrvPush
            BY <1>4, <1>6, <3>2 DEF SrvPush
        <3>3. CASE SrvEntry \/ SrvDump \/ SrvReply \/ SrvPopped \/ SrvOffer \/ SrvThrow \/ SrvFilled
            <4>1. UNCHANGED chain
                BY <3>3 DEF SrvEntry, SrvDump, SrvReply, SrvPopped, SrvOffer, SrvThrow, SrvFilled
            <4> QED
                BY <1>2, <4>1
        <3> QED
            BY <2>2, <3>1, <3>2, <3>3 DEF SrvShared
    <2>3. CASE CliPush("verify")
        BY <1>5, <2>3 DEF CliPush
    <2>4. CASE Collide("verify")
        <3>1. cli.pc = "push" /\ cli' = [Fresh EXCEPT !.pc = "verify"]
            BY <2>4 DEF Collide
        <3>2. CASE srv.pc = "push"
            <4>1. \/ chain' = Append(chain, Mined)
                  \/ chain' = Append(chain, Entry(srv.content, srv.i))
                BY <2>4, <3>2 DEF Collide
            <4> QED
                BY <1>4, <1>5, <1>6, <3>1, <3>2, <4>1
        <3>3. CASE srv.pc # "push"
            BY <1>3, <2>4, <3>3 DEF Collide
        <3> QED
            BY <3>2, <3>3
    <2>5. CASE NodeRestart
        BY <2>5, StartRooted DEF NodeRestart, Fewer
    <2> QED
        BY <1>7, <2>1, <2>2, <2>3, <2>4, <2>5 DEF SharedNext
<1>8. CASE CliMoves \/ CliEnds \/ CliCheckError \/ CheckRootless \/ SrvOfferError
           \/ UNCHANGED nodeVars
    BY <1>2, <1>8, OwnSteps
<1> QED
    BY <1>7, <1>8, StepCases

\* What the command line does to the block in the making.
CliMakes ==
    \/ UNCHANGED cli
    \/ cli'.pc \notin {"args", "push"}
    \/ CliReadNum \/ CliReadPrev \/ CliCheck("verify")
    \/ CliEnds \/ CheckRootless

\* That is all it does.
LEMMA MakesFacts ==
    ASSUME Inv, Work \/ CopyRootless
    PROVE  CliMakes
<1>1. cli \in CliLocals(CudaPcs)
    BY DEF Inv, NodeInv, CliInv
<1>2. CASE \E d \in Data : Common(CliBegin(d, "reset"))
    <2>1. cli'.pc = "reset"
        BY <1>1, <1>2 DEF Common, CliBegin, CliLocals
    <2> QED
        BY <2>1 DEF CliMakes
<1>3. CASE Common(CliShared \/ CliCheck("verify") \/ CliPush("verify"))
    <2>1. CASE CliReadNum \/ CliReadPrev \/ CliCheck("verify")
        BY <2>1 DEF CliMakes
    <2>2. CASE CliLength \/ CliDump
        BY <1>1, <2>2 DEF CliLength, CliDump, CliLocals, CliMakes
    <2>3. CASE CliEntry \/ CliPost
        BY <1>1, <2>3 DEF CliEntry, CliPost, CliLocals, CliMakes
    <2>4. CASE CliSent \/ CliPush("verify")
        BY <2>4 DEF CliSent, CliMenu, CliPush, Fresh, CliIdle, CliMakes
    <2> QED
        BY <1>3, <2>1, <2>2, <2>3, <2>4 DEF Common, CliShared
<1>4. CASE CliReset \/ CliLaunch \/ CliQuery \/ CliPoll
    <2>1. CASE CliReset
        BY <1>1, <2>1 DEF CliReset, CliLocals, CliMakes
    <2>2. CASE CliLaunch \/ CliQuery \/ CliPoll
        BY <1>1, <2>2 DEF CliLaunch, CliQuery, CliPoll, CliLocals, CliMakes
    <2> QED
        BY <1>4, <2>1, <2>2
<1>5. CASE CliFound \/ CliSearchError
    BY <1>5 DEF CliEnds, CliMakes
<1>6. CASE CliFail \/ CliCheckError \/ CliCopyThrow \/ CliInvalid
    BY <1>6 DEF CliFail, CliCheckError, CliCopyThrow, CliInvalid, CliMenu, Fresh, CliIdle, CliMakes
<1>7. CASE CliVerifyShort \/ CliVerifyLong \/ CliCopy \/ CliValid \/ CopyRootless
    BY <1>1, <1>7 DEF CliVerifyShort, CliVerifyLong, CliCopy, CliValid, CopyRootless, CliLocals,
                      CliMakes
<1>8. CASE Common(SrvRequest) \/ SrvNext
    <2>1. UNCHANGED cli
        BY <1>8 DEF SrvNext, SrvHandle, SrvShared, SrvEntry, SrvDump, SrvReply, SrvPop, SrvPopped,
                    SrvOffer, SrvThrow, SrvPush, SrvFilled, SrvOfferError, SrvInterrupt,
                    SrvReplaced, Common, SrvRequest, SrvAddNode, SrvNewChain, SrvLatest
    <2> QED
        BY <2>1 DEF CliMakes
<1>9. CASE Common(Collide("verify"))
    BY <1>9 DEF Common, Collide, Fresh, CliIdle, CliMakes
<1>10. CASE Kernel(GpuFind) \/ Kernel(GpuAbort) \/ Kernel(GpuExhausted)
    BY <1>10 DEF Kernel, nodeVars, CliMakes
<1> QED
    BY <1>2, <1>3, <1>4, <1>5, <1>6, <1>7, <1>8, <1>9, <1>10
       DEF Work, CliNext, CliSearch

\* What is owed grows by no more than what was paid.
LEMMA Pays ==
    ASSUME NEW o \in Nat, NEW p \in Nat, NEW f \in Nat, NEW g \in Nat, NEW k \in {0, 1},
           p <= o + k, f + k <= g
    PROVE  p + f <= o + g
OBVIOUS

\* A block in the making that lacks its root has cost a failure where its header was
\* made, and a second where addBlock let it pass.
LEMMA Owes ==
    ASSUME Inv, DebtInv, RootsWork
    PROVE  /\ failures' \in Nat /\ failures <= failures'
           /\ cli'.pc = "push" => Acceptable(Mined)' \/ Rootless(Mined)'
           /\ Owed \in Nat /\ Owed' \in Nat
           /\ Owed' = 0 \/ Owed' + failures <= Owed + failures'
<1>1. cli \in CliLocals(CudaPcs)
    BY DEF Inv, NodeInv, CliInv
<1>11. failures \in Nat
    BY DEF DebtInv
<1>2. failures' \in Nat /\ failures <= failures'
    BY <1>11 DEF RootsWork, FoundRootless, CheckRootless, CopyRootless, Fails
<1>3. Owed \in Nat /\ Owed' \in Nat
    BY DEF Owed
<1>4. CliMakes
    BY MakesFacts DEF RootsWork, CliMakes, CliEnds
<1>5. CASE UNCHANGED cli
    <2>1. UNCHANGED Mined
        BY <1>5 DEF Mined
    <2>2. Owed' = Owed
        BY <1>5, <2>1 DEF Owed
    <2>3. cli'.pc = "push" => Acceptable(Mined)' \/ Rootless(Mined)'
        BY <1>5, <2>1 DEF DebtInv
    <2>4. Owed' + failures <= Owed + failures'
        <3>1. Owed' <= Owed + 0 /\ failures + 0 <= failures'
            BY <1>2, <1>3, <1>11, <2>2
        <3> QED
            BY <1>2, <1>3, <1>11, <3>1, Pays
    <2> QED
        BY <1>2, <1>3, <2>3, <2>4, Zenon
<1>6. CASE cli'.pc \notin {"args", "push"}
    BY <1>2, <1>3, <1>6 DEF Owed
<1>7. CASE CliReadNum \/ CliReadPrev
    <2>1. cli'.pc = cli.pc /\ cli'.hash = cli.hash /\ cli.pc # "push"
        BY <1>1, <1>7 DEF CliReadNum, CliReadPrev, CliLocals
    <2>2. Owed' = Owed
        BY <2>1 DEF Owed
    <2>3. Owed' + failures <= Owed + failures'
        <3>1. Owed' <= Owed + 0 /\ failures + 0 <= failures'
            BY <1>2, <1>3, <1>11, <2>2
        <3> QED
            BY <1>2, <1>3, <1>11, <3>1, Pays
    <2> QED
        BY <1>2, <1>3, <2>1, <2>3, Zenon
<1>8. CASE CliCheck("verify")
    <2>1. CASE Acceptable(Mined) /\ cli.num = Len(chain)
        <3>1. cli'.pc = "push" /\ UNCHANGED Mined
            BY <1>1, <1>8, <2>1 DEF CliCheck, CliLocals, Mined
        <3>2. ~Rootless(Mined)
            BY <1>8, <2>1, MadeFacts, RootedFacts DEF Acceptable, CliCheck
        <3>3. Owed' = 0
            BY <3>1, <3>2 DEF Owed
        <3>4. Acceptable(Mined)'
            BY <2>1, <3>1
        <3> QED
            BY <1>2, <1>3, <3>3, <3>4
    <2>2. CASE ~(Acceptable(Mined) /\ cli.num = Len(chain))
        <3>1. cli'.pc = "verify"
            BY <1>8, <2>2 DEF CliCheck, Fresh, CliIdle
        <3> QED
            BY <1>2, <1>3, <3>1 DEF Owed
    <2> QED
        BY <2>1, <2>2
<1>9. CASE CliEnds
    <2>1. cli'.pc = "args"
        BY <1>9, EndsFacts DEF CliMined, Fresh, CliIdle, Inv
    <2>2. cli.num \in Nat /\ cli.prev \in Hash /\ cli.data \in Payload
        BY <1>1, <1>9, EndsFacts DEF Inv, NodeInv, CliInv, CliLocals, Payload
    <2>3. CASE CliFound
        <3>1. PICK n \in Golden : cli'.hash = Sha256(cli.num, cli.prev, cli.data, n)
            BY <2>3 DEF CliFound, CliMined, Fresh, CliIdle
        <3>2. ~Bareheaded(cli'.hash)
            BY <2>2, <3>1, BareFacts DEF Nonces
        <3> QED
            BY <1>2, <1>3, <2>1, <3>2 DEF Owed
    <2>4. CASE CliSearchError
        <3>1. cli'.hash = NoHash
            BY <2>4 DEF CliSearchError, CliMined, Fresh, CliIdle
        <3> QED
            BY <1>2, <1>3, <2>1, <3>1 DEF Owed, Bareheaded
    <2>5. CASE FoundRootless
        <3>1. failures' = failures + 1 /\ Owed' <= 1
            BY <2>1, <2>5 DEF FoundRootless, Fails, Owed
        <3>2. Owed' + failures <= Owed + failures'
            <4>1. Owed' <= Owed + 1 /\ failures + 1 <= failures'
                BY <1>2, <1>3, <1>11, <3>1
            <4> QED
                BY <1>2, <1>3, <1>11, <4>1, Pays
        <3>3. cli'.pc # "push"
            BY <2>1
        <3> QED
            BY <1>2, <1>3, <3>2, <3>3, Zenon
    <2> QED
        BY <1>9, <2>3, <2>4, <2>5 DEF CliEnds
<1>10. CASE CheckRootless
    <2>1. cli'.pc = "push" /\ cli.pc = "args" /\ UNCHANGED Mined /\ Rootless(Mined)
        BY <1>1, <1>10 DEF CheckRootless, CliLocals, Mined
    <2>2. Bareheaded(cli.hash)
        BY <2>1, MadeFacts, RootlessFacts
    <2>3. Owed = 1 /\ Owed' <= 2 /\ failures' = failures + 1
        BY <1>10, <2>1, <2>2 DEF Owed, CheckRootless, Fails
    <2>4. Rootless(Mined)'
        BY <2>1
    <2>5. Owed' + failures <= Owed + failures'
        <3>1. Owed' <= Owed + 1 /\ failures + 1 <= failures'
            BY <1>2, <1>3, <1>11, <2>3
        <3> QED
            BY <1>2, <1>3, <1>11, <3>1, Pays
    <2> QED
        BY <1>2, <1>3, <2>4, <2>5, Zenon
<1> QED
    BY <1>4, <1>5, <1>6, <1>7, <1>8, <1>9, <1>10 DEF CliMakes

\* Every step pays for the blocks without a root that it lets in.
LEMMA DebtStep ==
    ASSUME Inv, Inv', DebtInv, [RootsNext]_rootsVars
    PROVE  DebtInv'
<1>1. CASE RootsWork
    <2>1. Step
        BY <1>1 DEF RootsWork, Step, Next
    <2>2. raced' = (raced \/ seen'.broken) /\ raced' \in BOOLEAN
        BY <1>1 DEF RootsWork
    <2>3. /\ failures \in Nat /\ 2 * Cardinality(Among(chain)) + Owed <= failures
          /\ \A k \in 2 .. Len(chain) : Acceptable(chain[k]) \/ Rootless(chain[k])
        BY DEF DebtInv
    <2>4. ChainInv /\ ChainInv' /\ NodeInv(CudaPcs)
        BY DEF Inv, NodeInv
    <2>5. CASE Fewer /\ \A k \in 2 .. Len(chain') : Acceptable(chain'[k]) \/ Rootless(chain'[k])
        <3>1. 2 * Cardinality(Among(chain')) + Owed' <= failures'
            BY <1>1, <2>3, <2>4, <2>5, FewerCount, Owes
        <3> QED
            BY <1>1, <2>2, <2>5, <3>1, Owes DEF DebtInv
    <2>6. CASE /\ cli.pc = "push" /\ Rootless(Mined) /\ cli'.pc = "verify"
               /\ chain' = Append(chain, Mined)
        <3>1. Mined \in Block
            BY <2>4, <2>6, MinedFacts
        <3>2. Cardinality(Among(chain')) <= Cardinality(Among(chain)) + 1
            BY <2>4, <2>6, <3>1, OneMore
        <3>3. Cardinality(Among(chain)) \in Nat /\ Cardinality(Among(chain')) \in Nat
            BY <2>4, AmongFinite DEF ChainInv
        <3>4. Owed = 2 /\ Owed' = 0
            BY <2>6 DEF Owed
        <3>5. 2 * Cardinality(Among(chain')) + Owed' <= failures'
            BY <1>1, <2>3, <3>2, <3>3, <3>4, Owes
        <3>6. \A k \in 2 .. Len(chain') : Acceptable(chain'[k]) \/ Rootless(chain'[k])
            <4>1. /\ Len(chain) \in Nat
                  /\ Len(chain') = Len(chain) + 1 /\ chain'[Len(chain) + 1] = Mined
                  /\ \A k \in 1 .. Len(chain) : chain'[k] = chain[k]
                BY <2>4, <2>6, <3>1, ChainPush, ChainFacts
            <4>2. \A k \in 2 .. Len(chain') :
                      k = Len(chain) + 1 \/ (k \in 2 .. Len(chain) /\ chain'[k] = chain[k])
                BY <4>1
            <4> QED
                BY <2>3, <2>6, <4>1, <4>2
        <3> QED
            BY <1>1, <2>2, <2>6, <3>5, <3>6, Owes DEF DebtInv
    <2> QED
        BY <2>1, <2>5, <2>6, Writes
<1>2. CASE Restart /\ failures' = 0 /\ raced' = FALSE
    <2>1. chain' \in StartChains /\ cli'.pc = "menu" /\ ~seen'.broken
        BY <1>2 DEF Restart, NodeRestart, CliIdle, Calm
    <2>2. Owed' = 0 /\ cli'.pc # "push" /\ failures' = 0 /\ raced' = FALSE
        BY <1>2, <2>1 DEF Owed
    <2>3. /\ \A k \in 2 .. Len(chain') : Acceptable(chain'[k])
          /\ Cardinality(Among(chain')) = 0
        BY <2>1, StartRooted
    <2>4. 2 * Cardinality(Among(chain')) + Owed' <= failures'
        BY <2>2, <2>3
    <2> QED
        BY <2>1, <2>2, <2>3, <2>4 DEF DebtInv
<1>3. CASE UNCHANGED rootsVars
    BY <1>3 DEF rootsVars, vars, nodeVars, DebtInv, Owed, Mined
<1> QED
    BY <1>1, <1>2, <1>3 DEF RootsNext

\* With each block where its index says, getBlock finds the one that is meant.
LEMMA CopyFacts ==
    ASSUME Inv, IndexInv, ~seen.broken, cli.i < Len(chain), NEW k \in First(cli.i)
    PROVE  k = cli.i + 1 /\ chain[k] \in Block
<1>1. Len(chain) \in Nat /\ cli.i \in Nat /\ \A l \in 1 .. Len(chain) : chain[l] \in Block
    BY ChainFacts DEF Inv, NodeInv, CliInv, CliLocals
<1>2. k \in 1 .. Len(chain) /\ chain[k].index = cli.i
    BY DEF First, Holding
<1>3. chain[k].index = k - 1
    BY <1>2 DEF IndexInv
<1> QED
    BY <1>1, <1>2, <1>3

\* verifyChainGPU refuses a copy with a block that lacks its root.
LEMMA CaughtFacts ==
    ASSUME Inv, SentInv, ~raced, failures < 3, cli.pc = "copy", cli.i >= Len(chain), SnapValid
    PROVE  Among(chain) = {}
<1> SUFFICES ASSUME NEW k \in Among(chain)
             PROVE  FALSE
    OBVIOUS
<1>1. Len(chain) \in Nat /\ cli.i \in Nat /\ \A l \in 1 .. Len(chain) : chain[l] \in Block
    BY ChainFacts DEF Inv, NodeInv, CliInv, CliLocals
<1>2. k \in 2 .. Len(chain) /\ Rootless(chain[k]) /\ chain[k] \in Block
    BY <1>1 DEF Among
<1>3. Len(snap) = cli.i /\ snap[k] = chain[k]
    BY <1>1, <1>2 DEF SentInv
<1>4. k - 1 \in 1 .. Len(snap) - 1 /\ (k - 1) + 1 = k
    BY <1>1, <1>2, <1>3
<1>5. HeaderMatches(snap[k])
    BY <1>4 DEF SnapValid, PairValid
<1> QED
    BY <1>2, <1>3, <1>5, RootedFacts

\* While the chain has no block without a root, toJSON writes none.
LEMMA CleanEntry ==
    ASSUME Inv, NEW i \in Nat, i < Len(chain), Among(chain) = {},
           NEW json \in Json, Among(json.data) = {}
    PROVE  Among(PutEntry(json, chain[i + 1]).data) = {}
<1> DEFINE b   == chain[i + 1]
           put == PutEntry(json, b)
<1>1. /\ Len(chain) \in Nat /\ i + 1 \in 1 .. Len(chain) /\ b \in Block
      /\ Len(json.data) \in Nat
    BY ChainFacts, LenProperties DEF Inv, NodeInv, Json
<1>2. ~Rootless(b)
    <2>1. CASE i = 0
        BY <2>1, GenesisFacts, RootedFacts DEF Inv, NodeInv, ChainInv, Acceptable
    <2>2. CASE i # 0
        <3>1. i + 1 \in 2 .. Len(chain) /\ b # Null
            BY <1>1, <2>2, ChainAssumption
        <3> QED
            BY <3>1 DEF Among
    <2> QED
        BY <2>1, <2>2
<1>3. ASSUME NEW k \in 2 .. Len(put.data), put.data[k] # Null
      PROVE  ~Rootless(put.data[k])
    <2>1. k \in Nat /\ put.data[k] = IF k = b.index + 1 THEN b
                                     ELSE IF k <= Len(json.data) THEN json.data[k] ELSE Null
        BY <1>1, PutEntryFacts
    <2>2. CASE k = b.index + 1
        BY <1>2, <2>1, <2>2
    <2>3. CASE k # b.index + 1
        <3>1. k \in 2 .. Len(json.data) /\ put.data[k] = json.data[k]
            BY <1>1, <1>3, <2>1, <2>3
        <3> QED
            BY <1>3, <3>1 DEF Among
    <2> QED
        BY <2>2, <2>3
<1> QED
    BY <1>3 DEF Among

\* The copy of the chain belongs to the command that verifies it.
CopyOver == cli'.pc \notin {"copy", "length", "entries", "send"} /\ snap' = <<>>

\* A step either ends the copying, or leaves it to the handler, or is one of its own.
LEMMA SentCases ==
    ASSUME Inv, SentInv, DebtInv, RootsWork
    PROVE  \/ CopyOver
           \/ UNCHANGED <<cli, snap>> /\ Fewer
           \/ CliVerifyShort \/ CliVerifyLong \/ CliCopy \/ CopyRootless \/ CliValid
           \/ (CliLength \/ CliEntry \/ CliDump \/ CliPost) /\ UNCHANGED snap
<1>1. cli \in CliLocals(CudaPcs)
    BY DEF Inv, NodeInv, CliInv
<1>2. cli.pc # "copy" => snap = <<>>
    BY DEF SentInv
<1>3. CASE \E d \in Data : Common(CliBegin(d, "reset"))
    <2>1. cli.pc = "menu" /\ cli'.pc = "reset" /\ UNCHANGED snap
        BY <1>1, <1>3 DEF Common, CliBegin, CliLocals, cudaVars
    <2> QED
        BY <1>2, <2>1 DEF CopyOver
<1>4. CASE Common(CliShared \/ CliCheck("verify") \/ CliPush("verify"))
    <2>1. UNCHANGED snap
        BY <1>4 DEF Common, cudaVars
    <2>2. CASE CliReadNum \/ CliReadPrev
        <3>1. cli.pc \in {"header", "args"} /\ cli'.pc = cli.pc
            BY <1>1, <2>2 DEF CliReadNum, CliReadPrev, CliLocals
        <3> QED
            BY <1>2, <2>1, <3>1 DEF CopyOver
    <2>3. CASE CliCheck("verify") \/ CliPush("verify")
        <3>1. cli.pc \in {"args", "push"} /\ cli'.pc \in {"push", "verify"}
            BY <1>1, <2>3 DEF CliCheck, CliPush, Fresh, CliIdle, CliLocals
        <3> QED
            BY <1>2, <2>1, <3>1 DEF CopyOver
    <2>4. CASE CliSent
        <3>1. cli.pc = "send" /\ cli'.pc = "menu"
            BY <2>4 DEF CliSent, CliMenu, Fresh, CliIdle
        <3> QED
            BY <1>2, <2>1, <3>1 DEF CopyOver
    <2>5. CASE CliLength \/ CliEntry \/ CliDump \/ CliPost
        BY <2>1, <2>5
    <2> QED
        BY <1>4, <2>2, <2>3, <2>4, <2>5 DEF Common, CliShared
<1>5. CASE CliReset \/ CliLaunch \/ CliQuery \/ CliPoll
    <2>1. /\ cli.pc \in {"reset", "header", "query", "poll"} /\ UNCHANGED snap
          /\ cli'.pc \in {"header", "query", "poll", "sync"}
        <3>1. CASE CliReset
            BY <1>1, <3>1 DEF CliReset, CliLocals
        <3>2. CASE CliLaunch \/ CliQuery
            BY <1>1, <3>2 DEF CliLaunch, CliQuery, CliLocals
        <3>3. CASE CliPoll
            <4>1. cli.pc = "poll" /\ cli'.pc \in {"query", "sync"}
                BY <1>1, <3>3 DEF CliPoll, CliLocals
            <4>2. UNCHANGED snap
                BY <3>3, Zenon DEF CliPoll
            <4> QED
                BY <4>1, <4>2
        <3> QED
            BY <1>5, <3>1, <3>2, <3>3
    <2> QED
        BY <1>2, <2>1 DEF CopyOver
<1>6. CASE CliEnds
    <2>1. cli.pc \notin NoBlock /\ cli'.pc = "args"
        BY <1>6, EndsFacts DEF CliMined, Fresh, CliIdle, Inv
    <2>2. UNCHANGED snap
        BY <1>6, Zenon DEF CliEnds, CliFound, CliSearchError, FoundRootless
    <2> QED
        BY <1>2, <2>1, <2>2 DEF CopyOver, NoBlock
<1>7. CASE CliFail \/ CliCheckError \/ CheckRootless
    <2>1. CASE CliFail
        BY <1>2, <2>1 DEF CliFail, CliMenu, Fresh, CliIdle, CopyOver
    <2>2. CASE CliCheckError
        BY <1>2, <2>2 DEF CliCheckError, Fresh, CliIdle, cudaVars, CopyOver
    <2>3. CASE CheckRootless
        BY <1>1, <1>2, <2>3 DEF CheckRootless, CliLocals, cudaVars, CopyOver
    <2> QED
        BY <1>7, <2>1, <2>2, <2>3
<1>8. CASE CliCopyThrow \/ CliInvalid
    BY <1>8 DEF CliCopyThrow, CliInvalid, CliMenu, Fresh, CliIdle, CopyOver
<1>9. CASE Common(SrvRequest) \/ SrvNext
    <2>1. UNCHANGED <<cli, snap>>
        <3>1. UNCHANGED cli
            BY <1>9 DEF SrvNext, SrvHandle, SrvShared, SrvEntry, SrvDump, SrvReply, SrvPop,
                        SrvPopped, SrvOffer, SrvThrow, SrvPush, SrvFilled, SrvOfferError,
                        SrvInterrupt, SrvReplaced, Common, SrvRequest, SrvAddNode, SrvNewChain,
                        SrvLatest
        <3>2. UNCHANGED snap
            BY <1>9, Zenon DEF SrvNext, SrvHandle, SrvInterrupt, SrvOfferError, Common, cudaVars
        <3> QED
            BY <3>1, <3>2
    <2>2. Fewer
        <3>1. Step
            BY <1>9 DEF Step, Next, Work
        <3>2. ~(cli.pc = "push" /\ cli'.pc = "verify")
            BY <2>1
        <3> QED
            BY <3>1, <3>2, Writes
    <2> QED
        BY <2>1, <2>2
<1>10. CASE Common(Collide("verify"))
    <2>1. cli.pc = "push" /\ cli'.pc = "verify" /\ UNCHANGED snap
        BY <1>10 DEF Common, Collide, Fresh, CliIdle, cudaVars
    <2> QED
        BY <1>2, <2>1 DEF CopyOver
<1>11. CASE Kernel(GpuFind) \/ Kernel(GpuAbort) \/ Kernel(GpuExhausted)
    <2>1. UNCHANGED <<cli, snap, chain>>
        BY <1>11 DEF Kernel, nodeVars
    <2> QED
        BY <2>1 DEF Fewer
<1>12. CASE CliVerifyShort \/ CliVerifyLong \/ CliCopy \/ CopyRootless \/ CliValid
    BY <1>12
<1> QED
    BY <1>3, <1>4, <1>5, <1>6, <1>7, <1>8, <1>9, <1>10, <1>11, <1>12
       DEF RootsWork, Work, CliNext, CliSearch, CliEnds

\* A block that got in with two failures is not sent without a third.
LEMMA SentStep ==
    ASSUME Inv, IndexInv, DebtInv, SentInv, [RootsNext]_rootsVars
    PROVE  SentInv'
<1>1. CASE UNCHANGED rootsVars
    BY <1>1 DEF rootsVars, vars, nodeVars, cudaVars, SentInv
<1>2. CASE Restart
    <2>1. cli'.pc = "menu" /\ snap' = <<>>
        BY <1>2 DEF Restart, NodeRestart, CliIdle
    <2> QED
        BY <2>1 DEF SentInv
<1>3. CASE RootsWork
    <2>1. /\ cli \in CliLocals(CudaPcs) /\ cli.i \in Nat /\ cli.json \in Json
          /\ snap \in Seq(Copied)
          /\ Len(chain) \in Nat
        BY ChainFacts DEF Inv, NodeInv, CliInv, CliLocals, OwnInv
    <2>2. failures \in Nat /\ failures' \in Nat /\ failures <= failures'
        BY <1>3, Owes DEF DebtInv
    <2>3. ~raced' /\ failures' < 3 => ~raced /\ failures < 3
        <3>1. failures' < 3 => failures < 3
            BY <2>2
        <3>2. ~raced' => ~raced
            BY <1>3, Zenon DEF RootsWork
        <3> QED
            BY <3>1, <3>2
    <2>4. ~raced => ~seen.broken
        BY DEF DebtInv
    <2>5. CASE CopyOver
        BY <2>5 DEF CopyOver, SentInv
    <2>6. CASE UNCHANGED <<cli, snap>> /\ Fewer
        <3>1. Among(chain) = {} => Among(chain') = {}
            BY <2>6 DEF Fewer
        <3>2. ASSUME ~raced, failures < 3, cli.pc = "copy"
              PROVE  \A k \in Among(chain') : k <= cli.i => snap[k] = chain'[k]
            BY <2>6, <3>2 DEF Fewer, SentInv
        <3> QED
            BY <2>3, <2>6, <3>1, <3>2 DEF SentInv
    <2>7. CASE CliVerifyShort
        <3>1. cli'.pc = "length" /\ UNCHANGED <<chain, snap>> /\ cli.pc = "verify"
            BY <2>1, <2>7 DEF CliVerifyShort, CliLocals, cudaVars
        <3>2. Among(chain) = {}
            BY <2>1, <2>7 DEF Among, CliVerifyShort
        <3> QED
            BY <3>1, <3>2 DEF SentInv
    <2>8. CASE CliVerifyLong
        <3>1. cli'.pc = "copy" /\ cli'.i = 0 /\ UNCHANGED <<chain, snap>> /\ cli.pc = "verify"
            BY <2>1, <2>8 DEF CliVerifyLong, CliLocals, cudaVars
        <3>2. \A k \in Among(chain) : ~(k <= 0)
            BY <2>1 DEF Among
        <3>3. snap' = <<>> /\ Len(snap') = 0
            BY <3>1, EmptySeq DEF SentInv
        <3> QED
            BY <3>1, <3>2, <3>3 DEF SentInv
    <2>9. CASE CliCopy \/ CopyRootless
        <3>1. /\ cli.pc = "copy" /\ cli.i < Len(chain) /\ cli'.pc = "copy" /\ cli'.i = cli.i + 1
              /\ UNCHANGED chain
            BY <2>1, <2>9 DEF CliCopy, CopyRootless, CliLocals
        <3>2. PICK k \in First(cli.i), b \in Copied :
                  /\ snap' = Append(snap, b)
                  /\ b = chain[k] \/ CopyRootless
            <4>1. \A k \in First(cli.i) : chain[k] \in Block
                BY ChainFacts DEF First, Holding, Inv, NodeInv
            <4>2. \A k \in First(cli.i) : /\ chain[k] \in Copied
                                         /\ [chain[k] EXCEPT !.data = NoRoot] \in Copied
                BY <4>1 DEF Block, Copied
            <4>3. CASE CliCopy
                BY <4>2, <4>3 DEF CliCopy
            <4>4. CASE CopyRootless
                <5>1. PICK k \in First(cli.i) :
                          snap' = Append(snap, [chain[k] EXCEPT !.data = NoRoot])
                    BY <4>4 DEF CopyRootless
                <5> QED
                    BY <4>2, <4>4, <5>1
            <4> QED
                BY <2>9, <4>3, <4>4
        <3>3. ASSUME ~raced', failures' < 3
              PROVE  /\ Len(snap') = cli'.i
                     /\ \A l \in Among(chain') : l <= cli'.i => snap'[l] = chain'[l]
            <4>1. ~raced /\ failures < 3 /\ ~seen.broken
                BY <2>3, <2>4, <3>3
            <4>2. k = cli.i + 1
                BY <3>1, <4>1, CopyFacts
            <4>3. /\ Len(snap) = cli.i /\ \A l \in Among(chain) : l <= cli.i => snap[l] = chain[l]
                BY <3>1, <4>1 DEF SentInv
            <4>4. /\ Len(snap') = cli.i + 1 /\ snap'[cli.i + 1] = b
                  /\ \A l \in 1 .. cli.i : snap'[l] = snap[l]
                BY <2>1, <3>2, <4>3, AppendProperties
            <4>5. ASSUME NEW l \in Among(chain), l <= cli.i + 1
                  PROVE  snap'[l] = chain[l]
                <5>1. l \in 2 .. Len(chain)
                    BY DEF Among
                <5>2. CASE l <= cli.i
                    BY <2>1, <4>3, <4>4, <5>1, <5>2
                <5>3. CASE l = cli.i + 1 /\ b = chain[k]
                    BY <4>2, <4>4, <5>3
                <5>4. CASE CopyRootless
                    <6>1. IsFiniteSet(Among(chain)) /\ Cardinality(Among(chain)) \in Nat
                        BY AmongFinite DEF Inv, NodeInv, ChainInv
                    <6>2. Cardinality(Among(chain)) # 0
                        BY <6>1, FS_EmptySet
                    <6>3. Owed \in Nat /\ 2 * Cardinality(Among(chain)) + Owed <= failures
                        BY DEF Owed, DebtInv
                    <6>4. failures >= 2
                        BY <2>2, <6>1, <6>2, <6>3
                    <6>5. failures' = failures + 1
                        BY <5>4 DEF CopyRootless, Fails
                    <6> QED
                        BY <2>2, <3>3, <6>4, <6>5
                <5>5. l <= cli.i \/ l = cli.i + 1
                    BY <2>1, <4>5, <5>1
                <5> QED
                    BY <3>2, <5>2, <5>3, <5>4, <5>5, Zenon
            <4> QED
                BY <3>1, <4>4, <4>5
        <3> QED
            BY <3>1, <3>3 DEF SentInv
    <2>10. CASE CliValid
        <3>1. cli'.pc = "length" /\ snap' = <<>> /\ UNCHANGED chain
            BY <2>1, <2>10 DEF CliValid, CliLocals
        <3>2. ~raced /\ failures < 3 => Among(chain) = {}
            BY <2>10, CaughtFacts DEF CliValid
        <3> QED
            BY <2>3, <3>1, <3>2 DEF SentInv
    <2>11. CASE (CliLength \/ CliEntry \/ CliDump \/ CliPost) /\ UNCHANGED snap
        <3>1. UNCHANGED chain
            BY <2>11 DEF CliLength, CliEntry, CliDump, CliPost
        <3>2. CASE CliLength
            <4>1. cli.pc = "length" /\ cli'.pc = "entries"
                  /\ cli'.json = [EmptyJson EXCEPT !.length = Len(chain)]
                BY <2>1, <3>2 DEF CliLength, CliLocals
            <4>2. Among(cli'.json.data) = {}
                <5>1. cli'.json.data = <<>> /\ Len(<<>>) = 0
                    BY <4>1 DEF EmptyJson
                <5> QED
                    BY <5>1 DEF Among
            <4> QED
                BY <2>3, <2>11, <3>1, <4>1, <4>2 DEF SentInv
        <3>3. CASE CliEntry
            <4>1. /\ cli.pc = "entries" /\ cli'.pc = "entries" /\ cli.i < Len(chain)
                  /\ cli'.json = PutEntry(cli.json, chain[cli.i + 1])
                BY <2>1, <3>3 DEF CliEntry, CliLocals
            <4>2. ~raced /\ failures < 3 => Among(cli'.json.data) = {}
                BY <2>1, <4>1, CleanEntry DEF SentInv
            <4> QED
                BY <2>3, <2>11, <3>1, <4>1, <4>2 DEF SentInv
        <3>4. CASE CliDump \/ CliPost
            <4>1. cli.pc \in {"entries", "send"} /\ cli'.pc = "send" /\ cli'.json = cli.json
                BY <2>1, <3>4 DEF CliDump, CliPost, CliLocals
            <4> QED
                BY <2>3, <2>11, <3>1, <4>1 DEF SentInv
        <3> QED
            BY <2>11, <3>2, <3>3, <3>4
    <2> QED
        BY <1>3, <2>5, <2>6, <2>7, <2>8, <2>9, <2>10, <2>11, SentCases
<1> QED
    BY <1>1, <1>2, <1>3 DEF RootsNext

-----------------------------------------------------------------------------
(* What both specifications have in common. *)

Life == Init /\ [][Step]_vars

\* A node is a node, whether its merkle roots go missing or not.
THEOREM Lives == (Spec => Life) /\ (RootsSpec => Life)
<1>1. [Next]_vars => [Step]_vars
    BY DEF Step
<1>2. [RootsNext]_rootsVars => [Step]_vars
    BY DEF RootsNext, RootsWork, rootsVars, Step, Next
<1> QED
    BY <1>1, <1>2, PTL DEF Spec, RootsSpec, RootsInit, Life

\* The inductive invariant holds in every state of every run.
THEOREM Invariance == Life => []Inv
<1>1. Init => Inv
    <2> SUFFICES ASSUME Init
                 PROVE  Inv
        OBVIOUS
    <2>1. NodeInv(CudaPcs)
        BY StartInv, CudaPlaces DEF Init
    <2>2. GpuIdle \in GpuType /\ <<>> \in Seq(Copied)
        BY EmptySeq DEF GpuIdle, GpuType
    <2>3. OwnInv
        BY <2>2, Zenon DEF Init, OwnInv
    <2> QED
        BY <2>1, <2>3 DEF Inv
<1>2. Inv /\ [Step]_vars => Inv'
    BY InvStep
<1> QED
    BY <1>1, <1>2, PTL DEF Life

\* So does what is known of the header that is searched.
THEOREM HeaderInvariance == Life => []HeaderInv
<1>1. Init => HeaderInv
    BY DEF Init, NodeInit, CliIdle, HeaderInv, Searching
<1>2. Inv /\ HeaderInv /\ [Step]_vars => HeaderInv'
    BY HeaderStep
<1> QED
    BY <1>1, <1>2, Invariance, PTL DEF Life

\* And what is known of a chain that both threads write.
THEOREM RaceInvariance == Life => [](LinkInv /\ LatestInv)
<1>1. Init => LinkInv /\ LatestInv
    BY StartLink, StartLatest DEF Init
<1>2. Inv /\ LinkInv /\ LatestInv /\ [Step]_vars => LinkInv' /\ LatestInv'
    BY LinkStep, LatestStep
<1> QED
    BY <1>1, <1>2, Invariance, PTL DEF Life

\* While no merkle root goes missing twice, every block is mined.
THEOREM MinedInvariance == Spec => []MinedInv
<1>1. Init => MinedInv
    BY StartMined DEF Init
<1>2. Inv /\ MinedInv /\ [Next]_vars => MinedInv'
    BY MinedStep
<1> QED
    BY <1>1, <1>2, Lives, Invariance, PTL DEF Spec

-----------------------------------------------------------------------------
\* Every variable always holds what its C++ counterpart can hold, the copy of the
\* chain in the verifier's memory included, whatever CUDA calls fail.
THEOREM TypeCorrect == RootsSpec => []TypeOK
<1>1. Inv => TypeOK
    BY NodeInvImplies, Zenon DEF Inv, OwnInv, GpuType, TypeOK
<1> QED
    BY <1>1, Lives, Invariance, PTL

\* While getMerkleRootGPU does not fail on both sides of a search, addBlock is the
\* only way in on a CUDA node too, whatever other CUDA calls fail.
THEOREM OnlyMinedBlocks == Spec => []BlocksMined
<1>1. MinedInv => BlocksMined
    BY DEF MinedInv
<1> QED
    BY <1>1, MinedInvariance, PTL

\* The documents it sends then are such as every node is assumed to be sent.
THEOREM Closed == Spec => []EmitsWellFormed
<1>1. MinedInv => EmitsWellFormed
    BY DEF MinedInv
<1> QED
    BY <1>1, MinedInvariance, PTL

\* And a command that found a nonce while no handler wrote the chain offers a block
\* that fits on its end, although the header was read before the GPU began to search.
THEOREM QuietCommandsAppend == Spec => []QuietAppend
<1>1. Init => QuietInv(CudaPcs)
    BY StartLink DEF Init
<1>2. Inv /\ HeaderInv /\ QuietInv(CudaPcs) /\ [Next]_vars => QuietInv(CudaPcs)'
    BY QuietStep
<1>3. Inv /\ LinkInv /\ QuietInv(CudaPcs) => QuietAppend
    BY QuietFits DEF Inv
<1> QED
    BY <1>1, <1>2, <1>3, Lives, Invariance, HeaderInvariance, RaceInvariance, PTL DEF Spec

\* When the handler has answered, a search whose header it made stale is flagged:
\* lowering the flag before the header is read and raising it after the chain is
\* written leaves no order of the two threads in which the search is missed.
THEOREM StaleSearchesFlagged == RootsSpec => []StaleIsFlagged
<1>1. HeaderInv => StaleIsFlagged
    <2> SUFFICES ASSUME HeaderInv, Searching, srv.pc = "idle"
                 PROVE  HeaderCurrent \/ interrupt \/ thrown
        BY DEF StaleIsFlagged
    <2>1. cli.todo = {} /\ (interrupt \/ thrown \/ ReadsCurrent)
        BY DEF HeaderInv, Replacing
    <2>2. ReadsCurrent => HeaderCurrent
        BY <2>1 DEF ReadsCurrent, HeaderCurrent
    <2> QED
        BY <2>1, <2>2, Zenon
<1> QED
    BY <1>1, Lives, HeaderInvariance, PTL

\* A CUDA node that is sent nothing but linked documents holds a linked chain at
\* every step, blocks refused for want of a merkle root or let in without one
\* included, unless its own command line appends while a handler replaces the chain.
THEOREM LinkedUnlessRaced == RootsSpec => []CorruptionNeedsRace
<1>1. LinkInv => CorruptionNeedsRace
    BY DEF LinkInv, LinkedDocs, CorruptionNeedsRace
<1> QED
    BY <1>1, Lives, RaceInvariance, PTL

\* A CUDA node answers GET /latestchain with a block for each index below the length
\* it names, although the chain may be shorter than the document it was filled from.
THEOREM LatestIsComplete == RootsSpec => []LatestComplete
<1>1. LatestInv => LatestComplete
    BY DEF LatestInv
<1> QED
    BY <1>1, Lives, RaceInvariance, PTL

\* A block that no nonce was found for, its data left out of its hash, gets into the
\* chain of a CUDA node only at the price of two calls of getMerkleRootGPU that fail,
\* and is sent only at the price of a third: what verifyChainGPU copies is what
\* toJSON writes, unless the command line once appended in the middle of a
\* replacement.
THEOREM RootlessBlocksAreRare == RootsSpec => []RootlessIsRare
<1>1. RootsInit => DebtInv /\ SentInv
    <2> SUFFICES ASSUME RootsInit
                 PROVE  DebtInv /\ SentInv
        OBVIOUS
    <2>1. chain \in StartChains /\ cli.pc = "menu" /\ ~seen.broken /\ snap = <<>>
          /\ failures = 0 /\ raced = FALSE
        BY DEF RootsInit, Init, NodeInit, CliIdle, Calm
    <2>2. /\ \A k \in 2 .. Len(chain) : Acceptable(chain[k])
          /\ Cardinality(Among(chain)) = 0 /\ Owed = 0
        BY <2>1, StartRooted DEF Owed
    <2>3. 2 * Cardinality(Among(chain)) + Owed <= failures
        BY <2>1, <2>2
    <2> QED
        BY <2>1, <2>2, <2>3 DEF DebtInv, SentInv
<1>2. Inv /\ Inv' /\ LatestInv /\ DebtInv /\ SentInv /\ [RootsNext]_rootsVars
          => DebtInv' /\ SentInv'
    BY DebtStep, SentStep DEF LatestInv
<1>3. Inv /\ DebtInv /\ SentInv => RootlessIsRare
    <2> SUFFICES ASSUME Inv, DebtInv, SentInv
                 PROVE  RootlessIsRare
        OBVIOUS
    <2>1. /\ failures \in Nat /\ Owed \in Nat /\ Cardinality(Among(chain)) \in Nat
          /\ 2 * Cardinality(Among(chain)) + Owed <= failures
        BY AmongFinite DEF DebtInv, Owed, Inv, NodeInv, ChainInv
    <2>2. 2 * Cardinality(Among(chain)) <= failures
        BY <2>1
    <2>3. cli.pc = "send" /\ Among(cli.json.data) # {} => failures >= 3 \/ raced
        BY <2>1 DEF SentInv
    <2> QED
        BY <2>2, <2>3 DEF RootlessIsRare, DebtInv
<1> QED
    BY <1>1, <1>2, <1>3, Lives, Invariance, RaceInvariance, PTL DEF RootsSpec

=============================================================================
