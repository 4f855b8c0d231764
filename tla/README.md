# A verification of the blockchain node and its CUDA version

The repository holds one peer-to-peer blockchain node twice: `src/c-implementation`
mines and verifies on the CPU, `src/cuda-implementation` moves mining, merkle trees
and verification to the GPU and adds a flag by which the network calls off a search.
This directory models both, model-checks small instances with TLC, and proves the
main safety properties for every instance with TLAPS.

Line references are to the CPU version unless a path says otherwise.

## 1. Inventory

A node is one process with two threads. The **main thread** runs the command line:
it mines a block, appends it, checks the whole chain and sends it to every node it
knows. The **server thread** runs the HTTP handlers, one at a time. The two share a
`BlockChain` (a vector of blocks) and `listOfNodes` (a vector of ports) *without any
lock*. Nothing is kept on disk.

| Component | State | Operations | Correct if |
| --- | --- | --- | --- |
| `BlockChain`, `Block` | `blockchain` | `addBlock`, `replaceChain`, `toJSON`, `isChainValid`, `getBlock`, the two getters | only mined blocks are stored; hashes link; a document holds what its length says; to everyone else a change is one change |
| Command line (`main.cpp`) | locals of the command | add a block (option 2), print one (option 1) | a mined block fits on the chain; what is sent was valid; every command ends |
| Handlers (`main.cpp`) | locals of the handler | `POST /addnode`, `GET /latestchain`, `POST /newchain` | only a shorter chain is replaced; a replacement is whole; every request is answered |
| Interrupt (`cuda/main.cpp`) | `networkInterrupt` | lowered before a search, raised after a replacement, polled | no stale search goes on unflagged; an interrupted search ends |
| GPU miner (`gpu_mining.cu`) | two mapped flags, one nonce | `findHashGPU`, `mineKernel` | one thread reports; a reported nonce solves the header; no nonce is tried twice; it stops soon after it is told to |
| GPU verifier (`verificationLink.cpp`, `gpu_verification.cu`) | copy of the chain, result flag | `verifyChainGPU`, `verifyChainKernel` | says yes exactly when all pairs are valid |
| GPU merkle tree (`gpu_merkle.cu`) | one buffer per call | `getMerkleRootGPU`, its two kernels | the root of the tree or a reported error; different messages have different roots |
| CPU miner (`common.hpp`) | none | `findHash`, `getMerkleRoot` | ends with the least nonce that solves the header |
| Peers (`requests.hpp`) | none | join, fetch the longest chain, broadcast | who was sent a chain has one as long; no chain is given up for one that is not longer; all of it ends |
| HTTP library | connections, timers, the scope counter | one request, one session, `ScopeRunner` | a handler runs at most twice, an answer means it ran; nothing waits for ever |
| JSON, SHA-256 | | | pure computation: see section 7 |

The components interact in three ways: calls on one thread (the command line calls
the miner, `addBlock`, `isChainValid`, `toJSON`, `sendNewChain` in this order); shared
memory between the threads of a process, and between the host and the kernel (the two
mapped flags); and HTTP requests with JSON documents between nodes.

What is hard about them, and what the project is built around:

* **Races.** The handler of `/newchain` empties the chain block by block and fills it
  again while the command line may be reading it, comparing its length or appending.
* **Stale state.** A search runs on a header read minutes ago; the arguments of
  `addBlock` are read again after it; the length test of `/newchain` is done once;
  the chain is checked, then read again to be sent.
* **Torn documents.** `toJSON` takes the length first. A document that names more
  blocks than it has is sent on, and makes `replaceChain` throw half-way at the
  receiver.
* **The interrupt.** It must be raised after the chain is written and lowered before
  the header is read; an exception skips it; it may arrive when a nonce is already
  found; a CUDA error returns something that is not the `"fail"` the caller expects.
* **Kernels.** Threads of a grid share flags, a result and a buffer, each at its own
  pace; a level of the merkle tree is reduced in place; errors give empty strings.
* **Distribution.** Nodes join, mine at the same time, crash and overtake each other;
  a request is sent twice when its connection breaks, or its timer runs out too late
  to be cancelled.

`PROJECT.json` lists the hazards one by one, at their lines, with the properties that
cover each.

## 2. The modules

    Chain              blocks, hashes, addBlock's test, the JSON document; no state
      Node             shared memory, both threads' common steps
        CpuNode        + findHash, isChainValid; Next, Spec, FairSpec
          CpuLedger    CpuNode implements Ledger (the abstract chain)
        CudaNode       + GpuSearch (the abstract search), interrupt, verifyChainGPU
          CudaRoots    + merkle roots that could not be computed
      Network          several nodes: joining, mining, broadcasting, crashes, losses
    MineKernel         the threads of mineKernel; implements GpuSearch
    VerifyKernel       the threads of verifyChainKernel
    Merkle, MerkleKernel   both merkle trees as functions; the kernels that reduce in place
    FindHash           the counter of findHash
    HttpExchange       one request: client, connections, timers; implements Exchange
    ScopeRunner        the counter that keeps callbacks out of a stopped scope
    MCDocs, MCCpuNode, MCCudaNode, MCNetwork     instances for TLC
    ChainProofs > NodeProofs > CpuNodeProofs, CudaNodeProofs (over CudaRoots)
    ChainProofs > NetworkProofs (Network, and Ledger as each node sees it)
    MineKernelProofs (also FindHash), KernelProofs (MerkleKernel, VerifyKernel),
    HttpProofs (also ScopeRunner)

The modules fit together at three abstract specifications, each the interface one of
them relies on and another implements: **GpuSearch** (CudaNode polls it, MineKernel is
it), **Exchange** (Network sends requests by it: at most two runs of the handler, an
answer only after a run; HttpExchange keeps it) and **Ledger** (a chain that changes in
one piece, as Network's handlers change it; CpuNode with all its steps implements it).

**Chain.** SHA-256 is taken to be collision free: the hash of a header *is* the list of
the headers hashed (index, payload, nonce) from the genesis block on. So `Sha256` is
`Append`, two hashes are equal exactly if their headers are, and a hash tells which
chain it was mined for. Whether a hash meets the target (`"000000"`) is decided by its
last nonce: the members of `Golden` are nonces that solve the header they are used
with, `NoNonce` is the one that never does. A payload stands for the 4000 copies of a
message and for their merkle root; `NoRoot` is the empty string in its place. `PutEntry`
and `Entry` are the array accesses of the JSON library: writing past the end fills the
gap with nulls, reading past it yields null.

**Node.** `chain` is `bc.blockchain` (TLA+ counts from 1, the code from 0), `nodes` is
`listOfNodes`, `cli` and `srv` are the program counters and locals of the two threads.
One action is one access to shared memory together with the thread-local work up to
the next: a call such as `addBlock` is therefore several actions (`CliCheck` and
`CliPush`; `SrvOffer` and `SrvPush`), `replaceChain` one per `pop_back` and per block,
`toJSON` one per block.

| Code | Actions |
| --- | --- |
| main.cpp:158-193, option 2 chosen | `CliBegin` |
| 195, 197: `getNumOfBlocks()`, `getLatestBlockHash()` in no fixed order | `CliReadNum`, `CliReadPrev` (`cli.todo` holds the reads still to make) |
| 195, `findHash` | `CpuNode!CliFindHash`; in CudaNode `CliReset`, `CliLaunch`, `CliQuery`, `CliPoll`, `CliFound`, `CliFail`, `CliSearchError` |
| 197, `addBlock` | `CliCheck`, `CliPush`; in CudaNode also `CliCheckError`, in CudaRoots `CheckRootless` |
| 198, `isChainValid` | `CliVerify`, `CliValid`, `CliInvalid`; in CudaNode `CliVerifyShort`, `CliVerifyLong`, `CliCopy`, `CliCopyThrow`, `CliValid`, `CliInvalid` |
| 201, `toJSON`, `sendNewChain` | `CliLength`, `CliEntry`, `CliDump`, `CliPost`, `CliSent` |
| 98-110 `/addnode` | `SrvAddNode` |
| 113-117 `/latestchain` | `SrvLatest`, `SrvEntry`, `SrvDump`, `SrvReply` |
| 123-140 `/newchain` | `SrvNewChain`, `SrvPop`, `SrvPopped`, `SrvOffer`, `SrvPush`, `SrvThrow`, `SrvFilled`, `SrvReplaced` (`SrvInterrupt` in CudaNode, which also has `SrvOfferError`) |
| both at once in the vector | `Collide` |
| Control-c, crash, end of the loop | `NodeRestart`, to any state a process starts in |

Unsynchronised accesses that overlap are undefined behaviour in C++. The model gives
them the outcomes the compiled vector has: a read sees the vector before or after a
write; of two overlapping writes to the end pointer either order may result or one
is lost (`Collide`); everything worse (a freed block dereferenced, a buffer moved
under a reader) is taken to end the process (`NodeRestart`). That a freed block could be
read as if it were intact is the one outcome left out.

`seen` is a history variable, read by no guard. `quiet`: no handler wrote the chain
since this command began; `stable`: none since the search ended; `broken`: the command
line appended to a chain that a handler was writing, and no replacement has cut the
chain back to genesis since. `thrown` of CudaNode is another: a replacement left through
its exception since the flag was last lowered. The properties use them to say what
exactly a race can do.

**CudaRoots.** `getMerkleRootGPU` returns `""` on any CUDA error and nobody looks: the
header is searched without its data (`FoundRootless`), `addBlock` makes its own header
(`CheckRootless`), the verifier one per block (`CopyRootless`). One failure alone is
caught, because the two sides then disagree; it takes two to store such a block, and a
third to have the verifier overlook it. The history `raced` is there for the one
exception: it notes that this process has once appended to a chain a handler was
writing. After that two blocks may have one index, and while `getBlock`, by which the
verifier copies the chain, finds the first of them, `toJSON` writes the last.

**Documents.** What peers post is any member of `Contents`; `NodeAssumption` asks each
to be `WellFormed`: a block sits in the slot of its index, and past slot 0 it was
admitted by `addBlock`. Nothing is asked of the length it names, of null slots or of the
links. That this is what the CPU program sends, in every race, is not assumed but proved
(`EmitsWellFormed`, theorem `Closed`).

**Network.** One record `main[n]` per node for its main thread, which is the only one
with something to do between two requests. Handlers are single steps (Ledger is why they
may be). `Start` and `Join` begin a process, `Announce` is `/addnode` at each named node,
`Fetch` is `/latestchain`, `Joined` replays the longest answer (or ends the process: with
no answer, `vect[0]` of requests.hpp:47 does not exist), and only then does the node
listen. `Mine`, `Mined`, `CalledOff`, `Post`, `Sent` are option 2. A peer that does not
listen is skipped (`Unanswered`); a lost answer makes the client send once more
(`Answered`), so a handler may run twice for one request. `Crash` ends a process; its
port stays in the lists of the others.

**MineKernel.** A step is one thread's look at one flag, one nonce tried, the swap, or
the write of the nonce; `iter` is kept modulo `CheckEvery`, the addition wraps at
`MaxNonce`. `CallOff` is the host. **VerifyKernel**: enter, test, clear the flag.
**MerkleKernel**: the lanes of a warp run in step, so a warp reads all its children and
then writes all its parents, into the same buffer, while other warps do theirs;
`raced` and `lost` (histories) note a slot written before it was read, and a launch on the
device that failed unnoticed. **Merkle** has the trees of both implementations as
functions: `Round` is one turn of the loop, `Tree` the levels one after the other, a
recursive function of their number, so that it can be reasoned about.

**HttpExchange.** The callbacks of Simple-Web-Server for one request of a client to a
server: connect, the two writes, the two reads, the second try; accept, read, respond,
send, and the timers. A timer that has run out (`Expire`) closes the connection in a
later step (`Close`), whatever the session does by then.

## 3. The runs

| Run | Question | Bounds | Distinct states |
| --- | --- | --- | --- |
| `cpu_safety` | what the chain, the block in the making and the documents sent satisfy; that commands and requests end; that a CPU node implements Ledger | 2 commands, torn documents, any number of restarts | 363,165 |
| `cuda_safety` | the same for a CUDA node with the interrupt, failing CUDA calls and missing merkle roots | 1 command, torn documents, 3 missing roots | 982,936 |
| `mine` | the grid: who reports, what is tried, when it stops; that it implements GpuSearch | 3 threads, 10 nonces, a look every 2 rounds, every set of golden nonces | 1,119,448 |
| `verify` | the verifier's verdict | chains of 2 to 6 blocks, thread blocks of 3, every set of bad pairs | 46,088 |
| `merkle` | what a wrong root needs; that roots bind the messages | 1 to 7 messages of two kinds, warps of 2, errors and lost launches | 21,386 |
| `http` | what a caller may rely on; that the server lets go of every connection | 4 kinds of request, 2 crashes | 24,243 |
| `net` | broadcasts and links | 3 nodes, 2 genesis nonces, 3 blocks, 1 crash, interrupts | 1,555,179 |
| `net_live` | joining and sending end; no chain is given up for one not longer | 2 nodes, 3 blocks, 1 crash, 1 loss, any named peers | 43,365 |
| `find_hash` | the 32-bit counter | 8 nonces, every set of golden ones | 765 |
| `cpu_sent`, `cuda_linked`, `net_agree` | three statements of the repository that do not hold (section 6) | | stop at the counterexample |

*Why these are enough.* Two payloads make two different chains of equal length; three
blocks are the least with a middle: a chain is popped from 3 to 2 to 1 and filled
again, so a command can meet each stage. Documents of the CPU runs are the chains
`<<d1>>`, `<<d1, d2>>` and `<<d2, d2>>` on genesis (the first a prefix of the second, the
third a fork of both) and one that names more blocks than it holds; `cuda_safety` does
without the second, and its torn document names five blocks and holds two, so that a
chain of four is dropped for it too. Two commands are enough
for one to leave something behind for the next (a broken chain, a longer chain);
`cuda_safety` has one, in return for the errors. `MaxRounds` stands for the 100000 rounds
of the command loop, `MaxNodes` bounds `listOfNodes`. Three missing roots are one more
than a rootless block needs to be stored, and what it needs to be sent. In `mine` each of
three threads has at least three nonces, so each passes a look at the flags, and the
10 words are not a multiple of the stride, as 2^32 is not one of other grids. In `merkle`
seven leaves give three levels of which two are odd, and two warps on the lowest. In
`net` three nodes are the least where a sender is overtaken at a peer it has served;
requests are lost there only by crashes and closed ports, in `net_live` also by
themselves. Ports are symmetric in `net`. `MaxLength`, `MaxCrashes` and `MaxLosses` cap the
counters of Network in its guards, `MaxCrashes` that of HttpExchange, `MaxFailures` that
of CudaRoots. Where a run does not check deadlock its system comes to rest: kernels and
requests end, and a network at its bounds has nothing left to do.

What each property means:

* `BlocksMined` - every stored block but the first carries the hash of its own header,
  with six zeros. Between test and `push_back` the other thread may do anything.
* `EmitsWellFormed` - see above; the environment assumption is closed.
* `QuietAppend` - the arguments of `addBlock` are read again after the search; if no
  handler wrote the chain since the command began, the block fits, in whatever order
  the reads were made.
* `CorruptionNeedsRace` - linked documents, whole or torn, keep the chain linked at
  every step, in the middle of a replacement and after an exception too, unless the
  node's own command line appended to a chain being written. It delimits exactly which
  step corrupts a chain, and what heals it.
* `InstalledWhole` - a replacement that ends has stored every block of the document,
  unless it was raced.
* `LatestComplete` - `/latestchain` never answers with a torn document (only a handler
  shortens the chain, and handlers run one at a time); unlike `sendNewChain`.
* `ChangesInOnePiece` - refinement: from the length test on, the chain counts as what the
  handler is going to make of it; seen so, each of the two threads' many steps is a step
  of Ledger or none, until the command line races a replacement or the process ends.
* `StaleIsFlagged` - when no handler is running, a search whose header is out of date is
  flagged, unless a replacement threw. It depends on the order of four statements on two
  threads.
* `RootlessIsRare` - a block gets into the chain unmined only by two failures of
  `getMerkleRootGPU` in the right places, each failure counts for one block only, and no
  such block leaves the node without a third, unless the node has raced a replacement.
* `ResultSolves`, `FirstKeeps` - the nonce the host reads solves the header, and it is
  that of the thread that won the swap; no loser writes.
* `EachItsOwn`, `GaveUpLate` - no nonce is tried twice, and a grid that gives up has tried
  all but the last stride of the 32-bit words.
* `SoonOver` - after the abort flag is up no thread tries more nonces than it does between
  two looks at it.
* `Searches` - refinement with fairness: the grid is the search CudaNode polls.
* `VerdictExact`, `NoFalseAlarm` - early exits and repeated clearing of the flag change
  nothing about the verdict.
* `OnlyRacesHurt` - a wrong root is always the work of a write before a read between
  warps or of a lost launch; `RootsBind` - different messages have different roots.
* `AlwaysTimed`, `SessionsEnd`, `RunsInTurn`, `KeepsPromise` - no wait of a session is
  without a timer; a handler never runs for a connection the client has left;
  refinement: HttpExchange implements Exchange.
* `BroadcastReaches` - whoever took a chain that is still being sent has one at least as
  long, although others send theirs meanwhile. `SentLinked`, `ChainsLinked` - nodes with
  different genesis blocks can join, and then only the first link of a chain is broken,
  and such a chain is never sent. `OnlyGrows` - also when a request runs twice.
* `LeastNonce`, `NeverFails`, `SolvesIfAny` - `findHash` finds the least golden nonce, and
  never returns `"fail"`: its 32-bit counter wraps below the bound it is compared with.
* `RequestsEnd`, `CommandsEnd`, `InterruptEndsSearch`, `JoinsEnd`, `SendsEnd` - liveness,
  next section.

Each property of a passing run has a mutant: a plausible slip in a mapped definition
(a dropped hash test, an index off by one, a loop that stops early, a flag lowered
twice) under which the same run finds it violated.

## 4. Fairness

`CpuNode!FairSpec` has weak fairness of each thread's step: the operating system runs
both, and neither waits for a lock. Users and peers owe nothing, so `CliBegin` and
`SrvRequest` are not fair. The search of the CPU node is part of the fair main thread
because a golden nonce is taken to exist (FindHash shows that it is found then, and that
the search never ends otherwise). In CudaNode the search may go on for ever: only
`GpuAbort` is fair, and `InterruptEndsSearch` holds without fairness of `GpuFind`; that the
kernel keeps this promise is `Searches`, under weak fairness of every thread of the grid
(the device runs all resident warps).

The loops that run to the size of a vector the other thread changes end because the
command line appends at most one block per command, and a handler cannot start a
replacement unless the document is longer than the chain; commands are bounded by the
loop of `main`. `CommandsEnd` and `RequestsEnd` check this.

`Network!FairSpec` is fair to each main thread's own steps, not to users (`Start`, `Join`,
`Mine`) nor to crashes. `HttpExchange!FairSpec` is fair to the callbacks of the client and
of each connection, timers included: the two `io_service`s run. It is not fair to a user
who restarts a server.

## 5. What is proved

Every safety invariant and every action property that a run checks is a theorem, and so is
the safety part of each refinement. The node's theorems hold for any `Data`, `Golden`,
`Contents`, `Ports`, `MaxRounds` and `MaxNodes` that satisfy `ChainAssumption` (the marker
values differ from real ones) and `NodeAssumption` (documents are well formed).

| Module | Theorem | Property |
| --- | --- | --- |
| `CpuNodeProofs` | `TypeCorrect`, `OnlyMinedBlocks`, `Closed` | `TypeOK`, `BlocksMined`, `EmitsWellFormed` |
| | `LinkedUnlessRaced`, `QuietCommandsAppend` | `CorruptionNeedsRace`, `QuietAppend` |
| | `ReplacementsInstall`, `LatestIsComplete` | `InstalledWhole`, `LatestComplete` |
| | `ChangesAtOnce` | `ChangesInOnePiece`: the refinement of Ledger, restarts included |
| `CudaNodeProofs` | `TypeCorrect`, `LinkedUnlessRaced`, `LatestIsComplete` | `TypeOK`, `CorruptionNeedsRace`, `LatestComplete` of CudaRoots |
| | `StaleSearchesFlagged`, `RootlessBlocksAreRare` | `StaleIsFlagged`, `RootlessIsRare` of CudaRoots |
| | `OnlyMinedBlocks`, `Closed`, `QuietCommandsAppend` | `BlocksMined`, `EmitsWellFormed`, `QuietAppend` of CudaNode |
| `NetworkProofs` | `TypeCorrect`, `ChainsAreLinked`, `SentChainsLinked` | `TypeOK`, `ChainsLinked`, `SentLinked` |
| | `BroadcastsReach`, `ChainsOnlyGrow` | `BroadcastReaches`, `OnlyGrows` |
| | `NodesKeepLedger` | each node of Network changes its chain as Ledger lets it |
| `HttpProofs` | `AlwaysTimedHolds`, `HandlersRunInTurn` | `AlwaysTimed`, `RunsInTurn` |
| | `PromiseKept` | the safety part of `KeepsPromise` |
| | `StopIsExclusive`, `RefusalsAreFinal` | `StopExcludes`, `RefusedOnlyIfStopped` of ScopeRunner |
| `MineKernelProofs` | `TypeCorrect` | `TypeOK` |
| | `ReportedNonceSolves`, `WinnerKeepsResult`, `CalledOffEndsSoon` | `ResultSolves`, `FirstKeeps`, `SoonOver` |
| | `NoncesAreTriedOnce`, `GivesUpAtTheEnd` | `EachItsOwn`, `GaveUpLate` |
| | `KernelIsSearch` | the safety part of `Searches` |
| | `LeastIsFound`, `NeverGivesUp` | `LeastNonce`, `NeverFails` of FindHash |
| `KernelProofs` | `LevelsFit`, `RootsAreExact`, `HeadersBind` | `TypeOK`, `OnlyRacesHurt`, `RootsBind` of MerkleKernel |
| | `GridFits`, `VerdictCorrect`, `AlarmsAreTrue` | `VerifyTypeOK`, `VerdictExact`, `NoFalseAlarm` of VerifyKernel |

*CpuNode.* None of the safety properties is inductive alone, because a block is tested in
one step and stored in a later one. `NodeInv` (NodeProofs) is what the variables hold, and
what a thread knows of its place: the entry the handler is at is not null. `MinedInv` adds
that in `push` the block of the command line is acceptable; the handler's is, because the
document is well formed. Note that neither says that the index of such a block still
equals the length of the chain: that is what races destroy.

`LinkInv` adds what is true only without a race: while the command line
holds its arguments and no handler has written since the search (`stable`), they are
current; a chain being filled is a prefix of the document, and no longer than the index of
the next block, unless the command line wrote into it (`broken`); and then it is linked.
Popping keeps links, and a chain cut back to two blocks or fewer is whole again.
`QuietInv` follows a command from its first read to its append: undisturbed, the hash
found is that of the next block. All are proved for `SharedNext(pcs)`, the steps both
implementations share, with the set `pcs` of places of the command line as a parameter.
On the CPU no block of a well-formed document is refused, so the prefix is as long as the
index (`NoneRefused`), which `InstalledWhole` rests on. `LatestInv` is the argument for
`LatestComplete`: blocks sit at their index (`IndexInv`), and no block is taken off while
the handler of `/latestchain` has the server's only thread, so that `toJSON` fills every
slot it has been through (`ServeInv`).

For `ChangesAtOnce`, `WithinInv` keeps the handler within its document; when the loop has
nothing left to take, the prefix of `LinkInv` is the whole of `Installed(content)`
(`ArrivedFacts`), so the last step of a replacement does not change what it counts as.

*CudaNode.* `Inv` is `NodeInv(CudaPcs)` with the types of the flags, the kernel and the
verifier's copy. It and most of what follows is proved for `Life`, whose `Step` is that of
CudaNode or of CudaRoots; the shared lemmas do the common steps. `StaleIsFlagged` is not
inductive, since a header is read in two steps before the search begins and the chain is
written in many before the flag goes up: `HeaderInv` says of every place from the reset on
that a replacement is under way, or the flag is up, or one threw, or the reads made so far
tell the chain as it is. A CUDA error makes `addBlock` refuse a block; the handler goes on,
and the chain is shorter than the index of every later block, so those are refused too:
the prefix of `LinkInv` lags behind, but is a prefix, and still linked.

`BlocksMined` is false of CudaRoots, which is why that has `RootlessIsRare`. It is proved by
keeping books. `DebtInv`: the blocks without their root, two each, and what the block in
the making owes, one from its hash and one from its second header, never exceed the
failures so far; a failure thus pays for one block only, and restarts or a shorter chain
only cancel debts. `SentInv`: with fewer than three failures and no race, the verifier
has found the rootless block, if any, in its place in the copy, and says no.

*Network.* `GoodChain` holds of each chain a node serves or has in hand: a genesis block of
the network's, mined blocks on it in their places that link from the second on, and
throughout if there is but one genesis block. It is kept because an append fits the hash
it was mined for (`AppendFacts`), and because `Refill`, the sequence a receiver builds out
of a document, is given in closed form (`RefillFacts`): a prefix behind the receiver's own
genesis block, which is where the first link breaks. `Took` says of every sender that the
peers in `got` hold a chain as long as what it sends; it survives what other nodes do
because of `Grows`, the step property behind `OnlyGrows`. Assumed is that the nodes and the
genesis nonces are finite in number: a node is a 16-bit port, a nonce a 32-bit word. The
bounds on length, crashes and losses are any numbers.

`NodesKeepLedger` joins the levels: `ChangesAtOnce` says that the threads of one process
implement Ledger, and this theorem that what Network does to a serving node's chain in one
step is a step of Ledger too, with the documents of the network (`Documents`, all of them
well formed, which is what `NodeAssumption` asks for) and with a first chain that is one of
`Starts`. `RefillIsInstalled` is the heart of it: the chain built from a good document is
the whole of `Installed`. So Network assumes of a node no more than CpuNode does while
`raced` is false, and leaves out the chains that a race makes.

*HTTP.* `ConnInv` relates a connection to the client that made it: it is open only while
the client waits at it, a session that waits has a timer, or one that has run out, or the
connection is cut. `ClientInv` counts: a request not yet taken off a connection means
fewer runs than connections. From both, every step of HttpExchange is a step of
Exchange or none. ScopeRunner: the counter is the number of callbacks in the
scope (`FiniteSetTheorems` for the cardinality), or -1 and nobody is in. Its
assumption, that callbacks are finite in number and stop nothing, is part of the
theorems; no run has it as an instance, because the nodes never stop a server or a client
while a callback of it can run.

*The miners.* The flag is up exactly when a thread has won, who either has yet to
write a golden nonce or has written it (`Winner`); `late` and `iter` together bound what a
thread tries after the abort flag (`Lateness`). `Columns`: a thread's nonces are those with
its remainder by the stride, and it has passed no golden one, so two threads never meet,
and who has given up was in the last stride, so that the addition never wraps. Assumed is
room for two strides in a word: the grid has far fewer than 2^31 threads. `findHash`
has passed no golden nonce below its counter, and its bound lies above the largest word.

*Kernels that share a buffer.* `TreeInv` says that there is a level `k` of the tree which
the buffer stands for. While a grid runs (`Follows`): a warp that has still to read finds
level `k`, doubled, in its slots, one that has read has its pairs, and one that is done has
written its part of level `k + 1`; so unless a write came before a read, or a launch was
lost, the grid leaves level `k + 1`. That the levels exist (`TreeDefined`), shrink
(`TreeShrinks`), end in one hash (`TreeSettles`) and that different lists have different
ones (`TreesBind`) is induction over numbers. The library's induction theorems take
an operator as parameter and cannot be cited; a set of numbers instead has a least member
(`LeastOf`, from `WFMin`), and the least exception to a claim, if there were one, would
not be an exception (`Ascent`). VerifyKernel: a thread that is done and found nothing saw a
valid pair or a cleared flag, for a chain of any length and any thread block that is not
empty (`VerifyAssumption`).

*Only model-checked:* what is about eventually, that is `RequestsEnd`, `CommandsEnd`,
`InterruptEndsSearch`, `SessionsEnd`, `JoinsEnd`, `SendsEnd`, `SolvesIfAny`, and the fairness
half of `Searches` and `KeepsPromise`. It is out of the prover's reach.

## 6. What the repository says and the code does not

* **"=>Valid Blockchain Sent"** (main.cpp:199). The chain is checked and then read again
  to be sent. `cpu_sent`: a handler starts to replace the chain in between; the
  document names more blocks than it holds.
* **"completely eliminates synchronization forks and chain corruption"** (src/README.md:53).
  `cuda_linked`: the interrupt stops a search, not the append after it; a block of the
  old chain lands in the new one.
* **"There can only be one explicit set of blocks in the chain at a given time [...] the
  longest chain is chosen"** (c-implementation/README.md:32). `net_agree`: two nodes mine
  at the same time; chains of equal length replace nothing, and the fork stays.

Facts met while modelling, which the models show but no run is kept for:

* main.cpp:127: the length is compared once. The command line may append after it, and
  `replaceChain` then drops a chain as long as the document (`SrvNewChain`, `CliPush`, `SrvPop`).
* cuda/main.cpp:145: a torn document makes `replaceChain` throw when the old chain is
  already gone, and the handler leaves past the store of the interrupt (`SrvThrow`;
  `thrown` in `StaleIsFlagged`).
* cuda/main.cpp:88 takes the genesis block to be the same everywhere. Which golden nonce a
  grid reports depends on which thread swaps first, so it need not be (`GenesisNonces`).
* verificationLink.cpp:18-39: `getBlock` finds the first block with an index, `toJSON` writes
  the last. After a race both can exist, and the chain that is sent is not the one that
  was verified (`raced` in `RootlessIsRare`).
* gpu_merkle.cu:24: with more than one warp the second may write its parents over
  children the first has still to read: the root is then not that of the messages
  (`raced` in `OnlyRacesHurt`).
* main.cpp:79-80: a node announces itself before it listens; a block sent to it in between
  is lost to it until the sender mines again.
* requests.hpp:82: two nodes that join at once never learn of each other.

## 7. What is not modelled, and why

* SHA-256 (`hash.hpp`, `gpu_sha256.cu`): bit arithmetic without state; collision freedom is
  assumed.
* The JSON library: two copies of a third-party parser and printer of 13003 lines each,
  that is four fifths of all implementation lines. Its only part in the node's behaviour
  is array access, modelled by `Entry` and `PutEntry`; the rest is a pure function of a
  text. For this reason the share of lines the map covers stays small whatever is
  modelled of the node.
* Of the HTTP library: parsing, chunked responses, proxies, persistent connections with
  several requests, base64 and digests (unused by the nodes). Assumed: one handler at a
  time (the server's default of one thread).
* Menu option 1, `toString`, timing and printing: no effect on the state.
* Reading input: any command may be entered at any time.
* A CUDA error while the process starts. A peer's document with blocks that were stored
  without their root (`NodeAssumption` excludes them, and they are refused by `addBlock`).
* A Network of CUDA nodes uses the CPU's test of a chain before it is sent; the GPU's
  compares the same fields and leaves out the target, which every stored block meets.
* A freed block read as if it were intact (section 2).

## 8. Plan

Done: every module of section 2, and a theorem for every safety property of the runs.
Left: what `NodesKeepLedger` shows of Network's chains, for its requests, namely that `Post`
and `Answered` are a run of the handler and an answer as Exchange allows them.
